----------------------------- MODULE MCFrontend -----------------------------
(***************************************************************************)
(* A small instance of Frontend: a bundle of one kit and two nippers and   *)
(* the same kit on its own, and lists of a few rows.                       *)
(***************************************************************************)
EXTENDS Frontend, TLC

CONSTANTS kit, nipper

InBundle == kit :> 1 @@ nipper :> 2

\* Numbers in the opposite order of ids.
Numbers == [i \in Ids |-> 10 - i]
=============================================================================
