------------------------------ MODULE Frontend ------------------------------
(***************************************************************************)
(* What browsers do: the tabs of a session change its cart, someone pages  *)
(* through a list, a customer types and ticks.  The three share no state:  *)
(* a behaviour is about one of them.                                       *)
(***************************************************************************)
EXTENDS CartTabs, KeysetList, SearchBox

VARIABLE part

vars == <<part, cartVars, listVars, boxVars>>

Init ==
  /\ part \in {"cart", "list", "box"}
  /\ IF part = "cart" THEN CartInit ELSE EmptyCart
  /\ IF part = "list" THEN ListInit ELSE NoList
  /\ BoxInit

Next ==
  \/ part = "cart" /\ CartNext /\ UNCHANGED <<part, listVars, boxVars>>
  \/ part = "list" /\ ListNext /\ UNCHANGED <<part, cartVars, boxVars>>
  \/ part = "box" /\ BoxNext /\ UNCHANGED <<part, cartVars, listVars>>

Spec == Init /\ [][Next]_vars

\* A tab sends what waits, and a request that is under way gets an answer.
FairSpec ==
  /\ Spec
  /\ \A t \in Tabs : WF_vars(part = "cart" /\ SendNext(t) /\ UNCHANGED <<part, listVars, boxVars>>)
  /\ \A s \in Slots : WF_vars(part = "cart" /\ Handle(s) /\ UNCHANGED <<part, listVars, boxVars>>)
=============================================================================
