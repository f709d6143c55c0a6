---------------------------- MODULE StockPromise ----------------------------
(***************************************************************************)
(* What the store promises about its shelf, order by order and without a   *)
(* counter: an order claims units, and a claim is either given back or     *)
(* shipped, once; what is shipped is what was claimed; and at every moment *)
(* the shelf covers all the claims that are open.                          *)
(***************************************************************************)
EXTENDS RunningTotals

CONSTANTS Variants, NumOrders, InitialStock

Orders == 1..NumOrders

VARIABLES
  onHand,  \* units on the shelf, per variant
  claim,   \* what became of each order's claim
  wants    \* the units each order claims, per variant

vars == <<onHand, claim, wants>>

Claims == {"none", "open", "shipped", "returned"}

Open(o, v) == IF claim[o] = "open" THEN wants[o][v] ELSE 0

\* The open claims on v add up to no more than the shelf holds.
Covered(v) ==
  \E total \in 0..onHand[v] :
    IsTotal(total, [o \in Orders |-> Open(o, v)], NumOrders)

Init ==
  /\ onHand = [v \in Variants |-> InitialStock]
  /\ claim = [o \in Orders |-> "none"]
  /\ wants = [o \in Orders |-> [v \in Variants |-> 0]]

\* A claim is opened for units that are there.
Claim(o) ==
  /\ claim[o] = "none"
  /\ claim' = [claim EXCEPT ![o] = "open"]
  /\ wants' \in [Orders -> [Variants -> Nat]]
  /\ \A p \in Orders \ {o} : wants'[p] = wants[p]
  /\ UNCHANGED onHand

Return(o) ==
  /\ claim[o] = "open"
  /\ claim' = [claim EXCEPT ![o] = "returned"]
  /\ UNCHANGED <<onHand, wants>>

Ship(o) ==
  /\ claim[o] = "open"
  /\ claim' = [claim EXCEPT ![o] = "shipped"]
  /\ onHand' = [v \in Variants |-> onHand[v] - wants[o][v]]
  /\ UNCHANGED wants

\* The operator counts the shelf again.
Recount(v) ==
  /\ \A u \in Variants \ {v} : onHand'[u] = onHand[u]
  /\ onHand' \in [Variants -> Nat]
  /\ UNCHANGED <<claim, wants>>

Step ==
  \/ \E o \in Orders : Claim(o) \/ Return(o) \/ Ship(o)
  \/ \E v \in Variants : Recount(v)

\* Whatever the step, the shelf covers the open claims after it.
Next == Step /\ \A v \in Variants : Covered(v)'

Spec == Init /\ [][Next]_vars
=============================================================================
