---------------------------- MODULE OrderPromise ----------------------------
(***************************************************************************)
(* What the store promises about its orders, as if each were placed at     *)
(* once: whoever is let through finds the key unused, the cart lines in no *)
(* other order, the units there and, with the voucher's discount in the    *)
(* total, a use of it left, all at the same moment.  An order is cancelled *)
(* once, and a request is answered once, with the order that its session   *)
(* placed under its key with its body.                                     *)
(***************************************************************************)
EXTENDS Integers, FiniteSets, Functions

CONSTANTS
  Requests, None,
  BuyerOf, KeyOf,
  Confirmed,   \* the body of each request
  Discounted,  \* whether it is about a total with the voucher's discount
  Taken,       \* the cart lines it takes
  Variants,
  Units,       \* the units of each variant it takes
  OnHand, UsageLimit, PerSessionLimit

VARIABLES
  orders,     \* the requests that placed an order
  cancelled,  \* the orders cancelled since
  redeemed,   \* the orders that use the voucher
  answer      \* the order a request was answered with

vars == <<orders, cancelled, redeemed, answer>>

Init ==
  /\ orders = {}
  /\ cancelled = {}
  /\ redeemed = {}
  /\ answer = [r \in Requests |-> None]

KeyUnused(r) == \A o \in orders : KeyOf[o] # KeyOf[r]

LinesFree(r) == \A o \in orders : Taken[o] \cap Taken[r] = {}

UnitsThere(r) ==
  \A v \in Variants : SumFunctionOnSet(Units[v], orders \ cancelled) + Units[v][r] <= OnHand

UseLeft(r) ==
  /\ Cardinality(redeemed) < UsageLimit
  /\ Cardinality({o \in redeemed : BuyerOf[o] = BuyerOf[r]}) < PerSessionLimit

Place(r) ==
  /\ KeyUnused(r)
  /\ LinesFree(r)
  /\ UnitsThere(r)
  /\ Discounted[r] => UseLeft(r)
  /\ orders' = orders \union {r}
  /\ redeemed' = IF Discounted[r] THEN redeemed \union {r} ELSE redeemed
  /\ UNCHANGED <<cancelled, answer>>

\* The units and the use of the voucher are there again.
Cancel(o) ==
  /\ o \in orders \ cancelled
  /\ cancelled' = cancelled \union {o}
  /\ redeemed' = redeemed \ {o}
  /\ UNCHANGED <<orders, answer>>

Answer(r) ==
  /\ answer[r] = None
  /\ \E o \in orders :
       /\ KeyOf[o] = KeyOf[r] /\ BuyerOf[o] = BuyerOf[r]
       /\ Confirmed[o] = Confirmed[r] /\ Discounted[o] = Discounted[r]
       /\ answer' = [answer EXCEPT ![r] = o]
  /\ UNCHANGED <<orders, cancelled, redeemed>>

Next == \E r \in Requests : Place(r) \/ Cancel(r) \/ Answer(r)

Spec == Init /\ [][Next]_vars
=============================================================================
