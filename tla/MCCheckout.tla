----------------------------- MODULE MCCheckout ------------------------------
(***************************************************************************)
(* Small instances of Checkout: who sends which request, under which key.  *)
(***************************************************************************)
EXTENDS Checkout, TLC

CONSTANTS r1, r2, r3, r4, r5, r6, b1, b2, k1, k2, l1, l2, l3, l4

\* b1 has both variants in the cart, b2 has them added the other way round; of
\* one line the cart holds more than is confirmed.
Owner == l1 :> b1 @@ l2 :> b1 @@ l3 :> b2 @@ l4 :> b2
Variant == l1 :> 1 @@ l2 :> 2 @@ l3 :> 2 @@ l4 :> 1
InCart == [l \in Lines |-> IF l = l1 THEN 2 ELSE 1]

Both == l1 :> 1 @@ l2 :> 1
BothOfB2 == l3 :> 1 @@ l4 :> 1

\* A double click of b1 (r1 and r2), and b2 after the same two units, about a
\* total without the discount (r3).
ClickTwice == {r1, r2, r3}

\* b1 checks out one line in two tabs (r4, r5), and b2 another variant, under a
\* key that is taken already or will be (r6).  There is one use of the voucher.
TwoTabs == {r4, r5, r6}

Occasions == {ClickTwice, TwoTabs}

Buyer == [r \in Requests |-> IF r \in {r3, r6} THEN b2 ELSE b1]
Key == [r \in Requests |-> IF r \in {r3, r5} THEN k2 ELSE k1]
Body ==
  r1 :> Both @@ r2 :> Both @@ r3 :> BothOfB2 @@
  r4 :> (l1 :> 1) @@ r5 :> (l1 :> 1) @@ r6 :> (l3 :> 1)
Total == [r \in Requests |-> r # r3]
=============================================================================
