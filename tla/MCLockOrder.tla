---------------------------- MODULE MCLockOrder -----------------------------
(***************************************************************************)
(* A small instance of LockOrder: two carts, four variants of two products *)
(* whose ids interleave, and three transactions of any kinds.              *)
(***************************************************************************)
EXTENDS LockOrder, TLC

CONSTANTS c1, c2, p1, p2, x, o1, o2, o3, k1, k2, w1, w2

Products == 1 :> p1 @@ 2 :> p2 @@ 3 :> p1 @@ 4 :> p2
CartLines == c1 :> {1, 2} @@ c2 :> {2, 3}

Job(kind, vs) ==
  [kind |-> kind, variants |-> vs, key |-> None, order |-> None, cart |-> None, voucher |-> None,
   review |-> None]

Placement(key, cart, vs, voucher) ==
  [Job("place", vs) EXCEPT !.key = key, !.cart = cart, !.voucher = voucher]
Moved(kind, order, vs, voucher) == [Job(kind, vs) EXCEPT !.order = order, !.voucher = voucher]
InCart(kind, cart, vs) == [Job(kind, vs) EXCEPT !.cart = cart]

SmallJobs ==
  {Placement(k1, c1, <<1, 2>>, x), Placement(k1, c1, <<1>>, None), Placement(k2, c1, <<2>>, x),
   Placement(k2, c2, <<2, 3>>, x), Placement(k2, c2, <<3, 2>>, None),
   Moved("release", o1, <<2, 1>>, x), Moved("release", o2, <<4, 1>>, None),
   Moved("dispatch", o2, <<1, 3>>, None), Moved("dispatch", o1, <<2, 3>>, None),
   Moved("dispatch", o3, <<4, 1>>, None),
   InCart("change", c1, <<1>>), InCart("change", c1, <<2, 1>>), InCart("change", c2, <<2>>),
   InCart("add", c1, <<1>>), InCart("add", c1, <<3>>), InCart("add", c2, <<1>>),
   InCart("add", c2, <<4, 1>>), InCart("add", c1, <<2, 1>>),
   [InCart("attach", c1, <<>>) EXCEPT !.voucher = x],
   Job("reprice", <<1>>), Job("reprice", <<2>>),
   [Job("moderate", <<1>>) EXCEPT !.review = w1], [Job("moderate", <<1>>) EXCEPT !.review = w2]}

\* No transaction is special.
Interchangeable == Permutations(Txns)
=============================================================================
