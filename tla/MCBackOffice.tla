---------------------------- MODULE MCBackOffice ----------------------------
(***************************************************************************)
(* A small instance of BackOffice: three requests in any order.            *)
(***************************************************************************)
EXTENDS BackOffice, TLC

NoValue ==
  [type |-> "PERCENTAGE", percentOff |-> None, amountIdr |-> None, maxDiscountIdr |-> None,
   startsAt |-> 1, endsAt |-> 2]

\* One voucher of each type, and one that is worth nothing.
AskedFor ==
  {NoValue,
   [NoValue EXCEPT !.percentOff = 50],
   [NoValue EXCEPT !.type = "FIXED_AMOUNT", !.amountIdr = 1, !.maxDiscountIdr = 2],
   [NoValue EXCEPT !.type = "FREE_SHIPPING", !.endsAt = 3]}

\* No request is special, nor is a variant or a picture.
Interchangeable == Permutations(Requests) \union Permutations(Variants) \union Permutations(Pictures)
=============================================================================
