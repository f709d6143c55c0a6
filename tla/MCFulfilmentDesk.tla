-------------------------- MODULE MCFulfilmentDesk --------------------------
(***************************************************************************)
(* Small instances of FulfilmentDesk and of Reviews.                       *)
(***************************************************************************)
EXTENDS FulfilmentDesk, TLC

CONSTANTS o1, l1, l2, p1, s1, s2, s3

\* One order of two lines, both of one product.
OrderLines == o1 :> {l1, l2}
LineProduct == l1 :> p1 @@ l2 :> p1

\* Two forms race for the link of the first line.
FormLink == [s \in Submissions |-> IF s = s3 THEN l2 ELSE l1]
FormRating == [s \in Submissions |-> IF s = s3 THEN 2 ELSE 5]

\* No request at the desk and no moderation is special, nor are the two forms
\* of one link.
Interchangeable ==
  Permutations(Requests) \union Permutations(Decisions) \union Permutations({s1, s2})
=============================================================================
