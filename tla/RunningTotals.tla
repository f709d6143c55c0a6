---------------------------- MODULE RunningTotals ----------------------------
(***************************************************************************)
(* The sum of a function on 1..n, said with its running totals instead of  *)
(* by recursion: a total is right when there is a run of partial sums that *)
(* leads to it.  Written this way the sum can be computed by TLC and       *)
(* reasoned about without induction.                                       *)
(***************************************************************************)
EXTENDS Integers

\* run[i] is the sum of f over 1..i; the addends are never negative, so no
\* partial sum is below an earlier one.
IsRunOf(run, total, f, n) ==
  /\ run[0] = 0
  /\ run[n] = total
  /\ \A i \in 1..n : run[i] = run[i - 1] + f[i]
  /\ \A i, j \in 0..n : i <= j => run[i] <= run[j]

IsTotal(total, f, n) == \E run \in [0..n -> 0..total] : IsRunOf(run, total, f, n)
=============================================================================
