------------------------- MODULE RunningTotalsProofs -------------------------
(***************************************************************************)
(* What a total says about its addends, and how it changes with one of     *)
(* them.  These are the only facts about sums the other proofs use.        *)
(***************************************************************************)
EXTENDS RunningTotals, TLAPS

\* Nothing adds up to nothing: the total of a function that is zero everywhere
\* is zero, as the reserved counters are before the first order.
LEMMA TotalOfNothing ==
  ASSUME NEW n \in Nat, NEW f \in [1..n -> Nat],
         \A i \in 1..n : f[i] = 0
  PROVE  IsTotal(0, f, n)
<1> DEFINE run == [i \in 0..n |-> 0]
<1>1. run \in [0..n -> 0..0]
  OBVIOUS
<1>2. IsRunOf(run, 0, f, n)
  BY DEF IsRunOf
<1> QED
  BY <1>1, <1>2 DEF IsTotal

\* The arithmetic of replacing an addend: a partial sum before it stays within
\* the new total, and so does one that already had it.
LEMMA Shift ==
  ASSUME NEW a \in Int, NEW b \in Int, NEW c \in Int, NEW x \in Nat, 0 <= a
  PROVE  /\ a <= c - b => a \in 0..(c - b + x)
         /\ b <= a /\ a <= c => a - b + x \in 0..(c - b + x)
OBVIOUS

\* When one addend changes from f[k] to x the total changes by as much, and no
\* addend is more than the total: the counter the transactions update by a
\* difference stays the sum of what the orders hold.
LEMMA TotalUpdate ==
  ASSUME NEW n \in Nat, NEW f \in [1..n -> Nat], NEW t \in Nat,
         IsTotal(t, f, n),
         NEW k \in 1..n, NEW x \in Nat
  PROVE  /\ f[k] <= t
         /\ IsTotal(t - f[k] + x, [f EXCEPT ![k] = x], n)
<1> DEFINE g == [f EXCEPT ![k] = x]
           u == t - f[k] + x
<1>1. PICK run \in [0..n -> 0..t] : IsRunOf(run, t, f, n)
  BY DEF IsTotal
<1>2. /\ run[0] = 0
      /\ run[n] = t
      /\ \A i \in 1..n : run[i] = run[i - 1] + f[i]
      /\ \A i, j \in 0..n : i <= j => run[i] <= run[j]
  BY <1>1 DEF IsRunOf
<1>3. /\ f[k] \in Nat
      /\ k - 1 \in 0..n /\ k \in 0..n /\ n \in 0..n
      /\ \A i \in 0..n : run[i] \in Nat
  BY <1>1
<1>4. run[k] = run[k - 1] + f[k]
  BY <1>2
<1>5. run[k] <= t
  BY <1>2, <1>3
<1>6. f[k] <= t
  BY <1>3, <1>4, <1>5
<1>7. \A i \in 0..n : i < k => run[i] <= run[k - 1]
  BY <1>2, <1>3
<1>8. \A i \in 0..n : k <= i => run[k] <= run[i]
  BY <1>2, <1>3
<1>9. \A i \in 0..n : run[i] <= t
  BY <1>1
<1> DEFINE new == [i \in 0..n |-> IF i < k THEN run[i] ELSE run[i] - f[k] + x]
<1>10. new \in [0..n -> 0..u]
  <2> SUFFICES ASSUME NEW i \in 0..n
               PROVE  new[i] \in 0..u
    OBVIOUS
  <2>1. run[i] \in Nat /\ run[k] \in Nat /\ run[k - 1] \in Nat
    BY <1>3
  <2>2. CASE i < k
    <3>1. run[i] <= run[k - 1] /\ run[k - 1] <= t - f[k]
      BY <2>1, <2>2, <1>3, <1>4, <1>5, <1>7
    <3>2. new[i] = run[i]
      BY <2>2
    <3>3. run[i] <= t - f[k]
      BY <2>1, <3>1, <1>3
    <3>4. run[i] \in 0..u
      BY <2>1, <3>3, <1>3, Shift
    <3> QED
      BY <3>2, <3>4
  <2>3. CASE ~(i < k)
    <3>1. run[k] <= run[i] /\ run[i] <= t
      BY <2>3, <1>8, <1>9
    <3>2. f[k] <= run[i]
      BY <2>1, <3>1, <1>3, <1>4
    <3>3. new[i] = run[i] - f[k] + x
      BY <2>3
    <3>4. run[i] - f[k] + x \in 0..u
      <4>1. run[i] \in Int /\ f[k] \in Int /\ t \in Int /\ 0 <= run[i]
        BY <2>1, <1>3
      <4> QED
        BY ONLY <4>1, <3>1, <3>2, x \in Nat, Shift
    <3> QED
      BY <3>3, <3>4
  <2> QED
    BY <2>2, <2>3
<1>11. IsRunOf(new, u, g, n)
  <2>1. new[0] = 0
    BY <1>2, <1>3
  <2>2. new[n] = u
    BY <1>2, <1>3
  <2>3. ASSUME NEW i \in 1..n PROVE new[i] = new[i - 1] + g[i]
    <3>1. run[i] = run[i - 1] + f[i] /\ i \in 0..n /\ i - 1 \in 0..n
      BY <1>2
    <3>2. CASE i < k
      BY <3>1, <3>2
    <3>3. CASE i = k
      <4>1. new[i] = run[k] - f[k] + x /\ new[i - 1] = run[k - 1] /\ g[i] = x
        BY <3>1, <3>3
      <4>2. run[k] = run[k - 1] + f[k] /\ run[k - 1] \in Nat /\ f[k] \in Nat
        BY <1>3, <1>4
      <4>3. run[k] - f[k] + x = run[k - 1] + x
        BY <4>2
      <4> QED
        BY <4>1, <4>3
    <3>4. CASE i > k
      <4> DEFINE after == run[i]
                 before == run[i - 1]
                 added == f[i]
                 gone == f[k]
      <4>1. /\ new[i] = after - gone + x
            /\ new[i - 1] = before - gone + x
            /\ g[i] = added
        BY <3>1, <3>4
      <4>2. added \in Nat /\ gone \in Nat /\ before \in Nat /\ after = before + added
        BY <3>1, <1>3
      <4> HIDE DEF after, before, added, gone
      <4>3. after - gone + x = (before - gone + x) + added
        BY <4>2
      <4> QED
        BY <4>1, <4>3
    <3> QED
      BY <3>2, <3>3, <3>4
  <2>4. ASSUME NEW i \in 0..n, NEW j \in 0..n, i <= j PROVE new[i] <= new[j]
    <3>1. run[i] <= run[j]
      BY <1>2, <2>4
    <3>2. CASE j < k
      BY <3>1, <3>2, <2>4
    <3>3. CASE i < k /\ k <= j
      <4>1. run[i] <= run[k - 1] /\ run[k - 1] + f[k] <= run[j]
        BY <3>3, <1>4, <1>7, <1>8
      <4>2. new[i] = run[i] /\ new[j] = run[j] - f[k] + x
        BY <3>3, <1>3
      <4>3. ASSUME NEW a \in Nat, NEW b \in Nat, NEW c \in Nat, NEW d \in Nat,
                   a <= b, b + c <= d
            PROVE  a <= d - c + x
        BY <4>3
      <4>4. run[i] <= run[j] - f[k] + x
        BY <1>3, <4>1, <4>3
      <4> QED
        BY <4>2, <4>4
    <3>4. CASE k <= i
      BY <3>1, <3>4, <2>4, <1>3
    <3> QED
      BY <3>2, <3>3, <3>4
  <2> QED
    BY <2>1, <2>2, <2>3, <2>4 DEF IsRunOf
<1> QED
  BY <1>6, <1>10, <1>11 DEF IsTotal

=============================================================================
