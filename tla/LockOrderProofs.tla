-------------------------- MODULE LockOrderProofs ---------------------------
(***************************************************************************)
(* That only the transactions which lock rows of one kind in the order     *)
(* they were named, or the cart before the voucher, have a part in every   *)
(* deadlock, for any number of transactions, carts and variants.  All the  *)
(* others take their locks in one order of stages, so of those that block  *)
(* someone one is furthest, and nobody blocks that one.                    *)
(***************************************************************************)
EXTENDS LockOrder, SumTheorems, SequenceTheorems

-----------------------------------------------------------------------------
(* Variants in the order of their ids.                                     *)

Sorts(s, S) ==
  /\ s \in [1..Cardinality(S) -> S]
  /\ \A i, k \in DOMAIN s : i < k => s[i] < s[k]

\* A finite set of numbers has an increasing listing: without its greatest
\* element it has one, and the greatest comes last.
LEMMA SortingExists ==
  ASSUME NEW S, IsFiniteSet(S), S \subseteq Int
  PROVE  \E s : Sorts(s, S)
<1> DEFINE G == {T \in SUBSET S : \E s : Sorts(s, T)}
<1>1. SUFFICES ASSUME S \notin G
               PROVE  FALSE
  OBVIOUS
<1>2. PICK T \in SUBSET S : T \notin G /\ \A U \in SUBSET T : U # T => U \in G
  <2> HIDE DEF G
  <2> QED  BY <1>1, LeastOutside
<1>3. IsFiniteSet(T) /\ Cardinality(T) \in Nat
  BY FS_Subset, FS_CardinalityType
<1>4. CASE T = {}
  <2>1. Cardinality(T) = 0
    BY <1>4, FS_EmptySet
  <2>2. 1..0 = {}
    OBVIOUS
  <2>3. Sorts([i \in 1..0 |-> 0], T)
    BY <2>1, <2>2 DEF Sorts
  <2> QED
    BY <1>2, <2>3
<1>5. CASE T # {}
  <2>1. PICK m \in T : \A k \in T : k <= m
    BY <1>3, <1>5, GreatestNumber
  <2>2. T \ {m} \in G
    BY <1>2, <2>1
  <2>3. PICK s : Sorts(s, T \ {m})
    BY <2>2
  <2> DEFINE n == Cardinality(T)
             t == [i \in 1..n |-> IF i = n THEN m ELSE s[i]]
  <2>4. Cardinality(T \ {m}) = n - 1
    BY <1>3, <2>1, FS_RemoveElement
  <2>5. s \in [1..n - 1 -> T \ {m}] /\ \A i, k \in 1..n - 1 : i < k => s[i] < s[k]
    BY <2>3, <2>4 DEF Sorts
  <2>6. n \in Nat
    BY <1>3
  <2>7. \A i \in 1..n : i # n => i \in 1..n - 1 /\ s[i] \in T /\ s[i] < m
    <3> SUFFICES ASSUME NEW i \in 1..n, i # n
                 PROVE  i \in 1..n - 1 /\ s[i] \in T /\ s[i] < m
      OBVIOUS
    <3>1. i \in 1..n - 1
      BY <2>6
    <3>2. s[i] \in T \ {m}
      BY <2>5, <3>1
    <3>3. s[i] \in Int /\ m \in Int /\ s[i] <= m
      BY <2>1, <3>2
    <3> QED
      BY <3>1, <3>2, <3>3
  <2> HIDE DEF n
  <2>8. t \in [1..n -> T]
    BY <2>1, <2>7
  <2>9. ASSUME NEW i \in 1..n, NEW k \in 1..n, i < k
        PROVE  t[i] < t[k]
    <3>1. i # n
      BY <2>6, <2>9
    <3>2. t[i] = s[i] /\ i \in 1..n - 1 /\ s[i] < m
      BY <2>7, <3>1
    <3>3. CASE k = n
      BY <3>2, <3>3
    <3>4. CASE k # n
      BY <2>5, <2>7, <2>9, <3>2, <3>4
    <3> QED
      BY <3>3, <3>4
  <2>10. DOMAIN t = 1..n
    OBVIOUS
  <2>11. Sorts(t, T)
    <3> HIDE DEF t
    <3> QED
      BY <2>8, <2>9, <2>10 DEF Sorts, n
  <2> QED
    BY <1>2, <2>11
<1> QED
  BY <1>4, <1>5

\* Such a listing names every element: no element comes twice, and there are as
\* many places as elements.
LEMMA SortingIsOnto ==
  ASSUME NEW S, IsFiniteSet(S), S \subseteq Int, NEW s, Sorts(s, S)
  PROVE  \A x \in S : \E i \in 1..Cardinality(S) : s[i] = x
<1> DEFINE n == Cardinality(S)
<1>1. n \in Nat
  BY FS_CardinalityType
<1>2. IsFiniteSet(1..n) /\ Cardinality(1..n) = n
  <2>1. 1 \in Int /\ n \in Int
    BY <1>1
  <2>2. /\ IsFiniteSet(1..n)
        /\ Cardinality(1..n) = IF 1 > n THEN 0 ELSE n - 1 + 1
    <3> HIDE DEF n
    <3> QED  BY <2>1, FS_Interval
  <2> HIDE DEF n
  <2> QED  BY <1>1, <2>2
<1>3. s \in [1..n -> S] /\ \A i, k \in 1..n : i < k => s[i] < s[k]
  BY DEF Sorts
<1>4. \A i, k \in 1..n : s[i] = s[k] => i = k
  <2> SUFFICES ASSUME NEW i \in 1..n, NEW k \in 1..n, s[i] = s[k], i # k
               PROVE  FALSE
    OBVIOUS
  <2>1. i < k \/ k < i
    BY <1>1
  <2>2. s[i] \in Int
    BY <1>3
  <2> QED
    BY <1>3, <2>1, <2>2
<1>5. s \in Injection(1..n, S)
  BY <1>3, <1>4 DEF Injection, IsInjective
<1>6. s \in Surjection(1..n, S)
  BY <1>2, <1>5, FS_Injection
<1> QED
  BY <1>6 DEF Surjection

\* The variants of a job, and their listing by id.
LEMMA VariantsOfJob ==
  ASSUME NEW vs \in Seq(Variants)
  PROVE  /\ IsFiniteSet(ToSet(vs)) /\ ToSet(vs) \subseteq Variants
         /\ Cardinality(ToSet(vs)) \in Nat
         /\ Sorts(InIdOrder(vs), ToSet(vs))
         /\ \A v \in ToSet(vs) : \E i \in 1..Cardinality(ToSet(vs)) : InIdOrder(vs)[i] = v
<1> DEFINE S == ToSet(vs)
           n == Len(vs)
<1>1. n \in Nat /\ DOMAIN vs = 1..n /\ vs \in [1..n -> Variants]
  BY LenProperties
<1>2. S \subseteq Variants
  BY <1>1 DEF ToSet
<1>3. IsFiniteSet(1..n)
  <2>1. 1 \in Int /\ n \in Int
    BY <1>1
  <2> HIDE DEF n
  <2> QED  BY <2>1, FS_Interval
<1>4. vs \in Surjection(1..n, S)
  <2>1. vs \in [1..n -> S]
    BY <1>1 DEF ToSet
  <2>2. \A x \in S : \E i \in 1..n : vs[i] = x
    BY <1>1 DEF ToSet
  <2> HIDE DEF n, S
  <2> QED  BY <2>1, <2>2 DEF Surjection
<1> HIDE DEF n, S
<1>5. IsFiniteSet(S)
  BY <1>3, <1>4, FS_Surjection
<1>6. Cardinality(S) \in Nat
  BY <1>5, FS_CardinalityType
<1>7. S \subseteq Int
  BY <1>2, JobsAssumption
<1>8. \E s : Sorts(s, S)
  BY <1>5, <1>7, SortingExists
<1>9. Sorts(InIdOrder(vs), S)
  <2> DEFINE Listings == [1..Cardinality(S) -> S]
             Increasing(s) == \A i, k \in DOMAIN s : i < k => s[i] < s[k]
  <2>1. \E s \in Listings : Increasing(s)
    BY <1>8 DEF Sorts
  <2>2. InIdOrder(vs) = CHOOSE s \in Listings : Increasing(s)
    BY DEF InIdOrder, S
  <2>3. InIdOrder(vs) \in Listings /\ Increasing(InIdOrder(vs))
    <3> HIDE DEF Listings, Increasing
    <3> QED  BY <2>1, <2>2
  <2> QED
    BY <2>3 DEF Sorts
<1>10. \A v \in S : \E i \in 1..Cardinality(S) : InIdOrder(vs)[i] = v
  <2>1. \A s : Sorts(s, S) => \A v \in S : \E i \in 1..Cardinality(S) : s[i] = v
    BY <1>5, <1>7, SortingIsOnto
  <2> QED
    BY <1>9, <2>1
<1> QED
  BY <1>2, <1>5, <1>6, <1>9, <1>10 DEF S

-----------------------------------------------------------------------------
(* The stages of a program, and what each kind of job locks.  Two of them  *)
(* lock a cart's lines at another stage than a placement does, and an      *)
(* addition looks at the variant of the line it has inserted.              *)

Stage(j, l) ==
  CASE l.row[1] = "line"    -> IF j.kind \in {"add", "change"} THEN 0 ELSE 6
    [] l.row[1] = "cart"    -> IF l.mode = "key" THEN 1 ELSE 8
    [] l.row[1] = "variant" -> IF j.kind = "add" THEN 2 ELSE 4
    [] l.row[1] = "voucher" -> 5
    [] l.row[1] = "product" -> 7
    [] OTHER                -> 3

\* Variants are locked in the order of their ids, lines as they come, and the
\* only product of a dispatch again and again.
Later(j, a, b) ==
  \/ Stage(j, a) < Stage(j, b)
  \/ /\ Stage(j, a) = Stage(j, b)
     /\ \/ Stage(j, a) = 4 /\ a.row[2] < b.row[2]
        \/ Stage(j, a) = 6
        \/ Stage(j, a) = 7 /\ a.row = b.row

VariantLocks(j, mode) == {Lock(<<"variant", v>>, mode) : v \in ToSet(j.variants)}
LineLocks(j, mode) == {Lock(<<"line", j.cart, v>>, mode) : v \in ToSet(j.variants)}
ProductLocks(j) == {Lock(<<"product", ProductOf[v]>>, "row") : v \in ToSet(j.variants)}
TheCart(j) == Lock(<<"cart", j.cart>>, "row")

AddLocks(j, v) ==
  IF v \in OnCart[j.cart] THEN {Lock(<<"line", j.cart, v>>, "row")}
  ELSE {Lock(<<"line", j.cart, v>>, "all"), Lock(<<"cart", j.cart>>, "key"),
        Lock(<<"variant", v>>, "key")}

LocksOf(j) ==
  CASE j.kind = "place"    -> {Lock(<<"key", j.key>>, "all")} \union VariantLocks(j, "all")
                              \union {Lock(<<"voucher", j.voucher>>, "all")}
                              \union LineLocks(j, "all") \union {TheCart(j)}
    [] j.kind = "release"  -> {Lock(<<"order", j.order>>, "all")} \union VariantLocks(j, "all")
                              \union {Lock(<<"voucher", j.voucher>>, "row")}
    [] j.kind = "dispatch" -> {Lock(<<"order", j.order>>, "all")} \union VariantLocks(j, "all")
                              \union ProductLocks(j)
    [] j.kind = "change"   -> LineLocks(j, "all") \union {TheCart(j)}
    [] j.kind = "add"      -> (UNION {AddLocks(j, v) : v \in ToSet(j.variants)}) \union {TheCart(j)}
    [] j.kind = "reprice"  -> VariantLocks(j, "row") \union ProductLocks(j)
    [] j.kind = "moderate" -> {Lock(<<"review", j.review>>, "row")} \union ProductLocks(j)

\* Part s of j's program takes j's locks, in order, at stages low to high.
InOrder(j, s, low, high) ==
  /\ s \in Seq(LocksOf(j))
  /\ \A i \in 1..Len(s) : Stage(j, s[i]) \in low..high
  /\ \A i, k \in 1..Len(s) : i < k => Later(j, s[i], s[k])

\* The stage of each kind of lock.
LEMMA StageOf ==
  ASSUME NEW j, NEW x, NEW y, NEW m
  PROVE  /\ Stage(j, Lock(<<"key", x>>, m)) = 3
         /\ Stage(j, Lock(<<"order", x>>, m)) = 3
         /\ Stage(j, Lock(<<"review", x>>, m)) = 3
         /\ Stage(j, Lock(<<"variant", x>>, m)) = IF j.kind = "add" THEN 2 ELSE 4
         /\ Stage(j, Lock(<<"voucher", x>>, m)) = 5
         /\ Stage(j, Lock(<<"line", x, y>>, m)) = IF j.kind \in {"add", "change"} THEN 0 ELSE 6
         /\ Stage(j, Lock(<<"product", x>>, m)) = 7
         /\ Stage(j, Lock(<<"cart", x>>, m)) = IF m = "key" THEN 1 ELSE 8
  BY DEF Stage, Lock

\* Two parts one after the other, the second at later stages.
LEMMA ConcatInOrder ==
  ASSUME NEW j, NEW s, NEW t, NEW a \in Int, NEW b \in Int, NEW c \in Int, NEW d \in Int,
         InOrder(j, s, a, b), InOrder(j, t, c, d), b < c, a <= c, b <= d
  PROVE  /\ InOrder(j, s \o t, a, d)
         /\ \A i \in 1..Len(s) : \E k \in 1..Len(s \o t) : (s \o t)[k] = s[i]
<1> DEFINE p == s \o t
           m == Len(s)
           n == Len(t)
<1>1. s \in Seq(LocksOf(j)) /\ t \in Seq(LocksOf(j))
  BY DEF InOrder
<1>2. m \in Nat /\ n \in Nat
  BY <1>1, LenProperties
<1>3. /\ p \in Seq(LocksOf(j)) /\ Len(p) = m + n
      /\ \A i \in 1..m + n : p[i] = IF i <= m THEN s[i] ELSE t[i - m]
  BY <1>1, ConcatProperties, Zenon
<1>4. /\ \A i \in 1..m : Stage(j, s[i]) \in a..b
      /\ \A i \in 1..n : Stage(j, t[i]) \in c..d
      /\ \A i, k \in 1..m : i < k => Later(j, s[i], s[k])
      /\ \A i, k \in 1..n : i < k => Later(j, t[i], t[k])
  BY DEF InOrder
<1> HIDE DEF p, m, n
<1>5. ASSUME NEW i \in 1..Len(p)
      PROVE  Stage(j, p[i]) \in a..d
  <2>1. CASE i <= m
    <3>1. i \in 1..m /\ p[i] = s[i]
      BY <1>2, <1>3, <2>1
    <3>2. Stage(j, s[i]) \in a..b
      BY <1>4, <3>1
    <3> QED
      BY <3>1, <3>2
  <2>2. CASE i > m
    <3>1. i - m \in 1..n /\ p[i] = t[i - m]
      BY <1>2, <1>3, <2>2
    <3>2. Stage(j, t[i - m]) \in c..d
      BY <1>4, <3>1
    <3> QED
      BY <3>1, <3>2
  <2> QED
    BY <1>2, <2>1, <2>2
<1>6. ASSUME NEW i \in 1..Len(p), NEW k \in 1..Len(p), i < k
      PROVE  Later(j, p[i], p[k])
  <2>1. CASE k <= m
    <3>1. i \in 1..m /\ k \in 1..m /\ p[i] = s[i] /\ p[k] = s[k]
      BY <1>2, <1>3, <1>6, <2>1
    <3> QED
      BY <1>4, <1>6, <3>1
  <2>2. CASE i > m
    <3>1. i - m \in 1..n /\ k - m \in 1..n /\ p[i] = t[i - m] /\ p[k] = t[k - m] /\ i - m < k - m
      BY <1>2, <1>3, <1>6, <2>2
    <3> QED
      BY <1>4, <3>1
  <2>3. CASE i <= m /\ k > m
    <3>1. i \in 1..m /\ k - m \in 1..n /\ p[i] = s[i] /\ p[k] = t[k - m]
      BY <1>2, <1>3, <2>3
    <3>2. Stage(j, p[i]) \in a..b /\ Stage(j, p[k]) \in c..d
      BY <1>4, <3>1
    <3> QED
      BY <3>2 DEF Later
  <2> QED
    BY <1>2, <1>3, <2>1, <2>2, <2>3
<1>7. ASSUME NEW i \in 1..m
      PROVE  \E k \in 1..Len(p) : p[k] = s[i]
  <2>1. i \in 1..Len(p) /\ p[i] = s[i]
    BY <1>2, <1>3
  <2> QED
    BY <2>1
<1> QED
  BY <1>3, <1>5, <1>6, <1>7 DEF InOrder, p, m

\* What the second part locks is locked by the whole.
LEMMA ConcatHasSecond ==
  ASSUME NEW S, NEW s \in Seq(S), NEW t \in Seq(S)
  PROVE  \A i \in 1..Len(t) : \E k \in 1..Len(s \o t) : (s \o t)[k] = t[i]
<1>1. Len(s) \in Nat /\ Len(t) \in Nat
  BY LenProperties
<1>2. /\ Len(s \o t) = Len(s) + Len(t)
      /\ \A i \in 1..Len(s) + Len(t) : (s \o t)[i] = IF i <= Len(s) THEN s[i] ELSE t[i - Len(s)]
  BY ConcatProperties
<1>3. ASSUME NEW i \in 1..Len(t)
      PROVE  \E k \in 1..Len(s \o t) : (s \o t)[k] = t[i]
  <2>1. Len(s) + i \in 1..Len(s) + Len(t) /\ ~(Len(s) + i <= Len(s)) /\ Len(s) + i - Len(s) = i
    BY <1>1
  <2>2. (s \o t)[Len(s) + i] = t[i]
    BY <1>2, <2>1
  <2> QED
    BY <1>2, <2>1, <2>2
<1> QED
  BY <1>3

\* One lock, and no lock at all.
LEMMA OneInOrder ==
  ASSUME NEW j, NEW l \in LocksOf(j)
  PROVE  InOrder(j, <<l>>, Stage(j, l), Stage(j, l))
<1>1. Stage(j, l) \in Int
  BY DEF Stage
<1>2. <<l>> \in Seq(LocksOf(j)) /\ Len(<<l>>) = 1
  OBVIOUS
<1>3. \A i \in 1..Len(<<l>>) : i = 1 /\ <<l>>[i] = l
  BY <1>2
<1> QED
  BY <1>1, <1>2, <1>3 DEF InOrder

\* A list of no locks is in order.
LEMMA NoneInOrder ==
  ASSUME NEW j, NEW a, NEW b
  PROVE  InOrder(j, <<>>, a, b)
  BY DEF InOrder

\* A listing of locks of j all of one stage, each later than the one before.
LEMMA ListInOrder ==
  ASSUME NEW j, NEW n \in Nat, NEW s \in [1..n -> LocksOf(j)], NEW a \in Int,
         \A i \in 1..n : Stage(j, s[i]) = a,
         \A i, k \in 1..n : i < k => Later(j, s[i], s[k])
  PROVE  InOrder(j, s, a, a) /\ Len(s) = n
<1>1. s \in Seq(LocksOf(j)) /\ Len(s) = n
  OBVIOUS
<1> QED
  BY <1>1 DEF InOrder

\* Variants are locked by id, whatever order they were named in.
LEMMA VariantsInOrder ==
  ASSUME NEW j \in Jobs, VariantLocks(j, "all") \subseteq LocksOf(j), j.kind # "add"
  PROVE  /\ InOrder(j, LockVariants(j.variants), 4, 4)
         /\ \A v \in ToSet(j.variants) : \E i \in 1..Len(LockVariants(j.variants)) :
              LockVariants(j.variants)[i] = Lock(<<"variant", v>>, "all")
<1> DEFINE S == ToSet(j.variants)
           o == InIdOrder(j.variants)
           n == Cardinality(S)
           s == LockVariants(j.variants)
<1>1. j.variants \in Seq(Variants)
  BY JobsAssumption
<1>2. S \subseteq Variants /\ n \in Nat /\ Sorts(o, S) /\ \A v \in S : \E i \in 1..n : o[i] = v
  BY <1>1, VariantsOfJob
<1>3. o \in [1..n -> S] /\ \A i, k \in 1..n : i < k => o[i] < o[k]
  BY <1>2 DEF Sorts
<1>4. DOMAIN o = 1..n /\ \A i \in 1..n : o[i] \in S
  BY <1>3
<1>5. s = [i \in 1..n |-> Lock(<<"variant", o[i]>>, "all")]
  BY <1>4, Zenon DEF LockVariants
<1> HIDE DEF o, n
<1>6. \A i \in 1..n : s[i] = Lock(<<"variant", o[i]>>, "all")
  BY <1>5
<1>7. s \in [1..n -> LocksOf(j)]
  <2>1. \A i \in 1..n : Lock(<<"variant", o[i]>>, "all") \in LocksOf(j)
    BY <1>4 DEF VariantLocks
  <2> QED
    BY <1>5, <2>1
<1> HIDE DEF s
<1>8. \A i \in 1..n : Stage(j, s[i]) = 4
  <2> TAKE i \in 1..n
  <2>1. Stage(j, Lock(<<"variant", o[i]>>, "all")) = 4
    BY StageOf
  <2> QED
    BY <1>6, <2>1
<1>9. ASSUME NEW i \in 1..n, NEW k \in 1..n, i < k
      PROVE  Later(j, s[i], s[k])
  <2>1. /\ Lock(<<"variant", o[i]>>, "all").row[2] = o[i]
        /\ Lock(<<"variant", o[k]>>, "all").row[2] = o[k]
    BY DEF Lock
  <2>2. s[i].row[2] = o[i] /\ s[k].row[2] = o[k]
    BY <1>6, <2>1
  <2> QED
    BY <1>3, <1>8, <1>9, <2>2 DEF Later
<1>10. InOrder(j, s, 4, 4) /\ Len(s) = n
  BY <1>2, <1>7, <1>8, <1>9, ListInOrder
<1> QED
  BY <1>2, <1>6, <1>10 DEF s

\* Lines are locked in one order by those who cross nothing.
LEMMA LinesInOrder ==
  ASSUME NEW j \in Jobs, LineLocks(j, "all") \subseteq LocksOf(j), j.kind \in {"place", "change"},
         ~Crosses(j)
  PROVE  InOrder(j, Lines(j, "all"), IF j.kind = "place" THEN 6 ELSE 0,
                 IF j.kind = "place" THEN 6 ELSE 0)
<1> DEFINE n == Len(j.variants)
           s == Lines(j, "all")
           a == IF j.kind = "place" THEN 6 ELSE 0
<1>1. j.variants \in Seq(Variants)
  BY JobsAssumption
<1>2. n \in Nat /\ DOMAIN j.variants = 1..n
  BY <1>1, LenProperties
<1>3. s = [i \in 1..n |-> Lock(<<"line", j.cart, j.variants[i]>>, "all")]
  BY <1>2, Zenon DEF Lines
<1>4. \A i \in 1..n : Lock(<<"line", j.cart, j.variants[i]>>, "all") \in LocksOf(j)
  BY <1>2 DEF LineLocks, ToSet
<1> HIDE DEF n
<1>5. s \in [1..n -> LocksOf(j)]
  BY <1>3, <1>4
<1>6. \A i \in 1..n : s[i] = Lock(<<"line", j.cart, j.variants[i]>>, "all")
  BY <1>3
<1> HIDE DEF s
<1>7. \A i \in 1..n : Stage(j, s[i]) = a
  <2> TAKE i \in 1..n
  <2>1. Stage(j, Lock(<<"line", j.cart, j.variants[i]>>, "all")) = a
    BY DEF Stage, Lock
  <2> QED
    BY <1>6, <2>1
<1>8. ASSUME NEW i \in 1..n, NEW k \in 1..n, i < k
      PROVE  Later(j, s[i], s[k])
  <2>1. CASE j.kind = "place"
    <3>1. Stage(j, s[i]) = 6 /\ Stage(j, s[k]) = 6
      BY <1>7, <2>1
    <3> QED
      BY <3>1 DEF Later
  <2>2. CASE j.kind = "change"
    <3>1. ~(n > 1)
      BY <2>2 DEF Crosses, n
    <3> QED
      BY <1>2, <1>8, <3>1
  <2> QED
    BY <2>1, <2>2
<1>9. a \in Int
  OBVIOUS
<1>10. InOrder(j, s, a, a)
  <2> HIDE DEF a
  <2> QED  BY <1>2, <1>5, <1>7, <1>8, <1>9, ListInOrder
<1> QED
  BY <1>10 DEF s

\* The variants of a dispatch that crosses nothing are of one product.
LEMMA SalesInOrder ==
  ASSUME NEW j \in Jobs, j.kind = "dispatch", ~Crosses(j)
  PROVE  InOrder(j, CountSales(j.variants), 7, 7)
<1> DEFINE S == ToSet(j.variants)
           P == {ProductOf[v] : v \in S}
           o == InIdOrder(j.variants)
           n == Cardinality(S)
           s == CountSales(j.variants)
<1>1. j.variants \in Seq(Variants)
  BY JobsAssumption
<1>2. IsFiniteSet(S) /\ n \in Nat /\ Sorts(o, S)
  BY <1>1, VariantsOfJob
<1>3. o \in [1..n -> S]
  BY <1>2 DEF Sorts
<1>4. DOMAIN o = 1..n /\ \A i \in 1..n : o[i] \in S
  BY <1>3
<1>5. s = [i \in 1..n |-> Lock(<<"product", ProductOf[o[i]]>>, "row")]
  BY <1>4, Zenon DEF CountSales
<1>6. \A p, q \in P : p = q
  <2>1. IsFiniteSet(P)
    <3> DEFINE f == [v \in S |-> ProductOf[v]]
    <3>1. f \in [S -> P] /\ \A p \in P : \E v \in S : f[v] = p
      OBVIOUS
    <3> HIDE DEF f, P
    <3>2. f \in Surjection(S, P)
      BY <3>1 DEF Surjection
    <3> QED
      BY <1>2, <3>2, FS_Surjection
  <2>2. Cardinality(P) \in Nat /\ ~(Cardinality(P) > 1)
    <3>1. ~(Cardinality(P) > 1)
      BY DEF Crosses
    <3> HIDE DEF P
    <3> QED  BY <2>1, <3>1, FS_CardinalityType
  <2> HIDE DEF P
  <2>3. Cardinality(P) = 0 => P = {}
    BY <2>1, FS_EmptySet
  <2>4. Cardinality(P) = 1 => \E x : P = {x}
    BY <2>1, FS_Singleton
  <2> QED
    BY <2>2, <2>3, <2>4
<1>7. \A i \in 1..n : ProductOf[o[i]] \in P
  BY <1>4
<1> HIDE DEF o, n, P
<1>8. s \in [1..n -> LocksOf(j)]
  <2>1. \A i \in 1..n : Lock(<<"product", ProductOf[o[i]]>>, "row") \in LocksOf(j)
    BY <1>4 DEF ProductLocks, LocksOf
  <2> QED
    BY <1>5, <2>1
<1>9. \A i \in 1..n : s[i] = Lock(<<"product", ProductOf[o[i]]>>, "row")
  BY <1>5
<1> HIDE DEF s
<1>10. \A i \in 1..n : Stage(j, s[i]) = 7
  <2> TAKE i \in 1..n
  <2>1. Stage(j, Lock(<<"product", ProductOf[o[i]]>>, "row")) = 7
    BY DEF Stage, Lock
  <2> QED
    BY <1>9, <2>1
<1>11. ASSUME NEW i \in 1..n, NEW k \in 1..n
       PROVE  Later(j, s[i], s[k])
  <2>1. s[i] = s[k]
    BY <1>6, <1>7, <1>9
  <2> QED
    BY <1>10, <2>1 DEF Later
<1>12. InOrder(j, s, 7, 7)
  BY <1>2, <1>8, <1>10, <1>11, ListInOrder
<1> QED
  BY <1>12 DEF s

\* The cart comes last.
LEMMA TouchInOrder ==
  ASSUME NEW j, TheCart(j) \in LocksOf(j)
  PROVE  InOrder(j, Touch(j), 8, 8)
<1>1. Touch(j) = <<TheCart(j)>>
  BY DEF Touch, TheCart
<1>2. Stage(j, TheCart(j)) = 8
  BY DEF Stage, TheCart, Lock
<1> QED
  BY <1>1, <1>2, OneInOrder

\* The voucher comes after the variants.
LEMMA VoucherInOrder ==
  ASSUME NEW j, NEW mode, Lock(<<"voucher", j.voucher>>, mode) \in LocksOf(j)
  PROVE  InOrder(j, LockVoucher(j, mode), 5, 5)
<1>1. CASE j.voucher = None
  BY <1>1, NoneInOrder DEF LockVoucher
<1>2. CASE j.voucher # None
  <2>1. LockVoucher(j, mode) = <<Lock(<<"voucher", j.voucher>>, mode)>>
    BY <1>2 DEF LockVoucher
  <2>2. Stage(j, Lock(<<"voucher", j.voucher>>, mode)) = 5
    BY DEF Stage, Lock
  <2> QED
    BY <2>1, <2>2, OneInOrder
<1> QED
  BY <1>1, <1>2

\* A placement: the key, the variants, the voucher, the lines, the cart.  It
\* holds each variant of its lines before it comes to the lines.
LEMMA PlaceInOrder ==
  ASSUME NEW j \in Jobs, j.kind = "place"
  PROVE  /\ InOrder(j, Program(j), 3, 8)
         /\ \A v \in ToSet(j.variants) : \E i \in 1..Len(Program(j)) :
              Program(j)[i] = Lock(<<"variant", v>>, "all")
<1> DEFINE k == <<Lock(<<"key", j.key>>, "all")>>
           vs == LockVariants(j.variants)
           x == LockVoucher(j, "all")
           ls == Lines(j, "all")
           c == Touch(j)
<1>1. Program(j) = (((k \o vs) \o x) \o ls) \o c
  BY DEF Program
<1>2. /\ Lock(<<"key", j.key>>, "all") \in LocksOf(j)
      /\ VariantLocks(j, "all") \subseteq LocksOf(j)
      /\ Lock(<<"voucher", j.voucher>>, "all") \in LocksOf(j)
      /\ LineLocks(j, "all") \subseteq LocksOf(j)
      /\ TheCart(j) \in LocksOf(j)
  BY DEF LocksOf
<1>3. InOrder(j, k, 3, 3)
  <2>1. Stage(j, Lock(<<"key", j.key>>, "all")) = 3
    BY DEF Stage, Lock
  <2> QED
    BY <1>2, <2>1, OneInOrder
<1>4. /\ InOrder(j, vs, 4, 4)
      /\ \A v \in ToSet(j.variants) : \E i \in 1..Len(vs) : vs[i] = Lock(<<"variant", v>>, "all")
  BY <1>2, VariantsInOrder
<1>5. InOrder(j, x, 5, 5) /\ InOrder(j, c, 8, 8)
  BY <1>2, VoucherInOrder, TouchInOrder
<1>6. InOrder(j, ls, 6, 6)
  BY <1>2, LinesInOrder DEF Crosses
<1> HIDE DEF k, vs, x, ls, c
<1> DEFINE s1 == k \o vs
           s2 == s1 \o x
           s3 == s2 \o ls
           s4 == s3 \o c
<1>7. /\ InOrder(j, s1, 3, 4)
      /\ \A i \in 1..Len(vs) : \E n \in 1..Len(s1) : s1[n] = vs[i]
  <2>1. InOrder(j, k \o vs, 3, 4)
    BY <1>3, <1>4, ConcatInOrder
  <2>2. k \in Seq(LocksOf(j)) /\ vs \in Seq(LocksOf(j))
    BY <1>3, <1>4 DEF InOrder
  <2> QED
    BY <2>1, <2>2, ConcatHasSecond
<1> HIDE DEF s1
<1>8. InOrder(j, s2, 3, 5) /\ \A i \in 1..Len(s1) : \E n \in 1..Len(s2) : s2[n] = s1[i]
  BY <1>5, <1>7, ConcatInOrder
<1> HIDE DEF s2
<1>9. InOrder(j, s3, 3, 6) /\ \A i \in 1..Len(s2) : \E n \in 1..Len(s3) : s3[n] = s2[i]
  BY <1>6, <1>8, ConcatInOrder
<1> HIDE DEF s3
<1>10. InOrder(j, s4, 3, 8) /\ \A i \in 1..Len(s3) : \E n \in 1..Len(s4) : s4[n] = s3[i]
  BY <1>5, <1>9, ConcatInOrder
<1> HIDE DEF s4
<1>11. Program(j) = s4
  BY <1>1 DEF s1, s2, s3, s4
<1>12. ASSUME NEW v \in ToSet(j.variants)
       PROVE  \E i \in 1..Len(Program(j)) : Program(j)[i] = Lock(<<"variant", v>>, "all")
  <2> DEFINE l == Lock(<<"variant", v>>, "all")
  <2> HIDE DEF l
  <2>1. \E i \in 1..Len(vs) : vs[i] = l
    BY <1>4 DEF l
  <2>2. \E i \in 1..Len(s1) : s1[i] = l
    BY <1>7, <2>1
  <2>3. \E i \in 1..Len(s2) : s2[i] = l
    BY <1>8, <2>2
  <2>4. \E i \in 1..Len(s3) : s3[i] = l
    BY <1>9, <2>3
  <2>5. \E i \in 1..Len(s4) : s4[i] = l
    BY <1>10, <2>4
  <2> QED
    BY <1>11, <2>5 DEF l
<1> QED
  BY <1>10, <1>12, <1>11

\* A release locks the order, the variants and the voucher in order.
LEMMA ReleaseInOrder ==
  ASSUME NEW j \in Jobs, j.kind = "release"
  PROVE  InOrder(j, Program(j), 3, 5)
<1> DEFINE o == <<Lock(<<"order", j.order>>, "all")>>
           vs == LockVariants(j.variants)
           x == LockVoucher(j, "row")
<1>1. Program(j) = (o \o vs) \o x
  BY DEF Program
<1>2. /\ Lock(<<"order", j.order>>, "all") \in LocksOf(j)
      /\ VariantLocks(j, "all") \subseteq LocksOf(j)
      /\ Lock(<<"voucher", j.voucher>>, "row") \in LocksOf(j)
  BY DEF LocksOf
<1>3. InOrder(j, o, 3, 3)
  <2>1. Stage(j, Lock(<<"order", j.order>>, "all")) = 3
    BY DEF Stage, Lock
  <2> QED
    BY <1>2, <2>1, OneInOrder
<1>4. InOrder(j, vs, 4, 4)
  BY <1>2, VariantsInOrder
<1>5. InOrder(j, x, 5, 5)
  BY <1>2, VoucherInOrder
<1> HIDE DEF o, vs, x
<1>6. InOrder(j, o \o vs, 3, 4)
  BY <1>3, <1>4, ConcatInOrder
<1>7. InOrder(j, (o \o vs) \o x, 3, 5)
  BY <1>5, <1>6, ConcatInOrder
<1> QED
  BY <1>1, <1>7

\* A dispatch that crosses nothing ends with the products in order.
LEMMA DispatchInOrder ==
  ASSUME NEW j \in Jobs, j.kind = "dispatch", ~Crosses(j)
  PROVE  InOrder(j, Program(j), 3, 7)
<1> DEFINE o == <<Lock(<<"order", j.order>>, "all")>>
           vs == LockVariants(j.variants)
           ps == CountSales(j.variants)
<1>1. Program(j) = (o \o vs) \o ps
  BY DEF Program
<1>2. /\ Lock(<<"order", j.order>>, "all") \in LocksOf(j)
      /\ VariantLocks(j, "all") \subseteq LocksOf(j)
  BY DEF LocksOf
<1>3. InOrder(j, o, 3, 3)
  <2>1. Stage(j, Lock(<<"order", j.order>>, "all")) = 3
    BY DEF Stage, Lock
  <2> QED
    BY <1>2, <2>1, OneInOrder
<1>4. InOrder(j, vs, 4, 4)
  BY <1>2, VariantsInOrder
<1>5. InOrder(j, ps, 7, 7)
  BY SalesInOrder
<1> HIDE DEF o, vs, ps
<1>6. InOrder(j, o \o vs, 3, 4)
  BY <1>3, <1>4, ConcatInOrder
<1>7. InOrder(j, (o \o vs) \o ps, 3, 7)
  BY <1>5, <1>6, ConcatInOrder
<1> QED
  BY <1>1, <1>7

\* A change of lines that crosses nothing is in order,
LEMMA ChangeInOrder ==
  ASSUME NEW j \in Jobs, j.kind = "change", ~Crosses(j)
  PROVE  InOrder(j, Program(j), 0, 8)
<1> DEFINE ls == Lines(j, "all")
           c == Touch(j)
<1>1. Program(j) = ls \o c
  BY DEF Program
<1>2. LineLocks(j, "all") \subseteq LocksOf(j) /\ TheCart(j) \in LocksOf(j)
  BY DEF LocksOf
<1>3. InOrder(j, ls, 0, 0) /\ InOrder(j, c, 8, 8)
  BY <1>2, LinesInOrder, TouchInOrder
<1> HIDE DEF ls, c
<1> QED
  BY <1>1, <1>3, ConcatInOrder

\* two locks, the second at a later stage,
LEMMA TwoInOrder ==
  ASSUME NEW j, NEW a \in LocksOf(j), NEW b \in LocksOf(j), NEW m \in Int, NEW n \in Int,
         Stage(j, a) = m, Stage(j, b) = n, m < n
  PROVE  InOrder(j, <<a, b>>, m, n)
<1>1. <<a, b>> \in Seq(LocksOf(j)) /\ Len(<<a, b>>) = 2 /\ <<a, b>>[1] = a /\ <<a, b>>[2] = b
  OBVIOUS
<1>2. \A i \in 1..2 : i = 1 \/ i = 2
  OBVIOUS
<1>3. Later(j, a, b)
  BY DEF Later
<1> QED
  BY <1>1, <1>2, <1>3 DEF InOrder

\* the first variant a job names,
LEMMA FirstVariant ==
  ASSUME NEW j \in Jobs, j.kind \in {"reprice", "moderate"}
  PROVE  j.variants[1] \in ToSet(j.variants)
<1>1. j.variants \in Seq(Variants) /\ j.variants # <<>>
  BY JobsAssumption
<1>2. 1 \in DOMAIN j.variants
  BY <1>1
<1> QED
  BY <1>2 DEF ToSet

\* a change of price,
LEMMA RepriceInOrder ==
  ASSUME NEW j \in Jobs, j.kind = "reprice"
  PROVE  InOrder(j, Program(j), 4, 7)
<1> DEFINE v == j.variants[1]
           a == Lock(<<"variant", v>>, "row")
           b == Lock(<<"product", ProductOf[v]>>, "row")
<1>1. Program(j) = <<a, b>>
  BY DEF Program
<1>2. a \in LocksOf(j) /\ b \in LocksOf(j)
  BY FirstVariant DEF LocksOf, VariantLocks, ProductLocks
<1>3. Stage(j, a) = 4 /\ Stage(j, b) = 7
  BY DEF Stage, Lock
<1> HIDE DEF a, b
<1> QED
  BY <1>1, <1>2, <1>3, TwoInOrder

\* a moderation,
LEMMA ModerateInOrder ==
  ASSUME NEW j \in Jobs, j.kind = "moderate"
  PROVE  InOrder(j, Program(j), 3, 7)
<1> DEFINE a == Lock(<<"review", j.review>>, "row")
           b == Lock(<<"product", ProductOf[j.variants[1]]>>, "row")
<1>1. Program(j) = <<a, b>>
  BY DEF Program
<1>2. a \in LocksOf(j) /\ b \in LocksOf(j)
  BY FirstVariant DEF LocksOf, ProductLocks
<1>3. Stage(j, a) = 3 /\ Stage(j, b) = 7
  BY DEF Stage, Lock
<1> HIDE DEF a, b
<1> QED
  BY <1>1, <1>2, <1>3, TwoInOrder

\* A list of one part, or of none, is that part laid flat.
LEMMA FlattenOne ==
  ASSUME NEW e, NEW s, s = [i \in 1..1 |-> e]
  PROVE  FlattenSeq(s) = e
<1>1. Len(s) = 1 /\ s[1] = e
  OBVIOUS
<1> DEFINE Flat(f) == f = [i \in 1..Len(s) |-> IF i = 1 THEN s[i] ELSE f[i - 1] \o s[i]]
<1>2. FlattenSeq(s) = (CHOOSE f : Flat(f))[Len(s)]
  BY <1>1 DEF FlattenSeq
<1>3. Flat([i \in 1..1 |-> e])
  <2>1. [i \in 1..1 |-> e] =
          [i \in 1..1 |-> IF i = 1 THEN s[i] ELSE [k \in 1..1 |-> e][i - 1] \o s[i]]
    BY <1>1
  <2> QED
    BY <1>1, <2>1
<1>4. Flat(CHOOSE f : Flat(f))
  <2> HIDE DEF Flat
  <2> QED  BY <1>3
<1>5. (CHOOSE f : Flat(f))[1] = e
  <2>1. \A f : Flat(f) => f[1] = e
    BY <1>1
  <2> HIDE DEF Flat
  <2> QED  BY <1>4, <2>1
<1> QED
  BY <1>1, <1>2, <1>5

\* one line of an add,
LEMMA AddLineInOrder ==
  ASSUME NEW j, j.kind = "add", NEW v \in ToSet(j.variants)
  PROVE  InOrder(j, AddLine(j, v), 0, 2)
<1> DEFINE l(mode) == Lock(<<"line", j.cart, v>>, mode)
           c == Lock(<<"cart", j.cart>>, "key")
           w == Lock(<<"variant", v>>, "key")
<1>1. CASE v \in OnCart[j.cart]
  <2>1. AddLine(j, v) = <<l("row")>>
    BY <1>1 DEF AddLine
  <2>2. l("row") \in LocksOf(j)
    BY <1>1 DEF LocksOf, AddLocks
  <2>3. Stage(j, l("row")) = 0
    BY DEF Stage, Lock
  <2>4. InOrder(j, <<l("row")>>, 0, 0)
    BY <2>2, <2>3, OneInOrder
  <2> HIDE DEF l
  <2>5. InOrder(j, <<l("row")>>, 0, 2)
    BY <2>4 DEF InOrder
  <2> QED
    BY <2>1, <2>5
<1>2. CASE v \notin OnCart[j.cart]
  <2> DEFINE a == l("all")
  <2>1. AddLine(j, v) = <<a, c, w>>
    BY <1>2 DEF AddLine
  <2>2. a \in LocksOf(j) /\ c \in LocksOf(j) /\ w \in LocksOf(j)
    <3>1. {a, c, w} = AddLocks(j, v)
      BY <1>2 DEF AddLocks
    <3>2. AddLocks(j, v) \subseteq LocksOf(j)
      BY DEF LocksOf
    <3> QED
      BY <3>1, <3>2
  <2>3. Stage(j, a) = 0 /\ Stage(j, c) = 1 /\ Stage(j, w) = 2
    BY DEF Stage, Lock
  <2> DEFINE s == <<a, c, w>>
  <2> HIDE DEF a, c, w
  <2>4. s \in Seq(LocksOf(j)) /\ Len(s) = 3 /\ s[1] = a /\ s[2] = c /\ s[3] = w
    BY <2>2
  <2>5. \A i \in 1..3 : i = 1 \/ i = 2 \/ i = 3
    OBVIOUS
  <2>6. Later(j, a, c) /\ Later(j, c, w) /\ Later(j, a, w)
    BY <2>3 DEF Later
  <2>7. InOrder(j, s, 0, 2)
    <3> HIDE DEF s
    <3>1. \A i \in 1..3 : Stage(j, s[i]) \in 0..2
      BY <2>3, <2>4, <2>5
    <3>2. \A i, k \in 1..3 : i < k => Later(j, s[i], s[k])
      BY <2>4, <2>5, <2>6
    <3> QED
      BY <2>4, <3>1, <3>2 DEF InOrder
  <2> QED
    BY <2>1, <2>7
<1> QED
  BY <1>1, <1>2

\* and the whole of an add that crosses nothing.
LEMMA AddInOrder ==
  ASSUME NEW j \in Jobs, j.kind = "add", ~Crosses(j)
  PROVE  InOrder(j, Program(j), 0, 8)
<1> DEFINE n == Len(j.variants)
           ls == AddLines(j)
           c == Touch(j)
<1>1. Program(j) = ls \o c
  BY DEF Program
<1>2. j.variants \in Seq(Variants) /\ n \in Nat /\ DOMAIN j.variants = 1..n
  BY JobsAssumption, LenProperties
<1>3. n = 0 \/ n = 1
  <2>1. ~(n > 1)
    BY DEF Crosses
  <2> HIDE DEF n
  <2> QED  BY <1>2, <2>1
<1>4. ls = FlattenSeq([i \in 1..n |-> AddLine(j, j.variants[i])])
  BY <1>2, Zenon DEF AddLines
<1>5. InOrder(j, ls, 0, 2)
  <2>1. CASE n = 0
    <3> DEFINE s == [i \in 1..0 |-> AddLine(j, j.variants[i])]
    <3>1. s = <<>> /\ Len(s) = 0
      OBVIOUS
    <3>2. ls = <<>>
      <4> HIDE DEF s
      <4>1. FlattenSeq(s) = s
        BY <3>1 DEF FlattenSeq
      <4> QED
        BY <1>4, <2>1, <3>1, <4>1 DEF s
    <3> QED
      BY <3>2, NoneInOrder
  <2>2. CASE n = 1
    <3> DEFINE v == j.variants[1]
               s == [i \in 1..1 |-> AddLine(j, j.variants[i])]
    <3>1. v \in ToSet(j.variants)
      BY <1>2, <2>2 DEF ToSet
    <3>2. s = [i \in 1..1 |-> AddLine(j, v)]
      OBVIOUS
    <3>3. ls = AddLine(j, v)
      <4>1. FlattenSeq(s) = AddLine(j, v)
        <5> HIDE DEF s, v
        <5> QED  BY <3>2, FlattenOne
      <4> QED
        BY <1>4, <2>2, <4>1
    <3> QED
      BY <3>1, <3>3, AddLineInOrder
  <2> QED
    BY <1>3, <2>1, <2>2
<1>6. InOrder(j, c, 8, 8)
  BY TouchInOrder DEF LocksOf
<1> HIDE DEF ls, c, n
<1>7. InOrder(j, ls \o c, 0, 8)
  <2>1. 0 \in Int /\ 2 \in Int /\ 8 \in Int /\ 2 < 8 /\ 0 <= 8 /\ 2 <= 8
    OBVIOUS
  <2> QED
    BY <1>5, <1>6, <2>1, ConcatInOrder, Zenon
<1> QED
  BY <1>1, <1>7

\* The program of every job that crosses nothing.
LEMMA StepsInOrder ==
  ASSUME NEW j \in Jobs, ~Crosses(j)
  PROVE  /\ InOrder(j, ProgramOf[j], 0, 8)
         /\ j.kind = "place" => \A v \in ToSet(j.variants) : \E i \in 1..Len(ProgramOf[j]) :
              ProgramOf[j][i] = Lock(<<"variant", v>>, "all")
<1>1. ProgramOf[j] = Program(j)
  BY DEF ProgramOf
<1> SUFFICES InOrder(j, Program(j), 0, 8)
  BY <1>1, PlaceInOrder
<1>2. j.kind \in Kinds /\ j.kind # "attach"
  <2>1. j.kind # "attach"
    BY DEF Crosses
  <2> QED
    BY <2>1, JobsAssumption
<1>3. CASE j.kind \in {"add", "change"}
  <2>1. CASE j.kind = "add"
    BY <2>1, AddInOrder
  <2>2. CASE j.kind = "change"
    BY <2>2, ChangeInOrder
  <2> QED
    BY <1>3, <2>1, <2>2
<1>4. \A a \in 0..8, b \in 0..8 : InOrder(j, Program(j), a, b) => InOrder(j, Program(j), 0, 8)
  <2> TAKE a \in 0..8, b \in 0..8
  <2>1. a..b \subseteq 0..8
    OBVIOUS
  <2> QED
    BY <2>1 DEF InOrder
<1>5. CASE j.kind \in {"place", "release", "dispatch", "reprice", "moderate"}
  <2>1. CASE j.kind = "place"
    BY <1>4, <2>1, PlaceInOrder
  <2>2. CASE j.kind = "release"
    BY <1>4, <2>2, ReleaseInOrder
  <2>3. CASE j.kind = "dispatch"
    BY <1>4, <2>3, DispatchInOrder
  <2>4. CASE j.kind = "reprice"
    BY <1>4, <2>4, RepriceInOrder
  <2>5. CASE j.kind = "moderate"
    BY <1>4, <2>5, ModerateInOrder
  <2> QED
    BY <1>5, <2>1, <2>2, <2>3, <2>4, <2>5
<1> QED
  BY <1>2, <1>3, <1>5 DEF Kinds

-----------------------------------------------------------------------------
(* Who blocks a transaction wants something later, but for two cases:      *)
(* two placements at one line, and sales of one product counted again.     *)

\* What a lock says of the job that takes it.
Shape(j, l) ==
  /\ l.row[1] = "line" =>
       /\ j.kind \in {"place", "change", "add"}
       /\ \E v \in ToSet(j.variants) : l.row = <<"line", j.cart, v>>
  /\ l.row[1] = "cart" => l.mode \in {"row", "key"}
  /\ l.row[1] = "variant" =>
       /\ j.kind = "add" <=> l.mode = "key"
       /\ \E v \in ToSet(j.variants) : l.row = <<"variant", v>>
  /\ l.row[1] = "product" => l.mode = "row"
  /\ j.kind = "add" => l.row[1] \in {"line", "cart", "variant"}
  /\ j.kind = "change" => l.row[1] = "line" \/ (l.row[1] = "cart" /\ l.mode = "row")

\* The locks of a job that crosses nothing are of known shapes.
LEMMA LockShape ==
  ASSUME NEW j \in Jobs, ~Crosses(j), NEW l \in LocksOf(j)
  PROVE  Shape(j, l)
<1>1. j.kind \in Kinds \ {"attach"}
  <2>1. j.kind # "attach"
    BY DEF Crosses
  <2> QED
    BY <2>1, JobsAssumption
<1>2. CASE j.kind = "place"
  <2>1. \/ l = Lock(<<"key", j.key>>, "all")
        \/ \E v \in ToSet(j.variants) : l = Lock(<<"variant", v>>, "all")
        \/ l = Lock(<<"voucher", j.voucher>>, "all")
        \/ \E v \in ToSet(j.variants) : l = Lock(<<"line", j.cart, v>>, "all")
        \/ l = Lock(<<"cart", j.cart>>, "row")
    BY <1>2 DEF LocksOf, VariantLocks, LineLocks, TheCart
  <2> QED
    BY <1>2, <2>1 DEF Shape, Lock
<1>3. CASE j.kind = "release"
  <2>1. \/ l = Lock(<<"order", j.order>>, "all")
        \/ \E v \in ToSet(j.variants) : l = Lock(<<"variant", v>>, "all")
        \/ l = Lock(<<"voucher", j.voucher>>, "row")
    BY <1>3 DEF LocksOf, VariantLocks
  <2> QED
    BY <1>3, <2>1 DEF Shape, Lock
<1>4. CASE j.kind = "dispatch"
  <2>1. \/ l = Lock(<<"order", j.order>>, "all")
        \/ \E v \in ToSet(j.variants) : l = Lock(<<"variant", v>>, "all")
        \/ \E v \in ToSet(j.variants) : l = Lock(<<"product", ProductOf[v]>>, "row")
    BY <1>4 DEF LocksOf, VariantLocks, ProductLocks
  <2> QED
    BY <1>4, <2>1 DEF Shape, Lock
<1>5. CASE j.kind = "change"
  <2>1. \/ \E v \in ToSet(j.variants) : l = Lock(<<"line", j.cart, v>>, "all")
        \/ l = Lock(<<"cart", j.cart>>, "row")
    BY <1>5 DEF LocksOf, LineLocks, TheCart
  <2>2. CASE l = Lock(<<"cart", j.cart>>, "row")
    BY <1>5, <2>2 DEF Shape, Lock
  <2>3. ASSUME NEW v \in ToSet(j.variants), l = Lock(<<"line", j.cart, v>>, "all")
        PROVE  Shape(j, l)
    <3>1. l.row = <<"line", j.cart, v>>
      BY <2>3 DEF Lock
    <3>2. l.row[1] = "line"
      BY <3>1
    <3> QED
      BY <1>5, <3>1, <3>2 DEF Shape
  <2> QED
    BY <2>1, <2>2, <2>3
<1>6. CASE j.kind = "add"
  <2>1. \/ l = Lock(<<"cart", j.cart>>, "row")
        \/ \E v \in ToSet(j.variants) : l \in AddLocks(j, v)
    BY <1>6 DEF LocksOf, TheCart
  <2>2. \/ l = Lock(<<"cart", j.cart>>, "row")
        \/ \E v \in ToSet(j.variants) : \/ l = Lock(<<"line", j.cart, v>>, "row")
                                        \/ l = Lock(<<"line", j.cart, v>>, "all")
                                        \/ l = Lock(<<"cart", j.cart>>, "key")
                                        \/ l = Lock(<<"variant", v>>, "key")
    BY <2>1 DEF AddLocks
  <2> QED
    BY <1>6, <2>2 DEF Shape, Lock
<1>7. CASE j.kind = "reprice"
  <2>1. \/ \E v \in ToSet(j.variants) : l = Lock(<<"variant", v>>, "row")
        \/ \E v \in ToSet(j.variants) : l = Lock(<<"product", ProductOf[v]>>, "row")
    BY <1>7 DEF LocksOf, VariantLocks, ProductLocks
  <2> QED
    BY <1>7, <2>1 DEF Shape, Lock
<1>8. CASE j.kind = "moderate"
  <2>1. \/ l = Lock(<<"review", j.review>>, "row")
        \/ \E v \in ToSet(j.variants) : l = Lock(<<"product", ProductOf[v]>>, "row")
    BY <1>8 DEF LocksOf, ProductLocks
  <2> QED
    BY <1>8, <2>1 DEF Shape, Lock
<1> QED
  BY <1>1, <1>2, <1>3, <1>4, <1>5, <1>6, <1>7, <1>8 DEF Kinds

\* A variant's lock names a variant.
LEMMA VariantLock ==
  ASSUME NEW j \in Jobs, ~Crosses(j), NEW l \in LocksOf(j), l.row[1] = "variant"
  PROVE  \E v \in Variants : l.row[2] = v
<1>1. j.variants \in Seq(Variants)
  BY JobsAssumption
<1>2. ToSet(j.variants) \subseteq Variants
  BY <1>1, VariantsOfJob
<1>3. PICK v \in ToSet(j.variants) : l.row = <<"variant", v>>
  BY LockShape DEF Shape
<1>4. l.row[2] = v
  BY <1>3
<1> QED
  BY <1>2, <1>4

\* An addition to a line that is there locks that line and its cart.
LEMMA OldLineShape ==
  ASSUME NEW j \in Jobs, ~Crosses(j), j.kind = "add", NEW v \in ToSet(j.variants),
         v \in OnCart[j.cart], NEW l \in LocksOf(j)
  PROVE  l = Lock(<<"line", j.cart, v>>, "row") \/ l = TheCart(j)
<1>1. ToSet(j.variants) \subseteq {v}
  <2>1. j.variants \in Seq(Variants) /\ ~(Len(j.variants) > 1)
    <3>1. ~(Len(j.variants) > 1)
      BY DEF Crosses
    <3> QED
      BY <3>1, JobsAssumption
  <2>2. Len(j.variants) \in Nat /\ DOMAIN j.variants = 1..Len(j.variants)
    BY <2>1, LenProperties
  <2>3. \A i \in DOMAIN j.variants : i = 1
    BY <2>1, <2>2
  <2> QED
    BY <2>3 DEF ToSet
<1>2. l \in AddLocks(j, v) \/ l = TheCart(j)
  BY <1>1 DEF LocksOf
<1> QED
  BY <1>2 DEF AddLocks

\* t wants a; u holds b, which refuses a, and wants c.
LEMMA BlockerIsLater ==
  ASSUME NEW t \in Jobs, ~Crosses(t), NEW a \in LocksOf(t),
         NEW u \in Jobs, ~Crosses(u), NEW b \in LocksOf(u), NEW c \in LocksOf(u),
         a.row = b.row, Conflict(b.mode, a.mode), Later(u, b, c)
  PROVE  \/ Stage(t, a) < Stage(u, c)
         \/ Stage(t, a) = 4 /\ Stage(u, c) = 4 /\ a.row[2] < c.row[2]
         \/ /\ t.kind = "place" /\ u.kind = "place"
            /\ \E v \in ToSet(t.variants) \cap ToSet(u.variants) : a.row = <<"line", t.cart, v>>
         \/ c.row = b.row /\ b.mode = "row" /\ c.mode = "row"
<1>1. Shape(t, a) /\ Shape(u, b) /\ Shape(u, c)
  BY LockShape
<1>2. Stage(u, c) \in 0..8 /\ Stage(u, b) \in 0..8 /\ Stage(t, a) \in 0..8
  BY DEF Stage
<1>3. CASE a.row[1] = "line"
  <2>1. PICK v \in ToSet(t.variants) : a.row = <<"line", t.cart, v>>
    BY <1>1, <1>3 DEF Shape
  <2>2. PICK w \in ToSet(u.variants) : b.row = <<"line", u.cart, w>>
    BY <1>1, <1>3 DEF Shape
  <2>3. t.cart = u.cart /\ v = w
    <3>1. <<"line", t.cart, v>> = <<"line", u.cart, w>>
      BY <2>1, <2>2
    <3> QED
      BY <3>1
  <2>4. CASE t.kind \in {"add", "change"}
    <3>1. Stage(t, a) = 0
      BY <1>3, <2>4 DEF Stage
    <3>2. Stage(u, b) \in {0, 6}
      BY <1>3 DEF Stage
    <3> QED
      BY <1>2, <3>1, <3>2 DEF Later
  <2>5. CASE t.kind = "place" /\ u.kind = "place"
    BY <2>1, <2>3, <2>5
  <2>6. CASE t.kind = "place" /\ u.kind \in {"add", "change"}
    <3>1. w \in OnCart[u.cart]
      BY <2>1, <2>3, <2>6, JobsAssumption
    <3>2. Stage(t, a) = 6 /\ Stage(u, b) = 0
      BY <1>3, <2>6 DEF Stage
    <3>3. Stage(u, c) > 0
      BY <1>2, <3>2 DEF Later
    <3>4. c.row[1] # "line"
      BY <2>6, <3>3 DEF Stage
    <3>5. c.row[1] = "cart" /\ c.mode = "row"
      <4>1. CASE u.kind = "change"
        BY <1>1, <3>4, <4>1 DEF Shape
      <4>2. CASE u.kind = "add"
        <5>1. c = Lock(<<"line", u.cart, w>>, "row") \/ c = TheCart(u)
          BY <3>1, <4>2, OldLineShape
        <5> QED
          BY <3>4, <5>1 DEF Lock, TheCart
      <4> QED
        BY <2>6, <4>1, <4>2
    <3>6. Stage(u, c) = 8
      BY <3>5 DEF Stage
    <3> QED
      BY <3>2, <3>6
  <2> QED
    BY <1>1, <1>3, <2>4, <2>5, <2>6 DEF Shape
<1>4. CASE a.row[1] = "cart"
  <2>1. b.mode = "row"
    BY <1>1, <1>4 DEF Shape, Conflict
  <2>2. Stage(u, b) = 8
    BY <1>4, <2>1 DEF Stage
  <2> QED
    BY <1>2, <2>2 DEF Later
<1>5. CASE a.row[1] = "variant"
  <2>1. CASE t.kind = "add"
    <3>1. a.mode = "key"
      BY <1>1, <1>5, <2>1 DEF Shape
    <3>2. u.kind # "add"
      BY <1>1, <1>5, <3>1 DEF Shape, Conflict
    <3>3. Stage(t, a) = 2 /\ Stage(u, b) = 4
      BY <1>5, <2>1, <3>2 DEF Stage
    <3> QED
      BY <1>2, <3>3 DEF Later
  <2>2. CASE t.kind # "add" /\ u.kind = "add"
    <3>1. Stage(t, a) = 4 /\ Stage(u, b) = 2
      BY <1>5, <2>2 DEF Stage
    <3>2. Stage(u, c) > 2
      BY <1>2, <3>1 DEF Later
    <3>3. c.row[1] \in {"line", "cart", "variant"}
      BY <1>1, <2>2 DEF Shape
    <3>4. Stage(u, c) \in {0, 1, 2, 8}
      BY <2>2, <3>3 DEF Stage
    <3> QED
      BY <3>1, <3>2, <3>4
  <2>3. CASE t.kind # "add" /\ u.kind # "add"
    <3>1. Stage(t, a) = 4 /\ Stage(u, b) = 4
      BY <1>5, <2>3 DEF Stage
    <3> QED
      BY <1>2, <3>1 DEF Later
  <2> QED
    BY <2>1, <2>2, <2>3
<1>6. CASE a.row[1] = "product"
  <2>1. Stage(t, a) = 7 /\ Stage(u, b) = 7
    BY <1>6 DEF Stage
  <2>2. Stage(u, c) > 7 \/ c.row = b.row
    BY <1>2, <2>1 DEF Later
  <2>3. CASE c.row = b.row
    BY <1>1, <1>6, <2>3 DEF Shape
  <2> QED
    BY <2>1, <2>2, <2>3
<1>7. CASE a.row[1] \notin {"line", "cart", "variant", "product"}
  <2>1. Stage(t, a) = Stage(u, b) /\ Stage(t, a) \in {3, 5}
    BY <1>7 DEF Stage
  <2> QED
    BY <1>2, <2>1 DEF Later
<1> QED
  BY <1>3, <1>4, <1>5, <1>6, <1>7

-----------------------------------------------------------------------------
(* The locks of the open transactions.                                     *)

TypeInv ==
  /\ job \in [Txns -> Jobs]
  /\ at \in [Txns -> Nat]
  /\ state \in [Txns -> {"open", "committed", "rolled back"}]

\* No two open transactions hold locks that conflict.
Exclusive ==
  \A t, u \in Txns : t # u /\ t \in Open /\ u \in Open =>
    \A i \in 1..at[t], k \in 1..at[u] :
      Steps(t)[i].row = Steps(u)[k].row => ~Conflict(Steps(t)[i].mode, Steps(u)[k].mode)

\* Few transactions have begun, however many there may be.
FewBegan == IsFiniteSet({t \in Txns : at[t] > 0})

Inv == TypeInv /\ Exclusive /\ FewBegan

\* Taking a lock keeps the invariant,
LEMMA TakeKeeps ==
  ASSUME Inv, NEW t \in Txns, Take(t)
  PROVE  Inv'
<1>1. /\ Wants(t) /\ \A u \in Txns : ~Blocks(u, t)
      /\ at' = [at EXCEPT ![t] = @ + 1] /\ job' = job /\ state' = state
  BY DEF Take
<1>2. TypeInv
  BY DEF Inv
<1>3. /\ at'[t] = at[t] + 1 /\ at[t] \in Nat
      /\ \A u \in Txns : u # t => at'[u] = at[u]
      /\ \A u \in Txns : Steps(u)' = Steps(u)
      /\ Open' = Open
  BY <1>1, <1>2 DEF TypeInv, Steps, Open
<1>4. TypeInv'
  <2>1. at' \in [Txns -> Nat]
    <3>1. at[t] + 1 \in Nat /\ at \in [Txns -> Nat]
      <4>1. at \in [Txns -> Nat]
        BY <1>2 DEF TypeInv
      <4>2. at[t] \in Nat
        BY <4>1
      <4> QED
        BY <4>1, <4>2
    <3>2. at' = [at EXCEPT ![t] = at[t] + 1]
      BY <1>1
    <3> QED
      BY <3>1, <3>2
  <2> QED
    BY <1>1, <1>2, <2>1 DEF TypeInv
<1>5. \A i \in 1..at'[t] : i \in 1..at[t] \/ i = at[t] + 1
  BY <1>3
<1>6. ASSUME NEW u \in Txns, u # t, u \in Open,
             NEW i \in 1..at'[t], NEW k \in 1..at[u],
             Steps(t)[i].row = Steps(u)[k].row
      PROVE  ~Conflict(Steps(t)[i].mode, Steps(u)[k].mode)
  <2>1. CASE i \in 1..at[t]
    <3>1. t \in Open
      BY <1>1 DEF Wants
    <3> QED
      BY <1>6, <2>1, <3>1 DEF Inv, Exclusive
  <2>2. CASE i = at[t] + 1
    <3>1. Steps(t)[i] = NextLock(t)
      BY <2>2 DEF NextLock
    <3>2. ~Conflict(Steps(u)[k].mode, NextLock(t).mode)
      BY <1>1, <1>6, <3>1 DEF Blocks
    <3> QED
      BY <3>1, <3>2 DEF Conflict
  <2> QED
    BY <1>5, <2>1, <2>2
<1>7. Exclusive'
  <2> SUFFICES ASSUME NEW u \in Txns, NEW w \in Txns, u # w, u \in Open, w \in Open,
                      NEW i \in 1..at'[u], NEW k \in 1..at'[w],
                      Steps(u)[i].row = Steps(w)[k].row
               PROVE  ~Conflict(Steps(u)[i].mode, Steps(w)[k].mode)
    BY <1>3 DEF Exclusive
  <2>1. CASE u = t
    BY <1>3, <1>6, <2>1
  <2>2. CASE w = t
    <3>1. k \in 1..at'[t] /\ i \in 1..at[u] /\ u # t
      BY <1>3, <2>2
    <3>2. ~Conflict(Steps(t)[k].mode, Steps(u)[i].mode)
      BY <1>6, <2>2, <3>1
    <3> QED
      BY <2>2, <3>2 DEF Conflict
  <2>3. CASE u # t /\ w # t
    BY <1>3, <2>3 DEF Inv, Exclusive
  <2> QED
    BY <2>1, <2>2, <2>3
<1>8. FewBegan'
  <2> DEFINE B == {u \in Txns : at[u] > 0}
             C == {u \in Txns : at'[u] > 0}
  <2>1. C = B \union {t}
    <3>1. at'[t] > 0
      BY <1>3
    <3>2. \A u \in Txns : u \in C <=> u \in B \union {t}
      BY <1>3, <3>1
    <3> QED
      BY <3>2
  <2>2. IsFiniteSet(B)
    BY DEF Inv, FewBegan
  <2> HIDE DEF B
  <2>3. IsFiniteSet(B \union {t})
    BY <2>2, FS_AddElement
  <2> QED
    BY <2>1, <2>3 DEF FewBegan
<1> QED
  BY <1>4, <1>7, <1>8 DEF Inv

\* and so does letting all of them go.
LEMMA EndKeeps ==
  ASSUME Inv, NEW t \in Txns, Commit(t) \/ RollBack(t) \/ UNCHANGED vars
  PROVE  Inv'
<1>1. /\ job' = job /\ at' = at
      /\ \/ state' = state
         \/ state' = [state EXCEPT ![t] = "committed"]
         \/ state' = [state EXCEPT ![t] = "rolled back"]
  BY DEF Commit, RollBack, vars
<1>2. TypeInv'
  BY <1>1 DEF Inv, TypeInv
<1>3. (\A u \in Txns : Steps(u)' = Steps(u)) /\ Open' \subseteq Open
  BY <1>1 DEF Steps, Open, Inv, TypeInv
<1>4. Exclusive'
  <2> SUFFICES ASSUME NEW u \in Txns, NEW w \in Txns, u # w, u \in Open', w \in Open',
                      NEW i \in 1..at'[u], NEW k \in 1..at'[w],
                      Steps(u)'[i].row = Steps(w)'[k].row
               PROVE  ~Conflict(Steps(u)'[i].mode, Steps(w)'[k].mode)
    BY DEF Exclusive
  <2>1. u \in Open /\ w \in Open /\ i \in 1..at[u] /\ k \in 1..at[w]
    BY <1>1, <1>3
  <2>2. Steps(u)[i].row = Steps(w)[k].row
    BY <1>3
  <2> QED
    BY <1>3, <2>1, <2>2 DEF Inv, Exclusive
<1>5. FewBegan'
  BY <1>1 DEF Inv, FewBegan
<1> QED
  BY <1>2, <1>4, <1>5 DEF Inv

\* Two open transactions never hold conflicting locks.
LEMMA InvIsInvariant == Spec => []Inv
<1>1. Init => Inv
  <2> SUFFICES ASSUME Init
               PROVE  Inv
    OBVIOUS
  <2>1. at = [t \in Txns |-> 0]
    BY DEF Init
  <2>2. TypeInv
    BY DEF Init, TypeInv
  <2>3. Exclusive
    BY <2>1 DEF Exclusive
  <2>4. {t \in Txns : at[t] > 0} = {}
    BY <2>1
  <2> QED
    BY <2>2, <2>3, <2>4, FS_EmptySet DEF Inv, FewBegan
<1>2. Inv /\ [Next]_vars => Inv'
  <2> SUFFICES ASSUME Inv, [Next]_vars
               PROVE  Inv'
    OBVIOUS
  <2>1. CASE UNCHANGED vars
    <3>1. CASE Txns = {}
      BY <2>1, <3>1 DEF vars, Inv, TypeInv, Exclusive, FewBegan
    <3>2. CASE Txns # {}
      BY <2>1, <3>2, EndKeeps
    <3> QED
      BY <3>1, <3>2
  <2>2. ASSUME NEW t \in Txns, Take(t)
        PROVE  Inv'
    BY <2>2, TakeKeeps
  <2>3. ASSUME NEW t \in Txns, Commit(t) \/ RollBack(t)
        PROVE  Inv'
    BY <2>3, EndKeeps
  <2> QED
    BY <2>1, <2>2, <2>3 DEF Next
<1> QED
  BY <1>1, <1>2, PTL DEF Spec

-----------------------------------------------------------------------------
(* Who is furthest.                                                        *)

StageOfTxn(t) == Stage(job[t], NextLock(t))

\* If two of them block each other's way, the one in the way is further: at a
\* later stage, or at a variant with a greater id.
LEMMA BlockerIsFurther ==
  ASSUME Inv, NEW t \in Txns, NEW u \in Txns, NEW w \in Txns,
         ~Crosses(job[t]), ~Crosses(job[u]), Blocks(u, t), Blocks(w, u)
  PROVE  \/ StageOfTxn(t) < StageOfTxn(u)
         \/ /\ StageOfTxn(t) = 4 /\ StageOfTxn(u) = 4
            /\ NextLock(t).row[2] < NextLock(u).row[2]
<1> DEFINE a == NextLock(t)
           c == NextLock(u)
<1>1. TypeInv /\ Exclusive
  BY DEF Inv
<1>2. /\ job[t] \in Jobs /\ job[u] \in Jobs /\ at[t] \in Nat /\ at[u] \in Nat
      /\ u # t /\ u \in Open /\ t \in Open /\ w \in Open /\ w # u
      /\ at[t] < Len(Steps(t)) /\ at[u] < Len(Steps(u))
  BY <1>1 DEF TypeInv, Blocks, Wants
<1>3. InOrder(job[t], Steps(t), 0, 8) /\ InOrder(job[u], Steps(u), 0, 8)
  BY <1>2, StepsInOrder DEF Steps
<1>4. Steps(t) \in Seq(LocksOf(job[t])) /\ Steps(u) \in Seq(LocksOf(job[u]))
  BY <1>3 DEF InOrder
<1>5. Len(Steps(t)) \in Nat /\ Len(Steps(u)) \in Nat
  BY <1>4, LenProperties
<1>6. PICK i \in 1..at[u] : Steps(u)[i].row = a.row /\ Conflict(Steps(u)[i].mode, a.mode)
  BY DEF Blocks
<1> DEFINE b == Steps(u)[i]
<1>7. /\ at[t] + 1 \in 1..Len(Steps(t)) /\ at[u] + 1 \in 1..Len(Steps(u))
      /\ i \in 1..Len(Steps(u)) /\ i < at[u] + 1
  BY <1>2, <1>5
<1>8. a \in LocksOf(job[t]) /\ b \in LocksOf(job[u]) /\ c \in LocksOf(job[u])
  BY <1>4, <1>7, ElementOfSeq DEF NextLock
<1>9. Later(job[u], b, c)
  BY <1>3, <1>7 DEF InOrder, NextLock
<1>10. a.row = b.row /\ Conflict(b.mode, a.mode)
  BY <1>6
<1>11. ASSUME job[t].kind = "place", job[u].kind = "place",
              NEW v \in ToSet(job[t].variants) \cap ToSet(job[u].variants),
              a.row = <<"line", job[t].cart, v>>
       PROVE  FALSE
  <2>1. PICK k \in 1..Len(Steps(t)) : Steps(t)[k] = Lock(<<"variant", v>>, "all")
    BY <1>2, <1>11, StepsInOrder DEF Steps
  <2>2. PICK n \in 1..Len(Steps(u)) : Steps(u)[n] = Lock(<<"variant", v>>, "all")
    BY <1>2, <1>11, StepsInOrder DEF Steps
  <2>3. Stage(job[t], Steps(t)[k]) = 4 /\ Stage(job[u], Steps(u)[n]) = 4
    BY <1>11, <2>1, <2>2 DEF Stage, Lock
  <2>4. a.row[1] = "line" /\ b.row[1] = "line"
    BY <1>10, <1>11
  <2>5. Stage(job[t], a) = 6 /\ Stage(job[u], b) = 6
    BY <1>11, <2>4 DEF Stage
  <2>6. k <= at[t]
    <3>1. ~(at[t] + 1 < k)
      <4>1. ~Later(job[t], a, Steps(t)[k])
        BY <2>3, <2>5 DEF Later
      <4> QED
        BY <1>3, <1>7, <4>1 DEF InOrder, NextLock
    <3>2. k # at[t] + 1
      BY <2>3, <2>5 DEF NextLock
    <3> QED
      BY <1>2, <1>5, <3>1, <3>2
  <2>7. n <= at[u]
    <3>1. ~(i < n)
      <4>1. ~Later(job[u], b, Steps(u)[n])
        BY <2>3, <2>5 DEF Later
      <4> QED
        BY <1>3, <1>7, <4>1 DEF InOrder
    <3> QED
      BY <1>2, <1>5, <3>1
  <2>8. k \in 1..at[t] /\ n \in 1..at[u]
    BY <1>2, <1>5, <2>6, <2>7
  <2> QED
    BY <1>1, <1>2, <2>1, <2>2, <2>8 DEF Exclusive, Conflict, Lock
<1>12. ASSUME c.row = b.row, b.mode = "row", c.mode = "row"
       PROVE  FALSE
  <2>1. PICK k \in 1..at[w] : Steps(w)[k].row = c.row /\ Conflict(Steps(w)[k].mode, c.mode)
    BY DEF Blocks
  <2>2. ~Conflict(b.mode, Steps(w)[k].mode)
    BY <1>1, <1>2, <1>12, <2>1 DEF Exclusive
  <2> QED
    BY <1>12, <2>1, <2>2 DEF Conflict
<1>13. \/ Stage(job[t], a) < Stage(job[u], c)
       \/ Stage(job[t], a) = 4 /\ Stage(job[u], c) = 4 /\ a.row[2] < c.row[2]
  <2> HIDE DEF a, b, c
  <2> QED
    BY <1>2, <1>8, <1>9, <1>10, <1>11, <1>12, BlockerIsLater
<1> QED
  BY <1>13 DEF StageOfTxn

\* Of transactions that each wait for another of them, those that are waited
\* for have locks, so they are few, and one of them is furthest: nobody of
\* them is waited for by it.
LEMMA SomeCrosses ==
  ASSUME Inv, NEW S \in SUBSET Txns, Deadlocked(S)
  PROVE  \E t \in S : Crosses(job[t])
<1> SUFFICES ASSUME \A t \in S : ~Crosses(job[t])
             PROVE  FALSE
  OBVIOUS
<1> DEFINE B == {u \in S : \E t \in S : Blocks(u, t)}
<1>1. S # {} /\ \A t \in S : \E u \in S : Blocks(u, t)
  BY DEF Deadlocked
<1>2. B # {} /\ B \in SUBSET S /\ \A t \in B : \E u \in B : Blocks(u, t)
  BY <1>1
<1>3. \A u \in B : u \in Txns /\ at[u] > 0
  <2> SUFFICES ASSUME NEW u \in B
               PROVE  at[u] > 0
    OBVIOUS
  <2>1. PICK t \in S : Blocks(u, t)
    OBVIOUS
  <2>2. PICK i \in 1..at[u] : TRUE
    BY <2>1 DEF Blocks
  <2>3. at[u] \in Nat
    BY DEF Inv, TypeInv
  <2> QED
    BY <2>2, <2>3
<1>4. IsFiniteSet(B)
  <2>1. B \subseteq {t \in Txns : at[t] > 0}
    BY <1>3
  <2>2. IsFiniteSet({t \in Txns : at[t] > 0})
    BY DEF Inv, FewBegan
  <2> HIDE DEF B
  <2> QED  BY <2>1, <2>2, FS_Subset
<1>5. \A t \in B, u \in B : Blocks(u, t) =>
        \/ StageOfTxn(t) < StageOfTxn(u)
        \/ /\ StageOfTxn(t) = 4 /\ StageOfTxn(u) = 4
           /\ NextLock(t).row[2] < NextLock(u).row[2]
  <2> SUFFICES ASSUME NEW t \in B, NEW u \in B, Blocks(u, t)
               PROVE  \/ StageOfTxn(t) < StageOfTxn(u)
                      \/ /\ StageOfTxn(t) = 4 /\ StageOfTxn(u) = 4
                         /\ NextLock(t).row[2] < NextLock(u).row[2]
    OBVIOUS
  <2>1. PICK w \in B : Blocks(w, u)
    BY <1>2
  <2>2. t \in Txns /\ u \in Txns /\ w \in Txns /\ ~Crosses(job[t]) /\ ~Crosses(job[u])
    BY <2>1
  <2> QED
    BY <2>1, <2>2, BlockerIsFurther
<1> HIDE DEF B
<1> DEFINE rank == [t \in B |-> StageOfTxn(t)]
<1>6. \A t \in B : rank[t] \in 0..8
  BY DEF StageOfTxn, Stage
<1>7. PICK t \in B : \A u \in B : rank[u] <= rank[t]
  <2> HIDE DEF rank
  <2> QED  BY <1>2, <1>6, GreatestRank
<1>8. \A u \in B : StageOfTxn(u) <= StageOfTxn(t) /\ StageOfTxn(u) \in 0..8 /\ StageOfTxn(t) \in 0..8
  BY <1>6, <1>7
<1> DEFINE V == {u \in B : StageOfTxn(u) = 4}
           id == [u \in V |-> NextLock(u).row[2]]
           Ids == {id[u] : u \in V}
<1>9. StageOfTxn(t) = 4 /\ t \in V
  <2>1. PICK u \in B : Blocks(u, t)
    BY <1>2
  <2> QED
    BY <1>5, <1>8, <2>1
<1>10. \A u \in V : NextLock(u).row[2] \in Int
  <2> SUFFICES ASSUME NEW u \in V
               PROVE  NextLock(u).row[2] \in Int
    OBVIOUS
  <2>1. PICK w \in B : Blocks(w, u)
    BY <1>2
  <2>2. /\ u \in Txns /\ job[u] \in Jobs /\ ~Crosses(job[u])
        /\ at[u] \in Nat /\ at[u] < Len(Steps(u))
    BY <1>2, <2>1 DEF Inv, TypeInv, Blocks, Wants
  <2>3. Steps(u) \in Seq(LocksOf(job[u]))
    BY <2>2, StepsInOrder DEF Steps, InOrder
  <2>4. at[u] + 1 \in 1..Len(Steps(u))
    BY <2>2, <2>3, LenProperties
  <2>5. NextLock(u) \in LocksOf(job[u])
    BY <2>3, <2>4, ElementOfSeq DEF NextLock
  <2>6. Stage(job[u], NextLock(u)) = 4
    BY DEF StageOfTxn
  <2>7. NextLock(u).row[1] = "variant" /\ job[u].kind # "add"
    BY <2>6 DEF Stage
  <2>8. \E v \in Variants : NextLock(u).row[2] = v
    BY <2>2, <2>5, <2>7, VariantLock
  <2> QED
    BY <2>8, JobsAssumption
<1>11. IsFiniteSet(Ids) /\ Ids # {} /\ Ids \subseteq Int
  <2>1. IsFiniteSet(V)
    BY <1>4, FS_Subset
  <2>2. id \in [V -> Ids] /\ (\A n \in Ids : \E u \in V : id[u] = n) /\ Ids # {} /\ Ids \subseteq Int
    BY <1>9, <1>10
  <2> HIDE DEF V, id, Ids
  <2>3. id \in Surjection(V, Ids)
    BY <2>2 DEF Surjection
  <2>4. IsFiniteSet(Ids)
    BY <2>1, <2>3, FS_Surjection
  <2> QED
    BY <2>2, <2>4
<1>12. PICK m \in Ids : \A n \in Ids : n <= m
  <2> HIDE DEF Ids
  <2> QED  BY <1>11, GreatestNumber
<1>13. PICK u \in V : NextLock(u).row[2] = m
  BY <1>12
<1>14. PICK w \in B : Blocks(w, u)
  BY <1>2
<1>15. StageOfTxn(w) = 4 /\ m < NextLock(w).row[2]
  BY <1>5, <1>8, <1>9, <1>13, <1>14
<1>16. NextLock(w).row[2] \in Ids
  BY <1>15
<1>17. NextLock(w).row[2] <= m /\ NextLock(w).row[2] \in Int /\ m \in Int
  BY <1>11, <1>12, <1>16
<1> QED
  BY <1>15, <1>17

\* However many orders are placed, cancelled, expired and dispatched at once,
\* and cart lines changed, variants repriced and reviews moderated meanwhile:
\* every deadlock has a transaction in it that locks rows as they were named, or a
\* cart before its voucher.
THEOREM CrossingTheorem == Spec => []OnlyCrossingsDeadlock
<1>1. Inv => OnlyCrossingsDeadlock
  BY SomeCrosses DEF OnlyCrossingsDeadlock
<1> QED
  BY <1>1, InvIsInvariant, PTL
=============================================================================
