----------------------------- MODULE SumTheorems -----------------------------
(***************************************************************************)
(* Facts the proofs of several components rest on: induction over a finite *)
(* set, the greatest of some bounded numbers, and the sum a function takes *)
(* over a finite set, which the community module defines by a recursive    *)
(* function that picks the elements in an order of its own.                *)
(***************************************************************************)
EXTENDS Integers, Functions, FiniteSetTheorems, WellFoundedInduction, TLAPS

-----------------------------------------------------------------------------
(* Induction, with a set for the property.                                 *)

\* A least set outside G would have no element to take away.
LEMMA LeastOutside ==
  ASSUME NEW S, IsFiniteSet(S), NEW G, S \notin G
  PROVE  \E T \in SUBSET S :
           T \notin G /\ \A U \in SUBSET T : U # T => U \in G
<1> DEFINE Bad == {T \in FiniteSubsetsOf(S) : T \notin G}
<1>1. Bad \subseteq FiniteSubsetsOf(S) /\ S \in Bad
  BY DEF FiniteSubsetsOf
<1>2. IsWellFoundedOn(StrictSubsetOrdering(S), FiniteSubsetsOf(S))
  BY FS_StrictSubsetOrderingWellFounded
<1> HIDE DEF Bad
<1>3. PICK T \in Bad : \A U \in Bad : ~ (<<U, T>> \in StrictSubsetOrdering(S))
  BY <1>1, <1>2, WFMin
<1>4. T \in SUBSET S /\ T \notin G /\ IsFiniteSet(T)
  BY <1>3 DEF Bad, FiniteSubsetsOf
<1>5. ASSUME NEW U \in SUBSET T, U # T, U \notin G
      PROVE  FALSE
  <2>1. IsFiniteSet(U)
    BY <1>4, FS_Subset
  <2>2. U \in Bad
    BY <1>4, <1>5, <2>1 DEF Bad, FiniteSubsetsOf
  <2>3. <<U, T>> \in StrictSubsetOrdering(S)
    BY <1>4, <1>5 DEF StrictSubsetOrdering
  <2> QED
    BY <1>3, <2>2, <2>3
<1> QED
  BY <1>4, <1>5

\* A family that has the empty set and is closed under adding an element has
\* every finite set.
LEMMA FiniteSetInduction ==
  ASSUME NEW S, IsFiniteSet(S), NEW G, {} \in G,
         \A T \in SUBSET S : \A x \in S \ T : T \in G => T \union {x} \in G
  PROVE  S \in G
<1> SUFFICES ASSUME S \notin G
             PROVE  FALSE
  OBVIOUS
<1>1. PICK T \in SUBSET S : T \notin G /\ \A U \in SUBSET T : U # T => U \in G
  BY LeastOutside
<1>2. PICK x : x \in T
  BY <1>1
<1>3. T \ {x} \in G
  BY <1>1, <1>2
<1>4. (T \ {x}) \union {x} = T
  BY <1>2
<1> QED
  BY <1>1, <1>2, <1>3, <1>4

\* A finite set of numbers has a greatest.
LEMMA GreatestNumber ==
  ASSUME NEW S, IsFiniteSet(S), S # {}, S \subseteq Int
  PROVE  \E m \in S : \A k \in S : k <= m
<1> DEFINE G == {T \in SUBSET S : T = {} \/ \E m \in T : \A k \in T : k <= m}
<1>1. {} \in G
  OBVIOUS
<1>2. ASSUME NEW T \in SUBSET S, NEW x \in S \ T, T \in G
      PROVE  T \union {x} \in G
  <2>1. CASE T = {}
    BY <2>1
  <2>2. CASE T # {}
    <3>1. PICK m \in T : \A k \in T : k <= m
      BY <1>2, <2>2
    <3>2. m \in Int /\ x \in Int /\ T \subseteq Int
      BY <3>1
    <3>3. CASE m <= x
      <4>1. \A k \in T \union {x} : k <= x
        BY <3>1, <3>2, <3>3
      <4> QED  BY <1>2, <4>1
    <3>4. CASE ~ (m <= x)
      <4>1. \A k \in T \union {x} : k <= m
        BY <3>1, <3>2, <3>4
      <4> QED  BY <1>2, <3>1, <4>1
    <3> QED  BY <3>3, <3>4
  <2> QED
    BY <2>1, <2>2
<1>3. S \in G
  <2> HIDE DEF G
  <2> QED  BY <1>1, <1>2, FiniteSetInduction
<1> QED
  BY <1>3

\* Of some things with a number up to n each, one has the greatest.
LEMMA GreatestRank ==
  ASSUME NEW S, S # {}, NEW n \in Nat, NEW rank, \A x \in S : rank[x] \in 0..n
  PROVE  \E x \in S : \A y \in S : rank[y] <= rank[x]
<1> DEFINE Ranks == {rank[x] : x \in S}
<1>1. Ranks \subseteq 0..n /\ Ranks # {} /\ Ranks \subseteq Int
  OBVIOUS
<1>2. IsFiniteSet(Ranks)
  <2> HIDE DEF Ranks
  <2>1. IsFiniteSet(0..n)
    BY FS_Interval
  <2> QED  BY <1>1, <2>1, FS_Subset
<1>3. PICK m \in Ranks : \A k \in Ranks : k <= m
  <2> HIDE DEF Ranks
  <2> QED  BY <1>1, <1>2, GreatestNumber
<1> QED
  BY <1>3

\* A set that has 0, and the successor of what it has, has every number.
LEMMA NumberInduction ==
  ASSUME NEW G, 0 \in G, \A n \in Nat : n \in G => n + 1 \in G
  PROVE  \A n \in Nat : n \in G
<1> SUFFICES ASSUME NEW n \in Nat, n \notin G
             PROVE  FALSE
  OBVIOUS
<1> DEFINE T == {k \in 0..n : \A j \in 0..k : j \in G}
<1>1. 0 \in T
  OBVIOUS
<1>2. IsFiniteSet(T) /\ T \subseteq Int
  <2>1. IsFiniteSet(0..n) /\ T \subseteq 0..n /\ 0..n \subseteq Int
    BY FS_Interval
  <2> HIDE DEF T
  <2> QED  BY <2>1, FS_Subset
<1>3. PICK m \in T : \A k \in T : k <= m
  <2> HIDE DEF T
  <2> QED  BY <1>1, <1>2, GreatestNumber
<1>4. m \in 0..n /\ \A j \in 0..m : j \in G
  BY <1>3
<1>5. m < n /\ m \in G /\ m \in Nat
  BY <1>4
<1>6. m + 1 \in G
  BY <1>5
<1>7. \A j \in 0..(m + 1) : j \in 0..m \/ j = m + 1
  BY <1>5
<1>8. m + 1 \in T
  BY <1>4, <1>5, <1>6, <1>7
<1>9. m + 1 <= m
  <2> HIDE DEF T
  <2> QED  BY <1>3, <1>8
<1> QED
  BY <1>5, <1>9

-----------------------------------------------------------------------------
(* The sum of a function over a finite set.                                *)

Pick(s) == CHOOSE x \in s : TRUE

\* What the recursive function of the definition satisfies.
IsIter(it, f, S) ==
  it = [s \in SUBSET S |-> IF s = {} THEN 0 ELSE f[Pick(s)] + it[s \ {Pick(s)}]]

\* A sum over a set is defined by picking one element after another.
LEMMA SumIsIter ==
  ASSUME NEW f, NEW S
  PROVE  SumFunctionOnSet(f, S) = (CHOOSE it : IsIter(it, f, S))[S]
  BY DEF SumFunctionOnSet, FoldFunctionOnSet, MapThenFoldSet, IsIter, Pick

\* What is picked is an element.
LEMMA PickIsIn ==
  ASSUME NEW s, s # {}
  PROVE  Pick(s) \in s
  BY DEF Pick

\* There is at most one such function,
LEMMA IterUnique ==
  ASSUME NEW f, NEW S, IsFiniteSet(S), NEW i, NEW j, IsIter(i, f, S), IsIter(j, f, S)
  PROVE  i = j
<1> DEFINE G == {s \in SUBSET S : i[s] = j[s]}
<1>1. ASSUME NEW T \in SUBSET S, T \notin G
      PROVE  FALSE
  <2>1. IsFiniteSet(T)
    BY FS_Subset
  <2>2. PICK s \in SUBSET T : s \notin G /\ \A u \in SUBSET s : u # s => u \in G
    <3> HIDE DEF G
    <3> QED  BY <1>1, <2>1, LeastOutside
  <2>3. s # {}
    BY <2>2 DEF IsIter
  <2>4. Pick(s) \in s
    BY <2>3, PickIsIn
  <2>5. s \ {Pick(s)} \in G
    BY <2>2, <2>4
  <2>6. i[s] = f[Pick(s)] + i[s \ {Pick(s)}] /\ j[s] = f[Pick(s)] + j[s \ {Pick(s)}]
    BY <2>3 DEF IsIter
  <2> QED
    BY <2>2, <2>5, <2>6
<1>2. \A s \in SUBSET S : i[s] = j[s]
  BY <1>1
<1> QED
  BY <1>2 DEF IsIter

\* and what it says of a subset is what the subset's own one says.
LEMMA IterRestricts ==
  ASSUME NEW f, NEW S, NEW it, IsIter(it, f, S), NEW T \in SUBSET S
  PROVE  IsIter([s \in SUBSET T |-> it[s]], f, T)
<1> DEFINE r == [s \in SUBSET T |-> it[s]]
<1>1. \A s \in SUBSET T : s # {} => Pick(s) \in s
  BY PickIsIn
<1>2. ASSUME NEW s \in SUBSET T
      PROVE  r[s] = IF s = {} THEN 0 ELSE f[Pick(s)] + r[s \ {Pick(s)}]
  <2>1. s \in SUBSET S /\ s \ {Pick(s)} \in SUBSET T
    OBVIOUS
  <2>2. it[s] = IF s = {} THEN 0 ELSE f[Pick(s)] + it[s \ {Pick(s)}]
    BY <2>1 DEF IsIter
  <2> QED
    BY <2>1, <2>2
<1> QED
  BY <1>2 DEF IsIter

\* What a step of the recursion adds, when the rest of the set has its sum.
LEMMA SumUnfolds ==
  ASSUME NEW f, NEW S, IsFiniteSet(S), NEW it, IsIter(it, f, S)
  PROVE  /\ \A T \in SUBSET S : it[T] = SumFunctionOnSet(f, T)
         /\ S # {} => SumFunctionOnSet(f, S) =
                        f[Pick(S)] + SumFunctionOnSet(f, S \ {Pick(S)})
         /\ S = {} => SumFunctionOnSet(f, S) = 0
<1>1. ASSUME NEW T \in SUBSET S
      PROVE  it[T] = SumFunctionOnSet(f, T)
  <2> DEFINE r == [s \in SUBSET T |-> it[s]]
             c == CHOOSE x : IsIter(x, f, T)
  <2>1. IsIter(r, f, T)
    BY IterRestricts
  <2>2. IsIter(c, f, T)
    <3> HIDE DEF r
    <3> QED  BY <2>1
  <2>3. r = c
    <3> HIDE DEF r, c
    <3>1. IsFiniteSet(T)
      BY FS_Subset
    <3> QED  BY <2>1, <2>2, <3>1, IterUnique
  <2>4. r[T] = it[T]
    OBVIOUS
  <2>5. SumFunctionOnSet(f, T) = c[T]
    BY SumIsIter
  <2> QED
    BY <2>3, <2>4, <2>5
<1>2. it[S] = IF S = {} THEN 0 ELSE f[Pick(S)] + it[S \ {Pick(S)}]
  BY DEF IsIter
<1>3. S \ {Pick(S)} \in SUBSET S /\ S \in SUBSET S
  OBVIOUS
<1> QED
  BY <1>1, <1>2, <1>3

\* Such a function exists for every finite set.
LEMMA IterExists ==
  ASSUME NEW f, NEW S, IsFiniteSet(S)
  PROVE  \E it : IsIter(it, f, S)
<1> DEFINE G == {T \in SUBSET S : \E it : IsIter(it, f, T)}
<1>1. SUFFICES ASSUME S \notin G
               PROVE  FALSE
  OBVIOUS
<1>2. PICK T \in SUBSET S : T \notin G /\ \A U \in SUBSET T : U # T => U \in G
  <2> HIDE DEF G
  <2> QED  BY <1>1, LeastOutside
<1>3. IsFiniteSet(T)
  BY FS_Subset
<1>4. ASSUME NEW U \in SUBSET T, U # T
      PROVE  /\ U # {} => SumFunctionOnSet(f, U) =
                            f[Pick(U)] + SumFunctionOnSet(f, U \ {Pick(U)})
             /\ U = {} => SumFunctionOnSet(f, U) = 0
  <2>1. PICK it : IsIter(it, f, U)
    BY <1>2, <1>4
  <2>2. IsFiniteSet(U)
    BY <1>3, FS_Subset
  <2> QED
    BY <2>1, <2>2, SumUnfolds
<1> DEFINE it == [s \in SUBSET T |->
                    IF s = {} THEN 0 ELSE f[Pick(s)] + SumFunctionOnSet(f, s \ {Pick(s)})]
<1>5. ASSUME NEW s \in SUBSET T
      PROVE  it[s] = IF s = {} THEN 0 ELSE f[Pick(s)] + it[s \ {Pick(s)}]
  <2>1. CASE s = {}
    BY <2>1
  <2>2. CASE s # {}
    <3> DEFINE u == s \ {Pick(s)}
    <3>1. Pick(s) \in s
      BY <2>2, PickIsIn
    <3>2. u \in SUBSET T /\ u # T
      BY <3>1
    <3>3. it[u] = SumFunctionOnSet(f, u)
      <4>1. it[u] = IF u = {} THEN 0 ELSE f[Pick(u)] + SumFunctionOnSet(f, u \ {Pick(u)})
        BY <3>2
      <4>2. /\ u # {} => SumFunctionOnSet(f, u) =
                            f[Pick(u)] + SumFunctionOnSet(f, u \ {Pick(u)})
            /\ u = {} => SumFunctionOnSet(f, u) = 0
        <5> HIDE DEF u
        <5> QED  BY <1>4, <3>2
      <4> QED  BY <4>1, <4>2
    <3> QED
      BY <2>2, <3>3
  <2> QED
    BY <2>1, <2>2
<1>6. IsIter(it, f, T)
  BY <1>5 DEF IsIter
<1> QED
  BY <1>2, <1>6

\* The sum of the empty set, and of any other by the element that is picked.
LEMMA SumByPick ==
  ASSUME NEW f, NEW S, IsFiniteSet(S)
  PROVE  /\ S # {} => SumFunctionOnSet(f, S) =
                        f[Pick(S)] + SumFunctionOnSet(f, S \ {Pick(S)})
         /\ S = {} => SumFunctionOnSet(f, S) = 0
<1>1. PICK it : IsIter(it, f, S)
  BY IterExists
<1> QED
  BY <1>1, SumUnfolds

\* A sum of integers is one.
LEMMA SumIsInt ==
  ASSUME NEW f, NEW S, IsFiniteSet(S), \A x \in S : f[x] \in Int
  PROVE  SumFunctionOnSet(f, S) \in Int
<1> DEFINE G == {T \in SUBSET S : SumFunctionOnSet(f, T) \in Int}
<1>1. SUFFICES ASSUME S \notin G
               PROVE  FALSE
  OBVIOUS
<1>2. PICK T \in SUBSET S : T \notin G /\ \A U \in SUBSET T : U # T => U \in G
  <2> HIDE DEF G
  <2> QED  BY <1>1, LeastOutside
<1>3. IsFiniteSet(T)
  BY FS_Subset
<1>4. T # {} /\ Pick(T) \in T
  <2>1. ASSUME T = {}
        PROVE  FALSE
    <3>1. SumFunctionOnSet(f, T) = 0
      BY <1>3, <2>1, SumByPick
    <3> QED  BY <1>2, <3>1
  <2> QED  BY <2>1, PickIsIn
<1>5. T \ {Pick(T)} \in G
  BY <1>2, <1>4
<1>6. SumFunctionOnSet(f, T) = f[Pick(T)] + SumFunctionOnSet(f, T \ {Pick(T)})
  BY <1>3, <1>4, SumByPick
<1> QED
  BY <1>2, <1>4, <1>5, <1>6

\* The order of the picks does not matter: any element may be taken first.
LEMMA SumByAny ==
  ASSUME NEW f, NEW S, IsFiniteSet(S), \A x \in S : f[x] \in Int, NEW a \in S
  PROVE  SumFunctionOnSet(f, S) = f[a] + SumFunctionOnSet(f, S \ {a})
<1> DEFINE Sum(T) == SumFunctionOnSet(f, T)
           G == {T \in SUBSET S : \A x \in T : Sum(T) = f[x] + Sum(T \ {x})}
<1>1. SUFFICES ASSUME S \notin G
               PROVE  FALSE
  OBVIOUS
<1>2. PICK T \in SUBSET S : T \notin G /\ \A U \in SUBSET T : U # T => U \in G
  <2> HIDE DEF G
  <2> QED  BY <1>1, LeastOutside
<1>3. PICK x \in T : Sum(T) # f[x] + Sum(T \ {x})
  BY <1>2
<1> DEFINE y == Pick(T)
<1>4. IsFiniteSet(T) /\ y \in T
  BY FS_Subset, PickIsIn, <1>3
<1>5. Sum(T) = f[y] + Sum(T \ {y})
  BY <1>3, <1>4, SumByPick
<1>6. x # y
  BY <1>3, <1>5
<1>7. T \ {y} \in G /\ T \ {x} \in G
  <2>1. T \ {y} \in SUBSET T /\ T \ {y} # T /\ T \ {x} \in SUBSET T /\ T \ {x} # T
    BY <1>3, <1>4
  <2> QED  BY <1>2, <2>1
<1> HIDE DEF y
<1>8. Sum(T \ {y}) = f[x] + Sum((T \ {y}) \ {x})
  BY <1>3, <1>6, <1>7
<1>9. Sum(T \ {x}) = f[y] + Sum((T \ {y}) \ {x})
  <2>1. Sum(T \ {x}) = f[y] + Sum((T \ {x}) \ {y})
    BY <1>4, <1>6, <1>7
  <2>2. (T \ {y}) \ {x} = (T \ {x}) \ {y}
    OBVIOUS
  <2> QED
    BY <2>1, <2>2
<1>10. Sum((T \ {y}) \ {x}) \in Int /\ f[x] \in Int /\ f[y] \in Int
  <2>1. IsFiniteSet((T \ {y}) \ {x})
    BY <1>4, FS_Subset
  <2>2. \A z \in (T \ {y}) \ {x} : f[z] \in Int
    OBVIOUS
  <2>3. Sum((T \ {y}) \ {x}) \in Int
    BY <2>1, <2>2, SumIsInt
  <2> QED
    BY <1>3, <1>4, <2>3
<1>11. f[y] + (f[x] + Sum((T \ {y}) \ {x})) = f[x] + (f[y] + Sum((T \ {y}) \ {x}))
  BY <1>10
<1> QED
  BY <1>3, <1>5, <1>8, <1>9, <1>11

\* The sum with one element more.
LEMMA SumAddElement ==
  ASSUME NEW f, NEW S, IsFiniteSet(S), NEW a, a \notin S,
         \A x \in S \union {a} : f[x] \in Int
  PROVE  /\ SumFunctionOnSet(f, S \union {a}) = SumFunctionOnSet(f, S) + f[a]
         /\ SumFunctionOnSet(f, S) \in Int
<1>1. IsFiniteSet(S \union {a})
  BY FS_AddElement
<1>2. (S \union {a}) \ {a} = S /\ a \in S \union {a}
  OBVIOUS
<1>3. SumFunctionOnSet(f, S \union {a}) = f[a] + SumFunctionOnSet(f, S)
  BY <1>1, <1>2, SumByAny
<1>4. SumFunctionOnSet(f, S) \in Int
  BY SumIsInt
<1> QED
  BY <1>3, <1>4

\* Functions that agree on a set have one sum over it.
LEMMA SumAgrees ==
  ASSUME NEW S, IsFiniteSet(S), NEW f, NEW g, \A x \in S : f[x] = g[x]
  PROVE  SumFunctionOnSet(f, S) = SumFunctionOnSet(g, S)
<1> DEFINE G == {T \in SUBSET S : SumFunctionOnSet(f, T) = SumFunctionOnSet(g, T)}
<1>1. SUFFICES ASSUME S \notin G
               PROVE  FALSE
  OBVIOUS
<1>2. PICK T \in SUBSET S : T \notin G /\ \A U \in SUBSET T : U # T => U \in G
  <2> HIDE DEF G
  <2> QED  BY <1>1, LeastOutside
<1>3. IsFiniteSet(T)
  BY FS_Subset
<1>4. T # {}
  <2>1. ASSUME T = {}
        PROVE  FALSE
    <3>1. SumFunctionOnSet(f, T) = 0 /\ SumFunctionOnSet(g, T) = 0
      BY <1>3, <2>1, SumByPick
    <3> QED  BY <1>2, <3>1
  <2> QED  BY <2>1
<1>5. Pick(T) \in T
  BY <1>4, PickIsIn
<1>6. T \ {Pick(T)} \in G
  BY <1>2, <1>5
<1>7. SumFunctionOnSet(f, T) = f[Pick(T)] + SumFunctionOnSet(f, T \ {Pick(T)})
  BY <1>3, <1>4, SumByPick
<1>8. SumFunctionOnSet(g, T) = g[Pick(T)] + SumFunctionOnSet(g, T \ {Pick(T)})
  BY <1>3, <1>4, SumByPick
<1> QED
  BY <1>2, <1>5, <1>6, <1>7, <1>8

\* A sum of values from low to high lies between as many times low and as many
\* times high.
LEMMA SumBounds ==
  ASSUME NEW f, NEW S, IsFiniteSet(S), NEW low \in Nat, NEW high \in Nat,
         \A x \in S : f[x] \in low..high
  PROVE  /\ low * Cardinality(S) <= SumFunctionOnSet(f, S)
         /\ SumFunctionOnSet(f, S) <= high * Cardinality(S)
<1> DEFINE Sum(T) == SumFunctionOnSet(f, T)
           G == {T \in SUBSET S :
                   low * Cardinality(T) <= Sum(T) /\ Sum(T) <= high * Cardinality(T)}
<1>1. {} \in G
  <2>1. Sum({}) = 0
    BY FS_EmptySet, SumByPick
  <2>2. Cardinality({}) = 0
    BY FS_EmptySet
  <2> HIDE DEF Sum
  <2> QED  BY <2>1, <2>2
<1>2. ASSUME NEW T \in SUBSET S, NEW a \in S \ T, T \in G
      PROVE  T \union {a} \in G
  <2>1. IsFiniteSet(T)
    BY FS_Subset
  <2>2. Cardinality(T \union {a}) = Cardinality(T) + 1 /\ Cardinality(T) \in Nat
    BY <2>1, FS_AddElement, FS_CardinalityType
  <2>3. Sum(T \union {a}) = Sum(T) + f[a] /\ Sum(T) \in Int
    <3>1. \A x \in T \union {a} : f[x] \in Int
      OBVIOUS
    <3> QED  BY <2>1, <3>1, SumAddElement
  <2>4. f[a] \in low..high
    OBVIOUS
  <2> HIDE DEF Sum
  <2>5. low * (Cardinality(T) + 1) = low * Cardinality(T) + low
    BY <2>2
  <2>6. high * (Cardinality(T) + 1) = high * Cardinality(T) + high
    BY <2>2
  <2>7. low * Cardinality(T) \in Int /\ high * Cardinality(T) \in Int
    BY <2>2
  <2> QED
    BY <1>2, <2>2, <2>3, <2>4, <2>5, <2>6, <2>7
<1>3. S \in G
  <2> HIDE DEF G
  <2> QED  BY <1>1, <1>2, FiniteSetInduction
<1> QED
  BY <1>3

\* A sum of natural numbers is one.
LEMMA SumIsNat ==
  ASSUME NEW f, NEW S, IsFiniteSet(S), \A x \in S : f[x] \in Nat
  PROVE  SumFunctionOnSet(f, S) \in Nat
<1> DEFINE G == {T \in SUBSET S : SumFunctionOnSet(f, T) \in Nat}
<1>1. {} \in G
  <2>1. SumFunctionOnSet(f, {}) = 0
    BY FS_EmptySet, SumByPick
  <2> QED  BY <2>1
<1>2. ASSUME NEW T \in SUBSET S, NEW a \in S \ T, T \in G
      PROVE  T \union {a} \in G
  <2>1. IsFiniteSet(T) /\ \A x \in T \union {a} : f[x] \in Int
    BY FS_Subset
  <2>2. SumFunctionOnSet(f, T \union {a}) = SumFunctionOnSet(f, T) + f[a]
    BY <2>1, SumAddElement
  <2> QED
    BY <1>2, <2>2
<1>3. S \in G
  <2> HIDE DEF G
  <2> QED  BY <1>1, <1>2, FiniteSetInduction
<1> QED
  BY <1>3
=============================================================================
