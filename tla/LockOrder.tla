----------------------------- MODULE LockOrder ------------------------------
(***************************************************************************)
(* The row locks of the transactions that share rows with one another:     *)
(* placing an order, moving it, changing a cart, repricing a variant,      *)
(* moderating a review.  What they compute is left out; what they lock, in *)
(* which order and how strongly, is what is left.  A transaction keeps its *)
(* locks until it ends.                                                    *)
(***************************************************************************)
EXTENDS Integers, Sequences, FiniteSets, SequencesExt

CONSTANTS
  Txns,       \* transactions that may be open at once
  Jobs,       \* what each of them may be asked to do
  Variants,   \* in the order of their ids
  ProductOf,  \* the product of each variant
  OnCart,     \* the variants each cart has a line of
  None

Kinds == {"place", "release", "dispatch", "change", "add", "attach", "reprice", "moderate"}

\* A placement orders lines its cart had when the request chose them; a
\* repricing is of one variant, and a review of the product of one.
ASSUME JobsAssumption ==
  /\ Variants \subseteq Nat
  /\ \A j \in Jobs :
       /\ j.kind \in Kinds /\ j.variants \in Seq(Variants)
       /\ j.kind = "place" => ToSet(j.variants) \subseteq OnCart[j.cart]
       /\ j.kind \in {"reprice", "moderate"} => j.variants # <<>>

VARIABLES
  job,    \* what each transaction does
  at,     \* how many locks of its program it has taken
  state,  \* of each transaction: is it open, committed or rolled back
  spent   \* rows that are there once: claimed keys, moved orders, deleted lines

vars == <<job, at, state, spent>>

-----------------------------------------------------------------------------
(* What a transaction locks.  "all" is FOR UPDATE, a delete or an insert,  *)
(* "row" an update that leaves the key alone, "key" a foreign key's check. *)

Lock(row, mode) == [row |-> row, mode |-> mode]

Conflict(a, b) ==
  \/ "all" \in {a, b}
  \/ a = "row" /\ b = "row"

\* Mutant of InIdOrder: the rows are locked as the request names them.
AsAsked(vs) == vs

\* lockVariants: each once, in the order of their ids.
InIdOrder(vs) ==
  LET S == ToSet(vs)
  IN CHOOSE s \in [1..Cardinality(S) -> S] : \A i, k \in DOMAIN s : i < k => s[i] < s[k]

LockVariants(vs) == [i \in DOMAIN InIdOrder(vs) |-> Lock(<<"variant", InIdOrder(vs)[i]>>, "all")]

LockVoucher(j, mode) == IF j.voucher = None THEN <<>> ELSE <<Lock(<<"voucher", j.voucher>>, mode)>>

\* recordFulfilment: the product of each variant, in the variants' order.
CountSales(vs) ==
  [i \in DOMAIN InIdOrder(vs) |-> Lock(<<"product", ProductOf[InIdOrder(vs)[i]]>>, "row")]

Lines(j, mode) == [i \in DOMAIN j.variants |-> Lock(<<"line", j.cart, j.variants[i]>>, mode)]

Touch(j) == <<Lock(<<"cart", j.cart>>, "row")>>

\* A line that is there is updated; a new one is inserted, and its foreign
\* keys look at the cart and the variant.
AddLine(j, v) ==
  IF v \in OnCart[j.cart] THEN <<Lock(<<"line", j.cart, v>>, "row")>>
  ELSE <<Lock(<<"line", j.cart, v>>, "all"), Lock(<<"cart", j.cart>>, "key"),
         Lock(<<"variant", v>>, "key")>>

AddLines(j) == FlattenSeq([i \in DOMAIN j.variants |-> AddLine(j, j.variants[i])])

Program(j) ==
  CASE j.kind = "place" ->
         <<Lock(<<"key", j.key>>, "all")>> \o LockVariants(j.variants)
           \o LockVoucher(j, "all") \o Lines(j, "all") \o Touch(j)
    [] j.kind = "release" ->
         <<Lock(<<"order", j.order>>, "all")>> \o LockVariants(j.variants) \o LockVoucher(j, "row")
    [] j.kind = "dispatch" ->
         <<Lock(<<"order", j.order>>, "all")>> \o LockVariants(j.variants) \o CountSales(j.variants)
    [] j.kind = "change" -> Lines(j, "all") \o Touch(j)
    [] j.kind = "add" -> AddLines(j) \o Touch(j)
    [] j.kind = "attach" -> Touch(j) \o LockVoucher(j, "key")
    [] j.kind = "reprice" ->
         <<Lock(<<"variant", j.variants[1]>>, "row"),
           Lock(<<"product", ProductOf[j.variants[1]]>>, "row")>>
    [] j.kind = "moderate" ->
         <<Lock(<<"review", j.review>>, "row"),
           Lock(<<"product", ProductOf[j.variants[1]]>>, "row")>>

ProgramOf == [j \in Jobs |-> Program(j)]

-----------------------------------------------------------------------------
Open == {t \in Txns : state[t] = "open"}
Steps(t) == ProgramOf[job[t]]
NextLock(t) == Steps(t)[at[t] + 1]
Wants(t) == t \in Open /\ at[t] < Len(Steps(t))

\* A lock is refused while another transaction holds one that conflicts.
Blocks(u, t) ==
  /\ u # t /\ u \in Open /\ Wants(t)
  /\ \E i \in 1..at[u] : Steps(u)[i].row = NextLock(t).row /\ Conflict(Steps(u)[i].mode, NextLock(t).mode)

Init ==
  /\ job \in [Txns -> Jobs]
  /\ at = [t \in Txns |-> 0]
  /\ state = [t \in Txns |-> "open"]
  /\ spent = {}

\* A lock that is free is taken.  A line that was deleted is stepped over, as a
\* delete that finds nothing; a claimed key or a moved order is the end.
Take(t) ==
  /\ Wants(t)
  /\ \A u \in Txns : ~Blocks(u, t)
  /\ NextLock(t).row \in spent => NextLock(t).row[1] = "line"
  /\ at' = [at EXCEPT ![t] = @ + 1]
  /\ UNCHANGED <<job, state, spent>>

\* What a committed transaction leaves no second one to do: its key is claimed,
\* its order moved, its lines written anew or deleted.
Uses(t) == {Steps(t)[i].row : i \in {k \in DOMAIN Steps(t) :
              Steps(t)[k].mode = "all" /\ Steps(t)[k].row[1] \in {"key", "order", "line"}}}

Commit(t) ==
  /\ t \in Open /\ ~Wants(t)
  /\ state' = [state EXCEPT ![t] = "committed"]
  /\ spent' = spent \union Uses(t)
  /\ UNCHANGED <<job, at>>

\* A rule throws, the process dies, the database breaks a deadlock, or the key
\* was claimed or the order moved by another transaction.
RollBack(t) ==
  /\ t \in Open
  /\ state' = [state EXCEPT ![t] = "rolled back"]
  /\ UNCHANGED <<job, at, spent>>

Next == \E t \in Txns : Take(t) \/ Commit(t) \/ RollBack(t)

Spec == Init /\ [][Next]_vars

-----------------------------------------------------------------------------
\* Transactions each of which waits for another of them.
Deadlocked(S) == S # {} /\ \A t \in S : \E u \in S : Blocks(u, t)

\* The transactions that lock rows of one kind in the order they were named, or
\* the cart before the voucher.
Crosses(j) ==
  \/ j.kind = "dispatch" /\ Cardinality({ProductOf[v] : v \in ToSet(j.variants)}) > 1
  \/ j.kind \in {"add", "change"} /\ Len(j.variants) > 1
  \/ j.kind = "attach"

\* "Two of them can wait on each other but never deadlock": placements,
\* cancellations, expiries, dispatches of one product, changes of one cart
\* line, repricings and moderations.  Every deadlock has one of the others in it.
OnlyCrossingsDeadlock ==
  \A S \in SUBSET Txns : Deadlocked(S) => \E t \in S : Crosses(job[t])
=============================================================================
