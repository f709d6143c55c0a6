----------------------------- MODULE KeysetList -----------------------------
(***************************************************************************)
(* Walking a list page by page: the admin lists and the reviews of a       *)
(* product.  A page is what sorts after the last row of the page before    *)
(* it, so the sort and the filter a cursor stands for have to be one       *)
(* order; rows come, go and change while someone is paging.                *)
(***************************************************************************)
EXTENDS Integers, FiniteSets, FiniteSetsExt, Functions

CONSTANTS
  Ids,       \* the ids rows may have, in the order of uuids
  NumberOf,  \* the order number that goes with an id, in no order of its own
  Instants,  \* timestamps, which collide
  Ratings,
  PageSize,
  MaxChanges,  \* bound on what happens to rows during a walk
  Absent       \* no row, or no cursor

ASSUME ListAssumption ==
  /\ IsFiniteSet(Ids) /\ Ids \subseteq Nat /\ Instants \subseteq Nat /\ Ratings \subseteq Nat
  /\ PageSize \in Nat \ {0} /\ MaxChanges \in Nat
  /\ NumberOf \in [Ids -> Nat] /\ IsInjective(NumberOf)
  /\ Absent \notin [lead : Int, at : Nat, tie : Nat]

\* The lists, and which of them put a search into the OR of their filter.
Lists == {"orders", "products", "moderation", "vouchers", "newest", "highest", "lowest"}
SearchedByOr == {"orders", "products", "moderation"}
ByRating == {"highest", "lowest"}

VARIABLES
  list,    \* the list and whether it is filtered
  rows,    \* its rows: timestamp, rating, and whether the filter wants the row
  walk,    \* how far the walk is, its cursor and how often each row was shown
  steady,  \* history: rows that were there and unchanged all along
  tied,    \* history: two rows had the same timestamp at some time
  changes  \* how much has happened to rows

listVars == <<list, rows, walk, steady, tied, changes>>

Present == {i \in Ids : rows[i] # Absent}
HasTies(rs) == \E i, j \in Ids : i # j /\ Absent \notin {rs[i], rs[j]} /\ rs[i].at = rs[j].at

-----------------------------------------------------------------------------
\* The leading column of a sort: the rating, for the sorts by rating.
Lead(r) == IF list.of = "highest" THEN r.rating ELSE IF list.of = "lowest" THEN 0 - r.rating ELSE 0

\* One position comes before another, newest first, ties broken by "tie".
Ahead(a, b) ==
  \/ a.lead > b.lead
  \/ a.lead = b.lead /\ a.at > b.at
  \/ a.lead = b.lead /\ a.at = b.at /\ a.tie > b.tie

\* Where a row is in the ORDER BY ...
Sorted(i) == [lead |-> Lead(rows[i]), at |-> rows[i].at, tie |-> i]

\* ... and where its cursor says it is: the order list breaks ties by number.
CursorOf(i) ==
  [Sorted(i) EXCEPT !.tie = IF list.of = "orders" THEN NumberOf[i] ELSE i]

\* What the filter of a page lets through.  The OR of a cursor takes the place
\* of the OR of a search, where the two are spread into one object.
Filtered(i, cursor) ==
  \/ ~list.filtered
  \/ rows[i].wanted
  \/ cursor # Absent /\ list.of \in SearchedByOr

\* Mutant of PastCursor: the row of the cursor itself is past it.
PastOrAtCursor(i, cursor) == cursor = Absent \/ ~Ahead(CursorOf(i), cursor)

PastCursor(i, cursor) == cursor = Absent \/ Ahead(cursor, CursorOf(i))

\* The first n of a set of rows.
FirstOf(set, n) == {i \in set : Cardinality({j \in set : Ahead(Sorted(j), Sorted(i))}) < n}

\* toCursorPage: one row more than the page is read, to know there is another.
ReadPage ==
  /\ walk.pc # "done"
  /\ LET found == {i \in Present : PastCursor(i, walk.cursor) /\ Filtered(i, walk.cursor)}
         page == FirstOf(found, PageSize)
         more == found # page
         last == CHOOSE i \in page : \A j \in page : i = j \/ Ahead(Sorted(j), Sorted(i))
     IN walk' = [pc |-> IF more THEN "next" ELSE "done",
                 cursor |-> IF more THEN CursorOf(last) ELSE Absent,
                 shown |-> [i \in Ids |-> walk.shown[i] + (IF i \in page THEN 1 ELSE 0)],
                 page |-> page]
  /\ UNCHANGED <<list, rows, steady, tied, changes>>

-----------------------------------------------------------------------------
Latest == IF Present = {} THEN Min(Instants) ELSE Max({rows[i].at : i \in Present})

Change(i, row) ==
  /\ changes < MaxChanges
  /\ changes' = changes + 1
  /\ rows' = [rows EXCEPT ![i] = row]
  /\ steady' = steady \ {i}
  /\ tied' = (tied \/ HasTies(rows'))
  /\ UNCHANGED <<list, walk>>

\* A row comes into the list; an approved review keeps the date it was written.
Enters(i, row) ==
  /\ i \notin Present
  /\ walk.shown[i] = 0
  /\ list.of \in {"newest", "highest", "lowest"} \/ row.at >= Latest
  /\ Change(i, row)

\* It leaves it: decided, moved on, deleted.
Leaves(i) == i \in Present /\ Change(i, Absent)

\* A product that is edited moves to the top of its list, which sorts by updated_at.
Edited(i, at) ==
  /\ list.of = "products" /\ i \in Present /\ at >= Latest
  /\ Change(i, [rows[i] EXCEPT !.at = at])

RowOf == [at : Instants, rating : IF list.of \in ByRating THEN Ratings ELSE {Min(Ratings)},
          wanted : IF list.filtered THEN BOOLEAN ELSE {TRUE}]

NoWalk(pc) == [pc |-> pc, cursor |-> Absent, shown |-> [i \in Ids |-> 0], page |-> {}]

NoList ==
  /\ list = [of |-> "newest", filtered |-> FALSE]
  /\ rows = [i \in Ids |-> Absent]
  /\ walk = NoWalk("done")
  /\ steady = {} /\ tied = FALSE /\ changes = 0

ListInit ==
  /\ list \in [of : Lists, filtered : BOOLEAN]
  /\ \E i \in Ids : rows \in {f \in [Ids -> RowOf \union {Absent}] : \A j \in Ids : f[j] = Absent <=> i = j}
  /\ walk = NoWalk("start")
  /\ steady = Present /\ tied = HasTies(rows) /\ changes = 0

ListNext ==
  \/ ReadPage
  \/ \E i \in Ids, row \in RowOf : Enters(i, row)
  \/ \E i \in Ids : Leaves(i) \/ \E at \in Instants : Edited(i, at)

-----------------------------------------------------------------------------
\* "A row inserted while the operator is paging cannot shift a later page and
\* hide a record", nor can one that leaves or moves: at the end of a walk every
\* row that stayed put has been shown, and once.  The order list is left out
\* where two orders were placed in one instant.
EveryRowSeenOnce ==
  walk.pc = "done" /\ (list.of = "orders" => ~tied) =>
    \A i \in steady : rows[i].wanted => walk.shown[i] = 1

\* "So the filters survive the page change": a page shows what was searched for.
PagesKeepTheSearch ==
  list.filtered => \A i \in walk.page \intersect steady : rows[i].wanted
=============================================================================
