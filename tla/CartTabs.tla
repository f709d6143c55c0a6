------------------------------ MODULE CartTabs ------------------------------
(***************************************************************************)
(* The cart of one session, changed from several tabs.                     *)
(*                                                                         *)
(* A tab is one cart page as long as it is open, with its queue, and one   *)
(* add or voucher button beside it: a page that is opened again and a      *)
(* second button are other tabs.  The page sends one request at a time, in *)
(* click order; a button sends its own.  Every request reads first and     *)
(* writes later in one transaction, so the requests of different tabs, and *)
(* a request whose answer was given up on, read what others then change.   *)
(***************************************************************************)
EXTENDS Integers, FiniteSets, FiniteSetsExt, Sequences, Functions

CONSTANTS
  Tabs,
  Loose,       \* variants added on their own
  Bundled,     \* the components of the one bundle
  Per,         \* how many of each component are in it
  MaxPerLine,  \* MAX_QUANTITY_PER_LINE
  Levels,      \* what may be left of a variant
  Quantities,  \* what a customer asks for
  MaxClicks, MaxShelfMoves, MaxLost,  \* bounds on what happens
  None

ASSUME CartAssumption ==
  /\ IsFiniteSet(Tabs) /\ Tabs # {} /\ None \notin Nat
  /\ IsFiniteSet(Loose) /\ IsFiniteSet(Bundled) /\ Bundled # {}
  /\ MaxPerLine \in Nat \ {0} /\ Quantities \subseteq 1..MaxPerLine
  /\ Levels \subseteq Nat /\ IsFiniteSet(Levels) /\ \E n \in Levels : n > 0
  /\ None \notin [id : Nat, qty : Nat, selected : BOOLEAN, due : Nat, by : Nat]
  /\ Per \in [Bundled -> Nat \ {0}]

Carts == 1..Cardinality(Tabs)
Keys == ({"loose"} \X Loose) \union ({"bundle"} \X Bundled)
Group == {"bundle"} \X Bundled
\* Where a tab's requests come from: the cart page, a button, or a request the
\* tab has given up on and the server has not.
Slots == Tabs \X {"page", "button", "lost"}

VARIABLES
  recent,  \* the session's carts, the last one used first
  lines,   \* the cart_item rows of each cart, None where there is no row
  made,    \* rows inserted so far, their ids
  voucher, \* is a voucher attached to the cart
  shelf,   \* what can be sold of each variant
  queue,   \* clicks on the cart page that wait for the ones before them
  run,     \* the request of each slot: how far it is and what it read
  clicks, moves, lostAnswers,  \* bounded counters
  soldOut,    \* history: the variants that were out of stock at some time
  raced,      \* history: loose variants whose line two requests under way were to write
  crowded,    \* history: two additions were under way before there was a cart
  accepted    \* history: the quantities that were written, by line and click

cartVars == <<recent, lines, made, voucher, shelf, queue, run, clicks, moves, lostAnswers,
              soldOut, raced, crowded, accepted>>

Idle == [pc |-> "idle", op |-> None, saw |-> None]
Asking(kind, id, q) == [kind |-> kind, id |-> id, q |-> q]

Row(id, qty, due) == [id |-> id, qty |-> qty, selected |-> TRUE, due |-> due, by |-> 0]
RowsOf(k) == {key \in Keys : lines[k][key] # None}
IdOf(row) == IF row = None THEN 0 ELSE row.id
Located(id) == {at \in Carts \X Keys : IdOf(lines[at[1]][at[2]]) = id}

\* bundleAvailability: as many as the scarcest component allows.
BundlesLeft == Min({shelf[v] \div Per[v] : v \in Bundled})

\* A line counts when it is ticked and can be bought right now.
Counted(k) == {key \in RowsOf(k) : lines[k][key].selected /\ shelf[key[2]] > 0}

Viewed == IF recent = <<>> THEN None ELSE recent[1]
Touch(k) ==
  \E i \in DOMAIN recent :
    /\ recent[i] = k
    /\ recent' = <<k>> \o SubSeq(recent, 1, i - 1) \o SubSeq(recent, i + 1, Len(recent))

-----------------------------------------------------------------------------
(* The tabs.                                                               *)

Busy(s) == run[s].pc # "idle"

\* The loose variants whose quantity a request is to write.
Writes(op) ==
  {v \in Loose :
     \/ op.kind = "add" /\ op.id = v
     \/ op.kind = "quantity" /\ \E k \in Carts : IdOf(lines[k][<<"loose", v>>]) = op.id}

Adds(op) == op.kind \in {"add", "bundle"}

\* A request sets out, beside those that are under way.
SetsOut(s, op) ==
  LET others == {o \in Slots : Busy(o)} IN
  /\ run' = [run EXCEPT ![s] = [pc |-> "sent", op |-> op, saw |-> None]]
  /\ raced' = raced \union {v \in Writes(op.op) : \E o \in others : v \in Writes(run[o].op.op)}
  /\ crowded' = (crowded \/ (recent = <<>> /\ Adds(op.op) /\ \E o \in others : Adds(run[o].op.op)))

\* A click on the cart page waits for those before it.
Press(t, op) ==
  /\ clicks < MaxClicks
  /\ queue' = [queue EXCEPT ![t] = Append(@, [op |-> op, n |-> clicks + 1])]
  /\ clicks' = clicks + 1
  /\ UNCHANGED <<recent, lines, made, voucher, shelf, run, moves, lostAnswers,
                 soldOut, raced, crowded, accepted>>

\* Mutant of NextInLine: a tab sends any of the clicks that wait.
AnyInLine(t, i) == i \in DOMAIN queue[t]

NextInLine(t, i) == i = 1 /\ queue[t] # <<>>

Send(t, i) ==
  /\ ~Busy(<<t, "page">>)
  /\ NextInLine(t, i)
  /\ SetsOut(<<t, "page">>, queue[t][i])
  /\ queue' = [queue EXCEPT ![t] = SubSeq(@, 1, i - 1) \o SubSeq(@, i + 1, Len(@))]
  /\ UNCHANGED <<recent, lines, made, voucher, shelf, clicks, moves, lostAnswers, soldOut, accepted>>

\* A button is busy until its request is answered.
PushButton(t, op) ==
  /\ clicks < MaxClicks
  /\ ~Busy(<<t, "button">>)
  /\ SetsOut(<<t, "button">>, [op |-> op, n |-> clicks + 1])
  /\ clicks' = clicks + 1
  /\ UNCHANGED <<recent, lines, made, voucher, shelf, queue, moves, lostAnswers, soldOut, accepted>>

\* Mutant of Settled: a request that failed holds up the ones behind it.
SettledIfDone(s, done) == IF done THEN Idle ELSE [run[s] EXCEPT !.pc = "stuck"]

\* An answer, good or bad, ends the request: queue.current catches a failure.
Settled(s, done) == Idle

Answer(s, done) == run' = [run EXCEPT ![s] = Settled(s, done)]

Serves(s, kind, pc) == Busy(s) /\ run[s].pc = pc /\ run[s].op.op.kind = kind
Proceeds(s, pc, saw) == run' = [run EXCEPT ![s].pc = pc, ![s].saw = saw]
OpOf(s) == run[s].op.op

\* The tab gives up on an answer; the server does not.
LoseAnswer(t) ==
  /\ Busy(<<t, "page">>) /\ ~Busy(<<t, "lost">>)
  /\ lostAnswers < MaxLost
  /\ lostAnswers' = lostAnswers + 1
  /\ run' = [run EXCEPT ![<<t, "lost">>] = run[<<t, "page">>], ![<<t, "page">>] = Idle]
  /\ UNCHANGED <<recent, lines, made, voucher, shelf, queue, clicks, moves, soldOut, raced, crowded, accepted>>

\* Other customers and the warehouse change what is left.
ShelfMoves(v, n) ==
  /\ moves < MaxShelfMoves
  /\ moves' = moves + 1
  /\ shelf' = [shelf EXCEPT ![v] = n]
  /\ soldOut' = IF n = 0 THEN soldOut \union {v} ELSE soldOut
  /\ UNCHANGED <<recent, lines, made, voucher, queue, run, clicks, lostAnswers, raced, crowded, accepted>>

-----------------------------------------------------------------------------
(* What the server does.                                                   *)

outside == <<shelf, queue, clicks, moves, lostAnswers, soldOut, raced, crowded>>
rowVars == <<recent, lines, made, voucher, accepted>>

\* A request ends without a write: refused, failed, or its process died.
Fails(s) ==
  /\ Busy(s)
  /\ Answer(s, FALSE)
  /\ UNCHANGED <<outside, rowVars>>

\* addItems and addBundle: what is asked for has to be there, and it goes to
\* the session's cart, if it has one.
CheckAdd(s) ==
  /\ \/ Serves(s, "add", "sent") /\ OpOf(s).q <= shelf[OpOf(s).id]
     \/ Serves(s, "bundle", "sent") /\ BundlesLeft > 0
  /\ Proceeds(s, IF Viewed = None THEN "cartless" ELSE "cart",
              [cart |-> Viewed, left |-> IF OpOf(s).kind = "bundle" THEN BundlesLeft
                                         ELSE shelf[OpOf(s).id]])
  /\ UNCHANGED <<outside, rowVars>>

\* ensure found none: another request may have made one since.
CreateCart(s) ==
  /\ Busy(s) /\ run[s].pc = "cartless"
  /\ LET k == Len(recent) + 1 IN
     /\ recent' = <<k>> \o recent
     /\ Proceeds(s, "cart", [cart |-> k, left |-> run[s].saw.left])
  /\ UNCHANGED <<outside, lines, made, voucher, accepted>>

ReadLines(s) ==
  /\ Busy(s) /\ run[s].pc = "cart"
  /\ Proceeds(s, "write", [cart |-> run[s].saw.cart, left |-> run[s].saw.left,
                           rows |-> lines[run[s].saw.cart]])
  /\ UNCHANGED <<outside, rowVars>>

Held(rows, key) == IF rows[key] = None THEN 0 ELSE rows[key].qty

\* bundlesHeld: the whole bundles among the rows.
BundlesHeld(rows) == Min({Held(rows, <<"bundle", v>>) \div Per[v] : v \in Bundled})

\* Mutant of Ceiling: an add replaces what the line held.
CeilingOfAsked(held, q, left) == Min({q, MaxPerLine, left})

\* An add is cumulative, up to what a line may hold and what is left.
Ceiling(held, q, left) == Min({held + q, MaxPerLine, left})

\* The quantities an add writes, by line.
Added(s) ==
  LET saw == run[s].saw  q == OpOf(s).q IN
  IF OpOf(s).kind = "bundle"
  THEN [key \in Group |-> Per[key[2]] * Ceiling(BundlesHeld(saw.rows), q, saw.left)]
  ELSE [key \in {<<"loose", OpOf(s).id>>} |-> Ceiling(Held(saw.rows, key), q, saw.left)]

\* Mutant of AsSeen: rows are written by variant, whichever they are by now.
AsFound(s, keys) == TRUE

\* Rows are written by id: one that is gone, or one that another request has
\* inserted in its place, fails the whole transaction.
AsSeen(s, keys) ==
  \A key \in keys : IdOf(lines[run[s].saw.cart][key]) = IdOf(run[s].saw.rows[key])

\* What a line is due once q more are added to it, one add after another.
DueAfter(row, q, left) == Min({(IF row = None THEN 0 ELSE row.due) + q, MaxPerLine, left})

WriteAdd(s) ==
  /\ Busy(s) /\ run[s].pc = "write" /\ OpOf(s).kind \in {"add", "bundle"}
  /\ LET k == run[s].saw.cart
         keys == DOMAIN Added(s)
         new == {key \in keys : lines[k][key] = None}
         id == CHOOSE f \in [new -> made + 1 .. made + Cardinality(new)] : IsInjective(f)
     IN /\ AsSeen(s, keys)
        /\ lines' = [lines EXCEPT ![k] = [key \in Keys |->
             IF key \notin keys THEN @[key]
             ELSE LET due == DueAfter(lines[k][key], OpOf(s).q, run[s].saw.left) IN
                  IF key \in new THEN Row(id[key], Added(s)[key], due)
                  ELSE [@[key] EXCEPT !.qty = Added(s)[key], !.by = 0, !.due = due]]]
        /\ made' = made + Cardinality(new)
        /\ Touch(k)
  /\ Answer(s, TRUE)
  /\ UNCHANGED <<outside, voucher, accepted>>

\* requireLine: a change to a line finds it, in whichever cart it is.
FindLine(s) ==
  /\ \E kind \in {"quantity", "select", "remove"} : Serves(s, kind, "sent")
  /\ \E at \in Located(OpOf(s).id) :
       LET grouped == at[2] \in Group IN
       /\ OpOf(s).kind = "quantity" /\ ~grouped => OpOf(s).q <= shelf[at[2][2]]
       /\ Proceeds(s, IF grouped /\ OpOf(s).kind = "quantity" THEN "group" ELSE "write",
                   [cart |-> at[1], key |-> at[2]])
  /\ UNCHANGED <<outside, rowVars>>

\* updateBundle: the rows of the group, for as many bundles as there are.
ReadGroup(s) ==
  /\ Serves(s, "quantity", "group")
  /\ OpOf(s).q <= BundlesLeft
  /\ Proceeds(s, "write", [cart |-> run[s].saw.cart, key |-> run[s].saw.key,
                           rows |-> lines[run[s].saw.cart]])
  /\ UNCHANGED <<outside, rowVars>>

\* The rows a quantity is written to, all of them or none.
WriteQuantity(s) ==
  /\ Serves(s, "quantity", "write")
  /\ LET k == run[s].saw.cart  at == run[s].saw.key  q == OpOf(s).q
         keys == IF at \in Group THEN {key \in Group : run[s].saw.rows[key] # None} ELSE {at}
     IN /\ IF at \in Group THEN AsSeen(s, keys) ELSE IdOf(lines[k][at]) = OpOf(s).id
        /\ lines' = [lines EXCEPT ![k] = [key \in Keys |->
             IF key \notin keys THEN @[key]
             ELSE [@[key] EXCEPT !.qty = IF key \in Group THEN Per[key[2]] * q ELSE q,
                                 !.due = q, !.by = run[s].op.n]]]
        /\ accepted' = accepted \union
             {[tab |-> s[1], n |-> run[s].op.n, id |-> IdOf(lines[k][key]), q |-> q] : key \in keys}
        /\ Touch(k)
  /\ Answer(s, TRUE)
  /\ UNCHANGED <<outside, made, voucher>>

\* A tick is one for the whole group, as the statement finds it.
WriteSelection(s) ==
  /\ Serves(s, "select", "write")
  /\ LET k == run[s].saw.cart  at == run[s].saw.key
         keys == IF at \in Group THEN Group \intersect RowsOf(k) ELSE {at}
     IN /\ at \notin Group => IdOf(lines[k][at]) = OpOf(s).id
        /\ lines' = [lines EXCEPT ![k] = [key \in Keys |->
             IF key \in keys THEN [@[key] EXCEPT !.selected = OpOf(s).q > 0] ELSE @[key]]]
        /\ Touch(k)
  /\ Answer(s, TRUE)
  /\ UNCHANGED <<outside, made, voucher, accepted>>

\* Mutant of Removed: only the row that was clicked on.
RemovedAlone(k, at) == {at}

\* Removing one component of a bundle removes the bundle.
Removed(k, at) == IF at \in Group THEN Group ELSE {at}

DeleteRows(k, keys) ==
  /\ lines' = [lines EXCEPT ![k] = [key \in Keys |-> IF key \in keys THEN None ELSE @[key]]]
  /\ Touch(k)

RemoveLine(s) ==
  /\ Serves(s, "remove", "write")
  /\ LET k == run[s].saw.cart  at == run[s].saw.key IN
     /\ at \notin Group => IdOf(lines[k][at]) = OpOf(s).id
     /\ DeleteRows(k, Removed(k, at))
  /\ Answer(s, TRUE)
  /\ UNCHANGED <<outside, made, voucher, accepted>>

\* setAllSelected, removeSelected, applyVoucher and removeVoucher begin with the
\* cart as it is; without one there is nothing to do.
FindCart(s) ==
  /\ \E kind \in {"all", "clear", "voucher"} : Serves(s, kind, "sent")
  /\ Viewed # None
  /\ OpOf(s).kind = "voucher" /\ OpOf(s).q > 0 => Counted(Viewed) # {}
  /\ Proceeds(s, "write", [cart |-> Viewed,
                           ids |-> {IdOf(lines[Viewed][key]) : key \in Counted(Viewed)}])
  /\ UNCHANGED <<outside, rowVars>>

SelectAll(s) ==
  /\ Serves(s, "all", "write")
  /\ LET k == run[s].saw.cart IN
     /\ lines' = [lines EXCEPT ![k] = [key \in Keys |->
          IF @[key] = None THEN None ELSE [@[key] EXCEPT !.selected = OpOf(s).q > 0]]]
     /\ Touch(k)
  /\ Answer(s, TRUE)
  /\ UNCHANGED <<outside, made, voucher, accepted>>

\* The lines that were ticked and could be bought when the cart was read.
RemoveSelected(s) ==
  /\ Serves(s, "clear", "write")
  /\ LET k == run[s].saw.cart IN
     IF run[s].saw.ids = {} THEN UNCHANGED <<lines, recent>>
     ELSE DeleteRows(k, {key \in RowsOf(k) : IdOf(lines[k][key]) \in run[s].saw.ids})
  /\ Answer(s, TRUE)
  /\ UNCHANGED <<outside, made, voucher, accepted>>

SetVoucher(s) ==
  /\ Serves(s, "voucher", "write")
  /\ voucher' = [voucher EXCEPT ![run[s].saw.cart] = OpOf(s).q > 0]
  /\ Touch(run[s].saw.cart)
  /\ Answer(s, TRUE)
  /\ UNCHANGED <<outside, lines, made, accepted>>

Handle(s) ==
  \/ CheckAdd(s) \/ CreateCart(s) \/ ReadLines(s) \/ WriteAdd(s)
  \/ FindLine(s) \/ ReadGroup(s) \/ WriteQuantity(s) \/ WriteSelection(s) \/ RemoveLine(s)
  \/ FindCart(s) \/ SelectAll(s) \/ RemoveSelected(s) \/ SetVoucher(s)
  \/ Fails(s)

-----------------------------------------------------------------------------
NoCart == recent = <<>> /\ made = 0 /\ lines = [k \in Carts |-> [key \in Keys |-> None]]

NoRequests ==
  /\ voucher = [k \in Carts |-> FALSE]
  /\ shelf = [v \in Loose \union Bundled |-> Max(Levels)]
  /\ queue = [t \in Tabs |-> <<>>]
  /\ run = [s \in Slots |-> Idle]
  /\ clicks = 0 /\ moves = 0 /\ lostAnswers = 0
  /\ soldOut = {} /\ raced = {} /\ crowded = FALSE /\ accepted = {}

EmptyCart == NoCart /\ NoRequests

\* A session without a cart, or with a line and a bundle in one.
CartInit ==
  /\ \/ NoCart
     \/ /\ recent = <<1>> /\ made = Cardinality(Keys)
        /\ LET id == CHOOSE f \in Bijection(Keys, 1..Cardinality(Keys)) : TRUE IN
           lines = [k \in Carts |-> [key \in Keys |->
             IF k > 1 THEN None
             ELSE Row(id[key], IF key \in Group THEN Per[key[2]] ELSE 1, 1)]]
  /\ NoRequests

\* What a page shows to click on: the lines of the cart, a bundle by its first.
Shown ==
  IF Viewed = None THEN {}
  ELSE LET idsOf(keys) == {lines[Viewed][key].id : key \in keys \intersect RowsOf(Viewed)}
       IN idsOf(Keys \ Group) \union
          (IF idsOf(Group) = {} THEN {} ELSE {Min(idsOf(Group))})

Clicked(t) ==
  \/ \E id \in Shown, q \in Quantities : Press(t, Asking("quantity", id, q))
  \/ \E id \in Shown, b \in {0, 1} : Press(t, Asking("select", id, b))
  \/ \E id \in Shown : Press(t, Asking("remove", id, 0))
  \/ \E b \in {0, 1} : Press(t, Asking("all", 0, b))
  \/ Press(t, Asking("clear", 0, 0))
  \/ \E v \in Loose, q \in Quantities : PushButton(t, Asking("add", v, q))
  \/ \E q \in Quantities : PushButton(t, Asking("bundle", 0, q))
  \/ \E b \in {0, 1} : PushButton(t, Asking("voucher", 0, b))

SendNext(t) == \E i \in 1..MaxClicks : Send(t, i)

CartNext ==
  \/ \E t \in Tabs : Clicked(t) \/ LoseAnswer(t) \/ SendNext(t)
  \/ \E s \in Slots : Handle(s)
  \/ \E v \in Loose \union Bundled, n \in Levels : ShelfMoves(v, n)

-----------------------------------------------------------------------------
WholeBundle(k) ==
  LET rows == Group \intersect RowsOf(k) IN
  rows # {} =>
    /\ rows = Group
    /\ \E n \in 1..MaxPerLine : \A key \in Group : lines[k][key].qty = n * Per[key[2]]
    /\ Cardinality({lines[k][key].selected : key \in Group}) = 1

\* A bundle in the cart is one thing: all its components are there, for the
\* same number of bundles and ticked together, whatever tabs add, change and
\* remove at the same time, until a component was out of stock: RemoveSelected
\* leaves such a component behind.
BundlesWhole == soldOut \intersect Bundled = {} => \A k \in Carts : WholeBundle(k)

\* The quantity of a line is the last one its tab chose for it among those the
\* server accepted: requests of a tab do not overtake each other, unless the
\* tab gave up on an answer.
ChoicesInClickOrder ==
  lostAnswers = 0 =>
    \A k \in Carts : \A key \in RowsOf(k) :
      LET row == lines[k][key] IN
      \A a, b \in accepted :
        a.n = row.by /\ a.id = row.id /\ b.id = row.id /\ b.tab = a.tab => b.n <= a.n

\* Clicking "Add to cart" twice means two, whatever else the tabs do to the
\* cart meanwhile: a line holds the quantity it is due, the one last chosen and
\* what was added since, up to what a line may hold and what was left, unless
\* two requests under way at once were to write that line.  And a session has
\* one cart, unless two additions were under way before it had any.
AdditionsAddUp ==
  /\ ~crowded => Len(recent) <= 1
  /\ \A k \in Carts : \A v \in Loose \ raced :
       LET row == lines[k][<<"loose", v>>] IN row # None => row.qty = row.due

\* Every click is answered: a request that fails does not hold up the others.
EveryClickAnswered ==
  \A t \in Tabs : (queue[t] # <<>> \/ Busy(<<t, "page">>)) ~> (queue[t] = <<>> /\ ~Busy(<<t, "page">>))
=============================================================================
