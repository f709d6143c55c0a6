--------------------------- MODULE FrontendProofs ---------------------------
(***************************************************************************)
(* What holds of the carts, lists and controls of the storefront for any   *)
(* number of tabs, variants, clicks, rows and keystrokes.                  *)
(***************************************************************************)
EXTENDS Frontend, SumTheorems, SequenceTheorems

-----------------------------------------------------------------------------
(* The search field and the filter sheet: every request but the newest has *)
(* been aborted, and what the newest is about is on its way or shown.      *)

FieldInv ==
  /\ field.text \in Nat /\ field.long \in BOOLEAN
  /\ timer \in {0, field.text} /\ asked \subseteq 1..field.text
  /\ \A k \in asked : k < field.text => k \in cut
  /\ \A k \in cut : k \in Nat /\ k < field.text
  /\ field.long => field.text > 0 /\ field.text \in {timer, panel} \union asked \union failed

SheetInv ==
  /\ sheet = [draft |-> sheet.draft, count |-> sheet.count, counting |-> sheet.counting,
              asked |-> sheet.asked, cut |-> sheet.cut, late |-> sheet.late]
  /\ sheet.draft \in Nat
  /\ \A k \in sheet.asked : k \in sheet.cut \/ k = sheet.draft
  /\ sheet.counting \in BOOLEAN /\ sheet.late \in BOOLEAN
  /\ ~sheet.counting => sheet.asked \subseteq sheet.cut
  /\ ~sheet.counting /\ ~sheet.late => sheet.count \in {sheet.draft, NoCount}

\* Every event keeps what is said of the search field,
LEMMA FieldStep ==
  ASSUME FieldInv, [BoxNext]_boxVars
  PROVE  FieldInv'
<1>1. CASE UNCHANGED <<field, timer, asked, cut, panel, failed>>
  BY <1>1 DEF FieldInv
<1>2. ASSUME NEW long \in BOOLEAN, Type(long)
      PROVE  FieldInv'
  <2>1. /\ field'.text = field.text + 1 /\ field'.long = long
        /\ timer' = IF long THEN field.text + 1 ELSE 0
        /\ cut' = cut \union {k \in asked : k < field.text + 1}
        /\ asked' = asked /\ panel' = panel /\ failed' = failed
    BY <1>2 DEF Type, Superseded
  <2>2. \A k \in asked : k \in Nat /\ k < field.text + 1
    BY DEF FieldInv
  <2>3. asked' \subseteq 1..field'.text
    <3>1. asked \subseteq 1..field.text /\ field.text \in Nat
      BY DEF FieldInv
    <3>2. \A n \in Nat : 1..n \subseteq 1..n + 1
      OBVIOUS
    <3>3. 1..field.text \subseteq 1..field.text + 1
      BY <3>1, <3>2
    <3> QED
      BY <2>1, <3>1, <3>3
  <2>4. \A k \in cut' : k \in Nat /\ k < field'.text
    <3>1. field.text \in Nat /\ \A k \in cut : k \in Nat /\ k < field.text
      BY DEF FieldInv
    <3>2. \A k \in cut : k < field.text + 1
      BY <3>1
    <3> QED
      BY <2>1, <2>2, <3>1, <3>2
  <2>5. \A k \in asked' : k \in cut'
    BY <2>1, <2>2
  <2>6. field'.text \in Nat /\ timer' \in {0, field'.text}
    BY <2>1 DEF FieldInv
  <2> QED
    BY <2>1, <2>3, <2>4, <2>5, <2>6 DEF FieldInv
<1>3. CASE PauseOver
  BY <1>3 DEF FieldInv, PauseOver
<1>4. ASSUME NEW k \in 1..MaxEvents, Suggested(k) \/ NotSuggested(k)
      PROVE  FieldInv'
  <2>1. k \in asked /\ asked' = asked \ {k} /\ UNCHANGED <<field, timer, cut>>
    BY <1>4 DEF Suggested, NotSuggested
  <2>2. k = field.text \/ k \in cut
    BY <2>1 DEF FieldInv
  <2>3. CASE k = field.text
    <3>1. k \notin cut
      BY <2>3 DEF FieldInv
    <3>2. panel' = k \/ k \in failed'
      BY <1>4, <3>1 DEF Suggested, NotSuggested
    <3> QED
      BY <2>1, <2>3, <3>2 DEF FieldInv
  <2>4. CASE k # field.text
    <3>1. panel' = panel /\ failed \subseteq failed'
      BY <1>4, <2>2, <2>4 DEF Suggested, NotSuggested
    <3> QED
      BY <2>1, <2>4, <3>1 DEF FieldInv
  <2> QED
    BY <2>3, <2>4
<1>5. ASSUME NEW k \in 1..MaxEvents, Recounted(k) \/ NotRecounted(k)
      PROVE  UNCHANGED <<field, timer, asked, cut, panel, failed>>
  BY <1>5 DEF Recounted, NotRecounted, OnSheet
<1>6. Tick \/ Reopen \/ UNCHANGED boxVars => UNCHANGED <<field, timer, asked, cut, panel, failed>>
  BY DEF Tick, Reopen, OnSheet, boxVars
<1> QED
  BY <1>1, <1>2, <1>3, <1>4, <1>5, <1>6 DEF BoxNext

\* and of the filter sheet.
LEMMA SheetStep ==
  ASSUME SheetInv, [BoxNext]_boxVars
  PROVE  SheetInv'
<1>1. CASE sheet' = sheet
  BY <1>1 DEF SheetInv
<1>2. CASE Tick
  <2> DEFINE n == sheet.draft + 1
  <2>1. sheet' = [sheet EXCEPT !.draft = n, !.counting = TRUE, !.late = FALSE,
                               !.cut = @ \union sheet.asked, !.asked = @ \union {n}]
    BY <1>2 DEF Tick, OnSheet
  <2>2. sheet' = [draft |-> n, count |-> sheet.count, counting |-> TRUE,
                  asked |-> sheet.asked \union {n}, cut |-> sheet.cut \union sheet.asked,
                  late |-> FALSE]
    BY <2>1 DEF SheetInv
  <2> QED
    BY <2>2 DEF SheetInv
<1>3. CASE Reopen
  <2>1. sheet' = Reopened
    BY <1>3 DEF Reopen, OnSheet
  <2>2. sheet' = [draft |-> sheet.draft + 1, count |-> sheet.draft + 1, counting |-> FALSE,
                  asked |-> sheet.asked, cut |-> sheet.cut \union sheet.asked, late |-> FALSE]
    BY <2>1 DEF SheetInv, Reopened
  <2> QED
    BY <2>2 DEF SheetInv
<1>4. ASSUME NEW k \in 1..MaxEvents, Recounted(k)
      PROVE  SheetInv'
  <2>1. sheet' = [draft |-> sheet.draft, count |-> k,
                  counting |-> sheet.counting /\ k \in sheet.cut,
                  asked |-> sheet.asked \ {k}, cut |-> sheet.cut,
                  late |-> sheet.late \/ (k \in sheet.cut /\ ~sheet.counting)]
    BY <1>4 DEF Recounted, OnSheet, SheetInv
  <2>2. k \in sheet.cut \/ k = sheet.draft
    BY <1>4 DEF SheetInv, Recounted
  <2>3. k \notin sheet.cut => sheet.asked \ {k} \subseteq sheet.cut
    BY <2>2 DEF SheetInv
  <2> QED
    BY <2>1, <2>2, <2>3 DEF SheetInv
<1>5. ASSUME NEW k \in 1..MaxEvents, NotRecounted(k)
      PROVE  SheetInv'
  <2>1. sheet' = IF k \in sheet.cut THEN [sheet EXCEPT !.asked = @ \ {k}]
                 ELSE [sheet EXCEPT !.asked = @ \ {k}, !.count = NoCount, !.counting = FALSE]
    BY <1>5 DEF NotRecounted, OnSheet
  <2>2. CASE k \in sheet.cut
    <3>1. sheet' = [draft |-> sheet.draft, count |-> sheet.count, counting |-> sheet.counting,
                    asked |-> sheet.asked \ {k}, cut |-> sheet.cut, late |-> sheet.late]
      BY <2>1, <2>2 DEF SheetInv
    <3> QED
      BY <3>1 DEF SheetInv
  <2>3. CASE k \notin sheet.cut
    <3>1. sheet' = [draft |-> sheet.draft, count |-> NoCount, counting |-> FALSE,
                    asked |-> sheet.asked \ {k}, cut |-> sheet.cut, late |-> sheet.late]
      BY <2>1, <2>3 DEF SheetInv
    <3>2. k = sheet.draft /\ \A j \in sheet.asked : j \in sheet.cut \/ j = sheet.draft
      BY <1>5, <2>3 DEF SheetInv, NotRecounted
    <3>3. sheet.asked \ {k} \subseteq sheet.cut
      BY <3>2
    <3> QED
      BY <3>1, <3>2, <3>3 DEF SheetInv
  <2> QED
    BY <2>2, <2>3
<1>6. ASSUME NEW k \in 1..MaxEvents, Suggested(k) \/ NotSuggested(k)
      PROVE  sheet' = sheet
  BY <1>6 DEF Suggested, NotSuggested
<1>7. (\E long \in BOOLEAN : Type(long)) \/ PauseOver \/ UNCHANGED boxVars => sheet' = sheet
  BY DEF Type, PauseOver, boxVars
<1> QED
  BY <1>1, <1>2, <1>3, <1>4, <1>5, <1>6, <1>7 DEF BoxNext

\* However fast somebody types and ticks, and in whichever order the answers
\* come: once nothing is awaited, the panel is about what is in the field, and
\* the count about what is on the sheet unless an aborted request was answered
\* after the newest one.
THEOREM SearchTheorem == Spec => []NewestAnswerShown
<1>1. Init => FieldInv /\ SheetInv
  <2> SUFFICES ASSUME BoxInit
               PROVE  FieldInv /\ SheetInv
    BY DEF Init
  <2>1. FieldInv
    BY DEF BoxInit, FieldInv
  <2>2. SheetInv
    BY DEF BoxInit, SheetInv
  <2> QED
    BY <2>1, <2>2
<1>2. FieldInv /\ SheetInv /\ [Next]_vars => (FieldInv /\ SheetInv)'
  <2> SUFFICES ASSUME FieldInv, SheetInv, [Next]_vars
               PROVE  FieldInv' /\ SheetInv'
    OBVIOUS
  <2>1. [BoxNext]_boxVars
    BY DEF Next, vars
  <2> QED
    BY <2>1, FieldStep, SheetStep
<1>3. FieldInv /\ SheetInv => NewestAnswerShown
  <2> SUFFICES ASSUME FieldInv, SheetInv
               PROVE  NewestAnswerShown
    OBVIOUS
  <2>1. timer = 0 /\ asked = {} /\ field.long /\ field.text \notin failed => panel = field.text
    BY DEF FieldInv
  <2>2. ~sheet.counting /\ ~sheet.late => sheet.count \in {sheet.draft, NoCount}
    BY DEF SheetInv
  <2> QED
    BY <2>1, <2>2 DEF NewestAnswerShown
<1> QED
  BY <1>1, <1>2, <1>3, PTL DEF Spec

-----------------------------------------------------------------------------
(* The carts: rows, requests and clicks, whatever the tabs do.             *)

IsRow(row) ==
  /\ row = [id |-> row.id, qty |-> row.qty, selected |-> row.selected,
            due |-> row.due, by |-> row.by]
  /\ row.id \in 1..made

PageOps ==
  [kind : {"quantity"}, id : Nat \ {0}, q : Quantities]
    \union [kind : {"select", "remove"}, id : Nat \ {0}, q : {0, 1}]
    \union [kind : {"all", "clear"}, id : {0}, q : {0, 1}]

ButtonOps ==
  [kind : {"add"}, id : Loose, q : Quantities]
    \union [kind : {"bundle"}, id : {0}, q : Quantities]
    \union [kind : {"voucher"}, id : {0}, q : {0, 1}]

\* Every row has an id of its own.
LinesInv ==
  /\ made \in Nat
  /\ lines = [k \in Carts |-> [key \in Keys |-> lines[k][key]]]
  /\ \A k \in Carts : \A key \in Keys : lines[k][key] # None => IsRow(lines[k][key])
  /\ \A k, l \in Carts : \A a, b \in Keys :
       lines[k][a] # None /\ lines[l][b] # None /\ lines[k][a].id = lines[l][b].id => k = l /\ a = b

\* The page sends changes, buttons send additions.
SentInv ==
  /\ queue \in [Tabs -> Seq([op : PageOps, n : Nat \ {0}])]
  /\ clicks \in Nat
  /\ run = [s \in Slots |-> [pc |-> run[s].pc, op |-> run[s].op, saw |-> run[s].saw]]
  /\ \A s \in Slots : Busy(s) =>
       run[s].op \in [op : IF s[2] = "button" THEN ButtonOps ELSE PageOps, n : Nat \ {0}]

\* What a request has found, by how far it is.
SeenBy(s) ==
  Busy(s) =>
    LET r == run[s]  kind == OpOf(s).kind IN
    /\ r.pc \in {"sent", "cartless", "cart", "group", "write"}
    /\ r.pc \in {"cartless", "cart"} => kind \in {"add", "bundle"}
    /\ r.pc \in {"cart", "group", "write"} => r.saw.cart \in Carts
    /\ r.pc \in {"group", "write"} /\ kind \in {"quantity", "select", "remove"} => r.saw.key \in Keys
    /\ r.pc = "write" /\ kind = "quantity" /\ r.saw.key \in Group =>
         \A key \in Group : r.saw.rows[key] # None => IsRow(r.saw.rows[key])

FoundInv == \A s \in Slots : SeenBy(s)

\* Tabs that are about to make a cart.
Cartless == {t \in Tabs : run[<<t, "button">>].pc = "cartless"}

\* There are never more carts than tabs.
CartsInv ==
  /\ recent \in Seq(Carts)
  /\ Len(recent) + Cardinality(Cartless) <= Cardinality(Tabs)

CartFrame == LinesInv /\ SentInv /\ FoundInv /\ CartsInv

\* A request goes on to a next step, is answered, or sets out.
LEMMA ProceedsTo ==
  ASSUME SentInv, NEW s \in Slots, NEW pc, NEW saw, Proceeds(s, pc, saw)
  PROVE  run' = [o \in Slots |-> IF o = s THEN [pc |-> pc, op |-> run[s].op, saw |-> saw] ELSE run[o]]
<1>1. run = [o \in Slots |-> [pc |-> run[o].pc, op |-> run[o].op, saw |-> run[o].saw]]
  BY DEF SentInv
<1>2. run' = [run EXCEPT ![s].pc = pc, ![s].saw = saw]
  BY DEF Proceeds
<1>3. run[s] = [pc |-> run[s].pc, op |-> run[s].op, saw |-> run[s].saw]
  BY <1>1
<1>4. DOMAIN run = Slots
  BY <1>1
<1> DEFINE first == [run EXCEPT ![s].pc = pc]
<1>5. run' = [first EXCEPT ![s].saw = saw]
  BY <1>2, Zenon
<1>6. first = [o \in Slots |->
                 IF o = s THEN [pc |-> pc, op |-> run[s].op, saw |-> run[s].saw] ELSE run[o]]
  <2>1. [run[s] EXCEPT !.pc = pc] = [pc |-> pc, op |-> run[s].op, saw |-> run[s].saw]
    BY <1>3
  <2>2. first = [run EXCEPT ![s] = [run[s] EXCEPT !.pc = pc]]
    BY Zenon
  <2> HIDE DEF first
  <2>3. \A x : [run EXCEPT ![s] = x] = [o \in Slots |-> IF o = s THEN x ELSE run[o]]
    BY <1>4
  <2> QED
    BY <2>1, <2>2, <2>3
<1> HIDE DEF first
<1> QED
  BY <1>5, <1>6

\* An answer makes its slot idle and no other.
LEMMA AnsweredWith ==
  ASSUME SentInv, NEW s \in Slots, NEW done, Answer(s, done)
  PROVE  run' = [o \in Slots |-> IF o = s THEN Idle ELSE run[o]]
<1>1. DOMAIN run = Slots
  BY DEF SentInv
<1>2. run' = [run EXCEPT ![s] = Idle]
  BY DEF Answer, Settled
<1> QED
  BY <1>1, <1>2

\* A click that sets out fills its slot and no other.
LEMMA Goes ==
  ASSUME SentInv, NEW s \in Slots, NEW op, SetsOut(s, op)
  PROVE  run' = [o \in Slots |-> IF o = s THEN [pc |-> "sent", op |-> op, saw |-> None] ELSE run[o]]
<1>1. DOMAIN run = Slots
  BY DEF SentInv
<1>2. run' = [run EXCEPT ![s] = [pc |-> "sent", op |-> op, saw |-> None]]
  BY DEF SetsOut
<1> QED
  BY <1>1, <1>2

\* The kinds of requests.
LEMMA KindsOf ==
  /\ \A op \in PageOps : op.kind \in {"quantity", "select", "remove", "all", "clear"}
  /\ \A op \in PageOps : op.kind = "quantity" => op.q \in Quantities
  /\ \A op \in PageOps : op.kind \in {"quantity", "select", "remove"} => op.id \in Nat \ {0}
  /\ \A op \in ButtonOps : op.kind \in {"add", "bundle", "voucher"}
  /\ \A op \in ButtonOps : op.kind \in {"add", "bundle"} => op.q \in Quantities
  /\ \A op \in ButtonOps : op.kind = "add" => op.id \in Loose
  BY DEF PageOps, ButtonOps

\* A cart has finitely many places for rows.
LEMMA KeysAreFew ==
  /\ IsFiniteSet(Keys) /\ IsFiniteSet(Group) /\ Group \subseteq Keys
  /\ \A v \in Loose : <<"loose", v>> \in Keys \ Group
  /\ \A S \in SUBSET Keys : IsFiniteSet(S) /\ Cardinality(S) \in Nat
<1> DEFINE L == {"loose"} \X Loose
<1>1. IsFiniteSet(L)
  <2> DEFINE f == [v \in Loose |-> <<"loose", v>>]
  <2>1. f \in [Loose -> L] /\ \A x \in L : \E v \in Loose : f[v] = x
    OBVIOUS
  <2> HIDE DEF f, L
  <2>2. f \in Surjection(Loose, L)
    BY <2>1 DEF Surjection
  <2> QED
    BY <2>2, FS_Surjection, CartAssumption
<1>2. IsFiniteSet(Group)
  <2> DEFINE f == [v \in Bundled |-> <<"bundle", v>>]
  <2>1. f \in [Bundled -> Group] /\ \A x \in Group : \E v \in Bundled : f[v] = x
    BY DEF Group
  <2> HIDE DEF f
  <2>2. f \in Surjection(Bundled, Group)
    BY <2>1 DEF Surjection
  <2> QED
    BY <2>2, FS_Surjection, CartAssumption
<1>3. Keys = L \union Group
  BY DEF Keys, Group
<1>4. IsFiniteSet(Keys)
  <2> HIDE DEF L
  <2> QED  BY <1>1, <1>2, <1>3, FS_Union
<1>5. \A v \in Loose : <<"loose", v>> \in Keys \ Group
  BY DEF Keys, Group
<1>6. \A S \in SUBSET Keys : IsFiniteSet(S) /\ Cardinality(S) \in Nat
  BY <1>4, FS_Subset, FS_CardinalityType
<1> QED
  BY <1>2, <1>3, <1>4, <1>5, <1>6

\* The least of some numbers is one of them.
LEMMA LeastNumber ==
  ASSUME NEW S, IsFiniteSet(S), S # {}, S \subseteq Int
  PROVE  Min(S) \in S /\ \A k \in S : Min(S) <= k
<1> DEFINE T == {-k : k \in S}
<1>1. IsFiniteSet(T)
  <2> DEFINE f == [k \in S |-> -k]
  <2>1. \A k \in S : f[k] = -k /\ -k \in T
    OBVIOUS
  <2>3. f \in [S -> T]
    OBVIOUS
  <2>4. \A x \in T : \E k \in S : x = -k
    OBVIOUS
  <2>5. \A x \in T : \E k \in S : f[k] = x
    BY <2>1, <2>4
  <2> HIDE DEF f, T
  <2>2. f \in Surjection(S, T)
    BY <2>3, <2>5 DEF Surjection
  <2> QED
    BY <2>2, FS_Surjection
<1>2. T # {} /\ T \subseteq Int
  <2>1. \A k \in S : k \in Int /\ -k \in Int
    OBVIOUS
  <2>2. PICK k \in S : TRUE
    OBVIOUS
  <2>3. -k \in T
    OBVIOUS
  <2>4. \A x \in T : \E j \in S : x = -j
    OBVIOUS
  <2> HIDE DEF T
  <2> QED
    BY <2>1, <2>3, <2>4
<1>3. PICK m \in T : \A k \in T : k <= m
  <2> HIDE DEF T
  <2> QED  BY <1>1, <1>2, GreatestNumber
<1>4. PICK k \in S : m = -k
  BY <1>3
<1>5. \A j \in S : k <= j
  <2> TAKE j \in S
  <2>1. -j \in T /\ j \in Int /\ k \in Int
    BY <1>4
  <2>2. -j <= -k
    BY <1>3, <1>4, <2>1
  <2> QED  BY <2>1, <2>2
<1>6. \E x \in S : \A j \in S : x =< j
  BY <1>4, <1>5
<1> QED
  BY <1>6 DEF Min

\* The largest of finitely many numbers is one of them.
LEMMA LargestNumber ==
  ASSUME NEW S, IsFiniteSet(S), S # {}, S \subseteq Int
  PROVE  Max(S) \in S /\ \A k \in S : k <= Max(S)
<1>1. PICK m \in S : \A k \in S : k <= m
  BY GreatestNumber
<1>2. \A k \in S : m >= k
  BY <1>1
<1>3. Max(S) \in S /\ \A k \in S : Max(S) >= k
  BY <1>2 DEF Max
<1>4. \A k \in S : k \in Int
  OBVIOUS
<1> QED
  BY <1>3, <1>4

\* Rows can be numbered.
LEMMA NumbersFor ==
  ASSUME NEW S, IsFiniteSet(S), NEW m \in Nat
  PROVE  \E f \in [S -> m + 1 .. m + Cardinality(S)] : IsInjective(f)
<1>1. Cardinality(S) \in Nat
  BY FS_CardinalityType
<1>2. /\ IsFiniteSet(m + 1 .. m + Cardinality(S))
      /\ Cardinality(m + 1 .. m + Cardinality(S)) = Cardinality(S)
  BY <1>1, FS_Interval
<1>3. ExistsBijection(S, m + 1 .. m + Cardinality(S))
  BY <1>2, FS_SameCardinalityBij
<1> QED
  BY <1>3 DEF ExistsBijection, Bijection, Injection

\* A slot is a tab and one of three ways to send.
LEMMA SlotFacts ==
  /\ \A t \in Tabs : \A x \in {"page", "button", "lost"} : <<t, x>> \in Slots
  /\ \A s \in Slots : s = <<s[1], s[2]>> /\ s[1] \in Tabs /\ s[2] \in {"page", "button", "lost"}
  /\ Cardinality(Tabs) \in Nat \ {0}
<1>1. Cardinality(Tabs) \in Nat /\ Cardinality(Tabs) # 0
  BY CartAssumption, FS_CardinalityType, FS_EmptySet
<1> QED
  BY <1>1 DEF Slots

\* Using a cart brings it to the front of the session's carts.
LEMMA Touched ==
  ASSUME recent \in Seq(Carts), NEW k, Touch(k)
  PROVE  k \in Carts /\ recent' \in Seq(Carts) /\ Len(recent') = Len(recent)
<1>1. PICK i \in DOMAIN recent :
        /\ recent[i] = k
        /\ recent' = <<k>> \o SubSeq(recent, 1, i - 1) \o SubSeq(recent, i + 1, Len(recent))
  BY DEF Touch
<1>2. i \in 1..Len(recent) /\ Len(recent) \in Nat
  OBVIOUS
<1>3. k \in Carts
  BY <1>1, <1>2
<1> DEFINE a == SubSeq(recent, 1, i - 1)
           b == SubSeq(recent, i + 1, Len(recent))
<1>4. a \in Seq(Carts) /\ Len(a) = i - 1
  BY <1>2
<1>5. b \in Seq(Carts) /\ Len(b) = Len(recent) - i
  BY <1>2
<1>6. <<k>> \in Seq(Carts) /\ Len(<<k>>) = 1
  BY <1>3
<1> HIDE DEF a, b
<1>7. <<k>> \o a \in Seq(Carts) /\ Len(<<k>> \o a) = i
  BY <1>2, <1>4, <1>6
<1>8. (<<k>> \o a) \o b \in Seq(Carts) /\ Len((<<k>> \o a) \o b) = Len(recent)
  BY <1>2, <1>5, <1>7
<1>9. recent' = (<<k>> \o a) \o b
  BY <1>1 DEF a, b
<1> QED
  BY <1>3, <1>8, <1>9

\* What a request has found stays what it was when others act.
LEMMA SeenKept ==
  ASSUME NEW s, SeenBy(s), run'[s] = run[s], made \in Nat, made' \in Nat, made <= made'
  PROVE  SeenBy(s)'
<1>1. \A row : IsRow(row) => IsRow(row)'
  BY DEF IsRow
<1> QED
  BY <1>1 DEF SeenBy, Busy, OpOf

\* A request that is handled goes on or ends; nothing else is on its way.
LEMMA HandleMoves ==
  ASSUME SentInv, NEW s \in Slots, Handle(s)
  PROVE  /\ Busy(s) /\ UNCHANGED outside
         /\ run' = [o \in Slots |-> IF o = s THEN run'[s] ELSE run[o]]
         /\ \/ run'[s] = Idle
            \/ /\ run'[s] = [pc |-> run'[s].pc, op |-> run[s].op, saw |-> run'[s].saw]
               /\ run'[s].pc \in {"cartless", "cart", "group", "write"}
<1>1. ASSUME NEW done, Answer(s, done)
      PROVE  run' = [o \in Slots |-> IF o = s THEN run'[s] ELSE run[o]] /\ run'[s] = Idle
  BY <1>1, AnsweredWith
<1>2. ASSUME NEW pc, NEW saw, Proceeds(s, pc, saw), pc \in {"cartless", "cart", "group", "write"}
      PROVE  /\ run' = [o \in Slots |-> IF o = s THEN run'[s] ELSE run[o]]
             /\ run'[s] = [pc |-> run'[s].pc, op |-> run[s].op, saw |-> run'[s].saw]
             /\ run'[s].pc \in {"cartless", "cart", "group", "write"}
  BY <1>2, ProceedsTo
<1>3. CASE CheckAdd(s)
  BY <1>2, <1>3 DEF CheckAdd, Serves
<1>4. CASE CreateCart(s)
  BY <1>2, <1>4 DEF CreateCart
<1>5. CASE ReadLines(s)
  BY <1>2, <1>5 DEF ReadLines
<1>6. CASE WriteAdd(s)
  BY <1>1, <1>6 DEF WriteAdd
<1>7. CASE FindLine(s)
  BY <1>2, <1>7 DEF FindLine, Serves
<1>8. CASE ReadGroup(s)
  BY <1>2, <1>8 DEF ReadGroup, Serves
<1>9. CASE WriteQuantity(s)
  BY <1>1, <1>9 DEF WriteQuantity, Serves
<1>10. CASE WriteSelection(s)
  BY <1>1, <1>10 DEF WriteSelection, Serves
<1>11. CASE RemoveLine(s)
  BY <1>1, <1>11 DEF RemoveLine, Serves
<1>12. CASE FindCart(s)
  BY <1>2, <1>12 DEF FindCart, Serves
<1>13. CASE SelectAll(s)
  BY <1>1, <1>13 DEF SelectAll, Serves
<1>14. CASE RemoveSelected(s)
  BY <1>1, <1>14 DEF RemoveSelected, Serves
<1>15. CASE SetVoucher(s)
  BY <1>1, <1>15 DEF SetVoucher, Serves
<1>16. CASE Fails(s)
  BY <1>1, <1>16 DEF Fails
<1> QED
  BY <1>3, <1>4, <1>5, <1>6, <1>7, <1>8, <1>9, <1>10, <1>11, <1>12, <1>13, <1>14,
     <1>15, <1>16 DEF Handle

-----------------------------------------------------------------------------
(* What each write does to the rows.                                       *)

\* A new table for one cart leaves the others.
LEMMA CartRewritten ==
  ASSUME LinesInv, NEW k \in Carts, NEW table, table = [key \in Keys |-> table[key]],
         lines' = [lines EXCEPT ![k] = table]
  PROVE  /\ lines' = [l \in Carts |-> [key \in Keys |-> lines'[l][key]]]
         /\ lines'[k] = table
         /\ \A l \in Carts : l # k => lines'[l] = lines[l]
<1>1. lines = [l \in Carts |-> [key \in Keys |-> lines[l][key]]]
  BY DEF LinesInv
<1>2. lines' = [l \in Carts |-> IF l = k THEN table ELSE lines[l]]
  BY <1>1
<1>3. \A l \in Carts : lines'[l] = [key \in Keys |-> lines'[l][key]]
  <2> TAKE l \in Carts
  <2>1. CASE l = k
    BY <1>2, <2>1
  <2>2. CASE l # k
    <3>1. lines'[l] = lines[l] /\ lines[l] = [key \in Keys |-> lines[l][key]]
      BY <1>1, <1>2, <2>2
    <3> QED  BY <3>1
  <2> QED
    BY <2>1, <2>2
<1> QED
  BY <1>2, <1>3

\* Rows that stay keep their ids.
LEMMA RowsRemain ==
  ASSUME LinesInv, made' = made,
         lines' = [l \in Carts |-> [key \in Keys |-> lines'[l][key]]],
         \A l \in Carts : \A key \in Keys :
           lines'[l][key] # None =>
             lines[l][key] # None /\ IsRow(lines'[l][key]) /\ lines'[l][key].id = lines[l][key].id
  PROVE  LinesInv'
<1>3. \A k, l \in Carts : \A a, b \in Keys :
        lines'[k][a] # None /\ lines'[l][b] # None /\ lines'[k][a].id = lines'[l][b].id
          => k = l /\ a = b
  BY DEF LinesInv
<1>4. \A k \in Carts : \A key \in Keys : (lines[k][key] # None => IsRow(lines[k][key]))'
  BY DEF IsRow
<1>5. made' \in Nat
  BY DEF LinesInv
<1> QED
  BY <1>3, <1>4, <1>5 DEF LinesInv

\* A change of a line names one.
LEMMA NamesLine ==
  ASSUME SentInv, NEW s \in Slots, Busy(s), OpOf(s).kind \in {"quantity", "select", "remove"}
  PROVE  OpOf(s).id \in Nat \ {0} /\ (OpOf(s).kind = "quantity" => OpOf(s).q \in Quantities)
<1>1. run[s].op \in [op : IF s[2] = "button" THEN ButtonOps ELSE PageOps, n : Nat \ {0}]
  BY DEF SentInv
<1>2. OpOf(s) \in IF s[2] = "button" THEN ButtonOps ELSE PageOps
  BY <1>1 DEF OpOf
<1> QED
  BY <1>2, KindsOf

\* And an addition says what and how many.
LEMMA NamesGoods ==
  ASSUME SentInv, NEW s \in Slots, Busy(s), OpOf(s).kind \in {"add", "bundle"}
  PROVE  /\ OpOf(s).q \in Quantities
         /\ OpOf(s).kind = "add" => OpOf(s).id \in Loose
<1>1. run[s].op \in [op : IF s[2] = "button" THEN ButtonOps ELSE PageOps, n : Nat \ {0}]
  BY DEF SentInv
<1>2. OpOf(s) \in IF s[2] = "button" THEN ButtonOps ELSE PageOps
  BY <1>1 DEF OpOf
<1> QED
  BY <1>2, KindsOf

\* A row with some of its columns changed.
LEMMA RowRewritten ==
  ASSUME NEW row, IsRow(row), NEW a, NEW b, NEW c
  PROVE  [row EXCEPT !.qty = a, !.due = b, !.by = c] =
           [id |-> row.id, qty |-> a, selected |-> row.selected, due |-> b, by |-> c]
<1>1. row = [id |-> row.id, qty |-> row.qty, selected |-> row.selected,
             due |-> row.due, by |-> row.by]
  BY DEF IsRow
<1> DEFINE first == [row EXCEPT !.qty = a]
<1>2. first = [id |-> row.id, qty |-> a, selected |-> row.selected, due |-> row.due, by |-> row.by]
  BY ONLY <1>1
<1>3. [row EXCEPT !.qty = a, !.due = b, !.by = c] = [[first EXCEPT !.due = b] EXCEPT !.by = c]
  BY Zenon
<1> HIDE DEF first
<1> DEFINE due == [first EXCEPT !.due = b]
<1>4. due = [id |-> row.id, qty |-> a, selected |-> row.selected, due |-> b, by |-> row.by]
  BY <1>2
<1> HIDE DEF due
<1>5. [due EXCEPT !.by = c] =
        [id |-> row.id, qty |-> a, selected |-> row.selected, due |-> b, by |-> c]
  BY <1>4
<1> QED
  BY <1>3, <1>5 DEF due

\* What an add leaves of a row.
LEMMA RowAddedTo ==
  ASSUME NEW row, IsRow(row), NEW a, NEW b, NEW c
  PROVE  [row EXCEPT !.qty = a, !.by = c, !.due = b] =
           [id |-> row.id, qty |-> a, selected |-> row.selected, due |-> b, by |-> c]
<1>1. row = [id |-> row.id, qty |-> row.qty, selected |-> row.selected,
             due |-> row.due, by |-> row.by]
  BY DEF IsRow
<1> DEFINE first == [row EXCEPT !.qty = a]
<1>2. first = [id |-> row.id, qty |-> a, selected |-> row.selected, due |-> row.due, by |-> row.by]
  BY ONLY <1>1
<1>3. [row EXCEPT !.qty = a, !.by = c, !.due = b] = [[first EXCEPT !.by = c] EXCEPT !.due = b]
  BY Zenon
<1> HIDE DEF first
<1> DEFINE by == [first EXCEPT !.by = c]
<1>4. by = [id |-> row.id, qty |-> a, selected |-> row.selected, due |-> row.due, by |-> c]
  BY <1>2
<1> HIDE DEF by
<1>5. [by EXCEPT !.due = b] =
        [id |-> row.id, qty |-> a, selected |-> row.selected, due |-> b, by |-> c]
  BY <1>4
<1> QED
  BY <1>3, <1>5 DEF by

\* What a tick leaves of a row.
LEMMA RowTicked ==
  ASSUME NEW row, IsRow(row), NEW tick
  PROVE  [row EXCEPT !.selected = tick] =
           [id |-> row.id, qty |-> row.qty, selected |-> tick, due |-> row.due, by |-> row.by]
<1>1. row = [id |-> row.id, qty |-> row.qty, selected |-> row.selected,
             due |-> row.due, by |-> row.by]
  BY DEF IsRow
<1> QED
  BY ONLY <1>1

QuantityKeys(s) ==
  IF run[s].saw.key \in Group THEN {key \in Group : run[s].saw.rows[key] # None}
  ELSE {run[s].saw.key}

CartOf(s) == run[s].saw.cart

\* What setting a quantity writes: a line, or a whole bundle in proportion.
LEMMA QuantityWritten ==
  ASSUME CartFrame, NEW s \in Slots, WriteQuantity(s)
  PROVE  /\ CartOf(s) \in Carts /\ OpOf(s).q \in Quantities
         /\ QuantityKeys(s) \subseteq RowsOf(CartOf(s))
         /\ lines' = [l \in Carts |-> [key \in Keys |-> lines'[l][key]]]
         /\ \A l \in Carts : l # CartOf(s) => lines'[l] = lines[l]
         /\ \A key \in Keys : lines'[CartOf(s)][key] =
              IF key \notin QuantityKeys(s) THEN lines[CartOf(s)][key]
              ELSE [id |-> lines[CartOf(s)][key].id,
                    qty |-> IF key \in Group THEN Per[key[2]] * OpOf(s).q ELSE OpOf(s).q,
                    selected |-> lines[CartOf(s)][key].selected, due |-> OpOf(s).q,
                    by |-> run[s].op.n]
         /\ Touch(CartOf(s))
<1> DEFINE k == CartOf(s)
           q == OpOf(s).q
           at == run[s].saw.key
           keys == QuantityKeys(s)
           table == [key \in Keys |->
                     IF key \notin keys THEN lines[k][key]
                     ELSE [lines[k][key] EXCEPT
                             !.qty = IF key \in Group THEN Per[key[2]] * q ELSE q,
                             !.due = q, !.by = run[s].op.n]]
<1>1. /\ Busy(s) /\ run[s].pc = "write" /\ OpOf(s).kind = "quantity"
  BY DEF WriteQuantity, Serves, OpOf
<1>2. k \in Carts /\ at \in Keys
  BY <1>1 DEF CartFrame, FoundInv, SeenBy, CartOf
<1>3. q \in Quantities /\ OpOf(s).id \in Nat \ {0}
  BY <1>1, NamesLine DEF CartFrame
<1>4. /\ IF at \in Group THEN AsSeen(s, keys) ELSE IdOf(lines[k][at]) = OpOf(s).id
      /\ lines' = [lines EXCEPT ![k] = table]
      /\ Touch(k)
  BY DEF WriteQuantity, QuantityKeys, CartOf
<1>5. \A key \in Keys : lines[k][key] # None => IsRow(lines[k][key])
  BY <1>2 DEF CartFrame, LinesInv
<1>6. keys \subseteq RowsOf(k)
  <2>1. CASE at \notin Group
    <3>1. lines[k][at] # None
      BY <1>3, <1>4, <2>1 DEF IdOf
    <3> QED
      BY <1>2, <2>1, <3>1 DEF QuantityKeys, RowsOf
  <2>2. CASE at \in Group
    <3>1. ASSUME NEW key \in keys
          PROVE  key \in Keys /\ lines[k][key] # None
      <4>1. key \in Group /\ run[s].saw.rows[key] # None
        BY <2>2, <3>1 DEF QuantityKeys
      <4>2. IsRow(run[s].saw.rows[key])
        BY <1>1, <2>2, <4>1 DEF CartFrame, FoundInv, SeenBy
      <4>3. IdOf(run[s].saw.rows[key]) = run[s].saw.rows[key].id
        BY <4>1 DEF IdOf
      <4>4. IdOf(lines[k][key]) = run[s].saw.rows[key].id
        BY <1>4, <2>2, <3>1, <4>3 DEF AsSeen, CartOf
      <4>5. run[s].saw.rows[key].id \in 1..made /\ made \in Nat
        BY <4>2 DEF IsRow, CartFrame, LinesInv
      <4>6. lines[k][key] # None
        BY <4>4, <4>5 DEF IdOf
      <4> QED
        BY <4>1, <4>6, KeysAreFew
    <3> QED
      BY <3>1 DEF RowsOf
  <2> QED
    BY <2>1, <2>2
<1>7. table = [key \in Keys |-> table[key]]
  OBVIOUS
<1>8. /\ lines' = [l \in Carts |-> [key \in Keys |-> lines'[l][key]]]
      /\ lines'[k] = table
      /\ \A l \in Carts : l # k => lines'[l] = lines[l]
  <2> HIDE DEF table
  <2> QED
    BY <1>2, <1>4, <1>7, CartRewritten DEF CartFrame
<1>9. ASSUME NEW key \in Keys
       PROVE  lines'[k][key] =
              IF key \notin keys THEN lines[k][key]
              ELSE [id |-> lines[k][key].id, qty |-> IF key \in Group THEN Per[key[2]] * q ELSE q,
                    selected |-> lines[k][key].selected, due |-> q, by |-> run[s].op.n]
  <2>1. CASE key \notin keys
    BY <1>8, <2>1
  <2>2. CASE key \in keys
    <3>1. IsRow(lines[k][key])
      BY <1>5, <1>6, <2>2 DEF RowsOf
    <3>2. lines'[k][key] = [lines[k][key] EXCEPT
                             !.qty = IF key \in Group THEN Per[key[2]] * q ELSE q,
                             !.due = q, !.by = run[s].op.n]
      BY <1>8, <2>2
    <3>3. \A a, b, c : [lines[k][key] EXCEPT !.qty = a, !.due = b, !.by = c] =
        [id |-> lines[k][key].id, qty |-> a, selected |-> lines[k][key].selected, due |-> b, by |-> c]
      BY <3>1, RowRewritten
    <3> QED
      BY <2>2, <3>2, <3>3
  <2> QED
    BY <2>1, <2>2
<1> QED
  BY <1>2, <1>3, <1>4, <1>6, <1>8, <1>9

SelectionKeys(s) ==
  IF run[s].saw.key \in Group THEN Group \intersect RowsOf(run[s].saw.cart)
  ELSE {run[s].saw.key}

\* What ticking a line writes: its tick, and its bundle's.
LEMMA SelectionWritten ==
  ASSUME CartFrame, NEW s \in Slots, WriteSelection(s), NEW k, k = run[s].saw.cart
  PROVE  /\ k \in Carts
         /\ SelectionKeys(s) \subseteq RowsOf(k)
         /\ lines' = [l \in Carts |-> [key \in Keys |-> lines'[l][key]]]
         /\ \A l \in Carts : l # k => lines'[l] = lines[l]
         /\ \A key \in Keys : lines'[k][key] =
              IF key \notin SelectionKeys(s) THEN lines[k][key]
              ELSE [id |-> lines[k][key].id, qty |-> lines[k][key].qty,
                    selected |-> OpOf(s).q > 0, due |-> lines[k][key].due,
                    by |-> lines[k][key].by]
         /\ Touch(k)
<1> DEFINE at == run[s].saw.key
           keys == SelectionKeys(s)
           tick == OpOf(s).q > 0
           table == [key \in Keys |->
                     IF key \in keys THEN [lines[k][key] EXCEPT !.selected = tick] ELSE lines[k][key]]
<1>1. /\ Busy(s) /\ run[s].pc = "write" /\ OpOf(s).kind = "select"
  BY DEF WriteSelection, Serves, OpOf
<1>2. k \in Carts /\ at \in Keys
  BY <1>1 DEF CartFrame, FoundInv, SeenBy
<1>3. OpOf(s).id \in Nat \ {0}
  BY <1>1, NamesLine DEF CartFrame
<1>4. /\ at \notin Group => IdOf(lines[k][at]) = OpOf(s).id
      /\ lines' = [lines EXCEPT ![k] = table]
      /\ Touch(k)
  BY DEF WriteSelection, SelectionKeys
<1>5. \A key \in Keys : lines[k][key] # None => IsRow(lines[k][key])
  BY <1>2 DEF CartFrame, LinesInv
<1>6. keys \subseteq RowsOf(k)
  <2>1. at \notin Group => lines[k][at] # None
    BY <1>3, <1>4 DEF IdOf
  <2> QED
    BY <1>2, <2>1 DEF SelectionKeys, RowsOf
<1>7. table = [key \in Keys |-> table[key]]
  OBVIOUS
<1>8. /\ lines' = [l \in Carts |-> [key \in Keys |-> lines'[l][key]]]
      /\ lines'[k] = table
      /\ \A l \in Carts : l # k => lines'[l] = lines[l]
  <2> HIDE DEF table
  <2> QED
    BY <1>2, <1>4, <1>7, CartRewritten DEF CartFrame
<1>9. ASSUME NEW key \in Keys
      PROVE  lines'[k][key] =
              IF key \notin SelectionKeys(s) THEN lines[k][key]
              ELSE [id |-> lines[k][key].id, qty |-> lines[k][key].qty,
                    selected |-> tick, due |-> lines[k][key].due, by |-> lines[k][key].by]
  <2>1. CASE key \notin keys
    BY <1>8, <2>1
  <2>2. CASE key \in keys
    <3>1. IsRow(lines[k][key])
      BY <1>5, <1>6, <2>2 DEF RowsOf
    <3>2. lines'[k][key] = [lines[k][key] EXCEPT !.selected = tick]
      BY <1>8, <2>2
    <3> HIDE DEF tick
    <3>3. [lines[k][key] EXCEPT !.selected = tick] =
          [id |-> lines[k][key].id, qty |-> lines[k][key].qty,
           selected |-> tick, due |-> lines[k][key].due, by |-> lines[k][key].by]
      BY <3>1, RowTicked
    <3> QED
      BY <2>2, <3>2, <3>3
  <2> QED
    BY <2>1, <2>2
<1> QED
  BY <1>2, <1>4, <1>6, <1>8, <1>9

\* What ticking everything writes.
LEMMA AllSelected ==
  ASSUME CartFrame, NEW s \in Slots, SelectAll(s), NEW k, k = run[s].saw.cart
  PROVE  /\ k \in Carts
         /\ lines' = [l \in Carts |-> [key \in Keys |-> lines'[l][key]]]
         /\ \A l \in Carts : l # k => lines'[l] = lines[l]
         /\ \A key \in Keys : lines'[k][key] =
              IF lines[k][key] = None THEN None
              ELSE [id |-> lines[k][key].id, qty |-> lines[k][key].qty,
                    selected |-> OpOf(s).q > 0, due |-> lines[k][key].due,
                    by |-> lines[k][key].by]
         /\ Touch(k)
<1> DEFINE tick == OpOf(s).q > 0
           table == [key \in Keys |->
                     IF lines[k][key] = None THEN None ELSE [lines[k][key] EXCEPT !.selected = tick]]
<1>1. Busy(s) /\ run[s].pc = "write"
  BY DEF SelectAll, Serves, OpOf
<1>2. k \in Carts
  BY <1>1 DEF CartFrame, FoundInv, SeenBy
<1>4. lines' = [lines EXCEPT ![k] = table] /\ Touch(k)
  BY DEF SelectAll
<1>5. \A key \in Keys : lines[k][key] # None => IsRow(lines[k][key])
  BY <1>2 DEF CartFrame, LinesInv
<1>7. table = [key \in Keys |-> table[key]]
  OBVIOUS
<1>8. /\ lines' = [l \in Carts |-> [key \in Keys |-> lines'[l][key]]]
      /\ lines'[k] = table
      /\ \A l \in Carts : l # k => lines'[l] = lines[l]
  <2> HIDE DEF table
  <2> QED
    BY <1>2, <1>4, <1>7, CartRewritten DEF CartFrame
<1>9. ASSUME NEW key \in Keys
      PROVE  lines'[k][key] =
              IF lines[k][key] = None THEN None
              ELSE [id |-> lines[k][key].id, qty |-> lines[k][key].qty,
                    selected |-> tick, due |-> lines[k][key].due, by |-> lines[k][key].by]
  <2>1. CASE lines[k][key] = None
    BY <1>8, <2>1
  <2>2. CASE lines[k][key] # None
    <3>1. IsRow(lines[k][key])
      BY <1>5, <2>2
    <3>2. lines'[k][key] = [lines[k][key] EXCEPT !.selected = tick]
      BY <1>8, <2>2
    <3> HIDE DEF tick
    <3>3. [lines[k][key] EXCEPT !.selected = tick] =
          [id |-> lines[k][key].id, qty |-> lines[k][key].qty,
           selected |-> tick, due |-> lines[k][key].due, by |-> lines[k][key].by]
      BY <3>1, RowTicked
    <3> QED
      BY <2>2, <3>2, <3>3
  <2> QED
    BY <2>1, <2>2
<1> QED
  BY <1>2, <1>4, <1>8, <1>9

\* At most ticks change in the cart k.
OnlyTicks(k) ==
  /\ lines' = [l \in Carts |-> [key \in Keys |-> lines'[l][key]]]
  /\ \A l \in Carts : l # k => lines'[l] = lines[l]
  /\ \A key \in Keys : \E tick :
       lines'[k][key] =
         IF lines[k][key] = None THEN None
         ELSE [id |-> lines[k][key].id, qty |-> lines[k][key].qty, selected |-> tick,
               due |-> lines[k][key].due, by |-> lines[k][key].by]

\* Ticking changes ticks only,
LEMMA SelectionTicks ==
  ASSUME CartFrame, NEW s \in Slots, WriteSelection(s)
  PROVE  CartOf(s) \in Carts /\ OnlyTicks(CartOf(s))
<1> DEFINE k == CartOf(s)  keys == SelectionKeys(s)
<1>1. k = run[s].saw.cart
  BY DEF CartOf
<1> HIDE DEF k
<1>2. /\ k \in Carts /\ keys \subseteq RowsOf(k)
      /\ lines' = [l \in Carts |-> [key \in Keys |-> lines'[l][key]]]
      /\ \A l \in Carts : l # k => lines'[l] = lines[l]
      /\ \A key \in Keys : lines'[k][key] =
           IF key \notin keys THEN lines[k][key]
           ELSE [id |-> lines[k][key].id, qty |-> lines[k][key].qty, selected |-> OpOf(s).q > 0,
                 due |-> lines[k][key].due, by |-> lines[k][key].by]
  BY <1>1, SelectionWritten
<1> HIDE DEF keys
<1>3. ASSUME NEW key \in Keys
      PROVE  \E tick : lines'[k][key] =
               IF lines[k][key] = None THEN None
               ELSE [id |-> lines[k][key].id, qty |-> lines[k][key].qty, selected |-> tick,
                     due |-> lines[k][key].due, by |-> lines[k][key].by]
  <2>1. CASE key \in keys
    <3>1. lines[k][key] # None
      BY <1>2, <2>1 DEF RowsOf
    <3> QED
      BY <1>2, <2>1, <3>1
  <2>2. CASE key \notin keys
    <3>1. lines'[k][key] = lines[k][key]
      BY <1>2, <2>2
    <3>2. lines[k][key] # None => lines[k][key] =
            [id |-> lines[k][key].id, qty |-> lines[k][key].qty,
             selected |-> lines[k][key].selected,
             due |-> lines[k][key].due, by |-> lines[k][key].by]
      BY <1>2 DEF CartFrame, LinesInv, IsRow
    <3> QED
      BY <3>1, <3>2
  <2> QED
    BY <2>1, <2>2
<1>4. k \in Carts /\ OnlyTicks(k)
  BY <1>2, <1>3 DEF OnlyTicks
<1> QED
  BY <1>4 DEF k

\* for one line or for all.
LEMMA AllTicks ==
  ASSUME CartFrame, NEW s \in Slots, SelectAll(s)
  PROVE  CartOf(s) \in Carts /\ OnlyTicks(CartOf(s))
<1> DEFINE k == CartOf(s)
<1>1. k = run[s].saw.cart
  BY DEF CartOf
<1> HIDE DEF k
<1>2. /\ k \in Carts
      /\ lines' = [l \in Carts |-> [key \in Keys |-> lines'[l][key]]]
      /\ \A l \in Carts : l # k => lines'[l] = lines[l]
      /\ \A key \in Keys : lines'[k][key] =
           IF lines[k][key] = None THEN None
           ELSE [id |-> lines[k][key].id, qty |-> lines[k][key].qty, selected |-> OpOf(s).q > 0,
                 due |-> lines[k][key].due, by |-> lines[k][key].by]
  BY <1>1, AllSelected
<1>3. k \in Carts /\ OnlyTicks(k)
  BY <1>2 DEF OnlyTicks
<1> QED
  BY <1>3 DEF k

\* Deleted rows are gone; the others are as they were.
LEMMA RowsDeleted ==
  ASSUME LinesInv, NEW k \in Carts, NEW keys, DeleteRows(k, keys)
  PROVE  /\ lines' = [l \in Carts |-> [key \in Keys |-> lines'[l][key]]]
         /\ \A l \in Carts : l # k => lines'[l] = lines[l]
         /\ \A key \in Keys : lines'[k][key] = IF key \in keys THEN None ELSE lines[k][key]
         /\ Touch(k)
<1> DEFINE table == [key \in Keys |-> IF key \in keys THEN None ELSE lines[k][key]]
<1>1. table = [key \in Keys |-> table[key]]
  OBVIOUS
<1>2. lines' = [lines EXCEPT ![k] = table] /\ Touch(k)
  BY DEF DeleteRows
<1>3. \A key \in Keys : table[key] = IF key \in keys THEN None ELSE lines[k][key]
  OBVIOUS
<1> HIDE DEF table
<1>4. /\ lines' = [l \in Carts |-> [key \in Keys |-> lines'[l][key]]]
      /\ lines'[k] = table
      /\ \A l \in Carts : l # k => lines'[l] = lines[l]
  BY <1>1, <1>2, CartRewritten
<1> QED
  BY <1>2, <1>3, <1>4

\* Removing a line deletes its row, or its bundle's.
LEMMA LineRemoved ==
  ASSUME CartFrame, NEW s \in Slots, RemoveLine(s), NEW k, k = run[s].saw.cart
  PROVE  k \in Carts /\ DeleteRows(k, Removed(k, run[s].saw.key))
<1>1. Busy(s) /\ run[s].pc = "write"
  BY DEF RemoveLine, Serves
<1>2. k \in Carts
  BY <1>1 DEF CartFrame, FoundInv, SeenBy
<1> QED
  BY <1>2 DEF RemoveLine

\* Removing the ticked lines deletes the rows that were read as ticked.
LEMMA SelectedRemoved ==
  ASSUME CartFrame, NEW s \in Slots, RemoveSelected(s), NEW k, k = run[s].saw.cart
  PROVE  /\ k \in Carts
         /\ \/ UNCHANGED <<lines, recent>>
            \/ DeleteRows(k, {key \in RowsOf(k) : IdOf(lines[k][key]) \in run[s].saw.ids})
<1>1. Busy(s) /\ run[s].pc = "write"
  BY DEF RemoveSelected, Serves
<1>2. k \in Carts
  BY <1>1 DEF CartFrame, FoundInv, SeenBy
<1> QED
  BY <1>2 DEF RemoveSelected

AddedKeys(s) == IF OpOf(s).kind = "bundle" THEN Group ELSE {<<"loose", OpOf(s).id>>}

\* What an add writes: new rows with new ids, or more on the old ones.
LEMMA AddWritten ==
  ASSUME CartFrame, NEW s \in Slots, WriteAdd(s), NEW k, k = run[s].saw.cart
  PROVE  /\ k \in Carts /\ OpOf(s).q \in Quantities /\ OpOf(s).kind \in {"add", "bundle"}
         /\ made' \in Nat /\ made <= made'
         /\ AddedKeys(s) \subseteq Keys
         /\ lines' = [l \in Carts |-> [key \in Keys |-> lines'[l][key]]]
         /\ \A l \in Carts : l # k => lines'[l] = lines[l]
         /\ \A key \in Keys \ AddedKeys(s) : lines'[k][key] = lines[k][key]
         /\ \A key \in AddedKeys(s) :
              /\ lines[k][key] = None =>
                   /\ lines'[k][key] = Row(lines'[k][key].id, Added(s)[key],
                                        DueAfter(lines[k][key], OpOf(s).q, run[s].saw.left))
                   /\ lines'[k][key].id \in made + 1 .. made'
              /\ lines[k][key] # None =>
                   lines'[k][key] =
                     [id |-> lines[k][key].id, qty |-> Added(s)[key],
                      selected |-> lines[k][key].selected,
                      due |-> DueAfter(lines[k][key], OpOf(s).q, run[s].saw.left), by |-> 0]
         /\ \A a, b \in AddedKeys(s) :
              lines[k][a] = None /\ lines[k][b] = None /\ lines'[k][a].id = lines'[k][b].id => a = b
         /\ Touch(k)
<1>1. /\ Busy(s) /\ run[s].pc = "write" /\ OpOf(s).kind \in {"add", "bundle"}
  BY DEF WriteAdd
<1>2. k \in Carts
  BY <1>1 DEF CartFrame, FoundInv, SeenBy
<1>3. /\ OpOf(s).q \in Quantities
      /\ OpOf(s).kind = "add" => OpOf(s).id \in Loose
  BY <1>1, NamesGoods DEF CartFrame
<1> DEFINE New(c, K) == {key \in K : lines[c][key] = None}
           number(f) == IsInjective(f)
           Fs(S) == [S -> made + 1 .. made + Cardinality(S)]
           Id(S) == CHOOSE f \in Fs(S) : number(f)
           Rows(c, K) == [key \in Keys |->
             IF key \notin K THEN lines[c][key]
             ELSE IF key \in New(c, K) THEN Row(Id(New(c, K))[key], Added(s)[key],
                                             DueAfter(lines[c][key], OpOf(s).q, run[s].saw.left))
             ELSE [lines[c][key] EXCEPT !.qty = Added(s)[key], !.by = 0,
                     !.due = DueAfter(lines[c][key], OpOf(s).q, run[s].saw.left)]]
           keys == AddedKeys(s)
           new == New(k, keys)
           id == Id(new)
           table == Rows(k, keys)
<1>4. DOMAIN Added(s) = keys
  <2>1. CASE OpOf(s).kind = "bundle"
    <3>1. Added(s) = [key \in Group |-> Per[key[2]] * Ceiling(BundlesHeld(run[s].saw.rows), OpOf(s).q, run[s].saw.left)]
      BY <2>1 DEF Added
    <3> QED
      BY <2>1, <3>1 DEF AddedKeys
  <2>2. CASE OpOf(s).kind # "bundle"
    <3>1. Added(s) = [key \in {<<"loose", OpOf(s).id>>} |-> Ceiling(Held(run[s].saw.rows, key), OpOf(s).q, run[s].saw.left)]
      BY <2>2 DEF Added
    <3> QED
      BY <2>2, <3>1 DEF AddedKeys
  <2> QED
    BY <2>1, <2>2
<1>5. keys \subseteq Keys
  BY <1>1, <1>3, KeysAreFew DEF AddedKeys
<1>6. /\ lines' = [lines EXCEPT ![k] = table]
      /\ made' = made + Cardinality(new)
      /\ Touch(k)
  <2> DEFINE c == run[s].saw.cart  K == DOMAIN Added(s)
  <2>1. /\ lines' = [lines EXCEPT ![c] = Rows(c, K)]
        /\ made' = made + Cardinality(New(c, K))
        /\ Touch(c)
    BY DEF WriteAdd
  <2>2. c = k /\ K = keys
    BY <1>4
  <2> HIDE DEF Rows, New, c, K
  <2> QED
    BY <2>1, <2>2
<1>7. \A key \in Keys : lines[k][key] # None => IsRow(lines[k][key])
  BY <1>2 DEF CartFrame, LinesInv
<1>8. made \in Nat
  BY DEF CartFrame, LinesInv
<1>9. IsFiniteSet(new) /\ Cardinality(new) \in Nat
  <2>1. new \in SUBSET Keys
    BY <1>5
  <2> HIDE DEF new
  <2> QED
    BY <2>1, KeysAreFew
<1>10. id \in Fs(new) /\ IsInjective(id)
  <2>1. \E f \in Fs(new) : IsInjective(f)
    <3> HIDE DEF new
    <3> QED
      BY <1>8, <1>9, NumbersFor
  <2>2. \E f \in Fs(new) : number(f)
    BY <2>1
  <2> HIDE DEF Fs, number, new
  <2>3. id \in Fs(new) /\ number(id)
    BY <2>2
  <2> QED
    BY <2>3 DEF number
<1> HIDE DEF Id, number, Fs
<1>11. table = [key \in Keys |-> table[key]]
  OBVIOUS
<1>12. ASSUME NEW key \in Keys
       PROVE  table[key] =
         IF key \notin keys THEN lines[k][key]
         ELSE IF key \in new THEN Row(id[key], Added(s)[key],
                                        DueAfter(lines[k][key], OpOf(s).q, run[s].saw.left))
         ELSE [lines[k][key] EXCEPT !.qty = Added(s)[key], !.by = 0,
                     !.due = DueAfter(lines[k][key], OpOf(s).q, run[s].saw.left)]
  OBVIOUS
<1>13. \A key \in keys : key \in new <=> lines[k][key] = None
  OBVIOUS
<1> HIDE DEF table, Rows, id, new, New, keys
<1>14. made' \in Nat /\ made <= made'
  BY <1>6, <1>8, <1>9
<1>15. /\ lines' = [l \in Carts |-> [key \in Keys |-> lines'[l][key]]]
       /\ lines'[k] = table
       /\ \A l \in Carts : l # k => lines'[l] = lines[l]
  BY <1>2, <1>6, <1>11, CartRewritten DEF CartFrame
<1>16. \A key \in Keys \ keys : lines'[k][key] = lines[k][key]
  BY <1>12, <1>15
<1>17. \A key \in new : id[key] \in made + 1 .. made'
  BY <1>6, <1>10 DEF Fs
<1>18. \A a, b \in new : id[a] = id[b] => a = b
  BY <1>10 DEF IsInjective, Fs
<1>19. ASSUME NEW key \in keys, lines[k][key] = None
       PROVE  /\ key \in new
              /\ lines'[k][key] = Row(id[key], Added(s)[key],
                                    DueAfter(lines[k][key], OpOf(s).q, run[s].saw.left))
              /\ lines'[k][key].id = id[key]
  <2>1. key \in Keys /\ key \in new
    BY <1>5, <1>13, <1>19
  <2>2. lines'[k][key] = Row(id[key], Added(s)[key],
                                    DueAfter(lines[k][key], OpOf(s).q, run[s].saw.left))
    BY <1>12, <1>15, <2>1
  <2> QED
    BY <2>1, <2>2 DEF Row
<1>20. ASSUME NEW key \in keys, lines[k][key] # None
       PROVE  lines'[k][key] =
                     [id |-> lines[k][key].id, qty |-> Added(s)[key],
                      selected |-> lines[k][key].selected,
                      due |-> DueAfter(lines[k][key], OpOf(s).q, run[s].saw.left), by |-> 0]
  <2>1. key \in Keys /\ key \notin new
    BY <1>5, <1>13, <1>20
  <2>2. lines'[k][key] = [lines[k][key] EXCEPT !.qty = Added(s)[key], !.by = 0,
                     !.due = DueAfter(lines[k][key], OpOf(s).q, run[s].saw.left)]
    BY <1>12, <1>15, <2>1
  <2>3. IsRow(lines[k][key])
    BY <1>7, <1>20, <2>1
  <2>4. \A a, b, c : [lines[k][key] EXCEPT !.qty = a, !.by = c, !.due = b] =
        [id |-> lines[k][key].id, qty |-> a, selected |-> lines[k][key].selected, due |-> b, by |-> c]
    BY <2>3, RowAddedTo
  <2> QED
    BY <2>2, <2>4
<1>21. \A key \in keys :
         lines[k][key] = None =>
           /\ lines'[k][key] = Row(lines'[k][key].id, Added(s)[key],
                                        DueAfter(lines[k][key], OpOf(s).q, run[s].saw.left))
           /\ lines'[k][key].id \in made + 1 .. made'
  BY <1>17, <1>19
<1>22. \A a, b \in keys :
         lines[k][a] = None /\ lines[k][b] = None /\ lines'[k][a].id = lines'[k][b].id => a = b
  BY <1>18, <1>19
<1> QED
  BY <1>1, <1>2, <1>3, <1>5, <1>6, <1>14, <1>15, <1>16, <1>20, <1>21, <1>22 DEF keys

-----------------------------------------------------------------------------
(* Every step keeps the frame.                                             *)

\* What a tab sees is the most recent cart, or none.
LEMMA ViewedCart ==
  ASSUME recent \in Seq(Carts)
  PROVE  \/ recent = <<>> /\ Viewed = None
         \/ recent # <<>> /\ Viewed = recent[1] /\ Viewed \in Carts /\ Viewed # None
<1>1. CASE recent = <<>>
  BY <1>1 DEF Viewed
<1>2. CASE recent # <<>>
  <2>1. recent[1] \in Carts
    BY <1>2
  <2>2. \A k \in Carts : k \in Nat
    BY SlotFacts DEF Carts
  <2>3. recent[1] # None
    BY <2>1, <2>2, CartAssumption
  <2> QED
    BY <1>2, <2>1, <2>3 DEF Viewed
<1> QED
  BY <1>1, <1>2

\* Only a button is ever without a cart.
LEMMA CartlessSlot ==
  ASSUME SentInv, FoundInv, NEW s \in Slots, Busy(s), run[s].pc = "cartless"
  PROVE  s[2] = "button" /\ s[1] \in Cartless
<1>1. OpOf(s).kind \in {"add", "bundle"}
  BY DEF FoundInv, SeenBy
<1>2. OpOf(s) \in IF s[2] = "button" THEN ButtonOps ELSE PageOps
  BY DEF SentInv, OpOf
<1>3. s[2] = "button"
  BY <1>1, <1>2, KindsOf
<1>4. s = <<s[1], "button">> /\ s[1] \in Tabs
  BY <1>3, SlotFacts
<1> QED
  BY <1>3, <1>4 DEF Cartless

\* There are no more tabs without a cart than tabs.
LEMMA CartlessFew ==
  /\ \A S \in SUBSET Tabs : IsFiniteSet(S) /\ Cardinality(S) \in Nat /\ Cardinality(S) <= Cardinality(Tabs)
  /\ Cartless \in SUBSET Tabs
<1>1. Cartless \in SUBSET Tabs
  BY DEF Cartless
<1>2. \A S \in SUBSET Tabs : IsFiniteSet(S) /\ Cardinality(S) \in Nat /\ Cardinality(S) <= Cardinality(Tabs)
  BY CartAssumption, FS_Subset, FS_CardinalityType
<1> QED
  BY <1>1, <1>2

\* There is always a number left for one more cart.
LEMMA RoomForCart ==
  ASSUME CartFrame, NEW s \in Slots, Busy(s), run[s].pc = "cartless"
  PROVE  /\ Len(recent) + 1 \in Carts
         /\ \A S \in SUBSET Cartless : s[1] \notin S =>
              Cardinality(S) + 1 <= Cardinality(Cartless)
<1>1. s[1] \in Cartless
  BY CartlessSlot DEF CartFrame
<1>2. IsFiniteSet(Cartless) /\ Cardinality(Cartless) \in Nat
  BY CartlessFew
<1>3. ASSUME NEW S \in SUBSET Cartless, s[1] \notin S
      PROVE  Cardinality(S) + 1 <= Cardinality(Cartless)
  <2>1. IsFiniteSet(S)
    BY <1>2, FS_Subset
  <2>2. IsFiniteSet(S \union {s[1]}) /\ Cardinality(S \union {s[1]}) = Cardinality(S) + 1
    BY <1>3, <2>1, FS_AddElement
  <2>3. S \union {s[1]} \in SUBSET Cartless
    BY <1>1, <1>3
  <2>4. Cardinality(S \union {s[1]}) <= Cardinality(Cartless)
    BY <1>2, <2>3, FS_Subset
  <2> QED
    BY <2>2, <2>4
<1>4. Cardinality({}) = 0
  BY FS_EmptySet
<1>5. 0 + 1 <= Cardinality(Cartless)
  BY <1>3, <1>4
<1>6. Len(recent) \in Nat /\ Len(recent) + Cardinality(Cartless) <= Cardinality(Tabs)
  BY DEF CartFrame, CartsInv
<1>7. Len(recent) + 1 \in 1..Cardinality(Tabs)
  BY <1>2, <1>5, <1>6, SlotFacts
<1> QED
  BY <1>3, <1>7 DEF Carts

\* What the request itself has found, after each step that goes on.
LEMMA FoundStep ==
  ASSUME CartFrame, NEW s \in Slots, Handle(s)
  PROVE  SeenBy(s)'
<1>1. CASE run'[s] = Idle
  BY <1>1 DEF SeenBy, Busy, Idle
<1>2. ASSUME NEW pc, NEW saw, Proceeds(s, pc, saw),
             pc \in {"cartless", "cart"}, OpOf(s).kind \in {"add", "bundle"},
             pc = "cart" => saw.cart \in Carts
      PROVE  SeenBy(s)'
  <2>1. run'[s] = [pc |-> pc, op |-> run[s].op, saw |-> saw]
    BY <1>2, ProceedsTo DEF CartFrame
  <2> QED
    BY <1>2, <2>1 DEF SeenBy, Busy, OpOf, Carts
<1>3. ASSUME NEW pc, NEW saw, Proceeds(s, pc, saw),
             pc \in {"group", "write"}, saw.cart \in Carts,
             OpOf(s).kind \in {"quantity", "select", "remove"} => saw.key \in Keys,
             pc = "write" /\ OpOf(s).kind = "quantity" /\ saw.key \in Group =>
               \A key \in Group : saw.rows[key] # None => IsRow(saw.rows[key])'
      PROVE  SeenBy(s)'
  <2>1. run'[s] = [pc |-> pc, op |-> run[s].op, saw |-> saw]
    BY <1>3, ProceedsTo DEF CartFrame
  <2> QED
    BY <1>3, <2>1 DEF SeenBy, Busy, OpOf, Carts, Keys, Group
<1>4. recent \in Seq(Carts)
  BY DEF CartFrame, CartsInv
<1>5. CASE CheckAdd(s)
  <2>1. OpOf(s).kind \in {"add", "bundle"}
    BY <1>5 DEF CheckAdd, Serves, OpOf
  <2> DEFINE pc == IF Viewed = None THEN "cartless" ELSE "cart"
             saw == [cart |-> Viewed, left |-> IF OpOf(s).kind = "bundle" THEN BundlesLeft
                                         ELSE shelf[OpOf(s).id]]
  <2>2. Proceeds(s, pc, saw)
    BY <1>5 DEF CheckAdd
  <2>3. pc \in {"cartless", "cart"} /\ (pc = "cart" => saw.cart \in Carts)
    BY <1>4, ViewedCart
  <2> HIDE DEF pc, saw
  <2> QED
    BY <1>2, <2>1, <2>2, <2>3
<1>6. CASE CreateCart(s)
  <2>1. Busy(s) /\ run[s].pc = "cartless"
    BY <1>6 DEF CreateCart
  <2>2. OpOf(s).kind \in {"add", "bundle"}
    BY <2>1 DEF CartFrame, FoundInv, SeenBy
  <2> DEFINE saw == [cart |-> Len(recent) + 1, left |-> run[s].saw.left]
  <2>3. Proceeds(s, "cart", saw)
    BY <1>6 DEF CreateCart
  <2>4. saw.cart \in Carts
    BY <2>1, RoomForCart
  <2> HIDE DEF saw
  <2> QED
    BY <1>2, <2>2, <2>3, <2>4
<1>7. CASE ReadLines(s)
  <2>1. Busy(s) /\ run[s].pc = "cart"
    BY <1>7 DEF ReadLines
  <2>2. OpOf(s).kind \in {"add", "bundle"} /\ run[s].saw.cart \in Carts
    BY <2>1 DEF CartFrame, FoundInv, SeenBy
  <2> DEFINE saw == [cart |-> run[s].saw.cart, left |-> run[s].saw.left,
                     rows |-> lines[run[s].saw.cart]]
  <2>3. Proceeds(s, "write", saw)
    BY <1>7 DEF ReadLines
  <2>4. saw.cart \in Carts
    BY <2>2
  <2> HIDE DEF saw
  <2> QED
    BY <1>3, <2>2, <2>3, <2>4
<1>8. CASE FindLine(s)
  <2>1. PICK at \in Located(OpOf(s).id) :
          Proceeds(s, IF at[2] \in Group /\ OpOf(s).kind = "quantity" THEN "group" ELSE "write",
                   [cart |-> at[1], key |-> at[2]])
    BY <1>8 DEF FindLine
  <2>2. at[1] \in Carts /\ at[2] \in Keys
    BY DEF Located
  <2> DEFINE pc == IF at[2] \in Group /\ OpOf(s).kind = "quantity" THEN "group" ELSE "write"
             saw == [cart |-> at[1], key |-> at[2]]
  <2>3. /\ pc \in {"group", "write"} /\ saw.cart \in Carts /\ saw.key \in Keys
        /\ ~(pc = "write" /\ OpOf(s).kind = "quantity" /\ saw.key \in Group)
    BY <2>2
  <2>4. Proceeds(s, pc, saw)
    BY <2>1
  <2> HIDE DEF pc, saw
  <2> QED
    BY <1>3, <2>3, <2>4
<1>9. CASE ReadGroup(s)
  <2>1. Busy(s) /\ run[s].pc = "group" /\ OpOf(s).kind = "quantity" /\ made' = made
    BY <1>9 DEF ReadGroup, Serves, OpOf, rowVars
  <2>2. run[s].saw.cart \in Carts /\ run[s].saw.key \in Keys
    BY <2>1 DEF CartFrame, FoundInv, SeenBy
  <2> DEFINE saw == [cart |-> run[s].saw.cart, key |-> run[s].saw.key,
                     rows |-> lines[run[s].saw.cart]]
  <2>3. Proceeds(s, "write", saw)
    BY <1>9 DEF ReadGroup
  <2>4. \A key \in Group : lines[run[s].saw.cart][key] # None => IsRow(lines[run[s].saw.cart][key])
    BY <2>2, KeysAreFew DEF CartFrame, LinesInv
  <2>5. saw.cart \in Carts /\ saw.key \in Keys /\ saw.rows = lines[run[s].saw.cart]
    BY <2>2
  <2>6. \A key \in Group : saw.rows[key] # None => IsRow(saw.rows[key])
    BY <2>4, <2>5
  <2> HIDE DEF saw
  <2>7. \A row : IsRow(row) => IsRow(row)'
    BY <2>1 DEF IsRow
  <2> QED
    BY <1>3, <2>3, <2>5, <2>6, <2>7
<1>10. CASE FindCart(s)
  <2>1. /\ Viewed # None /\ OpOf(s).kind \in {"all", "clear", "voucher"}
        /\ Proceeds(s, "write", [cart |-> Viewed,
                           ids |-> {IdOf(lines[Viewed][key]) : key \in Counted(Viewed)}])
    BY <1>10 DEF FindCart, Serves, OpOf
  <2> DEFINE saw == [cart |-> Viewed, ids |-> {IdOf(lines[Viewed][key]) : key \in Counted(Viewed)}]
  <2>2. saw.cart \in Carts
    BY <1>4, <2>1, ViewedCart
  <2> HIDE DEF saw
  <2> QED
    BY <1>3, <2>1, <2>2 DEF saw
<1>11. WriteAdd(s) \/ WriteQuantity(s) \/ WriteSelection(s) \/ RemoveLine(s) \/ SelectAll(s)
         \/ RemoveSelected(s) \/ SetVoucher(s) \/ Fails(s) => run'[s] = Idle
  <2>1. \A done : Answer(s, done) => run'[s] = Idle
    BY AnsweredWith DEF CartFrame
  <2> QED
    BY <2>1 DEF WriteAdd, WriteQuantity, WriteSelection, RemoveLine, SelectAll, RemoveSelected,
                SetVoucher, Fails
<1> QED
  BY <1>1, <1>5, <1>6, <1>7, <1>8, <1>9, <1>10, <1>11 DEF Handle

\* What a handled request does to the rows.
LEMMA LinesStep ==
  ASSUME CartFrame, NEW s \in Slots, Handle(s)
  PROVE  LinesInv' /\ made' \in Nat /\ made <= made'
<1>1. LinesInv /\ made \in Nat
  BY DEF CartFrame, LinesInv
<1>2. \A k \in Carts : \A key \in Keys : lines[k][key] # None =>
        IsRow(lines[k][key]) /\ lines[k][key].id \in 1..made
  BY <1>1 DEF LinesInv, IsRow
<1>3. CASE UNCHANGED <<lines, made>>
  BY <1>1, <1>3 DEF LinesInv, IsRow
<1>4. ASSUME made' = made, LinesInv'
      PROVE  LinesInv' /\ made' \in Nat /\ made <= made'
  BY <1>1, <1>4
<1>5. CASE WriteAdd(s)
  <2> DEFINE k == run[s].saw.cart  keys == AddedKeys(s)
  <2>1. /\ k \in Carts /\ made' \in Nat /\ made <= made' /\ keys \subseteq Keys
        /\ lines' = [l \in Carts |-> [key \in Keys |-> lines'[l][key]]]
        /\ \A l \in Carts : l # k => lines'[l] = lines[l]
        /\ \A key \in Keys \ keys : lines'[k][key] = lines[k][key]
        /\ \A key \in keys :
             /\ lines[k][key] = None =>
                  /\ lines'[k][key] = Row(lines'[k][key].id, Added(s)[key],
                                        DueAfter(lines[k][key], OpOf(s).q, run[s].saw.left))
                  /\ lines'[k][key].id \in made + 1 .. made'
             /\ lines[k][key] # None =>
                  lines'[k][key] =
                    [id |-> lines[k][key].id, qty |-> Added(s)[key],
                     selected |-> lines[k][key].selected,
                     due |-> DueAfter(lines[k][key], OpOf(s).q, run[s].saw.left), by |-> 0]
        /\ \A a, b \in keys :
             lines[k][a] = None /\ lines[k][b] = None /\ lines'[k][a].id = lines'[k][b].id => a = b
    BY <1>5, AddWritten
  <2> HIDE DEF k, keys
  <2>2. ASSUME NEW l \in Carts, NEW key \in Keys, lines'[l][key] # None
        PROVE  IF l = k /\ key \in keys /\ lines[k][key] = None
               THEN lines'[l][key].id \in made + 1 .. made'
               ELSE lines[l][key] # None /\ lines'[l][key].id = lines[l][key].id
    <3>1. CASE l # k \/ key \notin keys
      <4>1. lines'[l][key] = lines[l][key]
        BY <2>1, <3>1
      <4> QED
        BY <2>2, <3>1, <4>1
    <3>2. CASE l = k /\ key \in keys /\ lines[k][key] = None
      BY <2>1, <3>2
    <3>3. CASE l = k /\ key \in keys /\ lines[k][key] # None
      <4>1. lines'[k][key] =
                    [id |-> lines[k][key].id, qty |-> Added(s)[key],
                     selected |-> lines[k][key].selected,
                     due |-> DueAfter(lines[k][key], OpOf(s).q, run[s].saw.left), by |-> 0]
        BY <2>1, <3>3
      <4> QED
        BY <3>3, <4>1
    <3> QED
      BY <3>1, <3>2, <3>3
  <2>3. ASSUME NEW l \in Carts, NEW key \in Keys, lines'[l][key] # None
        PROVE  (lines[l][key] # None => IsRow(lines[l][key]))'
    <3>1. lines'[l][key].id \in 1..made'
      <4>1. CASE l = k /\ key \in keys /\ lines[k][key] = None
        BY <1>1, <2>1, <2>2, <2>3, <4>1
      <4>2. CASE ~(l = k /\ key \in keys /\ lines[k][key] = None)
        <5>1. lines'[l][key].id \in 1..made
          BY <1>2, <2>2, <2>3, <4>2
        <5> QED
          BY <1>1, <2>1, <5>1
      <4> QED
        BY <4>1, <4>2
    <3>2. \/ lines'[l][key] = lines[l][key] /\ lines[l][key] # None
          \/ l = k /\ lines'[l][key] = Row(lines'[l][key].id, Added(s)[key],
                                        DueAfter(lines[k][key], OpOf(s).q, run[s].saw.left))
          \/ l = k /\ lines'[l][key] =
                    [id |-> lines[k][key].id, qty |-> Added(s)[key],
                     selected |-> lines[k][key].selected,
                     due |-> DueAfter(lines[k][key], OpOf(s).q, run[s].saw.left), by |-> 0]
      BY <2>1, <2>3
    <3>3. lines'[l][key] = [id |-> lines'[l][key].id, qty |-> lines'[l][key].qty,
                            selected |-> lines'[l][key].selected,
                            due |-> lines'[l][key].due, by |-> lines'[l][key].by]
      <4>1. CASE lines'[l][key] = lines[l][key] /\ lines[l][key] # None
        BY <1>2, <4>1 DEF IsRow
      <4>2. CASE lines'[l][key] = Row(lines'[l][key].id, Added(s)[key],
                                        DueAfter(lines[k][key], OpOf(s).q, run[s].saw.left))
        BY <4>2 DEF Row
      <4> QED
        BY <3>2, <4>1, <4>2
    <3> QED
      BY <3>1, <3>3 DEF IsRow
  <2>4. ASSUME NEW l \in Carts, NEW m \in Carts, NEW a \in Keys, NEW b \in Keys,
               lines'[l][a] # None, lines'[m][b] # None, lines'[l][a].id = lines'[m][b].id
        PROVE  l = m /\ a = b
    <3> DEFINE Fresh(c, key) == c = k /\ key \in keys /\ lines[k][key] = None
    <3>1. CASE Fresh(l, a) /\ Fresh(m, b)
      BY <2>1, <2>4, <3>1
    <3>2. CASE ~Fresh(l, a) /\ ~Fresh(m, b)
      <4>1. lines[l][a] # None /\ lines[m][b] # None /\ lines[l][a].id = lines[m][b].id
        BY <2>2, <2>4, <3>2
      <4> QED
        BY <1>1, <4>1 DEF LinesInv
    <3>3. CASE Fresh(l, a) /\ ~Fresh(m, b)
      <4>1. lines'[l][a].id \in made + 1 .. made' /\ lines[m][b] # None
              /\ lines'[m][b].id = lines[m][b].id
        BY <2>2, <2>4, <3>3
      <4>2. lines[m][b].id \in 1..made
        BY <1>2, <4>1
      <4> QED
        BY <1>1, <2>1, <2>4, <4>1, <4>2
    <3>4. CASE ~Fresh(l, a) /\ Fresh(m, b)
      <4>1. lines'[m][b].id \in made + 1 .. made' /\ lines[l][a] # None
              /\ lines'[l][a].id = lines[l][a].id
        BY <2>2, <2>4, <3>4
      <4>2. lines[l][a].id \in 1..made
        BY <1>2, <4>1
      <4> QED
        BY <1>1, <2>1, <2>4, <4>1, <4>2
    <3> HIDE DEF Fresh
    <3> QED
      BY <3>1, <3>2, <3>3, <3>4
  <2>5. \A l, m \in Carts : \A a, b \in Keys :
          lines'[l][a] # None /\ lines'[m][b] # None /\ lines'[l][a].id = lines'[m][b].id
            => l = m /\ a = b
    BY <2>4
  <2>6. ASSUME NEW l \in Carts, NEW key \in Keys
        PROVE  (lines[l][key] # None => IsRow(lines[l][key]))'
    <3>1. CASE lines'[l][key] # None
      BY <2>3, <3>1
    <3>2. CASE lines'[l][key] = None
      BY <3>2
    <3> QED
      BY <3>1, <3>2
  <2>7. LinesInv'
    BY <2>1, <2>5, <2>6 DEF LinesInv
  <2> QED
    BY <2>1, <2>7
<1>6. CASE WriteQuantity(s)
  <2> DEFINE k == CartOf(s)  q == OpOf(s).q
  <2>1. /\ k \in Carts /\ QuantityKeys(s) \subseteq RowsOf(k)
        /\ lines' = [l \in Carts |-> [key \in Keys |-> lines'[l][key]]]
        /\ \A l \in Carts : l # k => lines'[l] = lines[l]
        /\ \A key \in Keys : lines'[k][key] =
             IF key \notin QuantityKeys(s) THEN lines[k][key]
             ELSE [id |-> lines[k][key].id, qty |-> IF key \in Group THEN Per[key[2]] * q ELSE q,
                   selected |-> lines[k][key].selected, due |-> q, by |-> run[s].op.n]
    BY <1>6, QuantityWritten
  <2> HIDE DEF k, q
  <2>2. made' = made
    BY <1>6 DEF WriteQuantity
  <2>3. ASSUME NEW l \in Carts, NEW key \in Keys, lines'[l][key] # None
        PROVE  lines[l][key] # None /\ IsRow(lines'[l][key]) /\ lines'[l][key].id = lines[l][key].id
    <3>1. CASE l = k /\ key \in QuantityKeys(s)
      <4>1. lines[k][key] # None
        BY <2>1, <3>1 DEF RowsOf
      <4>2. lines[k][key].id \in 1..made
        BY <1>2, <2>1, <4>1
      <4> DEFINE a == IF key \in Group THEN Per[key[2]] * q ELSE q
                 i == lines[k][key].id  t == lines[k][key].selected  y == run[s].op.n
      <4>3. lines'[l][key] = [id |-> i, qty |-> a, selected |-> t, due |-> q, by |-> y]
        BY <2>1, <3>1
      <4>4. i \in 1..made
        BY <4>2
      <4> HIDE DEF a, i, t, y
      <4>5. IsRow(lines'[l][key]) /\ lines'[l][key].id = i
        BY <4>3, <4>4 DEF IsRow
      <4> QED
        BY <3>1, <4>1, <4>5 DEF i
    <3>2. CASE ~(l = k /\ key \in QuantityKeys(s))
      <4>1. lines'[l][key] = lines[l][key]
        BY <2>1, <3>2
      <4> QED
        BY <1>2, <2>3, <4>1
    <3> QED
      BY <3>1, <3>2
  <2>4. LinesInv'
    BY <1>1, <2>1, <2>2, <2>3, RowsRemain
  <2> QED
    BY <1>1, <2>2, <2>4
<1>7. ASSUME NEW k \in Carts, made' = made, OnlyTicks(k)
      PROVE  LinesInv' /\ made' \in Nat /\ made <= made'
  <2>1. ASSUME NEW l \in Carts, NEW key \in Keys, lines'[l][key] # None
        PROVE  lines[l][key] # None /\ IsRow(lines'[l][key]) /\ lines'[l][key].id = lines[l][key].id
    <3>1. CASE l = k
      <4>1. PICK tick : lines'[k][key] =
         IF lines[k][key] = None THEN None
         ELSE [id |-> lines[k][key].id, qty |-> lines[k][key].qty, selected |-> tick,
               due |-> lines[k][key].due, by |-> lines[k][key].by]
        BY <1>7 DEF OnlyTicks
      <4>2. lines[k][key] # None
        BY <2>1, <3>1, <4>1
      <4> DEFINE a == lines[k][key].qty  i == lines[k][key].id
                 d == lines[k][key].due  y == lines[k][key].by
      <4>3. lines'[l][key] = [id |-> i, qty |-> a, selected |-> tick, due |-> d, by |-> y]
        BY <3>1, <4>1, <4>2
      <4>4. i \in 1..made
        BY <1>2, <4>2
      <4> HIDE DEF a, i, d, y
      <4>5. IsRow(lines'[l][key]) /\ lines'[l][key].id = i
        BY <4>3, <4>4 DEF IsRow
      <4> QED
        BY <3>1, <4>2, <4>5 DEF i
    <3>2. CASE l # k
      <4>1. lines'[l][key] = lines[l][key]
        BY <1>7, <3>2 DEF OnlyTicks
      <4> QED
        BY <1>2, <2>1, <4>1
    <3> QED
      BY <3>1, <3>2
  <2>2. lines' = [l \in Carts |-> [key \in Keys |-> lines'[l][key]]]
    BY <1>7 DEF OnlyTicks
  <2>3. LinesInv'
    BY <1>1, <1>7, <2>1, <2>2, RowsRemain
  <2> QED
    BY <1>1, <1>7, <2>3
<1>8. CASE WriteSelection(s)
  <2>1. made' = made
    BY <1>8 DEF WriteSelection
  <2> QED
    BY <1>7, <1>8, <2>1, SelectionTicks
<1>9. CASE SelectAll(s)
  <2>1. made' = made
    BY <1>9 DEF SelectAll
  <2> QED
    BY <1>7, <1>9, <2>1, AllTicks
<1>10. ASSUME NEW k \in Carts, NEW keys, DeleteRows(k, keys), made' = made
       PROVE  LinesInv' /\ made' \in Nat /\ made <= made'
  <2>1. /\ lines' = [l \in Carts |-> [key \in Keys |-> lines'[l][key]]]
        /\ \A l \in Carts : l # k => lines'[l] = lines[l]
        /\ \A key \in Keys : lines'[k][key] = IF key \in keys THEN None ELSE lines[k][key]
    BY <1>1, <1>10, RowsDeleted
  <2>2. \A l \in Carts : \A key \in Keys : lines'[l][key] # None => lines'[l][key] = lines[l][key]
    BY <2>1
  <2>3. LinesInv'
    BY <1>1, <1>2, <1>10, <2>1, <2>2, RowsRemain
  <2> QED
    BY <1>1, <1>10, <2>3
<1>11. CASE RemoveLine(s)
  <2>1. made' = made
    BY <1>11 DEF RemoveLine
  <2> QED
    BY <1>10, <1>11, <2>1, LineRemoved
<1>12. CASE RemoveSelected(s)
  <2>1. made' = made
    BY <1>12 DEF RemoveSelected
  <2> QED
    BY <1>3, <1>10, <1>12, <2>1, SelectedRemoved
<1>13. CheckAdd(s) \/ CreateCart(s) \/ ReadLines(s) \/ FindLine(s) \/ ReadGroup(s) \/ FindCart(s)
         \/ SetVoucher(s) \/ Fails(s) => UNCHANGED <<lines, made>>
  BY DEF CheckAdd, CreateCart, ReadLines, FindLine, ReadGroup, FindCart, SetVoucher, Fails, rowVars
<1> QED
  BY <1>3, <1>5, <1>6, <1>8, <1>9, <1>11, <1>12, <1>13 DEF Handle

\* What a handled request does to the carts.
LEMMA CartsStep ==
  ASSUME CartFrame, NEW s \in Slots, Handle(s)
  PROVE  CartsInv'
<1>1. recent \in Seq(Carts) /\ Len(recent) \in Nat
      /\ Len(recent) + Cardinality(Cartless) <= Cardinality(Tabs)
  BY DEF CartFrame, CartsInv
<1>2. /\ Cartless \in SUBSET Tabs /\ Cartless' \in SUBSET Tabs
      /\ Cardinality(Cartless) \in Nat /\ Cardinality(Cartless') \in Nat
      /\ Cardinality(Cartless') <= Cardinality(Tabs) /\ Cardinality(Tabs) \in Nat
  <2>1. Cartless' \in SUBSET Tabs
    BY DEF Cartless
  <2> QED
    BY <2>1, CartlessFew, SlotFacts
<1>3. ASSUME NEW t \in Cartless', <<t, "button">> # s
      PROVE  t \in Cartless
  <2>1. t \in Tabs /\ run'[<<t, "button">>].pc = "cartless" /\ <<t, "button">> \in Slots
    BY SlotFacts DEF Cartless
  <2>2. run' = [o \in Slots |-> IF o = s THEN run'[s] ELSE run[o]]
    BY HandleMoves DEF CartFrame
  <2>3. run'[<<t, "button">>] = run[<<t, "button">>]
    BY <1>3, <2>1, <2>2
  <2> QED
    BY <2>1, <2>3 DEF Cartless
<1>4. ASSUME run'[s].pc # "cartless"
      PROVE  Cartless' \in SUBSET Cartless
  <2>1. \A t \in Cartless' : <<t, "button">> # s
    BY <1>4 DEF Cartless
  <2> QED
    BY <1>3, <2>1
<1>5. \A S \in SUBSET Cartless : Cardinality(S) <= Cardinality(Cartless) /\ Cardinality(S) \in Nat
  <2>1. IsFiniteSet(Cartless)
    BY CartlessFew
  <2> QED
    BY <2>1, FS_Subset, FS_CardinalityType
<1>6. ASSUME run'[s].pc # "cartless", recent' \in Seq(Carts), Len(recent') = Len(recent)
      PROVE  CartsInv'
  <2>1. Cardinality(Cartless') <= Cardinality(Cartless)
    BY <1>4, <1>5, <1>6
  <2>2. Len(recent') + Cardinality(Cartless') <= Cardinality(Tabs)
    BY <1>1, <1>2, <1>6, <2>1
  <2> QED
    BY <1>6, <2>2 DEF CartsInv, Carts
<1>7. ASSUME run'[s].pc # "cartless", recent' = recent
      PROVE  CartsInv'
  BY <1>1, <1>6, <1>7
<1>8. ASSUME run'[s].pc # "cartless", NEW k, Touch(k)
      PROVE  CartsInv'
  BY <1>1, <1>6, <1>8, Touched
<1>9. \A done : Answer(s, done) => run'[s].pc # "cartless"
  BY AnsweredWith DEF CartFrame, Idle
<1>10. ASSUME NEW pc, NEW saw, Proceeds(s, pc, saw)
       PROVE  run'[s].pc = pc
  BY <1>10, ProceedsTo DEF CartFrame
<1>11. CASE CheckAdd(s)
  <2>1. recent' = recent /\ run'[s].pc = IF Viewed = None THEN "cartless" ELSE "cart"
    BY <1>10, <1>11 DEF CheckAdd, rowVars
  <2>2. CASE Viewed # None
    BY <1>7, <2>1, <2>2
  <2>3. CASE Viewed = None
    <3>1. recent = <<>>
      BY <1>1, <2>3, ViewedCart
    <3>2. Len(recent') = 0
      BY <2>1, <3>1
    <3>3. Len(recent') + Cardinality(Cartless') <= Cardinality(Tabs)
      BY <1>2, <3>2
    <3> QED
      BY <1>1, <2>1, <3>3 DEF CartsInv, Carts
  <2> QED
    BY <2>2, <2>3
<1>12. CASE CreateCart(s)
  <2>1. Busy(s) /\ run[s].pc = "cartless" /\ recent' = <<Len(recent) + 1>> \o recent
    BY <1>12 DEF CreateCart
  <2>2. run'[s].pc = "cart"
    BY <1>10, <1>12 DEF CreateCart
  <2>3. s = <<s[1], "button">>
    <3>1. s = <<s[1], s[2]>>
      BY SlotFacts
    <3> QED
      BY <2>1, <3>1, CartlessSlot DEF CartFrame
  <2>4. Cartless' \in SUBSET Cartless /\ s[1] \notin Cartless'
    <3>1. Cartless' \in SUBSET Cartless
      BY <1>4, <2>2
    <3>2. s[1] \notin Cartless'
      BY <2>2, <2>3 DEF Cartless
    <3> QED
      BY <3>1, <3>2
  <2>5. Len(recent) + 1 \in Carts /\ Cardinality(Cartless') + 1 <= Cardinality(Cartless)
    BY <2>1, <2>4, RoomForCart
  <2>6. <<Len(recent) + 1>> \in Seq(Carts) /\ Len(<<Len(recent) + 1>>) = 1
    BY <2>5
  <2>7. recent' \in Seq(Carts) /\ Len(recent') = Len(recent) + 1
    BY <1>1, <2>1, <2>6
  <2>8. Len(recent') + Cardinality(Cartless') <= Cardinality(Tabs)
    BY <1>1, <1>2, <2>5, <2>7
  <2> QED
    BY <2>7, <2>8 DEF CartsInv, Carts
<1>13. CASE ReadLines(s)
  BY <1>7, <1>10, <1>13 DEF ReadLines, rowVars
<1>14. CASE FindLine(s)
  <2>1. PICK at \in Located(OpOf(s).id) :
          Proceeds(s, IF at[2] \in Group /\ OpOf(s).kind = "quantity" THEN "group" ELSE "write",
                   [cart |-> at[1], key |-> at[2]])
    BY <1>14 DEF FindLine
  <2>2. run'[s].pc = IF at[2] \in Group /\ OpOf(s).kind = "quantity" THEN "group" ELSE "write"
    BY <1>10, <2>1
  <2>3. recent' = recent
    BY <1>14 DEF FindLine, rowVars
  <2> QED
    BY <1>7, <2>2, <2>3
<1>15. CASE ReadGroup(s)
  BY <1>7, <1>10, <1>15 DEF ReadGroup, rowVars
<1>16. CASE FindCart(s)
  <2>1. Proceeds(s, "write", [cart |-> Viewed,
                           ids |-> {IdOf(lines[Viewed][key]) : key \in Counted(Viewed)}])
    BY <1>16 DEF FindCart
  <2>2. run'[s].pc = "write"
    <3> DEFINE saw == [cart |-> Viewed, ids |-> {IdOf(lines[Viewed][key]) : key \in Counted(Viewed)}]
    <3>1. Proceeds(s, "write", saw)
      BY <2>1
    <3> HIDE DEF saw
    <3> QED
      BY <1>10, <3>1
  <2>3. recent' = recent
    BY <1>16 DEF FindCart, rowVars
  <2> QED
    BY <1>7, <2>2, <2>3
<1>17. CASE Fails(s)
  BY <1>7, <1>9, <1>17 DEF Fails, rowVars
<1>18. CASE WriteAdd(s)
  <2>1. Touch(run[s].saw.cart) /\ run'[s].pc # "cartless"
    BY <1>9, <1>18, AddWritten DEF WriteAdd
  <2> QED
    BY <1>8, <2>1
<1>19. CASE WriteQuantity(s)
  <2>1. Touch(CartOf(s)) /\ run'[s].pc # "cartless"
    BY <1>9, <1>19, QuantityWritten DEF WriteQuantity
  <2> QED
    BY <1>8, <2>1
<1>20. CASE WriteSelection(s)
  <2>1. Touch(run[s].saw.cart) /\ run'[s].pc # "cartless"
    BY <1>9, <1>20, SelectionWritten DEF WriteSelection
  <2> QED
    BY <1>8, <2>1
<1>21. CASE SelectAll(s)
  <2>1. Touch(run[s].saw.cart) /\ run'[s].pc # "cartless"
    BY <1>9, <1>21, AllSelected DEF SelectAll
  <2> QED
    BY <1>8, <2>1
<1>22. CASE RemoveLine(s)
  <2>1. Touch(run[s].saw.cart) /\ run'[s].pc # "cartless"
    BY <1>9, <1>22 DEF RemoveLine, DeleteRows
  <2> QED
    BY <1>8, <2>1
<1>23. CASE RemoveSelected(s)
  <2>1. (recent' = recent \/ Touch(run[s].saw.cart)) /\ run'[s].pc # "cartless"
    BY <1>9, <1>23 DEF RemoveSelected, DeleteRows
  <2> QED
    BY <1>7, <1>8, <2>1
<1>24. CASE SetVoucher(s)
  <2>1. Touch(run[s].saw.cart) /\ run'[s].pc # "cartless"
    BY <1>9, <1>24 DEF SetVoucher
  <2> QED
    BY <1>8, <2>1
<1> QED
  BY <1>11, <1>12, <1>13, <1>14, <1>15, <1>16, <1>17, <1>18, <1>19, <1>20, <1>21, <1>22, <1>23,
     <1>24 DEF Handle

\* What the server does with a request keeps the requests well formed.
LEMMA SentStep ==
  ASSUME CartFrame, NEW s \in Slots, Handle(s)
  PROVE  SentInv'
<1>1. /\ Busy(s) /\ UNCHANGED <<queue, clicks>>
      /\ run' = [o \in Slots |-> IF o = s THEN run'[s] ELSE run[o]]
      /\ \/ run'[s] = Idle
         \/ run'[s] = [pc |-> run'[s].pc, op |-> run[s].op, saw |-> run'[s].saw]
  BY HandleMoves DEF CartFrame, outside
<1>2. SentInv
  BY DEF CartFrame
<1>3. ASSUME NEW o \in Slots
      PROVE  /\ run'[o] = [pc |-> run'[o].pc, op |-> run'[o].op, saw |-> run'[o].saw]
             /\ Busy(o)' => Busy(o) /\ run'[o].op = run[o].op
  <2>1. CASE o # s
    <3>1. run'[o] = run[o]
      BY <1>1, <2>1
    <3>2. run[o] = [pc |-> run[o].pc, op |-> run[o].op, saw |-> run[o].saw]
      BY <1>2 DEF SentInv
    <3> QED
      BY <3>1, <3>2 DEF Busy
  <2>2. CASE o = s /\ run'[s] = Idle
    BY <2>2 DEF Busy, Idle
  <2>3. CASE o = s /\ run'[s] = [pc |-> run'[s].pc, op |-> run[s].op, saw |-> run'[s].saw]
    <3>1. run'[s].op = run[s].op
      BY <2>3
    <3> QED
      BY <1>1, <2>3, <3>1 DEF Busy
  <2> QED
    BY <1>1, <2>1, <2>2, <2>3
<1>4. run' = [o \in Slots |-> [pc |-> run'[o].pc, op |-> run'[o].op, saw |-> run'[o].saw]]
  <2>1. run' = [o \in Slots |-> run'[o]]
    BY <1>1
  <2> QED
    BY <1>3, <2>1
<1>5. \A o \in Slots : Busy(o)' =>
        run'[o].op \in [op : IF o[2] = "button" THEN ButtonOps ELSE PageOps, n : Nat \ {0}]
  BY <1>2, <1>3 DEF SentInv
<1> QED
  BY <1>1, <1>2, <1>4, <1>5 DEF SentInv, PageOps, ButtonOps

\* What the server does keeps the cart's tables well formed.
LEMMA FrameHandles ==
  ASSUME CartFrame, NEW s \in Slots, Handle(s)
  PROVE  CartFrame'
<1>1. made \in Nat /\ made' \in Nat /\ made <= made'
  BY LinesStep DEF CartFrame, LinesInv
<1>2. ASSUME NEW o \in Slots
      PROVE  SeenBy(o)'
  <2>1. CASE o = s
    BY <2>1, FoundStep
  <2>2. CASE o # s
    <3>1. run'[o] = run[o]
      BY <2>2, HandleMoves DEF CartFrame
    <3>2. SeenBy(o)
      BY DEF CartFrame, FoundInv
    <3> QED
      BY <1>1, <3>1, <3>2, SeenKept
  <2> QED
    BY <2>1, <2>2
<1>3. FoundInv'
  BY <1>2 DEF FoundInv, Slots
<1> QED
  BY <1>3, LinesStep, SentStep, CartsStep DEF CartFrame

\* What can be clicked on has an id.
LEMMA ShownHaveIds ==
  ASSUME LinesInv, CartsInv
  PROVE  Shown \subseteq Nat \ {0} /\ \A id \in Shown : id <= made
<1>1. CASE Viewed = None
  BY <1>1 DEF Shown
<1>2. CASE Viewed # None
  <2> DEFINE idsOf(keys) == {lines[Viewed][key].id : key \in keys \intersect RowsOf(Viewed)}
  <2>1. Viewed \in Carts
    BY <1>2, ViewedCart DEF CartsInv
  <2>2. \A key \in RowsOf(Viewed) : lines[Viewed][key].id \in 1..made /\ made \in Nat
    BY <2>1 DEF RowsOf, LinesInv, IsRow
  <2>3. \A keys : idsOf(keys) \subseteq 1..made
    BY <2>2
  <2>4. made \in Nat
    BY DEF LinesInv
  <2>5. idsOf(Group) # {} => Min(idsOf(Group)) \in idsOf(Group)
    <3> DEFINE I == idsOf(Group)
    <3>1. I \in SUBSET (1..made)
      BY <2>3
    <3> HIDE DEF I, idsOf
    <3>2. IsFiniteSet(1..made)
      BY <2>4, FS_Interval
    <3>4. IsFiniteSet(I)
      BY <3>1, <3>2, FS_Subset
    <3>5. I \subseteq Int
      BY <2>4, <3>1
    <3>3. I # {} => Min(I) \in I
      BY <3>4, <3>5, LeastNumber
    <3> QED
      BY <3>3 DEF I
  <2>6. Shown = idsOf(Keys \ Group) \union
          (IF idsOf(Group) = {} THEN {} ELSE {Min(idsOf(Group))})
    BY <1>2 DEF Shown
  <2> HIDE DEF idsOf
  <2>7. Shown \subseteq 1..made
    BY <2>3, <2>5, <2>6
  <2> QED
    BY <2>4, <2>7
<1> QED
  BY <1>1, <1>2

\* A click is queued by the page or sent by a button.
LEMMA ClicksAre ==
  ASSUME LinesInv, CartsInv, NEW t \in Tabs, Clicked(t)
  PROVE  \/ (\E op \in PageOps : Press(t, op) /\ (op.kind = "quantity" => op.id \in Shown))
         \/ (\E op \in ButtonOps : PushButton(t, op))
<1>1. \A id \in Shown : id \in Nat \ {0}
  BY ShownHaveIds
<1>2. ASSUME NEW id \in Shown, NEW q \in Quantities
      PROVE  Asking("quantity", id, q) \in PageOps /\ Asking("quantity", id, q).id = id
  BY <1>1 DEF Asking, PageOps
<1>3. ASSUME NEW id \in Shown, NEW b \in {0, 1}
      PROVE  Asking("select", id, b) \in PageOps
  BY <1>1 DEF Asking, PageOps
<1>4. ASSUME NEW id \in Shown
      PROVE  Asking("remove", id, 0) \in PageOps
  BY <1>1 DEF Asking, PageOps
<1>5. ASSUME NEW b \in {0, 1}
      PROVE  Asking("all", 0, b) \in PageOps
  BY DEF Asking, PageOps
<1>6. Asking("clear", 0, 0) \in PageOps
  BY DEF Asking, PageOps
<1>7. ASSUME NEW v \in Loose, NEW q \in Quantities
      PROVE  Asking("add", v, q) \in ButtonOps
  BY DEF Asking, ButtonOps
<1>8. ASSUME NEW q \in Quantities
      PROVE  Asking("bundle", 0, q) \in ButtonOps
  BY DEF Asking, ButtonOps
<1>9. ASSUME NEW b \in {0, 1}
      PROVE  Asking("voucher", 0, b) \in ButtonOps
  BY DEF Asking, ButtonOps
<1>10. \A kind, id, q : Asking(kind, id, q).kind = kind
  BY DEF Asking
<1> DEFINE Queued(op) == Press(t, op) /\ (op.kind = "quantity" => op.id \in Shown)
<1>11. ASSUME NEW op \in PageOps, Press(t, op), op.kind = "quantity" => op.id \in Shown
       PROVE  \E o \in PageOps : Queued(o)
  BY <1>11
<1> HIDE DEF Queued
<1>12. CASE \E id \in Shown, q \in Quantities : Press(t, Asking("quantity", id, q))
  BY <1>2, <1>11, <1>12 DEF Queued
<1>13. CASE \E id \in Shown, b \in {0, 1} : Press(t, Asking("select", id, b))
  BY <1>3, <1>10, <1>11, <1>13 DEF Queued
<1>14. CASE \E id \in Shown : Press(t, Asking("remove", id, 0))
  BY <1>4, <1>10, <1>11, <1>14 DEF Queued
<1>15. CASE \E b \in {0, 1} : Press(t, Asking("all", 0, b))
  BY <1>5, <1>10, <1>11, <1>15 DEF Queued
<1>16. CASE Press(t, Asking("clear", 0, 0))
  BY <1>6, <1>10, <1>11, <1>16 DEF Queued
<1> QED
  BY <1>7, <1>8, <1>9, <1>12, <1>13, <1>14, <1>15, <1>16 DEF Clicked

\* Tabs leave the rows and the carts alone.
LEMMA CartlessStays ==
  ASSUME CartFrame, UNCHANGED recent,
         \A t \in Tabs : run'[<<t, "button">>].pc = "cartless" => run[<<t, "button">>].pc = "cartless"
  PROVE  CartsInv'
<1>1. Cartless' \in SUBSET Cartless
  BY DEF Cartless
<1>2. IsFiniteSet(Cartless) /\ Cardinality(Cartless) \in Nat
  BY CartlessFew
<1>3. Cardinality(Cartless') <= Cardinality(Cartless) /\ Cardinality(Cartless') \in Nat
  BY <1>1, <1>2, FS_Subset, FS_CardinalityType
<1>4. recent' \in Seq(Carts) /\ Len(recent') = Len(recent) /\ Len(recent) \in Nat
      /\ Len(recent) + Cardinality(Cartless) <= Cardinality(Tabs) /\ Cardinality(Tabs) \in Nat
  BY SlotFacts DEF CartFrame, CartsInv
<1>5. Len(recent') + Cardinality(Cartless') <= Cardinality(Tabs)
  BY <1>2, <1>3, <1>4
<1> QED
  BY <1>4, <1>5 DEF CartsInv, Carts

\* A click waits with the number it got.
LEMMA FramePresses ==
  ASSUME CartFrame, NEW t \in Tabs, NEW op \in PageOps, Press(t, op)
  PROVE  CartFrame'
<1>1. /\ UNCHANGED <<recent, lines, made, run>> /\ clicks' = clicks + 1
      /\ queue' = [queue EXCEPT ![t] = Append(@, [op |-> op, n |-> clicks + 1])]
  BY DEF Press
<1>2. SentInv /\ clicks \in Nat
  BY DEF CartFrame, SentInv
<1> DEFINE Waiting == [op : PageOps, n : Nat \ {0}]
<1>3. [op |-> op, n |-> clicks + 1] \in Waiting
  BY <1>2
<1>4. queue \in [Tabs -> Seq(Waiting)]
  BY <1>2 DEF SentInv
<1>5. queue' \in [Tabs -> Seq(Waiting)]
  <2> DEFINE x == [op |-> op, n |-> clicks + 1]
  <2>1. x \in Waiting
    BY <1>3
  <2>2. queue' = [queue EXCEPT ![t] = Append(queue[t], x)]
    BY <1>1
  <2> HIDE DEF Waiting, x
  <2>3. Append(queue[t], x) \in Seq(Waiting)
    BY <1>4, <2>1
  <2> QED
    BY <1>4, <2>2, <2>3
<1>6. SentInv'
  <2>1. run' = run /\ clicks' \in Nat
    BY <1>1, <1>2
  <2> QED
    BY <1>2, <1>5, <2>1 DEF SentInv, Busy
<1>7. LinesInv'
  BY <1>1 DEF CartFrame, LinesInv, IsRow
<1>8. FoundInv'
  BY <1>1 DEF CartFrame, FoundInv, SeenBy, Busy, OpOf, IsRow, Carts, Keys, Group, Slots
<1>9. CartsInv'
  BY <1>1, CartlessStays
<1> QED
  BY <1>6, <1>7, <1>8, <1>9 DEF CartFrame

\* A request that sets out knows nothing yet.
LEMMA FrameSetsOut ==
  ASSUME CartFrame, NEW s \in Slots, NEW op,
         op \in [op : IF s[2] = "button" THEN ButtonOps ELSE PageOps, n : Nat \ {0}],
         UNCHANGED <<recent, lines, made>>, SetsOut(s, op),
         queue' \in [Tabs -> Seq([op : PageOps, n : Nat \ {0}])], clicks' \in Nat
  PROVE  CartFrame'
<1>1. run' = [o \in Slots |-> IF o = s THEN [pc |-> "sent", op |-> op, saw |-> None] ELSE run[o]]
  BY Goes DEF CartFrame
<1>2. SentInv'
  <2>1. run' = [o \in Slots |-> [pc |-> run'[o].pc, op |-> run'[o].op, saw |-> run'[o].saw]]
    <3>1. run = [o \in Slots |-> [pc |-> run[o].pc, op |-> run[o].op, saw |-> run[o].saw]]
      BY DEF CartFrame, SentInv
    <3>2. \A o \in Slots : run'[o] = [pc |-> run'[o].pc, op |-> run'[o].op, saw |-> run'[o].saw]
      BY <1>1, <3>1
    <3>3. run' = [o \in Slots |-> run'[o]]
      BY <1>1
    <3> QED
      BY <3>2, <3>3
  <2>2. \A o \in Slots : Busy(o)' =>
          run'[o].op \in [op : IF o[2] = "button" THEN ButtonOps ELSE PageOps, n : Nat \ {0}]
    <3> TAKE o \in Slots
    <3>1. CASE o = s
      BY <1>1, <3>1
    <3>2. CASE o # s
      BY <1>1, <3>2 DEF Busy, CartFrame, SentInv
    <3> QED
      BY <3>1, <3>2
  <2> QED
    BY <2>1, <2>2 DEF SentInv, PageOps, ButtonOps
<1>3. LinesInv'
  BY DEF CartFrame, LinesInv, IsRow
<1>4. FoundInv'
  <2>1. made \in Nat /\ made' = made
    BY DEF CartFrame, LinesInv
  <2>2. ASSUME NEW o \in Slots
        PROVE  SeenBy(o)'
    <3>1. CASE o = s
      BY <1>1, <3>1 DEF SeenBy, OpOf
    <3>2. CASE o # s
      <4>1. run'[o] = run[o] /\ SeenBy(o)
        BY <1>1, <3>2 DEF CartFrame, FoundInv
      <4> QED
        BY <2>1, <4>1, SeenKept
    <3> QED
      BY <3>1, <3>2
  <2> QED
    BY <2>2 DEF FoundInv, Slots
<1>5. CartsInv'
  <2>1. \A t \in Tabs : run'[<<t, "button">>].pc = "cartless" => run[<<t, "button">>].pc = "cartless"
    <3> TAKE t \in Tabs
    <3>1. <<t, "button">> \in Slots
      BY SlotFacts
    <3> QED
      BY <1>1, <3>1
  <2> QED
    BY <2>1, CartlessStays
<1> QED
  BY <1>2, <1>3, <1>4, <1>5 DEF CartFrame

\* The first click that waits is sent.
LEMMA SentClick ==
  ASSUME NEW W, NEW q \in Seq(W), q # <<>>
  PROVE  /\ q[1] \in W
         /\ SubSeq(q, 1, 0) \o SubSeq(q, 2, Len(q)) = Tail(q)
<1>1. q[1] \in W
  OBVIOUS
<1>2. SubSeq(q, 1, 0) = <<>>
  OBVIOUS
<1>3. SubSeq(q, 2, Len(q)) = Tail(q) /\ Tail(q) \in Seq(W)
  OBVIOUS
<1>4. \A x \in Seq(W) : <<>> \o x = x
  OBVIOUS
<1> QED
  BY <1>1, <1>2, <1>3, <1>4

\* A tab that sends its next click keeps the tables well formed,
LEMMA FrameSends ==
  ASSUME CartFrame, NEW t \in Tabs, NEW i, Send(t, i)
  PROVE  /\ CartFrame'
         /\ queue[t] # <<>> /\ SetsOut(<<t, "page">>, queue[t][1])
         /\ queue' = [queue EXCEPT ![t] = Tail(queue[t])]
<1> DEFINE Waiting == [op : PageOps, n : Nat \ {0}]
<1>1. /\ i = 1 /\ queue[t] # <<>> /\ SetsOut(<<t, "page">>, queue[t][1])
      /\ queue' = [queue EXCEPT ![t] = SubSeq(queue[t], 1, 1 - 1) \o SubSeq(queue[t], 1 + 1, Len(queue[t]))]
      /\ UNCHANGED <<recent, lines, made, clicks>>
  BY DEF Send, NextInLine
<1>2. queue \in [Tabs -> Seq(Waiting)] /\ clicks \in Nat
  BY DEF CartFrame, SentInv
<1> HIDE DEF Waiting
<1>3. queue[t] \in Seq(Waiting)
  BY <1>2
<1>4. queue[t][1] \in Waiting /\ SubSeq(queue[t], 1, 0) \o SubSeq(queue[t], 2, Len(queue[t])) = Tail(queue[t])
  BY <1>1, <1>3, SentClick
<1>5. queue' = [queue EXCEPT ![t] = Tail(queue[t])]
  <2>1. 1 - 1 = 0 /\ 1 + 1 = 2
    OBVIOUS
  <2>2. SubSeq(queue[t], 1, 1 - 1) \o SubSeq(queue[t], 1 + 1, Len(queue[t])) = Tail(queue[t])
    BY <1>4, <2>1
  <2> QED
    BY <1>1, <2>2
<1>6. Tail(queue[t]) \in Seq(Waiting)
  BY <1>1, <1>3
<1>7. queue' \in [Tabs -> Seq(Waiting)] /\ clicks' \in Nat
  BY <1>1, <1>2, <1>5, <1>6
<1> DEFINE s == <<t, "page">>  op == queue[t][1]
<1>8. s \in Slots /\ s[2] = "page"
  BY SlotFacts
<1>9. op \in [op : IF s[2] = "button" THEN ButtonOps ELSE PageOps, n : Nat \ {0}]
  BY <1>4, <1>8 DEF Waiting
<1>10. queue' \in [Tabs -> Seq([op : PageOps, n : Nat \ {0}])]
  BY <1>7 DEF Waiting
<1>11. SetsOut(s, op)
  BY <1>1
<1> HIDE DEF s, op
<1>12. CartFrame'
  BY <1>1, <1>7, <1>8, <1>9, <1>10, <1>11, FrameSetsOut
<1> QED
  BY <1>1, <1>5, <1>12

\* a button that is pushed does,
LEMMA FramePushes ==
  ASSUME CartFrame, NEW t \in Tabs, NEW op \in ButtonOps, PushButton(t, op)
  PROVE  CartFrame'
<1> DEFINE s == <<t, "button">>  click == [op |-> op, n |-> clicks + 1]
<1>1. /\ SetsOut(s, click) /\ clicks' = clicks + 1 /\ UNCHANGED <<recent, lines, made, queue>>
  BY DEF PushButton
<1>2. clicks \in Nat /\ queue \in [Tabs -> Seq([op : PageOps, n : Nat \ {0}])]
  BY DEF CartFrame, SentInv
<1>3. s \in Slots /\ s[2] = "button"
  BY SlotFacts
<1>4. click \in [op : IF s[2] = "button" THEN ButtonOps ELSE PageOps, n : Nat \ {0}]
  BY <1>2, <1>3
<1>5. clicks' \in Nat
  BY <1>1, <1>2
<1> HIDE DEF s, click
<1> QED
  BY <1>1, <1>2, <1>3, <1>4, <1>5, FrameSetsOut

\* A request that was given up on goes on as it was.
LEMMA FrameLoses ==
  ASSUME CartFrame, NEW t \in Tabs, LoseAnswer(t)
  PROVE  CartFrame'
<1> DEFINE page == <<t, "page">>  lost == <<t, "lost">>
<1>1. /\ UNCHANGED <<recent, lines, made, queue, clicks>> /\ Busy(page)
      /\ run' = [run EXCEPT ![lost] = run[page], ![page] = Idle]
  BY DEF LoseAnswer
<1>2. page \in Slots /\ lost \in Slots /\ page # lost /\ page[2] # "button" /\ lost[2] # "button"
  BY SlotFacts
<1>3. run = [s \in Slots |-> [pc |-> run[s].pc, op |-> run[s].op, saw |-> run[s].saw]]
  BY DEF CartFrame, SentInv
<1>4. run' = [o \in Slots |-> IF o = page THEN Idle ELSE IF o = lost THEN run[page] ELSE run[o]]
  <2> HIDE DEF page, lost
  <2>1. DOMAIN run = Slots
    BY <1>3
  <2> DEFINE first == [run EXCEPT ![lost] = run[page]]
  <2>2. run' = [first EXCEPT ![page] = Idle]
    BY <1>1, Zenon
  <2>3. first = [o \in Slots |-> IF o = lost THEN run[page] ELSE run[o]]
    BY <2>1
  <2> HIDE DEF first
  <2> QED
    BY <1>2, <2>2, <2>3
<1>5. \A t2 \in Tabs : <<t2, "button">> \in Slots /\ <<t2, "button">> # page /\ <<t2, "button">> # lost
  BY SlotFacts
<1> HIDE DEF page, lost
<1>6. SentInv'
  <2>1. run' = [s \in Slots |-> [pc |-> run'[s].pc, op |-> run'[s].op, saw |-> run'[s].saw]]
    <3>1. ASSUME NEW o \in Slots
          PROVE  run'[o] = [pc |-> run'[o].pc, op |-> run'[o].op, saw |-> run'[o].saw]
      <4>1. CASE o = page
        BY <1>4, <4>1 DEF Idle
      <4>2. CASE o # page /\ o = lost
        <5>1. run'[o] = run[page]
          BY <1>4, <4>2
        <5>2. run[page] = [pc |-> run[page].pc, op |-> run[page].op, saw |-> run[page].saw]
          BY <1>2, <1>3
        <5> QED
          BY <5>1, <5>2
      <4>3. CASE o # page /\ o # lost
        <5>1. run'[o] = run[o]
          BY <1>4, <4>3
        <5>2. run[o] = [pc |-> run[o].pc, op |-> run[o].op, saw |-> run[o].saw]
          BY <1>3
        <5> QED
          BY <5>1, <5>2
      <4> QED
        BY <4>1, <4>2, <4>3
    <3>2. run' = [o \in Slots |-> run'[o]]
      BY <1>4
    <3> QED
      BY <3>1, <3>2
  <2>2. ASSUME NEW o \in Slots, Busy(o)'
        PROVE  run'[o].op \in [op : IF o[2] = "button" THEN ButtonOps ELSE PageOps, n : Nat \ {0}]
    <3>1. CASE o = page
      BY <1>4, <2>2, <3>1 DEF Busy, Idle
    <3>2. CASE o # page /\ o = lost
      <4>1. run'[o] = run[page]
        BY <1>4, <3>2
      <4>2. run[page].op \in [op : PageOps, n : Nat \ {0}]
        BY <1>1, <1>2 DEF CartFrame, SentInv
      <4> QED
        BY <1>2, <3>2, <4>1, <4>2
    <3>3. CASE o # page /\ o # lost
      <4>1. run'[o] = run[o]
        BY <1>4, <3>3
      <4> QED
        BY <2>2, <4>1 DEF Busy, CartFrame, SentInv
    <3> QED
      BY <3>1, <3>2, <3>3
  <2>3. queue' \in [Tabs -> Seq([op : PageOps, n : Nat \ {0}])] /\ clicks' \in Nat
    BY <1>1 DEF CartFrame, SentInv
  <2>4. \A o \in Slots : Busy(o)' =>
          run'[o].op \in [op : IF o[2] = "button" THEN ButtonOps ELSE PageOps, n : Nat \ {0}]
    BY <2>2
  <2> QED
    BY <2>1, <2>3, <2>4 DEF SentInv, PageOps, ButtonOps
<1>7. LinesInv'
  BY <1>1 DEF CartFrame, LinesInv, IsRow
<1>8. FoundInv'
  <2>1. made \in Nat /\ made' = made
    BY <1>1 DEF CartFrame, LinesInv
  <2>2. ASSUME NEW o \in Slots
        PROVE  SeenBy(o)'
    <3>1. CASE o = page
      BY <1>4, <3>1 DEF SeenBy, Busy, Idle
    <3>2. CASE o # page /\ o = lost
      <4>1. run'[o] = run[page] /\ SeenBy(page)
        BY <1>2, <1>4, <3>2 DEF CartFrame, FoundInv
      <4>2. \A row : IsRow(row) => IsRow(row)'
        BY <2>1 DEF IsRow
      <4> QED
        BY <4>1, <4>2 DEF SeenBy, Busy, OpOf
    <3>3. CASE o # page /\ o # lost
      <4>1. run'[o] = run[o] /\ SeenBy(o)
        BY <1>4, <3>3 DEF CartFrame, FoundInv
      <4> QED
        BY <2>1, <4>1, SeenKept
    <3> QED
      BY <3>1, <3>2, <3>3
  <2> QED
    BY <2>2 DEF FoundInv, Slots
<1>9. CartsInv'
  <2>1. \A t2 \in Tabs : run'[<<t2, "button">>] = run[<<t2, "button">>]
    BY <1>4, <1>5
  <2> QED
    BY <1>1, <2>1, CartlessStays
<1> QED
  BY <1>6, <1>7, <1>8, <1>9 DEF CartFrame

\* and a step that leaves them alone.
LEMMA FrameUnmoved ==
  ASSUME CartFrame, UNCHANGED <<recent, lines, made, queue, run, clicks>>
  PROVE  CartFrame'
<1>1. LinesInv'
  BY DEF CartFrame, LinesInv, IsRow
<1>2. SentInv'
  BY DEF CartFrame, SentInv, Busy
<1>3. FoundInv'
  <2>1. made \in Nat
    BY DEF CartFrame, LinesInv
  <2>2. \A o \in Slots : SeenBy(o)'
    <3> TAKE o \in Slots
    <3>1. SeenBy(o) /\ run'[o] = run[o]
      BY DEF CartFrame, FoundInv
    <3> QED
      BY <2>1, <3>1, SeenKept
  <2> QED
    BY <2>2 DEF FoundInv, Slots
<1>4. CartsInv'
  BY CartlessStays
<1> QED
  BY <1>1, <1>2, <1>3, <1>4 DEF CartFrame

\* Every step keeps the cart's tables well formed.
LEMMA FrameStep ==
  ASSUME CartFrame, [Next]_vars
  PROVE  CartFrame'
<1>1. CASE UNCHANGED cartVars
  BY <1>1, FrameUnmoved DEF cartVars
<1>2. CASE CartNext
  <2>1. ASSUME NEW t \in Tabs, Clicked(t)
        PROVE  CartFrame'
    BY <2>1, ClicksAre, FramePresses, FramePushes DEF CartFrame
  <2>2. ASSUME NEW t \in Tabs, SendNext(t)
        PROVE  CartFrame'
    BY <2>2, FrameSends DEF SendNext
  <2>3. ASSUME NEW v, NEW n, ShelfMoves(v, n)
        PROVE  CartFrame'
    BY <2>3, FrameUnmoved DEF ShelfMoves
  <2> QED
    BY <1>2, <2>1, <2>2, <2>3, FrameHandles, FrameLoses DEF CartNext
<1> QED
  BY <1>1, <1>2 DEF Next, vars

\* A session begins without a cart, or with one whose rows have ids.
LEMMA Beginning ==
  ASSUME CartInit \/ EmptyCart
  PROVE  /\ NoRequests /\ CartFrame
         /\ \/ recent = <<>> /\ \A k \in Carts : \A key \in Keys : lines[k][key] = None
            \/ /\ recent = <<1>> /\ 1 \in Carts
               /\ \A k \in Carts \ {1} : \A key \in Keys : lines[k][key] = None
               /\ \A key \in Keys :
                    /\ lines[1][key] = Row(lines[1][key].id, IF key \in Group THEN Per[key[2]] ELSE 1, 1)
                    /\ lines[1][key].id \in Nat
<1>1. NoRequests
  BY DEF CartInit, EmptyCart
<1>2. SentInv
  <2>1. queue \in [Tabs -> Seq([op : PageOps, n : Nat \ {0}])]
    <3> DEFINE Waiting == [op : PageOps, n : Nat \ {0}]
    <3>1. queue = [t \in Tabs |-> <<>>]
      BY <1>1 DEF NoRequests
    <3> HIDE DEF Waiting
    <3>2. queue \in [Tabs -> Seq(Waiting)]
      BY <3>1
    <3> QED
      BY <3>2 DEF Waiting
  <2>2. run = [s \in Slots |-> Idle] /\ clicks = 0
    BY <1>1 DEF NoRequests
  <2>3. run = [s \in Slots |-> [pc |-> run[s].pc, op |-> run[s].op, saw |-> run[s].saw]]
    BY <2>2 DEF Idle
  <2>4. \A s \in Slots : ~Busy(s)
    BY <2>2 DEF Busy, Idle
  <2> QED
    BY <2>1, <2>2, <2>3, <2>4 DEF SentInv
<1>3. FoundInv
  <2>1. \A s \in Slots : ~Busy(s)
    BY <1>1 DEF Busy, Idle, NoRequests
  <2> QED
    BY <2>1 DEF FoundInv, SeenBy
<1>4. Cartless = {}
  BY <1>1, SlotFacts DEF Cartless, Idle, NoRequests
<1>5. 1 \in Carts /\ Cardinality(Cartless) = 0 /\ Cardinality(Tabs) \in Nat \ {0}
  BY <1>4, SlotFacts, FS_EmptySet DEF Carts
<1>6. CASE NoCart
  <2>1. recent = <<>> /\ made = 0 /\ lines = [k \in Carts |-> [key \in Keys |-> None]]
    BY <1>6 DEF NoCart
  <2>2. lines = [k \in Carts |-> [key \in Keys |-> lines[k][key]]]
    BY <2>1
  <2>3. \A k \in Carts : \A key \in Keys : lines[k][key] = None
    BY <2>1
  <2>4. LinesInv
    BY <2>1, <2>2, <2>3 DEF LinesInv
  <2>5. CartsInv
    BY <1>5, <2>1 DEF CartsInv
  <2> QED
    BY <1>1, <1>2, <1>3, <2>1, <2>3, <2>4, <2>5 DEF CartFrame
<1>7. CASE ~NoCart
  <2> DEFINE n == Cardinality(Keys)
             Bs == Bijection(Keys, 1..n)
             id == CHOOSE f \in Bs : TRUE
             row(key) == Row(id[key], IF key \in Group THEN Per[key[2]] ELSE 1, 1)
  <2>1. /\ recent = <<1>> /\ made = n
        /\ lines = [k \in Carts |-> [key \in Keys |-> IF k > 1 THEN None ELSE row(key)]]
    BY <1>7 DEF CartInit, EmptyCart
  <2>2. n \in Nat /\ IsFiniteSet(Keys) /\ IsFiniteSet(1..n) /\ Cardinality(1..n) = n
    BY KeysAreFew, FS_Interval
  <2>3. Bs # {}
    <3>1. ExistsBijection(Keys, 1..n)
      BY <2>2, FS_SameCardinalityBij
    <3> QED
      BY <3>1 DEF ExistsBijection
  <2>4. id \in Bs
    <3> HIDE DEF Bs
    <3> QED  BY <2>3
  <2>5. /\ \A key \in Keys : id[key] \in 1..n
        /\ \A a, b \in Keys : id[a] = id[b] => a = b
    <3> HIDE DEF id
    <3> QED  BY <2>4 DEF Bijection, Injection, IsInjective
  <2> HIDE DEF Bs, id, n
  <2>6. \A key \in Keys : /\ row(key) = [id |-> id[key], qty |-> row(key).qty, selected |-> TRUE,
                                         due |-> row(key).due, by |-> 0]
                          /\ row(key) = Row(row(key).id, IF key \in Group THEN Per[key[2]] ELSE 1, 1)
                          /\ row(key).id = id[key]
    BY DEF Row
  <2> HIDE DEF row
  <2>7. lines = [k \in Carts |-> [key \in Keys |-> lines[k][key]]]
    BY <2>1
  <2>8. \A k \in Carts : k \in Nat /\ (k # 1 => k > 1) /\ (k = 1 => ~(k > 1))
    BY <1>5 DEF Carts
  <2>9. \A k \in Carts : \A key \in Keys : lines[k][key] = IF k = 1 THEN row(key) ELSE None
    BY <2>1, <2>8
  <2>10. \A k \in Carts : \A key \in Keys : lines[k][key] # None => IsRow(lines[k][key])
    <3>1. \A key \in Keys : IsRow(row(key))
      <4> TAKE key \in Keys
      <4>1. row(key) = [id |-> row(key).id, qty |-> row(key).qty, selected |-> row(key).selected,
                        due |-> row(key).due, by |-> row(key).by]
        BY <2>6
      <4>2. row(key).id \in 1..made
        BY <2>1, <2>5, <2>6
      <4> QED
        BY <4>1, <4>2 DEF IsRow
    <3> QED
      BY <2>9, <3>1
  <2>11. \A k, l \in Carts : \A a, b \in Keys :
           lines[k][a] # None /\ lines[l][b] # None /\ lines[k][a].id = lines[l][b].id => k = l /\ a = b
    BY <2>5, <2>6, <2>9
  <2>12. LinesInv
    BY <2>1, <2>2, <2>7, <2>10, <2>11 DEF LinesInv
  <2>13. CartsInv
    <3>1. recent \in Seq(Carts) /\ Len(recent) = 1
      BY <1>5, <2>1
    <3> QED
      BY <1>5, <3>1 DEF CartsInv
  <2>14. \A key \in Keys :
           /\ lines[1][key] = Row(lines[1][key].id, IF key \in Group THEN Per[key[2]] ELSE 1, 1)
           /\ lines[1][key].id \in Nat
    <3> TAKE key \in Keys
    <3>1. lines[1][key] = row(key)
      BY <1>5, <2>9
    <3>2. row(key).id \in Nat
      BY <2>2, <2>5, <2>6
    <3> QED
      BY <2>6, <3>1, <3>2
  <2> QED
    BY <1>1, <1>2, <1>3, <1>5, <2>1, <2>9, <2>12, <2>13, <2>14 DEF CartFrame
<1> QED
  BY <1>6, <1>7

-----------------------------------------------------------------------------
(* Additions add up, line by line.                                         *)

\* A row has a number no larger than the rows made so far.
LEMMA IdsAreNumbers ==
  ASSUME LinesInv, NEW k \in Carts, NEW key \in Keys, lines[k][key] # None
  PROVE  lines[k][key].id \in Nat \ {0} /\ lines[k][key].id <= made /\ IsRow(lines[k][key])
<1>1. lines[k][key].id \in 1..made /\ made \in Nat /\ IsRow(lines[k][key])
  BY DEF LinesInv, IsRow
<1> QED
  BY <1>1

\* What a request leaves of a loose line: nothing, the row with its quantity or
\* the one it chose, or the sum of what it had read and what it adds.
LEMMA LooseRows ==
  ASSUME CartFrame, NEW s \in Slots, Handle(s), NEW k \in Carts, NEW v \in Loose,
         NEW key, key = <<"loose", v>>
  PROVE  \/ lines'[k][key] = None
         \/ /\ lines[k][key] # None /\ lines'[k][key].id = lines[k][key].id
            /\ \/ lines'[k][key].qty = lines[k][key].qty /\ lines'[k][key].due = lines[k][key].due
               \/ v \in Writes(OpOf(s)) /\ lines'[k][key].qty = lines'[k][key].due
         \/ /\ run[s].pc = "write" /\ OpOf(s).kind = "add" /\ OpOf(s).id = v
            /\ k = run[s].saw.cart /\ IdOf(lines[k][key]) = IdOf(run[s].saw.rows[key])
            /\ lines'[k][key].qty = Ceiling(Held(run[s].saw.rows, key), OpOf(s).q, run[s].saw.left)
            /\ lines'[k][key].due = DueAfter(lines[k][key], OpOf(s).q, run[s].saw.left)
            /\ IF lines[k][key] = None THEN lines'[k][key].id \in made + 1 .. made'
               ELSE lines'[k][key].id = lines[k][key].id
<1>1. key \in Keys \ Group
  BY KeysAreFew
<1>2. CASE lines'[k][key] = lines[k][key]
  BY <1>2
<1>3. CASE WriteAdd(s)
  <2> DEFINE l == run[s].saw.cart  keys == AddedKeys(s)
             due == DueAfter(lines[l][key], OpOf(s).q, run[s].saw.left)
  <2>1. /\ OpOf(s).kind \in {"add", "bundle"} /\ l \in Carts
        /\ \A o \in Carts : o # l => lines'[o] = lines[o]
        /\ \A x \in Keys \ keys : lines'[l][x] = lines[l][x]
        /\ key \in keys =>
             /\ lines[l][key] = None =>
                  /\ lines'[l][key] = Row(lines'[l][key].id, Added(s)[key], due)
                  /\ lines'[l][key].id \in made + 1 .. made'
             /\ lines[l][key] # None =>
                  lines'[l][key] =
                    [id |-> lines[l][key].id, qty |-> Added(s)[key],
                     selected |-> lines[l][key].selected, due |-> due, by |-> 0]
    BY <1>3, AddWritten
  <2>2. CASE k # l \/ key \notin keys
    <3>1. lines'[k][key] = lines[k][key]
      BY <1>1, <2>1, <2>2
    <3> QED
      BY <1>2, <3>1
  <2>3. CASE k = l /\ key \in keys
    <3>1. OpOf(s).kind = "add" /\ key = <<"loose", OpOf(s).id>> /\ OpOf(s).id = v
      BY <1>1, <2>1, <2>3 DEF AddedKeys
    <3>2. Added(s) = [x \in {key} |-> Ceiling(Held(run[s].saw.rows, x), OpOf(s).q, run[s].saw.left)]
      BY <3>1 DEF Added
    <3>3. /\ Added(s)[key] = Ceiling(Held(run[s].saw.rows, key), OpOf(s).q, run[s].saw.left)
          /\ DOMAIN Added(s) = {key}
      BY <3>2
    <3>4. run[s].pc = "write" /\ AsSeen(s, DOMAIN Added(s))
      BY <1>3 DEF WriteAdd
    <3>5. IdOf(lines[l][key]) = IdOf(run[s].saw.rows[key])
      BY <3>3, <3>4 DEF AsSeen
    <3>6. lines'[l][key].qty = Added(s)[key] /\ lines'[l][key].due = due
      <4>1. CASE lines[l][key] = None
        <5>1. lines'[l][key] = Row(lines'[l][key].id, Added(s)[key], due)
          BY <2>1, <2>3, <4>1
        <5> HIDE DEF due
        <5>2. \A i, q, d : Row(i, q, d).qty = q /\ Row(i, q, d).due = d
          BY DEF Row
        <5> QED
          BY <5>1, <5>2
      <4>2. CASE lines[l][key] # None
        <5> HIDE DEF due
        <5> QED
          BY <2>1, <2>3, <4>2
      <4> QED
        BY <4>1, <4>2
    <3>7. IF lines[l][key] = None THEN lines'[l][key].id \in made + 1 .. made'
          ELSE lines'[l][key].id = lines[l][key].id
      BY <2>1, <2>3
    <3> HIDE DEF l
    <3> QED
      BY <2>3, <3>1, <3>3, <3>4, <3>5, <3>6, <3>7 DEF l
  <2> QED
    BY <2>2, <2>3
<1>4. CASE WriteQuantity(s)
  <2> DEFINE l == CartOf(s)  keys == QuantityKeys(s)
  <2>1. /\ l \in Carts /\ keys \subseteq RowsOf(l)
        /\ \A o \in Carts : o # l => lines'[o] = lines[o]
        /\ lines'[l][key] =
             IF key \notin keys THEN lines[l][key]
             ELSE [id |-> lines[l][key].id, qty |-> OpOf(s).q,
                   selected |-> lines[l][key].selected, due |-> OpOf(s).q, by |-> run[s].op.n]
    BY <1>1, <1>4, QuantityWritten
  <2>2. CASE k # l \/ key \notin keys
    <3>1. lines'[k][key] = lines[k][key]
      BY <2>1, <2>2
    <3> QED
      BY <1>2, <3>1
  <2>3. CASE k = l /\ key \in keys
    <3>1. run[s].saw.key \notin Group /\ key = run[s].saw.key
      BY <1>1, <2>3 DEF QuantityKeys
    <3>2. IdOf(lines[l][key]) = OpOf(s).id /\ OpOf(s).kind = "quantity"
      BY <1>4, <3>1 DEF WriteQuantity, CartOf, Serves, OpOf
    <3>3. v \in Writes(OpOf(s))
      BY <2>1, <3>2 DEF Writes
    <3>4. lines[l][key] # None
      BY <2>1, <2>3 DEF RowsOf
    <3>5. /\ lines'[l][key].id = lines[l][key].id
          /\ lines'[l][key].qty = OpOf(s).q /\ lines'[l][key].due = OpOf(s).q
      BY <2>1, <2>3
    <3> QED
      BY <2>3, <3>3, <3>4, <3>5
  <2> QED
    BY <2>2, <2>3
<1>5. ASSUME NEW l \in Carts, OnlyTicks(l)
      PROVE  \/ lines'[k][key] = None
             \/ /\ lines[k][key] # None /\ lines'[k][key].id = lines[k][key].id
                /\ lines'[k][key].qty = lines[k][key].qty /\ lines'[k][key].due = lines[k][key].due
             \/ lines'[k][key] = lines[k][key]
  <2>1. CASE k # l
    BY <1>5, <2>1 DEF OnlyTicks
  <2>2. CASE k = l
    <3>1. PICK tick : lines'[l][key] =
            IF lines[l][key] = None THEN None
            ELSE [id |-> lines[l][key].id, qty |-> lines[l][key].qty, selected |-> tick,
                  due |-> lines[l][key].due, by |-> lines[l][key].by]
      BY <1>1, <1>5 DEF OnlyTicks
    <3> QED
      BY <2>2, <3>1
  <2> QED
    BY <2>1, <2>2
<1>6. ASSUME NEW l \in Carts, NEW keys, DeleteRows(l, keys)
      PROVE  lines'[k][key] = None \/ lines'[k][key] = lines[k][key]
  BY <1>1, <1>6, RowsDeleted DEF CartFrame
<1>7. CASE WriteSelection(s)
  BY <1>2, <1>5, <1>7, SelectionTicks
<1>8. CASE SelectAll(s)
  BY <1>2, <1>5, <1>8, AllTicks
<1>9. CASE RemoveLine(s)
  BY <1>2, <1>6, <1>9, LineRemoved
<1>10. CASE RemoveSelected(s)
  <2>1. lines' = lines \/ \E l \in Carts : \E keys : DeleteRows(l, keys)
    BY <1>10, SelectedRemoved
  <2> QED
    BY <1>2, <1>6, <2>1
<1>11. CASE lines' = lines
  BY <1>2, <1>11
<1>12. \/ WriteAdd(s) \/ WriteQuantity(s) \/ WriteSelection(s) \/ SelectAll(s) \/ RemoveLine(s)
       \/ RemoveSelected(s) \/ lines' = lines
  BY DEF Handle, CheckAdd, CreateCart, ReadLines, FindLine, ReadGroup, FindCart, SetVoucher, Fails,
         rowVars
<1> QED
  BY <1>3, <1>4, <1>7, <1>8, <1>9, <1>10, <1>11, <1>12

DueOf(row) == IF row = None THEN 0 ELSE row.due

\* Whoever changes a quantity names a row that has been made.
IdsAsked ==
  /\ \A s \in Slots : Busy(s) /\ OpOf(s).kind = "quantity" => OpOf(s).id <= made
  /\ \A t \in Tabs : \A i \in DOMAIN queue[t] :
       queue[t][i].op.kind = "quantity" => queue[t][i].op.id <= made

\* Two requests under way write different lines, but for the raced ones.
WritersApart ==
  \A s, o \in Slots : s # o /\ Busy(s) /\ Busy(o) =>
    Writes(OpOf(s)) \intersect Writes(OpOf(o)) \subseteq raced

\* What an addition has read of its line is what the line is due, as long as
\* the line is the one it read.
ReadsDue(s) ==
  Busy(s) /\ run[s].pc = "write" /\ OpOf(s).kind = "add" /\ OpOf(s).id \notin raced =>
    LET key == <<"loose", OpOf(s).id>>  read == run[s].saw.rows[key]  row == lines[CartOf(s)][key] IN
    /\ read # None => read.id # 0
    /\ IdOf(row) = IdOf(read) => Held(run[s].saw.rows, key) = DueOf(row)

RowsDue ==
  \A k \in Carts : \A v \in Loose \ raced :
    lines[k][<<"loose", v>>] # None => lines[k][<<"loose", v>>].qty = lines[k][<<"loose", v>>].due

\* A session has no second cart to find, or two additions raced to its first.
FirstCart ==
  ~crowded =>
    /\ Len(recent) <= 1
    /\ \A s \in Slots : Busy(s) /\ run[s].pc = "cartless" => recent = <<>>
    /\ \A s, o \in Slots : s # o /\ Busy(s) /\ Busy(o) /\ Adds(OpOf(s)) /\ Adds(OpOf(o)) => recent # <<>>

AddInv == IdsAsked /\ WritersApart /\ (\A s \in Slots : ReadsDue(s)) /\ RowsDue /\ FirstCart

\* A number that has been given stays with its line or is gone.
LEMMA IdsStay ==
  ASSUME CartFrame, NEW s \in Slots, Handle(s), NEW k \in Carts, NEW v \in Loose,
         NEW key, key = <<"loose", v>>, NEW i \in Nat \ {0}, i <= made, IdOf(lines'[k][key]) = i
  PROVE  IdOf(lines[k][key]) = i
<1>1. made \in Nat /\ made' \in Nat
  BY LinesStep DEF CartFrame, LinesInv
<1>2. lines'[k][key] # None /\ lines'[k][key].id = i
  BY DEF IdOf
<1>3. \/ lines[k][key] # None /\ lines'[k][key].id = lines[k][key].id
      \/ lines'[k][key].id \in made + 1 .. made'
  BY <1>2, LooseRows
<1> QED
  BY <1>1, <1>2, <1>3 DEF IdOf

\* So a request never gets more lines to write than it set out for.
LEMMA WritesKept ==
  ASSUME CartFrame, IdsAsked, NEW s \in Slots, Handle(s), NEW o \in Slots, Busy(o),
         run'[o].op = run[o].op
  PROVE  /\ \A v \in Writes(OpOf(o))' : v \in Writes(OpOf(o))
         /\ OpOf(o)' = OpOf(o)
<1>1. OpOf(o)' = OpOf(o)
  BY DEF OpOf
<1>2. ASSUME NEW v \in Loose, NEW k \in Carts, OpOf(o).kind = "quantity",
             IdOf(lines'[k][<<"loose", v>>]) = OpOf(o).id
      PROVE  IdOf(lines[k][<<"loose", v>>]) = OpOf(o).id
  <2>1. OpOf(o).id \in Nat \ {0} /\ OpOf(o).id <= made
    BY <1>2, NamesLine DEF CartFrame, IdsAsked
  <2> QED
    BY <1>2, <2>1, IdsStay
<1>3. ASSUME NEW v \in Writes(OpOf(o))'
      PROVE  v \in Writes(OpOf(o))
  <2>1. /\ v \in Loose
        /\ \/ OpOf(o).kind = "add" /\ OpOf(o).id = v
           \/ /\ OpOf(o).kind = "quantity"
              /\ \E k \in Carts : IdOf(lines'[k][<<"loose", v>>]) = OpOf(o).id
    BY <1>1, <1>3 DEF Writes, IdOf, Carts
  <2> QED
    BY <1>2, <2>1 DEF Writes
<1> QED
  BY <1>1, <1>3

\* What an addition has read stays what its line is due when others are served,
LEMMA OthersReadDue ==
  ASSUME CartFrame, AddInv, NEW s \in Slots, Handle(s), NEW o \in Slots, o # s
  PROVE  ReadsDue(o)'
<1>1. run'[o] = run[o] /\ raced' = raced /\ Busy(s)
  BY HandleMoves DEF CartFrame, outside
<1> DEFINE v == OpOf(o).id  k == CartOf(o)  key == <<"loose", v>>  seen == run[o].saw.rows
<1>2. SUFFICES ASSUME Busy(o), run[o].pc = "write", OpOf(o).kind = "add", v \notin raced
               PROVE  /\ seen[key] # None => seen[key].id # 0
                      /\ IdOf(lines'[k][key]) = IdOf(seen[key]) =>
                           Held(seen, key) = DueOf(lines'[k][key])
  BY <1>1 DEF ReadsDue, Busy, OpOf, CartOf, IdOf, Held, DueOf
<1>3. v \in Loose /\ k \in Carts
  <2>1. SeenBy(o)
    BY DEF CartFrame, FoundInv
  <2> QED
    BY <1>2, <2>1, NamesGoods DEF CartFrame, SeenBy, CartOf
<1>4. /\ seen[key] # None => seen[key].id # 0
      /\ IdOf(lines[k][key]) = IdOf(seen[key]) => Held(seen, key) = DueOf(lines[k][key])
  BY <1>2 DEF AddInv, ReadsDue
<1>5. v \in Writes(OpOf(o))
  BY <1>2, <1>3 DEF Writes
<1>6. v \notin Writes(OpOf(s))
  BY <1>1, <1>2, <1>5 DEF AddInv, WritersApart
<1>7. OpOf(s).kind = "add" => OpOf(s).id # v
  BY <1>3, <1>6 DEF Writes
<1> HIDE DEF v, k, seen
<1>8. \/ lines'[k][key] = None
      \/ /\ lines[k][key] # None /\ lines'[k][key].id = lines[k][key].id
         /\ lines'[k][key].due = lines[k][key].due
  BY <1>3, <1>6, <1>7, LooseRows
<1>9. CASE lines'[k][key] = None
  BY <1>4, <1>9 DEF IdOf, Held, DueOf
<1>10. CASE lines'[k][key] # None
  BY <1>4, <1>8, <1>10 DEF IdOf, DueOf
<1> QED
  BY <1>9, <1>10

\* and what it reads is what its line is due.
LEMMA OwnReadDue ==
  ASSUME CartFrame, AddInv, NEW s \in Slots, Handle(s)
  PROVE  ReadsDue(s)'
<1>1. Busy(s) /\ raced' = raced
  BY HandleMoves DEF CartFrame, outside
<1>2. CASE run'[s].pc # "write" \/ OpOf(s)'.kind # "add"
  BY <1>2 DEF ReadsDue
<1>3. CASE ReadLines(s)
  <2> DEFINE k == run[s].saw.cart
             saw == [cart |-> k, left |-> run[s].saw.left, rows |-> lines[k]]
  <2>1. Proceeds(s, "write", saw) /\ lines' = lines /\ run[s].pc = "cart"
    BY <1>3 DEF ReadLines, rowVars
  <2>2. saw.cart = k /\ saw.rows = lines[k]
    OBVIOUS
  <2>3. k \in Carts
    BY <1>1, <2>1 DEF CartFrame, FoundInv, SeenBy
  <2> HIDE DEF saw, k
  <2>4. run'[s].op = run[s].op /\ run'[s].saw = saw
    BY <2>1, ProceedsTo DEF CartFrame
  <2> DEFINE v == OpOf(s).id  key == <<"loose", v>>
  <2>5. SUFFICES ASSUME OpOf(s).kind = "add", v \notin raced
                 PROVE  /\ lines[k][key] # None => lines[k][key].id # 0
                        /\ Held(lines[k], key) = DueOf(lines[k][key])
    BY <1>1, <2>1, <2>2, <2>4 DEF ReadsDue, OpOf, CartOf, IdOf, Held, DueOf
  <2>6. v \in Loose /\ key \in Keys
    BY <1>1, <2>5, NamesGoods, KeysAreFew DEF CartFrame
  <2>7. lines[k][key] # None => lines[k][key].id # 0
    BY <2>3, <2>6, IdsAreNumbers DEF CartFrame
  <2>8. lines[k][key] # None => lines[k][key].qty = lines[k][key].due
    BY <2>3, <2>5, <2>6 DEF AddInv, RowsDue
  <2> QED
    BY <2>7, <2>8 DEF Held, DueOf
<1>4. ASSUME NEW done, Answer(s, done)
      PROVE  run'[s].pc # "write"
  BY <1>4, AnsweredWith DEF CartFrame, Idle
<1>5. ASSUME NEW pc, NEW saw, Proceeds(s, pc, saw)
      PROVE  run'[s].pc = pc /\ run'[s].op = run[s].op
  BY <1>5, ProceedsTo DEF CartFrame
<1>6. CASE CheckAdd(s)
  <2>1. \E saw : Proceeds(s, IF Viewed = None THEN "cartless" ELSE "cart", saw)
    BY <1>6 DEF CheckAdd
  <2>2. run'[s].pc # "write"
    BY <1>5, <2>1
  <2> QED
    BY <1>2, <2>2
<1>7. CASE CreateCart(s)
  <2>1. \E saw : Proceeds(s, "cart", saw)
    BY <1>7 DEF CreateCart
  <2>2. run'[s].pc # "write"
    BY <1>5, <2>1
  <2> QED
    BY <1>2, <2>2
<1>8. CASE FindLine(s) \/ ReadGroup(s) \/ FindCart(s)
  <2>1. OpOf(s).kind # "add"
    BY <1>8 DEF FindLine, ReadGroup, FindCart, Serves, OpOf
  <2>2. \E pc, saw : Proceeds(s, pc, saw)
    BY <1>8 DEF FindLine, ReadGroup, FindCart
  <2>3. OpOf(s)'.kind # "add"
    BY <1>5, <2>1, <2>2 DEF OpOf
  <2> QED
    BY <1>2, <2>3
<1>9. \/ CheckAdd(s) \/ CreateCart(s) \/ ReadLines(s) \/ FindLine(s) \/ ReadGroup(s) \/ FindCart(s)
      \/ \E done : Answer(s, done)
  BY DEF Handle, WriteAdd, WriteQuantity, WriteSelection, RemoveLine, SelectAll, RemoveSelected,
         SetVoucher, Fails
<1> QED
  BY <1>2, <1>3, <1>4, <1>6, <1>7, <1>8, <1>9

\* Every request leaves the lines it writes at what they are due,
LEMMA RowsStayDue ==
  ASSUME CartFrame, AddInv, NEW s \in Slots, Handle(s)
  PROVE  RowsDue'
<1>1. raced' = raced /\ Busy(s)
  BY HandleMoves DEF CartFrame, outside
<1>2. SUFFICES ASSUME NEW k \in Carts, NEW v \in Loose \ raced, lines'[k][<<"loose", v>>] # None
               PROVE  lines'[k][<<"loose", v>>].qty = lines'[k][<<"loose", v>>].due
  BY <1>1 DEF RowsDue, Carts
<1> DEFINE key == <<"loose", v>>  seen == run[s].saw.rows  left == run[s].saw.left
<1>3. lines[k][key] # None => lines[k][key].qty = lines[k][key].due
  BY DEF AddInv, RowsDue
<1>4. \/ /\ lines[k][key] # None
         /\ lines'[k][key].qty = lines[k][key].qty /\ lines'[k][key].due = lines[k][key].due
      \/ lines'[k][key].qty = lines'[k][key].due
      \/ /\ run[s].pc = "write" /\ OpOf(s).kind = "add" /\ OpOf(s).id = v
         /\ k = run[s].saw.cart /\ IdOf(lines[k][key]) = IdOf(seen[key])
         /\ lines'[k][key].qty = Ceiling(Held(seen, key), OpOf(s).q, left)
         /\ lines'[k][key].due = DueAfter(lines[k][key], OpOf(s).q, left)
  BY <1>2, LooseRows
<1>5. CASE /\ run[s].pc = "write" /\ OpOf(s).kind = "add" /\ OpOf(s).id = v
           /\ k = run[s].saw.cart /\ IdOf(lines[k][key]) = IdOf(seen[key])
           /\ lines'[k][key].qty = Ceiling(Held(seen, key), OpOf(s).q, left)
           /\ lines'[k][key].due = DueAfter(lines[k][key], OpOf(s).q, left)
  <2>1. Held(seen, key) = DueOf(lines[k][key])
    BY <1>1, <1>5 DEF AddInv, ReadsDue, CartOf
  <2>2. Ceiling(DueOf(lines[k][key]), OpOf(s).q, left) = DueAfter(lines[k][key], OpOf(s).q, left)
    BY DEF Ceiling, DueAfter, DueOf
  <2> QED
    BY <1>5, <2>1, <2>2
<1> QED
  BY <1>3, <1>4, <1>5

\* makes no second cart,
LEMMA FirstCartStays ==
  ASSUME CartFrame, AddInv, NEW s \in Slots, Handle(s)
  PROVE  FirstCart'
<1>1. /\ Busy(s) /\ crowded' = crowded
      /\ run' = [o \in Slots |-> IF o = s THEN run'[s] ELSE run[o]]
      /\ run'[s] # Idle => run'[s].op = run[s].op
  <2>1. ASSUME NEW a, NEW b, run'[s] = [pc |-> a, op |-> run[s].op, saw |-> b]
        PROVE  run'[s].op = run[s].op
    BY <2>1
  <2>2. run'[s] = Idle \/ run'[s].op = run[s].op
    BY <2>1, HandleMoves DEF CartFrame
  <2> QED
    BY <2>2, HandleMoves DEF CartFrame, outside
<1>2. SUFFICES ASSUME ~crowded
               PROVE  /\ Len(recent') <= 1
                      /\ \A o \in Slots : Busy(o)' /\ run'[o].pc = "cartless" => recent' = <<>>
                      /\ \A o, q \in Slots :
                           o # q /\ Busy(o)' /\ Busy(q)' /\ Adds(OpOf(o))' /\ Adds(OpOf(q))'
                             => recent' # <<>>
  BY <1>1 DEF FirstCart, Slots
<1>3. /\ Len(recent) <= 1 /\ recent \in Seq(Carts)
      /\ \A o \in Slots : Busy(o) /\ run[o].pc = "cartless" => recent = <<>>
      /\ \A o, q \in Slots :
           o # q /\ Busy(o) /\ Busy(q) /\ Adds(OpOf(o)) /\ Adds(OpOf(q)) => recent # <<>>
  BY <1>2 DEF AddInv, FirstCart, CartFrame, CartsInv
<1>4. \A o \in Slots : Busy(o)' => Busy(o) /\ Adds(OpOf(o))' = Adds(OpOf(o))
  <2> SUFFICES ASSUME NEW o \in Slots, Busy(o)'
               PROVE  Busy(o) /\ run'[o].op = run[o].op
    BY DEF Adds, OpOf
  <2>1. CASE o = s
    BY <1>1, <2>1 DEF Busy, Idle
  <2>2. CASE o # s
    BY <1>1, <2>2 DEF Busy
  <2> QED
    BY <2>1, <2>2
<1>5. ASSUME recent = <<>> <=> recent' = <<>>, Len(recent') = Len(recent),
             Busy(s)' /\ run'[s].pc = "cartless" => recent = <<>>
      PROVE  /\ Len(recent') <= 1
             /\ \A o \in Slots : Busy(o)' /\ run'[o].pc = "cartless" => recent' = <<>>
             /\ \A o, q \in Slots :
                  o # q /\ Busy(o)' /\ Busy(q)' /\ Adds(OpOf(o))' /\ Adds(OpOf(q))' => recent' # <<>>
  <2>1. ASSUME NEW o \in Slots, Busy(o)', run'[o].pc = "cartless"
        PROVE  recent' = <<>>
    <3>1. CASE o = s
      BY <1>5, <2>1, <3>1
    <3>2. CASE o # s
      <4>1. run'[o] = run[o] /\ Busy(o)
        BY <1>1, <1>4, <2>1, <3>2
      <4> QED
        BY <1>3, <1>5, <2>1, <4>1
    <3> QED
      BY <3>1, <3>2
  <2> QED
    BY <1>3, <1>4, <1>5, <2>1
<1>6. CASE CreateCart(s)
  <2>1. run[s].pc = "cartless" /\ recent = <<>> /\ recent' = <<Len(recent) + 1>> \o recent
    BY <1>1, <1>3, <1>6 DEF CreateCart
  <2>2. recent' = <<1>>
    BY <2>1
  <2>3. Len(recent') <= 1 /\ recent' # <<>>
    BY <2>2
  <2>4. Adds(OpOf(s))
    BY <1>1, <2>1 DEF CartFrame, FoundInv, SeenBy, Adds
  <2>5. ASSUME NEW o \in Slots, Busy(o)', run'[o].pc = "cartless"
        PROVE  FALSE
    <3>1. CASE o = s
      <4>1. \E saw : Proceeds(s, "cart", saw)
        BY <1>6 DEF CreateCart
      <4>2. run'[s].pc = "cart"
        BY <4>1, ProceedsTo DEF CartFrame
      <4> QED
        BY <2>5, <3>1, <4>2
    <3>2. CASE o # s
      <4>1. run[o].pc = "cartless" /\ Busy(o)
        BY <1>1, <1>4, <2>5, <3>2
      <4>2. Adds(OpOf(o))
        BY <4>1 DEF CartFrame, FoundInv, SeenBy, Adds
      <4> QED
        BY <1>1, <1>3, <2>1, <2>4, <3>2, <4>1, <4>2
    <3> QED
      BY <3>1, <3>2
  <2> QED
    BY <2>3, <2>5
<1>7. ASSUME NEW k, Touch(k)
      PROVE  Len(recent') = Len(recent) /\ recent' \in Seq(Carts) /\ recent # <<>> /\ recent' # <<>>
  <2>1. Len(recent') = Len(recent) /\ recent' \in Seq(Carts)
    BY <1>3, <1>7, Touched
  <2>2. \E i \in DOMAIN recent : recent[i] = k
    BY <1>7 DEF Touch
  <2>3. recent # <<>> /\ Len(recent) # 0
    BY <1>3, <2>2
  <2>4. recent' # <<>>
    BY <2>1, <2>3
  <2> QED
    BY <2>1, <2>3, <2>4
<1>8. ASSUME NEW done, Answer(s, done)
      PROVE  run'[s].pc # "cartless"
  BY <1>8, AnsweredWith DEF CartFrame, Idle
<1>9. CASE CheckAdd(s)
  <2>1. recent' = recent /\ \E saw : Proceeds(s, IF Viewed = None THEN "cartless" ELSE "cart", saw)
    BY <1>9 DEF CheckAdd, rowVars
  <2>2. run'[s].pc = IF Viewed = None THEN "cartless" ELSE "cart"
    BY <2>1, ProceedsTo DEF CartFrame
  <2>3. run'[s].pc = "cartless" => recent = <<>>
    BY <1>3, <2>2, ViewedCart
  <2> QED
    BY <1>5, <2>1, <2>3
<1>10. CASE /\ recent' = recent
            /\ \E pc \in {"group", "write"} : \E saw : Proceeds(s, pc, saw)
  <2>1. run'[s].pc \in {"group", "write"}
    BY <1>10, ProceedsTo DEF CartFrame
  <2> QED
    BY <1>5, <1>10, <2>1
<1>11. CASE /\ \E done : Answer(s, done)
            /\ recent' = recent \/ \E k : Touch(k)
  BY <1>5, <1>7, <1>8, <1>11
<1>12. ReadLines(s) \/ FindLine(s) \/ ReadGroup(s) \/ FindCart(s) =>
         recent' = recent /\ \E pc \in {"group", "write"} : \E saw : Proceeds(s, pc, saw)
  <2>1. ReadLines(s) \/ FindLine(s) \/ ReadGroup(s) \/ FindCart(s) => recent' = recent
    BY DEF ReadLines, FindLine, ReadGroup, FindCart, rowVars
  <2>2. FindLine(s) => \E at : Proceeds(s, IF at[2] \in Group /\ OpOf(s).kind = "quantity" THEN "group"
                                           ELSE "write", [cart |-> at[1], key |-> at[2]])
    BY DEF FindLine
  <2>3. FindLine(s) => \E pc \in {"group", "write"} : \E saw : Proceeds(s, pc, saw)
    BY <2>2
  <2>4. ReadLines(s) \/ ReadGroup(s) \/ FindCart(s) => \E saw : Proceeds(s, "write", saw)
    BY DEF ReadLines, ReadGroup, FindCart
  <2> QED
    BY <2>1, <2>3, <2>4
<1>13. WriteAdd(s) \/ WriteQuantity(s) \/ WriteSelection(s) \/ RemoveLine(s) \/ SelectAll(s)
         \/ RemoveSelected(s) \/ SetVoucher(s) \/ Fails(s) =>
           (\E done : Answer(s, done)) /\ (recent' = recent \/ \E k : Touch(k))
  BY DEF WriteAdd, WriteQuantity, WriteSelection, RemoveLine, SelectAll, RemoveSelected, SetVoucher,
         Fails, DeleteRows, rowVars
<1> QED
  BY <1>6, <1>9, <1>10, <1>11, <1>12, <1>13 DEF Handle

\* and names no row that is not made.
LEMMA AddHandles ==
  ASSUME CartFrame, AddInv, NEW s \in Slots, Handle(s)
  PROVE  AddInv'
<1>1. /\ Busy(s) /\ raced' = raced /\ queue' = queue
      /\ run' = [o \in Slots |-> IF o = s THEN run'[s] ELSE run[o]]
      /\ run'[s] # Idle => run'[s].op = run[s].op
  <2>1. ASSUME NEW a, NEW b, run'[s] = [pc |-> a, op |-> run[s].op, saw |-> b]
        PROVE  run'[s].op = run[s].op
    BY <2>1
  <2>2. run'[s] = Idle \/ run'[s].op = run[s].op
    BY <2>1, HandleMoves DEF CartFrame
  <2> QED
    BY <2>2, HandleMoves DEF CartFrame, outside
<1>2. \A o \in Slots : Busy(o)' => Busy(o) /\ run'[o].op = run[o].op
  BY <1>1 DEF Busy, Idle
<1>3. made \in Nat /\ made' \in Nat /\ made <= made'
  BY LinesStep DEF CartFrame, LinesInv
<1>4. IdsAsked /\ WritersApart
  BY DEF AddInv
<1>5. IdsAsked'
  <2>1. ASSUME NEW o \in Slots, Busy(o)', OpOf(o)'.kind = "quantity"
        PROVE  OpOf(o)'.id <= made'
    <3>1. Busy(o) /\ OpOf(o)' = OpOf(o)
      BY <1>2, <2>1 DEF OpOf
    <3>2. OpOf(o).id \in Nat /\ OpOf(o).id <= made
      BY <1>4, <2>1, <3>1, NamesLine DEF CartFrame, IdsAsked
    <3> QED
      BY <1>3, <3>1, <3>2
  <2>2. ASSUME NEW t \in Tabs, NEW i \in DOMAIN queue[t], queue[t][i].op.kind = "quantity"
        PROVE  queue[t][i].op.id <= made'
    <3>1. queue[t][i].op.id <= made
      BY <1>4, <2>2 DEF IdsAsked
    <3>2. queue[t][i].op.id \in Nat
      <4> DEFINE Waiting == [op : PageOps, n : Nat \ {0}]
      <4>1. queue \in [Tabs -> Seq(Waiting)]
        BY DEF CartFrame, SentInv
      <4> HIDE DEF Waiting
      <4>2. queue[t][i] \in Waiting
        BY <4>1
      <4>3. queue[t][i].op \in PageOps
        BY <4>2 DEF Waiting
      <4> QED
        BY <2>2, <4>3, KindsOf
    <3> QED
      BY <1>3, <3>1, <3>2
  <2> QED
    BY <1>1, <2>1, <2>2 DEF IdsAsked, Slots
<1>6. WritersApart'
  <2>1. ASSUME NEW o \in Slots, NEW q \in Slots, o # q, Busy(o)', Busy(q)',
               NEW v \in Writes(OpOf(o))', v \in Writes(OpOf(q))'
        PROVE  v \in raced
    <3>1. Busy(o) /\ v \in Writes(OpOf(o))
      BY <1>2, <1>4, <2>1, WritesKept
    <3>2. Busy(q) /\ v \in Writes(OpOf(q))
      BY <1>2, <1>4, <2>1, WritesKept
    <3> QED
      BY <1>4, <2>1, <3>1, <3>2 DEF WritersApart
  <2> QED
    BY <1>1, <2>1 DEF WritersApart, Slots
<1>7. \A o \in Slots : ReadsDue(o)'
  BY OthersReadDue, OwnReadDue
<1> QED
  BY <1>5, <1>6, <1>7, RowsStayDue, FirstCartStays DEF AddInv, Slots

\* A request that sets out is compared with those under way.
LEMMA AddSetsOut ==
  ASSUME CartFrame, AddInv, NEW s \in Slots, NEW op, ~Busy(s), SetsOut(s, op),
         op.op.kind = "quantity" => op.op.id <= made,
         UNCHANGED <<recent, lines, made>>,
         \A t \in Tabs : \A i \in DOMAIN queue'[t] :
           queue'[t][i].op.kind = "quantity" => queue'[t][i].op.id <= made
  PROVE  AddInv'
<1>1. /\ run'[s] = [pc |-> "sent", op |-> op, saw |-> None]
      /\ \A o \in Slots : o # s => run'[o] = run[o]
  BY Goes DEF CartFrame
<1>2. /\ raced' = raced \union {v \in Writes(op.op) : \E o \in Slots : Busy(o) /\ v \in Writes(OpOf(o))}
      /\ crowded' = (crowded \/ (recent = <<>> /\ Adds(op.op) /\ \E o \in Slots : Busy(o) /\ Adds(OpOf(o))))
  BY DEF SetsOut, OpOf
<1>3. run'[s].op = op /\ run'[s].pc = "sent"
  BY <1>1
<1>4. \A o \in Slots : o # s => OpOf(o)' = OpOf(o) /\ (Busy(o)' <=> Busy(o))
  BY <1>1 DEF OpOf, Busy
<1>5. OpOf(s)' = op.op
  BY <1>3 DEF OpOf
<1>6. IdsAsked'
  <2>1. ASSUME NEW o \in Slots, Busy(o)', OpOf(o)'.kind = "quantity"
        PROVE  OpOf(o)'.id <= made'
    <3>1. CASE o = s
      BY <1>5, <2>1, <3>1
    <3>2. CASE o # s
      BY <1>4, <2>1, <3>2 DEF AddInv, IdsAsked
    <3> QED
      BY <3>1, <3>2
  <2> QED
    BY <2>1 DEF IdsAsked, Slots
<1>7. ASSUME NEW o \in Slots, NEW a, OpOf(o)' = a
      PROVE  Writes(OpOf(o))' = Writes(a)
  BY <1>7 DEF Writes, IdOf, Carts
<1>8. WritersApart'
  <2>1. ASSUME NEW o \in Slots, NEW q \in Slots, o # q, Busy(o)', Busy(q)',
               NEW v \in Writes(OpOf(o))', v \in Writes(OpOf(q))'
        PROVE  v \in raced'
    <3>1. CASE o # s /\ q # s
      <4>1. v \in Writes(OpOf(o)) /\ v \in Writes(OpOf(q)) /\ Busy(o) /\ Busy(q)
        BY <1>4, <1>7, <2>1, <3>1
      <4> QED
        BY <1>2, <2>1, <4>1 DEF AddInv, WritersApart
    <3>2. CASE o = s
      <4>1. v \in Writes(op.op) /\ v \in Writes(OpOf(q)) /\ Busy(q)
        BY <1>4, <1>5, <1>7, <2>1, <3>2
      <4> QED
        BY <1>2, <4>1
    <3>3. CASE q = s
      <4>1. v \in Writes(op.op) /\ v \in Writes(OpOf(o)) /\ Busy(o)
        BY <1>4, <1>5, <1>7, <2>1, <3>3
      <4> QED
        BY <1>2, <4>1
    <3> QED
      BY <3>1, <3>2, <3>3
  <2> QED
    BY <2>1 DEF WritersApart, Slots
<1>9. raced \subseteq raced' /\ (crowded => crowded')
  BY <1>2
<1>10. \A o \in Slots : ReadsDue(o)'
  <2> TAKE o \in Slots
  <2>1. CASE o = s
    BY <1>3, <2>1 DEF ReadsDue
  <2>2. CASE o # s
    <3>1. run'[o] = run[o] /\ ReadsDue(o) /\ lines' = lines
      BY <1>1, <2>2 DEF AddInv
    <3> QED
      BY <1>9, <3>1 DEF ReadsDue, Busy, OpOf, CartOf, IdOf, Held, DueOf
  <2> QED
    BY <2>1, <2>2
<1>11. RowsDue'
  BY <1>9 DEF AddInv, RowsDue, Carts
<1>12. FirstCart'
  <2> SUFFICES ASSUME ~crowded'
               PROVE  /\ Len(recent) <= 1
                      /\ \A o \in Slots : Busy(o)' /\ run'[o].pc = "cartless" => recent = <<>>
                      /\ \A o, q \in Slots :
                           o # q /\ Busy(o)' /\ Busy(q)' /\ Adds(OpOf(o))' /\ Adds(OpOf(q))'
                             => recent # <<>>
    BY DEF FirstCart, Slots
  <2>1. /\ Len(recent) <= 1
        /\ \A o \in Slots : Busy(o) /\ run[o].pc = "cartless" => recent = <<>>
        /\ \A o, q \in Slots :
             o # q /\ Busy(o) /\ Busy(q) /\ Adds(OpOf(o)) /\ Adds(OpOf(q)) => recent # <<>>
    BY <1>9 DEF AddInv, FirstCart
  <2>2. \A o \in Slots : Busy(o)' /\ run'[o].pc = "cartless" => recent = <<>>
    BY <1>1, <1>3, <1>4, <2>1
  <2>3. \A o \in Slots : Adds(OpOf(o))' = IF o = s THEN Adds(op.op) ELSE Adds(OpOf(o))
    BY <1>4, <1>5 DEF Adds
  <2>4. \A o \in Slots : o # s /\ Busy(o) /\ Adds(OpOf(o)) /\ Adds(op.op) => recent # <<>>
    BY <1>2
  <2> QED
    BY <1>4, <2>1, <2>2, <2>3, <2>4
<1> QED
  BY <1>6, <1>8, <1>10, <1>11, <1>12 DEF AddInv, Slots

\* An answer that is given up on leaves its request under way,
LEMMA AddLoses ==
  ASSUME CartFrame, AddInv, NEW t \in Tabs, LoseAnswer(t)
  PROVE  AddInv'
<1> DEFINE page == <<t, "page">>  lost == <<t, "lost">>
<1>1. /\ UNCHANGED <<recent, lines, made, queue, raced, crowded>> /\ Busy(page) /\ ~Busy(lost)
      /\ run' = [run EXCEPT ![lost] = run[page], ![page] = Idle]
  BY DEF LoseAnswer
<1>2. page \in Slots /\ lost \in Slots /\ page # lost
  BY SlotFacts
<1>3. DOMAIN run = Slots
  BY DEF CartFrame, SentInv
<1> HIDE DEF page, lost
<1>4. run'[lost] = run[page] /\ run'[page] = Idle
        /\ \A o \in Slots : o # page /\ o # lost => run'[o] = run[o]
  <2> DEFINE first == [run EXCEPT ![lost] = run[page]]
  <2>1. run' = [first EXCEPT ![page] = Idle]
    BY <1>1, Zenon
  <2>2. first = [o \in Slots |-> IF o = lost THEN run[page] ELSE run[o]]
    BY <1>3
  <2> HIDE DEF first
  <2> QED
    BY <1>2, <2>1, <2>2
<1> DEFINE from == [o \in Slots |-> IF o = lost THEN page ELSE o]
<1>5. /\ \A o \in Slots : Busy(o)' => from[o] \in Slots /\ Busy(from[o]) /\ run'[o] = run[from[o]]
      /\ \A o, q \in Slots : Busy(o)' /\ Busy(q)' /\ o # q => from[o] # from[q]
  <2>1. \A o \in Slots : from[o] = IF o = lost THEN page ELSE o
    OBVIOUS
  <2> HIDE DEF from
  <2>2. \A o \in Slots : Busy(o)' => o # page
    BY <1>4 DEF Busy, Idle
  <2>3. \A o \in Slots : Busy(o)' => run'[o] = run[from[o]] /\ from[o] \in Slots
    BY <1>2, <1>4, <2>1, <2>2
  <2>4. \A o \in Slots : Busy(o)' => Busy(from[o])
    BY <2>3 DEF Busy
  <2> QED
    BY <1>2, <2>1, <2>2, <2>3, <2>4
<1> HIDE DEF from
<1>6. \A o \in Slots : Busy(o)' => OpOf(o)' = OpOf(from[o]) /\ CartOf(o)' = CartOf(from[o])
  BY <1>5 DEF OpOf, CartOf
<1>7. IdsAsked'
  BY <1>1, <1>5, <1>6 DEF AddInv, IdsAsked, Slots
<1>8. ASSUME NEW o \in Slots, Busy(o)'
      PROVE  Writes(OpOf(o))' = Writes(OpOf(from[o])) /\ Adds(OpOf(o))' = Adds(OpOf(from[o]))
  <2>1. OpOf(o)' = OpOf(from[o])
    BY <1>6, <1>8
  <2> QED
    BY <1>1, <2>1 DEF Writes, Adds, IdOf, Carts
<1>9. WritersApart'
  <2>1. ASSUME NEW o \in Slots, NEW q \in Slots, o # q, Busy(o)', Busy(q)',
               NEW v \in Writes(OpOf(o))', v \in Writes(OpOf(q))'
        PROVE  v \in raced
    <3>1. v \in Writes(OpOf(from[o])) /\ v \in Writes(OpOf(from[q]))
      BY <1>8, <2>1
    <3> QED
      BY <1>5, <2>1, <3>1 DEF AddInv, WritersApart
  <2> QED
    BY <1>1, <2>1 DEF WritersApart, Slots
<1>10. \A o \in Slots : ReadsDue(o)'
  <2> TAKE o \in Slots
  <2>1. CASE Busy(o)'
    <3>1. PICK q \in Slots : run'[o] = run[q] /\ ReadsDue(q)
      BY <1>5, <2>1 DEF AddInv
    <3>2. lines' = lines /\ raced' = raced
      BY <1>1
    <3> QED
      BY <3>1, <3>2 DEF ReadsDue, Busy, OpOf, CartOf, IdOf, Held, DueOf
  <2>2. CASE ~Busy(o)'
    BY <2>2 DEF ReadsDue
  <2> QED
    BY <2>1, <2>2
<1>11. RowsDue'
  BY <1>1 DEF AddInv, RowsDue, Carts
<1>12. FirstCart'
  BY <1>1, <1>5, <1>8 DEF AddInv, FirstCart, Slots
<1> QED
  BY <1>7, <1>9, <1>10, <1>11, <1>12 DEF AddInv, Slots

\* as does whatever moves no row and no request,
LEMMA AddUnmoved ==
  ASSUME AddInv, UNCHANGED <<recent, lines, run, raced, crowded>>
  PROVE  (WritersApart /\ (\A s \in Slots : ReadsDue(s)) /\ RowsDue /\ FirstCart)'
<1>1. \A s \in Slots : /\ OpOf(s)' = OpOf(s) /\ (Busy(s)' <=> Busy(s))
                       /\ Writes(OpOf(s))' = Writes(OpOf(s)) /\ (Adds(OpOf(s))' <=> Adds(OpOf(s)))
  <2> TAKE s \in Slots
  <2>1. OpOf(s)' = OpOf(s)
    BY DEF OpOf
  <2> QED
    BY <2>1 DEF Busy, Writes, Adds, IdOf, Carts
<1>2. WritersApart'
  BY <1>1 DEF AddInv, WritersApart, Slots
<1>3. \A s \in Slots : ReadsDue(s)'
  <2> TAKE s \in Slots
  <2>1. ReadsDue(s) /\ run'[s] = run[s] /\ lines' = lines /\ raced' = raced
    BY DEF AddInv
  <2> QED
    BY <2>1 DEF ReadsDue, Busy, OpOf, CartOf, IdOf, Held, DueOf
<1>4. RowsDue'
  BY DEF AddInv, RowsDue, Carts
<1>5. FirstCart'
  BY <1>1 DEF AddInv, FirstCart, Slots
<1> QED
  BY <1>2, <1>3, <1>4, <1>5 DEF Slots

\* and a click that waits is about a row that was shown.
LEMMA AddPresses ==
  ASSUME CartFrame, AddInv, NEW t \in Tabs, NEW op, Press(t, op),
         op.kind = "quantity" => op.id <= made
  PROVE  AddInv'
<1> DEFINE x == [op |-> op, n |-> clicks + 1]
<1>1. /\ UNCHANGED <<recent, lines, made, run, raced, crowded>>
      /\ queue' = [queue EXCEPT ![t] = Append(queue[t], x)]
  BY DEF Press
<1>2. queue \in [Tabs -> Seq([op : PageOps, n : Nat \ {0}])]
  BY DEF CartFrame, SentInv
<1> DEFINE W == [op : PageOps, n : Nat \ {0}]
<1>3. queue[t] \in Seq(W)
  BY <1>2
<1>4. x.op = op
  OBVIOUS
<1> HIDE DEF x, W
<1>5. IdsAsked'
  <2>1. ASSUME NEW u \in Tabs, NEW i \in DOMAIN queue'[u], queue'[u][i].op.kind = "quantity"
        PROVE  queue'[u][i].op.id <= made
    <3>1. CASE u = t
      <4>1. queue'[u] = Append(queue[t], x)
        BY <1>1, <1>2, <3>1
      <4>2. queue'[u][i] = x \/ (i \in DOMAIN queue[t] /\ queue'[u][i] = queue[t][i])
        <5>1. /\ DOMAIN Append(queue[t], x) = 1 .. Len(queue[t]) + 1 /\ DOMAIN queue[t] = 1 .. Len(queue[t])
              /\ Len(queue[t]) \in Nat
              /\ \A j \in 1 .. Len(queue[t]) + 1 :
                   Append(queue[t], x)[j] = IF j <= Len(queue[t]) THEN queue[t][j] ELSE x
          BY <1>3
        <5> QED
          BY <2>1, <4>1, <5>1
      <4>3. CASE queue'[u][i] = x
        BY <1>4, <2>1, <4>3
      <4>4. CASE i \in DOMAIN queue[t] /\ queue'[u][i] = queue[t][i]
        BY <2>1, <4>4 DEF AddInv, IdsAsked
      <4> QED
        BY <4>2, <4>3, <4>4
    <3>2. CASE u # t
      <4>1. queue'[u] = queue[u]
        BY <1>1, <1>2, <3>2
      <4> QED
        BY <2>1, <4>1 DEF AddInv, IdsAsked
    <3> QED
      BY <3>1, <3>2
  <2>2. \A s \in Slots : Busy(s)' /\ OpOf(s)'.kind = "quantity" => OpOf(s)'.id <= made
    BY <1>1 DEF AddInv, IdsAsked, Busy, OpOf
  <2> QED
    BY <1>1, <2>1, <2>2 DEF IdsAsked, Slots
<1>6. (WritersApart /\ (\A s \in Slots : ReadsDue(s)) /\ RowsDue /\ FirstCart)'
  BY <1>1, AddUnmoved
<1> QED
  BY <1>5, <1>6 DEF AddInv, Slots

\* Every step lets additions add up.
LEMMA AddStep ==
  ASSUME CartFrame, AddInv, [Next]_vars
  PROVE  AddInv'
<1>1. CASE UNCHANGED <<recent, lines, made, queue, run, raced, crowded>>
  <2>1. IdsAsked'
    BY <1>1 DEF AddInv, IdsAsked, Busy, OpOf, Slots
  <2> QED
    BY <1>1, <2>1, AddUnmoved DEF AddInv, Slots
<1>2. \A id \in Shown : id <= made
  BY ShownHaveIds DEF CartFrame
<1>3. ASSUME NEW t \in Tabs, NEW op \in PageOps, Press(t, op), op.kind = "quantity" => op.id \in Shown
      PROVE  AddInv'
  BY <1>2, <1>3, AddPresses
<1>4. ASSUME NEW t \in Tabs, NEW op \in ButtonOps, PushButton(t, op)
      PROVE  AddInv'
  <2> DEFINE s == <<t, "button">>  click == [op |-> op, n |-> clicks + 1]
  <2>1. SetsOut(s, click) /\ UNCHANGED <<recent, lines, made, queue>> /\ ~Busy(s)
    BY <1>4 DEF PushButton
  <2>2. s \in Slots /\ click.op = op /\ op.kind # "quantity"
    BY SlotFacts, KindsOf
  <2> HIDE DEF s, click
  <2>3. \A u \in Tabs : \A i \in DOMAIN queue'[u] :
          queue'[u][i].op.kind = "quantity" => queue'[u][i].op.id <= made
    BY <2>1 DEF AddInv, IdsAsked
  <2> QED
    BY <2>1, <2>2, <2>3, AddSetsOut
<1>5. ASSUME NEW t \in Tabs, SendNext(t)
      PROVE  AddInv'
  <2>1. PICK j : Send(t, j)
    BY <1>5 DEF SendNext
  <2> DEFINE s == <<t, "page">>  q == queue[t]
  <2>2. /\ q # <<>> /\ SetsOut(s, q[1]) /\ UNCHANGED <<recent, lines, made>> /\ ~Busy(s)
        /\ queue' = [queue EXCEPT ![t] = Tail(q)]
    BY <2>1, FrameSends DEF Send
  <2>3. s \in Slots
    BY SlotFacts
  <2> DEFINE W == [op : PageOps, n : Nat \ {0}]
  <2>4. queue \in [Tabs -> Seq(W)] /\ q \in Seq(W)
    BY DEF CartFrame, SentInv
  <2> HIDE DEF W
  <2>5. /\ 1 \in DOMAIN q /\ queue'[t] = Tail(q) /\ \A u \in Tabs : u # t => queue'[u] = queue[u]
        /\ \A i \in DOMAIN Tail(q) : i + 1 \in DOMAIN q /\ Tail(q)[i] = q[i + 1]
    BY <2>2, <2>4
  <2>6. \A i \in DOMAIN q : q[i].op.kind = "quantity" => q[i].op.id <= made
    BY DEF AddInv, IdsAsked
  <2> HIDE DEF s, q
  <2>7. \A u \in Tabs : \A i \in DOMAIN queue'[u] :
          queue'[u][i].op.kind = "quantity" => queue'[u][i].op.id <= made
    <3> TAKE u \in Tabs
    <3>1. CASE u = t
      BY <2>5, <2>6, <3>1
    <3>2. CASE u # t
      BY <2>5, <3>2 DEF AddInv, IdsAsked
    <3> QED
      BY <3>1, <3>2
  <2> QED
    BY <2>2, <2>3, <2>5, <2>6, <2>7, AddSetsOut
<1>6. ASSUME NEW t \in Tabs, Clicked(t)
      PROVE  AddInv'
  <2>1. CASE \E op \in ButtonOps : PushButton(t, op)
    BY <1>4, <2>1
  <2>2. CASE \E op \in PageOps : Press(t, op) /\ (op.kind = "quantity" => op.id \in Shown)
    BY <1>3, <2>2
  <2> QED
    BY <1>6, <2>1, <2>2, ClicksAre DEF CartFrame
<1>7. ASSUME NEW v, NEW n, ShelfMoves(v, n)
      PROVE  AddInv'
  BY <1>1, <1>7 DEF ShelfMoves
<1>8. UNCHANGED cartVars => AddInv'
  BY <1>1 DEF cartVars
<1> QED
  BY <1>5, <1>6, <1>7, <1>8, AddHandles, AddLoses DEF Next, vars, CartNext

\* In the first cart, empty or full, every quantity is the one due.
LEMMA AddBegins ==
  ASSUME CartInit \/ EmptyCart
  PROVE  AddInv
<1>1. NoRequests
  BY Beginning
<1>2. \A s \in Slots : ~Busy(s)
  BY <1>1 DEF NoRequests, Busy, Idle
<1>3. IdsAsked
  <2>1. queue = [t \in Tabs |-> <<>>]
    BY <1>1 DEF NoRequests
  <2> QED
    BY <1>2, <2>1 DEF IdsAsked
<1>4. FirstCart
  <2>1. recent = <<>> \/ recent = <<1>>
    BY Beginning
  <2>2. Len(<<>>) = 0 /\ Len(<<1>>) = 1
    OBVIOUS
  <2>3. CASE recent = <<>>
    BY <1>2, <2>2, <2>3 DEF FirstCart
  <2>4. CASE recent = <<1>>
    BY <1>2, <2>2, <2>4 DEF FirstCart
  <2> QED
    BY <2>1, <2>3, <2>4
<1>5. RowsDue
  <2> SUFFICES ASSUME NEW k \in Carts, NEW v \in Loose, lines[k][<<"loose", v>>] # None
               PROVE  lines[k][<<"loose", v>>].qty = lines[k][<<"loose", v>>].due
    BY DEF RowsDue
  <2> DEFINE key == <<"loose", v>>
  <2>1. key \in Keys \ Group
    BY KeysAreFew
  <2> HIDE DEF key
  <2>2. k = 1 /\ lines[1][key] = Row(lines[1][key].id, 1, 1)
    BY <2>1, Beginning DEF key
  <2>3. \A i : Row(i, 1, 1).qty = Row(i, 1, 1).due
    BY DEF Row
  <2> QED
    BY <2>2, <2>3 DEF key
<1> QED
  BY <1>2, <1>3, <1>4, <1>5 DEF AddInv, WritersApart, ReadsDue

\* A behaviour is about the cart, or has none.
LEMMA CartBegins ==
  ASSUME Init
  PROVE  CartInit \/ EmptyCart
  BY DEF Init

\* A line holds what was chosen and added, and a session has one cart, unless
\* two requests under way at once were to write the line or to make the cart.
THEOREM AdditionsTheorem == Spec => []AdditionsAddUp
<1>1. Init => CartFrame /\ AddInv
  BY CartBegins, Beginning, AddBegins
<1>2. CartFrame /\ AddInv /\ [Next]_vars => (CartFrame /\ AddInv)'
  BY FrameStep, AddStep
<1>3. AddInv => AdditionsAddUp
  BY DEF AdditionsAddUp, AddInv, RowsDue, FirstCart
<1> QED
  BY <1>1, <1>2, <1>3, PTL DEF Spec

-----------------------------------------------------------------------------
(* A bundle stays whole.                                                   *)

\* All components or none, for one number of bundles and ticked together.
Whole(table) ==
  \/ \A key \in Group : table[key] = None
  \/ /\ \A key \in Group : table[key] # None
     /\ \E n \in 1..MaxPerLine : \A key \in Group : table[key].qty = n * Per[key[2]]
     /\ \A a, b \in Group : table[a].selected = table[b].selected

Typed(row) == row.qty \in Nat /\ row.selected \in BOOLEAN /\ row.due \in Nat /\ row.by \in Nat

\* What a request that is about to write has read of a bundle is whole too, and
\* so is what it will delete of one.
Intent(s) ==
  Busy(s) =>
    LET r == run[s]  kind == OpOf(s).kind IN
    /\ kind \in {"add", "bundle"} /\ r.pc \in {"cartless", "cart", "write"} =>
         r.saw.left \in Nat \ {0}
    /\ r.pc = "write" /\ kind = "add" => Held(r.saw.rows, <<"loose", OpOf(s).id>>) \in Nat
    /\ r.pc = "write" /\ (kind = "quantity" => r.saw.key \in Group) /\ kind \in {"bundle", "quantity"} =>
         Whole(r.saw.rows)
    /\ r.pc = "write" /\ kind = "clear" =>
         /\ r.saw.ids \subseteq 0..made
         /\ \A a, b \in Group :
              /\ lines[r.saw.cart][a] # None /\ lines[r.saw.cart][b] # None
              /\ lines[r.saw.cart][a].id \in r.saw.ids
              => lines[r.saw.cart][b].id \in r.saw.ids

BundleInv ==
  /\ \A k \in Carts : Whole(lines[k])
  /\ \A k \in Carts : \A key \in RowsOf(k) : Typed(lines[k][key])
  /\ \A s \in Slots : Intent(s)

\* What is out of stock now was out of stock at some time.
ShelfInv ==
  /\ shelf \in [Loose \union Bundled -> Nat]
  /\ \A v \in Bundled : shelf[v] = 0 => v \in soldOut

\* The rows of a bundle keep their ids, or all of them are new.
GroupKept(k) ==
  \/ \A key \in Group : lines'[k][key] # None =>
       lines[k][key] # None /\ lines'[k][key].id = lines[k][key].id
  \/ \A key \in Group : lines'[k][key] # None => lines'[k][key].id \in made + 1 .. made'

\* A write leaves the bundle of a cart whole.
LeftWhole(k) ==
  /\ Whole(lines'[k]) /\ GroupKept(k)
  /\ \A key \in Keys : lines'[k][key] # None => Typed(lines'[k][key])

\* A bundle has components, each with a number per bundle.
LEMMA GroupFacts ==
  /\ Group # {} /\ Group \subseteq Keys
  /\ \A key \in Group : key[2] \in Bundled /\ Per[key[2]] \in Nat \ {0}
  /\ \A v \in Bundled : <<"bundle", v>> \in Group
  /\ MaxPerLine \in Nat \ {0} /\ \A q \in Quantities : q \in 1..MaxPerLine
<1>1. PICK v \in Bundled : TRUE
  BY CartAssumption
<1>2. \A x \in Bundled : <<"bundle", x>> \in Group
  BY DEF Group
<1>3. \A key \in Group : key[2] \in Bundled
  BY DEF Group
<1>4. Per \in [Bundled -> Nat \ {0}] /\ MaxPerLine \in Nat \ {0} /\ Quantities \subseteq 1..MaxPerLine
  BY CartAssumption
<1>5. Group # {}
  BY <1>1, <1>2
<1>6. \A key \in Group : Per[key[2]] \in Nat \ {0}
  BY <1>3, <1>4
<1> QED
  BY <1>2, <1>3, <1>4, <1>5, <1>6, KeysAreFew

\* A request's intent outlives the steps of others that keep the bundle together.
LEMMA IntentKept ==
  ASSUME CartFrame, NEW o \in Slots, Intent(o), run'[o] = run[o], made' \in Nat, made <= made',
         \A k \in Carts : GroupKept(k)
  PROVE  Intent(o)'
<1>1. SUFFICES ASSUME Busy(o)
               PROVE  Intent(o)'
  BY DEF Intent, Busy
<1>2. made \in Nat
  BY DEF CartFrame, LinesInv
<1>3. ASSUME run[o].pc = "write", OpOf(o).kind = "clear"
      PROVE  /\ run[o].saw.ids \subseteq 0..made'
             /\ \A a, b \in Group :
                  /\ lines'[run[o].saw.cart][a] # None /\ lines'[run[o].saw.cart][b] # None
                  /\ lines'[run[o].saw.cart][a].id \in run[o].saw.ids
                  => lines'[run[o].saw.cart][b].id \in run[o].saw.ids
  <2> DEFINE k == run[o].saw.cart  ids == run[o].saw.ids
  <2>1. /\ ids \subseteq 0..made
        /\ \A a, b \in Group : lines[k][a] # None /\ lines[k][b] # None /\ lines[k][a].id \in ids
                                 => lines[k][b].id \in ids
    BY <1>1, <1>3 DEF Intent
  <2>2. k \in Carts
    BY <1>1, <1>3 DEF CartFrame, FoundInv, SeenBy
  <2>3. GroupKept(k)
    BY <2>2
  <2> HIDE DEF k, ids
  <2>4. ids \subseteq 0..made'
    BY <1>2, <2>1
  <2>5. ASSUME NEW a \in Group, NEW b \in Group, lines'[k][a] # None, lines'[k][b] # None,
               lines'[k][a].id \in ids
        PROVE  lines'[k][b].id \in ids
    <3>1. CASE \A key \in Group : lines'[k][key] # None =>
                 lines[k][key] # None /\ lines'[k][key].id = lines[k][key].id
      BY <2>1, <2>5, <3>1
    <3>2. CASE \A key \in Group : lines'[k][key] # None => lines'[k][key].id \in made + 1 .. made'
      <4>1. lines'[k][a].id \in made + 1 .. made' /\ lines'[k][a].id \in 0..made
        BY <2>1, <2>5, <3>2
      <4> QED
        BY <1>2, <4>1
    <3> QED
      BY <2>3, <3>1, <3>2 DEF GroupKept
  <2> QED
    BY <2>4, <2>5 DEF k, ids
<1>4. \A table : Whole(table) => Whole(table)'
  BY DEF Whole
<1> QED
  BY <1>1, <1>3, <1>4 DEF Intent, Busy, OpOf

\* A row is something.
LEMMA RowIsThere ==
  /\ \A i, q, d, b \in Nat, tick \in BOOLEAN :
       [id |-> i, qty |-> q, selected |-> tick, due |-> d, by |-> b] # None
  /\ \A i, q, d \in Nat : Row(i, q, d) # None /\ Typed(Row(i, q, d)) /\ Row(i, q, d).qty = q
                          /\ Row(i, q, d).selected = TRUE /\ Row(i, q, d).id = i
<1>1. None \notin [id : Nat, qty : Nat, selected : BOOLEAN, due : Nat, by : Nat]
  BY CartAssumption
<1>2. \A i, q, d, b \in Nat, tick \in BOOLEAN :
        [id |-> i, qty |-> q, selected |-> tick, due |-> d, by |-> b] # None
  BY <1>1
<1>3. \A i, q, d \in Nat : Row(i, q, d) # None
  BY <1>2 DEF Row
<1>4. \A i, q, d \in Nat : Typed(Row(i, q, d)) /\ Row(i, q, d).qty = q
                           /\ Row(i, q, d).selected = TRUE /\ Row(i, q, d).id = i
  BY DEF Row, Typed
<1> QED
  BY <1>2, <1>3, <1>4

\* A quantity is held between one and the limit of a line.
LEMMA Bounds ==
  ASSUME NEW held \in Nat, NEW q \in Quantities, NEW left \in Nat \ {0}
  PROVE  /\ Ceiling(held, q, left) \in 1..MaxPerLine
         /\ \A row : (IF row = None THEN 0 ELSE row.due) = held =>
              DueAfter(row, q, left) = Ceiling(held, q, left)
<1>1. q \in Nat \ {0} /\ MaxPerLine \in Nat \ {0}
  <2>1. q \in 1..MaxPerLine /\ MaxPerLine \in Nat \ {0}
    BY GroupFacts
  <2> QED
    BY <2>1
<1>2. held + q \in Nat \ {0}
  BY <1>1
<1> DEFINE S == {held + q, MaxPerLine, left}
<1>3. IsFiniteSet({held + q}) /\ IsFiniteSet({MaxPerLine}) /\ IsFiniteSet({left})
  BY FS_Singleton
<1>4. IsFiniteSet({held + q} \union {MaxPerLine})
  BY <1>3, FS_Union
<1>5. IsFiniteSet(({held + q} \union {MaxPerLine}) \union {left})
  BY <1>3, <1>4, FS_Union
<1>6. S = ({held + q} \union {MaxPerLine}) \union {left}
  OBVIOUS
<1>7. IsFiniteSet(S) /\ S # {} /\ S \subseteq Int /\ MaxPerLine \in S /\ \A x \in S : x \in Nat \ {0}
  BY <1>1, <1>2, <1>5, <1>6
<1> HIDE DEF S
<1>8. Min(S) \in S /\ \A x \in S : Min(S) <= x
  BY <1>7, LeastNumber
<1>9. Min(S) \in 1..MaxPerLine
  <2> DEFINE m == Min(S)
  <2>1. m \in Nat \ {0} /\ m <= MaxPerLine
    BY <1>7, <1>8
  <2> HIDE DEF m
  <2>2. m \in 1..MaxPerLine
    BY <1>1, <2>1
  <2> QED
    BY <2>2 DEF m
<1>10. Ceiling(held, q, left) = Min(S)
  BY DEF Ceiling, S
<1> QED
  BY <1>9, <1>10 DEF DueAfter, Ceiling

\* Whatever is shared out over the components of the bundle.
LEMMA LeastShare ==
  ASSUME NEW g \in [Bundled -> Nat]
  PROVE  Min({g[v] : v \in Bundled}) \in Nat
<1> DEFINE S == {g[v] : v \in Bundled}
<1>1. g \in [Bundled -> S] /\ \A x \in S : \E v \in Bundled : g[v] = x
  OBVIOUS
<1>2. S # {} /\ S \subseteq Int /\ \A x \in S : x \in Nat
  BY CartAssumption
<1> HIDE DEF S
<1>3. g \in Surjection(Bundled, S)
  BY <1>1 DEF Surjection
<1>4. IsFiniteSet(S)
  BY <1>3, FS_Surjection, CartAssumption
<1>5. Min(S) \in Nat
  BY <1>2, <1>4, LeastNumber
<1> QED
  BY <1>5 DEF S

\* A bundle in the cart is some number of bundles.
LEMMA BundlesHeldWhole ==
  ASSUME NEW table, Whole(table)
  PROVE  BundlesHeld(table) \in Nat
<1> DEFINE g == [v \in Bundled |-> Held(table, <<"bundle", v>>) \div Per[v]]
<1>1. ASSUME NEW v \in Bundled
      PROVE  Held(table, <<"bundle", v>>) \in Nat /\ Per[v] \in Nat \ {0}
  <2>1. <<"bundle", v>> \in Group /\ <<"bundle", v>>[2] = v
    BY GroupFacts
  <2>2. Per[v] \in Nat \ {0}
    BY CartAssumption
  <2>3. CASE \A key \in Group : table[key] = None
    BY <2>1, <2>2, <2>3 DEF Held
  <2>4. CASE /\ \A key \in Group : table[key] # None
             /\ \E n \in 1..MaxPerLine : \A key \in Group : table[key].qty = n * Per[key[2]]
    <3>1. PICK n \in 1..MaxPerLine : \A key \in Group : table[key].qty = n * Per[key[2]]
      BY <2>4
    <3>2. n \in Nat
      BY GroupFacts
    <3>3. n * Per[v] \in Nat
      BY <2>2, <3>2
    <3> QED
      BY <2>1, <2>2, <2>4, <3>1, <3>3 DEF Held
  <2> QED
    BY <2>3, <2>4 DEF Whole
<1>2. \A x \in Nat, y \in Nat \ {0} : x \div y \in Nat
  OBVIOUS
<1>3. \A v \in Bundled : Held(table, <<"bundle", v>>) \div Per[v] \in Nat
  BY <1>1, <1>2
<1>4. g \in [Bundled -> Nat]
  BY <1>3
<1>5. {g[v] : v \in Bundled} = {Held(table, <<"bundle", v>>) \div Per[v] : v \in Bundled}
  OBVIOUS
<1> HIDE DEF g
<1>6. Min({g[v] : v \in Bundled}) \in Nat
  BY <1>4, LeastShare
<1> QED
  BY <1>5, <1>6 DEF BundlesHeld

\* The bundles left on the shelf are counted.
LEMMA BundlesLeftCounted ==
  ASSUME ShelfInv
  PROVE  BundlesLeft \in Nat
<1> DEFINE g == [v \in Bundled |-> shelf[v] \div Per[v]]
<1>1. \A v \in Bundled : shelf[v] \in Nat /\ Per[v] \in Nat \ {0}
  BY CartAssumption DEF ShelfInv
<1>2. \A x \in Nat, y \in Nat \ {0} : x \div y \in Nat
  OBVIOUS
<1>3. g \in [Bundled -> Nat]
  BY <1>1, <1>2
<1>4. {g[v] : v \in Bundled} = {shelf[v] \div Per[v] : v \in Bundled}
  OBVIOUS
<1> HIDE DEF g
<1>5. Min({g[v] : v \in Bundled}) \in Nat
  BY <1>3, LeastShare
<1> QED
  BY <1>4, <1>5 DEF BundlesLeft

\* Rows that are the same in a group are whole together.
LEMMA SameGroup ==
  ASSUME NEW a, NEW b, \A key \in Group : b[key] = a[key], Whole(a)
  PROVE  Whole(b)
  BY DEF Whole

\* A group is there or it is not.
LEMMA AllOrNone ==
  ASSUME NEW table, Whole(table)
  PROVE  (\A key \in Group : table[key] = None) \/ (\A key \in Group : table[key] # None)
  BY DEF Whole

\* A write changes one cart.
LEMMA OthersLeftWhole ==
  ASSUME BundleInv, NEW c, LeftWhole(c), \A l \in Carts : l # c => lines'[l] = lines[l]
  PROVE  \A k \in Carts : LeftWhole(k)
<1> TAKE k \in Carts
<1>1. CASE k = c
  BY <1>1
<1>2. CASE k # c
  <2>1. lines'[k] = lines[k]
    BY <1>2
  <2>2. \A key \in Keys : lines[k][key] # None => Typed(lines[k][key])
    BY DEF BundleInv, RowsOf
  <2>3. Whole(lines[k])
    BY DEF BundleInv
  <2> QED
    BY <2>1, <2>2, <2>3 DEF LeftWhole, GroupKept
<1> QED
  BY <1>1, <1>2

\* Two ways to leave a bundle whole: not to touch it, or to write all of it.
LEMMA GroupLeftAlone ==
  ASSUME BundleInv, NEW k \in Carts,
         \A key \in Group : lines'[k][key] = lines[k][key],
         \A key \in Keys : lines'[k][key] # None => Typed(lines'[k][key])
  PROVE  LeftWhole(k)
<1>1. Whole(lines[k])
  BY DEF BundleInv
<1>2. Whole(lines'[k])
  BY <1>1, SameGroup
<1> QED
  BY <1>2 DEF LeftWhole, GroupKept

\* The rows of a cart are rows.
LEMMA RowsAreTyped ==
  ASSUME BundleInv, NEW k \in Carts, NEW key \in Keys, lines[k][key] # None
  PROVE  Typed(lines[k][key])
  BY DEF BundleInv, RowsOf

\* An add leaves every bundle whole,
LEMMA AddLeavesWhole ==
  ASSUME CartFrame, BundleInv, NEW s \in Slots, WriteAdd(s)
  PROVE  \A k \in Carts : LeftWhole(k)
<1> DEFINE c == run[s].saw.cart
           q == OpOf(s).q
           left == run[s].saw.left
           sum(key) == Added(s)[key]
<1>1. /\ Busy(s) /\ run[s].pc = "write"
  BY DEF WriteAdd
<1>2. /\ c \in Carts /\ q \in Quantities /\ OpOf(s).kind \in {"add", "bundle"}
      /\ made' \in Nat /\ made <= made'
      /\ AddedKeys(s) \subseteq Keys
      /\ \A l \in Carts : l # c => lines'[l] = lines[l]
      /\ \A key \in Keys \ AddedKeys(s) : lines'[c][key] = lines[c][key]
      /\ \A key \in AddedKeys(s) :
              /\ lines[c][key] = None =>
                   /\ lines'[c][key] = Row(lines'[c][key].id, sum(key), DueAfter(lines[c][key], q, left))
                   /\ lines'[c][key].id \in made + 1 .. made'
              /\ lines[c][key] # None =>
                   lines'[c][key] =
                     [id |-> lines[c][key].id, qty |-> sum(key),
                      selected |-> lines[c][key].selected,
                      due |-> DueAfter(lines[c][key], q, left), by |-> 0]
  <2>1. \A k : k = run[s].saw.cart =>
      /\ k \in Carts /\ q \in Quantities /\ OpOf(s).kind \in {"add", "bundle"}
      /\ made' \in Nat /\ made <= made'
      /\ AddedKeys(s) \subseteq Keys
      /\ \A l \in Carts : l # k => lines'[l] = lines[l]
      /\ \A key \in Keys \ AddedKeys(s) : lines'[k][key] = lines[k][key]
      /\ \A key \in AddedKeys(s) :
              /\ lines[k][key] = None =>
                   /\ lines'[k][key] = Row(lines'[k][key].id, sum(key), DueAfter(lines[k][key], q, left))
                   /\ lines'[k][key].id \in made + 1 .. made'
              /\ lines[k][key] # None =>
                   lines'[k][key] =
                     [id |-> lines[k][key].id, qty |-> sum(key),
                      selected |-> lines[k][key].selected,
                      due |-> DueAfter(lines[k][key], q, left), by |-> 0]
    BY AddWritten
  <2> HIDE DEF q, left, sum
  <2> QED
    BY <2>1
<1>3. left \in Nat \ {0}
  BY <1>1, <1>2 DEF BundleInv, Intent, OpOf
<1>4. made \in Nat
  BY DEF CartFrame, LinesInv
<1> HIDE DEF c, q, left, sum
\* A row that is written is one, with the quantity that was worked out.
<1>5. ASSUME NEW key \in AddedKeys(s), sum(key) \in Nat
      PROVE  /\ lines'[c][key] # None /\ Typed(lines'[c][key]) /\ lines'[c][key].qty = sum(key)
             /\ lines[c][key] = None =>
                  lines'[c][key].selected = TRUE /\ lines'[c][key].id \in made + 1 .. made'
             /\ lines[c][key] # None =>
                  /\ lines'[c][key].selected = lines[c][key].selected
                  /\ lines'[c][key].id = lines[c][key].id
  <2>1. CASE lines[c][key] = None
    <3> DEFINE due == DueAfter(lines[c][key], q, left)
    <3>1. /\ lines'[c][key] = Row(lines'[c][key].id, sum(key), due)
          /\ lines'[c][key].id \in made + 1 .. made'
      BY <1>2, <2>1
    <3>2. lines'[c][key].id \in Nat
      BY <1>2, <1>4, <3>1
    <3>4. due \in Nat
      <4>1. due = Ceiling(0, q, left) /\ Ceiling(0, q, left) \in 1..MaxPerLine
        BY <1>2, <1>3, <2>1, Bounds
      <4> QED
        BY <4>1, GroupFacts
    <3> HIDE DEF due
    <3>3. \A i \in Nat : lines'[c][key] = Row(i, sum(key), due) =>
            /\ lines'[c][key] # None /\ Typed(lines'[c][key]) /\ lines'[c][key].qty = sum(key)
            /\ lines'[c][key].selected = TRUE
      BY <1>5, <3>4, RowIsThere
    <3> QED
      BY <2>1, <3>1, <3>2, <3>3
  <2>2. CASE lines[c][key] # None
    <3> DEFINE due == DueAfter(lines[c][key], q, left)
               i == lines[c][key].id
               tick == lines[c][key].selected
    <3>1. lines'[c][key] = [id |-> i, qty |-> sum(key), selected |-> tick, due |-> due, by |-> 0]
      BY <1>2, <2>2
    <3>2. key \in Keys
      BY <1>2
    <3>3. Typed(lines[c][key]) /\ i \in Nat
      BY <1>2, <2>2, <3>2, RowsAreTyped, IdsAreNumbers DEF CartFrame
    <3>4. due \in Nat
      <4>1. lines[c][key].due \in Nat
        BY <3>3 DEF Typed
      <4>2. \A held \in Nat : lines[c][key].due = held =>
              due = Ceiling(held, q, left) /\ Ceiling(held, q, left) \in 1..MaxPerLine
        BY <1>2, <1>3, <2>2, Bounds
      <4>3. due \in 1..MaxPerLine
        BY <4>1, <4>2
      <4> QED
        BY <4>3, GroupFacts
    <3>5. tick \in BOOLEAN
      BY <3>3 DEF Typed
    <3> HIDE DEF due, i, tick
    <3>6. lines'[c][key] # None
      BY <1>5, <3>1, <3>3, <3>4, <3>5, RowIsThere
    <3>7. Typed(lines'[c][key])
      BY <1>5, <3>1, <3>4, <3>5 DEF Typed
    <3>8. /\ lines'[c][key].qty = sum(key) /\ lines'[c][key].selected = tick
          /\ lines'[c][key].id = i
      BY <3>1
    <3> QED
      BY <2>2, <3>6, <3>7, <3>8 DEF i, tick
  <2> QED
    BY <2>1, <2>2
<1>6. ASSUME \A key \in AddedKeys(s) : sum(key) \in Nat
      PROVE  \A key \in Keys : lines'[c][key] # None => Typed(lines'[c][key])
  <2> TAKE key \in Keys
  <2>1. CASE key \in AddedKeys(s)
    BY <1>5, <1>6, <2>1
  <2>2. CASE key \notin AddedKeys(s)
    BY <1>2, <2>2, RowsAreTyped
  <2> QED
    BY <2>1, <2>2
<1>7. CASE OpOf(s).kind = "add"
  <2> DEFINE goods == <<"loose", OpOf(s).id>>
  <2>1. AddedKeys(s) = {goods} /\ goods \in Keys \ Group
    <3>1. OpOf(s).id \in Loose
      BY <1>1, <1>7, NamesGoods DEF CartFrame
    <3> QED
      BY <1>7, <3>1, KeysAreFew DEF AddedKeys
  <2>2. sum(goods) = Ceiling(Held(run[s].saw.rows, goods), q, left)
    BY <1>7 DEF sum, Added, q, left
  <2>3. Held(run[s].saw.rows, goods) \in Nat
    BY <1>1, <1>7 DEF BundleInv, Intent
  <2>4. sum(goods) \in 1..MaxPerLine
    BY <1>2, <1>3, <2>2, <2>3, Bounds
  <2>5. \A key \in AddedKeys(s) : sum(key) \in Nat
    BY <2>1, <2>4, GroupFacts
  <2>6. \A key \in Keys : lines'[c][key] # None => Typed(lines'[c][key])
    BY <1>6, <2>5
  <2>7. \A key \in Group : lines'[c][key] = lines[c][key]
    BY <1>2, <2>1, KeysAreFew
  <2>8. LeftWhole(c)
    BY <1>2, <2>6, <2>7, GroupLeftAlone
  <2> QED
    BY <1>2, <2>8, OthersLeftWhole
<1>8. CASE OpOf(s).kind = "bundle"
  <2> DEFINE n == Ceiling(BundlesHeld(run[s].saw.rows), q, left)
  <2>1. AddedKeys(s) = Group
    BY <1>8 DEF AddedKeys
  <2>2. \A key \in Group : sum(key) = Per[key[2]] * n
    BY <1>8 DEF sum, Added, q, left
  <2>3. Whole(run[s].saw.rows)
    BY <1>1, <1>8 DEF BundleInv, Intent
  <2>4. BundlesHeld(run[s].saw.rows) \in Nat
    BY <2>3, BundlesHeldWhole
  <2>5. n \in 1..MaxPerLine
    BY <1>2, <1>3, <2>4, Bounds
  <2> HIDE DEF n
  <2>6. n \in Nat
    BY <2>5, GroupFacts
  <2>7. \A x, y \in Nat : x * y = y * x /\ x * y \in Nat
    OBVIOUS
  <2>8. \A key \in Group : sum(key) = n * Per[key[2]] /\ sum(key) \in Nat
    BY <2>2, <2>6, <2>7, GroupFacts
  <2>9. \A key \in Keys : lines'[c][key] # None => Typed(lines'[c][key])
    BY <1>6, <2>1, <2>8
  <2>10. \A key \in Group : lines'[c][key] # None /\ lines'[c][key].qty = n * Per[key[2]]
    BY <1>5, <2>1, <2>8
  <2>11. Whole(lines[c])
    BY <1>2 DEF BundleInv
  <2>12. GroupKept(c)
    <3>1. CASE \A key \in Group : lines[c][key] = None
      <4>1. \A key \in Group : lines'[c][key].id \in made + 1 .. made'
        BY <1>5, <2>1, <2>8, <3>1
      <4> QED
        BY <4>1 DEF GroupKept
    <3>2. CASE \A key \in Group : lines[c][key] # None
      <4>1. \A key \in Group : lines'[c][key].id = lines[c][key].id
        BY <1>5, <2>1, <2>8, <3>2
      <4> QED
        BY <3>2, <4>1 DEF GroupKept
    <3> QED
      BY <2>11, <3>1, <3>2, AllOrNone
  <2>13. \A a, b \in Group : lines'[c][a].selected = lines'[c][b].selected
    <3>1. CASE \A key \in Group : lines[c][key] = None
      <4>1. \A key \in Group : lines'[c][key].selected = TRUE
        BY <1>5, <2>1, <2>8, <3>1
      <4> QED
        BY <4>1
    <3>2. CASE \A key \in Group : lines[c][key] # None
      <4>1. \A key \in Group : lines'[c][key].selected = lines[c][key].selected
        BY <1>5, <2>1, <2>8, <3>2
      <4>2. \A a, b \in Group : lines[c][a].selected = lines[c][b].selected
        BY <2>11, <3>2, GroupFacts DEF Whole
      <4> QED
        BY <4>1, <4>2
    <3> QED
      BY <2>11, <3>1, <3>2, AllOrNone
  <2>14. Whole(lines'[c])
    BY <2>5, <2>10, <2>13 DEF Whole
  <2>15. LeftWhole(c)
    BY <2>9, <2>12, <2>14 DEF LeftWhole
  <2> QED
    BY <1>2, <2>15, OthersLeftWhole
<1> QED
  BY <1>2, <1>7, <1>8

\* and so does a quantity that is set,
LEMMA QuantityLeavesWhole ==
  ASSUME CartFrame, BundleInv, NEW s \in Slots, WriteQuantity(s)
  PROVE  \A k \in Carts : LeftWhole(k)
<1> DEFINE c == CartOf(s)  q == OpOf(s).q  keys == QuantityKeys(s)
           sum(key) == IF key \in Group THEN Per[key[2]] * q ELSE q
<1>1. /\ c \in Carts /\ q \in Quantities
      /\ keys \subseteq RowsOf(c)
      /\ \A l \in Carts : l # c => lines'[l] = lines[l]
      /\ \A key \in Keys : lines'[c][key] =
              IF key \notin keys THEN lines[c][key]
              ELSE [id |-> lines[c][key].id, qty |-> sum(key),
                    selected |-> lines[c][key].selected, due |-> q, by |-> run[s].op.n]
  BY QuantityWritten
<1>2. /\ Busy(s) /\ run[s].pc = "write" /\ OpOf(s).kind = "quantity"
  BY DEF WriteQuantity, Serves, OpOf
<1>3. run[s].op.n \in Nat
  <2>1. run[s].op \in [op : IF s[2] = "button" THEN ButtonOps ELSE PageOps, n : Nat \ {0}]
    BY <1>2 DEF CartFrame, SentInv
  <2> QED
    BY <2>1
<1>4. \/ keys = {run[s].saw.key} /\ run[s].saw.key \notin Group
      \/ keys = {} \/ keys = Group
  <2>1. CASE run[s].saw.key \notin Group
    BY <2>1 DEF QuantityKeys
  <2>2. CASE run[s].saw.key \in Group
    <3>1. Whole(run[s].saw.rows)
      BY <1>2, <2>2 DEF BundleInv, Intent
    <3>2. keys = {key \in Group : run[s].saw.rows[key] # None}
      BY <2>2 DEF QuantityKeys
    <3> QED
      BY <3>1, <3>2, AllOrNone
  <2> QED
    BY <2>1, <2>2
<1>5. q \in 1..MaxPerLine /\ q \in Nat
  <2>1. q \in 1..MaxPerLine /\ MaxPerLine \in Nat
    BY <1>1, GroupFacts
  <2> QED
    BY <2>1
<1>6. ASSUME NEW key \in keys
      PROVE  /\ lines'[c][key] # None /\ Typed(lines'[c][key])
             /\ lines'[c][key].qty = sum(key)
             /\ lines'[c][key].selected = lines[c][key].selected
             /\ lines'[c][key].id = lines[c][key].id
  <2> DEFINE i == lines[c][key].id  tick == lines[c][key].selected  n == run[s].op.n  x == sum(key)
  <2>1. key \in Keys /\ lines[c][key] # None
    BY <1>1 DEF RowsOf
  <2>2. lines'[c][key] = [id |-> i, qty |-> x, selected |-> tick, due |-> q, by |-> n]
    BY <1>1, <2>1
  <2>3. Typed(lines[c][key]) /\ i \in Nat
    BY <1>1, <2>1, RowsAreTyped, IdsAreNumbers DEF CartFrame
  <2>4. tick \in BOOLEAN
    BY <2>3 DEF Typed
  <2>5. n \in Nat
    BY <1>3
  <2>6. x \in Nat
    <3>1. \A a, b \in Nat : a * b \in Nat
      OBVIOUS
    <3> QED
      BY <1>5, <3>1, GroupFacts
  <2> HIDE DEF i, tick, n, x
  <2>7. lines'[c][key] # None
    BY <1>5, <2>2, <2>3, <2>4, <2>5, <2>6, RowIsThere
  <2>8. Typed(lines'[c][key])
    BY <1>5, <2>2, <2>4, <2>5, <2>6 DEF Typed
  <2>9. lines'[c][key].qty = x /\ lines'[c][key].selected = tick /\ lines'[c][key].id = i
    BY <2>2
  <2> QED
    BY <2>7, <2>8, <2>9 DEF i, tick, x
<1>7. \A key \in Keys : lines'[c][key] # None => Typed(lines'[c][key])
  <2> TAKE key \in Keys
  <2>1. CASE key \in keys
    BY <1>6, <2>1
  <2>2. CASE key \notin keys
    BY <1>1, <2>2, RowsAreTyped
  <2> QED
    BY <2>1, <2>2
<1>8. ASSUME \A key \in Group : key \notin keys
      PROVE  LeftWhole(c)
  <2>1. \A key \in Group : lines'[c][key] = lines[c][key]
    BY <1>1, <1>8, KeysAreFew
  <2> QED
    BY <1>1, <1>7, <2>1, GroupLeftAlone
<1>9. ASSUME keys = Group
      PROVE  LeftWhole(c)
  <2>1. \A x, y \in Nat : x * y = y * x
    OBVIOUS
  <2>2. \A key \in Group : sum(key) = q * Per[key[2]]
    BY <1>5, <2>1, GroupFacts
  <2>3. \A key \in Group : lines[c][key] # None
    BY <1>1, <1>9 DEF RowsOf
  <2>4. \A a, b \in Group : lines[c][a].selected = lines[c][b].selected
    BY <1>1, <2>3, GroupFacts DEF BundleInv, Whole
  <2> HIDE DEF sum
  <2>5. /\ \A key \in Group : lines'[c][key] # None /\ lines'[c][key].qty = q * Per[key[2]]
        /\ \A a, b \in Group : lines'[c][a].selected = lines'[c][b].selected
        /\ \A key \in Group : lines'[c][key].id = lines[c][key].id
    BY <1>6, <1>9, <2>2, <2>4
  <2>6. Whole(lines'[c])
    BY <1>5, <2>5 DEF Whole
  <2>7. GroupKept(c)
    BY <2>3, <2>5 DEF GroupKept
  <2> QED
    BY <1>7, <2>6, <2>7 DEF LeftWhole
<1>10. LeftWhole(c)
  BY <1>4, <1>8, <1>9
<1> HIDE DEF c
<1> QED
  BY <1>1, <1>10, OthersLeftWhole

\* The ticks of a group are the same after a selection.
LEMMA TicksLeaveWhole ==
  ASSUME CartFrame, BundleInv, NEW c \in Carts, OnlyTicks(c),
         \A key \in RowsOf(c) : lines'[c][key].selected \in BOOLEAN,
         RowsOf(c) \intersect Group # {} =>
           \A a, b \in Group : lines'[c][a].selected = lines'[c][b].selected
  PROVE  \A k \in Carts : LeftWhole(k)
<1>1. ASSUME NEW key \in Keys
      PROVE  /\ lines[c][key] = None => lines'[c][key] = None
             /\ lines[c][key] # None =>
                  /\ lines'[c][key] # None /\ Typed(lines'[c][key])
                  /\ lines'[c][key].qty = lines[c][key].qty
                  /\ lines'[c][key].id = lines[c][key].id
  <2>1. CASE lines[c][key] = None
    BY <2>1 DEF OnlyTicks
  <2>2. CASE lines[c][key] # None
    <3> DEFINE i == lines[c][key].id  x == lines[c][key].qty  d == lines[c][key].due
               b == lines[c][key].by
    <3>1. PICK tick : lines'[c][key] = [id |-> i, qty |-> x, selected |-> tick, due |-> d, by |-> b]
      BY <2>2 DEF OnlyTicks
    <3>2. lines'[c][key].selected \in BOOLEAN
      BY <2>2 DEF RowsOf
    <3>3. Typed(lines[c][key]) /\ i \in Nat
      BY <2>2, RowsAreTyped, IdsAreNumbers DEF CartFrame
    <3>4. x \in Nat /\ d \in Nat /\ b \in Nat
      BY <3>3 DEF Typed
    <3> HIDE DEF i, x, d, b
    <3>5. tick \in BOOLEAN
      BY <3>1, <3>2
    <3>6. lines'[c][key] # None
      BY <3>1, <3>3, <3>4, <3>5, RowIsThere
    <3>7. Typed(lines'[c][key])
      BY <3>1, <3>4, <3>5 DEF Typed
    <3>8. lines'[c][key].qty = x /\ lines'[c][key].id = i
      BY <3>1
    <3> QED
      BY <2>2, <3>6, <3>7, <3>8 DEF x, i
  <2> QED
    BY <2>1, <2>2
<1>2. \A key \in Keys : lines'[c][key] # None => Typed(lines'[c][key])
  BY <1>1
<1>3. GroupKept(c)
  BY <1>1, KeysAreFew DEF GroupKept
<1>4. Whole(lines'[c])
  <2>1. CASE \A key \in Group : lines[c][key] = None
    BY <1>1, <2>1, KeysAreFew DEF Whole
  <2>2. CASE \A key \in Group : lines[c][key] # None
    <3>1. RowsOf(c) \intersect Group # {}
      BY <2>2, GroupFacts DEF RowsOf
    <3>2. \E n \in 1..MaxPerLine : \A key \in Group : lines[c][key].qty = n * Per[key[2]]
      BY <2>2, GroupFacts DEF BundleInv, Whole
    <3>3. \A key \in Group : lines'[c][key] # None /\ lines'[c][key].qty = lines[c][key].qty
      BY <1>1, <2>2, KeysAreFew
    <3> QED
      BY <3>1, <3>2, <3>3 DEF Whole
  <2>3. Whole(lines[c])
    BY DEF BundleInv
  <2> QED
    BY <2>1, <2>2, <2>3, AllOrNone
<1>5. LeftWhole(c)
  BY <1>2, <1>3, <1>4 DEF LeftWhole
<1>6. \A l \in Carts : l # c => lines'[l] = lines[l]
  BY DEF OnlyTicks
<1> QED
  BY <1>5, <1>6, OthersLeftWhole

\* a tick,
LEMMA SelectionLeavesWhole ==
  ASSUME CartFrame, BundleInv, NEW s \in Slots, WriteSelection(s)
  PROVE  \A k \in Carts : LeftWhole(k)
<1> DEFINE c == CartOf(s)  keys == SelectionKeys(s)  tick == OpOf(s).q > 0
<1>1. c = run[s].saw.cart
  BY DEF CartOf
<1>2. c \in Carts /\ OnlyTicks(c)
  BY SelectionTicks
<1> HIDE DEF c, tick
<1>3. /\ keys \subseteq RowsOf(c)
      /\ \A key \in Keys : lines'[c][key] =
           IF key \notin keys THEN lines[c][key]
           ELSE [id |-> lines[c][key].id, qty |-> lines[c][key].qty, selected |-> tick,
                 due |-> lines[c][key].due, by |-> lines[c][key].by]
  BY <1>1, SelectionWritten DEF tick
<1>4. tick \in BOOLEAN
  BY DEF tick
<1>5. \A key \in RowsOf(c) : lines'[c][key].selected =
                               IF key \in keys THEN tick ELSE lines[c][key].selected
  <2> TAKE key \in RowsOf(c)
  <2>1. key \in Keys
    BY DEF RowsOf
  <2>2. CASE key \in keys
    <3> DEFINE i == lines[c][key].id  x == lines[c][key].qty
               d == lines[c][key].due  b == lines[c][key].by
    <3>1. lines'[c][key] = [id |-> i, qty |-> x, selected |-> tick, due |-> d, by |-> b]
      BY <1>3, <2>1, <2>2
    <3> HIDE DEF i, x, d, b
    <3>2. lines'[c][key].selected = tick
      BY <3>1
    <3> QED
      BY <2>2, <3>2
  <2>3. CASE key \notin keys
    BY <1>3, <2>1, <2>3
  <2> QED
    BY <2>2, <2>3
<1>6. \A key \in RowsOf(c) : lines'[c][key].selected \in BOOLEAN
  BY <1>2, <1>4, <1>5, RowsAreTyped DEF RowsOf, Typed
<1>7. \/ keys = {run[s].saw.key} /\ run[s].saw.key \notin Group
      \/ keys = Group \intersect RowsOf(c)
  BY <1>1 DEF SelectionKeys
<1>8. ASSUME RowsOf(c) \intersect Group # {}
      PROVE  \A a, b \in Group : lines'[c][a].selected = lines'[c][b].selected
  <2>1. Whole(lines[c])
    BY <1>2 DEF BundleInv
  <2>2. \A key \in Group : lines[c][key] # None
    BY <1>8, <2>1, AllOrNone DEF RowsOf
  <2>3. Group \subseteq RowsOf(c)
    BY <2>2, KeysAreFew DEF RowsOf
  <2>4. \A a, b \in Group : lines[c][a].selected = lines[c][b].selected
    BY <2>1, <2>2 DEF Whole
  <2> HIDE DEF keys
  <2>5. (\A key \in Group : key \notin keys) \/ Group \subseteq keys
    BY <1>7, <2>3
  <2> QED
    BY <1>5, <2>3, <2>4, <2>5
<1> QED
  BY <1>2, <1>6, <1>8, TicksLeaveWhole

\* a tick for all,
LEMMA AllLeavesWhole ==
  ASSUME CartFrame, BundleInv, NEW s \in Slots, SelectAll(s)
  PROVE  \A k \in Carts : LeftWhole(k)
<1> DEFINE c == CartOf(s)  tick == OpOf(s).q > 0
<1>1. c = run[s].saw.cart
  BY DEF CartOf
<1>2. c \in Carts /\ OnlyTicks(c)
  BY AllTicks
<1> HIDE DEF c, tick
<1>3. \A key \in Keys : lines'[c][key] =
           IF lines[c][key] = None THEN None
           ELSE [id |-> lines[c][key].id, qty |-> lines[c][key].qty, selected |-> tick,
                 due |-> lines[c][key].due, by |-> lines[c][key].by]
  BY <1>1, AllSelected DEF tick
<1>4. tick \in BOOLEAN
  BY DEF tick
<1>5. \A key \in RowsOf(c) : lines'[c][key].selected = tick
  <2> TAKE key \in RowsOf(c)
  <2>1. key \in Keys /\ lines[c][key] # None
    BY DEF RowsOf
  <2> DEFINE i == lines[c][key].id  x == lines[c][key].qty
             d == lines[c][key].due  b == lines[c][key].by
  <2>2. lines'[c][key] = [id |-> i, qty |-> x, selected |-> tick, due |-> d, by |-> b]
    BY <1>3, <2>1
  <2> HIDE DEF i, x, d, b
  <2> QED
    BY <2>2
<1>6. \A key \in RowsOf(c) : lines'[c][key].selected \in BOOLEAN
  BY <1>4, <1>5
<1>7. ASSUME RowsOf(c) \intersect Group # {}
      PROVE  \A a, b \in Group : lines'[c][a].selected = lines'[c][b].selected
  <2>1. Whole(lines[c])
    BY <1>2 DEF BundleInv
  <2>2. \A key \in Group : lines[c][key] # None
    BY <1>7, <2>1, AllOrNone DEF RowsOf
  <2>3. Group \subseteq RowsOf(c)
    BY <2>2, KeysAreFew DEF RowsOf
  <2> QED
    BY <1>5, <2>3
<1> QED
  BY <1>2, <1>6, <1>7, TicksLeaveWhole

\* Deleting all rows of a bundle or none leaves it whole.
LEMMA DeletionLeavesWhole ==
  ASSUME CartFrame, BundleInv, NEW c \in Carts, NEW keys, DeleteRows(c, keys),
         Group \intersect RowsOf(c) \subseteq keys \/ Group \intersect keys = {}
  PROVE  \A k \in Carts : LeftWhole(k)
<1>1. /\ \A l \in Carts : l # c => lines'[l] = lines[l]
      /\ \A key \in Keys : lines'[c][key] = IF key \in keys THEN None ELSE lines[c][key]
  BY RowsDeleted DEF CartFrame
<1>2. \A key \in Keys : lines'[c][key] # None => Typed(lines'[c][key])
  BY <1>1, RowsAreTyped
<1>3. LeftWhole(c)
  <2>1. CASE Group \intersect keys = {}
    <3>1. \A key \in Group : lines'[c][key] = lines[c][key]
      BY <1>1, <2>1, KeysAreFew
    <3> QED
      BY <1>2, <3>1, GroupLeftAlone
  <2>2. CASE Group \intersect RowsOf(c) \subseteq keys
    <3>1. \A key \in Group : lines'[c][key] = None
      BY <1>1, <2>2, KeysAreFew DEF RowsOf
    <3> QED
      BY <1>2, <3>1 DEF LeftWhole, Whole, GroupKept
  <2> QED
    BY <2>1, <2>2
<1> QED
  BY <1>1, <1>3, OthersLeftWhole

\* a step that writes no rows,
LEMMA UnwrittenWhole ==
  ASSUME BundleInv, lines' = lines
  PROVE  \A k \in Carts : LeftWhole(k)
  BY DEF BundleInv, LeftWhole, GroupKept, RowsOf

\* and a removal.
LEMMA RemovalLeavesWhole ==
  ASSUME CartFrame, BundleInv, NEW s \in Slots, RemoveLine(s) \/ RemoveSelected(s)
  PROVE  \A k \in Carts : LeftWhole(k)
<1> DEFINE c == CartOf(s)
<1>1. c = run[s].saw.cart
  BY DEF CartOf
<1> HIDE DEF c
<1>2. CASE RemoveLine(s)
  <2> DEFINE keys == Removed(c, run[s].saw.key)
  <2>1. c \in Carts /\ DeleteRows(c, keys)
    BY <1>1, <1>2, LineRemoved
  <2>2. Group \intersect RowsOf(c) \subseteq keys \/ Group \intersect keys = {}
    BY DEF Removed
  <2> HIDE DEF keys
  <2> QED
    BY <2>1, <2>2, DeletionLeavesWhole
<1>3. CASE RemoveSelected(s)
  <2> DEFINE keys == {key \in RowsOf(c) : IdOf(lines[c][key]) \in run[s].saw.ids}
  <2>1. c \in Carts /\ (UNCHANGED <<lines, recent>> \/ DeleteRows(c, keys))
    BY <1>1, <1>3, SelectedRemoved
  <2>2. Busy(s) /\ run[s].pc = "write" /\ OpOf(s).kind = "clear"
    BY <1>3 DEF RemoveSelected, Serves, OpOf
  <2>3. \A a, b \in Group :
          lines[c][a] # None /\ lines[c][b] # None /\ lines[c][a].id \in run[s].saw.ids
          => lines[c][b].id \in run[s].saw.ids
    BY <1>1, <2>2 DEF BundleInv, Intent
  <2>4. Group \intersect RowsOf(c) \subseteq keys \/ Group \intersect keys = {}
    BY <2>3 DEF RowsOf, IdOf
  <2>5. CASE DeleteRows(c, keys)
    <3> HIDE DEF keys
    <3> QED
      BY <2>1, <2>4, <2>5, DeletionLeavesWhole
  <2>6. CASE UNCHANGED <<lines, recent>>
    BY <2>6, UnwrittenWhole
  <2> QED
    BY <2>1, <2>5, <2>6
<1> QED
  BY <1>2, <1>3

\* The ids of what can be bought now are all of a bundle's or none of them.
LEMMA CountedTogether ==
  ASSUME CartFrame, ShelfInv, soldOut \intersect Bundled = {}, BundleInv, NEW k \in Carts,
         NEW a \in Group, NEW b \in Group, lines[k][a] # None, lines[k][b] # None,
         NEW key \in Counted(k), IdOf(lines[k][key]) = lines[k][a].id
  PROVE  b \in Counted(k)
<1>1. key \in Keys /\ lines[k][key] # None
  BY DEF Counted, RowsOf
<1>2. lines[k][key].id = lines[k][a].id
  BY <1>1 DEF IdOf
<1>3. key = a
  BY <1>1, <1>2, KeysAreFew DEF CartFrame, LinesInv
<1>4. Whole(lines[k])
  BY DEF BundleInv
<1>5. lines[k][b].selected = lines[k][a].selected
  BY <1>4 DEF Whole
<1>6. lines[k][a].selected
  BY <1>3 DEF Counted
<1>7. Typed(lines[k][a]) /\ Typed(lines[k][b])
  BY RowsAreTyped, KeysAreFew
<1>8. lines[k][b].selected
  BY <1>5, <1>6, <1>7 DEF Typed
<1>9. b[2] \in Bundled
  BY GroupFacts
<1>10. shelf[b[2]] \in Nat /\ shelf[b[2]] # 0
  BY <1>9 DEF ShelfInv
<1>11. shelf[b[2]] > 0
  BY <1>10
<1> QED
  BY <1>8, <1>11, KeysAreFew DEF Counted, RowsOf

\* A step of a request keeps that request about whole bundles.
LEMMA IntentStep ==
  ASSUME CartFrame, ShelfInv, soldOut \intersect Bundled = {}, BundleInv,
         NEW s \in Slots, Handle(s)
  PROVE  Intent(s)'
<1>1. CASE run'[s] = Idle
  BY <1>1 DEF Intent, Busy, Idle
<1>2. ASSUME NEW pc, NEW saw, Proceeds(s, pc, saw)
      PROVE  run'[s].pc = pc /\ run'[s].saw = saw /\ OpOf(s)' = OpOf(s)
  <2>1. run' = [o \in Slots |-> IF o = s THEN [pc |-> pc, op |-> run[s].op, saw |-> saw] ELSE run[o]]
    BY <1>2, ProceedsTo DEF CartFrame
  <2>2. run'[s] = [pc |-> pc, op |-> run[s].op, saw |-> saw]
    BY <2>1
  <2> QED
    BY <2>2 DEF OpOf
<1>3. \A k \in Carts : Whole(lines[k])
  BY DEF BundleInv
<1>4. made \in Nat
  BY DEF CartFrame, LinesInv
\* Until it writes, an addition only knows how many there are.
<1>5. ASSUME NEW pc, NEW saw, Proceeds(s, pc, saw), pc \in {"cartless", "cart"},
             OpOf(s).kind \in {"add", "bundle"}, saw.left \in Nat \ {0}
      PROVE  Intent(s)'
  <2>1. run'[s].pc = pc /\ run'[s].saw = saw /\ OpOf(s)' = OpOf(s)
    BY <1>2, <1>5
  <2> QED
    BY <1>5, <2>1 DEF Intent
<1>6. CASE CheckAdd(s)
  <2> DEFINE left == IF OpOf(s).kind = "bundle" THEN BundlesLeft ELSE shelf[OpOf(s).id]
             pc == IF Viewed = None THEN "cartless" ELSE "cart"
             saw == [cart |-> Viewed, left |-> left]
  <2>1. Proceeds(s, pc, saw) /\ Busy(s) /\ OpOf(s).kind \in {"add", "bundle"}
    BY <1>6 DEF CheckAdd, Serves, OpOf
  <2>2. left \in Nat \ {0}
    <3>1. CASE OpOf(s).kind = "bundle"
      <4>1. BundlesLeft > 0
        BY <1>6, <3>1 DEF CheckAdd, Serves, OpOf
      <4> QED
        BY <3>1, <4>1, BundlesLeftCounted
    <3>2. CASE OpOf(s).kind = "add"
      <4>1. OpOf(s).q \in 1..MaxPerLine /\ OpOf(s).id \in Loose
        BY <2>1, <3>2, NamesGoods, GroupFacts DEF CartFrame
      <4>2. OpOf(s).q <= shelf[OpOf(s).id]
        BY <1>6, <3>2 DEF CheckAdd, Serves, OpOf
      <4>3. shelf[OpOf(s).id] \in Nat
        BY <4>1 DEF ShelfInv
      <4>4. MaxPerLine \in Nat
        BY GroupFacts
      <4>5. shelf[OpOf(s).id] \in Nat \ {0}
        BY <4>1, <4>2, <4>3, <4>4
      <4> QED
        BY <3>2, <4>5
    <3> QED
      BY <2>1, <3>1, <3>2
  <2>3. pc \in {"cartless", "cart"} /\ saw.left \in Nat \ {0}
    BY <2>2
  <2> HIDE DEF pc, saw
  <2> QED
    BY <1>5, <2>1, <2>3
<1>7. CASE CreateCart(s)
  <2> DEFINE saw == [cart |-> Len(recent) + 1, left |-> run[s].saw.left]
  <2>1. Proceeds(s, "cart", saw) /\ Busy(s) /\ run[s].pc = "cartless"
    BY <1>7 DEF CreateCart
  <2>2. OpOf(s).kind \in {"add", "bundle"}
    BY <2>1 DEF CartFrame, FoundInv, SeenBy
  <2>3. saw.left \in Nat \ {0}
    BY <2>1, <2>2 DEF BundleInv, Intent
  <2> HIDE DEF saw
  <2> QED
    BY <1>5, <2>1, <2>2, <2>3
<1>8. CASE ReadLines(s)
  <2> DEFINE c == run[s].saw.cart
             saw == [cart |-> c, left |-> run[s].saw.left, rows |-> lines[c]]
  <2>1. Proceeds(s, "write", saw) /\ Busy(s) /\ run[s].pc = "cart"
    BY <1>8 DEF ReadLines
  <2>2. c \in Carts /\ OpOf(s).kind \in {"add", "bundle"}
    BY <2>1 DEF CartFrame, FoundInv, SeenBy
  <2>3. saw.left \in Nat \ {0}
    BY <2>1, <2>2 DEF BundleInv, Intent
  <2>4. Whole(saw.rows)
    BY <1>3, <2>2
  <2>5. OpOf(s).kind = "add" => Held(saw.rows, <<"loose", OpOf(s).id>>) \in Nat
    <3>1. SUFFICES ASSUME OpOf(s).kind = "add"
                   PROVE  Held(lines[c], <<"loose", OpOf(s).id>>) \in Nat
      OBVIOUS
    <3>2. <<"loose", OpOf(s).id>> \in Keys
      BY <2>1, <3>1, NamesGoods, KeysAreFew DEF CartFrame
    <3>3. \A key \in Keys : lines[c][key] # None => lines[c][key].qty \in Nat
      BY <2>2, RowsAreTyped DEF Typed
    <3> QED
      BY <3>2, <3>3 DEF Held
  <2> HIDE DEF saw
  <2>6. run'[s].pc = "write" /\ run'[s].saw = saw /\ OpOf(s)' = OpOf(s)
    BY <1>2, <2>1
  <2> QED
    BY <2>2, <2>3, <2>4, <2>5, <2>6 DEF Intent, Held, Whole
<1>9. CASE FindLine(s)
  <2>1. PICK at \in Located(OpOf(s).id) :
          Proceeds(s, IF at[2] \in Group /\ OpOf(s).kind = "quantity" THEN "group" ELSE "write",
                   [cart |-> at[1], key |-> at[2]])
    BY <1>9 DEF FindLine
  <2> DEFINE pc == IF at[2] \in Group /\ OpOf(s).kind = "quantity" THEN "group" ELSE "write"
             saw == [cart |-> at[1], key |-> at[2]]
  <2>2. Proceeds(s, pc, saw)
    BY <2>1
  <2>3. OpOf(s).kind \in {"quantity", "select", "remove"}
    BY <1>9 DEF FindLine, Serves, OpOf
  <2>4. pc \in {"group", "write"} /\ (pc = "write" /\ OpOf(s).kind = "quantity" => saw.key \notin Group)
    OBVIOUS
  <2> HIDE DEF pc, saw
  <2>5. run'[s].pc = pc /\ run'[s].saw = saw /\ OpOf(s)' = OpOf(s)
    BY <1>2, <2>2
  <2> QED
    BY <2>3, <2>4, <2>5 DEF Intent, Group
<1>10. CASE ReadGroup(s)
  <2> DEFINE c == run[s].saw.cart
             saw == [cart |-> c, key |-> run[s].saw.key, rows |-> lines[c]]
  <2>1. Proceeds(s, "write", saw) /\ Busy(s) /\ run[s].pc = "group" /\ OpOf(s).kind = "quantity"
    BY <1>10 DEF ReadGroup, Serves, OpOf
  <2>2. c \in Carts
    BY <2>1 DEF CartFrame, FoundInv, SeenBy
  <2>3. Whole(saw.rows)
    BY <1>3, <2>2
  <2> HIDE DEF saw
  <2>4. run'[s].pc = "write" /\ run'[s].saw = saw /\ OpOf(s)' = OpOf(s)
    BY <1>2, <2>1
  <2> QED
    BY <2>1, <2>3, <2>4 DEF Intent, Whole
<1>11. CASE FindCart(s)
  <2> DEFINE ids == {IdOf(lines[Viewed][key]) : key \in Counted(Viewed)}
             saw == [cart |-> Viewed, ids |-> ids]
  <2>1. Proceeds(s, "write", saw) /\ Viewed # None /\ UNCHANGED <<lines, made>>
    BY <1>11 DEF FindCart, rowVars
  <2>2. OpOf(s).kind \in {"all", "clear", "voucher"}
    BY <1>11 DEF FindCart, Serves, OpOf
  <2>3. Viewed \in Carts
    BY <2>1, ViewedCart DEF CartFrame, CartsInv
  <2>4. saw.cart = Viewed /\ saw.ids = ids
    OBVIOUS
  <2>5. run'[s].pc = "write" /\ run'[s].saw = saw /\ OpOf(s)' = OpOf(s)
    <3> HIDE DEF saw
    <3> QED  BY <1>2, <2>1
  <2>6. ids \subseteq 0..made
    <3>1. \A key \in Counted(Viewed) : IdOf(lines[Viewed][key]) \in 0..made
      <4> TAKE key \in Counted(Viewed)
      <4>1. key \in Keys /\ lines[Viewed][key] # None
        BY DEF Counted, RowsOf
      <4>2. lines[Viewed][key].id \in Nat /\ lines[Viewed][key].id <= made
        BY <2>3, <4>1, IdsAreNumbers DEF CartFrame
      <4>3. lines[Viewed][key].id \in 0..made
        BY <1>4, <4>2
      <4> QED
        BY <4>1, <4>3 DEF IdOf
    <3> QED
      BY <3>1
  <2>7. ASSUME NEW a \in Group, NEW b \in Group,
               lines[Viewed][a] # None, lines[Viewed][b] # None, lines[Viewed][a].id \in ids
        PROVE  lines[Viewed][b].id \in ids
    <3>1. PICK key \in Counted(Viewed) : IdOf(lines[Viewed][key]) = lines[Viewed][a].id
      BY <2>7
    <3>2. b \in Counted(Viewed)
      BY <2>3, <2>7, <3>1, CountedTogether
    <3>3. IdOf(lines[Viewed][b]) = lines[Viewed][b].id
      BY <2>7 DEF IdOf
    <3> QED
      BY <3>2, <3>3
  <2> DEFINE k == Viewed
  <2>8. /\ ids \subseteq 0..made'
        /\ \A a, b \in Group :
             /\ lines'[k][a] # None /\ lines'[k][b] # None /\ lines'[k][a].id \in ids
             => lines'[k][b].id \in ids
    <3> HIDE DEF ids, k
    <3>1. \A a, b \in Group : lines[k][a] # None /\ lines[k][b] # None /\ lines[k][a].id \in ids
            => lines[k][b].id \in ids
      BY <2>7 DEF k
    <3> QED
      BY <2>1, <2>6, <3>1
  <2>9. saw.cart = k /\ saw.ids = ids
    BY <2>4
  <2> HIDE DEF saw, ids, k
  <2>10. run'[s].saw.cart = k /\ run'[s].saw.ids = ids
    BY <2>5, <2>9
  <2> QED
    BY <2>2, <2>5, <2>8, <2>10 DEF Intent, Group
<1>12. CASE WriteAdd(s) \/ WriteQuantity(s) \/ WriteSelection(s) \/ RemoveLine(s) \/ SelectAll(s)
            \/ RemoveSelected(s) \/ SetVoucher(s) \/ Fails(s)
  <2>1. PICK done \in BOOLEAN : Answer(s, done)
    BY <1>12 DEF WriteAdd, WriteQuantity, WriteSelection, RemoveLine, SelectAll, RemoveSelected,
                 SetVoucher, Fails
  <2>2. run' = [o \in Slots |-> IF o = s THEN Idle ELSE run[o]]
    BY <2>1, AnsweredWith DEF CartFrame
  <2> QED
    BY <1>1, <2>2
<1> QED
  BY <1>6, <1>7, <1>8, <1>9, <1>10, <1>11, <1>12 DEF Handle

\* What the server does keeps bundles whole.
LEMMA BundleHandles ==
  ASSUME CartFrame, ShelfInv, soldOut \intersect Bundled = {}, BundleInv,
         NEW s \in Slots, Handle(s)
  PROVE  BundleInv'
<1>1. \A k \in Carts : LeftWhole(k)
  <2>1. CASE lines' = lines
    BY <2>1, UnwrittenWhole
  <2>2. CASE CheckAdd(s) \/ CreateCart(s) \/ ReadLines(s) \/ FindLine(s) \/ ReadGroup(s)
             \/ FindCart(s) \/ SetVoucher(s) \/ Fails(s)
    BY <2>1, <2>2 DEF CheckAdd, CreateCart, ReadLines, FindLine, ReadGroup, FindCart, SetVoucher,
                      Fails, rowVars
  <2> QED
    BY <2>2, AddLeavesWhole, QuantityLeavesWhole, SelectionLeavesWhole, AllLeavesWhole,
       RemovalLeavesWhole DEF Handle
<1>2. made' \in Nat /\ made <= made'
  BY LinesStep
<1>3. ASSUME NEW o \in Slots
      PROVE  Intent(o)'
  <2>1. CASE o = s
    BY <2>1, IntentStep
  <2>2. CASE o # s
    <3>1. run'[o] = run[o]
      BY <2>2, HandleMoves DEF CartFrame
    <3>2. Intent(o) /\ \A k \in Carts : GroupKept(k)
      BY <1>1 DEF BundleInv, LeftWhole
    <3> QED
      BY <1>2, <3>1, <3>2, IntentKept
  <2> QED
    BY <2>1, <2>2
<1>4. \A k \in Carts : Whole(lines[k])'
  BY <1>1 DEF LeftWhole, Whole
<1>5. \A k \in Carts : \A key \in RowsOf(k)' : Typed(lines[k][key])'
  BY <1>1 DEF LeftWhole, RowsOf, Typed
<1> QED
  BY <1>3, <1>4, <1>5 DEF BundleInv, Carts, Slots

\* The shelf keeps its counts, and what was sold out stays noted.
LEMMA ShelfStep ==
  ASSUME CartFrame, ShelfInv, [Next]_vars
  PROVE  ShelfInv' /\ soldOut \subseteq soldOut'
<1>1. CASE UNCHANGED <<shelf, soldOut>>
  BY <1>1 DEF ShelfInv
<1>2. ASSUME NEW v \in Loose \union Bundled, NEW n \in Levels, ShelfMoves(v, n)
      PROVE  ShelfInv' /\ soldOut \subseteq soldOut'
  <2>1. /\ shelf' = [shelf EXCEPT ![v] = n]
        /\ soldOut' = IF n = 0 THEN soldOut \union {v} ELSE soldOut
    BY <1>2 DEF ShelfMoves
  <2>2. n \in Nat
    BY CartAssumption
  <2> QED
    BY <2>1, <2>2 DEF ShelfInv
<1>3. ASSUME NEW t \in Tabs, Clicked(t)
      PROVE  UNCHANGED <<shelf, soldOut>>
  <2>1. (\E op \in PageOps : Press(t, op)) \/ (\E op \in ButtonOps : PushButton(t, op))
    BY <1>3, ClicksAre DEF CartFrame
  <2> QED
    BY <2>1 DEF Press, PushButton
<1>4. ASSUME NEW t \in Tabs, LoseAnswer(t) \/ SendNext(t)
      PROVE  UNCHANGED <<shelf, soldOut>>
  BY <1>4 DEF LoseAnswer, SendNext, Send
<1>5. ASSUME NEW s \in Slots, Handle(s)
      PROVE  UNCHANGED <<shelf, soldOut>>
  BY <1>5, HandleMoves DEF CartFrame, outside
<1>6. UNCHANGED cartVars => UNCHANGED <<shelf, soldOut>>
  BY DEF cartVars
<1> QED
  BY <1>1, <1>2, <1>3, <1>4, <1>5, <1>6 DEF Next, vars, CartNext

\* As long as no rows change, what a request is about to write stays whole.
LEMMA BundleIdles ==
  ASSUME CartFrame, BundleInv, UNCHANGED <<lines, made>>,
         \A o \in Slots : Busy(o)' => \/ run'[o].pc = "sent"
                                      \/ \E p \in Slots : Busy(p) /\ run'[o] = run[p]
  PROVE  BundleInv'
<1>1. \A k \in Carts : GroupKept(k)
  BY DEF GroupKept
<1>2. ASSUME NEW o \in Slots, Busy(o)'
      PROVE  Intent(o)'
  <2>1. CASE run'[o].pc = "sent"
    BY <2>1 DEF Intent
  <2>2. ASSUME NEW p \in Slots, Busy(p), run'[o] = run[p]
        PROVE  Intent(o)'
    <3>1. Intent(p)
      BY DEF BundleInv
    <3>2. \A table : Whole(table)' = Whole(table)
      BY DEF Whole
    <3>3. OpOf(o)' = OpOf(p)
      BY <2>2 DEF OpOf
    <3> QED
      BY <2>2, <3>1, <3>2, <3>3 DEF Intent, Group, Held
  <2> QED
    BY <1>2, <2>1, <2>2
<1>3. \A o \in Slots : Intent(o)'
  BY <1>2 DEF Intent
<1>4. \A k \in Carts : Whole(lines[k])'
  BY DEF BundleInv, Whole
<1>5. \A k \in Carts : \A key \in RowsOf(k)' : Typed(lines[k][key])'
  BY DEF BundleInv, RowsOf, Typed
<1> QED
  BY <1>3, <1>4, <1>5 DEF BundleInv, Carts, Slots

\* A request that was given up on is the one that was under way.
LEMMA LostIsPage ==
  ASSUME CartFrame, NEW t \in Tabs, LoseAnswer(t)
  PROVE  \A o \in Slots : Busy(o)' =>
           \/ Busy(o) /\ run'[o] = run[o]
           \/ Busy(<<t, "page">>) /\ o = <<t, "lost">> /\ run'[o] = run[<<t, "page">>]
<1> DEFINE page == <<t, "page">>  lost == <<t, "lost">>
<1>1. /\ Busy(page)
      /\ run' = [run EXCEPT ![lost] = run[page], ![page] = Idle]
  BY DEF LoseAnswer
<1>2. page \in Slots /\ lost \in Slots /\ page # lost
  BY SlotFacts
<1>3. DOMAIN run = Slots
  BY DEF CartFrame, SentInv
<1> HIDE DEF page, lost
<1>4. run' = [o \in Slots |-> IF o = page THEN Idle ELSE IF o = lost THEN run[page] ELSE run[o]]
  <2> DEFINE first == [run EXCEPT ![lost] = run[page]]
  <2>2. run' = [first EXCEPT ![page] = Idle]
    BY <1>1, Zenon
  <2>3. first = [o \in Slots |-> IF o = lost THEN run[page] ELSE run[o]]
    BY <1>3
  <2> HIDE DEF first
  <2> QED
    BY <1>2, <2>2, <2>3
<1>5. ASSUME NEW o \in Slots, Busy(o)'
      PROVE  \/ Busy(o) /\ run'[o] = run[o]
             \/ Busy(page) /\ o = lost /\ run'[o] = run[page]
  <2>1. CASE o = page
    BY <1>4, <1>5, <2>1 DEF Busy, Idle
  <2>2. CASE o # page /\ o = lost
    BY <1>1, <1>4, <2>2
  <2>3. CASE o # page /\ o # lost
    <3>1. run'[o] = run[o]
      BY <1>4, <2>3
    <3> QED
      BY <1>5, <3>1 DEF Busy
  <2> QED
    BY <2>1, <2>2, <2>3
<1> QED
  BY <1>5 DEF page, lost

\* Every step keeps bundles whole until a component is sold out.
LEMMA BundleStep ==
  ASSUME CartFrame, ShelfInv, soldOut \intersect Bundled = {}, BundleInv, [Next]_vars
  PROVE  BundleInv'
<1>1. ASSUME UNCHANGED <<lines, made, run>>
      PROVE  BundleInv'
  BY <1>1, BundleIdles DEF Busy
<1>2. ASSUME NEW s \in Slots, NEW op, SetsOut(s, op), UNCHANGED <<lines, made>>
      PROVE  BundleInv'
  <2>1. run' = [o \in Slots |-> IF o = s THEN [pc |-> "sent", op |-> op, saw |-> None] ELSE run[o]]
    BY <1>2, Goes DEF CartFrame
  <2>2. \A o \in Slots : run'[o].pc = "sent" \/ run'[o] = run[o]
    BY <2>1
  <2> QED
    BY <1>2, <2>2, BundleIdles DEF Busy
<1>3. ASSUME NEW t \in Tabs, LoseAnswer(t)
      PROVE  BundleInv'
  <2>1. <<t, "page">> \in Slots
    BY SlotFacts
  <2> QED
    BY <1>3, <2>1, LostIsPage, BundleIdles DEF LoseAnswer
<1>4. ASSUME NEW t \in Tabs, Clicked(t)
      PROVE  BundleInv'
  <2>1. CASE \E op \in PageOps : Press(t, op)
    BY <1>1, <2>1 DEF Press
  <2>2. CASE \E op \in ButtonOps : PushButton(t, op)
    <3>1. PICK op \in ButtonOps : PushButton(t, op)
      BY <2>2
    <3> DEFINE s == <<t, "button">>  click == [op |-> op, n |-> clicks + 1]
    <3>2. SetsOut(s, click) /\ UNCHANGED <<lines, made>>
      BY <3>1 DEF PushButton
    <3>3. s \in Slots
      BY SlotFacts
    <3> HIDE DEF s, click
    <3> QED
      BY <1>2, <3>2, <3>3
  <2> QED
    BY <1>4, <2>1, <2>2, ClicksAre DEF CartFrame
<1>5. ASSUME NEW t \in Tabs, SendNext(t)
      PROVE  BundleInv'
  <2>1. PICK i : Send(t, i)
    BY <1>5 DEF SendNext
  <2>2. SetsOut(<<t, "page">>, queue[t][1]) /\ UNCHANGED <<lines, made>>
    BY <2>1, FrameSends DEF Send
  <2>3. <<t, "page">> \in Slots
    BY SlotFacts
  <2> QED
    BY <1>2, <2>2, <2>3
<1>6. ASSUME NEW v, NEW n, ShelfMoves(v, n)
      PROVE  BundleInv'
  BY <1>1, <1>6 DEF ShelfMoves
<1>7. UNCHANGED cartVars => BundleInv'
  BY <1>1 DEF cartVars
<1> QED
  BY <1>3, <1>4, <1>5, <1>6, <1>7, BundleHandles DEF Next, vars, CartNext

\* The first cart has one whole bundle or none.
LEMMA BundleBegins ==
  ASSUME CartInit \/ EmptyCart
  PROVE  ShelfInv /\ BundleInv
<1>1. ShelfInv
  <2> DEFINE most == Max(Levels)
  <2>1. most \in Nat \ {0}
    <3>1. IsFiniteSet(Levels) /\ Levels \subseteq Nat /\ Levels \subseteq Int
      BY CartAssumption
    <3>2. PICK n \in Levels : n > 0
      BY CartAssumption
    <3>3. most \in Levels /\ n <= most
      BY <3>1, <3>2, LargestNumber
    <3> HIDE DEF most
    <3> QED
      BY <3>1, <3>2, <3>3
  <2>2. shelf = [v \in Loose \union Bundled |-> most]
    BY Beginning DEF NoRequests
  <2> HIDE DEF most
  <2> QED
    BY <2>1, <2>2 DEF ShelfInv
<1>2. \A s \in Slots : Intent(s)
  <2>1. run = [s \in Slots |-> Idle]
    BY Beginning DEF NoRequests
  <2> QED
    BY <2>1 DEF Intent, Busy, Idle
<1>3. ASSUME NEW k \in Carts, \A key \in Keys : lines[k][key] = None
      PROVE  Whole(lines[k]) /\ \A key \in RowsOf(k) : Typed(lines[k][key])
  BY <1>3, KeysAreFew DEF Whole, RowsOf
<1>4. ASSUME 1 \in Carts,
             \A key \in Keys :
                /\ lines[1][key] = Row(lines[1][key].id, IF key \in Group THEN Per[key[2]] ELSE 1, 1)
                /\ lines[1][key].id \in Nat
      PROVE  Whole(lines[1]) /\ \A key \in RowsOf(1) : Typed(lines[1][key])
  <2> DEFINE size(key) == IF key \in Group THEN Per[key[2]] ELSE 1
  <2>1. \A key \in Keys : size(key) \in Nat
    BY GroupFacts
  <2>2. \A key \in Group : size(key) = 1 * Per[key[2]]
    <3>1. \A x \in Nat : x = 1 * x
      OBVIOUS
    <3> QED
      BY <3>1, GroupFacts
  <2> HIDE DEF size
  <2>3. \A key \in Keys : /\ lines[1][key] # None /\ Typed(lines[1][key])
                          /\ lines[1][key].qty = size(key) /\ lines[1][key].selected = TRUE
    <3> TAKE key \in Keys
    <3>1. lines[1][key] = Row(lines[1][key].id, size(key), 1) /\ lines[1][key].id \in Nat
      BY <1>4 DEF size
    <3>2. \A i \in Nat : lines[1][key] = Row(i, size(key), 1) =>
            /\ lines[1][key] # None /\ Typed(lines[1][key])
            /\ lines[1][key].qty = size(key) /\ lines[1][key].selected = TRUE
      BY <2>1, RowIsThere
    <3> QED
      BY <3>1, <3>2
  <2>4. 1 \in 1..MaxPerLine
    BY CartAssumption
  <2>5. \A key \in Group : lines[1][key] # None /\ lines[1][key].qty = 1 * Per[key[2]]
                           /\ lines[1][key].selected = TRUE
    BY <2>2, <2>3, KeysAreFew
  <2>6. Whole(lines[1])
    BY <2>4, <2>5 DEF Whole
  <2> QED
    BY <2>3, <2>6 DEF RowsOf
<1>5. \A k \in Carts : Whole(lines[k]) /\ \A key \in RowsOf(k) : Typed(lines[k][key])
  <2> TAKE k \in Carts
  <2>1. CASE \A key \in Keys : lines[k][key] = None
    BY <1>3, <2>1
  <2>2. CASE ~ \A key \in Keys : lines[k][key] = None
    <3>1. k = 1 /\ 1 \in Carts /\
          \A key \in Keys :
             /\ lines[1][key] = Row(lines[1][key].id, IF key \in Group THEN Per[key[2]] ELSE 1, 1)
             /\ lines[1][key].id \in Nat
      BY <2>2, Beginning
    <3> QED
      BY <1>4, <3>1
  <2> QED
    BY <2>1, <2>2
<1> QED
  BY <1>1, <1>2, <1>5 DEF BundleInv

\* The components of a bundle are in the cart together, for one number of
\* bundles and ticked together, for any tabs, bundle, clicks and losses, until
\* a component was out of stock.
THEOREM BundleTheorem == Spec => []BundlesWhole
<1> DEFINE Inv == CartFrame /\ ShelfInv /\ (soldOut \intersect Bundled = {} => BundleInv)
<1>1. Init => Inv
  BY CartBegins, Beginning, BundleBegins
<1>2. Inv /\ [Next]_vars => Inv'
  <2> SUFFICES ASSUME CartFrame, ShelfInv, soldOut \intersect Bundled = {} => BundleInv, [Next]_vars
               PROVE  CartFrame' /\ ShelfInv' /\ (soldOut' \intersect Bundled = {} => BundleInv')
    OBVIOUS
  <2>1. CartFrame' /\ ShelfInv' /\ soldOut \subseteq soldOut'
    BY FrameStep, ShelfStep
  <2>2. ASSUME soldOut' \intersect Bundled = {}
        PROVE  BundleInv'
    <3>1. soldOut \intersect Bundled = {}
      BY <2>1, <2>2
    <3> QED
      BY <3>1, BundleStep
  <2> QED
    BY <2>1, <2>2
<1>3. Inv => BundlesWhole
  <2> SUFFICES ASSUME BundleInv, NEW k \in Carts, Group \intersect RowsOf(k) # {}
               PROVE  /\ Group \intersect RowsOf(k) = Group
                      /\ \E n \in 1..MaxPerLine : \A key \in Group : lines[k][key].qty = n * Per[key[2]]
                      /\ Cardinality({lines[k][key].selected : key \in Group}) = 1
    BY DEF BundlesWhole, WholeBundle
  <2>1. Whole(lines[k])
    BY DEF BundleInv
  <2>2. \A key \in Group : lines[k][key] # None
    BY <2>1, AllOrNone DEF RowsOf
  <2>3. Group \intersect RowsOf(k) = Group
    BY <2>2, KeysAreFew DEF RowsOf
  <2>4. PICK one \in Group : TRUE
    BY GroupFacts
  <2> DEFINE tick == lines[k][one].selected
  <2>5. \A key \in Group : lines[k][key].selected = tick
    BY <2>1, <2>2 DEF Whole
  <2> HIDE DEF tick
  <2>6. {lines[k][key].selected : key \in Group} = {tick}
    BY <2>4, <2>5
  <2>7. Cardinality({tick}) = 1
    BY FS_Singleton
  <2>8. \E n \in 1..MaxPerLine : \A key \in Group : lines[k][key].qty = n * Per[key[2]]
    BY <2>1, <2>2, <2>4 DEF Whole
  <2> QED
    BY <2>3, <2>6, <2>7, <2>8
<1> QED
  BY <1>1, <1>2, <1>3, PTL DEF Spec

-----------------------------------------------------------------------------
(* Choices take effect in click order.                                     *)

\* The clicks of a tab that still wait, or are with the server.
Pending(t) ==
  {queue[t][i].n : i \in DOMAIN queue[t]}
    \union (IF Busy(<<t, "page">>) THEN {run[<<t, "page">>].op.n} ELSE {})

\* Every click has its own number, those of a tab come in order, and what was
\* accepted came before what waits.
NumberInv ==
  /\ \A t \in Tabs : Pending(t) \subseteq 1..clicks
  /\ \A t, u \in Tabs : t # u => Pending(t) \intersect Pending(u) = {}
  /\ \A e \in accepted :
       /\ e.tab \in Tabs /\ e.n \in 1..clicks
       /\ \A n \in Pending(e.tab) : e.n < n
       /\ \A u \in Tabs \ {e.tab} : e.n \notin Pending(u)

InLine ==
  \A t \in Tabs :
    /\ \A i, j \in DOMAIN queue[t] : i < j => queue[t][i].n < queue[t][j].n
    /\ Busy(<<t, "page">>) => \A i \in DOMAIN queue[t] : run[<<t, "page">>].op.n < queue[t][i].n
    /\ ~Busy(<<t, "lost">>)

\* The quantity of a line is the last one its tab chose.
LastChoice ==
  \A k \in Carts : \A key \in RowsOf(k) :
    \A a, b \in accepted :
      /\ a.n = lines[k][key].by /\ b.tab = a.tab
      /\ a.id = lines[k][key].id /\ b.id = lines[k][key].id
      => b.n <= a.n

OrderInv == NumberInv /\ InLine /\ LastChoice

\* Fewer clicks wait, and nothing more has been accepted.
LEMMA NumbersShrink ==
  ASSUME NumberInv, accepted' = accepted, clicks \in Nat, clicks' \in Nat, clicks <= clicks',
         \A t \in Tabs : Pending(t)' \subseteq Pending(t)
  PROVE  NumberInv'
<1>1. 1..clicks \subseteq 1..clicks'
  OBVIOUS
<1>2. \A t \in Tabs : Pending(t)' \subseteq 1..clicks'
  BY <1>1 DEF NumberInv
<1>3. \A t, u \in Tabs : t # u => Pending(t)' \intersect Pending(u)' = {}
  BY DEF NumberInv
<1>4. \A e \in accepted :
        /\ e.tab \in Tabs /\ e.n \in 1..clicks'
        /\ \A n \in Pending(e.tab)' : e.n < n
        /\ \A u \in Tabs \ {e.tab} : e.n \notin Pending(u)'
  BY <1>1 DEF NumberInv
<1> HIDE DEF Pending
<1> QED
  BY <1>2, <1>3, <1>4 DEF NumberInv

\* What is under way was under way.
LEMMA BusyKept ==
  ASSUME CartFrame, NEW s \in Slots, Handle(s)
  PROVE  \A o \in Slots : Busy(o)' => Busy(o) /\ run'[o].op = run[o].op
<1> TAKE o \in Slots
<1>1. CASE o # s
  <2>1. run'[o] = run[o]
    BY <1>1, HandleMoves DEF CartFrame
  <2> QED
    BY <2>1 DEF Busy
<1>2. CASE o = s
  <2>1. Busy(s)
    BY HandleMoves DEF CartFrame
  <2>2. CASE run'[s] = Idle
    BY <1>2, <2>2 DEF Busy, Idle
  <2>3. CASE run'[s] = [pc |-> run'[s].pc, op |-> run[s].op, saw |-> run'[s].saw]
    BY <1>2, <2>1, <2>3
  <2> QED
    BY <2>2, <2>3, HandleMoves DEF CartFrame
<1> QED
  BY <1>1, <1>2

\* While nothing is sent or queued, what is pending can only shrink.
LEMMA LineKept ==
  ASSUME InLine, queue' = queue,
         \A t \in Tabs : \A x \in {"page", "lost"} :
           Busy(<<t, x>>)' => Busy(<<t, x>>) /\ run'[<<t, x>>].op = run[<<t, x>>].op
  PROVE  InLine' /\ \A t \in Tabs : Pending(t)' \subseteq Pending(t)
<1>1. \A t \in Tabs : \A i, j \in DOMAIN queue[t] : i < j => queue[t][i].n < queue[t][j].n
  BY DEF InLine
<1>2. ASSUME NEW t \in Tabs
      PROVE  /\ Busy(<<t, "page">>)' => \A i \in DOMAIN queue[t] : run'[<<t, "page">>].op.n < queue[t][i].n
             /\ ~Busy(<<t, "lost">>)'
             /\ Pending(t)' \subseteq Pending(t)
  <2> DEFINE page == <<t, "page">>
  <2>1. Busy(page)' => Busy(page) /\ run'[page].op = run[page].op
    OBVIOUS
  <2>2. ~Busy(<<t, "lost">>)'
    BY DEF InLine
  <2>3. Busy(page) => \A i \in DOMAIN queue[t] : run[page].op.n < queue[t][i].n
    BY DEF InLine
  <2>4. Pending(t)' = {queue[t][i].n : i \in DOMAIN queue[t]}
                        \union (IF Busy(page)' THEN {run'[page].op.n} ELSE {})
    BY DEF Pending
  <2> HIDE DEF page
  <2>5. Pending(t) = {queue[t][i].n : i \in DOMAIN queue[t]}
                        \union (IF Busy(page) THEN {run[page].op.n} ELSE {})
    BY DEF Pending, page
  <2>6. Pending(t)' \subseteq Pending(t)
    BY <2>1, <2>4, <2>5
  <2> QED
    BY <2>1, <2>2, <2>3, <2>6 DEF page
<1> QED
  BY <1>1, <1>2 DEF InLine

\* Rows that stay keep the choice they show, and rows that are new or added to
\* show none.
ChoicesKept ==
  \A k \in Carts : \A key \in Keys : lines'[k][key] # None =>
    \/ lines'[k][key].by = 0
    \/ /\ lines[k][key] # None
       /\ lines'[k][key].id = lines[k][key].id /\ lines'[k][key].by = lines[k][key].by

\* A step that keeps the rows' choices and what was accepted keeps the last choice.
LEMMA ChoicesStay ==
  ASSUME NumberInv, LastChoice, accepted' = accepted, clicks \in Nat, ChoicesKept
  PROVE  LastChoice'
<1>1. \A a \in accepted : a.n # 0
  BY DEF NumberInv
<1>2. ASSUME NEW k \in Carts, NEW key \in Keys, lines'[k][key] # None,
             NEW a \in accepted, NEW b \in accepted,
             a.n = lines'[k][key].by, b.tab = a.tab,
             a.id = lines'[k][key].id, b.id = lines'[k][key].id
      PROVE  b.n <= a.n
  <2>1. /\ lines[k][key] # None
        /\ lines'[k][key].id = lines[k][key].id /\ lines'[k][key].by = lines[k][key].by
    BY <1>1, <1>2 DEF ChoicesKept
  <2> QED
    BY <1>2, <2>1 DEF LastChoice, RowsOf
<1> QED
  BY <1>2 DEF LastChoice, RowsOf, Carts, Keys

\* Ticks leave the choices,
LEMMA TicksKeepChoices ==
  ASSUME NEW c, OnlyTicks(c)
  PROVE  ChoicesKept
<1> SUFFICES ASSUME NEW k \in Carts, NEW key \in Keys, lines'[k][key] # None
             PROVE  /\ lines[k][key] # None
                    /\ lines'[k][key].id = lines[k][key].id /\ lines'[k][key].by = lines[k][key].by
  BY DEF ChoicesKept
<1>1. CASE k # c
  BY <1>1 DEF OnlyTicks
<1>2. CASE k = c
  <2> DEFINE i == lines[c][key].id  x == lines[c][key].qty  d == lines[c][key].due
             b == lines[c][key].by
  <2>1. lines[c][key] # None
    BY <1>2 DEF OnlyTicks
  <2>2. PICK tick : lines'[c][key] = [id |-> i, qty |-> x, selected |-> tick, due |-> d, by |-> b]
    BY <2>1 DEF OnlyTicks
  <2> HIDE DEF i, x, d, b
  <2>3. lines'[c][key].id = i /\ lines'[c][key].by = b
    BY <2>2
  <2> QED
    BY <1>2, <2>1, <2>3 DEF i, b
<1> QED
  BY <1>1, <1>2

\* so do deletions,
LEMMA DeletionKeepsChoices ==
  ASSUME CartFrame, NEW c \in Carts, NEW keys, DeleteRows(c, keys)
  PROVE  ChoicesKept
<1>1. /\ \A l \in Carts : l # c => lines'[l] = lines[l]
      /\ \A key \in Keys : lines'[c][key] = IF key \in keys THEN None ELSE lines[c][key]
  BY RowsDeleted DEF CartFrame
<1> QED
  BY <1>1 DEF ChoicesKept

\* and adds,
LEMMA AddKeepsChoices ==
  ASSUME CartFrame, NEW s \in Slots, WriteAdd(s)
  PROVE  ChoicesKept
<1> DEFINE c == run[s].saw.cart
           due(key) == DueAfter(lines[c][key], OpOf(s).q, run[s].saw.left)
           sum(key) == Added(s)[key]
           keys == AddedKeys(s)
<1>1. /\ \A l \in Carts : l # c => lines'[l] = lines[l]
      /\ \A key \in Keys \ keys : lines'[c][key] = lines[c][key]
      /\ \A key \in keys :
              /\ lines[c][key] = None => lines'[c][key] = Row(lines'[c][key].id, sum(key), due(key))
              /\ lines[c][key] # None =>
                   lines'[c][key] = [id |-> lines[c][key].id, qty |-> sum(key),
                                     selected |-> lines[c][key].selected, due |-> due(key), by |-> 0]
  BY AddWritten
<1> HIDE DEF c, due, sum, keys
<1>2. \A key \in keys : lines'[c][key].by = 0
  <2> TAKE key \in keys
  <2>1. CASE lines[c][key] = None
    <3> DEFINE i == lines'[c][key].id  x == sum(key)  d == due(key)
    <3>1. lines'[c][key] = Row(i, x, d)
      BY <1>1, <2>1
    <3> HIDE DEF i, x, d
    <3> QED
      BY <3>1 DEF Row
  <2>2. CASE lines[c][key] # None
    <3> DEFINE i == lines[c][key].id  tick == lines[c][key].selected
               x == sum(key)  d == due(key)
    <3>1. lines'[c][key] = [id |-> i, qty |-> x, selected |-> tick, due |-> d, by |-> 0]
      BY <1>1, <2>2
    <3> HIDE DEF i, tick, x, d
    <3> QED
      BY <3>1
  <2> QED
    BY <2>1, <2>2
<1> QED
  BY <1>1, <1>2 DEF ChoicesKept

\* and whatever else does not set a quantity.
LEMMA OthersKeepChoices ==
  ASSUME CartFrame, NEW s \in Slots, Handle(s), ~WriteQuantity(s)
  PROVE  ChoicesKept /\ accepted' = accepted
<1>1. accepted' = accepted
  BY DEF Handle, CheckAdd, CreateCart, ReadLines, WriteAdd, FindLine, ReadGroup, WriteSelection,
         RemoveLine, FindCart, SelectAll, RemoveSelected, SetVoucher, Fails, rowVars
<1> SUFFICES ChoicesKept
  BY <1>1
<1>2. CASE lines' = lines
  BY <1>2 DEF ChoicesKept
<1>3. CASE CheckAdd(s) \/ CreateCart(s) \/ ReadLines(s) \/ FindLine(s) \/ ReadGroup(s)
           \/ FindCart(s) \/ SetVoucher(s) \/ Fails(s)
  BY <1>2, <1>3 DEF CheckAdd, CreateCart, ReadLines, FindLine, ReadGroup, FindCart, SetVoucher,
                    Fails, rowVars
<1>4. CASE WriteAdd(s)
  BY <1>4, AddKeepsChoices
<1>5. CASE WriteSelection(s)
  BY <1>5, SelectionTicks, TicksKeepChoices
<1>6. CASE SelectAll(s)
  BY <1>6, AllTicks, TicksKeepChoices
<1>7. CASE RemoveLine(s)
  <2> DEFINE c == CartOf(s)
  <2>1. c = run[s].saw.cart
    BY DEF CartOf
  <2> HIDE DEF c
  <2> DEFINE keys == Removed(c, run[s].saw.key)
  <2>2. c \in Carts /\ DeleteRows(c, keys)
    BY <1>7, <2>1, LineRemoved
  <2> HIDE DEF keys
  <2> QED
    BY <2>2, DeletionKeepsChoices
<1>8. CASE RemoveSelected(s)
  <2> DEFINE c == CartOf(s)
  <2>1. c = run[s].saw.cart
    BY DEF CartOf
  <2> HIDE DEF c
  <2> DEFINE keys == {key \in RowsOf(c) : IdOf(lines[c][key]) \in run[s].saw.ids}
  <2>2. c \in Carts /\ (lines' = lines \/ DeleteRows(c, keys))
    BY <1>8, <2>1, SelectedRemoved
  <2> HIDE DEF keys
  <2> QED
    BY <1>2, <2>2, DeletionKeepsChoices
<1> QED
  BY <1>3, <1>4, <1>5, <1>6, <1>7, <1>8 DEF Handle

\* A choice that is accepted is the latest of its tab.
LEMMA QuantityInOrder ==
  ASSUME CartFrame, OrderInv, NEW s \in Slots, WriteQuantity(s)
  PROVE  OrderInv'
<1> DEFINE c == CartOf(s)  keys == QuantityKeys(s)  m == run[s].op.n  t == s[1]
           q == OpOf(s).q
           sum(key) == IF key \in Group THEN Per[key[2]] * q ELSE q
<1>1. /\ c \in Carts /\ keys \subseteq RowsOf(c)
      /\ \A l \in Carts : l # c => lines'[l] = lines[l]
      /\ \A key \in Keys : lines'[c][key] =
              IF key \notin keys THEN lines[c][key]
              ELSE [id |-> lines[c][key].id, qty |-> sum(key),
                    selected |-> lines[c][key].selected, due |-> q, by |-> m]
  BY QuantityWritten
<1>2. /\ Busy(s) /\ OpOf(s).kind = "quantity"
  BY DEF WriteQuantity, Serves, OpOf
<1>3. s = <<t, "page">> /\ t \in Tabs
  <2>1. OpOf(s) \in IF s[2] = "button" THEN ButtonOps ELSE PageOps
    BY <1>2 DEF CartFrame, SentInv, OpOf
  <2>2. s[2] # "button"
    BY <1>2, <2>1, KindsOf
  <2>3. s = <<t, s[2]>> /\ t \in Tabs /\ s[2] \in {"page", "button", "lost"}
    BY SlotFacts
  <2>4. s # <<t, "lost">>
    BY <1>2, <2>3 DEF OrderInv, InLine
  <2> QED
    BY <2>2, <2>3, <2>4
<1>4. accepted' = accepted \union
        {[tab |-> t, n |-> m, id |-> IdOf(lines[c][key]), q |-> q] : key \in keys}
  BY DEF WriteQuantity, QuantityKeys, CartOf
<1>5. m \in Pending(t)
  BY <1>2, <1>3 DEF Pending
<1>6. UNCHANGED <<queue, clicks>> /\ clicks \in Nat
  BY DEF WriteQuantity, outside, CartFrame, SentInv
<1>7. run' = [o \in Slots |-> IF o = s THEN Idle ELSE run[o]]
  BY AnsweredWith DEF WriteQuantity, CartFrame
<1>8. Handle(s)
  BY DEF Handle
<1>9. InLine' /\ \A u \in Tabs : Pending(u)' \subseteq Pending(u)
  <2>1. \A u \in Tabs : \A x \in {"page", "lost"} :
           Busy(<<u, x>>)' => Busy(<<u, x>>) /\ run'[<<u, x>>].op = run[<<u, x>>].op
    BY <1>8, BusyKept, SlotFacts
  <2> QED
    BY <1>6, <2>1, LineKept DEF OrderInv
<1>10. \A n \in Pending(t)' : m < n
  <2>1. ~Busy(<<t, "page">>)'
    BY <1>3, <1>7 DEF Busy, Idle
  <2>2. Pending(t)' = {queue[t][i].n : i \in DOMAIN queue[t]}
    BY <1>6, <2>1 DEF Pending
  <2>3. \A i \in DOMAIN queue[t] : m < queue[t][i].n
    BY <1>2, <1>3 DEF OrderInv, InLine
  <2> QED
    BY <2>2, <2>3
<1>11. m \in 1..clicks /\ \A u \in Tabs \ {t} : m \notin Pending(u)
  <2>1. Pending(t) \subseteq 1..clicks /\ \A u \in Tabs : u # t => Pending(t) \intersect Pending(u) = {}
    BY <1>3 DEF OrderInv, NumberInv
  <2> HIDE DEF m
  <2> QED
    BY <1>5, <2>1
<1> HIDE DEF m, t, q, c, keys, sum
<1>12. ASSUME NEW e \in accepted', e \notin accepted
       PROVE  e.tab = t /\ e.n = m /\ \E x \in keys : x \in Keys /\ lines[c][x] # None /\ e.id = lines[c][x].id
  <2>1. PICK x \in keys : e = [tab |-> t, n |-> m, id |-> IdOf(lines[c][x]), q |-> q]
    BY <1>4, <1>12
  <2>2. x \in Keys /\ lines[c][x] # None
    BY <1>1 DEF RowsOf
  <2>3. IdOf(lines[c][x]) = lines[c][x].id
    BY <2>2 DEF IdOf
  <2>4. e.tab = t /\ e.n = m /\ e.id = IdOf(lines[c][x])
    BY <2>1
  <2> QED
    BY <2>2, <2>3, <2>4
<1>13. \A e \in accepted : e.n \in 1..clicks /\ (e.tab = t => e.n < m) /\ (e.tab # t => e.n # m)
  BY <1>3, <1>5 DEF OrderInv, NumberInv
<1>14. NumberInv'
  <2>1. \A u \in Tabs : Pending(u)' \subseteq 1..clicks'
    BY <1>6, <1>9 DEF OrderInv, NumberInv
  <2>2. \A u, v \in Tabs : u # v => Pending(u)' \intersect Pending(v)' = {}
    BY <1>9 DEF OrderInv, NumberInv
  <2>3. ASSUME NEW e \in accepted'
        PROVE  /\ e.tab \in Tabs /\ e.n \in 1..clicks'
               /\ \A n \in Pending(e.tab)' : e.n < n
               /\ \A u \in Tabs \ {e.tab} : e.n \notin Pending(u)'
    <3>1. CASE e \in accepted
      <4>1. /\ e.tab \in Tabs /\ e.n \in 1..clicks
            /\ \A n \in Pending(e.tab) : e.n < n
            /\ \A u \in Tabs \ {e.tab} : e.n \notin Pending(u)
        BY <3>1 DEF OrderInv, NumberInv
      <4>2. Pending(e.tab)' \subseteq Pending(e.tab)
        BY <1>9, <4>1
      <4> QED
        BY <1>6, <1>9, <4>1, <4>2
    <3>2. CASE e \notin accepted
      <4>1. e.tab = t /\ e.n = m
        BY <1>12, <3>2
      <4>2. \A n \in Pending(e.tab)' : e.n < n
        BY <1>10, <4>1
      <4>3. \A u \in Tabs \ {e.tab} : e.n \notin Pending(u)'
        BY <1>9, <1>11, <4>1
      <4> QED
        BY <1>3, <1>6, <1>11, <4>1, <4>2, <4>3
    <3> QED
      BY <3>1, <3>2
  <2> HIDE DEF Pending
  <2> QED
    BY <2>1, <2>2, <2>3 DEF NumberInv
<1>15. \A l \in Carts : \A a \in Keys : \A x \in Keys :
         lines[l][a] # None /\ lines[c][x] # None /\ lines[l][a].id = lines[c][x].id => l = c /\ a = x
  BY <1>1 DEF CartFrame, LinesInv
<1>16. ASSUME NEW l \in Carts, NEW key \in Keys, lines'[l][key] # None,
              NEW a \in accepted', NEW b \in accepted',
              a.n = lines'[l][key].by, b.tab = a.tab,
              a.id = lines'[l][key].id, b.id = lines'[l][key].id
       PROVE  b.n <= a.n
  <2>1. CASE l = c /\ key \in keys
    <3> DEFINE i == lines[c][key].id  tick == lines[c][key].selected  y == sum(key)
    <3>1. lines'[c][key] = [id |-> i, qty |-> y, selected |-> tick, due |-> q, by |-> m]
      BY <1>1, <2>1
    <3> HIDE DEF i, tick, y
    <3>2. lines'[c][key].by = m
      BY <3>1
    <3>3. a.n = m
      BY <1>16, <2>1, <3>2
    <3>4. a.tab = t
      BY <1>12, <1>13, <1>11, <3>3
    <3>5. CASE b \in accepted
      <4>1. b.n \in 1..clicks /\ b.n < m
        BY <1>13, <1>16, <3>4, <3>5
      <4> QED
        BY <1>6, <1>11, <3>3, <4>1
    <3>6. CASE b \notin accepted
      <4>1. b.n = m
        BY <1>12, <3>6
      <4> QED
        BY <1>6, <1>11, <3>3, <4>1
    <3> QED
      BY <3>5, <3>6
  <2>2. CASE ~(l = c /\ key \in keys)
    <3>1. lines'[l][key] = lines[l][key]
      BY <1>1, <2>2
    <3>2. ASSUME NEW e \in accepted', e.id = lines[l][key].id
          PROVE  e \in accepted
      <4>1. SUFFICES ASSUME e \notin accepted
                     PROVE  FALSE
        OBVIOUS
      <4>2. PICK x \in keys : x \in Keys /\ lines[c][x] # None /\ e.id = lines[c][x].id
        BY <1>12, <4>1
      <4>3. l = c /\ key = x
        BY <1>15, <1>16, <3>1, <3>2, <4>2
      <4> QED
        BY <2>2, <4>3
    <3>3. a \in accepted /\ b \in accepted
      BY <1>16, <3>1, <3>2
    <3> QED
      BY <1>16, <3>1, <3>3 DEF OrderInv, LastChoice, RowsOf
  <2> QED
    BY <2>1, <2>2
<1>17. LastChoice'
  BY <1>16 DEF LastChoice, RowsOf, Carts, Keys
<1> QED
  BY <1>9, <1>14, <1>17 DEF OrderInv

\* What the server does keeps the choices in the order of the clicks.
LEMMA OrderHandles ==
  ASSUME CartFrame, OrderInv, NEW s \in Slots, Handle(s)
  PROVE  OrderInv'
<1>1. CASE WriteQuantity(s)
  BY <1>1, QuantityInOrder
<1>2. CASE ~WriteQuantity(s)
  <2>1. ChoicesKept /\ accepted' = accepted
    BY <1>2, OthersKeepChoices
  <2>2. UNCHANGED <<queue, clicks>> /\ clicks \in Nat
    BY HandleMoves DEF outside, CartFrame, SentInv
  <2>3. \A u \in Tabs : \A x \in {"page", "lost"} :
           Busy(<<u, x>>)' => Busy(<<u, x>>) /\ run'[<<u, x>>].op = run[<<u, x>>].op
    BY BusyKept, SlotFacts
  <2>4. InLine' /\ \A u \in Tabs : Pending(u)' \subseteq Pending(u)
    BY <2>2, <2>3, LineKept DEF OrderInv
  <2>5. NumberInv'
    BY <2>1, <2>2, <2>4, NumbersShrink DEF OrderInv
  <2>6. LastChoice'
    BY <2>1, <2>2, ChoicesStay DEF OrderInv
  <2> QED
    BY <2>4, <2>5, <2>6 DEF OrderInv
<1> QED
  BY <1>1, <1>2

\* Nothing is written and no click is made or sent.
LEMMA OrderIdles ==
  ASSUME CartFrame, OrderInv, UNCHANGED <<lines, accepted, queue>>, clicks' \in Nat, clicks <= clicks',
         \A u \in Tabs : \A x \in {"page", "lost"} : run'[<<u, x>>] = run[<<u, x>>]
  PROVE  OrderInv'
<1>1. \A u \in Tabs : \A x \in {"page", "lost"} :
        Busy(<<u, x>>)' => Busy(<<u, x>>) /\ run'[<<u, x>>].op = run[<<u, x>>].op
  BY DEF Busy
<1>2. InLine' /\ \A u \in Tabs : Pending(u)' \subseteq Pending(u)
  BY <1>1, LineKept DEF OrderInv
<1>3. clicks \in Nat
  BY DEF CartFrame, SentInv
<1>4. NumberInv'
  BY <1>2, <1>3, NumbersShrink DEF OrderInv
<1>5. LastChoice'
  BY DEF OrderInv, LastChoice, RowsOf
<1> QED
  BY <1>2, <1>4, <1>5 DEF OrderInv

\* A click comes last and has the next number.
LEMMA OrderPresses ==
  ASSUME CartFrame, OrderInv, NEW t \in Tabs, NEW op \in PageOps, Press(t, op)
  PROVE  OrderInv'
<1> DEFINE x == [op |-> op, n |-> clicks + 1]
           Waiting == [op : PageOps, n : Nat \ {0}]
           page == <<t, "page">>
<1>1. /\ UNCHANGED <<lines, run, accepted>> /\ clicks' = clicks + 1
      /\ queue' = [queue EXCEPT ![t] = Append(queue[t], x)]
  BY DEF Press
<1>2. queue \in [Tabs -> Seq(Waiting)] /\ clicks \in Nat /\ x \in Waiting /\ x.n = clicks + 1
  <2>1. queue \in [Tabs -> Seq(Waiting)] /\ clicks \in Nat
    BY DEF CartFrame, SentInv
  <2>2. x \in Waiting /\ x.n = clicks + 1
    BY <2>1
  <2> HIDE DEF x, Waiting
  <2> QED
    BY <2>1, <2>2
<1> HIDE DEF x, Waiting
<1> DEFINE old == queue[t]  new == Append(old, x)
<1>3. old \in Seq(Waiting) /\ Len(old) \in Nat
  BY <1>2
<1>4. /\ new \in Seq(Waiting) /\ Len(new) = Len(old) + 1
      /\ \A i \in 1..Len(old) : new[i] = old[i]
      /\ new[Len(old) + 1] = x
  BY <1>2, <1>3
<1>5. DOMAIN old = 1..Len(old) /\ DOMAIN new = 1..Len(old) + 1
  BY <1>3, <1>4
<1>6. queue'[t] = new /\ \A u \in Tabs : u # t => queue'[u] = queue[u]
  BY <1>1, <1>2
<1>7. /\ Pending(t) \subseteq 1..clicks
      /\ \A i \in DOMAIN old : old[i].n \in Pending(t)
      /\ Busy(page) => run[page].op.n \in Pending(t)
  BY DEF OrderInv, NumberInv, Pending
<1>8. /\ \A i, j \in DOMAIN old : i < j => old[i].n < old[j].n
      /\ Busy(page) => \A i \in DOMAIN old : run[page].op.n < old[i].n
      /\ \A u \in Tabs : ~Busy(<<u, "lost">>)
  BY DEF OrderInv, InLine
<1>9. \A u \in Tabs : Busy(<<u, "page">>)' = Busy(<<u, "page">>) /\ Busy(<<u, "lost">>)' = Busy(<<u, "lost">>)
  BY <1>1 DEF Busy
<1>10. \A u \in Tabs : u # t => Pending(u)' = Pending(u)
  BY <1>1, <1>6, <1>9 DEF Pending
<1>11. Pending(t)' \subseteq Pending(t) \union {clicks + 1}
  <2>1. Pending(t)' = {new[i].n : i \in DOMAIN new}
                        \union (IF Busy(page) THEN {run[page].op.n} ELSE {})
    BY <1>1, <1>6, <1>9 DEF Pending
  <2> HIDE DEF new, old, page
  <2>2. \A i \in DOMAIN new : new[i].n \in Pending(t) \union {clicks + 1}
    <3> TAKE i \in DOMAIN new
    <3>1. CASE i = Len(old) + 1
      BY <1>2, <1>4, <3>1
    <3>2. CASE i # Len(old) + 1
      <4>1. i \in 1..Len(old)
        BY <1>3, <1>5, <3>2
      <4> QED
        BY <1>4, <1>5, <1>7, <4>1
    <3> QED
      BY <3>1, <3>2
  <2> QED
    BY <1>7, <2>1, <2>2
<1> HIDE DEF old, new, page
<1>12. InLine'
  <2>1. ASSUME NEW i \in DOMAIN new, NEW j \in DOMAIN new, i < j
        PROVE  new[i].n < new[j].n
    <3>1. i \in 1..Len(old) /\ i \in Nat /\ j \in Nat
      BY <1>3, <1>5, <2>1
    <3>2. new[i].n = old[i].n /\ old[i].n \in 1..clicks
      BY <1>4, <1>5, <1>7, <3>1
    <3>3. CASE j = Len(old) + 1
      BY <1>2, <1>4, <3>2, <3>3
    <3>4. CASE j # Len(old) + 1
      <4>1. j \in 1..Len(old)
        BY <1>3, <1>5, <3>4
      <4> QED
        BY <1>4, <1>5, <1>8, <2>1, <3>1, <3>2, <4>1
    <3> QED
      BY <3>3, <3>4
  <2>2. ASSUME Busy(page), NEW i \in DOMAIN new
        PROVE  run[page].op.n < new[i].n
    <3>1. run[page].op.n \in 1..clicks
      BY <1>7, <2>2
    <3>2. CASE i = Len(old) + 1
      BY <1>2, <1>4, <3>1, <3>2
    <3>3. CASE i # Len(old) + 1
      <4>1. i \in 1..Len(old)
        BY <1>3, <1>5, <3>3
      <4> QED
        BY <1>4, <1>5, <1>8, <2>2, <4>1
    <3> QED
      BY <3>2, <3>3
  <2>3. ASSUME NEW u \in Tabs
        PROVE  /\ \A i, j \in DOMAIN queue'[u] : i < j => queue'[u][i].n < queue'[u][j].n
               /\ Busy(<<u, "page">>)' => \A i \in DOMAIN queue'[u] : run'[<<u, "page">>].op.n < queue'[u][i].n
               /\ ~Busy(<<u, "lost">>)'
    <3>1. CASE u = t
      BY <1>1, <1>6, <1>8, <1>9, <2>1, <2>2, <3>1 DEF page
    <3>2. CASE u # t
      <4>1. queue'[u] = queue[u]
        BY <1>6, <3>2
      <4> QED
        BY <1>1, <1>9, <4>1 DEF OrderInv, InLine
    <3> QED
      BY <3>1, <3>2
  <2> QED
    BY <2>3 DEF InLine
<1>13. NumberInv'
  <2>1. clicks' \in Nat /\ 1..clicks \subseteq 1..clicks' /\ clicks + 1 \in 1..clicks'
        /\ clicks + 1 \notin 1..clicks /\ \A n \in 1..clicks : n < clicks + 1
    BY <1>1, <1>2
  <2>2. \A u \in Tabs : Pending(u)' \subseteq Pending(u) \union (IF u = t THEN {clicks + 1} ELSE {})
    BY <1>10, <1>11
  <2>3. \A u \in Tabs : Pending(u) \subseteq 1..clicks
    BY DEF OrderInv, NumberInv
  <2>4. \A u \in Tabs : Pending(u)' \subseteq 1..clicks'
    BY <2>1, <2>2, <2>3
  <2>5. \A u, v \in Tabs : u # v => Pending(u)' \intersect Pending(v)' = {}
    <3>1. \A u, v \in Tabs : u # v => Pending(u) \intersect Pending(v) = {}
      BY DEF OrderInv, NumberInv
    <3> QED
      BY <2>1, <2>2, <2>3, <3>1
  <2>6. ASSUME NEW e \in accepted
        PROVE  /\ e.tab \in Tabs /\ e.n \in 1..clicks'
               /\ \A n \in Pending(e.tab)' : e.n < n
               /\ \A u \in Tabs \ {e.tab} : e.n \notin Pending(u)'
    <3>1. /\ e.tab \in Tabs /\ e.n \in 1..clicks
          /\ \A n \in Pending(e.tab) : e.n < n
          /\ \A u \in Tabs \ {e.tab} : e.n \notin Pending(u)
      BY DEF OrderInv, NumberInv
    <3>2. \A n \in Pending(e.tab)' : e.n < n
      BY <2>1, <2>2, <3>1
    <3>3. \A u \in Tabs \ {e.tab} : e.n \notin Pending(u)'
      BY <2>1, <2>2, <3>1
    <3> QED
      BY <2>1, <3>1, <3>2, <3>3
  <2> QED
    BY <1>1, <2>4, <2>5, <2>6 DEF NumberInv
<1>14. LastChoice'
  BY <1>1 DEF OrderInv, LastChoice, RowsOf
<1> QED
  BY <1>12, <1>13, <1>14 DEF OrderInv

\* The first click in line is with the server next.
LEMMA OrderSends ==
  ASSUME CartFrame, OrderInv, NEW t \in Tabs, NEW i, Send(t, i)
  PROVE  OrderInv'
<1> DEFINE Waiting == [op : PageOps, n : Nat \ {0}]
           page == <<t, "page">>  old == queue[t]  new == Tail(old)  first == old[1]
<1>1. /\ UNCHANGED <<lines, accepted, clicks>> /\ ~Busy(page)
      /\ SetsOut(page, first) /\ old # <<>>
      /\ queue' = [queue EXCEPT ![t] = new]
  BY FrameSends DEF Send
<1>2. queue \in [Tabs -> Seq(Waiting)] /\ clicks \in Nat
  BY DEF CartFrame, SentInv
<1> HIDE DEF Waiting
<1>3. old \in Seq(Waiting) /\ Len(old) \in Nat \ {0}
  <2>1. old \in Seq(Waiting)
    BY <1>2
  <2> HIDE DEF old
  <2> QED
    BY <1>1, <2>1
<1>4. page \in Slots /\ \A u \in Tabs : u # t => <<u, "page">> \in Slots /\ <<u, "page">> # page
  BY SlotFacts
<1>5. \A u \in Tabs : <<u, "lost">> \in Slots /\ <<u, "lost">> # page
  BY SlotFacts
<1>6. queue'[t] = new /\ \A u \in Tabs : u # t => queue'[u] = queue[u]
  <2> HIDE DEF new
  <2> QED
    BY <1>1, <1>2
<1> HIDE DEF page, old
<1>7. run' = [o \in Slots |-> IF o = page THEN [pc |-> "sent", op |-> first, saw |-> None] ELSE run[o]]
  BY <1>1, <1>4, Goes DEF CartFrame
<1>8. run'[page].op = first /\ \A o \in Slots : o # page => run'[o] = run[o]
  BY <1>4, <1>7
<1>9. /\ Len(new) = Len(old) - 1 /\ DOMAIN new = 1..Len(old) - 1 /\ DOMAIN old = 1..Len(old)
      /\ \A j \in 1..Len(old) - 1 : new[j] = old[j + 1] /\ j + 1 \in 1..Len(old) /\ 1 < j + 1
      /\ 1 \in DOMAIN old
  BY <1>1, <1>3
<1>10. \A a, b \in DOMAIN old : a < b => old[a].n < old[b].n
  BY DEF OrderInv, InLine, old
<1> HIDE DEF new
<1>11. \A j \in DOMAIN new : first.n < new[j].n
  BY <1>9, <1>10
<1>12. ASSUME NEW a \in DOMAIN new, NEW b \in DOMAIN new, a < b
       PROVE  new[a].n < new[b].n
  <2>1. new[a] = old[a + 1] /\ new[b] = old[b + 1] /\ a + 1 \in DOMAIN old /\ b + 1 \in DOMAIN old
    BY <1>9
  <2>2. a + 1 < b + 1
    BY <1>3, <1>9, <1>12
  <2> QED
    BY <1>10, <2>1, <2>2
<1>13. \A u \in Tabs : u # t => Pending(u)' = Pending(u)
  BY <1>4, <1>6, <1>8 DEF Pending, Busy
<1>14. Pending(t)' \subseteq Pending(t)
  <2>1. Pending(t)' \subseteq {new[j].n : j \in DOMAIN new} \union {first.n}
    BY <1>6, <1>8 DEF Pending, page
  <2>2. {old[j].n : j \in DOMAIN old} \subseteq Pending(t)
    BY DEF Pending, old
  <2>3. \A j \in DOMAIN new : new[j].n \in {old[k].n : k \in DOMAIN old}
    BY <1>9
  <2>4. first.n \in {old[j].n : j \in DOMAIN old}
    BY <1>9
  <2> HIDE DEF first, Pending
  <2> QED
    BY <2>1, <2>2, <2>3, <2>4
<1>15. NumberInv'
  BY <1>1, <1>2, <1>13, <1>14, NumbersShrink DEF OrderInv
<1>16. InLine'
  <2>1. ASSUME NEW u \in Tabs
        PROVE  /\ \A a, b \in DOMAIN queue'[u] : a < b => queue'[u][a].n < queue'[u][b].n
               /\ Busy(<<u, "page">>)' => \A a \in DOMAIN queue'[u] : run'[<<u, "page">>].op.n < queue'[u][a].n
               /\ ~Busy(<<u, "lost">>)'
    <3>1. ~Busy(<<u, "lost">>)'
      <4>1. ~Busy(<<u, "lost">>)
        BY DEF OrderInv, InLine
      <4>2. run'[<<u, "lost">>] = run[<<u, "lost">>]
        BY <1>5, <1>8
      <4> QED
        BY <4>1, <4>2 DEF Busy
    <3>2. CASE u = t
      BY <1>6, <1>8, <1>11, <1>12, <3>1, <3>2 DEF page
    <3>3. CASE u # t
      <4>1. queue'[u] = queue[u] /\ run'[<<u, "page">>] = run[<<u, "page">>]
        BY <1>4, <1>6, <1>8, <3>3
      <4> QED
        BY <3>1, <4>1 DEF OrderInv, InLine, Busy
    <3> QED
      BY <3>2, <3>3
  <2> QED
    BY <2>1 DEF InLine
<1>17. LastChoice'
  BY <1>1 DEF OrderInv, LastChoice, RowsOf
<1> QED
  BY <1>15, <1>16, <1>17 DEF OrderInv

\* Every step does, until an answer is lost.
LEMMA OrderStep ==
  ASSUME CartFrame, lostAnswers \in Nat, lostAnswers = 0 => OrderInv, [Next]_vars
  PROVE  lostAnswers' \in Nat /\ (lostAnswers' = 0 => OrderInv')
<1>1. clicks \in Nat
  BY DEF CartFrame, SentInv
<1>2. ASSUME lostAnswers' = lostAnswers, OrderInv => OrderInv'
      PROVE  lostAnswers' \in Nat /\ (lostAnswers' = 0 => OrderInv')
  BY <1>2
<1>3. ASSUME UNCHANGED <<lines, accepted, queue, clicks, run>>
      PROVE  OrderInv => OrderInv'
  BY <1>1, <1>3, OrderIdles
<1>4. ASSUME NEW t \in Tabs, LoseAnswer(t)
      PROVE  lostAnswers' \in Nat /\ (lostAnswers' = 0 => OrderInv')
  <2>1. lostAnswers' = lostAnswers + 1
    BY <1>4 DEF LoseAnswer
  <2> QED
    BY <2>1
<1>5. ASSUME NEW s \in Slots, Handle(s)
      PROVE  lostAnswers' \in Nat /\ (lostAnswers' = 0 => OrderInv')
  <2>1. lostAnswers' = lostAnswers
    BY <1>5, HandleMoves DEF CartFrame, outside
  <2> QED
    BY <1>2, <1>5, <2>1, OrderHandles
<1>6. ASSUME NEW t \in Tabs, Clicked(t)
      PROVE  lostAnswers' \in Nat /\ (lostAnswers' = 0 => OrderInv')
  <2>1. CASE \E op \in PageOps : Press(t, op)
    <3>1. lostAnswers' = lostAnswers
      BY <2>1 DEF Press
    <3> QED
      BY <1>2, <2>1, <3>1, OrderPresses
  <2>2. CASE \E op \in ButtonOps : PushButton(t, op)
    <3>1. PICK op \in ButtonOps : PushButton(t, op)
      BY <2>2
    <3> DEFINE s == <<t, "button">>  click == [op |-> op, n |-> clicks + 1]
    <3>2. /\ SetsOut(s, click) /\ UNCHANGED <<lines, accepted, queue, lostAnswers>>
          /\ clicks' = clicks + 1
      BY <3>1 DEF PushButton
    <3>3. s \in Slots /\ \A u \in Tabs : \A x \in {"page", "lost"} : <<u, x>> \in Slots /\ <<u, x>> # s
      BY SlotFacts
    <3> HIDE DEF s, click
    <3>4. run' = [o \in Slots |-> IF o = s THEN [pc |-> "sent", op |-> click, saw |-> None] ELSE run[o]]
      BY <3>2, <3>3, Goes DEF CartFrame
    <3>5. \A u \in Tabs : \A x \in {"page", "lost"} : run'[<<u, x>>] = run[<<u, x>>]
      BY <3>3, <3>4
    <3>6. clicks' \in Nat /\ clicks <= clicks'
      BY <1>1, <3>2
    <3> QED
      BY <1>2, <3>2, <3>5, <3>6, OrderIdles
  <2> QED
    BY <1>6, <2>1, <2>2, ClicksAre DEF CartFrame
<1>7. ASSUME NEW t \in Tabs, SendNext(t)
      PROVE  lostAnswers' \in Nat /\ (lostAnswers' = 0 => OrderInv')
  <2>1. PICK i : Send(t, i)
    BY <1>7 DEF SendNext
  <2>2. lostAnswers' = lostAnswers
    BY <2>1 DEF Send
  <2> QED
    BY <1>2, <2>1, <2>2, OrderSends
<1>8. ASSUME NEW v, NEW n, ShelfMoves(v, n)
      PROVE  lostAnswers' \in Nat /\ (lostAnswers' = 0 => OrderInv')
  <2>1. UNCHANGED <<lines, accepted, queue, clicks, run, lostAnswers>>
    BY <1>8 DEF ShelfMoves
  <2> QED
    BY <1>2, <1>3, <2>1
<1>9. UNCHANGED cartVars => lostAnswers' \in Nat /\ (lostAnswers' = 0 => OrderInv')
  BY <1>2, <1>3 DEF cartVars
<1> QED
  BY <1>4, <1>5, <1>6, <1>7, <1>8, <1>9 DEF Next, vars, CartNext

\* Nothing has been chosen at first.
LEMMA OrderBegins ==
  ASSUME CartInit \/ EmptyCart
  PROVE  lostAnswers = 0 /\ OrderInv
<1>1. /\ queue = [t \in Tabs |-> <<>>] /\ run = [s \in Slots |-> Idle]
      /\ lostAnswers = 0 /\ accepted = {}
  BY Beginning DEF NoRequests
<1>2. \A s \in Slots : ~Busy(s)
  BY <1>1 DEF Busy, Idle
<1>3. \A t \in Tabs : queue[t] = <<>> /\ ~Busy(<<t, "page">>) /\ ~Busy(<<t, "lost">>)
  BY <1>1, <1>2, SlotFacts
<1>4. \A t \in Tabs : DOMAIN queue[t] = {}
  <2>1. DOMAIN <<>> = {}
    OBVIOUS
  <2> QED
    BY <1>3, <2>1
<1>5. \A t \in Tabs : Pending(t) = {}
  BY <1>3, <1>4 DEF Pending
<1>6. NumberInv
  BY <1>1, <1>5 DEF NumberInv
<1>7. InLine
  BY <1>3, <1>4 DEF InLine
<1>8. LastChoice
  BY <1>1 DEF LastChoice
<1> QED
  BY <1>1, <1>6, <1>7, <1>8 DEF OrderInv

\* The quantity of a line is the last one its tab chose among those that were
\* accepted, for any tabs and clicks, unless a tab gave up on an answer.
THEOREM ChoicesTheorem == Spec => []ChoicesInClickOrder
<1> DEFINE Inv == CartFrame /\ lostAnswers \in Nat /\ (lostAnswers = 0 => OrderInv)
<1>1. Init => Inv
  BY CartBegins, Beginning, OrderBegins
<1>2. Inv /\ [Next]_vars => Inv'
  <2> SUFFICES ASSUME CartFrame, lostAnswers \in Nat, lostAnswers = 0 => OrderInv, [Next]_vars
               PROVE  CartFrame' /\ lostAnswers' \in Nat /\ (lostAnswers' = 0 => OrderInv')
    OBVIOUS
  <2> QED
    BY FrameStep, OrderStep
<1>3. Inv => ChoicesInClickOrder
  BY DEF ChoicesInClickOrder, OrderInv, LastChoice
<1> QED
  BY <1>1, <1>2, <1>3, PTL DEF Spec

-----------------------------------------------------------------------------
(* A walk through a list.                                                  *)

IsEntry(row) ==
  /\ row = [at |-> row.at, rating |-> row.rating, wanted |-> row.wanted]
  /\ row.at \in Nat /\ (list.of \in ByRating => row.rating \in Nat)

Positions == [lead : Int, at : Nat, tie : Nat]

\* What a steady row's count is at this point of the walk.
SeenSoFar(i) ==
  CASE walk.pc = "start" -> 0
    [] walk.pc = "next" -> IF PastCursor(i, walk.cursor) THEN 0 ELSE 1
    [] walk.pc = "done" -> 1

ListInv ==
  /\ rows = [i \in Ids |-> rows[i]] /\ \A i \in Present : IsEntry(rows[i])
  /\ steady \subseteq Present
  /\ tied \in BOOLEAN /\ (~tied => ~HasTies(rows))
  /\ walk = [pc |-> walk.pc, cursor |-> walk.cursor, shown |-> walk.shown, page |-> walk.page]
  /\ walk.pc \in {"start", "next", "done"} /\ walk.shown \in [Ids -> Nat]
  /\ walk.pc = "start" => walk.cursor = Absent
  /\ walk.pc = "next" => walk.cursor \in Positions
  /\ (list.of = "orders" => ~tied) =>
       \A i \in steady : rows[i].wanted => walk.shown[i] = SeenSoFar(i)

\* Positions are in one order.
LEMMA AheadOrders ==
  /\ \A a \in Positions : ~Ahead(a, a)
  /\ \A a, b, c \in Positions : Ahead(a, b) /\ Ahead(b, c) => Ahead(a, c)
  /\ \A a, b \in Positions : Ahead(a, b) \/ Ahead(b, a) \/ a.tie = b.tie
  /\ \A a, b \in Positions : ~(Ahead(a, b) /\ Ahead(b, a))
<1>1. \A a \in Positions : a.lead \in Int /\ a.at \in Nat /\ a.tie \in Nat
  BY DEF Positions
<1>2. \A a \in Positions : ~Ahead(a, a)
  BY <1>1 DEF Ahead
<1>3. \A a, b, c \in Positions : Ahead(a, b) /\ Ahead(b, c) => Ahead(a, c)
  BY <1>1 DEF Ahead
<1>4. \A a, b \in Positions : Ahead(a, b) \/ Ahead(b, a) \/ a.tie = b.tie
  BY <1>1 DEF Ahead
<1>5. \A a, b \in Positions : ~(Ahead(a, b) /\ Ahead(b, a))
  BY <1>1 DEF Ahead
<1> QED
  BY <1>2, <1>3, <1>4, <1>5

\* A row has a position in the sort and one in the cursor.
LEMMA RowPositions ==
  ASSUME ListInv, NEW i \in Present
  PROVE  /\ Sorted(i) \in Positions /\ CursorOf(i) \in Positions
         /\ Sorted(i).tie = i /\ i \in Ids /\ i \in Nat
         /\ CursorOf(i).lead = Sorted(i).lead /\ CursorOf(i).at = Sorted(i).at
         /\ Sorted(i).at = rows[i].at
         /\ list.of # "orders" => CursorOf(i) = Sorted(i)
<1>1. IsEntry(rows[i]) /\ i \in Ids /\ i \in Nat
  BY ListAssumption DEF ListInv, Present
<1>2. Lead(rows[i]) \in Int
  BY <1>1 DEF Lead, IsEntry, ByRating
<1>3. rows[i].at \in Nat
  BY <1>1 DEF IsEntry
<1>4. NumberOf[i] \in Nat
  BY <1>1, ListAssumption
<1> DEFINE lead == Lead(rows[i])  at == rows[i].at
           tie == IF list.of = "orders" THEN NumberOf[i] ELSE i
<1>5. Sorted(i) = [lead |-> lead, at |-> at, tie |-> i]
  BY DEF Sorted
<1>6. tie \in Nat /\ (list.of # "orders" => tie = i)
  BY <1>1, <1>4
<1>7. CursorOf(i) = [Sorted(i) EXCEPT !.tie = tie]
  BY DEF CursorOf
<1> HIDE DEF lead, tie
<1>8. CursorOf(i) = [lead |-> lead, at |-> at, tie |-> tie]
  BY <1>5, <1>7
<1>9. Sorted(i) \in Positions /\ CursorOf(i) \in Positions
  BY <1>1, <1>2, <1>3, <1>5, <1>6, <1>8 DEF Positions, lead
<1> QED
  BY <1>1, <1>5, <1>6, <1>8, <1>9

\* Where no two rows share a timestamp, both orders are the same; in the other
\* lists they are the same anyway.
LEMMA CursorsAgree ==
  ASSUME ListInv, list.of = "orders" => ~tied, NEW i \in Present, NEW j \in Present, i # j
  PROVE  Ahead(CursorOf(i), CursorOf(j)) <=> Ahead(Sorted(i), Sorted(j))
<1>1. CASE list.of # "orders"
  BY <1>1, RowPositions
<1>2. CASE list.of = "orders"
  <2>1. ~HasTies(rows)
    BY <1>2 DEF ListInv
  <2>2. rows[i].at # rows[j].at
    <3>1. i \in Ids /\ j \in Ids /\ rows[i] # Absent /\ rows[j] # Absent
      BY DEF Present
    <3> QED
      BY <2>1, <3>1 DEF HasTies
  <2>3. /\ CursorOf(i).lead = Sorted(i).lead /\ CursorOf(i).at = Sorted(i).at
        /\ CursorOf(j).lead = Sorted(j).lead /\ CursorOf(j).at = Sorted(j).at
        /\ Sorted(i).at # Sorted(j).at
    BY <2>2, RowPositions
  <2> QED
    BY <2>3 DEF Ahead
<1> QED
  BY <1>1, <1>2

\* The rows of a set that sort before a row of it.
InFront(S, i) == {j \in S : Ahead(Sorted(j), Sorted(i))}

\* A list is finite.
LEMMA RowsFinite ==
  ASSUME NEW S \in SUBSET Present
  PROVE  IsFiniteSet(S) /\ Cardinality(S) \in Nat
         /\ \A i : IsFiniteSet(InFront(S, i)) /\ Cardinality(InFront(S, i)) \in Nat
<1>1. S \in SUBSET Ids /\ IsFiniteSet(Ids)
  BY ListAssumption DEF Present
<1>2. \A T \in SUBSET Ids : IsFiniteSet(T) /\ Cardinality(T) \in Nat
  BY <1>1, FS_Subset, FS_CardinalityType
<1>3. \A i : InFront(S, i) \in SUBSET Ids
  BY <1>1 DEF InFront
<1> QED
  BY <1>1, <1>2, <1>3

\* A row has more rows in front of it than those it comes after.
LEMMA FurtherBack ==
  ASSUME ListInv, NEW S \in SUBSET Present, NEW i \in S, NEW p \in S, Ahead(Sorted(i), Sorted(p))
  PROVE  Cardinality(InFront(S, i)) < Cardinality(InFront(S, p))
<1> DEFINE A == InFront(S, i)  B == InFront(S, p)
<1>1. \A j \in S : Sorted(j) \in Positions
  BY RowPositions
<1>2. A \in SUBSET B
  BY <1>1, AheadOrders DEF InFront
<1>3. i \in B /\ i \notin A
  BY <1>1, AheadOrders DEF InFront
<1>4. IsFiniteSet(B) /\ Cardinality(A) \in Nat /\ Cardinality(B) \in Nat
  BY RowsFinite
<1> HIDE DEF A, B
<1>5. Cardinality(A) <= Cardinality(B) /\ (Cardinality(B) = Cardinality(A) => B = A)
  BY <1>2, <1>4, FS_Subset
<1>6. Cardinality(A) < Cardinality(B)
  BY <1>3, <1>4, <1>5
<1> QED
  BY <1>6 DEF A, B

\* A page is the front of what was found, it is not empty if there is more, and
\* it has a last row.
LEMMA PageIsFront ==
  ASSUME ListInv, NEW S \in SUBSET Present
  PROVE  /\ FirstOf(S, PageSize) \subseteq S
         /\ \A i \in S \ FirstOf(S, PageSize) : \A p \in FirstOf(S, PageSize) :
              Ahead(Sorted(p), Sorted(i))
         /\ FirstOf(S, PageSize) # S => FirstOf(S, PageSize) # {}
         /\ FirstOf(S, PageSize) # {} =>
              \E l \in FirstOf(S, PageSize) : \A j \in FirstOf(S, PageSize) :
                l = j \/ Ahead(Sorted(j), Sorted(l))
<1> DEFINE page == FirstOf(S, PageSize)
           rank(i) == Cardinality(InFront(S, i))
<1>1. page = {i \in S : rank(i) < PageSize} /\ PageSize \in Nat \ {0}
  BY ListAssumption DEF FirstOf, InFront
<1>2. \A i : rank(i) \in Nat
  BY RowsFinite
<1>3. \A i, p \in S : Ahead(Sorted(i), Sorted(p)) => rank(i) < rank(p)
  BY FurtherBack
<1>4. \A i, p \in S : i # p => Ahead(Sorted(i), Sorted(p)) \/ Ahead(Sorted(p), Sorted(i))
  <2>1. \A i \in S : Sorted(i) \in Positions /\ Sorted(i).tie = i
    BY RowPositions
  <2> QED
    BY <2>1, AheadOrders
<1> HIDE DEF page, rank
<1>5. page \subseteq S
  BY <1>1
<1>6. ASSUME NEW i \in S \ page, NEW p \in page
      PROVE  Ahead(Sorted(p), Sorted(i))
  <2>1. ~(rank(i) < PageSize) /\ rank(p) < PageSize /\ p \in S /\ i # p
    BY <1>1, <1>6
  <2>2. ~(rank(i) < rank(p))
    BY <1>1, <1>2, <2>1
  <2> QED
    BY <1>3, <1>4, <1>6, <2>1, <2>2
\* The last of a set is the one with the most in front of it.
<1>7. ASSUME NEW T \in SUBSET S, T # {}
      PROVE  \E l \in T : \A j \in T : rank(j) <= rank(l)
  <2> DEFINE f == [i \in T |-> rank(i)]  R == {rank(i) : i \in T}
  <2>1. f \in [T -> R] /\ \A x \in R : \E i \in T : f[i] = x
    OBVIOUS
  <2>2. R # {} /\ R \subseteq Int /\ \A i \in T : rank(i) \in R
    BY <1>2, <1>7
  <2>3. \A x \in R : \E i \in T : x = rank(i)
    OBVIOUS
  <2>4. IsFiniteSet(T)
    BY RowsFinite
  <2> HIDE DEF f, R
  <2>5. f \in Surjection(T, R)
    BY <2>1 DEF Surjection
  <2>6. IsFiniteSet(R)
    BY <2>4, <2>5, FS_Surjection
  <2>7. PICK m \in R : \A x \in R : x <= m
    BY <2>2, <2>6, GreatestNumber
  <2>8. PICK l \in T : m = rank(l)
    BY <2>3
  <2> QED
    BY <2>2, <2>7, <2>8
<1>8. ASSUME page # {}
      PROVE  \E l \in page : \A j \in page : l = j \/ Ahead(Sorted(j), Sorted(l))
  <2>1. PICK l \in page : \A j \in page : rank(j) <= rank(l)
    BY <1>5, <1>7, <1>8
  <2>2. ASSUME NEW j \in page, l # j
        PROVE  Ahead(Sorted(j), Sorted(l))
    <3>1. ~(rank(l) < rank(j))
      BY <1>2, <2>1
    <3> QED
      BY <1>3, <1>4, <1>5, <2>2, <3>1
  <2> QED
    BY <2>1, <2>2
<1>9. ASSUME page # S
      PROVE  page # {}
  <2>1. PICK i \in S : i \notin page
    BY <1>5, <1>9
  <2> DEFINE n == rank(i)
\* The row in front of all others is on the page.
  <2>2. \E first \in S : \A j \in S : rank(first) <= rank(j)
    <3> DEFINE f == [a \in S |-> rank(a)]  R == {rank(a) : a \in S}
    <3>1. f \in [S -> R] /\ \A x \in R : \E a \in S : f[a] = x
      OBVIOUS
    <3>2. R # {} /\ R \subseteq Int /\ \A a \in S : rank(a) \in R
      BY <1>2, <2>1
    <3>3. \A x \in R : \E a \in S : x = rank(a)
      OBVIOUS
    <3>4. IsFiniteSet(S)
      BY RowsFinite
    <3> HIDE DEF f, R
    <3>5. f \in Surjection(S, R)
      BY <3>1 DEF Surjection
    <3>6. IsFiniteSet(R)
      BY <3>4, <3>5, FS_Surjection
    <3>7. Min(R) \in R /\ \A x \in R : Min(R) <= x
      BY <3>2, <3>6, LeastNumber
    <3>8. PICK a \in S : Min(R) = rank(a)
      BY <3>3, <3>7
    <3> QED
      BY <3>2, <3>7, <3>8
  <2>3. PICK first \in S : \A j \in S : rank(first) <= rank(j)
    BY <2>2
  <2>4. InFront(S, first) = {}
    <3>1. ASSUME NEW j \in InFront(S, first)
          PROVE  FALSE
      <4>1. j \in S /\ Ahead(Sorted(j), Sorted(first))
        BY DEF InFront
      <4>2. rank(j) < rank(first) /\ rank(first) <= rank(j)
        BY <1>3, <2>3, <4>1
      <4> QED
        BY <1>2, <4>2
    <3> QED
      BY <3>1
  <2>5. rank(first) = 0
    BY <2>4, FS_EmptySet DEF rank
  <2>6. first \in page
    BY <1>1, <2>5
  <2> QED
    BY <2>6
<1> QED
  BY <1>5, <1>6, <1>8, <1>9 DEF page

\* What one page does to the count of a row that stayed put: the page shows it,
\* or it was shown before, or it is still to come.
LEMMA PageCounts ==
  ASSUME ListInv, ReadPage, list.of = "orders" => ~tied, NEW i \in steady, rows[i].wanted
  PROVE  walk'.shown[i] = SeenSoFar(i)'
<1> DEFINE found == {j \in Present : PastCursor(j, walk.cursor) /\ Filtered(j, walk.cursor)}
           page == FirstOf(found, PageSize)
           last == CHOOSE l \in page : \A j \in page : l = j \/ Ahead(Sorted(j), Sorted(l))
           past == PastCursor(i, walk.cursor)
<1>1. /\ walk.pc # "done"
      /\ walk' = [pc |-> IF found # page THEN "next" ELSE "done",
                  cursor |-> IF found # page THEN CursorOf(last) ELSE Absent,
                  shown |-> [j \in Ids |-> walk.shown[j] + (IF j \in page THEN 1 ELSE 0)],
                  page |-> page]
      /\ rows' = rows /\ list' = list
  BY DEF ReadPage
<1>2. i \in Present /\ i \in Ids
  BY DEF ListInv, Present
<1>3. CursorOf(i)' = CursorOf(i)
  BY <1>1 DEF CursorOf, Sorted, Lead
<1>4. found \in SUBSET Present /\ (i \in found <=> past)
  BY <1>2 DEF Filtered
<1>5. walk.shown[i] = IF past THEN 0 ELSE 1
  <2>1. walk.shown[i] = SeenSoFar(i)
    BY DEF ListInv
  <2>2. CASE walk.pc = "start"
    <3>1. past
      BY <2>2 DEF ListInv, PastCursor
    <3> QED
      BY <2>1, <2>2, <3>1 DEF SeenSoFar
  <2>3. CASE walk.pc = "next"
    BY <2>1, <2>3 DEF SeenSoFar
  <2> QED
    BY <1>1, <2>2, <2>3 DEF ListInv
<1>6. walk'.shown[i] = walk.shown[i] + (IF i \in page THEN 1 ELSE 0)
  BY <1>1, <1>2
<1>7. /\ page \subseteq found
      /\ \A j \in found \ page : \A p \in page : Ahead(Sorted(p), Sorted(j))
      /\ page # found => page # {}
      /\ page # {} => \E l \in page : \A j \in page : l = j \/ Ahead(Sorted(j), Sorted(l))
  BY <1>4, PageIsFront
<1>8. ASSUME found = page
      PROVE  walk'.shown[i] = SeenSoFar(i)'
  <2>1. walk'.pc = "done"
    BY <1>1, <1>8
  <2>2. SeenSoFar(i)' = 1
    BY <2>1 DEF SeenSoFar
  <2> HIDE DEF found, page, past
  <2>3. walk'.shown[i] = 1
    BY <1>4, <1>5, <1>6, <1>8
  <2> QED
    BY <2>2, <2>3
<1>9. ASSUME found # page
      PROVE  walk'.shown[i] = SeenSoFar(i)'
  <2>1. walk'.pc = "next" /\ walk'.cursor = CursorOf(last)
    BY <1>1, <1>9
  <2>2. last \in page /\ \A j \in page : last = j \/ Ahead(Sorted(j), Sorted(last))
    BY <1>7, <1>9
  <2> HIDE DEF last
  <2>3. last \in found /\ last \in Present
    BY <1>4, <1>7, <2>2
  <2>4. CursorOf(last) \in Positions /\ CursorOf(i) \in Positions
        /\ Sorted(last) \in Positions /\ Sorted(i) \in Positions
    BY <1>2, <2>3, RowPositions
  <2>5. CursorOf(last) # Absent
    BY <2>4, ListAssumption DEF Positions
  <2>6. SeenSoFar(i)' = IF Ahead(CursorOf(last), CursorOf(i)) THEN 0 ELSE 1
    BY <1>3, <2>1, <2>5 DEF SeenSoFar, PastCursor
  <2>7. i # last => (Ahead(CursorOf(last), CursorOf(i)) <=> Ahead(Sorted(last), Sorted(i)))
    BY <1>2, <2>3, CursorsAgree
  <2>8. ~Ahead(CursorOf(last), CursorOf(last))
    BY <2>4, AheadOrders
  <2>9. CASE i \in page
    <3>1. ~Ahead(CursorOf(last), CursorOf(i))
      <4>1. CASE i = last
        BY <2>8, <4>1
      <4>2. CASE i # last
        <5>1. Ahead(Sorted(i), Sorted(last))
          BY <2>2, <2>9, <4>2
        <5>2. ~Ahead(Sorted(last), Sorted(i))
          BY <2>4, <5>1, AheadOrders
        <5> QED
          BY <2>7, <4>2, <5>2
      <4> QED
        BY <4>1, <4>2
    <3>2. past
      BY <1>4, <1>7, <2>9
    <3> HIDE DEF past
    <3> QED
      BY <1>5, <1>6, <2>6, <2>9, <3>1, <3>2
  <2>10. CASE i \in found \ page
    <3>1. Ahead(Sorted(last), Sorted(i)) /\ i # last
      BY <1>7, <2>2, <2>10
    <3>2. Ahead(CursorOf(last), CursorOf(i)) /\ past /\ i \notin page
      BY <1>4, <2>7, <2>10, <3>1
    <3> HIDE DEF past
    <3> QED
      BY <1>5, <1>6, <2>6, <3>2
\* What was shown before is before every row that is past the old cursor.
  <2>11. CASE i \notin found
    <3>1. ~past /\ i \notin page
      BY <1>4, <1>7, <2>11
    <3>2. walk.cursor # Absent /\ ~Ahead(walk.cursor, CursorOf(i))
      BY <3>1 DEF PastCursor
    <3>3. walk.cursor \in Positions
      BY <1>1, <3>2 DEF ListInv
    <3>4. Ahead(walk.cursor, CursorOf(last))
      BY <2>3, <3>2 DEF PastCursor
    <3>5. ~Ahead(CursorOf(last), CursorOf(i))
      BY <2>4, <3>2, <3>3, <3>4, AheadOrders
    <3> HIDE DEF past
    <3> QED
      BY <1>5, <1>6, <2>6, <3>1, <3>5
  <2> QED
    BY <2>9, <2>10, <2>11
<1> QED
  BY <1>8, <1>9

\* A page shows what comes next and moves the cursor past it.
LEMMA PageRead ==
  ASSUME ListInv, ReadPage
  PROVE  ListInv'
<1> DEFINE found == {j \in Present : PastCursor(j, walk.cursor) /\ Filtered(j, walk.cursor)}
           page == FirstOf(found, PageSize)
           last == CHOOSE l \in page : \A j \in page : l = j \/ Ahead(Sorted(j), Sorted(l))
           pc == IF found # page THEN "next" ELSE "done"
           cursor == IF found # page THEN CursorOf(last) ELSE Absent
           shown == [j \in Ids |-> walk.shown[j] + (IF j \in page THEN 1 ELSE 0)]
<1>1. /\ walk' = [pc |-> pc, cursor |-> cursor, shown |-> shown, page |-> page]
      /\ rows' = rows /\ list' = list /\ steady' = steady /\ tied' = tied
  BY DEF ReadPage
<1>2. found # page => CursorOf(last) \in Positions
  <2>1. ASSUME found # page
        PROVE  CursorOf(last) \in Positions
    <3>1. found \in SUBSET Present
      OBVIOUS
    <3>2. page \subseteq found
          /\ \E l \in page : \A j \in page : l = j \/ Ahead(Sorted(j), Sorted(l))
      BY <2>1, <3>1, PageIsFront
    <3>3. last \in page
      BY <3>2
    <3>4. last \in Present
      BY <3>1, <3>2, <3>3
    <3> HIDE DEF last
    <3> QED
      BY <3>4, RowPositions
  <2> QED
    BY <2>1
<1>3. shown \in [Ids -> Nat]
  BY DEF ListInv
<1>4. pc \in {"next", "done"} /\ (pc = "next" => cursor \in Positions)
  BY <1>2
<1> HIDE DEF found, page, last, pc, cursor, shown
<1>5. /\ walk' = [pc |-> walk'.pc, cursor |-> walk'.cursor, shown |-> walk'.shown, page |-> walk'.page]
      /\ walk'.pc = pc /\ walk'.cursor = cursor /\ walk'.shown = shown
  BY <1>1
<1>6. /\ walk'.pc \in {"start", "next", "done"} /\ walk'.shown \in [Ids -> Nat]
      /\ walk'.pc = "start" => walk'.cursor = Absent
      /\ walk'.pc = "next" => walk'.cursor \in Positions
  BY <1>3, <1>4, <1>5
<1>7. Present' = Present /\ HasTies(rows)' = HasTies(rows)
  BY <1>1 DEF Present, HasTies
<1>8. \A i \in Present : IsEntry(rows[i])'
  BY <1>1 DEF ListInv, IsEntry
<1>9. ASSUME (list.of = "orders" => ~tied)', NEW i \in steady', rows'[i].wanted
      PROVE  walk'.shown[i] = SeenSoFar(i)'
  BY <1>1, <1>9, PageCounts
<1> QED
  BY <1>1, <1>5, <1>6, <1>7, <1>8, <1>9 DEF ListInv

\* Whatever happens to one row, the others stay where they are.
LEMMA RowChanged ==
  ASSUME ListInv, NEW i \in Ids, NEW row, Change(i, row), row = Absent \/ IsEntry(row)
  PROVE  ListInv'
<1>1. /\ rows' = [rows EXCEPT ![i] = row] /\ list' = list /\ walk' = walk
      /\ steady' = steady \ {i} /\ tied' = (tied \/ HasTies(rows'))
  BY DEF Change
<1>2. rows = [j \in Ids |-> rows[j]] /\ steady \subseteq Present
  BY DEF ListInv
<1>3. rows' = [j \in Ids |-> rows'[j]] /\ rows'[i] = row
  BY <1>1, <1>2
<1>4. \A j \in Ids : j # i => rows'[j] = rows[j]
  BY <1>1, <1>2
<1>5. \A j \in Present' : IsEntry(rows[j])'
  <2> SUFFICES ASSUME NEW j \in Present'
               PROVE  IsEntry(rows[j])'
    OBVIOUS
  <2>1. j \in Ids /\ rows'[j] # Absent
    BY DEF Present
  <2>2. CASE j = i
    <3>1. IsEntry(row) /\ rows'[j] = row
      BY <1>3, <2>1, <2>2
    <3> QED
      BY <1>1, <3>1 DEF IsEntry
  <2>3. CASE j # i
    <3>1. rows'[j] = rows[j] /\ j \in Present
      BY <1>4, <2>1, <2>3 DEF Present
    <3>2. IsEntry(rows[j])
      BY <3>1 DEF ListInv
    <3> QED
      BY <1>1, <3>1, <3>2 DEF IsEntry
  <2> QED
    BY <2>2, <2>3
<1>6. \A j \in steady' : j \in steady /\ j \in Ids /\ j # i /\ rows'[j] = rows[j] /\ rows'[j] # Absent
  BY <1>1, <1>2, <1>4 DEF Present
<1>7. steady' \subseteq Present'
  BY <1>6 DEF Present
<1>8. tied' \in BOOLEAN /\ (~tied' => ~tied /\ ~HasTies(rows'))
  <2>1. tied \in BOOLEAN
    BY DEF ListInv
  <2>2. HasTies(rows') \in BOOLEAN
    BY DEF HasTies
  <2> QED
    BY <1>1, <2>1, <2>2
<1>9. ASSUME (list.of = "orders" => ~tied)', NEW j \in steady', rows'[j].wanted
      PROVE  walk'.shown[j] = SeenSoFar(j)'
  <2>1. (list.of = "orders" => ~tied) /\ rows'[j] = rows[j] /\ rows[j].wanted /\ j \in steady
    BY <1>1, <1>6, <1>8, <1>9
  <2>2. walk.shown[j] = SeenSoFar(j)
    BY <2>1 DEF ListInv
  <2>3. SeenSoFar(j)' = SeenSoFar(j)
    BY <1>1, <2>1 DEF SeenSoFar, PastCursor, CursorOf, Sorted, Lead
  <2> QED
    BY <1>1, <2>2, <2>3
<1>10. /\ walk' = [pc |-> walk'.pc, cursor |-> walk'.cursor, shown |-> walk'.shown, page |-> walk'.page]
       /\ walk'.pc \in {"start", "next", "done"} /\ walk'.shown \in [Ids -> Nat]
       /\ walk'.pc = "start" => walk'.cursor = Absent
       /\ walk'.pc = "next" => walk'.cursor \in Positions
  BY <1>1 DEF ListInv
<1> QED
  BY <1>3, <1>5, <1>7, <1>8, <1>9, <1>10 DEF ListInv

\* A new row is an entry.
LEMMA NewRows ==
  ASSUME NEW row \in RowOf
  PROVE  IsEntry(row)
<1>1. Instants \subseteq Nat /\ Ratings \subseteq Nat
  BY ListAssumption
<1>2. list.of \in ByRating => row \in [at : Instants, rating : Ratings,
                                      wanted : IF list.filtered THEN BOOLEAN ELSE {TRUE}]
  BY DEF RowOf
<1>3. row.at \in Instants /\ row = [at |-> row.at, rating |-> row.rating, wanted |-> row.wanted]
  BY DEF RowOf
<1>4. list.of \in ByRating => row.rating \in Ratings
  BY <1>2
<1> QED
  BY <1>1, <1>3, <1>4 DEF IsEntry

\* Every step keeps what was shown on one side of the cursor.
LEMMA ListStep ==
  ASSUME ListInv, [ListNext]_listVars
  PROVE  ListInv'
<1>1. CASE UNCHANGED listVars
  BY <1>1 DEF ListInv, listVars, Present, HasTies, IsEntry, SeenSoFar, PastCursor, CursorOf, Sorted, Lead
<1>2. CASE ReadPage
  BY <1>2, PageRead
<1>3. ASSUME NEW i \in Ids, NEW row \in RowOf, Enters(i, row)
      PROVE  ListInv'
  <2>1. Change(i, row) /\ IsEntry(row)
    BY <1>3, NewRows DEF Enters
  <2> QED
    BY <2>1, RowChanged
<1>4. ASSUME NEW i \in Ids, Leaves(i)
      PROVE  ListInv'
  <2>1. Change(i, Absent)
    BY <1>4 DEF Leaves
  <2> QED
    BY <2>1, RowChanged
<1>5. ASSUME NEW i \in Ids, NEW at \in Instants, Edited(i, at)
      PROVE  ListInv'
  <2> DEFINE row == [rows[i] EXCEPT !.at = at]
  <2>1. Change(i, row) /\ i \in Present
    BY <1>5 DEF Edited
  <2>2. IsEntry(rows[i]) /\ at \in Nat
    BY <2>1, ListAssumption DEF ListInv
  <2>3. /\ row.at = at /\ row.rating = rows[i].rating
        /\ row = [at |-> at, rating |-> rows[i].rating, wanted |-> rows[i].wanted]
    BY <2>2 DEF IsEntry
  <2>4. IsEntry(row)
    BY <2>2, <2>3 DEF IsEntry
  <2> HIDE DEF row
  <2> QED
    BY <2>1, <2>4, RowChanged
<1> QED
  BY <1>1, <1>2, <1>3, <1>4, <1>5 DEF ListNext

\* A walk begins with nothing shown.
LEMMA ListBegins ==
  ASSUME ListInit \/ NoList
  PROVE  ListInv
<1>1. ASSUME NoList
      PROVE  ListInv
  <2>1. /\ rows = [i \in Ids |-> Absent] /\ steady = {} /\ tied = FALSE
        /\ walk = [pc |-> "done", cursor |-> Absent, shown |-> [i \in Ids |-> 0], page |-> {}]
    BY <1>1 DEF NoList, NoWalk
  <2>2. Present = {} /\ ~HasTies(rows)
    BY <2>1 DEF Present, HasTies
  <2>3. rows = [i \in Ids |-> rows[i]]
    BY <2>1
  <2> QED
    BY <2>1, <2>2, <2>3 DEF ListInv
<1>2. ASSUME ListInit
      PROVE  ListInv
  <2>1. /\ rows \in [Ids -> RowOf \union {Absent}] /\ steady = Present /\ tied = HasTies(rows)
        /\ walk = [pc |-> "start", cursor |-> Absent, shown |-> [i \in Ids |-> 0], page |-> {}]
    BY <1>2 DEF ListInit, NoWalk
  <2>2. rows = [i \in Ids |-> rows[i]] /\ \A i \in Present : rows[i] \in RowOf
    BY <2>1 DEF Present
  <2>3. tied \in BOOLEAN /\ (~tied => ~HasTies(rows))
    BY <2>1 DEF HasTies
  <2>4. \A i \in Present : IsEntry(rows[i])
    BY <2>2, NewRows
  <2>5. walk.pc = "start" /\ walk.cursor = Absent /\ walk.shown = [i \in Ids |-> 0]
    BY <2>1
  <2>6. \A i \in steady : walk.shown[i] = 0 /\ SeenSoFar(i) = 0
    BY <2>1, <2>5 DEF Present, SeenSoFar
  <2>7. walk.shown \in [Ids -> Nat]
    BY <2>5
  <2> QED
    BY <2>1, <2>2, <2>3, <2>4, <2>5, <2>6, <2>7 DEF ListInv
<1> QED
  BY <1>1, <1>2

\* At the end of a walk every row that stayed put has been shown, and once,
\* for any rows, timestamps and page size, and whatever comes, goes and moves
\* meanwhile; in the order list, unless two orders were placed in one instant.
THEOREM WalkTheorem == Spec => []EveryRowSeenOnce
<1>1. Init => ListInv
  BY ListBegins DEF Init
<1>2. ListInv /\ [Next]_vars => ListInv'
  <2> SUFFICES ASSUME ListInv, [Next]_vars
               PROVE  ListInv'
    OBVIOUS
  <2>1. [ListNext]_listVars
    BY DEF Next, vars
  <2> QED
    BY <2>1, ListStep
<1>3. ListInv => EveryRowSeenOnce
  BY DEF ListInv, EveryRowSeenOnce, SeenSoFar
<1> QED
  BY <1>1, <1>2, <1>3, PTL DEF Spec
=============================================================================
