----------------------------- MODULE SearchBox ------------------------------
(***************************************************************************)
(* Two controls of the storefront that ask the server while the customer   *)
(* goes on: the suggestions under the search field, after a pause in the   *)
(* typing, and the result count on the filter sheet.  Answers come back in *)
(* any order, and one that was on its way when its request was aborted may *)
(* still arrive: the suggestions look at the abort before they are shown,  *)
(* the count does not.                                                     *)
(***************************************************************************)
EXTENDS Integers, FiniteSets

CONSTANT MaxEvents  \* bound on keystrokes, and on changes to the sheet

ASSUME EventsAssumption == MaxEvents \in Nat

VARIABLES
  field,  \* the search field: the number of its text and whether it is long enough
  timer,  \* the text whose 250 ms run, 0 for none
  asked,  \* requests for suggestions under way, by text
  cut,    \* those that were aborted
  panel,  \* the text whose suggestions the panel holds, 0 for none
  failed, \* history: texts whose request failed
  sheet   \* the filter sheet: its draft, the count shown, requests under way, and
          \* a history bit: an aborted one was answered after the newest one

boxVars == <<field, timer, asked, cut, panel, failed, sheet>>

NoCount == 0 - 1

BoxInit ==
  /\ field = [text |-> 0, long |-> FALSE]
  /\ timer = 0 /\ asked = {} /\ cut = {} /\ panel = 0 /\ failed = {}
  /\ sheet = [draft |-> 0, count |-> 0, counting |-> FALSE, asked |-> {}, cut |-> {},
              late |-> FALSE]

-----------------------------------------------------------------------------
\* Mutant of Superseded: the cleanup only stops the timer.
NothingSuperseded(n) == {}

\* The requests a new text puts an end to.
Superseded(n) == {k \in asked : k < n}

\* A keystroke: the effect of the text before is cleaned up, and a new text of
\* two letters or more waits for a pause.
Type(long) ==
  /\ field.text < MaxEvents
  /\ field' = [text |-> field.text + 1, long |-> long]
  /\ timer' = IF long THEN field.text + 1 ELSE 0
  /\ cut' = cut \union Superseded(field.text + 1)
  /\ UNCHANGED <<asked, panel, failed, sheet>>

PauseOver ==
  /\ timer # 0
  /\ asked' = asked \union {timer}
  /\ timer' = 0
  /\ UNCHANGED <<field, cut, panel, failed, sheet>>

\* An answer that was on its way when its request was aborted still arrives.
Suggested(k) ==
  /\ k \in asked
  /\ asked' = asked \ {k}
  /\ panel' = IF k \in cut THEN panel ELSE k
  /\ UNCHANGED <<field, timer, cut, failed, sheet>>

NotSuggested(k) ==
  /\ k \in asked
  /\ asked' = asked \ {k}
  /\ failed' = failed \union {k}
  /\ UNCHANGED <<field, timer, cut, panel, sheet>>

-----------------------------------------------------------------------------
OnSheet(s) == sheet' = s /\ UNCHANGED <<field, timer, asked, cut, panel, failed>>

\* A filter is ticked: the request under way is aborted and another one sent.
Tick ==
  /\ sheet.draft < MaxEvents
  /\ LET n == sheet.draft + 1 IN
     OnSheet([sheet EXCEPT !.draft = n, !.counting = TRUE, !.late = FALSE,
                           !.cut = @ \union sheet.asked, !.asked = @ \union {n}])

\* Mutant of Reopened: the request under way may still write.
ReopenedOnly == [sheet EXCEPT !.draft = @ + 1, !.count = sheet.draft + 1, !.counting = FALSE]

\* The sheet is opened again, with the filters and the count of the URL.
Reopened ==
  [sheet EXCEPT !.draft = @ + 1, !.count = sheet.draft + 1, !.counting = FALSE,
                !.cut = @ \union sheet.asked, !.late = FALSE]

Reopen == sheet.draft < MaxEvents /\ OnSheet(Reopened)

\* The count comes, and is shown whether or not its request was aborted; only
\* the newest request ends the wait.
Recounted(k) ==
  /\ k \in sheet.asked
  /\ OnSheet([sheet EXCEPT !.asked = @ \ {k}, !.count = k,
                           !.counting = @ /\ k \in sheet.cut,
                           !.late = @ \/ (k \in sheet.cut /\ ~sheet.counting)])

\* The request fails: the button does without a number, and an abort is not a
\* failure.
NotRecounted(k) ==
  /\ k \in sheet.asked
  /\ OnSheet(IF k \in sheet.cut THEN [sheet EXCEPT !.asked = @ \ {k}]
             ELSE [sheet EXCEPT !.asked = @ \ {k}, !.count = NoCount, !.counting = FALSE])

BoxNext ==
  \/ \E long \in BOOLEAN : Type(long)
  \/ PauseOver
  \/ \E k \in 1..MaxEvents :
       Suggested(k) \/ NotSuggested(k) \/ Recounted(k) \/ NotRecounted(k)
  \/ Tick
  \/ Reopen

-----------------------------------------------------------------------------
\* "The last query typed is the last one rendered rather than the last one to
\* arrive": once nothing is awaited the panel is about the text in the field,
\* unless asking for it failed.  The count is about the filters that are ticked
\* as soon as the sheet stops counting, in whichever order answers came: those
\* of aborted requests too, as long as the newest one is still to come.
NewestAnswerShown ==
  /\ timer = 0 /\ asked = {} /\ field.long /\ field.text \notin failed => panel = field.text
  /\ ~sheet.counting /\ ~sheet.late => sheet.count \in {sheet.draft, NoCount}

\* "Only the newest request may write the count": a number that is shown is for
\* the filters that are ticked, whenever the answers come.
CountIsOfTheDraft == ~sheet.counting => sheet.count \in {sheet.draft, NoCount}
=============================================================================
