-------------------------------- MODULE Desk --------------------------------
(***************************************************************************)
(* The requests of the back office.  A request begins by reading what it   *)
(* is checked against, and writes in later steps: between them the         *)
(* requests of other operators run.  Every request is sent once.           *)
(***************************************************************************)
EXTENDS Integers, FiniteSets, FiniteSetsExt

CONSTANTS
  Requests,  \* the requests that may be sent
  None       \* no value: a null column, or nothing read yet

VARIABLES
  req,        \* how far each request is, what it is about and what it read
  overlapped  \* history: what two requests have been in flight about at once

deskVars == <<req, overlapped>>

New == [pc |-> "new", kind |-> None, on |-> None, arg |-> None, saw |-> None]

At(r, kind, pc) == req[r].kind = kind /\ req[r].pc = pc
InFlight(on) == {r \in Requests : req[r].pc \notin {"new", "done"} /\ req[r].on = on}

DeskInit == req = [r \in Requests |-> New] /\ overlapped = {}

\* A request has passed its checks, having read "saw".
Begin(r, kind, on, arg, saw) ==
  /\ req[r].pc = "new"
  /\ req' = [req EXCEPT ![r] =
       [pc |-> "checked", kind |-> kind, on |-> on, arg |-> arg, saw |-> saw]]
  /\ overlapped' = IF InFlight(on) = {} THEN overlapped ELSE overlapped \union {on}

\* It goes on to its next step, having read "saw" on the way.
Goes(r, pc, saw) ==
  /\ req' = [req EXCEPT ![r].pc = pc, ![r].saw = saw]
  /\ UNCHANGED overlapped

Ends(r) == Goes(r, "done", None)

\* The process serving a request dies.  A transaction that was open is rolled
\* back, which no step here has to undo: a transaction writes when it commits.
Crash(r) == req[r].pc \notin {"new", "done"} /\ Ends(r)
=============================================================================
