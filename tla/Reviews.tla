------------------------------ MODULE Reviews -------------------------------
(***************************************************************************)
(* The reviews of what was bought: an invite per delivered line, the       *)
(* submission that spends it, the moderation that shows or hides a review, *)
(* and the rating counters of the product, which moderation rebuilds.      *)
(*                                                                         *)
(* A submission checks its link first and spends it later.  A moderation   *)
(* is a transaction of three statements at READ COMMITTED: it changes the  *)
(* review (whose row it locks until the end), reads the approved reviews   *)
(* (its own write and what others have committed), and writes the product. *)
(***************************************************************************)
EXTENDS Integers, FiniteSets, Functions

CONSTANTS
  Lines,        \* order lines that were bought
  Products,
  ProductOf,    \* the product each line is of
  Submissions,  \* review forms sent in, several of them perhaps for one link
  LinkOf,       \* the line whose link a submission carries
  RatingOf,     \* the stars a submission gives
  Decisions     \* moderation requests of the operators

ASSUME LinesAssumption == ProductOf \in [Lines -> Products]
ASSUME SubmissionsAssumption ==
  /\ LinkOf \in [Submissions -> Lines]
  /\ RatingOf \in [Submissions -> 1..5]

Verdicts == {"APPROVED", "REJECTED"}

VARIABLES
  invite,   \* the review_invite row of each line
  known,    \* links that reached the customer
  form,     \* how far each submission is
  review,   \* the review row each submission created: its committed status
  counters, \* review_count and rating_average_tenths of each product
  moder,    \* how far each moderation is, and what it is about
  raced     \* history: products two of whose moderations overlapped

reviewVars == <<invite, known, form, review, counters, moder, raced>>

Reviewed(l) == {s \in Submissions : LinkOf[s] = l /\ review[s] # "NONE"}
About(s) == ProductOf[LinkOf[s]]
Idle == [pc |-> "idle"]

\* Mutant of RatingAggregate: adds the stars up and does not average them.
TotalAggregate(approved) ==
  [count |-> Cardinality(approved),
   tenths |-> 10 * SumFunctionOnSet(RatingOf, approved)]

\* ratingAggregate: tenths of a star, rounded to the nearest.
RatingAggregate(approved) ==
  LET n == Cardinality(approved)
      total == SumFunctionOnSet(RatingOf, approved)
  IN IF n = 0 THEN [count |-> 0, tenths |-> 0]
     ELSE [count |-> n, tenths |-> (20 * total + n) \div (2 * n)]

\* The approved reviews of a product, as any reader sees them.
Approved(p) == {s \in Submissions : About(s) = p /\ review[s] = "APPROVED"}

\* The count and the average above the review list of a product page.
Summary(p) == RatingAggregate(Approved(p))

-----------------------------------------------------------------------------
ReviewsInit ==
  /\ invite = [l \in Lines |-> "none"]
  /\ known = {}
  /\ form = [s \in Submissions |-> "new"]
  /\ review = [s \in Submissions |-> "NONE"]
  /\ counters = [p \in Products |-> RatingAggregate({})]
  /\ moder = [d \in Decisions |-> Idle]
  /\ raced = {}

-----------------------------------------------------------------------------
(* Invites.                                                                *)

\* The lines that can still be given an invite.
Invitable(ls) == {l \in ls : invite[l] = "none"}

\* issueForOrder mints an invite for each of the lines.
Issue(ls) == invite' = [l \in Lines |-> IF l \in ls THEN "live" ELSE invite[l]]

InviteExpires(l) ==
  /\ invite[l] = "live"
  /\ invite' = [invite EXCEPT ![l] = "expired"]
  /\ UNCHANGED <<known, form, review, counters, moder, raced>>

-----------------------------------------------------------------------------
(* Submitting a review.                                                    *)

Usable(l) == invite[l] = "live"

\* requireUsable: the link, read before anything is written.
Submit(s) ==
  /\ form[s] = "new"
  /\ LinkOf[s] \in known
  /\ form' = [form EXCEPT ![s] = IF Usable(LinkOf[s]) THEN "checked" ELSE "refused"]
  /\ UNCHANGED <<invite, known, review, counters, moder, raced>>

\* Mutant of SpendInvite: creates the review and leaves the link live.
KeepInvite(s) == UNCHANGED invite

\* The invite is spent only if it is still unspent; a lapse in between is not
\* looked at again.
SpendInvite(s) ==
  /\ invite[LinkOf[s]] # "spent"
  /\ invite' = [invite EXCEPT ![LinkOf[s]] = "spent"]

\* createFromInvite: the invite and the review in one transaction.  The unique
\* index on order_item_id would refuse a second review of the line as well.
CreateFromInvite(s) ==
  /\ form[s] = "checked"
  /\ \/ /\ SpendInvite(s)
        /\ Reviewed(LinkOf[s]) = {}
        /\ review' = [review EXCEPT ![s] = "PENDING"]
        /\ form' = [form EXCEPT ![s] = "stored"]
     \/ /\ invite[LinkOf[s]] = "spent"
        /\ form' = [form EXCEPT ![s] = "refused"]
        /\ UNCHANGED <<invite, review>>
  /\ UNCHANGED <<known, counters, moder, raced>>

-----------------------------------------------------------------------------
(* Moderating.                                                             *)

\* A moderation that has written its review and not committed yet holds the
\* review's row.
Holds(d, s) == moder[d].pc \in {"written", "counted"} /\ moder[d].review = s

\* The service reads the review and refuses a verdict it has already.
Decide(d, s, to) ==
  /\ moder[d].pc = "idle"
  /\ review[s] \notin {"NONE", to}
  /\ moder' = [moder EXCEPT ![d] = [pc |-> "read", review |-> s, to |-> to]]
  /\ UNCHANGED <<invite, known, form, review, counters, raced>>

WriteVerdict(d) ==
  /\ moder[d].pc = "read"
  /\ \A e \in Decisions : ~Holds(e, moder[d].review)
  /\ moder' = [moder EXCEPT ![d].pc = "written"]
  /\ raced' = raced \union
       {About(moder[e].review) : e \in {x \in Decisions \ {d} :
          /\ moder[x].pc \in {"written", "counted"}
          /\ About(moder[x].review) = About(moder[d].review)}}
  /\ UNCHANGED <<invite, known, form, review, counters>>

\* What a moderation reads: its own uncommitted verdict, nobody else's.
SeenApproved(d) ==
  {s \in Submissions :
     /\ About(s) = About(moder[d].review)
     /\ IF s = moder[d].review THEN moder[d].to = "APPROVED" ELSE review[s] = "APPROVED"}

\* Mutant of Recount: counts before its own verdict, as a nudge by one would.
RecountBefore(d) ==
  /\ moder[d].pc = "written"
  /\ moder' = [moder EXCEPT ![d] =
       [pc |-> "counted", review |-> @.review, to |-> @.to,
        result |-> RatingAggregate(Approved(About(moder[d].review)))]]
  /\ UNCHANGED <<invite, known, form, review, counters, raced>>

Recount(d) ==
  /\ moder[d].pc = "written"
  /\ moder' = [moder EXCEPT ![d] =
       [pc |-> "counted", review |-> @.review, to |-> @.to,
        result |-> RatingAggregate(SeenApproved(d))]]
  /\ UNCHANGED <<invite, known, form, review, counters, raced>>

\* The product is written with the counters computed above, and the whole is
\* committed.  A second writer of the product waits and then overwrites it.
CommitVerdict(d) ==
  /\ moder[d].pc = "counted"
  /\ review' = [review EXCEPT ![moder[d].review] = moder[d].to]
  /\ counters' = [counters EXCEPT ![About(moder[d].review)] = moder[d].result]
  /\ moder' = [moder EXCEPT ![d] = Idle]
  /\ UNCHANGED <<invite, known, form, raced>>

-----------------------------------------------------------------------------
ReviewStep ==
  \/ \E l \in Lines : InviteExpires(l)
  \/ \E s \in Submissions : Submit(s) \/ CreateFromInvite(s)
  \/ \E d \in Decisions, s \in Submissions, to \in Verdicts : Decide(d, s, to)
  \/ \E d \in Decisions : WriteVerdict(d) \/ Recount(d) \/ CommitVerdict(d)

-----------------------------------------------------------------------------
\* An invite is spent exactly when the line it is for has its review: neither a
\* second review waiting to happen, nor a customer told to go away.
SpentInviteHasReview ==
  \A l \in Lines : invite[l] = "spent" <=> Cardinality(Reviewed(l)) = 1

\* The counters on the card say what the approved reviews say, of every product
\* whose moderations never overlapped.
SettledCounters == \A p \in Products \ raced : counters[p] = Summary(p)

\* The same of every product: "the number above the histogram and the number on
\* the product card can never disagree".
CountersAgree == \A p \in Products : counters[p] = Summary(p)
=============================================================================
