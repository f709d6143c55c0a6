------------------------ MODULE FulfilmentDeskProofs -------------------------
(***************************************************************************)
(* What holds at the order desk and of the reviews for any orders, lines,  *)
(* products, submissions, moderations and requests.                        *)
(*                                                                         *)
(* The desk and the reviews share nothing but the invites: a step of one   *)
(* leaves the other's variables alone, so each invariant below looks at    *)
(* the steps of its own half, and at the mail, which is where they meet.   *)
(***************************************************************************)
EXTENDS FulfilmentDesk, SumTheorems

-----------------------------------------------------------------------------
(* The inductive invariant.                                                *)

Aggregates == [count : Nat, tenths : 0..50]

\* How far each request and each moderation is, and what it is about.
DeskRecords ==
  {Idle} \union [pc : {"read", "moved", "stamped"}, order : Orders, to : OrderStatus]
         \union [pc : {"composed"}, order : Orders, to : Mailed, links : SUBSET Lines]

ModerRecords ==
  {Idle} \union [pc : {"read", "written"}, review : Submissions, to : Verdicts]
         \union [pc : {"counted"}, review : Submissions, to : Verdicts, result : Aggregates]

Stored == {s \in Submissions : review[s] # "NONE"}

\* The types, with those of the two tables of requests; the reviews stored so
\* far are finitely many, and what is moderated is one of them.
TypeInv ==
  /\ TypeOK
  /\ counters \in [Products -> Aggregates]
  /\ desk \in [Requests -> DeskRecords]
  /\ moder \in [Decisions -> ModerRecords]
  /\ IsFiniteSet(Stored)
  /\ \A d \in Decisions : moder[d].pc # "idle" => moder[d].review \in Stored

\* How far along its life an order is: every transition goes forward.
Rank == [PENDING_PAYMENT |-> 0, PAID |-> 1, PACKING |-> 2, SHIPPED |-> 3, DELIVERED |-> 4,
         COMPLETED |-> 5, CANCELLED |-> 5, EXPIRED |-> 5, REFUNDED |-> 5]

\* The request has moved its order and not yet mailed about it.
Moved(r) == desk[r].pc \in {"moved", "stamped", "composed"}

\* A status is never reached twice, so one request at most has a mail to send
\* about it, and none has been sent before.
MailInv ==
  /\ \A o \in Orders : \A st \in past[o] : Rank[st] <= Rank[status[o]]
  /\ \A r \in Requests : Moved(r) =>
       /\ desk[r].to \in past[desk[r].order]
       /\ desk[r].to \in Mailed => mails[desk[r].order][desk[r].to] = 0
  /\ \A r, q \in Requests :
       Moved(r) /\ Moved(q) /\ desk[r].order = desk[q].order /\ desk[r].to = desk[q].to => r = q
  /\ MailsAreTrueAndOnce

\* The courier asked for before the transaction is still booked inside it.
ShipInv ==
  /\ \A r \in Requests :
       desk[r].pc = "read" /\ desk[r].to = "SHIPPED" => shipment[desk[r].order].booked
  /\ ShipmentFollowsOrder

\* Only the order of a delivery mail has its lines' links in it, only a mailed
\* link is submitted, and only a submission is reviewed.
DeliveryInv ==
  /\ \A r \in Requests :
       Moved(r) /\ desk[r].to = "DELIVERED" => desk[r].order \in deliveredAt
  /\ \A r \in Requests : \A o \in Orders :
       desk[r].pc = "composed" /\ desk[r].links \intersect LinesOf[o] # {} => o \in deliveredAt
  /\ \A o \in Orders : known \intersect LinesOf[o] # {} => o \in deliveredAt
  /\ \A s \in Submissions : form[s] = "checked" \/ s \in Stored => LinkOf[s] \in known

\* A line has one review if its invite is spent, and none if not.
SpentInv ==
  \A l \in Lines :
    IF invite[l] = "spent" THEN \E s \in Submissions : Reviewed(l) = {s} ELSE Reviewed(l) = {}

\* A moderation that has written its verdict and not committed it.
Open(d) == moder[d].pc \in {"written", "counted"}

\* Two open moderations of one product race; one that races nobody has counted
\* what its commit will show.
CountInv ==
  /\ \A d, e \in Decisions :
       Open(d) /\ Open(e) /\ About(moder[d].review) = About(moder[e].review) =>
         d = e \/ About(moder[d].review) \in raced
  /\ \A d \in Decisions :
       moder[d].pc = "counted" /\ About(moder[d].review) \notin raced =>
         moder[d].result = RatingAggregate(SeenApproved(d))
  /\ SettledCounters

Inv == TypeInv /\ MailInv /\ ShipInv /\ DeliveryInv /\ SpentInv /\ CountInv

-----------------------------------------------------------------------------
(* The aggregate.                                                          *)

\* A quotient of at most half more than fifty is at most fifty.
LEMMA RoundedQuotient ==
  ASSUME NEW n \in Nat \ {0}, NEW total \in Int, n <= total, total <= 5 * n
  PROVE  (20 * total + n) \div (2 * n) \in 0..50
<1> DEFINE x == 20 * total + n
           q == x \div (2 * n)
<1>1. x \in Nat /\ x <= 101 * n
  OBVIOUS
<1>2. 2 * n \in Nat \ {0}
  OBVIOUS
<1> HIDE DEF x
<1>3. q \in Int /\ (2 * n) * q <= x /\ x < (2 * n) * (q + 1)
  <2> DEFINE m == 2 * n
  <2>1. m \in Nat \ {0} /\ x \in Int
    BY <1>1
  <2> HIDE DEF m
  <2>2. x \div m \in Int /\ m * (x \div m) <= x /\ x < m * ((x \div m) + 1)
    BY <2>1
  <2> QED  BY <2>2 DEF m
<1> HIDE DEF q
<1>4. q <= 50
  <2> SUFFICES ASSUME q >= 51  PROVE FALSE
    BY <1>3
  <2>1. (2 * n) * q >= (2 * n) * 51
    BY <1>2, <1>3
  <2> QED  BY <1>1, <1>3, <2>1
<1>5. q >= 0
  <2> SUFFICES ASSUME q + 1 <= 0  PROVE FALSE
    BY <1>3
  <2>1. (2 * n) * (q + 1) <= 0
    BY <1>2, <1>3
  <2> QED  BY <1>1, <1>2, <1>3, <2>1
<1> QED
  BY <1>3, <1>4, <1>5 DEF q, x

\* ratingAggregate of finitely many reviews is a count and at most fifty tenths.
LEMMA AggregateType ==
  ASSUME NEW S \in SUBSET Submissions, IsFiniteSet(S)
  PROVE  RatingAggregate(S) \in Aggregates
<1>1. Cardinality(S) \in Nat
  BY FS_CardinalityType
<1>2. CASE Cardinality(S) = 0
  BY <1>2 DEF RatingAggregate, Aggregates
<1>3. CASE Cardinality(S) # 0
  <2> DEFINE n == Cardinality(S)
             total == SumFunctionOnSet(RatingOf, S)
  <2>1. \A s \in S : RatingOf[s] \in 1..5
    BY SubmissionsAssumption
  <2>2. 1 * n <= total /\ total <= 5 * n
    BY <2>1, SumBounds
  <2>3. total \in Int
    <3>1. \A s \in S : RatingOf[s] \in Int
      BY <2>1
    <3> QED  BY <3>1, SumIsInt
  <2>4. n \in Nat \ {0}
    BY <1>1, <1>3
  <2>5. RatingAggregate(S) = [count |-> n, tenths |-> (20 * total + n) \div (2 * n)]
    BY <1>3 DEF RatingAggregate
  <2> HIDE DEF n, total
  <2>6. n <= total
    BY <2>2, <2>4
  <2>7. (20 * total + n) \div (2 * n) \in 0..50
    BY <2>2, <2>3, <2>4, <2>6, RoundedQuotient
  <2> QED
    BY <2>4, <2>5, <2>7 DEF Aggregates
<1> QED
  BY <1>2, <1>3

-----------------------------------------------------------------------------
(* The types.                                                              *)

\* The first state has the types.
LEMMA NothingStored ==
  ASSUME Init
  PROVE  TypeInv
<1>1. Stored = {} /\ IsFiniteSet({}) /\ {} \in SUBSET Submissions
  BY FS_EmptySet DEF Init, ReviewsInit, Stored
<1>2. RatingAggregate({}) \in Aggregates
  BY <1>1, AggregateType
<1>3. counters \in [Products -> Aggregates]
  BY <1>2 DEF Init, ReviewsInit
<1>4. desk \in [Requests -> DeskRecords] /\ moder \in [Decisions -> ModerRecords]
  BY DEF Init, ReviewsInit, DeskRecords, ModerRecords
<1>5. \A p \in Products : counters[p].count \in Nat /\ counters[p].tenths \in 0..50
  BY <1>3 DEF Aggregates
<1>6. TypeOK
  BY <1>5 DEF Init, ReviewsInit, TypeOK, Mailed, OrderStatus, NoShipment
<1>7. \A d \in Decisions : moder[d].pc = "idle"
  BY DEF Init, ReviewsInit, Idle
<1> QED
  BY <1>1, <1>3, <1>4, <1>6, <1>7 DEF TypeInv

\* What a step of the desk leaves alone of the reviews, and of the types.
LEMMA ReviewsKept ==
  ASSUME TypeInv, UNCHANGED <<form, review, counters, moder, raced>>,
         invite' \in [Lines -> {"none", "live", "expired", "spent"}], known' \subseteq Lines,
         status' \in [Orders -> OrderStatus], past' \in [Orders -> SUBSET OrderStatus],
         deliveredAt' \subseteq Orders,
         shipment' \in [Orders -> [booked : BOOLEAN, shipped : BOOLEAN, delivered : BOOLEAN]],
         mails' \in [Orders -> [Mailed -> Nat]],
         desk' \in [Requests -> DeskRecords]
  PROVE  TypeInv'
<1>1. Stored' = Stored
  BY DEF Stored
<1>2. TypeOK'
  BY DEF TypeInv, TypeOK
<1> QED
  BY <1>1, <1>2 DEF TypeInv

\* A request that is busy with an order, and what kind of record that is.
LEMMA DeskKinds ==
  ASSUME TypeInv, NEW r \in Requests
  PROVE  /\ desk[r].pc \in {"idle", "read", "moved", "stamped", "composed"}
         /\ desk[r].pc # "idle" => desk[r].order \in Orders /\ desk[r].to \in OrderStatus
         /\ desk[r].pc = "composed" =>
              desk[r].to \in Mailed /\ desk[r].links \subseteq Lines
  BY DEF TypeInv, DeskRecords, Idle, Mailed, OrderStatus

\* A request that goes on keeps the desk's type,
LEMMA BusyType ==
  ASSUME TypeInv, NEW r \in Requests, NEW o \in Orders, NEW to \in OrderStatus,
         NEW at \in {"read", "moved", "stamped"}, Busy(r, o, to, at)
  PROVE  desk' \in [Requests -> DeskRecords]
<1>1. [pc |-> at, order |-> o, to |-> to] \in DeskRecords
  BY DEF DeskRecords
<1> QED
  BY <1>1 DEF TypeInv, Busy

\* and so does one that ends.
LEMMA IdleType ==
  ASSUME TypeInv, NEW r \in Requests, desk' = [desk EXCEPT ![r] = Idle]
  PROVE  desk' \in [Requests -> DeskRecords]
<1>1. Idle \in DeskRecords
  BY DEF DeskRecords
<1> QED
  BY <1>1 DEF TypeInv

Rows == [booked : BOOLEAN, shipped : BOOLEAN, delivered : BOOLEAN]

\* The dates a status stamps: those of a booked row, and those alone.
LEMMA StampedRow ==
  ASSUME NEW row \in Rows, NEW to
  PROVE  /\ Stamped(row, to) \in Rows
         /\ Stamped(row, to).booked = row.booked
         /\ Stamped(row, to).shipped => row.shipped \/ to = "SHIPPED"
         /\ Stamped(row, to).delivered => row.delivered \/ to = "DELIVERED"
<1> DEFINE a == row.shipped \/ StampsShippedAt(to)
           b == row.delivered \/ StampsDeliveredAt(to)
<1>1. a \in BOOLEAN /\ b \in BOOLEAN
  BY DEF StampsShippedAt, StampsDeliveredAt
<1>2. (a => row.shipped \/ to = "SHIPPED") /\ (b => row.delivered \/ to = "DELIVERED")
  BY DEF StampsShippedAt, StampsDeliveredAt
<1>3. Stamped(row, to) = IF row.booked THEN [row EXCEPT !.shipped = a, !.delivered = b] ELSE row
  BY Zenon DEF Stamped
<1> HIDE DEF a, b
<1> QED
  BY <1>1, <1>2, <1>3 DEF Rows

\* What the desk does keeps the types.
LEMMA DeskTypes ==
  ASSUME TypeInv, NEW r \in Requests,
         \/ \E o \in Orders :
              \/ \E to \in OrderStatus : Advance(r, o, to)
              \/ SettlePaid(r, o)
              \/ \E to \in {"CANCELLED", "EXPIRED"} : Abandon(r, o, to)
         \/ Commit(r) \/ StampShipment(r) \/ ComposeMail(r) \/ SendMail(r) \/ Crash(r)
  PROVE  TypeInv'
<1> USE DEF TypeOK
<1>t. TypeOK
  BY DEF TypeInv
<1>1. ASSUME NEW o \in Orders, NEW to \in OrderStatus, Advance(r, o, to)
      PROVE  TypeInv'
  BY <1>t, <1>1, BusyType, ReviewsKept DEF Advance, reviewVars
<1>2. ASSUME NEW o \in Orders, SettlePaid(r, o)
      PROVE  TypeInv'
  <2>1. "PAID" \in OrderStatus
    BY DEF OrderStatus
  <2> QED
    BY <1>t, <1>2, <2>1, BusyType, ReviewsKept DEF SettlePaid, reviewVars
<1>3. ASSUME NEW o \in Orders, NEW to \in {"CANCELLED", "EXPIRED"}, Abandon(r, o, to)
      PROVE  TypeInv'
  <2>1. to \in OrderStatus
    BY DEF OrderStatus
  <2> QED
    BY <1>t, <1>3, <2>1, BusyType, ReviewsKept DEF Abandon, reviewVars
<1>4. CASE Commit(r)
  <2>1. desk[r].order \in Orders /\ desk[r].to \in OrderStatus
    BY <1>4, DeskKinds DEF Commit, At
  <2>2. CASE CanMove(desk[r].order, desk[r].to)
    <3>1. desk' \in [Requests -> DeskRecords]
      BY <1>4, <2>1, <2>2, BusyType DEF Commit
    <3>2. status' \in [Orders -> OrderStatus]
      BY <1>t, <1>4, <2>1, <2>2 DEF Commit
    <3>3. past' \in [Orders -> SUBSET OrderStatus]
      <4>1. past[desk[r].order] \union {desk[r].to} \in SUBSET OrderStatus
        BY <1>t, <2>1
      <4> QED  BY <1>t, <1>4, <2>2, <4>1 DEF Commit
    <3>4. deliveredAt' \subseteq Orders
      BY <1>t, <1>4, <2>1, <2>2 DEF Commit
    <3> QED
      BY <1>t, <1>4, <3>1, <3>2, <3>3, <3>4, ReviewsKept DEF Commit, reviewVars
  <2>3. CASE ~ CanMove(desk[r].order, desk[r].to)
    BY <1>t, <1>4, <2>3, IdleType, ReviewsKept DEF Commit, reviewVars
  <2> QED
    BY <2>2, <2>3
<1>5. CASE StampShipment(r)
  <2>1. desk[r].order \in Orders /\ desk[r].to \in OrderStatus
    BY <1>5, DeskKinds DEF StampShipment, At
  <2>2. Stamped(shipment[desk[r].order], desk[r].to) \in Rows
    BY <1>t, <2>1, StampedRow DEF TypeOK, Rows
  <2>3. shipment' \in [Orders -> Rows]
    BY <1>t, <1>5, <2>1, <2>2 DEF StampShipment, TypeOK, Rows
  <2>4. desk' \in [Requests -> DeskRecords]
    BY <1>5, <2>1, BusyType DEF StampShipment
  <2> QED
    BY <1>t, <1>5, <2>3, <2>4, ReviewsKept DEF StampShipment, reviewVars, Rows
<1>6. CASE ComposeMail(r)
  <2>1. desk[r].order \in Orders /\ desk[r].to \in OrderStatus
    BY <1>6, DeskKinds DEF ComposeMail, At
  <2>2. CASE desk[r].to \in Mailed
    <3>1. ReviewLinks(desk[r].order, desk[r].to) \subseteq Lines
      BY <2>1, OrdersAssumption DEF ReviewLinks, Invitable
    <3>2. [pc |-> "composed", order |-> desk[r].order, to |-> desk[r].to,
           links |-> ReviewLinks(desk[r].order, desk[r].to)] \in DeskRecords
      BY <2>1, <2>2, <3>1 DEF DeskRecords
    <3>3. desk' \in [Requests -> DeskRecords]
      BY <1>6, <2>2, <3>2 DEF ComposeMail, TypeInv
    <3>4. invite' \in [Lines -> {"none", "live", "expired", "spent"}]
      BY <1>t, <1>6, <2>2 DEF ComposeMail, Issue
    <3> QED
      BY <1>t, <1>6, <3>3, <3>4, ReviewsKept DEF ComposeMail
  <2>3. CASE desk[r].to \notin Mailed
    BY <1>t, <1>6, <2>3, IdleType, ReviewsKept DEF ComposeMail
  <2> QED
    BY <2>2, <2>3
<1>7. CASE SendMail(r)
  <2>1. /\ desk[r].order \in Orders /\ desk[r].to \in Mailed
        /\ desk[r].links \subseteq Lines
    BY <1>7, DeskKinds DEF SendMail, At
  <2>2. mails' \in [Orders -> [Mailed -> Nat]]
    <3>1. [mails[desk[r].order] EXCEPT ![desk[r].to] = @ + 1] \in [Mailed -> Nat]
      BY <1>t, <2>1
    <3> QED  BY <1>t, <1>7, <2>1, <3>1 DEF SendMail
  <2>3. known' \subseteq Lines
    BY <1>t, <1>7, <2>1 DEF SendMail
  <2> QED
    BY <1>t, <1>7, <2>2, <2>3, IdleType, ReviewsKept DEF SendMail
<1>8. CASE Crash(r)
  BY <1>t, <1>8, IdleType, ReviewsKept DEF Crash, reviewVars
<1> QED
  BY <1>1, <1>2, <1>3, <1>4, <1>5, <1>6, <1>7, <1>8

\* What a step of the reviews leaves alone of the desk, and of the types.
LEMMA DeskKept ==
  ASSUME TypeInv, UNCHANGED deskVars,
         invite' \in [Lines -> {"none", "live", "expired", "spent"}], known' = known,
         form' \in [Submissions -> {"new", "checked", "refused", "stored"}],
         review' \in [Submissions -> {"NONE", "PENDING"} \union Verdicts],
         counters' \in [Products -> Aggregates],
         moder' \in [Decisions -> ModerRecords],
         IsFiniteSet(Stored'),
         \A d \in Decisions : moder'[d].pc # "idle" => moder'[d].review \in Stored'
  PROVE  TypeInv'
<1>1. \A p \in Products : counters'[p].count \in Nat /\ counters'[p].tenths \in 0..50
  BY DEF Aggregates
<1>2. TypeOK'
  BY <1>1 DEF TypeInv, TypeOK, deskVars
<1> QED
  BY <1>2 DEF TypeInv, deskVars

\* A moderation is about a stored review.
LEMMA ModerKinds ==
  ASSUME TypeInv, NEW d \in Decisions
  PROVE  /\ moder[d].pc \in {"idle", "read", "written", "counted"}
         /\ moder[d].pc # "idle" =>
              /\ moder[d].review \in Stored /\ moder[d].review \in Submissions
              /\ moder[d].to \in Verdicts
              /\ About(moder[d].review) \in Products
         /\ moder[d].pc = "counted" => moder[d].result \in Aggregates
<1>1. /\ moder[d].pc \in {"idle", "read", "written", "counted"}
      /\ moder[d].pc # "idle" => moder[d].review \in Submissions /\ moder[d].to \in Verdicts
      /\ moder[d].pc = "counted" => moder[d].result \in Aggregates
  BY DEF TypeInv, ModerRecords, Idle
<1>2. moder[d].pc # "idle" => moder[d].review \in Stored
  BY DEF TypeInv
<1> QED
  BY <1>1, <1>2, LinesAssumption, SubmissionsAssumption DEF About

\* The approved reviews that are counted are some of those stored.
LEMMA CountedType ==
  ASSUME TypeInv, NEW d \in Decisions, moder[d].pc # "idle"
  PROVE  RatingAggregate(SeenApproved(d)) \in Aggregates
<1>1. moder[d].review \in Stored
  BY ModerKinds
<1>2. SeenApproved(d) \subseteq Stored
  BY <1>1 DEF SeenApproved, Stored
<1>3. IsFiniteSet(SeenApproved(d))
  BY <1>2, FS_Subset DEF TypeInv
<1>4. SeenApproved(d) \in SUBSET Submissions
  BY DEF SeenApproved
<1> QED
  BY <1>3, <1>4, AggregateType

\* What is done with reviews keeps the types.
LEMMA ReviewTypes ==
  ASSUME TypeInv, ReviewStep, UNCHANGED deskVars
  PROVE  TypeInv'
<1> USE DEF TypeOK
<1>t. TypeOK
  BY DEF TypeInv
<1>k. \A d \in Decisions : moder[d].pc # "idle" => moder[d].review \in Stored
  BY DEF TypeInv
<1>1. ASSUME NEW l \in Lines, InviteExpires(l)
      PROVE  TypeInv'
  <2>1. Stored' = Stored
    BY <1>1 DEF InviteExpires, Stored
  <2>2. invite' \in [Lines -> {"none", "live", "expired", "spent"}]
    BY <1>t, <1>1 DEF InviteExpires
  <2> QED
    BY <1>t, <1>1, <2>1, <2>2, DeskKept DEF InviteExpires, TypeInv
<1>2. ASSUME NEW s \in Submissions, Submit(s)
      PROVE  TypeInv'
  <2>1. Stored' = Stored
    BY <1>2 DEF Submit, Stored
  <2>2. form' \in [Submissions -> {"new", "checked", "refused", "stored"}]
    BY <1>t, <1>2 DEF Submit
  <2> QED
    BY <1>t, <1>2, <2>1, <2>2, DeskKept DEF Submit, TypeInv
<1>3. ASSUME NEW s \in Submissions, CreateFromInvite(s)
      PROVE  TypeInv'
  <2>1. LinkOf[s] \in Lines
    BY SubmissionsAssumption
  <2>2. /\ invite' \in [Lines -> {"none", "live", "expired", "spent"}]
        /\ form' \in [Submissions -> {"new", "checked", "refused", "stored"}]
        /\ review' \in [Submissions -> {"NONE", "PENDING"} \union Verdicts]
    BY <1>t, <1>3, <2>1 DEF CreateFromInvite, SpendInvite
  <2>3. Stored' \in {Stored, Stored \union {s}}
    <3>1. CASE review' = [review EXCEPT ![s] = "PENDING"]
      BY <1>t, <3>1 DEF Stored
    <3>2. CASE review' = review
      BY <3>2 DEF Stored
    <3> QED  BY <1>3, <3>1, <3>2 DEF CreateFromInvite
  <2>4. IsFiniteSet(Stored') /\ Stored \subseteq Stored'
    <3>1. IsFiniteSet(Stored)
      BY DEF TypeInv
    <3>2. IsFiniteSet(Stored \union {s})
      BY <3>1, FS_AddElement
    <3> HIDE DEF Stored
    <3> QED  BY <2>3, <3>1, <3>2
  <2> QED
    BY <1>t, <1>k, <1>3, <2>2, <2>4, DeskKept DEF CreateFromInvite, TypeInv
<1>4. ASSUME NEW d \in Decisions, NEW s \in Submissions, NEW to \in Verdicts, Decide(d, s, to)
      PROVE  TypeInv'
  <2>1. Stored' = Stored /\ s \in Stored
    BY <1>4 DEF Decide, Stored
  <2>2. [pc |-> "read", review |-> s, to |-> to] \in ModerRecords
    BY DEF ModerRecords
  <2>3. moder' \in [Decisions -> ModerRecords]
    BY <1>4, <2>2 DEF Decide, TypeInv
  <2>4. \A e \in Decisions : moder'[e].pc # "idle" => moder'[e].review \in Stored'
    BY <1>4, <1>k, <2>1 DEF Decide, TypeInv
  <2> QED
    BY <1>t, <1>4, <2>1, <2>3, <2>4, DeskKept DEF Decide, TypeInv
<1>5. ASSUME NEW d \in Decisions, WriteVerdict(d)
      PROVE  TypeInv'
  <2>1. Stored' = Stored
    BY <1>5 DEF WriteVerdict, Stored
  <2>2. /\ moder[d] \in ModerRecords /\ moder[d].pc = "read"
        /\ moder[d].review \in Stored
    BY <1>5, <1>k DEF WriteVerdict, TypeInv
  <2>3. moder[d] \in [pc : {"read", "written"}, review : Submissions, to : Verdicts]
    BY <2>2 DEF ModerRecords, Idle
  <2>4. [moder[d] EXCEPT !.pc = "written"] \in ModerRecords
    BY <2>3 DEF ModerRecords
  <2>5. moder' = [moder EXCEPT ![d] = [moder[d] EXCEPT !.pc = "written"]]
    BY <1>5 DEF WriteVerdict
  <2>6. moder' \in [Decisions -> ModerRecords]
    BY <2>4, <2>5 DEF TypeInv
  <2>7. [moder[d] EXCEPT !.pc = "written"].review = moder[d].review
    BY <2>3
  <2>8. \A e \in Decisions : moder'[e].pc # "idle" => moder'[e].review \in Stored'
    BY <1>k, <2>1, <2>2, <2>5, <2>7 DEF TypeInv
  <2> QED
    BY <1>t, <1>5, <2>1, <2>6, <2>8, DeskKept DEF WriteVerdict, TypeInv
<1>6. ASSUME NEW d \in Decisions, Recount(d)
      PROVE  TypeInv'
  <2>1. Stored' = Stored
    BY <1>6 DEF Recount, Stored
  <2>2. /\ moder[d].review \in Stored /\ moder[d].review \in Submissions
        /\ moder[d].to \in Verdicts /\ moder[d].pc # "idle"
    BY <1>6, ModerKinds DEF Recount
  <2>3. RatingAggregate(SeenApproved(d)) \in Aggregates
    BY <2>2, CountedType
  <2>4. [pc |-> "counted", review |-> moder[d].review, to |-> moder[d].to,
         result |-> RatingAggregate(SeenApproved(d))] \in ModerRecords
    BY <2>2, <2>3 DEF ModerRecords
  <2>5. moder' \in [Decisions -> ModerRecords]
    BY <1>6, <2>4 DEF Recount, TypeInv
  <2>6. \A e \in Decisions : moder'[e].pc # "idle" => moder'[e].review \in Stored'
    BY <1>6, <1>k, <2>1, <2>2 DEF Recount, TypeInv
  <2> QED
    BY <1>t, <1>6, <2>1, <2>5, <2>6, DeskKept DEF Recount, TypeInv
<1>7. ASSUME NEW d \in Decisions, CommitVerdict(d)
      PROVE  TypeInv'
  <2>1. /\ moder[d].review \in Stored /\ moder[d].review \in Submissions
        /\ moder[d].to \in Verdicts /\ moder[d].result \in Aggregates
    BY <1>7, ModerKinds DEF CommitVerdict
  <2>2. /\ review' \in [Submissions -> {"NONE", "PENDING"} \union Verdicts]
        /\ counters' \in [Products -> Aggregates]
    BY <1>t, <1>7, <2>1 DEF CommitVerdict, TypeInv
  <2>3. Stored' = Stored
    BY <1>t, <1>7, <2>1 DEF CommitVerdict, Stored, Verdicts
  <2>4. Idle \in ModerRecords /\ Idle.pc = "idle"
    BY DEF ModerRecords, Idle
  <2>5. moder' \in [Decisions -> ModerRecords]
    BY <1>7, <2>4 DEF CommitVerdict, TypeInv
  <2>6. \A e \in Decisions : moder'[e].pc # "idle" => moder'[e].review \in Stored'
    BY <1>7, <1>k, <2>3, <2>4 DEF CommitVerdict, TypeInv
  <2> QED
    BY <1>t, <1>7, <2>2, <2>3, <2>5, <2>6, DeskKept DEF CommitVerdict, TypeInv
<1> QED
  BY <1>1, <1>2, <1>3, <1>4, <1>5, <1>6, <1>7 DEF ReviewStep

\* A courier is set, or nothing happens.
LEMMA OtherTypes ==
  ASSUME TypeInv, UNCHANGED vars \/ \E o \in Orders : SetShipment(o)
  PROVE  TypeInv'
<1>t. TypeOK
  BY DEF TypeInv
<1>1. CASE UNCHANGED vars
  BY <1>t, <1>1, ReviewsKept DEF vars, deskVars, reviewVars, TypeInv, TypeOK
<1>2. ASSUME NEW o \in Orders, SetShipment(o)
      PROVE  TypeInv'
  <2>1. shipment' \in [Orders -> [booked : BOOLEAN, shipped : BOOLEAN, delivered : BOOLEAN]]
    <3>1. [shipment[o] EXCEPT !.booked = TRUE]
            \in [booked : BOOLEAN, shipped : BOOLEAN, delivered : BOOLEAN]
      BY <1>t DEF TypeOK
    <3>2. shipment' = [shipment EXCEPT ![o] = [shipment[o] EXCEPT !.booked = TRUE]]
      BY <1>2 DEF SetShipment
    <3> QED  BY <1>t, <3>1, <3>2 DEF TypeOK
  <2> QED
    BY <1>t, <1>2, <2>1, ReviewsKept DEF SetShipment, reviewVars, TypeInv, TypeOK
<1> QED
  BY <1>1, <1>2

-----------------------------------------------------------------------------
(* The mails.                                                              *)

\* Every transition of the order goes forward.
LEMMA TransitionsGoForward ==
  ASSUME NEW from \in OrderStatus, NEW to \in OrderTransitions[from]
  PROVE  Rank[from] < Rank[to] /\ to \in OrderStatus
  BY DEF OrderStatus, OrderTransitions, Rank

\* Ranks are numbers.
LEMMA RankIsNumber ==
  ASSUME NEW st \in OrderStatus
  PROVE  Rank[st] \in Int
  BY DEF OrderStatus, Rank

\* A step that moves no order, sends nothing, and lets a request that had moved
\* its order go on with it or end.
LEMMA MailInvKept ==
  ASSUME MailInv, UNCHANGED <<status, past, mails>>,
         \A q \in Requests : Moved(q)' =>
           Moved(q) /\ desk'[q].order = desk[q].order /\ desk'[q].to = desk[q].to
  PROVE  MailInv'
<1>1. \A q \in Requests : Moved(q)' =>
        /\ desk'[q].to \in past[desk'[q].order]
        /\ desk'[q].to \in Mailed => mails[desk'[q].order][desk'[q].to] = 0
  BY DEF MailInv
<1>2. \A r, q \in Requests :
        Moved(r)' /\ Moved(q)' /\ desk'[r].order = desk'[q].order /\ desk'[r].to = desk'[q].to
          => r = q
  BY DEF MailInv
<1>3. MailsAreTrueAndOnce'
  BY DEF MailInv, MailsAreTrueAndOnce
<1>4. \A o \in Orders : \A st \in past'[o] : Rank[st] <= Rank[status'[o]]
  BY DEF MailInv
<1> QED
  BY <1>1, <1>2, <1>3, <1>4 DEF MailInv

\* The move itself: nobody was at the new status before.
LEMMA MailInvCommit ==
  ASSUME TypeInv, MailInv, NEW r \in Requests, Commit(r)
  PROVE  MailInv'
<1> DEFINE o == desk[r].order
           to == desk[r].to
<1>1. o \in Orders /\ to \in OrderStatus /\ ~ Moved(r)
  BY DeskKinds DEF Commit, At, Moved
<1>2. CASE ~ CanMove(o, to)
  <2>1. desk' = [desk EXCEPT ![r] = Idle] /\ UNCHANGED <<status, past, mails>>
    BY <1>2 DEF Commit
  <2>2. \A q \in Requests : Moved(q)' =>
          Moved(q) /\ desk'[q].order = desk[q].order /\ desk'[q].to = desk[q].to
    BY <2>1 DEF Moved, Idle, TypeInv
  <2> QED
    BY <2>1, <2>2, MailInvKept
<1>3. CASE CanMove(o, to)
  <2>1. /\ status' = [status EXCEPT ![o] = to]
        /\ past' = [past EXCEPT ![o] = @ \union {to}]
        /\ desk' = [desk EXCEPT ![r] = [pc |-> "moved", order |-> o, to |-> to]]
        /\ mails' = mails
    BY <1>3 DEF Commit, Busy
  <2>t. /\ status \in [Orders -> OrderStatus] /\ past \in [Orders -> SUBSET OrderStatus]
        /\ desk \in [Requests -> DeskRecords] /\ mails \in [Orders -> [Mailed -> Nat]]
    BY DEF TypeInv, TypeOK
  <2>2. Rank[status[o]] < Rank[to]
    BY <1>1, <1>3, <2>t, TransitionsGoForward DEF CanMove
  <2>3. \A st \in past[o] : Rank[st] \in Int /\ Rank[st] <= Rank[status[o]]
    <3>1. \A st \in past[o] : st \in OrderStatus
      BY <1>1, <2>t
    <3>2. \A st \in past[o] : Rank[st] <= Rank[status[o]]
      <4>1. \A x \in Orders : \A st \in past[x] : Rank[st] <= Rank[status[x]]
        BY DEF MailInv
      <4> QED  BY <1>1, <4>1
    <3>3. \A st \in past[o] : Rank[st] \in Int
      BY <3>1, RankIsNumber
    <3> QED  BY <3>2, <3>3
  <2>4. Rank[to] \in Int /\ Rank[status[o]] \in Int
    BY <1>1, <2>t, RankIsNumber
  <2>5. to \notin past[o]
    BY <2>2, <2>3, <2>4
  <2>6. \A x \in Orders : \A st \in past'[x] : Rank[st] <= Rank[status'[x]]
    <3> SUFFICES ASSUME NEW x \in Orders, NEW st \in past'[x]
                 PROVE  Rank[st] <= Rank[status'[x]]
      OBVIOUS
    <3>1. CASE x # o
      BY <2>1, <2>t, <3>1 DEF MailInv
    <3>2. CASE x = o /\ st = to
      BY <1>1, <2>1, <2>t, <2>4, <3>2
    <3>3. CASE x = o /\ st # to
      <4>1. st \in past[o] /\ status'[o] = to
        BY <1>1, <2>1, <2>t, <3>3
      <4> QED  BY <2>2, <2>3, <2>4, <3>3, <4>1
    <3> QED
      BY <3>1, <3>2, <3>3
  <2>7. /\ \A q \in Requests \ {r} : desk'[q] = desk[q]
        /\ desk'[r].order = o /\ desk'[r].to = to
    BY <2>1, <2>t
  <2>8. to \in Mailed => mails[o][to] = 0
    <3> SUFFICES ASSUME to \in Mailed
                 PROVE  mails[o][to] = 0
      OBVIOUS
    <3>1. mails[o][to] <= 1 /\ (mails[o][to] = 1 => to \in past[o])
      BY <1>1 DEF MailInv, MailsAreTrueAndOnce
    <3>2. mails[o][to] \in Nat
      BY <1>1, <2>t
    <3> HIDE DEF o, to
    <3> QED  BY <2>5, <3>1, <3>2
  <2>9. \A q \in Requests : Moved(q)' =>
          /\ desk'[q].to \in past'[desk'[q].order]
          /\ desk'[q].to \in Mailed => mails'[desk'[q].order][desk'[q].to] = 0
    <3> SUFFICES ASSUME NEW q \in Requests, Moved(q)'
                 PROVE  /\ desk'[q].to \in past'[desk'[q].order]
                        /\ desk'[q].to \in Mailed =>
                             mails'[desk'[q].order][desk'[q].to] = 0
      OBVIOUS
    <3>1. CASE q = r
      BY <1>1, <2>1, <2>7, <2>8, <2>t, <3>1
    <3>2. CASE q # r
      <4>1. desk'[q] = desk[q] /\ Moved(q)
        BY <2>7, <3>2 DEF Moved
      <4>2. /\ desk[q].to \in past[desk[q].order] /\ desk[q].order \in Orders
            /\ desk[q].to \in Mailed => mails[desk[q].order][desk[q].to] = 0
        BY <4>1, DeskKinds DEF MailInv, Moved
      <4> QED  BY <2>1, <2>t, <4>1, <4>2
    <3> QED
      BY <3>1, <3>2
  <2>10. \A q \in Requests \ {r} : Moved(q)' => ~ (desk'[q].order = o /\ desk'[q].to = to)
    BY <2>5, <2>7 DEF MailInv, Moved
  <2>11. \A p, q \in Requests :
           Moved(p)' /\ Moved(q)' /\ desk'[p].order = desk'[q].order /\ desk'[p].to = desk'[q].to
             => p = q
    <3> SUFFICES ASSUME NEW p \in Requests, NEW q \in Requests, Moved(p)', Moved(q)',
                        desk'[p].order = desk'[q].order, desk'[p].to = desk'[q].to, p # q
                 PROVE  FALSE
      OBVIOUS
    <3>1. p # r /\ q # r
      BY <2>7, <2>10
    <3>2. desk'[p] = desk[p] /\ desk'[q] = desk[q] /\ Moved(p) /\ Moved(q)
      BY <2>7, <3>1 DEF Moved
    <3> QED
      BY <3>2 DEF MailInv
  <2>12. MailsAreTrueAndOnce'
    BY <1>1, <2>1, <2>t DEF MailInv, MailsAreTrueAndOnce
  <2> HIDE DEF o, to
  <2> QED
    BY <2>6, <2>9, <2>11, <2>12 DEF MailInv
<1> QED
  BY <1>2, <1>3

\* The mail itself: whoever sends it is the only one who has it to send.
LEMMA MailInvSend ==
  ASSUME TypeInv, MailInv, NEW r \in Requests, SendMail(r)
  PROVE  MailInv'
<1> DEFINE o == desk[r].order
           to == desk[r].to
<1>1. o \in Orders /\ to \in Mailed /\ Moved(r)
  BY DeskKinds DEF SendMail, At, Moved
<1>2. desk' = [desk EXCEPT ![r] = Idle] /\ UNCHANGED <<status, past>>
  BY DEF SendMail
<1>3. \A q \in Requests : Moved(q)' =>
        q # r /\ Moved(q) /\ desk'[q].order = desk[q].order /\ desk'[q].to = desk[q].to
  BY <1>2 DEF Moved, Idle, TypeInv
<1>4. CASE mails' = mails
  BY <1>2, <1>3, <1>4, MailInvKept
<1>5. CASE mails' = [mails EXCEPT ![o][to] = @ + 1]
  <2>t. mails \in [Orders -> [Mailed -> Nat]]
    BY DEF TypeInv, TypeOK
  <2>1. mails[o][to] = 0 /\ to \in past[o]
    BY <1>1 DEF MailInv
  <2>2. \A x \in Orders, st \in Mailed :
          mails'[x][st] = IF x = o /\ st = to THEN 1 ELSE mails[x][st]
    BY <1>1, <1>5, <2>1, <2>t
  <2>3. \A q \in Requests : Moved(q)' => ~ (desk[q].order = o /\ desk[q].to = to)
    BY <1>1, <1>3 DEF MailInv
  <2>4. \A q \in Requests : Moved(q)' =>
          /\ desk'[q].to \in past'[desk'[q].order]
          /\ desk'[q].to \in Mailed => mails'[desk'[q].order][desk'[q].to] = 0
    <3> SUFFICES ASSUME NEW q \in Requests, Moved(q)'
                 PROVE  /\ desk[q].to \in past[desk[q].order]
                        /\ desk[q].to \in Mailed => mails'[desk[q].order][desk[q].to] = 0
      BY <1>2, <1>3
    <3>1. Moved(q) /\ desk[q].order \in Orders
      BY <1>3, DeskKinds DEF Moved
    <3> QED
      BY <2>2, <2>3, <3>1 DEF MailInv
  <2>5. \A p, q \in Requests :
          Moved(p)' /\ Moved(q)' /\ desk'[p].order = desk'[q].order /\ desk'[p].to = desk'[q].to
            => p = q
    BY <1>3 DEF MailInv
  <2>6. MailsAreTrueAndOnce'
    BY <1>2, <2>1, <2>2, <2>t DEF MailInv, MailsAreTrueAndOnce
  <2>7. \A x \in Orders : \A st \in past'[x] : Rank[st] <= Rank[status'[x]]
    BY <1>2 DEF MailInv
  <2> QED
    BY <2>4, <2>5, <2>6, <2>7 DEF MailInv
<1> QED
  BY <1>4, <1>5 DEF SendMail

\* Every step keeps the mails true.
LEMMA MailInvNext ==
  ASSUME TypeInv, MailInv, [Next]_vars
  PROVE  MailInv'
<1>a. ASSUME UNCHANGED <<status, past, mails, desk>>
      PROVE  MailInv'
  BY <1>a, MailInvKept DEF Moved
<1>b. ASSUME NEW r \in Requests, NEW o, NEW to, NEW at \in {"read", "moved", "stamped"},
             Busy(r, o, to, at), at # "read" => Moved(r) /\ o = desk[r].order /\ to = desk[r].to,
             UNCHANGED <<status, past, mails>>
      PROVE  MailInv'
  <2>1. \A q \in Requests : Moved(q)' =>
          Moved(q) /\ desk'[q].order = desk[q].order /\ desk'[q].to = desk[q].to
    BY <1>b DEF Moved, Busy, TypeInv
  <2> QED
    BY <1>b, <2>1, MailInvKept
<1>c. ASSUME NEW r \in Requests, desk' = [desk EXCEPT ![r] = Idle],
             UNCHANGED <<status, past, mails>>
      PROVE  MailInv'
  <2>1. \A q \in Requests : Moved(q)' =>
          Moved(q) /\ desk'[q].order = desk[q].order /\ desk'[q].to = desk[q].to
    BY <1>c DEF Moved, Idle, TypeInv
  <2> QED
    BY <1>c, <2>1, MailInvKept
<1>1. ASSUME NEW o \in Orders, SetShipment(o)
      PROVE  MailInv'
  BY <1>a, <1>1 DEF SetShipment
<1>2. ASSUME NEW r \in Requests, NEW o \in Orders, NEW to \in OrderStatus, Advance(r, o, to)
      PROVE  MailInv'
  BY <1>b, <1>2 DEF Advance
<1>3. ASSUME NEW r \in Requests, NEW o \in Orders, SettlePaid(r, o)
      PROVE  MailInv'
  BY <1>b, <1>3 DEF SettlePaid
<1>4. ASSUME NEW r \in Requests, NEW o \in Orders, NEW to, Abandon(r, o, to)
      PROVE  MailInv'
  BY <1>b, <1>4 DEF Abandon
<1>5. ASSUME NEW r \in Requests, StampShipment(r)
      PROVE  MailInv'
  BY <1>b, <1>5 DEF StampShipment, Moved, At
<1>6. ASSUME NEW r \in Requests, ComposeMail(r)
      PROVE  MailInv'
  <2>1. CASE desk[r].to \in Mailed
    <3>1. /\ desk' = [desk EXCEPT ![r] =
                [pc |-> "composed", order |-> desk[r].order, to |-> desk[r].to,
                 links |-> ReviewLinks(desk[r].order, desk[r].to)]]
          /\ UNCHANGED <<status, past, mails>> /\ Moved(r)
      BY <1>6, <2>1 DEF ComposeMail, At, Moved
    <3>2. \A q \in Requests : Moved(q)' =>
            Moved(q) /\ desk'[q].order = desk[q].order /\ desk'[q].to = desk[q].to
      BY <3>1 DEF Moved, TypeInv
    <3> QED
      BY <3>1, <3>2, MailInvKept
  <2>2. CASE desk[r].to \notin Mailed
    BY <1>c, <1>6, <2>2 DEF ComposeMail
  <2> QED
    BY <2>1, <2>2
<1>7. ASSUME NEW r \in Requests, Crash(r)
      PROVE  MailInv'
  BY <1>c, <1>7 DEF Crash
<1>8. ASSUME NEW r \in Requests, Commit(r) \/ SendMail(r)
      PROVE  MailInv'
  BY <1>8, MailInvCommit, MailInvSend
<1>9. CASE ReviewStep /\ UNCHANGED deskVars
  BY <1>a, <1>9 DEF deskVars
<1>10. CASE UNCHANGED vars
  BY <1>a, <1>10 DEF vars, deskVars
<1> QED
  BY <1>1, <1>2, <1>3, <1>4, <1>5, <1>6, <1>7, <1>8, <1>9, <1>10 DEF Next

-----------------------------------------------------------------------------
(* The shipment.                                                           *)

\* A courier is never taken off, and nothing is stamped ahead of the order.
LEMMA ShipInvNext ==
  ASSUME TypeInv, MailInv, ShipInv, [Next]_vars
  PROVE  ShipInv'
<1>t. /\ shipment \in [Orders -> Rows] /\ desk \in [Requests -> DeskRecords]
      /\ past \in [Orders -> SUBSET OrderStatus]
  BY DEF TypeInv, TypeOK, Rows
\* A step that leaves the couriers booked, the stamps and the statuses alone,
\* and asks for a courier before it reads a dispatch.
<1>a. ASSUME UNCHANGED <<past, shipment>>,
             \A q \in Requests : desk'[q].pc = "read" /\ desk'[q].to = "SHIPPED" =>
               shipment[desk'[q].order].booked
      PROVE  ShipInv'
  BY <1>a DEF ShipInv, ShipmentFollowsOrder
<1>b. ASSUME UNCHANGED <<past, shipment>>, NEW r \in Requests,
             \A q \in Requests \ {r} : desk'[q] = desk[q], desk'[r].pc # "read"
      PROVE  ShipInv'
  BY <1>a, <1>b DEF ShipInv
<1>c. ASSUME UNCHANGED <<past, shipment, desk>>
      PROVE  ShipInv'
  BY <1>a, <1>c DEF ShipInv
<1>1. ASSUME NEW o \in Orders, SetShipment(o)
      PROVE  ShipInv'
  <2>1. shipment'[o] = [shipment[o] EXCEPT !.booked = TRUE]
    BY <1>t, <1>1 DEF SetShipment
  <2>2. /\ shipment'[o].booked /\ shipment'[o].shipped = shipment[o].shipped
        /\ shipment'[o].delivered = shipment[o].delivered
    BY <1>t, <2>1 DEF Rows
  <2>3. \A x \in Orders \ {o} : shipment'[x] = shipment[x]
    BY <1>t, <1>1 DEF SetShipment
  <2>4. UNCHANGED <<past, desk>>
    BY <1>1 DEF SetShipment
  <2>5. ShipmentFollowsOrder'
    BY <2>2, <2>3, <2>4 DEF ShipInv, ShipmentFollowsOrder
  <2>6. \A q \in Requests : desk[q].pc = "read" => desk[q].order \in Orders
    BY DeskKinds
  <2> QED
    BY <2>2, <2>3, <2>4, <2>5, <2>6 DEF ShipInv
<1>2. ASSUME NEW r \in Requests, NEW o \in Orders, NEW to \in OrderStatus, Advance(r, o, to)
      PROVE  ShipInv'
  <2>1. /\ desk' = [desk EXCEPT ![r] = [pc |-> "read", order |-> o, to |-> to]]
        /\ to = "SHIPPED" => shipment[o].booked
        /\ UNCHANGED <<past, shipment>>
    BY <1>2 DEF Advance, Busy, CourierBooked, RequiresShipment
  <2> QED
    BY <1>a, <1>t, <2>1 DEF ShipInv
<1>3. ASSUME NEW r \in Requests, NEW o \in Orders, NEW to, to # "SHIPPED",
             Busy(r, o, to, "read"), UNCHANGED <<past, shipment>>
      PROVE  ShipInv'
  BY <1>a, <1>t, <1>3 DEF ShipInv, Busy
<1>4. ASSUME NEW r \in Requests, NEW o \in Orders,
             SettlePaid(r, o) \/ \E to \in {"CANCELLED", "EXPIRED"} : Abandon(r, o, to)
      PROVE  ShipInv'
  BY <1>3, <1>4 DEF SettlePaid, Abandon
<1>5. ASSUME NEW r \in Requests, Commit(r)
      PROVE  ShipInv'
  <2> DEFINE o == desk[r].order
             to == desk[r].to
  <2>1. o \in Orders /\ to \in OrderStatus /\ desk[r].pc = "read"
    BY <1>5, DeskKinds DEF Commit, At
  <2>2. CASE ~ CanMove(o, to)
    <3>1. UNCHANGED <<past, shipment>> /\ desk' = [desk EXCEPT ![r] = Idle]
      BY <1>5, <2>2 DEF Commit
    <3> QED
      BY <1>b, <1>t, <3>1 DEF Idle
  <2>3. CASE CanMove(o, to)
    <3>1. /\ past' = [past EXCEPT ![o] = @ \union {to}] /\ shipment' = shipment
          /\ desk' = [desk EXCEPT ![r] = [pc |-> "moved", order |-> o, to |-> to]]
      BY <1>5, <2>3 DEF Commit, Busy
    <3>2. /\ past'[o] = past[o] \union {to}
          /\ \A x \in Orders \ {o} : past'[x] = past[x]
      BY <1>t, <2>1, <3>1
    <3>3. to = "SHIPPED" => shipment[o].booked
      BY <2>1 DEF ShipInv
    <3>4. ShipmentFollowsOrder'
      BY <3>1, <3>2, <3>3 DEF ShipInv, ShipmentFollowsOrder
    <3>5. \A q \in Requests : desk'[q].pc = "read" => desk'[q] = desk[q]
      BY <1>t, <3>1
    <3> QED
      BY <3>1, <3>4, <3>5 DEF ShipInv
  <2> QED
    BY <2>2, <2>3
<1>6. ASSUME NEW r \in Requests, StampShipment(r)
      PROVE  ShipInv'
  <2> DEFINE o == desk[r].order
             to == desk[r].to
  <2>1. o \in Orders /\ to \in past[o]
    BY <1>6, DeskKinds DEF StampShipment, At, MailInv, Moved
  <2>2. /\ shipment' = [shipment EXCEPT ![o] = Stamped(@, to)] /\ past' = past
        /\ desk' = [desk EXCEPT ![r] = [pc |-> "stamped", order |-> o, to |-> to]]
    BY <1>6 DEF StampShipment, Busy
  <2>3. /\ Stamped(shipment[o], to).booked = shipment[o].booked
        /\ Stamped(shipment[o], to).shipped => shipment[o].shipped \/ to = "SHIPPED"
        /\ Stamped(shipment[o], to).delivered => shipment[o].delivered \/ to = "DELIVERED"
    BY <1>t, <2>1, StampedRow
  <2>4. /\ shipment'[o] = Stamped(shipment[o], to)
        /\ \A x \in Orders \ {o} : shipment'[x] = shipment[x]
    BY <1>t, <2>1, <2>2
  <2>5. \A q \in Requests : desk'[q].pc = "read" => desk'[q] = desk[q]
    BY <1>t, <2>2
  <2>6. \A q \in Requests : desk[q].pc = "read" => desk[q].order \in Orders
    BY DeskKinds
  <2> HIDE DEF o, to
  <2>7. ShipmentFollowsOrder'
    BY <2>1, <2>2, <2>3, <2>4 DEF ShipInv, ShipmentFollowsOrder
  <2> QED
    BY <2>3, <2>4, <2>5, <2>6, <2>7 DEF ShipInv
<1>7. ASSUME NEW r \in Requests, ComposeMail(r) \/ SendMail(r) \/ Crash(r)
      PROVE  ShipInv'
  <2>1. UNCHANGED <<past, shipment>> /\ \A q \in Requests \ {r} : desk'[q] = desk[q]
    BY <1>t, <1>7 DEF ComposeMail, SendMail, Crash
  <2>2. desk'[r].pc # "read"
    BY <1>t, <1>7 DEF ComposeMail, SendMail, Crash, Idle
  <2> QED
    BY <1>b, <2>1, <2>2
<1>8. CASE ReviewStep /\ UNCHANGED deskVars
  BY <1>c, <1>8 DEF deskVars
<1>9. CASE UNCHANGED vars
  BY <1>c, <1>9 DEF vars, deskVars
<1> QED
  BY <1>1, <1>2, <1>4, <1>5, <1>6, <1>7, <1>8, <1>9 DEF Next

-----------------------------------------------------------------------------
(* The links and the reviews that come of them.                            *)

\* A link goes out with the mail of the order its line is of, after delivery.
LEMMA DeliveryInvNext ==
  ASSUME TypeInv, DeliveryInv, [Next]_vars
  PROVE  DeliveryInv'
<1>t. /\ desk \in [Requests -> DeskRecords] /\ deliveredAt \subseteq Orders
      /\ form \in [Submissions -> {"new", "checked", "refused", "stored"}]
      /\ review \in [Submissions -> {"NONE", "PENDING"} \union Verdicts]
  BY DEF TypeInv, TypeOK
\* A step that changes nothing but a request that is not there yet, or no more.
<1>a. ASSUME UNCHANGED <<deliveredAt, known, form, review>>, NEW r \in Requests,
             \A q \in Requests \ {r} : desk'[q] = desk[q],
             desk'[r].pc \in {"idle", "read"}
      PROVE  DeliveryInv'
  <2>1. Stored' = Stored
    BY <1>a DEF Stored
  <2>2. \A q \in Requests : Moved(q)' => Moved(q) /\ desk'[q] = desk[q]
    BY <1>a DEF Moved
  <2>3. \A q \in Requests : desk'[q].pc = "composed" => desk'[q] = desk[q]
    BY <1>a
  <2> QED
    BY <1>a, <2>1, <2>2, <2>3 DEF DeliveryInv
<1>b. ASSUME UNCHANGED <<deliveredAt, known, form, review, desk>>
      PROVE  DeliveryInv'
  BY <1>b DEF DeliveryInv, Stored, Moved
\* A step of the reviews.
<1>c. ASSUME UNCHANGED <<deliveredAt, desk, known>>,
             \A s \in Submissions :
               form'[s] = "checked" \/ s \in Stored' =>
                 form[s] = "checked" \/ s \in Stored \/ LinkOf[s] \in known
      PROVE  DeliveryInv'
  BY <1>c DEF DeliveryInv, Moved
<1>1. ASSUME NEW o \in Orders, SetShipment(o)
      PROVE  DeliveryInv'
  BY <1>b, <1>1 DEF SetShipment, reviewVars
<1>2. ASSUME NEW r \in Requests, NEW o, NEW to,
             Advance(r, o, to) \/ SettlePaid(r, o) \/ Abandon(r, o, to)
      PROVE  DeliveryInv'
  BY <1>a, <1>t, <1>2 DEF Advance, SettlePaid, Abandon, Busy, reviewVars
<1>3. ASSUME NEW r \in Requests, Commit(r)
      PROVE  DeliveryInv'
  <2> DEFINE o == desk[r].order
             to == desk[r].to
  <2>1. o \in Orders /\ UNCHANGED <<known, form, review>>
    BY <1>3, DeskKinds DEF Commit, At, reviewVars
  <2>2. CASE ~ CanMove(o, to)
    BY <1>a, <1>t, <1>3, <2>1, <2>2 DEF Commit, Idle
  <2>3. CASE CanMove(o, to)
    <3>1. /\ deliveredAt \subseteq deliveredAt'
          /\ to = "DELIVERED" => o \in deliveredAt'
          /\ desk' = [desk EXCEPT ![r] = [pc |-> "moved", order |-> o, to |-> to]]
      BY <1>3, <2>3 DEF Commit, Busy, StampsDeliveredAt
    <3>2. /\ \A q \in Requests \ {r} : desk'[q] = desk[q]
          /\ desk'[r].order = o /\ desk'[r].to = to /\ desk'[r].pc = "moved"
      BY <1>t, <3>1
    <3>3. \A q \in Requests :
            Moved(q)' /\ desk'[q].to = "DELIVERED" => desk'[q].order \in deliveredAt'
      BY <3>1, <3>2 DEF DeliveryInv, Moved
    <3>4. \A q \in Requests : \A x \in Orders :
            desk'[q].pc = "composed" /\ desk'[q].links \intersect LinesOf[x] # {}
              => x \in deliveredAt'
      BY <3>1, <3>2 DEF DeliveryInv
    <3>5. \A x \in Orders : known' \intersect LinesOf[x] # {} => x \in deliveredAt'
      BY <2>1, <3>1 DEF DeliveryInv
    <3>6. Stored' = Stored
      BY <2>1 DEF Stored
    <3> HIDE DEF o, to
    <3> QED
      BY <2>1, <3>3, <3>4, <3>5, <3>6 DEF DeliveryInv
  <2> QED
    BY <2>2, <2>3
<1>4. ASSUME NEW r \in Requests, StampShipment(r)
      PROVE  DeliveryInv'
  <2>1. /\ desk' = [desk EXCEPT ![r] = [pc |-> "stamped", order |-> desk[r].order, to |-> desk[r].to]]
        /\ UNCHANGED <<deliveredAt, known, form, review>> /\ Moved(r)
    BY <1>4 DEF StampShipment, Busy, At, Moved, reviewVars
  <2>2. \A q \in Requests : Moved(q)' =>
          Moved(q) /\ desk'[q].order = desk[q].order /\ desk'[q].to = desk[q].to
    BY <1>t, <2>1 DEF Moved
  <2>3. \A q \in Requests : desk'[q].pc = "composed" => desk'[q] = desk[q]
    BY <1>t, <2>1
  <2>4. Stored' = Stored
    BY <2>1 DEF Stored
  <2> QED
    BY <2>1, <2>2, <2>3, <2>4 DEF DeliveryInv
<1>5. ASSUME NEW r \in Requests, ComposeMail(r)
      PROVE  DeliveryInv'
  <2> DEFINE o == desk[r].order
             to == desk[r].to
  <2>1. o \in Orders /\ Moved(r) /\ UNCHANGED <<deliveredAt, known, form, review>>
    BY <1>5, DeskKinds DEF ComposeMail, At, Moved
  <2>2. CASE to \notin Mailed
    BY <1>a, <1>t, <1>5, <2>1, <2>2 DEF ComposeMail, Idle
  <2>3. CASE to \in Mailed
    <3>1. desk' = [desk EXCEPT ![r] =
             [pc |-> "composed", order |-> o, to |-> to, links |-> ReviewLinks(o, to)]]
      BY <1>5, <2>3 DEF ComposeMail
    <3>2. /\ \A q \in Requests \ {r} : desk'[q] = desk[q]
          /\ desk'[r].order = o /\ desk'[r].to = to /\ desk'[r].links = ReviewLinks(o, to)
      BY <1>t, <3>1
    <3>3. \A q \in Requests : Moved(q)' =>
            Moved(q) /\ desk'[q].order = desk[q].order /\ desk'[q].to = desk[q].to
      BY <2>1, <3>2 DEF Moved
    <3>4. ASSUME NEW x \in Orders, ReviewLinks(o, to) \intersect LinesOf[x] # {}
          PROVE  x \in deliveredAt
      <4>1. to = "DELIVERED" /\ LinesOf[o] \intersect LinesOf[x] # {}
        BY <3>4 DEF ReviewLinks, Invitable
      <4>2. x = o
        BY <2>1, <4>1, OrdersAssumption
      <4> QED
        BY <2>1, <4>1, <4>2 DEF DeliveryInv
    <3>5. \A q \in Requests : \A x \in Orders :
            desk'[q].pc = "composed" /\ desk'[q].links \intersect LinesOf[x] # {}
              => x \in deliveredAt
      BY <3>2, <3>4 DEF DeliveryInv
    <3>6. Stored' = Stored
      BY <2>1 DEF Stored
    <3> HIDE DEF o, to
    <3> QED
      BY <2>1, <3>3, <3>5, <3>6 DEF DeliveryInv
  <2> QED
    BY <2>2, <2>3
<1>6. ASSUME NEW r \in Requests, SendMail(r)
      PROVE  DeliveryInv'
  <2>1. /\ desk' = [desk EXCEPT ![r] = Idle] /\ desk[r].pc = "composed"
        /\ UNCHANGED <<deliveredAt, form, review>>
    BY <1>6 DEF SendMail, At
  <2>2. CASE known' = known
    BY <1>a, <1>t, <2>1, <2>2 DEF Idle
  <2>3. CASE known' = known \union desk[r].links
    <3>1. \A x \in Orders : known' \intersect LinesOf[x] # {} => x \in deliveredAt
      BY <2>1, <2>3 DEF DeliveryInv
    <3>2. \A q \in Requests : q # r => desk'[q] = desk[q]
      BY <1>t, <2>1
    <3>3. desk'[r].pc = "idle"
      BY <1>t, <2>1 DEF Idle
    <3>4. Stored' = Stored
      BY <2>1 DEF Stored
    <3>5. \A q \in Requests :
            Moved(q)' /\ desk'[q].to = "DELIVERED" => desk'[q].order \in deliveredAt
      BY <3>2, <3>3 DEF DeliveryInv, Moved
    <3>6. \A q \in Requests : \A x \in Orders :
            desk'[q].pc = "composed" /\ desk'[q].links \intersect LinesOf[x] # {}
              => x \in deliveredAt
      BY <3>2, <3>3 DEF DeliveryInv
    <3> QED
      BY <2>1, <2>3, <3>1, <3>4, <3>5, <3>6 DEF DeliveryInv
  <2> QED
    BY <1>6, <2>2, <2>3 DEF SendMail
<1>7. ASSUME NEW r \in Requests, Crash(r)
      PROVE  DeliveryInv'
  BY <1>a, <1>t, <1>7 DEF Crash, Idle, reviewVars
<1>8. CASE ReviewStep /\ UNCHANGED deskVars
  <2> SUFFICES ASSUME NEW s \in Submissions, Submit(s) \/ CreateFromInvite(s)
               PROVE  DeliveryInv'
    <3>1. ASSUME NEW l \in Lines, InviteExpires(l)
          PROVE  DeliveryInv'
      BY <1>b, <1>8, <3>1 DEF InviteExpires, deskVars
    <3>2. ASSUME NEW d \in Decisions, NEW s, NEW to, Decide(d, s, to)
          PROVE  DeliveryInv'
      BY <1>b, <1>8, <3>2 DEF Decide, deskVars
    <3>3. ASSUME NEW d \in Decisions, WriteVerdict(d) \/ Recount(d)
          PROVE  DeliveryInv'
      BY <1>b, <1>8, <3>3 DEF WriteVerdict, Recount, deskVars
    <3>4. ASSUME NEW d \in Decisions, CommitVerdict(d)
          PROVE  DeliveryInv'
      <4>1. moder[d].review \in Stored
        BY <3>4, ModerKinds DEF CommitVerdict
      <4>2. Stored' \subseteq Stored
        BY <1>t, <3>4, <4>1 DEF CommitVerdict, Stored
      <4>3. UNCHANGED <<deliveredAt, desk, known, form>>
        BY <1>8, <3>4 DEF CommitVerdict, deskVars
      <4> QED
        BY <1>c, <4>2, <4>3
    <3> QED
      BY <1>8, <3>1, <3>2, <3>3, <3>4 DEF ReviewStep
  <2>1. CASE Submit(s)
    <3>1. /\ LinkOf[s] \in known /\ UNCHANGED <<known, review, deliveredAt, desk>>
          /\ \A x \in Submissions \ {s} : form'[x] = form[x]
      BY <1>t, <1>8, <2>1 DEF Submit, deskVars
    <3>2. Stored' = Stored
      BY <3>1 DEF Stored
    <3> QED
      BY <1>c, <3>1, <3>2
  <2>2. CASE CreateFromInvite(s)
    <3>1. /\ form[s] = "checked" /\ UNCHANGED <<known, deliveredAt, desk>>
          /\ \A x \in Submissions \ {s} : form'[x] = form[x] /\ review'[x] = review[x]
      BY <1>t, <1>8, <2>2 DEF CreateFromInvite, deskVars
    <3>2. Stored' \subseteq Stored \union {s}
      BY <3>1 DEF Stored
    <3> QED
      BY <1>c, <3>1, <3>2
  <2> QED
    BY <2>1, <2>2
<1>9. CASE UNCHANGED vars
  BY <1>b, <1>9 DEF vars, deskVars, reviewVars
<1> QED
  BY <1>1, <1>2, <1>3, <1>4, <1>5, <1>6, <1>7, <1>8, <1>9 DEF Next

\* A step that keeps the reviews keeps the reviews of every line.
LEMMA ReviewedKept ==
  ASSUME \A s \in Submissions : review'[s] # "NONE" <=> review[s] # "NONE"
  PROVE  \A l \in Lines : Reviewed(l)' = Reviewed(l)
  BY DEF Reviewed

\* An invite is spent in the step that stores the review, and in no other.
LEMMA SpentInvNext ==
  ASSUME TypeInv, SpentInv, [Next]_vars
  PROVE  SpentInv'
<1>t. /\ invite \in [Lines -> {"none", "live", "expired", "spent"}]
      /\ review \in [Submissions -> {"NONE", "PENDING"} \union Verdicts]
  BY DEF TypeInv, TypeOK
\* A step that leaves what is stored and what is spent as they are.
<1>a. ASSUME \A s \in Submissions : review'[s] # "NONE" <=> review[s] # "NONE",
             \A l \in Lines : invite'[l] = "spent" <=> invite[l] = "spent"
      PROVE  SpentInv'
  <2>1. \A l \in Lines : Reviewed(l)' = Reviewed(l)
    BY <1>a, ReviewedKept
  <2> QED
    BY <1>a, <2>1 DEF SpentInv
<1>1. CASE UNCHANGED <<invite, review>>
  BY <1>a, <1>1
<1>2. ASSUME NEW r \in Requests, ComposeMail(r)
      PROVE  SpentInv'
  <2>1. CASE desk[r].to \in Mailed
    <3>1. \A l \in Lines :
            invite'[l] = IF l \in ReviewLinks(desk[r].order, desk[r].to) THEN "live" ELSE invite[l]
      BY <1>2, <2>1 DEF ComposeMail, Issue
    <3>2. \A l \in ReviewLinks(desk[r].order, desk[r].to) : invite[l] = "none"
      BY DEF ReviewLinks, Invitable
    <3> QED
      BY <1>a, <1>2, <3>1, <3>2 DEF ComposeMail
  <2>2. CASE desk[r].to \notin Mailed
    BY <1>1, <1>2, <2>2 DEF ComposeMail
  <2> QED
    BY <2>1, <2>2
<1>3. ASSUME NEW l \in Lines, InviteExpires(l)
      PROVE  SpentInv'
  BY <1>a, <1>t, <1>3 DEF InviteExpires
<1>4. ASSUME NEW s \in Submissions, CreateFromInvite(s)
      PROVE  SpentInv'
  <2> DEFINE l == LinkOf[s]
  <2>1. l \in Lines
    BY SubmissionsAssumption
  <2>2. CASE UNCHANGED <<invite, review>>
    BY <1>1, <2>2
  <2>3. CASE /\ SpendInvite(s) /\ Reviewed(l) = {}
             /\ review' = [review EXCEPT ![s] = "PENDING"]
    <3>1. /\ invite'[l] = "spent"
          /\ \A k \in Lines \ {l} : invite'[k] = invite[k]
      BY <1>t, <2>1, <2>3 DEF SpendInvite
    <3>2. /\ review'[s] = "PENDING"
          /\ \A x \in Submissions \ {s} : review'[x] = review[x]
      BY <1>t, <2>3
    <3>3. Reviewed(l)' = {s}
      BY <2>3, <3>2 DEF Reviewed
    <3>4. \A k \in Lines \ {l} : Reviewed(k)' = Reviewed(k)
      BY <3>2 DEF Reviewed
    <3> HIDE DEF l
    <3>5. ASSUME NEW k \in Lines
          PROVE  IF invite'[k] = "spent" THEN \E x \in Submissions : Reviewed(k)' = {x}
                 ELSE Reviewed(k)' = {}
      <4>1. CASE k = l
        BY <3>1, <3>3, <4>1
      <4>2. CASE k # l
        BY <3>1, <3>4, <4>2 DEF SpentInv
      <4> QED
        BY <4>1, <4>2
    <3> QED
      BY <3>5 DEF SpentInv
  <2> QED
    BY <1>4, <2>2, <2>3 DEF CreateFromInvite
<1>5. ASSUME NEW d \in Decisions, CommitVerdict(d)
      PROVE  SpentInv'
  <2>1. /\ moder[d].review \in Stored /\ moder[d].to \in Verdicts
        /\ moder[d].review \in Submissions
    BY <1>5, ModerKinds DEF CommitVerdict
  <2>2. review' = [review EXCEPT ![moder[d].review] = moder[d].to] /\ invite' = invite
    BY <1>5 DEF CommitVerdict
  <2>3. \A s \in Submissions : review'[s] # "NONE" <=> review[s] # "NONE"
    BY <1>t, <2>1, <2>2 DEF Stored, Verdicts
  <2> QED
    BY <1>a, <2>2, <2>3
<1>6. CASE ReviewStep
  BY <1>1, <1>3, <1>4, <1>5, <1>6 DEF ReviewStep, Submit, Decide, WriteVerdict, Recount
<1>7. CASE UNCHANGED vars
  BY <1>1, <1>7 DEF vars, reviewVars
<1> QED
  BY <1>1, <1>2, <1>6, <1>7
  DEF Next, SetShipment, Advance, SettlePaid, Abandon, Commit, StampShipment, SendMail, Crash,
      reviewVars

-----------------------------------------------------------------------------
(* The counters.                                                           *)

\* A step that leaves the approved reviews, the moderations and the counters.
LEMMA CountInvKept ==
  ASSUME CountInv, UNCHANGED <<counters, moder, raced>>,
         \A s \in Submissions : review'[s] = "APPROVED" <=> review[s] = "APPROVED"
  PROVE  CountInv'
<1>1. \A d \in Decisions : SeenApproved(d)' = SeenApproved(d)
  BY DEF SeenApproved, About
<1>2. \A p \in Products : Approved(p)' = Approved(p)
  BY DEF Approved, About
<1>3. \A p \in Products : Summary(p)' = Summary(p)
  BY <1>2 DEF Summary, RatingAggregate
<1>4. SettledCounters'
  BY <1>3 DEF CountInv, SettledCounters
<1>5. \A d \in Decisions : moder'[d].pc = "counted" /\ About(moder'[d].review) \notin raced' =>
        moder'[d].result = RatingAggregate(SeenApproved(d)')
  BY <1>1 DEF CountInv
<1> QED
  BY <1>4, <1>5 DEF CountInv, Open, About, RatingAggregate

\* What an open moderation sees depends on its own record and on the reviews of
\* its product.
LEMMA SeenKept ==
  ASSUME NEW d \in Decisions, moder'[d].review = moder[d].review, moder'[d].to = moder[d].to,
         \A s \in Submissions : About(s) = About(moder[d].review) => review'[s] = review[s]
  PROVE  SeenApproved(d)' = SeenApproved(d)
  BY DEF SeenApproved, About

\* The verdict is written: whoever else has one of the product open races it.
LEMMA CountInvWrite ==
  ASSUME TypeInv, CountInv, NEW d \in Decisions, WriteVerdict(d)
  PROVE  CountInv'
<1>1. /\ moder' = [moder EXCEPT ![d] = [moder[d] EXCEPT !.pc = "written"]]
      /\ moder[d].pc = "read" /\ UNCHANGED <<review, counters>>
  BY DEF WriteVerdict
<1>2. moder[d] \in [pc : {"read", "written"}, review : Submissions, to : Verdicts]
  BY <1>1 DEF TypeInv, ModerRecords, Idle
<1>3. /\ moder'[d].pc = "written" /\ moder'[d].review = moder[d].review
      /\ moder'[d].to = moder[d].to
  BY <1>1, <1>2 DEF TypeInv
<1>4. \A e \in Decisions \ {d} : moder'[e] = moder[e]
  BY <1>1 DEF TypeInv
<1>5. raced \subseteq raced'
  BY DEF WriteVerdict
<1>6. \A e \in Decisions \ {d} :
        Open(e) /\ About(moder[e].review) = About(moder[d].review) =>
          About(moder[d].review) \in raced'
  BY DEF WriteVerdict, Open
<1>7. \A s : About(s)' = About(s)
  BY DEF About
<1>8. ASSUME NEW e \in Decisions, NEW f \in Decisions, Open(e)', Open(f)', e # f,
             About(moder'[e].review) = About(moder'[f].review)
      PROVE  About(moder'[e].review) \in raced'
  <2>1. CASE e = d
    <3>1. moder'[f] = moder[f] /\ Open(f)
      BY <1>4, <1>8, <2>1 DEF Open
    <3> QED
      BY <1>3, <1>6, <1>8, <2>1, <3>1
  <2>2. CASE f = d
    <3>1. moder'[e] = moder[e] /\ Open(e)
      BY <1>4, <1>8, <2>2 DEF Open
    <3> QED
      BY <1>3, <1>6, <1>8, <2>2, <3>1
  <2>3. CASE e # d /\ f # d
    <3>1. moder'[e] = moder[e] /\ Open(e) /\ moder'[f] = moder[f] /\ Open(f)
      BY <1>4, <1>8, <2>3 DEF Open
    <3> QED
      BY <1>5, <1>8, <3>1 DEF CountInv
  <2> QED
    BY <2>1, <2>2, <2>3
<1>9. ASSUME NEW e \in Decisions, moder'[e].pc = "counted", About(moder'[e].review) \notin raced'
      PROVE  moder'[e].result = RatingAggregate(SeenApproved(e)')
  <2>1. moder'[e] = moder[e]
    BY <1>3, <1>4, <1>9
  <2>2. SeenApproved(e)' = SeenApproved(e)
    BY <1>1, <2>1, SeenKept
  <2> QED
    BY <1>5, <1>9, <2>1, <2>2 DEF CountInv
<1>10. \A p \in Products : Summary(p)' = Summary(p)
  BY <1>1 DEF Summary, Approved, About, RatingAggregate
<1>11. SettledCounters'
  BY <1>1, <1>5, <1>10 DEF CountInv, SettledCounters
<1> QED
  BY <1>8, <1>9, <1>11 DEF CountInv, About, RatingAggregate

\* The recount: it reads its own verdict and what the others have committed.
LEMMA CountInvRecount ==
  ASSUME TypeInv, CountInv, NEW d \in Decisions, Recount(d)
  PROVE  CountInv'
<1> DEFINE res == RatingAggregate(SeenApproved(d))
<1>1. /\ moder' = [moder EXCEPT ![d] = [pc |-> "counted", review |-> moder[d].review,
                                        to |-> moder[d].to, result |-> res]]
      /\ moder[d].pc = "written" /\ UNCHANGED <<review, counters, raced>>
  BY DEF Recount
<1> HIDE DEF res
<1>2. /\ moder'[d].pc = "counted" /\ moder'[d].review = moder[d].review
      /\ moder'[d].to = moder[d].to /\ moder'[d].result = res
      /\ \A e \in Decisions \ {d} : moder'[e] = moder[e]
  BY <1>1 DEF TypeInv
<1>3. \A e \in Decisions : SeenApproved(e)' = SeenApproved(e)
  BY <1>1, <1>2, SeenKept
<1>4. \A e \in Decisions : (Open(e)' <=> Open(e)) /\ moder'[e].review = moder[e].review
  BY <1>1, <1>2 DEF Open
<1>5. ASSUME NEW e \in Decisions, moder'[e].pc = "counted", About(moder'[e].review) \notin raced'
      PROVE  moder'[e].result = RatingAggregate(SeenApproved(e)')
  <2>1. CASE e = d
    BY <1>2, <1>3, <2>1 DEF res
  <2>2. CASE e # d
    BY <1>1, <1>2, <1>3, <1>5, <2>2 DEF CountInv
  <2> QED
    BY <2>1, <2>2
<1>6. \A p \in Products : Summary(p)' = Summary(p)
  BY <1>1 DEF Summary, Approved, About, RatingAggregate
<1>7. SettledCounters'
  BY <1>1, <1>6 DEF CountInv, SettledCounters
<1>8. \A e, f \in Decisions :
        Open(e)' /\ Open(f)' /\ About(moder'[e].review) = About(moder'[f].review) =>
          e = f \/ About(moder'[e].review) \in raced'
  BY <1>1, <1>4 DEF CountInv
<1> QED
  BY <1>5, <1>7, <1>8 DEF CountInv, About, RatingAggregate

\* The commit: what was counted is what the approved reviews now are.
LEMMA CountInvCommit ==
  ASSUME TypeInv, CountInv, NEW d \in Decisions, CommitVerdict(d)
  PROVE  CountInv'
<1> DEFINE s == moder[d].review
           p == About(s)
<1>1. /\ s \in Submissions /\ p \in Products /\ Open(d) /\ moder[d].pc = "counted"
      /\ moder[d].to \in Verdicts
  BY ModerKinds DEF CommitVerdict, Open
<1>2. /\ review' = [review EXCEPT ![s] = moder[d].to]
      /\ counters' = [counters EXCEPT ![p] = moder[d].result]
      /\ moder' = [moder EXCEPT ![d] = Idle] /\ raced' = raced
  BY DEF CommitVerdict
<1>t. review \in [Submissions -> {"NONE", "PENDING"} \union Verdicts]
  BY DEF TypeInv, TypeOK
<1>3. /\ review'[s] = moder[d].to
      /\ \A x \in Submissions \ {s} : review'[x] = review[x]
  BY <1>1, <1>2, <1>t
<1>4. /\ moder'[d].pc = "idle" /\ \A e \in Decisions \ {d} : moder'[e] = moder[e]
  BY <1>2 DEF TypeInv, Idle
<1>5. \A e \in Decisions : Open(e)' => e # d /\ Open(e) /\ moder'[e] = moder[e]
  BY <1>4 DEF Open
<1>6. ASSUME NEW e \in Decisions, moder'[e].pc = "counted", About(moder'[e].review) \notin raced'
      PROVE  moder'[e].result = RatingAggregate(SeenApproved(e)')
  <2>1. e # d /\ Open(e) /\ moder'[e] = moder[e]
    BY <1>5, <1>6 DEF Open
  <2>2. About(moder[e].review) # p
    BY <1>1, <1>2, <1>6, <2>1 DEF CountInv
  <2>3. SeenApproved(e)' = SeenApproved(e)
    BY <1>3, <2>1, <2>2, SeenKept
  <2> QED
    BY <1>2, <1>6, <2>1, <2>3 DEF CountInv
<1>7. ASSUME NEW x \in Products \ raced
      PROVE  counters'[x] = Summary(x)'
  <2>1. CASE x # p
    <3>1. Approved(x)' = Approved(x)
      BY <1>3, <2>1 DEF Approved, About
    <3>2. counters'[x] = counters[x]
      BY <1>1, <1>2, <2>1 DEF TypeInv
    <3>3. Summary(x)' = Summary(x)
      BY <3>1 DEF Summary, RatingAggregate
    <3> QED
      BY <3>2, <3>3 DEF CountInv, SettledCounters
  <2>2. CASE x = p
    <3>1. moder[d].result = RatingAggregate(SeenApproved(d))
      BY <1>1, <1>7, <2>2 DEF CountInv
    <3>2. Approved(x)' = SeenApproved(d)
      BY <1>3, <2>2 DEF Approved, SeenApproved, About
    <3>3. counters'[x] = moder[d].result
      BY <1>1, <1>2, <2>2 DEF TypeInv
    <3>4. Summary(x)' = RatingAggregate(SeenApproved(d))
      BY <3>2 DEF Summary, RatingAggregate
    <3> QED
      BY <3>1, <3>3, <3>4
  <2> QED
    BY <2>1, <2>2
<1>8. SettledCounters'
  BY <1>2, <1>7 DEF SettledCounters
<1>9. \A e, f \in Decisions :
        Open(e)' /\ Open(f)' /\ About(moder'[e].review) = About(moder'[f].review) =>
          e = f \/ About(moder'[e].review) \in raced'
  BY <1>2, <1>5 DEF CountInv
<1> QED
  BY <1>6, <1>8, <1>9 DEF CountInv, About, RatingAggregate

\* Every step keeps the counters' invariant.
LEMMA CountInvNext ==
  ASSUME TypeInv, CountInv, [Next]_vars
  PROVE  CountInv'
<1>t. review \in [Submissions -> {"NONE", "PENDING"} \union Verdicts]
  BY DEF TypeInv, TypeOK
<1>1. CASE UNCHANGED <<review, counters, moder, raced>>
  BY <1>1, CountInvKept
<1>2. ASSUME NEW s \in Submissions, CreateFromInvite(s)
      PROVE  CountInv'
  <2>1. CASE review' = review
    BY <1>1, <1>2, <2>1 DEF CreateFromInvite
  <2>2. CASE Reviewed(LinkOf[s]) = {} /\ review' = [review EXCEPT ![s] = "PENDING"]
    <3>1. review[s] = "NONE"
      BY <2>2 DEF Reviewed
    <3>2. \A x \in Submissions : review'[x] = "APPROVED" <=> review[x] = "APPROVED"
      BY <1>t, <2>2, <3>1
    <3> QED
      BY <1>2, <3>2, CountInvKept DEF CreateFromInvite
  <2> QED
    BY <1>2, <2>1, <2>2 DEF CreateFromInvite
<1>3. ASSUME NEW d \in Decisions, NEW s \in Submissions, NEW to, Decide(d, s, to)
      PROVE  CountInv'
  <2>1. /\ moder' = [moder EXCEPT ![d] = [pc |-> "read", review |-> s, to |-> to]]
        /\ UNCHANGED <<review, counters, raced>>
    BY <1>3 DEF Decide
  <2>2. \A e \in Decisions : Open(e)' => Open(e) /\ moder'[e] = moder[e]
    BY <2>1 DEF Open, TypeInv
  <2>3. ASSUME NEW e \in Decisions, moder'[e].pc = "counted", About(moder'[e].review) \notin raced'
        PROVE  moder'[e].result = RatingAggregate(SeenApproved(e)')
    <3>1. moder'[e] = moder[e]
      BY <2>2, <2>3 DEF Open
    <3>2. SeenApproved(e)' = SeenApproved(e)
      BY <2>1, <3>1, SeenKept
    <3> QED
      BY <2>1, <2>3, <3>1, <3>2 DEF CountInv
  <2>4. \A p \in Products : Summary(p)' = Summary(p)
    BY <2>1 DEF Summary, Approved, About, RatingAggregate
  <2>5. SettledCounters'
    BY <2>1, <2>4 DEF CountInv, SettledCounters
  <2>6. \A e, f \in Decisions :
          Open(e)' /\ Open(f)' /\ About(moder'[e].review) = About(moder'[f].review) =>
            e = f \/ About(moder'[e].review) \in raced'
    BY <2>1, <2>2 DEF CountInv
  <2> QED
    BY <2>3, <2>5, <2>6 DEF CountInv, About, RatingAggregate
<1>4. CASE ReviewStep
  BY <1>1, <1>2, <1>3, <1>4, CountInvWrite, CountInvRecount, CountInvCommit
  DEF ReviewStep, InviteExpires, Submit
<1>5. CASE UNCHANGED vars
  BY <1>1, <1>5 DEF vars, reviewVars
<1> QED
  BY <1>1, <1>4, <1>5
  DEF Next, SetShipment, Advance, SettlePaid, Abandon, Commit, StampShipment, ComposeMail,
      SendMail, Crash, reviewVars

-----------------------------------------------------------------------------
(* The theorems.                                                           *)

\* The invariant holds at first,
LEMMA InvInit ==
  ASSUME Init
  PROVE  Inv
<1>1. TypeInv
  BY NothingStored
<1>2. \A r \in Requests : desk[r].pc = "idle"
  BY DEF Init, Idle
<1>3. \A d \in Decisions : moder[d].pc = "idle"
  BY DEF Init, ReviewsInit, Idle
<1>4. \A s \in Submissions : review[s] = "NONE" /\ form[s] = "new"
  BY DEF Init, ReviewsInit
<1>5. MailInv
  BY <1>2 DEF Init, MailInv, MailsAreTrueAndOnce, Moved, Rank
<1>6. ShipInv
  BY <1>2 DEF Init, ShipInv, ShipmentFollowsOrder, NoShipment
<1>7. DeliveryInv
  BY <1>2, <1>4 DEF Init, ReviewsInit, DeliveryInv, Moved, Stored
<1>8. SpentInv
  BY <1>4 DEF Init, ReviewsInit, SpentInv, Reviewed
<1>9. \A p \in Products : Approved(p) = {}
  BY <1>4 DEF Approved
<1>10. CountInv
  BY <1>3, <1>9 DEF Init, ReviewsInit, CountInv, Open, SettledCounters, Summary
<1> QED
  BY <1>1, <1>5, <1>6, <1>7, <1>8, <1>10 DEF Inv

\* Every step keeps the types.
LEMMA TypeInvNext ==
  ASSUME TypeInv, [Next]_vars
  PROVE  TypeInv'
<1>1. CASE Next
  BY <1>1, DeskTypes, ReviewTypes, OtherTypes DEF Next
<1>2. CASE UNCHANGED vars
  BY <1>2, OtherTypes
<1> QED
  BY <1>1, <1>2

\* The invariant always holds.
LEMMA InvHolds == Spec => []Inv
<1>1. Init => Inv
  BY InvInit
<1>2. Inv /\ [Next]_vars => Inv'
  BY TypeInvNext, MailInvNext, ShipInvNext, DeliveryInvNext, SpentInvNext, CountInvNext DEF Inv
<1> QED
  BY <1>1, <1>2, PTL DEF Spec

\* Whatever the desk and the customers do, the rows keep their types; the
\* average of any finite number of ratings stays between no stars and five.
THEOREM TypesHold == Spec => []TypeOK
<1>1. Inv => TypeOK
  BY DEF Inv, TypeInv
<1> QED
  BY <1>1, InvHolds, PTL

\* No status is mailed about twice, or before the order reached it, for any
\* number of operators pressing the same button.
THEOREM MailsTrueAndOnce == Spec => []MailsAreTrueAndOnce
<1>1. Inv => MailsAreTrueAndOnce
  BY DEF Inv, MailInv
<1> QED
  BY <1>1, InvHolds, PTL

\* A dispatched order has a courier, and its shipment's dates follow its own.
THEOREM ShipmentsFollowOrders == Spec => []ShipmentFollowsOrder
<1>1. Inv => ShipmentFollowsOrder
  BY DEF Inv, ShipInv
<1> QED
  BY <1>1, InvHolds, PTL

\* Nothing is reviewed before it has arrived.
THEOREM ReviewsAfterDelivery == Spec => []ReviewsFollowDelivery
<1>1. Inv => ReviewsFollowDelivery
  BY DEF Inv, DeliveryInv, ReviewsFollowDelivery, Stored
<1> QED
  BY <1>1, InvHolds, PTL

\* An invite is spent exactly when its line has its one review.
THEOREM SpentInvitesHaveReviews == Spec => []SpentInviteHasReview
<1>1. Inv => SpentInviteHasReview
  <2> SUFFICES ASSUME SpentInv, NEW l \in Lines
               PROVE  invite[l] = "spent" <=> Cardinality(Reviewed(l)) = 1
    BY DEF Inv, SpentInviteHasReview
  <2>1. CASE invite[l] = "spent"
    <3>1. PICK s \in Submissions : Reviewed(l) = {s}
      BY <2>1 DEF SpentInv
    <3> QED
      BY <2>1, <3>1, FS_Singleton
  <2>2. CASE invite[l] # "spent"
    <3>1. Reviewed(l) = {}
      BY <2>2 DEF SpentInv
    <3> QED
      BY <2>2, <3>1, FS_EmptySet
  <2> QED
    BY <2>1, <2>2
<1> QED
  BY <1>1, InvHolds, PTL

\* The counters of a product no two of whose moderations overlapped say what
\* its approved reviews say.
THEOREM CountersSettle == Spec => []SettledCounters
<1>1. Inv => SettledCounters
  BY DEF Inv, CountInv
<1> QED
  BY <1>1, InvHolds, PTL
=============================================================================
