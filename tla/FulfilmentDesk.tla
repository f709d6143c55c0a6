--------------------------- MODULE FulfilmentDesk ---------------------------
(***************************************************************************)
(* The operators' order desk after the money has come in: advancing an     *)
(* order, its shipment record, the mails it sends and the review invites   *)
(* the delivery mail carries, over the reviews those invites allow.        *)
(*                                                                         *)
(* A request reads the order, moves it in one transaction under the        *)
(* order's lock, and only then stamps the shipment and mails the customer: *)
(* four steps between which other requests run and the process may die.    *)
(***************************************************************************)
EXTENDS OrderRules, Reviews

CONSTANTS
  Orders,
  LinesOf,      \* the lines of each order
  Requests      \* requests at the desk, payments settling included

\* A line is an order_item row, of one order.
ASSUME OrdersAssumption ==
  /\ LinesOf \in [Orders -> SUBSET Lines]
  /\ \A o, x \in Orders : o # x => LinesOf[o] \intersect LinesOf[x] = {}

VARIABLES
  status,     \* order.status
  past,       \* history: the statuses an order has been in
  deliveredAt,\* orders with delivered_at
  shipment,   \* the shipment row: is there one, and its two dates
  mails,      \* mails sent about each order, by the status they are about
  desk        \* how far each request is, and what it does

deskVars == <<status, past, deliveredAt, shipment, mails, desk>>
vars == <<deskVars, reviewVars>>

NoShipment == [booked |-> FALSE, shipped |-> FALSE, delivered |-> FALSE]

\* ORDER_MAIL: the statuses a customer hears about.
Mailed == {"PENDING_PAYMENT", "PAID", "SHIPPED", "DELIVERED"}

\* FULFILMENT_EFFECTS: what a status asks for and stamps.
RequiresShipment(to) == to = "SHIPPED"
StampsShippedAt(to) == to = "SHIPPED"
StampsDeliveredAt(to) == to = "DELIVERED"

Busy(r, o, to, at) == desk' = [desk EXCEPT ![r] = [pc |-> at, order |-> o, to |-> to]]
At(r, pc) == desk[r].pc = pc

-----------------------------------------------------------------------------
Init ==
  /\ ReviewsInit
  /\ status = [o \in Orders |-> "PENDING_PAYMENT"]
  /\ past = [o \in Orders |-> {"PENDING_PAYMENT"}]
  /\ deliveredAt = {}
  /\ shipment = [o \in Orders |-> NoShipment]
  /\ mails = [o \in Orders |-> [st \in Mailed |-> 0]]
  /\ desk = [r \in Requests |-> Idle]

-----------------------------------------------------------------------------
\* setShipment: an upsert, so a courier can be set before the dispatch or
\* changed after it; the dates of the row stay.
SetShipment(o) ==
  /\ shipment' = [shipment EXCEPT ![o].booked = TRUE]
  /\ UNCHANGED <<status, past, deliveredAt, mails, desk, reviewVars>>

\* Mutant of CourierBooked: an operator may ship first and book later.
CourierNotAsked(o, to) == TRUE

CourierBooked(o, to) == RequiresShipment(to) => shipment[o].booked

\* advance, before its transaction: the route, the lifecycle and the courier,
\* all asked of the order as it was read.
Advance(r, o, to) ==
  /\ At(r, "idle")
  /\ to \in AdvanceTargets
  /\ to \in OrderTransitions[status[o]]
  /\ CourierBooked(o, to)
  /\ Busy(r, o, to, "read")
  /\ UNCHANGED <<status, past, deliveredAt, shipment, mails, reviewVars>>

\* A payment settles: its own transaction, which moves the order as well.
SettlePaid(r, o) ==
  /\ At(r, "idle")
  /\ status[o] = "PENDING_PAYMENT"
  /\ Busy(r, o, "PAID", "read")
  /\ UNCHANGED <<status, past, deliveredAt, shipment, mails, reviewVars>>

\* The operator cancels, or the payment window closes.  Neither sends a mail.
Abandon(r, o, to) ==
  /\ At(r, "idle")
  /\ status[o] = "PENDING_PAYMENT"
  /\ Busy(r, o, to, "read")
  /\ UNCHANGED <<status, past, deliveredAt, shipment, mails, reviewVars>>

\* Mutant of CanMove: trusts the check made before the lock was taken.
MoveAsRead(o, to) == TRUE

\* assertOrderTransition, under the order's lock.
CanMove(o, to) == to \in OrderTransitions[status[o]]

\* transitionOrder: the move and the order's own date commit together; a
\* refused move throws, and the request ends there.
Commit(r) ==
  /\ At(r, "read")
  /\ LET o == desk[r].order  to == desk[r].to IN
     IF CanMove(o, to)
     THEN /\ status' = [status EXCEPT ![o] = to]
          /\ past' = [past EXCEPT ![o] = @ \union {to}]
          /\ deliveredAt' = deliveredAt \union (IF StampsDeliveredAt(to) THEN {o} ELSE {})
          /\ Busy(r, o, to, "moved")
     ELSE /\ desk' = [desk EXCEPT ![r] = Idle]
          /\ UNCHANGED <<status, past, deliveredAt>>
  /\ UNCHANGED <<shipment, mails, reviewVars>>

\* What stampShipment makes of the shipment row of the order, if it has one.
Stamped(row, to) ==
  IF row.booked
  THEN [row EXCEPT !.shipped = @ \/ StampsShippedAt(to),
                   !.delivered = @ \/ StampsDeliveredAt(to)]
  ELSE row

StampShipment(r) ==
  /\ At(r, "moved")
  /\ LET o == desk[r].order  to == desk[r].to IN
     /\ shipment' = [shipment EXCEPT ![o] = Stamped(@, to)]
     /\ Busy(r, o, to, "stamped")
  /\ UNCHANGED <<status, past, deliveredAt, mails, reviewVars>>

\* Mutant of ReviewLinks: every mail that has lines to list carries links.
LinksInEveryMail(o, to) == Invitable(LinesOf[o])

\* The lines whose links the mail carries: the delivery mail mints an invite,
\* while it is composed, for each line that has none.
ReviewLinks(o, to) == IF to = "DELIVERED" THEN Invitable(LinesOf[o]) ELSE {}

\* notify: render the mail, if the status has one.
ComposeMail(r) ==
  /\ At(r, "stamped")
  /\ LET o == desk[r].order  to == desk[r].to IN
     IF to \in Mailed
     THEN /\ Issue(ReviewLinks(o, to))
          /\ desk' = [desk EXCEPT ![r] =
               [pc |-> "composed", order |-> o, to |-> to, links |-> ReviewLinks(o, to)]]
     ELSE /\ desk' = [desk EXCEPT ![r] = Idle]
          /\ UNCHANGED invite
  /\ UNCHANGED <<status, past, deliveredAt, shipment, mails,
                 known, form, review, counters, moder, raced>>

\* The transport takes the mail or fails; a failure is logged and swallowed.
SendMail(r) ==
  /\ At(r, "composed")
  /\ \/ /\ mails' = [mails EXCEPT ![desk[r].order][desk[r].to] = @ + 1]
        /\ known' = known \union desk[r].links
     \/ UNCHANGED <<mails, known>>
  /\ desk' = [desk EXCEPT ![r] = Idle]
  /\ UNCHANGED <<status, past, deliveredAt, shipment,
                 invite, form, review, counters, moder, raced>>

\* The process serving a request dies; what was committed stays.
Crash(r) ==
  /\ desk[r].pc # "idle"
  /\ desk' = [desk EXCEPT ![r] = Idle]
  /\ UNCHANGED <<status, past, deliveredAt, shipment, mails, reviewVars>>

Next ==
  \/ \E o \in Orders : SetShipment(o)
  \/ \E r \in Requests, o \in Orders :
       \/ \E to \in OrderStatus : Advance(r, o, to)
       \/ SettlePaid(r, o)
       \/ \E to \in {"CANCELLED", "EXPIRED"} : Abandon(r, o, to)
  \/ \E r \in Requests :
       Commit(r) \/ StampShipment(r) \/ ComposeMail(r) \/ SendMail(r) \/ Crash(r)
  \/ ReviewStep /\ UNCHANGED deskVars

Spec == Init /\ [][Next]_vars

-----------------------------------------------------------------------------
TypeOK ==
  /\ invite \in [Lines -> {"none", "live", "expired", "spent"}]
  /\ known \subseteq Lines
  /\ form \in [Submissions -> {"new", "checked", "refused", "stored"}]
  /\ review \in [Submissions -> {"NONE", "PENDING"} \union Verdicts]
  /\ \A p \in Products : counters[p].count \in Nat /\ counters[p].tenths \in 0..50
  /\ status \in [Orders -> OrderStatus]
  /\ past \in [Orders -> SUBSET OrderStatus]
  /\ deliveredAt \subseteq Orders
  /\ shipment \in [Orders -> [booked : BOOLEAN, shipped : BOOLEAN, delivered : BOOLEAN]]
  /\ mails \in [Orders -> [Mailed -> Nat]]

\* A customer is mailed about a status at most once, and only about one the
\* order has reached, however many operators press the same button.
MailsAreTrueAndOnce ==
  \A o \in Orders, st \in Mailed :
    /\ mails[o][st] <= 1
    /\ mails[o][st] = 1 => st \in past[o]

\* A dispatched order has a courier to track it with, and the shipment's own
\* dates never run ahead of the order's.
ShipmentFollowsOrder ==
  \A o \in Orders :
    /\ "SHIPPED" \in past[o] => shipment[o].booked
    /\ shipment[o].shipped => "SHIPPED" \in past[o]
    /\ shipment[o].delivered => "DELIVERED" \in past[o]

\* "Only a buyer may review what they bought", and only once it has arrived: a
\* review is of a line of a delivered order.
ReviewsFollowDelivery ==
  \A s \in Submissions, o \in Orders :
    review[s] # "NONE" /\ LinkOf[s] \in LinesOf[o] => o \in deliveredAt
=============================================================================
