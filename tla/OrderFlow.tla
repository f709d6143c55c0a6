----------------------------- MODULE OrderFlow ------------------------------
(***************************************************************************)
(* The life of an order, from the transaction that places it to the        *)
(* statuses it ends in, with the variant rows it reserves, the payment     *)
(* beside it, the voucher use it spends and the audit ledger it writes.    *)
(*                                                                         *)
(* Every write goes through one database transaction that holds the order  *)
(* row, then the variant rows, FOR UPDATE and reads them under the lock,   *)
(* so a transaction is one step here and a transaction that throws is no   *)
(* step: it rolls everything back.  What runs outside a transaction is a   *)
(* step of its own: the expiry sweep reads its list first and settles the  *)
(* payments of the list one transaction at a time, while buyers, operators *)
(* and the provider go on changing them.                                   *)
(***************************************************************************)
EXTENDS OrderRules, StockRules, RunningTotals, FiniteSets

CONSTANTS
  Variants,      \* product_variant rows
  NumOrders,     \* how many orders may be placed
  Baskets,       \* the confirmed lines an order may be placed with
  InitialStock,  \* units on hand of every variant at the start
  MaxStock,      \* bound on units on hand (the code's is the int4 column)
  UsageLimit,    \* usage_limit of the voucher
  Sweepers,      \* server processes, each with its own expiry job
  Batch          \* EXPIRY_BATCH, payments per sweep

\* A line is bought loose or as a component of a bundle.  The two partial
\* unique indexes on cart_item allow one loose line per variant and one line
\* per variant and bundle, so a variant can be on several lines; one bundle is
\* enough for the case of two.
Sources == {"loose", "bundle"}

ASSUME NumOrdersAssumption == NumOrders \in Nat
ASSUME BasketsAssumption == Baskets \subseteq [Sources -> [Variants -> Nat]]
ASSUME StockAssumption ==
  /\ InitialStock \in Nat
  /\ MaxStock \in Nat
  /\ InitialStock <= MaxStock
ASSUME VoucherAssumption == UsageLimit \in Nat
ASSUME BatchAssumption == Batch \in Nat \ {0}

\* Orders in the order they are placed, which is the order they fall due in.
Orders == 1..NumOrders

VARIABLES
  stock,      \* stock_on_hand and stock_reserved of each variant
  ledger,     \* sum of the inventory_movement deltas of each variant
  sold,       \* units_sold, each variant's part of its product's counter
  status,     \* order.status, "NONE" before the order exists
  items,      \* order_item quantities, by source and variant
  redeemed,   \* orders with a voucher_redemption row
  usedCount,  \* voucher.used_count
  payment,    \* payment.status, "NONE" before the order exists
  logged,     \* the statuses payment_event rows report, per payment
  disputed,   \* history: orders whose CHARGE_PAID callback was refused
  overdue,    \* payments whose expires_at has passed
  sweep       \* per server process: isSweeping, and what is left of the due list

orderVars == <<status, items>>
voucherVars == <<redeemed, usedCount>>
paymentVars == <<payment, logged, disputed>>
vars == <<stock, ledger, sold, orderVars, voucherVars, paymentVars, overdue, sweep>>

NoLines == [s \in Sources |-> [v \in Variants |-> 0]]
Idle == [busy |-> FALSE, due |-> {}]

Qty(b, v) == b["loose"][v] + b["bundle"][v]

\* A basket that carries a variant on two lines at once.
Splits(b, v) == b["loose"][v] > 0 /\ b["bundle"][v] > 0

Exists(o) == status[o] # "NONE"

-----------------------------------------------------------------------------
Init ==
  /\ stock = [v \in Variants |-> [onHand |-> InitialStock, reserved |-> 0]]
  /\ ledger = [v \in Variants |-> 0]
  /\ sold = [v \in Variants |-> 0]
  /\ status = [o \in Orders |-> "NONE"]
  /\ items = [o \in Orders |-> NoLines]
  /\ redeemed = {}
  /\ usedCount = 0
  /\ payment = [o \in Orders |-> "NONE"]
  /\ logged = [o \in Orders |-> {}]
  /\ disputed = {}
  /\ overdue = {}
  /\ sweep = [w \in Sweepers |-> Idle]

-----------------------------------------------------------------------------
(* Placing an order.                                                       *)

\* Mutant of LinesReservable: checks the shelf and forgets what is promised.
LinesOnTheShelf(b) ==
  \A s \in Sources, v \in Variants : b[s][v] > 0 => b[s][v] <= stock[v].onHand

\* Each line is checked against the level read under the lock, not against
\* what an earlier line of the same order left of it.
LinesReservable(b) ==
  \A s \in Sources, v \in Variants : b[s][v] > 0 => CanReserve(stock[v], b[s][v])

\* writeStockLevels overwrites a variant's row once per line, each time with
\* the level computed from the locked one, so the last line written wins.
ReserveLines(b) ==
  \E last \in [Variants -> Sources] :
    /\ \A v \in Variants : Qty(b, v) > 0 => b[last[v]][v] > 0
    /\ stock' = [v \in Variants |-> Reserved(stock[v], b[last[v]][v])]

\* Mutant of RedeemVoucher: the usage limit is off by one.
RedeemVoucherPastLimit(o, onCart) ==
  IF onCart /\ usedCount <= UsageLimit
  THEN /\ redeemed' = redeemed \union {o}
       /\ usedCount' = usedCount + 1
  ELSE UNCHANGED voucherVars

\* A voucher on the cart that takes something off the order is redeemed when
\* its usage limit allows it, read under its row lock; otherwise the order is
\* priced without it.
RedeemVoucher(o, onCart) ==
  IF onCart /\ usedCount < UsageLimit
  THEN /\ redeemed' = redeemed \union {o}
       /\ usedCount' = usedCount + 1
  ELSE UNCHANGED voucherVars

Place(o, b, voucherOnCart) ==
  /\ ~Exists(o) /\ \A p \in 1..(o - 1) : Exists(p)
  /\ LinesReservable(b)
  /\ ReserveLines(b)
  /\ RedeemVoucher(o, voucherOnCart)
  /\ status' = [status EXCEPT ![o] = "PENDING_PAYMENT"]
  /\ items' = [items EXCEPT ![o] = b]
  /\ payment' = [payment EXCEPT ![o] = "PENDING"]
  /\ logged' = [logged EXCEPT ![o] = {"PENDING"}]
  /\ UNCHANGED <<ledger, sold, disputed, overdue, sweep>>

-----------------------------------------------------------------------------
(* transitionOrder, the one way an order changes status.                   *)

CanMoveStock(o, effect) ==
  /\ effect = "release" => \A v \in Variants : CanRelease(stock[v], Qty(items[o], v))
  /\ effect = "consume" => \A v \in Variants : CanConsume(stock[v], Qty(items[o], v))

\* Mutant of CanTransition: the status is not re-read under the order's lock,
\* so a move that was legal when the caller looked is made whatever came since.
CanTransitionUnchecked(o, to, effect) ==
  /\ Exists(o)
  /\ \E from \in OrderStatus : to \in OrderTransitions[from]
  /\ CanMoveStock(o, effect)

CanTransition(o, to, effect) ==
  /\ Exists(o)
  /\ to \in OrderTransitions[status[o]]
  /\ CanMoveStock(o, effect)

\* Mutant of RecordFulfilment: the movement rows are forgotten.
RecordFulfilmentSilently(o) ==
  /\ sold' = [v \in Variants |-> sold[v] + Qty(items[o], v)]
  /\ UNCHANGED ledger

\* A movement row per line; the catalogue's counter, the lines grouped first.
RecordFulfilment(o) ==
  /\ ledger' = [v \in Variants |-> ledger[v] - Qty(items[o], v)]
  /\ sold' = [v \in Variants |-> sold[v] + Qty(items[o], v)]

\* Dispatch is the one transition that is written to the ledger.
MoveStock(o, effect) ==
  \/ /\ effect = "hold"
     /\ UNCHANGED <<stock, ledger, sold>>
  \/ /\ effect = "release"
     /\ stock' = [v \in Variants |-> Released(stock[v], Qty(items[o], v))]
     /\ UNCHANGED <<ledger, sold>>
  \/ /\ effect = "consume"
     /\ stock' = [v \in Variants |-> Consumed(stock[v], Qty(items[o], v))]
     /\ RecordFulfilment(o)

\* Mutant of ReturnVoucher: every released order gives a use back, redeemed or not.
ReturnVoucherAlways(o, effect) ==
  IF effect = "release"
  THEN /\ redeemed' = redeemed \ {o}
       /\ usedCount' = usedCount - 1
  ELSE UNCHANGED voucherVars

ReturnVoucher(o, effect) ==
  IF effect = "release" /\ o \in redeemed
  THEN /\ redeemed' = redeemed \ {o}
       /\ usedCount' = usedCount - 1
  ELSE UNCHANGED voucherVars

TransitionOrder(o, to, effect) ==
  /\ CanTransition(o, to, effect)
  /\ MoveStock(o, effect)
  /\ status' = [status EXCEPT ![o] = to]
  /\ ReturnVoucher(o, effect)
  /\ UNCHANGED items

\* The buyer's cancellation leaves the payment row as it is.
BuyerCancel(o) ==
  /\ TransitionOrder(o, "CANCELLED", "release")
  /\ UNCHANGED <<paymentVars, overdue, sweep>>

OperatorCancel(o) ==
  /\ TransitionOrder(o, "CANCELLED", StockEffectOf("CANCELLED"))
  /\ UNCHANGED <<paymentVars, overdue, sweep>>

\* The operator's status control.  The courier a dispatch needs is a row of
\* the shipment table, which nothing here reads.
Advance(o, to) ==
  /\ to \in AdvanceTargets
  /\ TransitionOrder(o, to, StockEffectOf(to))
  /\ UNCHANGED <<paymentVars, overdue, sweep>>

-----------------------------------------------------------------------------
(* Settling a payment.                                                     *)

\* An event that restates the status is logged and otherwise ignored; any
\* other must be legal for the payment and, through it, for the order.
CanSettle(o, s) ==
  /\ Exists(o)
  /\ \/ s = payment[o]
     \/ /\ s \in PaymentTransitions[payment[o]]
        /\ CanTransition(o, OutcomeStatus[s], OutcomeStockEffect(s))

\* Mutant of Settle: the payment is written whether or not its order may follow.
SettlePaymentFirst(o, s) ==
  /\ Exists(o)
  /\ s \in PaymentTransitions[payment[o]]
  /\ logged' = [logged EXCEPT ![o] = @ \union {s}]
  /\ payment' = [payment EXCEPT ![o] = s]
  /\ \/ TransitionOrder(o, OutcomeStatus[s], OutcomeStockEffect(s))
     \/ /\ ~CanTransition(o, OutcomeStatus[s], OutcomeStockEffect(s))
        /\ UNCHANGED <<stock, ledger, sold, orderVars, voucherVars>>
  /\ UNCHANGED disputed

Settle(o, s) ==
  /\ CanSettle(o, s)
  /\ logged' = [logged EXCEPT ![o] = @ \union {s}]
  /\ \/ /\ s = payment[o]
        /\ UNCHANGED <<stock, ledger, sold, orderVars, voucherVars, payment>>
     \/ /\ s # payment[o]
        /\ payment' = [payment EXCEPT ![o] = s]
        /\ TransitionOrder(o, OutcomeStatus[s], OutcomeStockEffect(s))
  /\ UNCHANGED disputed

\* A callback that cannot settle throws, and its log row goes with it.  The
\* history variable remembers the one that hurts: the customer did pay.
Callback(o, s) ==
  /\ \/ Settle(o, s)
     \/ /\ Exists(o) /\ ~CanSettle(o, s) /\ s = "PAID"
        /\ disputed' = disputed \union {o}
        /\ UNCHANGED <<stock, ledger, sold, orderVars, voucherVars, payment, logged>>
  /\ UNCHANGED <<overdue, sweep>>

OperatorSettle(o, s) ==
  /\ s \in {"PAID", "FAILED"}
  /\ Settle(o, s)
  /\ UNCHANGED <<overdue, sweep>>

-----------------------------------------------------------------------------
(* The expiry sweep.                                                       *)

PaymentWindowCloses(o) ==
  /\ Exists(o) /\ payment[o] = "PENDING" /\ o \notin overdue
  /\ \A p \in 1..(o - 1) : payment[p] = "PENDING" => p \in overdue
  /\ overdue' = overdue \union {o}
  /\ UNCHANGED <<stock, ledger, sold, orderVars, voucherVars, paymentVars, sweep>>

\* A payment left PENDING on a cancelled order is not due.
Due == {o \in overdue : payment[o] = "PENDING" /\ status[o] = "PENDING_PAYMENT"}

OldestDue == {o \in Due : Cardinality({p \in Due : p < o}) < Batch}

\* The tick is skipped while the last sweep of the process is still running.
StartSweep(w) ==
  /\ ~sweep[w].busy
  /\ Due # {}
  /\ sweep' = [sweep EXCEPT ![w] = [busy |-> TRUE, due |-> OldestDue]]
  /\ UNCHANGED <<stock, ledger, sold, orderVars, voucherVars, paymentVars, overdue>>

\* Mutant of SweepNext: what the list said is applied without reading it again.
SweepNextFromList(w) ==
  \E o \in sweep[w].due :
    /\ \A p \in sweep[w].due : o <= p
    /\ CanMoveStock(o, "release")
    /\ MoveStock(o, "release")
    /\ ReturnVoucher(o, "release")
    /\ status' = [status EXCEPT ![o] = "EXPIRED"]
    /\ sweep' = [sweep EXCEPT ![w].due = @ \ {o}]
    /\ UNCHANGED <<items, paymentVars, overdue>>

\* Mutant of SweepNext: a payment that throws ends the sweep.
SweepUntilThrow(w) ==
  \E o \in sweep[w].due :
    /\ \A p \in sweep[w].due : o <= p
    /\ \/ Settle(o, "EXPIRED") /\ sweep' = [sweep EXCEPT ![w].due = @ \ {o}]
       \/ /\ ~CanSettle(o, "EXPIRED")
          /\ sweep' = [sweep EXCEPT ![w].due = {}]
          /\ UNCHANGED <<stock, ledger, sold, orderVars, voucherVars, paymentVars>>
    /\ UNCHANGED overdue

\* One transaction per payment; one that throws is logged and stepped over.
SweepNext(w) ==
  \E o \in sweep[w].due :
    /\ \A p \in sweep[w].due : o <= p
    /\ \/ Settle(o, "EXPIRED")
       \/ /\ ~CanSettle(o, "EXPIRED")
          /\ UNCHANGED <<stock, ledger, sold, orderVars, voucherVars, paymentVars>>
    /\ sweep' = [sweep EXCEPT ![w].due = @ \ {o}]
    /\ UNCHANGED overdue

\* Mutant of EndSweep: the flag is not reset when a sweep ends.
EndSweepStuck(w) ==
  /\ sweep[w].busy /\ sweep[w].due = {}
  /\ UNCHANGED vars

EndSweep(w) ==
  /\ sweep[w].busy /\ sweep[w].due = {}
  /\ sweep' = [sweep EXCEPT ![w] = Idle]
  /\ UNCHANGED <<stock, ledger, sold, orderVars, voucherVars, paymentVars, overdue>>

\* A restart loses isSweeping and the list; every row is in the database.
Restart(w) ==
  /\ sweep[w].busy
  /\ sweep' = [sweep EXCEPT ![w] = Idle]
  /\ UNCHANGED <<stock, ledger, sold, orderVars, voucherVars, paymentVars, overdue>>

-----------------------------------------------------------------------------
(* An operator's stock adjustment: the row under its lock, and a movement. *)

Adjust(v, delta) ==
  /\ CanAdjust(stock[v], delta)
  /\ stock[v].onHand + delta <= MaxStock
  /\ stock' = [stock EXCEPT ![v] = Adjusted(@, delta)]
  /\ ledger' = [ledger EXCEPT ![v] = @ + delta]
  /\ UNCHANGED <<sold, orderVars, voucherVars, paymentVars, overdue, sweep>>

-----------------------------------------------------------------------------
Next ==
  \/ \E o \in Orders, b \in Baskets, onCart \in BOOLEAN : Place(o, b, onCart)
  \/ \E o \in Orders : BuyerCancel(o)
  \/ \E o \in Orders : OperatorCancel(o)
  \/ \E o \in Orders, to \in OrderStatus : Advance(o, to)
  \/ \E o \in Orders, s \in PaymentStatus : Callback(o, s)
  \/ \E o \in Orders, s \in PaymentStatus : OperatorSettle(o, s)
  \/ \E o \in Orders : PaymentWindowCloses(o)
  \/ \E w \in Sweepers : StartSweep(w)
  \/ \E w \in Sweepers : SweepNext(w)
  \/ \E w \in Sweepers : EndSweep(w)
  \/ \E w \in Sweepers : Restart(w)
  \/ \E v \in Variants, delta \in {-1, 1} : Adjust(v, delta)

Spec == Init /\ [][Next]_vars

\* The sweep is done with the payment of order o.
GetsPast(w, o) == SweepNext(w) /\ o \in sweep[w].due /\ o \notin sweep'[w].due

\* Time passes, the cron ticks, and restarts do not for ever hit the sweep just
\* before the same payment.  Nobody has to pay, cancel, advance or restock.
Fairness ==
  /\ \A o \in Orders : WF_vars(PaymentWindowCloses(o))
  /\ \A w \in Sweepers : WF_vars(StartSweep(w)) /\ WF_vars(EndSweep(w))
  /\ \A w \in Sweepers, o \in Orders : SF_vars(GetsPast(w, o))

FairSpec == Spec /\ Fairness
-----------------------------------------------------------------------------
(* Properties.                                                             *)

\* Every table row has the columns and the values its schema allows, and the
\* sweep's list names only orders.
TypeOK ==
  /\ stock \in [Variants -> StockLevel]
  /\ ledger \in [Variants -> Int]
  /\ sold \in [Variants -> Nat]
  /\ status \in [Orders -> OrderStatus \union {"NONE"}]
  /\ items \in [Orders -> [Sources -> [Variants -> Nat]]]
  /\ redeemed \subseteq Orders
  /\ usedCount \in Nat
  /\ payment \in [Orders -> PaymentStatus \union {"NONE"}]
  /\ logged \in [Orders -> SUBSET PaymentStatus]
  /\ disputed \subseteq Orders
  /\ overdue \subseteq Orders
  /\ sweep \in [Sweepers -> [busy : BOOLEAN, due : SUBSET Orders]]

\* What order o holds of variant v.
Held(o, v) == IF status[o] \in Holding THEN Qty(items[o], v) ELSE 0

\* No basket on offer carries v on two lines of one order.
NeverSplit(v) == \A b \in Baskets : ~Splits(b, v)

\* stock_reserved is a counter four transactions add to and take from; it is
\* right when it equals what the orders not yet dispatched or given back have
\* on their lines, whatever order placements, cancellations, payments, sweeps
\* and dispatches came in (the table of stock-reservation.ts).
StockConserved ==
  \A v \in Variants : NeverSplit(v) =>
    IsTotal(stock[v].reserved, [o \in Orders |-> Held(o, v)], NumOrders)

\* The last unit is sold once: no interleaving of orders, write-downs and
\* dispatches promises more units of a variant than the shelf has.
NoOversell == \A v \in Variants : stock[v].reserved <= stock[v].onHand

\* The units on the shelf are the ones the ledger explains: every change of
\* stock_on_hand by a dispatch or an adjustment has its movement row, and no
\* other transaction that overwrites the row changes it.
LedgerBalanced ==
  \A v \in Variants : stock[v].onHand = InitialStock + ledger[v]

\* The statuses after dispatch; a refunded order was delivered first.
Dispatched == {"SHIPPED", "DELIVERED", "COMPLETED", "REFUNDED"}

\* What order o took of variant v out of the shop.
Shipped(o, v) == IF status[o] \in Dispatched THEN Qty(items[o], v) ELSE 0

\* The sales counter the catalogue sorts by counts every order that left the
\* shop once and in full, refunded later or not, and no order that did not:
\* nothing recomputes it, so a dispatch counted twice or in part stays so.
SalesCounted ==
  \A v \in Variants :
    IsTotal(sold[v], [o \in Orders |-> Shipped(o, v)], NumOrders)

\* An order that still holds units can always give them back or ship them:
\* releaseStock and consumeStock throw only on corruption, and there is none.
HoldsAreRedeemable ==
  \A o \in Orders : status[o] \in Holding =>
    \A v \in Variants : NeverSplit(v) =>
      /\ CanRelease(stock[v], Qty(items[o], v))
      /\ CanConsume(stock[v], Qty(items[o], v))

\* used_count counts the orders that happened: it equals the redemption rows,
\* never passes the limit, and an order that was cancelled or expired has
\* given its use back while every other keeps it.
VoucherUsesCounted ==
  /\ usedCount = Cardinality(redeemed)
  /\ usedCount <= UsageLimit
  /\ \A o \in redeemed : status[o] \notin {"NONE", "CANCELLED", "EXPIRED"}

\* The order and payment statuses that may be seen together.
Agree(order, pay) ==
  CASE order = "NONE" -> pay = "NONE"
    [] order = "PENDING_PAYMENT" -> pay = "PENDING"
    [] order = "EXPIRED" -> pay = "EXPIRED"
    [] order = "CANCELLED" -> pay \in {"PENDING", "FAILED"}
    [] order = "REFUNDED" -> pay \in {"PAID", "REFUNDED"}
    [] OTHER -> pay = "PAID"

\* Two machines, moved by different actors, never disagree: nothing is packed
\* or shipped unpaid, and an order whose money was taken is never found
\* cancelled or expired, however the callback raced the buyer and the sweep.
PaymentAgrees == \A o \in Orders : Agree(status[o], payment[o])

\* Dispatch leaves availability as it was, variant by variant: the units that
\* leave are exactly the units the order had already taken off the shelf.
DispatchKeepsAvailability ==
  [][\A o \in Orders : (status[o] = "PACKING" /\ status'[o] = "SHIPPED") =>
       \A v \in Variants : Available(stock'[v]) = Available(stock[v])]_vars

\* Units leave the shelf by a dispatch or a write-down of one variant; a
\* cancellation, an expiry, a payment or a placement never moves on-hand stock.
ShelfMovesOnlyByDispatch ==
  [][(\E v \in Variants : stock'[v].onHand # stock[v].onHand) =>
       \/ status' = status
       \/ \E o \in Orders : status[o] = "PACKING" /\ status'[o] = "SHIPPED"]_vars

\* The units of such a variant are not all reserved, so giving them back may
\* throw, for every order with the variant, sweep after sweep.
Sound(o) == \A v \in Variants : Qty(items[o], v) > 0 => NeverSplit(v)

\* The sweep gets as far as order o: of the orders due before it, those that
\* may throw do not fill the batch.
WithinReach(o) == Cardinality({p \in 1..(o - 1) : ~Sound(p)}) < Batch

\* An order nobody pays does not hold its units for ever: it leaves
\* PENDING_PAYMENT, if by nothing else then by the sweep, which steps over a
\* payment that throws.  Orders of a variant that is sold on two lines of one
\* order are exempt, and orders behind a whole batch of them.
UnpaidOrdersClose ==
  \A o \in Orders :
    status[o] = "PENDING_PAYMENT" /\ Sound(o) /\ WithinReach(o) ~> status[o] # "PENDING_PAYMENT"

\* The same for every order: the job takes the orders past their window, "expires
\* them, and releases the stock they were holding".
EveryUnpaidOrderCloses ==
  \A o \in Orders : status[o] = "PENDING_PAYMENT" ~> status[o] # "PENDING_PAYMENT"
-----------------------------------------------------------------------------
(* OrderFlow implements StockPromise.                                      *)

ClaimOf(s) ==
  IF s = "NONE" THEN "none"
  ELSE IF s \in Holding THEN "open"
  ELSE IF s \in {"CANCELLED", "EXPIRED"} THEN "returned"
  ELSE "shipped"

Promise == INSTANCE StockPromise WITH
  onHand <- [v \in Variants |-> stock[v].onHand],
  claim <- [o \in Orders |-> ClaimOf(status[o])],
  wants <- [o \in Orders |-> [v \in Variants |-> Qty(items[o], v)]]

\* Two counters per variant, overwritten by every transaction, keep the promise
\* made order by order: each claim is opened once, on units that are there, and
\* ends once, and the shelf covers the open claims after every step.
KeepsPromise == Promise!Spec
=============================================================================
