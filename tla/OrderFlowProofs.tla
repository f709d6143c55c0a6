--------------------------- MODULE OrderFlowProofs ---------------------------
(***************************************************************************)
(* What holds of OrderFlow for every set of variants, every number of      *)
(* orders and of server processes, and every basket.  The eleven actions   *)
(* touch stock, statuses and vouchers in three ways only: a placement, a   *)
(* status transition with the stock effect of the status it reaches, and a *)
(* stock adjustment.  The lemma StepKinds says so once; each invariant is  *)
(* then shown to survive the three.                                        *)
(***************************************************************************)
EXTENDS OrderFlow, RunningTotalsProofs, FiniteSetTheorems

USE NumOrdersAssumption, BasketsAssumption, StockAssumption, VoucherAssumption

\* What a payment's status does to the stock is what reaching the order status
\* it implies does: the two tables of the code do not contradict each other.
LEMMA OutcomesMatchEffects ==
  ASSUME NEW s \in PaymentStatus \ {"PENDING"}
  PROVE  /\ OutcomeStatus[s] \in OrderStatus
         /\ OutcomeStockEffect(s) = StockEffectOf(OutcomeStatus[s])
BY DEF PaymentStatus, OutcomeStatus, OutcomeStockEffect, StockEffectOf, OrderStatus

\* A legal transition starts at an existing order, and moves its stock as it
\* leaves the statuses that hold units, only then.
LEMMA TransitionShape ==
  ASSUME TypeOK, NEW o \in Orders, NEW to \in OrderStatus,
         CanTransition(o, to, StockEffectOf(to))
  PROVE  /\ status[o] \in OrderStatus
         /\ \/ status[o] = "PENDING_PAYMENT" /\ to \in {"PAID", "CANCELLED", "EXPIRED"}
            \/ status[o] = "PAID" /\ to = "PACKING"
            \/ status[o] = "PACKING" /\ to = "SHIPPED"
            \/ status[o] = "SHIPPED" /\ to = "DELIVERED"
            \/ status[o] = "DELIVERED" /\ to \in {"COMPLETED", "REFUNDED"}
         /\ to # status[o]
<1>1. /\ status[o] \in OrderStatus
      /\ to \in OrderTransitions[status[o]]
  BY DEF CanTransition, Exists, TypeOK
<1> QED
  BY <1>1 DEF OrderStatus, OrderTransitions

\* An order that exists has a payment.
LEMMA OrdersHavePayments ==
  ASSUME TypeOK, PaymentAgrees, NEW o \in Orders, Exists(o)
  PROVE  payment[o] \in PaymentStatus
<1>1. Agree(status[o], payment[o])
  BY DEF PaymentAgrees
<1>2. status[o] \in OrderStatus /\ payment[o] \in PaymentStatus \union {"NONE"}
  BY DEF TypeOK, Exists
<1> QED
  BY <1>1, <1>2 DEF Agree, OrderStatus, PaymentStatus

\* Settling a payment is a transition of its order or leaves it alone.
LEMMA SettleShape ==
  ASSUME TypeOK, PaymentAgrees,
         NEW o \in Orders, NEW s \in PaymentStatus, Settle(o, s)
  PROVE  \/ /\ payment[o] \in PaymentStatus /\ s \in PaymentTransitions[payment[o]]
            /\ s # "PENDING"
            /\ TransitionOrder(o, OutcomeStatus[s], StockEffectOf(OutcomeStatus[s]))
            /\ payment' = [payment EXCEPT ![o] = s]
         \/ UNCHANGED <<stock, ledger, sold, orderVars, voucherVars, payment>>
<1>1. CASE s = payment[o]
  BY <1>1 DEF Settle
<1>2. CASE s # payment[o]
  <2>1. /\ payment[o] \in PaymentStatus
        /\ s \in PaymentTransitions[payment[o]]
        /\ TransitionOrder(o, OutcomeStatus[s], OutcomeStockEffect(s))
        /\ payment' = [payment EXCEPT ![o] = s]
    <3>1. CanSettle(o, s)
      BY DEF Settle
    <3>2. CanTransition(o, OutcomeStatus[s], OutcomeStockEffect(s))
          /\ s \in PaymentTransitions[payment[o]]
      BY <1>2, <3>1 DEF CanSettle
    <3>3. TransitionOrder(o, OutcomeStatus[s], OutcomeStockEffect(s))
          /\ payment' = [payment EXCEPT ![o] = s]
      BY <1>2 DEF Settle
    <3>4. payment[o] \in PaymentStatus
      BY <3>1, OrdersHavePayments DEF CanSettle
    <3> QED
      BY <3>2, <3>3, <3>4
  <2>2. s # "PENDING"
    BY <2>1 DEF PaymentStatus, PaymentTransitions
  <2> QED
    BY <2>1, <2>2, OutcomesMatchEffects
<1> QED
  BY <1>1, <1>2

\* A step places an order, moves one order along its machine with the stock
\* effect of the status it reaches, adjusts one variant, or leaves the tables
\* the stock depends on alone.
StockStep ==
  \/ \E o \in Orders, b \in Baskets, onCart \in BOOLEAN : Place(o, b, onCart)
  \/ \E o \in Orders, to \in OrderStatus : TransitionOrder(o, to, StockEffectOf(to))
  \/ \E v \in Variants, delta \in {-1, 1} : Adjust(v, delta)
  \/ UNCHANGED <<stock, ledger, sold, orderVars, voucherVars>>

\* Every step is of one of the kinds of StockStep.
LEMMA StepKinds ==
  ASSUME TypeOK, PaymentAgrees, [Next]_vars
  PROVE  StockStep
<1>1. ASSUME NEW o \in Orders, NEW s \in PaymentStatus, Settle(o, s)
      PROVE  StockStep
  <2>1. CASE UNCHANGED <<stock, ledger, sold, orderVars, voucherVars, payment>>
    BY <2>1 DEF StockStep
  <2>2. CASE /\ s # "PENDING"
             /\ TransitionOrder(o, OutcomeStatus[s], StockEffectOf(OutcomeStatus[s]))
    BY <2>2, OutcomesMatchEffects DEF StockStep
  <2> QED
    BY <1>1, <2>1, <2>2, SettleShape
<1>2. ASSUME NEW o \in Orders, BuyerCancel(o) \/ OperatorCancel(o)
      PROVE  StockStep
  <2>1. StockEffectOf("CANCELLED") = "release" /\ "CANCELLED" \in OrderStatus
    BY DEF StockEffectOf, OrderStatus
  <2>2. TransitionOrder(o, "CANCELLED", StockEffectOf("CANCELLED"))
    BY <1>2, <2>1 DEF BuyerCancel, OperatorCancel
  <2> QED
    BY <2>1, <2>2 DEF StockStep
<1>3. ASSUME NEW o \in Orders, NEW to \in OrderStatus, Advance(o, to)
      PROVE  StockStep
  BY <1>3 DEF Advance, StockStep
<1>4. ASSUME NEW o \in Orders, NEW s \in PaymentStatus,
             Callback(o, s) \/ OperatorSettle(o, s)
      PROVE  StockStep
  <2>1. CASE Settle(o, s)
    BY <2>1, <1>1
  <2>2. CASE UNCHANGED <<stock, ledger, sold, orderVars, voucherVars, payment, logged>>
    BY <2>2 DEF StockStep
  <2> QED
    BY <1>4, <2>1, <2>2 DEF Callback, OperatorSettle
<1>5. ASSUME NEW w \in Sweepers, SweepNext(w)
      PROVE  StockStep
  <2>1. PICK o \in sweep[w].due :
               \/ Settle(o, "EXPIRED")
               \/ UNCHANGED <<stock, ledger, sold, orderVars, voucherVars, paymentVars>>
    BY <1>5 DEF SweepNext
  <2>2. o \in Orders /\ "EXPIRED" \in PaymentStatus
    BY DEF TypeOK, PaymentStatus
  <2> QED
    BY <2>1, <2>2, <1>1 DEF StockStep
<1>6. ASSUME \/ \E o \in Orders : PaymentWindowCloses(o)
             \/ \E w \in Sweepers : StartSweep(w) \/ EndSweep(w) \/ Restart(w)
             \/ UNCHANGED vars
      PROVE  StockStep
  BY <1>6 DEF PaymentWindowCloses, StartSweep, EndSweep, Restart, vars, StockStep
<1> QED
  BY <1>2, <1>3, <1>4, <1>5, <1>6 DEF Next, StockStep

-----------------------------------------------------------------------------
(* The order and its payment.                                              *)

\* One move of the order machine that the payment follows or need not follow
\* keeps the two in agreement.
LEMMA MoveAgrees ==
  ASSUME TypeOK, PaymentAgrees, NEW o \in Orders, NEW to \in OrderStatus,
         TransitionOrder(o, to, StockEffectOf(to)),
         \/ payment' = payment /\ to \in AdvanceTargets \union {"CANCELLED"}
         \/ \E s \in PaymentTransitions[payment[o]] :
              /\ s # "PENDING"
              /\ to = OutcomeStatus[s]
              /\ payment' = [payment EXCEPT ![o] = s]
  PROVE  PaymentAgrees' /\ payment' \in [Orders -> PaymentStatus \union {"NONE"}]
<1>1. CanTransition(o, to, StockEffectOf(to)) /\ status' = [status EXCEPT ![o] = to]
  BY DEF TransitionOrder
<1>2. status \in [Orders -> OrderStatus \union {"NONE"}]
      /\ payment \in [Orders -> PaymentStatus \union {"NONE"}]
  BY DEF TypeOK
<1>3. payment[o] \in PaymentStatus
  BY <1>1, OrdersHavePayments DEF CanTransition
<1>4. Agree(status[o], payment[o])
  BY DEF PaymentAgrees
<1>5. /\ Agree(status'[o], payment'[o])
      /\ payment' \in [Orders -> PaymentStatus \union {"NONE"}]
      /\ \A p \in Orders \ {o} : payment'[p] = payment[p]
  <2>1. status'[o] = to
    BY <1>1, <1>2
  <2>2. CASE payment' = payment /\ to \in AdvanceTargets \union {"CANCELLED"}
    <3>1. Agree(to, payment[o])
      BY <2>2, <1>1, <1>3, <1>4, TransitionShape DEF Agree, AdvanceTargets
    <3> QED
      BY <2>1, <2>2, <3>1, <1>2
  <2>3. ASSUME NEW s \in PaymentTransitions[payment[o]],
               s # "PENDING",
               to = OutcomeStatus[s],
               payment' = [payment EXCEPT ![o] = s]
        PROVE  /\ Agree(to, payment'[o])
               /\ payment' \in [Orders -> PaymentStatus \union {"NONE"}]
               /\ \A p \in Orders \ {o} : payment'[p] = payment[p]
    <3>1. s \in {"PAID", "FAILED", "EXPIRED", "REFUNDED"}
          /\ (s = "REFUNDED" => payment[o] = "PAID")
          /\ (s # "REFUNDED" => payment[o] = "PENDING")
      BY <2>3, <1>3 DEF PaymentTransitions, PaymentStatus
    <3>2. Agree(to, s)
      BY <3>1, <2>3, <1>1, <1>4, TransitionShape DEF Agree, OutcomeStatus
    <3> QED
      BY <3>1, <3>2, <2>3, <1>2 DEF PaymentStatus
  <2> QED
    BY <2>1, <2>2, <2>3
<1>6. ASSUME NEW p \in Orders \ {o} PROVE Agree(status'[p], payment'[p])
  BY <1>1, <1>2, <1>5 DEF PaymentAgrees
<1> QED
  BY <1>5, <1>6 DEF PaymentAgrees

\* The columns of the payment table, the clock and the sweep.
PaymentTyping ==
  /\ payment \in [Orders -> PaymentStatus \union {"NONE"}]
  /\ logged \in [Orders -> SUBSET PaymentStatus]
  /\ disputed \subseteq Orders
  /\ overdue \subseteq Orders
  /\ sweep \in [Sweepers -> [busy : BOOLEAN, due : SUBSET Orders]]

\* Every action, one by one, keeps order and payment in agreement.
LEMMA PaymentStep ==
  ASSUME TypeOK, PaymentAgrees, [Next]_vars
  PROVE  PaymentAgrees' /\ PaymentTyping'
<1> USE DEF TypeOK, PaymentTyping
<1>1. ASSUME NEW o \in Orders, NEW b \in Baskets, NEW onCart \in BOOLEAN,
             Place(o, b, onCart)
      PROVE  PaymentAgrees' /\ PaymentTyping'
  <2>1. /\ status' = [status EXCEPT ![o] = "PENDING_PAYMENT"]
        /\ payment' = [payment EXCEPT ![o] = "PENDING"]
        /\ logged' = [logged EXCEPT ![o] = {"PENDING"}]
        /\ UNCHANGED <<disputed, overdue, sweep>>
    BY <1>1 DEF Place
  <2>2. Agree("PENDING_PAYMENT", "PENDING")
    BY DEF Agree
  <2>3. PaymentAgrees'
    BY <2>1, <2>2 DEF PaymentAgrees
  <2>4. PaymentTyping'
    BY <2>1 DEF PaymentStatus
  <2> QED
    BY <2>3, <2>4
<1>2. ASSUME NEW o \in Orders, NEW to \in OrderStatus,
             to \in AdvanceTargets \union {"CANCELLED"},
             TransitionOrder(o, to, StockEffectOf(to)),
             UNCHANGED <<paymentVars, overdue, sweep>>
      PROVE  PaymentAgrees' /\ PaymentTyping'
  <2>1. payment' = payment
    BY <1>2 DEF paymentVars
  <2> QED
    BY <1>2, <2>1, MoveAgrees DEF paymentVars
<1>3. ASSUME NEW o \in Orders, BuyerCancel(o) \/ OperatorCancel(o)
      PROVE  PaymentAgrees' /\ PaymentTyping'
  <2>1. StockEffectOf("CANCELLED") = "release" /\ "CANCELLED" \in OrderStatus
    BY DEF StockEffectOf, OrderStatus
  <2> QED
    BY <1>2, <1>3, <2>1 DEF BuyerCancel, OperatorCancel
<1>4. ASSUME NEW o \in Orders, NEW to \in OrderStatus, Advance(o, to)
      PROVE  PaymentAgrees' /\ PaymentTyping'
  BY <1>2, <1>4 DEF Advance
<1>5. ASSUME NEW o \in Orders, NEW s \in PaymentStatus, Settle(o, s)
      PROVE  /\ PaymentAgrees'
             /\ payment' \in [Orders -> PaymentStatus \union {"NONE"}]
             /\ logged' \in [Orders -> SUBSET PaymentStatus]
             /\ disputed' = disputed
  <2>1. /\ logged' = [logged EXCEPT ![o] = @ \union {s}]
        /\ disputed' = disputed
    BY <1>5 DEF Settle
  <2>2. CASE UNCHANGED <<stock, ledger, sold, orderVars, voucherVars, payment>>
    BY <2>1, <2>2 DEF PaymentAgrees, orderVars
  <2>3. CASE /\ s \in PaymentTransitions[payment[o]]
             /\ s # "PENDING"
             /\ TransitionOrder(o, OutcomeStatus[s], StockEffectOf(OutcomeStatus[s]))
             /\ payment' = [payment EXCEPT ![o] = s]
    <3>1. OutcomeStatus[s] \in OrderStatus
      BY <2>3, OutcomesMatchEffects
    <3>2. PaymentAgrees' /\ payment' \in [Orders -> PaymentStatus \union {"NONE"}]
      BY <2>3, <3>1, MoveAgrees
    <3> QED
      BY <2>1, <3>2
  <2> QED
    BY <1>5, <2>2, <2>3, SettleShape
<1>6. ASSUME NEW o \in Orders, NEW s \in PaymentStatus,
             Callback(o, s) \/ OperatorSettle(o, s)
      PROVE  PaymentAgrees' /\ PaymentTyping'
  <2>1. UNCHANGED <<overdue, sweep>>
    BY <1>6 DEF Callback, OperatorSettle
  <2>2. CASE Settle(o, s)
    BY <2>1, <2>2, <1>5
  <2>3. CASE /\ disputed' = disputed \union {o}
             /\ UNCHANGED <<stock, ledger, sold, orderVars, voucherVars, payment, logged>>
    BY <2>1, <2>3 DEF PaymentAgrees, orderVars
  <2> QED
    BY <1>6, <2>2, <2>3 DEF Callback, OperatorSettle
<1>7. ASSUME NEW o \in Orders, PaymentWindowCloses(o)
      PROVE  PaymentAgrees' /\ PaymentTyping'
  BY <1>7 DEF PaymentWindowCloses, PaymentAgrees, orderVars, paymentVars
<1>8. ASSUME NEW w \in Sweepers, StartSweep(w)
      PROVE  PaymentAgrees' /\ PaymentTyping'
  BY <1>8 DEF StartSweep, OldestDue, Due, PaymentAgrees, orderVars, paymentVars
<1>9. ASSUME NEW w \in Sweepers, SweepNext(w)
      PROVE  PaymentAgrees' /\ PaymentTyping'
  <2>1. PICK o \in sweep[w].due :
          /\ \/ Settle(o, "EXPIRED")
             \/ UNCHANGED <<stock, ledger, sold, orderVars, voucherVars, paymentVars>>
          /\ sweep' = [sweep EXCEPT ![w].due = @ \ {o}]
          /\ UNCHANGED overdue
    BY <1>9 DEF SweepNext
  <2>2. o \in Orders /\ "EXPIRED" \in PaymentStatus
    BY DEF PaymentStatus
  <2>3. sweep' \in [Sweepers -> [busy : BOOLEAN, due : SUBSET Orders]]
    BY <2>1
  <2>4. CASE Settle(o, "EXPIRED")
    BY <2>1, <2>2, <2>3, <2>4, <1>5
  <2>5. CASE UNCHANGED <<stock, ledger, sold, orderVars, voucherVars, paymentVars>>
    BY <2>1, <2>3, <2>5 DEF PaymentAgrees, orderVars, paymentVars
  <2> QED
    BY <2>1, <2>4, <2>5
<1>10. ASSUME NEW w \in Sweepers, EndSweep(w) \/ Restart(w)
       PROVE  PaymentAgrees' /\ PaymentTyping'
  <2>1. /\ sweep' = [sweep EXCEPT ![w] = Idle]
        /\ UNCHANGED <<orderVars, paymentVars, overdue>>
    BY <1>10 DEF EndSweep, Restart
  <2>2. Idle \in [busy : BOOLEAN, due : SUBSET Orders]
    BY DEF Idle
  <2>3. sweep' \in [Sweepers -> [busy : BOOLEAN, due : SUBSET Orders]]
    BY <2>1, <2>2
  <2> QED
    BY <2>1, <2>3 DEF PaymentAgrees, orderVars, paymentVars
<1>11. ASSUME NEW v \in Variants, NEW delta \in {-1, 1}, Adjust(v, delta)
       PROVE  PaymentAgrees' /\ PaymentTyping'
  BY <1>11 DEF Adjust, PaymentAgrees, orderVars, paymentVars
<1>12. CASE UNCHANGED vars
  BY <1>12 DEF vars, PaymentAgrees, orderVars, paymentVars
<1> HIDE DEF TypeOK, PaymentTyping
<1> QED
  BY <1>1, <1>3, <1>4, <1>6, <1>7, <1>8, <1>9, <1>10, <1>11, <1>12 DEF Next

-----------------------------------------------------------------------------
(* The voucher's counter.                                                  *)

\* A use is counted when an order redeems it and given back when that order is
\* cancelled or expires, so the counter stays the number of redemption rows.
LEMMA VoucherStep ==
  ASSUME TypeOK, VoucherUsesCounted, StockStep
  PROVE  redeemed' \subseteq Orders /\ usedCount' \in Nat /\ VoucherUsesCounted'
<1>1. redeemed \subseteq Orders /\ status \in [Orders -> OrderStatus \union {"NONE"}]
      /\ usedCount \in Nat
  BY DEF TypeOK
<1>2. IsFiniteSet(redeemed)
  <2>1. IsFiniteSet(1..NumOrders)
    BY FS_Interval
  <2> QED
    BY <1>1, <2>1, FS_Subset DEF Orders
<1>3. /\ usedCount = Cardinality(redeemed)
      /\ usedCount <= UsageLimit
      /\ \A o \in redeemed : status[o] \notin {"NONE", "CANCELLED", "EXPIRED"}
  BY DEF VoucherUsesCounted
<1>4. ASSUME NEW o \in Orders, NEW b \in Baskets, NEW onCart \in BOOLEAN,
             Place(o, b, onCart)
      PROVE  redeemed' \subseteq Orders /\ usedCount' \in Nat /\ VoucherUsesCounted'
  <2>1. /\ status[o] = "NONE"
        /\ status' = [status EXCEPT ![o] = "PENDING_PAYMENT"]
        /\ RedeemVoucher(o, onCart)
    BY <1>4 DEF Place, Exists
  <2>2. CASE /\ usedCount < UsageLimit
             /\ redeemed' = redeemed \union {o}
             /\ usedCount' = usedCount + 1
    <3>1. Cardinality(redeemed') = usedCount'
      BY <1>2, <1>3, <2>1, <2>2, FS_AddElement
    <3> QED
      BY <1>1, <1>3, <2>1, <2>2, <3>1 DEF VoucherUsesCounted
  <2>3. CASE UNCHANGED voucherVars
    BY <1>1, <1>3, <2>1, <2>3 DEF voucherVars, VoucherUsesCounted
  <2> QED
    BY <2>1, <2>2, <2>3 DEF RedeemVoucher
<1>5. ASSUME NEW o \in Orders, NEW to \in OrderStatus,
             TransitionOrder(o, to, StockEffectOf(to))
      PROVE  redeemed' \subseteq Orders /\ usedCount' \in Nat /\ VoucherUsesCounted'
  <2>1. /\ status' = [status EXCEPT ![o] = to]
        /\ ReturnVoucher(o, StockEffectOf(to))
        /\ to # "NONE"
    BY <1>5 DEF TransitionOrder, OrderStatus
  <2>2. CASE StockEffectOf(to) = "release" /\ o \in redeemed
    <3>1. redeemed' = redeemed \ {o} /\ usedCount' = usedCount - 1
      BY <2>1, <2>2 DEF ReturnVoucher
    <3>2. Cardinality(redeemed') = usedCount' /\ Cardinality(redeemed') \in Nat
      BY <1>2, <1>3, <2>2, <3>1, FS_RemoveElement, FS_CardinalityType
    <3> QED
      BY <1>1, <1>3, <2>1, <3>1, <3>2 DEF VoucherUsesCounted
  <2>3. CASE ~(StockEffectOf(to) = "release" /\ o \in redeemed)
    <3>1. UNCHANGED <<redeemed, usedCount>>
      BY <2>1, <2>3 DEF ReturnVoucher, voucherVars
    <3>2. o \in redeemed => to \notin {"CANCELLED", "EXPIRED"}
      BY <2>3 DEF StockEffectOf
    <3> QED
      BY <1>1, <1>3, <2>1, <3>1, <3>2 DEF VoucherUsesCounted
  <2> QED
    BY <2>2, <2>3
<1>6. CASE UNCHANGED <<orderVars, voucherVars>>
  BY <1>1, <1>3, <1>6 DEF orderVars, voucherVars, VoucherUsesCounted
<1>7. ASSUME NEW v \in Variants, NEW delta \in {-1, 1}, Adjust(v, delta)
      PROVE  UNCHANGED <<orderVars, voucherVars>>
  BY <1>7 DEF Adjust
<1> QED
  BY <1>4, <1>5, <1>6, <1>7 DEF StockStep

-----------------------------------------------------------------------------
(* Types.                                                                  *)

\* The columns of the variant rows, the ledger and the order rows.
StockTyping ==
  /\ stock \in [Variants -> StockLevel]
  /\ ledger \in [Variants -> Int]
  /\ sold \in [Variants -> Nat]
  /\ status \in [Orders -> OrderStatus \union {"NONE"}]
  /\ items \in [Orders -> [Sources -> [Variants -> Nat]]]

\* What an order has on its lines of a variant is a number of units.
LEMMA QtyType ==
  ASSUME NEW b \in [Sources -> [Variants -> Nat]], NEW v \in Variants
  PROVE  /\ Qty(b, v) \in Nat
         /\ \A s \in Sources : b[s][v] \in Nat
BY DEF Qty, Sources

\* What the stock rules return for one row, counter by counter.
LEMMA Levels ==
  ASSUME NEW level \in StockLevel, NEW qty \in Nat
  PROVE  /\ Reserved(level, qty) \in StockLevel
         /\ Reserved(level, qty).onHand = level.onHand
         /\ Reserved(level, qty).reserved = level.reserved + qty
         /\ CanRelease(level, qty) =>
              /\ Released(level, qty) \in StockLevel
              /\ Released(level, qty).onHand = level.onHand
              /\ Released(level, qty).reserved = level.reserved - qty
         /\ CanConsume(level, qty) =>
              /\ Consumed(level, qty) \in StockLevel
              /\ Consumed(level, qty).onHand = level.onHand - qty
              /\ Consumed(level, qty).reserved = level.reserved - qty
BY DEF StockLevel, Reserved, CanRelease, Released, CanConsume, Consumed

\* No transaction drives a counter below zero or loses a row.
LEMMA StockTypingStep ==
  ASSUME TypeOK, StockStep
  PROVE  StockTyping'
<1>1. StockTyping
  BY DEF TypeOK, StockTyping
<1>2. ASSUME NEW o \in Orders, NEW b \in Baskets, NEW onCart \in BOOLEAN,
             Place(o, b, onCart)
      PROVE  StockTyping'
  <2>1. b \in [Sources -> [Variants -> Nat]]
    OBVIOUS
  <2>2. PICK last \in [Variants -> Sources] :
          stock' = [v \in Variants |-> Reserved(stock[v], b[last[v]][v])]
    BY <1>2 DEF Place, ReserveLines
  <2>3. stock' \in [Variants -> StockLevel]
    <3>1. ASSUME NEW v \in Variants
          PROVE  Reserved(stock[v], b[last[v]][v]) \in StockLevel
      BY <1>1, <2>1, Levels, QtyType DEF StockTyping
    <3> QED
      BY <2>2, <3>1
  <2>4. /\ status' = [status EXCEPT ![o] = "PENDING_PAYMENT"]
        /\ items' = [items EXCEPT ![o] = b]
        /\ UNCHANGED <<ledger, sold>>
    BY <1>2 DEF Place
  <2> QED
    BY <1>1, <2>1, <2>3, <2>4 DEF StockTyping, OrderStatus
<1>3. ASSUME NEW o \in Orders, NEW to \in OrderStatus,
             TransitionOrder(o, to, StockEffectOf(to))
      PROVE  StockTyping'
  <2>1. /\ CanMoveStock(o, StockEffectOf(to))
        /\ MoveStock(o, StockEffectOf(to))
        /\ status' = [status EXCEPT ![o] = to]
        /\ items' = items
    BY <1>3 DEF TransitionOrder, CanTransition
  <2>2. \A v \in Variants : Qty(items[o], v) \in Nat
    BY <1>1, QtyType DEF StockTyping
  <2>3. CASE StockEffectOf(to) = "hold"
    BY <1>1, <2>1, <2>3 DEF MoveStock, StockTyping
  <2>4. CASE StockEffectOf(to) = "release"
    <3>1. /\ stock' = [v \in Variants |-> Released(stock[v], Qty(items[o], v))]
          /\ UNCHANGED <<ledger, sold>>
          /\ \A v \in Variants : CanRelease(stock[v], Qty(items[o], v))
      BY <2>1, <2>4 DEF MoveStock, CanMoveStock
    <3>2. stock' \in [Variants -> StockLevel]
      <4>1. ASSUME NEW v \in Variants
            PROVE  Released(stock[v], Qty(items[o], v)) \in StockLevel
        BY <1>1, <2>2, <3>1, Levels DEF StockTyping
      <4> QED
        BY <3>1, <4>1
    <3> QED
      BY <1>1, <2>1, <3>1, <3>2 DEF StockTyping
  <2>5. CASE StockEffectOf(to) = "consume"
    <3>1. /\ stock' = [v \in Variants |-> Consumed(stock[v], Qty(items[o], v))]
          /\ ledger' = [v \in Variants |-> ledger[v] - Qty(items[o], v)]
          /\ sold' = [v \in Variants |-> sold[v] + Qty(items[o], v)]
          /\ \A v \in Variants : CanConsume(stock[v], Qty(items[o], v))
      BY <2>1, <2>5 DEF MoveStock, RecordFulfilment, CanMoveStock
    <3>2. stock' \in [Variants -> StockLevel]
      <4>1. ASSUME NEW v \in Variants
            PROVE  Consumed(stock[v], Qty(items[o], v)) \in StockLevel
        BY <1>1, <2>2, <3>1, Levels DEF StockTyping
      <4> QED
        BY <3>1, <4>1
    <3>3. ledger' \in [Variants -> Int] /\ sold' \in [Variants -> Nat]
      BY <1>1, <2>2, <3>1 DEF StockTyping
    <3> QED
      BY <1>1, <2>1, <3>2, <3>3 DEF StockTyping
  <2> QED
    BY <2>3, <2>4, <2>5 DEF StockEffectOf
<1>4. ASSUME NEW v \in Variants, NEW delta \in {-1, 1}, Adjust(v, delta)
      PROVE  StockTyping'
  <2>1. /\ CanAdjust(stock[v], delta)
        /\ stock' = [stock EXCEPT ![v] = Adjusted(stock[v], delta)]
        /\ ledger' = [ledger EXCEPT ![v] = ledger[v] + delta]
        /\ UNCHANGED <<sold, status, items>>
    BY <1>4 DEF Adjust, orderVars
  <2>2. Adjusted(stock[v], delta) \in StockLevel
    BY <1>1, <2>1 DEF StockTyping, StockLevel, Adjusted, CanAdjust
  <2> QED
    BY <1>1, <2>1, <2>2 DEF StockTyping
<1>5. CASE UNCHANGED <<stock, ledger, sold, orderVars, voucherVars>>
  BY <1>1, <1>5 DEF StockTyping, orderVars
<1> QED
  BY <1>2, <1>3, <1>4, <1>5 DEF StockStep

\* Types, the voucher counter and the agreement of order and payment have to be
\* shown together: the counter is a number because it counts rows, and an order
\* can only be settled because it has a payment.
Grounded == TypeOK /\ VoucherUsesCounted /\ PaymentAgrees

\* The first invariant holds at first, through every step, and so always.
LEMMA GroundedInit == Init => Grounded
<1> SUFFICES ASSUME Init PROVE Grounded
  OBVIOUS
<1>1. TypeOK
  BY DEF Init, TypeOK, StockLevel, Idle, NoLines, OrderStatus, PaymentStatus
<1>2. VoucherUsesCounted
  BY FS_EmptySet DEF Init, VoucherUsesCounted
<1>3. PaymentAgrees
  BY DEF Init, PaymentAgrees, Agree
<1> QED
  BY <1>1, <1>2, <1>3 DEF Grounded

LEMMA GroundedStep == Grounded /\ [Next]_vars => Grounded'
<1> SUFFICES ASSUME Grounded, [Next]_vars PROVE Grounded'
  OBVIOUS
<1>1. TypeOK /\ VoucherUsesCounted /\ PaymentAgrees
  BY DEF Grounded
<1>2. StockStep
  BY <1>1, StepKinds
<1>3. PaymentAgrees' /\ PaymentTyping'
  BY <1>1, PaymentStep
<1>4. redeemed' \subseteq Orders /\ usedCount' \in Nat /\ VoucherUsesCounted'
  BY <1>1, <1>2, VoucherStep
<1>5. StockTyping'
  BY <1>1, <1>2, StockTypingStep
<1> QED
  BY <1>3, <1>4, <1>5 DEF Grounded, TypeOK, PaymentTyping, StockTyping

LEMMA GroundedAlways == Spec => []Grounded
BY GroundedInit, GroundedStep, PTL DEF Spec

\* Every table row keeps the types its schema gives it, whatever the buyers,
\* operators, callbacks and sweeps do and in whatever order.
THEOREM Typing == Spec => []TypeOK
BY GroundedAlways, PTL DEF Grounded

\* used_count is the number of redemption rows and never passes the limit, and
\* an order that was cancelled or has expired keeps no use.
THEOREM VoucherUses == Spec => []VoucherUsesCounted
BY GroundedAlways, PTL DEF Grounded

\* Nothing is packed or shipped unpaid, and an order whose money was taken is
\* never cancelled or expired.
THEOREM PaymentAgreement == Spec => []PaymentAgrees
BY GroundedAlways, PTL DEF Grounded

-----------------------------------------------------------------------------
(* The shelf and its counters.                                             *)

\* The three ways a transition treats the rows of its order: it leaves them
\* alone and the order holds as much as before, it gives the units back, or it
\* ships them.
LEMMA TransitionEffect ==
  ASSUME TypeOK, NEW o \in Orders, NEW to \in OrderStatus,
         TransitionOrder(o, to, StockEffectOf(to))
  PROVE  \/ /\ UNCHANGED <<stock, ledger>>
            /\ status[o] \in Holding <=> to \in Holding
            /\ to # "SHIPPED"
         \/ /\ status[o] \in Holding /\ to \notin Holding /\ to # "SHIPPED"
            /\ \A v \in Variants : CanRelease(stock[v], Qty(items[o], v))
            /\ stock' = [v \in Variants |-> Released(stock[v], Qty(items[o], v))]
            /\ ledger' = ledger
         \/ /\ status[o] = "PACKING" /\ to = "SHIPPED"
            /\ \A v \in Variants : CanConsume(stock[v], Qty(items[o], v))
            /\ stock' = [v \in Variants |-> Consumed(stock[v], Qty(items[o], v))]
            /\ ledger' = [v \in Variants |-> ledger[v] - Qty(items[o], v)]
<1>1. /\ CanTransition(o, to, StockEffectOf(to))
      /\ CanMoveStock(o, StockEffectOf(to))
      /\ MoveStock(o, StockEffectOf(to))
  BY DEF TransitionOrder, CanTransition
<1>2. CASE to \in {"CANCELLED", "EXPIRED"}
  <2>1. StockEffectOf(to) = "release"
    BY <1>2 DEF StockEffectOf
  <2>2. status[o] = "PENDING_PAYMENT"
    BY <1>1, <1>2, TransitionShape
  <2> QED
    BY <1>1, <1>2, <2>1, <2>2 DEF CanMoveStock, MoveStock, Holding
<1>3. CASE to = "SHIPPED"
  <2>1. StockEffectOf(to) = "consume"
    BY <1>3 DEF StockEffectOf
  <2>2. status[o] = "PACKING"
    BY <1>1, <1>3, TransitionShape
  <2> QED
    BY <1>1, <1>3, <2>1, <2>2 DEF CanMoveStock, MoveStock, RecordFulfilment
<1>4. CASE to \notin {"CANCELLED", "EXPIRED", "SHIPPED"}
  <2>1. StockEffectOf(to) = "hold"
    BY <1>4 DEF StockEffectOf
  <2>2. status[o] \in Holding <=> to \in Holding
    BY <1>1, <1>4, TransitionShape DEF Holding
  <2> QED
    BY <1>1, <1>4, <2>1, <2>2 DEF MoveStock
<1> QED
  BY <1>2, <1>3, <1>4

\* A placement takes units that are available, line by line.
LEMMA PlaceEffect ==
  ASSUME TypeOK, NEW o \in Orders, NEW b \in Baskets, NEW onCart \in BOOLEAN,
         Place(o, b, onCart)
  PROVE  \E taken \in [Variants -> Nat] :
           /\ stock' = [v \in Variants |-> Reserved(stock[v], taken[v])]
           /\ \A v \in Variants : stock[v].reserved <= stock[v].onHand =>
                                    stock[v].reserved + taken[v] <= stock[v].onHand
           /\ \A v \in Variants : ~Splits(b, v) => taken[v] = Qty(b, v)
<1>1. /\ b \in [Sources -> [Variants -> Nat]]
      /\ stock \in [Variants -> StockLevel]
  BY DEF TypeOK
<1>2. PICK last \in [Variants -> Sources] :
        /\ \A v \in Variants : Qty(b, v) > 0 => b[last[v]][v] > 0
        /\ stock' = [v \in Variants |-> Reserved(stock[v], b[last[v]][v])]
  BY DEF Place, ReserveLines
<1> DEFINE taken == [v \in Variants |-> b[last[v]][v]]
<1>3. taken \in [Variants -> Nat]
  BY <1>1, <1>2
<1>4. ASSUME NEW v \in Variants, stock[v].reserved <= stock[v].onHand
      PROVE  stock[v].reserved + taken[v] <= stock[v].onHand
  <2>1. taken[v] > 0 => CanReserve(stock[v], taken[v])
    BY <1>2 DEF Place, LinesReservable
  <2>2. taken[v] \in Nat /\ stock[v].reserved \in Nat /\ stock[v].onHand \in Nat
    BY <1>1, <1>3 DEF StockLevel
  <2> HIDE DEF taken
  <2> QED
    BY <1>4, <2>1, <2>2 DEF CanReserve, Available
<1>5. ASSUME NEW v \in Variants, ~Splits(b, v)
      PROVE  taken[v] = Qty(b, v)
  <2>1. b["loose"][v] \in Nat /\ b["bundle"][v] \in Nat
    BY <1>1 DEF Sources
  <2>2. last[v] \in {"loose", "bundle"}
    BY DEF Sources
  <2>3. b["loose"][v] = 0 \/ b["bundle"][v] = 0
    BY <1>5, <2>1 DEF Splits
  <2> QED
    BY <1>2, <2>1, <2>2, <2>3 DEF Qty
<1>6. stock' = [v \in Variants |-> Reserved(stock[v], taken[v])]
  BY <1>2
<1> HIDE DEF taken
<1> QED
  BY <1>3, <1>4, <1>5, <1>6

\* No step sells a unit twice or moves one past the ledger.
LEMMA ShelfStep ==
  ASSUME TypeOK, StockStep, NoOversell, LedgerBalanced
  PROVE  NoOversell' /\ LedgerBalanced'
<1>1. /\ stock \in [Variants -> StockLevel]
      /\ ledger \in [Variants -> Int]
      /\ \A v \in Variants : stock[v].onHand \in Nat /\ stock[v].reserved \in Nat
  BY DEF TypeOK, StockLevel
<1>2. \A v \in Variants :
        stock[v].reserved <= stock[v].onHand /\ stock[v].onHand = InitialStock + ledger[v]
  BY DEF NoOversell, LedgerBalanced
<1>3. SUFFICES ASSUME NEW v \in Variants
               PROVE  /\ stock'[v].reserved <= stock'[v].onHand
                      /\ stock'[v].onHand = InitialStock + ledger'[v]
  BY DEF NoOversell, LedgerBalanced
<1>4. CASE UNCHANGED <<stock, ledger>>
  BY <1>2, <1>4
<1>5. ASSUME NEW o \in Orders, NEW b \in Baskets, NEW onCart \in BOOLEAN,
             Place(o, b, onCart)
      PROVE  /\ stock'[v].reserved <= stock'[v].onHand
             /\ stock'[v].onHand = InitialStock + ledger'[v]
  <2>1. PICK taken \in [Variants -> Nat] :
          /\ stock' = [u \in Variants |-> Reserved(stock[u], taken[u])]
          /\ stock[v].reserved + taken[v] <= stock[v].onHand
    BY <1>2, <1>5, PlaceEffect
  <2>2. ledger' = ledger
    BY <1>5 DEF Place
  <2>3. taken[v] \in Nat
    OBVIOUS
  <2>4. /\ stock'[v].onHand = stock[v].onHand
        /\ stock'[v].reserved = stock[v].reserved + taken[v]
    <3>1. stock'[v] = Reserved(stock[v], taken[v])
      BY <2>1
    <3>2. stock[v] \in StockLevel
      BY <1>1
    <3>3. /\ Reserved(stock[v], taken[v]).onHand = stock[v].onHand
          /\ Reserved(stock[v], taken[v]).reserved = stock[v].reserved + taken[v]
      BY <2>3, <3>2, Levels
    <3> QED
      BY <3>1, <3>3
  <2> QED
    BY <1>1, <1>2, <2>1, <2>2, <2>3, <2>4
<1>6. ASSUME NEW o \in Orders, NEW to \in OrderStatus,
             TransitionOrder(o, to, StockEffectOf(to))
      PROVE  /\ stock'[v].reserved <= stock'[v].onHand
             /\ stock'[v].onHand = InitialStock + ledger'[v]
  <2>1. Qty(items[o], v) \in Nat
    BY QtyType DEF TypeOK
  <2>2. CASE /\ CanRelease(stock[v], Qty(items[o], v))
             /\ stock' = [u \in Variants |-> Released(stock[u], Qty(items[o], u))]
             /\ ledger' = ledger
    <3>1. /\ stock'[v].onHand = stock[v].onHand
          /\ stock'[v].reserved = stock[v].reserved - Qty(items[o], v)
      BY <1>1, <2>1, <2>2, Levels
    <3> QED
      BY <1>1, <1>2, <2>1, <2>2, <3>1
  <2>3. CASE /\ CanConsume(stock[v], Qty(items[o], v))
             /\ stock' = [u \in Variants |-> Consumed(stock[u], Qty(items[o], u))]
             /\ ledger' = [u \in Variants |-> ledger[u] - Qty(items[o], u)]
    <3>1. /\ stock'[v].onHand = stock[v].onHand - Qty(items[o], v)
          /\ stock'[v].reserved = stock[v].reserved - Qty(items[o], v)
          /\ ledger'[v] = ledger[v] - Qty(items[o], v)
      <4>1. stock'[v] = Consumed(stock[v], Qty(items[o], v))
        BY <2>3
      <4>2. ledger'[v] = ledger[v] - Qty(items[o], v)
        BY <2>3
      <4>3. /\ Consumed(stock[v], Qty(items[o], v)).onHand = stock[v].onHand - Qty(items[o], v)
            /\ Consumed(stock[v], Qty(items[o], v)).reserved = stock[v].reserved - Qty(items[o], v)
        BY <1>1, <2>1, <2>3, Levels
      <4> QED
        BY <4>1, <4>2, <4>3
    <3> QED
      BY <1>1, <1>2, <2>1, <3>1
  <2> QED
    BY <1>4, <1>6, <2>2, <2>3, TransitionEffect
<1>7. ASSUME NEW u \in Variants, NEW delta \in {-1, 1}, Adjust(u, delta)
      PROVE  /\ stock'[v].reserved <= stock'[v].onHand
             /\ stock'[v].onHand = InitialStock + ledger'[v]
  <2>1. /\ CanAdjust(stock[u], delta)
        /\ stock' = [stock EXCEPT ![u] = Adjusted(stock[u], delta)]
        /\ ledger' = [ledger EXCEPT ![u] = ledger[u] + delta]
    BY <1>7 DEF Adjust
  <2>2. CASE v = u
    <3>1. /\ stock'[v].onHand = stock[v].onHand + delta
          /\ stock'[v].reserved = stock[v].reserved
          /\ ledger'[v] = ledger[v] + delta
      BY <1>1, <2>1, <2>2 DEF Adjusted, StockLevel
    <3> QED
      BY <1>1, <1>2, <2>1, <2>2, <3>1 DEF CanAdjust
  <2>3. CASE v # u
    BY <1>1, <1>2, <2>1, <2>3
  <2> QED
    BY <2>2, <2>3
<1> QED
  BY <1>4, <1>5, <1>6, <1>7 DEF StockStep

-----------------------------------------------------------------------------
(* stock_reserved is the sum of what the orders hold.                      *)

\* What each order holds of one variant.
Holds(v) == [o \in Orders |-> Held(o, v)]

\* What orders hold, and what was shipped of them, are quantities.
LEMMA HoldsType ==
  ASSUME TypeOK, NEW v \in Variants
  PROVE  Holds(v) \in [1..NumOrders -> Nat]
BY QtyType DEF TypeOK, Holds, Held, Orders

\* When the row of one order changes, what the others hold does not.
LEMMA HoldsMove ==
  ASSUME TypeOK, NEW v \in Variants, NEW o \in Orders,
         NEW to, NEW lines \in [Sources -> [Variants -> Nat]],
         status' = [status EXCEPT ![o] = to],
         items' = [items EXCEPT ![o] = lines]
  PROVE  Holds(v)' = [Holds(v) EXCEPT ![o] = IF to \in Holding THEN Qty(lines, v) ELSE 0]
<1>1. status'[o] = to /\ items'[o] = lines
  BY DEF TypeOK
<1>2. \A p \in Orders \ {o} : status'[p] = status[p] /\ items'[p] = items[p]
  BY DEF TypeOK
<1>3. \A p \in Orders : Held(p, v)' = IF p = o
                                     THEN IF to \in Holding THEN Qty(lines, v) ELSE 0
                                     ELSE Held(p, v)
  BY <1>1, <1>2 DEF Held, Qty
<1> QED
  BY <1>3 DEF Holds

\* The counter changes by exactly what one order's holding changes by.
LEMMA ReservedStep ==
  ASSUME TypeOK, StockStep, StockConserved
  PROVE  StockConserved'
<1> DEFINE Right(v) == IsTotal(stock[v].reserved, Holds(v), NumOrders)
<1>1. SUFFICES ASSUME NEW v \in Variants, NeverSplit(v)
               PROVE  Right(v)'
  BY DEF StockConserved, Holds, NeverSplit, Splits
<1>2. /\ Right(v)
      /\ Holds(v) \in [1..NumOrders -> Nat]
      /\ stock[v] \in StockLevel
      /\ stock[v].reserved \in Nat
  BY <1>1, HoldsType DEF StockConserved, Holds, TypeOK, StockLevel
<1>3. ASSUME NEW o \in Orders, NEW x \in Nat,
             Holds(v)' = [Holds(v) EXCEPT ![o] = x],
             stock'[v].reserved = stock[v].reserved - Holds(v)[o] + x
      PROVE  Right(v)'
  <2>1. IsTotal(stock[v].reserved - Holds(v)[o] + x,
                [Holds(v) EXCEPT ![o] = x], NumOrders)
    BY <1>2, <1>3, TotalUpdate DEF Orders
  <2> QED
    BY <1>3, <2>1
<1>4. CASE stock'[v].reserved = stock[v].reserved /\ UNCHANGED <<status, items>>
  <2>1. Holds(v)' = Holds(v)
    BY <1>4 DEF Holds, Held, Qty
  <2> QED
    BY <1>2, <1>4, <2>1
<1>5. ASSUME NEW o \in Orders, NEW b \in Baskets, NEW onCart \in BOOLEAN,
             Place(o, b, onCart)
      PROVE  Right(v)'
  <2>1. /\ status[o] = "NONE"
        /\ status' = [status EXCEPT ![o] = "PENDING_PAYMENT"]
        /\ items' = [items EXCEPT ![o] = b]
    BY <1>5 DEF Place, Exists
  <2>2. b \in [Sources -> [Variants -> Nat]] /\ Qty(b, v) \in Nat
    BY QtyType
  <2>3. Holds(v)' = [Holds(v) EXCEPT ![o] = Qty(b, v)]
    BY <2>1, <2>2, HoldsMove DEF Holding
  <2>4. Holds(v)[o] = 0
    BY <2>1 DEF Holds, Held, Holding
  <2>5. stock'[v] = Reserved(stock[v], Qty(b, v))
    <3>1. ~Splits(b, v)
      BY <1>1 DEF NeverSplit
    <3> QED
      BY <1>5, <3>1, PlaceEffect
  <2>6. stock'[v].reserved = stock[v].reserved + Qty(b, v)
    <3>1. Reserved(stock[v], Qty(b, v)).reserved = stock[v].reserved + Qty(b, v)
      BY <1>2, <2>2, Levels
    <3> QED
      BY <2>5, <3>1
  <2>7. stock'[v].reserved = stock[v].reserved - Holds(v)[o] + Qty(b, v)
    BY <1>2, <2>2, <2>4, <2>6
  <2> QED
    BY <1>3, <2>2, <2>3, <2>7
<1>6. ASSUME NEW o \in Orders, NEW to \in OrderStatus,
             TransitionOrder(o, to, StockEffectOf(to))
      PROVE  Right(v)'
  <2>1. /\ items[o] \in [Sources -> [Variants -> Nat]]
        /\ Qty(items[o], v) \in Nat
        /\ status' = [status EXCEPT ![o] = to]
        /\ items' = [items EXCEPT ![o] = items[o]]
    BY <1>6, QtyType DEF TransitionOrder, TypeOK
  <2> DEFINE left == IF to \in Holding THEN Qty(items[o], v) ELSE 0
  <2>2. /\ Holds(v)' = [Holds(v) EXCEPT ![o] = left]
        /\ left \in Nat
    BY <2>1, HoldsMove
  <2>3. Holds(v)[o] = IF status[o] \in Holding THEN Qty(items[o], v) ELSE 0
    BY DEF Holds, Held
  <2>4. stock'[v].reserved = stock[v].reserved - Holds(v)[o] + left
    <3>1. CASE UNCHANGED stock /\ (status[o] \in Holding <=> to \in Holding)
      BY <1>2, <2>1, <2>3, <3>1
    <3>2. CASE /\ status[o] \in Holding /\ to \notin Holding
               /\ stock'[v].reserved = stock[v].reserved - Qty(items[o], v)
      BY <1>2, <2>1, <2>3, <3>2
    <3>3. CASE /\ status[o] \in Holding /\ to \notin Holding
               /\ CanRelease(stock[v], Qty(items[o], v))
               /\ stock'[v] = Released(stock[v], Qty(items[o], v))
      <4>1. Released(stock[v], Qty(items[o], v)).reserved = stock[v].reserved - Qty(items[o], v)
        BY <1>2, <2>1, <3>3, Levels
      <4> QED
        BY <3>2, <3>3, <4>1
    <3>4. CASE /\ status[o] = "PACKING" /\ to = "SHIPPED"
               /\ CanConsume(stock[v], Qty(items[o], v))
               /\ stock'[v] = Consumed(stock[v], Qty(items[o], v))
      <4>1. Consumed(stock[v], Qty(items[o], v)).reserved = stock[v].reserved - Qty(items[o], v)
        BY <1>2, <2>1, <3>4, Levels
      <4> QED
        BY <3>2, <3>4, <4>1 DEF Holding
    <3> HIDE DEF left
    <3> QED
      BY <1>6, <3>1, <3>3, <3>4, TransitionEffect
  <2> HIDE DEF left
  <2> QED
    BY <1>3, <2>2, <2>4
<1>7. ASSUME NEW u \in Variants, NEW delta \in {-1, 1}, Adjust(u, delta)
      PROVE  Right(v)'
  <2>1. stock' = [stock EXCEPT ![u] = Adjusted(stock[u], delta)]
        /\ UNCHANGED <<status, items>>
    BY <1>7 DEF Adjust, orderVars
  <2>2. stock'[v].reserved = stock[v].reserved
    BY <2>1 DEF TypeOK, Adjusted, StockLevel
  <2> QED
    BY <1>4, <2>1, <2>2
<1>8. CASE UNCHANGED <<stock, ledger, sold, orderVars, voucherVars>>
  BY <1>4, <1>8 DEF orderVars
<1> QED
  BY <1>5, <1>6, <1>7, <1>8 DEF StockStep

-----------------------------------------------------------------------------
(* units_sold is the sum of what was dispatched.                           *)

\* What each order took of one variant out of the shop.
Shipments(v) == [o \in Orders |-> Shipped(o, v)]

LEMMA ShipmentsType ==
  ASSUME TypeOK, NEW v \in Variants
  PROVE  Shipments(v) \in [1..NumOrders -> Nat]
BY QtyType DEF TypeOK, Shipments, Shipped, Orders

\* A transition counts its order as sold when it dispatches it, and no order
\* counts as dispatched or stops counting by any other transition.
LEMMA SalesEffect ==
  ASSUME TypeOK, NEW o \in Orders, NEW to \in OrderStatus,
         TransitionOrder(o, to, StockEffectOf(to))
  PROVE  \/ /\ sold' = sold
            /\ status[o] \in Dispatched <=> to \in Dispatched
         \/ /\ status[o] \notin Dispatched /\ to \in Dispatched
            /\ sold' = [v \in Variants |-> sold[v] + Qty(items[o], v)]
<1>1. /\ CanTransition(o, to, StockEffectOf(to))
      /\ MoveStock(o, StockEffectOf(to))
  BY DEF TransitionOrder
<1>2. CASE to = "SHIPPED"
  <2>1. StockEffectOf(to) = "consume"
    BY <1>2 DEF StockEffectOf
  <2>2. status[o] = "PACKING"
    BY <1>1, <1>2, TransitionShape
  <2> QED
    BY <1>1, <1>2, <2>1, <2>2 DEF MoveStock, RecordFulfilment, Dispatched
<1>3. CASE to # "SHIPPED"
  <2>1. StockEffectOf(to) # "consume"
    BY <1>3 DEF StockEffectOf
  <2>2. sold' = sold
    BY <1>1, <2>1 DEF MoveStock
  <2>3. status[o] \in Dispatched <=> to \in Dispatched
    BY <1>1, <1>3, TransitionShape DEF Dispatched
  <2> QED
    BY <2>2, <2>3
<1> QED
  BY <1>2, <1>3

\* The counter grows by exactly what one dispatch takes out.
LEMMA SalesStep ==
  ASSUME TypeOK, StockStep, SalesCounted
  PROVE  SalesCounted'
<1> DEFINE Right(v) == IsTotal(sold[v], Shipments(v), NumOrders)
<1>1. SUFFICES ASSUME NEW v \in Variants PROVE Right(v)'
  BY DEF SalesCounted, Shipments
<1>2. /\ Right(v)
      /\ Shipments(v) \in [1..NumOrders -> Nat]
      /\ sold[v] \in Nat
  BY ShipmentsType DEF SalesCounted, Shipments, TypeOK
<1>3. CASE UNCHANGED sold /\ Shipments(v)' = Shipments(v)
  BY <1>2, <1>3
<1>4. ASSUME NEW o \in Orders, NEW b \in Baskets, NEW onCart \in BOOLEAN,
             Place(o, b, onCart)
      PROVE  Right(v)'
  <2>1. /\ status[o] = "NONE"
        /\ status' = [status EXCEPT ![o] = "PENDING_PAYMENT"]
        /\ items' = [items EXCEPT ![o] = b]
        /\ sold' = sold
    BY <1>4 DEF Place, Exists
  <2>2. ASSUME NEW p \in Orders PROVE Shipped(p, v)' = Shipped(p, v)
    BY <2>1 DEF TypeOK, Shipped, Dispatched, Qty
  <2>3. Shipments(v)' = Shipments(v)
    BY <2>2 DEF Shipments
  <2> QED
    BY <1>3, <2>1, <2>3
<1>5. ASSUME NEW o \in Orders, NEW to \in OrderStatus,
             TransitionOrder(o, to, StockEffectOf(to))
      PROVE  Right(v)'
  <2>1. /\ status' = [status EXCEPT ![o] = to]
        /\ items' = items
        /\ Qty(items[o], v) \in Nat
    BY <1>5, QtyType DEF TransitionOrder, TypeOK
  <2>2. /\ status'[o] = to
        /\ \A p \in Orders \ {o} : status'[p] = status[p]
    BY <2>1 DEF TypeOK
  <2>3. CASE sold' = sold /\ (status[o] \in Dispatched <=> to \in Dispatched)
    <3>1. ASSUME NEW p \in Orders PROVE Shipped(p, v)' = Shipped(p, v)
      BY <2>1, <2>2, <2>3 DEF Shipped, Qty
    <3>2. Shipments(v)' = Shipments(v)
      BY <3>1 DEF Shipments
    <3> QED
      BY <1>3, <2>3, <3>2
  <2>4. CASE /\ status[o] \notin Dispatched /\ to \in Dispatched
             /\ sold' = [u \in Variants |-> sold[u] + Qty(items[o], u)]
    <3> DEFINE more == Qty(items[o], v)
    <3>1. ASSUME NEW p \in Orders
          PROVE  Shipped(p, v)' = IF p = o THEN more ELSE Shipped(p, v)
      BY <2>1, <2>2, <2>4 DEF Shipped, Qty
    <3>2. Shipments(v)' = [Shipments(v) EXCEPT ![o] = more]
      BY <3>1 DEF Shipments
    <3>3. Shipments(v)[o] = 0
      BY <2>4 DEF Shipments, Shipped
    <3>4. IsTotal(sold[v] - Shipments(v)[o] + more, [Shipments(v) EXCEPT ![o] = more], NumOrders)
      BY <1>2, <2>1, TotalUpdate DEF Orders
    <3>5. sold'[v] = sold[v] - Shipments(v)[o] + more
      BY <1>2, <2>1, <2>4, <3>3
    <3> HIDE DEF more
    <3> QED
      BY <3>2, <3>4, <3>5
  <2> QED
    BY <1>5, <2>3, <2>4, SalesEffect
<1>6. ASSUME NEW u \in Variants, NEW delta \in {-1, 1}, Adjust(u, delta)
      PROVE  UNCHANGED <<sold, status, items>>
  BY <1>6 DEF Adjust, orderVars
<1>7. CASE UNCHANGED <<sold, status, items>>
  <2>1. Shipments(v)' = Shipments(v)
    BY <1>7 DEF Shipments, Shipped, Qty
  <2> QED
    BY <1>3, <1>7, <2>1
<1> QED
  BY <1>4, <1>5, <1>6, <1>7 DEF StockStep, orderVars

-----------------------------------------------------------------------------
(* The theorems.                                                           *)

\* The inductive invariant of the whole of OrderFlow.
IInv == Grounded /\ NoOversell /\ LedgerBalanced /\ StockConserved /\ SalesCounted

\* The second invariant holds at first, through every step, and so always.
LEMMA IInvInit == Init => IInv
<1> SUFFICES ASSUME Init PROVE IInv
  OBVIOUS
<1>1. NoOversell /\ LedgerBalanced
  BY DEF Init, NoOversell, LedgerBalanced
<1>2. ASSUME NEW v \in Variants
      PROVE  IsTotal(stock[v].reserved, Holds(v), NumOrders)
  <2>1. stock[v].reserved = 0
    BY DEF Init
  <2>2. Holds(v) = [o \in Orders |-> 0]
    BY DEF Init, Holds, Held, Holding
  <2> QED
    BY <2>1, <2>2, TotalOfNothing DEF Orders
<1>3. StockConserved
  BY <1>2 DEF StockConserved, Holds
<1>4. ASSUME NEW v \in Variants
      PROVE  IsTotal(sold[v], Shipments(v), NumOrders)
  <2>1. sold[v] = 0
    BY DEF Init
  <2>2. Shipments(v) = [o \in Orders |-> 0]
    BY DEF Init, Shipments, Shipped, Dispatched
  <2> QED
    BY <2>1, <2>2, TotalOfNothing DEF Orders
<1>5. SalesCounted
  BY <1>4 DEF SalesCounted, Shipments
<1> QED
  BY <1>1, <1>3, <1>5, GroundedInit DEF IInv

LEMMA IInvStep == IInv /\ [Next]_vars => IInv'
<1> SUFFICES ASSUME IInv, [Next]_vars PROVE IInv'
  OBVIOUS
<1>1. Grounded /\ NoOversell /\ LedgerBalanced /\ StockConserved /\ SalesCounted
  BY DEF IInv
<1>2. StockStep
  BY <1>1, StepKinds DEF Grounded
<1>3. Grounded'
  BY <1>1, GroundedStep
<1>4. NoOversell' /\ LedgerBalanced'
  BY <1>1, <1>2, ShelfStep DEF Grounded
<1>5. StockConserved'
  BY <1>1, <1>2, ReservedStep DEF Grounded
<1>6. SalesCounted'
  BY <1>1, <1>2, SalesStep DEF Grounded
<1> QED
  BY <1>3, <1>4, <1>5, <1>6 DEF IInv

LEMMA IInvAlways == Spec => []IInv
BY IInvInit, IInvStep, PTL DEF Spec

\* No interleaving of placements, cancellations, payments, sweeps, dispatches
\* and write-downs promises more units of a variant than are on the shelf.
THEOREM NeverOversold == Spec => []NoOversell
BY IInvAlways, PTL DEF IInv

\* Every unit that left or reached the shelf has its movement row.
THEOREM LedgerExplainsShelf == Spec => []LedgerBalanced
BY IInvAlways, PTL DEF IInv

\* units_sold counts every dispatched order's lines once and nothing else.
THEOREM SalesAreCounted == Spec => []SalesCounted
BY IInvAlways, PTL DEF IInv

\* stock_reserved is the sum of the lines of the orders that still hold their
\* units, for every variant no order carries twice.
THEOREM ReservedIsHeld == Spec => []StockConserved
BY IInvAlways, PTL DEF IInv

\* The corruption releaseStock and consumeStock guard against does not happen
\* to an order without split lines: its units are among the reserved ones, and
\* those are on the shelf.
THEOREM HoldsRedeemable == Spec => []HoldsAreRedeemable
<1>1. IInv => HoldsAreRedeemable
  <2> SUFFICES ASSUME IInv,
                      NEW o \in Orders, status[o] \in Holding,
                      NEW v \in Variants, NeverSplit(v)
               PROVE  /\ CanRelease(stock[v], Qty(items[o], v))
                      /\ CanConsume(stock[v], Qty(items[o], v))
    BY DEF HoldsAreRedeemable
  <2>1. TypeOK /\ NoOversell /\ StockConserved
    BY DEF IInv, Grounded
  <2>2. /\ IsTotal(stock[v].reserved, Holds(v), NumOrders)
        /\ Holds(v) \in [1..NumOrders -> Nat]
        /\ stock[v].reserved \in Nat /\ stock[v].onHand \in Nat
    BY <2>1, HoldsType DEF StockConserved, Holds, TypeOK, StockLevel
  <2>3. Holds(v)[o] <= stock[v].reserved
    BY <2>2, TotalUpdate DEF Orders
  <2>4. Holds(v)[o] = Qty(items[o], v)
    BY DEF Holds, Held
  <2>5. Qty(items[o], v) \in Nat /\ stock[v].reserved <= stock[v].onHand
    BY <2>1, QtyType DEF NoOversell, TypeOK
  <2> QED
    BY <2>2, <2>3, <2>4, <2>5 DEF CanRelease, CanConsume
<1> QED
  BY <1>1, IInvAlways, PTL

-----------------------------------------------------------------------------
(* OrderFlow implements StockPromise when no order carries a variant twice. *)

\* A step of the store is a claim, a return, a shipment or a recount of the
\* promise, or changes nothing the promise is about.
LEMMA PromiseSteps ==
  ASSUME TypeOK, StockStep
  PROVE  Promise!Step \/ UNCHANGED Promise!vars
<1>1. /\ stock \in [Variants -> StockLevel]
      /\ status \in [Orders -> OrderStatus \union {"NONE"}]
      /\ items \in [Orders -> [Sources -> [Variants -> Nat]]]
  BY DEF TypeOK
<1>2. ASSUME NEW o \in Orders, NEW b \in Baskets, NEW onCart \in BOOLEAN,
             Place(o, b, onCart)
      PROVE  Promise!Claim(o)
  <2>1. /\ status[o] = "NONE"
        /\ status' = [status EXCEPT ![o] = "PENDING_PAYMENT"]
        /\ items' = [items EXCEPT ![o] = b]
    BY <1>2 DEF Place, Exists
  <2>2. \A v \in Variants : stock'[v].onHand = stock[v].onHand
    BY <1>1, <1>2, PlaceEffect, Levels
  <2>3. [v \in Variants |-> stock[v].onHand]' = [v \in Variants |-> stock[v].onHand]
    BY <2>2
  <2>4. [p \in Orders |-> ClaimOf(status[p])]'
          = [[p \in Orders |-> ClaimOf(status[p])] EXCEPT ![o] = "open"]
    BY <1>1, <2>1 DEF ClaimOf, Holding
  <2>5. \A p \in Orders \ {o} : items'[p] = items[p]
    BY <1>1, <2>1
  <2>6. \A p \in Orders, v \in Variants : Qty(items'[p], v) \in Nat
    BY <1>1, <2>1, QtyType
  <2> QED
    BY <2>1, <2>3, <2>4, <2>5, <2>6 DEF Promise!Claim, Promise!Orders, Orders, ClaimOf, Qty
<1>3. ASSUME NEW o \in Orders, NEW to \in OrderStatus,
             TransitionOrder(o, to, StockEffectOf(to))
      PROVE  Promise!Return(o) \/ Promise!Ship(o) \/ UNCHANGED Promise!vars
  <2>1. /\ status' = [status EXCEPT ![o] = to]
        /\ items' = items
        /\ CanTransition(o, to, StockEffectOf(to))
    BY <1>3 DEF TransitionOrder
  <2>2. [p \in Orders |-> ClaimOf(status[p])]'
          = [[p \in Orders |-> ClaimOf(status[p])] EXCEPT ![o] = ClaimOf(to)]
    BY <1>1, <2>1 DEF ClaimOf
  <2>3. [p \in Orders |-> [v \in Variants |-> Qty(items[p], v)]]'
          = [p \in Orders |-> [v \in Variants |-> Qty(items[p], v)]]
    BY <2>1 DEF Qty
  <2>4. CASE to \in {"CANCELLED", "EXPIRED"}
    <3>1. status[o] = "PENDING_PAYMENT" /\ ClaimOf(to) = "returned"
      BY <2>1, <2>4, TransitionShape DEF ClaimOf, Holding
    <3>2. /\ \A v \in Variants : CanRelease(stock[v], Qty(items[o], v))
          /\ stock' = [v \in Variants |-> Released(stock[v], Qty(items[o], v))]
      BY <1>3, <2>4, <3>1, TransitionEffect DEF Holding
    <3>3. ASSUME NEW v \in Variants PROVE stock'[v].onHand = stock[v].onHand
      <4>1. stock[v] \in StockLevel
        BY DEF TypeOK
      <4>2. Released(stock[v], Qty(items[o], v)).onHand = stock[v].onHand
        BY <4>1 DEF Released, StockLevel
      <4> QED
        BY <3>2, <4>2
    <3>4. [v \in Variants |-> stock[v].onHand]' = [v \in Variants |-> stock[v].onHand]
      BY <3>3
    <3> QED
      BY <2>2, <2>3, <3>1, <3>4 DEF Promise!Return, ClaimOf, Holding
  <2>5. CASE to = "SHIPPED"
    <3>1. status[o] = "PACKING" /\ ClaimOf(to) = "shipped"
      BY <2>1, <2>5, TransitionShape DEF ClaimOf, Holding
    <3>2. /\ \A v \in Variants : CanConsume(stock[v], Qty(items[o], v))
          /\ stock' = [v \in Variants |-> Consumed(stock[v], Qty(items[o], v))]
      BY <1>3, <2>5, TransitionEffect DEF Holding
    <3>3. ASSUME NEW v \in Variants
          PROVE  stock'[v].onHand = stock[v].onHand - Qty(items[o], v)
      <4>1. Consumed(stock[v], Qty(items[o], v)).onHand = stock[v].onHand - Qty(items[o], v)
        BY DEF Consumed
      <4> QED
        BY <3>2, <4>1
    <3>4. [v \in Variants |-> stock[v].onHand]'
            = [v \in Variants |-> stock[v].onHand - Qty(items[o], v)]
      BY <3>3
    <3> QED
      BY <2>2, <2>3, <3>1, <3>4 DEF Promise!Ship, ClaimOf, Holding
  <2>6. CASE to \notin {"CANCELLED", "EXPIRED", "SHIPPED"}
    <3>1. ClaimOf(to) = ClaimOf(status[o])
      BY <2>1, <2>6, TransitionShape DEF ClaimOf, Holding
    <3>2. stock' = stock
      BY <1>3, <2>1, <2>6, <3>1, TransitionEffect, TransitionShape DEF Holding
    <3> QED
      BY <2>2, <2>3, <3>1, <3>2 DEF Promise!vars
  <2> QED
    BY <2>4, <2>5, <2>6
<1>4. ASSUME NEW u \in Variants, NEW delta \in {-1, 1}, Adjust(u, delta)
      PROVE  Promise!Recount(u)
  <2>1. /\ CanAdjust(stock[u], delta)
        /\ stock' = [stock EXCEPT ![u] = Adjusted(stock[u], delta)]
        /\ UNCHANGED <<status, items>>
    BY <1>4 DEF Adjust, orderVars
  <2>2. /\ \A v \in Variants \ {u} : stock'[v] = stock[v]
        /\ stock'[u] = Adjusted(stock[u], delta)
    BY <1>1, <2>1
  <2>3. stock'[u].onHand \in Nat
    BY <1>1, <2>1, <2>2 DEF Adjusted, CanAdjust, StockLevel
  <2>4. \A v \in Variants : stock'[v].onHand \in Nat
    BY <1>1, <2>2, <2>3 DEF StockLevel
  <2> QED
    BY <2>1, <2>2, <2>4 DEF Promise!Recount, Qty
<1>5. CASE UNCHANGED <<stock, ledger, sold, orderVars, voucherVars>>
  BY <1>5 DEF orderVars, Promise!vars, Qty
<1> QED
  BY <1>2, <1>3, <1>4, <1>5 DEF StockStep, Promise!Step, Promise!Orders, Orders

\* The shelf covers the open claims: their total is stock_reserved.
LEMMA ClaimsCovered ==
  ASSUME IInv, \A v \in Variants : NeverSplit(v)
  PROVE  \A v \in Variants : Promise!Covered(v)
<1> SUFFICES ASSUME NEW v \in Variants PROVE Promise!Covered(v)
  OBVIOUS
<1>1. TypeOK /\ NoOversell /\ StockConserved
  BY DEF IInv, Grounded
<1>2. IsTotal(stock[v].reserved, Holds(v), NumOrders)
  BY <1>1 DEF StockConserved, Holds
<1>3. stock[v].reserved \in 0..stock[v].onHand
  BY <1>1 DEF NoOversell, TypeOK, StockLevel
<1>4. Holds(v) = [o \in Promise!Orders |-> Promise!Open(o, v)]
  <2>1. ASSUME NEW o \in Orders PROVE Held(o, v) = Promise!Open(o, v)
    BY DEF Held, Promise!Open, ClaimOf, Holding
  <2> QED
    BY <2>1 DEF Holds, Promise!Orders, Orders
<1>5. Promise!IsTotal(stock[v].reserved, Holds(v), NumOrders)
  BY <1>2 DEF IsTotal, IsRunOf, Promise!IsTotal, Promise!IsRunOf
<1> QED
  BY <1>3, <1>4, <1>5 DEF Promise!Covered

\* As long as no basket has a variant on two lines, the store's counters keep
\* the promise made order by order.
THEOREM StoreKeepsPromise ==
  ASSUME \A v \in Variants : NeverSplit(v)
  PROVE  Spec => KeepsPromise
<1> DEFINE Covers == \A v \in Variants : Promise!Covered(v)
<1>1. Init => Promise!Init
  <2> SUFFICES ASSUME Init PROVE Promise!Init
    OBVIOUS
  <2>1. \A v \in Variants : stock[v].onHand = InitialStock
    BY DEF Init
  <2>2. \A o \in Orders : ClaimOf(status[o]) = "none"
    BY DEF Init, ClaimOf
  <2>3. \A o \in Orders, v \in Variants : Qty(items[o], v) = 0
    BY DEF Init, NoLines, Qty, Sources
  <2> QED
    BY <2>1, <2>2, <2>3 DEF Promise!Init, Promise!Orders, Orders
<1>2. IInv => Covers
  BY ClaimsCovered
<1>3. IInv /\ Covers' /\ [Next]_vars => [Promise!Next]_Promise!vars
  <2> SUFFICES ASSUME IInv, Covers', [Next]_vars
               PROVE  [Promise!Next]_Promise!vars
    OBVIOUS
  <2>1. Promise!Step \/ UNCHANGED Promise!vars
    BY StepKinds, PromiseSteps DEF IInv, Grounded
  <2> QED
    BY <2>1 DEF Promise!Next
<1> HIDE DEF Covers
<1> QED
  BY <1>1, <1>2, <1>3, IInvAlways, PTL DEF Spec, KeepsPromise, Promise!Spec

\* Units leave the shelf by a dispatch or a write-down: no placement, payment,
\* cancellation or expiry moves stock_on_hand.
THEOREM ShelfMoves == Spec => ShelfMovesOnlyByDispatch
<1> DEFINE Moves ==
      (\E v \in Variants : stock'[v].onHand # stock[v].onHand) =>
        \/ status' = status
        \/ \E o \in Orders : status[o] = "PACKING" /\ status'[o] = "SHIPPED"
<1>1. IInv /\ [Next]_vars => Moves
  <2> SUFFICES ASSUME IInv, [Next]_vars PROVE Moves
    OBVIOUS
  <2>1. TypeOK /\ StockStep
    BY StepKinds DEF IInv, Grounded
  <2>2. ASSUME NEW o \in Orders, NEW b \in Baskets, NEW onCart \in BOOLEAN,
               Place(o, b, onCart)
        PROVE  \A v \in Variants : stock'[v].onHand = stock[v].onHand
    BY <2>1, <2>2, PlaceEffect, Levels DEF TypeOK
  <2>3. ASSUME NEW o \in Orders, NEW to \in OrderStatus,
               TransitionOrder(o, to, StockEffectOf(to))
        PROVE  \/ \A v \in Variants : stock'[v].onHand = stock[v].onHand
               \/ status[o] = "PACKING" /\ status'[o] = "SHIPPED"
    <3>1. CASE status[o] = "PACKING" /\ to = "SHIPPED"
      BY <2>1, <2>3, <3>1 DEF TransitionOrder, TypeOK
    <3>2. CASE UNCHANGED stock
      BY <3>2
    <3>3. CASE /\ \A v \in Variants : CanRelease(stock[v], Qty(items[o], v))
               /\ stock' = [v \in Variants |-> Released(stock[v], Qty(items[o], v))]
      <4>1. ASSUME NEW v \in Variants
            PROVE  Released(stock[v], Qty(items[o], v)).onHand = stock[v].onHand
        BY <2>1, <3>3, QtyType, Levels DEF TypeOK
      <4> QED
        BY <3>3, <4>1
    <3> QED
      BY <2>1, <2>3, <3>1, <3>2, <3>3, TransitionEffect
  <2>4. ASSUME NEW v \in Variants, NEW delta \in {-1, 1}, Adjust(v, delta)
        PROVE  status' = status
    BY <2>4 DEF Adjust, orderVars
  <2> QED
    BY <2>1, <2>2, <2>3, <2>4 DEF StockStep
<1>2. IInv /\ [Next]_vars => [Moves]_vars
  BY <1>1
<1> QED
  BY <1>2, IInvAlways, PTL DEF Spec, ShelfMovesOnlyByDispatch

\* Dispatch takes exactly the units the order had reserved off both counters,
\* so what other buyers see available does not change.
THEOREM DispatchIsNeutral == Spec => DispatchKeepsAvailability
<1> DEFINE Neutral ==
      \A o \in Orders : (status[o] = "PACKING" /\ status'[o] = "SHIPPED") =>
        \A v \in Variants : Available(stock'[v]) = Available(stock[v])
<1>1. IInv /\ [Next]_vars => Neutral
  <2> SUFFICES ASSUME IInv, [Next]_vars,
                      NEW o \in Orders, status[o] = "PACKING", status'[o] = "SHIPPED",
                      NEW v \in Variants
               PROVE  Available(stock'[v]) = Available(stock[v])
    OBVIOUS
  <2>1. TypeOK /\ StockStep
    BY StepKinds DEF IInv, Grounded
  <2>2. ASSUME NEW p \in Orders, NEW b \in Baskets, NEW onCart \in BOOLEAN,
               Place(p, b, onCart)
        PROVE  FALSE
    BY <2>1, <2>2 DEF Place, Exists, TypeOK
  <2>3. ASSUME NEW p \in Orders, NEW to \in OrderStatus,
               TransitionOrder(p, to, StockEffectOf(to))
        PROVE  Available(stock'[v]) = Available(stock[v])
    <3>1. p = o /\ to = "SHIPPED"
      BY <2>1, <2>3 DEF TransitionOrder, TypeOK
    <3>2. /\ CanConsume(stock[v], Qty(items[o], v))
          /\ stock' = [u \in Variants |-> Consumed(stock[u], Qty(items[o], u))]
      BY <2>1, <2>3, <3>1, TransitionEffect
    <3>3. stock[v] \in StockLevel /\ Qty(items[o], v) \in Nat
      BY <2>1, QtyType DEF TypeOK
    <3>4. /\ stock'[v].onHand = stock[v].onHand - Qty(items[o], v)
          /\ stock'[v].reserved = stock[v].reserved - Qty(items[o], v)
      <4>1. stock'[v] = Consumed(stock[v], Qty(items[o], v))
        BY <3>2
      <4>2. /\ Consumed(stock[v], Qty(items[o], v)).onHand = stock[v].onHand - Qty(items[o], v)
            /\ Consumed(stock[v], Qty(items[o], v)).reserved = stock[v].reserved - Qty(items[o], v)
        BY <3>2, <3>3, Levels
      <4> QED
        BY <4>1, <4>2
    <3> QED
      BY <3>3, <3>4 DEF Available, StockLevel
  <2>4. ASSUME NEW u \in Variants, NEW delta \in {-1, 1}, Adjust(u, delta)
        PROVE  FALSE
    BY <2>4 DEF Adjust, orderVars
  <2>5. CASE UNCHANGED <<stock, ledger, sold, orderVars, voucherVars>>
    BY <2>5 DEF orderVars
  <2> QED
    BY <2>1, <2>2, <2>3, <2>4, <2>5 DEF StockStep
<1>2. IInv /\ [Next]_vars => [Neutral]_vars
  BY <1>1
<1> QED
  BY <1>2, IInvAlways, PTL DEF Spec, DispatchKeepsAvailability
=============================================================================
