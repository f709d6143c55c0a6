----------------------------- MODULE OrderRules -----------------------------
(***************************************************************************)
(* The two lifecycles of the store and the join between them: which order  *)
(* status may follow which, which payment status may follow which, what an *)
(* order status costs when it is reached, and what a payment status means  *)
(* for its order.  Tables only; the modules that move orders and payments  *)
(* ask them and nothing else.                                              *)
(***************************************************************************)

OrderStatus == {"PENDING_PAYMENT", "PAID", "PACKING", "SHIPPED", "DELIVERED",
                "COMPLETED", "CANCELLED", "EXPIRED", "REFUNDED"}

PaymentStatus == {"PENDING", "PAID", "FAILED", "EXPIRED", "REFUNDED"}

\* ORDER_TRANSITIONS: terminal statuses map to the empty set.
OrderTransitions ==
  [PENDING_PAYMENT |-> {"PAID", "CANCELLED", "EXPIRED"},
   PAID            |-> {"PACKING"},
   PACKING         |-> {"SHIPPED"},
   SHIPPED         |-> {"DELIVERED"},
   DELIVERED       |-> {"COMPLETED", "REFUNDED"},
   COMPLETED       |-> {},
   CANCELLED       |-> {},
   EXPIRED         |-> {},
   REFUNDED        |-> {}]

\* PAYMENT_TRANSITIONS: a failed charge has no way back to PENDING.
PaymentTransitions ==
  [PENDING  |-> {"PAID", "FAILED", "EXPIRED"},
   PAID     |-> {"REFUNDED"},
   FAILED   |-> {},
   EXPIRED  |-> {},
   REFUNDED |-> {}]

StockEffects == {"hold", "release", "consume"}

\* FULFILMENT_EFFECTS, the stock column: what reaching a status does to the
\* units the order reserved.
StockEffectOf(to) ==
  IF to = "SHIPPED" THEN "consume"
  ELSE IF to \in {"CANCELLED", "EXPIRED"} THEN "release"
  ELSE "hold"

\* FULFILMENT_EFFECTS, the operatorPath column: the statuses the generic
\* "advance" route will set.  REFUNDED is one of them.
AdvanceTargets == {"PACKING", "SHIPPED", "DELIVERED", "COMPLETED", "REFUNDED"}

\* OUTCOMES: the order status a payment status implies.  PENDING implies none.
OutcomeStatus ==
  [PAID     |-> "PAID",
   FAILED   |-> "CANCELLED",
   EXPIRED  |-> "EXPIRED",
   REFUNDED |-> "REFUNDED"]

\* An abandoned order gives back what it held; any other outcome leaves the
\* reservation alone, so a payment never dispatches goods.
OutcomeStockEffect(p) == IF p \in {"FAILED", "EXPIRED"} THEN "release" ELSE "hold"

\* The statuses in which an order holds its units: placed and not yet
\* dispatched or given back.
Holding == {"PENDING_PAYMENT", "PAID", "PACKING"}
=============================================================================
