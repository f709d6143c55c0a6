----------------------------- MODULE StockRules -----------------------------
(***************************************************************************)
(* The stock arithmetic of one product_variant row, as the pure functions  *)
(* the transactions call between locking the row and writing it back.  A   *)
(* rule that throws in the code is a Can... guard here plus the level it   *)
(* returns when it does not throw.                                         *)
(***************************************************************************)
EXTENDS Integers

\* A row's two counters; available stock is what neither has promised.
StockLevel == [onHand : Nat, reserved : Nat]

Available(level) ==
  IF level.onHand > level.reserved THEN level.onHand - level.reserved ELSE 0

CanReserve(level, qty) == qty > 0 /\ qty <= Available(level)
Reserved(level, qty) == [level EXCEPT !.reserved = @ + qty]

\* Mutant of Released: what an order gives back is put on the shelf again.
ReleasedToShelf(level, qty) ==
  [onHand |-> level.onHand + qty, reserved |-> level.reserved - qty]

\* Nothing to give back of a variant the order has no line on.
CanRelease(level, qty) == qty <= level.reserved
Released(level, qty) == [level EXCEPT !.reserved = @ - qty]

CanConsume(level, qty) == qty <= level.reserved /\ qty <= level.onHand

\* Mutant of Consumed: only the shelf is written, as before dispatch existed.
ConsumedFromShelf(level, qty) == [level EXCEPT !.onHand = @ - qty]

Consumed(level, qty) == [onHand |-> level.onHand - qty, reserved |-> level.reserved - qty]

\* Mutant of CanAdjust: a write-down may take promised units.
CanAdjustShelf(level, delta) == delta # 0 /\ level.onHand + delta >= 0

\* A write-down may not cut into units promised to placed orders.
CanAdjust(level, delta) ==
  /\ delta # 0
  /\ level.onHand + delta >= 0
  /\ level.onHand + delta >= level.reserved
Adjusted(level, delta) == [level EXCEPT !.onHand = @ + delta]
=============================================================================
