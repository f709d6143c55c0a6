---------------------------- MODULE VoucherDesk -----------------------------
(***************************************************************************)
(* One voucher in the back office: the columns that say what it is worth   *)
(* and when, which an edit completes from the stored ones, checks as a     *)
(* whole and writes as a whole, the orders that redeem it meanwhile, and   *)
(* what an order placed with it costs.                                     *)
(***************************************************************************)
EXTENDS Desk

CONSTANTS
  Percents,       \* percentages a voucher may take off
  Amounts,        \* sums of rupiah a voucher column may hold
  Sums,           \* what the lines of an order, or its shipping, may come to
  Days,           \* instants a voucher may start or end at
  NewVouchers,    \* the vouchers operators ask for, well shaped or not
  MaxRedemptions  \* bound on how often it is redeemed

ASSUME VoucherColumns ==
  /\ Percents \subseteq 1..100
  /\ Amounts \subseteq Nat /\ Sums \subseteq Nat /\ Days \subseteq Nat
  /\ MaxRedemptions \in Nat

VARIABLES
  voucher,     \* the row's type and shape columns, None once it is deleted
  redemptions  \* voucher_redemption rows

voucherVars == <<voucher, redemptions>>

Percentage == Percents \union {None}
Rupiah == Amounts \union {None}
VoucherShape ==
  [type : {"PERCENTAGE", "FIXED_AMOUNT", "FREE_SHIPPING"}, percentOff : Percentage,
   amountIdr : Rupiah, maxDiscountIdr : Rupiah, startsAt : Days, endsAt : Days]

\* assertVoucherShape: the columns a type needs, those it must not have, a
\* window that opens, and a cap that does not undercut the amount.
WellShaped(v) ==
  /\ v.type = "PERCENTAGE" => v.percentOff # None /\ v.amountIdr = None
  /\ v.type = "FIXED_AMOUNT" => v.amountIdr # None /\ v.percentOff = None
  /\ v.type = "FREE_SHIPPING" => v.percentOff = None
  /\ v.endsAt > v.startsAt
  /\ v.type = "FIXED_AMOUNT" /\ v.maxDiscountIdr # None => v.maxDiscountIdr >= v.amountIdr

ASSUME NewVouchersAssumption == NewVouchers \subseteq VoucherShape

NoVoucher == voucher = None /\ redemptions = 0

VoucherInit ==
  /\ voucher \in {v \in NewVouchers : WellShaped(v)}
  /\ redemptions = 0

-----------------------------------------------------------------------------
\* A partial update is resolved against what is stored.
Merged(row, change) ==
  [f \in DOMAIN row |-> IF f \in DOMAIN change THEN change[f] ELSE row[f]]

CheckNewVoucher(r, v) ==
  /\ voucher = None
  /\ WellShaped(v)
  /\ Begin(r, "newvoucher", "voucher", v, None)
  /\ UNCHANGED voucherVars

\* The unique index on the code refuses a second voucher of that code.
CreateVoucher(r) ==
  /\ At(r, "newvoucher", "checked")
  /\ voucher' = IF voucher = None THEN req[r].arg ELSE voucher
  /\ Ends(r)
  /\ UNCHANGED redemptions

CheckVoucher(r, change) ==
  /\ voucher # None
  /\ WellShaped(Merged(voucher, change))
  /\ Begin(r, "voucher", "voucher", Merged(voucher, change), change)
  /\ UNCHANGED voucherVars

\* Mutant of UpdateVoucher: writes the columns that were sent, no others.
UpdateVoucherAsSent(r) ==
  /\ At(r, "voucher", "checked")
  /\ voucher' = IF voucher = None THEN None ELSE Merged(voucher, req[r].saw)
  /\ Ends(r)
  /\ UNCHANGED redemptions

\* Every shape column is written, the ones the edit did not name with the
\* values they had when it was checked.
UpdateVoucher(r) ==
  /\ At(r, "voucher", "checked")
  /\ voucher' = IF voucher = None THEN None ELSE req[r].arg
  /\ Ends(r)
  /\ UNCHANGED redemptions

CheckRemoveVoucher(r) ==
  /\ voucher # None
  /\ redemptions = 0
  /\ Begin(r, "unvoucher", "voucher", None, None)
  /\ UNCHANGED voucherVars

\* The redemption rows' foreign key refuses the deletion if an order has
\* redeemed the voucher since.
RemoveVoucher(r) ==
  /\ At(r, "unvoucher", "checked")
  /\ voucher' = IF redemptions > 0 THEN voucher ELSE None
  /\ Ends(r)
  /\ UNCHANGED redemptions

\* An order is placed with the voucher.
Redeem ==
  /\ voucher # None
  /\ redemptions < MaxRedemptions
  /\ redemptions' = redemptions + 1
  /\ UNCHANGED <<voucher, deskVars>>

-----------------------------------------------------------------------------
\* The storefront's own check of the shape.
IsWellFormed(v) ==
  /\ v.type = "PERCENTAGE" => v.percentOff # None /\ v.percentOff \in 1..100
  /\ v.type = "FIXED_AMOUNT" => v.amountIdr # None /\ v.amountIdr > 0

\* Whether the voucher applies to an order placed on a day.
Applies(v, now) == IsWellFormed(v) /\ v.startsAt <= now /\ now < v.endsAt

\* The caps a column may set: a null column sets none.
Caps(columns) == columns \ {None}

\* Mutant of DiscountFor: the waiver of shipping is not capped.
DiscountForUncapped(v, eligible, shipping) ==
  IF v.type = "FREE_SHIPPING" THEN shipping
  ELSE IF v.type = "FIXED_AMOUNT" THEN Min({v.amountIdr, eligible})
  ELSE Min({(eligible * v.percentOff) \div 100, eligible} \union Caps({v.maxDiscountIdr}))

\* The amount off, of the lines in the voucher's scope or of the shipping.
DiscountFor(v, eligible, shipping) ==
  CASE v.type = "PERCENTAGE" ->
         Min({(eligible * v.percentOff) \div 100, eligible} \union Caps({v.maxDiscountIdr}))
    [] v.type = "FIXED_AMOUNT" -> Min({v.amountIdr, eligible})
    [] v.type = "FREE_SHIPPING" ->
         Min({shipping} \union Caps({v.amountIdr, v.maxDiscountIdr}))

\* What an order of these lines, some of them in the voucher's scope, is
\* charged with the voucher.
PriceOrder(v, subtotal, eligible, shipping, now) ==
  LET discount == IF Applies(v, now) THEN DiscountFor(v, eligible, shipping) ELSE 0
      taken == Min({discount, subtotal + shipping})
  IN  [discount |-> taken, total |-> subtotal - taken + shipping]

-----------------------------------------------------------------------------
\* A voucher keeps what its columns promise, also when two operators change
\* columns that only make sense together: there is a day it applies on, unless
\* it is worth no rupiah at all, and whatever the order, it takes off no more
\* than either column allows, nor more than what it discounts.
VoucherKeepsItsWord ==
  voucher # None =>
    /\ voucher.amountIdr # 0 => \E now \in Days : Applies(voucher, now)
    /\ \A now \in Days, subtotal, shipping \in Sums :
         \A eligible \in {e \in Sums : e <= subtotal} :
           LET p == PriceOrder(voucher, subtotal, eligible, shipping, now)
               discounted == IF voucher.type = "FREE_SHIPPING" THEN shipping ELSE eligible
           IN  /\ p.discount \in 0..discounted
               /\ \A c \in Caps({voucher.amountIdr, voucher.maxDiscountIdr}) : p.discount <= c
               /\ voucher.percentOff # None =>
                    100 * p.discount <= voucher.percentOff * eligible
=============================================================================
