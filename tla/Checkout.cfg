SPECIFICATION FairSpec
CONSTANTS
  None = None
  r1 = r1
  r2 = r2
  r3 = r3
  r4 = r4
  r5 = r5
  r6 = r6
  b1 = b1
  b2 = b2
  k1 = k1
  k2 = k2
  l1 = l1
  l2 = l2
  l3 = l3
  l4 = l4
  Requests = {r1, r2, r3, r4, r5, r6}
  Buyers = {b1, b2}
  Keys = {k1, k2}
  Lines = {l1, l2, l3, l4}
  NumVariants = 2
  Arrivals <- Occasions
  OwnerOf <- Owner
  VariantOf <- Variant
  OnCart <- InCart
  BuyerOf <- Buyer
  KeyOf <- Key
  Confirmed <- Body
  Discounted <- Total
  OnHand = 1
  UsageLimit = 1
  PerSessionLimit = 1
CHECK_DEADLOCK FALSE
INVARIANT TypeOK
INVARIANT ReplaysFindTheirOrder
INVARIANT ReservationsAddUp
INVARIANT NoDeadlock
INVARIANT MailedOnce
INVARIANT OneOrderPerKey
INVARIANT AnsweredWithOwnOrder
INVARIANT LineOrderedOnce
INVARIANT VoucherWithinLimits
PROPERTY PlacedAtOnce
PROPERTY EveryRequestEnds
