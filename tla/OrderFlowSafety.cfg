SPECIFICATION Spec
CONSTANTS
  Variants = {v1, v2}
  v1 = v1
  v2 = v2
  NumOrders = 2
  InitialStock = 2
  MaxStock = 3
  UsageLimit = 1
  Sweepers = {w1}
  Batch = 1
  Baskets <- MixedBaskets
INVARIANT TypeOK
INVARIANT StockConserved
INVARIANT NoOversell
INVARIANT LedgerBalanced
INVARIANT SalesCounted
INVARIANT HoldsAreRedeemable
INVARIANT VoucherUsesCounted
INVARIANT PaymentAgrees
PROPERTY DispatchKeepsAvailability
PROPERTY KeepsPromise
