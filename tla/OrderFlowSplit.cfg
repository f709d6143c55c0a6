SPECIFICATION FairSpec
CONSTANTS
  Variants = {v1}
  v1 = v1
  v2 = v2
  NumOrders = 1
  InitialStock = 2
  MaxStock = 2
  UsageLimit = 0
  Sweepers = {w1}
  Batch = 1
  Baskets <- SplitBaskets
PROPERTY EveryUnpaidOrderCloses
