SPECIFICATION FairSpec
CONSTANTS
  Variants = {v1, v2}
  v1 = v1
  v2 = v2
  NumOrders = 3
  InitialStock = 1
  MaxStock = 1
  UsageLimit = 0
  Sweepers = {w1}
  Batch = 2
  Baskets <- SoundOrSplit
PROPERTY UnpaidOrdersClose
