SPECIFICATION Spec
CONSTANTS
  None = None
  Requests = {q1, q2}
  Variants = {v1}
  Prices = {1, 2}
  Images = {i1}
  Tools = {t1}
  Categories = {c1, c2, c3}
  CategoryTypes = {kits}
  InUse = {}
  Times = {1, 2}
  Pictures = {p1}
  Percents = {50}
  Amounts = {1, 2}
  Sums = {0, 1}
  Days = {1, 2, 3}
  NewVouchers <- AskedFor
  MaxRedemptions = 1
CHECK_DEADLOCK FALSE
INVARIANT NoCycle
