SPECIFICATION Spec
CONSTANTS
  None = None
  Requests = {q1, q2, q3}
  Variants = {v1, v2}
  Prices = {1, 2}
  Images = {i1, i2, i3}
  Tools = {t1, t2}
  Categories = {c1, c2, c3}
  CategoryTypes = {kits, tools}
  InUse = {c3}
  Times = {1, 2}
  Pictures = {p1, p2, p3}
  Percents = {50, 100}
  Amounts = {0, 1, 2}
  Sums = {0, 2, 3}
  Days = {1, 2, 3}
  NewVouchers <- AskedFor
  MaxRedemptions = 1
SYMMETRY Interchangeable
CHECK_DEADLOCK FALSE
INVARIANT ProductInOrder
INVARIANT RowsHaveFiles
INVARIANT TreeInOrder
INVARIANT BannerShows
INVARIANT VoucherKeepsItsWord
