SPECIFICATION Spec
CONSTANTS
  None = None
  Txns = {t1, t2, t3}
  Variants = {1, 2, 3, 4}
  ProductOf <- Products
  OnCart <- CartLines
  Jobs <- SmallJobs
  c1 = c1
  c2 = c2
  p1 = p1
  p2 = p2
  x = x
  o1 = o1
  o2 = o2
  o3 = o3
  k1 = k1
  k2 = k2
  w1 = w1
  w2 = w2
SYMMETRY Interchangeable
CHECK_DEADLOCK FALSE
INVARIANT OnlyCrossingsDeadlock
