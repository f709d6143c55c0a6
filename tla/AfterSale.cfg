SPECIFICATION Spec
CONSTANTS
  o1 = o1
  l1 = l1
  l2 = l2
  p1 = p1
  s1 = s1
  s2 = s2
  s3 = s3
  Orders = {o1}
  LinesOf <- OrderLines
  Lines = {l1, l2}
  Products = {p1}
  ProductOf <- LineProduct
  Submissions = {s1, s2, s3}
  LinkOf <- FormLink
  RatingOf <- FormRating
  Decisions = {d1, d2}
  Requests = {q1, q2}
SYMMETRY Interchangeable
CHECK_DEADLOCK FALSE
INVARIANT TypeOK
INVARIANT MailsAreTrueAndOnce
INVARIANT ShipmentFollowsOrder
INVARIANT ReviewsFollowDelivery
INVARIANT SpentInviteHasReview
INVARIANT SettledCounters
