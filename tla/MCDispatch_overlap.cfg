SPECIFICATION Spec
CONSTANTS
  u1 = u1
  u2 = u2
  c1 = c1
  c2 = c2
  k1 = k1
  k2 = k2
  Users = {u1}
  Chairs = {c1}
  NoChair = NoChair
  BlankChair = BlankChair
  UserConns = {k1, k2}
  ChairConns = {1}
  Matchers = {1}
  CouponLists <- MCThreeCoupons
  Distances = {40}
  Evaluations = {4, 5}
  MaxTries = 1
  MaxAttempts = 2
  MaxRides = 2
  MaxStatuses = 7
  MaxPayments = 2
  Env = {"abort", "gateway", "db_error"}
INVARIANTS
  QuoteHonoured PaidAsOftenAsCompleted OneCouponPerRide NoStateSkipped
PROPERTIES
  EstimateHonoured CompletedAgainByNewMark
SYMMETRY MCConnections
