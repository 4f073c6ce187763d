SPECIFICATION FairSpec
CONSTANTS
  u1 = u1
  u2 = u2
  c1 = c1
  c2 = c2
  k1 = k1
  k2 = k2
  Users = {u1, u2}
  Chairs = {c1}
  NoChair = NoChair
  BlankChair = BlankChair
  UserConns = {1}
  ChairConns = {1}
  Matchers = {1}
  CouponLists <- MCOneCoupon
  Distances = {40}
  Evaluations = {5}
  MaxTries = 2
  MaxAttempts = 1
  MaxRides = 2
  MaxStatuses = 7
  MaxPayments = 2
  Env = {}
PROPERTIES
  EveryRideCompletes EveryChairIsReleased
