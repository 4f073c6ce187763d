SPECIFICATION FairSpec
CONSTANTS
  t1 = t1
  Slots = {w1, w2}
  Keys = {}
  NoKey = NoKey
  Tokens = {t1}
  NoToken = NoToken
  Registered = {t1}
  Amounts = {1}
  MaxProcessed = 2
  MaxCount = 5
  Requests = {}
  Callers = {a1}
  Token <- MCToken
  RetryLimit = 5
  MaxRides = 2
  MaxLost = 2
  MaxRollbacks = 1
INVARIANTS
  TypeOK WithinContract PaidExactlyOnce NeverGivesUp
PROPERTIES
  EveryCallReturns
