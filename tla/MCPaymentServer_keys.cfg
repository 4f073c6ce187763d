SPECIFICATION ServerSpec
CONSTANTS
  Slots = {w1, w2}
  Keys = {k1}
  NoKey = NoKey
  Tokens = {t1, NoToken}
  NoToken = NoToken
  Registered = {t1}
  Amounts = {0, 1}
  MaxProcessed = 3
  MaxCount = 1
  Requests = {"malformed"}
INVARIANTS
  LockMeansProcessing OkMeansPaid RepetitionsPayOnce
SYMMETRY MCSymmetry
CHECK_DEADLOCK FALSE
