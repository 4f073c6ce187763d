SPECIFICATION ServerSpec
CONSTANTS
  Slots = {w1, w2}
  Keys = {k1}
  NoKey = NoKey
  Tokens = {t1}
  NoToken = NoToken
  Registered = {t1}
  Amounts = {1}
  MaxProcessed = 3
  MaxCount = 1
  Requests = {}
INVARIANTS
  KeyPaysOnce
SYMMETRY MCSymmetry
CHECK_DEADLOCK FALSE
