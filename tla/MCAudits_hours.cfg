CONSTANTS
  Legs <- MCLegs
  Speeds = {2, 3}
  MaxLost = 1
  r1 = r1
  r2 = r2
  r3 = r3
  Rides = {r1, r2, r3}
  Sale <- MCSale
  Groups <- MCGroups
  MaxTime = 3
SPECIFICATION Spec
INVARIANTS TypeOK ArrivesInTime DistancesAgree PositionsKnown DistanceAuditIsFair
PROPERTIES SalesAuditIsFair
CHECK_DEADLOCK FALSE
