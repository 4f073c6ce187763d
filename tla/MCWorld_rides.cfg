SPECIFICATION FairSpec
CONSTANTS
  Users = {u1, u2}
  Chairs = {c1}
  NoOne = NoOne
  MaxRides = 2
  QueueCapacity = 1
  ErrorLimit = 1
  Faults <- MCFaults
  MaxFaults = 1
INVARIANTS
  TypeOK OnlyFaultsAreReported StatusesAgree
PROPERTIES
  EveryRideCompletes
