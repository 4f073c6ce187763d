SPECIFICATION FairSpec
CONSTANTS
  Users = {u1, u2, u3, u4}
  NoCode = NoCode
  Millis = {m1, m2}
  Limit = 2
  MaxErrors = 1
INVARIANTS
  TypeOK InvitationLimit RewardPerInvitation InvitedByRegistered
PROPERTIES
  EveryRegistrationEnds
CHECK_DEADLOCK FALSE
