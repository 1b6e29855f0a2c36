SPECIFICATION FairSpec
CONSTANTS
  User = {u1, u2}
  Key = {k}
  MaxSockets = 3
INVARIANTS
  CountsAgree
  OneDialAtATime
PROPERTIES
  HoldersKeepSockets
  AcquireSettles
CHECK_DEADLOCK FALSE
