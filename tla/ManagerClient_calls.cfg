SPECIFICATION FairSpec
CONSTANTS
  u1 = u1
  u2 = u2
  p = p
  Users = {u1, u2}
  Poller = p
  None = None
  QueueSize = 1
  Bounds <- MCBounds
INVARIANTS
  NeverReplayed
  OwnAnswer
  ForceInIssuer
PROPERTIES
  CallsAnswered
CHECK_DEADLOCK FALSE
