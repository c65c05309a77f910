SPECIFICATION FairSpec
CONSTANTS
  c1 = c1
  c2 = c2
  Callers = {c1, c2}
  Conns = {k1, k2}
  None = None
  QueueSize = 1
  Cap = 1
  Turns <- MCTurns
  MaxCalls = 3
  MaxAcceptErrors = 1
  MaxLeaks = 1
INVARIANTS
  StatusIsTrue
  EveryRequestCounted
  CapHolds
PROPERTIES
  ImplementsSwitch
  NothingHangs
CHECK_DEADLOCK FALSE
