SPECIFICATION FairSpec
CONSTANTS
  None = None
  Corrupt = Corrupt
  Pids = {1, 2, 3}
  MaxBorn = 4
  Sessions = {1, 2}
  Worlds <- MCWorlds
INVARIANTS KeyOnlyToTrusted OneAttempt ForceHitsConfirmed RecordIsTrue
PROPERTIES RemovesOnlyEnded CallEnds
CHECK_DEADLOCK FALSE
