SPECIFICATION FairSpec
CONSTANTS
  N = 2
  Contents = {a, b}
  Absent = Absent
  Sessions = {s1}
  None = None
  Edited = Edited
  FaultAt = {"backup", "abandon", "journal", "apply", "confirm", "clear", "drop"}
  MaxTxns = 2
  MaxFaults = 2
  MaxCrashes = 2
  MaxEdits = 0
  MaxRespawns = 0
PROPERTIES
  LockReleased
  ImplementsAtomicWrite
CHECK_DEADLOCK FALSE
