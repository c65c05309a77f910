SPECIFICATION Spec
CONSTANTS
  N = 2
  Contents = {a, b}
  Absent = Absent
  Sessions = {s1}
  None = None
  Edited = Edited
  FaultAt = {"commit"}
  MaxTxns = 1
  MaxFaults = 1
  MaxCrashes = 1
  MaxEdits = 0
  MaxRespawns = 0
INVARIANTS
  AllOrNothing
CHECK_DEADLOCK FALSE
