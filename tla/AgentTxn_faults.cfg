SPECIFICATION Spec
CONSTANTS
  N = 2
  Contents = {a, b}
  Absent = Absent
  Sessions = {s1, s2}
  None = None
  Edited = Edited
  FaultAt = {"backup", "abandon", "journal", "apply", "confirm", "commit", "clear", "drop", "rollback"}
  MaxTxns = 1
  MaxFaults = 2
  MaxCrashes = 2
  MaxEdits = 2
  MaxRespawns = 1
SYMMETRY Symmetry
INVARIANTS
  NamedBackupsExist
  RepliesAreTrue
PROPERTIES
  KeepsForeignEdits
CHECK_DEADLOCK FALSE
