SPECIFICATION Spec
CONSTANTS
  Images = {x, y}
  None = None
  Down = Down
  Missing = Missing
  Corrupt = Corrupt
  Incompatible = Incompatible
  MaxTasks = 2
  MaxConvs = 2
  MaxTurns = 2
  MaxJobs = 1
  Works <- MCWorks
  Mixes <- MCMixes
  Mix = {"drop"}
INVARIANTS
  DeletedIsGone
CHECK_DEADLOCK FALSE
