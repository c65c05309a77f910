SPECIFICATION FairSpec
CONSTANTS
  Images = {x, y}
  None = None
  Down = Down
  Missing = Missing
  Corrupt = Corrupt
  Incompatible = Incompatible
  MaxTasks = 2
  MaxConvs = 2
  MaxTurns = 2
  MaxJobs = 1
  Works <- MCWorks
  Mixes <- MCMixes
  Mix = {"delete", "drop", "refer", "again", "twice", "pick", "crash", "none", "corrupt",
         "newer", "leave", "quit", "listen", "update", "windows", "polls", "force", "exit"}
INVARIANTS
  IndexIsTrue
  UpdateSafe
  ShownIsCurrent
PROPERTIES
  QuitSafe
  EverythingEnds
CHECK_DEADLOCK FALSE
