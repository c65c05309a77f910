SPECIFICATION PlansSpec
CONSTANTS
  Configs = {"plain", "rich"}
  Rich = {"rich"}
  Tasks = {t1, t2}
  Cases <- MCCases
SYMMETRY Symmetry
INVARIANTS
  SidecarIsTrue
PROPERTIES
  UserValuesKept
  AppliedOnceAsShown
CHECK_DEADLOCK FALSE
