SPECIFICATION FairSpec
CONSTANTS
  N = 2
  MaxSerials = 2
  RootLists <- MCRootLists
  Refresh = 1
  Lifetime = 2
  Target = 0
  None = None
  Budgets <- Mixes
INVARIANTS
  RevokedStaysRefused
  DelayIsReported
PROPERTIES
  IssuerStaysRevoked
  RevocationsArrive
