SPECIFICATION FairSpec
CONSTANTS
  Clients = {a, b}
  None = None
  MaxTodo = 1
  Life = 2
  RenewBefore = 2
  Recovery = 1
  Ttl = 2
  MaxLogins = 2
  Budgets <- Mixes
INVARIANTS
  NoOrphan
  ErrorIsCurrent
PROPERTIES
  NoReturn
  OneCertificatePerGeneration
  TodosDischarged
CHECK_DEADLOCK FALSE
