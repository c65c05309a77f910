SPECIFICATION FairSpec
CONSTANTS
  Processes = {service, admin}
  Service = service
  Devices = {d1, d2}
  None = None
  MaxRecords = 3
  Budget <- Everything
INVARIANTS
  NothingForgotten
  IssuedRightly
PROPERTIES
  DecisionsArrive
