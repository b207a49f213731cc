SPECIFICATION FairSpec
CONSTANTS
  Unset = Unset
  Invalid = Invalid
  Clients = {c1, c2}
  MaxSelects = 2
  Burst = 2
  MaxDuplicates = 1
  Scenarios <- MCScenarios
INVARIANTS
  TypeOK
  OneChildPerSocket
  FirstAnswerIntact
  ServedAtFirstSent
  ProcessesBounded
PROPERTIES
  ClientsServedOrEnded
CHECK_DEADLOCK FALSE
