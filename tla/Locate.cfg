SPECIFICATION Spec
CONSTANT Clients <- MCClients
INVARIANTS
  FindsFunctions
  MissedForLikeness
  OperandsAsCompiled
CHECK_DEADLOCK FALSE
