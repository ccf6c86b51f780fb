SPECIFICATION Spec
CONSTANTS
  o1 = o1
  Orders = {o1}
  Runs <- RunsRepeatedCommands
  ProbeOrders = {o1}
  Mispriced = {}
  MaxAttempts = 1
  MaxFaults = 0
  MaxLogged = 1
CHECK_DEADLOCK FALSE
INVARIANTS
  LegalHistory
  OnlyProbesConflict
  
PROPERTIES
  ImplementsLifecycle
