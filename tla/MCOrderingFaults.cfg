SPECIFICATION FairSpec
CONSTANTS
  o1 = o1
  Orders = {o1}
  Runs <- RunsAndRefused
  ProbeOrders = {}
  Mispriced <- SecondPlace
  MaxAttempts = 2
  MaxFaults = 1
  MaxLogged = 0
CHECK_DEADLOCK FALSE
INVARIANTS
  SuccessIsRecorded
PROPERTIES
  OrdersGetThrough
