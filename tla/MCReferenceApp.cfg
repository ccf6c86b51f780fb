SPECIFICATION FairSpec
CONSTANTS
  o1 = o1
  Orders = {o1}
  OrderRuns <- RunsOnce
  ProbeOrders = {}
  Mispriced <- SecondPlace
  PaymentCopies = {1}
  Cards = {"pm_success", "pm_decline"}
  MaxAttempts = 2
  MaxOrderFaults = 0
  MaxPayFaults = 1
  MaxLogged = 0
CHECK_DEADLOCK FALSE
INVARIANTS
  OrderAgreesWithCard
PROPERTIES
  EachIsTheOthersEnvironment
  
