SPECIFICATION FairSpec
CONSTANTS
  o1 = o1
  o2 = o2
  c1 = c1
  c2 = c2
  Orders = {o1, o2}
  Runs <- Deliveries
  Refusable <- Doubtful
  MaxAttempts = 2
  MaxFaults = 1
  MaxExpiries = 1
  LaterEvents = {"order.shipped"}
  MaxEvents = 2
CHECK_DEADLOCK FALSE
INVARIANTS
  
  CachedIsCommitted
PROPERTIES
  ImplementsRegister
  CommittedIsAnswered
