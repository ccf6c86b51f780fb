SPECIFICATION FairSpec
CONSTANTS
  o1 = o1
  Orders = {o1}
  Copies = {1, 2}
  MaxAttempts = 3
  MaxFaults = 2
CHECK_DEADLOCK FALSE
INVARIANTS
  CardFollowsStream
PROPERTIES
  ChargeIsRecorded
