SPECIFICATION Spec
CONSTANTS
  b1 = b1
  b2 = b2
  Bookings = {b1, b2}
  Seats = 1
  Rooms = 2
  HoldAttempts = 2
  MaxCrashes = 1
  MaxGiveUps = 0
  MaxResets = 0
CHECK_DEADLOCK FALSE
INVARIANT FailedTripIsUndone
