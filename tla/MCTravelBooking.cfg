SPECIFICATION Spec
CONSTANTS
  b1 = b1
  b2 = b2
  Bookings = {b1, b2}
  Seats = 1
  Rooms = 2
  HoldAttempts = 2
  MaxCrashes = 1
  MaxGiveUps = 1
  MaxResets = 1
CONSTRAINT FewFaults
SYMMETRY TripsAreAlike
CHECK_DEADLOCK FALSE
INVARIANTS
  
  ShownIsTrue
  NothingStranded
