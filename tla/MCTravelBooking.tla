--------------------------- MODULE MCTravelBooking ---------------------------
(* Small instances of TravelBooking for TLC. *)
EXTENDS TravelBooking, TLC

CONSTANTS b1, b2

(* Two of a crash, a step given up and a reset, but not all three.         *)
FewFaults == crashes + giveUps + resets <= 2

TripsAreAlike == Permutations(Bookings)
=============================================================================
