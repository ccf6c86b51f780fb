-------------------------- MODULE MCCqrsPlaceOrder --------------------------
(* A small instance of CqrsPlaceOrder for TLC. *)
EXTENDS CqrsPlaceOrder

CONSTANTS o1, o2, c1, c2

(* A command delivered twice, and one for the same order whose id is used  *)
(* again for another order, whose customer may be blocked.                 *)
Deliveries == {<<c1, o1, 1>>, <<c1, o1, 2>>, <<c2, o1, 1>>, <<c2, o2, 1>>}
Doubtful == {<<c2, o2, 1>>}
=============================================================================
