----------------------------- MODULE MCOrdering -----------------------------
(* Small instances of Ordering for TLC. *)
EXTENDS Ordering

CONSTANT o1

(* Every event delivered once.                                             *)
RunsOnce == {<<f, o1, 1>> : f \in Fns}

(* The same, and a second place.order that Price refuses.                  *)
SecondPlace == {<<"place", o1, 2>>}
RunsAndRefused == RunsOnce \cup SecondPlace

(* Two place.order and two approve.order commands for the same order.      *)
RunsRepeatedCommands == RunsOnce \cup {<<f, o1, 2>> : f \in {"place", "approve"}}
=============================================================================
