--------------------------- MODULE MCReferenceApp ---------------------------
(* Small instances of ReferenceApp for TLC. *)
EXTENDS ReferenceApp

CONSTANT o1

(* Every event delivered once, and a second place.order, mispriced.        *)
SecondPlace == {<<"place", o1, 2>>}
RunsOnce ==
  {<<f, o1, 1>> : f \in {"place", "approve", "process", "outcome"}} \cup SecondPlace
=============================================================================
