------------------------- MODULE MCOrdersProjection -------------------------
(* Small instances of OrdersProjection for TLC. *)
EXTENDS WebApp

(* Everything but order.placed, which only a stream carries and no driver  *)
(* emits again.                                                            *)
Repeatable == FactNames \ {"order.placed"}
=============================================================================
