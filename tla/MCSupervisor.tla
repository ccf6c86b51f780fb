---------------------------- MODULE MCSupervisor ----------------------------
(* Small instances of Supervisor for TLC. *)
EXTENDS DataDirectory

Table == <<"engine", "orders", "payments", "web">>
=============================================================================
