---------------------------- MODULE OrderRegister ----------------------------
(***************************************************************************)
(* What the place-order command of the CQRS example promises               *)
(* (examples/cqrs-order, README.md "Command crash recovery"): an order is  *)
(* placed by one command, and a delivery of a command succeeds only if     *)
(* that command is the one.                                                *)
(***************************************************************************)
CONSTANTS Orders, Runs   \* a run is <<command id, order, copy>>

VARIABLES
  placedBy,   \* the command that placed an order, "none" before
  answered    \* the runs that have reported success

Init ==
  /\ placedBy = [o \in Orders |-> "none"]
  /\ answered = {}

(* The decision: placeOrder on a stream without events.                    *)
Place(r) ==
  /\ placedBy[r[2]] = "none"
  /\ placedBy' = [placedBy EXCEPT ![r[2]] = r[1]]
  /\ UNCHANGED answered

(* The answer: its receipt is on the stream.                               *)
Answer(r) ==
  /\ placedBy[r[2]] = r[1]
  /\ answered' = answered \cup {r}
  /\ UNCHANGED placedBy

Next == \E r \in Runs : Place(r) \/ Answer(r)

Spec == Init /\ [][Next]_<<placedBy, answered>>
=============================================================================
