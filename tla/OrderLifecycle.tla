--------------------------- MODULE OrderLifecycle ---------------------------
(***************************************************************************)
(* What the reference application promises of an order: it is placed, then *)
(* approved, then released to Payments, and closes the way its one payment *)
(* went (examples/reference-app/CONTEXT-MAP.md and the Status constants of *)
(* orders-go/internal/order/model.go).                                     *)
(***************************************************************************)
CONSTANT Orders

VARIABLES
  phase,     \* the phase of each order
  payments   \* the outcome facts Payments has recorded for each order

Init ==
  /\ phase = [o \in Orders |-> "none"]
  /\ payments = [o \in Orders |-> {}]

Move(o, from, to) ==
  /\ phase[o] = from
  /\ phase' = [phase EXCEPT ![o] = to]
  /\ UNCHANGED payments

Place(o) == Move(o, "none", "pending_approval")
Approve(o) == Move(o, "pending_approval", "approved")
Release(o) == Move(o, "approved", "processing_payment")

Settle(o, n) ==
  /\ phase[o] = "processing_payment"
  /\ payments[o] = {}
  /\ payments' = [payments EXCEPT ![o] = {n}]
  /\ UNCHANGED phase

Close(o) ==
  \/ "payment.captured" \in payments[o] /\ Move(o, "processing_payment", "paid")
  \/ "payment.declined" \in payments[o] /\ Move(o, "processing_payment", "payment_failed")

Next ==
  \E o \in Orders :
    \/ Place(o) \/ Approve(o) \/ Release(o) \/ Close(o)
    \/ \E n \in {"payment.captured", "payment.declined"} : Settle(o, n)

Spec == Init /\ [][Next]_<<phase, payments>>
=============================================================================
