---------------------------- MODULE ReferenceApp ----------------------------
(***************************************************************************)
(* Ordering and Payments together, as the engine connects them: every fact *)
(* one context appends to its stream is delivered to the other's functions *)
(* (examples/reference-app/CONTEXT-MAP.md).  order.released starts the     *)
(* payment run; payment.captured and payment.declined start the outcome    *)
(* run.  Neither context reads or writes the other's stream.               *)
(***************************************************************************)
EXTENDS Integers, Sequences, FiniteSets

CONSTANTS
  Orders,
  OrderRuns,      \* runs of the four Ordering functions
  ProbeOrders, Mispriced,
  PaymentCopies,  \* deliveries of each order.released
  Cards,         \* the payment tokens orders are placed with
  MaxAttempts, MaxLogged,
  MaxOrderFaults, MaxPayFaults  \* MaxFaults of each service

ASSUME CardsAssumption ==
  Cards \subseteq {"pm_success", "pm_decline", "pm_crash", "unknown"}
ASSUME OrderRunsAssumption ==
  /\ OrderRuns \subseteq {"place", "approve", "process", "outcome"} \X Orders \X (Nat \ {0})
  /\ ProbeOrders \subseteq Orders
  /\ Mispriced \subseteq {r \in OrderRuns : r[1] = "place"}
ASSUME NumbersAssumption ==
  /\ PaymentCopies \subseteq Nat
  /\ {MaxAttempts, MaxLogged, MaxOrderFaults, MaxPayFaults} \subseteq Nat

VARIABLES
  token,                                         \* token[o]: what o is to be paid with
  stream, arrived, announced, logged,            \* Ordering: what the engine keeps
  orderPc, orderSeen, event, orderResult, orderTries,
  pay, calls, dedup,                             \* Payments: stream and ledger
  payPc, op, paySeen, payResult, payTries,
  orderFaults, payFaults

orderVars == <<stream, arrived, announced, logged, orderPc, orderSeen, event,
               orderResult, orderTries, orderFaults>>
payVars == <<pay, calls, dedup, payPc, op, paySeen, payResult, payTries,
             payFaults>>
vars == <<token, orderVars, payVars>>

(* What Ordering sees of Payments: the outcome facts on the payment stream. *)
OutcomeFacts ==
  [o \in Orders |->
     {n \in {"payment.captured", "payment.declined"} : \E i \in DOMAIN pay[o] : pay[o][i] = n}]

(* Mutant: payments triggered by order.placed.                             *)
TokensOfPlaced == [o \in Orders |-> IF stream[o] # <<>> THEN token[o] ELSE "none"]

(* What Payments sees of Ordering: the token order.released carries.       *)
ReleasedTokens ==
  [o \in Orders |->
     IF \E i \in DOMAIN stream[o] : stream[o][i].name = "order.released"
     THEN token[o] ELSE "none"]

Ordering == INSTANCE Ordering WITH
  Runs <- OrderRuns, pc <- orderPc, seen <- orderSeen, result <- orderResult,
  tries <- orderTries, payments <- OutcomeFacts, faults <- orderFaults,
  MaxFaults <- MaxOrderFaults

Payments == INSTANCE Payments WITH
  Copies <- PaymentCopies, released <- ReleasedTokens, pc <- payPc, seen <- paySeen,
  result <- payResult, tries <- payTries, faults <- payFaults, MaxFaults <- MaxPayFaults

Init ==
  /\ token \in [Orders -> Cards]
  /\ stream = [o \in Orders |-> <<>>]
  /\ pay = [o \in Orders |-> <<>>]
  /\ Ordering!Init
  /\ Payments!Init

OrderingStep == UNCHANGED payVars /\ Ordering!System
PaymentsStep == UNCHANGED orderVars /\ Payments!System

Next == UNCHANGED token /\ (OrderingStep \/ PaymentsStep)

Fairness ==
  /\ \A r \in OrderRuns : WF_vars(UNCHANGED <<token, payVars>> /\ Ordering!Advance(r))
  /\ \A o \in Orders : WF_vars(UNCHANGED <<token, payVars>> /\ Ordering!ApprovedArrives(o))
  /\ \A r \in Payments!Runs : WF_vars(UNCHANGED <<token, orderVars>> /\ Payments!Advance(r))

Spec == Init /\ [][Next]_vars
FairSpec == Spec /\ Fairness

-----------------------------------------------------------------------------
(* Properties *)

(* Payments gives Ordering the environment Ordering relies on: at most one *)
(* outcome per order, and none before its release.                         *)
OrderingEnvironment == Ordering!Spec

(* Ordering gives Payments the environment Payments relies on: an order is *)
(* released once, with one token.                                          *)
PaymentsEnvironment == Payments!Spec

(* Each service is the environment the other's specification assumes, so   *)
(* what is checked of each alone holds of the two together.                *)
EachIsTheOthersEnvironment == OrderingEnvironment /\ PaymentsEnvironment

StatusOf(o) == Ordering!Status(stream[o])

(* The customer's card and the customer's order agree: an order is paid    *)
(* only if the card was charged exactly once, and an order whose payment   *)
(* failed was never charged, on any interleaving of the two services.      *)
OrderAgreesWithCard ==
  \A o \in Orders :
    /\ StatusOf(o) = "paid" => calls[<<o, "capture">>] = 1
    /\ StatusOf(o) = "payment_failed" => calls[<<o, "capture">>] = 0

(* A released order closes, the way its payment went, although a crash or  *)
(* an error hits each of the two services on the way.                      *)
ReleasedOrderCloses ==
  MaxOrderFaults < MaxAttempts /\ MaxPayFaults < MaxAttempts =>
    \A o \in Orders :
      ReleasedTokens[o] \in {"pm_success", "pm_decline"} ~>
        StatusOf(o) = IF token[o] = "pm_success" THEN "paid" ELSE "payment_failed"
=============================================================================
