------------------------------ MODULE Payments ------------------------------
(***************************************************************************)
(* The Payments context of the reference application                       *)
(* (examples/reference-app/services/payments-node): one durable function,  *)
(* started by order.released, that authorizes at the gateway, records the  *)
(* outcome on the payment stream, and captures.                            *)
(*                                                                         *)
(* Each of the two steps reads the stream, asks the domain whether it may  *)
(* call the gateway, calls it, reads the stream again, and appends.  Every *)
(* await lets another run of the same order, or a crash, come in between.  *)
(* The gateway's ledger is a local database and outlives the worker.       *)
(***************************************************************************)
EXTENDS Integers, Sequences, FiniteSets, SequencesExt

CONSTANTS
  Orders,
  Copies,       \* deliveries of each order.released
  MaxAttempts,  \* executions of a step before the engine fails the run
  MaxFaults     \* bound on worker crashes and transport errors together

ASSUME BoundsAssumption ==
  Copies \subseteq Nat /\ {MaxAttempts, MaxFaults} \subseteq Nat

Runs == Orders \X Copies
OrderOf(r) == r[1]

Tokens == {"pm_success", "pm_decline", "pm_crash", "unknown"}
Ops == {"authorize", "capture"}
FactNames == {"payment.authorized", "payment.captured", "payment.declined"}

VARIABLES
  released,    \* the token order.released carries, "none" before it is released
  pay,         \* pay[o]: the fact names on payment-{o}; a fact's key is its name
  calls,       \* gateway calls that had an effect, per order and operation
  dedup,       \* gateway calls answered from the ledger
  pc, op,      \* where a run is, and which of its two steps it is in
  seen,        \* the version the step read last
  result,      \* what the step returns
  tries, faults

vars == <<released, pay, calls, dedup, pc, op, seen, result, tries, faults>>

PCs == {"idle", "ready", "allowed", "answered", "decided", "written", "yield",
        "parked", "done", "failed"}

TypeOK ==
  /\ released \in [Orders -> Tokens \cup {"none"}]
  /\ pay \in [Orders -> Seq(FactNames)]
  /\ calls \in [Orders \X Ops -> Nat]
  /\ dedup \in [Orders \X Ops -> Nat]
  /\ pc \in [Runs -> PCs]
  /\ op \in [Runs -> Ops]
  /\ seen \in [Runs -> Nat]
  /\ result \in [Runs -> {"none", "authorized", "declined", "captured"}]
  /\ tries \in [Runs -> Nat]
  /\ faults \in Nat

-----------------------------------------------------------------------------
(* The domain (payment.ts).                                                *)

Has(s, name) == \E i \in DOMAIN s : s[i] = name
Attempted(s) == s # <<>>
Authorized(s) == Has(s, "payment.authorized")
Settled(s) == Has(s, "payment.captured") \/ Has(s, "payment.declined")

(* May the step still act on this stream?  "done" is a replay; "error" is  *)
(* the throw for a capture of what was never authorized.                   *)
MayAuthorize(s) == IF Attempted(s) THEN "done" ELSE "yes"
MayCapture(s) ==
  IF ~Authorized(s) THEN "error" ELSE IF Settled(s) THEN "done" ELSE "yes"

Permission(r) ==
  LET s == pay[OrderOf(r)] IN
  IF op[r] = "authorize" THEN MayAuthorize(s) ELSE MayCapture(s)

(* The recorded outcome, read back from the stream.                        *)
Replay(r) ==
  IF op[r] = "capture" THEN "captured"
  ELSE IF Authorized(pay[OrderOf(r)]) THEN "authorized" ELSE "declined"

(* The gateway's decision table (gateway.ts).                              *)
Decision(r) ==
  IF op[r] = "capture" THEN "captured"
  ELSE CASE released[OrderOf(r)] \in {"pm_success", "pm_crash"} -> "authorized"
         [] released[OrderOf(r)] = "pm_decline"                 -> "declined"
         [] released[OrderOf(r)] = "unknown"                    -> "error"

FactOf(outcome) ==
  CASE outcome = "authorized" -> "payment.authorized"
    [] outcome = "captured"   -> "payment.captured"
    [] outcome = "declined"   -> "payment.declined"

(* The engine's append: idempotency key first, then expected version.      *)
AppendAnswer(r) ==
  LET s == pay[OrderOf(r)] IN
  IF Has(s, FactOf(result[r])) THEN "original"
  ELSE IF Len(s) = seen[r] THEN "appended" ELSE "conflict"

-----------------------------------------------------------------------------
Init ==
  /\ released = [o \in Orders |-> "none"]
  /\ pay = [o \in Orders |-> <<>>]
  /\ calls = [k \in Orders \X Ops |-> 0]
  /\ dedup = [k \in Orders \X Ops |-> 0]
  /\ pc = [r \in Runs |-> "idle"]
  /\ op = [r \in Runs |-> "authorize"]
  /\ seen = [r \in Runs |-> 0]
  /\ result = [r \in Runs |-> "none"]
  /\ tries = [r \in Runs |-> 0]
  /\ faults = 0

(* Ordering releases the order; the fact carries the payment token.        *)
Release(o, t) ==
  /\ released[o] = "none"
  /\ released' = [released EXCEPT ![o] = t]
  /\ UNCHANGED <<pay, calls, dedup, pc, op, seen, result, tries, faults>>

(* One delivery of order.released starts one run.                          *)
Start(r) ==
  /\ pc[r] = "idle"
  /\ released[OrderOf(r)] # "none"
  /\ pc' = [pc EXCEPT ![r] = "ready"]
  /\ UNCHANGED <<released, pay, calls, dedup, op, seen, result, tries, faults>>

(* Mutant: one attempt fewer than the engine grants.                       *)
RetryOnceLess(r) == IF tries[r] + 2 < MaxAttempts THEN "ready" ELSE "failed"

Retry(r) == IF tries[r] + 1 < MaxAttempts THEN "ready" ELSE "failed"

(* An execution of the step throws: again from the top, or the run fails.  *)
FailedAttempt(r) ==
  /\ tries' = [tries EXCEPT ![r] = @ + 1]
  /\ pc' = [pc EXCEPT ![r] = Retry(r)]
  /\ seen' = [seen EXCEPT ![r] = 0]
  /\ result' = [result EXCEPT ![r] = "none"]
  /\ UNCHANGED <<released, pay, op>>

(* The step returns what the stream says already happened.                 *)
ReturnRecorded(r) ==
  /\ pc' = [pc EXCEPT ![r] = "written"]
  /\ result' = [result EXCEPT ![r] = Replay(r)]
  /\ UNCHANGED <<released, pay, calls, dedup, op, seen, tries, faults>>

(* Read and decide before the gateway is touched; capturing what was never *)
(* authorized is a throw.                                                  *)
AskDomain(r) ==
  /\ pc[r] = "ready"
  /\ CASE Permission(r) = "yes" ->
            /\ pc' = [pc EXCEPT ![r] = "allowed"]
            /\ UNCHANGED <<released, pay, calls, dedup, op, seen, result, tries, faults>>
       [] Permission(r) = "done" -> ReturnRecorded(r)
       [] Permission(r) = "error" -> FailedAttempt(r) /\ UNCHANGED <<calls, dedup, faults>>

(* Mutant: no lookup of earlier calls.                                     *)
LedgerBlind(k) == calls' = [calls EXCEPT ![k] = @ + 1] /\ UNCHANGED dedup

(* The ledger: a stored decision wins, and only a key it has never seen is *)
(* a real side effect.                                                     *)
Ledger(k) ==
  IF calls[k] > 0 THEN dedup' = [dedup EXCEPT ![k] = @ + 1] /\ UNCHANGED calls
  ELSE calls' = [calls EXCEPT ![k] = @ + 1] /\ UNCHANGED dedup

(* The gateway call.  A token the gateway does not know is a throw.        *)
CallGateway(r) ==
  /\ pc[r] = "allowed"
  /\ \/ /\ Decision(r) = "error"
        /\ FailedAttempt(r)
        /\ UNCHANGED <<calls, dedup, faults>>
     \/ /\ Decision(r) # "error"
        /\ Ledger(<<OrderOf(r), op[r]>>)
        /\ result' = [result EXCEPT ![r] = Decision(r)]
        /\ pc' = [pc EXCEPT ![r] = "answered"]
        /\ UNCHANGED <<released, pay, op, seen, tries, faults>>

(* Read again: the attempt may have landed while the step was at the       *)
(* gateway, and then the stream's outcome replaces the step's own.         *)
ReadAgain(r) ==
  /\ pc[r] = "answered"
  /\ CASE Permission(r) = "yes" ->
            /\ seen' = [seen EXCEPT ![r] = Len(pay[OrderOf(r)])]
            /\ pc' = [pc EXCEPT ![r] = "decided"]
            /\ UNCHANGED <<released, pay, calls, dedup, op, result, tries, faults>>
       [] Permission(r) = "done" -> ReturnRecorded(r)
       [] Permission(r) = "error" -> FailedAttempt(r) /\ UNCHANGED <<calls, dedup, faults>>

(* appendOnce: a conflict is success only if a re-read finds the fact.     *)
Appended(r) ==
  AppendAnswer(r) # "conflict" \/ Has(pay[OrderOf(r)], FactOf(result[r]))

AppendOnce(r) ==
  /\ pc[r] = "decided"
  /\ IF Appended(r)
     THEN /\ pay' = IF AppendAnswer(r) = "appended"
                    THEN [pay EXCEPT ![OrderOf(r)] = Append(@, FactOf(result[r]))] ELSE pay
          /\ pc' = [pc EXCEPT ![r] = "written"]
          /\ UNCHANGED <<released, calls, dedup, op, seen, result, tries, faults>>
     ELSE FailedAttempt(r) /\ UNCHANGED <<calls, dedup, faults>>

(* The engine records the step.  A decline ends the run; an authorization  *)
(* goes on to the capture, for pm_crash through the presenter's wait.      *)
Checkpoint(r) ==
  /\ pc[r] = "written"
  /\ IF result[r] = "authorized"
     THEN /\ op' = [op EXCEPT ![r] = "capture"]
          /\ pc' = [pc EXCEPT ![r] =
               IF released[OrderOf(r)] = "pm_crash" THEN "yield" ELSE "ready"]
          /\ result' = [result EXCEPT ![r] = "none"]
     ELSE pc' = [pc EXCEPT ![r] = "done"] /\ UNCHANGED <<op, result>>
  /\ seen' = [seen EXCEPT ![r] = 0]
  /\ tries' = [tries EXCEPT ![r] = 0]
  /\ UNCHANGED <<released, pay, calls, dedup, faults>>

EnterWait(r) ==
  /\ pc[r] = "yield"
  /\ pc' = [pc EXCEPT ![r] = "parked"]
  /\ UNCHANGED <<released, pay, calls, dedup, op, seen, result, tries, faults>>

(* demo.payment.continue wakes the runs of its order that are parked now.  *)
Continue(o) ==
  /\ \E r \in Runs : OrderOf(r) = o /\ pc[r] = "parked"
  /\ pc' = [r \in Runs |-> IF OrderOf(r) = o /\ pc[r] = "parked" THEN "ready" ELSE pc[r]]
  /\ UNCHANGED <<released, pay, calls, dedup, op, seen, result, tries, faults>>

WaitTimeout(r) ==
  /\ pc[r] = "parked"
  /\ pc' = [pc EXCEPT ![r] = "failed"]
  /\ UNCHANGED <<released, pay, calls, dedup, op, seen, result, tries, faults>>

InStep == {"allowed", "answered", "decided", "written"}

(* A read or an append fails, or an answer is lost on the way back.        *)
TransportError(r) ==
  /\ pc[r] \in InStep \cup {"ready"}
  /\ faults < MaxFaults
  /\ faults' = faults + 1
  /\ FailedAttempt(r)
  /\ UNCHANGED <<calls, dedup>>

(* The worker dies.  Streams, ledger, recorded steps and waits survive.    *)
Crash ==
  LET Lost == {r \in Runs : pc[r] \in InStep} IN
  /\ faults < MaxFaults
  /\ faults' = faults + 1
  /\ pc' = [r \in Runs |-> IF r \in Lost THEN "ready" ELSE pc[r]]
  /\ seen' = [r \in Runs |-> IF r \in Lost THEN 0 ELSE seen[r]]
  /\ result' = [r \in Runs |-> IF r \in Lost THEN "none" ELSE result[r]]
  /\ UNCHANGED <<released, pay, calls, dedup, op, tries>>

-----------------------------------------------------------------------------
Advance(r) ==
  \/ Start(r) \/ AskDomain(r) \/ CallGateway(r) \/ ReadAgain(r)
  \/ AppendOnce(r) \/ Checkpoint(r) \/ EnterWait(r) \/ WaitTimeout(r)

System ==
  \/ \E r \in Runs : Advance(r) \/ TransportError(r)
  \/ \E o \in Orders : Continue(o)
  \/ Crash

Next == System \/ \E o \in Orders, t \in Tokens : Release(o, t)

(* The engine delivers the event and executes its runs; the presenter may  *)
(* never continue, and then the wait times out.                            *)
Fairness == \A r \in Runs : WF_vars(Advance(r))

Spec == Init /\ [][Next]_vars
FairSpec == Spec /\ Fairness

-----------------------------------------------------------------------------
(* Properties *)

(* One attempt per order: the payment stream is an authorization that may  *)
(* be captured, or a decline, and never both, with duplicate deliveries    *)
(* racing each other through the gateway.                                  *)
OneAttempt ==
  \A o \in Orders :
    pay[o] \in {<<>>, <<"payment.authorized">>, <<"payment.declined">>,
                <<"payment.authorized", "payment.captured">>}

(* The card is held once and charged once, however many runs ask.          *)
OneSideEffect == \A k \in Orders \X Ops : calls[k] <= 1

(* No money moves before the hold is on the stream, and none at all after  *)
(* a decline (mayCapture, "throws before any money moves").                *)
ChargeFollowsHold ==
  \A o \in Orders : calls[<<o, "capture">>] > 0 => Authorized(pay[o])

(* What a step returns is what the stream says: a run whose stream says    *)
(* payment.declined can never walk on to a capture (authorizeStep's        *)
(* reconciliation after the gateway call).                                 *)
ResultIsRecorded ==
  \A r \in Runs :
    /\ pc[r] = "written" => Has(pay[OrderOf(r)], FactOf(result[r]))
    /\ op[r] = "capture" => Authorized(pay[OrderOf(r)])
    /\ pc[r] = "done" => Settled(pay[OrderOf(r)])

(* A version conflict never reaches appendOnce's re-read: between the      *)
(* second read and the append only the very same fact can land.            *)
NoForeignConflict ==
  \A r \in Runs : pc[r] = "decided" => AppendAnswer(r) # "conflict"

(* What is done to the card and what the stream says are the same story,   *)
(* told once, whichever runs and retries interleave.                       *)
CardFollowsStream ==
  OneSideEffect /\ OneAttempt /\ ChargeFollowsHold /\ ResultIsRecorded /\ NoForeignConflict

(* A charged card is always recorded as captured: one crash or error       *)
(* between the gateway call and the append only delays it.                 *)
ChargeIsRecorded ==
  MaxFaults < MaxAttempts =>
    \A o \in Orders :
      calls[<<o, "capture">>] > 0 ~> Has(pay[o], "payment.captured")

=============================================================================
