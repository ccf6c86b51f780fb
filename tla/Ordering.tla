------------------------------ MODULE Ordering ------------------------------
(***************************************************************************)
(* The Ordering context of the reference application                       *)
(* (examples/reference-app/services/orders-go): four durable functions     *)
(* that write one event stream per order.                                  *)
(*                                                                         *)
(* A run is one execution of a function for one delivered event.  Delivery *)
(* is at least once, so several runs of one function may exist for one     *)
(* order and interleave.  Inside a run, a step reads the stream, decides,  *)
(* and appends; the engine then records ("memoizes") the step's result.    *)
(* Everything between two records is executed again after a crash.         *)
(*                                                                         *)
(* The engine is not in the repository.  What is modelled of it is what    *)
(* the code relies on: an append looks its idempotency key up first and    *)
(* answers with the original fact if it finds it, and only then compares   *)
(* the expected version (cmd/orders/approval_conflict_probe.go:3-8,60-64); *)
(* a wait is woken only by an event that arrives while it is parked        *)
(* (CONTEXT.md, "A race a scripted driver can hit").                       *)
(***************************************************************************)
EXTENDS Integers, Sequences, FiniteSets

CONSTANTS
  Orders,       \* order ids
  Runs,         \* the runs that may be started: <<function, order, copy>>
  ProbeOrders,  \* orders whose approvals the load probe makes collide
  Mispriced,    \* place.order commands that Price refuses
  MaxAttempts,  \* executions of a step before the engine fails the run
  MaxFaults,    \* bound on worker crashes and transport errors together
  MaxLogged     \* bound on publishes that fail

Fns == {"place", "approve", "process", "outcome"}

ASSUME RunsAssumption ==
  /\ Runs \subseteq Fns \X Orders \X (Nat \ {0})
  /\ ProbeOrders \subseteq Orders
  /\ Mispriced \subseteq {r \in Runs : r[1] = "place"}
ASSUME BoundsAssumption == {MaxAttempts, MaxFaults, MaxLogged} \subseteq Nat

FactNames == {"order.placed", "order.approved", "order.released",
              "order.paid", "order.payment_failed"}
PaymentNames == {"payment.captured", "payment.declined"}
Statuses == {"pending_approval", "processing_payment", "paid", "payment_failed"}

Fn(r) == r[1]
OrderOf(r) == r[2]

(* The load probe decorates the approvals of some orders.                  *)
IsTarget(r) == Fn(r) = "approve" /\ OrderOf(r) \in ProbeOrders

(* Mutant: every run brings a key of its own.                             *)
KeyPerRun(r) == <<Fn(r), r[3]>>

(* The key of an append: derived from the operation and the order; the     *)
(* probe adds the command's own event id.                                  *)
IdempotencyKey(r) == <<Fn(r), IF IsTarget(r) THEN r[3] ELSE 0>>
Keys == Fns \X Nat

Fact == [name: FactNames, key: Keys, by: Runs]
Message == [order: Orders, status: Statuses, to: Runs]

VARIABLES
  stream,     \* stream[o]: the facts on order-{o}, in order
  pc,         \* where run r is
  seen,       \* the stream version run r's step has read
  event,      \* the payment event that triggered an outcome run
  result,     \* the step's result: {} when Skipped, else the one message to publish
  tries,      \* executions of run r's step that ended in an error
  arrived,    \* orders whose order.approved the engine has matched against waits
  announced,  \* messages published on notifications.order-status
  logged,     \* messages whose publish failed, in the service's log
  payments,   \* payments[o]: outcome facts on payment-{o} (written by Payments)
  faults      \* worker crashes and transport errors so far

vars == <<stream, pc, seen, event, result, tries, arrived, announced, logged,
          payments, faults>>

PCs == {"idle", "ready", "parked", "woken", "decided", "written",
        "recorded", "announced", "done", "failed"}

TypeOK ==
  /\ stream \in [Orders -> Seq(Fact)]
  /\ pc \in [Runs -> PCs]
  /\ seen \in [Runs -> Nat]
  /\ event \in [Runs -> PaymentNames \cup {"none"}]
  /\ result \in [Runs -> SUBSET Message]
  /\ tries \in [Runs -> Nat]
  /\ arrived \in SUBSET Orders
  /\ announced \in SUBSET Message
  /\ logged \in SUBSET Message
  /\ payments \in [Orders -> SUBSET PaymentNames]
  /\ faults \in Nat

-----------------------------------------------------------------------------
(* The domain (model.go): folding a stream, and what it allows.            *)

Has(s, name) == \E i \in DOMAIN s : s[i].name = name

StatusOf == [n \in FactNames \ {"order.approved"} |->
               CASE n = "order.placed"         -> "pending_approval"
                 [] n = "order.released"       -> "processing_payment"
                 [] n = "order.paid"           -> "paid"
                 [] n = "order.payment_failed" -> "payment_failed"]

StatusFacts(s) == {i \in DOMAIN s : s[i].name \in DOMAIN StatusOf}

(* Fold: the status of the last fact that has one.                         *)
Status(s) ==
  IF StatusFacts(s) = {} THEN "none"
  ELSE StatusOf[s[CHOOSE i \in StatusFacts(s) : \A j \in StatusFacts(s) : j <= i].name]

Terminal(s) == Status(s) \in {"paid", "payment_failed"}
Approved(s) == Has(s, "order.approved")
Released(s) == Has(s, "order.released")

(* CustomerEmail: that of the last order.placed, named here by the command. *)
PlacedFacts(s) == {i \in DOMAIN s : s[i].name = "order.placed"}
Customer(s) == s[CHOOSE i \in PlacedFacts(s) : \A j \in PlacedFacts(s) : j <= i].by

(* Mutants: an approval of an order nobody placed is allowed, or done.     *)
ApproveUnplaced(s) == IF Approved(s) THEN "already" ELSE "ok"
ApproveNothing(s) == IF s = <<>> \/ Approved(s) THEN "already" ELSE "ok"

DecideApprove(s) ==
  IF s = <<>> THEN "error"
  ELSE IF Approved(s) THEN "already"
  ELSE IF Status(s) = "pending_approval" THEN "ok" ELSE "error"

DecideRelease(s) ==
  IF s = <<>> THEN "error"
  ELSE IF Released(s) THEN "already"
  ELSE IF Approved(s) THEN "ok" ELSE "error"

DecidePaymentOutcome(s) ==
  IF s = <<>> THEN "error"
  ELSE IF Terminal(s) THEN "already"
  ELSE IF Released(s) THEN "ok" ELSE "error"

(* Mutant: every outcome is recorded as paid.                              *)
AlwaysPaid(paymentEvent) == "order.paid"

OutcomeFact(paymentEvent) ==
  IF paymentEvent = "payment.captured" THEN "order.paid" ELSE "order.payment_failed"

Decide(r) ==
  CASE Fn(r) = "approve" -> DecideApprove(stream[OrderOf(r)])
    [] Fn(r) = "process" -> DecideRelease(stream[OrderOf(r)])
    [] Fn(r) = "outcome" -> DecidePaymentOutcome(stream[OrderOf(r)])

FactOf(r) ==
  CASE Fn(r) = "place"   -> "order.placed"
    [] Fn(r) = "approve" -> "order.approved"
    [] Fn(r) = "process" -> "order.released"
    [] Fn(r) = "outcome" -> OutcomeFact(event[r])

-----------------------------------------------------------------------------
(* The engine's append: the key first, then the expected version.          *)

AppendAnswer(r) ==
  LET s == stream[OrderOf(r)] IN
  IF \E i \in DOMAIN s : s[i].key = IdempotencyKey(r) THEN "original"
  ELSE IF Len(s) = seen[r] THEN "appended" ELSE "conflict"

AppendFact(r) ==
  stream' = IF AppendAnswer(r) = "appended"
            THEN [stream EXCEPT ![OrderOf(r)] =
                    Append(@, [name |-> FactOf(r), key |-> IdempotencyKey(r), by |-> r])]
            ELSE stream

(* Where a step is executed from: the process manager's follows its wait.  *)
Entry(r) == IF Fn(r) = "process" THEN "woken" ELSE "ready"

-----------------------------------------------------------------------------
Init ==
  /\ stream = [o \in Orders |-> <<>>]
  /\ pc = [r \in Runs |-> "idle"]
  /\ seen = [r \in Runs |-> 0]
  /\ event = [r \in Runs |-> "none"]
  /\ result = [r \in Runs |-> {}]
  /\ tries = [r \in Runs |-> 0]
  /\ arrived = {}
  /\ announced = {}
  /\ logged = {}
  /\ payments = [o \in Orders |-> {}]
  /\ faults = 0

(* A place.order or approve.order command reaches the service: the browser *)
(* or a script emitted it, or the engine delivers it again.                *)
StartCommand(r) ==
  /\ Fn(r) \in {"place", "approve"}
  /\ pc[r] = "idle"
  /\ pc' = [pc EXCEPT ![r] = "ready"]
  /\ UNCHANGED <<stream, seen, event, result, tries, arrived, announced, logged,
                 payments, faults>>

(* order.placed on the stream starts the process manager.                  *)
StartProcess(r) ==
  /\ Fn(r) = "process"
  /\ pc[r] = "idle"
  /\ Has(stream[OrderOf(r)], "order.placed")
  /\ pc' = [pc EXCEPT ![r] = "ready"]
  /\ UNCHANGED <<stream, seen, event, result, tries, arrived, announced, logged,
                 payments, faults>>

(* Mutant: the function is not subscribed to payment.captured.             *)
TriggeredByDeclines(o) == payments[o] \ {"payment.captured"}

Triggers(o) == payments[o]

(* payment.captured or payment.declined starts an outcome run.             *)
StartOutcome(r) ==
  /\ Fn(r) = "outcome"
  /\ pc[r] = "idle"
  /\ \E n \in Triggers(OrderOf(r)) :
       /\ event' = [event EXCEPT ![r] = n]
       /\ pc' = [pc EXCEPT ![r] = "ready"]
  /\ UNCHANGED <<stream, seen, result, tries, arrived, announced, logged,
                 payments, faults>>

(* One execution of the step ends in an error.  If the error may be        *)
(* retried the engine executes the step again from the top, until its      *)
(* attempts are used up; otherwise the run fails.                          *)
FailedAttempt(r, retryable) ==
  /\ tries' = [tries EXCEPT ![r] = @ + 1]
  /\ pc' = [pc EXCEPT ![r] =
       IF retryable /\ tries[r] + 1 < MaxAttempts THEN Entry(r) ELSE "failed"]
  /\ seen' = [seen EXCEPT ![r] = 0]
  /\ result' = [result EXCEPT ![r] = {}]
  /\ UNCHANGED <<stream, event, arrived, announced, logged, payments>>

(* Price refuses the command: the function returns before its step.        *)
RejectPlace(r) ==
  /\ r \in Mispriced
  /\ pc[r] = "ready"
  /\ FailedAttempt(r, TRUE)
  /\ UNCHANGED faults

(* PlaceStep: append at version 0.  A version conflict is a repeat and is  *)
(* skipped; an answer without error, the original fact included, is not.   *)
PlaceStep(r) ==
  /\ Fn(r) = "place"
  /\ r \notin Mispriced
  /\ pc[r] = "ready"
  /\ AppendFact(r)
  /\ result' = [result EXCEPT ![r] =
       IF AppendAnswer(r) = "conflict" THEN {}
       ELSE {[order |-> OrderOf(r), status |-> "pending_approval", to |-> r]}]
  /\ pc' = [pc EXCEPT ![r] = "written"]
  /\ UNCHANGED <<seen, event, tries, arrived, announced, logged, payments, faults>>

(* The first half of ApproveStep, ReleaseStep and OutcomeStep: read, fold, *)
(* decide.  "already" ends the step as Skipped.                            *)
ReadAndDecide(r) ==
  /\ Fn(r) # "place"
  /\ pc[r] = Entry(r)
  /\ \/ /\ Decide(r) = "ok"
        /\ seen' = [seen EXCEPT ![r] = Len(stream[OrderOf(r)])]
        /\ pc' = [pc EXCEPT ![r] = "decided"]
        /\ UNCHANGED <<stream, event, result, tries, arrived, announced, logged,
                       payments, faults>>
     \/ /\ Decide(r) = "already"
        /\ pc' = [pc EXCEPT ![r] = "written"]
        /\ UNCHANGED <<stream, seen, event, result, tries, arrived, announced, logged,
                       payments, faults>>
     \/ /\ Decide(r) = "error"
        /\ FailedAttempt(r, TRUE)
        /\ UNCHANGED faults

(* Mutant: the release tells the customer that the order is paid.          *)
PaidOnRelease(r) ==
  {[order |-> OrderOf(r), status |-> IF Fn(r) = "approve" THEN "pending_approval" ELSE "paid",
    to |-> Customer(stream[OrderOf(r)])]}

(* What the step returns after its write.  Approval announces nothing.     *)
StepResult(r) ==
  IF Fn(r) = "approve" THEN {}
  ELSE {[order |-> OrderOf(r), status |-> StatusOf[FactOf(r)],
         to |-> Customer(SubSeq(stream[OrderOf(r)], 1, seen[r]))]}

(* The second half: append at the version that was read.                   *)
AppendDecided(r) ==
  /\ pc[r] = "decided"
  /\ AppendAnswer(r) # "conflict"
  /\ AppendFact(r)
  /\ result' = [result EXCEPT ![r] = StepResult(r)]
  /\ pc' = [pc EXCEPT ![r] = "written"]
  /\ UNCHANGED <<seen, event, tries, arrived, announced, logged, payments, faults>>

(* The stream moved under the decision.  approveOrder wraps the conflict   *)
(* as retryable; nobody else does, and a plain 409 fails the run.          *)
ConflictDecided(r) ==
  /\ pc[r] = "decided"
  /\ AppendAnswer(r) = "conflict"
  /\ FailedAttempt(r, Fn(r) = "approve")
  /\ UNCHANGED faults

(* A read or append that fails, or an append whose answer is lost.         *)
TransportError(r) ==
  /\ pc[r] \in {Entry(r), "decided", "written"}
  /\ faults < MaxFaults
  /\ faults' = faults + 1
  /\ FailedAttempt(r, TRUE)

(* The process manager yields at WaitForEvent: its correlation now exists. *)
EnterWait(r) ==
  /\ Fn(r) = "process"
  /\ pc[r] = "ready"
  /\ pc' = [pc EXCEPT ![r] = "parked"]
  /\ UNCHANGED <<stream, seen, event, result, tries, arrived, announced, logged,
                 payments, faults>>

(* The engine matches order.approved against the runs parked now; a run    *)
(* that parks later has missed it.                                         *)
ApprovedArrives(o) ==
  /\ Has(stream[o], "order.approved")
  /\ o \notin arrived
  /\ arrived' = arrived \cup {o}
  /\ pc' = [r \in Runs |-> IF OrderOf(r) = o /\ pc[r] = "parked" THEN "woken" ELSE pc[r]]
  /\ UNCHANGED <<stream, seen, event, result, tries, announced, logged, payments,
                 faults>>

(* ApprovalWaitTimeout (seven days) fails the run; nothing after the wait  *)
(* executes.                                                               *)
WaitTimeout(r) ==
  /\ pc[r] = "parked"
  /\ pc' = [pc EXCEPT ![r] = "failed"]
  /\ UNCHANGED <<stream, seen, event, result, tries, arrived, announced, logged,
                 payments, faults>>

(* The engine records the step's result; its attempts no longer count.     *)
Checkpoint(r) ==
  /\ pc[r] = "written"
  /\ pc' = [pc EXCEPT ![r] = "recorded"]
  /\ seen' = [seen EXCEPT ![r] = 0]
  /\ tries' = [tries EXCEPT ![r] = 0]
  /\ UNCHANGED <<stream, event, result, arrived, announced, logged, payments,
                 faults>>

(* announce: publish the message, or log the failure and carry on.         *)
Announce(r) ==
  /\ pc[r] = "recorded"
  /\ \/ announced' = announced \cup result[r] /\ UNCHANGED logged
     \/ /\ Cardinality(logged) < MaxLogged
        /\ logged' = logged \cup result[r]
        /\ UNCHANGED announced
  /\ pc' = [pc EXCEPT ![r] = "announced"]
  /\ UNCHANGED <<stream, seen, event, result, tries, arrived, payments, faults>>

Complete(r) ==
  /\ pc[r] = "announced"
  /\ pc' = [pc EXCEPT ![r] = "done"]
  /\ UNCHANGED <<stream, seen, event, result, tries, arrived, announced, logged,
                 payments, faults>>

(* The worker dies: every run it was executing goes back to what the       *)
(* engine has recorded of it.                                              *)
Crash ==
  LET Interrupted == {r \in Runs : pc[r] \in {"decided", "written"}} IN
  /\ faults < MaxFaults
  /\ faults' = faults + 1
  /\ pc' = [r \in Runs |-> IF r \in Interrupted THEN Entry(r)
                           ELSE IF pc[r] = "announced" THEN "recorded" ELSE pc[r]]
  /\ seen' = [r \in Runs |-> IF r \in Interrupted THEN 0 ELSE seen[r]]
  /\ result' = [r \in Runs |-> IF r \in Interrupted THEN {} ELSE result[r]]
  /\ UNCHANGED <<stream, event, tries, arrived, announced, logged, payments>>

(* The environment: Payments settles a released order, one way, once.      *)
PaymentFact(o, n) ==
  /\ Has(stream[o], "order.released")
  /\ payments[o] = {}
  /\ payments' = [payments EXCEPT ![o] = {n}]
  /\ UNCHANGED <<stream, pc, seen, event, result, tries, arrived, announced, logged,
                 faults>>

-----------------------------------------------------------------------------
(* The steps of a run that nothing goes wrong in.                          *)
Advance(r) ==
  \/ StartProcess(r) \/ StartOutcome(r)
  \/ RejectPlace(r) \/ PlaceStep(r)
  \/ ReadAndDecide(r) \/ AppendDecided(r) \/ ConflictDecided(r)
  \/ EnterWait(r) \/ WaitTimeout(r)
  \/ Checkpoint(r) \/ Announce(r) \/ Complete(r)

System ==
  \/ \E r \in Runs : StartCommand(r) \/ Advance(r) \/ TransportError(r)
  \/ \E o \in Orders : ApprovedArrives(o)
  \/ Crash

Next == System \/ \E o \in Orders, n \in PaymentNames : PaymentFact(o, n)

(* The engine keeps delivering events and executing runs, and time passes  *)
(* until a wait is answered or times out.  Nobody is bound to send a       *)
(* command; nothing is bound to fail.                                      *)
Fairness ==
  /\ \A r \in Runs : WF_vars(Advance(r))
  /\ \A o \in Orders : WF_vars(ApprovedArrives(o))

Spec == Init /\ [][Next]_vars
FairSpec == Spec /\ Fairness

-----------------------------------------------------------------------------
(* Properties *)

Lifecycle == <<{"order.placed"}, {"order.approved"}, {"order.released"},
               {"order.paid", "order.payment_failed"}>>

(* Whatever is delivered twice, retried or interleaved, an order stream is *)
(* a prefix of placed, approved, released, paid-or-failed: no step of the  *)
(* life cycle is skipped, repeated or reordered (the model.go decisions,   *)
(* the expected versions and the idempotency keys taken together).         *)
LegalHistory ==
  \A o \in Orders :
    /\ Len(stream[o]) <= 4
    /\ \A i \in DOMAIN stream[o] : stream[o][i].name \in Lifecycle[i]

(* order.paid follows payment.captured only, order.payment_failed a        *)
(* decline only (CONTEXT.md "Rules this context enforces").                *)
OutcomeFollowsPayment ==
  \A o \in Orders :
    /\ Has(stream[o], "order.paid") => "payment.captured" \in payments[o]
    /\ Has(stream[o], "order.payment_failed") => "payment.declined" \in payments[o]

(* Only the probe's approvals, which bypass the shared key, can lose an    *)
(* expected-version check.  In every other run a decision that was allowed *)
(* when it was read is appended or answered with the original fact: the    *)
(* unwrapped conflicts of ReleaseStep and OutcomeStep, which would fail    *)
(* the run for good, never happen.                                         *)
OnlyProbesConflict ==
  \A r \in Runs :
    (pc[r] = "decided" \/ (Fn(r) = "place" /\ pc[r] = "ready"))
      => (AppendAnswer(r) = "conflict" => IsTarget(r))

(* A run that ends successfully has had its effect: its fact, or the       *)
(* other outcome's, is on the stream.  Success is never reported for a     *)
(* write that did not happen.                                              *)
SuccessIsRecorded ==
  \A r \in Runs :
    pc[r] \in {"recorded", "announced", "done"} =>
      LET s == stream[OrderOf(r)] IN
      IF Fn(r) = "outcome" THEN Terminal(s) ELSE Has(s, FactOf(r))

(* A customer is only told of a status the order really reached: every     *)
(* published message has the fact that carries its status on the stream,   *)
(* although the message is built from a read that may be stale.            *)
AnnouncedIsRecorded ==
  \A m \in announced :
    \E i \in StatusFacts(stream[m.order]) :
      StatusOf[stream[m.order][i].name] = m.status

(* Statuses of released and settled orders go to the customer who placed   *)
(* the order, whichever of several place.order commands that was.          *)
AnnouncedToCustomer ==
  \A m \in announced :
    m.status # "pending_approval" => m.to = Customer(stream[m.order])

(* What a customer is told is true and told to the right one, although a    *)
(* run announces from a read that others have overtaken (notify).          *)
AnnouncementsAreTrue == AnnouncedIsRecorded /\ AnnouncedToCustomer

(* A payment outcome closes the order: a single crash or error of the runs *)
(* that record it only delays that, as long as attempts are left.          *)
PaymentClosesOrder ==
  MaxFaults < MaxAttempts =>
    \A o \in Orders : payments[o] # {} ~> Terminal(stream[o])

(* A run the approval has woken releases the order, under the same faults. *)
WokenRunReleases ==
  MaxFaults < MaxAttempts =>
    \A r \in Runs : pc[r] = "woken" ~> Released(stream[OrderOf(r)])

(* What has been approved or paid gets through to the stream, although a   *)
(* run dies or errs on the way.                                            *)
OrdersGetThrough == PaymentClosesOrder /\ WokenRunReleases

(* The abstract life cycle of an order, which the four functions           *)
(* implement together.                                                     *)
PhaseOf(s) ==
  IF Status(s) = "pending_approval" /\ Approved(s) THEN "approved" ELSE Status(s)

Phase == [o \in Orders |-> PhaseOf(stream[o])]

Lifecycles == INSTANCE OrderLifecycle WITH phase <- Phase

(* Every behaviour of the service, with its repeats, retries and crashes,  *)
(* is a behaviour of the life cycle: a phase is left only for the next     *)
(* one, and a closed order never changes again.                            *)
ImplementsLifecycle == Lifecycles!Spec
=============================================================================
