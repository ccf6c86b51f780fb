------------------------- MODULE ReferenceAppProofs -------------------------
(* Proofs about the reference application beyond one service.  Each of the *)
(* two services is the environment the other's specification assumes, so   *)
(* the invariants proved of each alone hold of both, and the order agrees  *)
(* with the card; the projection shows an operator the order as it is; the *)
(* supervisor keeps track of what it runs, for any table of children, in a *)
(* data directory that one supervisor owns; and no status message passes   *)
(* Notifications without a trace.                                          *)
EXTENDS ReferenceApp, Notifications, WebApp, DataDirectory, SequenceTheorems, TLAPS

(* The services with what is proved of them, connected as in ReferenceApp. *)
O == INSTANCE OrderingProofs WITH
  Runs <- OrderRuns, pc <- orderPc, seen <- orderSeen, result <- orderResult,
  tries <- orderTries, payments <- OutcomeFacts, faults <- orderFaults,
  MaxFaults <- MaxOrderFaults

P == INSTANCE PaymentsProofs WITH
  Copies <- PaymentCopies, released <- ReleasedTokens, pc <- payPc, seen <- paySeen,
  result <- payResult, tries <- payTries, faults <- payFaults, MaxFaults <- MaxPayFaults

LEMMA Instances ==
  /\ OrderRuns \subseteq O!Fns \X Orders \X (Nat \ {0})
  /\ ProbeOrders \subseteq Orders
  /\ Mispriced \subseteq {r \in OrderRuns : r[1] = "place"}
  /\ {MaxAttempts, MaxOrderFaults, MaxLogged} \subseteq Nat
  /\ PaymentCopies \subseteq Nat /\ {MaxAttempts, MaxPayFaults} \subseteq Nat
BY OrderRunsAssumption, NumbersAssumption DEF O!Fns

(* The two names of each service denote the same steps.                    *)
LEMMA SamePayments ==
  /\ Payments!System <=> P!System
  /\ Payments!Init <=> P!Init
  /\ Payments!Next <=> P!Next
  /\ Payments!vars = P!vars
<1>1. Payments!System <=> P!System
  BY DEF Payments!System, P!System, Payments!Advance, P!Advance, Payments!Runs, P!Runs,
     Payments!Crash, P!Crash, Payments!Start, P!Start, Payments!AskDomain, P!AskDomain,
     Payments!CallGateway, P!CallGateway, Payments!ReadAgain, P!ReadAgain,
     Payments!AppendOnce, P!AppendOnce, Payments!Checkpoint, P!Checkpoint,
     Payments!EnterWait, P!EnterWait, Payments!WaitTimeout, P!WaitTimeout,
     Payments!TransportError, P!TransportError, Payments!Continue, P!Continue,
     Payments!InStep, P!InStep, Payments!OrderOf, P!OrderOf, Payments!Permission, P!Permission,
     Payments!MayAuthorize, P!MayAuthorize, Payments!MayCapture, P!MayCapture,
     Payments!Attempted, P!Attempted, Payments!Authorized, P!Authorized,
     Payments!Settled, P!Settled, Payments!Has, P!Has,
     Payments!FailedAttempt, P!FailedAttempt, Payments!Retry, P!Retry,
     Payments!ReturnRecorded, P!ReturnRecorded, Payments!Replay, P!Replay,
     Payments!Ledger, P!Ledger, Payments!Decision, P!Decision, Payments!FactOf, P!FactOf,
     Payments!AppendAnswer, P!AppendAnswer, Payments!Appended, P!Appended
<1>2. Payments!Init <=> P!Init
  BY DEF Payments!Init, P!Init, Payments!Runs, P!Runs, Payments!Ops, P!Ops
<1>3. (\E o \in Orders, t \in Payments!Tokens : Payments!Release(o, t))
      <=> (\E o \in Orders, t \in P!Tokens : P!Release(o, t))
  BY DEF Payments!Tokens, P!Tokens, Payments!Release, P!Release
<1>4. Payments!vars = P!vars
  BY DEF Payments!vars, P!vars
<1> QED BY <1>1, <1>2, <1>3, <1>4 DEF Payments!Next, P!Next

LEMMA SameOrdering ==
  /\ Ordering!System <=> O!System
  /\ Ordering!Init <=> O!Init
  /\ Ordering!Next <=> O!Next
  /\ Ordering!vars = O!vars
<1>0. /\ \A s : Ordering!Status(s) = O!Status(s)
      /\ \A s, n : Ordering!Has(s, n) <=> O!Has(s, n)
      /\ \A s : Ordering!Customer(s) = O!Customer(s)
      /\ Ordering!StatusOf = O!StatusOf
      /\ \A r : Ordering!Fn(r) = O!Fn(r) /\ Ordering!OrderOf(r) = O!OrderOf(r)
      /\ \A r : Ordering!IdempotencyKey(r) = O!IdempotencyKey(r)
      /\ \A r : Ordering!Entry(r) = O!Entry(r)
  BY DEF Ordering!Status, O!Status, Ordering!StatusFacts, O!StatusFacts,
         Ordering!StatusOf, O!StatusOf, Ordering!FactNames, O!FactNames,
         Ordering!Has, O!Has, Ordering!Customer, O!Customer,
         Ordering!PlacedFacts, O!PlacedFacts, Ordering!Fn, O!Fn, Ordering!OrderOf, O!OrderOf,
         Ordering!IdempotencyKey, O!IdempotencyKey, Ordering!IsTarget, O!IsTarget,
         Ordering!Entry, O!Entry
<1>5. \A r : Ordering!FactOf(r) = O!FactOf(r)
  BY <1>0 DEF Ordering!FactOf, O!FactOf, Ordering!OutcomeFact, O!OutcomeFact
<1>6. \A r : Ordering!Decide(r) = O!Decide(r)
  BY <1>0 DEF Ordering!Decide, O!Decide, Ordering!DecideApprove, O!DecideApprove,
         Ordering!DecideRelease, O!DecideRelease, Ordering!DecidePaymentOutcome,
         O!DecidePaymentOutcome, Ordering!Approved, O!Approved, Ordering!Released, O!Released,
         Ordering!Terminal, O!Terminal
<1>7. \A r : Ordering!AppendAnswer(r) = O!AppendAnswer(r)
  BY <1>0 DEF Ordering!AppendAnswer, O!AppendAnswer
<1>8. \A r : Ordering!AppendFact(r) <=> O!AppendFact(r)
  BY <1>0, <1>5, <1>7 DEF Ordering!AppendFact, O!AppendFact
<1>9. \A r : Ordering!StepResult(r) = O!StepResult(r)
  BY <1>0, <1>5 DEF Ordering!StepResult, O!StepResult
<1>10. \A r, b : Ordering!FailedAttempt(r, b) <=> O!FailedAttempt(r, b)
  BY <1>0 DEF Ordering!FailedAttempt, O!FailedAttempt
<1>11. \A r : /\ Ordering!PlaceStep(r) <=> O!PlaceStep(r)
              /\ Ordering!ReadAndDecide(r) <=> O!ReadAndDecide(r)
              /\ Ordering!AppendDecided(r) <=> O!AppendDecided(r)
              /\ Ordering!ConflictDecided(r) <=> O!ConflictDecided(r)
  BY <1>0, <1>6, <1>7, <1>8, <1>9, <1>10
  DEF Ordering!PlaceStep, O!PlaceStep, Ordering!ReadAndDecide, O!ReadAndDecide,
      Ordering!AppendDecided, O!AppendDecided, Ordering!ConflictDecided, O!ConflictDecided
<1>12. \A r : /\ Ordering!StartCommand(r) <=> O!StartCommand(r)
              /\ Ordering!StartProcess(r) <=> O!StartProcess(r)
              /\ Ordering!StartOutcome(r) <=> O!StartOutcome(r)
              /\ Ordering!RejectPlace(r) <=> O!RejectPlace(r)
              /\ Ordering!EnterWait(r) <=> O!EnterWait(r)
              /\ Ordering!WaitTimeout(r) <=> O!WaitTimeout(r)
              /\ Ordering!Checkpoint(r) <=> O!Checkpoint(r)
              /\ Ordering!Announce(r) <=> O!Announce(r)
              /\ Ordering!Complete(r) <=> O!Complete(r)
              /\ Ordering!TransportError(r) <=> O!TransportError(r)
  BY <1>0, <1>10
  DEF Ordering!StartCommand, O!StartCommand, Ordering!StartProcess, O!StartProcess,
      Ordering!StartOutcome, O!StartOutcome, Ordering!Triggers, O!Triggers,
      Ordering!RejectPlace, O!RejectPlace, Ordering!EnterWait, O!EnterWait,
      Ordering!WaitTimeout, O!WaitTimeout, Ordering!Checkpoint, O!Checkpoint,
      Ordering!Announce, O!Announce, Ordering!Cardinality, O!Cardinality, Ordering!Complete, O!Complete,
      Ordering!TransportError, O!TransportError
<1>13. /\ Ordering!Crash <=> O!Crash
       /\ \A o : Ordering!ApprovedArrives(o) <=> O!ApprovedArrives(o)
  BY <1>0 DEF Ordering!Crash, O!Crash, Ordering!ApprovedArrives, O!ApprovedArrives,
              Ordering!Entry, O!Entry, Ordering!Fn, O!Fn, Ordering!OrderOf, O!OrderOf
<1>1. Ordering!System <=> O!System
  <2>1. \A r : Ordering!Advance(r) <=> O!Advance(r)
    BY <1>11, <1>12 DEF Ordering!Advance, O!Advance
  <2> QED BY <1>12, <1>13, <2>1 DEF Ordering!System, O!System
<1>2. Ordering!Init <=> O!Init
  BY DEF Ordering!Init, O!Init
<1>3. (\E o \in Orders, n \in Ordering!PaymentNames : Ordering!PaymentFact(o, n))
      <=> (\E o \in Orders, n \in O!PaymentNames : O!PaymentFact(o, n))
  BY DEF Ordering!PaymentNames, O!PaymentNames, Ordering!PaymentFact, O!PaymentFact,
         Ordering!Has, O!Has
<1>4. Ordering!vars = O!vars
  BY DEF Ordering!vars, O!vars
<1> QED BY <1>1, <1>2, <1>3, <1>4 DEF Ordering!Next, O!Next
-----------------------------------------------------------------------------
(* The invariants of both services, each over what it sees of the other.   *)
Inv == token \in [Orders -> Cards] /\ O!IInv /\ P!IInv

(* A step of Ordering is for Payments no step, or the release of an order. *)
LEMMA PaymentsSeesRelease ==
  ASSUME Inv, O!IInv', O!Next, UNCHANGED <<token, payVars>>
  PROVE  [P!Next]_(P!vars)
<1>0. UNCHANGED <<pay, calls, dedup, payPc, op, paySeen, payResult, payTries, payFaults>>
  BY DEF payVars
<1>1. /\ \A o \in Orders : ReleasedTokens[o] = IF O!Released(stream[o]) THEN token[o] ELSE "none"
      /\ \A o \in Orders : ReleasedTokens'[o] =
                              IF O!Released(stream'[o]) THEN token[o] ELSE "none"
  BY DEF ReleasedTokens, O!Released, O!Has
<1>2. \A o \in Orders : O!Released(stream[o]) => O!Released(stream'[o])
  BY O!ReleasedStays, Instances DEF Inv
<1>3. ASSUME ReleasedTokens' = ReleasedTokens PROVE [P!Next]_(P!vars)
  BY <1>0, <1>3 DEF P!vars
<1>4. UNCHANGED stream \/ \E o \in Orders : \A p \in Orders \ {o} : stream'[p] = stream[p]
  BY O!OneStreamMoves, Instances DEF Inv
<1>5. CASE UNCHANGED stream
  <2>1. ReleasedTokens' = ReleasedTokens
    BY <1>5 DEF ReleasedTokens
  <2> QED BY <1>3, <2>1
<1>6. ASSUME NEW o \in Orders, \A p \in Orders \ {o} : stream'[p] = stream[p]
      PROVE  [P!Next]_(P!vars)
  <2>1. \A p \in Orders \ {o} : ReleasedTokens'[p] = ReleasedTokens[p]
    BY <1>1, <1>6
  <2>2. /\ DOMAIN ReleasedTokens = Orders /\ DOMAIN ReleasedTokens' = Orders
        /\ ReleasedTokens = [p \in Orders |-> ReleasedTokens[p]]
        /\ ReleasedTokens' = [p \in Orders |-> ReleasedTokens'[p]]
    BY DEF ReleasedTokens
  <2>3. CASE O!Released(stream[o]) \/ ~O!Released(stream'[o])
    <3>1. ReleasedTokens'[o] = ReleasedTokens[o]
      BY <1>1, <1>2, <2>3
    <3>2. ReleasedTokens' = ReleasedTokens
      BY <2>1, <2>2, <3>1
    <3> QED BY <1>3, <3>2
  <2>4. CASE ~O!Released(stream[o]) /\ O!Released(stream'[o])
    <3>1. ReleasedTokens[o] = "none" /\ ReleasedTokens'[o] = token[o]
      BY <1>1, <2>4
    <3>2. token[o] \in P!Tokens
      BY CardsAssumption DEF Inv, P!Tokens
    <3>3. ReleasedTokens' = [ReleasedTokens EXCEPT ![o] = token[o]]
      BY <2>1, <2>2, <3>1
    <3>4. P!Release(o, token[o])
      BY <1>0, <3>1, <3>3 DEF P!Release
    <3> QED BY <3>2, <3>4 DEF P!Next
  <2> QED BY <2>3, <2>4
<1> QED BY <1>4, <1>5, <1>6

(* An order never has both outcomes.                                       *)
OneOutcome ==
  \A o \in Orders : ~(P!Has(pay[o], "payment.captured") /\ P!Has(pay[o], "payment.declined"))

(* That holds of every state, so of the one after a step as well.          *)
LEMMA OutcomesExclude ==
  P!IInv' => OneOutcome'
<1>1. P!IInv => OneOutcome
  BY P!OutcomeMatchesCard, Instances DEF OneOutcome
<1> QED BY <1>1, PTL

(* A step of Payments is for Ordering no step, or the first outcome of an  *)
(* order that is released.                                                 *)
LEMMA OrderingSeesOutcome ==
  ASSUME Inv, P!IInv', P!System, UNCHANGED orderVars
  PROVE  [O!Next]_(O!vars)
<1>0. UNCHANGED <<stream, arrived, announced, logged, orderPc, orderSeen, event,
                  orderResult, orderTries, orderFaults>>
  BY DEF orderVars
<1> DEFINE Names == {"payment.captured", "payment.declined"}
<1>1. /\ \A o \in Orders : OutcomeFacts[o] = {n \in Names : P!Has(pay[o], n)}
      /\ \A o \in Orders : OutcomeFacts'[o] = {n \in Names : P!Has(pay'[o], n)}
  BY DEF OutcomeFacts, P!Has
<1>2. ASSUME OutcomeFacts' = OutcomeFacts PROVE [O!Next]_(O!vars)
  BY <1>0, <1>2 DEF O!vars
<1>3. \/ UNCHANGED pay
      \/ \E o \in Orders : /\ ReleasedTokens[o] # "none"
                           /\ ~P!Settled(pay[o])
                           /\ \A p \in Orders \ {o} : pay'[p] = pay[p]
  BY P!OneStreamMoves, Instances DEF Inv
<1>4. CASE UNCHANGED pay
  <2>1. OutcomeFacts' = OutcomeFacts
    BY <1>4 DEF OutcomeFacts
  <2> QED BY <1>2, <2>1
<1>5. ASSUME NEW o \in Orders, ReleasedTokens[o] # "none", ~P!Settled(pay[o]),
             \A p \in Orders \ {o} : pay'[p] = pay[p]
      PROVE  [O!Next]_(O!vars)
  <2>1. \A p \in Orders \ {o} : OutcomeFacts'[p] = OutcomeFacts[p]
    BY <1>1, <1>5
  <2>2. /\ OutcomeFacts = [p \in Orders |-> OutcomeFacts[p]]
        /\ OutcomeFacts' = [p \in Orders |-> OutcomeFacts'[p]]
    BY DEF OutcomeFacts
  <2>3. OutcomeFacts[o] = {}
    BY <1>1, <1>5 DEF P!Settled
  <2>4. ~(P!Has(pay'[o], "payment.captured") /\ P!Has(pay'[o], "payment.declined"))
    BY OutcomesExclude DEF OneOutcome
  <2>5. CASE OutcomeFacts'[o] = {}
    <3>1. OutcomeFacts' = OutcomeFacts
      BY <2>1, <2>2, <2>3, <2>5
    <3> QED BY <1>2, <3>1
  <2>6. CASE OutcomeFacts'[o] # {}
    <3>1. PICK n \in Names : OutcomeFacts'[o] = {n}
      BY <1>1, <2>4, <2>6
    <3>2. OutcomeFacts' = [OutcomeFacts EXCEPT ![o] = {n}]
      BY <2>1, <2>2, <3>1
    <3>3. O!Has(stream[o], "order.released")
      BY <1>5 DEF ReleasedTokens, O!Has
    <3>4. O!PaymentFact(o, n)
      BY <1>0, <2>3, <3>2, <3>3 DEF O!PaymentFact
    <3>5. n \in O!PaymentNames
      BY DEF O!PaymentNames
    <3> QED BY <3>4, <3>5 DEF O!Next
  <2> QED BY <2>5, <2>6
<1> QED BY <1>3, <1>4, <1>5

LEMMA InitInv == Init => Inv /\ O!Init /\ P!Init
<1> SUFFICES ASSUME Init PROVE Inv /\ O!Init /\ P!Init
  OBVIOUS
<1>1. O!Init /\ P!Init
  BY SameOrdering, SamePayments DEF Init
<1>2. O!IInv
  BY <1>1, O!InitIInv, Instances
<1>3. P!IInv
  BY <1>1, P!InitIInv, Instances
<1> QED BY <1>1, <1>2, <1>3 DEF Init, Inv

(* Each service takes only steps the other's specification allows.         *)
LEMMA NextInv ==
  Inv /\ [Next]_vars => Inv' /\ [O!Next]_(O!vars) /\ [P!Next]_(P!vars)
<1> SUFFICES ASSUME Inv, [Next]_vars
             PROVE  Inv' /\ [O!Next]_(O!vars) /\ [P!Next]_(P!vars)
  OBVIOUS
<1>1. [O!Next]_(O!vars) => O!IInv'
  BY O!NextIInv, Instances DEF Inv
<1>2. [P!Next]_(P!vars) => P!IInv'
  BY P!NextIInv, Instances DEF Inv
<1>3. token' = token
  BY DEF Next, vars
<1>4. CASE OrderingStep
  <2>1. O!System /\ UNCHANGED payVars
    BY <1>4, SameOrdering DEF OrderingStep
  <2>2. O!Next
    BY <2>1 DEF O!Next
  <2>3. O!IInv'
    BY <1>1, <2>2
  <2>4. [P!Next]_(P!vars)
    BY <1>3, <2>1, <2>2, <2>3, PaymentsSeesRelease
  <2> QED BY <1>2, <1>3, <2>2, <2>3, <2>4 DEF Inv
<1>5. CASE PaymentsStep
  <2>1. P!System /\ UNCHANGED orderVars
    BY <1>5, SamePayments DEF PaymentsStep
  <2>2. P!Next
    BY <2>1 DEF P!Next
  <2>3. P!IInv'
    BY <1>2, <2>2
  <2>4. [O!Next]_(O!vars)
    BY <1>3, <2>1, <2>3, OrderingSeesOutcome
  <2> QED BY <1>1, <1>3, <2>2, <2>3, <2>4 DEF Inv
<1>6. CASE UNCHANGED vars
  <2>1. UNCHANGED O!vars /\ UNCHANGED P!vars
    BY <1>6 DEF vars, orderVars, payVars, O!vars, P!vars, OutcomeFacts, ReleasedTokens
  <2> QED BY <1>1, <1>2, <1>3, <2>1 DEF Inv
<1> QED BY <1>4, <1>5, <1>6 DEF Next

(* The invariants proved of each service alone hold of the two together.   *)
THEOREM Invariance == Spec => []Inv
<1>1. Init => Inv
  BY InitInv
<1>2. Inv /\ [Next]_vars => Inv'
  BY NextInv
<1> QED BY <1>1, <1>2, PTL DEF Spec

(* Neither service ever does to the other what the other's specification   *)
(* does not expect of its environment: Payments settles a released order   *)
(* once, one way, and Ordering releases an order once, with one token.     *)
THEOREM EnvironmentsAgree == Spec => EachIsTheOthersEnvironment
<1>1. Init => Ordering!Init /\ Payments!Init
  BY DEF Init
<1>2. Inv /\ [Next]_vars =>
        [Ordering!Next]_(Ordering!vars) /\ [Payments!Next]_(Payments!vars)
  BY NextInv, SameOrdering, SamePayments
     DEF Ordering!vars, O!vars, Payments!vars, P!vars
<1> QED BY <1>1, <1>2, Invariance, PTL
        DEF Spec, EachIsTheOthersEnvironment, OrderingEnvironment, PaymentsEnvironment,
            Ordering!Spec, Payments!Spec

(* An order is paid only if its card was charged, and once; one whose      *)
(* payment failed was never charged: on every interleaving of the two      *)
(* services, with any number of deliveries, crashes and errors in both.    *)
THEOREM OrdersAgreeWithCards == Spec => []OrderAgreesWithCard
<1>1. Inv => OrderAgreesWithCard
  <2> SUFFICES ASSUME Inv, NEW o \in Orders
               PROVE  /\ StatusOf(o) = "paid" => calls[<<o, "capture">>] = 1
                      /\ StatusOf(o) = "payment_failed" => calls[<<o, "capture">>] = 0
    BY DEF OrderAgreesWithCard
  <2>1. StatusOf(o) = O!Status(stream[o])
    BY SameOrdering DEF StatusOf, Ordering!Status, O!Status, Ordering!StatusFacts,
       O!StatusFacts, Ordering!StatusOf, O!StatusOf, Ordering!FactNames, O!FactNames
  <2>2. /\ O!Status(stream[o]) = "paid" => OutcomeFacts[o] = {"payment.captured"}
        /\ O!Status(stream[o]) = "payment_failed" => OutcomeFacts[o] = {"payment.declined"}
    BY O!ClosedAsPaid, Instances DEF Inv
  <2>3. /\ P!Has(pay[o], "payment.captured") => calls[<<o, "capture">>] = 1
        /\ P!Has(pay[o], "payment.declined") => calls[<<o, "capture">>] = 0
    BY P!OutcomeMatchesCard, Instances DEF Inv
  <2>4. OutcomeFacts[o] =
          {n \in {"payment.captured", "payment.declined"} : P!Has(pay[o], n)}
    BY DEF OutcomeFacts, P!Has
  <2> QED BY <2>1, <2>2, <2>3, <2>4
<1> QED BY <1>1, Invariance, PTL

-----------------------------------------------------------------------------
(* The row of the orders projection: what the facts folded so far say.      *)

FoldedTo(list, n) == {list[i] : i \in 1 .. n}

(* What every fact of the log was recorded after.                           *)
RestsOn(name, known) ==
  /\ name = "order.placed" => known = {}
  /\ name = "order.approved" => "order.placed" \in known
  /\ name = "order.released" => "order.approved" \in known
  /\ name \in {"payment.authorized", "payment.declined"} => "order.released" \in known
  /\ name = "payment.captured" => "payment.authorized" \in known
  /\ name = "order.paid" => "payment.captured" \in known
  /\ name = "order.payment_failed" => "payment.declined" \in known

LogIsCausal ==
  /\ log \in Seq(FactNames)
  /\ \A i \in 1 .. Len(log) : RestsOn(log[i], FoldedTo(log, i - 1))
  /\ ~({"payment.authorized", "payment.declined"} \subseteq FoldedTo(log, Len(log)))

(* What is folded together with a fact.                                     *)
Consistent(known) ==
  /\ "order.approved" \in known => "order.placed" \in known
  /\ "order.released" \in known => "order.approved" \in known
  /\ {"payment.authorized", "payment.declined"} \cap known # {} => "order.released" \in known
  /\ "payment.captured" \in known => "payment.authorized" \in known
  /\ "order.paid" \in known => "payment.captured" \in known
  /\ "order.payment_failed" \in known => "payment.declined" \in known
  /\ ~({"payment.authorized", "payment.declined"} \subseteq known)

StatusAfter(known) ==
  IF "order.paid" \in known THEN "paid"
  ELSE IF "order.payment_failed" \in known THEN "payment_failed"
  ELSE IF "order.released" \in known THEN "processing_payment"
  ELSE IF "order.placed" \in known THEN "pending_approval"
  ELSE "none"

RowSays(order, known) ==
  /\ {order.authorizationId, order.captureId, order.declineReason} \subseteq BOOLEAN
  /\ order.status = StatusAfter(known)
  /\ order.authorizationId <=> {"payment.authorized", "payment.captured"} \cap known # {}
  /\ order.captureId <=> {"payment.captured", "order.paid"} \cap known # {}
  /\ order.declineReason <=> "payment.declined" \in known

ProjectionInv ==
  LogIsCausal /\ applied \in 0 .. Len(log) /\ RowSays(row, FoldedTo(log, applied))

(* One more fact in the log.                                                *)
LEMMA LogGrows ==
  ASSUME log \in Seq(FactNames), NEW name \in FactNames, log' = Append(log, name)
  PROVE  /\ log' \in Seq(FactNames) /\ Len(log') = Len(log) + 1 /\ Len(log) \in Nat
         /\ log'[Len(log) + 1] = name
         /\ \A n \in 0 .. Len(log) : FoldedTo(log', n) = FoldedTo(log, n)
         /\ FoldedTo(log', Len(log) + 1) = FoldedTo(log, Len(log)) \cup {name}
<1>1. Len(log) \in Nat /\ log' \in Seq(FactNames) /\ Len(log') = Len(log) + 1
  OBVIOUS
<1>2. log'[Len(log) + 1] = name
  OBVIOUS
<1>3. \A i \in 1 .. Len(log) : log'[i] = log[i]
  OBVIOUS
<1>4. ASSUME NEW n \in 0 .. Len(log) PROVE FoldedTo(log', n) = FoldedTo(log, n)
  <2>1. 1 .. n \subseteq 1 .. Len(log)
    BY <1>1
  <2> QED BY <1>3, <2>1 DEF FoldedTo
<1>5. FoldedTo(log', Len(log) + 1) = FoldedTo(log, Len(log)) \cup {name}
  <2>1. 1 .. Len(log) + 1 = (1 .. Len(log)) \cup {Len(log) + 1}
    BY <1>1
  <2> QED BY <1>2, <1>3, <2>1 DEF FoldedTo
<1> QED BY <1>1, <1>2, <1>3, <1>4, <1>5

LEMMA FoldedGrows ==
  ASSUME LogIsCausal, NEW n \in 0 .. Len(log)
  PROVE  /\ \A m \in 0 .. n : FoldedTo(log, m) \subseteq FoldedTo(log, n)
         /\ n < Len(log) => FoldedTo(log, n + 1) = FoldedTo(log, n) \cup {log[n + 1]}
<1>1. n \in Nat
  BY DEF LogIsCausal
<1>2. ASSUME NEW m \in 0 .. n PROVE FoldedTo(log, m) \subseteq FoldedTo(log, n)
  <2>1. 1 .. m \subseteq 1 .. n
    BY <1>1
  <2> QED BY <2>1 DEF FoldedTo
<1>3. 1 .. n + 1 = (1 .. n) \cup {n + 1}
  BY <1>1
<1> QED BY <1>2, <1>3 DEF FoldedTo

(* Every beginning of the log is consistent.                                *)
LEMMA FoldedIsConsistent ==
  ASSUME LogIsCausal, NEW n \in 0 .. Len(log)
  PROVE  Consistent(FoldedTo(log, n))
<1>1. Len(log) \in Nat
  BY DEF LogIsCausal
<1>2. ASSUME NEW name \in FoldedTo(log, n)
      PROVE  name = "order.placed" \/ RestsOn(name, FoldedTo(log, n))
  <2>1. PICK i \in 1 .. n : name = log[i]
    BY DEF FoldedTo
  <2>2. i \in 1 .. Len(log) /\ i - 1 \in 0 .. n
    BY <1>1
  <2>3. RestsOn(name, FoldedTo(log, i - 1)) /\ FoldedTo(log, i - 1) \subseteq FoldedTo(log, n)
    BY <2>1, <2>2, FoldedGrows DEF LogIsCausal
  <2> QED BY <2>3 DEF RestsOn
<1>3. FoldedTo(log, n) \subseteq FoldedTo(log, Len(log))
  BY <1>1, FoldedGrows
<1>4. ~({"payment.authorized", "payment.declined"} \subseteq FoldedTo(log, n))
  BY <1>3 DEF LogIsCausal
<1> QED BY <1>2, <1>4 DEF Consistent, RestsOn

(* A fact that arrives, or arrives again, rests on what is there.           *)
LEMMA LogStep ==
  ASSUME LogIsCausal, NEW name \in FactNames, Arrive(name) \/ Redeliver(name)
  PROVE  /\ LogIsCausal' /\ UNCHANGED <<applied, row>> /\ Len(log') = Len(log) + 1
         /\ \A n \in 0 .. Len(log) : FoldedTo(log', n) = FoldedTo(log, n)
<1> DEFINE known == FoldedTo(log, Len(log))
<1>0. Seen(log) = known
  BY DEF Seen, Range, FoldedTo, LogIsCausal
<1>1. log' = Append(log, name) /\ UNCHANGED <<applied, row>> /\ log \in Seq(FactNames)
  BY DEF Arrive, Redeliver, LogIsCausal
<1>2. /\ log' \in Seq(FactNames) /\ Len(log') = Len(log) + 1 /\ Len(log) \in Nat
      /\ log'[Len(log) + 1] = name
      /\ \A n \in 0 .. Len(log) : FoldedTo(log', n) = FoldedTo(log, n)
      /\ FoldedTo(log', Len(log) + 1) = known \cup {name}
  BY <1>1, LogGrows
<1>3. /\ RestsOn(name, known)
      /\ ~({"payment.authorized", "payment.declined"} \subseteq known \cup {name})
  <2>1. CASE Arrive(name)
    <3>1. CanFollow(name, known)
      BY <1>0, <2>1 DEF Arrive
    <3>2. ~({"payment.authorized", "payment.declined"} \subseteq known)
      BY DEF LogIsCausal
    <3> HIDE DEF known
    <3> QED BY <3>1, <3>2 DEF CanFollow, RestsOn, FactNames
  <2>2. CASE Redeliver(name)
    <3>1. name \in known /\ name # "order.placed"
      BY <1>0, <2>2, RedeliverableAssumption DEF Redeliver
    <3>2. PICK i \in 1 .. Len(log) : name = log[i]
      BY <3>1 DEF FoldedTo
    <3>3. i - 1 \in 0 .. Len(log)
      BY <1>2
    <3>4. RestsOn(name, FoldedTo(log, i - 1)) /\ FoldedTo(log, i - 1) \subseteq known
      BY <1>2, <3>2, <3>3, FoldedGrows DEF LogIsCausal
    <3> QED BY <3>1, <3>4 DEF RestsOn, LogIsCausal
  <2> QED BY <2>1, <2>2
<1> HIDE DEF known
<1>4. ASSUME NEW i \in 1 .. Len(log') PROVE RestsOn(log'[i], FoldedTo(log', i - 1))
  <2>1. CASE i = Len(log) + 1
    BY <1>2, <1>3, <2>1 DEF known
  <2>2. CASE i # Len(log) + 1
    <3>1. i \in 1 .. Len(log) /\ i - 1 \in 0 .. Len(log)
      BY <1>2, <2>2
    <3>2. log'[i] = log[i]
      BY <1>1, <3>1
    <3> QED BY <1>2, <3>1, <3>2 DEF LogIsCausal
  <2> QED BY <2>1, <2>2
<1> QED BY <1>1, <1>2, <1>3, <1>4 DEF LogIsCausal

(* The reducer on one more fact: by the names of known.                     *)
LEMMA StatusStep ==
  ASSUME NEW name \in FactNames, NEW known, Consistent(known),
         RestsOn(name, known), Consistent(known \cup {name})
  PROVE  NextStatus(StatusAfter(known), name) = StatusAfter(known \cup {name})
<1>1. CASE name = "order.placed"
  BY <1>1 DEF NextStatus, StatusAfter, RestsOn
<1>2. CASE name = "order.released"
  <2>1. "order.placed" \in known
    BY <1>2 DEF RestsOn, Consistent
  <2> QED BY <1>2, <2>1 DEF NextStatus, StatusAfter
<1>3. CASE name = "order.paid"
  BY <1>3 DEF NextStatus, StatusAfter
<1>4. CASE name = "order.payment_failed"
  <2>1. "order.paid" \notin known
    BY <1>4 DEF RestsOn, Consistent
  <2> QED BY <1>4, <2>1 DEF NextStatus, StatusAfter
<1>5. CASE name \notin {"order.placed", "order.released", "order.paid", "order.payment_failed"}
  <2>1. NextStatus(StatusAfter(known), name) = StatusAfter(known)
    BY <1>5 DEF NextStatus
  <2>2. StatusAfter(known \cup {name}) = StatusAfter(known)
    BY <1>5 DEF StatusAfter
  <2> QED BY <2>1, <2>2
<1> QED BY <1>1, <1>2, <1>3, <1>4, <1>5

LEMMA RowStep ==
  ASSUME NEW order, NEW name \in FactNames, NEW known, RowSays(order, known),
         Consistent(known), RestsOn(name, known), Consistent(known \cup {name})
  PROVE  RowSays(ApplyFact(order, name), known \cup {name})
<1> DEFINE after == ApplyFact(order, name)
<1>1. after.status = StatusAfter(known \cup {name})
  BY StatusStep DEF ApplyFact, RowSays
<1>2. /\ after.authorizationId = (order.authorizationId \/ name \in {"payment.authorized", "payment.captured"})
      /\ after.captureId = (order.captureId \/ name \in {"payment.captured", "order.paid"})
      /\ after.declineReason = (order.declineReason \/ name = "payment.declined")
  BY DEF ApplyFact
<1>3. {after.authorizationId, after.captureId, after.declineReason} \subseteq BOOLEAN
  BY <1>2, Zenon DEF RowSays
<1>4. /\ after.authorizationId <=> {"payment.authorized", "payment.captured"} \cap (known \cup {name}) # {}
      /\ after.captureId <=> {"payment.captured", "order.paid"} \cap (known \cup {name}) # {}
      /\ after.declineReason <=> "payment.declined" \in known \cup {name}
  <2> HIDE DEF after
  <2>1. after.authorizationId <=> (order.authorizationId \/ name \in {"payment.authorized", "payment.captured"})
    BY <1>2
  <2>2. after.captureId <=> (order.captureId \/ name \in {"payment.captured", "order.paid"})
    BY <1>2
  <2>3. after.declineReason <=> (order.declineReason \/ name = "payment.declined")
    BY <1>2
  <2> QED BY <2>1, <2>2, <2>3 DEF RowSays
<1> QED BY <1>1, <1>3, <1>4 DEF RowSays

(* What the row says is what the operator should see.                       *)
LEMMA RowIsRight ==
  ASSUME ProjectionInv
  PROVE  RowAgreesWithFacts
<1> DEFINE known == FoldedTo(log, applied)
<1>1. Folded = known
  <2>1. log \in Seq(FactNames) /\ applied \in 0 .. Len(log) /\ Len(log) \in Nat
    BY DEF ProjectionInv, LogIsCausal
  <2>2. /\ Len(SubSeq(log, 1, applied)) = applied
        /\ \A i \in 1 .. applied : SubSeq(log, 1, applied)[i] = log[i]
    BY <2>1
  <2>3. DOMAIN SubSeq(log, 1, applied) = 1 .. applied
    BY <2>1, <2>2
  <2> QED BY <2>2, <2>3 DEF Folded, Seen, Range, FoldedTo
<1>2. Consistent(known) /\ RowSays(row, known)
  BY FoldedIsConsistent DEF ProjectionInv
<1> HIDE DEF known
<1>3. StatusIsFurthestFact
  BY <1>1, <1>2 DEF StatusIsFurthestFact, StatusAfter, RowSays
<1>4. /\ row.status = "payment_failed" => "payment.declined" \in known
      /\ row.authorizationId <=> "payment.authorized" \in known
      /\ row.captureId <=> "payment.captured" \in known
      /\ row.declineReason <=> "payment.declined" \in known
  BY <1>2 DEF RowSays, StatusAfter, Consistent
<1>5. StageAgreesWithFacts
  BY <1>1, <1>4 DEF StageAgreesWithFacts, PaymentStage
<1> QED BY <1>3, <1>5 DEF RowAgreesWithFacts

LEMMA ProjectionInvInit ==
  ASSUME InitProjection
  PROVE  ProjectionInv
<1>1. /\ log = <<>> /\ Len(log) = 0 /\ applied = 0 /\ log \in Seq(FactNames)
      /\ 1 .. 0 = {}
  BY DEF InitProjection
<1>2. FoldedTo(log, 0) = {} /\ applied \in 0 .. Len(log)
  BY <1>1 DEF FoldedTo
<1>3. LogIsCausal
  <2>1. ~({"payment.authorized", "payment.declined"} \subseteq FoldedTo(log, Len(log)))
    BY <1>1, <1>2
  <2>2. 1 .. Len(log) = {}
    BY <1>1
  <2> QED BY <1>1, <2>1, <2>2 DEF LogIsCausal
<1>4. RowSays(row, {})
  BY DEF InitProjection, RowSays, StatusAfter
<1> QED BY <1>1, <1>2, <1>3, <1>4 DEF ProjectionInv

LEMMA ProjectionInvStep ==
  ASSUME ProjectionInv, [WebNext]_tabVars
  PROVE  ProjectionInv'
<1>0. LogIsCausal /\ applied \in 0 .. Len(log) /\ Len(log) \in Nat /\ RowSays(row, FoldedTo(log, applied))
  BY DEF ProjectionInv, LogIsCausal
<1>1. ASSUME NEW name \in FactNames, Arrive(name) \/ Redeliver(name)
      PROVE  ProjectionInv'
  <2>1. /\ LogIsCausal' /\ UNCHANGED <<applied, row>> /\ Len(log') = Len(log) + 1
        /\ FoldedTo(log', applied) = FoldedTo(log, applied)
    BY <1>0, <1>1, LogStep
  <2> QED BY <1>0, <2>1 DEF ProjectionInv
<1>2. ASSUME Apply PROVE ProjectionInv'
  <2> DEFINE name == log[applied + 1]  known == FoldedTo(log, applied)
  <2>1. /\ applied + 1 \in 0 .. Len(log) /\ applied + 1 \in 1 .. Len(log) /\ applied < Len(log)
        /\ UNCHANGED log /\ row' = ApplyFact(row, name) /\ applied' = applied + 1
    BY <1>0, <1>2 DEF Apply
  <2>2. name \in FactNames /\ (applied + 1) - 1 = applied
    BY <1>0, <2>1 DEF LogIsCausal
  <2>3. RestsOn(name, known)
    <3>1. RestsOn(log[applied + 1], FoldedTo(log, (applied + 1) - 1))
      BY <1>0, <2>1 DEF LogIsCausal
    <3> QED BY <2>2, <3>1
  <2>4. FoldedTo(log, applied + 1) = known \cup {name}
    BY <1>0, <2>1, FoldedGrows
  <2>5. Consistent(known) /\ Consistent(known \cup {name})
    BY <1>0, <2>1, <2>4, FoldedIsConsistent
  <2>6. RowSays(row', known \cup {name})
    <3> HIDE DEF name, known
    <3> QED BY <1>0, <2>1, <2>2, <2>3, <2>5, RowStep DEF known
  <2>8. LogIsCausal'
    BY <1>0, <2>1 DEF LogIsCausal, FoldedTo
  <2> QED BY <2>1, <2>4, <2>6, <2>8 DEF ProjectionInv
<1>3. ASSUME UNCHANGED <<log, applied, row>> PROVE ProjectionInv'
  BY <1>3 DEF ProjectionInv, LogIsCausal, FoldedTo
<1>4. ASSUME ProjectionNext PROVE ProjectionInv'
  BY <1>1, <1>2, <1>3, <1>4 DEF ProjectionNext, Mount, Unmount, Answer, ShowAnswer, AnswerFails,
     Connect, ShowFrame
<1>5. CASE WebNext
  BY <1>3, <1>4, <1>5 DEF WebNext, projectionVars
<1>6. CASE UNCHANGED tabVars
  BY <1>3, <1>6 DEF tabVars, projectionVars
<1> QED BY <1>5, <1>6

THEOREM ProjectionInvariance == WebSpec => []ProjectionInv
<1>1. WebInit => ProjectionInv
  BY ProjectionInvInit DEF WebInit
<1> QED BY <1>1, ProjectionInvStep, PTL DEF WebSpec

(* The row an operator sees says what the facts folded so far say, whatever *)
(* known are repeated and wherever (projection.go, orders.ts).              *)
THEOREM RowsAgree == WebSpec => []RowAgreesWithFacts
BY ProjectionInvariance, RowIsRight, PTL

-----------------------------------------------------------------------------
(* The supervisor, and the data directory it owns (DataDirectory).         *)

(* The supervisor's table holds the latest incarnation of every row it has *)
(* started, in start order.                                                *)
TableOK ==
  Up =>
    /\ \A i \in DOMAIN entries : i \in DOMAIN Rows /\ entries[i] = <<Rows[i], spawned[Rows[i]]>>
    /\ \A i \in DOMAIN Rows : spawned[Rows[i]] > 0 => i \in DOMAIN entries
    /\ Len(entries) = CASE main = "spawn"               -> k - 1
                        [] main \in {"probe", "failed"} -> k
                        [] main = "running"             -> Len(Rows)
    /\ main \in {"spawn", "probe", "failed"} => k <= Len(Rows)

(* Only the latest incarnation of a row is alive.                          *)
OnlyLatest == \A c \in alive : c[2] = spawned[c[1]]

(* Crash commands belong to a supervisor that has started everything.      *)
TasksOK ==
  /\ task # "idle" => queue # <<>>
  /\ queue # <<>> /\ Up => main = "running"

(* Once stopAll has taken its list no child is started, so the list covers *)
(* what is alive; a shutdown during startup breaks this, and only it.      *)
StopsOK ==
  /\ early => shuttingDown
  /\ Up => \A w \in Callers :
       /\ stop[w] # "no" => stopping /\ (early \/ main \in {"running", "failed"})
       /\ stop[w] = "killing" /\ ~early =>
            task = "idle" /\ queue = <<>> /\ alive \subseteq Range(left[w])

SupervisorOK == TypeOK /\ TableOK /\ OnlyLatest /\ TasksOK /\ StopsOK /\ CleanExit

DirTypeOK ==
  /\ data \in BOOLEAN /\ raced \in BOOLEAN
  /\ claim \in [pid : {"none", "dead", "main", "rival"}, open : BOOLEAN]
  /\ place \in [{"main", "rival", "reset"} ->
                  {"out", "absent", "checked", "refused", "in", "left", "done"}]

(* A supervisor that has not claimed the directory has started nothing.    *)
Outside == place["main"] # "in" => alive = {} /\ main \in {"spawn", "exited"}

(* The claim names the supervisor inside, and nobody else is between check *)
(* and act, unless there was a race.                                       *)
ClaimsHold ==
  ~raced =>
    \A p \in Owners : Inside(p) =>
      claim.pid = p /\ \A q \in {"main", "rival", "reset"} \ {p} : place[q] # "checked"

DirectoryInv == SupervisorOK /\ DirTypeOK /\ Outside /\ ClaimsHold
-----------------------------------------------------------------------------
LEMMA RowFacts ==
  /\ Len(Rows) \in Nat \ {0} /\ DOMAIN Rows = 1 .. Len(Rows)
  /\ \A i \in DOMAIN Rows : Rows[i] \in RowNames
  /\ \A svc \in RowNames : \E i \in DOMAIN Rows : svc = Rows[i]
  /\ \A i, j \in DOMAIN Rows : Rows[i] = Rows[j] => i = j
<1>1. Rows \in Seq(RowNames) /\ Rows # <<>>
  BY RowsAssumption DEF RowNames
<1>2. Len(Rows) \in Nat /\ Len(Rows) # 0 /\ DOMAIN Rows = 1 .. Len(Rows)
  BY <1>1, EmptySeq, LenProperties
<1> QED BY <1>2, RowsAssumption DEF IsInjective, RowNames, Range

(* Every tracked child is found under its row.                             *)
LEMMA TrackedChild ==
  ASSUME SupervisorOK, Up, NEW i \in DOMAIN entries
  PROVE  /\ i \in DOMAIN Rows /\ Position(Rows[i]) = i
         /\ Child(Rows[i]) = entries[i] /\ entries[i] = <<Rows[i], spawned[Rows[i]]>>
<1>1. \A j \in DOMAIN entries : j \in DOMAIN Rows /\ entries[j] = <<Rows[j], spawned[Rows[j]]>>
  BY DEF SupervisorOK, TableOK
<1>2. \A j \in DOMAIN entries : RowOf(entries[j]) = Rows[i] <=> j = i
  BY <1>1, RowFacts DEF RowOf
<1>3. Position(Rows[i]) = i
  BY <1>2 DEF Position
<1> QED BY <1>1, <1>3 DEF Child

(* What is alive is tracked, and is its row's only process.                *)
LEMMA AliveIsTracked ==
  ASSUME SupervisorOK, NEW c \in alive
  PROVE  /\ c[1] \in RowNames /\ spawned[c[1]] \in Nat /\ spawned[c[1]] > 0
         /\ c = <<c[1], spawned[c[1]]>>
         /\ Up => \E i \in DOMAIN entries : Rows[i] = c[1] /\ c = entries[i]
<1>1. c \in Children
  BY DEF SupervisorOK, TypeOK
<1>2. c[1] \in RowNames /\ c[2] \in Nat \ {0} /\ c = <<c[1], c[2]>>
  BY <1>1 DEF Children
<1>3. c[2] = spawned[c[1]]
  BY DEF SupervisorOK, OnlyLatest
<1>4. ASSUME Up PROVE \E i \in DOMAIN entries : Rows[i] = c[1] /\ c = entries[i]
  <2>1. PICK i \in DOMAIN Rows : Rows[i] = c[1]
    BY <1>2, RowFacts
  <2>2. i \in DOMAIN entries
    BY <1>2, <1>3, <1>4, <2>1 DEF SupervisorOK, TableOK
  <2>3. entries[i] = <<Rows[i], spawned[Rows[i]]>>
    BY <1>4, <2>2 DEF SupervisorOK, TableOK
  <2> QED BY <1>2, <1>3, <2>1, <2>2, <2>3
<1> QED BY <1>2, <1>3, <1>4

(* The safety of the supervisor is what its invariant says.                *)
LEMMA SupervisedIsTracked == SupervisorOK => NoChildIsLost
<1> SUFFICES ASSUME SupervisorOK PROVE OneTrackedChildPerRow
  BY DEF NoChildIsLost, SupervisorOK
<1>1. \A c, d \in alive : RowOf(c) = RowOf(d) => c = d
  BY AliveIsTracked DEF RowOf
<1>2. Up => alive \subseteq Range(entries)
  BY AliveIsTracked DEF Range
<1> QED BY <1>1, <1>2 DEF OneTrackedChildPerRow

-----------------------------------------------------------------------------
(* Children come and go.                                                   *)
LEMMA ChildStep ==
  ASSUME SupervisorOK, ChildrenNext
  PROVE  SupervisorOK'
<1>1. PICK c \in Known : Beat(c) \/ Expire(c) \/ Exits(c) \/ Dies(c)
  BY DEF ChildrenNext
<1>2. /\ UNCHANGED <<spawned, entries, main, k, stopVars, taskVars>>
      /\ alive' \subseteq alive /\ fresh' \subseteq fresh \cup alive
      /\ deaths' \in {deaths, deaths + 1}
  BY <1>1 DEF Beat, Expire, Exits, Dies
<1>3. /\ UNCHANGED <<stopping, shuttingDown, stop, left, terminated, early>>
      /\ UNCHANGED <<queue, task, commands>>
  BY <1>2 DEF stopVars, taskVars
<1>4. TypeOK'
  BY <1>2, <1>3 DEF SupervisorOK, TypeOK
<1>5. TableOK' /\ OnlyLatest'
  BY <1>2 DEF SupervisorOK, TableOK, OnlyLatest, Up
<1>6. TasksOK' /\ StopsOK'
  BY <1>2, <1>3 DEF SupervisorOK, TasksOK, StopsOK, Up
<1>7. CleanExit'
  BY <1>2, <1>3 DEF SupervisorOK, CleanExit
<1> QED BY <1>4, <1>5, <1>6, <1>7 DEF SupervisorOK

(* A row is started: it had no child before.                               *)
LEMMA StartStep ==
  ASSUME SupervisorOK, NEW j \in DOMAIN Rows, j = Len(entries) + 1, Start(Rows[j]),
         main \in {"spawn", "probe"}, k' = j, UNCHANGED <<stopVars, taskVars, deaths>>
  PROVE  SupervisorOK'
<1> DEFINE svc == Rows[j]
           new == NextChild(svc)
<1>1. /\ spawned' = [spawned EXCEPT ![svc] = @ + 1] /\ alive' = alive \cup {new}
      /\ fresh' = fresh /\ entries' = Append(entries, new) /\ main' = "probe"
  BY DEF Start, Spawn
<1>2. /\ UNCHANGED <<stopping, shuttingDown, stop, left, terminated, early>>
      /\ UNCHANGED <<queue, task, commands, deaths>>
  BY DEF stopVars, taskVars
<1>3. entries \in Seq(Children) /\ Len(entries) \in Nat /\ DOMAIN entries = 1 .. Len(entries)
  BY LenProperties DEF SupervisorOK, TypeOK
<1>4. Up /\ Up'
  BY <1>1 DEF Up
<1>5. svc \in RowNames /\ spawned[svc] = 0
  <2>1. svc \in RowNames /\ spawned[svc] \in Nat
    BY RowFacts DEF SupervisorOK, TypeOK
  <2>2. j \notin DOMAIN entries
    BY <1>3
  <2> QED BY <1>4, <2>1, <2>2 DEF SupervisorOK, TableOK
<1>6. new = <<svc, 1>> /\ new \in Children
  BY <1>5 DEF NextChild, Children
<1>7. spawned'[svc] = 1 /\ \A r \in RowNames : r # svc => spawned'[r] = spawned[r]
  BY <1>1, <1>5 DEF SupervisorOK, TypeOK
<1>8. /\ entries' \in Seq(Children) /\ Len(entries') = j /\ DOMAIN entries' = 1 .. j
      /\ \A i \in 1 .. Len(entries) : entries'[i] = entries[i]
      /\ entries'[j] = new
  <2>1. /\ entries' \in Seq(Children) /\ Len(entries') = Len(entries) + 1
        /\ \A i \in 1 .. Len(entries) : entries'[i] = entries[i]
        /\ entries'[Len(entries) + 1] = new
    BY <1>1, <1>3, <1>6, AppendProperties
  <2> QED BY <2>1, LenProperties
<1> HIDE DEF new, svc
<1>9. TypeOK'
  <2>1. spawned' \in [RowNames -> Nat]
    BY <1>1, <1>5 DEF SupervisorOK, TypeOK
  <2>2. k' \in 1 .. Len(Rows) + 1
    BY RowFacts
  <2> QED BY <1>1, <1>2, <1>6, <1>8, <2>1, <2>2 DEF SupervisorOK, TypeOK
<1>10. TableOK'
  <2>1. ASSUME NEW i \in DOMAIN entries'
        PROVE  i \in DOMAIN Rows /\ entries'[i] = <<Rows[i], spawned'[Rows[i]]>>
    <3>1. CASE i = j
      BY <1>6, <1>7, <1>8, <3>1 DEF svc
    <3>2. CASE i # j
      <4>1. i \in DOMAIN entries
        BY <1>3, <1>8, <3>2
      <4>2. i \in DOMAIN Rows /\ entries[i] = <<Rows[i], spawned[Rows[i]]>>
        BY <1>4, <4>1 DEF SupervisorOK, TableOK
      <4>3. Rows[i] # svc /\ Rows[i] \in RowNames
        BY <3>2, <4>2, RowFacts DEF svc
      <4> QED BY <1>3, <1>7, <1>8, <4>1, <4>2, <4>3
    <3> QED BY <3>1, <3>2
  <2>2. ASSUME NEW i \in DOMAIN Rows, spawned'[Rows[i]] > 0 PROVE i \in DOMAIN entries'
    <3>1. CASE i = j
      BY <1>3, <1>8, <3>1
    <3>2. CASE i # j
      <4>1. Rows[i] # svc /\ Rows[i] \in RowNames
        BY <3>2, RowFacts DEF svc
      <4>2. i \in DOMAIN entries
        BY <1>4, <1>7, <2>2, <4>1 DEF SupervisorOK, TableOK
      <4> QED BY <1>3, <1>8, <4>2
    <3> QED BY <3>1, <3>2
  <2>3. Len(entries') = k' /\ k' <= Len(Rows)
    BY <1>8, RowFacts
  <2> QED BY <1>1, <2>1, <2>2, <2>3 DEF TableOK
<1>11. OnlyLatest'
  <2> SUFFICES ASSUME NEW c \in alive' PROVE c[2] = spawned'[c[1]]
    BY DEF OnlyLatest
  <2>1. CASE c = new
    BY <1>6, <1>7, <2>1
  <2>2. CASE c # new
    <3>1. c \in alive
      BY <1>1, <2>2
    <3>2. c[1] \in RowNames /\ c[1] # svc /\ c[2] = spawned[c[1]]
      BY <1>5, <3>1, AliveIsTracked DEF SupervisorOK, OnlyLatest
    <3> QED BY <1>7, <3>2
  <2> QED BY <2>1, <2>2
<1>12. TasksOK' /\ StopsOK' /\ CleanExit'
  BY <1>1, <1>2, <1>4 DEF SupervisorOK, TasksOK, StopsOK, CleanExit
<1> QED BY <1>9, <1>10, <1>11, <1>12 DEF SupervisorOK

(* Startup, as main() makes it: the rows in order, each when its           *)
(* predecessor is ready.                                                   *)
LEMMA StartRowStep ==
  ASSUME SupervisorOK, StartRow
  PROVE  SupervisorOK'
<1>1. main = "spawn" /\ Up
  BY DEF StartRow, Up
<1>2. k \in Nat /\ Len(entries) = k - 1 /\ k <= Len(Rows) /\ k >= 1
  BY <1>1, RowFacts DEF SupervisorOK, TypeOK, TableOK
<1>3. k \in DOMAIN Rows /\ k = Len(entries) + 1
  BY <1>2, RowFacts
<1> QED BY <1>1, <1>3, StartStep DEF StartRow

LEMMA RowReadyStep ==
  ASSUME SupervisorOK, RowReady
  PROVE  SupervisorOK'
<1>1. main = "probe" /\ Up /\ k' = k + 1 /\ UNCHANGED <<stopVars, taskVars, deaths>>
  BY DEF RowReady, Up
<1>2. k \in Nat /\ Len(entries) = k /\ k <= Len(Rows) /\ k >= 1 /\ Len(Rows) \in Nat
  BY <1>1, RowFacts DEF SupervisorOK, TypeOK, TableOK
<1>3. CASE 1 < k /\ k < Len(Rows)
  <2>1. k + 1 \in DOMAIN Rows /\ k + 1 = Len(entries) + 1
    BY <1>2, <1>3, RowFacts
  <2> QED BY <1>1, <1>3, <2>1, StartStep DEF RowReady
<1>4. CASE ~(1 < k /\ k < Len(Rows))
  <2>1. /\ main' = IF k = Len(Rows) THEN "running" ELSE "spawn"
        /\ UNCHANGED <<spawned, alive, fresh, entries>>
    BY <1>4 DEF RowReady, childVars
  <2>2. /\ UNCHANGED <<stopping, shuttingDown, stop, left, terminated, early>>
        /\ UNCHANGED <<queue, task, commands, deaths>>
    BY <1>1 DEF stopVars, taskVars
  <2>3. k' \in 1 .. Len(Rows) + 1 /\ (main' = "spawn" => k' <= Len(Rows))
    BY <1>1, <1>2, <2>1
  <2>4. TypeOK'
    BY <2>1, <2>2, <2>3 DEF SupervisorOK, TypeOK
  <2>5. Len(entries') = (IF main' = "running" THEN Len(Rows) ELSE k' - 1) /\ Up'
    BY <1>1, <1>2, <2>1 DEF Up
  <2>6. TableOK'
    BY <1>1, <2>1, <2>3, <2>5 DEF SupervisorOK, TableOK
  <2>7. OnlyLatest' /\ TasksOK' /\ StopsOK' /\ CleanExit'
    BY <1>1, <2>1, <2>2, <2>5
    DEF SupervisorOK, OnlyLatest, TasksOK, StopsOK, CleanExit
  <2> QED BY <2>4, <2>6, <2>7 DEF SupervisorOK
<1> QED BY <1>3, <1>4

LEMMA RowFailsStep ==
  ASSUME SupervisorOK, RowFails
  PROVE  SupervisorOK'
<1>1. /\ main = "probe" /\ main' = "failed" /\ stopping' = TRUE
      /\ stop' = [stop EXCEPT !["startup"] = "await"]
      /\ UNCHANGED <<spawned, alive, fresh, entries, k, shuttingDown, left, terminated, early>>
      /\ UNCHANGED <<queue, task, commands, deaths>>
  BY DEF RowFails, CallStopAll, childVars, taskVars
<1>2. TypeOK'
  BY <1>1 DEF SupervisorOK, TypeOK, Callers
<1>3. Up /\ Up'
  BY <1>1 DEF Up
<1>4. TableOK' /\ OnlyLatest'
  BY <1>1, <1>3 DEF SupervisorOK, TableOK, OnlyLatest
<1>5. TasksOK' /\ CleanExit'
  BY <1>1, <1>3 DEF SupervisorOK, TasksOK, CleanExit
<1>6. StopsOK'
  BY <1>1, <1>3 DEF SupervisorOK, TypeOK, StopsOK, Callers
<1> QED BY <1>2, <1>4, <1>5, <1>6 DEF SupervisorOK

(* A signal, or the exit of the engine.                                    *)
LEMMA ShutdownStep ==
  ASSUME SupervisorOK, Shutdown
  PROVE  SupervisorOK'
<1>1. /\ Up /\ ~shuttingDown /\ shuttingDown' = TRUE
      /\ early' = (main \in {"spawn", "probe"}) /\ stopping' = TRUE
      /\ stop' = [stop EXCEPT !["shutdown"] = "await"]
      /\ UNCHANGED <<spawned, alive, fresh, entries, main, k, left, terminated>>
      /\ UNCHANGED <<queue, task, commands, deaths>>
  BY DEF Shutdown, CallStopAll, childVars, taskVars
<1>2. TypeOK'
  BY <1>1 DEF SupervisorOK, TypeOK, Callers
<1>3. Up' /\ ~early
  BY <1>1 DEF Up, SupervisorOK, StopsOK
<1>4. TableOK' /\ OnlyLatest'
  BY <1>1, <1>3 DEF SupervisorOK, TableOK, OnlyLatest
<1>5. TasksOK' /\ CleanExit'
  BY <1>1, <1>3 DEF SupervisorOK, TasksOK, CleanExit, Up
<1>6. main \in {"spawn", "probe", "running", "failed"}
  BY <1>1 DEF SupervisorOK, TypeOK, Up
<1>7. StopsOK'
  BY <1>1, <1>3, <1>6 DEF SupervisorOK, TypeOK, StopsOK, Callers
<1> QED BY <1>2, <1>4, <1>5, <1>7 DEF SupervisorOK

(* A second signal, and SIGKILL: whatever runs goes on without a supervisor. *)
LEMMA AbortStep ==
  ASSUME SupervisorOK, main' = "aborted",
         UNCHANGED <<childVars, entries, k, stopVars, taskVars, deaths>>
  PROVE  SupervisorOK'
<1>1. /\ UNCHANGED <<spawned, alive, fresh, entries, k, deaths>>
      /\ UNCHANGED <<stopping, shuttingDown, stop, left, terminated, early>>
      /\ UNCHANGED <<queue, task, commands>>
  BY DEF childVars, stopVars, taskVars
<1>2. TypeOK' /\ ~Up'
  BY <1>1 DEF SupervisorOK, TypeOK, Up
<1>3. TableOK' /\ OnlyLatest' /\ TasksOK' /\ StopsOK' /\ CleanExit'
  BY <1>1, <1>2 DEF SupervisorOK, TableOK, OnlyLatest, TasksOK, StopsOK, CleanExit
<1> QED BY <1>2, <1>3 DEF SupervisorOK

-----------------------------------------------------------------------------
(* stopAll.                                                                *)

(* The list of stopAll holds what is alive until the last child is gone.   *)
LEMMA StopSnapshotStep ==
  ASSUME SupervisorOK, NEW w \in Callers, StopSnapshot(w)
  PROVE  SupervisorOK'
<1>1. /\ Up /\ stop[w] = "await" /\ task = "idle" /\ queue = <<>>
      /\ stop' = [stop EXCEPT ![w] = "killing"]
      /\ left' = [left EXCEPT ![w] = Reverse(entries)]
      /\ UNCHANGED <<spawned, alive, fresh, entries, main, k, stopping, shuttingDown, terminated, early>>
      /\ UNCHANGED <<queue, task, commands, deaths>>
  BY DEF StopSnapshot, RestartSettled, StopOrder, childVars, taskVars
<1>2. entries \in Seq(Children) /\ Len(entries) \in Nat /\ DOMAIN entries = 1 .. Len(entries)
  BY LenProperties DEF SupervisorOK, TypeOK
<1>3. Reverse(entries) = [i \in 1 .. Len(entries) |-> entries[Len(entries) - i + 1]]
  BY DEF Reverse
<1>4. \A i \in 1 .. Len(entries) : Len(entries) - i + 1 \in 1 .. Len(entries)
  BY <1>2
<1>5. Reverse(entries) \in Seq(Children)
  <2>1. \A i \in 1 .. Len(entries) : entries[Len(entries) - i + 1] \in Children
    BY <1>2, <1>4, ElementOfSeq
  <2>2. Reverse(entries) \in [1 .. Len(entries) -> Children]
    BY <1>3, <2>1
  <2> QED BY <1>2, <2>2, SeqDef
<1>6. Range(entries) \subseteq Range(Reverse(entries))
  <2> SUFFICES ASSUME NEW i \in 1 .. Len(entries) PROVE entries[i] \in Range(Reverse(entries))
    BY <1>2 DEF Range
  <2>1. Len(entries) - i + 1 \in 1 .. Len(entries) /\ Len(entries) - (Len(entries) - i + 1) + 1 = i
    BY <1>2
  <2>2. Reverse(entries)[Len(entries) - i + 1] = entries[i]
    BY <1>3, <2>1
  <2>3. DOMAIN Reverse(entries) = 1 .. Len(entries)
    BY <1>3
  <2> QED BY <2>1, <2>2, <2>3 DEF Range
<1>7. alive \subseteq Range(Reverse(entries))
  BY <1>1, <1>6, SupervisedIsTracked DEF NoChildIsLost, OneTrackedChildPerRow
<1>8. TypeOK' /\ Up'
  BY <1>1, <1>5 DEF SupervisorOK, TypeOK, Up
<1>9. TableOK' /\ OnlyLatest' /\ TasksOK' /\ CleanExit'
  BY <1>1, <1>8 DEF SupervisorOK, TableOK, OnlyLatest, TasksOK, CleanExit
<1>10. StopsOK'
  <2>1. \A v \in Callers : /\ v = w => stop'[v] = "killing" /\ left'[v] = Reverse(entries)
                           /\ v # w => stop'[v] = stop[v] /\ left'[v] = left[v]
    BY <1>1 DEF SupervisorOK, TypeOK
  <2> QED BY <1>1, <1>7, <1>8, <2>1 DEF SupervisorOK, StopsOK
<1> QED BY <1>8, <1>9, <1>10 DEF SupervisorOK

LEMMA StopChildStep ==
  ASSUME SupervisorOK, NEW w \in Callers, StopChild(w)
  PROVE  SupervisorOK'
<1>1. /\ Up /\ left[w] # <<>>
      /\ UNCHANGED <<spawned, alive, fresh, entries, main, k, stopping, shuttingDown, stop, early>>
      /\ UNCHANGED <<queue, task, commands, deaths>>
  BY DEF StopChild, childVars, taskVars
<1>2. left[w] \in Seq(Children)
  BY DEF SupervisorOK, TypeOK
<1>3. Head(left[w]) \in Children /\ Tail(left[w]) \in Seq(Children)
  BY <1>1, <1>2, HeadTailProperties
<1>4. Range(left[w]) \subseteq {Head(left[w])} \cup Range(Tail(left[w]))
  <2> SUFFICES ASSUME NEW i \in DOMAIN left[w], i # 1 PROVE left[w][i] \in Range(Tail(left[w]))
    BY <1>1, <1>2 DEF Range
  <2>1. /\ DOMAIN left[w] = 1 .. Len(left[w]) /\ Len(left[w]) \in Nat
        /\ Len(Tail(left[w])) = Len(left[w]) - 1
        /\ DOMAIN Tail(left[w]) = 1 .. Len(Tail(left[w]))
        /\ \A n \in 1 .. Len(Tail(left[w])) : Tail(left[w])[n] = left[w][n + 1]
    BY <1>1, <1>2, <1>3, LenProperties, HeadTailProperties
  <2>2. i - 1 \in 1 .. Len(Tail(left[w])) /\ (i - 1) + 1 = i
    BY <2>1
  <2> QED BY <2>1, <2>2 DEF Range
<1>5. left' \in [Callers -> Seq(Children)] /\ terminated' \subseteq Children
  BY <1>2, <1>3 DEF StopChild, SupervisorOK, TypeOK
<1>6. TypeOK' /\ Up'
  BY <1>1, <1>5 DEF SupervisorOK, TypeOK, Up
<1>7. TableOK' /\ OnlyLatest' /\ TasksOK' /\ CleanExit'
  BY <1>1, <1>6 DEF SupervisorOK, TableOK, OnlyLatest, TasksOK, CleanExit
<1>8. ASSUME NEW v \in Callers, alive \subseteq Range(left[v]) PROVE alive \subseteq Range(left'[v])
  BY <1>4, <1>8 DEF StopChild, SupervisorOK, TypeOK
<1>9. StopsOK'
  BY <1>1, <1>6, <1>8 DEF SupervisorOK, StopsOK
<1> QED BY <1>6, <1>7, <1>9 DEF SupervisorOK

(* The list is empty: so is the set of children, unless startup went on.   *)
LEMMA StopDoneStep ==
  ASSUME SupervisorOK, NEW w \in Callers, StopDone(w)
  PROVE  SupervisorOK'
<1>1. /\ Up /\ stop[w] = "killing" /\ left[w] = <<>>
      /\ entries' = <<>> /\ stopping' = FALSE /\ main' = "exited"
      /\ UNCHANGED <<spawned, alive, fresh, k, shuttingDown, stop, left, terminated, early>>
      /\ UNCHANGED <<queue, task, commands, deaths>>
  BY DEF StopDone, childVars, taskVars
<1>2. ~early => alive = {}
  BY <1>1 DEF SupervisorOK, StopsOK, Range
<1>3. TypeOK' /\ ~Up'
  BY <1>1 DEF SupervisorOK, TypeOK, Up
<1>4. TableOK' /\ OnlyLatest' /\ TasksOK' /\ StopsOK' /\ CleanExit'
  BY <1>1, <1>2, <1>3 DEF SupervisorOK, TableOK, OnlyLatest, TasksOK, StopsOK, CleanExit
<1> QED BY <1>3, <1>4 DEF SupervisorOK

-----------------------------------------------------------------------------
(* crashAndRestart.                                                        *)

LEMMA CommandStep ==
  ASSUME SupervisorOK, NEW svc, Command(svc)
  PROVE  SupervisorOK'
<1>1. /\ main = "running" /\ ~stopping /\ svc \in Crashable
      /\ commands' = commands + 1 /\ queue' = Append(queue, svc)
      /\ UNCHANGED <<spawned, alive, fresh, entries, main, k, task, deaths>>
      /\ UNCHANGED <<stopping, shuttingDown, stop, left, terminated, early>>
  BY DEF Command, childVars, stopVars
<1>2. queue' \in Seq(Crashable) /\ queue' # <<>>
  BY <1>1, AppendProperties, EmptySeq DEF SupervisorOK, TypeOK
<1>3. TypeOK' /\ Up /\ Up'
  BY <1>1, <1>2 DEF SupervisorOK, TypeOK, Up
<1>4. TableOK' /\ OnlyLatest' /\ TasksOK' /\ CleanExit'
  BY <1>1, <1>2, <1>3 DEF SupervisorOK, TableOK, OnlyLatest, TasksOK, CleanExit
<1>5. StopsOK'
  BY <1>1, <1>3 DEF SupervisorOK, StopsOK
<1> QED BY <1>3, <1>4, <1>5 DEF SupervisorOK

(* The steps of a command that start no child.                             *)
LEMMA TaskStep ==
  ASSUME SupervisorOK, TaskBegin \/ TaskReady \/ TaskFails
  PROVE  SupervisorOK'
<1>1. /\ Up /\ UNCHANGED <<spawned, alive, fresh, entries, main, k, commands, deaths>>
      /\ UNCHANGED <<stopping, shuttingDown, stop, left, terminated, early>>
  BY DEF TaskBegin, TaskReady, TaskFails, childVars, stopVars
<1>2. queue # <<>> /\ queue \in Seq(Crashable)
  BY DEF TaskBegin, TaskReady, TaskFails, SupervisorOK, TypeOK, TasksOK
<1>3. Tail(queue) \in Seq(Crashable)
  BY <1>2, HeadTailProperties
<1>4. /\ task' \in {"idle", "kill", "probe"} /\ queue' \in {queue, Tail(queue)}
      /\ task' # "idle" => queue' = queue
  BY DEF TaskBegin, TaskReady, TaskFails, SupervisorOK, TypeOK
<1>5. TypeOK' /\ Up'
  BY <1>1, <1>2, <1>3, <1>4 DEF SupervisorOK, TypeOK, Up
<1>6. TableOK' /\ OnlyLatest' /\ TasksOK' /\ CleanExit'
  BY <1>1, <1>2, <1>4, <1>5 DEF SupervisorOK, TableOK, OnlyLatest, TasksOK, CleanExit
<1>7. StopsOK'
  BY <1>1, <1>2, <1>5 DEF SupervisorOK, StopsOK
<1> QED BY <1>5, <1>6, <1>7 DEF SupervisorOK

(* The replacement takes the place of a child that has exited.             *)
LEMMA TaskRestartStep ==
  ASSUME SupervisorOK, TaskRestart
  PROVE  SupervisorOK'
<1>1. /\ Up /\ task = "kill" /\ task' = "probe" /\ Child(Target) \notin alive
      /\ spawned' = [spawned EXCEPT ![Target] = @ + 1]
      /\ alive' = alive \cup {NextChild(Target)} /\ fresh' = fresh
      /\ entries' = [entries EXCEPT ![Position(Target)] = NextChild(Target)]
      /\ UNCHANGED <<main, k, queue, commands, deaths>>
      /\ UNCHANGED <<stopping, shuttingDown, stop, left, terminated, early>>
  BY DEF TaskRestart, Spawn, KillAwaited, Replaced, stopVars
<1>2. queue # <<>> /\ queue \in Seq(Crashable) /\ main = "running"
  BY <1>1 DEF SupervisorOK, TypeOK, TasksOK
<1>3. Target \in RowNames
  BY <1>2, HeadTailProperties, RowsAssumption DEF Target, RowNames
<1>4. PICK j \in DOMAIN Rows : Rows[j] = Target
  BY <1>3, RowFacts
<1>5. /\ entries \in Seq(Children) /\ Len(entries) = Len(Rows)
      /\ DOMAIN entries = 1 .. Len(entries) /\ DOMAIN entries = DOMAIN Rows
  BY <1>1, <1>2, RowFacts, LenProperties DEF SupervisorOK, TypeOK, TableOK
<1>6. Position(Target) = j /\ Child(Target) = <<Target, spawned[Target]>>
  BY <1>1, <1>4, <1>5, TrackedChild
<1> DEFINE new == NextChild(Target)
<1>7. spawned[Target] \in Nat /\ new = <<Target, spawned[Target] + 1>> /\ new \in Children
  BY <1>3 DEF NextChild, Children, SupervisorOK, TypeOK
<1>8. spawned' \in [RowNames -> Nat] /\ spawned'[Target] = spawned[Target] + 1
      /\ \A r \in RowNames : r # Target => spawned'[r] = spawned[r]
  BY <1>1, <1>3, <1>7 DEF SupervisorOK, TypeOK
<1>9. /\ entries' \in Seq(Children) /\ Len(entries') = Len(entries) /\ DOMAIN entries' = DOMAIN Rows
      /\ entries'[j] = new /\ \A i \in DOMAIN Rows : i # j => entries'[i] = entries[i]
  <2>1. entries' = [entries EXCEPT ![j] = new]
    BY <1>1, <1>6
  <2>2. entries' \in Seq(Children) /\ Len(entries') = Len(entries)
    BY <1>4, <1>5, <1>7, <2>1, ExceptSeq
  <2> QED BY <1>4, <1>5, <2>1, <2>2
<1> HIDE DEF new
<1>10. TypeOK' /\ Up'
  BY <1>1, <1>7, <1>8, <1>9 DEF new, SupervisorOK, TypeOK, Up
<1>11. TableOK'
  <2>1. ASSUME NEW i \in DOMAIN Rows PROVE entries'[i] = <<Rows[i], spawned'[Rows[i]]>>
    <3>1. CASE i = j
      BY <1>4, <1>7, <1>8, <1>9, <3>1
    <3>2. CASE i # j
      <4>1. Rows[i] # Target /\ Rows[i] \in RowNames
        BY <1>4, <3>2, RowFacts
      <4>2. entries[i] = <<Rows[i], spawned[Rows[i]]>>
        BY <1>1, <1>5 DEF SupervisorOK, TableOK
      <4> QED BY <1>8, <1>9, <3>2, <4>1, <4>2
    <3> QED BY <3>1, <3>2
  <2> QED BY <1>1, <1>2, <1>5, <1>9, <2>1 DEF TableOK
<1>12. OnlyLatest'
  <2> SUFFICES ASSUME NEW c \in alive' PROVE c[2] = spawned'[c[1]]
    BY DEF OnlyLatest
  <2>1. CASE c = new
    BY <1>7, <1>8, <2>1
  <2>2. CASE c # new
    <3>1. c \in alive
      BY <1>1, <2>2 DEF new
    <3>2. c[1] \in RowNames /\ c = <<c[1], spawned[c[1]]>>
      BY <3>1, AliveIsTracked
    <3>3. c[1] # Target
      BY <1>1, <1>6, <3>1, <3>2
    <3> QED BY <1>8, <3>2, <3>3
  <2> QED BY <2>1, <2>2
<1>13. TasksOK' /\ CleanExit'
  BY <1>1, <1>2, <1>10 DEF SupervisorOK, TasksOK, CleanExit
<1>14. StopsOK'
  BY <1>1, <1>10 DEF SupervisorOK, StopsOK
<1> QED BY <1>10, <1>11, <1>12, <1>13, <1>14 DEF SupervisorOK

-----------------------------------------------------------------------------
(* The supervisor keeps its invariant, whatever it does.                   *)

LEMMA IdleStep ==
  ASSUME SupervisorOK, UNCHANGED supervisorVars
  PROVE  SupervisorOK'
<1>1. /\ UNCHANGED <<spawned, alive, fresh, entries, main, k, deaths>>
      /\ UNCHANGED <<stopping, shuttingDown, stop, left, terminated, early>>
      /\ UNCHANGED <<queue, task, commands>>
  BY DEF supervisorVars, childVars, stopVars, taskVars
<1> QED BY <1>1 DEF SupervisorOK, TypeOK, TableOK, OnlyLatest, TasksOK, StopsOK, CleanExit, Up

LEMMA SupervisingStep ==
  ASSUME SupervisorOK, Supervising \/ Signal \/ SecondSignal
  PROVE  SupervisorOK' /\ Up
<1>1. CASE StartRow
  BY <1>1, StartRowStep DEF StartRow, Up
<1>2. CASE RowReady
  BY <1>2, RowReadyStep DEF RowReady, Up
<1>3. CASE RowFails
  BY <1>3, RowFailsStep DEF RowFails, Up
<1>4. CASE EngineExit \/ Signal
  <2>1. Shutdown
    BY <1>4 DEF EngineExit, Signal
  <2> QED BY <2>1, ShutdownStep DEF Shutdown
<1>5. CASE \E w \in Callers : StopSnapshot(w) \/ StopChild(w) \/ StopDone(w)
  BY <1>5, StopSnapshotStep, StopChildStep, StopDoneStep DEF StopSnapshot, StopChild, StopDone
<1>6. CASE TaskBegin \/ TaskReady \/ TaskFails
  BY <1>6, TaskStep DEF TaskBegin, TaskReady, TaskFails
<1>7. CASE TaskRestart
  BY <1>7, TaskRestartStep DEF TaskRestart
<1>8. CASE SecondSignal
  BY <1>8, AbortStep DEF SecondSignal
<1> QED BY <1>1, <1>2, <1>3, <1>4, <1>5, <1>6, <1>7, <1>8 DEF Supervising

-----------------------------------------------------------------------------
(* The directory.                                                          *)

(* What the handshake file may hold.                                       *)
LEMMA FileContents ==
  LET File == [pid : {"none", "dead", "main", "rival"}, open : BOOLEAN]
  IN  Unclaimed \in File /\ Leftover \in File /\ [pid |-> "main", open |-> TRUE] \in File
<1> DEFINE File == [pid : {"none", "dead", "main", "rival"}, open : BOOLEAN]
<1>1. \A name \in {"none", "dead", "main", "rival"}, b \in BOOLEAN :
        [pid |-> name, open |-> b] \in File
  OBVIOUS
<1> HIDE DEF File
<1>2. Unclaimed \in File /\ Leftover \in File
  BY <1>1 DEF Unclaimed, Leftover
<1>3. [pid |-> "main", open |-> TRUE] \in File
  BY <1>1
<1> QED BY <1>2, <1>3 DEF File

(* Two supervisors are inside only after a race: the claim names one.      *)
LEMMA ClaimedByOne ==
  ASSUME ClaimsHold, ~raced
  PROVE  ~(Inside("main") /\ Inside("rival"))
BY DEF ClaimsHold, Owners

(* Steps that leave the directory alone.                                   *)
LEMMA DirFrame ==
  ASSUME DirTypeOK, Outside, ClaimsHold, UNCHANGED <<data, claim, place, raced>>,
         alive' \subseteq alive, main' = main \/ (place["main"] = "in" /\ main' = "aborted")
  PROVE  DirTypeOK' /\ Outside' /\ ClaimsHold'
<1>1. DirTypeOK' /\ Outside'
  BY DEF DirTypeOK, Outside
<1>2. \A p \in Owners : Inside(p)' => Inside(p)
  BY DEF Owners, Inside, IsPidLive, Up
<1> QED BY <1>1, <1>2 DEF ClaimsHold

(* The check: it refuses while the one the file names is alive.            *)
LEMMA AssertSoleOwnerStep ==
  ASSUME DirectoryInv, NEW p \in Owners, AssertSoleOwner(p)
  PROVE  DirectoryInv'
<1>1. /\ place[p] = "out" /\ data' = TRUE
      /\ UNCHANGED <<spawned, alive, fresh, entries, k, deaths, claim, raced>>
      /\ UNCHANGED <<stopping, shuttingDown, stop, left, terminated, early>>
      /\ UNCHANGED <<queue, task, commands>>
  BY DEF AssertSoleOwner, childVars, stopVars, taskVars
<1>2. place' = [place EXCEPT ![p] = IF IsPidLive(claim.pid) THEN "refused" ELSE "checked"]
  BY DEF AssertSoleOwner
<1>3. main' = main \/ (p = "main" /\ main' = "exited")
  BY DEF AssertSoleOwner
<1>4. DirTypeOK'
  BY <1>1, <1>2 DEF DirectoryInv, DirTypeOK
<1>5. \A q \in Owners : Inside(q)' => q # p /\ Inside(q)
  BY <1>1, <1>2, <1>3 DEF DirectoryInv, DirTypeOK, Owners, Inside, IsPidLive, Up
<1>6. ClaimsHold'
  <2> SUFFICES ASSUME ~raced', NEW q \in Owners, Inside(q)'
               PROVE  claim'.pid = q /\ \A r \in {"main", "rival", "reset"} \ {q} : place'[r] # "checked"
    BY DEF ClaimsHold
  <2>1. claim.pid = q /\ \A r \in {"main", "rival", "reset"} \ {q} : place[r] # "checked"
    BY <1>1, <1>5 DEF DirectoryInv, ClaimsHold
  <2>2. IsPidLive(claim.pid)
    BY <1>5, <2>1 DEF Inside
  <2> QED BY <1>1, <1>2, <2>1, <2>2 DEF DirectoryInv, DirTypeOK
<1>7. Outside'
  BY <1>1, <1>2, <1>3 DEF DirectoryInv, DirTypeOK, Outside, Owners
<1>8. SupervisorOK'
  <2>1. CASE main' = main
    BY <1>1, <2>1, IdleStep DEF DirectoryInv, supervisorVars, childVars, stopVars, taskVars
  <2>2. CASE p = "main" /\ main' = "exited"
    <3>1. alive = {}
      BY <1>1, <2>2 DEF DirectoryInv, Outside
    <3>2. TypeOK' /\ ~Up'
      BY <1>1, <2>2 DEF DirectoryInv, SupervisorOK, TypeOK, Up
    <3>3. TableOK' /\ OnlyLatest' /\ TasksOK' /\ StopsOK' /\ CleanExit'
      BY <1>1, <3>1, <3>2 DEF DirectoryInv, SupervisorOK, TableOK, OnlyLatest, TasksOK, StopsOK, CleanExit
    <3> QED BY <3>2, <3>3 DEF SupervisorOK
  <2> QED BY <1>3, <2>1, <2>2
<1> QED BY <1>4, <1>6, <1>7, <1>8 DEF DirectoryInv

(* The act: unless somebody else has checked meanwhile, it is alone.       *)
LEMMA ClaimDirectoryStep ==
  ASSUME DirectoryInv, NEW p \in Owners, ClaimDirectory(p)
  PROVE  DirectoryInv'
<1>1. /\ place[p] = "checked" /\ place' = [place EXCEPT ![p] = "in"]
      /\ data' = TRUE /\ claim' = [pid |-> p, open |-> FALSE]
      /\ raced' = (raced \/ \E q \in DOMAIN place \ {p} : place[q] = "checked")
      /\ UNCHANGED supervisorVars
  BY DEF ClaimDirectory, ClaimOf
<1>2. main' = main /\ alive' = alive
  BY <1>1 DEF supervisorVars, childVars
<1>3. SupervisorOK'
  BY <1>1, IdleStep DEF DirectoryInv
<1>4. DirTypeOK' /\ Outside'
  BY <1>1, <1>2 DEF DirectoryInv, DirTypeOK, Outside, Owners
<1>5. ClaimsHold'
  <2> SUFFICES ASSUME ~raced', NEW q \in Owners, Inside(q)'
               PROVE  claim'.pid = q /\ \A r \in {"main", "rival", "reset"} \ {q} : place'[r] # "checked"
    BY DEF ClaimsHold
  <2>1. DOMAIN place = {"main", "rival", "reset"}
    BY DEF DirectoryInv, DirTypeOK
  <2>2. ~raced /\ \A r \in {"main", "rival", "reset"} \ {p} : place[r] # "checked"
    BY <1>1, <2>1
  <2>3. CASE q = p
    BY <1>1, <2>1, <2>2, <2>3
  <2>4. CASE q # p
    <3>1. Inside(q)
      BY <1>1, <1>2, <2>1, <2>4 DEF Inside, IsPidLive, Up, Owners
    <3>2. place[p] # "checked"
      BY <2>2, <2>4, <3>1 DEF DirectoryInv, ClaimsHold, Owners
    <3> QED BY <1>1, <3>2
  <2> QED BY <2>3, <2>4
<1> QED BY <1>3, <1>4, <1>5 DEF DirectoryInv

(* What the supervisor does inside: its file follows it.                   *)
LEMMA OwnStep ==
  ASSUME DirectoryInv, OwnSteps
  PROVE  DirectoryInv'
<1>1. place["main"] = "in" /\ FileFollows /\ UNCHANGED <<data, place, raced>>
  BY DEF OwnSteps
<1>2. SupervisorOK' /\ Up
  BY SupervisingStep DEF DirectoryInv, OwnSteps
<1>3. /\ claim' = claim \/ claim' = Unclaimed \/ claim' = [pid |-> "main", open |-> TRUE]
      /\ Up' => claim' = claim \/ claim' = [pid |-> "main", open |-> TRUE]
  <2>1. CASE main' = "running" /\ main # "running"
    <3>1. main' # "exited"
      BY <2>1
    <3> QED BY <1>1, <2>1, <3>1 DEF FileFollows
  <2>2. CASE main' = "exited"
    <3>1. main' # "running"
      BY <2>2
    <3> QED BY <1>1, <2>2, <3>1 DEF FileFollows, Up
  <2>3. CASE ~(main' = "running" /\ main # "running") /\ main' # "exited"
    BY <1>1, <2>3 DEF FileFollows
  <2> QED BY <2>1, <2>2, <2>3
<1>4. DirTypeOK' /\ Outside'
  <2>1. claim' \in [pid : {"none", "dead", "main", "rival"}, open : BOOLEAN]
    BY <1>3, FileContents DEF DirectoryInv, DirTypeOK
  <2>2. DirTypeOK'
    BY <1>1, <2>1 DEF DirectoryInv, DirTypeOK
  <2>3. Outside'
    BY <1>1 DEF Outside
  <2> QED BY <2>2, <2>3
<1>5. Inside("main")
  BY <1>1, <1>2 DEF Inside, IsPidLive
<1>6. ClaimsHold'
  <2> SUFFICES ASSUME ~raced', NEW q \in Owners, Inside(q)'
               PROVE  claim'.pid = q /\ \A r \in {"main", "rival", "reset"} \ {q} : place'[r] # "checked"
    BY DEF ClaimsHold
  <2>1. claim.pid = "main" /\ \A r \in {"main", "rival", "reset"} \ {"main"} : place[r] # "checked"
    BY <1>1, <1>5 DEF DirectoryInv, ClaimsHold, Owners
  <2>2. q = "main"
    <3>1. ASSUME q = "rival" PROVE Inside("rival")
      BY <1>1, <3>1 DEF Inside, IsPidLive
    <3> QED BY <1>1, <1>5, <3>1, ClaimedByOne DEF DirectoryInv, Owners
  <2>3. Up'
    BY <2>2 DEF Inside, IsPidLive
  <2> QED BY <1>1, <1>3, <2>1, <2>2, <2>3
<1> QED BY <1>2, <1>4, <1>6 DEF DirectoryInv

LEMMA KillStep ==
  ASSUME DirectoryInv, KillSupervisor
  PROVE  DirectoryInv'
<1>1. /\ place["main"] = "in" /\ main' = "aborted"
      /\ UNCHANGED <<childVars, entries, k, stopVars, taskVars, deaths>>
      /\ UNCHANGED <<data, claim, place, raced>> /\ alive' = alive
  BY DEF KillSupervisor, Inside, dirVars, childVars
<1>2. SupervisorOK'
  BY <1>1, AbortStep DEF DirectoryInv
<1>3. DirTypeOK' /\ Outside' /\ ClaimsHold'
  BY <1>1, DirFrame DEF DirectoryInv
<1> QED BY <1>2, <1>3 DEF DirectoryInv

LEMMA RivalLeavesStep ==
  ASSUME DirectoryInv, RivalLeaves
  PROVE  DirectoryInv'
<1>1. /\ Inside("rival") /\ place' = [place EXCEPT !["rival"] = "left"]
      /\ claim' = Unclaimed /\ UNCHANGED supervisorVars /\ UNCHANGED <<data, raced>>
      /\ main' = main /\ alive' = alive
  BY DEF RivalLeaves, supervisorVars, childVars
<1>2. SupervisorOK'
  BY <1>1, IdleStep DEF DirectoryInv
<1>3. DirTypeOK' /\ Outside'
  BY <1>1 DEF DirectoryInv, DirTypeOK, Outside, Unclaimed
<1>4. ClaimsHold'
  <2> SUFFICES ASSUME ~raced', NEW q \in Owners, Inside(q)' PROVE FALSE
    BY DEF ClaimsHold
  <2>1. q = "main"
    BY <1>1 DEF DirectoryInv, DirTypeOK, Owners, Inside
  <2>2. Inside("main")
    BY <1>1, <2>1 DEF DirectoryInv, DirTypeOK, Inside, IsPidLive, Up
  <2> QED BY <1>1, <2>2, ClaimedByOne DEF DirectoryInv
<1> QED BY <1>2, <1>3, <1>4 DEF DirectoryInv

(* reset.mjs.                                                              *)
LEMMA ResetStep ==
  ASSUME DirectoryInv, AssertResettable \/ RemoveData
  PROVE  DirectoryInv'
<1>1. UNCHANGED supervisorVars /\ UNCHANGED raced /\ main' = main /\ alive' = alive
  BY DEF AssertResettable, RemoveData, supervisorVars, childVars
<1>2. SupervisorOK'
  BY <1>1, IdleStep DEF DirectoryInv
<1>3. DOMAIN place = {"main", "rival", "reset"}
  BY DEF DirectoryInv, DirTypeOK
<1>4. CASE AssertResettable
  <2>1. /\ UNCHANGED <<data, claim>>
        /\ place' = [place EXCEPT !["reset"] = CASE ~data -> "done"
                                                 [] IsPidLive(claim.pid) -> "refused"
                                                 [] OTHER -> "checked"]
    BY <1>4 DEF AssertResettable
  <2>2. /\ place'["reset"] \in {"done", "refused", "checked"}
        /\ IsPidLive(claim.pid) => place'["reset"] # "checked"
        /\ place'["main"] = place["main"] /\ place'["rival"] = place["rival"]
    BY <1>3, <2>1
  <2>3. DirTypeOK' /\ Outside'
    BY <1>1, <2>1, <2>2 DEF DirectoryInv, DirTypeOK, Outside
  <2>4. ClaimsHold'
    <3> SUFFICES ASSUME ~raced', NEW q \in Owners, Inside(q)'
                 PROVE  claim'.pid = q /\ \A r \in {"main", "rival", "reset"} \ {q} : place'[r] # "checked"
      BY DEF ClaimsHold
    <3>1. Inside(q)
      BY <1>1, <2>2 DEF Owners, Inside, IsPidLive, Up
    <3>2. claim.pid = q /\ \A r \in {"main", "rival", "reset"} \ {q} : place[r] # "checked"
      BY <1>1, <3>1 DEF DirectoryInv, ClaimsHold
    <3>3. IsPidLive(claim.pid)
      BY <3>1, <3>2 DEF Inside
    <3> QED BY <2>1, <2>2, <3>2, <3>3
  <2> QED BY <1>2, <2>3, <2>4 DEF DirectoryInv
<1>5. CASE RemoveData
  <2>1. /\ place["reset"] = "checked" /\ place' = [place EXCEPT !["reset"] = "done"]
        /\ data' = FALSE /\ claim' = Unclaimed
    BY <1>5 DEF RemoveData
  <2>2. DirTypeOK' /\ Outside'
    BY <1>1, <1>3, <2>1 DEF DirectoryInv, DirTypeOK, Outside, Unclaimed
  <2>3. ClaimsHold'
    <3> SUFFICES ASSUME ~raced', NEW q \in Owners, Inside(q)' PROVE FALSE
      BY DEF ClaimsHold
    <3>1. Inside(q) /\ q # "reset"
      BY <1>1, <1>3, <2>1 DEF Owners, Inside, IsPidLive, Up
    <3> QED BY <1>1, <2>1, <3>1 DEF DirectoryInv, ClaimsHold
  <2> QED BY <1>2, <2>2, <2>3 DEF DirectoryInv
<1> QED BY <1>4, <1>5

(* control.mjs.                                                            *)
LEMMA ControlStep ==
  ASSUME DirectoryInv, ReadHandshake \/ SendControl
  PROVE  DirectoryInv'
<1>1. UNCHANGED <<data, claim, place, raced>>
  BY DEF ReadHandshake, SendControl
<1>2. UNCHANGED supervisorVars \/ \E svc \in RowNames : Command(svc)
  BY DEF ReadHandshake, SendControl
<1>3. SupervisorOK'
  BY <1>2, IdleStep, CommandStep DEF DirectoryInv
<1>4. main' = main /\ alive' = alive
  BY <1>2 DEF supervisorVars, Command, childVars
<1>5. DirTypeOK' /\ Outside' /\ ClaimsHold'
  BY <1>1, <1>4, DirFrame DEF DirectoryInv
<1> QED BY <1>3, <1>5 DEF DirectoryInv

LEMMA ChildrenStep ==
  ASSUME DirectoryInv, ChildrenNext, UNCHANGED dirVars
  PROVE  DirectoryInv'
<1>1. SupervisorOK'
  BY ChildStep DEF DirectoryInv
<1>2. UNCHANGED <<data, claim, place, raced>>
  BY DEF dirVars
<1>3. main' = main /\ alive' \subseteq alive
  BY DEF ChildrenNext, Beat, Expire, Exits, Dies
<1>4. DirTypeOK' /\ Outside' /\ ClaimsHold'
  BY <1>2, <1>3, DirFrame DEF DirectoryInv
<1> QED BY <1>1, <1>4 DEF DirectoryInv

-----------------------------------------------------------------------------
LEMMA InitIInv == DirInit => DirectoryInv
<1> SUFFICES ASSUME DirInit PROVE DirectoryInv
  OBVIOUS
<1>1. /\ spawned = [svc \in RowNames |-> 0] /\ alive = {} /\ fresh = {} /\ entries = <<>>
      /\ main = "spawn" /\ k = 1 /\ stopping = FALSE /\ shuttingDown = FALSE /\ early = FALSE
      /\ stop = [w \in Callers |-> "no"] /\ left = [w \in Callers |-> <<>>]
      /\ terminated = {} /\ queue = <<>> /\ task = "idle"
  BY DEF DirInit, InitSupervisor
<1>2. {deaths, commands} \subseteq Nat
  BY SupervisorBounds DEF DirInit
<1>3. TypeOK
  <2>1. spawned \in [RowNames -> Nat] /\ k \in 1 .. Len(Rows) + 1
    BY <1>1, RowFacts
  <2>2. stop \in [Callers -> {"no", "await", "killing"}] /\ left \in [Callers -> Seq(Children)]
    BY <1>1, EmptySeq
  <2>3. entries \in Seq(Children) /\ queue \in Seq(Crashable)
    BY <1>1, EmptySeq
  <2>4. /\ {alive, fresh, terminated} \subseteq SUBSET Children
        /\ {stopping, shuttingDown, early} \subseteq BOOLEAN
        /\ main = "spawn" /\ task = "idle"
    BY <1>1
  <2> QED BY <1>2, <2>1, <2>2, <2>3, <2>4 DEF TypeOK
<1>4. TableOK
  <2>1. Len(entries) = 0 /\ DOMAIN entries = {}
    BY <1>1
  <2>2. \A i \in DOMAIN Rows : spawned[Rows[i]] = 0
    BY <1>1, RowFacts
  <2> QED BY <1>1, <2>1, <2>2, RowFacts DEF TableOK
<1>5. OnlyLatest /\ TasksOK /\ StopsOK /\ CleanExit
  BY <1>1 DEF OnlyLatest, TasksOK, StopsOK, CleanExit
<1>6. DirTypeOK /\ Outside
  <2>1. data \in BOOLEAN /\ raced \in BOOLEAN
    BY DEF DirInit
  <2>2. claim \in [pid : {"none", "dead", "main", "rival"}, open : BOOLEAN]
    BY FileContents DEF DirInit
  <2>3. place \in [{"main", "rival", "reset"} ->
                     {"out", "absent", "checked", "refused", "in", "left", "done"}]
    <3>1. place \in [{"main", "rival", "reset"} -> {"out", "absent"}]
      BY DEF DirInit
    <3> QED BY <3>1
  <2> QED BY <1>1, <2>1, <2>2, <2>3 DEF DirTypeOK, Outside
<1>7. ClaimsHold
  BY DEF DirInit, ClaimsHold, Inside, Owners
<1> QED BY <1>3, <1>4, <1>5, <1>6, <1>7 DEF DirectoryInv, SupervisorOK

LEMMA NextIInv == DirectoryInv /\ [DirNext]_allVars => DirectoryInv'
<1> SUFFICES ASSUME DirectoryInv, [DirNext]_allVars PROVE DirectoryInv'
  OBVIOUS
<1>1. ASSUME NEW p \in Owners, AssertSoleOwner(p) \/ ClaimDirectory(p) PROVE DirectoryInv'
  BY <1>1, AssertSoleOwnerStep, ClaimDirectoryStep
<1>2. CASE OwnSteps
  BY <1>2, OwnStep
<1>3. CASE KillSupervisor
  BY <1>3, KillStep
<1>4. CASE RivalLeaves
  BY <1>4, RivalLeavesStep
<1>5. CASE AssertResettable \/ RemoveData
  BY <1>5, ResetStep
<1>6. CASE ReadHandshake \/ SendControl
  BY <1>6, ControlStep
<1>7. CASE ChildrenNext /\ UNCHANGED dirVars
  BY <1>7, ChildrenStep
<1>8. CASE UNCHANGED allVars
  <2>1. UNCHANGED supervisorVars /\ UNCHANGED <<data, claim, place, raced>> /\ main' = main /\ alive' = alive
    BY <1>8 DEF allVars, dirVars, supervisorVars, childVars
  <2> QED BY <2>1, IdleStep, DirFrame DEF DirectoryInv
<1> QED BY <1>1, <1>2, <1>3, <1>4, <1>5, <1>6, <1>7, <1>8 DEF DirNext

(* The invariant holds in every reachable state.                           *)
THEOREM DirectoryInvariance == DirSpec => []DirectoryInv
<1> QED BY InitIInv, NextIInv, PTL DEF DirSpec

(* Every variable of the supervisor and of the directory has its type.     *)
THEOREM DirectoryTypeCorrect == DirSpec => [](TypeOK /\ DirTypeOK)
<1>1. DirectoryInv => TypeOK /\ DirTypeOK
  BY DEF DirectoryInv, SupervisorOK
<1> QED BY <1>1, DirectoryInvariance, PTL

(* For any table and any number of deaths and crash commands, the          *)
(* supervisor tracks the one process of each row it started, and a         *)
(* shutdown of a system that was up, or a startup that failed, leaves no   *)
(* process behind (dev.mjs: stopAll, crashAndRestart).                     *)
THEOREM ChildrenAreTracked == DirSpec => []NoChildIsLost
<1>1. DirectoryInv => NoChildIsLost
  BY SupervisedIsTracked DEF DirectoryInv
<1> QED BY <1>1, DirectoryInvariance, PTL

(* Two supervisors are inside the directory only when one claimed it       *)
(* between the other's check and its claim (dev.mjs: assertSoleOwner).     *)
THEOREM OneOwner == DirSpec => []SoleOwner
<1>1. DirectoryInv => SoleOwner
  BY ClaimedByOne DEF DirectoryInv, SoleOwner
<1> QED BY <1>1, DirectoryInvariance, PTL

(* reset.mjs removes the data under a running engine only in such a race,  *)
(* or when a supervisor that was killed, or stopped during its startup,    *)
(* left its engine behind.                                                 *)
THEOREM DataIsSpared == DirSpec => ResetSparesData
<1>1. ASSUME DirectoryInv, [DirNext]_allVars, data, ~data', EngineRuns, ~raced, main # "aborted", ~early
      PROVE  FALSE
  <2>1. place["reset"] = "checked"
    <3>1. ASSUME NEW p \in Owners, AssertSoleOwner(p) \/ ClaimDirectory(p) PROVE data'
      BY <3>1 DEF AssertSoleOwner, ClaimDirectory
    <3>2. ASSUME OwnSteps \/ KillSupervisor \/ RivalLeaves \/ AssertResettable
                   \/ ReadHandshake \/ SendControl \/ UNCHANGED dirVars
          PROVE  data' = data
      BY <3>2 DEF OwnSteps, KillSupervisor, RivalLeaves, AssertResettable, ReadHandshake,
                  SendControl, dirVars
    <3>3. UNCHANGED allVars => UNCHANGED dirVars
      BY DEF allVars
    <3> QED BY <1>1, <3>1, <3>2, <3>3 DEF DirNext, RemoveData
  <2>2. \A p \in Owners : ~Inside(p)
    BY <1>1, <2>1 DEF DirectoryInv, ClaimsHold, Owners
  <2>3. place["rival"] # "in"
    BY <2>2 DEF Owners, Inside, IsPidLive
  <2>4. alive # {}
    BY <1>1, <2>3 DEF EngineRuns
  <2>5. place["main"] = "in" /\ main # "exited"
    BY <1>1, <2>4 DEF DirectoryInv, Outside, SupervisorOK, CleanExit
  <2>6. Inside("main")
    BY <1>1, <2>5 DEF Inside, IsPidLive, Up
  <2> QED BY <2>2, <2>6 DEF Owners
<1>2. DirectoryInv /\ [DirNext]_allVars
        => [data /\ ~data' => (EngineRuns => raced \/ main = "aborted" \/ early)]_allVars
  BY <1>1
<1> QED BY <1>2, DirectoryInvariance, PTL DEF DirSpec, ResetSparesData

-----------------------------------------------------------------------------
(* The deliveries of Notifications, for any messages, frames and bounds.   *)

(* What a frame has left behind before the subscription moves past it: the *)
(* persisted cursor and the next frame never overtake a trace, a delivery  *)
(* under way included.                                                     *)
Positions ==
  /\ \A i \in 1 .. cursor : Handled(i)
  /\ \A i \in 1 .. next - 1 : Handled(i)
  /\ pc \in {"down", "subscribing"} => next = 0
  /\ pc = "listening" => next >= 1
  /\ pc \in {"emitting", "marking"} /\ next >= 1 => Handled(next) /\ Len(todo) = 1

(* The deliveries still to be emitted are distinct and unacknowledged.     *)
Pending ==
  /\ emitted \subseteq Delivered
  /\ pc \in {"emitting", "marking"} => todo # <<>>
  /\ \A i \in 1 .. Len(todo) : todo[i] \in Delivered \ emitted
  /\ \A i, j \in 1 .. Len(todo) : todo[i] = todo[j] => i = j

(* A message has one event more than faults only once it is acknowledged,  *)
(* or about to be.                                                         *)
Settling(m) == m \in emitted \/ (pc = "marking" /\ m = Head(todo))

Counts == \A m \in MessageIds : sent[m] <= faults + (IF Settling(m) THEN 1 ELSE 0)

NotificationsInv == NotifyTypeOK /\ Positions /\ Pending /\ Counts
-----------------------------------------------------------------------------
(* The greater of two positions.                                           *)
LEMMA MaxOfTwo ==
  ASSUME NEW a \in Nat, NEW b \in Nat
  PROVE  Max({a, b}) = IF a >= b THEN a ELSE b
<1> DEFINE c == IF a >= b THEN a ELSE b
<1>1. c \in {a, b} /\ \A y \in {a, b} : c >= y
  OBVIOUS
<1>2. \A x \in {a, b} : (\A y \in {a, b} : x >= y) => x = c
  OBVIOUS
<1> QED BY <1>1, <1>2 DEF Max

(* A trace stays: frames, deliveries and logged failures are only added.   *)
LEMMA HandledKept ==
  ASSUME NEW i \in Nat \ {0}, Handled(i), Len(topic) \in Nat, Len(topic') \in Nat,
         Len(topic) <= Len(topic'),
         \A j \in 1 .. Len(topic) : topic'[j] = topic[j],
         Delivered \subseteq Delivered', undelivered \subseteq undelivered'
  PROVE  Handled(i)'
<1>1. i \in 1 .. Len(topic)
  BY DEF Handled
<1> QED BY <1>1 DEF Handled

(* The traces of the frames below the cursor and below the next frame, and *)
(* of the one under way, survive a step that takes none away.              *)
LEMMA TracesKept ==
  ASSUME NotifyTypeOK, topic' = topic, Delivered \subseteq Delivered',
         undelivered \subseteq undelivered'
  PROVE  \A i \in Nat \ {0} : Handled(i) => Handled(i)'
<1>1. Len(topic) \in Nat
  BY LenProperties DEF NotifyTypeOK
<1> QED BY <1>1, HandledKept

(* The frame at the subscription's position is a message.                  *)
LEMMA FrameIsMessage ==
  ASSUME NotificationsInv, pc = "listening", next <= Len(topic)
  PROVE  next \in 1 .. Len(topic) /\ topic[next] \in MessageIds /\ next \in Nat
<1>1. next \in Nat /\ next >= 1 /\ topic \in Seq(MessageIds)
  BY DEF NotificationsInv, NotifyTypeOK, Positions
<1>2. Len(topic) \in Nat
  BY <1>1, LenProperties
<1> QED BY <1>1, <1>2, ElementOfSeq

LEMMA InitNotificationsInv == NotifyInit => NotificationsInv
<1> SUFFICES ASSUME NotifyInit PROVE NotificationsInv
  OBVIOUS
<1>1. NotifyTypeOK
  BY EmptySeq DEF NotifyInit, NotifyTypeOK
<1>2. Positions /\ Counts
  BY <1>1 DEF NotifyInit, Positions, Counts, Settling, NotifyTypeOK
<1>3. Len(todo) = 0
  BY EmptySeq DEF NotifyInit
<1>4. Pending
  BY <1>3 DEF NotifyInit, Pending, Delivered
<1> QED BY <1>1, <1>2, <1>4 DEF NotificationsInv

LEMMA PublishStep == ASSUME NotificationsInv, NEW m \in MessageIds, Publish(m) PROVE NotificationsInv'
<1>1. topic' = Append(topic, m) /\ UNCHANGED <<store, sent, pc, next, todo, undelivered, faults>>
  BY DEF Publish
<1>2. /\ topic' \in Seq(MessageIds) /\ Len(topic) \in Nat /\ Len(topic') = Len(topic) + 1
      /\ \A j \in 1 .. Len(topic) : topic'[j] = topic[j]
  BY <1>1, AppendProperties, LenProperties DEF NotificationsInv, NotifyTypeOK
<1>3. NotifyTypeOK'
  BY <1>1, <1>2 DEF NotificationsInv, NotifyTypeOK, Publish, store
<1>4. Delivered' = Delivered
  BY <1>1 DEF Delivered, store
<1>5. \A i \in Nat \ {0} : Handled(i) => Handled(i)'
  BY <1>1, <1>2, <1>4, HandledKept
<1>6. Positions'
  BY <1>1, <1>5 DEF NotificationsInv, NotifyTypeOK, Positions, store
<1>7. Pending' /\ Counts'
  BY <1>1, <1>4 DEF NotificationsInv, Pending, Counts, Settling, store
<1> QED BY <1>3, <1>6, <1>7 DEF NotificationsInv

(* A process that starts takes up what its predecessor left: deliveries in *)
(* the order of their positions, so no delivery twice.                     *)
LEMMA OpenStep == ASSUME NotificationsInv, OpenStore PROVE NotificationsInv'
<1>1. /\ todo' \in Unemitted /\ pc = "down" /\ next = 0
      /\ pc' = IF todo' = <<>> THEN "subscribing" ELSE "emitting"
      /\ UNCHANGED <<topic, deliveries, cursor, emitted, sent, next, undelivered, faults, resumes>>
  BY DEF OpenStore, NotificationsInv, Positions, store
<1>2. deliveries \in [MessageIds -> Nat]
  BY DEF NotificationsInv, NotifyTypeOK
<1>3. PICK n \in Nat : todo' \in [1 .. n -> Delivered \ emitted]
  <2>1. Len(topic) \in Nat
    BY LenProperties DEF NotificationsInv, NotifyTypeOK
  <2> QED BY <1>1, <2>1 DEF Unemitted, SeqOf
<1>4. todo' \in Seq(Delivered \ emitted) /\ Len(todo') = n /\ DOMAIN todo' = 1 .. n
  BY <1>3
<1>5. \A i, j \in 1 .. n : i < j => deliveries[todo'[i]] < deliveries[todo'[j]]
  BY <1>1, <1>4 DEF Unemitted
<1>6. \A i \in 1 .. n : todo'[i] \in Delivered \ emitted /\ deliveries[todo'[i]] \in Nat
  BY <1>2, <1>3 DEF Delivered
<1>7. \A i, j \in 1 .. n : todo'[i] = todo'[j] => i = j
  <2> SUFFICES ASSUME NEW i \in 1 .. n, NEW j \in 1 .. n, todo'[i] = todo'[j], i # j
               PROVE  FALSE
    OBVIOUS
  <2>1. i < j \/ j < i
    OBVIOUS
  <2> QED BY <1>5, <1>6, <2>1
<1>8. Delivered' = Delivered
  BY <1>1 DEF Delivered
<1>9. NotifyTypeOK'
  <2>1. todo' \in Seq(MessageIds)
    <3>1. \A i \in 1 .. n : todo'[i] \in MessageIds
      BY <1>6 DEF Delivered
    <3>2. todo' \in [1 .. n -> MessageIds]
      BY <1>3, <3>1
    <3> QED BY <3>2
  <2> QED BY <1>1, <2>1 DEF NotificationsInv, NotifyTypeOK
<1>10. Positions'
  <2>1. \A i \in Nat \ {0} : Handled(i) => Handled(i)'
    BY <1>1, <1>8, TracesKept DEF NotificationsInv
  <2> QED BY <1>1, <2>1 DEF NotificationsInv, NotifyTypeOK, Positions
<1>11. Pending'
  BY <1>1, <1>4, <1>6, <1>7, <1>8 DEF NotificationsInv, Pending
<1>12. Counts'
  BY <1>1 DEF NotificationsInv, Counts, Settling
<1> QED BY <1>9, <1>10, <1>11, <1>12 DEF NotificationsInv

LEMMA SubscribeStep == ASSUME NotificationsInv, Subscribe PROVE NotificationsInv'
<1>1. /\ next' \in 1 .. cursor + 1 /\ pc = "subscribing" /\ pc' = "listening"
      /\ UNCHANGED <<topic, deliveries, cursor, emitted, sent, todo, undelivered, faults, resumes>>
  BY DEF Subscribe, ResumeFrom, store
<1>2. NotifyTypeOK'
  BY <1>1 DEF NotificationsInv, NotifyTypeOK
<1>3. Delivered' = Delivered
  BY <1>1 DEF Delivered
<1>4. Positions'
  <2>1. \A i \in Nat \ {0} : Handled(i) => Handled(i)'
    BY <1>1, <1>3, TracesKept DEF NotificationsInv
  <2>2. cursor \in Nat
    BY DEF NotificationsInv, NotifyTypeOK
  <2>3. next' \in Nat /\ next' >= 1 /\ \A i \in 1 .. next' - 1 : i \in 1 .. cursor
    <3> SUFFICES ASSUME NEW c \in Nat, NEW n \in 1 .. c + 1
                 PROVE  n \in Nat /\ n >= 1 /\ \A i \in 1 .. n - 1 : i \in 1 .. c
      BY <1>1, <2>2
    <3> QED OBVIOUS
  <2>4. \A i \in 1 .. cursor : Handled(i)'
    BY <2>1, <2>2 DEF NotificationsInv, Positions
  <2>5. cursor' = cursor
    BY <1>1
  <2>6. \A i \in 1 .. next' - 1 : Handled(i)'
    BY <2>3, <2>4
  <2> QED BY <1>1, <2>3, <2>4, <2>5, <2>6 DEF Positions
<1>5. Pending' /\ Counts'
  BY <1>1, <1>3 DEF NotificationsInv, Pending, Counts, Settling
<1> QED BY <1>2, <1>4, <1>5 DEF NotificationsInv

(* The next frame is passed over once it has left its trace.               *)
LEMMA PassStep ==
  ASSUME NotificationsInv, NEW n \in Nat, n = next,
         pc = "listening", n <= Len(topic), next' = n + 1,
         UNCHANGED <<topic, deliveries, emitted, sent, pc, todo>>,
         cursor' \in {cursor, n},
         undelivered' \in SUBSET Nat, undelivered \subseteq undelivered',
         faults' \in Nat, faults' >= faults, resumes' \in Nat,
         Handled(n)'
  PROVE  NotificationsInv'
<1>0. n >= 1 /\ cursor \in Nat /\ faults \in Nat /\ sent \in [MessageIds -> Nat]
  BY DEF NotificationsInv, NotifyTypeOK, Positions
<1>1. NotifyTypeOK'
  BY <1>0 DEF NotificationsInv, NotifyTypeOK
<1>2. Delivered' = Delivered
  BY DEF Delivered
<1>3. \A i \in Nat \ {0} : Handled(i) => Handled(i)'
  BY <1>2, TracesKept DEF NotificationsInv
<1>4. \A i \in 1 .. n : Handled(i)'
  <2>1. \A i \in 1 .. n - 1 : Handled(i)'
    BY <1>0, <1>3 DEF NotificationsInv, Positions
  <2>2. \A i \in 1 .. n : i = n \/ i \in 1 .. n - 1
    BY <1>0
  <2> QED BY <2>1, <2>2
<1>5. \A i \in 1 .. cursor' : Handled(i)'
  BY <1>0, <1>3, <1>4 DEF NotificationsInv, Positions
<1>6. Positions'
  <2>1. \A i \in 1 .. next' - 1 : i \in 1 .. n
    BY <1>0
  <2> QED BY <1>0, <1>4, <1>5, <2>1 DEF Positions
<1>7. Pending'
  BY <1>2 DEF NotificationsInv, Pending
<1>8. Counts'
  BY <1>0 DEF NotificationsInv, Counts, Settling
<1> QED BY <1>1, <1>6, <1>7, <1>8 DEF NotificationsInv

LEMMA RecordStep == ASSUME NotificationsInv, Record PROVE NotificationsInv'
<1> DEFINE m == topic[next]
<1>00. PICK n \in Nat : n = next
  BY DEF NotificationsInv, NotifyTypeOK
<1>0. /\ pc = "listening" /\ next <= Len(topic) /\ m \notin Malformed
      /\ cursor' = CursorAfter
      /\ UNCHANGED <<topic, emitted, sent, undelivered, faults, resumes>>
  BY DEF Record
<1>1. next \in 1 .. Len(topic) /\ m \in MessageIds /\ next \in Nat /\ cursor \in Nat
  BY <1>0, FrameIsMessage DEF NotificationsInv, NotifyTypeOK
<1>2. cursor' \in {cursor, next}
  BY <1>0, <1>1, MaxOfTwo DEF CursorAfter
<1>3. CASE IsDuplicate(m)
  <2>1. next' = next + 1 /\ UNCHANGED <<deliveries, pc, todo>>
    BY <1>3 DEF Record
  <2>2. Handled(n)'
    BY <1>00, <1>0, <1>1, <1>3, <2>1 DEF Handled, IsDuplicate, Delivered
  <2>3. cursor' \in {cursor, n} /\ next' = n + 1 /\ n <= Len(topic)
    BY <1>00, <1>0, <1>2, <2>1
  <2>4. /\ undelivered' \in SUBSET Nat /\ undelivered \subseteq undelivered'
        /\ faults' \in Nat /\ faults' >= faults /\ resumes' \in Nat
    BY <1>0 DEF NotificationsInv, NotifyTypeOK
  <2> QED BY <1>00, <1>0, <2>1, <2>2, <2>3, <2>4, PassStep
<1>4. CASE ~IsDuplicate(m)
  <2>1. deliveries' = [deliveries EXCEPT ![m] = next] /\ todo' = <<m>> /\ pc' = "emitting" /\ next' = next
    BY <1>4 DEF Record
  <2> HIDE DEF m
  <2>2. deliveries'[m] = next /\ \A x \in MessageIds : x # m => deliveries'[x] = deliveries[x]
    BY <1>1, <2>1 DEF NotificationsInv, NotifyTypeOK
  <2>3. Delivered' = Delivered \cup {m} /\ m \notin Delivered
    BY <1>1, <1>4, <2>2 DEF Delivered, IsDuplicate
  <2>4. todo' \in Seq(MessageIds) /\ Len(todo') = 1 /\ todo'[1] = m /\ todo' # <<>>
    BY <1>1, <2>1
  <2>5. NotifyTypeOK'
    BY <1>0, <1>1, <1>2, <2>1, <2>4 DEF NotificationsInv, NotifyTypeOK
  <2>6. \A i \in Nat \ {0} : Handled(i) => Handled(i)'
    BY <1>0, <2>3, TracesKept DEF NotificationsInv
  <2>7. Handled(next)'
    BY <1>0, <1>1, <2>1, <2>3 DEF Handled, m
  <2>8. Positions'
    <3>1. \A i \in 1 .. next - 1 : Handled(i)'
      BY <1>1, <2>6 DEF NotificationsInv, Positions
    <3>2. \A i \in 1 .. cursor' : Handled(i)'
      <4>1. \A i \in 1 .. cursor : Handled(i)'
        BY <1>1, <2>6 DEF NotificationsInv, Positions
      <4>2. \A i \in 1 .. n : i = n \/ i \in 1 .. n - 1
        BY <1>00
      <4>3. Handled(n)'
        BY <1>00, <2>1, <2>7
      <4>4. \A i \in 1 .. n : Handled(i)'
        BY <1>00, <3>1, <4>2, <4>3
      <4> QED BY <1>00, <1>2, <4>1, <4>4
    <3> QED BY <2>1, <2>4, <2>7, <3>1, <3>2 DEF Positions
  <2>9. Pending'
    <3>1. m \notin emitted
      BY <2>3 DEF NotificationsInv, Pending
    <3> QED BY <1>0, <2>1, <2>3, <2>4, <3>1 DEF NotificationsInv, Pending
  <2>10. Counts'
    <3>1. \A x \in MessageIds : Settling(x) <=> Settling(x)'
      BY <1>0, <2>1 DEF Settling
    <3> QED BY <1>0, <3>1 DEF NotificationsInv, Counts
  <2> QED BY <2>5, <2>8, <2>9, <2>10 DEF NotificationsInv
<1> QED BY <1>3, <1>4

(* A malformed frame, or one whose transaction failed, is passed over with *)
(* the trace it has.                                                       *)
LEMMA SkipStep == ASSUME NotificationsInv, SkipMalformed \/ RecordFails PROVE NotificationsInv'
<1>0. PICK n \in Nat : n = next
  BY DEF NotificationsInv, NotifyTypeOK
<1>1. /\ pc = "listening" /\ n <= Len(topic) /\ next' = n + 1
      /\ UNCHANGED <<topic, deliveries, cursor, emitted, sent, pc, todo, resumes>>
  BY <1>0 DEF SkipMalformed, RecordFails, store
<1>2. /\ undelivered' \in SUBSET Nat /\ undelivered \subseteq undelivered'
      /\ faults' \in Nat /\ faults' >= faults /\ resumes' \in Nat
  <2>1. undelivered \in SUBSET Nat /\ faults \in Nat /\ resumes \in Nat
    BY DEF NotificationsInv, NotifyTypeOK
  <2>2. \/ undelivered' = undelivered /\ faults' = faults
        \/ undelivered' = undelivered \cup {n} /\ faults' = faults + 1
    BY <1>0 DEF SkipMalformed, RecordFails
  <2>3. undelivered' \in SUBSET Nat /\ undelivered \subseteq undelivered'
    BY <2>1, <2>2
  <2>4. faults' \in Nat /\ faults' >= faults
    BY <2>1, <2>2
  <2> QED BY <1>1, <2>1, <2>3, <2>4
<1>3. topic[n] \in Malformed \/ n \in undelivered'
  BY <1>0 DEF SkipMalformed, RecordFails
<1>4. Handled(n)'
  BY <1>1, <1>3 DEF Handled
<1> QED BY <1>0, <1>1, <1>2, <1>4, PassStep

(* The delivery at the head of the list is one of the pending ones.        *)
LEMMA HeadIsPending ==
  ASSUME NotificationsInv, pc \in {"emitting", "marking"}
  PROVE  /\ todo # <<>> /\ Len(todo) \in Nat \ {0} /\ Head(todo) = todo[1]
         /\ Head(todo) \in Delivered \ emitted /\ Head(todo) \in MessageIds
         /\ Tail(todo) \in Seq(MessageIds) /\ Len(Tail(todo)) = Len(todo) - 1
         /\ \A i \in 1 .. Len(todo) - 1 : Tail(todo)[i] = todo[i + 1]
<1>1. todo \in Seq(MessageIds) /\ todo # <<>>
  BY DEF NotificationsInv, NotifyTypeOK, Pending
<1>2. Len(todo) \in Nat /\ Len(todo) # 0
  BY <1>1, EmptySeq, LenProperties
<1>3. Head(todo) = todo[1] /\ Tail(todo) \in Seq(MessageIds) /\ Len(Tail(todo)) = Len(todo) - 1
      /\ \A i \in 1 .. Len(todo) - 1 : Tail(todo)[i] = todo[i + 1]
  BY <1>1, <1>2, HeadTailProperties
<1>4. 1 \in 1 .. Len(todo)
  BY <1>2
<1>5. todo[1] \in Delivered \ emitted
  BY <1>4 DEF NotificationsInv, Pending
<1> QED BY <1>1, <1>2, <1>3, <1>5 DEF Delivered

(* The event goes out before it is acknowledged: the message counts as     *)
(* settling from here on.                                                  *)
LEMMA EmitStep == ASSUME NotificationsInv, Emit PROVE NotificationsInv'
<1> DEFINE h == Head(todo)
<1>1. /\ pc = "emitting" /\ pc' = "marking" /\ sent' = [sent EXCEPT ![h] = @ + 1]
      /\ UNCHANGED <<topic, deliveries, cursor, emitted, next, todo, undelivered, faults, resumes>>
  BY DEF Emit, store
<1>2. h \in MessageIds /\ h \notin emitted
  BY <1>1, HeadIsPending
<1> HIDE DEF h
<1>3. sent \in [MessageIds -> Nat] /\ faults \in Nat
  BY DEF NotificationsInv, NotifyTypeOK
<1>4. NotifyTypeOK'
  BY <1>1, <1>2 DEF NotificationsInv, NotifyTypeOK
<1>5. Delivered' = Delivered
  BY <1>1 DEF Delivered
<1>6. Positions'
  <2>1. \A i \in Nat \ {0} : Handled(i) => Handled(i)'
    BY <1>1, <1>5, TracesKept DEF NotificationsInv
  <2> QED BY <1>1, <2>1 DEF NotificationsInv, NotifyTypeOK, Positions
<1>7. Pending'
  BY <1>1, <1>5 DEF NotificationsInv, Pending
<1>8. ASSUME NEW m \in MessageIds
      PROVE  sent'[m] <= faults' + (IF Settling(m)' THEN 1 ELSE 0)
  <2>1. sent[m] <= faults + (IF Settling(m) THEN 1 ELSE 0)
    BY DEF NotificationsInv, Counts
  <2>2. CASE m = h
    <3>1. ~Settling(m) /\ Settling(m)'
      BY <1>1, <1>2, <2>2 DEF Settling, h
    <3> QED BY <1>1, <1>2, <1>3, <2>1, <2>2, <3>1
  <2>3. CASE m # h
    <3>1. Settling(m)' <=> Settling(m)
      BY <1>1, <2>3 DEF Settling, h
    <3> QED BY <1>1, <1>2, <1>3, <2>1, <2>3, <3>1
  <2> QED BY <2>2, <2>3
<1> QED BY <1>4, <1>6, <1>7, <1>8 DEF NotificationsInv, Counts

LEMMA MarkStep == ASSUME NotificationsInv, Mark PROVE NotificationsInv'
<1> DEFINE h == Head(todo)
<1>1. /\ pc = "marking" /\ emitted' = emitted \cup {h} /\ todo' = Tail(todo)
      /\ pc' = IF Len(todo) > 1 THEN "emitting" ELSE Resting
      /\ next' = IF next = 0 THEN 0 ELSE next + 1
      /\ UNCHANGED <<topic, deliveries, cursor, sent, undelivered, faults, resumes>>
  BY DEF Mark
<1>2. /\ Len(todo) \in Nat \ {0} /\ h = todo[1] /\ h \in Delivered \ emitted
      /\ Tail(todo) \in Seq(MessageIds) /\ Len(Tail(todo)) = Len(todo) - 1
      /\ \A i \in 1 .. Len(todo) - 1 : Tail(todo)[i] = todo[i + 1]
  BY <1>1, HeadIsPending
<1>3. h \in MessageIds /\ next \in Nat /\ cursor \in Nat
  BY <1>2 DEF Delivered, NotificationsInv, NotifyTypeOK
<1> HIDE DEF h
<1>4. NotifyTypeOK'
  BY <1>1, <1>2, <1>3 DEF NotificationsInv, NotifyTypeOK, Resting
<1>5. Delivered' = Delivered
  BY <1>1 DEF Delivered
<1>6. Positions'
  <2>1. \A i \in Nat \ {0} : Handled(i) => Handled(i)'
    BY <1>1, <1>5, TracesKept DEF NotificationsInv
  <2>2. \A i \in 1 .. cursor' : Handled(i)'
    BY <1>1, <1>3, <2>1 DEF NotificationsInv, Positions
  <2>3. CASE next = 0
    <3>1. next' = 0 /\ pc' \in {"emitting", "subscribing"}
      BY <1>1, <2>3 DEF Resting
    <3>2. \A i \in 1 .. next' - 1 : FALSE
      BY <3>1
    <3> QED BY <2>2, <3>1, <3>2 DEF Positions
  <2>4. CASE next # 0
    <3>0. Len(todo) = 1
      <4>1. next >= 1
        BY <1>3, <2>4
      <4> QED BY <1>1, <4>1 DEF NotificationsInv, Positions
    <3>1. next' = next + 1 /\ pc' = "listening"
      <4>1. ~(Len(todo) > 1)
        BY <3>0
      <4> QED BY <1>1, <2>4, <4>1 DEF Resting
    <3>2. \A i \in 1 .. next' - 1 : i \in 1 .. next
      BY <1>3, <3>1
    <3>3. \A i \in 1 .. next : i = next \/ i \in 1 .. next - 1
      BY <1>3
    <3>4. \A i \in 1 .. next : Handled(i)
      BY <1>1, <1>3, <2>4, <3>3 DEF NotificationsInv, Positions
    <3>5. \A i \in 1 .. next' - 1 : Handled(i)'
      BY <1>3, <2>1, <3>2, <3>4
    <3> QED BY <1>3, <2>2, <2>4, <3>1, <3>5 DEF Positions
  <2> QED BY <2>3, <2>4
<1>7. Pending'
  <2> DEFINE t == Tail(todo)
  <2>1. \A i \in 1 .. Len(t) : /\ i + 1 \in 1 .. Len(todo) /\ i + 1 # 1
                               /\ t[i] = todo[i + 1] /\ i \in Nat
    BY <1>2
  <2>2. 1 \in 1 .. Len(todo)
    BY <1>2
  <2>3. \A i, j \in 1 .. Len(todo) : todo[i] = todo[j] => i = j
    BY DEF NotificationsInv, Pending
  <2>4. \A i \in 1 .. Len(t) : t[i] # h
    BY <1>2, <2>1, <2>2, <2>3
  <2>5. \A i, j \in 1 .. Len(t) : t[i] = t[j] => i = j
    <3> SUFFICES ASSUME NEW i \in 1 .. Len(t), NEW j \in 1 .. Len(t), t[i] = t[j]
                 PROVE  i = j
      OBVIOUS
    <3>1. i + 1 = j + 1
      BY <2>1, <2>3
    <3> QED BY <2>1, <3>1
  <2>6. \A i \in 1 .. Len(t) : t[i] \in Delivered \ (emitted \cup {h})
    BY <2>1, <2>4 DEF NotificationsInv, Pending
  <2>7. pc' \in {"emitting", "marking"} => t # <<>>
    <3>1. pc' \in {"emitting", "marking"} => Len(t) > 0
      BY <1>1, <1>2 DEF Resting
    <3> QED BY <3>1, EmptySeq
  <2>8. emitted' \subseteq Delivered
    BY <1>1, <1>2 DEF NotificationsInv, Pending
  <2> HIDE DEF t
  <2> QED BY <1>1, <1>5, <2>5, <2>6, <2>7, <2>8 DEF Pending, t
<1>8. Counts'
  <2>1. \A m \in MessageIds : Settling(m) => Settling(m)'
    BY <1>1 DEF Settling, h
  <2>2. sent \in [MessageIds -> Nat] /\ faults \in Nat
    BY DEF NotificationsInv, NotifyTypeOK
  <2>3. ASSUME NEW m \in MessageIds
        PROVE  sent'[m] <= faults' + (IF Settling(m)' THEN 1 ELSE 0)
    <3>1. sent[m] <= faults + (IF Settling(m) THEN 1 ELSE 0)
      BY DEF NotificationsInv, Counts
    <3> QED BY <1>1, <2>1, <2>2, <3>1
  <2> QED BY <2>3 DEF Counts
<1> QED BY <1>4, <1>6, <1>7, <1>8 DEF NotificationsInv

(* A step that drops the deliveries in hand, for the price of a fault or   *)
(* of a connection; what was sent without an acknowledgement is then owed  *)
(* to that fault.                                                          *)
LEMMA DropStep ==
  ASSUME NotificationsInv, UNCHANGED <<topic, deliveries, cursor, emitted, sent, undelivered>>,
         todo' = <<>> \/ (todo' = todo /\ pc = "listening"),
         pc' \in {"down", "subscribing", "listening"}, next' \in Nat,
         faults' \in Nat, resumes' \in Nat,
         faults' = faults + 1 \/ (faults' = faults /\ pc = "listening"),
         pc' \in {"down", "subscribing"} => next' = 0,
         pc' = "listening" => next' >= 1,
         \A i \in 1 .. next' - 1 : Handled(i)
  PROVE  NotificationsInv'
<1>1. NotifyTypeOK'
  BY EmptySeq DEF NotificationsInv, NotifyTypeOK
<1>2. Delivered' = Delivered
  BY DEF Delivered
<1>3. \A i \in Nat \ {0} : Handled(i) => Handled(i)'
  BY <1>2, TracesKept DEF NotificationsInv
<1>4. Positions'
  <2>1. \A i \in 1 .. cursor' : Handled(i)'
    BY <1>3 DEF NotificationsInv, NotifyTypeOK, Positions
  <2>2. \A i \in 1 .. next' - 1 : Handled(i)'
    <3>1. \A n \in Nat : \A i \in 1 .. n - 1 : i \in Nat \ {0}
      OBVIOUS
    <3> QED BY <1>3, <3>1
  <2> QED BY <2>1, <2>2 DEF Positions
<1>5. Pending'
  <2>1. Len(<<>>) = 0
    BY EmptySeq
  <2>2. CASE todo' = <<>>
    BY <1>2, <2>1, <2>2 DEF NotificationsInv, Pending
  <2>3. CASE todo' = todo
    BY <1>2, <2>3 DEF NotificationsInv, Pending
  <2> QED BY <2>2, <2>3
<1>6. ASSUME NEW m \in MessageIds
      PROVE  sent'[m] <= faults' + (IF Settling(m)' THEN 1 ELSE 0)
  <2>1. sent[m] <= faults + (IF Settling(m) THEN 1 ELSE 0)
    BY DEF NotificationsInv, Counts
  <2>2. sent[m] \in Nat /\ faults \in Nat
    BY DEF NotificationsInv, NotifyTypeOK
  <2>3. CASE faults' = faults + 1
    BY <2>1, <2>2, <2>3
  <2>4. CASE faults' = faults /\ pc = "listening"
    <3>1. Settling(m) => Settling(m)'
      BY <2>4 DEF Settling
    <3> QED BY <2>1, <2>2, <2>4, <3>1
  <2> QED BY <2>3, <2>4
<1> QED BY <1>1, <1>4, <1>5, <1>6 DEF NotificationsInv, Counts

LEMMA EmitFailsStep == ASSUME NotificationsInv, EmitFails PROVE NotificationsInv'
<1>1. /\ pc \in {"emitting", "marking"} /\ faults' = faults + 1 /\ todo' = <<>>
      /\ UNCHANGED <<topic, deliveries, cursor, emitted, sent, undelivered, resumes>>
  BY DEF EmitFails, store
<1>2. next \in Nat /\ faults \in Nat /\ resumes \in Nat
  BY DEF NotificationsInv, NotifyTypeOK
<1>3. CASE next = 0
  <2>1. pc' = "down" /\ next' = 0
    BY <1>3 DEF EmitFails
  <2>2. \A i \in 1 .. next' - 1 : Handled(i)
    BY <2>1
  <2> QED BY <1>1, <1>2, <2>1, <2>2, DropStep
<1>4. CASE next # 0
  <2>1. pc' = "listening" /\ next' = next + 1
    BY <1>4 DEF EmitFails
  <2>2. \A i \in 1 .. next' - 1 : i = next \/ i \in 1 .. next - 1
    BY <1>2, <2>1
  <2>3. \A i \in 1 .. next' - 1 : Handled(i)
    BY <1>1, <1>2, <1>4, <2>2 DEF NotificationsInv, Positions
  <2> QED BY <1>1, <1>2, <2>1, <2>3, DropStep
<1> QED BY <1>3, <1>4

LEMMA ResumeStep == ASSUME NotificationsInv, Resume PROVE NotificationsInv'
<1>1. /\ pc = "listening" /\ resumes' = resumes + 1 /\ todo' = todo /\ faults' = faults
      /\ UNCHANGED <<topic, deliveries, cursor, emitted, sent, undelivered>>
  BY DEF Resume, store
<1>2. next \in Nat /\ faults \in Nat /\ resumes \in Nat
  BY DEF NotificationsInv, NotifyTypeOK
<1>3. CASE next' \in 1 .. next /\ pc' = pc
  <2>1. next' \in Nat /\ next' >= 1 /\ \A i \in 1 .. next' - 1 : i \in 1 .. next - 1
    <3>1. \A n \in Nat : \A x \in 1 .. n :
            x \in Nat /\ x >= 1 /\ \A i \in 1 .. x - 1 : i \in 1 .. n - 1
      OBVIOUS
    <3> QED BY <1>2, <1>3, <3>1
  <2>2. \A i \in 1 .. next' - 1 : Handled(i)
    BY <2>1 DEF NotificationsInv, Positions
  <2>3. pc' = "listening" /\ resumes' \in Nat /\ faults' \in Nat
    BY <1>1, <1>2, <1>3
  <2> QED BY <1>1, <2>1, <2>2, <2>3, DropStep
<1>4. CASE next' = 0 /\ pc' = "subscribing"
  <2>1. \A i \in 1 .. next' - 1 : Handled(i)
    BY <1>4
  <2> QED BY <1>1, <1>2, <1>4, <2>1, DropStep
<1> QED BY <1>3, <1>4 DEF Resume

LEMMA CrashStep == ASSUME NotificationsInv, Crash PROVE NotificationsInv'
<1>1. /\ pc' = "down" /\ next' = 0 /\ todo' = <<>> /\ faults' = faults + 1
      /\ UNCHANGED <<topic, deliveries, cursor, emitted, sent, undelivered, resumes>>
  BY DEF Crash, store
<1>2. faults \in Nat /\ resumes \in Nat
  BY DEF NotificationsInv, NotifyTypeOK
<1>3. \A i \in 1 .. next' - 1 : Handled(i)
  BY <1>1
<1> QED BY <1>1, <1>2, <1>3, DropStep

LEMMA NextNotificationsInv == NotificationsInv /\ [NotifyNext]_notifyVars => NotificationsInv'
<1> SUFFICES ASSUME NotificationsInv, [NotifyNext]_notifyVars PROVE NotificationsInv'
  OBVIOUS
<1>1. CASE UNCHANGED notifyVars
  <2>1. NotifyTypeOK' /\ Pending'
    BY <1>1 DEF NotificationsInv, notifyVars, store, NotifyTypeOK, Pending, Delivered
  <2>2. Positions'
    BY <1>1 DEF NotificationsInv, notifyVars, store, Positions, Handled, Delivered
  <2>3. Counts'
    BY <1>1 DEF NotificationsInv, notifyVars, store, Counts, Settling
  <2> QED BY <2>1, <2>2, <2>3 DEF NotificationsInv
<1> QED BY <1>1, PublishStep, OpenStep, SubscribeStep, SkipStep, RecordStep, EmitStep,
        MarkStep, EmitFailsStep, ResumeStep, CrashStep DEF NotifyNext, Service

(* No position is passed before its frame has left a trace, and a message  *)
(* is owed one event more than there were faults.                          *)
THEOREM NotificationsInvariance == NotifySpec => []NotificationsInv
<1>1. NotifyInit => NotificationsInv
  BY InitNotificationsInv
<1>2. NotificationsInv /\ [NotifyNext]_notifyVars => NotificationsInv'
  BY NextNotificationsInv
<1> QED BY <1>1, <1>2, PTL DEF NotifySpec

-----------------------------------------------------------------------------
(* Type correctness, for any messages, frames and bounds.                  *)
THEOREM NotificationsTypeCorrect == NotifySpec => []NotifyTypeOK
<1>1. NotificationsInv => NotifyTypeOK
  BY DEF NotificationsInv
<1> QED BY <1>1, NotificationsInvariance, PTL

(* The cursor never passes a frame without a trace, and a second           *)
(* notification.sent for a message costs a crash or a lost answer: however *)
(* often frames are published twice, redelivered and resumed, and wherever *)
(* the process dies between the commit, the emit and its acknowledgement.  *)
THEOREM DeliveriesAreSound == NotifySpec => []DeliveryIsSound
<1>1. NotificationsInv => DeliveryIsSound
  <2> SUFFICES ASSUME NotificationsInv PROVE NothingSkipped /\ DuplicatesNeedFaults
    BY DEF DeliveryIsSound
  <2>1. NothingSkipped
    BY DEF NotificationsInv, Positions, NothingSkipped
  <2>2. ASSUME NEW m \in MessageIds PROVE sent[m] <= 1 + faults
    <3>1. sent[m] <= faults + (IF Settling(m) THEN 1 ELSE 0)
      BY DEF NotificationsInv, Counts
    <3>2. sent[m] \in Nat /\ faults \in Nat
      BY DEF NotificationsInv, NotifyTypeOK
    <3> QED BY <3>1, <3>2
  <2> QED BY <2>1, <2>2 DEF DuplicatesNeedFaults
<1> QED BY <1>1, NotificationsInvariance, PTL
=============================================================================
