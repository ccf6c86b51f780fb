-------------------------- MODULE OrdersProjection --------------------------
(***************************************************************************)
(* The read model of the reference application: the managed projection     *)
(* "orders" (services/orders-go/internal/order/projection.go) and a page   *)
(* that renders it (apps/web/src/lib/use-orders.ts, orders.ts).            *)
(*                                                                         *)
(* The projection folds the facts of three services in the order they      *)
(* arrive, repeats included: the live gate emits an order.released a       *)
(* second time.  It keeps orders apart, and the module follows one.        *)
(*                                                                         *)
(* A page asks for the state once and subscribes at the same time; the     *)
(* answer and the frames of the subscription travel separately.  A state   *)
(* is named by the number of facts folded into it.  What the engine sends  *)
(* on connecting is not in the repository; that it sends the current state *)
(* is the assumption under which a page knows most.                        *)
(***************************************************************************)
EXTENDS Integers, Sequences, FiniteSets, SequencesExt

CONSTANTS
  Redeliverable,    \* facts that may arrive a second time
  MaxRedeliveries,  \* bound on those
  MaxNotifications, \* bound on notification.sent facts
  MaxMounts         \* bound on the times the page is opened

FactNames == {"order.placed", "order.approved", "order.released", "order.paid",
              "order.payment_failed", "payment.authorized", "payment.captured",
              "payment.declined", "notification.sent"}

(* order.placed only a stream carries, and no driver emits it again.        *)
ASSUME RedeliverableAssumption == Redeliverable \subseteq FactNames \ {"order.placed"}
ASSUME BoundsAssumption == {MaxRedeliveries, MaxNotifications, MaxMounts} \subseteq Nat

VARIABLES
  log,        \* the facts of the order, as they arrive at the projection
  repeats,    \* how many of them are repeats
  applied,    \* how many the projection has folded
  row,        \* the projected order
  mounts, mounted,
  request,    \* the page's getOrders
  answer,     \* the state it was answered with
  link,       \* the subscription, shared by all mounts
  feed,       \* its frames, on their way to the browser
  shown       \* the state the page renders, 0 before the first

pageVars == <<mounts, mounted, request, answer, link, feed, shown>>
projectionVars == <<log, repeats, applied, row, pageVars>>

-----------------------------------------------------------------------------
(* The facts, as Ordering, Payments and Notifications produce them.        *)

Seen(s) == Range(s)

CanFollow(name, facts) ==
  CASE name = "order.placed"         -> facts = {}
    [] name = "order.approved"       -> "order.placed" \in facts
    [] name = "order.released"       -> "order.approved" \in facts
    [] name \in {"payment.authorized", "payment.declined"} ->
         /\ "order.released" \in facts
         /\ {"payment.authorized", "payment.declined"} \cap facts = {}
    [] name = "payment.captured"     -> "payment.authorized" \in facts
    [] name = "order.paid"           -> "payment.captured" \in facts
    [] name = "order.payment_failed" -> "payment.declined" \in facts
    [] name = "notification.sent"    -> "order.placed" \in facts

Arrive(name) ==
  /\ CanFollow(name, Seen(log))
  /\ IF name = "notification.sent"
     THEN Len(SelectSeq(log, LAMBDA n : n = name)) < MaxNotifications
     ELSE name \notin Seen(log)
  /\ log' = Append(log, name)
  /\ UNCHANGED <<repeats, applied, row, pageVars>>

Redeliver(name) ==
  /\ name \in Redeliverable \cap Seen(log)
  /\ repeats < MaxRedeliveries
  /\ repeats' = repeats + 1
  /\ log' = Append(log, name)
  /\ UNCHANGED <<applied, row, pageVars>>

-----------------------------------------------------------------------------
(* The reducer.                                                            *)

(* Only order.* facts move the status, and a release only a waiting order. *)
NextStatus(status, name) ==
  CASE name = "order.placed"         -> "pending_approval"
    [] name = "order.released"       ->
         IF status = "pending_approval" THEN "processing_payment" ELSE status
    [] name = "order.paid"           -> "paid"
    [] name = "order.payment_failed" -> "payment_failed"
    [] OTHER                         -> status

ApplyFact(order, name) ==
  [status          |-> NextStatus(order.status, name),
   authorizationId |-> order.authorizationId
                       \/ name \in {"payment.authorized", "payment.captured"},
   captureId       |-> order.captureId \/ name \in {"payment.captured", "order.paid"},
   declineReason   |-> order.declineReason \/ name = "payment.declined",
   timeline        |-> Append(order.timeline, name)]

(* Mutant: the stage of a decline read off the status alone.               *)
StageOfStatus(order) ==
  IF order.status = "payment_failed" THEN "declined"
  ELSE IF order.captureId THEN "captured"
  ELSE IF order.authorizationId THEN "authorized"
  ELSE "not_started"

(* What the operator watches (orders.ts).                                  *)
PaymentStage(order) ==
  IF order.status = "payment_failed" \/ order.declineReason THEN "declined"
  ELSE IF order.captureId THEN "captured"
  ELSE IF order.authorizationId THEN "authorized"
  ELSE "not_started"

-----------------------------------------------------------------------------
InitProjection ==
  /\ log = <<>> /\ repeats = 0 /\ applied = 0
  /\ row = [status |-> "none", authorizationId |-> FALSE, captureId |-> FALSE,
            declineReason |-> FALSE, timeline |-> <<>>]
  /\ mounts = 0 /\ mounted = FALSE
  /\ request = "none" /\ answer = 0
  /\ link = "off" /\ feed = <<>> /\ shown = 0

(* The projection folds the next fact and sends the new state out.         *)
Apply ==
  /\ applied < Len(log)
  /\ row' = ApplyFact(row, log[applied + 1])
  /\ applied' = applied + 1
  /\ feed' = IF link = "connected" THEN Append(feed, applied + 1) ELSE feed
  /\ UNCHANGED <<log, repeats, mounts, mounted, request, answer, link, shown>>

(* The page opens: it asks, and joins the subscription, which the first    *)
(* mount begins and every later one finds.                                 *)
Mount ==
  /\ ~mounted
  /\ mounts < MaxMounts
  /\ mounts' = mounts + 1
  /\ mounted' = TRUE
  /\ request' = "asked"
  /\ link' = IF link = "off" THEN "connecting" ELSE link
  /\ shown' = 0
  /\ UNCHANGED <<log, repeats, applied, row, answer, feed>>

(* The page closes; an answer still under way will be ignored.             *)
Unmount ==
  /\ mounted
  /\ mounted' = FALSE
  /\ request' = "none"
  /\ shown' = 0
  /\ UNCHANGED <<log, repeats, applied, row, mounts, answer, link, feed>>

(* The engine answers getOrders with the state it has now.                 *)
Answer ==
  /\ request = "asked"
  /\ request' = "answered"
  /\ answer' = applied
  /\ UNCHANGED <<log, repeats, applied, row, mounts, mounted, link, feed, shown>>

(* The answer reaches the page and is shown, whatever is shown already.    *)
ShowAnswer ==
  /\ request = "answered"
  /\ request' = "done"
  /\ shown' = answer
  /\ UNCHANGED <<log, repeats, applied, row, mounts, mounted, answer, link, feed>>

(* The request fails: the page reports it and waits for frames.            *)
AnswerFails ==
  /\ request \in {"asked", "answered"}
  /\ request' = "done"
  /\ UNCHANGED <<log, repeats, applied, row, mounts, mounted, answer, link, feed, shown>>

Connect ==
  /\ link = "connecting"
  /\ link' = "connected"
  /\ feed' = Append(feed, applied)
  /\ UNCHANGED <<log, repeats, applied, row, mounts, mounted, request, answer, shown>>

(* Mutant: frames are ignored once the answer is there.                    *)
ShownBefore(n) == IF mounted /\ request # "done" THEN n ELSE shown

ShownAfter(n) == IF mounted THEN n ELSE shown

(* A frame reaches the browser: the mounted page shows it.                 *)
ShowFrame ==
  /\ feed # <<>>
  /\ feed' = Tail(feed)
  /\ shown' = ShownAfter(Head(feed))
  /\ UNCHANGED <<log, repeats, applied, row, mounts, mounted, request, answer, link>>

-----------------------------------------------------------------------------
ProjectionNext ==
  \/ \E name \in FactNames : Arrive(name) \/ Redeliver(name)
  \/ Apply
  \/ Mount \/ Unmount \/ Answer \/ ShowAnswer \/ AnswerFails \/ Connect \/ ShowFrame

(* The engine applies, answers and connects, and what it sends arrives.    *)
ProjectionFairness ==
  /\ WF_projectionVars(Apply) /\ WF_projectionVars(Connect) /\ WF_projectionVars(ShowFrame)
  /\ WF_projectionVars(Answer) /\ WF_projectionVars(ShowAnswer)

ProjectionSpec == InitProjection /\ [][ProjectionNext]_projectionVars
FairProjectionSpec == ProjectionSpec /\ ProjectionFairness

-----------------------------------------------------------------------------
(* Properties *)

Folded == Seen(SubSeq(log, 1, applied))

(* The status shown is that of the furthest fact of the order, wherever    *)
(* repeats of its facts arrive (TestRedeliveredReleaseDoesNotUndoTheOutcome *)
(* is one such arrival).                                                   *)
StatusIsFurthestFact ==
  row.status =
    IF "order.paid" \in Folded THEN "paid"
    ELSE IF "order.payment_failed" \in Folded THEN "payment_failed"
    ELSE IF "order.released" \in Folded THEN "processing_payment"
    ELSE IF "order.placed" \in Folded THEN "pending_approval"
    ELSE "none"

(* The payment stage the operator sees never disagrees with the facts on   *)
(* the two streams (orders.ts, PaymentStage), between a payment fact and   *)
(* Ordering's reaction to it and with repeats of either.                   *)
StageAgreesWithFacts ==
  PaymentStage(row) =
    IF "payment.declined" \in Folded THEN "declined"
    ELSE IF "payment.captured" \in Folded THEN "captured"
    ELSE IF "payment.authorized" \in Folded THEN "authorized"
    ELSE "not_started"

(* The row an operator sees says what the facts folded so far say.         *)
RowAgreesWithFacts == StatusIsFurthestFact /\ StageAgreesWithFacts

(* Once the page's own request is settled, frames under way bring it up to  *)
(* the projection, which they have in the end caught up with, unless the    *)
(* page closes.                                                             *)
FramesReachThePage ==
  (mounted /\ request = "done" /\ feed # <<>>)
    ~> (~mounted \/ (feed = <<>> /\ shown = applied))
=============================================================================
