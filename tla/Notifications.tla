---------------------------- MODULE Notifications ----------------------------
(***************************************************************************)
(* The Notifications context of the reference application                  *)
(* (examples/reference-app/services/notifications-python): one process     *)
(* that subscribes to notifications.order-status, writes every message to  *)
(* a local delivery log, and emits notification.sent for it.               *)
(*                                                                         *)
(* The delivery log, its duplicate guard and the resume cursor are one     *)
(* SQLite file and change in one transaction.  The emit follows the        *)
(* commit, and its acknowledgement is recorded after the emit, so a crash  *)
(* can fall between any two of the three.  The topic is a log with         *)
(* positions; a subscription that resumes may hand out earlier frames      *)
(* again.                                                                  *)
(***************************************************************************)
EXTENDS Integers, Sequences, FiniteSets, FiniteSetsExt, SequencesExt

CONSTANTS
  MessageIds,   \* ids Ordering derives from an order and a status
  Malformed,    \* those whose payload fails the topic's schema
  MaxFrames,    \* bound on the frames published
  MaxFaults,    \* bound on crashes, failed transactions and failed emits
  MaxResumes    \* bound on connections dropped and resumed

ASSUME IdsAssumption == Malformed \subseteq MessageIds
ASSUME NotifyBoundsAssumption == {MaxFrames, MaxFaults, MaxResumes} \subseteq Nat

VARIABLES
  topic,      \* the frames on the topic: message ids, by position
  deliveries, \* deliveries[m] is the position recorded for m, 0 if none
  cursor,     \* the persisted resume position
  emitted,    \* deliveries whose notification.sent was acknowledged
  sent,       \* notification.sent events the engine has taken, per message
  pc,
  next,       \* the next frame of the subscription, 0 before subscribing
  todo,       \* deliveries still to be emitted, in order
  undelivered,\* frames the service logged that it could not record
  faults, resumes

notifyVars == <<topic, deliveries, cursor, emitted, sent, pc, next, todo, undelivered, faults, resumes>>

store == <<deliveries, cursor, emitted>>

NotifyTypeOK ==
  /\ topic \in Seq(MessageIds)
  /\ deliveries \in [MessageIds -> Nat]
  /\ cursor \in Nat
  /\ emitted \in SUBSET MessageIds
  /\ sent \in [MessageIds -> Nat]
  /\ pc \in {"down", "emitting", "marking", "subscribing", "listening"}
  /\ next \in Nat
  /\ todo \in Seq(MessageIds)
  /\ undelivered \in SUBSET Nat
  /\ {faults, resumes} \subseteq Nat

Delivered == {m \in MessageIds : deliveries[m] > 0}

(* unemitted(): deliveries without an acknowledged emit, oldest first.     *)
Unemitted ==
  {s \in SeqOf(Delivered \ emitted, Len(topic)) :
     /\ Range(s) = Delivered \ emitted
     /\ \A i, j \in DOMAIN s : i < j => deliveries[s[i]] < deliveries[s[j]]}

-----------------------------------------------------------------------------
NotifyInit ==
  /\ topic = <<>>
  /\ deliveries = [m \in MessageIds |-> 0]
  /\ cursor = 0
  /\ emitted = {}
  /\ sent = [m \in MessageIds |-> 0]
  /\ pc = "down"
  /\ next = 0
  /\ todo = <<>>
  /\ undelivered = {}
  /\ faults = 0
  /\ resumes = 0

(* Ordering publishes a status message: the same one again if a second run *)
(* or a retry announces the same status.                                   *)
Publish(m) ==
  /\ Len(topic) < MaxFrames
  /\ topic' = Append(topic, m)
  /\ UNCHANGED <<store, sent, pc, next, todo, undelivered, faults, resumes>>

(* Where the service goes once nothing is left to emit: before subscribing *)
(* it subscribes, afterwards it takes the next frame.                      *)
Resting == IF next = 0 THEN "subscribing" ELSE "listening"

(* subscribe_forever: open the store and first emit what a previous        *)
(* process committed and never saw acknowledged.                           *)
OpenStore ==
  /\ pc = "down"
  /\ todo' \in Unemitted
  /\ pc' = IF todo' = <<>> THEN "subscribing" ELSE "emitting"
  /\ UNCHANGED <<topic, store, sent, next, undelivered, faults, resumes>>

(* Mutant: the cursor taken for the next frame, not for the last.          *)
ResumePast == {cursor + 2}

ResumeFrom == 1 .. cursor + 1

(* consume: subscribe after the persisted cursor.  At least once: frames   *)
(* up to the cursor may come again.                                        *)
Subscribe ==
  /\ pc = "subscribing"
  /\ next' \in ResumeFrom
  /\ pc' = "listening"
  /\ UNCHANGED <<topic, store, sent, todo, undelivered, faults, resumes>>

(* A frame that fails the schema is logged and passed over; nothing is     *)
(* written for it, the cursor included.                                    *)
SkipMalformed ==
  /\ pc = "listening"
  /\ next <= Len(topic)
  /\ topic[next] \in Malformed
  /\ next' = next + 1
  /\ UNCHANGED <<topic, store, sent, pc, todo, undelivered, faults, resumes>>

(* Mutant: the cursor one too far.                                         *)
CursorAhead == Max({cursor, next}) + 1

IsDuplicate(m) == m \in Delivered
CursorAfter == Max({cursor, next})

(* handle_message up to the commit: the row and the cursor in one          *)
(* transaction.  A message already in the log moves the cursor only.       *)
Record ==
  /\ pc = "listening"
  /\ next <= Len(topic)
  /\ LET m == topic[next] IN
     /\ m \notin Malformed
     /\ cursor' = CursorAfter
     /\ IF IsDuplicate(m)
        THEN /\ next' = next + 1
             /\ UNCHANGED <<deliveries, pc, todo>>
        ELSE /\ deliveries' = [deliveries EXCEPT ![m] = next]
             /\ todo' = <<m>>
             /\ pc' = "emitting"
             /\ UNCHANGED next
  /\ UNCHANGED <<topic, emitted, sent, undelivered, faults, resumes>>

(* The transaction fails and rolls back; deliver logs it and goes on to    *)
(* the next frame.                                                         *)
RecordFails ==
  /\ pc = "listening"
  /\ next <= Len(topic)
  /\ topic[next] \notin Malformed
  /\ faults < MaxFaults
  /\ faults' = faults + 1
  /\ undelivered' = undelivered \cup {next}
  /\ next' = next + 1
  /\ UNCHANGED <<topic, store, sent, pc, todo, resumes>>

(* _announce: the engine takes notification.sent; there is no idempotency  *)
(* key, so it takes every one.                                             *)
Emit ==
  /\ pc = "emitting"
  /\ sent' = [sent EXCEPT ![Head(todo)] = @ + 1]
  /\ pc' = "marking"
  /\ UNCHANGED <<topic, store, next, todo, undelivered, faults, resumes>>

(* mark_emitted, and on to the next delivery or frame.                     *)
Mark ==
  /\ pc = "marking"
  /\ emitted' = emitted \cup {Head(todo)}
  /\ todo' = Tail(todo)
  /\ pc' = IF Len(todo) > 1 THEN "emitting" ELSE Resting
  /\ next' = IF next = 0 THEN 0 ELSE next + 1
  /\ UNCHANGED <<topic, deliveries, cursor, sent, undelivered, faults, resumes>>

(* The emit fails, or its answer is lost.  While subscribed the error is   *)
(* logged and the next frame follows; at startup it ends the thread, and   *)
(* the process with it.                                                    *)
EmitFails ==
  /\ pc \in {"emitting", "marking"}
  /\ faults < MaxFaults
  /\ faults' = faults + 1
  /\ todo' = <<>>
  /\ IF next = 0 THEN pc' = "down" /\ UNCHANGED next
     ELSE pc' = "listening" /\ next' = next + 1
  /\ UNCHANGED <<topic, store, sent, undelivered, resumes>>

(* The connection drops while the service waits for a frame: the SDK       *)
(* resumes it, or the iterator raises and consume subscribes again from    *)
(* the cursor.                                                             *)
Resume ==
  /\ pc = "listening"
  /\ resumes < MaxResumes
  /\ resumes' = resumes + 1
  /\ \/ next' \in 1 .. next /\ UNCHANGED pc
     \/ next' = 0 /\ pc' = "subscribing"
  /\ UNCHANGED <<topic, store, sent, todo, undelivered, faults>>

(* The process dies, or is stopped.  Only the database survives.           *)
Crash ==
  /\ pc # "down"
  /\ faults < MaxFaults
  /\ faults' = faults + 1
  /\ pc' = "down"
  /\ next' = 0
  /\ todo' = <<>>
  /\ UNCHANGED <<topic, store, sent, undelivered, resumes>>

-----------------------------------------------------------------------------
Service == OpenStore \/ Subscribe \/ SkipMalformed \/ Record \/ Emit \/ Mark

NotifyNext ==
  \/ \E m \in MessageIds : Publish(m)
  \/ Service
  \/ RecordFails \/ EmitFails \/ Resume \/ Crash

(* The process is started again after it stopped, and runs.                *)
NotifyFairness == WF_notifyVars(Service)

NotifySpec == NotifyInit /\ [][NotifyNext]_notifyVars
FairNotifySpec == NotifySpec /\ NotifyFairness

-----------------------------------------------------------------------------
(* Properties *)

Handled(i) ==
  i <= Len(topic) /\ (topic[i] \in Delivered \cup Malformed \/ i \in undelivered)

(* The cursor never passes a frame that left no trace: every frame up to   *)
(* it is in the delivery log, or malformed, or logged as undelivered.  It  *)
(* is what "one transaction across all three" is for (store.py).           *)
NothingSkipped == \A i \in 1 .. cursor : Handled(i)

(* A second notification.sent for one message costs a crash or a lost      *)
(* answer: duplicates on the topic, redelivered frames and resumed         *)
(* connections alone never produce one.                                    *)
DuplicatesNeedFaults == \A m \in MessageIds : sent[m] <= 1 + faults

(* Each frame leaves a trace before it is passed, and one, up to faults.   *)
DeliveryIsSound == NothingSkipped /\ DuplicatesNeedFaults

(* Every well-formed frame is delivered or its failure logged, although    *)
(* the process crashes and the connection drops.                           *)
EveryFrameIsHandled ==
  \A i \in 1 .. MaxFrames : i <= Len(topic) ~> Handled(i)

(* A delivery a process left unacknowledged is acknowledged after the      *)
(* restart (resend_unacknowledged).                                        *)
RestartResends ==
  \A m \in MessageIds :
    (pc = "down" /\ m \in Delivered \ emitted) ~> m \in emitted

(* Nothing that reached the topic or the delivery log stays unfinished.    *)
FramesGetThrough == EveryFrameIsHandled /\ RestartResends

=============================================================================
