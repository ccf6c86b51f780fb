------------------------------ MODULE Notifier ------------------------------
(* notifier: a subscriber that alerts on failed runs and on projections     *)
(* that go wrong.  What it has done lives in a bucket: a cursor for each of *)
(* its two subscriptions, the failures it has alerted on, and the failure   *)
(* of a projection that goes on.  A frame is the failure it tells of.       *)
EXTENDS DurableFunctions

VARIABLES
  frames,   \* the frames each subscription delivers, in order
  rules,    \* the subscriptions that are to alert
  cursor,   \* the last frame of each that is dealt with
  sent,     \* run failures marked as alerted
  health,   \* the failure recorded for the projection
  up,       \* the process runs
  hand,     \* the frame each subscription's queue is at
  doing,    \* where process() is with it
  pending,  \* alerts sent by this process and not marked yet
  alerts,   \* how often each failure was alerted
  muted,    \* subscriptions that were told not to alert at some time
  doubts    \* alerts sent that nobody recorded

bucketVars == <<rules, cursor, sent, health>>
notifierVars == <<frames, bucketVars, up, hand, doing, pending, alerts, muted, doubts>>

Topics == {"runs", "health"}
NoFailure == "none"
Quiet == [s \in Topics |-> <<>>]
Alertable == {"a", "b", "broken"}

InitNotifier ==
  /\ rules = Topics
  /\ cursor = [s \in Topics |-> 0] /\ sent = {} /\ health = NoFailure
  /\ up = FALSE /\ hand = [s \in Topics |-> 1] /\ doing = [s \in Topics |-> "take"]
  /\ pending = {} /\ alerts = [f \in Alertable |-> 0]
  /\ muted = {} /\ doubts = 0

Frame(s) == frames[s][hand[s]]
InHand(s) == up /\ hand[s] <= Len(frames[s])
PendingKey(s) == IF s = "runs" THEN Frame(s) ELSE "health"
Known(s) == IF s = "runs" THEN Frame(s) \in sent ELSE Frame(s) = health

Goes(s, place) == doing' = [doing EXCEPT ![s] = place]
Mishap == faults < MaxFaults /\ faults' = faults + 1
EngineIdle == UNCHANGED <<job, log, cell, run, hit>>

(* The subscriptions resume after their cursors.                            *)
StartNotifier ==
  /\ ~up /\ frames # Quiet
  /\ up' = TRUE
  /\ hand' = [s \in Topics |-> cursor[s] + 1]
  /\ UNCHANGED <<vars, frames, bucketVars, doing, pending, alerts, muted, doubts>>

(* A failure is news when the rules ask for it and nothing says it was      *)
(* alerted; a run's is marked only then, a projection's state always.       *)
IsNews(s) == Frame(s) # NoFailure /\ s \in rules /\ ~Known(s)
IsMarked(s) == s = "health" \/ IsNews(s)

Process(s) ==
  /\ InHand(s) /\ doing[s] = "take"
  /\ \/ /\ hand[s] <= cursor[s]
        /\ hand' = [hand EXCEPT ![s] = @ + 1] /\ UNCHANGED <<doing, pending>>
     \/ /\ hand[s] > cursor[s]
        /\ Goes(s, IF IsNews(s) /\ PendingKey(s) \notin pending THEN "send"
                   ELSE IF IsMarked(s) THEN "mark" ELSE "checkpoint")
        /\ pending' = IF s = "runs" /\ s \in rules /\ Known(s) THEN pending \ {Frame(s)} ELSE pending
        /\ UNCHANGED hand
  /\ UNCHANGED <<vars, frames, bucketVars, up, alerts, muted, doubts>>

(* The webhook: it fails, or it succeeds and the answer is lost.  An error  *)
(* at any step starts the frame over after two seconds.                     *)
Alerted(s) == alerts' = [alerts EXCEPT ![Frame(s)] = @ + 1]

Send(s) ==
  /\ InHand(s) /\ doing[s] = "send"
  /\ \/ /\ Alerted(s) /\ Goes(s, "mark")
        /\ pending' = pending \cup {PendingKey(s)}
        /\ UNCHANGED <<faults, doubts>>
     \/ Mishap /\ Goes(s, "take") /\ UNCHANGED <<pending, alerts, doubts>>
     \/ Mishap /\ Goes(s, "take") /\ Alerted(s) /\ doubts' = doubts + 1 /\ UNCHANGED pending
  /\ EngineIdle
  /\ UNCHANGED <<frames, bucketVars, up, hand, muted>>

Mark(s) ==
  /\ sent' = IF s = "runs" THEN sent \cup {Frame(s)} ELSE sent
  /\ health' = IF s = "health" THEN Frame(s) ELSE health

(* Mutant: what is pending is forgotten whether or not it was marked.       *)
ForgottenAnyway(s) == pending \ {PendingKey(s)}

StillPending(s) == pending

PutMark(s) ==
  /\ InHand(s) /\ doing[s] = "mark"
  /\ \/ Mark(s) /\ Goes(s, "checkpoint") /\ pending' = pending \ {PendingKey(s)} /\ UNCHANGED faults
     \/ /\ Mishap /\ Goes(s, "take") /\ pending' = StillPending(s)
        /\ Mark(s) \/ UNCHANGED <<sent, health>>
  /\ EngineIdle
  /\ UNCHANGED <<frames, rules, cursor, up, hand, alerts, muted, doubts>>

PutCursor(s) ==
  /\ InHand(s) /\ doing[s] = "checkpoint"
  /\ Goes(s, "take")
  /\ \/ cursor' = [cursor EXCEPT ![s] = hand[s]] /\ hand' = [hand EXCEPT ![s] = @ + 1] /\ UNCHANGED faults
     \/ Mishap /\ UNCHANGED <<cursor, hand>>
  /\ EngineIdle
  /\ UNCHANGED <<frames, rules, sent, health, up, pending, alerts, muted, doubts>>

(* The process ends, and its memory with it.                                *)
StopNotifier ==
  /\ up /\ Mishap
  /\ up' = FALSE
  /\ doing' = [s \in Topics |-> "take"] /\ pending' = {}
  /\ doubts' = doubts + Cardinality(pending)
  /\ EngineIdle
  /\ UNCHANGED <<frames, bucketVars, hand, alerts, muted>>

(* The subscription reconnects, and delivers a frame again.                 *)
Reconnect(s) ==
  /\ up /\ doing[s] = "take" /\ hand[s] > 1 /\ Mishap
  /\ hand' = [hand EXCEPT ![s] = @ - 1]
  /\ EngineIdle
  /\ UNCHANGED <<frames, bucketVars, up, doing, pending, alerts, muted, doubts>>

(* scripts/replay.ts, while the notifier is stopped, and scripts/rules.ts.  *)
ReplayRuns ==
  /\ ~up /\ Mishap
  /\ cursor' = [cursor EXCEPT !["runs"] = 0]
  /\ EngineIdle
  /\ UNCHANGED <<frames, rules, sent, health, up, hand, doing, pending, alerts, muted, doubts>>

SetRules(on) ==
  /\ frames # Quiet /\ on # rules /\ Mishap
  /\ rules' = on /\ muted' = muted \cup (Topics \ on)
  /\ EngineIdle
  /\ UNCHANGED <<frames, cursor, sent, health, up, hand, doing, pending, alerts, doubts>>

NotifierNext ==
  \/ StartNotifier \/ StopNotifier \/ ReplayRuns
  \/ \E s \in Topics : Process(s) \/ Send(s) \/ PutMark(s) \/ PutCursor(s) \/ Reconnect(s)
  \/ \E on \in SUBSET Topics : SetRules(on)

-----------------------------------------------------------------------------
(* Times the projection went wrong in a way it was not already, up to the   *)
(* n-th frame.                                                              *)
Onsets(n) ==
  Cardinality({i \in 1..n : frames["health"][i] # NoFailure
                            /\ (i > 1 => frames["health"][i - 1] # frames["health"][i])})

RunFailures(n) == {frames["runs"][i] : i \in 1..n} \ {NoFailure}
HealthAlerts == alerts["broken"]

(* A failure the cursor has passed was alerted, unless the rules were off,  *)
(* and once: frames that tell of it again, restarts, replays and writes     *)
(* that fail repeat no alert.  One more may go out for each alert whose     *)
(* delivery the process could not learn of, or did not live to record.      *)
AlertsMatchFailures ==
  /\ \A f \in RunFailures(Len(frames["runs"])) :
       /\ alerts[f] <= 1 + doubts
       /\ f \in RunFailures(cursor["runs"]) /\ "runs" \notin muted => alerts[f] >= 1
  /\ HealthAlerts <= Onsets(Len(frames["health"])) + doubts
  /\ "health" \notin muted => HealthAlerts >= Onsets(cursor["health"])
=============================================================================
