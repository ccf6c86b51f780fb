---------------------------- MODULE SystemStatus ----------------------------
(* What the reference application's pages say about one of its processes    *)
(* (apps/web/src/lib: use-poll.ts and its callers): a row of /system for a  *)
(* worker or for the subscriber, or the worker indicator of /operations.    *)
(* Each asks the engine on a timer and shows the answers in the order they  *)
(* come back in, which need not be the one they were asked in.              *)
EXTENDS Integers

CONSTANTS Slots,       \* looks that may be under way at once
          MaxHiccups   \* bound: requests that fail, or answers that take too long

ASSUME HiccupsAssumption == MaxHiccups \in Nat

VARIABLES
  view,       \* what the tab follows, "none" when it shows another page
  engineUp,
  process,    \* the process the view is about
  evidence,   \* what the engine holds of it: no heartbeat, an old or a fresh one
  open,       \* the view is mounted
  look,       \* the polls under way
  seen,       \* the answer on the page
  hiccups

statusVars == <<view, engineUp, process, evidence, open, look, seen, hiccups>>

Views == {"worker", "subscriber", "indicator"}
Unreachable == "unreachable"
Unread == "unread"

NotLooking == [at |-> "idle", answer |-> Unreachable, live |-> FALSE]

InitStatus ==
  /\ view \in Views \cup {"none"}
  /\ engineUp = TRUE
  /\ process = "gone" /\ evidence = "none"
  /\ open = FALSE
  /\ look = [i \in Slots |-> NotLooking]
  /\ seen = Unreachable
  /\ hiccups = 0

-----------------------------------------------------------------------------
(* The engine, and the process with its heartbeats.                         *)

EngineToggles ==
  /\ engineUp' = ~engineUp
  /\ UNCHANGED <<view, process, evidence, open, look, seen, hiccups>>

ProcessToggles ==
  /\ process' = IF process = "up" THEN "gone" ELSE "up"
  /\ UNCHANGED <<view, engineUp, evidence, open, look, seen, hiccups>>

Heartbeat ==
  /\ process = "up" /\ engineUp /\ evidence # "fresh"
  /\ evidence' = "fresh"
  /\ UNCHANGED <<view, engineUp, process, open, look, seen, hiccups>>

Aged(answer) == IF answer = "fresh" THEN "old" ELSE answer

(* Nothing removes a record: it grows old, and every answer on its way      *)
(* with it.                                                                 *)
HeartbeatAges ==
  /\ process = "gone" /\ evidence = "fresh"
  /\ evidence' = "old"
  /\ look' = [i \in Slots |-> [look[i] EXCEPT !.answer = Aged(@)]]
  /\ UNCHANGED <<view, engineUp, process, open, seen, hiccups>>

-----------------------------------------------------------------------------
(* usePoll.                                                                 *)

Moved(i, place, answer) == look' = [look EXCEPT ![i].at = place, ![i].answer = answer]

Open ==
  /\ view # "none" /\ ~open
  /\ open' = TRUE /\ seen' = Unreachable
  /\ UNCHANGED <<view, engineUp, process, evidence, look, hiccups>>

(* The answers still under way will be ignored.                             *)
Close ==
  /\ open
  /\ open' = FALSE
  /\ look' = [i \in Slots |-> [look[i] EXCEPT !.live = FALSE]]
  /\ UNCHANGED <<view, engineUp, process, evidence, seen, hiccups>>

(* The timer does not wait for the look before.                             *)
Tick(i) ==
  /\ open /\ look[i].at = "idle"
  /\ look' = [look EXCEPT ![i] = [NotLooking EXCEPT !.at = IF view = "indicator" THEN "list" ELSE "health",
                                                    !.live = TRUE]]
  /\ UNCHANGED <<view, engineUp, process, evidence, open, seen, hiccups>>

(* A request fails when the engine is down, and now and then otherwise.     *)
Fails ==
  \/ ~engineUp /\ UNCHANGED hiccups
  \/ hiccups < MaxHiccups /\ hiccups' = hiccups + 1

(* /system asks for the engine's health first, and alone.                   *)
AnswerHealth(i) ==
  /\ look[i].at = "health"
  /\ \/ engineUp /\ Moved(i, "list", Unreachable) /\ UNCHANGED hiccups
     \/ Fails /\ Moved(i, "answered", Unreachable)
  /\ UNCHANGED <<view, engineUp, process, evidence, open, seen>>

(* What a list that could not be read turns into: no workers, no heartbeat  *)
(* or, on /operations, no answer.                                           *)
Unanswered ==
  CASE view = "worker" -> "none" [] view = "subscriber" -> Unread [] view = "indicator" -> Unreachable

(* listWorkers, or the heartbeat's entry, which may not be there.           *)
Listed == IF view = "subscriber" /\ evidence = "none" THEN Unread ELSE evidence

AnswerList(i) ==
  /\ look[i].at = "list"
  /\ \/ engineUp /\ Moved(i, "answered", Listed) /\ UNCHANGED hiccups
     \/ Fails /\ Moved(i, "answered", Unanswered)
  /\ UNCHANGED <<view, engineUp, process, evidence, open, seen>>

(* Mutant: a failed look leaves what is shown.                              *)
KeptOnFailure(i) == IF look[i].answer = Unreachable THEN seen ELSE look[i].answer

Latest(i) == look[i].answer

(* The answer reaches the page; or it takes so long that its heartbeat is   *)
(* old by then.                                                             *)
Show(i) ==
  /\ look[i].at = "answered"
  /\ look' = [look EXCEPT ![i] = NotLooking]
  /\ \/ seen' = (IF look[i].live THEN Latest(i) ELSE seen) /\ UNCHANGED hiccups
     \/ /\ look[i].live /\ look[i].answer = "fresh" /\ hiccups < MaxHiccups
        /\ seen' = "old" /\ hiccups' = hiccups + 1
  /\ UNCHANGED <<view, engineUp, process, evidence, open>>

StatusNext ==
  \/ EngineToggles \/ ProcessToggles \/ Heartbeat \/ HeartbeatAges \/ Open \/ Close
  \/ \E i \in Slots : Tick(i) \/ AnswerHealth(i) \/ AnswerList(i) \/ Show(i)

(* The timers of the page and of the process go on, and the browser ends    *)
(* every request.                                                           *)
StatusFairness ==
  /\ WF_statusVars(Heartbeat) /\ WF_statusVars(HeartbeatAges)
  /\ \A i \in Slots : WF_statusVars(Tick(i)) /\ WF_statusVars(AnswerHealth(i))
                      /\ WF_statusVars(AnswerList(i)) /\ WF_statusVars(Show(i))

-----------------------------------------------------------------------------
(* What the page says of the process, and /system of the engine.            *)
Fresh == seen = "fresh"
WorkerHealth == IF seen = Unreachable THEN "unknown" ELSE IF Fresh THEN "up" ELSE "down"
SubscriberHealth == IF seen \in {Unreachable, Unread} THEN "unknown" ELSE IF Fresh THEN "up" ELSE "down"
Claim == IF view = "subscriber" THEN SubscriberHealth ELSE WorkerHealth
EngineHealth == IF seen = Unreachable THEN "down" ELSE "up"

Truth(up, p) ==
  IF ~up \/ (view = "subscriber" /\ evidence = "none") THEN "unknown" ELSE IF p = "up" THEN "up" ELSE "down"

(* A page that stays open ends up saying what is so, and goes on saying it, *)
(* once the engine and the process stay as they are: answers that came back *)
(* out of order, too late or not at all, and those of an earlier mount, do  *)
(* not stay on it.                                                          *)
PageSettles ==
  \A up \in BOOLEAN, p \in {"up", "gone"} :
    <>[](open /\ engineUp = up /\ process = p)
      => <>[](Claim = Truth(up, p) /\ EngineHealth = IF up THEN "up" ELSE "down")
=============================================================================
