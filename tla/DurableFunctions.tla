-------------------------- MODULE DurableFunctions --------------------------
(* What the examples' workers rely on when they hand the engine a durable   *)
(* function: a run executes its steps one at a time, a step's handler talks *)
(* to streams, buckets and topics, its result is recorded once the handler  *)
(* returned, a recorded step is never executed again and one that is not is *)
(* executed from its first line.  A handler that throws is tried again, and *)
(* a run that gives up undoes its recorded steps, the last one first.       *)
(*                                                                          *)
(* The functions themselves are data: a function is a sequence of steps, a  *)
(* step is [name, does, undo], and does and undo are sequences of effects.  *)
(* The modules that extend this one translate each example's worker into    *)
(* such steps.                                                              *)
EXTENDS Naturals, Sequences, FiniteSets

CONSTANTS Runs,          \* runs of functions and of the scripts that call them
          MaxAttempts,   \* bound: executions of a step before its run gives up
          MaxFaults      \* bound: lost answers, crashes and elapsed waits

ASSUME DurableAssumption == /\ MaxAttempts \in Nat \ {0}
                            /\ MaxFaults \in Nat

VARIABLES
  job,     \* what each run executes
  log,     \* every fact and event, in the order recorded: streams are parts of it
  cell,    \* key-value entries and stored objects: the version each is at
  run,     \* the runs
  hit,     \* the steps a lost answer or a crash made execute again
  faults   \* how many there were

vars == <<job, log, cell, run, hit, faults>>

-----------------------------------------------------------------------------
(* What a handler may do.  The version an append expects is a constant,     *)
(* the one the handler has just read, or what an earlier step answered.     *)

AnyVersion == <<"any">>
Version(n) == <<"at", n>>
AsRead == <<"read">>
After(s) == <<"step", s>>
Newer == <<"newer">>
Nothing == <<"nothing">>

NoKey == <<>>
MaxAnswer == 9
Anything == 0..MaxAnswer
Something == 1..MaxAnswer

Read(s) == [op |-> "read", on |-> s]
Record(s, name, v) == [op |-> "append", on |-> s, name |-> name, expect |-> v, key |-> NoKey]
Emit(name, of) == Record(of, name, AnyVersion)
EmitOnce(name, of, key) == [Emit(name, of) EXCEPT !.key = <<key>>]
Publish(topic, of) == [op |-> "publish", on |-> of, name |-> topic]
Get(c) == [op |-> "get", on |-> c]
Match(c, v) == [op |-> "match", on |-> c, value |-> v]
Cas(c) == [op |-> "cas", on |-> c]
Put(c, v) == [op |-> "put", on |-> c, value |-> v]
Refuse(answers) == [op |-> "refuse", on |-> answers]
View(of, names) == [op |-> "view", on |-> of, names |-> names]
Wait(of, names) == [op |-> "wait", on |-> of, names |-> names]

Step(name, does) == [name |-> name, does |-> does, undo |-> <<>>, needs |-> <<>>]
Undoing(s, effects) == [s EXCEPT !.undo = effects]
OnlyIf(s, step, answers) == [s EXCEPT !.needs = <<step, answers>>]

Request == <<"request">>
OnFact(s, name) == <<"fact", s, name>>
OnObject(c, v) == <<"object", c, v>>
Function(id, trigger, steps) == [id |-> id, trigger |-> trigger, steps |-> steps, errors |-> "retry"]

(* A script is a run nobody retries: an error ends it, or it goes on.       *)
Script(id, trigger, steps, errors) == [Function(id, trigger, steps) EXCEPT !.errors = errors]

-----------------------------------------------------------------------------
(* Facts by their positions in the log, and the version each one gave its   *)
(* stream: the first fact of a stream is at version 1.                      *)
Stream(s) == {i \in DOMAIN log : log[i].on = s}
Facts(s, name) == {i \in Stream(s) : log[i].name = name}
FactsBy(r, name) == {i \in DOMAIN log : log[i].by = r /\ log[i].name = name}
StreamVersion(s) == Cardinality(Stream(s))
VersionOf(i) == Cardinality({j \in Stream(log[i].on) : j <= i})

Idle(r) == [mode |-> IF job[r].trigger = Request THEN "forward" ELSE "waiting",
            pc |-> 1, at |-> 1, got |-> 0, tries |-> 1, memo |-> <<>>, kept |-> 0]

Steps(r) == job[r].steps
Forward(r) == run[r].mode = "forward"
Busy(r) == run[r].mode \in {"forward", "undo"}
Current(r) == Steps(r)[run[r].pc]
Effects(r) == IF run[r].mode = "undo" THEN Current(r).undo ELSE Current(r).does

(* What an earlier step of the run answered.                                *)
Position(r, s) == CHOOSE i \in DOMAIN Steps(r) : Steps(r)[i].name = s
Did(r, s) == \E i \in DOMAIN run[r].memo : Steps(r)[i].name = s
Memo(r, s) == run[r].memo[Position(r, s)]

Needed(r) == Current(r).needs # <<>> => Memo(r, Current(r).needs[1]) \in Current(r).needs[2]
Working(r) == Busy(r) /\ (Forward(r) => Needed(r))
Doing(r, op) == Working(r) /\ run[r].at <= Len(Effects(r)) /\ Effects(r)[run[r].at].op = op
Effect(r) == Effects(r)[run[r].at]
Ended(r) == run[r].mode \in {"completed", "failed"}

Set(r, rec) == run' = [run EXCEPT ![r] = rec]
GoTo(r, pc) == [run[r] EXCEPT !.pc = pc, !.at = 1, !.got = 0, !.tries = 1]

(* A handler returned: its answer is recorded and the next step is up, or   *)
(* the undo before.                                                         *)
UndoFrom(r, pc) == [GoTo(r, pc) EXCEPT !.mode = IF pc = 0 THEN "failed" ELSE "undo"]
Undoes(r) == run[r].mode = "undo"
Returned(r, v) ==
  IF Undoes(r) THEN UndoFrom(r, run[r].pc - 1)
  ELSE [GoTo(r, run[r].pc + 1) EXCEPT !.memo = Append(@, v),
                                      !.mode = IF run[r].pc = Len(Steps(r)) THEN "completed" ELSE "forward"]

(* A call is answered; the last one's answer is the handler's.              *)
Answer(r, v) == Set(r, IF run[r].at = Len(Effects(r)) THEN Returned(r, v)
                       ELSE [run[r] EXCEPT !.at = @ + 1, !.got = v])

(* The undo of a run that gives up starts at its last recorded step; an     *)
(* undo that gives up leaves the rest to the undos before it.               *)
GivesUp(r) == UndoFrom(r, IF Undoes(r) THEN run[r].pc - 1 ELSE Len(run[r].memo))

(* A handler threw: the step is executed again while attempts are left.     *)
Throw(r) ==
  \/ /\ job[r].errors = "retry" /\ run[r].tries < MaxAttempts
     /\ Set(r, [run[r] EXCEPT !.at = 1, !.got = 0, !.tries = @ + 1])
  \/ /\ job[r].errors = "stop" \/ run[r].tries = MaxAttempts
     /\ Set(r, GivesUp(r))
  \/ /\ job[r].errors = "skip"
     /\ Set(r, Returned(r, 0))

Hit(r, first) ==
  /\ faults < MaxFaults
  /\ faults' = faults + 1
  /\ hit' = hit \cup {<<r, run[r].mode, i>> : i \in first..run[r].pc}

-----------------------------------------------------------------------------
InitEngine ==
  /\ log = <<>>
  /\ run = [r \in Runs |-> Idle(r)]
  /\ hit = {}

Triggered(r) ==
  LET t == job[r].trigger IN
    \/ t[1] = "request"
    \/ t[1] = "fact" /\ Facts(t[2], t[3]) # {}
    \/ t[1] = "object" /\ cell[t[2]] >= t[3]

Start(r) ==
  /\ run[r].mode = "waiting"
  /\ Triggered(r)
  /\ Set(r, [run[r] EXCEPT !.mode = "forward"])
  /\ UNCHANGED <<job, log, cell, hit, faults>>

-----------------------------------------------------------------------------
(* A handler's calls, each an await of its own.                             *)

ReadStore(r) ==
  /\ \/ Doing(r, "read") /\ Answer(r, StreamVersion(Effect(r).on))
     \/ Doing(r, "get") /\ Answer(r, cell[Effect(r).on])
     \/ Doing(r, "match") /\ cell[Effect(r).on] = Effect(r).value /\ Answer(r, Effect(r).value)
  /\ UNCHANGED <<job, log, cell, hit, faults>>

(* Which of the named events is the last of an instance's: a projection may *)
(* be any number of events behind, and a deadline it compares with may not  *)
(* have passed, which reads the same.                                       *)
Named(name, names) == {k \in DOMAIN names : names[k] = name}
LastOf(r, n) ==
  LET e == Effect(r)
      some == {i \in 1..n : log[i].on = e.on /\ Named(log[i].name, e.names) # {}} IN
    IF some = {} THEN 0
    ELSE LET i == CHOOSE i \in some : \A j \in some : j <= i
         IN CHOOSE k \in Named(log[i].name, e.names) : TRUE

ReadView(r) ==
  /\ Doing(r, "view")
  /\ \E n \in 0..Len(log) : Answer(r, LastOf(r, n))
  /\ UNCHANGED <<job, log, cell, hit, faults>>

(* A run that waits leaves its worker, and the engine has its steps.  The   *)
(* first event of its instance that is recorded from then on answers it.    *)
Park(r) ==
  /\ Doing(r, "wait")
  /\ Set(r, [run[r] EXCEPT !.mode = "parked", !.got = Len(log), !.kept = run[r].pc - 1])
  /\ UNCHANGED <<job, log, cell, hit, faults>>

Answers(r) == {i \in run[r].got + 1..Len(log) : /\ log[i].on = Effect(r).on
                                                /\ Named(log[i].name, Effect(r).names) # {}}

Woken(r) ==
  /\ run[r].mode = "parked" /\ Answers(r) # {}
  /\ LET i == CHOOSE i \in Answers(r) : \A j \in Answers(r) : i <= j
         k == CHOOSE k \in Named(log[i].name, Effect(r).names) : TRUE
     IN Set(r, [Returned(r, k) EXCEPT !.kept = run[r].pc])
  /\ UNCHANGED <<job, log, cell, hit, faults>>

(* The time to live of a wait ends its run.                                 *)
Elapse(r) ==
  /\ run[r].mode = "parked" /\ Answers(r) = {}
  /\ Hit(r, run[r].pc)
  /\ Set(r, GivesUp(r))
  /\ UNCHANGED <<job, log, cell>>

(* A condition on the input or on what was read.  NonRetryableError ends    *)
(* the run's forward part at once.                                          *)
Check(r) ==
  /\ Doing(r, "refuse")
  /\ IF run[r].got \in Effect(r).on THEN Set(r, GivesUp(r)) ELSE Answer(r, run[r].got)
  /\ UNCHANGED <<job, log, cell, hit, faults>>

(* A write is rejected at another version than the one it names (an entry's *)
(* version grows with every write, so it stands for its revision), and an   *)
(* emit that repeats a key answers without emitting again.                  *)
Expected(r) ==
  LET v == Effect(r).expect IN
    CASE v[1] = "any"  -> StreamVersion(Effect(r).on)
      [] v[1] = "at"   -> v[2]
      [] v[1] = "read" -> run[r].got
      [] v[1] = "step" -> Memo(r, v[2])

CanWrite(r) ==
  \/ Doing(r, "append") /\ StreamVersion(Effect(r).on) = Expected(r)
  \/ Doing(r, "cas") /\ cell[Effect(r).on] = run[r].got
  \/ Doing(r, "publish") \/ Doing(r, "put")

Keyed(r) == LET e == Effect(r) IN
  [on |-> e.on, name |-> e.name, by |-> r, about |-> run[r].got,
   key |-> IF e.op = "append" /\ e.key # NoKey THEN Append(e.key, run[r].got) ELSE NoKey]
Repeated(r) == \E i \in DOMAIN log : log[i].key # NoKey /\ log[i].key = Keyed(r).key

Write(r) ==
  LET e == Effect(r) IN
    \/ /\ e.op \in {"append", "publish"}
       /\ log' = IF Repeated(r) THEN log ELSE Append(log, Keyed(r))
       /\ UNCHANGED cell
    \/ /\ e.op \in {"cas", "put"}
       /\ cell' = [cell EXCEPT ![e.on] = IF e.op = "cas" \/ e.value = Newer THEN @ + 1
                                         ELSE IF e.value = Nothing THEN 0 ELSE Memo(r, e.value[2])]
       /\ UNCHANGED log

Written(r) ==
  LET e == Effect(r) IN
    IF e.op = "append" /\ e.key = NoKey THEN StreamVersion(e.on) + 1
    ELSE IF e.op = "cas" THEN run[r].got + 1 ELSE run[r].got

Call(r) ==
  /\ CanWrite(r)
  /\ Write(r)
  /\ Answer(r, Written(r))
  /\ UNCHANGED <<job, hit, faults>>

(* Another version or another revision than the one the call names.         *)
Conflict(r) ==
  /\ \/ (Doing(r, "append") \/ Doing(r, "cas")) /\ ~CanWrite(r)
     \/ Doing(r, "match") /\ cell[Effect(r).on] # Effect(r).value
  /\ Throw(r)
  /\ UNCHANGED <<job, log, cell, hit, faults>>

(* The write is done and its answer never arrives.  A message published by  *)
(* the engine's own step has no such gap.                                   *)
LoseAnswer(r) ==
  /\ CanWrite(r) /\ ~Doing(r, "publish")
  /\ Hit(r, run[r].pc)
  /\ Write(r)
  /\ Throw(r)
  /\ UNCHANGED job

-----------------------------------------------------------------------------
(* A step that calls nothing, or whose condition does not hold.             *)
Pass(r) ==
  /\ Busy(r)
  /\ IF Forward(r) /\ ~Needed(r) THEN TRUE ELSE Effects(r) = <<>>
  /\ Set(r, Returned(r, 0))
  /\ UNCHANGED <<job, log, cell, hit, faults>>

(* The worker dies.  It ships the steps it recorded on a timer, so the      *)
(* steps since the last shipment are executed again as well.                *)
Crash(r) ==
  /\ Busy(r) /\ job[r].errors = "retry"
  /\ IF ~Forward(r)
     THEN run[r].at > 1 /\ Hit(r, run[r].pc) /\ Set(r, GoTo(r, run[r].pc))
     ELSE \E k \in run[r].kept..Len(run[r].memo) :
            /\ k < Len(run[r].memo) \/ run[r].at > 1
            /\ Hit(r, k + 1)
            /\ Set(r, [GoTo(r, k + 1) EXCEPT !.kept = k, !.memo = SubSeq(@, 1, k)])
  /\ UNCHANGED <<job, log, cell>>

Advance(r) ==
  \/ Start(r) \/ ReadStore(r) \/ ReadView(r) \/ Park(r) \/ Woken(r) \/ Check(r) \/ Call(r) \/ Conflict(r)
  \/ Pass(r)

Next == \E r \in Runs : Advance(r) \/ LoseAnswer(r) \/ Crash(r) \/ Elapse(r)

-----------------------------------------------------------------------------
(* The events as a projection sees them when those at the positions of      *)
(* twice are handed to it a second time.                                    *)
Handled(twice) ==
  LET Seen[i \in 0..Len(log)] ==
        IF i = 0 THEN <<>>
        ELSE Seen[i - 1] \o (IF i \in twice THEN <<log[i], log[i]>> ELSE <<log[i]>>)
  IN Seen[Len(log)]

(* A left fold.  SequencesExt!FoldLeft is the same and looks for the largest *)
(* of the remaining indexes at every element.                               *)
Folded(Reduce(_, _), initial, events) ==
  LET State[i \in 0..Len(events)] == IF i = 0 THEN initial ELSE Reduce(State[i - 1], events[i])
  IN State[Len(events)]
=============================================================================
