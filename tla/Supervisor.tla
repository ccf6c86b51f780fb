------------------------------ MODULE Supervisor ------------------------------
(***************************************************************************)
(* The supervisor of the reference application                             *)
(* (examples/reference-app/scripts): it starts the engine and the services *)
(* one after another, each once the one before is ready, kills and         *)
(* restarts a crashable service on command, and stops everything in        *)
(* reverse order.  It is one process, but its startup, its shutdown and    *)
(* the crash commands are asynchronous and interleave at every await.      *)
(*                                                                         *)
(* A child is a row of the table and the number of its incarnation.        *)
(* Most services are judged ready by a heartbeat the engine holds,         *)
(* whichever incarnation wrote it, while it is fresh.                      *)
(***************************************************************************)
EXTENDS Integers, Sequences, FiniteSets, SequencesExt

CONSTANTS
  Rows,         \* the child table, in start order; the engine is first
  Crashable,    \* rows the crash command may target
  Beating,      \* rows judged by the heartbeat they leave with the engine
  MaxDeaths,    \* bound on children that die by themselves
  MaxCommands   \* bound on crash commands

ASSUME RowsAssumption ==
  /\ Rows \in Seq(Range(Rows)) /\ Rows # <<>> /\ IsInjective(Rows)
  /\ Crashable \cup Beating \subseteq Range(Rows)
ASSUME SupervisorBounds == {MaxDeaths, MaxCommands} \subseteq Nat

RowNames == Range(Rows)
Engine == Rows[1]
Children == RowNames \X (Nat \ {0})
RowOf(c) == c[1]

(* stopAll has two callers: a signal or the engine's exit, and a startup   *)
(* that failed.                                                            *)
Callers == {"shutdown", "startup"}

VARIABLES
  spawned,     \* incarnations started so far, per row
  alive,       \* children that are running
  fresh,       \* children whose last heartbeat is still fresh
  entries,     \* the supervisor's table of children
  main, k,     \* where main() is, and the row it is starting
  stopping, shuttingDown,
  stop,        \* stop[w]: what stopAll, called by w, is doing
  left,        \* left[w]: children it has still to stop
  terminated,  \* children stopAll has signalled
  queue, task, \* rows of the crash commands unanswered, and where the first one is
  early,       \* the shutdown began before startup had finished
  deaths, commands

childVars == <<spawned, alive, fresh>>
stopVars == <<stopping, shuttingDown, stop, left, terminated, early>>
taskVars == <<queue, task, commands>>
supervisorVars == <<childVars, entries, main, k, stopVars, taskVars, deaths>>

TypeOK ==
  /\ spawned \in [RowNames -> Nat]
  /\ {alive, fresh, terminated} \subseteq SUBSET Children
  /\ entries \in Seq(Children)
  /\ main \in {"spawn", "probe", "running", "failed", "exited", "aborted"}
  /\ k \in 1 .. Len(Rows) + 1
  /\ {stopping, shuttingDown, early} \subseteq BOOLEAN
  /\ stop \in [Callers -> {"no", "await", "killing"}]
  /\ left \in [Callers -> Seq(Children)]
  /\ task \in {"idle", "kill", "probe"}
  /\ queue \in Seq(Crashable)
  /\ {deaths, commands} \subseteq Nat

Up == main \notin {"exited", "aborted"}

(* The tracked child of a row.                                             *)
Position(row) == CHOOSE i \in DOMAIN entries : RowOf(entries[i]) = row
Child(row) == entries[Position(row)]

Target == Head(queue)

(* waitForHttpOk: the engine and the web application answer for themselves. *)
AnswersItself(row) == Child(row) \in fresh \cap alive

(* waitForWorker and waitForHeartbeat: the engine holds a fresh heartbeat   *)
(* under the service's function id or key, whichever child wrote it.        *)
SomeHeartbeat(row) == Child(Engine) \in alive /\ \E c \in fresh : RowOf(c) = row

ProbeSucceeds(row) == IF row \in Beating THEN SomeHeartbeat(row) ELSE AnswersItself(row)

-----------------------------------------------------------------------------
InitSupervisor ==
  /\ spawned = [row \in RowNames |-> 0]
  /\ alive = {} /\ fresh = {}
  /\ entries = <<>>
  /\ main = "spawn" /\ k = 1
  /\ stopping = FALSE /\ shuttingDown = FALSE /\ early = FALSE
  /\ stop = [w \in Callers |-> "no"]
  /\ left = [w \in Callers |-> <<>>]
  /\ terminated = {}
  /\ queue = <<>> /\ task = "idle"

(* A child comes up and beats; its heartbeat stays fresh for a while after *)
(* it is gone.                                                             *)
Beat(c) ==
  /\ c \in alive \ fresh
  /\ fresh' = fresh \cup {c}
  /\ UNCHANGED <<spawned, alive, entries, main, k, stopVars, taskVars, deaths>>

Expire(c) ==
  /\ c \in fresh \ alive
  /\ fresh' = fresh \ {c}
  /\ UNCHANGED <<spawned, alive, entries, main, k, stopVars, taskVars, deaths>>

(* A child that was signalled exits: by itself, or by the SIGKILL after    *)
(* the grace window.  The crash command sends SIGKILL at once.             *)
Exits(c) ==
  /\ c \in alive
  /\ c \in terminated \/ (task = "kill" /\ c = Child(Target))
  /\ alive' = alive \ {c}
  /\ UNCHANGED <<spawned, fresh, entries, main, k, stopVars, taskVars, deaths>>

(* A child dies for a reason of its own.                                   *)
Dies(c) ==
  /\ c \in alive
  /\ deaths < MaxDeaths
  /\ deaths' = deaths + 1
  /\ alive' = alive \ {c}
  /\ UNCHANGED <<spawned, fresh, entries, main, k, stopVars, taskVars>>

NextChild(row) == <<row, spawned[row] + 1>>

Spawn(row) ==
  /\ spawned' = [spawned EXCEPT ![row] = @ + 1]
  /\ alive' = alive \cup {NextChild(row)}
  /\ UNCHANGED fresh

-----------------------------------------------------------------------------
(* main: start the rows in order.  Nothing here looks at stopping.         *)

Start(row) ==
  /\ Spawn(row)
  /\ entries' = Append(entries, NextChild(row))
  /\ main' = "probe"

(* The engine, before any signal is handled; and the first service, after  *)
(* the web port has been found.                                            *)
StartRow ==
  /\ main = "spawn"
  /\ Start(Rows[k])
  /\ UNCHANGED <<k, stopVars, taskVars, deaths>>

(* A row is ready: the next one is spawned in the same turn of the loop.   *)
RowReady ==
  /\ main = "probe"
  /\ ProbeSucceeds(Rows[k])
  /\ k' = k + 1
  /\ IF 1 < k /\ k < Len(Rows) THEN Start(Rows[k + 1])
     ELSE /\ main' = IF k = Len(Rows) THEN "running" ELSE "spawn"
          /\ UNCHANGED <<childVars, entries>>
  /\ UNCHANGED <<stopVars, taskVars, deaths>>

(* stopAll sets stopping and then awaits the crash command under way.      *)
CallStopAll(w) ==
  /\ stopping' = TRUE
  /\ stop' = [stop EXCEPT ![w] = "await"]

(* The child exited before it was ready, or the probe timed out.           *)
RowFails ==
  /\ main = "probe"
  /\ Child(Rows[k]) \notin alive \/ ~ProbeSucceeds(Rows[k])
  /\ main' = "failed"
  /\ CallStopAll("startup")
  /\ UNCHANGED <<childVars, entries, k, shuttingDown, left, terminated, early,
                 taskVars, deaths>>

Shutdown ==
  /\ Up
  /\ entries # <<>>
  /\ ~shuttingDown
  /\ shuttingDown' = TRUE
  /\ early' = (main \in {"spawn", "probe"})
  /\ CallStopAll("shutdown")
  /\ UNCHANGED <<childVars, entries, main, k, left, terminated, taskVars, deaths>>

(* SIGINT or SIGTERM.                                                      *)
Signal == Shutdown

EngineExit ==
  /\ main = "running"
  /\ Child(Engine) \notin alive
  /\ Shutdown

(* A second signal ends the supervisor at once, whatever is still running. *)
SecondSignal ==
  /\ Up
  /\ shuttingDown
  /\ main' = "aborted"
  /\ UNCHANGED <<childVars, entries, k, stopVars, taskVars, deaths>>

-----------------------------------------------------------------------------
(* stopAll.                                                                *)

RestartSettled == task = "idle" /\ queue = <<>>
StopOrder == Reverse(entries)

(* The crash command under way has ended; the children of this moment are  *)
(* the ones that will be stopped, last started first.                      *)
StopSnapshot(w) ==
  /\ Up
  /\ stop[w] = "await"
  /\ RestartSettled
  /\ stop' = [stop EXCEPT ![w] = "killing"]
  /\ left' = [left EXCEPT ![w] = StopOrder]
  /\ UNCHANGED <<childVars, entries, main, k, stopping, shuttingDown, terminated, early,
                 taskVars, deaths>>

StopChild(w) ==
  /\ Up
  /\ left[w] # <<>>
  /\ IF Head(left[w]) \in alive
     THEN /\ terminated' = terminated \cup {Head(left[w])}
          /\ UNCHANGED left
     ELSE /\ left' = [left EXCEPT ![w] = Tail(@)]
          /\ UNCHANGED terminated
  /\ UNCHANGED <<childVars, entries, main, k, stopping, shuttingDown, stop, early,
                 taskVars, deaths>>

(* All of them have exited: clear the table and exit.                      *)
StopDone(w) ==
  /\ Up
  /\ stop[w] = "killing"
  /\ left[w] = <<>>
  /\ entries' = <<>>
  /\ stopping' = FALSE
  /\ main' = "exited"
  /\ UNCHANGED <<childVars, k, shuttingDown, stop, left, terminated, early, taskVars,
                 deaths>>

-----------------------------------------------------------------------------
(* crashAndRestart, one command at a time.                                 *)

(* The control server takes a command; a stopping supervisor refuses it.   *)
Command(row) ==
  /\ main = "running"
  /\ ~stopping
  /\ row \in Crashable
  /\ commands < MaxCommands
  /\ commands' = commands + 1
  /\ queue' = Append(queue, row)
  /\ UNCHANGED <<childVars, entries, main, k, stopVars, task, deaths>>

(* Its turn comes: SIGKILL, unless the supervisor is stopping by now.      *)
TaskBegin ==
  /\ Up
  /\ task = "idle" /\ queue # <<>>
  /\ IF stopping THEN queue' = Tail(queue) /\ UNCHANGED task
     ELSE task' = "kill" /\ UNCHANGED queue
  /\ UNCHANGED <<childVars, entries, main, k, stopVars, commands, deaths>>

(* Mutant: the kill is not awaited.                                        *)
KillNotAwaited == TRUE

KillAwaited == Child(Target) \notin alive
Replaced(row) == [entries EXCEPT ![Position(row)] = NextChild(row)]

(* The old child is gone: its replacement takes its place in the table.    *)
TaskRestart ==
  /\ Up
  /\ task = "kill"
  /\ KillAwaited
  /\ Spawn(Target)
  /\ entries' = Replaced(Target)
  /\ task' = "probe"
  /\ UNCHANGED <<main, k, stopVars, queue, commands, deaths>>

TaskReady ==
  /\ Up
  /\ task = "probe"
  /\ ProbeSucceeds(Target)
  /\ task' = "idle"
  /\ queue' = Tail(queue)
  /\ UNCHANGED <<childVars, entries, main, k, stopVars, commands, deaths>>

(* Mutant: a probe without a deadline that does not watch its child.       *)
ProbeForEver == FALSE

TaskFails ==
  /\ Up
  /\ task = "probe"
  /\ Child(Target) \notin alive \/ ~ProbeSucceeds(Target)
  /\ task' = "idle"
  /\ queue' = Tail(queue)
  /\ UNCHANGED <<childVars, entries, main, k, stopVars, commands, deaths>>

-----------------------------------------------------------------------------
Known == {<<row, n>> : row \in RowNames, n \in 1 .. MaxCommands + 1}

Supervising ==
  \/ StartRow \/ RowReady \/ RowFails \/ EngineExit
  \/ \E w \in Callers : StopSnapshot(w) \/ StopChild(w) \/ StopDone(w)
  \/ TaskBegin \/ TaskRestart \/ TaskReady \/ TaskFails

ChildrenNext == \E c \in Known : Beat(c) \/ Expire(c) \/ Exits(c) \/ Dies(c)

(* Every await of the supervisor ends: probes have deadlines and children  *)
(* that are signalled exit.  The event loop serves each of its tasks.      *)
SupervisorFairness ==
  /\ WF_supervisorVars(StartRow) /\ WF_supervisorVars(RowReady \/ RowFails) /\ WF_supervisorVars(EngineExit)
  /\ \A w \in Callers :
       WF_supervisorVars(StopSnapshot(w)) /\ WF_supervisorVars(StopChild(w)) /\ WF_supervisorVars(StopDone(w))
  /\ WF_supervisorVars(TaskBegin) /\ WF_supervisorVars(TaskRestart) /\ WF_supervisorVars(TaskReady \/ TaskFails)
  /\ \A c \in Known : WF_supervisorVars(Exits(c))

-----------------------------------------------------------------------------
(* Properties *)

(* While the supervisor runs, no row has two live children and no live     *)
(* child is untracked, with crash commands, deaths and a shutdown racing   *)
(* each other (the comments on #lifecycle and on kill's await).            *)
OneTrackedChildPerRow ==
  /\ \A c, d \in alive : RowOf(c) = RowOf(d) => c = d
  /\ Up => alive \subseteq Range(entries)

(* A shutdown of a system that is up, and a startup that failed, leave no  *)
(* child behind.                                                           *)
CleanExit == main = "exited" /\ ~early => alive = {}

(* The supervisor never loses a child: through crashes, restarts, commands *)
(* and shutdowns it tracks the one process of each row, and outlives it.   *)
NoChildIsLost == OneTrackedChildPerRow /\ CleanExit

(* Every crash command is answered.                                        *)
CommandsAreAnswered == queue # <<>> ~> queue = <<>> \/ ~Up

=============================================================================
