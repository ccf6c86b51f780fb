--------------------------- MODULE DataDirectory ---------------------------
(* The data directory of the reference application, which one supervisor at *)
(* a time may own: its handshake file, the second supervisor somebody       *)
(* starts by accident, reset.mjs, which deletes the directory, and          *)
(* control.mjs, which reads the file to send a crash command.  They are     *)
(* processes of their own, and each checks first and acts afterwards.       *)
EXTENDS Supervisor

VARIABLES
  data,     \* the directory exists
  claim,    \* supervisor.json: the process it names, and whether its port is known
  place,    \* how far each supervisor, and reset, is into the directory
  terminal, \* control.mjs has read the file and not sent its command yet
  raced     \* a supervisor claimed the directory between another's check and act

dirVars == <<data, claim, place, terminal, raced>>
allVars == <<supervisorVars, dirVars>>

Owners == {"main", "rival"}
Unclaimed == [pid |-> "none", open |-> FALSE]
Leftover == [pid |-> "dead", open |-> TRUE]

IsPidLive(pid) ==
  \/ pid = "main" /\ Up
  \/ pid = "rival" /\ place["rival"] \in {"checked", "in"}

Inside(p) == place[p] = "in" /\ IsPidLive(p)
EngineRuns == place["rival"] = "in" \/ \E c \in alive : RowOf(c) = Engine

(* What an earlier run left, and who else uses the directory: deaths and    *)
(* crash commands happen to a supervisor that is alone.                     *)
DirInit ==
  /\ InitSupervisor
  /\ data \in BOOLEAN /\ claim \in {Unclaimed, Leftover} /\ (claim # Unclaimed => data)
  /\ terminal = "idle" /\ raced = FALSE
  /\ place \in [{"main", "rival", "reset"} -> {"out", "absent"}]
  /\ place["main"] = "out"
  /\ IF place = [q \in DOMAIN place |-> IF q = "main" THEN "out" ELSE "absent"]
     THEN deaths = 0 /\ commands = 0
     ELSE deaths = MaxDeaths /\ commands = MaxCommands

-----------------------------------------------------------------------------
(* assertSoleOwner.                                                         *)
AssertSoleOwner(p) ==
  /\ place[p] = "out"
  /\ data' = TRUE
  /\ IF IsPidLive(claim.pid)
     THEN /\ place' = [place EXCEPT ![p] = "refused"]
          /\ IF p = "main" THEN main' = "exited" ELSE UNCHANGED main
     ELSE place' = [place EXCEPT ![p] = "checked"] /\ UNCHANGED main
  /\ UNCHANGED <<childVars, entries, k, stopVars, taskVars, deaths, claim, terminal, raced>>

(* Mutant: the file is written once the port is known.                      *)
ClaimLater(p) == Unclaimed

ClaimOf(p) == [pid |-> p, open |-> FALSE]

(* The directory is claimed before the engine is started, with no port yet. *)
ClaimDirectory(p) ==
  /\ place[p] = "checked"
  /\ place' = [place EXCEPT ![p] = "in"]
  /\ data' = TRUE /\ claim' = ClaimOf(p)
  /\ raced' = (raced \/ \E q \in DOMAIN place \ {p} : place[q] = "checked")
  /\ UNCHANGED <<supervisorVars, terminal>>

(* Mutant: cleanup removes the file and then stops the children.            *)
FileRemovedFirst == claim' = IF stopping' THEN Unclaimed ELSE claim

(* The file follows main: the port is known once everything is ready, and   *)
(* cleanup removes the file, whoever it names.  Its two other exits leave   *)
(* it behind.                                                               *)
FileFollows ==
  claim' = CASE main' = "running" /\ main # "running" -> [pid |-> "main", open |-> TRUE]
             [] main' = "exited" -> Unclaimed
             [] OTHER -> claim

OwnSteps ==
  /\ place["main"] = "in"
  /\ Supervising \/ Signal \/ SecondSignal
  /\ FileFollows
  /\ UNCHANGED <<data, place, terminal, raced>>

(* SIGKILL.                                                                 *)
KillSupervisor ==
  /\ Inside("main")
  /\ main' = "aborted"
  /\ UNCHANGED <<childVars, entries, k, stopVars, taskVars, deaths, dirVars>>

RivalLeaves ==
  /\ Inside("rival")
  /\ place' = [place EXCEPT !["rival"] = "left"]
  /\ claim' = Unclaimed
  /\ UNCHANGED <<supervisorVars, data, terminal, raced>>

-----------------------------------------------------------------------------
(* reset.mjs: assertResettable, and then the removal.                       *)
AssertResettable ==
  /\ place["reset"] = "out"
  /\ place' = [place EXCEPT !["reset"] = CASE ~data -> "done"
                                           [] IsPidLive(claim.pid) -> "refused"
                                           [] OTHER -> "checked"]
  /\ UNCHANGED <<supervisorVars, data, claim, terminal, raced>>

RemoveData ==
  /\ place["reset"] = "checked"
  /\ place' = [place EXCEPT !["reset"] = "done"]
  /\ data' = FALSE /\ claim' = Unclaimed
  /\ UNCHANGED <<supervisorVars, terminal, raced>>

(* control.mjs: the file must name a live supervisor that has its port.     *)
ReadHandshake ==
  /\ terminal = "idle" /\ commands < MaxCommands
  /\ IsPidLive(claim.pid) /\ claim.open
  /\ terminal' = "read"
  /\ UNCHANGED <<supervisorVars, data, claim, place, raced>>

(* The server takes the command, or refuses it, or is no longer there.      *)
SendControl ==
  /\ terminal = "read"
  /\ terminal' = "idle"
  /\ \/ \E row \in RowNames : Command(row)
     \/ (main # "running" \/ stopping) /\ UNCHANGED supervisorVars
  /\ UNCHANGED <<data, claim, place, raced>>

DirNext ==
  \/ \E p \in Owners : AssertSoleOwner(p) \/ ClaimDirectory(p)
  \/ OwnSteps \/ KillSupervisor \/ RivalLeaves \/ AssertResettable \/ RemoveData
  \/ ReadHandshake \/ SendControl
  \/ ChildrenNext /\ UNCHANGED dirVars

DirSpec == DirInit /\ [][DirNext]_allVars
FairDirSpec == DirSpec /\ SupervisorFairness /\ WF_allVars(AssertSoleOwner("main")) /\ WF_allVars(ClaimDirectory("main"))

-----------------------------------------------------------------------------
(* Two supervisors share the directory only when one of them claimed it     *)
(* between the other's check and its claim: boot takes a minute, shutdowns  *)
(* and kills happen at any point of it, and the claim stands throughout     *)
(* (dev.mjs on why it is written before the engine starts).                 *)
SoleOwner == ~raced => ~(Inside("main") /\ Inside("rival"))

(* reset.mjs deletes the data under a running engine only in such a race,   *)
(* or when a supervisor that was killed, or stopped during its startup,     *)
(* left its engine behind.                                                  *)
ResetSparesData ==
  [][data /\ ~data' => (EngineRuns => raced \/ main = "aborted" \/ early)]_allVars
=============================================================================
