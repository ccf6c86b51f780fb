---------------------------- MODULE TravelBooking ----------------------------
(***************************************************************************)
(* The travel booking example (examples/travel-booking): a saga that holds *)
(* a flight seat, holds a hotel room and charges the card, and undoes what *)
(* it has done when a later step fails.                                    *)
(*                                                                         *)
(* Seats and rooms are counted by folding an event stream per flight and   *)
(* per hotel.  A hold reads the stream's version, then the events, then    *)
(* appends at the version it read; a conflict makes it read again.  A step *)
(* the worker dies in is executed again from its first line; a step that   *)
(* returned is not.  All bookings here want the same flight and hotel, the *)
(* case in which they meet.                                                *)
(*                                                                         *)
(* Not modelled: a worker that dies between the append of a release and    *)
(* the end of its compensation, or between the note of a failure and the   *)
(* throw.  The repository does not say what the engine executes again.     *)
(***************************************************************************)
EXTENDS Integers, Sequences, FiniteSets, FiniteSetsExt

CONSTANTS
  Bookings,
  Seats, Rooms,   \* capacities
  HoldAttempts,   \* HOLD_ATTEMPTS
  MaxCrashes,     \* bound on worker crashes and retried steps together
  MaxGiveUps,     \* bound on steps whose errors outlast their attempts
  MaxResets       \* bound on inventory resets

Capacity == [flight |-> Seats, hotel |-> Rooms]
Resources == DOMAIN Capacity

ASSUME CapacityAssumption == {Seats, Rooms, HoldAttempts} \subseteq Nat \ {0}
ASSUME BoundsAssumption == {MaxCrashes, MaxGiveUps, MaxResets} \subseteq Nat

VARIABLES
  worker,     \* the stream the worker seeds next, or "started"
  inv,        \* inv[x]: the version of x's stream and the count it folds to
  own,        \* own[b][x]: holds of b on x, since the last reset, not released
  events,     \* events[b]: what is on b's booking stream
  step, at,   \* the step b's run is in, and how far it is in it
  version,    \* the version that step has read
  attempt,    \* the failed attempts of the hold
  undo,       \* registered compensations, last registered first
  reason,     \* why the trip failed
  mode,       \* the payment mode, in the worker's memory
  resetting,  \* the stream an inventory reset is about, "no" when none runs
  resetFrom,  \* the version it has read of that stream, 0 before
  crashes, giveUps, resets,
  abandoned   \* compensations that lost a version conflict and were given up

runVars == <<step, at, version, attempt, undo, reason>>
counters == <<crashes, giveUps, resets, resetting, resetFrom, abandoned>>
vars == <<worker, inv, own, events, runVars, mode, counters>>

Steps == {"idle", "start", "flight", "hotel", "charge", "confirm", "undo",
          "confirmed", "failed"}
Following == [start |-> "flight", flight |-> "hotel", hotel |-> "charge",
              charge |-> "confirm", confirm |-> "confirmed"]
Forward == DOMAIN Following
Reasons == {"none", "sold out", "conflicts", "declined", "gave up"}
Notes == {"started", "flight", "hotel", "paid", "confirmed", "failed",
          "flight released", "hotel released", "refunded"}

TypeOK ==
  /\ worker \in Resources \cup {"seeded", "started"}
  /\ inv \in [Resources -> [version: Nat, held: Nat]]
  /\ own \in [Bookings -> [Resources -> Nat]]
  /\ events \in [Bookings -> Seq(Notes)]
  /\ step \in [Bookings -> Steps]
  /\ at \in [Bookings -> {"info", "fold", "append", "note", "record"}]
  /\ version \in [Bookings -> Nat]
  /\ attempt \in [Bookings -> 0 .. HoldAttempts - 1]
  /\ undo \in [Bookings -> Seq(Resources \cup {"charge"})]
  /\ reason \in [Bookings -> Reasons]
  /\ mode \in {"normal", "fail"}
  /\ resetting \in Resources \cup {"no"}
  /\ resetFrom \in Nat
  /\ {crashes, giveUps, resets, abandoned} \subseteq Nat

-----------------------------------------------------------------------------
(* domain.ts *)

Clamp(n, max) == Max({0, Min({n, max})})

(* bumpFlight and bumpHotel.                                               *)
Bump(x, delta) ==
  [version |-> inv[x].version + 1, held |-> Clamp(inv[x].held + delta, Capacity[x])]

HasCapacity(x) == Capacity[x] - inv[x].held > 0

(* Compensation events, by the step they undo; and a step's own event.     *)
Undoes == [flight |-> "flight released", hotel |-> "hotel released", charge |-> "refunded"]
Does == [flight |-> "flight", hotel |-> "hotel", charge |-> "paid"]

(* The journey a booking is shown with: each step once, undone for good by *)
(* a compensation that comes after it.                                     *)
Places(b, names) == {i \in DOMAIN events[b] : events[b][i] \in names}
Journey(b, s) ==
  LET done == Places(b, {Does[s]})
      undone == Places(b, {Undoes[s]})
  IN IF done = {} THEN "open"
     ELSE IF \E i \in done, j \in undone : i < j THEN "undone" ELSE "done"

(* The status it is shown with.                                            *)
Outcomes(b) == Places(b, {"confirmed", "failed"})
(* Mutant: the first outcome counts.                                       *)
ShownFirst(b) == IF Outcomes(b) = {} THEN "running" ELSE events[b][Min(Outcomes(b))]

Shown(b) == IF Outcomes(b) = {} THEN "running" ELSE events[b][Max(Outcomes(b))]

-----------------------------------------------------------------------------
Init ==
  /\ worker = "flight"
  /\ inv = [x \in Resources |-> [version |-> 0, held |-> 0]]
  /\ own = [b \in Bookings |-> [x \in Resources |-> 0]]
  /\ events = [b \in Bookings |-> <<>>]
  /\ step = [b \in Bookings |-> "idle"]
  /\ at = [b \in Bookings |-> "info"]
  /\ version = [b \in Bookings |-> 0]
  /\ attempt = [b \in Bookings |-> 0]
  /\ undo = [b \in Bookings |-> <<>>]
  /\ reason = [b \in Bookings |-> "none"]
  /\ mode = "normal" /\ resetting = "no" /\ resetFrom = 0
  /\ crashes = 0 /\ giveUps = 0 /\ resets = 0 /\ abandoned = 0

(* appendBooking: nobody else writes to a booking's stream.                *)
Note(b, e) == events' = [events EXCEPT ![b] = Append(@, e)]

At(b, s, a) == step[b] = s /\ at[b] = a
Goto(b, a) == at' = [at EXCEPT ![b] = a]

(* The worker seeds the streams that do not exist yet, the flights first,  *)
(* and only then accepts jobs; the chaos server answers from the start.    *)
FirstUnseeded(seeded) ==
  IF "flight" \notin seeded THEN "flight" ELSE IF "hotel" \notin seeded THEN "hotel" ELSE "seeded"
Seeded == {x \in Resources : inv[x].version > 0}

SeedInventory ==
  /\ worker \in Resources
  /\ inv' = [inv EXCEPT ![worker].version = 1]
  /\ worker' = FirstUnseeded(Seeded \cup {worker})
  /\ UNCHANGED <<own, events, runVars, mode, counters>>

StartWorker ==
  /\ worker = "seeded"
  /\ worker' = "started"
  /\ UNCHANGED <<inv, own, events, runVars, mode, counters>>

Request(b) ==
  /\ step[b] = "idle"
  /\ step' = [step EXCEPT ![b] = "start"]
  /\ UNCHANGED <<worker, inv, own, events, at, version, attempt, undo, reason, mode, counters>>

(* start-booking, charge-card in normal mode and confirm-booking: one      *)
(* append each.                                                            *)
AppendOnly(b) ==
  /\ step[b] \in {"start", "charge", "confirm"}
  /\ at[b] = "info"
  /\ step[b] = "charge" => mode = "normal"
  /\ Note(b, CASE step[b] = "start"   -> "started"
               [] step[b] = "charge"  -> "paid"
               [] step[b] = "confirm" -> "confirmed")
  /\ Goto(b, "record")
  /\ UNCHANGED <<worker, inv, own, step, version, attempt, undo, reason, mode, counters>>

(* The catch block: note why, and let the engine run the compensations.    *)
Fail(b, why) ==
  /\ Note(b, "failed")
  /\ reason' = [reason EXCEPT ![b] = why]
  /\ step' = [step EXCEPT ![b] = "undo"]
  /\ Goto(b, "info")
  /\ UNCHANGED <<worker, inv, own, version, attempt, undo, mode, crashes, resets, resetting,
                 resetFrom, abandoned>>

Declined(b) ==
  /\ At(b, "charge", "info")
  /\ mode = "fail"
  /\ Fail(b, "declined")
  /\ UNCHANGED giveUps

(* A step's errors outlast its attempts.                                   *)
GivesUp(b) ==
  /\ step[b] \in Forward
  /\ giveUps < MaxGiveUps
  /\ giveUps' = giveUps + 1
  /\ Fail(b, "gave up")

-----------------------------------------------------------------------------
(* holdInventory, for the resource the step is about.                      *)

ReadVersion(b) ==
  /\ step[b] \in Resources
  /\ at[b] = "info"
  /\ version' = [version EXCEPT ![b] = inv[step[b]].version]
  /\ Goto(b, "fold")
  /\ UNCHANGED <<worker, inv, own, events, step, attempt, undo, reason, mode, counters>>

FoldStream(b) ==
  /\ step[b] \in Resources
  /\ at[b] = "fold"
  /\ HasCapacity(step[b])
  /\ Goto(b, "append")
  /\ UNCHANGED <<worker, inv, own, events, step, version, attempt, undo, reason, mode, counters>>

SoldOut(b) ==
  /\ step[b] \in Resources
  /\ at[b] = "fold"
  /\ ~HasCapacity(step[b])
  /\ Fail(b, "sold out")
  /\ UNCHANGED giveUps

(* Mutant: an append without its expected version.                         *)
VersionIgnored(b, x) == TRUE

(* Nobody has appended to the stream since it was read.                    *)
Unmoved(b, x) == inv[x].version = version[b]

AppendHold(b) ==
  LET x == step[b] IN
  /\ x \in Resources
  /\ at[b] = "append"
  /\ Unmoved(b, x)
  /\ inv' = [inv EXCEPT ![x] = Bump(x, 1)]
  /\ own' = [own EXCEPT ![b][x] = @ + 1]
  /\ Goto(b, "note")
  /\ UNCHANGED <<worker, events, step, version, attempt, undo, reason, mode, counters>>

AttemptsLeft(b) == attempt[b] + 1 < HoldAttempts

(* Someone else's append came in between: read again, up to HoldAttempts.  *)
HoldConflict(b) ==
  LET x == step[b] IN
  /\ x \in Resources
  /\ at[b] = "append"
  /\ ~Unmoved(b, x)
  /\ \/ /\ AttemptsLeft(b)
        /\ attempt' = [attempt EXCEPT ![b] = @ + 1]
        /\ Goto(b, "info")
        /\ UNCHANGED <<worker, inv, own, events, step, version, undo, reason, mode, counters>>
     \/ /\ ~AttemptsLeft(b)
        /\ Fail(b, "conflicts")
        /\ UNCHANGED giveUps

NoteReserved(b) ==
  /\ step[b] \in Resources
  /\ at[b] = "note"
  /\ Note(b, step[b])
  /\ Goto(b, "record")
  /\ UNCHANGED <<worker, inv, own, step, version, attempt, undo, reason, mode, counters>>

Compensated == Resources \cup {"charge"}

(* The engine records the step; only then is its compensation registered.  *)
RecordStep(b) ==
  /\ step[b] \in Forward
  /\ at[b] = "record"
  /\ undo' = [undo EXCEPT ![b] =
       IF step[b] \in Compensated THEN <<step[b]>> \o @ ELSE @]
  /\ step' = [step EXCEPT ![b] = Following[step[b]]]
  /\ Goto(b, "info")
  /\ attempt' = [attempt EXCEPT ![b] = 0]
  /\ UNCHANGED <<worker, inv, own, events, version, reason, mode, counters>>

-----------------------------------------------------------------------------
(* The compensations, in reverse order.                                    *)

Undone(b) == undo' = [undo EXCEPT ![b] = Tail(@)] /\ Goto(b, "info")

(* The head is read again: the version of the hold is stale by now.        *)
ReadForRelease(b) ==
  /\ At(b, "undo", "info")
  /\ undo[b] # <<>> /\ Head(undo[b]) \in Resources
  /\ version' = [version EXCEPT ![b] = inv[Head(undo[b])].version]
  /\ Goto(b, "append")
  /\ UNCHANGED <<worker, inv, own, events, step, attempt, undo, reason, mode, counters>>

Release(b) ==
  LET x == Head(undo[b]) IN
  /\ At(b, "undo", "append")
  /\ Unmoved(b, x)
  /\ inv' = [inv EXCEPT ![x] = Bump(x, -1)]
  /\ own' = [own EXCEPT ![b][x] = Clamp(@ - 1, @)]
  /\ Note(b, Undoes[x])
  /\ Undone(b)
  /\ UNCHANGED <<worker, step, version, attempt, reason, mode, counters>>

(* releaseInventory lets a conflict escape: the engine tries the           *)
(* compensation again, or gives it up.                                     *)
ReleaseConflict(b) ==
  /\ At(b, "undo", "append")
  /\ ~Unmoved(b, Head(undo[b]))
  /\ \/ Goto(b, "info") /\ UNCHANGED <<worker, undo, abandoned>>
     \/ Undone(b) /\ abandoned' = abandoned + 1
  /\ UNCHANGED <<worker, inv, own, events, step, version, attempt, reason, mode, crashes, giveUps,
                 resets, resetting, resetFrom>>

Refund(b) ==
  /\ At(b, "undo", "info")
  /\ undo[b] # <<>> /\ Head(undo[b]) = "charge"
  /\ Note(b, Undoes["charge"])
  /\ Undone(b)
  /\ UNCHANGED <<worker, inv, own, step, version, attempt, reason, mode, counters>>

UndoDone(b) ==
  /\ step[b] = "undo"
  /\ undo[b] = <<>>
  /\ step' = [step EXCEPT ![b] = "failed"]
  /\ UNCHANGED <<worker, inv, own, events, at, version, attempt, undo, reason, mode, counters>>

-----------------------------------------------------------------------------
(* The chaos server. *)

PaymentMode(m) ==
  /\ mode' = m
  /\ UNCHANGED <<worker, inv, own, events, runVars, counters>>

(* A read or an append fails, or its answer is lost: the engine executes   *)
(* the step again from its first line.                                     *)
StepErrs(b) ==
  /\ step[b] \in Forward
  /\ crashes < MaxCrashes
  /\ crashes' = crashes + 1
  /\ Goto(b, "info")
  /\ attempt' = [attempt EXCEPT ![b] = 0]
  /\ UNCHANGED <<worker, inv, own, events, step, version, undo, reason, mode, resetting, resetFrom,
                 giveUps, resets, abandoned>>

(* The worker dies: every step it was in starts over, the payment mode is  *)
(* normal again and a reset under way is lost.                             *)
Crash ==
  /\ crashes < MaxCrashes
  /\ crashes' = crashes + 1
  /\ worker' = FirstUnseeded(Seeded)
  /\ at' = [b \in Bookings |-> "info"]
  /\ attempt' = [b \in Bookings |-> 0]
  /\ mode' = "normal"
  /\ resetting' = "no" /\ resetFrom' = 0
  /\ UNCHANGED <<inv, own, events, step, version, undo, reason, giveUps, resets, abandoned>>

(* resetInventory, on the flight and then on the hotel: appendReset reads  *)
(* the version and appends at it.                                          *)
BeginReset ==
  /\ resetting = "no"
  /\ resets < MaxResets
  /\ resets' = resets + 1
  /\ resetting' = "flight"
  /\ UNCHANGED <<worker, inv, own, events, runVars, mode, resetFrom, crashes, giveUps, abandoned>>

ReadForReset ==
  /\ resetting \in Resources
  /\ resetFrom = 0 /\ inv[resetting].version > 0
  /\ resetFrom' = inv[resetting].version
  /\ UNCHANGED <<worker, inv, own, events, runVars, mode, resetting, crashes, giveUps, resets,
                 abandoned>>

(* Mutant: the fold has no case for a reset.                               *)
ResetUnknown(x) == [inv[x] EXCEPT !.version = @ + 1]

(* What the stream folds to after a reset: the count starts from zero.     *)
AfterReset(x) == [version |-> inv[x].version + 1, held |-> 0]

(* The last stream's reset also makes the payment mode normal.             *)
ResetGoesOn(x) ==
  /\ resetting' = IF x = "flight" THEN "hotel" ELSE "no"
  /\ mode' = IF x = "flight" THEN mode ELSE "normal"
  /\ resetFrom' = 0

AppendReset ==
  LET x == resetting IN
  /\ x \in Resources
  /\ resetFrom = inv[x].version /\ resetFrom > 0
  /\ inv' = [inv EXCEPT ![x] = AfterReset(x)]
  /\ own' = [b \in Bookings |-> [own[b] EXCEPT ![x] = 0]]
  /\ ResetGoesOn(x)
  /\ UNCHANGED <<worker, events, runVars, crashes, giveUps, resets, abandoned>>

(* A stream that is not there yet is passed over.                          *)
SkipReset ==
  /\ resetting \in Resources
  /\ resetFrom = 0 /\ inv[resetting].version = 0
  /\ ResetGoesOn(resetting)
  /\ UNCHANGED <<worker, inv, own, events, runVars, crashes, giveUps, resets, abandoned>>

(* The stream moved: the request is answered with an error and what is     *)
(* left of the reset does not happen.                                      *)
ResetConflict ==
  /\ resetting \in Resources
  /\ resetFrom \notin {0, inv[resetting].version}
  /\ resetting' = "no" /\ resetFrom' = 0
  /\ UNCHANGED <<worker, inv, own, events, runVars, mode, crashes, giveUps, resets, abandoned>>

-----------------------------------------------------------------------------
Advance(b) ==
  \/ AppendOnly(b) \/ Declined(b)
  \/ ReadVersion(b) \/ FoldStream(b) \/ SoldOut(b) \/ AppendHold(b) \/ HoldConflict(b)
  \/ NoteReserved(b) \/ RecordStep(b)
  \/ ReadForRelease(b) \/ Release(b) \/ ReleaseConflict(b) \/ Refund(b) \/ UndoDone(b)

Next ==
  \/ SeedInventory \/ StartWorker
  \/ \E b \in Bookings :
       \/ Request(b)
       \/ worker = "started" /\ (Advance(b) \/ GivesUp(b) \/ StepErrs(b))
  \/ \E m \in {"normal", "fail"} : PaymentMode(m)
  \/ BeginReset \/ ReadForReset \/ AppendReset \/ SkipReset \/ ResetConflict
  \/ Crash

Spec == Init /\ [][Next]_vars

-----------------------------------------------------------------------------
(* Properties *)

(* The holds that are out on x, one by one.                                *)
Holds(x) == UNION {{b} \X (1 .. own[b][x]) : b \in Bookings}
HeldBy(x) == Cardinality(Holds(x))

(* Two travellers racing for the last seat cannot both win: no more holds  *)
(* are out than there are seats, and the fold counts exactly those, with   *)
(* holds, releases and crashes interleaving at every await.  A reset under *)
(* running trips forgets their holds and ends the promise.                 *)
NoDoubleSell ==
  resets = 0 => \A x \in Resources : HeldBy(x) <= Capacity[x] /\ inv[x].held = HeldBy(x)

(* What a traveller is shown is the truth.  A trip shown as confirmed has  *)
(* paid and, unless a reset took them, has its seat and its room; one that *)
(* ended is shown the way it ended; and the journey of a failed trip shows *)
(* a seat or a room as rewound when it was given back, but for the holds   *)
(* that crashes doubled, and as standing when it is still taken, although  *)
(* retried steps append their events twice and compensations are given up. *)
ShownIsTrue ==
  \A b \in Bookings :
    /\ Shown(b) = "confirmed" =>
         /\ Journey(b, "charge") = "done"
         /\ resets = 0 => \A x \in Resources : own[b][x] >= 1
    /\ step[b] \in {"confirmed", "failed"} => Shown(b) = step[b]
    /\ step[b] = "failed" =>
         \A x \in Resources :
           /\ Journey(b, x) = "undone" => own[b][x] <= crashes
           /\ Journey(b, x) = "done" /\ resets = 0 => own[b][x] >= 1

(* A reset strands nothing: the fold never counts a seat that nobody holds, *)
(* whatever was held, being held or being released while the reset went    *)
(* over the streams (resetInventory, "Restore inventory").                 *)
NothingStranded == \A x \in Resources : inv[x].held <= HeldBy(x)

-----------------------------------------------------------------------------
(* What the repository says and this model refutes. *)

(* worker.ts: "a later failure releases the seat and the room".  A crash   *)
(* between the hold and the end of its step makes the step hold again, or  *)
(* find its own seat taken; the first hold is never released.              *)
FailedTripIsUndone ==
  \A b \in Bookings :
    step[b] = "failed" => \A x \in Resources : own[b][x] = 0
=============================================================================
