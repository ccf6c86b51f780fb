--------------------------- MODULE CqrsPlaceOrder ---------------------------
(***************************************************************************)
(* The command handler of the CQRS example                                 *)
(* (examples/cqrs-order/lib/place-order-handler.ts).  A place-order        *)
(* command is claimed by its id in a key-value bucket, decided on the      *)
(* order's stream, appended at the version that was read, and its claim is *)
(* completed with the version of the placement.  None of these is atomic   *)
(* with the next: the claim may be there without the placement, and the    *)
(* placement without the completed claim.                                  *)
(*                                                                         *)
(* A run is one delivery of a command.  The handler is one step: after a   *)
(* crash or an error it is executed again from its first line.  Claims     *)
(* expire, and a command id may be used again for another order.           *)
(*                                                                         *)
(* The engine's append looks the idempotency key up in an index of the     *)
(* whole environment, and compares the expected version only then          *)
(* (lines 76-78 and 89-90 of the handler).                                 *)
(***************************************************************************)
EXTENDS Integers, Sequences, FiniteSets

CONSTANTS
  Orders,
  Runs,         \* the deliveries of commands: <<command id, order, copy>>
  Refusable,    \* those whose customer or products placeOrder may reject when asked
  MaxAttempts,  \* executions of the step before the engine fails the run
  MaxFaults,    \* bound on worker crashes and transport errors together
  MaxExpiries,  \* bound on claims that expire
  LaterEvents,  \* the events a handler added beside this one appends
  MaxEvents     \* bound on the length of a stream

Command(r) == r[1]
OrderOf(r) == r[2]
Commands == {Command(r) : r \in Runs}

ASSUME RunsAssumption ==
  /\ \A r \in Runs : OrderOf(r) \in Orders
  /\ Refusable \subseteq Runs
  /\ "none" \notin Orders /\ "other" \notin Commands
ASSUME LaterAssumption == LaterEvents \subseteq {"order.shipped", "order.cancelled"}
ASSUME BoundsAssumption == {MaxAttempts, MaxFaults, MaxExpiries, MaxEvents} \subseteq Nat

(* Mutant: the key is the command's alone, whichever order it is for.      *)
KeyOfCommand(r) == <<CHOOSE o \in Orders : TRUE, Command(r)>>

Key(r) == <<OrderOf(r), Command(r)>>

EventNames == {"order.placed", "order.shipped", "order.cancelled"}
Event == [name: EventNames,
          cause: Commands \cup {"other"},              \* metadata.causationId
          key: (Orders \X Commands) \cup {<<>>}]
Claim == [order: Orders \cup {"none"}, version: Nat]   \* version 0: pending
NoClaim == [order |-> "none", version |-> 0]

VARIABLES
  stream,   \* stream[o]: its events; an event's entity version is its position
  claims,   \* claims[c]: the bucket's entry for command c
  pc,
  seen,     \* the version the decision was made at
  result,   \* the version the step returns
  tries, faults, expiries

vars == <<stream, claims, pc, seen, result, tries, faults, expiries>>

Executing == {"claimed", "decided", "acknowledged", "refused", "finishing", "written"}
PCs == Executing \cup {"ready", "done", "failed"}

TypeOK ==
  /\ stream \in [Orders -> Seq(Event)]
  /\ claims \in [Commands -> Claim]
  /\ pc \in [Runs -> PCs]
  /\ seen \in [Runs -> Nat]
  /\ result \in [Runs -> Nat]
  /\ tries \in [Runs -> Nat]
  /\ {faults, expiries} \subseteq Nat

-----------------------------------------------------------------------------
(* The aggregate, and what proves that a command has had its effect.       *)

StatusOf == [n \in EventNames |->
               CASE n = "order.placed"    -> "placed"
                 [] n = "order.shipped"   -> "shipped"
                 [] n = "order.cancelled" -> "cancelled"]

(* foldOrder: the status of the last event; placeOrder wants none.         *)
Status(s) == IF s = <<>> THEN "none" ELSE StatusOf[s[Len(s)].name]

(* isReceipt: this command's placement on this order's stream.             *)
Receipts(r) ==
  {i \in DOMAIN stream[OrderOf(r)] :
     /\ stream[OrderOf(r)][i].name = "order.placed"
     /\ stream[OrderOf(r)][i].cause = Command(r)}

(* find: the first of them.                                                *)
Receipt(r) == CHOOSE i \in Receipts(r) : \A j \in Receipts(r) : i <= j

KeyTaken(r) == \E o \in Orders : \E i \in DOMAIN stream[o] : stream[o][i].key = Key(r)

(* Mutant: the append does not say which version it expects.               *)
AnswerUnversioned(r) == IF KeyTaken(r) THEN "original" ELSE "appended"

AppendAnswer(r) ==
  IF KeyTaken(r) THEN "original"
  ELSE IF Len(stream[OrderOf(r)]) = seen[r] THEN "appended" ELSE "conflict"

AppendPlaced(r) ==
  stream' = IF AppendAnswer(r) = "appended"
            THEN [stream EXCEPT ![OrderOf(r)] =
                    Append(@, [name |-> "order.placed", cause |-> Command(r), key |-> Key(r)])]
            ELSE stream

-----------------------------------------------------------------------------
(* Every delivery is under way; it arrives with its first step.            *)
Init ==
  /\ stream = [o \in Orders |-> <<>>]
  /\ claims = [c \in Commands |-> NoClaim]
  /\ pc = [r \in Runs |-> "ready"]
  /\ seen = [r \in Runs |-> 0]
  /\ result = [r \in Runs |-> 0]
  /\ tries = [r \in Runs |-> 0]
  /\ faults = 0 /\ expiries = 0

Goto(r, place) == pc' = [pc EXCEPT ![r] = place]

(* Mutant: a pending claim is another run's work.                          *)
ClaimFirst(r) ==
  /\ pc[r] = "ready"
  /\ IF claims[Command(r)] = NoClaim
     THEN /\ claims' = [claims EXCEPT ![Command(r)] = [order |-> OrderOf(r), version |-> 0]]
          /\ Goto(r, "claimed")
     ELSE UNCHANGED claims /\ Goto(r, "failed")
  /\ UNCHANGED <<stream, seen, result, tries, faults, expiries>>

(* tryClaim: the first run claims; a pending claim is carried on with; a   *)
(* completed one is the answer; one for another order is an error.         *)
TryClaim(r) ==
  LET prior == claims[Command(r)] IN
  /\ pc[r] = "ready"
  /\ \/ /\ prior = NoClaim
        /\ claims' = [claims EXCEPT ![Command(r)] = [order |-> OrderOf(r), version |-> 0]]
        /\ Goto(r, "claimed")
        /\ UNCHANGED result
     \/ /\ prior.order = OrderOf(r) /\ prior.version = 0
        /\ Goto(r, "claimed")
        /\ UNCHANGED <<claims, result>>
     \/ /\ prior.order = OrderOf(r) /\ prior.version > 0
        /\ result' = [result EXCEPT ![r] = prior.version]
        /\ Goto(r, "written")
        /\ UNCHANGED claims
     \/ /\ prior.order \notin {"none", OrderOf(r)}
        /\ Goto(r, "failed")
        /\ UNCHANGED <<claims, result>>
  /\ UNCHANGED <<stream, seen, tries, faults, expiries>>

(* Read the stream.  A receipt completes the command; otherwise placeOrder *)
(* decides on what was read.                                               *)
ReadAndDecide(r) ==
  /\ pc[r] = "claimed"
  /\ \/ /\ Receipts(r) # {}
        /\ result' = [result EXCEPT ![r] = Receipt(r)]
        /\ Goto(r, "finishing")
        /\ UNCHANGED seen
     \/ /\ Receipts(r) = {}
        /\ Status(stream[OrderOf(r)]) # "none" \/ r \in Refusable
        /\ Goto(r, "failed")
        /\ UNCHANGED <<seen, result>>
     \/ /\ Receipts(r) = {}
        /\ Status(stream[OrderOf(r)]) = "none"
        /\ seen' = [seen EXCEPT ![r] = Len(stream[OrderOf(r)])]
        /\ Goto(r, "decided")
        /\ UNCHANGED result
  /\ UNCHANGED <<stream, claims, tries, faults, expiries>>

AppendDecided(r) ==
  /\ pc[r] = "decided"
  /\ AppendPlaced(r)
  /\ Goto(r, IF AppendAnswer(r) = "conflict" THEN "refused" ELSE "acknowledged")
  /\ UNCHANGED <<claims, seen, result, tries, faults, expiries>>

(* The append fails, or succeeds and its answer is lost.                   *)
AppendFails(r) ==
  /\ pc[r] = "decided"
  /\ faults < MaxFaults
  /\ faults' = faults + 1
  /\ AppendPlaced(r) \/ UNCHANGED stream
  /\ Goto(r, "refused")
  /\ UNCHANGED <<claims, seen, result, tries, expiries>>

(* The execution ends in an error the engine may retry.                    *)
FailedAttempt(r) ==
  /\ tries' = [tries EXCEPT ![r] = @ + 1]
  /\ Goto(r, IF tries[r] + 1 < MaxAttempts THEN "ready" ELSE "failed")
  /\ seen' = [seen EXCEPT ![r] = 0]
  /\ result' = [result EXCEPT ![r] = 0]
  /\ UNCHANGED <<stream, claims, expiries>>

(* The catch of the append: a receipt, or the error again.  A conflict is  *)
(* retried like any error here; that execution finds the order placed.     *)
Reconcile(r) ==
  /\ pc[r] = "refused"
  /\ \/ /\ Receipts(r) # {}
        /\ result' = [result EXCEPT ![r] = Receipt(r)]
        /\ Goto(r, "finishing")
        /\ UNCHANGED <<stream, claims, seen, tries, expiries>>
     \/ Receipts(r) = {} /\ FailedAttempt(r)
  /\ UNCHANGED faults

(* An acknowledgement is not proof: only the receipt is.                   *)
Confirm(r) ==
  /\ pc[r] = "acknowledged"
  /\ \/ /\ Receipts(r) # {}
        /\ result' = [result EXCEPT ![r] = Receipt(r)]
        /\ Goto(r, "finishing")
     \/ /\ Receipts(r) = {}
        /\ Goto(r, "failed")
        /\ UNCHANGED result
  /\ UNCHANGED <<stream, claims, seen, tries, faults, expiries>>

(* Mutant: the claim is completed with the version the stream has now.     *)
CompletedWith(r) == Len(stream[OrderOf(r)])

Completed(r) == result[r]

(* finalize: the entry is put, whatever it is by now.                      *)
Finalize(r) ==
  /\ pc[r] = "finishing"
  /\ claims' = [claims EXCEPT ![Command(r)] = [order |-> OrderOf(r), version |-> Completed(r)]]
  /\ Goto(r, "written")
  /\ UNCHANGED <<stream, seen, result, tries, faults, expiries>>

(* The engine records the step; the function returns its result.           *)
Checkpoint(r) ==
  /\ pc[r] = "written"
  /\ Goto(r, "done")
  /\ UNCHANGED <<stream, claims, seen, result, tries, faults, expiries>>

(* A claim, read, finalization or the report of the step fails, or its     *)
(* answer is lost.                                                         *)
TransportError(r) ==
  /\ pc[r] \in (Executing \cup {"ready"}) \ {"decided"}
  /\ faults < MaxFaults
  /\ faults' = faults + 1
  /\ FailedAttempt(r)

(* The worker dies: every step under way is executed again.                *)
Crash ==
  /\ faults < MaxFaults
  /\ faults' = faults + 1
  /\ pc' = [r \in Runs |-> IF pc[r] \in Executing THEN "ready" ELSE pc[r]]
  /\ seen' = [r \in Runs |-> IF pc[r] \in Executing THEN 0 ELSE seen[r]]
  /\ result' = [r \in Runs |-> IF pc[r] \in Executing THEN 0 ELSE result[r]]
  /\ UNCHANGED <<stream, claims, tries, expiries>>

(* The bucket forgets an entry.                                            *)
Expire(c) ==
  /\ claims[c] # NoClaim
  /\ expiries < MaxExpiries
  /\ expiries' = expiries + 1
  /\ claims' = [claims EXCEPT ![c] = NoClaim]
  /\ UNCHANGED <<stream, pc, seen, result, tries, faults>>

(* A handler added beside this one ships or cancels a placed order.        *)
LaterEvent(o, name) ==
  /\ stream[o] # <<>>
  /\ Len(stream[o]) < MaxEvents
  /\ stream' = [stream EXCEPT ![o] =
                  Append(@, [name |-> name, cause |-> "other", key |-> <<>>])]
  /\ UNCHANGED <<claims, pc, seen, result, tries, faults, expiries>>

-----------------------------------------------------------------------------
Advance(r) ==
  \/ TryClaim(r) \/ ReadAndDecide(r) \/ AppendDecided(r)
  \/ Reconcile(r) \/ Confirm(r) \/ Finalize(r) \/ Checkpoint(r)

Next ==
  \/ \E r \in Runs : Advance(r) \/ AppendFails(r) \/ TransportError(r)
  \/ Crash
  \/ \E c \in Commands : Expire(c)
  \/ \E o \in Orders, name \in LaterEvents : LaterEvent(o, name)

(* The engine keeps executing the runs it has started.                     *)
Fairness == \A r \in Runs : WF_vars(Advance(r))

Spec == Init /\ [][Next]_vars
FairSpec == Spec /\ Fairness

-----------------------------------------------------------------------------
(* Properties *)

(* The command that placed an order, and the runs that report success.     *)
PlacedBy == [o \in Orders |-> IF stream[o] = <<>> THEN "none" ELSE stream[o][1].cause]
Answered == {r \in Runs : pc[r] = "done"}

Register == INSTANCE OrderRegister WITH placedBy <- PlacedBy, answered <- Answered

(* Every behaviour of the handler, with its repeats, crashes and expired   *)
(* claims, is one of the register: an order is placed once, for good, by   *)
(* the first of the commands that race for it, and only that command's     *)
(* deliveries are answered with success.                                   *)
ImplementsRegister == Register!Spec

(* An order is placed once, by its first event, whichever commands race    *)
(* for it and however often each of them is executed.                      *)
PlacedOnce ==
  \A o \in Orders : \A i \in DOMAIN stream[o] : stream[o][i].name = "order.placed" <=> i = 1

(* Success means this very command placed this very order.  The version a  *)
(* run returns is that of its command's placement, be it read from a claim *)
(* completed long ago, from the stream or after the append; and an append  *)
(* that was acknowledged always has its receipt, so that the error after   *)
(* the confirming read is never raised: the key holds the order as well as *)
(* the command, in an index the whole environment shares.                  *)
SuccessIsReceipt ==
  \A r \in Runs :
    /\ pc[r] = "acknowledged" => Receipts(r) # {}
    /\ pc[r] \in {"finishing", "written", "done"} => result[r] \in Receipts(r)

(* A completed claim names a placement that is on the stream, although it  *)
(* is put unconditionally, by runs that may have read it before it expired *)
(* and was claimed for another order.                                      *)
CachedIsCommitted ==
  \A r \in Runs :
    LET claim == claims[Command(r)] IN
    claim.order = OrderOf(r) /\ claim.version > 0 => claim.version \in Receipts(r)

(* A command id is used for one order.                                     *)
Sound(r) == \A q \in Runs : Command(q) = Command(r) => OrderOf(q) = OrderOf(r)

(* A delivery of a command that has placed its order ends in success,      *)
(* although a crash or an error fell between any two of claim, append,     *)
(* receipt and completion, and claims expire on the way.                   *)
CommittedIsAnswered ==
  MaxFaults < MaxAttempts =>
    \A r \in Runs :
      Sound(r) => (Receipts(r) # {} ~> pc[r] = "done")
=============================================================================
