------------------------ MODULE CqrsPlaceOrderProofs ------------------------
(* Proofs about CqrsPlaceOrder, for any set of orders, runs and bounds. *)
EXTENDS CqrsPlaceOrder, SequenceTheorems, TLAPS

(* An order's stream: a placement under the key of its command, then       *)
(* events of other handlers, which carry no key of this one.               *)
GoodEvent(e, i, o) ==
  /\ e.name = "order.placed" <=> i = 1
  /\ i = 1 => e.key = <<o, e.cause>>
  /\ i # 1 => e.key = <<>>

GoodStream(s, o) == \A i \in 1..Len(s) : GoodEvent(s[i], i, o)

Streams == \A o \in Orders : GoodStream(stream[o], o)

(* A decision is only ever made on a stream without events; whoever is     *)
(* past the append has a receipt to show.                                  *)
RunOK(r) ==
  /\ pc[r] = "decided" => seen[r] = 0
  /\ pc[r] = "acknowledged" => Receipts(r) # {}
  /\ pc[r] \in {"finishing", "written", "done"} => result[r] \in Receipts(r)

IInv == TypeOK /\ Streams /\ CachedIsCommitted /\ \A r \in Runs : RunOK(r)

-----------------------------------------------------------------------------
LEMMA RunParts ==
  ASSUME NEW r \in Runs
  PROVE  OrderOf(r) \in Orders /\ Command(r) \in Commands
BY RunsAssumption DEF Commands

(* The only receipt a command can have is the first event of the stream.   *)
LEMMA ReceiptIsFirst ==
  ASSUME TypeOK, Streams, NEW r \in Runs
  PROVE  /\ Receipts(r) \subseteq {1}
         /\ Receipts(r) # {} => Receipt(r) \in Receipts(r) /\ Receipt(r) \in Nat
<1> DEFINE s == stream[OrderOf(r)]
<1>1. OrderOf(r) \in Orders /\ s \in Seq(Event)
  BY RunParts DEF TypeOK
<1>2. DOMAIN s = 1..Len(s)
  BY <1>1, LenProperties
<1>3. Receipts(r) \subseteq {1}
  BY <1>1, <1>2 DEF Receipts, Streams, GoodStream, GoodEvent
<1>4. ASSUME Receipts(r) # {}
      PROVE  Receipt(r) \in Receipts(r)
  <2>1. 1 \in Receipts(r) /\ \A j \in Receipts(r) : 1 <= j
    BY <1>3, <1>4
  <2> QED BY <2>1 DEF Receipt
<1> QED BY <1>3, <1>4

(* A key that is taken was taken by this command's placement.              *)
LEMMA TakenIsReceipt ==
  ASSUME TypeOK, Streams, NEW r \in Runs, KeyTaken(r)
  PROVE  Receipts(r) # {}
<1>1. PICK o \in Orders : \E i \in DOMAIN stream[o] : stream[o][i].key = Key(r)
  BY DEF KeyTaken
<1>2. stream[o] \in Seq(Event) /\ DOMAIN stream[o] = 1..Len(stream[o])
  BY LenProperties DEF TypeOK
<1>3. PICK i \in 1..Len(stream[o]) : stream[o][i].key = Key(r)
  BY <1>1, <1>2
<1>4. GoodEvent(stream[o][i], i, o)
  BY DEF Streams, GoodStream
<1>5. Key(r) # <<>>
  BY DEF Key
<1>6. i = 1 /\ <<o, stream[o][i].cause>> = <<OrderOf(r), Command(r)>>
  BY <1>3, <1>4, <1>5 DEF GoodEvent, Key
<1>7. o = OrderOf(r) /\ stream[o][1].cause = Command(r) /\ stream[o][1].name = "order.placed"
  BY <1>6, <1>4 DEF GoodEvent
<1> QED BY <1>2, <1>3, <1>6, <1>7 DEF Receipts

-----------------------------------------------------------------------------
(* Streams only grow, and stay good.                                       *)
Grows ==
  /\ stream' \in [Orders -> Seq(Event)]
  /\ Streams'
  /\ \A q \in Runs : Receipts(q) \subseteq Receipts(q)'

LEMMA OneMore ==
  ASSUME TypeOK, Streams, NEW o \in Orders, NEW e \in Event,
         stream' = [stream EXCEPT ![o] = Append(@, e)],
         GoodEvent(e, Len(stream[o]) + 1, o)
  PROVE  Grows
<1>1. \A p \in Orders : stream[p] \in Seq(Event) /\ Len(stream[p]) \in Nat
                        /\ DOMAIN stream[p] = 1..Len(stream[p])
  BY LenProperties DEF TypeOK
<1> DEFINE s == stream[o]
           t == Append(s, e)
<1>2. /\ t \in Seq(Event) /\ Len(t) = Len(s) + 1 /\ DOMAIN t = 1..Len(t)
      /\ \A i \in 1..Len(s) : t[i] = s[i]
      /\ t[Len(s) + 1] = e
  BY <1>1, AppendProperties, LenProperties
<1>3. stream' \in [Orders -> Seq(Event)]
  BY <1>2 DEF TypeOK
<1>4. stream'[o] = t /\ \A p \in Orders \ {o} : stream'[p] = stream[p]
  BY DEF TypeOK
<1>5. GoodStream(t, o)
  <2> SUFFICES ASSUME NEW i \in 1..Len(t) PROVE GoodEvent(t[i], i, o)
    BY DEF GoodStream
  <2>1. CASE i = Len(s) + 1
    BY <2>1, <1>2
  <2>2. CASE i \in 1..Len(s)
    BY <2>2, <1>2 DEF Streams, GoodStream
  <2> QED BY <2>1, <2>2, <1>1, <1>2
<1>6. Streams'
  <2>1. ASSUME NEW p \in Orders PROVE GoodStream(stream'[p], p)
    <3>1. CASE p = o
      BY <3>1, <1>4, <1>5
    <3>2. CASE p # o
      BY <3>2, <1>4 DEF Streams
    <3> QED BY <3>1, <3>2
  <2> QED BY <2>1 DEF Streams
<1>7. ASSUME NEW q \in Runs, NEW i \in Receipts(q) PROVE i \in Receipts(q)'
  <2>1. OrderOf(q) \in Orders
    BY RunParts
  <2>2. CASE OrderOf(q) = o
    <3>1. i \in 1..Len(s) /\ s[i].name = "order.placed" /\ s[i].cause = Command(q)
      BY <2>2, <1>1 DEF Receipts
    <3>2. i \in DOMAIN t /\ t[i] = s[i]
      BY <3>1, <1>1, <1>2
    <3> QED BY <3>1, <3>2, <2>2, <1>4 DEF Receipts
  <2>3. CASE OrderOf(q) # o
    BY <2>1, <2>3, <1>4 DEF Receipts
  <2> QED BY <2>2, <2>3
<1> QED BY <1>3, <1>6, <1>7 DEF Grows

(* Every way a stream can change.                                          *)
LEMMA AppendGrows ==
  ASSUME IInv, NEW r \in Runs, pc[r] = "decided", AppendPlaced(r)
  PROVE  Grows
<1>1. CASE AppendAnswer(r) = "appended"
  <2> DEFINE e == [name |-> "order.placed", cause |-> Command(r), key |-> Key(r)]
  <2>1. OrderOf(r) \in Orders /\ Command(r) \in Commands /\ seen[r] = 0
    BY RunParts DEF IInv, RunOK
  <2>2. e \in Event
    BY <2>1 DEF Event, EventNames, Key
  <2>3. stream' = [stream EXCEPT ![OrderOf(r)] = Append(@, e)]
    BY <1>1 DEF AppendPlaced
  <2>4. Len(stream[OrderOf(r)]) = 0
    BY <1>1, <2>1 DEF AppendAnswer
  <2>5. GoodEvent(e, Len(stream[OrderOf(r)]) + 1, OrderOf(r))
    BY <2>4 DEF GoodEvent, Key
  <2> HIDE DEF e
  <2> QED BY <2>1, <2>2, <2>3, <2>5, OneMore DEF IInv
<1>2. CASE AppendAnswer(r) # "appended"
  <2>1. stream' = stream
    BY <1>2 DEF AppendPlaced
  <2> QED BY <2>1 DEF Grows, IInv, TypeOK, Streams, Receipts
<1> QED BY <1>1, <1>2

LEMMA LaterGrows ==
  ASSUME IInv, NEW o \in Orders, NEW name \in LaterEvents, LaterEvent(o, name)
  PROVE  Grows
<1> DEFINE e == [name |-> name, cause |-> "other", key |-> <<>>]
<1>1. name \in EventNames /\ name # "order.placed"
  BY LaterAssumption DEF EventNames
<1>2. e \in Event
  BY <1>1 DEF Event
<1>3. Len(stream[o]) \in Nat /\ Len(stream[o]) # 0
  BY LenProperties, EmptySeq DEF IInv, TypeOK, LaterEvent
<1>4. GoodEvent(e, Len(stream[o]) + 1, o)
  BY <1>1, <1>3 DEF GoodEvent
<1>5. stream' = [stream EXCEPT ![o] = Append(@, e)]
  BY DEF LaterEvent
<1> HIDE DEF e
<1> QED BY <1>2, <1>4, <1>5, OneMore DEF IInv

LEMMA StreamsGrow ==
  ASSUME IInv, [Next]_vars
  PROVE  Grows
<1>1. ASSUME stream' = stream PROVE Grows
  BY <1>1 DEF Grows, IInv, TypeOK, Streams, Receipts
<1>2. ASSUME NEW r \in Runs, Advance(r) PROVE Grows
  <2>1. CASE AppendDecided(r)
    BY <2>1, AppendGrows DEF AppendDecided
  <2>2. CASE Reconcile(r)
    BY <2>2, <1>1 DEF Reconcile, FailedAttempt
  <2>3. CASE TryClaim(r) \/ ReadAndDecide(r) \/ Confirm(r) \/ Finalize(r) \/ Checkpoint(r)
    BY <2>3, <1>1 DEF TryClaim, ReadAndDecide, Confirm, Finalize, Checkpoint
  <2> QED BY <1>2, <2>1, <2>2, <2>3 DEF Advance
<1>3. ASSUME NEW r \in Runs, AppendFails(r) PROVE Grows
  BY <1>1, <1>3, AppendGrows DEF AppendFails
<1>4. ASSUME NEW r \in Runs, TransportError(r) PROVE Grows
  BY <1>1, <1>4 DEF TransportError, FailedAttempt
<1>5. CASE Crash
  BY <1>1, <1>5 DEF Crash
<1>6. ASSUME NEW c \in Commands, Expire(c) PROVE Grows
  BY <1>1, <1>6 DEF Expire
<1>7. ASSUME NEW o \in Orders, NEW name \in LaterEvents, LaterEvent(o, name) PROVE Grows
  BY <1>7, LaterGrows
<1>8. CASE UNCHANGED vars
  BY <1>1, <1>8 DEF vars
<1> QED BY <1>2, <1>3, <1>4, <1>5, <1>6, <1>7, <1>8 DEF Next

-----------------------------------------------------------------------------
(* Steps of one run, as far as they matter to the others.                  *)
OnlyMoves(r) ==
  \A q \in Runs \ {r} : pc'[q] = pc[q] /\ seen'[q] = seen[q] /\ result'[q] = result[q]

(* What a step of run r makes of that run.                                 *)
LEMMA OwnStep ==
  ASSUME IInv, Grows, NEW r \in Runs,
         Advance(r) \/ AppendFails(r) \/ TransportError(r)
  PROVE  /\ OnlyMoves(r)
         /\ RunOK(r)'
         /\ TypeOK'
<1> USE DEF Goto, OnlyMoves
<1>1. /\ pc \in [Runs -> PCs] /\ seen \in [Runs -> Nat] /\ result \in [Runs -> Nat]
      /\ tries \in [Runs -> Nat] /\ claims \in [Commands -> Claim] /\ faults \in Nat
      /\ expiries \in Nat /\ stream \in [Orders -> Seq(Event)]
  BY DEF IInv, TypeOK
<1>2. OrderOf(r) \in Orders /\ Command(r) \in Commands /\ OrderOf(r) \in Orders \cup {"none"}
  BY RunParts
<1>3. Receipts(r) # {} => Receipt(r) \in Receipts(r) /\ Receipt(r) \in Nat
  BY ReceiptIsFirst DEF IInv
<1>4. Receipts(r) \subseteq Receipts(r)' /\ stream' \in [Orders -> Seq(Event)]
  BY DEF Grows
<1>5. RunOK(r) /\ CachedIsCommitted
  BY DEF IInv
<1>6. [order |-> OrderOf(r), version |-> 0] \in Claim
  BY <1>2 DEF Claim
<1>7. CASE TryClaim(r)
  <2>1. claims' \in [Commands -> Claim] /\ claims[Command(r)].version \in Nat
    BY <1>1, <1>2, <1>6, <1>7, ZenonT(60) DEF TryClaim, Claim
  <2>2. TypeOK' /\ OnlyMoves(r)
    BY <1>1, <1>4, <1>7, <2>1 DEF TryClaim, TypeOK, PCs, Executing
  <2>3. pc'[r] = "written" => result'[r] = claims[Command(r)].version
                              /\ claims[Command(r)].version \in Receipts(r)
    BY <1>1, <1>5, <1>7, <2>1 DEF TryClaim, CachedIsCommitted
  <2>4. pc'[r] \in {"claimed", "failed", "written"}
    BY <1>1, <1>7 DEF TryClaim
  <2> QED BY <1>4, <2>2, <2>3, <2>4 DEF RunOK
<1>8. CASE ReadAndDecide(r)
  <2>1. Len(stream[OrderOf(r)]) \in Nat
    BY <1>1, <1>2, LenProperties
  <2>2. TypeOK' /\ OnlyMoves(r)
    BY <1>1, <1>3, <1>4, <1>8, <2>1, ZenonT(60) DEF ReadAndDecide, TypeOK, PCs, Executing
  <2>3. pc'[r] = "finishing" => result'[r] \in Receipts(r)
    BY <1>1, <1>3, <1>8 DEF ReadAndDecide
  <2>4. pc'[r] = "decided" => seen'[r] = 0
    <3> SUFFICES ASSUME pc'[r] = "decided" PROVE seen'[r] = 0
      OBVIOUS
    <3>1. Status(stream[OrderOf(r)]) = "none" /\ seen'[r] = Len(stream[OrderOf(r)])
      BY <1>1, <1>8 DEF ReadAndDecide
    <3>2. ASSUME stream[OrderOf(r)] # <<>> PROVE FALSE
      <4>1. Len(stream[OrderOf(r)]) \in 1..Len(stream[OrderOf(r)])
        BY <1>1, <1>2, <2>1, <3>2, EmptySeq
      <4>2. stream[OrderOf(r)] \in Seq(Event)
        BY <1>1, <1>2
      <4>3. stream[OrderOf(r)][Len(stream[OrderOf(r)])] \in Event
        BY <4>1, <4>2, ElementOfSeq
      <4>4. stream[OrderOf(r)][Len(stream[OrderOf(r)])].name \in EventNames
        BY <4>3 DEF Event
      <4> QED BY <3>1, <3>2, <4>4 DEF Status, StatusOf, EventNames
    <3> QED BY <3>1, <3>2, EmptySeq
  <2>5. pc'[r] \in {"finishing", "failed", "decided"}
    BY <1>1, <1>8 DEF ReadAndDecide
  <2> QED BY <1>4, <2>2, <2>3, <2>4, <2>5 DEF RunOK
<1>9. CASE AppendDecided(r)
  <2>1. TypeOK' /\ OnlyMoves(r) /\ pc'[r] \in {"refused", "acknowledged"}
    BY <1>1, <1>4, <1>9 DEF AppendDecided, TypeOK, PCs, Executing
  <2>2. ASSUME pc'[r] = "acknowledged" PROVE Receipts(r)' # {}
    <3>1. AppendAnswer(r) # "conflict"
      BY <1>1, <1>9, <2>2 DEF AppendDecided
    <3>2. CASE AppendAnswer(r) = "original"
      BY <1>4, <3>2, TakenIsReceipt DEF IInv, AppendAnswer
    <3>3. CASE AppendAnswer(r) = "appended"
      <4>1. stream' = [stream EXCEPT ![OrderOf(r)] = Append(@,
              [name |-> "order.placed", cause |-> Command(r), key |-> Key(r)])]
        BY <1>9, <3>3 DEF AppendDecided, AppendPlaced
      <4> DEFINE s == stream[OrderOf(r)]
                 e == [name |-> "order.placed", cause |-> Command(r), key |-> Key(r)]
      <4>2. stream'[OrderOf(r)] = Append(s, e)
        BY <1>1, <1>2, <4>1
      <4>3. Len(s) + 1 \in DOMAIN Append(s, e) /\ Append(s, e)[Len(s) + 1] = e
        <5>1. s \in Seq(Event) /\ e \in Event /\ Len(s) \in Nat
          BY <1>1, <1>2, LenProperties DEF Event, EventNames, Key
        <5> HIDE DEF s, e
        <5> QED BY <5>1, AppendProperties, LenProperties
      <4> QED BY <4>2, <4>3 DEF Receipts
    <3> QED BY <3>1, <3>2, <3>3 DEF AppendAnswer
  <2> QED BY <2>1, <2>2 DEF RunOK
<1>10. CASE AppendFails(r)
  BY <1>1, <1>4, <1>10 DEF AppendFails, TypeOK, PCs, Executing, RunOK
<1>11. ASSUME FailedAttempt(r), faults' \in Nat
       PROVE  TypeOK' /\ OnlyMoves(r) /\ RunOK(r)'
  BY <1>1, <1>4, <1>11 DEF FailedAttempt, TypeOK, PCs, Executing, RunOK
<1>12. CASE Reconcile(r)
  BY <1>1, <1>3, <1>4, <1>11, <1>12 DEF Reconcile, TypeOK, PCs, Executing, RunOK
<1>13. CASE Confirm(r)
  BY <1>1, <1>3, <1>4, <1>13 DEF Confirm, TypeOK, PCs, Executing, RunOK
<1>14. CASE Finalize(r)
  <2>1. claims' \in [Commands -> Claim]
    BY <1>1, <1>2, <1>14 DEF Finalize, Claim, Completed
  <2> QED BY <1>1, <1>4, <1>5, <1>14, <2>1 DEF Finalize, TypeOK, PCs, Executing, RunOK
<1>15. CASE Checkpoint(r)
  BY <1>1, <1>4, <1>5, <1>15 DEF Checkpoint, TypeOK, PCs, Executing, RunOK
<1>16. CASE TransportError(r)
  BY <1>1, <1>11, <1>16 DEF TransportError
<1> QED BY <1>7, <1>8, <1>9, <1>10, <1>12, <1>13, <1>14, <1>15, <1>16 DEF Advance

(* What Crash and the steps outside the runs make of a run.                *)
LEMMA StepOfOthers ==
  ASSUME IInv, Grows, NEW q \in Runs,
         \/ pc'[q] = pc[q] /\ seen'[q] = seen[q] /\ result'[q] = result[q]
         \/ pc'[q] = "ready"
  PROVE  RunOK(q)'
<1>1. Receipts(q) \subseteq Receipts(q)' /\ RunOK(q)
  BY DEF Grows, IInv
<1> QED BY <1>1 DEF RunOK

LEMMA TypesAndRuns ==
  ASSUME IInv, [Next]_vars
  PROVE  TypeOK' /\ \A q \in Runs : RunOK(q)'
<1>1. Grows
  BY StreamsGrow
<1>2. ASSUME NEW r \in Runs, Advance(r) \/ AppendFails(r) \/ TransportError(r)
      PROVE  TypeOK' /\ \A q \in Runs : RunOK(q)'
  <2>1. TypeOK' /\ OnlyMoves(r) /\ RunOK(r)'
    BY <1>1, <1>2, OwnStep
  <2>2. ASSUME NEW q \in Runs \ {r} PROVE RunOK(q)'
    BY <1>1, <2>1, <2>2, StepOfOthers DEF OnlyMoves
  <2> QED BY <2>1, <2>2
<1>3. CASE Crash
  <2>1. TypeOK'
    BY <1>3 DEF IInv, TypeOK, Crash, PCs, Executing
  <2>2. ASSUME NEW q \in Runs PROVE RunOK(q)'
    BY <1>1, <1>3, <2>2, StepOfOthers DEF Crash
  <2> QED BY <2>1, <2>2
<1>4. ASSUME UNCHANGED <<pc, seen, result, tries, faults>>,
             claims' \in [Commands -> Claim], expiries' \in Nat
      PROVE  TypeOK' /\ \A q \in Runs : RunOK(q)'
  <2>1. TypeOK'
    BY <1>1, <1>4 DEF IInv, TypeOK, Grows
  <2>2. ASSUME NEW q \in Runs PROVE RunOK(q)'
    BY <1>1, <1>4, <2>2, StepOfOthers
  <2> QED BY <2>1, <2>2
<1>5. ASSUME NEW c \in Commands, Expire(c)
      PROVE  claims' \in [Commands -> Claim] /\ expiries' \in Nat
  BY <1>5 DEF IInv, TypeOK, Expire, NoClaim, Claim
<1>6. ASSUME NEW c \in Commands, Expire(c) PROVE TypeOK' /\ \A q \in Runs : RunOK(q)'
  BY <1>4, <1>5, <1>6 DEF Expire
<1>7. ASSUME NEW o \in Orders, NEW name \in LaterEvents, LaterEvent(o, name)
      PROVE  TypeOK' /\ \A q \in Runs : RunOK(q)'
  BY <1>4, <1>7 DEF LaterEvent, IInv, TypeOK
<1>8. CASE UNCHANGED vars
  BY <1>4, <1>8 DEF vars, IInv, TypeOK
<1> QED BY <1>2, <1>3, <1>6, <1>7, <1>8 DEF Next

(* Claims: put by TryClaim and Finalize, dropped by Expire.                *)
LEMMA ClaimsCommitted ==
  ASSUME IInv, [Next]_vars
  PROVE  CachedIsCommitted'
<1>1. \A q \in Runs : Receipts(q) \subseteq Receipts(q)' /\ Command(q) \in Commands
                      /\ OrderOf(q) \in Orders
  BY StreamsGrow, RunParts DEF Grows
<1>2. claims \in [Commands -> Claim] /\ "none" \notin Orders
  BY RunsAssumption DEF IInv, TypeOK
<1> SUFFICES ASSUME NEW q \in Runs,
                    claims'[Command(q)].order = OrderOf(q), claims'[Command(q)].version > 0
             PROVE  claims'[Command(q)].version \in Receipts(q)'
  BY DEF CachedIsCommitted
<1>3. CASE claims'[Command(q)] = claims[Command(q)]
  BY <1>1, <1>3 DEF IInv, CachedIsCommitted
<1>4. ASSUME NEW r \in Runs, TryClaim(r) PROVE claims'[Command(q)] = claims[Command(q)]
  BY <1>1, <1>2, <1>4 DEF TryClaim
<1>5. ASSUME NEW r \in Runs, Finalize(r)
      PROVE  claims'[Command(q)].version \in Receipts(q)'
  <2>1. CASE Command(r) = Command(q)
    <3>1. claims'[Command(q)] = [order |-> OrderOf(r), version |-> result[r]]
      BY <1>1, <1>2, <1>5, <2>1 DEF Finalize, Completed
    <3>2. OrderOf(r) = OrderOf(q)
      BY <3>1
    <3>3. Receipts(r) = Receipts(q)
      BY <2>1, <3>2 DEF Receipts
    <3>4. result[r] \in Receipts(r)
      BY <1>5 DEF IInv, RunOK, Finalize
    <3> QED BY <1>1, <3>1, <3>3, <3>4
  <2>2. CASE Command(r) # Command(q)
    BY <1>1, <1>2, <1>3, <1>5, <2>2 DEF Finalize
  <2> QED BY <2>1, <2>2
<1>6. ASSUME NEW c \in Commands, Expire(c) PROVE claims'[Command(q)] = claims[Command(q)]
  BY <1>1, <1>2, <1>6 DEF Expire, NoClaim
<1>7. ASSUME claims' = claims PROVE claims'[Command(q)] = claims[Command(q)]
  BY <1>7
<1>8. ASSUME NEW r \in Runs,
             \/ ReadAndDecide(r) \/ AppendDecided(r) \/ Reconcile(r) \/ Confirm(r)
             \/ Checkpoint(r) \/ AppendFails(r) \/ TransportError(r)
      PROVE  claims' = claims
  BY <1>8 DEF ReadAndDecide, AppendDecided, Reconcile, Confirm, Checkpoint, AppendFails,
              TransportError, FailedAttempt
<1>9. CASE Crash \/ (\E o \in Orders, name \in LaterEvents : LaterEvent(o, name))
           \/ UNCHANGED vars
  BY <1>3, <1>9 DEF Crash, LaterEvent, vars
<1> QED BY <1>3, <1>4, <1>5, <1>6, <1>8, <1>9 DEF Next, Advance

-----------------------------------------------------------------------------
(* The inductive invariant: a decision is made on an empty stream only, so *)
(* the append that follows is either the first event of the order or is    *)
(* answered with this command's own placement.                             *)
THEOREM Invariance == Spec => []IInv
<1>1. Init => IInv
  <2> SUFFICES ASSUME Init PROVE IInv
    OBVIOUS
  <2>1. TypeOK
    BY DEF Init, TypeOK, PCs, Executing, NoClaim, Claim
  <2>2. Streams
    BY DEF Init, Streams, GoodStream
  <2>3. CachedIsCommitted
    BY RunParts DEF Init, CachedIsCommitted, NoClaim
  <2>4. \A r \in Runs : RunOK(r)
    BY DEF Init, RunOK
  <2> QED BY <2>1, <2>2, <2>3, <2>4 DEF IInv
<1>2. IInv /\ [Next]_vars => IInv'
  <2> SUFFICES ASSUME IInv, [Next]_vars PROVE IInv'
    OBVIOUS
  <2> QED BY StreamsGrow, TypesAndRuns, ClaimsCommitted DEF IInv, Grows
<1> QED BY <1>1, <1>2, PTL DEF Spec

(* Every variable of the handler keeps its type.                           *)
THEOREM TypeCorrect == Spec => []TypeOK
<1>1. IInv => TypeOK
  BY DEF IInv
<1> QED BY <1>1, Invariance, PTL

(* An order is placed once, by its first event, whichever commands race    *)
(* for it and however often each is executed.                              *)
THEOREM OrdersArePlacedOnce == Spec => []PlacedOnce
<1>1. IInv => PlacedOnce
  <2> SUFFICES ASSUME IInv, NEW o \in Orders, NEW i \in DOMAIN stream[o]
               PROVE  stream[o][i].name = "order.placed" <=> i = 1
    BY DEF PlacedOnce
  <2>1. i \in 1..Len(stream[o])
    BY LenProperties DEF IInv, TypeOK
  <2> QED BY <2>1 DEF IInv, Streams, GoodStream, GoodEvent
<1> QED BY <1>1, Invariance, PTL

(* Success means that this command placed this order, at the version that  *)
(* is returned; the error after the confirming read is never raised.       *)
THEOREM SuccessesAreReceipts == Spec => []SuccessIsReceipt
<1>1. IInv => SuccessIsReceipt
  BY DEF IInv, RunOK, SuccessIsReceipt
<1> QED BY <1>1, Invariance, PTL

(* A completed claim names a placement that is on the stream.              *)
THEOREM CachedResultsAreCommitted == Spec => []CachedIsCommitted
<1>1. IInv => CachedIsCommitted
  BY DEF IInv
<1> QED BY <1>1, Invariance, PTL

-----------------------------------------------------------------------------
(* The refinement of OrderRegister.                                        *)

LEMMA PlacementMaps ==
  ASSUME IInv, NEW r \in Runs, pc[r] = "decided", AppendPlaced(r),
         Answered' = Answered
  PROVE  [Register!Next]_<<PlacedBy, Answered>>
<1>1. CASE AppendAnswer(r) = "appended"
  <2> DEFINE o == OrderOf(r)
             e == [name |-> "order.placed", cause |-> Command(r), key |-> Key(r)]
  <2>1. o \in Orders /\ seen[r] = 0 /\ stream \in [Orders -> Seq(Event)]
    BY RunParts DEF IInv, RunOK, TypeOK
  <2>2. stream[o] = <<>>
    BY <1>1, <2>1, EmptySeq DEF AppendAnswer
  <2>3. stream' = [stream EXCEPT ![o] = Append(@, e)]
    BY <1>1 DEF AppendPlaced
  <2>4. stream'[o] = <<e>>
    BY <2>1, <2>2, <2>3
  <2>5. PlacedBy[o] = "none" /\ PlacedBy' = [PlacedBy EXCEPT ![o] = Command(r)]
    <3>1. PlacedBy'[o] = Command(r)
      <4>1. PlacedBy'[o] = IF stream'[o] = <<>> THEN "none" ELSE stream'[o][1].cause
        BY <2>1 DEF PlacedBy
      <4>2. stream'[o] # <<>> /\ stream'[o][1] = e
        BY <2>4
      <4>3. e.cause = Command(r)
        OBVIOUS
      <4> HIDE DEF o, e
      <4> QED BY <4>1, <4>2, <4>3
    <3>2. \A p \in Orders \ {o} : PlacedBy'[p] = PlacedBy[p]
      BY <2>1, <2>3 DEF PlacedBy
    <3>3. PlacedBy[o] = "none"
      BY <2>1, <2>2 DEF PlacedBy
    <3> QED BY <2>1, <3>1, <3>2, <3>3 DEF PlacedBy
  <2>6. Register!Place(r)
    BY <2>5 DEF Register!Place, OrderOf, Command
  <2> QED BY <2>6 DEF Register!Next
<1>2. CASE AppendAnswer(r) # "appended"
  BY <1>2 DEF AppendPlaced, PlacedBy
<1> QED BY <1>1, <1>2

LEMMA StepMaps == IInv /\ [Next]_vars => [Register!Next]_<<PlacedBy, Answered>>
<1> SUFFICES ASSUME IInv, [Next]_vars PROVE [Register!Next]_<<PlacedBy, Answered>>
  OBVIOUS
<1> USE DEF Goto
<1>1. pc \in [Runs -> PCs] /\ stream \in [Orders -> Seq(Event)]
  BY DEF IInv, TypeOK
<1>2. ASSUME NEW r \in Runs, pc[r] # "done", pc'[r] # "done",
             \A q \in Runs \ {r} : pc'[q] = pc[q]
      PROVE  Answered' = Answered
  BY <1>2 DEF Answered
<1>3. ASSUME NEW r \in Runs, AppendDecided(r) \/ AppendFails(r)
      PROVE  [Register!Next]_<<PlacedBy, Answered>>
  <2>1. pc[r] = "decided" /\ pc'[r] \in {"refused", "acknowledged"}
        /\ \A q \in Runs \ {r} : pc'[q] = pc[q]
    BY <1>1, <1>3 DEF AppendDecided, AppendFails
  <2>2. Answered' = Answered
    BY <1>2, <2>1
  <2>3. CASE AppendPlaced(r)
    BY <2>1, <2>2, <2>3, PlacementMaps
  <2>4. CASE UNCHANGED stream
    BY <2>2, <2>4 DEF PlacedBy
  <2> QED BY <1>3, <2>3, <2>4 DEF AppendDecided, AppendFails
<1>4. ASSUME NEW r \in Runs, Checkpoint(r)
      PROVE  [Register!Next]_<<PlacedBy, Answered>>
  <2>1. stream' = stream /\ pc'[r] = "done" /\ \A q \in Runs \ {r} : pc'[q] = pc[q]
    BY <1>1, <1>4 DEF Checkpoint
  <2>2. Answered' = Answered \cup {r}
    BY <2>1 DEF Answered
  <2>3. Receipts(r) \subseteq {1} /\ result[r] \in Receipts(r)
    BY <1>4, ReceiptIsFirst DEF IInv, RunOK, Checkpoint
  <2>4. stream[OrderOf(r)] # <<>> /\ stream[OrderOf(r)][1].cause = Command(r)
    BY <2>3 DEF Receipts
  <2>5. PlacedBy[OrderOf(r)] = Command(r) /\ PlacedBy' = PlacedBy
    BY <2>1, <2>4, RunParts DEF PlacedBy
  <2>6. Register!Answer(r)
    BY <2>2, <2>5 DEF Register!Answer, OrderOf, Command
  <2> QED BY <2>6 DEF Register!Next
<1>5. ASSUME NEW r \in Runs,
             \/ TryClaim(r) \/ ReadAndDecide(r) \/ Reconcile(r) \/ Confirm(r)
             \/ Finalize(r) \/ TransportError(r)
      PROVE  [Register!Next]_<<PlacedBy, Answered>>
  <2>1. /\ stream' = stream /\ pc[r] # "done" /\ pc'[r] # "done"
        /\ \A q \in Runs \ {r} : pc'[q] = pc[q]
    BY <1>1, <1>5 DEF TryClaim, ReadAndDecide, Reconcile, Confirm, Finalize,
                      TransportError, FailedAttempt, Executing
  <2> QED BY <1>2, <2>1 DEF PlacedBy
<1>6. CASE Crash
  <2>1. stream' = stream /\ \A q \in Runs : pc'[q] = "done" <=> pc[q] = "done"
    BY <1>6 DEF Crash, Executing
  <2> QED BY <2>1 DEF PlacedBy, Answered
<1>7. ASSUME NEW o \in Orders, NEW name \in LaterEvents, LaterEvent(o, name)
      PROVE  [Register!Next]_<<PlacedBy, Answered>>
  <2> DEFINE s == stream[o]
             e == [name |-> name, cause |-> "other", key |-> <<>>]
  <2>1. s \in Seq(Event) /\ Len(s) \in Nat /\ s # <<>>
    BY <1>1, <1>7, LenProperties DEF LaterEvent
  <2>2. 1 \in 1..Len(s)
    BY <2>1, EmptySeq
  <2>3. e \in Event
    BY LaterAssumption DEF Event, EventNames
  <2>4. stream'[o] = Append(s, e) /\ \A p \in Orders \ {o} : stream'[p] = stream[p]
    BY <1>1, <1>7 DEF LaterEvent
  <2>5. Append(s, e) # <<>> /\ Append(s, e)[1] = s[1]
    <3> HIDE DEF s, e
    <3> QED BY <2>1, <2>2, <2>3, AppendProperties, EmptySeq
  <2>6. PlacedBy' = PlacedBy
    BY <2>1, <2>4, <2>5 DEF PlacedBy
  <2> QED BY <1>7, <2>6 DEF LaterEvent, Answered
<1>8. CASE (\E c \in Commands : Expire(c)) \/ UNCHANGED vars
  BY <1>8 DEF Expire, vars, PlacedBy, Answered
<1> QED BY <1>3, <1>4, <1>5, <1>6, <1>7, <1>8 DEF Next, Advance

(* The handler implements the register: an order is placed once, for good, *)
(* and only deliveries of the command that placed it succeed.              *)
THEOREM HandlerImplementsRegister == Spec => ImplementsRegister
<1>1. Init => Register!Init
  BY DEF Init, Register!Init, PlacedBy, Answered
<1>2. IInv /\ [Next]_vars => [Register!Next]_<<PlacedBy, Answered>>
  BY StepMaps
<1> QED BY <1>1, <1>2, Invariance, PTL DEF Spec, ImplementsRegister, Register!Spec
=============================================================================
