--------------------------- MODULE OrderingProofs ---------------------------
(* Proofs about Ordering, for any set of orders, runs and bounds. *)
EXTENDS Ordering, SequenceTheorems, TLAPS

(* Lemmas about a stream that follows the life cycle. *)

FnAt == <<"place", "approve", "process", "outcome">>

(* What the i-th fact of order o's stream can be, given its payment facts. *)
GoodFact(f, i, o) ==
  /\ f.name \in Lifecycle[i]
  /\ f.key[1] = FnAt[i]
  /\ (i = 2 /\ o \in ProbeOrders) \/ f.key[2] = 0
  /\ f.name = "order.paid" => payments[o] = {"payment.captured"}
  /\ f.name = "order.payment_failed" => payments[o] = {"payment.declined"}

GoodStream(s, o) ==
  /\ Len(s) <= 4
  /\ \A i \in 1..Len(s) : GoodFact(s[i], i, o)

Streams == \A o \in Orders : GoodStream(stream[o], o)

Payments ==
  \A o \in Orders :
    /\ payments[o] \in {{}, {"payment.captured"}, {"payment.declined"}}
    /\ payments[o] # {} => Len(stream[o]) >= 3

(* The version at which each function may append, and the length of the    *)
(* stream once it has.                                                     *)
Before == [f \in Fns |-> CASE f = "place" -> 0 [] f = "approve" -> 1
                           [] f = "process" -> 2 [] f = "outcome" -> 3]

RunOK(r) ==
  LET n == Len(stream[OrderOf(r)]) IN
  /\ Fn(r) = "place" => seen[r] = 0 /\ pc[r] # "decided"
  /\ pc[r] = "decided" => seen[r] = Before[Fn(r)] /\ n >= seen[r]
  /\ pc[r] \in {"written", "recorded", "announced", "done"} => n > Before[Fn(r)]
  /\ Fn(r) = "outcome" /\ pc[r] # "idle" => payments[OrderOf(r)] = {event[r]}

IInv == TypeOK /\ Streams /\ Payments /\ \A r \in Runs : RunOK(r)

-----------------------------------------------------------------------------
LEMMA RunParts ==
  ASSUME NEW r \in Runs
  PROVE  Fn(r) \in Fns /\ OrderOf(r) \in Orders /\ IdempotencyKey(r) \in Keys
BY RunsAssumption DEF Fn, OrderOf, IdempotencyKey, Keys, IsTarget

(* In a legal history the number of facts decides everything Fold reports. *)
LEMMA FoldByLength ==
  ASSUME NEW o \in Orders, NEW s \in Seq(Fact), GoodStream(s, o)
  PROVE  /\ Len(s) \in 0..4
         /\ s = <<>> <=> Len(s) = 0
         /\ Has(s, "order.placed") <=> Len(s) >= 1
         /\ Approved(s) <=> Len(s) >= 2
         /\ Released(s) <=> Len(s) >= 3
         /\ Status(s) = CASE Len(s) = 0 -> "none"
                          [] Len(s) \in {1, 2} -> "pending_approval"
                          [] Len(s) = 3 -> "processing_payment"
                          [] Len(s) = 4 -> StatusOf[s[4].name]
         /\ Terminal(s) <=> Len(s) = 4
<1>1. Len(s) \in 0..4 /\ DOMAIN s = 1..Len(s)
  <2>1. Len(s) \in Nat /\ DOMAIN s = 1..Len(s)
    BY LenProperties
  <2> QED BY <2>1 DEF GoodStream
<1>2. \A i \in 1..Len(s) : s[i].name \in Lifecycle[i] /\ i \in 1..4
  BY <1>1 DEF GoodStream, GoodFact
<1>3. /\ Len(s) >= 1 => s[1].name = "order.placed"
      /\ Len(s) >= 2 => s[2].name = "order.approved"
      /\ Len(s) >= 3 => s[3].name = "order.released"
      /\ Len(s) >= 4 => s[4].name \in {"order.paid", "order.payment_failed"}
  BY <1>1, <1>2 DEF Lifecycle
<1>4. \A i \in 1..Len(s) : /\ s[i].name = "order.placed" => i = 1
                           /\ s[i].name = "order.approved" => i = 2
                           /\ s[i].name = "order.released" => i = 3
  BY <1>1, <1>2 DEF Lifecycle
<1>5. /\ Has(s, "order.placed") <=> Len(s) >= 1
      /\ Approved(s) <=> Len(s) >= 2
      /\ Released(s) <=> Len(s) >= 3
  BY <1>1, <1>3, <1>4 DEF Has, Approved, Released
<1>6. \A i : i \in StatusFacts(s) <=> i \in 1..Len(s) /\ i # 2
  BY <1>1, <1>2, <1>3 DEF StatusFacts, StatusOf, Lifecycle, FactNames
<1>7. ASSUME NEW m \in StatusFacts(s), \A j \in StatusFacts(s) : j <= m
      PROVE  Status(s) = StatusOf[s[m].name]
  <2> DEFINE c == CHOOSE i \in StatusFacts(s) : \A j \in StatusFacts(s) : j <= i
  <2>1. c \in StatusFacts(s) /\ \A j \in StatusFacts(s) : j <= c
    BY <1>7
  <2>2. Status(s) = StatusOf[s[c].name]
    BY <1>7 DEF Status
  <2> HIDE DEF c
  <2>3. c = m
    BY <1>7, <2>1, <1>1, <1>6
  <2> QED BY <2>2, <2>3
<1>10. Status(s) = CASE Len(s) = 0 -> "none"
                     [] Len(s) \in {1, 2} -> "pending_approval"
                     [] Len(s) = 3 -> "processing_payment"
                     [] Len(s) = 4 -> StatusOf[s[4].name]
  <2>1. CASE Len(s) = 0
    <3>1. StatusFacts(s) = {}
      BY <2>1, <1>6
    <3> QED BY <2>1, <3>1 DEF Status
  <2>2. CASE Len(s) = 1
    <3>1. 1 \in StatusFacts(s) /\ \A j \in StatusFacts(s) : j <= 1
      BY <2>2, <1>6
    <3>2. Status(s) = StatusOf["order.placed"]
      BY <3>1, <1>7, <1>3, <2>2
    <3> QED BY <3>2, <2>2 DEF StatusOf, FactNames
  <2>3. CASE Len(s) = 3
    <3>1. 3 \in StatusFacts(s) /\ \A j \in StatusFacts(s) : j <= 3
      BY <2>3, <1>6
    <3>2. Status(s) = StatusOf["order.released"]
      BY <3>1, <1>7, <1>3, <2>3
    <3> QED BY <3>2, <2>3 DEF StatusOf, FactNames
  <2>4. CASE Len(s) = 4
    <3>1. 4 \in StatusFacts(s) /\ \A j \in StatusFacts(s) : j <= 4
      BY <2>4, <1>6
    <3> QED BY <3>1, <1>7, <2>4
  <2>5. CASE Len(s) = 2
    <3>1. 1 \in StatusFacts(s) /\ \A j \in StatusFacts(s) : j <= 1
      BY <2>5, <1>6
    <3>2. Status(s) = StatusOf["order.placed"]
      BY <3>1, <1>7, <1>3, <2>5
    <3> QED BY <3>2, <2>5 DEF StatusOf, FactNames
  <2> QED BY <1>1, <2>1, <2>2, <2>3, <2>4, <2>5
<1>8. Terminal(s) <=> Len(s) = 4
  BY <1>1, <1>3, <1>10 DEF Terminal, StatusOf, FactNames
<1>9. s = <<>> <=> Len(s) = 0
  BY <1>1, EmptySeq
<1> QED BY <1>1, <1>5, <1>10, <1>8, <1>9

(* The customer is the one named by the first fact.                        *)
LEMMA CustomerOfHistory ==
  ASSUME NEW o \in Orders, NEW s \in Seq(Fact), GoodStream(s, o), Len(s) >= 1
  PROVE  Customer(s) = s[1].by /\ s[1].by \in Runs
<1>1. Len(s) \in Nat /\ DOMAIN s = 1..Len(s)
  BY LenProperties
<1>2. \A i \in 1..Len(s) : s[i].name \in Lifecycle[i] /\ i \in 1..4 /\ s[i] \in Fact
  BY <1>1, ElementOfSeq DEF GoodStream, GoodFact
<1>3. \A i : i \in PlacedFacts(s) <=> i = 1
  BY <1>1, <1>2 DEF PlacedFacts, Lifecycle
<1>4. PlacedFacts(s) = {1}
  BY <1>3
<1>5. (CHOOSE i \in PlacedFacts(s) : \A j \in PlacedFacts(s) : j <= i) = 1
  BY <1>4
<1>6. 1 \in 1..Len(s)
  BY <1>1
<1>7. s[1].by \in Runs
  BY <1>2, <1>6 DEF Fact
<1> QED BY <1>5, <1>7 DEF Customer

(* What the engine answers to an append made at the function's own version. *)
LEMMA AnswerByLength ==
  ASSUME TypeOK, Streams, NEW r \in Runs,
         seen[r] = Before[Fn(r)], Len(stream[OrderOf(r)]) >= seen[r]
  PROVE  /\ AppendAnswer(r) \in {"original", "appended", "conflict"}
         /\ AppendAnswer(r) = "appended" <=> Len(stream[OrderOf(r)]) = Before[Fn(r)]
         /\ AppendAnswer(r) = "conflict" => IsTarget(r)
<1> DEFINE s == stream[OrderOf(r)]
           b == Before[Fn(r)]
<1>1. Fn(r) \in Fns /\ OrderOf(r) \in Orders
  BY RunParts
<1>2. s \in Seq(Fact) /\ GoodStream(s, OrderOf(r))
  BY <1>1 DEF TypeOK, Streams
<1>3. Len(s) \in 0..4 /\ DOMAIN s = 1..Len(s)
  BY <1>1, <1>2, LenProperties, FoldByLength
<1>4. b \in 0..3 /\ FnAt[b + 1] = Fn(r) /\ \A i \in 1..4 : FnAt[i] = Fn(r) => i = b + 1
  BY <1>1 DEF Before, FnAt, Fns
<1>5. \A i \in 1..Len(s) : s[i].key \in Keys /\ s[i].key[1] = FnAt[i]
                           /\ ((i = 2 /\ OrderOf(r) \in ProbeOrders) \/ s[i].key[2] = 0)
  <2>1. \A i \in 1..Len(s) : s[i] \in Fact
    BY <1>2, ElementOfSeq
  <2>2. \A i \in 1..Len(s) : GoodFact(s[i], i, OrderOf(r))
    BY <1>2 DEF GoodStream
  <2> HIDE DEF s
  <2> QED BY <2>1, <2>2 DEF GoodFact, Fact
<1>6. (\E i \in DOMAIN s : s[i].key = IdempotencyKey(r)) => Len(s) >= b + 1
  BY <1>3, <1>4, <1>5 DEF IdempotencyKey
<1>7. ASSUME Len(s) >= b + 1, ~IsTarget(r)
      PROVE  \E i \in DOMAIN s : s[i].key = IdempotencyKey(r)
  <2>1. b + 1 \in 1..Len(s)
    BY <1>3, <1>4, <1>7
  <2>2. b + 1 = 2 => Fn(r) = "approve"
    BY <1>1 DEF Before, Fns
  <2>3. s[b + 1].key \in Fns \X Nat /\ s[b + 1].key[1] = Fn(r) /\ s[b + 1].key[2] = 0
    BY <1>4, <1>5, <1>7, <2>1, <2>2 DEF IsTarget, Keys
  <2>4. s[b + 1].key = <<Fn(r), 0>>
    BY <2>3
  <2> QED BY <2>1, <2>4, <1>3, <1>7 DEF IdempotencyKey
<1> DEFINE found == \E i \in DOMAIN s : s[i].key = IdempotencyKey(r)
<1>8. AppendAnswer(r) = IF found THEN "original"
                        ELSE IF Len(s) = b THEN "appended" ELSE "conflict"
  BY DEF AppendAnswer
<1>9. Len(s) >= b /\ (found => Len(s) # b) /\ (~found => Len(s) = b \/ IsTarget(r))
  <2>1. Len(s) >= b
    OBVIOUS
  <2>2. found => Len(s) >= b + 1
    BY <1>6
  <2>3. ~found /\ ~IsTarget(r) => ~(Len(s) >= b + 1)
    BY <1>7
  <2> DEFINE n == Len(s)
  <2>4. n \in Int /\ b \in Int /\ n >= b
    BY <2>1, <1>3, <1>4
  <2> HIDE DEF s, b, found, n
  <2>5. n >= b + 1 <=> n # b
    BY <2>4
  <2>6. (found => n # b) /\ (~found => n = b \/ IsTarget(r))
    BY <2>2, <2>3, <2>5 DEF n
  <2> QED BY <2>1, <2>6 DEF n
<1> HIDE DEF found
<1> QED BY <1>8, <1>9

-----------------------------------------------------------------------------
(* An append that is not refused leaves a legal history that has the fact. *)
LEMMA AppendKeepsStreams ==
  ASSUME TypeOK, Streams, NEW r \in Runs, AppendFact(r), UNCHANGED payments,
         seen[r] = Before[Fn(r)], Len(stream[OrderOf(r)]) >= seen[r],
         AppendAnswer(r) # "conflict",
         Fn(r) = "outcome" => payments[OrderOf(r)] = {event[r]}
  PROVE  /\ stream' \in [Orders -> Seq(Fact)]
         /\ Streams'
         /\ \A o \in Orders :
              /\ Len(stream[o]) \in Nat /\ Len(stream'[o]) \in Nat
              /\ Len(stream[o]) <= Len(stream'[o])
              /\ \A i \in 1..Len(stream[o]) : stream'[o][i] = stream[o][i]
         /\ Len(stream'[OrderOf(r)]) > Before[Fn(r)]
<1> DEFINE p == OrderOf(r)
           f == [name |-> FactOf(r), key |-> IdempotencyKey(r), by |-> r]
<1>1. Fn(r) \in Fns /\ p \in Orders /\ IdempotencyKey(r) \in Keys
  BY RunParts
<1>2. \A o \in Orders : stream[o] \in Seq(Fact) /\ GoodStream(stream[o], o)
                       /\ Len(stream[o]) \in Nat
  BY LenProperties DEF TypeOK, Streams
<1>3. Before[Fn(r)] \in 0..3
  BY <1>1 DEF Before, Fns
<1>4. CASE AppendAnswer(r) = "appended"
  <2>1. Len(stream[p]) = Before[Fn(r)]
    BY <1>4, AnswerByLength
  <2>2. stream' = [stream EXCEPT ![p] = Append(stream[p], f)]
    BY <1>4 DEF AppendFact
  <2>3. event[r] \in PaymentNames \cup {"none"}
    BY DEF TypeOK
  <2>4. f \in Fact
    BY <1>1, <2>3 DEF Fact, FactOf, Fns, FactNames, OutcomeFact
  <2>5. stream' \in [Orders -> Seq(Fact)]
    BY <1>1, <1>2, <2>2, <2>4, AppendProperties DEF TypeOK
  <2>6. /\ stream'[p] = Append(stream[p], f)
        /\ \A o \in Orders : o # p => stream'[o] = stream[o]
    BY <1>1, <2>2 DEF TypeOK
  <2>7. /\ Append(stream[p], f) \in Seq(Fact)
        /\ Len(Append(stream[p], f)) = Len(stream[p]) + 1
        /\ \A i \in 1..Len(stream[p]) : Append(stream[p], f)[i] = stream[p][i]
        /\ Append(stream[p], f)[Len(stream[p]) + 1] = f
    BY <1>1, <1>2, <2>4, AppendProperties
  <2>8. GoodFact(f, Before[Fn(r)] + 1, p)
    <3>1. FactOf(r) \in Lifecycle[Before[Fn(r)] + 1]
      BY <1>1 DEF FactOf, Before, Lifecycle, Fns, OutcomeFact
    <3>2. IdempotencyKey(r)[1] = FnAt[Before[Fn(r)] + 1]
      BY <1>1 DEF IdempotencyKey, FnAt, Before, Fns
    <3>3. (Before[Fn(r)] + 1 = 2 /\ p \in ProbeOrders) \/ IdempotencyKey(r)[2] = 0
      BY <1>1 DEF IdempotencyKey, IsTarget, Before, Fns
    <3>4. FactOf(r) = "order.paid" => payments[p] = {"payment.captured"}
      <4>1. CASE Fn(r) # "outcome"
        BY <1>1, <4>1 DEF FactOf, Fns
      <4>2. CASE Fn(r) = "outcome"
        BY <4>2 DEF FactOf, OutcomeFact
      <4> QED BY <4>1, <4>2
    <3>5. FactOf(r) = "order.payment_failed" => payments[p] = {"payment.declined"}
      <4>1. CASE Fn(r) # "outcome"
        BY <1>1, <4>1 DEF FactOf, Fns
      <4>2. CASE Fn(r) = "outcome"
        <5>1. event[r] \in PaymentNames
          BY <1>1, <4>2 DEF TypeOK
        <5> QED BY <4>2, <5>1 DEF FactOf, OutcomeFact, PaymentNames
      <4> QED BY <4>1, <4>2
    <3> QED BY <3>1, <3>2, <3>3, <3>4, <3>5 DEF GoodFact
  <2>9. GoodStream(stream'[p], p)
    <3> DEFINE t == Append(stream[p], f)
    <3>1. Len(t) <= 4
      BY <1>3, <2>1, <2>7
    <3>2. \A i \in 1..Len(t) : GoodFact(t[i], i, p)
      <4> TAKE i \in 1..Len(t)
      <4>1. CASE i = Len(stream[p]) + 1
        BY <4>1, <2>1, <2>7, <2>8
      <4>2. CASE i # Len(stream[p]) + 1
        <5>1. i \in 1..Len(stream[p])
          BY <4>2, <2>7, <1>1, <1>2
        <5> QED BY <5>1, <2>7, <1>1, <1>2 DEF GoodStream
      <4> QED BY <4>1, <4>2
    <3> QED BY <3>1, <3>2, <2>6 DEF GoodStream
  <2>10. Streams'
    <3>1. \A o \in Orders : GoodStream(stream'[o], o)
      BY <1>2, <2>6, <2>9
    <3> QED BY <3>1 DEF Streams, GoodStream, GoodFact
  <2>11. \A o \in Orders :
              /\ Len(stream[o]) \in Nat /\ Len(stream'[o]) \in Nat
              /\ Len(stream[o]) <= Len(stream'[o])
              /\ \A i \in 1..Len(stream[o]) : stream'[o][i] = stream[o][i]
    BY <1>2, <2>6, <2>7
  <2>12. Len(stream'[p]) > Before[Fn(r)]
    BY <1>3, <2>1, <2>6, <2>7
  <2> QED BY <2>5, <2>10, <2>11, <2>12
<1>5. CASE AppendAnswer(r) = "original"
  <2>1. stream' = stream
    BY <1>5 DEF AppendFact
  <2>2. Len(stream[p]) # Before[Fn(r)]
    BY <1>5, AnswerByLength
  <2>3. Streams'
    BY <2>1 DEF Streams, GoodStream, GoodFact
  <2>4. Len(stream[p]) >= Before[Fn(r)] /\ Len(stream[p]) \in Nat
    BY <1>1, <1>2
  <2> QED BY <1>2, <1>3, <2>1, <2>2, <2>3, <2>4 DEF TypeOK
<1> QED BY <1>4, <1>5, AnswerByLength

(* What holds of a run survives any step that leaves the run alone.        *)
LEMMA RunKept ==
  ASSUME TypeOK, NEW q \in Runs, RunOK(q),
         Len(stream[OrderOf(q)]) \in Nat, Len(stream'[OrderOf(q)]) \in Nat,
         Len(stream[OrderOf(q)]) <= Len(stream'[OrderOf(q)]),
         pc'[q] = pc[q], seen'[q] = seen[q], event'[q] = event[q],
         payments'[OrderOf(q)] = payments[OrderOf(q)]
  PROVE  RunOK(q)'
<1>1. Before[Fn(q)] \in Nat /\ seen[q] \in Nat
  BY RunParts DEF Before, Fns, TypeOK
<1> QED BY <1>1 DEF RunOK, Fn, OrderOf

(* A step of one run that leaves streams and payments alone.               *)
LEMMA QuietStep ==
  ASSUME IInv, NEW r \in Runs, UNCHANGED <<stream, payments>>, TypeOK',
         \A q \in Runs : q # r =>
           pc'[q] = pc[q] /\ seen'[q] = seen[q] /\ event'[q] = event[q],
         RunOK(r)'
  PROVE  IInv'
<1>1. Streams' /\ Payments'
  BY DEF IInv, Streams, GoodStream, GoodFact, Payments
<1>2. \A q \in Runs : RunOK(q)'
  <2> TAKE q \in Runs
  <2>1. CASE q = r
    BY <2>1
  <2>2. CASE q # r
    <3>1. Len(stream[OrderOf(q)]) \in Nat
      BY RunParts, LenProperties DEF IInv, TypeOK
    <3> QED BY <2>2, <3>1, RunKept DEF IInv
  <2> QED BY <2>1, <2>2
<1> QED BY <1>1, <1>2 DEF IInv

(* A failed execution of the step.                                         *)
LEMMA FailedAttemptStep ==
  ASSUME IInv, NEW r \in Runs, NEW b \in BOOLEAN, FailedAttempt(r, b), faults' \in Nat,
         pc[r] # "idle"
  PROVE  IInv'
<1>1. TypeOK'
  BY DEF IInv, TypeOK, FailedAttempt, PCs, Entry
<1>2. /\ pc'[r] \in {"ready", "woken", "failed"} /\ seen'[r] = 0
      /\ \A q \in Runs : q # r => pc'[q] = pc[q] /\ seen'[q] = seen[q] /\ event'[q] = event[q]
      /\ UNCHANGED <<stream, event, payments>>
  BY DEF IInv, TypeOK, FailedAttempt, Entry
<1>3. RunOK(r)'
  BY <1>2 DEF IInv, RunOK, Fn, OrderOf
<1> QED BY <1>1, <1>2, <1>3, QuietStep

(* A step that records the answer to an append which was not refused.      *)
LEMMA AppendStep ==
  ASSUME IInv, NEW r \in Runs, AppendFact(r), AppendAnswer(r) # "conflict",
         seen[r] = Before[Fn(r)], Len(stream[OrderOf(r)]) >= seen[r],
         pc[r] # "idle",
         pc' = [pc EXCEPT ![r] = "written"], result' \in [Runs -> SUBSET Message],
         UNCHANGED <<seen, event, tries, arrived, announced, logged, payments, faults>>
  PROVE  IInv'
<1>1. Fn(r) = "outcome" => payments[OrderOf(r)] = {event[r]}
  BY DEF IInv, RunOK
<1>2. /\ stream' \in [Orders -> Seq(Fact)]
      /\ Streams'
      /\ \A o \in Orders : /\ Len(stream[o]) \in Nat /\ Len(stream'[o]) \in Nat
                           /\ Len(stream[o]) <= Len(stream'[o])
      /\ Len(stream'[OrderOf(r)]) > Before[Fn(r)]
  BY <1>1, AppendKeepsStreams DEF IInv
<1>3. TypeOK'
  BY <1>2 DEF IInv, TypeOK, PCs
<1>4. Payments'
  <2> SUFFICES ASSUME NEW o \in Orders
               PROVE  /\ payments'[o] \in {{}, {"payment.captured"}, {"payment.declined"}}
                      /\ payments'[o] # {} => Len(stream'[o]) >= 3
    BY DEF Payments
  <2>1. payments'[o] = payments[o]
    OBVIOUS
  <2>2. payments[o] # {} => Len(stream[o]) >= 3
    BY DEF IInv, Payments
  <2>3. payments[o] \in {{}, {"payment.captured"}, {"payment.declined"}}
    BY DEF IInv, Payments
  <2> QED BY <1>2, <2>1, <2>2, <2>3
<1>5. \A q \in Runs : RunOK(q)'
  <2> TAKE q \in Runs
  <2>1. CASE q = r
    <3>1. pc'[r] = "written" /\ seen'[r] = seen[r] /\ event'[r] = event[r]
      BY DEF IInv, TypeOK
    <3>2. Fn(r) = "place" => seen'[r] = 0
      BY <3>1 DEF IInv, RunOK
    <3>3. Fn(r) = "outcome" => payments'[OrderOf(r)] = {event'[r]}
      BY <3>1, <1>1
    <3> QED BY <2>1, <3>1, <3>2, <3>3, <1>2 DEF RunOK, Fn, OrderOf
  <2>2. CASE q # r
    <3>1. pc'[q] = pc[q]
      BY <2>2 DEF IInv, TypeOK
    <3> QED BY <2>2, <3>1, <1>2, RunKept, RunParts DEF IInv
  <2> QED BY <2>1, <2>2
<1> QED BY <1>2, <1>3, <1>4, <1>5 DEF IInv

(* A decision is allowed at one length only, and "already" beyond it.      *)
LEMMA DecideByLength ==
  ASSUME NEW r \in Runs, Fn(r) \in {"approve", "process", "outcome"},
         stream[OrderOf(r)] \in Seq(Fact), GoodStream(stream[OrderOf(r)], OrderOf(r))
  PROVE  /\ Decide(r) = "ok" => Len(stream[OrderOf(r)]) = Before[Fn(r)]
         /\ Decide(r) = "already" => Len(stream[OrderOf(r)]) > Before[Fn(r)]
<1> DEFINE s == stream[OrderOf(r)]
           n == Len(s)
<1>1. OrderOf(r) \in Orders
  BY RunParts
<1>2. /\ n \in 0..4 /\ (s = <<>> <=> n = 0)
      /\ (Approved(s) <=> n >= 2) /\ (Released(s) <=> n >= 3) /\ (Terminal(s) <=> n = 4)
  BY <1>1, FoldByLength
<1>3. Fn(r) = "approve" => Decide(r) = DecideApprove(s) /\ Before[Fn(r)] = 1
  BY DEF Decide, Before, Fns
<1>4. Fn(r) = "process" => Decide(r) = DecideRelease(s) /\ Before[Fn(r)] = 2
  BY DEF Decide, Before, Fns
<1>5. Fn(r) = "outcome" => Decide(r) = DecidePaymentOutcome(s) /\ Before[Fn(r)] = 3
  BY DEF Decide, Before, Fns
<1> SUFFICES /\ Decide(r) = "ok" => n = Before[Fn(r)]
             /\ Decide(r) = "already" => n > Before[Fn(r)]
  OBVIOUS
<1> HIDE DEF n, s
<1>6. CASE Fn(r) = "approve"
  <2>1. DecideApprove(s) = "ok" => n = 1
    BY <1>2 DEF DecideApprove
  <2>2. DecideApprove(s) = "already" => n > 1
    BY <1>2 DEF DecideApprove
  <2> QED BY <1>3, <1>6, <2>1, <2>2
<1>7. CASE Fn(r) = "process"
  <2>1. DecideRelease(s) = "ok" => n = 2
    BY <1>2 DEF DecideRelease
  <2>2. DecideRelease(s) = "already" => n > 2
    BY <1>2 DEF DecideRelease
  <2> QED BY <1>4, <1>7, <2>1, <2>2
<1>8. CASE Fn(r) = "outcome"
  <2>1. DecidePaymentOutcome(s) = "ok" => n = 3
    BY <1>2 DEF DecidePaymentOutcome
  <2>2. DecidePaymentOutcome(s) = "already" => n > 3
    BY <1>2 DEF DecidePaymentOutcome
  <2> QED BY <1>5, <1>8, <2>1, <2>2
<1> QED BY <1>6, <1>7, <1>8

-----------------------------------------------------------------------------
LEMMA InitIInv == Init => IInv
<1> SUFFICES ASSUME Init PROVE IInv
  OBVIOUS
<1>1. TypeOK
  BY EmptySeq DEF Init, TypeOK, PCs
<1>2. Streams /\ Payments
  BY EmptySeq DEF Init, Streams, GoodStream, Payments
<1>3. \A r \in Runs : RunOK(r)
  BY DEF Init, RunOK
<1> QED BY <1>1, <1>2, <1>3 DEF IInv

LEMMA RunStepIInv ==
  ASSUME IInv, NEW r \in Runs,
         StartCommand(r) \/ Advance(r) \/ TransportError(r)
  PROVE  IInv'
<1> USE DEF IInv
<1> DEFINE s == stream[OrderOf(r)]
<1>0. /\ RunOK(r) /\ Fn(r) \in Fns /\ OrderOf(r) \in Orders
      /\ s \in Seq(Fact) /\ GoodStream(s, OrderOf(r)) /\ Len(s) \in Nat
  BY RunParts, LenProperties DEF TypeOK, Streams
<1>1. CASE StartCommand(r)
  <2>1. TypeOK'
    BY <1>1 DEF StartCommand, TypeOK, PCs
  <2>2. RunOK(r)'
    BY <1>0, <1>1 DEF StartCommand, TypeOK, RunOK, Fn, OrderOf
  <2> QED BY <1>1, <2>1, <2>2, QuietStep DEF StartCommand, TypeOK
<1>2. CASE StartProcess(r)
  <2>1. TypeOK'
    BY <1>2 DEF StartProcess, TypeOK, PCs
  <2>2. RunOK(r)'
    BY <1>0, <1>2 DEF StartProcess, TypeOK, RunOK, Fn, OrderOf
  <2> QED BY <1>2, <2>1, <2>2, QuietStep DEF StartProcess, TypeOK
<1>3. CASE StartOutcome(r)
  <2>1. PICK n \in payments[OrderOf(r)] :
          event' = [event EXCEPT ![r] = n] /\ pc' = [pc EXCEPT ![r] = "ready"]
    BY <1>3 DEF StartOutcome, Triggers
  <2>2. n \in PaymentNames /\ payments[OrderOf(r)] = {n}
    BY <1>0 DEF TypeOK, Payments, PaymentNames
  <2>3. TypeOK'
    BY <1>3, <2>1, <2>2 DEF StartOutcome, TypeOK, PCs
  <2>4. RunOK(r)'
    BY <1>0, <1>3, <2>1, <2>2 DEF StartOutcome, TypeOK, RunOK, Fn, OrderOf
  <2> QED BY <1>3, <2>1, <2>3, <2>4, QuietStep DEF StartOutcome, TypeOK
<1>4. CASE RejectPlace(r)
  BY <1>4, FailedAttemptStep DEF RejectPlace, TypeOK
<1>5. CASE PlaceStep(r)
  <2>1. seen[r] = Before[Fn(r)] /\ Len(s) >= seen[r] /\ pc[r] # "idle"
    BY <1>0, <1>5 DEF PlaceStep, RunOK, Before
  <2>2. AppendAnswer(r) # "conflict"
    BY <1>5, <2>1, AnswerByLength DEF PlaceStep, IsTarget
  <2>3. result' \in [Runs -> SUBSET Message]
    BY <1>0, <1>5 DEF PlaceStep, TypeOK, Message, Statuses
  <2> QED BY <1>5, <2>1, <2>2, <2>3, AppendStep DEF PlaceStep
<1>6. CASE ReadAndDecide(r)
  <2>0. /\ Fn(r) \in {"approve", "process", "outcome"} /\ pc[r] # "idle"
        /\ pc[r] \notin {"written", "recorded", "announced", "done"}
    BY <1>0, <1>6 DEF ReadAndDecide, Fns, Entry
  <2>1. CASE Decide(r) = "error"
    BY <1>6, <2>0, <2>1, FailedAttemptStep DEF ReadAndDecide, TypeOK
  <2>2. CASE Decide(r) = "ok"
    <3>1. Len(s) = Before[Fn(r)]
      BY <1>0, <2>0, <2>2, DecideByLength
    <3>2. /\ seen' = [seen EXCEPT ![r] = Len(s)] /\ pc' = [pc EXCEPT ![r] = "decided"]
          /\ UNCHANGED <<stream, event, result, tries, arrived, announced, logged,
                         payments, faults>>
      BY <1>6, <2>2 DEF ReadAndDecide
    <3>3. TypeOK'
      BY <1>0, <3>2 DEF TypeOK, PCs
    <3>4. RunOK(r)'
      BY <1>0, <2>0, <3>1, <3>2 DEF TypeOK, RunOK, Fn, OrderOf
    <3> QED BY <3>2, <3>3, <3>4, QuietStep DEF TypeOK
  <2>3. CASE Decide(r) = "already"
    <3>1. Len(s) > Before[Fn(r)]
      BY <1>0, <2>0, <2>3, DecideByLength
    <3>2. /\ pc' = [pc EXCEPT ![r] = "written"]
          /\ UNCHANGED <<stream, seen, event, result, tries, arrived, announced, logged,
                         payments, faults>>
      BY <1>6, <2>3 DEF ReadAndDecide
    <3>3. TypeOK'
      BY <3>2 DEF TypeOK, PCs
    <3>4. RunOK(r)'
      BY <1>0, <2>0, <3>1, <3>2 DEF TypeOK, RunOK, Fn, OrderOf
    <3> QED BY <3>2, <3>3, <3>4, QuietStep DEF TypeOK
  <2> QED BY <1>6, <2>1, <2>2, <2>3 DEF ReadAndDecide
<1>7. CASE AppendDecided(r)
  <2>1. seen[r] = Before[Fn(r)] /\ Len(s) >= seen[r] /\ Fn(r) # "place"
    BY <1>0, <1>7 DEF AppendDecided, RunOK
  <2>2. StepResult(r) \in SUBSET Message
    <3>1. CASE Fn(r) = "approve"
      BY <3>1 DEF StepResult
    <3>2. CASE Fn(r) # "approve"
      <4>1. seen[r] \in 1..Len(s)
        BY <1>0, <2>1, <3>2 DEF Before, Fns
      <4> DEFINE t == SubSeq(s, 1, seen[r])
      <4>2. t \in Seq(Fact) /\ Len(t) = seen[r] /\ \A i \in 1..seen[r] : t[i] = s[i]
        BY <1>0, <4>1, SubSeqProperties
      <4>3. GoodStream(t, OrderOf(r))
        BY <1>0, <4>1, <4>2 DEF GoodStream
      <4>4. Customer(t) \in Runs
        <5>1. Len(t) >= 1
          BY <1>0, <4>1, <4>2
        <5> HIDE DEF t
        <5> QED BY <1>0, <4>2, <4>3, <5>1, CustomerOfHistory
      <4>5. StatusOf[FactOf(r)] \in Statuses
        BY <1>0, <2>1, <3>2 DEF StatusOf, FactOf, Fns, FactNames, OutcomeFact, Statuses
      <4> QED BY <1>0, <3>2, <4>4, <4>5 DEF StepResult, Message
    <3> QED BY <3>1, <3>2
  <2>3. result' \in [Runs -> SUBSET Message]
    BY <1>7, <2>2 DEF AppendDecided, TypeOK
  <2> QED BY <1>7, <2>1, <2>3, AppendStep DEF AppendDecided
<1>8. CASE ConflictDecided(r)
  BY <1>8, FailedAttemptStep DEF ConflictDecided, TypeOK
<1>9. CASE EnterWait(r)
  <2>1. TypeOK'
    BY <1>9 DEF EnterWait, TypeOK, PCs
  <2>2. RunOK(r)'
    BY <1>0, <1>9 DEF EnterWait, TypeOK, RunOK, Fn, OrderOf
  <2> QED BY <1>9, <2>1, <2>2, QuietStep DEF EnterWait, TypeOK
<1>10. CASE WaitTimeout(r)
  <2>1. TypeOK'
    BY <1>10 DEF WaitTimeout, TypeOK, PCs
  <2>2. RunOK(r)'
    BY <1>0, <1>10 DEF WaitTimeout, TypeOK, RunOK, Fn, OrderOf
  <2> QED BY <1>10, <2>1, <2>2, QuietStep DEF WaitTimeout, TypeOK
<1>11. CASE Checkpoint(r)
  <2>1. TypeOK'
    BY <1>11 DEF Checkpoint, TypeOK, PCs
  <2>2. RunOK(r)'
    BY <1>0, <1>11 DEF Checkpoint, TypeOK, RunOK, Fn, OrderOf
  <2> QED BY <1>11, <2>1, <2>2, QuietStep DEF Checkpoint, TypeOK
<1>12. CASE Announce(r)
  <2>1. TypeOK'
    BY <1>12 DEF Announce, TypeOK, PCs
  <2>2. RunOK(r)'
    BY <1>0, <1>12 DEF Announce, TypeOK, RunOK, Fn, OrderOf
  <2> QED BY <1>12, <2>1, <2>2, QuietStep DEF Announce, TypeOK
<1>13. CASE Complete(r)
  <2>1. TypeOK'
    BY <1>13 DEF Complete, TypeOK, PCs
  <2>2. RunOK(r)'
    BY <1>0, <1>13 DEF Complete, TypeOK, RunOK, Fn, OrderOf
  <2> QED BY <1>13, <2>1, <2>2, QuietStep DEF Complete, TypeOK
<1>14. CASE TransportError(r)
  <2>1. faults' \in Nat /\ pc[r] # "idle"
    BY <1>14 DEF TransportError, TypeOK, Entry
  <2> QED BY <1>14, <2>1, FailedAttemptStep DEF TransportError
<1> QED BY <1>1, <1>2, <1>3, <1>4, <1>5, <1>6, <1>7, <1>8, <1>9, <1>10, <1>11, <1>12,
           <1>13, <1>14 DEF Advance

LEMMA NextIInv == IInv /\ [Next]_vars => IInv'
<1> SUFFICES ASSUME IInv, [Next]_vars PROVE IInv'
  OBVIOUS
<1>0. \A o \in Orders : Len(stream[o]) \in Nat
  BY LenProperties DEF IInv, TypeOK
<1>1. CASE \E r \in Runs : StartCommand(r) \/ Advance(r) \/ TransportError(r)
  BY <1>1, RunStepIInv
<1>2. ASSUME NEW o \in Orders, ApprovedArrives(o) PROVE IInv'
  <2>1. TypeOK'
    BY <1>2 DEF ApprovedArrives, IInv, TypeOK, PCs
  <2>2. Streams' /\ Payments'
    BY <1>2 DEF ApprovedArrives, IInv, Streams, GoodStream, GoodFact, Payments
  <2>3. \A q \in Runs : RunOK(q)'
    <3> TAKE q \in Runs
    <3>1. pc'[q] = pc[q] \/ (pc[q] = "parked" /\ pc'[q] = "woken")
      BY <1>2 DEF ApprovedArrives
    <3>2. RunOK(q) /\ UNCHANGED <<stream, seen, event, payments>>
      BY <1>2 DEF ApprovedArrives, IInv
    <3> QED BY <3>1, <3>2 DEF RunOK, Fn, OrderOf
  <2> QED BY <2>1, <2>2, <2>3 DEF IInv
<1>3. CASE Crash
  <2> DEFINE Interrupted == {r \in Runs : pc[r] \in {"decided", "written"}}
  <2>1. TypeOK'
    BY <1>3 DEF Crash, IInv, TypeOK, PCs, Entry
  <2>2. Streams' /\ Payments'
    BY <1>3 DEF Crash, IInv, Streams, GoodStream, GoodFact, Payments
  <2>3. \A q \in Runs : RunOK(q)'
    <3> TAKE q \in Runs
    <3>1. RunOK(q) /\ UNCHANGED <<stream, event, payments>>
      BY <1>3 DEF Crash, IInv
    <3>2. CASE q \in Interrupted
      <4>1. pc[q] # "idle" /\ pc'[q] \in {"ready", "woken"} /\ seen'[q] = 0
        BY <1>3, <3>2 DEF Crash, Entry
      <4> QED BY <3>1, <4>1 DEF RunOK, Fn, OrderOf
    <3>3. CASE q \notin Interrupted
      <4>1. /\ seen'[q] = seen[q]
            /\ pc'[q] = pc[q] \/ (pc[q] = "announced" /\ pc'[q] = "recorded")
        BY <1>3, <3>3 DEF Crash
      <4> QED BY <3>1, <4>1 DEF RunOK, Fn, OrderOf
    <3> QED BY <3>2, <3>3
  <2> QED BY <2>1, <2>2, <2>3 DEF IInv
<1>4. ASSUME NEW o \in Orders, NEW n \in PaymentNames, PaymentFact(o, n) PROVE IInv'
  <2>1. TypeOK'
    BY <1>4 DEF PaymentFact, IInv, TypeOK
  <2>2. /\ payments[o] = {} /\ payments'[o] = {n}
        /\ \A p \in Orders : p # o => payments'[p] = payments[p]
        /\ UNCHANGED <<stream, pc, seen, event>>
    BY <1>4 DEF PaymentFact, IInv, TypeOK
  <2>3. Streams'
    <3>1. \A p \in Orders : payments[p] # {} => payments'[p] = payments[p]
      BY <2>2
    <3>2. \A p \in Orders : \A i \in 1..Len(stream[p]) :
             GoodFact(stream[p][i], i, p) => GoodFact(stream[p][i], i, p)'
      BY <2>2, <3>1 DEF GoodFact
    <3> QED BY <2>2, <3>2 DEF IInv, Streams, GoodStream
  <2>4. Payments'
    <3>1. Len(stream[o]) >= 3
      <4>1. GoodStream(stream[o], o) /\ stream[o] \in Seq(Fact)
        BY DEF IInv, Streams, TypeOK
      <4> QED BY <1>4, <4>1, FoldByLength DEF PaymentFact, Released
    <3> QED BY <2>2, <3>1 DEF IInv, Payments, PaymentNames
  <2>5. \A q \in Runs : RunOK(q)'
    <3> TAKE q \in Runs
    <3>1. RunOK(q) /\ OrderOf(q) \in Orders
      BY RunParts DEF IInv
    <3>2. payments[OrderOf(q)] # {} => payments'[OrderOf(q)] = payments[OrderOf(q)]
      BY <2>2, <3>1
    <3> QED BY <2>2, <3>1, <3>2 DEF RunOK, Fn, OrderOf
  <2> QED BY <2>1, <2>3, <2>4, <2>5 DEF IInv
<1>5. CASE UNCHANGED vars
  <2>1. TypeOK' /\ Payments'
    BY <1>5 DEF vars, IInv, TypeOK, Payments
  <2>3. Streams'
    BY <1>5 DEF vars, IInv, Streams, GoodStream, GoodFact
  <2>2. \A q \in Runs : RunOK(q)'
    BY <1>5 DEF vars, IInv, RunOK, Fn, OrderOf
  <2> QED BY <2>1, <2>2, <2>3 DEF IInv
<1> QED BY <1>1, <1>2, <1>3, <1>4, <1>5 DEF Next, System

(* The strengthening all the safety theorems rest on: besides the types,   *)
(* each stream is a legal history with the right key at each position, and *)
(* each run knows at least the version its function appends at.            *)
THEOREM Invariance == Spec => []IInv
<1>1. Init => IInv
  BY InitIInv
<1>2. IInv /\ [Next]_vars => IInv'
  BY NextIInv
<1> QED BY <1>1, <1>2, PTL DEF Spec

-----------------------------------------------------------------------------
(* Type correctness, for any orders, runs, deliveries and bounds.          *)
THEOREM TypeCorrect == Spec => []TypeOK
<1>1. IInv => TypeOK
  BY DEF IInv
<1> QED BY <1>1, Invariance, PTL

(* However often commands and facts are delivered, and wherever the worker *)
(* dies, an order stream is a prefix of placed, approved, released, closed. *)
THEOREM HistoriesAreLegal == Spec => []LegalHistory
<1>1. IInv => LegalHistory
  <2> SUFFICES ASSUME IInv, NEW o \in Orders
               PROVE  /\ Len(stream[o]) <= 4
                      /\ \A i \in DOMAIN stream[o] : stream[o][i].name \in Lifecycle[i]
    BY DEF LegalHistory
  <2>1. DOMAIN stream[o] = 1..Len(stream[o])
    BY LenProperties DEF IInv, TypeOK
  <2>2. GoodStream(stream[o], o)
    BY DEF IInv, Streams
  <2> QED BY <2>1, <2>2 DEF GoodStream, GoodFact
<1> QED BY <1>1, Invariance, PTL

(* order.paid only after payment.captured, order.payment_failed only after *)
(* payment.declined.                                                       *)
THEOREM OutcomesFollowPayments == Spec => []OutcomeFollowsPayment
<1>1. IInv => OutcomeFollowsPayment
  <2> SUFFICES ASSUME IInv, NEW o \in Orders, NEW i \in DOMAIN stream[o]
               PROVE  /\ stream[o][i].name = "order.paid"
                           => "payment.captured" \in payments[o]
                      /\ stream[o][i].name = "order.payment_failed"
                           => "payment.declined" \in payments[o]
    BY DEF OutcomeFollowsPayment, Has
  <2>1. DOMAIN stream[o] = 1..Len(stream[o])
    BY LenProperties DEF IInv, TypeOK
  <2>2. GoodStream(stream[o], o)
    BY DEF IInv, Streams
  <2> QED BY <2>1, <2>2 DEF GoodStream, GoodFact
<1> QED BY <1>1, Invariance, PTL

(* No run but a load probe's ever loses the expected-version check, so the *)
(* conflicts that would fail a release or an outcome for good never arise. *)
THEOREM NoOtherConflict == Spec => []OnlyProbesConflict
<1>1. IInv => OnlyProbesConflict
  <2> SUFFICES ASSUME IInv, NEW r \in Runs,
                      pc[r] = "decided" \/ (Fn(r) = "place" /\ pc[r] = "ready"),
                      AppendAnswer(r) = "conflict"
               PROVE  IsTarget(r)
    BY DEF OnlyProbesConflict
  <2>1. RunOK(r) /\ OrderOf(r) \in Orders /\ Len(stream[OrderOf(r)]) \in Nat
    BY RunParts, LenProperties DEF IInv, TypeOK
  <2>2. seen[r] = Before[Fn(r)] /\ Len(stream[OrderOf(r)]) >= seen[r]
    BY <2>1 DEF RunOK, Before, Fns
  <2> QED BY <2>2, AnswerByLength DEF IInv
<1> QED BY <1>1, Invariance, PTL

(* A run that succeeded has its fact, or a closed order, on the stream.    *)
THEOREM SuccessesAreRecorded == Spec => []SuccessIsRecorded
<1>1. IInv => SuccessIsRecorded
  <2> SUFFICES ASSUME IInv, NEW r \in Runs, pc[r] \in {"recorded", "announced", "done"}
               PROVE  LET s == stream[OrderOf(r)] IN
                      IF Fn(r) = "outcome" THEN Terminal(s) ELSE Has(s, FactOf(r))
    BY DEF SuccessIsRecorded
  <2> DEFINE s == stream[OrderOf(r)]
  <2>0. OrderOf(r) \in Orders /\ Fn(r) \in Fns
    BY RunParts
  <2>1. /\ OrderOf(r) \in Orders /\ Fn(r) \in Fns
        /\ s \in Seq(Fact) /\ GoodStream(s, OrderOf(r))
        /\ Len(s) > Before[Fn(r)]
    <3>1. s \in Seq(Fact) /\ GoodStream(s, OrderOf(r))
      BY <2>0 DEF IInv, TypeOK, Streams
    <3>2. Len(s) > Before[Fn(r)]
      BY DEF IInv, RunOK
    <3> QED BY <2>0, <3>1, <3>2
  <2> HIDE DEF s
  <2>2. /\ Len(s) \in 0..4
        /\ Has(s, "order.placed") <=> Len(s) >= 1
        /\ Has(s, "order.approved") <=> Len(s) >= 2
        /\ Has(s, "order.released") <=> Len(s) >= 3
        /\ Terminal(s) <=> Len(s) = 4
    BY <2>1, FoldByLength DEF Approved, Released
  <2>3. IF Fn(r) = "outcome" THEN Terminal(s) ELSE Has(s, FactOf(r))
    <3>1. CASE Fn(r) = "place"
      BY <2>1, <2>2, <3>1 DEF Before, FactOf, Fns
    <3>2. CASE Fn(r) = "approve"
      BY <2>1, <2>2, <3>2 DEF Before, FactOf, Fns
    <3>3. CASE Fn(r) = "process"
      BY <2>1, <2>2, <3>3 DEF Before, FactOf, Fns
    <3>4. CASE Fn(r) = "outcome"
      <4>1. Len(s) = 4
        <5>1. Before[Fn(r)] = 3
          BY <3>4 DEF Before, Fns
        <5>2. Len(s) \in 0..4
          BY <2>2
        <5>3. Len(s) > 3
          BY <2>1, <5>1
        <5>4. ASSUME NEW n \in 0..4, n > 3 PROVE n = 4
          BY <5>4
        <5> QED BY <5>2, <5>3, <5>4
      <4> QED BY <4>1, <2>2, <3>4
    <3> QED BY <2>1, <3>1, <3>2, <3>3, <3>4 DEF Fns
  <2> QED BY <2>3 DEF s
<1> QED BY <1>1, Invariance, PTL

-----------------------------------------------------------------------------
(* Refinement: the length of a stream determines the phase of its order.   *)
LEMMA PhaseByLength ==
  ASSUME NEW o \in Orders, NEW s \in Seq(Fact), GoodStream(s, o)
  PROVE  /\ Len(s) = 0 => PhaseOf(s) = "none"
         /\ Len(s) = 1 => PhaseOf(s) = "pending_approval"
         /\ Len(s) = 2 => PhaseOf(s) = "approved"
         /\ Len(s) = 3 => PhaseOf(s) = "processing_payment"
         /\ Len(s) = 4 => PhaseOf(s) = StatusOf[s[4].name]
         /\ Len(s) \in 0..4
<1>1. /\ Len(s) \in 0..4
      /\ Approved(s) <=> Len(s) >= 2
      /\ Status(s) = CASE Len(s) = 0 -> "none"
                       [] Len(s) \in {1, 2} -> "pending_approval"
                       [] Len(s) = 3 -> "processing_payment"
                       [] Len(s) = 4 -> StatusOf[s[4].name]
  BY FoldByLength
<1>2. Len(s) = 4 => StatusOf[s[4].name] # "pending_approval"
  <2> SUFFICES ASSUME Len(s) = 4 PROVE StatusOf[s[4].name] # "pending_approval"
    OBVIOUS
  <2>1. s[4].name \in {"order.paid", "order.payment_failed"}
    BY DEF GoodStream, GoodFact, Lifecycle
  <2> QED BY <2>1 DEF StatusOf, FactNames
<1>3. CASE Len(s) = 0
  BY <1>3, <1>1 DEF PhaseOf
<1>4. CASE Len(s) = 1
  BY <1>4, <1>1 DEF PhaseOf
<1>5. CASE Len(s) = 2
  BY <1>5, <1>1 DEF PhaseOf
<1>6. CASE Len(s) = 3
  BY <1>6, <1>1 DEF PhaseOf
<1>7. CASE Len(s) = 4
  BY <1>7, <1>1, <1>2 DEF PhaseOf
<1> QED BY <1>1, <1>3, <1>4, <1>5, <1>6, <1>7

(* An accepted append is the life cycle's next move.                       *)
LEMMA AppendMovesPhase ==
  ASSUME IInv, NEW r \in Runs, AppendFact(r), AppendAnswer(r) # "conflict",
         seen[r] = Before[Fn(r)], Len(stream[OrderOf(r)]) >= seen[r],
         Fn(r) = "outcome" => payments[OrderOf(r)] = {event[r]},
         UNCHANGED payments
  PROVE  [Lifecycles!Next]_<<Phase, payments>>
<1> DEFINE p == OrderOf(r)
<1>1. p \in Orders /\ Fn(r) \in Fns
  BY RunParts
<1>2. CASE AppendAnswer(r) = "original"
  <2>1. stream' = stream
    BY <1>2 DEF AppendFact
  <2> QED BY <2>1 DEF Phase, Status, Approved, Has, StatusFacts
<1>3. CASE AppendAnswer(r) = "appended"
  <2> DEFINE f == [name |-> FactOf(r), key |-> IdempotencyKey(r), by |-> r]
  <2>1. Len(stream[p]) = Before[Fn(r)]
    BY <1>3, AnswerByLength DEF IInv
  <2>2. stream' = [stream EXCEPT ![p] = Append(stream[p], f)]
    BY <1>3 DEF AppendFact
  <2>3. stream' \in [Orders -> Seq(Fact)] /\ Streams'
    BY AppendKeepsStreams DEF IInv
  <2>4. stream'[p] = Append(stream[p], f) /\ \A o \in Orders : o # p => stream'[o] = stream[o]
    BY <1>1, <2>2 DEF IInv, TypeOK
  <2>5. Phase' = [Phase EXCEPT ![p] = Phase'[p]]
    BY <1>1, <2>4 DEF Phase
  <2>6. Len(stream'[p]) = Before[Fn(r)] + 1 /\ stream'[p][Before[Fn(r)] + 1] = f
    <3>1. event[r] \in PaymentNames \cup {"none"} /\ IdempotencyKey(r) \in Keys
      BY RunParts DEF IInv, TypeOK
    <3>2. f \in Fact
      BY <1>1, <3>1 DEF Fact, FactOf, Fns, FactNames, OutcomeFact
    <3>3. stream[p] \in Seq(Fact)
      BY <1>1 DEF IInv, TypeOK
    <3> QED BY <2>1, <2>4, <3>2, <3>3, AppendProperties
  <2>7. /\ stream[p] \in Seq(Fact) /\ GoodStream(stream[p], p)
        /\ stream'[p] \in Seq(Fact) /\ GoodStream(stream'[p], p)
    <3>1. GoodStream(stream[p], p) /\ stream[p] \in Seq(Fact)
      BY <1>1 DEF IInv, TypeOK, Streams
    <3>2. GoodStream(stream'[p], p)
      BY <1>1, <2>3 DEF Streams, GoodStream, GoodFact
    <3> QED BY <1>1, <2>3, <3>1, <3>2
  <2>8. Phase[p] = PhaseOf(stream[p]) /\ Phase'[p] = PhaseOf(stream'[p])
    BY <1>1 DEF Phase
  <2>9. CASE Fn(r) = "place"
    <3>1. Len(stream[p]) = 0 /\ Len(stream'[p]) = 1
      BY <2>1, <2>6, <2>9 DEF Before, Fns
    <3>2. Phase[p] = "none" /\ Phase'[p] = "pending_approval"
      BY <1>1, <2>7, <2>8, <3>1, PhaseByLength
    <3>3. Lifecycles!Place(p)
      BY <2>5, <3>2 DEF Lifecycles!Place, Lifecycles!Move
    <3> QED BY <1>1, <3>3 DEF Lifecycles!Next
  <2>10. CASE Fn(r) = "approve"
    <3>1. Len(stream[p]) = 1 /\ Len(stream'[p]) = 2
      BY <2>1, <2>6, <2>10 DEF Before, Fns
    <3>2. Phase[p] = "pending_approval" /\ Phase'[p] = "approved"
      BY <1>1, <2>7, <2>8, <3>1, PhaseByLength
    <3>3. Lifecycles!Approve(p)
      BY <2>5, <3>2 DEF Lifecycles!Approve, Lifecycles!Move
    <3> QED BY <1>1, <3>3 DEF Lifecycles!Next
  <2>11. CASE Fn(r) = "process"
    <3>1. Len(stream[p]) = 2 /\ Len(stream'[p]) = 3
      BY <2>1, <2>6, <2>11 DEF Before, Fns
    <3>2. Phase[p] = "approved" /\ Phase'[p] = "processing_payment"
      BY <1>1, <2>7, <2>8, <3>1, PhaseByLength
    <3>3. Lifecycles!Release(p)
      BY <2>5, <3>2 DEF Lifecycles!Release, Lifecycles!Move
    <3> QED BY <1>1, <3>3 DEF Lifecycles!Next
  <2>12. CASE Fn(r) = "outcome"
    <3>1. Len(stream[p]) = 3 /\ Len(stream'[p]) = 4 /\ stream'[p][4].name = FactOf(r)
      BY <2>1, <2>6, <2>12 DEF Before, Fns
    <3>2. Phase[p] = "processing_payment" /\ Phase'[p] = StatusOf[FactOf(r)]
      BY <1>1, <2>7, <2>8, <3>1, PhaseByLength
    <3>3. payments[p] = {event[r]} /\ event[r] \in PaymentNames
      BY <1>1, <2>12 DEF IInv, TypeOK
    <3>4. Lifecycles!Close(p)
      <4>1. CASE event[r] = "payment.captured"
        <5>1. Phase'[p] = "paid"
          BY <2>12, <3>2, <4>1 DEF FactOf, OutcomeFact, StatusOf, FactNames
        <5> QED BY <2>5, <3>2, <3>3, <4>1, <5>1 DEF Lifecycles!Close, Lifecycles!Move
      <4>2. CASE event[r] = "payment.declined"
        <5>1. Phase'[p] = "payment_failed"
          BY <2>12, <3>2, <4>2 DEF FactOf, OutcomeFact, StatusOf, FactNames
        <5> QED BY <2>5, <3>2, <3>3, <4>2, <5>1 DEF Lifecycles!Close, Lifecycles!Move
      <4> QED BY <3>3, <4>1, <4>2 DEF PaymentNames
    <3> QED BY <1>1, <3>4 DEF Lifecycles!Next
  <2> QED BY <1>1, <2>9, <2>10, <2>11, <2>12 DEF Fns
<1> QED BY <1>2, <1>3, AnswerByLength DEF IInv

LEMMA StepRefines ==
  IInv /\ [Next]_vars => [Lifecycles!Next]_<<Phase, payments>>
<1> SUFFICES ASSUME IInv, [Next]_vars PROVE [Lifecycles!Next]_<<Phase, payments>>
  OBVIOUS
<1>1. ASSUME UNCHANGED <<stream, payments>> PROVE [Lifecycles!Next]_<<Phase, payments>>
  BY <1>1 DEF Phase
<1>2. ASSUME NEW r \in Runs, PlaceStep(r) PROVE [Lifecycles!Next]_<<Phase, payments>>
  <2>1. /\ seen[r] = Before[Fn(r)] /\ Len(stream[OrderOf(r)]) >= seen[r]
        /\ Fn(r) # "outcome" /\ UNCHANGED payments /\ AppendFact(r)
    <3>1. Len(stream[OrderOf(r)]) \in Nat
      BY RunParts, LenProperties DEF IInv, TypeOK
    <3>2. Fn(r) = "place" /\ UNCHANGED payments /\ AppendFact(r)
      BY <1>2 DEF PlaceStep
    <3>3. seen[r] = 0 /\ Before[Fn(r)] = 0
      BY <3>2 DEF IInv, RunOK, Before, Fns
    <3> QED BY <3>1, <3>2, <3>3
  <2>2. AppendAnswer(r) # "conflict"
    BY <1>2, <2>1, AnswerByLength DEF PlaceStep, IsTarget, IInv
  <2> QED BY <2>1, <2>2, AppendMovesPhase
<1>3. ASSUME NEW r \in Runs, AppendDecided(r) PROVE [Lifecycles!Next]_<<Phase, payments>>
  BY <1>3, AppendMovesPhase DEF AppendDecided, IInv, RunOK
<1>4. ASSUME NEW o \in Orders, NEW n \in PaymentNames, PaymentFact(o, n)
      PROVE [Lifecycles!Next]_<<Phase, payments>>
  <2>1. stream[o] \in Seq(Fact) /\ GoodStream(stream[o], o)
    BY DEF IInv, TypeOK, Streams
  <2>2. Len(stream[o]) >= 3 /\ payments[o] = {}
    BY <1>4, <2>1, FoldByLength DEF PaymentFact, Released
  <2>3. Len(stream[o]) # 4
    <3> SUFFICES ASSUME Len(stream[o]) = 4 PROVE FALSE
      OBVIOUS
    <3>1. GoodFact(stream[o][4], 4, o)
      BY <2>1 DEF GoodStream
    <3>2. payments[o] # {}
      BY <3>1 DEF GoodFact, Lifecycle
    <3> QED BY <2>2, <3>2
  <2>4. Phase[o] = "processing_payment"
    <3>1. Len(stream[o]) \in 0..4
      BY <2>1, PhaseByLength
    <3>2. ASSUME NEW m \in 0..4, m >= 3, m # 4 PROVE m = 3
      BY <3>2
    <3>3. Len(stream[o]) = 3
      BY <2>2, <2>3, <3>1, <3>2
    <3> QED BY <2>1, <3>3, PhaseByLength DEF Phase
  <2>5. UNCHANGED Phase
    BY <1>4 DEF PaymentFact, Phase
  <2>6. Lifecycles!Settle(o, n)
    BY <1>4, <2>2, <2>4, <2>5 DEF PaymentFact, Lifecycles!Settle
  <2> QED BY <2>6 DEF Lifecycles!Next, PaymentNames
<1>5. ASSUME NEW r \in Runs, Advance(r) PROVE [Lifecycles!Next]_<<Phase, payments>>
  BY <1>1, <1>2, <1>3, <1>5
  DEF Advance, StartProcess, StartOutcome, RejectPlace, ReadAndDecide, ConflictDecided,
      FailedAttempt, EnterWait, WaitTimeout, Checkpoint, Announce, Complete
<1>6. ASSUME System PROVE [Lifecycles!Next]_<<Phase, payments>>
  BY <1>1, <1>5, <1>6
  DEF System, StartCommand, TransportError, FailedAttempt, ApprovedArrives, Crash
<1>7. CASE UNCHANGED vars
  BY <1>1, <1>7 DEF vars
<1> QED BY <1>4, <1>6, <1>7 DEF Next

(* The four functions implement the order's life cycle, for any number of  *)
(* orders, deliveries, retries and crashes.                                *)
THEOREM OrderingImplementsLifecycle == Spec => ImplementsLifecycle
<1>1. Init => Lifecycles!Init
  <2> SUFFICES ASSUME Init PROVE Lifecycles!Init
    OBVIOUS
  <2>1. \A o \in Orders : PhaseOf(stream[o]) = "none"
    BY DEF Init, PhaseOf, Status, StatusFacts
  <2> QED BY <2>1 DEF Init, Phase, Lifecycles!Init
<1>2. IInv /\ [Next]_vars => [Lifecycles!Next]_<<Phase, payments>>
  BY StepRefines
<1> QED BY <1>1, <1>2, Invariance, PTL DEF Spec, ImplementsLifecycle, Lifecycles!Spec

-----------------------------------------------------------------------------
(* Announcements: where on a stream the fact is that a status reports, and *)
(* what a message must agree with.                                         *)
StatusAt == [x \in Statuses |-> CASE x = "pending_approval" -> 1
                                  [] x = "processing_payment" -> 3
                                  [] OTHER -> 4]

Told(m) ==
  LET s == stream[m.order] IN
  /\ Len(s) >= StatusAt[m.status]
  /\ StatusOf[s[StatusAt[m.status]].name] = m.status
  /\ m.status # "pending_approval" => m.to = s[1].by

(* A result waits, recorded or not, while other runs append: what it says  *)
(* must stay true until it is published.                                   *)
ToldInv ==
  /\ \A m \in announced : Told(m)
  /\ \A r \in Runs : \A m \in result[r] : Told(m)

Grows(o) ==
  /\ Len(stream[o]) \in Nat /\ Len(stream'[o]) \in Nat
  /\ Len(stream[o]) <= Len(stream'[o])
  /\ \A i \in 1..Len(stream[o]) : stream'[o][i] = stream[o][i]

(* A run that appends knows enough for its append to be a legal one.       *)
LEMMA Appends ==
  ASSUME IInv, NEW r \in Runs, PlaceStep(r) \/ AppendDecided(r)
  PROVE  /\ AppendFact(r) /\ UNCHANGED payments
         /\ seen[r] = Before[Fn(r)] /\ Len(stream[OrderOf(r)]) >= seen[r]
         /\ AppendAnswer(r) # "conflict"
         /\ Fn(r) = "outcome" => payments[OrderOf(r)] = {event[r]}
<1>1. Len(stream[OrderOf(r)]) \in Nat
  BY RunParts, LenProperties DEF IInv, TypeOK
<1>2. CASE PlaceStep(r)
  <2>1. Fn(r) = "place" /\ UNCHANGED payments /\ AppendFact(r)
    BY <1>2 DEF PlaceStep
  <2>2. seen[r] = 0 /\ Before[Fn(r)] = 0
    BY <2>1 DEF IInv, RunOK, Before, Fns
  <2>3. AppendAnswer(r) # "conflict"
    BY <1>1, <2>1, <2>2, AnswerByLength DEF IInv, IsTarget
  <2> QED BY <1>1, <2>1, <2>2, <2>3
<1>3. CASE AppendDecided(r)
  BY <1>3 DEF AppendDecided, IInv, RunOK
<1> QED BY <1>2, <1>3

(* Streams are append-only.                                                *)
LEMMA StreamsGrow == IInv /\ [Next]_vars => \A o \in Orders : Grows(o)
<1> SUFFICES ASSUME IInv, [Next]_vars PROVE \A o \in Orders : Grows(o)
  OBVIOUS
<1>1. ASSUME UNCHANGED stream PROVE \A o \in Orders : Grows(o)
  BY <1>1, LenProperties DEF IInv, TypeOK, Grows
<1>2. ASSUME NEW r \in Runs, PlaceStep(r) \/ AppendDecided(r)
      PROVE  \A o \in Orders : Grows(o)
  BY <1>2, Appends, AppendKeepsStreams DEF IInv, Grows
<1>3. ASSUME NEW r \in Runs, Advance(r) PROVE \A o \in Orders : Grows(o)
  BY <1>1, <1>2, <1>3
  DEF Advance, StartProcess, StartOutcome, RejectPlace, ReadAndDecide, ConflictDecided,
      FailedAttempt, EnterWait, WaitTimeout, Checkpoint, Announce, Complete
<1>4. ASSUME Next PROVE \A o \in Orders : Grows(o)
  BY <1>1, <1>3, <1>4
  DEF Next, System, StartCommand, TransportError, FailedAttempt, ApprovedArrives, Crash,
      PaymentFact
<1> QED BY <1>1, <1>4 DEF vars

LEMMA ToldKept ==
  ASSUME NEW m \in Message, Told(m), Grows(m.order)
  PROVE  Told(m)'
<1>1. StatusAt[m.status] \in 1..4
  BY DEF Message, StatusAt, Statuses
<1>2. Len(stream[m.order]) >= StatusAt[m.status] /\ Len(stream[m.order]) >= 1
  BY <1>1 DEF Told, Grows
<1>3. StatusAt[m.status] \in 1..Len(stream[m.order]) /\ 1 \in 1..Len(stream[m.order])
  BY <1>1, <1>2 DEF Grows
<1> QED BY <1>1, <1>3 DEF Told, Grows

(* A message that a run derives from its append agrees with the stream,    *)
(* although the customer is taken from the read before it.                 *)
LEMMA ResultIsTold ==
  ASSUME IInv, IInv', NEW r \in Runs, PlaceStep(r) \/ AppendDecided(r), NEW m \in result'[r]
  PROVE  Told(m)'
<1> DEFINE o == OrderOf(r)
           s == stream[o]
           t == stream'[o]
           b == Before[Fn(r)]
<1>1. /\ AppendFact(r) /\ UNCHANGED payments
      /\ seen[r] = b /\ Len(s) >= seen[r]
      /\ AppendAnswer(r) # "conflict"
      /\ Fn(r) = "outcome" => payments[o] = {event[r]}
  BY Appends
<1>2. Grows(o) /\ Len(t) > b
  BY <1>1, AppendKeepsStreams, RunParts DEF IInv, Grows
<1>3. /\ o \in Orders /\ Fn(r) \in Fns
      /\ s \in Seq(Fact) /\ GoodStream(s, o)
      /\ t \in Seq(Fact) /\ GoodStream(stream[o], o)'
  BY RunParts DEF IInv, TypeOK, Streams
<1>4. ASSUME NEW i \in 1..Len(t)
      PROVE  /\ t[i].name \in Lifecycle[i]
             /\ t[i].name = "order.paid" => payments[o] = {"payment.captured"}
             /\ t[i].name = "order.payment_failed" => payments[o] = {"payment.declined"}
  BY <1>1, <1>3 DEF GoodStream, GoodFact
<1>5. Len(t) \in Nat /\ b \in 0..3
  BY <1>2, <1>3 DEF Grows, Before, Fns
<1>6. CASE PlaceStep(r)
  <2>1. Fn(r) = "place" /\ m.order = o /\ m.status = "pending_approval" /\ b = 0
    BY <1>1, <1>6 DEF PlaceStep, IInv, TypeOK, Before, Fns
  <2>2. Len(t) >= 1 /\ 1 \in 1..Len(t)
    BY <1>2, <1>5, <2>1
  <2>3. t[1].name = "order.placed"
    <3>1. t[1].name \in Lifecycle[1]
      BY <1>4, <2>2
    <3> QED BY <3>1 DEF Lifecycle
  <2>4. StatusAt[m.status] = 1 /\ StatusOf[t[1].name] = m.status
    BY <2>1, <2>3 DEF StatusAt, Statuses, StatusOf, FactNames
  <2> QED BY <2>1, <2>2, <2>4 DEF Told
<1>7. CASE AppendDecided(r)
  <2>1. result'[r] = StepResult(r) /\ Fn(r) # "place"
    BY <1>7 DEF AppendDecided, IInv, TypeOK, RunOK
  <2>2. /\ Fn(r) \in {"process", "outcome"} /\ m.order = o /\ m.status = StatusOf[FactOf(r)]
        /\ m.to = Customer(SubSeq(s, 1, seen[r]))
    BY <1>3, <2>1 DEF StepResult, Fns
  <2>3. b \in {2, 3} /\ seen[r] = b
    BY <1>1, <2>2 DEF Before, Fns
  <2>4. m.to = s[1].by
    <3> DEFINE u == SubSeq(s, 1, seen[r])
    <3>1. \A i \in 1..b : i \in 1..Len(s)
      BY <1>1, <1>2, <2>3 DEF Grows
    <3>2. \A i \in 1..b : s[i] \in Fact
      BY <1>3, <3>1, ElementOfSeq
    <3>3. u \in Seq(Fact) /\ Len(u) = b /\ \A i \in 1..b : u[i] = s[i]
      BY <2>3, <3>2, SubSeqProperties
    <3> HIDE DEF u
    <3>4. GoodStream(u, o)
      <4>1. \A i \in 1..b : GoodFact(s[i], i, o)
        BY <1>3, <3>1 DEF GoodStream
      <4> QED BY <2>3, <3>3, <4>1 DEF GoodStream
    <3>5. Customer(u) = u[1].by /\ u[1] = s[1]
      BY <1>3, <2>3, <3>3, <3>4, CustomerOfHistory
    <3> QED BY <2>2, <3>5 DEF u
  <2>5. t[1] = s[1]
    <3>1. 1 \in 1..Len(s)
      BY <1>1, <1>2, <2>3 DEF Grows
    <3> QED BY <1>2, <3>1 DEF Grows
  <2>6. b + 1 \in 1..Len(t)
    BY <1>2, <1>5, <2>3
  <2>7. CASE Fn(r) = "process"
    <3>1. b = 2 /\ FactOf(r) = "order.released" /\ m.status = "processing_payment"
      BY <2>2, <2>7 DEF Before, Fns, FactOf, StatusOf, FactNames
    <3>2. t[3].name = "order.released" /\ Len(t) >= 3
      <4>1. 3 \in 1..Len(t)
        BY <2>6, <3>1
      <4>2. t[3].name \in Lifecycle[3]
        BY <1>4, <4>1
      <4> QED BY <1>5, <4>1, <4>2 DEF Lifecycle
    <3>3. StatusAt[m.status] = 3 /\ StatusOf[t[3].name] = m.status
      BY <3>1, <3>2 DEF StatusAt, Statuses, StatusOf, FactNames
    <3> QED BY <2>2, <2>4, <2>5, <3>2, <3>3 DEF Told
  <2>8. CASE Fn(r) = "outcome"
    <3>1. b = 3 /\ payments[o] = {event[r]} /\ event[r] \in PaymentNames
      BY <1>1, <1>3, <2>8 DEF Before, Fns, IInv, TypeOK
    <3>2. 4 \in 1..Len(t) /\ Len(t) >= 4
      BY <1>5, <2>6, <3>1
    <3>3. t[4].name \in {"order.paid", "order.payment_failed"} /\ t[4].name = FactOf(r)
      <4>1. /\ t[4].name \in Lifecycle[4]
            /\ t[4].name = "order.paid" => payments[o] = {"payment.captured"}
            /\ t[4].name = "order.payment_failed" => payments[o] = {"payment.declined"}
        BY <1>4, <3>2
      <4> HIDE DEF t
      <4>2. /\ t[4].name \in {"order.paid", "order.payment_failed"}
            /\ t[4].name = "order.paid" => event[r] = "payment.captured"
            /\ t[4].name = "order.payment_failed" => event[r] = "payment.declined"
        BY <3>1, <4>1 DEF Lifecycle
      <4> QED BY <2>8, <4>2 DEF FactOf, OutcomeFact
    <3>4. StatusAt[m.status] = 4 /\ StatusOf[t[4].name] = m.status
      BY <2>2, <3>3 DEF StatusAt, Statuses, StatusOf, FactNames
    <3> QED BY <2>2, <2>4, <2>5, <3>2, <3>4 DEF Told
  <2> QED BY <2>2, <2>7, <2>8
<1> QED BY <1>6, <1>7

LEMMA FailureKeepsResults ==
  ASSUME TypeOK, NEW r \in Runs, NEW b \in BOOLEAN, FailedAttempt(r, b)
  PROVE  announced' = announced /\ \A q \in Runs : result'[q] \subseteq result[q]
<1> QED BY DEF FailedAttempt, TypeOK

(* A step adds nothing to what is published or about to be published but   *)
(* results of runs and the message of an append.                           *)
LEMMA NextProvenance ==
  ASSUME IInv, [Next]_vars
  PROVE  /\ \A m \in announced' : m \in announced \/ \E r \in Runs : m \in result[r]
         /\ \A r \in Runs : result'[r] \subseteq result[r] \/ PlaceStep(r) \/ AppendDecided(r)
<1> DEFINE P == /\ \A m \in announced' : m \in announced \/ \E r \in Runs : m \in result[r]
                /\ \A r \in Runs : result'[r] \subseteq result[r] \/ PlaceStep(r) \/ AppendDecided(r)
<1>0. TypeOK
  BY DEF IInv
<1>1. ASSUME announced' = announced, \A q \in Runs : result'[q] \subseteq result[q] PROVE P
  BY <1>1
<1>2. ASSUME announced' = announced, result' = result PROVE P
  BY <1>2
<1>3. ASSUME NEW r \in Runs, NEW b \in BOOLEAN, FailedAttempt(r, b) PROVE P
  BY <1>0, <1>1, <1>3, FailureKeepsResults
<1>4. ASSUME NEW r \in Runs, PlaceStep(r) \/ AppendDecided(r) PROVE P
  <2>1. announced' = announced /\ \A q \in Runs : q # r => result'[q] = result[q]
    BY <1>0, <1>4 DEF PlaceStep, AppendDecided, TypeOK
  <2> QED BY <1>4, <2>1
<1>5. ASSUME NEW r \in Runs, Announce(r) PROVE P
  <2>1. announced' \subseteq announced \cup result[r] /\ result' = result
    BY <1>5 DEF Announce
  <2> QED BY <2>1
<1> HIDE DEF P
<1>6. ASSUME NEW r \in Runs, Advance(r) PROVE P
  <2>1. CASE RejectPlace(r)
    BY <2>1, <1>3 DEF RejectPlace
  <2>2. CASE ReadAndDecide(r)
    BY <2>2, <1>2, <1>3 DEF ReadAndDecide
  <2>3. CASE ConflictDecided(r)
    <3>1. (Fn(r) = "approve") \in BOOLEAN /\ FailedAttempt(r, Fn(r) = "approve")
      BY <2>3 DEF ConflictDecided
    <3> QED BY <3>1, <1>3
  <2>4. CASE StartProcess(r) \/ StartOutcome(r) \/ EnterWait(r) \/ WaitTimeout(r)
             \/ Checkpoint(r) \/ Complete(r)
    BY <2>4, <1>2 DEF StartProcess, StartOutcome, EnterWait, WaitTimeout, Checkpoint, Complete
  <2> QED BY <1>4, <1>5, <1>6, <2>1, <2>2, <2>3, <2>4 DEF Advance
<1>7. ASSUME Crash PROVE P
  <2>1. announced' = announced /\ \A q \in Runs : result'[q] \subseteq result[q]
    BY <1>7 DEF Crash
  <2> QED BY <1>1, <2>1
<1>8. ASSUME NEW r \in Runs, StartCommand(r) \/ TransportError(r) PROVE P
  BY <1>2, <1>3, <1>8 DEF StartCommand, TransportError
<1>9. ASSUME NEW o \in Orders, ApprovedArrives(o) \/ \E n \in PaymentNames : PaymentFact(o, n)
      PROVE  P
  BY <1>2, <1>9 DEF ApprovedArrives, PaymentFact
<1>10. ASSUME UNCHANGED vars PROVE P
  BY <1>2, <1>10 DEF vars
<1>11. ASSUME System PROVE P
  BY <1>6, <1>7, <1>8, <1>9, <1>11 DEF System
<1>12. ASSUME NEW o \in Orders, NEW n \in PaymentNames, PaymentFact(o, n) PROVE P
  BY <1>9, <1>12
<1>13. P
  BY <1>10, <1>11, <1>12 DEF Next
<1> QED BY <1>13 DEF P

LEMMA NextTold == IInv /\ IInv' /\ ToldInv /\ [Next]_vars => ToldInv'
<1> SUFFICES ASSUME IInv, IInv', ToldInv, [Next]_vars PROVE ToldInv'
  OBVIOUS
<1>1. \A m \in Message : m.order \in Orders
  BY DEF Message
<1>2. \A m \in Message : Told(m) => Told(m)'
  BY <1>1, StreamsGrow, ToldKept
<1>3. ASSUME NEW m \in announced' PROVE Told(m)'
  <2>1. m \in announced \/ \E r \in Runs : m \in result[r]
    BY NextProvenance
  <2>2. m \in Message /\ Told(m)
    BY <2>1 DEF IInv, TypeOK, ToldInv
  <2> QED BY <1>2, <2>2
<1>4. ASSUME NEW r \in Runs, NEW m \in result'[r] PROVE Told(m)'
  <2>1. CASE PlaceStep(r) \/ AppendDecided(r)
    BY <2>1, ResultIsTold
  <2>2. CASE m \in result[r]
    <3>1. m \in Message /\ Told(m)
      BY <2>2 DEF IInv, TypeOK, ToldInv
    <3> QED BY <1>2, <3>1
  <2> QED BY <2>1, <2>2, NextProvenance
<1> QED BY <1>3, <1>4 DEF ToldInv

(* What a customer is told is on the stream and goes to the customer who   *)
(* placed the order, however stale the read is that the message was built  *)
(* from and whichever runs, repeats and crashes come before it is          *)
(* published.                                                              *)
THEOREM AnnouncementsHold == Spec => []AnnouncementsAreTrue
<1>1. Init => ToldInv
  BY DEF Init, ToldInv
<1>2. IInv /\ IInv' /\ ToldInv /\ [Next]_vars => ToldInv'
  BY NextTold
<1>3. IInv /\ ToldInv => AnnouncementsAreTrue
  <2> SUFFICES ASSUME IInv, ToldInv, NEW m \in announced
               PROVE  /\ \E i \in StatusFacts(stream[m.order]) :
                           StatusOf[stream[m.order][i].name] = m.status
                      /\ m.status # "pending_approval" => m.to = Customer(stream[m.order])
    BY DEF AnnouncementsAreTrue, AnnouncedIsRecorded, AnnouncedToCustomer
  <2> DEFINE s == stream[m.order]
             i == StatusAt[m.status]
  <2>1. m \in Message /\ Told(m)
    BY DEF IInv, TypeOK, ToldInv
  <2>2. m.order \in Orders /\ i \in {1, 3, 4}
    BY <2>1 DEF Message, StatusAt, Statuses
  <2>3. s \in Seq(Fact) /\ GoodStream(s, m.order) /\ DOMAIN s = 1..Len(s) /\ Len(s) \in Nat
    BY <2>2, LenProperties DEF IInv, TypeOK, Streams
  <2>4. /\ Len(s) >= i /\ StatusOf[s[i].name] = m.status
        /\ m.status # "pending_approval" => m.to = s[1].by
    BY <2>1 DEF Told
  <2> HIDE DEF s, i
  <2>5. i \in 1..Len(s) /\ Len(s) >= 1
    BY <2>2, <2>3, <2>4
  <2>6. i \in StatusFacts(s)
    <3>1. s[i].name \in Lifecycle[i]
      BY <2>3, <2>5 DEF GoodStream, GoodFact
    <3>2. s[i].name \in DOMAIN StatusOf
      BY <2>2, <3>1 DEF Lifecycle, StatusOf, FactNames
    <3> QED BY <2>3, <2>5, <3>2 DEF StatusFacts
  <2>7. Customer(s) = s[1].by
    BY <2>2, <2>3, <2>5, CustomerOfHistory
  <2> QED BY <2>4, <2>6, <2>7 DEF s
<1> QED BY <1>1, <1>2, <1>3, Invariance, PTL DEF Spec
-----------------------------------------------------------------------------
(* What Payments may rely on: a step of Ordering moves at most one order.  *)
LEMMA OneStreamMoves ==
  ASSUME IInv, Next
  PROVE  UNCHANGED stream \/ \E o \in Orders : \A p \in Orders \ {o} : stream'[p] = stream[p]
<1> DEFINE Q == UNCHANGED stream
                \/ \E o \in Orders : \A p \in Orders \ {o} : stream'[p] = stream[p]
<1>1. ASSUME NEW r \in Runs, AppendFact(r) PROVE Q
  <2>1. stream \in [Orders -> Seq(Fact)] /\ OrderOf(r) \in Orders
    BY RunParts DEF IInv, TypeOK
  <2> QED BY <1>1, <2>1 DEF AppendFact
<1>2. ASSUME UNCHANGED stream PROVE Q
  BY <1>2
<1> HIDE DEF Q
<1>3. ASSUME NEW r \in Runs, Advance(r) PROVE Q
  BY <1>1, <1>2, <1>3
  DEF Advance, StartProcess, StartOutcome, RejectPlace, PlaceStep, ReadAndDecide,
      AppendDecided, ConflictDecided, FailedAttempt, EnterWait, WaitTimeout, Checkpoint,
      Announce, Complete
<1>4. Q
  BY <1>2, <1>3
  DEF Next, System, StartCommand, TransportError, FailedAttempt, ApprovedArrives, Crash,
      PaymentFact
<1> QED BY <1>4 DEF Q

(* A released order stays released.                                        *)
LEMMA ReleasedStays ==
  ASSUME IInv, IInv', [Next]_vars, NEW o \in Orders, Released(stream[o])
  PROVE  Released(stream'[o])
<1>1. /\ stream[o] \in Seq(Fact) /\ GoodStream(stream[o], o) /\ Grows(o)
  BY StreamsGrow DEF IInv, TypeOK, Streams
<1>2. /\ stream'[o] \in Seq(Fact) /\ GoodStream(stream[o], o)'
  BY DEF IInv, TypeOK, Streams
<1>3. Len(stream[o]) >= 3
  BY <1>1, FoldByLength
<1>4. 3 \in 1..Len(stream[o]) /\ stream'[o][3] = stream[o][3] /\ 3 \in 1..Len(stream'[o])
  BY <1>1, <1>3 DEF Grows
<1>5. stream[o][3].name = "order.released"
  BY <1>1, <1>4 DEF GoodStream, GoodFact, Lifecycle
<1>6. DOMAIN stream'[o] = 1..Len(stream'[o])
  BY <1>2, LenProperties
<1> QED BY <1>4, <1>5, <1>6 DEF Released, Has

(* A closed order says how its payment went.                               *)
LEMMA ClosedAsPaid ==
  ASSUME IInv, NEW o \in Orders
  PROVE  /\ Status(stream[o]) = "paid" => payments[o] = {"payment.captured"}
         /\ Status(stream[o]) = "payment_failed" => payments[o] = {"payment.declined"}
<1> DEFINE s == stream[o]
<1>1. s \in Seq(Fact) /\ GoodStream(s, o) /\ Len(s) \in Nat
  BY LenProperties DEF IInv, TypeOK, Streams
<1>2. Status(s) \in {"paid", "payment_failed"} => Len(s) = 4 /\ Status(s) = StatusOf[s[4].name]
  <2>1. Status(s) \in {"paid", "payment_failed"} => Terminal(s)
    BY DEF Terminal
  <2> HIDE DEF s
  <2> QED BY <1>1, <2>1, FoldByLength
<1>3. Len(s) = 4 => GoodFact(s[4], 4, o)
  BY <1>1 DEF GoodStream
<1>4. Len(s) = 4 => /\ s[4].name \in {"order.paid", "order.payment_failed"}
                    /\ s[4].name = "order.paid" => payments[o] = {"payment.captured"}
                    /\ s[4].name = "order.payment_failed" => payments[o] = {"payment.declined"}
  BY <1>3 DEF GoodFact, Lifecycle
<1> HIDE DEF s
<1>5. StatusOf["order.paid"] = "paid" /\ StatusOf["order.payment_failed"] = "payment_failed"
  BY DEF StatusOf, FactNames
<1> QED BY <1>2, <1>4, <1>5 DEF s
=============================================================================
