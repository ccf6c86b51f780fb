--------------------------- MODULE PaymentsProofs ---------------------------
(* Proofs about Payments, for any orders, deliveries and bounds. *)
EXTENDS Payments, SequenceTheorems, TLAPS

Held == <<"payment.authorized">>
Refused == <<"payment.declined">>
Charged == <<"payment.authorized", "payment.captured">>
Histories == {<<>>, Held, Refused, Charged}

(* The stream of an order tells what its token allowed and what was done   *)
(* to the card.                                                            *)
OrderOK(o) ==
  /\ pay[o] \in Histories
  /\ pay[o] # <<>> => released[o] \in {"pm_success", "pm_crash", "pm_decline"}
  /\ pay[o] # <<>> => (pay[o] = Refused <=> released[o] = "pm_decline")
  /\ \A x \in Ops : calls[<<o, x>>] <= 1
  /\ calls[<<o, "capture">>] = 1 => Authorized(pay[o])
  /\ pay[o] = Charged => calls[<<o, "capture">>] = 1

(* The token alone decides what the gateway answers, so every run of an    *)
(* order holds the same outcome; and a run that may append has read the    *)
(* version at which its fact belongs.                                      *)
RunOK(r) ==
  LET s == pay[OrderOf(r)] IN
  /\ pc[r] # "idle" => released[OrderOf(r)] # "none"
  /\ op[r] = "capture" => Authorized(s)
  /\ pc[r] \in {"answered", "decided"} =>
       /\ result[r] = Decision(r) /\ Decision(r) # "error"
       /\ calls[<<OrderOf(r), op[r]>>] = 1
  /\ pc[r] = "decided" => seen[r] = IF op[r] = "authorize" THEN 0 ELSE 1
  /\ pc[r] = "written" =>
       /\ Has(s, FactOf(result[r]))
       /\ result[r] \in IF op[r] = "capture" THEN {"captured"} ELSE {"authorized", "declined"}
  /\ pc[r] = "done" => Settled(s)

IInv == TypeOK /\ (\A o \in Orders : OrderOK(o)) /\ \A r \in Runs : RunOK(r)
-----------------------------------------------------------------------------
LEMMA RunParts ==
  ASSUME NEW r \in Runs
  PROVE  OrderOf(r) \in Orders
BY DEF Runs, OrderOf

(* The four histories, as the domain's predicates see them.                *)
LEMMA HistoryFacts ==
  /\ Len(<<>>) = 0 /\ Len(Held) = 1 /\ Len(Refused) = 1 /\ Len(Charged) = 2
  /\ \A s \in Histories :
       /\ s \in Seq(FactNames)
       /\ Has(s, "payment.authorized") <=> s \in {Held, Charged}
       /\ Has(s, "payment.declined") <=> s = Refused
       /\ Has(s, "payment.captured") <=> s = Charged
       /\ Authorized(s) <=> s \in {Held, Charged}
       /\ Settled(s) <=> s \in {Refused, Charged}
       /\ Attempted(s) <=> s # <<>>
  /\ Held # <<>> /\ Refused # <<>> /\ Charged # <<>>
  /\ Held # Refused /\ Held # Charged /\ Refused # Charged
<1>1. \A name : ~Has(<<>>, name)
  BY DEF Has
<1>2. \A name : Has(Held, name) <=> name = "payment.authorized"
  BY DEF Has, Held
<1>3. \A name : Has(Refused, name) <=> name = "payment.declined"
  BY DEF Has, Refused
<1>4. \A name : Has(Charged, name) <=> name \in {"payment.authorized", "payment.captured"}
  BY DEF Has, Charged
<1>5. Len(<<>>) = 0 /\ Len(Held) = 1 /\ Len(Refused) = 1 /\ Len(Charged) = 2
  BY DEF Held, Refused, Charged
<1>6. Held # <<>> /\ Refused # <<>> /\ Charged # <<>> /\ Held # Charged /\ Refused # Charged
  BY <1>5
<1>7. Held # Refused
  BY <1>2, <1>3
<1>8. \A s \in Histories : s \in Seq(FactNames)
  <2>1. /\ "payment.authorized" \in FactNames /\ "payment.captured" \in FactNames
        /\ "payment.declined" \in FactNames
    BY DEF FactNames
  <2>2. Held \in Seq(FactNames) /\ Refused \in Seq(FactNames) /\ Charged \in Seq(FactNames)
    BY <2>1 DEF Held, Refused, Charged
  <2> QED BY <2>2, EmptySeq DEF Histories
<1> QED BY <1>1, <1>2, <1>3, <1>4, <1>5, <1>6, <1>7, <1>8
        DEF Histories, Authorized, Settled, Attempted

(* What an append makes of a history.                                      *)
LEMMA AppendToHistory ==
  /\ Append(<<>>, "payment.authorized") = Held
  /\ Append(<<>>, "payment.declined") = Refused
  /\ Append(Held, "payment.captured") = Charged
<1>1. /\ "payment.authorized" \in FactNames /\ "payment.captured" \in FactNames
      /\ "payment.declined" \in FactNames
  BY DEF FactNames
<1>2. /\ Append(<<>>, "payment.authorized") = <<>> \o Held
      /\ Append(<<>>, "payment.declined") = <<>> \o Refused
  BY <1>1, EmptySeq, AppendIsConcat DEF Held, Refused
<1>3. /\ Held \in Seq(FactNames) /\ Refused \in Seq(FactNames) /\ Charged \in Seq(FactNames)
  BY HistoryFacts DEF Histories
<1>4. <<>> \o Held = Held /\ <<>> \o Refused = Refused
  BY <1>3, ConcatEmptySeq
<1>5. Append(Held, "payment.captured") = Charged
  <2> DEFINE t == Append(Held, "payment.captured")
  <2>0. Len(Held) = 1
    BY HistoryFacts
  <2>1. t \in Seq(FactNames) /\ Len(t) = 2 /\ t[1] = Held[1] /\ t[2] = "payment.captured"
    <3>1. /\ t \in Seq(FactNames) /\ Len(t) = Len(Held) + 1
          /\ \A i \in 1..Len(Held) : t[i] = Held[i]
          /\ t[Len(Held) + 1] = "payment.captured"
      BY <1>1, <1>3, AppendProperties
    <3> HIDE DEF t
    <3>2. 1 \in 1..Len(Held) /\ Len(Held) + 1 = 2
      BY <2>0
    <3>3. t[1] = Held[1]
      BY <3>1, <3>2
    <3> QED BY <3>1, <3>2, <3>3
  <2>2. Len(Charged) = 2 /\ t[1] = Charged[1] /\ t[2] = Charged[2]
    BY <2>1 DEF Held, Charged
  <2> HIDE DEF t
  <2>3. \A i \in 1..Len(t) : t[i] = Charged[i]
    BY <2>1, <2>2
  <2> QED BY <1>3, <2>1, <2>2, <2>3, SeqEqual DEF t
<1> QED BY <1>2, <1>4, <1>5
-----------------------------------------------------------------------------
(* What keeps a run's part of the invariant although other runs move: its  *)
(* own state is left alone, and its order's history only grows.            *)
LEMMA RunKept ==
  ASSUME TypeOK, NEW r \in Runs, RunOK(r),
         pc'[r] = pc[r], op'[r] = op[r], seen'[r] = seen[r], result'[r] = result[r],
         released'[OrderOf(r)] = released[OrderOf(r)],
         pay[OrderOf(r)] \in Histories, pay'[OrderOf(r)] \in Histories,
         \/ pay'[OrderOf(r)] = pay[OrderOf(r)]
         \/ pay[OrderOf(r)] = <<>>
         \/ pay[OrderOf(r)] = Held /\ pay'[OrderOf(r)] = Charged,
         \A x \in Ops : calls[<<OrderOf(r), x>>] = 1 => calls'[<<OrderOf(r), x>>] = 1
  PROVE  RunOK(r)'
<1> DEFINE s == pay[OrderOf(r)]
<1>1. op[r] \in Ops /\ OrderOf(r) \in Orders
  BY RunParts DEF TypeOK
<1>2. /\ Authorized(s) => Authorized(s')
      /\ Settled(s) => Settled(s')
      /\ \A x \in FactNames : Has(s, x) => Has(s', x)
  BY HistoryFacts DEF FactNames
<1>3. Decision(r)' = Decision(r)
  BY DEF Decision, OrderOf
<1>4. pc[r] = "written" => FactOf(result[r]) \in FactNames
  BY DEF RunOK, FactOf, FactNames
<1> QED BY <1>1, <1>2, <1>3, <1>4 DEF RunOK, OrderOf

(* A step of run r that leaves the streams, the ledger's effects and the   *)
(* tokens alone.                                                           *)
LEMMA QuietStep ==
  ASSUME IInv, NEW r \in Runs, TypeOK', UNCHANGED <<released, pay, calls>>,
         \A q \in Runs : q # r => /\ pc'[q] = pc[q] /\ op'[q] = op[q]
                                  /\ seen'[q] = seen[q] /\ result'[q] = result[q],
         RunOK(r)'
  PROVE  IInv'
<1>1. \A o \in Orders : OrderOK(o)'
  BY DEF IInv, OrderOK
<1>2. ASSUME NEW q \in Runs, q # r PROVE RunOK(q)'
  <2>1. RunOK(q) /\ pay[OrderOf(q)] \in Histories /\ TypeOK
    BY RunParts DEF IInv, OrderOK
  <2> QED BY <1>2, <2>1, RunKept
<1> QED BY <1>1, <1>2 DEF IInv

LEMMA FailedAttemptStep ==
  ASSUME IInv, NEW r \in Runs, pc[r] # "idle", FailedAttempt(r), UNCHANGED <<calls, dedup>>,
         faults' \in Nat
  PROVE  IInv'
<1>1. TypeOK'
  BY DEF IInv, TypeOK, FailedAttempt, Retry, PCs
<1>2. RunOK(r)'
  <2>1. pc'[r] \in {"ready", "failed"} /\ UNCHANGED <<released, pay, op>>
    BY DEF IInv, TypeOK, FailedAttempt, Retry
  <2>2. RunOK(r)
    BY DEF IInv
  <2> QED BY <2>1, <2>2 DEF RunOK, OrderOf
<1>3. \A q \in Runs : q # r => /\ pc'[q] = pc[q] /\ op'[q] = op[q]
                               /\ seen'[q] = seen[q] /\ result'[q] = result[q]
  BY DEF IInv, TypeOK, FailedAttempt
<1>4. UNCHANGED <<released, pay>>
  BY DEF FailedAttempt
<1> QED BY <1>1, <1>2, <1>3, <1>4, QuietStep

(* A step that returns what the stream says.                               *)
LEMMA ReturnRecordedStep ==
  ASSUME IInv, NEW r \in Runs, pc[r] # "idle", Permission(r) = "done", ReturnRecorded(r)
  PROVE  IInv'
<1> DEFINE s == pay[OrderOf(r)]
<1>0. OrderOf(r) \in Orders /\ s \in Histories /\ op[r] \in Ops /\ RunOK(r)
  BY RunParts DEF IInv, OrderOK, TypeOK
<1>1. /\ Replay(r) \in IF op[r] = "capture" THEN {"captured"} ELSE {"authorized", "declined"}
      /\ Has(s, FactOf(Replay(r)))
  <2>1. CASE op[r] = "capture"
    <3>1. Settled(s) /\ Authorized(s)
      BY <2>1 DEF Permission, MayCapture
    <3>2. s = Charged
      BY <1>0, <3>1, HistoryFacts
    <3> QED BY <2>1, <3>2, HistoryFacts DEF Replay, FactOf, Histories
  <2>2. CASE op[r] = "authorize"
    <3>1. s # <<>>
      BY <2>2 DEF Permission, MayAuthorize, Attempted
    <3> HIDE DEF s
    <3>2. s \in {Held, Charged} \/ s = Refused
      BY <1>0, <3>1 DEF Histories
    <3>3. CASE s \in {Held, Charged}
      <4>1. Authorized(s) /\ Has(s, "payment.authorized")
        BY <1>0, <3>3, HistoryFacts
      <4> QED BY <2>2, <4>1 DEF Replay, FactOf, s
    <3>4. CASE s = Refused
      <4>1. ~Authorized(s) /\ Has(s, "payment.declined")
        BY <1>0, <3>4, HistoryFacts
      <4> QED BY <2>2, <4>1 DEF Replay, FactOf, s
    <3> QED BY <3>2, <3>3, <3>4
  <2> QED BY <1>0, <2>1, <2>2 DEF Ops
<1>2. TypeOK'
  <2>1. Replay(r) \in {"none", "authorized", "declined", "captured"}
    BY DEF Replay
  <2> QED BY <2>1 DEF IInv, TypeOK, ReturnRecorded, PCs
<1>3. /\ pc'[r] = "written" /\ result'[r] = Replay(r)
      /\ UNCHANGED <<released, pay, calls, op, seen>>
      /\ \A q \in Runs : q # r => /\ pc'[q] = pc[q] /\ op'[q] = op[q]
                                  /\ seen'[q] = seen[q] /\ result'[q] = result[q]
  BY DEF IInv, TypeOK, ReturnRecorded
<1>4. RunOK(r)'
  BY <1>0, <1>1, <1>3 DEF RunOK, OrderOf
<1> QED BY <1>2, <1>3, <1>4, QuietStep
(* The gateway is called with the domain's permission: a first capture     *)
(* finds the hold on the stream.                                           *)
LEMMA CallGatewayStep ==
  ASSUME IInv, NEW r \in Runs, CallGateway(r)
  PROVE  IInv'
<1> DEFINE k == <<OrderOf(r), op[r]>>
<1>0. OrderOf(r) \in Orders /\ op[r] \in Ops /\ RunOK(r) /\ TypeOK
  BY RunParts DEF IInv, TypeOK
<1>1. CASE Decision(r) = "error"
  BY <1>1, FailedAttemptStep DEF CallGateway, IInv, TypeOK
<1>2. CASE Decision(r) # "error"
  <2>1. /\ Ledger(k)
        /\ result' = [result EXCEPT ![r] = Decision(r)]
        /\ pc' = [pc EXCEPT ![r] = "answered"]
        /\ UNCHANGED <<released, pay, op, seen, tries, faults>>
    BY <1>2 DEF CallGateway
  <2>2. k \in Orders \X Ops /\ calls[k] \in Nat /\ calls[k] <= 1
    BY <1>0 DEF IInv, OrderOK, TypeOK
  <2>3. /\ calls' \in [Orders \X Ops -> Nat] /\ dedup' \in [Orders \X Ops -> Nat]
        /\ calls'[k] = 1 /\ \A j \in Orders \X Ops : j # k => calls'[j] = calls[j]
    <3> HIDE DEF k
    <3>1. CASE calls[k] > 0
      <4>1. UNCHANGED calls /\ dedup' = [dedup EXCEPT ![k] = @ + 1] /\ calls[k] = 1
        BY <2>1, <2>2, <3>1 DEF Ledger
      <4> QED BY <1>0, <2>2, <4>1 DEF TypeOK
    <3>2. CASE ~(calls[k] > 0)
      <4>1. calls' = [calls EXCEPT ![k] = @ + 1] /\ UNCHANGED dedup
        BY <2>1, <3>2 DEF Ledger
      <4> QED BY <1>0, <2>2, <3>2, <4>1 DEF TypeOK
    <3> QED BY <3>1, <3>2
  <2>4. Decision(r) \in {"authorized", "declined", "captured"}
    <3>1. released[OrderOf(r)] \in Tokens
      BY <1>0 DEF RunOK, TypeOK, CallGateway
    <3> QED BY <1>2, <3>1 DEF Decision, Tokens
  <2>5. TypeOK'
    BY <1>0, <2>1, <2>3, <2>4 DEF TypeOK, PCs
  <2>6. /\ UNCHANGED <<released, pay>>
        /\ \A q \in Runs : q # r => /\ pc'[q] = pc[q] /\ op'[q] = op[q]
                                    /\ seen'[q] = seen[q] /\ result'[q] = result[q]
    BY <1>0, <2>1 DEF TypeOK
  <2>7. ASSUME NEW o \in Orders PROVE OrderOK(o)'
    <3>1. OrderOK(o) /\ \A x \in Ops : calls'[<<o, x>>] = calls[<<o, x>>] \/ <<o, x>> = k
      BY <2>3 DEF IInv
    <3>2. \A x \in Ops : calls'[<<o, x>>] <= 1
      <4> TAKE x \in Ops
      <4>1. CASE <<o, x>> = k
        BY <2>3, <4>1
      <4>2. CASE <<o, x>> # k
        BY <3>1, <4>2 DEF OrderOK
      <4> QED BY <4>1, <4>2
    <3>3. calls'[<<o, "capture">>] = 1 => Authorized(pay[o])
      <4>1. CASE <<o, "capture">> = k
        BY <1>0, <4>1 DEF RunOK
      <4>2. CASE <<o, "capture">> # k
        BY <3>1, <4>2 DEF OrderOK, Ops
      <4> QED BY <4>1, <4>2
    <3>4. calls[<<o, "capture">>] = 1 => calls'[<<o, "capture">>] = 1
      BY <2>3, <3>1 DEF Ops
    <3> QED BY <2>6, <3>1, <3>2, <3>3, <3>4 DEF OrderOK
  <2>8. RunOK(r)'
    <3>1. Decision(r)' = Decision(r) /\ UNCHANGED <<released, pay, op>>
      BY <2>1 DEF Decision, OrderOf
    <3>2. pc'[r] = "answered" /\ result'[r] = Decision(r) /\ pc[r] # "idle"
      BY <1>0, <2>1 DEF TypeOK, CallGateway
    <3> HIDE DEF k
    <3>3. calls'[<<OrderOf(r), op[r]>>] = 1
      BY <2>3 DEF k
    <3> QED BY <1>0, <1>2, <3>1, <3>2, <3>3 DEF RunOK, OrderOf
  <2>9. ASSUME NEW q \in Runs, q # r PROVE RunOK(q)'
    <3>1. OrderOf(q) \in Orders /\ RunOK(q) /\ pay[OrderOf(q)] \in Histories
      BY RunParts DEF IInv, OrderOK
    <3>2. \A x \in Ops : calls[<<OrderOf(q), x>>] = 1 => calls'[<<OrderOf(q), x>>] = 1
      BY <2>3, <3>1
    <3> QED BY <1>0, <2>6, <2>9, <3>1, <3>2, RunKept
  <2> QED BY <2>5, <2>7, <2>8, <2>9 DEF IInv
<1> QED BY <1>1, <1>2

(* What an append at the version that was read finds: the history the fact *)
(* belongs to, or one that has it.                                         *)
LEMMA DecidedAnswer ==
  ASSUME IInv, NEW r \in Runs, pc[r] = "decided"
  PROVE  LET s == pay[OrderOf(r)]
             f == FactOf(result[r])
         IN /\ AppendAnswer(r) # "conflict"
            /\ AppendAnswer(r) = "original" => Has(s, f)
            /\ AppendAnswer(r) = "appended" =>
                 \/ s = <<>> /\ op[r] = "authorize" /\ result[r] = "authorized"
                      /\ f = "payment.authorized" /\ Append(s, f) = Held
                      /\ released[OrderOf(r)] \in {"pm_success", "pm_crash"}
                 \/ s = <<>> /\ op[r] = "authorize" /\ result[r] = "declined"
                      /\ f = "payment.declined" /\ Append(s, f) = Refused
                      /\ released[OrderOf(r)] = "pm_decline"
                 \/ s = Held /\ op[r] = "capture" /\ result[r] = "captured"
                      /\ f = "payment.captured" /\ Append(s, f) = Charged
                      /\ calls[<<OrderOf(r), "capture">>] = 1
<1> DEFINE o == OrderOf(r)
           s == pay[o]
           f == FactOf(result[r])
<1>0. o \in Orders /\ op[r] \in Ops /\ RunOK(r) /\ TypeOK /\ OrderOK(o)
  BY RunParts DEF IInv, TypeOK
<1>1. s \in Histories /\ result[r] = Decision(r) /\ Decision(r) # "error"
  BY <1>0 DEF OrderOK, RunOK
<1>2. released[o] \in Tokens
  BY <1>0 DEF RunOK, TypeOK
<1>3. AppendAnswer(r) = IF Has(s, f) THEN "original"
                        ELSE IF Len(s) = seen[r] THEN "appended" ELSE "conflict"
  BY DEF AppendAnswer
<1>4. CASE op[r] = "capture"
  <2>1. result[r] = "captured" /\ f = "payment.captured" /\ seen[r] = 1 /\ Authorized(s)
        /\ calls[<<o, "capture">>] = 1
    BY <1>0, <1>1, <1>4 DEF Decision, FactOf, RunOK
  <2>2. s = Held \/ s = Charged
    BY <1>1, <2>1, HistoryFacts
  <2> HIDE DEF s, o, f
  <2>3. CASE s = Held
    BY <1>3, <1>4, <2>1, <2>3, HistoryFacts, AppendToHistory DEF Histories, o, s, f
  <2>4. CASE s = Charged
    <3>1. Has(s, f)
      BY <2>1, <2>4, HistoryFacts DEF Histories
    <3> QED BY <1>3, <3>1 DEF o, s, f
  <2> QED BY <2>2, <2>3, <2>4
<1>5. CASE op[r] = "authorize"
  <2>1. seen[r] = 0
    BY <1>0, <1>5 DEF RunOK
  <2>2. \/ released[o] \in {"pm_success", "pm_crash"} /\ result[r] = "authorized"
             /\ f = "payment.authorized"
        \/ released[o] = "pm_decline" /\ result[r] = "declined" /\ f = "payment.declined"
    BY <1>1, <1>2, <1>5 DEF Decision, FactOf, Tokens
  <2>3. s # <<>> => (s = Refused <=> released[o] = "pm_decline")
    BY <1>0 DEF OrderOK
  <2> HIDE DEF s, o, f
  <2>4. CASE s = <<>>
    <3>1. ~Has(s, f) /\ Len(s) = 0
      BY <2>2, <2>4, HistoryFacts DEF Histories
    <3>2. AppendAnswer(r) = "appended"
      BY <1>3, <2>1, <3>1
    <3>3. \/ released[o] \in {"pm_success", "pm_crash"} /\ Append(s, f) = Held
          \/ released[o] = "pm_decline" /\ Append(s, f) = Refused
      BY <2>2, <2>4, AppendToHistory
    <3> QED BY <1>5, <2>2, <2>4, <3>2, <3>3, <3>1 DEF o, s, f
  <2>5. CASE s # <<>>
    <3>1. Has(s, f)
      BY <1>1, <2>2, <2>3, <2>5, HistoryFacts DEF Histories
    <3> QED BY <1>3, <3>1 DEF o, s, f
  <2> QED BY <2>4, <2>5
<1> QED BY <1>0, <1>4, <1>5 DEF Ops
LEMMA AppendOnceStep ==
  ASSUME IInv, NEW r \in Runs, AppendOnce(r)
  PROVE  IInv'
<1> DEFINE o == OrderOf(r)
           f == FactOf(result[r])
<1>0. o \in Orders /\ op[r] \in Ops /\ RunOK(r) /\ TypeOK /\ OrderOK(o) /\ pc[r] = "decided"
  BY RunParts DEF IInv, TypeOK, AppendOnce
<1>1. AppendAnswer(r) # "conflict"
  BY <1>0, DecidedAnswer
<1>2. /\ pay' = IF AppendAnswer(r) = "appended" THEN [pay EXCEPT ![o] = Append(@, f)] ELSE pay
      /\ pc' = [pc EXCEPT ![r] = "written"]
      /\ UNCHANGED <<released, calls, dedup, op, seen, result, tries, faults>>
  BY <1>1 DEF AppendOnce, Appended
<1>3. Decision(r) = result[r] /\ Decision(r) # "error" /\ released[o] \in Tokens
  BY <1>0 DEF RunOK, TypeOK
<1>4. result[r] \in IF op[r] = "capture" THEN {"captured"} ELSE {"authorized", "declined"}
  BY <1>0, <1>3 DEF Decision, Tokens
<1>5. /\ pay'[o] \in Histories /\ Has(pay'[o], f)
      /\ \/ pay'[o] = pay[o]
         \/ pay[o] = <<>> /\ pay'[o] = Held /\ released[o] \in {"pm_success", "pm_crash"}
         \/ pay[o] = <<>> /\ pay'[o] = Refused /\ released[o] = "pm_decline"
         \/ pay[o] = Held /\ pay'[o] = Charged /\ calls[<<o, "capture">>] = 1
      /\ \A p \in Orders : p # o => pay'[p] = pay[p]
      /\ DOMAIN pay' = Orders
  <2>1. CASE AppendAnswer(r) = "appended"
    <3>1. /\ pay'[o] = Append(pay[o], f) /\ DOMAIN pay' = Orders
          /\ \A p \in Orders : p # o => pay'[p] = pay[p]
      BY <1>0, <1>2, <2>1 DEF TypeOK
    <3>2. \/ /\ pay[o] = <<>> /\ pay'[o] = Held /\ f = "payment.authorized"
             /\ released[o] \in {"pm_success", "pm_crash"}
          \/ /\ pay[o] = <<>> /\ pay'[o] = Refused /\ f = "payment.declined"
             /\ released[o] = "pm_decline"
          \/ /\ pay[o] = Held /\ pay'[o] = Charged /\ f = "payment.captured"
             /\ calls[<<o, "capture">>] = 1
      BY <1>0, <2>1, <3>1, DecidedAnswer
    <3> QED BY <3>1, <3>2, HistoryFacts DEF Histories
  <2>2. CASE AppendAnswer(r) # "appended"
    <3>1. pay' = pay /\ AppendAnswer(r) = "original"
      BY <1>1, <1>2, <2>2 DEF AppendAnswer
    <3>2. Has(pay[o], f)
      BY <1>0, <3>1, DecidedAnswer
    <3> QED BY <1>0, <3>1, <3>2 DEF OrderOK, TypeOK
  <2> QED BY <2>1, <2>2
<1>6. TypeOK'
  <2>1. \A p \in Orders : pay'[p] \in Seq(FactNames)
    BY <1>0, <1>5, HistoryFacts DEF TypeOK
  <2>2. pay' \in [Orders -> Seq(FactNames)]
    <3>1. pay' = [p \in Orders |-> pay'[p]]
      BY <1>0, <1>2, <1>5 DEF TypeOK
    <3> QED BY <2>1, <3>1
  <2> QED BY <1>0, <1>2, <2>2 DEF TypeOK, PCs
<1>7. ASSUME NEW p \in Orders PROVE OrderOK(p)'
  <2>1. OrderOK(p) /\ UNCHANGED <<released, calls>>
    BY <1>2 DEF IInv
  <2>2. CASE p # o
    BY <1>5, <2>1, <2>2 DEF OrderOK
  <2>3. CASE p = o
    <3> HIDE DEF o, f
    <3>1. Authorized(pay[p]) => Authorized(pay'[p])
      BY <1>5, <2>1, <2>3, HistoryFacts DEF OrderOK
    <3>2. pay'[p] = Charged => calls[<<p, "capture">>] = 1
      BY <1>5, <2>1, <2>3, HistoryFacts DEF OrderOK
    <3>3. pay'[p] # <<>> => /\ released[p] \in {"pm_success", "pm_crash", "pm_decline"}
                            /\ pay'[p] = Refused <=> released[p] = "pm_decline"
      BY <1>5, <2>1, <2>3, HistoryFacts DEF OrderOK
    <3>4. pay'[p] \in Histories
      BY <1>5, <2>3
    <3>5. /\ \A x \in Ops : calls[<<p, x>>] <= 1
          /\ calls[<<p, "capture">>] = 1 => Authorized(pay'[p])
      BY <2>1, <3>1 DEF OrderOK
    <3> QED BY <2>1, <3>2, <3>3, <3>4, <3>5 DEF OrderOK
  <2> QED BY <2>2, <2>3
<1>8. ASSUME NEW q \in Runs PROVE /\ pay[OrderOf(q)] \in Histories
                                  /\ pay'[OrderOf(q)] \in Histories
                                  /\ \/ pay'[OrderOf(q)] = pay[OrderOf(q)]
                                     \/ pay[OrderOf(q)] = <<>>
                                     \/ pay[OrderOf(q)] = Held /\ pay'[OrderOf(q)] = Charged
  <2>1. OrderOf(q) \in Orders
    BY RunParts
  <2>2. OrderOK(OrderOf(q)) /\ OrderOK(OrderOf(q))'
    BY <1>7, <2>1 DEF IInv
  <2> QED BY <1>5, <2>1, <2>2 DEF OrderOK
<1>9. ASSUME NEW q \in Runs, q # r PROVE RunOK(q)'
  <2>1. /\ RunOK(q) /\ OrderOf(q) \in Orders
        /\ pc'[q] = pc[q] /\ UNCHANGED <<released, calls, op, seen, result>>
    BY <1>0, <1>2, <1>9, RunParts DEF IInv, TypeOK
  <2> QED BY <1>0, <1>8, <2>1, RunKept
<1>10. RunOK(r)'
  <2>1. Authorized(pay[o]) => Authorized(pay'[o])
    BY <1>5, <1>8, HistoryFacts
  <2>2. pc'[r] = "written" /\ UNCHANGED <<released, op, result>>
    BY <1>0, <1>2 DEF TypeOK
  <2> QED BY <1>0, <1>4, <1>5, <2>1, <2>2 DEF RunOK, OrderOf
<1> QED BY <1>6, <1>7, <1>9, <1>10 DEF IInv

(* The other steps of a run.                                               *)
LEMMA RunStepIInv ==
  ASSUME IInv, NEW r \in Runs, Advance(r) \/ TransportError(r)
  PROVE  IInv'
<1> DEFINE s == pay[OrderOf(r)]
<1>0. OrderOf(r) \in Orders /\ op[r] \in Ops /\ RunOK(r) /\ TypeOK /\ s \in Histories
  BY RunParts DEF IInv, TypeOK, OrderOK
<1>1. CASE Start(r)
  <2>1. TypeOK'
    BY <1>0, <1>1 DEF Start, TypeOK, PCs
  <2>2. RunOK(r)'
    BY <1>0, <1>1 DEF Start, TypeOK, RunOK, OrderOf
  <2> QED BY <1>0, <1>1, <2>1, <2>2, QuietStep DEF Start, TypeOK
<1>2. CASE AskDomain(r)
  <2>1. CASE Permission(r) = "yes"
    <3>1. /\ pc' = [pc EXCEPT ![r] = "allowed"] /\ pc[r] = "ready"
          /\ UNCHANGED <<released, pay, calls, dedup, op, seen, result, tries, faults>>
      BY <1>2, <2>1 DEF AskDomain
    <3>2. TypeOK'
      BY <1>0, <3>1 DEF TypeOK, PCs
    <3>3. RunOK(r)'
      BY <1>0, <3>1 DEF TypeOK, RunOK, OrderOf
    <3> QED BY <1>0, <3>1, <3>2, <3>3, QuietStep DEF TypeOK
  <2>2. CASE Permission(r) = "done"
    <3>1. ReturnRecorded(r) /\ pc[r] # "idle"
      BY <1>2, <2>2 DEF AskDomain
    <3> QED BY <2>2, <3>1, ReturnRecordedStep
  <2>3. CASE Permission(r) = "error"
    BY <1>0, <1>2, <2>3, FailedAttemptStep DEF AskDomain, TypeOK
  <2> QED BY <2>1, <2>2, <2>3 DEF Permission, MayAuthorize, MayCapture
<1>3. CASE CallGateway(r)
  BY <1>3, CallGatewayStep
<1>4. CASE ReadAgain(r)
  <2>1. CASE Permission(r) = "yes"
    <3>1. /\ seen' = [seen EXCEPT ![r] = Len(s)]
          /\ pc' = [pc EXCEPT ![r] = "decided"] /\ pc[r] = "answered"
          /\ UNCHANGED <<released, pay, calls, dedup, op, result, tries, faults>>
      BY <1>4, <2>1 DEF ReadAgain
    <3>2. Len(s) = IF op[r] = "authorize" THEN 0 ELSE 1
      <4>1. CASE op[r] = "authorize"
        <5>1. s = <<>>
          BY <2>1, <4>1 DEF Permission, MayAuthorize, Attempted
        <5> QED BY <4>1, <5>1, HistoryFacts
      <4>2. CASE op[r] = "capture"
        <5>1. Authorized(s) /\ ~Settled(s)
          BY <2>1, <4>2 DEF Permission, MayCapture
        <5>2. s = Held
          BY <1>0, <5>1, HistoryFacts
        <5> QED BY <4>2, <5>2, HistoryFacts
      <4> QED BY <1>0, <4>1, <4>2 DEF Ops
    <3> HIDE DEF s
    <3>3. TypeOK'
      BY <1>0, <3>1, <3>2 DEF TypeOK, PCs
    <3>4. Decision(r)' = Decision(r)
      BY <3>1 DEF Decision, OrderOf
    <3>5. RunOK(r)'
      BY <1>0, <3>1, <3>2, <3>4 DEF TypeOK, RunOK, OrderOf
    <3> QED BY <1>0, <3>1, <3>3, <3>5, QuietStep DEF TypeOK
  <2>2. CASE Permission(r) = "done"
    <3>1. ReturnRecorded(r) /\ pc[r] # "idle"
      BY <1>4, <2>2 DEF ReadAgain
    <3> QED BY <2>2, <3>1, ReturnRecordedStep
  <2>3. CASE Permission(r) = "error"
    BY <1>0, <1>4, <2>3, FailedAttemptStep DEF ReadAgain, TypeOK
  <2> QED BY <2>1, <2>2, <2>3 DEF Permission, MayAuthorize, MayCapture
<1>5. CASE AppendOnce(r)
  BY <1>5, AppendOnceStep
<1>6. CASE Checkpoint(r)
  <2>1. pc[r] = "written" /\ Has(s, FactOf(result[r]))
        /\ result[r] \in IF op[r] = "capture" THEN {"captured"} ELSE {"authorized", "declined"}
    BY <1>0, <1>6 DEF Checkpoint, RunOK
  <2>2. CASE result[r] = "authorized"
    <3>1. Authorized(s)
      BY <2>1, <2>2 DEF FactOf, Authorized
    <3>2. /\ op' = [op EXCEPT ![r] = "capture"] /\ pc'[r] \in {"yield", "ready"}
          /\ UNCHANGED <<released, pay, calls>>
      BY <1>0, <1>6, <2>2 DEF Checkpoint, TypeOK
    <3>3. TypeOK'
      BY <1>0, <1>6, <2>2 DEF Checkpoint, TypeOK, PCs, Ops
    <3>4. RunOK(r)'
      BY <1>0, <2>1, <3>1, <3>2 DEF TypeOK, RunOK, OrderOf
    <3> QED BY <1>0, <1>6, <2>2, <3>3, <3>4, QuietStep, ZenonT(60) DEF Checkpoint, TypeOK
  <2>3. CASE result[r] # "authorized"
    <3>1. Settled(s)
      BY <1>0, <2>1, <2>3 DEF FactOf, Settled, Ops
    <3>2. pc' = [pc EXCEPT ![r] = "done"] /\ UNCHANGED <<released, pay, calls, op, result>>
      BY <1>6, <2>3 DEF Checkpoint
    <3>3. TypeOK'
      BY <1>0, <1>6, <2>3 DEF Checkpoint, TypeOK, PCs
    <3>4. RunOK(r)'
      BY <1>0, <2>1, <3>1, <3>2 DEF TypeOK, RunOK, OrderOf
    <3> QED BY <1>0, <1>6, <3>2, <3>3, <3>4, QuietStep DEF Checkpoint, TypeOK
  <2> QED BY <2>2, <2>3
<1>7. CASE EnterWait(r)
  <2>1. TypeOK'
    BY <1>0, <1>7 DEF EnterWait, TypeOK, PCs
  <2>2. RunOK(r)'
    BY <1>0, <1>7 DEF EnterWait, TypeOK, RunOK, OrderOf
  <2> QED BY <1>0, <1>7, <2>1, <2>2, QuietStep DEF EnterWait, TypeOK
<1>8. CASE WaitTimeout(r)
  <2>1. TypeOK'
    BY <1>0, <1>8 DEF WaitTimeout, TypeOK, PCs
  <2>2. RunOK(r)'
    BY <1>0, <1>8 DEF WaitTimeout, TypeOK, RunOK, OrderOf
  <2> QED BY <1>0, <1>8, <2>1, <2>2, QuietStep DEF WaitTimeout, TypeOK
<1>9. CASE TransportError(r)
  <2>1. pc[r] # "idle" /\ FailedAttempt(r) /\ UNCHANGED <<calls, dedup>> /\ faults' \in Nat
    BY <1>0, <1>9 DEF TransportError, InStep, TypeOK
  <2> QED BY <2>1, FailedAttemptStep
<1> QED BY <1>1, <1>2, <1>3, <1>4, <1>5, <1>6, <1>7, <1>8, <1>9 DEF Advance
LEMMA InitIInv == Init => IInv
<1> SUFFICES ASSUME Init PROVE IInv
  OBVIOUS
<1>1. TypeOK
  BY EmptySeq DEF Init, TypeOK, PCs, Ops
<1>2. ASSUME NEW o \in Orders PROVE OrderOK(o)
  <2>1. pay[o] = <<>> /\ \A x \in Ops : calls[<<o, x>>] = 0
    BY DEF Init
  <2>2. calls[<<o, "capture">>] = 0
    BY <2>1 DEF Ops
  <2> QED BY <2>1, <2>2, HistoryFacts DEF OrderOK, Histories
<1>3. \A r \in Runs : RunOK(r)
  BY DEF Init, RunOK
<1> QED BY <1>1, <1>2, <1>3 DEF IInv

LEMMA NextIInv == IInv /\ [Next]_vars => IInv'
<1> SUFFICES ASSUME IInv, [Next]_vars PROVE IInv'
  OBVIOUS
<1>1. CASE \E r \in Runs : Advance(r) \/ TransportError(r)
  BY <1>1, RunStepIInv
<1>2. ASSUME NEW o \in Orders, Continue(o) PROVE IInv'
  <2>1. TypeOK'
    BY <1>2 DEF Continue, IInv, TypeOK, PCs
  <2>2. \A p \in Orders : OrderOK(p)'
    BY <1>2 DEF Continue, IInv, OrderOK
  <2>3. ASSUME NEW q \in Runs PROVE RunOK(q)'
    <3>1. /\ RunOK(q) /\ UNCHANGED <<released, pay, calls, op, seen, result>>
          /\ pc'[q] = pc[q] \/ (pc[q] = "parked" /\ pc'[q] = "ready")
      BY <1>2 DEF Continue, IInv
    <3>2. Decision(q)' = Decision(q)
      BY <3>1 DEF Decision, OrderOf
    <3> QED BY <3>1, <3>2 DEF RunOK, OrderOf
  <2> QED BY <2>1, <2>2, <2>3 DEF IInv
<1>3. CASE Crash
  <2>1. TypeOK'
    BY <1>3 DEF Crash, IInv, TypeOK, PCs
  <2>2. \A p \in Orders : OrderOK(p)'
    BY <1>3 DEF Crash, IInv, OrderOK
  <2>3. ASSUME NEW q \in Runs PROVE RunOK(q)'
    <3>1. RunOK(q) /\ UNCHANGED <<released, pay, calls, op>>
      BY <1>3 DEF Crash, IInv
    <3>2. CASE pc[q] \in InStep
      <4>1. pc[q] # "idle" /\ pc'[q] = "ready"
        BY <1>3, <3>2 DEF Crash, InStep
      <4> QED BY <3>1, <4>1 DEF RunOK, OrderOf
    <3>3. CASE pc[q] \notin InStep
      <4>1. pc'[q] = pc[q] /\ seen'[q] = seen[q] /\ result'[q] = result[q]
        BY <1>3, <3>3 DEF Crash
      <4>2. Decision(q)' = Decision(q)
        BY <3>1 DEF Decision, OrderOf
      <4> QED BY <3>1, <4>1, <4>2 DEF RunOK, OrderOf
    <3> QED BY <3>2, <3>3
  <2> QED BY <2>1, <2>2, <2>3 DEF IInv
<1>4. ASSUME NEW o \in Orders, NEW t \in Tokens, Release(o, t) PROVE IInv'
  <2>1. TypeOK'
    BY <1>4 DEF Release, IInv, TypeOK
  <2>2. /\ released[o] = "none" /\ released'[o] = t
        /\ \A p \in Orders : p # o => released'[p] = released[p]
        /\ UNCHANGED <<pay, calls, pc, op, seen, result>>
    BY <1>4 DEF Release, IInv, TypeOK
  <2>3. ASSUME NEW p \in Orders PROVE OrderOK(p)'
    <3>1. OrderOK(p)
      BY DEF IInv
    <3>2. pay[p] # <<>> => released'[p] = released[p]
      BY <2>2, <3>1 DEF OrderOK
    <3> QED BY <2>2, <3>1, <3>2 DEF OrderOK
  <2>4. ASSUME NEW q \in Runs PROVE RunOK(q)'
    <3>1. RunOK(q) /\ OrderOf(q) \in Orders
      BY RunParts DEF IInv
    <3>2. CASE pc[q] = "idle"
      BY <2>2, <3>1, <3>2 DEF RunOK, OrderOf
    <3>3. CASE pc[q] # "idle"
      <4>1. released'[OrderOf(q)] = released[OrderOf(q)]
        BY <2>2, <3>1, <3>3 DEF RunOK
      <4>2. Decision(q)' = Decision(q)
        BY <2>2, <4>1 DEF Decision, OrderOf
      <4> QED BY <2>2, <3>1, <4>1, <4>2 DEF RunOK, OrderOf
    <3> QED BY <3>2, <3>3
  <2> QED BY <2>1, <2>3, <2>4 DEF IInv
<1>5. CASE UNCHANGED vars
  <2>1. TypeOK' /\ \A p \in Orders : OrderOK(p)'
    BY <1>5 DEF vars, IInv, TypeOK, OrderOK
  <2>2. \A q \in Runs : RunOK(q)'
    BY <1>5 DEF vars, IInv, RunOK, OrderOf, Decision
  <2> QED BY <2>1, <2>2 DEF IInv
<1> QED BY <1>1, <1>2, <1>3, <1>4, <1>5 DEF Next, System

(* The strengthening the safety theorems rest on: an order's stream, its   *)
(* token and the gateway's ledger tell one story, and every run that holds *)
(* an answer holds the one that story allows.                              *)
THEOREM Invariance == Spec => []IInv
<1>1. Init => IInv
  BY InitIInv
<1>2. IInv /\ [Next]_vars => IInv'
  BY NextIInv
<1> QED BY <1>1, <1>2, PTL DEF Spec

-----------------------------------------------------------------------------
(* Type correctness, for any orders, deliveries and bounds.                *)
THEOREM TypeCorrect == Spec => []TypeOK
<1>1. IInv => TypeOK
  BY DEF IInv
<1> QED BY <1>1, Invariance, PTL

LEMMA StateFollowsStream == IInv => CardFollowsStream
<1> SUFFICES ASSUME IInv PROVE CardFollowsStream
  OBVIOUS
<1>1. OneSideEffect
  <2> SUFFICES ASSUME NEW o \in Orders, NEW x \in Ops PROVE calls[<<o, x>>] <= 1
    BY DEF OneSideEffect
  <2> QED BY DEF IInv, OrderOK
<1>2. OneAttempt
  BY DEF OneAttempt, IInv, OrderOK, Histories, Held, Refused, Charged
<1>3. ChargeFollowsHold
  <2> SUFFICES ASSUME NEW o \in Orders, calls[<<o, "capture">>] > 0
               PROVE  Authorized(pay[o])
    BY DEF ChargeFollowsHold
  <2>1. calls[<<o, "capture">>] \in Nat /\ calls[<<o, "capture">>] <= 1
    BY DEF IInv, TypeOK, OrderOK, Ops
  <2> QED BY <2>1 DEF IInv, OrderOK
<1>4. ResultIsRecorded
  BY DEF ResultIsRecorded, IInv, RunOK
<1>5. NoForeignConflict
  BY DecidedAnswer DEF NoForeignConflict
<1> QED BY <1>1, <1>2, <1>3, <1>4, <1>5 DEF CardFollowsStream

(* The card and the payment stream tell one story, however many deliveries *)
(* race each other through the gateway and wherever the worker dies: one   *)
(* hold, one charge after it and none after a decline, what a step returns *)
(* is what the stream says, and no append is ever refused.                 *)
THEOREM CardsFollowStreams == Spec => []CardFollowsStream
<1>1. IInv => CardFollowsStream
  BY StateFollowsStream
<1> QED BY <1>1, Invariance, PTL
-----------------------------------------------------------------------------
(* What Ordering may rely on: a step of Payments moves at most one order's *)
(* stream, only when it is released, and never one that is settled.        *)
LEMMA OneStreamMoves ==
  ASSUME IInv, System
  PROVE  /\ UNCHANGED released
         /\ \/ UNCHANGED pay
            \/ \E o \in Orders : /\ released[o] # "none"
                                 /\ ~Settled(pay[o])
                                 /\ \A p \in Orders \ {o} : pay'[p] = pay[p]
<1> DEFINE Q == /\ UNCHANGED released
                /\ \/ UNCHANGED pay
                   \/ \E o \in Orders : /\ released[o] # "none"
                                        /\ ~Settled(pay[o])
                                        /\ \A p \in Orders \ {o} : pay'[p] = pay[p]
<1>1. ASSUME UNCHANGED <<released, pay>> PROVE Q
  BY <1>1
<1>2. ASSUME NEW r \in Runs, AppendOnce(r) PROVE Q
  <2>1. OrderOf(r) \in Orders /\ RunOK(r) /\ TypeOK /\ pc[r] = "decided"
    BY <1>2, RunParts DEF IInv, AppendOnce
  <2>2. CASE UNCHANGED pay
    BY <1>2, <2>2 DEF AppendOnce, FailedAttempt
  <2>3. CASE ~(UNCHANGED pay)
    <3>1. /\ AppendAnswer(r) = "appended" /\ UNCHANGED released
          /\ pay' = [pay EXCEPT ![OrderOf(r)] = Append(@, FactOf(result[r]))]
      BY <1>2, <2>3 DEF AppendOnce, FailedAttempt
    <3>2. pay[OrderOf(r)] \in {<<>>, Held}
      BY <2>1, <3>1, DecidedAnswer
    <3>3. ~Settled(pay[OrderOf(r)])
      BY <3>2, HistoryFacts DEF Histories
    <3>4. released[OrderOf(r)] # "none"
      BY <2>1 DEF RunOK
    <3>5. \A p \in Orders \ {OrderOf(r)} : pay'[p] = pay[p]
      BY <2>1, <3>1 DEF TypeOK
    <3> QED BY <2>1, <3>1, <3>3, <3>4, <3>5
  <2> QED BY <2>2, <2>3
<1> HIDE DEF Q
<1>3. ASSUME NEW r \in Runs, Advance(r) \/ TransportError(r) PROVE Q
  <2>1. CASE AppendOnce(r)
    BY <1>2, <2>1
  <2>2. ASSUME Start(r) \/ AskDomain(r) \/ CallGateway(r) \/ ReadAgain(r)
        PROVE  UNCHANGED <<released, pay>>
    <3>0. Permission(r) \in {"yes", "done", "error"}
      BY DEF Permission, MayAuthorize, MayCapture
    <3>1. CASE Start(r)
      BY <3>1 DEF Start
    <3>2. CASE AskDomain(r)
      BY <3>0, <3>2 DEF AskDomain, FailedAttempt, ReturnRecorded
    <3>3. CASE CallGateway(r)
      BY <3>3 DEF CallGateway, FailedAttempt
    <3>4. CASE ReadAgain(r)
      BY <3>0, <3>4 DEF ReadAgain, FailedAttempt, ReturnRecorded
    <3> QED BY <2>2, <3>1, <3>2, <3>3, <3>4
  <2>3. ASSUME Checkpoint(r) \/ EnterWait(r) \/ WaitTimeout(r) PROVE UNCHANGED <<released, pay>>
    BY <2>3 DEF Checkpoint, EnterWait, WaitTimeout
  <2>4. ASSUME TransportError(r) PROVE UNCHANGED <<released, pay>>
    BY <2>4 DEF TransportError, FailedAttempt
  <2> QED BY <1>1, <1>3, <2>1, <2>2, <2>3, <2>4 DEF Advance
<1>4. Q
  BY <1>1, <1>3 DEF System, Continue, Crash
<1> QED BY <1>4 DEF Q

(* Ordering is told of at most one outcome, and it is what happened to the *)
(* card.                                                                   *)
LEMMA OutcomeMatchesCard ==
  ASSUME IInv, NEW o \in Orders
  PROVE  /\ Has(pay[o], "payment.captured") =>
              calls[<<o, "capture">>] = 1 /\ ~Has(pay[o], "payment.declined")
         /\ Has(pay[o], "payment.declined") => calls[<<o, "capture">>] = 0
<1>1. OrderOK(o) /\ pay[o] \in Histories
  BY DEF IInv, OrderOK
<1>2. calls[<<o, "capture">>] \in Nat /\ calls[<<o, "capture">>] <= 1
  BY <1>1 DEF IInv, TypeOK, OrderOK, Ops
<1>3. Has(pay[o], "payment.captured") => pay[o] = Charged /\ ~Has(pay[o], "payment.declined")
  BY <1>1, HistoryFacts
<1>4. Has(pay[o], "payment.declined") => ~Authorized(pay[o])
  BY <1>1, HistoryFacts
<1> QED BY <1>1, <1>2, <1>3, <1>4 DEF OrderOK
=============================================================================
