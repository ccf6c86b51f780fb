--------------------------- MODULE FraudDetection ---------------------------
(* fraud-detection/worker.ts and velocity.ts: one evaluation per            *)
(* transaction, with a counter per card kept by compare-and-swap and the    *)
(* chain of reasoning appended to the transaction's stream.  Scores are in  *)
(* hundredths.  The signals that read only the transaction are summed in    *)
(* tx.base; the velocity signal depends on the counter.                     *)
EXTENDS DurableFunctions

GeoRisk(ipMatches, merchantMatches) ==
  IF ~ipMatches /\ ~merchantMatches THEN 30 ELSE IF ~ipMatches \/ ~merchantMatches THEN 15 ELSE 0
DeviceRisk(known) == IF known THEN 0 ELSE 25
MerchantRisk(mcc) == IF mcc = "high" THEN 20 ELSE IF mcc = "medium" THEN 10 ELSE 0
VelocityRisk(count) == IF count > 5 THEN 35 ELSE IF count > 3 THEN 15 ELSE 0

Transaction(id, card, ip, merchant, known, mcc) ==
  [id |-> id, card |-> card,
   base |-> GeoRisk(ip, merchant) + DeviceRisk(known) + MerchantRisk(mcc)]

Score(tx, count) == LET raw == tx.base + VelocityRisk(count) IN IF raw > 100 THEN 100 ELSE raw
Action(tx, count) ==
  IF Score(tx, count) >= 50 THEN "decline" ELSE IF Score(tx, count) >= 15 THEN "challenge" ELSE "approve"

-----------------------------------------------------------------------------
CollectSignals == Step("collect-signals", <<>>)

(* Mutant: the new count is put whatever the revision is by then.           *)
CheckAndPut(tx) == Step("velocity-check", <<Get(tx.card), Put(tx.card, Newer)>>)

(* incrementVelocity: create or update at the revision read, and a          *)
(* rejected write throws an error the engine retries.                       *)
VelocityCheck(tx) == Step("velocity-check", <<Get(tx.card), Cas(tx.card)>>)

(* Two appends in one step: an execution after the first one repeats it.    *)
ScoreStep(tx) ==
  Step("score", <<Record(tx.id, "signals_collected", Version(0)), Record(tx.id, "model_scored", Version(1))>>)

Decide(tx) == Step("decide", <<Record(tx.id, "decision_made", Version(2))>>)

MaxCount == 8
Alert(tx) ==
  OnlyIf(Step("publish", <<Publish("fraud-alerts", "alerts")>>),
         "velocity-check", {n \in 1..MaxCount : Action(tx, n) # "approve"})

EvaluateFraud(tx) ==
  Function("fraud/evaluate", Request, <<CollectSignals, VelocityCheck(tx), ScoreStep(tx), Decide(tx), Alert(tx)>>)

Chain == <<"signals_collected", "model_scored", "decision_made">>

(* decision-stats: each decision is counted when its event is handled.      *)
DecisionStats ==
  LET CountDecision(total, f) == IF f.name = "decision_made" THEN total + 1 ELSE total
  IN Folded(CountDecision, 0, log)

-----------------------------------------------------------------------------
Evaluations == {r \in Runs : job[r].id = "fraud/evaluate"}
Txn(r) == job[r].steps[4].does[1].on
Card(r) == job[r].steps[2].does[1].on

(* Evaluations of one card that race never count the same transaction       *)
(* number twice, and the counter has counted every one of them, however     *)
(* often a check was executed again.                                        *)
CountsAreDistinct ==
  \A r, q \in Evaluations :
    /\ Card(r) = Card(q) /\ Did(r, "velocity-check") /\ Did(q, "velocity-check")
    => /\ Memo(r, "velocity-check") <= cell[Card(r)]
       /\ r # q => Memo(r, "velocity-check") # Memo(q, "velocity-check")

(* The reasoning on a transaction's stream is a beginning of the chain,     *)
(* each link once, though the transaction is delivered twice and steps are  *)
(* executed again; a completed evaluation has all of it, an alert goes out  *)
(* only after the decision it reports, and the statistics count each        *)
(* transaction that was decided once.                                       *)
ReasoningIsAChain ==
  /\ \A r \in Evaluations :
       /\ \A i \in Stream(Txn(r)) : VersionOf(i) <= 3 /\ log[i].name = Chain[VersionOf(i)]
       /\ run[r].mode = "completed" => StreamVersion(Txn(r)) = 3
  /\ \A i \in DOMAIN log : log[i].name = "fraud-alerts" =>
       \E j \in 1..(i - 1) : log[j].name = "decision_made" /\ log[j].by = log[i].by
  /\ DecisionStats = Cardinality({Txn(r) : r \in {q \in Evaluations : StreamVersion(Txn(q)) = 3}})
=============================================================================
