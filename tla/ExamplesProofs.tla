--------------------------- MODULE ExamplesProofs ---------------------------
(* Proofs about the examples: how the reconciliation agent splits a         *)
(* statement into cases (StatementMatching, as Reconciliation uses it),     *)
(* what the live pointer of financial-rag may name, which failures the      *)
(* notifier alerts on, which decision of a gate counts, how often           *)
(* fraud-detection counts a transaction, what the agents do unasked, and    *)
(* what relates any run to its answers and to the facts it appended.        *)
EXTENDS Examples, FinancialRag, FiniteSetTheorems, SequenceTheorems, WellFoundedInduction, TLAPS

-----------------------------------------------------------------------------
(* Statement matching, for statements and rules of any number: no line is   *)
(* lost or asked about twice, rules stay with their counterparties, and     *)
(* what was confirmed is not asked about again.                             *)

(* A list of rules that learnRule made.                                     *)
RuleList(list) ==
  \E S : /\ list \in Seq(S)
         /\ \A i \in DOMAIN list :
              list[i].key = Matching!ruleKey(list[i].counterparty, list[i].predicate)

-----------------------------------------------------------------------------
(* Every line is matched or in the one case of its counterparty, and two    *)
(* counterparties have two cases even where their slugs are the same.       *)
THEOREM LinesArePlaced ==
  ASSUME NEW st, NEW list
  PROVE  Matching!EachLineIsPlaced(st, list)
<1> DEFINE named == {st.transactions[i].counterparty : i \in Matching!residue(st, list)}
<1>1. Matching!clusters(st, list) = {Matching!Cluster(st, list, c) : c \in named}
  BY DEF Matching!clusters
<1>2. \A c : /\ Matching!Cluster(st, list, c).transactions = Matching!byCounterparty(st, list, c)
             /\ Matching!Cluster(st, list, c).counterparty = c
             /\ Matching!Cluster(st, list, c).caseId = <<"case", st.periodStart, c[1], c>>
  BY DEF Matching!Cluster, Matching!caseIdFor
<1>3. \A i : i \in Matching!residue(st, list) => i \in DOMAIN st.transactions
  BY DEF Matching!residue
<1>4. ASSUME NEW i \in DOMAIN st.transactions
      PROVE  i \in Matching!matched(st, list) <=> \A k \in Matching!clusters(st, list) : i \notin k.transactions
  <2>1. CASE i \in Matching!residue(st, list)
    <3>1. Matching!Cluster(st, list, st.transactions[i].counterparty) \in Matching!clusters(st, list)
      BY <2>1, <1>1
    <3>2. i \in Matching!Cluster(st, list, st.transactions[i].counterparty).transactions
      BY <2>1, <1>2 DEF Matching!byCounterparty
    <3> QED
      BY <2>1, <3>1, <3>2 DEF Matching!matched
  <2>2. CASE i \notin Matching!residue(st, list)
    BY <2>2, <1>1, <1>2 DEF Matching!matched, Matching!byCounterparty
  <2> QED
    BY <2>1, <2>2
<1>5. ASSUME NEW i \in DOMAIN st.transactions, NEW k \in Matching!clusters(st, list), i \in k.transactions
      PROVE  st.transactions[i].counterparty = k.counterparty
  <2>1. PICK c \in named : k = Matching!Cluster(st, list, c)
    BY <1>1
  <2>2. k.transactions = Matching!byCounterparty(st, list, c) /\ k.counterparty = c
    BY <2>1, <1>2
  <2> QED
    BY <2>2, <1>5 DEF Matching!byCounterparty
<1>6. ASSUME NEW k \in Matching!clusters(st, list), NEW l \in Matching!clusters(st, list),
             k.caseId = l.caseId
      PROVE  k = l
  <2>1. PICK c \in named : k = Matching!Cluster(st, list, c)
    BY <1>1
  <2>2. PICK d \in named : l = Matching!Cluster(st, list, d)
    BY <1>1
  <2>3. c = d
    <3>1. /\ k.caseId = <<"case", st.periodStart, c[1], c>>
          /\ l.caseId = <<"case", st.periodStart, d[1], d>>
      BY <1>2, <2>1, <2>2
    <3>2. <<"case", st.periodStart, c[1], c>> = <<"case", st.periodStart, d[1], d>>
      BY <3>1, <1>6
    <3> QED
      BY <3>2
  <2> QED
    BY <2>1, <2>2, <2>3
<1> QED
  BY <1>4, <1>5, <1>6 DEF Matching!EachLineIsPlaced

-----------------------------------------------------------------------------
(* What a list settles, the list with one more rule settles by the same     *)
(* rule, and that rule settles nothing of another counterparty.             *)
LEMMA SettlingGrows ==
  ASSUME NEW S, NEW list \in Seq(S), NEW r, NEW t
  PROVE  LET after == Append(list, r) IN
           /\ Matching!Settling(list, t) \subseteq Matching!Settling(after, t)
           /\ Matching!Settling(after, t) \subseteq Matching!Settling(list, t) \cup {Len(list) + 1}
           /\ t.counterparty # r.counterparty => Matching!Settling(after, t) = Matching!Settling(list, t)
           /\ \A i \in DOMAIN list : after[i] = list[i]
<1> DEFINE after == Append(list, r)
<1>1. /\ DOMAIN list = 1..Len(list) /\ Len(list) \in Nat
      /\ DOMAIN after = 1..(Len(list) + 1)
      /\ after[Len(list) + 1] = r
      /\ \A i \in 1..Len(list) : after[i] = list[i]
  <2>1. list \in Seq(S \cup {r}) /\ r \in S \cup {r}
    BY SMT
  <2> HIDE DEF after
  <2> QED
    BY <2>1, SMT DEF after
<1> HIDE DEF after
<1>2. Matching!Settling(list, t) \subseteq Matching!Settling(after, t)
  BY <1>1 DEF Matching!Settling
<1>3. Matching!Settling(after, t) \subseteq Matching!Settling(list, t) \cup {Len(list) + 1}
  BY <1>1 DEF Matching!Settling
<1>4. ASSUME t.counterparty # r.counterparty
      PROVE  Matching!Settling(after, t) = Matching!Settling(list, t)
  BY <1>1, <1>4 DEF Matching!Settling
<1> QED
  BY <1>1, <1>2, <1>3, <1>4 DEF after

(* The first rule that settles a line is still the first one.              *)
LEMMA FirstRuleStays ==
  ASSUME NEW S, NEW list \in Seq(S), NEW r, NEW t, Matching!Settling(list, t) # {}
  PROVE  Matching!ruleFor(Append(list, r), t) = Matching!ruleFor(list, t)
<1>1. Matching!Settling(list, t) \subseteq 1..Len(list) /\ Len(list) \in Nat
  BY DEF Matching!Settling
<1>2. /\ Matching!Settling(list, t) \subseteq Matching!Settling(Append(list, r), t)
      /\ Matching!Settling(Append(list, r), t) \subseteq Matching!Settling(list, t) \cup {Len(list) + 1}
  BY SettlingGrows
<1>3. PICK n \in Matching!Settling(list, t) : n \in 1..Len(list)
  BY <1>1
<1> QED
  BY <1>1, <1>2, <1>3 DEF Matching!ruleFor

(* A confirmed rule only adds to what is matched, by the rules that did it, *)
(* and leaves the cases of the other counterparties alone.                  *)
THEOREM RulesAreLocal ==
  ASSUME NEW st, NEW list, RuleList(list), NEW r
  PROVE  Matching!LearningIsLocal(st, list, r)
<1>1. PICK S : list \in Seq(S)
  BY DEF RuleList
<1>2. CASE Matching!curated(list, r) = list
  BY <1>2 DEF Matching!LearningIsLocal
<1>3. CASE Matching!curated(list, r) = Append(list, r)
  <2> DEFINE after == Append(list, r)
  <2>1. \A t : /\ Matching!Settling(list, t) \subseteq Matching!Settling(after, t)
               /\ t.counterparty # r.counterparty => Matching!Settling(after, t) = Matching!Settling(list, t)
    BY <1>1, SettlingGrows
  <2>2. \A i \in DOMAIN list : after[i] = list[i]
    BY <1>1, SettlingGrows
  <2>3. \A t : Matching!Settling(list, t) # {} => Matching!ruleFor(after, t) = Matching!ruleFor(list, t)
    BY <1>1, FirstRuleStays
  <2> HIDE DEF after
  <2>4. Matching!residue(st, after) \subseteq Matching!residue(st, list)
    BY <2>1 DEF Matching!residue
  <2>5. Matching!matched(st, list) \subseteq Matching!matched(st, after)
    BY <2>4 DEF Matching!matched
  <2>6. ASSUME NEW key \in Matching!rulesApplied(st, list)
        PROVE  key \in Matching!rulesApplied(st, after)
    <3>1. PICK i, n : /\ i \in Matching!matched(st, list) /\ ~Matching!matchesDeterministically(st, i)
                      /\ n \in Matching!ruleFor(list, st.transactions[i]) /\ key = list[n].key
      BY <2>6 DEF Matching!rulesApplied
    <3>2. Matching!Settling(list, st.transactions[i]) # {} /\ n \in DOMAIN list
      BY <3>1 DEF Matching!ruleFor, Matching!Settling
    <3>3. n \in Matching!ruleFor(after, st.transactions[i]) /\ key = after[n].key
      BY <3>1, <3>2, <2>2, <2>3
    <3>4. i \in Matching!matched(st, after)
      BY <3>1, <2>5
    <3> QED
      BY <3>1, <3>3, <3>4 DEF Matching!rulesApplied
  <2>7. ASSUME NEW c, c # r.counterparty
        PROVE  Matching!byCounterparty(st, list, c) = Matching!byCounterparty(st, after, c)
    BY <2>1, <2>7 DEF Matching!byCounterparty, Matching!residue
  <2>8. Matching!curated(list, r) = after
    BY <1>3 DEF after
  <2> QED
    BY <2>5, <2>6, <2>7, <2>8 DEF Matching!LearningIsLocal
<1> QED
  BY <1>2, <1>3 DEF Matching!curated

-----------------------------------------------------------------------------
(* Whether its rule is new or was in the list, a confirmed case leaves none *)
(* of its counterparty's lines of that kind to be asked about.              *)
THEOREM ConfirmedStaysSettled ==
  ASSUME NEW st, NEW list, RuleList(list)
  PROVE  Matching!ConfirmedIsSettled(st, list)
<1>1. PICK S : list \in Seq(S)
  BY DEF RuleList
<1>2. SUFFICES ASSUME NEW k \in Matching!clusters(st, list)
               PROVE  \A i \in Matching!byCounterparty(st, Matching!curated(list, Matching!Confirmed(k, "action")),
                                                       k.counterparty) :
                        ~Matching!StartsWith(st.transactions[i].label, <<"ADJ-">>)
  BY DEF Matching!ConfirmedIsSettled
<1> DEFINE p == [kind |-> "label-prefix", prefix |-> <<"ADJ-">>]
           r == Matching!Confirmed(k, "action")
           after == Matching!curated(list, r)
<1>3. r.key = <<k.counterparty, p>> /\ r.counterparty = k.counterparty /\ r.predicate = p
  BY DEF Matching!Confirmed, Matching!learnRule, Matching!ruleKey
<1>4. \E n \in DOMAIN after : after[n].counterparty = k.counterparty /\ after[n].predicate = p
  <2>1. CASE \E i \in DOMAIN list : list[i].key = r.key
    <3>1. after = list
      BY <2>1 DEF Matching!curated
    <3>2. PICK i \in DOMAIN list : list[i].key = r.key
      BY <2>1
    <3>3. <<list[i].counterparty, list[i].predicate>> = <<k.counterparty, p>>
      BY <3>2, <1>3 DEF RuleList, Matching!ruleKey
    <3> HIDE DEF p, r, after
    <3> QED
      BY <3>1, <3>3
  <2>2. CASE ~\E i \in DOMAIN list : list[i].key = r.key
    <3>1. after = Append(list, r)
      BY <2>2 DEF Matching!curated
    <3>2. list \in Seq(S \cup {r}) /\ r \in S \cup {r}
      BY <1>1
    <3> HIDE DEF p, r, after
    <3>3. Len(list) + 1 \in DOMAIN after /\ after[Len(list) + 1] = r
      BY <3>1, <3>2
    <3> QED
      BY <3>3, <1>3
  <2> QED
    BY <2>1, <2>2
<1>5. ASSUME NEW i \in Matching!byCounterparty(st, after, k.counterparty),
             Matching!StartsWith(st.transactions[i].label, <<"ADJ-">>)
      PROVE  FALSE
  <2>1. Matching!Settling(after, st.transactions[i]) = {} /\ st.transactions[i].counterparty = k.counterparty
    BY <1>5 DEF Matching!byCounterparty, Matching!residue
  <2>2. Matching!predicateMatches(p, st.transactions[i])
    BY <1>5 DEF Matching!predicateMatches
  <2> HIDE DEF p, r, after
  <2> QED
    BY <1>4, <2>1, <2>2 DEF Matching!Settling
<1> QED
  BY <1>5

-----------------------------------------------------------------------------
(* financial-rag: the invariant follows one version from the score that     *)
(* lets it pass, through its verdict, to the promotion that writes and      *)
(* verifies the pointer.                                                    *)

(* Versions are numbers wherever they are carried.                          *)
Numbers ==
  /\ "version" \in DOMAIN poll /\ poll.version \in Nat
  /\ \A c \in closed : c.version \in Nat
  /\ eval \in [pc : {"idle", "score", "verdict"}, version : Nat, batch : {eval.batch}, passed : BOOLEAN]
  /\ \A w \in verdicts : w.version \in Nat
  /\ promote \in [pc : {"idle", "read", "advance", "verify", "compensate"}, version : Nat, previous : Nat]
  /\ pointer \in Nat /\ verified \subseteq Nat

(* The figures the golden set asks for are in the version, and stay there.  *)
Had(v) == \E a \in shown : a.kind = "row" /\ a.version = v /\ a.doc = Newest /\ a.content = 1
Passed(v) == \E w \in verdicts : w.passed /\ w.version = v

Scored ==
  /\ eval.passed => Had(eval.version)
  /\ scope # 0 => scope = eval.version
  /\ \A w \in verdicts : w.passed => Had(w.version)

Gated ==
  /\ promote.pc # "idle" => Passed(promote.version)
  /\ promote.pc \in {"advance", "verify", "compensate"} => promote.previous = 0 \/ Passed(promote.previous)
  /\ pointer = 0 \/ Passed(pointer)

(* Where the pointer is in each phase of a promotion.                       *)
Accounted(v) == v = 0 \/ v \in verified \cup doubt
Below(v) == \A w \in verified : w <= v

Phases ==
  /\ promote.pc \in {"idle", "read"} => Accounted(pointer) /\ Below(pointer)
  /\ promote.pc \in {"advance", "verify", "compensate"} =>
       promote.previous < promote.version /\ Accounted(promote.previous) /\ Below(promote.previous)
  /\ promote.pc = "advance" => \/ pointer = promote.previous
                               \/ pointer = promote.version /\ promote.version \in doubt
  /\ promote.pc = "verify" => pointer = promote.version
  /\ promote.pc = "compensate" => pointer \in {promote.version, promote.previous}

RagInv == Numbers /\ Scored /\ Gated /\ Phases

-----------------------------------------------------------------------------
(* Nothing is live at first.                                                *)
LEMMA InitRagInv == InitRag => RagInv
  BY DEF InitRag, createSchema, RagInv, Numbers, Scored, Gated, Phases, Had, Passed, Accounted, Below, NoPoll,
         NoEval, NoPromotion

(* What neither scores nor promotes and takes nothing out of the            *)
(* projections or the verdicts.                                             *)
LEMMA RagQuietStep ==
  ASSUME RagInv, Numbers', UNCHANGED <<eval, scope, verdicts, promote, pointer, verified, doubt>>, shown \subseteq shown'
  PROVE  RagInv'
  BY DEF RagInv, Scored, Gated, Phases, Had, Passed, Accounted, Below

(* The poll's steps: the version of a batch is a number.                    *)
LEMMA PollSteps == ASSUME RagInv, PollStep \/ FailPoll PROVE RagInv'
<1>1. UNCHANGED <<eval, scope, verdicts, promote, pointer, verified, doubt, shown>>
  BY DEF PollStep, FailPoll, ListSource, DiffSeen, OpenBatch, CountParsed, CloseBatch, AppendVersion, pollRest
<1>2. "version" \in DOMAIN poll' /\ poll'.version \in Nat
  <2>1. CASE ListSource \/ FailPoll
    <3>1. "version" \in DOMAIN NoPoll /\ NoPoll.version \in Nat
      BY DEF NoPoll
    <3>2. poll' = NoPoll \/ poll' = [NoPoll EXCEPT !.pc = "diff", !.source = files]
      BY <2>1 DEF ListSource, FailPoll
    <3> QED BY <3>1, <3>2
  <2>2. CASE DiffSeen
    BY <2>2 DEF DiffSeen, NoPoll, RagInv, Numbers
  <2>3. CASE OpenBatch
    BY <2>3, RagAssumption DEF OpenBatch, Versions, RagInv, Numbers
  <2>4. CASE CountParsed
    BY <2>4 DEF CountParsed, RagInv, Numbers
  <2>5. ASSUME NEW a \in BOOLEAN, CloseBatch(a) PROVE "version" \in DOMAIN poll' /\ poll'.version \in Nat
    BY <2>5 DEF CloseBatch, NoPoll, RagInv, Numbers
  <2>6. ASSUME NEW a \in BOOLEAN, NEW d \in Docs, AppendVersion(d, a)
        PROVE "version" \in DOMAIN poll' /\ poll'.version \in Nat
    BY <2>6 DEF AppendVersion, RagInv, Numbers
  <2> QED BY <2>1, <2>2, <2>3, <2>4, <2>5, <2>6 DEF PollStep
<1>3. \A c \in closed' : c.version \in Nat
  <2>1. ASSUME NEW a \in BOOLEAN, CloseBatch(a) PROVE \A c \in closed' : c.version \in Nat
    BY <2>1 DEF CloseBatch, RagInv, Numbers
  <2>2. (\E a \in BOOLEAN : CloseBatch(a)) \/ closed' = closed
    BY DEF PollStep, FailPoll, ListSource, DiffSeen, OpenBatch, CountParsed, AppendVersion, pollRest
  <2> QED BY <2>1, <2>2 DEF RagInv, Numbers
<1>4. Numbers'
  BY <1>1, <1>2, <1>3 DEF RagInv, Numbers
<1> QED BY <1>1, <1>4, RagQuietStep

(* Filings, parses and projections; the projections only grow.              *)
LEMMA IngestSteps ==
  ASSUME RagInv,
         \/ \E d \in Docs : PutFiling(d)
         \/ \E f \in Docs \X Contents : ParseStep(f) \/ FailParse(f)
         \/ ProjectDocuments \/ \E a \in artifacts : Index(a)
  PROVE  RagInv'
<1>1. UNCHANGED <<eval, scope, verdicts, promote, pointer, verified, doubt, poll, closed>> /\ shown \subseteq shown'
  BY DEF PutFiling, ParseStep, FailParse, ProjectDocuments, Index, FetchPdf, EmitArtifact, ReportParsed, parseRest
<1>2. Numbers'
  BY <1>1 DEF RagInv, Numbers
<1> QED BY <1>1, <1>2, RagQuietStep

(* A crash takes the version the tools read, and nothing of the above.      *)
LEMMA CrashStep == ASSUME RagInv, CrashWorker PROVE RagInv'
  BY DEF CrashWorker, RagInv, Numbers, Scored, Gated, Phases, Had, Passed, Accounted, Below

-----------------------------------------------------------------------------
(* What an evaluation lets pass was there to be read: while it scores, the  *)
(* tools read the version it scores.                                        *)
LEMMA ReadsItsVersion ==
  ASSUME RagInv, scope # 0, Answerable
  PROVE  Had(eval.version)
<1>1. resolveVersion(0) = eval.version
  BY DEF resolveVersion, RagInv, Scored
<1>2. PICK a \in queryTable(0) : a.doc = Newest /\ a.content = 1
  BY DEF Answerable
<1>3. a \in shown /\ a.kind = "row" /\ a.version = eval.version
  BY <1>1, <1>2 DEF queryTable, supersede
<1> QED BY <1>2, <1>3 DEF Had

LEMMA EvalSteps == ASSUME RagInv, EvalStep \/ FailEval PROVE RagInv'
<1> USE DEF RagInv
<1>1. UNCHANGED <<shown, poll, closed, promote, pointer, verified, doubt>>
  BY DEF EvalStep, FailEval, ResumeEval, ScoreVersion, RunEval, EmitVerdict, evalRest
<1>2. ASSUME NEW c \in closed, RunEval(c) PROVE Numbers' /\ Scored' /\ verdicts \subseteq verdicts'
  BY <1>1, <1>2 DEF RunEval, Numbers, Scored, Had
<1>3. ASSUME ResumeEval PROVE Numbers' /\ Scored' /\ verdicts \subseteq verdicts'
  BY <1>1, <1>3 DEF ResumeEval, Numbers, Scored, Had
<1>4. ASSUME ScoreVersion PROVE Numbers' /\ Scored' /\ verdicts \subseteq verdicts'
  <2>1. PICK passed \in BOOLEAN : /\ passed => Answerable
                                  /\ eval' = [eval EXCEPT !.pc = "verdict", !.passed = passed]
    BY <1>4 DEF ScoreVersion, answerQuestion, passesGate, numericMatch
  <2>2. passed => Had(eval.version)
    BY <1>4, <2>1, ReadsItsVersion DEF ScoreVersion
  <2>3. eval'.version = eval.version /\ eval'.passed = passed /\ UNCHANGED <<scope, verdicts>>
    BY <1>4, <2>1 DEF ScoreVersion, Numbers
  <2>4. Numbers'
    BY <1>1, <2>1, <2>3 DEF Numbers
  <2>5. Scored'
    BY <1>1, <2>2, <2>3 DEF Scored, Had
  <2> QED BY <2>3, <2>4, <2>5
<1>5. ASSUME NEW a \in BOOLEAN, EmitVerdict(a) PROVE Numbers' /\ Scored' /\ verdicts \subseteq verdicts'
  <2>1. \A w \in verdicts' : w \in verdicts \/ (w.version = eval.version /\ w.passed = eval.passed)
    <3>1. verdicts' \subseteq verdicts \cup {[batch |-> eval.batch, version |-> eval.version, passed |-> eval.passed]}
      BY <1>5 DEF EmitVerdict
    <3> QED BY <3>1
  <2>2. (eval' = eval /\ scope' = scope) \/ (eval' = NoEval /\ scope' = 0)
    BY <1>5 DEF EmitVerdict
  <2>3. Numbers'
    <3>1. eval' \in [pc : {"idle", "score", "verdict"}, version : Nat, batch : {eval'.batch}, passed : BOOLEAN]
      <4>1. CASE eval' = eval
        BY <4>1 DEF Numbers
      <4>2. CASE eval' = NoEval
        <5>1. NoEval.batch = 0 /\ NoEval \in [pc : {"idle", "score", "verdict"}, version : Nat, batch : {0},
                                              passed : BOOLEAN]
          BY DEF NoEval
        <5> QED BY <4>2, <5>1
      <4> QED BY <2>2, <4>1, <4>2
    <3>2. \A w \in verdicts' : w.version \in Nat
      BY <2>1 DEF Numbers
    <3> QED BY <1>1, <3>1, <3>2 DEF Numbers
  <2>4. Scored'
    BY <1>1, <2>1, <2>2 DEF Scored, Had, NoEval
  <2> QED BY <1>5, <2>3, <2>4 DEF EmitVerdict
<1>6. ASSUME FailEval PROVE Numbers' /\ Scored' /\ verdicts \subseteq verdicts'
  BY <1>1, <1>6 DEF FailEval, NoEval, Numbers, Scored, Had
<1>7. Numbers' /\ Scored' /\ verdicts \subseteq verdicts'
  BY <1>2, <1>3, <1>4, <1>5, <1>6 DEF EvalStep, ResumeEval, FailEval, ScoreVersion
<1>8. Gated'
  BY <1>1, <1>7 DEF Gated, Passed
<1>9. Phases'
  BY <1>1 DEF Phases, Accounted, Below
<1> QED BY <1>7, <1>8, <1>9

-----------------------------------------------------------------------------
(* The promotion, one phase at a time.  Its steps leave what was scored.    *)
LEMMA PromoteSteps == ASSUME RagInv, PromoteStep \/ FailPromotion PROVE RagInv'
<1> USE DEF RagInv
<1>1. UNCHANGED <<eval, scope, verdicts, shown, poll, closed>>
  BY DEF PromoteStep, FailPromotion, PromoteIndex, ReadPointer, AdvancePointer, VerifyLive, Compensate, promoteRest
<1>2. Scored'
  BY <1>1 DEF Scored, Had
<1>3. ASSUME NEW v \in verdicts, PromoteIndex(v) PROVE Numbers' /\ Gated' /\ Phases'
  BY <1>1, <1>3 DEF PromoteIndex, NoPromotion, Numbers, Gated, Passed, Phases, Accounted, Below
<1>4. ASSUME ReadPointer PROVE Numbers' /\ Gated' /\ Phases'
  <2>1. CASE promote' = NoPromotion
    BY <1>1, <1>4, <2>1 DEF ReadPointer, NoPromotion, Numbers, Gated, Passed, Phases, Accounted, Below
  <2>2. CASE ~(pointer >= promote.version)
    <3>1. promote.pc = "read" /\ UNCHANGED <<pointer, verified, doubt>>
      BY <1>4 DEF ReadPointer
    <3>2. promote' = [promote EXCEPT !.pc = "advance", !.previous = pointer]
      BY <1>4, <2>2 DEF ReadPointer
    <3>3. Numbers'
      BY <1>1, <3>1, <3>2 DEF Numbers
    <3>4. promote'.pc = "advance" /\ promote'.version = promote.version /\ promote'.previous = pointer
      BY <3>2 DEF Numbers
    <3>5. promote.version \in Nat /\ pointer \in Nat
      BY DEF Numbers
    <3>6. Gated'
      BY <1>1, <3>1, <3>4 DEF Gated, Passed
    <3>7. Phases'
      BY <2>2, <3>1, <3>4, <3>5 DEF Phases, Accounted, Below
    <3> QED BY <3>3, <3>6, <3>7
  <2> QED BY <1>4, <2>1, <2>2 DEF ReadPointer
<1>5. ASSUME NEW a \in BOOLEAN, AdvancePointer(a) PROVE Numbers' /\ Gated' /\ Phases'
  <2>1. CASE ~a
    BY <1>1, <1>5, <2>1 DEF AdvancePointer, Doubt, Numbers, Gated, Passed, Phases, Accounted, Below
  <2>2. CASE a /\ pointer = promote.previous
    BY <1>1, <1>5, <2>2 DEF AdvancePointer, Doubt, Numbers, Gated, Passed, Phases, Accounted, Below
  <2>3. CASE a /\ pointer # promote.previous
    BY <1>1, <1>5, <2>3 DEF AdvancePointer, Doubt, NoPromotion, Numbers, Gated, Passed, Phases, Accounted, Below
  <2> QED BY <2>1, <2>2, <2>3
<1>6. ASSUME NEW a \in BOOLEAN, VerifyLive(a) PROVE Numbers' /\ Gated' /\ Phases'
  <2>1. CASE promote' = NoPromotion
    BY <1>1, <1>6, <2>1 DEF VerifyLive, NoPromotion, Numbers, Gated, Passed, Phases, Accounted, Below
  <2>2. CASE promote' # NoPromotion
    BY <1>1, <1>6, <2>2 DEF VerifyLive, Numbers, Gated, Passed, Phases, Accounted, Below
  <2> QED BY <2>1, <2>2
<1>7. ASSUME NEW a \in BOOLEAN, Compensate(a) PROVE Numbers' /\ Gated' /\ Phases'
  <2>1. CASE a
    BY <1>1, <1>7, <2>1 DEF Compensate, Doubt, NoPromotion, Numbers, Gated, Passed, Phases, Accounted, Below
  <2>2. CASE ~a
    BY <1>1, <1>7, <2>2 DEF Compensate, Doubt, Numbers, Gated, Passed, Phases, Accounted, Below
  <2> QED BY <2>1, <2>2
<1>8. ASSUME FailPromotion PROVE Numbers' /\ Gated' /\ Phases'
  BY <1>1, <1>8 DEF FailPromotion, Doubt, NoPromotion, Numbers, Gated, Passed, Phases, Accounted, Below
<1>9. Numbers' /\ Gated' /\ Phases'
  BY <1>3, <1>4, <1>5, <1>6, <1>7, <1>8 DEF PromoteStep
<1> QED BY <1>2, <1>9

LEMMA RagNextInv == ASSUME RagInv, [RagNext]_ragVars PROVE RagInv'
<1>1. CASE UNCHANGED ragVars
  BY <1>1 DEF ragVars, RagInv, Numbers, Scored, Gated, Phases, Had, Passed, Accounted, Below
<1>2. CASE RagNext
  BY <1>2, PollSteps, IngestSteps, EvalSteps, PromoteSteps, CrashStep DEF RagNext
<1> QED BY <1>1, <1>2

(* The invariant holds in every behaviour of financial-rag.                 *)
THEOREM RagInvariance == RagSpec => []RagInv
BY InitRagInv, RagNextInv, PTL DEF RagSpec

(* Whatever is live passed its evaluation and has the figures it asks for.  *)
THEOREM LiveIndexesAnswer == RagSpec => []LiveIndexAnswers
<1>1. RagInv => LiveIndexAnswers
  BY DEF RagInv, Scored, Gated, Passed, Had, LiveIndexAnswers
<1> QED BY <1>1, RagInvariance, PTL

(* Whatever a promotion leaves live was seen answering, or a fault or an    *)
(* evaluation touched that promotion.                                       *)
THEOREM PublishedIndexesAreVerified == RagSpec => []PublishedIsVerified
<1>1. RagInv => PublishedIsVerified
  BY DEF RagInv, Phases, Accounted, PublishedIsVerified
<1> QED BY <1>1, RagInvariance, PTL

(* The pointer moves back only by the promotion that moved it, before it    *)
(* was verified.                                                            *)
THEOREM RollbacksAreOwn == RagSpec => RollbackIsOwn
<1> DEFINE Own == pointer' < pointer => /\ promote.pc = "compensate" /\ pointer = promote.version
                                        /\ pointer' = promote.previous /\ pointer \notin verified
<1>1. ASSUME RagInv, [RagNext]_ragVars PROVE [Own]_ragVars
  <2>1. CASE UNCHANGED pointer
    BY <1>1, <2>1 DEF RagInv, Numbers
  <2>2. ASSUME NEW a \in BOOLEAN, AdvancePointer(a) PROVE Own
    BY <1>1, <2>2 DEF AdvancePointer, RagInv, Numbers, Phases
  <2>3. ASSUME NEW a \in BOOLEAN, Compensate(a) PROVE Own
    BY <1>1, <2>3 DEF Compensate, RagInv, Numbers, Phases, Below
  <2>4. (\E a \in BOOLEAN : AdvancePointer(a) \/ Compensate(a)) \/ UNCHANGED pointer
    BY <1>1 DEF RagNext, ragVars, PutFiling, PollStep, ListSource, DiffSeen, OpenBatch, CountParsed, CloseBatch,
       AppendVersion, FailPoll, pollRest, ParseStep, FetchPdf, EmitArtifact, ReportParsed, FailParse, parseRest,
       ProjectDocuments, Index, EvalStep, RunEval, ResumeEval, ScoreVersion, EmitVerdict, FailEval, evalRest,
       PromoteStep, PromoteIndex, ReadPointer, VerifyLive, FailPromotion, promoteRest, CrashWorker
  <2> QED BY <2>1, <2>2, <2>3, <2>4
<1> QED BY <1>1, RagInvariance, PTL DEF RagSpec, RollbackIsOwn

-----------------------------------------------------------------------------
(* The notifier, for any frames of its two subscriptions.                   *)

(* What a subscription may deliver.                                         *)
Feeds ==
  /\ frames["runs"] \in Seq({"a", "b", NoFailure})
  /\ frames["health"] \in Seq({"broken", NoFailure})

(* The frame after the cursor is the only one that can be in hand, and what *)
(* the process remembers is gone when it is.                                *)
Places ==
  /\ cursor \in [Topics -> Nat] /\ hand \in [Topics -> Nat] /\ up \in BOOLEAN
  /\ doing \in [Topics -> {"take", "send", "mark", "checkpoint"}]
  /\ ~up => pending = {} /\ \A s \in Topics : doing[s] = "take"
  /\ \A s \in Topics : /\ cursor[s] <= Len(frames[s])
                       /\ up => hand[s] >= 1 /\ hand[s] <= cursor[s] + 1
                       /\ doing[s] # "take" => hand[s] = cursor[s] + 1 /\ cursor[s] < Len(frames[s])

Bookkeeping ==
  /\ alerts \in [Alertable -> Nat] /\ doubts \in Nat
  /\ sent \subseteq {"a", "b"} /\ pending \subseteq {"a", "b", "health"}
  /\ Topics \ rules \subseteq muted

One(holds) == IF holds THEN 1 ELSE 0
NextFrame(s) == frames[s][cursor[s] + 1]

(* A run's failure was alerted at most once more than there are doubts, and *)
(* only if it is marked or about to be.                                     *)
RunsAlerted ==
  /\ \A f \in {"a", "b"} : /\ alerts[f] <= doubts + One(f \in sent \cup pending)
                           /\ f \in sent \cup pending => alerts[f] >= 1
  /\ doing["runs"] = "send" => NextFrame("runs") \in {"a", "b"} \ (sent \cup pending)
  /\ doing["runs"] = "mark" => NextFrame("runs") \in {"a", "b"} /\ alerts[NextFrame("runs")] >= 1
  /\ "runs" \notin muted =>
       /\ doing["runs"] = "checkpoint" /\ NextFrame("runs") # NoFailure => alerts[NextFrame("runs")] >= 1
       /\ \A i \in 1 .. cursor["runs"] : frames["runs"][i] # NoFailure => alerts[frames["runs"][i]] >= 1

(* The projection's failures, on the list of its states.                    *)
StateAt(list, n) == IF n = 0 THEN NoFailure ELSE list[n]
IsOnset(list, n) == list[n] # NoFailure /\ StateAt(list, n - 1) # list[n]
OnsetsIn(list, n) == Cardinality({i \in 1 .. n : IsOnset(list, i)})

(* What the bucket says of the projection is its state at the cursor, or    *)
(* one frame later; and the onset after the cursor, if there is one, was    *)
(* alerted once it is pending or marked.                                    *)
NewOnset ==
  cursor["health"] < Len(frames["health"]) /\ IsOnset(frames["health"], cursor["health"] + 1)
AtHand == "health" \in pending \/ health = NextFrame("health")
Onward == doing["health"] \in {"mark", "checkpoint"}

HealthAlerted ==
  LET past == OnsetsIn(frames["health"], cursor["health"]) IN
  /\ \/ health = StateAt(frames["health"], cursor["health"])
     \/ cursor["health"] < Len(frames["health"]) /\ health = NextFrame("health")
  /\ "health" \in pending => NewOnset /\ doing["health"] \in {"take", "mark"}
  /\ doing["health"] = "send" => NewOnset /\ ~AtHand
  /\ doing["health"] = "checkpoint" => health = NextFrame("health")
  /\ alerts["broken"] <= past + doubts + One(NewOnset /\ AtHand)
  /\ "health" \notin muted => alerts["broken"] >= past + One(NewOnset /\ (AtHand \/ Onward))

NotifierInv == Feeds /\ Places /\ Bookkeeping /\ RunsAlerted /\ HealthAlerted

(* The onsets up to a frame, and one frame more.                            *)
LEMMA OnsetsAreCounted ==
  ASSUME NEW list, NEW n \in Nat
  PROVE  /\ OnsetsIn(list, n) \in Nat
         /\ OnsetsIn(list, n + 1) = OnsetsIn(list, n) + One(IsOnset(list, n + 1))
         /\ \A m \in n .. n + 1 : OnsetsIn(list, n) <= OnsetsIn(list, m)
<1> DEFINE S(m) == {i \in 1 .. m : IsOnset(list, i)}
<1>1. IsFiniteSet(S(n))
  <2>1. IsFiniteSet(1 .. n)
    BY FS_Interval
  <2>2. S(n) \subseteq 1 .. n
    OBVIOUS
  <2> QED BY <2>1, <2>2, FS_Subset
<1>2. Cardinality(S(n)) \in Nat /\ n + 1 \notin S(n)
  BY <1>1, FS_CardinalityType
<1>3. S(n + 1) = IF IsOnset(list, n + 1) THEN S(n) \cup {n + 1} ELSE S(n)
  <2>1. 1 .. n + 1 = (1 .. n) \cup {n + 1}
    OBVIOUS
  <2> QED BY <2>1
<1>4. Cardinality(S(n) \cup {n + 1}) = Cardinality(S(n)) + 1
  BY <1>1, <1>2, FS_AddElement
<1>5. Cardinality(S(n + 1)) = Cardinality(S(n)) + One(IsOnset(list, n + 1))
  <2> HIDE DEF S
  <2> QED BY <1>2, <1>3, <1>4 DEF One
<1>6. OnsetsIn(list, n) = Cardinality(S(n)) /\ OnsetsIn(list, n + 1) = Cardinality(S(n + 1))
  BY DEF OnsetsIn
<1> HIDE DEF S
<1>7. \A m \in n .. n + 1 : m = n \/ m = n + 1
  OBVIOUS
<1> QED BY <1>2, <1>5, <1>6, <1>7 DEF One

LEMMA OnsetsGrow ==
  ASSUME NEW list, NEW n \in Nat, NEW m \in Nat, n <= m
  PROVE  OnsetsIn(list, n) <= OnsetsIn(list, m)
<1> DEFINE S(l) == {i \in 1 .. l : IsOnset(list, i)}
<1>1. IsFiniteSet(S(m))
  <2>1. IsFiniteSet(1 .. m)
    BY FS_Interval
  <2>2. S(m) \subseteq 1 .. m
    OBVIOUS
  <2> QED BY <2>1, <2>2, FS_Subset
<1>2. S(n) \subseteq S(m)
  OBVIOUS
<1>3. Cardinality(S(n)) <= Cardinality(S(m))
  BY <1>1, <1>2, FS_Subset
<1> QED BY <1>3 DEF OnsetsIn

LEMMA OnsetsAgree ==
  ASSUME NEW n \in Nat
  PROVE  Onsets(n) = OnsetsIn(frames["health"], n)
<1> DEFINE list == frames["health"]
<1>1. ASSUME NEW i \in 1 .. n
      PROVE  IsOnset(list, i) <=> (list[i] # NoFailure /\ (i > 1 => list[i - 1] # list[i]))
  <2>1. CASE i = 1
    BY <2>1 DEF IsOnset, StateAt
  <2>2. CASE i > 1
    BY <2>2 DEF IsOnset, StateAt
  <2> QED BY <2>1, <2>2
<1> QED BY <1>1 DEF Onsets, OnsetsIn

(* A step of one subscription leaves what is said of the other.             *)
LEMMA RunsKept ==
  ASSUME NotifierInv, Bookkeeping', UNCHANGED <<frames, sent>>,
         cursor'["runs"] = cursor["runs"], doing'["runs"] = doing["runs"],
         \A f \in {"a", "b"} : alerts'[f] = alerts[f] /\ (f \in pending' <=> f \in pending),
         doubts' >= doubts, muted \subseteq muted'
  PROVE  RunsAlerted'
<1>1. \A f \in {"a", "b"} : alerts[f] \in Nat
  BY DEF NotifierInv, Bookkeeping, Alertable
<1>2. \A f \in {"a", "b"} : One(f \in sent' \cup pending') = One(f \in sent \cup pending)
                            /\ One(f \in sent \cup pending) \in Nat
  BY DEF One
<1>3. \A f \in {"a", "b"} : /\ alerts'[f] <= doubts' + One(f \in sent' \cup pending')
                            /\ f \in sent' \cup pending' => alerts'[f] >= 1
  BY <1>1, <1>2 DEF NotifierInv, RunsAlerted, Bookkeeping
<1>4. NextFrame("runs")' = NextFrame("runs")
  BY DEF NextFrame
<1>5. ASSUME NEW i \in 1 .. cursor["runs"], frames["runs"][i] # NoFailure
      PROVE  alerts'[frames["runs"][i]] = alerts[frames["runs"][i]]
  <2>1. i \in 1 .. Len(frames["runs"])
    BY DEF NotifierInv, Places, Topics
  <2>2. frames["runs"][i] \in {"a", "b"}
    BY <1>5, <2>1 DEF NotifierInv, Feeds
  <2> QED BY <2>2
<1>6. ASSUME doing["runs"] # "take", NextFrame("runs") # NoFailure
      PROVE  NextFrame("runs") \in {"a", "b"}
  <2>1. cursor["runs"] + 1 \in 1 .. Len(frames["runs"])
    BY <1>6 DEF NotifierInv, Places, Topics
  <2> QED BY <1>6, <2>1 DEF NotifierInv, Feeds, NextFrame
<1>7. NoFailure \notin {"a", "b"}
  BY DEF NoFailure
<1> QED BY <1>3, <1>4, <1>5, <1>6, <1>7 DEF NotifierInv, RunsAlerted

LEMMA HealthKept ==
  ASSUME NotifierInv, Bookkeeping', UNCHANGED <<frames, health>>,
         cursor'["health"] = cursor["health"], doing'["health"] = doing["health"],
         alerts'["broken"] = alerts["broken"], "health" \in pending' <=> "health" \in pending,
         doubts' >= doubts, muted \subseteq muted'
  PROVE  HealthAlerted'
<1>1. NextFrame("health")' = NextFrame("health")
  BY DEF NextFrame
<1>2. (NewOnset' <=> NewOnset) /\ (AtHand' <=> AtHand) /\ (Onward' <=> Onward)
  BY <1>1 DEF NewOnset, AtHand, Onward
<1>3. /\ OnsetsIn(frames["health"], cursor["health"]) \in Nat /\ doubts \in Nat /\ doubts' \in Nat
      /\ alerts["broken"] \in Nat /\ One(NewOnset /\ AtHand) \in Nat
  BY OnsetsAreCounted DEF NotifierInv, Bookkeeping, Places, Topics, Alertable, One
<1>4. /\ One(NewOnset' /\ AtHand') = One(NewOnset /\ AtHand)
      /\ One(NewOnset' /\ (AtHand' \/ Onward')) = One(NewOnset /\ (AtHand \/ Onward))
  BY <1>2 DEF One
<1> DEFINE past == OnsetsIn(frames["health"], cursor["health"])
<1>5. alerts'["broken"] <= past + doubts' + One(NewOnset' /\ AtHand')
  BY <1>3, <1>4 DEF NotifierInv, HealthAlerted
<1>6. "health" \notin muted' => alerts'["broken"] >= past + One(NewOnset' /\ (AtHand' \/ Onward'))
  BY <1>4 DEF NotifierInv, HealthAlerted
<1> QED BY <1>1, <1>2, <1>5, <1>6 DEF NotifierInv, HealthAlerted

(* What is in hand, and where.                                              *)
LEMMA InHandFacts ==
  ASSUME NotifierInv
  PROVE  /\ \A s \in Topics : cursor[s] \in Nat /\ hand[s] \in Nat /\ Len(frames[s]) \in Nat
         /\ \A s \in Topics : doing[s] # "take" =>
              /\ up /\ hand[s] = cursor[s] + 1 /\ cursor[s] < Len(frames[s])
              /\ Frame(s) = NextFrame(s)
         /\ doing["runs"] # "take" => NextFrame("runs") \in {"a", "b", NoFailure}
         /\ cursor["health"] < Len(frames["health"]) => NextFrame("health") \in {"broken", NoFailure}
         /\ "runs" \in Topics /\ "health" \in Topics /\ "runs" # "health"
         /\ NoFailure \notin {"a", "b", "broken"}
         /\ alerts["broken"] \in Nat /\ alerts["a"] \in Nat /\ alerts["b"] \in Nat
<1>1. "runs" \in Topics /\ "health" \in Topics /\ "runs" # "health"
  BY DEF Topics
<1>2. ASSUME NEW s \in Topics
      PROVE  cursor[s] \in Nat /\ hand[s] \in Nat /\ Len(frames[s]) \in Nat
  BY DEF NotifierInv, Places, Feeds, Topics
<1>3. ASSUME NEW s \in Topics, doing[s] # "take"
      PROVE  /\ up /\ hand[s] = cursor[s] + 1 /\ cursor[s] < Len(frames[s])
             /\ Frame(s) = NextFrame(s)
  BY <1>3 DEF NotifierInv, Places, Frame, NextFrame
<1>4. ASSUME doing["runs"] # "take" PROVE NextFrame("runs") \in {"a", "b", NoFailure}
  <2>1. cursor["runs"] + 1 \in 1 .. Len(frames["runs"])
    BY <1>1, <1>2, <1>3, <1>4
  <2> QED BY <2>1 DEF NotifierInv, Feeds, NextFrame
<1>5. ASSUME cursor["health"] < Len(frames["health"])
      PROVE  NextFrame("health") \in {"broken", NoFailure}
  <2>1. cursor["health"] + 1 \in 1 .. Len(frames["health"])
    BY <1>1, <1>2, <1>5
  <2> QED BY <2>1 DEF NotifierInv, Feeds, NextFrame
<1>6. NoFailure \notin {"a", "b", "broken"}
  BY DEF NoFailure
<1>7. alerts["broken"] \in Nat /\ alerts["a"] \in Nat /\ alerts["b"] \in Nat
  BY DEF NotifierInv, Bookkeeping, Alertable
<1> QED BY <1>1, <1>2, <1>3, <1>4, <1>5, <1>6, <1>7

(* Steps that deal with no frame.                                           *)
LEMMA IdleSteps ==
  ASSUME NotifierInv,
         StartNotifier \/ ReplayRuns \/ (\E s \in Topics : Reconnect(s))
           \/ (\E rule \in SUBSET Topics : SetRules(rule)) \/ UNCHANGED notifierVars
  PROVE  NotifierInv'
<1>1. CASE UNCHANGED notifierVars
  BY <1>1 DEF notifierVars, bucketVars, NotifierInv, Feeds, Places, Bookkeeping, RunsAlerted,
     HealthAlerted, NextFrame, NewOnset, AtHand, Onward
<1>2. CASE StartNotifier
  <2>1. /\ ~up /\ up' = TRUE /\ hand' = [s \in Topics |-> cursor[s] + 1]
        /\ UNCHANGED <<frames, rules, cursor, sent, health, doing, pending, alerts, muted, doubts>>
    BY <1>2 DEF StartNotifier, bucketVars
  <2>2. Places'
    <3>1. hand' \in [Topics -> Nat] /\ \A s \in Topics : hand'[s] = cursor[s] + 1
      BY <2>1 DEF NotifierInv, Places
    <3>2. \A s \in Topics : hand'[s] >= 1 /\ hand'[s] <= cursor'[s] + 1
      BY <2>1, <3>1, InHandFacts
    <3>3. \A s \in Topics : doing'[s] = "take"
      BY <2>1 DEF NotifierInv, Places
    <3>4. \A s \in Topics : cursor[s] <= Len(frames[s])
      BY DEF NotifierInv, Places
    <3>5. cursor \in [Topics -> Nat] /\ doing \in [Topics -> {"take", "send", "mark", "checkpoint"}]
      BY DEF NotifierInv, Places
    <3> QED BY <2>1, <3>1, <3>2, <3>3, <3>4, <3>5 DEF Places
  <2>3. Feeds' /\ Bookkeeping'
    BY <2>1 DEF NotifierInv, Feeds, Bookkeeping
  <2>4. doubts' >= doubts
    BY <2>1 DEF NotifierInv, Bookkeeping
  <2> QED BY <2>1, <2>2, <2>3, <2>4, RunsKept, HealthKept DEF NotifierInv
<1>3. CASE ReplayRuns
  <2>1. /\ ~up /\ cursor' = [cursor EXCEPT !["runs"] = 0]
        /\ UNCHANGED <<frames, rules, sent, health, up, hand, doing, pending, alerts, muted, doubts>>
    BY <1>3 DEF ReplayRuns
  <2>2. doing["runs"] = "take" /\ doing["health"] = "take" /\ cursor \in [Topics -> Nat]
    BY <2>1, InHandFacts DEF NotifierInv, Places
  <2>3. cursor'["runs"] = 0 /\ cursor'["health"] = cursor["health"] /\ 1 .. 0 = {}
    BY <2>1, <2>2 DEF Topics
  <2>4. Places'
    BY <2>1, <2>2, InHandFacts DEF NotifierInv, Places
  <2>5. Feeds' /\ Bookkeeping'
    BY <2>1 DEF NotifierInv, Feeds, Bookkeeping
  <2>6. RunsAlerted'
    BY <2>1, <2>2, <2>3 DEF NotifierInv, RunsAlerted
  <2>7. HealthAlerted'
    <3>1. doubts' >= doubts
      BY <2>1 DEF NotifierInv, Bookkeeping
    <3> QED BY <2>1, <2>3, <2>5, <3>1, HealthKept
  <2> QED BY <2>4, <2>5, <2>6, <2>7 DEF NotifierInv
<1>4. ASSUME NEW s \in Topics, Reconnect(s) PROVE NotifierInv'
  <2>1. /\ up /\ doing[s] = "take" /\ hand[s] > 1 /\ hand' = [hand EXCEPT ![s] = @ - 1]
        /\ UNCHANGED <<frames, rules, cursor, sent, health, up, doing, pending, alerts, muted, doubts>>
    BY <1>4 DEF Reconnect, bucketVars
  <2>2. Places'
    <3>1. hand' \in [Topics -> Nat]
      BY <2>1 DEF NotifierInv, Places
    <3>2. \A q \in Topics : hand'[q] = IF q = s THEN hand[q] - 1 ELSE hand[q]
      BY <2>1 DEF NotifierInv, Places
    <3>3. ASSUME NEW q \in Topics PROVE hand'[q] >= 1 /\ hand'[q] <= cursor[q] + 1
      <4>1. hand[q] \in Nat /\ cursor[q] \in Nat
        BY InHandFacts
      <4>2. hand[q] >= 1 /\ hand[q] <= cursor[q] + 1
        BY <2>1 DEF NotifierInv, Places
      <4>3. hand'[q] = hand[q] \/ (hand[q] > 1 /\ hand'[q] = hand[q] - 1)
        BY <2>1, <3>2
      <4> QED BY <4>1, <4>2, <4>3
    <3> QED BY <2>1, <3>1, <3>2, <3>3 DEF NotifierInv, Places
  <2>3. Feeds' /\ Bookkeeping'
    BY <2>1 DEF NotifierInv, Feeds, Bookkeeping
  <2>4. doubts' >= doubts
    BY <2>1 DEF NotifierInv, Bookkeeping
  <2> QED BY <2>1, <2>2, <2>3, <2>4, RunsKept, HealthKept DEF NotifierInv
<1>5. ASSUME NEW rule \in SUBSET Topics, SetRules(rule) PROVE NotifierInv'
  <2>1. /\ rules' = rule /\ muted' = muted \cup (Topics \ rule)
        /\ UNCHANGED <<frames, cursor, sent, health, up, hand, doing, pending, alerts, doubts>>
    BY <1>5 DEF SetRules
  <2>2. Places' /\ Feeds' /\ Bookkeeping'
    BY <2>1 DEF NotifierInv, Places, Feeds, Bookkeeping
  <2>3. doubts' >= doubts
    BY <2>1 DEF NotifierInv, Bookkeeping
  <2> QED BY <2>1, <2>2, <2>3, RunsKept, HealthKept DEF NotifierInv
<1> QED BY <1>1, <1>2, <1>3, <1>4, <1>5

(* The process takes up a frame, or passes over one it has dealt with.      *)
LEMMA ProcessStep ==
  ASSUME NotifierInv, NEW s \in Topics, Process(s)
  PROVE  NotifierInv'
<1>1. /\ up /\ hand[s] <= Len(frames[s]) /\ doing[s] = "take"
      /\ UNCHANGED <<frames, rules, cursor, sent, health, up, alerts, muted, doubts>>
  BY DEF Process, InHand, bucketVars
<1>2. Feeds' /\ doubts' >= doubts
  BY <1>1 DEF NotifierInv, Feeds, Bookkeeping
<1>3. CASE hand[s] <= cursor[s]
  <2>1. hand' = [hand EXCEPT ![s] = @ + 1] /\ UNCHANGED <<doing, pending>>
    BY <1>3, InHandFacts DEF Process
  <2>2. \A q \in Topics : hand'[q] = IF q = s THEN hand[q] + 1 ELSE hand[q]
    BY <2>1 DEF NotifierInv, Places
  <2>3. hand' \in [Topics -> Nat]
    BY <2>1 DEF NotifierInv, Places
  <2>4. ASSUME NEW q \in Topics PROVE hand'[q] >= 1 /\ hand'[q] <= cursor[q] + 1
    <3>1. hand[q] \in Nat /\ cursor[q] \in Nat
      BY InHandFacts
    <3>2. hand[q] >= 1 /\ hand[q] <= cursor[q] + 1
      BY <1>1 DEF NotifierInv, Places
    <3>3. hand'[q] = hand[q] \/ (hand[q] <= cursor[q] /\ hand'[q] = hand[q] + 1)
      BY <1>3, <2>2
    <3> QED BY <3>1, <3>2, <3>3
  <2>5. Places' /\ Bookkeeping'
    BY <1>1, <2>1, <2>2, <2>3, <2>4 DEF NotifierInv, Places, Bookkeeping
  <2> QED BY <1>1, <1>2, <2>1, <2>5, RunsKept, HealthKept DEF NotifierInv
<1>4. CASE hand[s] > cursor[s]
  <2> DEFINE place == IF IsNews(s) /\ PendingKey(s) \notin pending THEN "send"
                      ELSE IF IsMarked(s) THEN "mark" ELSE "checkpoint"
  <2>1. /\ doing' = [doing EXCEPT ![s] = place] /\ hand' = hand
        /\ pending' = IF s = "runs" /\ s \in rules /\ Known(s) THEN pending \ {Frame(s)} ELSE pending
    BY <1>4, InHandFacts DEF Process, Goes
  <2>2. place \in {"send", "mark", "checkpoint"}
    OBVIOUS
  <2> HIDE DEF place
  <2>3. hand[s] = cursor[s] + 1 /\ cursor[s] < Len(frames[s]) /\ Frame(s) = NextFrame(s)
    BY <1>1, <1>4, InHandFacts DEF NotifierInv, Places, Frame, NextFrame
  <2>4. \A q \in Topics : doing'[q] = IF q = s THEN place ELSE doing[q]
    BY <2>1 DEF NotifierInv, Places
  <2>5. Places'
    <3>1. doing' \in [Topics -> {"take", "send", "mark", "checkpoint"}]
      BY <2>1, <2>2 DEF NotifierInv, Places
    <3> QED BY <1>1, <2>1, <2>3, <2>4, <3>1 DEF NotifierInv, Places
  <2>6. pending' \subseteq pending
    BY <2>1
  <2>7. Bookkeeping'
    BY <1>1, <2>6 DEF NotifierInv, Bookkeeping
  <2>8. CASE s = "runs"
    <3>1. HealthAlerted'
      <4>1. "health" \in pending' <=> "health" \in pending
        <5>1. Known(s) => Frame(s) # "health"
          BY <2>8 DEF Known, NotifierInv, Bookkeeping
        <5> QED BY <2>1, <5>1
      <4>2. doing'["health"] = doing["health"]
        BY <2>4, <2>8, InHandFacts
      <4> QED BY <1>1, <1>2, <2>7, <4>1, <4>2, HealthKept
    <3>2. RunsAlerted'
      <4> DEFINE f == NextFrame("runs")
      <4>1. /\ NextFrame("runs")' = f /\ f \in {"a", "b", NoFailure} /\ doing'["runs"] = place
            /\ frames' = frames /\ cursor' = cursor
        <5>1. cursor["runs"] + 1 \in 1 .. Len(frames["runs"])
          BY <2>3, <2>8, InHandFacts
        <5>2. f \in {"a", "b", NoFailure}
          BY <5>1 DEF NotifierInv, Feeds, NextFrame
        <5> QED BY <1>1, <2>4, <2>8, <5>2 DEF NextFrame
      <4>2. /\ PendingKey(s) = f /\ (Known(s) <=> f \in sent)
            /\ (IsNews(s) <=> f # NoFailure /\ "runs" \in rules /\ f \notin sent)
            /\ (IsMarked(s) <=> IsNews(s))
        BY <2>3, <2>8 DEF PendingKey, Known, IsNews, IsMarked
      <4>3. \A g \in {"a", "b"} : g \in sent' \cup pending' <=> g \in sent \cup pending
        BY <1>1, <2>1, <2>3, <2>8, <4>2
      <4>4. place = "send" => f \in {"a", "b"} \ (sent' \cup pending')
        <5>1. place = "send" => IsNews(s) /\ f \notin pending
          BY <4>2 DEF place
        <5> QED BY <1>1, <2>6, <4>1, <4>2, <5>1
      <4>5. place = "mark" => f \in {"a", "b"} /\ f \in pending
        <5>1. place = "mark" => IsNews(s) /\ f \in pending
          BY <4>2 DEF place
        <5> QED BY <4>1, <4>2, <5>1
      <4>6. place = "checkpoint" => f = NoFailure \/ "runs" \notin rules \/ f \in sent
        BY <4>2 DEF place
      <4>7. \A g \in {"a", "b"} : One(g \in sent' \cup pending') = One(g \in sent \cup pending)
        BY <4>3 DEF One
      <4>8. \A g \in {"a", "b"} : /\ alerts'[g] <= doubts' + One(g \in sent' \cup pending')
                                  /\ g \in sent' \cup pending' => alerts'[g] >= 1
        BY <1>1, <4>3, <4>7 DEF NotifierInv, RunsAlerted
      <4>9. f \in sent \cup pending /\ f \in {"a", "b"} => alerts'[f] >= 1
        BY <1>1 DEF NotifierInv, RunsAlerted
      <4>10. "runs" \notin rules => "runs" \in muted'
        BY <1>1, InHandFacts DEF NotifierInv, Bookkeeping
      <4>11. sent \subseteq {"a", "b"}
        BY DEF NotifierInv, Bookkeeping
      <4>12. "runs" \notin muted' =>
               \A i \in 1 .. cursor["runs"] : frames["runs"][i] # NoFailure => alerts'[frames["runs"][i]] >= 1
        BY <1>1 DEF NotifierInv, RunsAlerted
      <4> HIDE DEF f
      <4> QED BY <4>1, <4>4, <4>5, <4>6, <4>8, <4>9, <4>10, <4>11, <4>12 DEF RunsAlerted
    <3> QED BY <1>2, <2>5, <2>7, <3>1, <3>2 DEF NotifierInv
  <2>9. CASE s = "health"
    <3>1. pending' = pending /\ doing'["runs"] = doing["runs"] /\ doing'["health"] = place
      BY <2>1, <2>4, <2>9, InHandFacts
    <3>2. RunsAlerted'
      BY <1>1, <1>2, <2>7, <3>1, RunsKept
    <3>3. HealthAlerted'
      <4> DEFINE n == NextFrame("health")
      <4>1. /\ NextFrame("health")' = n /\ n \in {"broken", NoFailure}
            /\ frames' = frames /\ cursor' = cursor /\ cursor["health"] < Len(frames["health"])
        BY <1>1, <2>3, <2>9, InHandFacts DEF NextFrame
      <4>2. /\ PendingKey(s) = "health" /\ IsMarked(s)
            /\ (IsNews(s) <=> n # NoFailure /\ "health" \in rules /\ n # health)
        BY <2>3, <2>9 DEF PendingKey, Known, IsNews, IsMarked
      <4>3. place = IF n # NoFailure /\ "health" \in rules /\ n # health /\ "health" \notin pending
                    THEN "send" ELSE "mark"
        BY <4>2 DEF place
      <4>4. (NewOnset' <=> NewOnset) /\ (AtHand' <=> AtHand)
        BY <1>1, <3>1, <4>1 DEF NewOnset, AtHand
      <4>5. ASSUME place = "send" PROVE NewOnset /\ ~AtHand
        <5>1. n # NoFailure /\ n # health /\ "health" \notin pending
          BY <4>3, <4>5
        <5>2. health = StateAt(frames["health"], cursor["health"])
          BY <5>1 DEF NotifierInv, HealthAlerted
        <5>3. (cursor["health"] + 1) - 1 = cursor["health"]
          BY InHandFacts
        <5>4. IsOnset(frames["health"], cursor["health"] + 1)
          BY <5>1, <5>2, <5>3 DEF IsOnset, NextFrame
        <5> QED BY <4>1, <5>1, <5>4 DEF NewOnset, AtHand
      <4>6. ASSUME place = "mark", "health" \notin muted, NewOnset PROVE AtHand
        <5>1. n # NoFailure
          BY <4>6 DEF NewOnset, IsOnset, NextFrame
        <5>2. "health" \in rules
          BY <4>6, InHandFacts DEF NotifierInv, Bookkeeping
        <5> QED BY <4>3, <4>6, <5>1, <5>2 DEF AtHand
      <4>7. doing["health"] = "take"
        BY <1>1, <2>9
      <4>8. ~Onward /\ (Onward' => place = "mark")
        BY <3>1, <4>3, <4>7 DEF Onward
      <4>9. "health" \notin muted =>
              One(NewOnset' /\ (AtHand' \/ Onward')) = One(NewOnset /\ (AtHand \/ Onward))
        BY <4>4, <4>6, <4>8 DEF One
      <4>10. One(NewOnset' /\ AtHand') = One(NewOnset /\ AtHand)
        BY <4>4 DEF One
      <4> DEFINE past == OnsetsIn(frames["health"], cursor["health"])
      <4>11. /\ alerts'["broken"] <= past + doubts' + One(NewOnset' /\ AtHand')
             /\ "health" \notin muted' => alerts'["broken"] >= past + One(NewOnset' /\ (AtHand' \/ Onward'))
        BY <1>1, <4>9, <4>10 DEF NotifierInv, HealthAlerted
      <4>12. /\ \/ health' = StateAt(frames["health"], cursor["health"])
                \/ cursor["health"] < Len(frames["health"]) /\ health' = n
             /\ "health" \in pending' => NewOnset'
        BY <1>1, <3>1, <4>4 DEF NotifierInv, HealthAlerted
      <4>13. doing'["health"] \in {"send", "mark"} /\ (doing'["health"] = "send" => "health" \notin pending')
        BY <3>1, <4>3
      <4>14. doing'["health"] = "send" => NewOnset' /\ ~AtHand'
        BY <3>1, <4>4, <4>5
      <4>15. doing'["health"] # "checkpoint" /\ ("health" \in pending' => doing'["health"] \in {"take", "mark"})
        BY <4>13
      <4> HIDE DEF n, past
      <4> QED BY <4>1, <4>11, <4>12, <4>14, <4>15 DEF HealthAlerted, past
    <3> QED BY <1>2, <2>5, <2>7, <3>2, <3>3 DEF NotifierInv
  <2> QED BY <2>8, <2>9 DEF Topics
<1> QED BY <1>3, <1>4, InHandFacts

(* The webhook is called.                                                   *)
LEMMA SendStep ==
  ASSUME NotifierInv, NEW s \in Topics, Send(s)
  PROVE  NotifierInv'
<1> DEFINE f == NextFrame(s)
<1>1. /\ up /\ doing[s] = "send" /\ hand[s] = cursor[s] + 1 /\ cursor[s] < Len(frames[s])
      /\ Frame(s) = f
      /\ UNCHANGED <<frames, rules, cursor, sent, health, up, hand, muted>>
  BY InHandFacts DEF Send, bucketVars
<1>2. f \in Alertable /\ f = (IF s = "runs" THEN f ELSE "broken")
  <2>1. CASE s = "runs"
    BY <1>1, <2>1 DEF NotifierInv, RunsAlerted, Alertable
  <2>2. CASE s = "health"
    <3>1. NextFrame("health") # NoFailure /\ NextFrame("health") \in {"broken", NoFailure}
      BY <1>1, <2>2, InHandFacts DEF NotifierInv, HealthAlerted, NewOnset, IsOnset, NextFrame
    <3> QED BY <2>2, <3>1 DEF Alertable
  <2> QED BY <2>1, <2>2 DEF Topics
<1>3. PICK went \in BOOLEAN, known \in BOOLEAN :
        /\ known => went
        /\ alerts' = IF went THEN [alerts EXCEPT ![f] = @ + 1] ELSE alerts
        /\ doing' = [doing EXCEPT ![s] = IF known THEN "mark" ELSE "take"]
        /\ pending' = IF known THEN pending \cup {PendingKey(s)} ELSE pending
        /\ doubts' = IF went /\ ~known THEN doubts + 1 ELSE doubts
  BY <1>1 DEF Send, Alerted, Goes
<1>4. PendingKey(s) = IF s = "runs" THEN f ELSE "health"
  BY <1>1 DEF PendingKey
<1> HIDE DEF f
<1>5. /\ \A g \in Alertable : alerts'[g] = IF went /\ g = f THEN alerts[g] + 1 ELSE alerts[g]
      /\ alerts' \in [Alertable -> Nat]
  BY <1>2, <1>3 DEF NotifierInv, Bookkeeping
<1>6. doubts' \in Nat /\ doubts' >= doubts /\ doubts \in Nat
  BY <1>3 DEF NotifierInv, Bookkeeping
<1>7. PendingKey(s) \in {"a", "b", "health"}
  <2>1. CASE s = "runs"
    BY <1>1, <1>4, <2>1 DEF f, NotifierInv, RunsAlerted
  <2> QED BY <1>4, <2>1
<1>8. Feeds' /\ Bookkeeping'
  BY <1>1, <1>3, <1>5, <1>6, <1>7 DEF NotifierInv, Feeds, Bookkeeping
<1>9. \A q \in Topics : doing'[q] = IF q = s THEN (IF known THEN "mark" ELSE "take") ELSE doing[q]
  BY <1>3 DEF NotifierInv, Places
<1>10. Places'
  <2>1. doing' \in [Topics -> {"take", "send", "mark", "checkpoint"}]
    BY <1>3 DEF NotifierInv, Places
  <2> QED BY <1>1, <1>9, <2>1 DEF NotifierInv, Places
<1>11. CASE s = "runs"
  <2>1. HealthAlerted'
    <3>1. "health" \in pending' <=> "health" \in pending
      BY <1>1, <1>3, <1>4, <1>11 DEF f, NotifierInv, RunsAlerted
    <3>2. alerts'["broken"] = alerts["broken"]
      BY <1>1, <1>5, <1>11 DEF f, NotifierInv, RunsAlerted, Alertable
    <3>3. doing'["health"] = doing["health"]
      BY <1>9, <1>11, InHandFacts
    <3> QED BY <1>1, <1>6, <1>8, <3>1, <3>2, <3>3, HealthKept
  <2>2. f \in {"a", "b"} /\ f \notin sent \cup pending
    BY <1>1, <1>11 DEF f, NotifierInv, RunsAlerted
  <2>3. RunsAlerted'
    <3>1. ASSUME NEW g \in {"a", "b"}
          PROVE  /\ alerts'[g] <= doubts' + One(g \in sent' \cup pending')
                 /\ g \in sent' \cup pending' => alerts'[g] >= 1
                 /\ alerts'[g] >= alerts[g]
      <4>1. /\ alerts[g] <= doubts + One(g \in sent \cup pending)
            /\ g \in sent \cup pending => alerts[g] >= 1
            /\ alerts[g] \in Nat
        BY InHandFacts DEF NotifierInv, RunsAlerted
      <4>2. alerts'[g] = IF went /\ g = f THEN alerts[g] + 1 ELSE alerts[g]
        BY <1>5 DEF Alertable
      <4>3. g \in sent' \cup pending' <=> g \in sent \cup pending \/ (known /\ g = f)
        BY <1>1, <1>3, <1>4, <1>11
      <4> QED BY <1>3, <1>6, <2>2, <4>1, <4>2, <4>3 DEF One
    <3>2. f' = f
      BY <1>1 DEF f, NextFrame
    <3>3. doing'["runs"] = (IF known THEN "mark" ELSE "take") /\ (known => f \in sent' \cup pending')
      BY <1>3, <1>4, <1>9, <1>11
    <3>4. ASSUME "runs" \notin muted, NEW i \in 1 .. cursor["runs"], frames["runs"][i] # NoFailure
          PROVE  alerts'[frames["runs"][i]] >= 1
      <4>1. i \in 1 .. Len(frames["runs"])
        <5>1. cursor["runs"] \in Nat /\ Len(frames["runs"]) \in Nat
          BY InHandFacts
        <5>2. cursor["runs"] <= Len(frames["runs"])
          BY DEF NotifierInv, Places, Topics
        <5> QED BY <5>1, <5>2
      <4>2. frames["runs"][i] \in {"a", "b"}
        BY <3>4, <4>1 DEF NotifierInv, Feeds
      <4>3. alerts[frames["runs"][i]] >= 1
        BY <3>4 DEF NotifierInv, RunsAlerted
      <4>4. alerts'[frames["runs"][i]] >= alerts[frames["runs"][i]]
        BY <3>1, <4>2
      <4>5. alerts[frames["runs"][i]] \in Nat /\ alerts'[frames["runs"][i]] \in Nat
        BY <1>5, <4>2 DEF NotifierInv, Bookkeeping, Alertable
      <4> QED BY <4>3, <4>4, <4>5
    <3>5. NextFrame("runs")' = f
      BY <1>11, <3>2 DEF f
    <3> QED BY <1>1, <2>2, <3>1, <3>3, <3>4, <3>5 DEF RunsAlerted
  <2> QED BY <1>8, <1>10, <2>1, <2>3 DEF NotifierInv
<1>12. CASE s = "health"
  <2>1. f = "broken"
    BY <1>2, <1>12, InHandFacts
  <2>2. \A g \in {"a", "b"} : alerts'[g] = alerts[g] /\ (g \in pending' <=> g \in pending)
    BY <1>3, <1>4, <1>5, <1>12, <2>1, InHandFacts DEF Alertable
  <2>3. RunsAlerted'
    BY <1>1, <1>6, <1>8, <1>9, <1>12, <2>2, InHandFacts, RunsKept
  <2>4. HealthAlerted'
    <3> DEFINE past == OnsetsIn(frames["health"], cursor["health"])
               a == alerts["broken"]
    <3>1. /\ NextFrame("health")' = NextFrame("health") /\ NextFrame("health") = "broken"
          /\ NewOnset /\ ~AtHand /\ (NewOnset' <=> NewOnset) /\ (AtHand' <=> known) /\ health' = health
          /\ ("health" \in pending' <=> known)
      BY <1>1, <1>3, <1>4, <1>12, <2>1 DEF f, NextFrame, NewOnset, AtHand, NotifierInv, HealthAlerted
    <3>2. doing'["health"] = (IF known THEN "mark" ELSE "take") /\ (Onward' <=> known)
      BY <1>9, <1>12 DEF Onward
    <3>3. past \in Nat /\ a \in Nat
      BY OnsetsAreCounted, InHandFacts
    <3>4. a <= past + doubts /\ ("health" \notin muted => a >= past)
      <4>1. /\ a <= past + doubts + One(NewOnset /\ AtHand)
            /\ "health" \notin muted => a >= past + One(NewOnset /\ (AtHand \/ Onward))
        BY DEF NotifierInv, HealthAlerted
      <4>2. One(NewOnset /\ AtHand) = 0 /\ One(NewOnset /\ (AtHand \/ Onward)) \in Nat
        BY <3>1 DEF One
      <4> HIDE DEF past, a
      <4> QED BY <1>6, <3>3, <4>1, <4>2
    <3>5. alerts'["broken"] = IF went THEN a + 1 ELSE a
      BY <1>5, <2>1 DEF Alertable
    <3>6. /\ One(NewOnset' /\ AtHand') = One(known)
          /\ One(NewOnset' /\ (AtHand' \/ Onward')) = One(known)
      BY <3>1, <3>2 DEF One
    <3> HIDE DEF past, a
    <3>7. /\ alerts'["broken"] <= past + doubts' + One(known)
          /\ "health" \notin muted => alerts'["broken"] >= past + One(known)
      BY <1>3, <1>6, <3>3, <3>4, <3>5 DEF One
    <3>8. \/ health = StateAt(frames["health"], cursor["health"])
          \/ cursor["health"] < Len(frames["health"]) /\ health = NextFrame("health")
      BY DEF NotifierInv, HealthAlerted
    <3>9. doing'["health"] \in {"take", "mark"}
      BY <3>2
    <3> QED BY <1>1, <3>1, <3>6, <3>7, <3>8, <3>9 DEF HealthAlerted, past
  <2> QED BY <1>8, <1>10, <2>3, <2>4 DEF NotifierInv
<1> QED BY <1>11, <1>12 DEF Topics

(* The failure is marked, or the write fails, done or not.                  *)
LEMMA PutMarkStep ==
  ASSUME NotifierInv, NEW s \in Topics, PutMark(s)
  PROVE  NotifierInv'
<1> DEFINE f == NextFrame(s)
<1>1. /\ up /\ doing[s] = "mark" /\ hand[s] = cursor[s] + 1 /\ cursor[s] < Len(frames[s])
      /\ Frame(s) = f
      /\ UNCHANGED <<frames, rules, cursor, up, hand, alerts, muted, doubts>>
  BY InHandFacts DEF PutMark
<1>2. PendingKey(s) = IF s = "runs" THEN f ELSE "health"
  BY <1>1 DEF PendingKey
<1>3. PICK marked \in BOOLEAN, known \in BOOLEAN :
        /\ known => marked
        /\ sent' = IF marked /\ s = "runs" THEN sent \cup {f} ELSE sent
        /\ health' = IF marked /\ s = "health" THEN f ELSE health
        /\ doing' = [doing EXCEPT ![s] = IF known THEN "checkpoint" ELSE "take"]
        /\ pending' = IF known THEN pending \ {PendingKey(s)} ELSE pending
  BY <1>1 DEF PutMark, Mark, Goes, StillPending
<1>4. s = "runs" => f \in {"a", "b"} /\ alerts[f] >= 1
  BY <1>1 DEF NotifierInv, RunsAlerted
<1> HIDE DEF f
<1>5. Feeds' /\ Bookkeeping'
  BY <1>1, <1>3, <1>4 DEF NotifierInv, Feeds, Bookkeeping
<1>6. doubts' >= doubts
  BY <1>1 DEF NotifierInv, Bookkeeping
<1>7. \A q \in Topics : doing'[q] = IF q = s THEN (IF known THEN "checkpoint" ELSE "take") ELSE doing[q]
  BY <1>3 DEF NotifierInv, Places
<1>8. Places'
  <2>1. doing' \in [Topics -> {"take", "send", "mark", "checkpoint"}]
    BY <1>3 DEF NotifierInv, Places
  <2> QED BY <1>1, <1>7, <2>1 DEF NotifierInv, Places
<1>9. CASE s = "runs"
  <2>1. HealthAlerted'
    <3>1. "health" \in pending' <=> "health" \in pending
      BY <1>2, <1>3, <1>4, <1>9
    <3>2. doing'["health"] = doing["health"] /\ health' = health
      BY <1>3, <1>7, <1>9, InHandFacts
    <3> QED BY <1>1, <1>5, <1>6, <3>1, <3>2, HealthKept
  <2>2. RunsAlerted'
    <3>1. ASSUME NEW g \in {"a", "b"}
          PROVE  /\ alerts'[g] <= doubts' + One(g \in sent' \cup pending')
                 /\ g \in sent' \cup pending' => alerts'[g] >= 1
      <4>1. /\ alerts[g] <= doubts + One(g \in sent \cup pending)
            /\ g \in sent \cup pending => alerts[g] >= 1
            /\ alerts[g] \in Nat /\ doubts \in Nat
        BY InHandFacts DEF NotifierInv, RunsAlerted, Bookkeeping
      <4>2. g \in sent' \cup pending' <=> g \in sent \cup pending \/ (marked /\ g = f)
        BY <1>2, <1>3, <1>9
      <4> QED BY <1>1, <1>4, <1>9, <4>1, <4>2 DEF One
    <3>2. NextFrame("runs")' = f
      BY <1>1, <1>9 DEF f, NextFrame
    <3>3. doing'["runs"] \in {"checkpoint", "take"}
      BY <1>7, <1>9
    <3> QED BY <1>1, <1>4, <1>9, <3>1, <3>2, <3>3 DEF NotifierInv, RunsAlerted
  <2> QED BY <1>5, <1>8, <2>1, <2>2 DEF NotifierInv
<1>10. CASE s = "health"
  <2>1. sent' = sent /\ doing'["runs"] = doing["runs"]
    BY <1>3, <1>7, <1>10, InHandFacts
  <2>2. \A g \in {"a", "b"} : alerts'[g] = alerts[g] /\ (g \in pending' <=> g \in pending)
    BY <1>1, <1>2, <1>3, <1>10
  <2>3. RunsAlerted'
    BY <1>1, <1>5, <1>6, <2>1, <2>2, RunsKept
  <2>4. HealthAlerted'
    <3> DEFINE past == OnsetsIn(frames["health"], cursor["health"])
               a == alerts["broken"]
    <3>1. /\ NextFrame("health")' = f /\ f = NextFrame("health") /\ (NewOnset' <=> NewOnset)
          /\ ("health" \in pending' <=> "health" \in pending /\ ~known)
          /\ health' = IF marked THEN f ELSE health
      BY <1>1, <1>2, <1>3, <1>10 DEF f, NextFrame, NewOnset
    <3>2. AtHand' <=> AtHand \/ marked
      BY <1>3, <3>1 DEF AtHand
    <3>3. Onward /\ (Onward' <=> known) /\ doing'["health"] \in {"checkpoint", "take"}
      BY <1>1, <1>7, <1>10 DEF Onward
    <3>4. past \in Nat /\ a \in Nat /\ doubts \in Nat
      BY OnsetsAreCounted, InHandFacts DEF NotifierInv, Bookkeeping
    <3>5. /\ a <= past + doubts + One(NewOnset /\ AtHand)
          /\ "health" \notin muted => a >= past + One(NewOnset /\ (AtHand \/ Onward))
      BY DEF NotifierInv, HealthAlerted
    <3>6. /\ One(NewOnset /\ AtHand) \in Nat /\ One(NewOnset' /\ AtHand') \in Nat
          /\ One(NewOnset /\ AtHand) <= One(NewOnset' /\ AtHand')
      BY <3>1, <3>2 DEF One
    <3>7. /\ One(NewOnset /\ (AtHand \/ Onward)) \in Nat /\ One(NewOnset' /\ (AtHand' \/ Onward')) \in Nat
          /\ One(NewOnset /\ (AtHand \/ Onward)) >= One(NewOnset' /\ (AtHand' \/ Onward'))
      BY <3>1, <3>3 DEF One
    <3> HIDE DEF past, a
    <3>8. /\ a <= past + doubts + One(NewOnset' /\ AtHand')
          /\ "health" \notin muted => a >= past + One(NewOnset' /\ (AtHand' \/ Onward'))
      BY <3>4, <3>5, <3>6, <3>7
    <3>9. \/ health' = StateAt(frames["health"], cursor["health"])
          \/ cursor["health"] < Len(frames["health"]) /\ health' = f
      BY <1>1, <1>10, <3>1 DEF NotifierInv, HealthAlerted
    <3>10. "health" \in pending' => NewOnset' /\ doing'["health"] = "take"
      BY <1>7, <1>10, <3>1 DEF NotifierInv, HealthAlerted
    <3>11. doing'["health"] = "checkpoint" => health' = f
      BY <1>3, <1>7, <1>10, <3>1
    <3> QED BY <1>1, <3>1, <3>3, <3>8, <3>9, <3>10, <3>11 DEF HealthAlerted, past, a
  <2> QED BY <1>5, <1>8, <2>3, <2>4 DEF NotifierInv
<1> QED BY <1>9, <1>10 DEF Topics

(* The cursor passes the frame.                                             *)
LEMMA PutCursorStep ==
  ASSUME NotifierInv, NEW s \in Topics, PutCursor(s)
  PROVE  NotifierInv'
<1>1. /\ up /\ doing[s] = "checkpoint" /\ hand[s] = cursor[s] + 1 /\ cursor[s] < Len(frames[s])
      /\ doing' = [doing EXCEPT ![s] = "take"]
      /\ UNCHANGED <<frames, rules, sent, health, up, pending, alerts, muted, doubts>>
  BY InHandFacts DEF PutCursor, Goes
<1>2. Feeds' /\ Bookkeeping' /\ doubts' >= doubts
  BY <1>1 DEF NotifierInv, Feeds, Bookkeeping
<1>3. \A q \in Topics : doing'[q] = IF q = s THEN "take" ELSE doing[q]
  BY <1>1 DEF NotifierInv, Places
<1>4. doing' \in [Topics -> {"take", "send", "mark", "checkpoint"}]
  BY <1>1 DEF NotifierInv, Places
<1>5. CASE UNCHANGED <<cursor, hand>>
  <2>1. Places'
    BY <1>1, <1>3, <1>4, <1>5 DEF NotifierInv, Places
  <2>2. NextFrame("runs")' = NextFrame("runs")
    BY <1>1, <1>5 DEF NextFrame
  <2>3. RunsAlerted'
    BY <1>1, <1>3, <1>5, <2>2, InHandFacts DEF NotifierInv, RunsAlerted
  <2>4. HealthAlerted'
    <3>1. CASE s = "runs"
      BY <1>1, <1>2, <1>3, <1>5, <3>1, InHandFacts, HealthKept
    <3>2. CASE s = "health"
      <4>1. /\ NextFrame("health")' = NextFrame("health") /\ (NewOnset' <=> NewOnset)
            /\ (AtHand' <=> AtHand) /\ doing'["health"] = "take" /\ AtHand
        BY <1>1, <1>3, <1>5, <3>2 DEF NextFrame, NewOnset, AtHand, NotifierInv, HealthAlerted
      <4>2. /\ One(NewOnset' /\ AtHand') = One(NewOnset /\ AtHand)
            /\ One(NewOnset' /\ (AtHand' \/ Onward')) = One(NewOnset /\ (AtHand \/ Onward))
        BY <4>1 DEF One
      <4>3. health = NextFrame("health") /\ cursor["health"] < Len(frames["health"])
        BY <1>1, <3>2 DEF NotifierInv, HealthAlerted
      <4> QED BY <1>1, <1>5, <4>1, <4>2, <4>3 DEF NotifierInv, HealthAlerted
    <3> QED BY <3>1, <3>2 DEF Topics
  <2> QED BY <1>2, <2>1, <2>3, <2>4 DEF NotifierInv
<1>6. CASE cursor' = [cursor EXCEPT ![s] = hand[s]] /\ hand' = [hand EXCEPT ![s] = @ + 1]
  <2>1. \A q \in Topics : /\ cursor'[q] = IF q = s THEN cursor[q] + 1 ELSE cursor[q]
                          /\ hand'[q] = IF q = s THEN hand[q] + 1 ELSE hand[q]
    BY <1>1, <1>6 DEF NotifierInv, Places
  <2>2. cursor' \in [Topics -> Nat] /\ hand' \in [Topics -> Nat]
    BY <1>6 DEF NotifierInv, Places
  <2>3. ASSUME NEW q \in Topics
        PROVE  /\ cursor'[q] <= Len(frames[q])
               /\ hand'[q] >= 1 /\ hand'[q] <= cursor'[q] + 1
    <3>1. cursor[q] \in Nat /\ hand[q] \in Nat /\ Len(frames[q]) \in Nat
      BY InHandFacts
    <3>2. cursor[q] <= Len(frames[q]) /\ hand[q] >= 1 /\ hand[q] <= cursor[q] + 1
      BY <1>1 DEF NotifierInv, Places
    <3>3. CASE q = s
      <4>1. cursor'[q] = cursor[q] + 1 /\ hand'[q] = hand[q] + 1 /\ cursor[q] < Len(frames[q])
        BY <1>1, <2>1, <3>3
      <4> QED BY <3>1, <3>2, <4>1
    <3>4. CASE q # s
      BY <2>1, <3>2, <3>4
    <3> QED BY <3>3, <3>4
  <2>4. Places'
    BY <1>1, <1>3, <1>4, <2>1, <2>2, <2>3 DEF NotifierInv, Places
  <2>5. CASE s = "runs"
    <3>1. HealthAlerted'
      BY <1>1, <1>2, <1>3, <2>1, <2>5, InHandFacts, HealthKept
    <3>2. doing'["runs"] = "take" /\ cursor'["runs"] = cursor["runs"] + 1 /\ cursor["runs"] \in Nat
      BY <1>3, <2>1, <2>5, InHandFacts
    <3>3. ASSUME "runs" \notin muted, NEW i \in 1 .. cursor["runs"] + 1, frames["runs"][i] # NoFailure
          PROVE  alerts[frames["runs"][i]] >= 1
      <4>1. CASE i = cursor["runs"] + 1
        BY <1>1, <2>5, <3>3, <4>1 DEF NotifierInv, RunsAlerted, NextFrame
      <4>2. CASE i # cursor["runs"] + 1
        <5>1. i \in 1 .. cursor["runs"]
          BY <3>2, <4>2
        <5> QED BY <3>3, <5>1 DEF NotifierInv, RunsAlerted
      <4> QED BY <4>1, <4>2
    <3> QED BY <1>1, <1>2, <2>4, <3>1, <3>2, <3>3 DEF NotifierInv, RunsAlerted
  <2>6. CASE s = "health"
    <3>1. RunsAlerted'
      BY <1>1, <1>2, <1>3, <2>1, <2>6, InHandFacts, RunsKept
    <3> DEFINE n == cursor["health"]
               list == frames["health"]
               past == OnsetsIn(list, n)
               a == alerts["broken"]
    <3>2. /\ n \in Nat /\ n < Len(list) /\ cursor'["health"] = n + 1 /\ doing'["health"] = "take"
          /\ health = NextFrame("health") /\ "health" \notin pending /\ Onward /\ AtHand
      BY <1>1, <1>3, <2>1, <2>6, InHandFacts DEF NotifierInv, HealthAlerted, Onward, AtHand
    <3>3. past \in Nat /\ OnsetsIn(list, n + 1) = past + One(IsOnset(list, n + 1))
      BY <3>2, OnsetsAreCounted
    <3>4. NewOnset <=> IsOnset(list, n + 1)
      BY <3>2 DEF NewOnset
    <3>5. ~(NewOnset' /\ AtHand') /\ ~Onward'
      <4>1. health = list[n + 1]
        BY <3>2 DEF NextFrame
      <4>2. /\ AtHand' <=> health = list[n + 1 + 1]
            /\ NewOnset' => IsOnset(list, n + 1 + 1)
        BY <1>1, <3>2 DEF AtHand, NewOnset, NextFrame
      <4>3. IsOnset(list, n + 1 + 1) => list[n + 1] # list[n + 1 + 1]
        BY <3>2 DEF IsOnset, StateAt
      <4> QED BY <3>2, <4>1, <4>2, <4>3 DEF Onward
    <3>6. /\ One(NewOnset' /\ AtHand') = 0 /\ One(NewOnset' /\ (AtHand' \/ Onward')) = 0
          /\ One(NewOnset /\ AtHand) = One(IsOnset(list, n + 1))
          /\ One(NewOnset /\ (AtHand \/ Onward)) = One(IsOnset(list, n + 1))
          /\ One(IsOnset(list, n + 1)) \in Nat
      BY <3>2, <3>4, <3>5 DEF One
    <3>7. /\ a <= past + doubts + One(NewOnset /\ AtHand)
          /\ "health" \notin muted => a >= past + One(NewOnset /\ (AtHand \/ Onward))
      BY DEF NotifierInv, HealthAlerted
    <3>8. a \in Nat /\ doubts \in Nat
      BY InHandFacts DEF NotifierInv, Bookkeeping
    <3>9. health = StateAt(list, n + 1)
      BY <3>2 DEF StateAt, NextFrame
    <3> HIDE DEF n, list, past, a
    <3>10. /\ a <= OnsetsIn(list, n + 1) + doubts + 0
           /\ "health" \notin muted => a >= OnsetsIn(list, n + 1) + 0
      BY <3>3, <3>6, <3>7, <3>8
    <3>11. HealthAlerted'
      BY <1>1, <3>2, <3>6, <3>9, <3>10 DEF HealthAlerted, n, list, a
    <3> QED BY <1>2, <2>4, <3>1, <3>11 DEF NotifierInv
  <2> QED BY <2>5, <2>6 DEF Topics
<1> QED BY <1>5, <1>6 DEF PutCursor

(* The process ends: what it had not marked becomes a doubt.                *)
LEMMA StopStep ==
  ASSUME NotifierInv, StopNotifier
  PROVE  NotifierInv'
<1>1. /\ up' = FALSE /\ doing' = [s \in Topics |-> "take"] /\ pending' = {}
      /\ doubts' = doubts + Cardinality(pending)
      /\ UNCHANGED <<frames, rules, cursor, sent, health, hand, alerts, muted>>
  BY DEF StopNotifier, bucketVars
<1>2. Cardinality(pending) \in Nat /\ (pending # {} => Cardinality(pending) >= 1)
  <2>1. IsFiniteSet({"a", "b", "health"})
    <3>1. IsFiniteSet({"a"}) /\ IsFiniteSet({"b"}) /\ IsFiniteSet({"health"})
      BY FS_Singleton
    <3>2. IsFiniteSet({"a"} \cup {"b"})
      BY <3>1, FS_Union
    <3>3. IsFiniteSet(({"a"} \cup {"b"}) \cup {"health"})
      BY <3>1, <3>2, FS_Union
    <3>4. {"a", "b", "health"} = ({"a"} \cup {"b"}) \cup {"health"}
      OBVIOUS
    <3> QED BY <3>3, <3>4
  <2>2. IsFiniteSet(pending)
    BY <2>1, FS_Subset DEF NotifierInv, Bookkeeping
  <2> QED BY <2>2, FS_CardinalityType, FS_EmptySet
<1>3. doubts \in Nat /\ doubts' \in Nat /\ doubts' >= doubts /\ (pending # {} => doubts' >= doubts + 1)
  BY <1>1, <1>2 DEF NotifierInv, Bookkeeping
<1>4. Feeds' /\ Places' /\ Bookkeeping'
  BY <1>1, <1>3 DEF NotifierInv, Feeds, Places, Bookkeeping
<1>5. \A s \in Topics : doing'[s] = "take"
  BY <1>1
<1>6. RunsAlerted'
  <2>1. ASSUME NEW f \in {"a", "b"}
        PROVE  /\ alerts'[f] <= doubts' + One(f \in sent' \cup pending')
               /\ f \in sent' \cup pending' => alerts'[f] >= 1
    <3>1. /\ alerts[f] <= doubts + One(f \in sent \cup pending)
          /\ f \in sent \cup pending => alerts[f] >= 1
          /\ alerts[f] \in Nat
      BY InHandFacts DEF NotifierInv, RunsAlerted
    <3>2. f \in sent' \cup pending' <=> f \in sent
      BY <1>1
    <3> QED BY <1>1, <1>3, <3>1, <3>2 DEF One
  <2> QED BY <1>1, <1>5, <2>1, InHandFacts DEF NotifierInv, RunsAlerted
<1>7. HealthAlerted'
  <2> DEFINE past == OnsetsIn(frames["health"], cursor["health"])
             a == alerts["broken"]
  <2>1. NextFrame("health")' = NextFrame("health") /\ (NewOnset' <=> NewOnset)
    BY <1>1 DEF NextFrame, NewOnset
  <2>2. /\ (AtHand' <=> health = NextFrame("health")) /\ ~Onward'
        /\ (AtHand => AtHand' \/ pending # {}) /\ (AtHand' => AtHand)
    BY <1>1, <1>5, <2>1, InHandFacts DEF AtHand, Onward
  <2>3. past \in Nat /\ a \in Nat
    BY OnsetsAreCounted, InHandFacts
  <2>4. /\ a <= past + doubts + One(NewOnset /\ AtHand)
        /\ "health" \notin muted => a >= past + One(NewOnset /\ (AtHand \/ Onward))
    BY DEF NotifierInv, HealthAlerted
  <2>5. /\ One(NewOnset /\ AtHand) \in Nat /\ One(NewOnset' /\ AtHand') \in Nat
        /\ One(NewOnset /\ (AtHand \/ Onward)) \in Nat /\ One(NewOnset' /\ (AtHand' \/ Onward')) \in Nat
        /\ One(NewOnset /\ AtHand) <= One(NewOnset' /\ AtHand') \/ pending # {}
        /\ One(NewOnset /\ AtHand) <= 1
        /\ One(NewOnset /\ (AtHand \/ Onward)) >= One(NewOnset' /\ (AtHand' \/ Onward'))
    BY <2>1, <2>2 DEF One
  <2> HIDE DEF past, a
  <2>6. /\ a <= past + doubts' + One(NewOnset' /\ AtHand')
        /\ "health" \notin muted => a >= past + One(NewOnset' /\ (AtHand' \/ Onward'))
    BY <1>3, <2>3, <2>4, <2>5
  <2>7. \/ health = StateAt(frames["health"], cursor["health"])
        \/ cursor["health"] < Len(frames["health"]) /\ health = NextFrame("health")
    BY DEF NotifierInv, HealthAlerted
  <2>8. doing'["health"] = "take"
    BY <1>5, InHandFacts
  <2> QED BY <1>1, <2>1, <2>6, <2>7, <2>8 DEF HealthAlerted, past, a
<1> QED BY <1>4, <1>6, <1>7 DEF NotifierInv

-----------------------------------------------------------------------------
LEMMA NotifierSteps ==
  ASSUME NotifierInv, [ExamplesNext]_exampleVars
  PROVE  NotifierInv'
<1>1. NotifierNext \/ UNCHANGED notifierVars
  BY DEF ExamplesNext, exampleVars, InboxNext
<1>2. CASE NotifierNext
  BY <1>2, IdleSteps, ProcessStep, SendStep, PutMarkStep, PutCursorStep, StopStep DEF NotifierNext
<1> QED BY <1>1, <1>2, IdleSteps

LEMMA NotifierStart ==
  ASSUME Feeds, InitNotifier
  PROVE  NotifierInv
<1>1. /\ cursor = [s \in Topics |-> 0] /\ hand = [s \in Topics |-> 1] /\ up = FALSE
      /\ doing = [s \in Topics |-> "take"] /\ pending = {} /\ sent = {} /\ health = NoFailure
      /\ alerts = [f \in Alertable |-> 0] /\ doubts = 0 /\ rules = Topics /\ muted = {}
  BY DEF InitNotifier
<1>2. /\ "runs" \in Topics /\ "health" \in Topics /\ \A f \in {"a", "b", "broken"} : alerts[f] = 0
      /\ \A s \in Topics : cursor[s] = 0 /\ hand[s] = 1 /\ doing[s] = "take" /\ Len(frames[s]) \in Nat
  BY <1>1 DEF Topics, Alertable, Feeds
<1>3. Places /\ Bookkeeping
  <2>1. \A s \in Topics : cursor[s] <= Len(frames[s])
    BY <1>2
  <2>2. cursor \in [Topics -> Nat] /\ hand \in [Topics -> Nat] /\ alerts \in [Alertable -> Nat]
    BY <1>1
  <2>3. doing \in [Topics -> {"take", "send", "mark", "checkpoint"}]
    BY <1>1
  <2> QED BY <1>1, <1>2, <2>1, <2>2, <2>3 DEF Places, Bookkeeping
<1>4. RunsAlerted
  <2>1. 1 .. cursor["runs"] = {}
    BY <1>2
  <2> QED BY <1>1, <1>2, <2>1 DEF RunsAlerted, One
<1>5. HealthAlerted
  <2> DEFINE list == frames["health"]
  <2>1. OnsetsIn(list, 0) = 0
    <3>1. {i \in 1 .. 0 : IsOnset(list, i)} = {}
      OBVIOUS
    <3> QED BY <3>1, FS_EmptySet DEF OnsetsIn
  <2>2. ~(NewOnset /\ AtHand) /\ ~Onward
    BY <1>1, <1>2 DEF NewOnset, AtHand, Onward, IsOnset, NextFrame
  <2>3. One(NewOnset /\ AtHand) = 0 /\ One(NewOnset /\ (AtHand \/ Onward)) = 0
    BY <2>2 DEF One
  <2>4. health = StateAt(list, 0)
    BY <1>1 DEF StateAt
  <2> QED BY <1>1, <1>2, <2>1, <2>3, <2>4 DEF HealthAlerted
<1> QED BY <1>3, <1>4, <1>5 DEF NotifierInv

(* The programs' frames are such lists.                                     *)
LEMMA ProgramsFeed == Init => Feeds
<1> SUFFICES ASSUME NEW p \in Programs, frames = p.feed PROVE Feeds
  BY DEF Init
<1>1. Quiet["runs"] = <<>> /\ Quiet["health"] = <<>>
  BY DEF Quiet, Topics
<1>2. /\ <<"a", NoFailure, "a", "b">> \in Seq({"a", "b", NoFailure})
      /\ <<"broken", "broken", NoFailure, "broken">> \in Seq({"broken", NoFailure})
      /\ <<>> \in Seq({"a", "b", NoFailure}) /\ <<>> \in Seq({"broken", NoFailure})
  OBVIOUS
<1>3. /\ Alerting.feed["runs"] = <<"a", NoFailure, "a", "b">>
      /\ Alerting.feed["health"] = <<"broken", "broken", NoFailure, "broken">>
  BY DEF Alerting, Watched, Program
<1>4. p = Alerting \/ p.feed = Quiet
  BY DEF Programs, DuplicateOrder, TwoOrders, RacingCards, DuplicateTransaction, Uploads, Ingests,
     Todos, QuickOrdering, GoOrdering, FlaskOrdering, Compliance, Research, Documents, Statements,
     SweptReply, Untriaged, NextPeriod, Review, Draft, Program
<1> QED BY <1>1, <1>2, <1>3, <1>4 DEF Feeds

(* The notifier: what its queue, its baseline and its sent alerts say of    *)
(* each other, in every state of every program.                             *)
THEOREM NotifierInvariance == Spec => []NotifierInv
<1>1. Init => NotifierInv
  BY ProgramsFeed, NotifierStart DEF Init
<1> QED BY <1>1, NotifierSteps, PTL DEF Spec

(* A failure the cursor has passed was alerted, unless the rules were off,  *)
(* and only once but for alerts that nobody could record: for any failures  *)
(* that frames tell of, and whatever restarts, replays and writes fail.     *)
THEOREM AlertsMatch == Spec => []AlertsMatchFailures
<1>1. ASSUME NotifierInv PROVE AlertsMatchFailures
  <2>1. ASSUME NEW f \in RunFailures(Len(frames["runs"]))
        PROVE  alerts[f] <= 1 + doubts
    <3>1. f \in {"a", "b"}
      BY <1>1, <2>1 DEF RunFailures, NotifierInv, Feeds
    <3>2. alerts[f] <= doubts + One(f \in sent \cup pending) /\ doubts \in Nat /\ alerts[f] \in Nat
      BY <1>1, <3>1, InHandFacts DEF NotifierInv, RunsAlerted, Bookkeeping
    <3> QED BY <3>2 DEF One
  <2>2. ASSUME "runs" \notin muted, NEW f \in RunFailures(cursor["runs"])
        PROVE  alerts[f] >= 1
    BY <1>1, <2>2 DEF RunFailures, NotifierInv, RunsAlerted
  <2> DEFINE list == frames["health"]
             n == cursor["health"]
             a == alerts["broken"]
  <2>3. n \in Nat /\ Len(list) \in Nat /\ n <= Len(list) /\ a \in Nat /\ doubts \in Nat
    BY <1>1, InHandFacts DEF NotifierInv, Places, Bookkeeping
  <2>4. Onsets(n) = OnsetsIn(list, n) /\ Onsets(Len(list)) = OnsetsIn(list, Len(list))
    BY <2>3, OnsetsAgree
  <2>5. /\ a <= OnsetsIn(list, n) + doubts + One(NewOnset /\ AtHand)
        /\ "health" \notin muted => a >= OnsetsIn(list, n) + One(NewOnset /\ (AtHand \/ Onward))
    BY <1>1 DEF NotifierInv, HealthAlerted
  <2>6. OnsetsIn(list, n) + One(NewOnset /\ AtHand) <= OnsetsIn(list, Len(list))
    <3>1. CASE NewOnset
      <4>1. n + 1 <= Len(list) /\ IsOnset(list, n + 1)
        BY <2>3, <3>1 DEF NewOnset
      <4>2. OnsetsIn(list, n + 1) <= OnsetsIn(list, Len(list))
        BY <2>3, <4>1, OnsetsGrow
      <4>3. OnsetsIn(list, n + 1) = OnsetsIn(list, n) + 1 /\ OnsetsIn(list, n) \in Nat
        BY <2>3, <4>1, OnsetsAreCounted DEF One
      <4>4. OnsetsIn(list, Len(list)) \in Nat
        BY <2>3, OnsetsAreCounted
      <4>5. One(NewOnset /\ AtHand) \in {0, 1}
        BY DEF One
      <4> HIDE DEF n, list
      <4> QED BY <4>2, <4>3, <4>4, <4>5
    <3>2. CASE ~NewOnset
      <4>1. One(NewOnset /\ AtHand) = 0
        BY <3>2 DEF One
      <4>2. OnsetsIn(list, n) <= OnsetsIn(list, Len(list))
        BY <2>3, OnsetsGrow
      <4>3. OnsetsIn(list, n) \in Nat
        BY <2>3, OnsetsAreCounted
      <4> HIDE DEF n, list
      <4> QED BY <4>1, <4>2, <4>3
    <3> QED BY <3>1, <3>2
  <2>7. /\ OnsetsIn(list, n) \in Nat /\ OnsetsIn(list, Len(list)) \in Nat
        /\ One(NewOnset /\ AtHand) \in Nat /\ One(NewOnset /\ (AtHand \/ Onward)) \in Nat
    BY <2>3, OnsetsAreCounted DEF One
  <2> HIDE DEF n, list, a
  <2>8. a <= Onsets(Len(list)) + doubts /\ ("health" \notin muted => a >= Onsets(n))
    BY <2>3, <2>4, <2>5, <2>6, <2>7
  <2> QED BY <2>1, <2>2, <2>8 DEF AlertsMatchFailures, HealthAlerts, n, list, a
<1> QED BY <1>1, NotifierInvariance, PTL

-----------------------------------------------------------------------------
(* The inbox of agents/slack-approvals, for any number of drafts and clicks.*)

Outcomes == {"approved", "rejected"}
DecisionOf(r, n) ==
  [on |-> Gate(r), name |-> n, by |-> 0, about |-> 0, key |-> DecisionKey(r)]
Made(r, n) == \E i \in Stored(r) : log[i].name = n

(* Where drafts are deployed nothing else is.                               *)
IsDraft(r) == job[r] \in {ApprovalsAgent(r, TRUE), ApprovalsAgent(r, FALSE)}
OnlyDrafts == \A r \in Runs : job[r] = NotDeployed \/ IsDraft(r)

(* The log holds decisions, one of a gate.                                  *)
OneDecision ==
  /\ log \in Seq({DecisionOf(r, n) : r \in Drafts, n \in Outcomes})
  /\ \A i, j \in DOMAIN log : log[i].key = log[j].key => i = j

(* An agent whose wait was answered has the decision on record.             *)
AgentState ==
  [mode : {"forward", "parked", "undo", "completed", "failed"}, pc : Nat, at : {1}, got : Nat, tries : Nat,
   memo : Seq(Nat), kept : Nat]
AgentShape(u) ==
  /\ u \in AgentState
  /\ u.mode = "forward" => u.pc \in {1, 2} /\ Len(u.memo) = u.pc - 1
  /\ u.mode = "parked" => u.pc = 2 /\ Len(u.memo) = 1
  /\ u.mode = "undo" => u.pc = 1 /\ Len(u.memo) = 1
  /\ Len(u.memo) \in 0 .. 2
Knows(r, u) == Len(u.memo) = 2 => \E k \in {1, 2} : u.memo[2] = k /\ Made(r, Decisions[k])
AgentOK(r) == AgentShape(run[r]) /\ Knows(r, run[r])

AgentsOK ==
  /\ DOMAIN run = Runs
  /\ \A r \in Runs : IF job[r] = NotDeployed THEN run[r].mode = "waiting" ELSE AgentOK(r)

(* What a click was answered, and what the process remembers, is on record. *)
IsAnswered(k) ==
  /\ k.at = "stored" => k.event \in Stored(k.gate)
  /\ k.at \in {"accepted", "duplicate"} => Made(k.gate, k.wants)
  /\ k.at = "conflict" => \E n \in Outcomes \ {k.wants} : Made(k.gate, n)

ClickState ==
  [gate : Drafts, wants : Outcomes, event : Nat,
   at : {"idle", "gate", "emit", "stored", "error", "accepted", "duplicate", "conflict"}]
ClicksOK ==
  /\ click \in [Clicks -> ClickState]
  /\ \A c \in Clicks : IsAnswered(click[c])
  /\ decided \in [Drafts -> Outcomes \cup {Undecided}]
  /\ \A r \in Drafts : decided[r] # Undecided => Made(r, decided[r])

InboxInv == Drafts = {} \/ (OnlyDrafts /\ OneDecision /\ AgentsOK /\ ClicksOK)

LEMMA DraftFacts ==
  ASSUME NEW r \in Runs, IsDraft(r)
  PROVE  /\ r \in Drafts /\ job[r] # NotDeployed
         /\ job[r].trigger = Request /\ job[r].errors = "retry"
         /\ Len(Steps(r)) = 2 /\ DOMAIN Steps(r) = {1, 2}
         /\ Steps(r)[1].name = "prepare-draft" /\ Steps(r)[2].name = "approve"
         /\ Steps(r)[1].needs = <<>> /\ Steps(r)[2].needs = <<>>
         /\ Steps(r)[1].undo = <<>> /\ Steps(r)[2].undo = <<>>
         /\ \E S : Steps(r)[1].does = <<Refuse(S)>>
         /\ Steps(r)[2].does = <<Wait(Gate(r), Decisions)>>
<1>1. PICK t \in BOOLEAN : job[r] = ApprovalsAgent(r, t)
  BY DEF IsDraft
<1>2. Steps(r) = <<PrepareDraft(t), Approve(r)>> /\ job[r].id = "slack-approvals-agent"
      /\ job[r].trigger = Request /\ job[r].errors = "retry"
  BY <1>1 DEF ApprovalsAgent, Function, Steps
<1>3. Len(Steps(r)) = 2 /\ DOMAIN Steps(r) = {1, 2} /\ Steps(r)[1] = PrepareDraft(t) /\ Steps(r)[2] = Approve(r)
  BY <1>2
<1>4. job[r] # NotDeployed
  BY <1>2 DEF NotDeployed, Function
<1> QED BY <1>2, <1>3, <1>4 DEF PrepareDraft, Approve, Step, Drafts

(* What a gate's events are.                                                *)
LEMMA DecisionFacts ==
  ASSUME OneDecision, NEW i \in DOMAIN log
  PROVE  \E r \in Drafts, n \in Outcomes :
           /\ log[i] = DecisionOf(r, n) /\ i \in Stored(r)
           /\ \A q : i \in Stored(q) <=> q = r
<1>1. PICK r \in Drafts, n \in Outcomes : log[i] = DecisionOf(r, n)
  <2>1. log[i] \in {DecisionOf(r, n) : r \in Drafts, n \in Outcomes}
    BY DEF OneDecision
  <2> QED BY <2>1
<1>2. log[i].key = DecisionKey(r)
  BY <1>1 DEF DecisionOf
<1>3. \A q : DecisionKey(q) = DecisionKey(r) <=> q = r
  BY DEF DecisionKey
<1> QED BY <1>1, <1>2, <1>3 DEF Stored

LEMMA GatesDecideOnce ==
  ASSUME OneDecision, NEW r
  PROVE  /\ \A i, j \in Stored(r) : i = j
         /\ \A n, m : Made(r, n) /\ Made(r, m) => n = m
BY DEF OneDecision, Stored, Made

(* An agent's run never writes: its steps check and wait.                   *)
LEMMA AgentStep ==
  ASSUME OnlyDrafts, OneDecision, AgentsOK,
         NEW r \in Runs, Advance(r) \/ LoseAnswer(r) \/ Crash(r) \/ Elapse(r)
  PROVE  AgentsOK' /\ UNCHANGED <<job, log>>
<1> DEFINE u == run[r]
           n == Len(u.memo)
<1>1. CASE job[r] = NotDeployed
  <2>1. u.mode = "waiting"
    BY <1>1 DEF AgentsOK
  <2>2. job[r].trigger = <<"never">>
    BY <1>1 DEF NotDeployed, Function
  <2>3. ~Triggered(r)
    BY <2>2 DEF Triggered
  <2>4. ~Busy(r) /\ u.mode # "parked" /\ \A op : ~Doing(r, op)
    BY <2>1 DEF Busy, Doing, Working
  <2>5. FALSE
    BY <2>3, <2>4 DEF Advance, Start, ReadStore, ReadView, Park, Woken, Check, Call, Conflict, Pass,
       LoseAnswer, Crash, Elapse, CanWrite
  <2> QED BY <2>5
<1>2. CASE job[r] # NotDeployed
  <2>1. IsDraft(r) /\ AgentOK(r)
    BY <1>2 DEF OnlyDrafts, AgentsOK
  <2>2. u \in AgentState
    BY <2>1 DEF AgentOK, AgentShape
  <2>3. /\ u.pc \in Nat /\ u.at = 1 /\ u.got \in Nat /\ u.tries \in Nat /\ u.memo \in Seq(Nat) /\ u.kept \in Nat
        /\ u.mode # "waiting" /\ n \in Nat
    BY <2>2 DEF AgentState
  <2>4. /\ u.mode = "forward" => u.pc \in {1, 2} /\ n = u.pc - 1
        /\ u.mode = "parked" => u.pc = 2 /\ n = 1
        /\ u.mode = "undo" => u.pc = 1 /\ n = 1
        /\ n <= 2
    <3>1. /\ u.mode = "forward" => u.pc \in {1, 2} /\ n = u.pc - 1
          /\ u.mode = "parked" => u.pc = 2 /\ n = 1
          /\ u.mode = "undo" => u.pc = 1 /\ n = 1
          /\ n \in 0 .. 2
      BY <2>1 DEF AgentOK, AgentShape
    <3> HIDE DEF u, n
    <3> QED BY <3>1
  <2>5. /\ Len(Steps(r)) = 2 /\ Steps(r)[1].needs = <<>> /\ Steps(r)[2].needs = <<>>
        /\ Steps(r)[1].undo = <<>> /\ Steps(r)[2].does = <<Wait(Gate(r), Decisions)>>
        /\ \E S : Steps(r)[1].does = <<Refuse(S)>>
    BY <2>1, DraftFacts
  <2>6. /\ u.mode = "forward" /\ u.pc = 1 => \E S : Effects(r) = <<Refuse(S)>>
        /\ u.mode = "forward" /\ u.pc = 2 => Effects(r) = <<Wait(Gate(r), Decisions)>>
        /\ u.mode = "parked" => Effects(r) = <<Wait(Gate(r), Decisions)>>
        /\ u.mode = "undo" => Effects(r) = <<>>
    BY <2>4, <2>5 DEF Effects, Current
  <2>7. \A op : Doing(r, op) => /\ u.mode = "forward"
                                /\ \/ op = "refuse" /\ u.pc = 1
                                   \/ op = "wait" /\ u.pc = 2
    BY <2>3, <2>4, <2>6 DEF Doing, Working, Busy, Refuse, Wait
  <2>8. ~CanWrite(r) /\ ~ReadStore(r) /\ ~ReadView(r) /\ ~Conflict(r) /\ ~Call(r) /\ ~LoseAnswer(r) /\ ~Start(r)
    BY <2>3, <2>7 DEF CanWrite, ReadStore, ReadView, Conflict, Call, LoseAnswer, Start
  <2>9. u.mode = "forward" => Needed(r)
    BY <2>4, <2>5 DEF Needed, Current
  <2>10. ASSUME NEW rec, run' = [run EXCEPT ![r] = rec], UNCHANGED <<job, log>>, AgentShape(rec), Knows(r, rec)
         PROVE  AgentsOK' /\ UNCHANGED <<job, log>>
    <3>1. /\ run'[r] = rec /\ DOMAIN run' = Runs
          /\ \A q \in Runs : q # r => run'[q] = run[q]
      BY <2>10 DEF AgentsOK
    <3>2. \A q, x : Made(q, x)' <=> Made(q, x)
      BY <2>10 DEF Made, Stored
    <3>3. AgentOK(r)'
      BY <2>10, <3>1, <3>2 DEF AgentOK, Knows, AgentShape
    <3>4. \A q \in Runs : q # r /\ AgentOK(q) => AgentOK(q)'
      BY <3>1, <3>2 DEF AgentOK, Knows, AgentShape
    <3> QED BY <2>10, <3>1, <3>3, <3>4, <1>2 DEF AgentsOK
  <2>11. ASSUME UNCHANGED <<job, log>>, Set(r, GivesUp(r)), u.mode \in {"forward", "parked"}, n < 2
         PROVE  AgentsOK' /\ UNCHANGED <<job, log>>
    <3>1. n = 0 \/ n = 1
      <4> HIDE DEF n
      <4> QED BY <2>3, <2>11
    <3>2. GivesUp(r) = UndoFrom(r, n)
      BY <2>11 DEF GivesUp, Undoes
    <3> DEFINE rec == UndoFrom(r, n)
    <3>3. rec \in AgentState
      BY <2>2, <2>3 DEF UndoFrom, GoTo, AgentState
    <3>4. rec.mode = (IF n = 0 THEN "failed" ELSE "undo") /\ rec.pc = n /\ rec.memo = u.memo
      BY <2>2 DEF UndoFrom, GoTo, AgentState
    <3>5. run' = [run EXCEPT ![r] = rec]
      BY <2>11, <3>2 DEF Set
    <3>6. n = Len(rec.memo)
      BY <3>4
    <3>7. Len(rec.memo) \in {0, 1} /\ (rec.mode = "undo" => rec.pc = 1 /\ Len(rec.memo) = 1)
      <4> HIDE DEF rec, n
      <4> QED BY <3>1, <3>4, <3>6
    <3> HIDE DEF rec, n
    <3>8. rec.mode # "forward" /\ rec.mode # "parked"
      BY <3>4
    <3>9. AgentShape(rec) /\ Knows(r, rec)
      BY <3>3, <3>7, <3>8 DEF AgentShape, Knows
    <3> QED BY <2>10, <2>11, <3>5, <3>9
  <2>12. CASE Check(r)
    <3>1. u.mode = "forward" /\ u.pc = 1 /\ Doing(r, "refuse") /\ UNCHANGED <<job, log>> /\ n = 0
      BY <2>4, <2>7, <2>12 DEF Check
    <3>2. CASE Set(r, GivesUp(r))
      BY <2>11, <3>1, <3>2
    <3>3. CASE Answer(r, u.got)
      <4> DEFINE rec == Returned(r, u.got)
      <4>1. Len(Effects(r)) = 1
        BY <2>6, <3>1
      <4>2. run' = [run EXCEPT ![r] = rec]
        BY <2>3, <3>3, <4>1 DEF Answer, Set
      <4>3. rec = [GoTo(r, 2) EXCEPT !.memo = Append(@, u.got), !.mode = "forward"]
        BY <2>5, <3>1 DEF Returned, Undoes
      <4>4. Append(u.memo, u.got) \in Seq(Nat) /\ Len(Append(u.memo, u.got)) = 1
        BY <2>3, <3>1, AppendProperties
      <4>5. rec \in AgentState /\ rec.mode = "forward" /\ rec.pc = 2 /\ rec.memo = Append(u.memo, u.got)
        <5> HIDE DEF rec
        <5> QED BY <2>2, <4>3, <4>4 DEF GoTo, AgentState
      <4>6. Len(rec.memo) = 1
        BY <4>4, <4>5
      <4> HIDE DEF rec
      <4>7. AgentShape(rec) /\ Knows(r, rec)
        BY <4>5, <4>6 DEF AgentShape, Knows
      <4> QED BY <2>10, <3>1, <4>2, <4>7
    <3> QED BY <2>12, <3>2, <3>3 DEF Check
  <2>13. CASE Park(r)
    <3> DEFINE rec == [u EXCEPT !.mode = "parked", !.got = Len(log), !.kept = u.pc - 1]
    <3>1. u.mode = "forward" /\ u.pc = 2 /\ UNCHANGED <<job, log>>
      BY <2>7, <2>13 DEF Park
    <3>2. Len(u.memo) = 1 /\ Len(log) \in Nat
      BY <2>4, <3>1 DEF OneDecision
    <3>3. run' = [run EXCEPT ![r] = rec]
      BY <2>13 DEF Park, Set
    <3>4. rec \in AgentState /\ rec.mode = "parked" /\ rec.pc = 2 /\ rec.memo = u.memo
      <4>1. u.pc - 1 = 1
        BY <3>1
      <4>2. rec = [u EXCEPT !.mode = "parked", !.got = Len(log), !.kept = 1]
        BY <4>1
      <4> DEFINE l == Len(log)
      <4> HIDE DEF l, rec
      <4>3. rec = [u EXCEPT !.mode = "parked", !.got = l, !.kept = 1] /\ l \in Nat
        BY <3>2, <4>2 DEF l
      <4> QED BY <2>2, <3>1, <4>3 DEF AgentState
    <3>5. Len(rec.memo) = 1
      BY <3>2, <3>4
    <3> HIDE DEF rec
    <3>6. AgentShape(rec) /\ Knows(r, rec)
      BY <3>4, <3>5 DEF AgentShape, Knows
    <3> QED BY <2>10, <3>1, <3>3, <3>6
  <2>14. CASE Woken(r)
    <3>1. u.mode = "parked" /\ u.pc = 2 /\ Len(u.memo) = 1 /\ UNCHANGED <<job, log>> /\ Answers(r) # {}
      BY <2>4, <2>14 DEF Woken
    <3>2. PICK i, k : /\ i = CHOOSE x \in Answers(r) : \A j \in Answers(r) : x <= j
                      /\ k = CHOOSE y \in Named(log[i].name, Effect(r).names) : TRUE
                      /\ run' = [run EXCEPT ![r] = [Returned(r, k) EXCEPT !.kept = u.pc]]
      BY <2>14 DEF Woken, Set
    <3>3. Effect(r) = Wait(Gate(r), Decisions)
      BY <2>3, <2>6, <3>1 DEF Effect
    <3>4. Answers(r) \subseteq Stored(r)
      <4>1. \A j \in Answers(r) : j \in DOMAIN log /\ log[j].on = Gate(r)
        BY <2>3, <3>3 DEF Answers, OneDecision, Wait
      <4>2. ASSUME NEW j \in Answers(r) PROVE j \in Stored(r)
        <5>1. PICK q \in Drafts, d \in Outcomes : log[j] = DecisionOf(q, d) /\ j \in Stored(q)
          BY <4>1, DecisionFacts
        <5> QED BY <4>1, <4>2, <5>1 DEF DecisionOf, Gate
      <4> QED BY <4>2
    <3>5. i \in Answers(r)
      <4>1. PICK x \in Answers(r) : TRUE
        BY <3>1
      <4>2. x \in Nat
        BY <3>4 DEF Stored, OneDecision
      <4>3. \A j \in Answers(r) : x <= j
        BY <3>4, <4>2, GatesDecideOnce
      <4> QED BY <3>2, <4>1, <4>3
    <3>6. log[i].on = Gate(r) /\ Named(log[i].name, Decisions) # {}
      BY <3>3, <3>5 DEF Answers, Wait
    <3>7. k \in {1, 2} /\ Decisions[k] = log[i].name
      <4>1. k \in Named(log[i].name, Decisions)
        BY <3>2, <3>3, <3>6 DEF Wait
      <4> QED BY <4>1 DEF Named, Decisions
    <3>8. Made(r, Decisions[k])
      BY <3>4, <3>5, <3>7 DEF Made
    <3> DEFINE rec == [Returned(r, k) EXCEPT !.kept = u.pc]
    <3>9. rec = [[GoTo(r, 3) EXCEPT !.memo = Append(@, k), !.mode = "completed"] EXCEPT !.kept = 2]
      BY <2>5, <3>1 DEF Returned, Undoes
    <3>10. /\ Append(u.memo, k) \in Seq(Nat) /\ Len(Append(u.memo, k)) = 2
           /\ Append(u.memo, k)[2] = k
      <4>1. u.memo \in Seq(Nat) /\ k \in Nat
        BY <2>3, <3>7
      <4>2. Len(u.memo) + 1 = 2
        BY <3>1
      <4> QED BY <4>1, <4>2, AppendProperties
    <3>11. rec \in AgentState /\ rec.mode = "completed" /\ rec.memo = Append(u.memo, k)
      <4> HIDE DEF rec
      <4> QED BY <2>2, <3>9, <3>10 DEF GoTo, AgentState
    <3>12. run' = [run EXCEPT ![r] = rec]
      BY <3>2
    <3>13. Len(rec.memo) = 2 /\ rec.memo[2] = k
      BY <3>10, <3>11
    <3> HIDE DEF rec
    <3>14. AgentShape(rec) /\ Knows(r, rec)
      BY <3>7, <3>8, <3>11, <3>13 DEF AgentShape, Knows
    <3> QED BY <2>10, <3>1, <3>12, <3>14
  <2>15. CASE Elapse(r)
    <3>1. u.mode = "parked" /\ n = 1 /\ UNCHANGED <<job, log>> /\ Set(r, GivesUp(r))
      BY <2>4, <2>15 DEF Elapse
    <3> QED BY <2>11, <3>1
  <2>16. CASE Pass(r)
    <3>1. u.mode = "undo" /\ u.pc = 1 /\ n = 1
      <4>1. u.mode = "forward" \/ u.mode = "undo"
        BY <2>16 DEF Pass, Busy
      <4>2. u.mode = "forward" => Effects(r) = <<>>
        BY <2>9, <2>16 DEF Pass, Forward
      <4>3. ASSUME u.mode = "forward" PROVE FALSE
        <5>1. CASE u.pc = 1
          BY <2>6, <4>2, <4>3, <5>1
        <5>2. CASE u.pc = 2
          BY <2>6, <4>2, <4>3, <5>2
        <5> QED BY <2>4, <4>3, <5>1, <5>2
      <4> QED BY <2>4, <4>1, <4>3
    <3> DEFINE rec == Returned(r, 0)
    <3>2. rec = [GoTo(r, 0) EXCEPT !.mode = "failed"]
      BY <3>1 DEF Returned, Undoes, UndoFrom
    <3>3. rec \in AgentState /\ rec.mode = "failed" /\ rec.memo = u.memo
      <4> HIDE DEF rec
      <4> QED BY <2>2, <3>2 DEF GoTo, AgentState
    <3>4. run' = [run EXCEPT ![r] = rec] /\ UNCHANGED <<job, log>>
      BY <2>16 DEF Pass, Set
    <3>5. Len(rec.memo) = 1
      BY <3>1, <3>3
    <3> HIDE DEF rec
    <3>6. AgentShape(rec) /\ Knows(r, rec)
      BY <3>3, <3>5 DEF AgentShape, Knows
    <3> QED BY <2>10, <3>4, <3>6
  <2>17. CASE Crash(r)
    <3>1. u.mode = "forward"
      <4>1. u.at = 1 /\ ~(1 > 1)
        BY <2>3
      <4>2. Busy(r) /\ (Forward(r) \/ u.at > 1)
        BY <2>17 DEF Crash
      <4> QED BY <4>1, <4>2 DEF Forward
    <3>2. u.pc \in {1, 2} /\ n = u.pc - 1
      BY <2>4, <3>1
    <3>3. PICK k \in u.kept .. n :
            run' = [run EXCEPT ![r] = [GoTo(r, k + 1) EXCEPT !.kept = k, !.memo = SubSeq(@, 1, k)]]
      BY <2>17, <3>1 DEF Crash, Forward, Set
    <3>4. UNCHANGED <<job, log>>
      BY <2>17 DEF Crash
    <3>5. (k = 0 \/ k = 1) /\ k <= n /\ k \in Nat
      <4> HIDE DEF n
      <4> QED BY <2>3, <3>2
    <3>6. SubSeq(u.memo, 1, k) \in Seq(Nat) /\ Len(SubSeq(u.memo, 1, k)) = k
      <4>1. k \in 0 .. Len(u.memo)
        <5>1. n = Len(u.memo)
          OBVIOUS
        <5> HIDE DEF n
        <5> QED BY <2>3, <3>5, <5>1
      <4> QED BY <2>3, <3>5, <4>1, SubSeqProperties
    <3> DEFINE rec == [GoTo(r, k + 1) EXCEPT !.kept = k, !.memo = SubSeq(@, 1, k)]
    <3>7. rec \in AgentState /\ rec.mode = "forward" /\ rec.pc = k + 1 /\ rec.memo = SubSeq(u.memo, 1, k)
      <4>1. k + 1 \in Nat
        BY <3>5
      <4> QED BY <2>2, <3>1, <3>5, <3>6, <4>1 DEF GoTo, AgentState
    <3>8. Len(rec.memo) = k
      BY <3>6, <3>7
    <3> HIDE DEF rec
    <3>9. run' = [run EXCEPT ![r] = rec]
      BY <3>3 DEF rec
    <3>10. AgentShape(rec) /\ Knows(r, rec)
      <4>1. CASE k = 0
        BY <3>7, <3>8, <4>1 DEF AgentShape, Knows
      <4>2. CASE k = 1
        BY <3>7, <3>8, <4>2 DEF AgentShape, Knows
      <4> QED BY <3>5, <4>1, <4>2
    <3> QED BY <2>10, <3>4, <3>9, <3>10
  <2> QED BY <2>8, <2>12, <2>13, <2>14, <2>15, <2>16, <2>17 DEF Advance
<1> QED BY <1>1, <1>2

(* What a step that records nothing, or a gate's first decision, leaves.    *)
LEMMA RecordStays ==
  ASSUME OneDecision, UNCHANGED <<job, log>>
  PROVE  OneDecision' /\ (\A r : Stored(r)' = Stored(r) /\ \A n : Made(r, n)' <=> Made(r, n)) /\ Drafts' = Drafts
BY DEF OneDecision, Stored, Made, Drafts

LEMMA RecordGrows ==
  ASSUME OneDecision, ClicksOK, NEW c \in Clicks, Emitted(c), job' = job, NEW g, g = click[c].gate
  PROVE  /\ OneDecision' /\ Drafts' = Drafts
         /\ \A r : Stored(r) \subseteq Stored(r)' /\ \A n : Made(r, n) => Made(r, n)'
         /\ Stored(g)' # {}
<1> DEFINE d == DecisionOf(g, Wanted(c))
           S == {DecisionOf(r, n) : r \in Drafts, n \in Outcomes}
<1>1. g \in Drafts /\ Wanted(c) \in Outcomes
  BY DEF ClicksOK, ClickState, Wanted
<1>2. Drafts' = Drafts
  BY DEF Drafts
<1>3. CASE Stored(g) # {}
  <2>1. log' = log /\ Stored(g) = Stored(g)'
    BY <1>3 DEF Emitted, Stored
  <2> QED BY <1>2, <1>3, <2>1, RecordStays
<1>4. CASE Stored(g) = {}
  <2>1. log' = Append(log, d)
    BY <1>4 DEF Emitted, DecisionOf
  <2>2. d \in S /\ log \in Seq(S)
    BY <1>1 DEF OneDecision
  <2>3. d.key = DecisionKey(g)
    BY DEF DecisionOf
  <2> HIDE DEF d, S
  <2>4. /\ log' \in Seq(S) /\ Len(log') = Len(log) + 1 /\ Len(log) \in Nat
        /\ \A i \in 1 .. Len(log) : log'[i] = log[i]
        /\ log'[Len(log) + 1] = d
    BY <2>1, <2>2, AppendProperties
  <2>5. DOMAIN log = 1 .. Len(log) /\ DOMAIN log' = 1 .. Len(log')
    BY <2>2, <2>4
  <2>6. DOMAIN log' = DOMAIN log \cup {Len(log) + 1} /\ Len(log) + 1 \notin DOMAIN log
    <3> DEFINE l == Len(log)
    <3>1. DOMAIN log = 1 .. l /\ DOMAIN log' = 1 .. l + 1 /\ l \in Nat
      BY <2>4, <2>5
    <3> HIDE DEF l
    <3> QED BY <3>1 DEF l
  <2>7. \A i \in DOMAIN log : log'[i] = log[i] /\ log[i].key # DecisionKey(g)
    BY <1>4, <2>4, <2>5 DEF Stored
  <2>8. \A i, j \in DOMAIN log' : log'[i].key = log'[j].key => i = j
    <3> DEFINE l == Len(log) + 1
    <3>1. log'[l].key = DecisionKey(g) /\ DOMAIN log' = DOMAIN log \cup {l}
      BY <2>3, <2>4, <2>6
    <3> HIDE DEF l
    <3> QED BY <2>7, <3>1 DEF OneDecision
  <2>9. OneDecision'
    BY <1>2, <2>4, <2>8 DEF OneDecision, S, DecisionOf, Gate, DecisionKey
  <2>10. \A r : Stored(r) \subseteq Stored(r)' /\ \A n : Made(r, n) => Made(r, n)'
    BY <2>6, <2>7 DEF Stored, Made
  <2>11. Len(log) + 1 \in Stored(g)'
    BY <2>3, <2>4, <2>6 DEF Stored
  <2> QED BY <1>2, <2>9, <2>10, <2>11
<1> QED BY <1>3, <1>4

(* A click moves on, or the process forgets: what was answered stays true.  *)
LEMMA ClicksKept ==
  ASSUME ClicksOK, Drafts' = Drafts,
         \A r : Stored(r) \subseteq Stored(r)' /\ \A n : Made(r, n) => Made(r, n)',
         NEW after \in [Clicks -> ClickState], click' = after,
         \A c \in Clicks : after[c] = click[c] \/ IsAnswered(after[c])',
         NEW known \in [Drafts -> Outcomes \cup {Undecided}], decided' = known,
         \A r \in Drafts : known[r] \in {decided[r], Undecided} \/ Made(r, known[r])'
  PROVE  ClicksOK'
<1>1. ASSUME NEW c \in Clicks PROVE IsAnswered(after[c])'
  <2>1. CASE after[c] = click[c]
    <3>1. IsAnswered(after[c])
      BY <2>1 DEF ClicksOK
    <3> QED BY <3>1 DEF IsAnswered
  <2> QED BY <2>1
<1>2. \A r \in Drafts : known[r] # Undecided => Made(r, known[r])'
  BY DEF ClicksOK
<1>3. after \in [Clicks -> ClickState]'
  BY DEF ClickState
<1> QED BY <1>1, <1>2, <1>3 DEF ClicksOK

LEMMA Moving ==
  ASSUME ClicksOK, NEW c \in Clicks,
         NEW place \in {"idle", "gate", "emit", "stored", "error", "accepted", "duplicate", "conflict"},
         Moves(c, place)
  PROVE  /\ click' \in [Clicks -> ClickState]
         /\ click'[c].at = place /\ click'[c].gate = click[c].gate /\ click'[c].wants = Wanted(c)
         /\ \A d \in Clicks : d # c => click'[d] = click[d]
<1>1. click' = [click EXCEPT ![c] = [click[c] EXCEPT !.at = place]] /\ click \in [Clicks -> ClickState]
  BY DEF Moves, ClicksOK
<1>2. click'[c] = [click[c] EXCEPT !.at = place] /\ click[c] \in ClickState
  BY <1>1
<1>3. [click[c] EXCEPT !.at = place] \in ClickState
  BY <1>2 DEF ClickState
<1> QED BY <1>1, <1>2, <1>3 DEF ClickState, Wanted

(* A click answered by what the process remembers, or by an error.          *)
LEMMA MovesKeep ==
  ASSUME OnlyDrafts, OneDecision, AgentsOK, ClicksOK, NEW c \in Clicks,
         NEW place \in {"gate", "emit", "error", "duplicate", "conflict"}, Moves(c, place),
         UNCHANGED <<job, log, run, decided>>,
         place = "duplicate" => Made(click[c].gate, Wanted(c)),
         place = "conflict" => \E n \in Outcomes \ {Wanted(c)} : Made(click[c].gate, n)
  PROVE  ClicksOK'
<1>1. PICK after : after = click'
  OBVIOUS
<1>2. PICK known : known = decided
  OBVIOUS
<1>3. /\ after \in [Clicks -> ClickState]
      /\ after[c].at = place /\ after[c].gate = click[c].gate /\ after[c].wants = Wanted(c)
      /\ \A d \in Clicks : d # c => after[d] = click[d]
  BY <1>1, Moving
<1>4. (\A r : Stored(r)' = Stored(r) /\ \A n : Made(r, n)' <=> Made(r, n)) /\ Drafts' = Drafts
  BY RecordStays
<1>5. IsAnswered(after[c])'
  BY <1>3, <1>4 DEF IsAnswered
<1>6. known \in [Drafts -> Outcomes \cup {Undecided}]
  BY <1>2 DEF ClicksOK
<1>7. \A d \in Clicks : after[d] = click[d] \/ IsAnswered(after[d])'
  BY <1>3, <1>5
<1> QED BY <1>1, <1>2, <1>3, <1>4, <1>6, <1>7, ClicksKept

LEMMA AgentsKept ==
  ASSUME AgentsOK, UNCHANGED <<job, run>>, \A r, n : Made(r, n) => Made(r, n)'
  PROVE  AgentsOK'
BY DEF AgentsOK, AgentOK, Knows

LEMMA InboxStep ==
  ASSUME OnlyDrafts, OneDecision, AgentsOK, ClicksOK, InboxNext
  PROVE  OneDecision' /\ AgentsOK' /\ ClicksOK' /\ UNCHANGED job
<1>1. DOMAIN click = Clicks
  BY DEF ClicksOK
<1>2. ASSUME UNCHANGED <<job, log, run>> PROVE OneDecision' /\ AgentsOK'
  BY <1>2, RecordStays, AgentsKept
<1>3. ASSUME NEW r \in Drafts, Offer(r) PROVE OneDecision' /\ AgentsOK' /\ ClicksOK' /\ UNCHANGED job
  <2>1. UNCHANGED <<job, log, run, click, decided>>
    BY <1>3 DEF Offer, vars
  <2>2. PICK after, known : after = click' /\ known = decided' /\ after = click /\ known = decided
    BY <2>1
  <2>3. ClicksOK'
    BY <2>1, <2>2, RecordStays, ClicksKept DEF ClicksOK
  <2> QED BY <1>2, <2>1, <2>3
<1>4. ASSUME NEW c \in Clicks, Click(c) PROVE OneDecision' /\ AgentsOK' /\ ClicksOK' /\ UNCHANGED job
  <2>1. UNCHANGED <<job, log, run, decided>>
    BY <1>4 DEF Click, vars
  <2>2. click[c].gate \in Drafts /\ Wanted(c) \in Outcomes
    BY DEF ClicksOK, ClickState, Wanted
  <2>3. decided[click[c].gate] \in Outcomes \cup {Undecided}
    BY <2>2 DEF ClicksOK
  <2>4. decided[click[c].gate] # Undecided => Made(click[c].gate, decided[click[c].gate])
    BY <2>2 DEF ClicksOK
  <2>5. \/ Moves(c, "error") \/ Moves(c, "gate")
        \/ Moves(c, "duplicate") /\ decided[click[c].gate] = Wanted(c)
        \/ Moves(c, "conflict") /\ decided[click[c].gate] \notin {Undecided, Wanted(c)}
    BY <1>4 DEF Click, Refused
  <2>6. Undecided \notin Outcomes
    BY DEF Undecided, Outcomes
  <2>7. ClicksOK'
    <3>1. CASE Moves(c, "error")
      BY <2>1, <3>1, MovesKeep
    <3>2. CASE Moves(c, "gate")
      BY <2>1, <3>2, MovesKeep
    <3>3. CASE Moves(c, "duplicate") /\ decided[click[c].gate] = Wanted(c)
      <4>1. Made(click[c].gate, Wanted(c))
        BY <2>2, <2>4, <2>6, <3>3
      <4> QED BY <2>1, <3>3, <4>1, MovesKeep
    <3>4. CASE Moves(c, "conflict") /\ decided[click[c].gate] \notin {Undecided, Wanted(c)}
      <4>1. \E n \in Outcomes \ {Wanted(c)} : Made(click[c].gate, n)
        BY <2>3, <2>4, <3>4
      <4> QED BY <2>1, <3>4, <4>1, MovesKeep
    <3> QED BY <2>5, <3>1, <3>2, <3>3, <3>4
  <2> QED BY <1>2, <2>1, <2>7
<1>5. ASSUME NEW c \in Clicks, ReadGate(c) PROVE OneDecision' /\ AgentsOK' /\ ClicksOK' /\ UNCHANGED job
  <2>1. UNCHANGED <<job, log, run, decided>> /\ (Moves(c, "emit") \/ Moves(c, "error"))
    BY <1>5 DEF ReadGate, vars, Ends
  <2>2. ClicksOK'
    BY <2>1, MovesKeep
  <2> QED BY <1>2, <2>1, <2>2
<1>6. ASSUME NEW c \in Clicks, EmitDecision(c) PROVE OneDecision' /\ AgentsOK' /\ ClicksOK' /\ UNCHANGED job
  <2>1. PICK g \in Drafts : g = click[c].gate
    BY DEF ClicksOK, ClickState
  <2>2. UNCHANGED <<job, run, decided>> /\ Emitted(c)
    BY <1>6 DEF EmitDecision
  <2>3. /\ OneDecision' /\ Drafts' = Drafts
        /\ \A r : Stored(r) \subseteq Stored(r)' /\ \A n : Made(r, n) => Made(r, n)'
        /\ Stored(g)' # {}
    BY <2>1, <2>2, RecordGrows
  <2>4. PICK e : e = CHOOSE i \in DOMAIN log' : log'[i].key = DecisionKey(g)
    OBVIOUS
  <2>5. e \in Stored(g)' /\ e \in Nat
    <3>1. \E i \in DOMAIN log' : log'[i].key = DecisionKey(g)
      BY <2>3 DEF Stored
    <3>2. e \in DOMAIN log' /\ log'[e].key = DecisionKey(g)
      BY <2>4, <3>1
    <3>3. DOMAIN log' \subseteq Nat
      BY <2>3 DEF OneDecision
    <3> QED BY <3>2, <3>3 DEF Stored
  <2>6. PICK after : after = click'
    OBVIOUS
  <2>7. after = [click EXCEPT ![c].at = "stored", ![c].event = e]
    BY <1>6, <2>1, <2>4, <2>6 DEF EmitDecision
  <2>8. click \in [Clicks -> ClickState] /\ click[c] \in ClickState
    BY DEF ClicksOK
  <2>9. after[c] = [click[c] EXCEPT !.at = "stored", !.event = e] /\ after[c] \in ClickState
    BY <2>5, <2>7, <2>8 DEF ClickState
  <2>10. after \in [Clicks -> ClickState] /\ \A d \in Clicks : d # c => after[d] = click[d]
    BY <2>7, <2>8, <2>9
  <2>11. after[c].at = "stored" /\ after[c].event = e /\ after[c].gate = g
    BY <2>1, <2>8, <2>9 DEF ClickState
  <2>12. IsAnswered(after[c])'
    BY <2>5, <2>11 DEF IsAnswered
  <2>13. PICK known : known = decided /\ known \in [Drafts -> Outcomes \cup {Undecided}]
    BY DEF ClicksOK
  <2>14. \A d \in Clicks : after[d] = click[d] \/ IsAnswered(after[d])'
    BY <2>10, <2>12
  <2>15. ClicksOK'
    BY <2>2, <2>3, <2>6, <2>10, <2>13, <2>14, ClicksKept
  <2> QED BY <2>2, <2>3, <2>15, AgentsKept
<1>7. ASSUME NEW c \in Clicks, LoseEmit(c) PROVE OneDecision' /\ AgentsOK' /\ ClicksOK' /\ UNCHANGED job
  <2>1. PICK g \in Drafts : g = click[c].gate
    BY DEF ClicksOK, ClickState
  <2>2. UNCHANGED <<job, run, decided>> /\ Emitted(c) /\ Moves(c, "error")
    BY <1>7 DEF LoseEmit, Ends
  <2>3. /\ OneDecision' /\ Drafts' = Drafts
        /\ \A r : Stored(r) \subseteq Stored(r)' /\ \A n : Made(r, n) => Made(r, n)'
    BY <2>1, <2>2, RecordGrows
  <2>4. PICK after : after = click'
    OBVIOUS
  <2>5. /\ after \in [Clicks -> ClickState] /\ after[c].at = "error"
        /\ \A d \in Clicks : d # c => after[d] = click[d]
    BY <2>2, <2>4, Moving
  <2>6. IsAnswered(after[c])'
    BY <2>5 DEF IsAnswered
  <2>7. PICK known : known = decided /\ known \in [Drafts -> Outcomes \cup {Undecided}]
    BY DEF ClicksOK
  <2>8. \A d \in Clicks : after[d] = click[d] \/ IsAnswered(after[d])'
    BY <2>5, <2>6
  <2>9. ClicksOK'
    BY <2>2, <2>3, <2>4, <2>5, <2>7, <2>8, ClicksKept
  <2> QED BY <2>2, <2>3, <2>9, AgentsKept
<1>8. ASSUME NEW c \in Clicks, ReadStored(c) PROVE OneDecision' /\ AgentsOK' /\ ClicksOK' /\ UNCHANGED job
  <2>1. PICK g, i : g \in Drafts /\ g = click[c].gate /\ i = click[c].event /\ i \in Stored(g)
    <3>1. click[c] \in ClickState /\ IsAnswered(click[c]) /\ click[c].at = "stored"
      BY <1>8 DEF ReadStored, At, ClicksOK
    <3> QED BY <3>1 DEF ClickState, IsAnswered
  <2>2. PICK n : n = log[i].name
    OBVIOUS
  <2>3. n \in Outcomes /\ Made(g, n)
    BY <2>1, <2>2, DecisionFacts DEF Stored, Made, DecisionOf
  <2>4. /\ UNCHANGED <<job, log, run>> /\ decided' = [decided EXCEPT ![g] = n]
        /\ Moves(c, IF n = Wanted(c) THEN "accepted" ELSE "conflict")
    BY <1>8, <2>1, <2>2 DEF ReadStored, vars, Ends
  <2>5. (\A r : Stored(r)' = Stored(r) /\ \A x : Made(r, x)' <=> Made(r, x)) /\ Drafts' = Drafts
    BY <2>4, RecordStays
  <2>6. PICK after : after = click'
    OBVIOUS
  <2>7. /\ after \in [Clicks -> ClickState]
        /\ after[c].at = (IF n = Wanted(c) THEN "accepted" ELSE "conflict")
        /\ after[c].gate = g /\ after[c].wants = Wanted(c)
        /\ \A d \in Clicks : d # c => after[d] = click[d]
    BY <2>1, <2>4, <2>6, Moving
  <2>8. IsAnswered(after[c])'
    BY <2>3, <2>5, <2>7 DEF IsAnswered
  <2>9. PICK known : known = [decided EXCEPT ![g] = n]
    OBVIOUS
  <2>10. /\ known \in [Drafts -> Outcomes \cup {Undecided}]
         /\ \A r \in Drafts : known[r] = decided[r] \/ (r = g /\ known[r] = n)
    BY <2>3, <2>9 DEF ClicksOK
  <2>11. \A d \in Clicks : after[d] = click[d] \/ IsAnswered(after[d])'
    BY <2>7, <2>8
  <2>12. \A r \in Drafts : known[r] \in {decided[r], Undecided} \/ Made(r, known[r])'
    <3>1. Made(g, n)'
      BY <2>3, <2>5
    <3> QED BY <2>10, <3>1
  <2>13. ClicksOK'
    <3>1. click' = after /\ decided' = known
      BY <2>4, <2>6, <2>9
    <3>2. \A r : Stored(r) \subseteq Stored(r)' /\ \A x : Made(r, x) => Made(r, x)'
      BY <2>5
    <3> QED BY <2>5, <2>7, <2>10, <2>11, <2>12, <3>1, <3>2, ClicksKept
  <2> QED BY <1>2, <2>4, <2>13
<1>9. ASSUME RestartInbox PROVE OneDecision' /\ AgentsOK' /\ ClicksOK' /\ UNCHANGED job
  <2>1. PICK after, known : after = click' /\ known = decided'
    OBVIOUS
  <2>2. /\ UNCHANGED <<job, log, run>> /\ known = [r \in Drafts |-> Undecided]
        /\ after = [c \in Clicks |-> IF click[c].at \in {"gate", "emit", "stored"}
                                     THEN [click[c] EXCEPT !.at = "error"] ELSE click[c]]
    BY <1>1, <1>9, <2>1 DEF RestartInbox
  <2>3. (\A r : Stored(r)' = Stored(r) /\ \A n : Made(r, n)' <=> Made(r, n)) /\ Drafts' = Drafts
    BY <2>2, RecordStays
  <2>4. ASSUME NEW c \in Clicks
        PROVE  after[c] \in ClickState /\ (after[c] = click[c] \/ after[c].at = "error")
    BY <2>2 DEF ClicksOK, ClickState
  <2>5. \A c \in Clicks : after[c] = click[c] \/ IsAnswered(after[c])'
    BY <2>4 DEF IsAnswered
  <2>6. /\ after \in [Clicks -> ClickState] /\ known \in [Drafts -> Outcomes \cup {Undecided}]
        /\ \A r \in Drafts : known[r] = Undecided
    BY <2>2, <2>4
  <2>7. ClicksOK'
    BY <2>1, <2>3, <2>5, <2>6, ClicksKept
  <2> QED BY <1>2, <2>2, <2>7
<1> QED BY <1>1, <1>3, <1>4, <1>5, <1>6, <1>7, <1>8, <1>9 DEF InboxNext

(* The programs: which of them draft, count and act.                        *)
Studied == {"slack-approvals-agent", "fraud/evaluate", "reconciliation-case", "code-review-agent"}
Apart(f) == f.id \notin Studied
IsApprover(r, f) ==
  r # 0 /\ ((\E c, allowed : f = ReconciliationCase(r, c, allowed)) \/ \E pr : f = CodeReviewAgent(r, pr))
Fits(r, f) == Apart(f) \/ IsApprover(r, f)
Counts(f) == f = NotDeployed \/ \E t : f = EvaluateFraud(Purchase(t))

LEMMA ApartById ==
  /\ \A id, t, s : id \notin Studied => Apart(Function(id, t, s))
  /\ \A id, t, s, e : id \notin Studied => Apart(Script(id, t, s, e))
<1>1. ASSUME NEW id, NEW t, NEW s, NEW e, id \notin Studied
      PROVE  Function(id, t, s).id = id /\ Script(id, t, s, e).id = id
  BY DEF Function, Script
<1> QED BY <1>1 DEF Apart

LEMMA JobNames ==
  /\ \A tx : EvaluateFraud(tx).id = "fraud/evaluate"
  /\ \A r, c, a : ReconciliationCase(r, c, a).id = "reconciliation-case"
  /\ \A r, pr : CodeReviewAgent(r, pr).id = "code-review-agent"
  /\ \A r, titled : ApprovalsAgent(r, titled).id = "slack-approvals-agent"
  /\ NotDeployed.id = "none"
<1>1. \A id, t, s : Function(id, t, s).id = id
  BY DEF Function
<1> QED BY <1>1 DEF EvaluateFraud, ReconciliationCase, CodeReviewAgent, ApprovalsAgent, NotDeployed

LEMMA OrdersApart ==
  /\ \A o, v : Apart(PlaceOrder(o, v)) /\ Apart(FulfillOrder(o)) /\ Apart(GoProcessOrder(o, v))
  /\ \A o, p : Apart(PlaceOrders(o, p)) /\ Apart(PostTwice(o, p)) /\ Apart(QuickOrder(o)) /\ Apart(process_order(o))
  /\ Apart(HourlyOrderReport) /\ Apart(Setup) /\ Apart(ProcessOrderCreated) /\ Apart(ProcessOrderShipped)
BY ApartById DEF Studied, PlaceOrder, FulfillOrder, GoProcessOrder, PlaceOrders, PostTwice, QuickOrder, process_order,
   HourlyOrderReport, Setup, ProcessOrderCreated, ProcessOrderShipped

LEMMA WorkersApart ==
  /\ \A m, d : Apart(researchAgent(m)) /\ Apart(docProcessor(d)) /\ Apart(trigger(d))
               /\ Apart(verify(d)) /\ Apart(IngestCorpus(d)) /\ Apart(Edit(d)) /\ Apart(Upload(d))
  /\ \A a, b, c : Apart(ProcessUpload(a, b, c)) /\ Apart(User(a)) /\ Apart(UserOf(a, b)) /\ Apart(ProcessTodo(a, b))
  /\ Apart(NotDeployed)
BY ApartById DEF Studied, researchAgent, docProcessor, trigger, verify, IngestCorpus, Edit, Upload,
   ProcessUpload, User, UserOf, ProcessTodo, NotDeployed

LEMMA ReviewersApart ==
  \A a, b : /\ Apart(ReconcileStatement(a, b)) /\ Apart(SweepDeadlines(a, b)) /\ Apart(ApproveContact(a, b))
            /\ Apart(ReplyToCase(a, b)) /\ Apart(OpenPr(a)) /\ Apart(ApproveReview(a, b))
BY ApartById DEF Studied, ReconcileStatement, SweepDeadlines, ApproveContact, ReplyToCase, OpenPr, ApproveReview

LEMMA ListsFit ==
  ASSUME NEW i \in Runs
  PROVE  /\ \A m : Fits(i, Program(m, <<>>).runs[i])
         /\ \A m, a, b : Fits(1, a) /\ Fits(2, b) => Fits(i, Program(m, <<a, b>>).runs[i])
         /\ \A m, a, b, c : Fits(1, a) /\ Fits(2, b) /\ Fits(3, c) => Fits(i, Program(m, <<a, b, c>>).runs[i])
         /\ \A m, a, b, c, d : Fits(1, a) /\ Fits(2, b) /\ Fits(3, c) /\ Fits(4, d) =>
              Fits(i, Program(m, <<a, b, c, d>>).runs[i])
         /\ \A m, a, b, c, d, e : Fits(1, a) /\ Fits(2, b) /\ Fits(3, c) /\ Fits(4, d) /\ Fits(5, e) =>
              Fits(i, Program(m, <<a, b, c, d, e>>).runs[i])
<1>1. ASSUME NEW m, NEW S, \A j \in DOMAIN S : Fits(j, S[j])
      PROVE  Fits(i, Program(m, S).runs[i])
  BY <1>1, WorkersApart DEF Program, Fits
<1>2. \A a, b : Fits(1, a) /\ Fits(2, b) => \A j \in DOMAIN <<a, b>> : Fits(j, <<a, b>>[j])
  OBVIOUS
<1>3. \A a, b, c : Fits(1, a) /\ Fits(2, b) /\ Fits(3, c) => \A j \in DOMAIN <<a, b, c>> : Fits(j, <<a, b, c>>[j])
  OBVIOUS
<1>4. \A a, b, c, d : Fits(1, a) /\ Fits(2, b) /\ Fits(3, c) /\ Fits(4, d) =>
        \A j \in DOMAIN <<a, b, c, d>> : Fits(j, <<a, b, c, d>>[j])
  OBVIOUS
<1>5. \A a, b, c, d, e : Fits(1, a) /\ Fits(2, b) /\ Fits(3, c) /\ Fits(4, d) /\ Fits(5, e) =>
        \A j \in DOMAIN <<a, b, c, d, e>> : Fits(j, <<a, b, c, d, e>>[j])
  OBVIOUS
<1>6. \A j \in DOMAIN <<>> : Fits(j, <<>>[j])
  OBVIOUS
<1> QED BY <1>1, <1>2, <1>3, <1>4, <1>5, <1>6

LEMMA ProgramsApart ==
  ASSUME NEW p \in Programs, NEW i \in Runs
  PROVE  \/ Fits(i, p.runs[i])
         \/ /\ p.runs[i] \in {ApprovalsAgent(i, TRUE), ApprovalsAgent(i, FALSE)}
            /\ \A j \in Runs \ {i} : p.runs[j] = NotDeployed
         \/ \A j \in Runs : Counts(p.runs[j])
<1>1. Fits(i, DuplicateOrder(TRUE).runs[i]) /\ Fits(i, DuplicateOrder(FALSE).runs[i]) /\ Fits(i, TwoOrders.runs[i])
  BY ListsFit, OrdersApart DEF DuplicateOrder, TwoOrders, Fits
<1>2. Fits(i, Uploads.runs[i]) /\ Fits(i, Ingests.runs[i]) /\ Fits(i, Todos.runs[i])
  BY ListsFit, WorkersApart DEF Uploads, Ingests, Todos, Fits
<1>3. /\ Fits(i, QuickOrdering.runs[i]) /\ Fits(i, GoOrdering.runs[i]) /\ Fits(i, FlaskOrdering.runs[i])
      /\ Fits(i, Compliance.runs[i])
  BY ListsFit, OrdersApart DEF QuickOrdering, GoOrdering, FlaskOrdering, Compliance, Fits
<1>4. Fits(i, Research.runs[i]) /\ Fits(i, Documents.runs[i])
  BY ListsFit, WorkersApart DEF Research, Documents, Fits
<1>5. /\ \A f : Apart(f) => Fits(1, f) /\ Fits(2, f) /\ Fits(3, f) /\ Fits(4, f) /\ Fits(5, f)
      /\ \A c, a : Fits(2, ReconciliationCase(2, c, a)) /\ Fits(3, ReconciliationCase(3, c, a))
      /\ \A pr : Fits(2, CodeReviewAgent(2, pr))
  BY DEF Fits, IsApprover
<1>6. /\ Fits(i, Statements.runs[i]) /\ (\A s : Fits(i, SweptReply(s).runs[i])) /\ Fits(i, Untriaged.runs[i])
      /\ Fits(i, NextPeriod.runs[i])
  BY <1>5, ListsFit, ReviewersApart DEF Statements, SweptReply, Untriaged, NextPeriod, Statement
<1>7. Fits(i, Review.runs[i])
  BY <1>5, ListsFit, ReviewersApart DEF Review
<1>8. Fits(i, Alerting.runs[i])
  <2>1. Alerting.runs = Program(2, <<>>).runs
    BY DEF Alerting, Watched, Program
  <2> QED BY <2>1, ListsFit
<1>9. ASSUME NEW t \in BOOLEAN, p = Draft(t)
      PROVE  Fits(i, p.runs[i]) \/ (p.runs[i] \in {ApprovalsAgent(i, TRUE), ApprovalsAgent(i, FALSE)}
                                     /\ \A j \in Runs \ {i} : p.runs[j] = NotDeployed)
  <2>1. \A j \in Runs : p.runs[j] = IF j = 1 THEN ApprovalsAgent(1, t) ELSE NotDeployed
    BY <1>9 DEF Draft, Program
  <2> QED BY <2>1, WorkersApart DEF Fits
<1>10. ASSUME p \in {RacingCards, DuplicateTransaction} PROVE \A j \in Runs : Counts(p.runs[j])
  BY <1>10 DEF RacingCards, DuplicateTransaction, Program, Counts
<1> QED BY <1>1, <1>2, <1>3, <1>4, <1>6, <1>7, <1>8, <1>9, <1>10 DEF Programs

LEMMA InboxStart == Init => InboxInv
<1> SUFFICES ASSUME Init, Drafts # {} PROVE OnlyDrafts /\ OneDecision /\ AgentsOK /\ ClicksOK
  BY DEF InboxInv
<1>1. PICK p \in Programs : job = p.runs
  BY DEF Init
<1>2. log = <<>> /\ run = [r \in Runs |-> Idle(r)]
  BY DEF Init, InitEngine
<1>3. /\ click \in [Clicks -> [gate : Drafts, wants : {"approved", "rejected"}, at : {"idle"}, event : {0}]]
      /\ decided = [r \in Drafts |-> Undecided]
  BY DEF Init, InitInbox
<1>4. OnlyDrafts
  <2>1. PICK i \in Runs : job[i].id = "slack-approvals-agent"
    BY DEF Drafts
  <2>2. ~Fits(i, job[i])
    BY <2>1, JobNames DEF Fits, Apart, Studied, IsApprover
  <2>3. ~Counts(job[i])
    BY <2>1, JobNames DEF Counts
  <2>4. /\ job[i] \in {ApprovalsAgent(i, TRUE), ApprovalsAgent(i, FALSE)}
        /\ \A j \in Runs \ {i} : job[j] = NotDeployed
    BY <1>1, <2>2, <2>3, ProgramsApart
  <2> QED BY <2>4 DEF OnlyDrafts, IsDraft
<1>5. OneDecision
  BY <1>2 DEF OneDecision
<1>6. AgentsOK
  <2>1. ASSUME NEW r \in Runs, job[r] = NotDeployed PROVE run[r].mode = "waiting"
    BY <1>2, <2>1 DEF Idle, NotDeployed, Function, Request
  <2>2. ASSUME NEW r \in Runs, job[r] # NotDeployed PROVE AgentOK(r)
    <3>1. IsDraft(r)
      BY <1>4, <2>2 DEF OnlyDrafts
    <3>2. run[r] = [mode |-> "forward", pc |-> 1, at |-> 1, got |-> 0, tries |-> 1, memo |-> <<>>, kept |-> 0]
      BY <1>2, <3>1, DraftFacts DEF Idle
    <3>3. run[r] \in AgentState
      BY <3>2 DEF AgentState
    <3>4. run[r].mode = "forward" /\ run[r].pc = 1 /\ run[r].memo = <<>>
      BY <3>2
    <3>5. Len(run[r].memo) = 0
      BY <3>4
    <3> QED BY <3>3, <3>4, <3>5 DEF AgentOK, AgentShape, Knows
  <2> QED BY <1>2, <2>1, <2>2 DEF AgentsOK
<1>7. ClicksOK
  <2>1. click \in [Clicks -> ClickState]
    BY <1>3 DEF ClickState, Outcomes
  <2>2. \A c \in Clicks : click[c].at = "idle"
    BY <1>3
  <2> QED BY <1>3, <2>1, <2>2 DEF ClicksOK, IsAnswered
<1> QED BY <1>4, <1>5, <1>6, <1>7

(* What the rest of the system leaves alone.                                *)
LEMMA NotifierKeepsInbox ==
  ASSUME NotifierNext
  PROVE  UNCHANGED <<job, log, run>>
<1>1. (StartNotifier \/ ReplayRuns \/ StopNotifier \/ \E on \in SUBSET Topics : SetRules(on)) => UNCHANGED <<job, log, run>>
  BY DEF StartNotifier, ReplayRuns, StopNotifier, SetRules, EngineIdle, vars
<1>2. \A s \in Topics : Process(s) \/ Send(s) \/ PutMark(s) \/ PutCursor(s) \/ Reconnect(s) => UNCHANGED <<job, log, run>>
  BY DEF Process, Send, PutMark, PutCursor, Reconnect, EngineIdle, vars
<1> QED BY <1>1, <1>2 DEF NotifierNext

LEMMA JobsStay ==
  ASSUME Next \/ InboxNext \/ NotifierNext
  PROVE  job' = job
<1>1. \A r \in Runs : Start(r) \/ ReadStore(r) \/ ReadView(r) \/ Park(r) \/ Woken(r) => job' = job
  BY DEF Start, ReadStore, ReadView, Park, Woken
<1>2. \A r \in Runs : Check(r) \/ Call(r) \/ Conflict(r) \/ Pass(r) => job' = job
  BY DEF Check, Call, Conflict, Pass
<1>3. \A r \in Runs : LoseAnswer(r) \/ Crash(r) \/ Elapse(r) => job' = job
  BY DEF LoseAnswer, Crash, Elapse
<1>4. \A r : Offer(r) => job' = job
  BY DEF Offer, vars
<1>5. \A c : Click(c) \/ ReadGate(c) \/ EmitDecision(c) \/ LoseEmit(c) \/ ReadStored(c) => job' = job
  BY DEF Click, ReadGate, EmitDecision, LoseEmit, ReadStored, vars
<1>6. RestartInbox => job' = job
  BY DEF RestartInbox
<1> QED BY <1>1, <1>2, <1>3, <1>4, <1>5, <1>6, NotifierKeepsInbox DEF Next, Advance, InboxNext

LEMMA InboxSteps == ASSUME InboxInv, [ExamplesNext]_exampleVars PROVE InboxInv'
<1>1. job' = job
  BY JobsStay DEF ExamplesNext, exampleVars, vars
<1>2. Drafts' = Drafts /\ (OnlyDrafts => OnlyDrafts')
  BY <1>1 DEF Drafts, OnlyDrafts, IsDraft
<1>3. ASSUME OneDecision, ClicksOK, UNCHANGED <<job, log, click, decided>>
      PROVE  OneDecision' /\ ClicksOK'
  <2>1. PICK after, known : after = click' /\ known = decided' /\ after = click /\ known = decided
    BY <1>3
  <2> QED BY <1>3, <2>1, RecordStays, ClicksKept DEF ClicksOK
<1>4. ASSUME OnlyDrafts, OneDecision, AgentsOK, ClicksOK
      PROVE  OneDecision' /\ AgentsOK' /\ ClicksOK'
  <2>1. CASE Next /\ UNCHANGED <<inboxVars, notifierVars>>
    <3>1. AgentsOK' /\ UNCHANGED <<job, log>>
      BY <1>4, <2>1, AgentStep DEF Next
    <3>2. UNCHANGED <<click, decided>>
      BY <2>1 DEF inboxVars
    <3> QED BY <1>3, <1>4, <3>1, <3>2
  <2>2. CASE InboxNext /\ UNCHANGED notifierVars
    BY <1>4, <2>2, InboxStep
  <2>3. CASE (NotifierNext /\ UNCHANGED inboxVars) \/ UNCHANGED exampleVars
    <3>1. UNCHANGED <<job, log, run, click, decided>>
      BY <2>3, NotifierKeepsInbox DEF inboxVars, exampleVars, vars
    <3>2. AgentsOK'
      BY <1>4, <3>1, RecordStays, AgentsKept
    <3> QED BY <1>3, <1>4, <3>1, <3>2
  <2> QED BY <2>1, <2>2, <2>3 DEF ExamplesNext
<1> QED BY <1>2, <1>4 DEF InboxInv

(* The approval inboxes: the log holds one decision of a gate, and what a   *)
(* run, a click and the process know of it is what the log holds.           *)
THEOREM InboxInvariance == Spec => []InboxInv
<1> QED BY InboxStart, InboxSteps, PTL DEF Spec

(* The first decision of a gate that reaches the engine is the decision:    *)
(* for any number of clicks, lost answers and restarts of the inbox, every  *)
(* answer to a click tells of it and the run goes on with it.               *)
THEOREM FirstDecisionsWin == Spec => []FirstDecisionWins
<1>1. ASSUME InboxInv PROVE FirstDecisionWins
  <2> SUFFICES ASSUME NEW r \in Drafts
               PROVE  LET decision == {log[i].name : i \in Stored(r)}
                          clicks == {c \in DOMAIN click : click[c].gate = r} IN
                        /\ Cardinality(Stored(r)) <= 1
                        /\ \A c \in clicks :
                             /\ click[c].at \in {"accepted", "duplicate"} => decision = {Wanted(c)}
                             /\ At(c, "conflict") => decision # {} /\ Wanted(c) \notin decision
                        /\ Did(r, "approve") => {Decisions[Memo(r, "approve")]} = decision
    BY DEF FirstDecisionWins
  <2> DEFINE decision == {log[i].name : i \in Stored(r)}
  <2>1. OnlyDrafts /\ OneDecision /\ AgentsOK /\ ClicksOK
    BY <1>1 DEF InboxInv
  <2>2. \A n : Made(r, n) => decision = {n}
    BY <2>1, GatesDecideOnce DEF Made
  <2>3. Cardinality(Stored(r)) <= 1
    <3>1. CASE Stored(r) = {}
      BY <3>1, FS_EmptySet
    <3>2. CASE Stored(r) # {}
      <4>1. PICK i : Stored(r) = {i}
        BY <2>1, <3>2, GatesDecideOnce
      <4> QED BY <4>1, FS_Singleton
    <3> QED BY <3>1, <3>2
  <2>4. ASSUME NEW c \in DOMAIN click, click[c].gate = r
        PROVE  /\ click[c].at \in {"accepted", "duplicate"} => decision = {Wanted(c)}
               /\ At(c, "conflict") => decision # {} /\ Wanted(c) \notin decision
    <3>1. IsAnswered(click[c])
      BY <2>1, <2>4 DEF ClicksOK
    <3>2. click[c].at \in {"accepted", "duplicate"} => decision = {Wanted(c)}
      BY <2>2, <2>4, <3>1 DEF IsAnswered, Wanted
    <3>3. At(c, "conflict") => \E n \in Outcomes \ {Wanted(c)} : decision = {n}
      BY <2>2, <2>4, <3>1 DEF IsAnswered, Wanted, At
    <3> QED BY <3>2, <3>3
  <2>5. ASSUME Did(r, "approve") PROVE {Decisions[Memo(r, "approve")]} = decision
    <3>1. r \in Runs /\ job[r] # NotDeployed
      BY DEF Drafts, NotDeployed, Function
    <3>2. IsDraft(r) /\ AgentOK(r)
      BY <2>1, <3>1 DEF OnlyDrafts, AgentsOK
    <3>3. /\ DOMAIN Steps(r) = {1, 2} /\ Steps(r)[1].name # "approve" /\ Steps(r)[2].name = "approve"
      BY <3>1, <3>2, DraftFacts
    <3>4. Position(r, "approve") = 2
      BY <3>3 DEF Position
    <3>5. run[r].memo \in Seq(Nat) /\ Len(run[r].memo) \in 0 .. 2
      BY <3>2 DEF AgentOK, AgentShape, AgentState
    <3>6. 2 \in DOMAIN run[r].memo
      <4>1. PICK i \in DOMAIN run[r].memo : Steps(r)[i].name = "approve"
        BY <2>5 DEF Did
      <4> DEFINE l == Len(run[r].memo)
      <4>2. DOMAIN run[r].memo = 1 .. l /\ l \in 0 .. 2
        BY <3>5
      <4> HIDE DEF l
      <4>3. i \in 1 .. l
        BY <4>1, <4>2
      <4>4. i = 1 \/ i = 2
        BY <4>2, <4>3
      <4>5. i = 2
        BY <3>3, <4>1, <4>4
      <4> QED BY <4>1, <4>5
    <3>7. Len(run[r].memo) = 2
      <4> DEFINE l == Len(run[r].memo)
      <4>1. DOMAIN run[r].memo = 1 .. l /\ l \in 0 .. 2 /\ 2 \in 1 .. l
        BY <3>5, <3>6
      <4> HIDE DEF l
      <4>2. l = 2
        BY <4>1
      <4> QED BY <4>2 DEF l
    <3>8. PICK k \in {1, 2} : run[r].memo[2] = k /\ Made(r, Decisions[k])
      BY <3>2, <3>7 DEF AgentOK, Knows
    <3>9. Memo(r, "approve") = k
      BY <3>4, <3>8 DEF Memo
    <3> QED BY <2>2, <3>8, <3>9
  <2> QED BY <2>3, <2>4, <2>5
<1> QED BY <1>1, InboxInvariance, PTL

-----------------------------------------------------------------------------
(* The engine, whatever functions it executes.                              *)

Modes == {"waiting", "forward", "parked", "undo", "completed", "failed"}
RunState(S) ==
  [mode : Modes, pc : Nat, at : Nat \ {0}, got : S, tries : Nat, memo : Seq(S), kept : Nat]

(* Where a run of len steps is that has n answers, k of them shipped.       *)
Placed(mode, pc, n, k, len) ==
  /\ k <= n /\ n <= len
  /\ mode = "waiting" => n = 0 /\ pc = 1
  /\ mode \in {"forward", "parked"} => pc <= len /\ pc = n + 1
  /\ mode = "undo" => 1 <= pc /\ pc <= n
  /\ mode = "completed" => n = len

IsPlaced(r) ==
  /\ \E S : run[r] \in RunState(S)
  /\ Placed(run[r].mode, run[r].pc, Len(run[r].memo), run[r].kept, Len(Steps(r)))
  /\ run[r].mode = "parked" => run[r].got \in Nat
RunsArePlaced == DOMAIN run = Runs /\ \A r \in Runs : IsPlaced(r)

(* What every function is: it has steps unless it is never started, and no  *)
(* undo waits.                                                              *)
NoWait(effects) == \A j \in 1 .. Len(effects) : effects[j].op # "wait"
IsFunction(f) ==
  /\ \E S : f.steps \in Seq(S)
  /\ f.trigger # <<"never">> => f.steps # <<>>
  /\ \A i \in DOMAIN f.steps : NoWait(f.steps[i].undo)

LEMMA RunStateGrows ==
  ASSUME NEW S, NEW T, S \subseteq T, NEW u \in RunState(S)
  PROVE  u \in RunState(T)
<1>1. u.memo \in Seq(T)
  BY SeqMonotonic DEF RunState
<1> QED BY <1>1 DEF RunState

(* The answers a run has, one more and fewer.                               *)
LEMMA OneMoreAnswer ==
  ASSUME NEW S, NEW s \in Seq(S), NEW v \in S
  PROVE  /\ Append(s, v) \in Seq(S) /\ Len(Append(s, v)) = Len(s) + 1
         /\ \A i \in 1 .. Len(s) : Append(s, v)[i] = s[i]
         /\ Append(s, v)[Len(s) + 1] = v
BY AppendProperties

LEMMA FewerAnswers ==
  ASSUME NEW S, NEW s \in Seq(S), NEW k \in 0 .. Len(s)
  PROVE  /\ SubSeq(s, 1, k) \in Seq(S) /\ Len(SubSeq(s, 1, k)) = k
         /\ \A i \in 1 .. k : SubSeq(s, 1, k)[i] = s[i]
<1> DEFINE n == Len(s)
<1>1. n \in Nat /\ k \in 0 .. n
  OBVIOUS
<1>2. \A i \in 1 .. k : s[i] \in S
  <2>1. \A i \in 1 .. n : s[i] \in S
    BY ElementOfSeq
  <2> HIDE DEF n
  <2> QED BY <1>1, <2>1
<1> HIDE DEF n
<1>3. k \in Int /\ 1 \in Int /\ k - 1 + 1 = k /\ (1 <= k \/ k = 0) /\ (\A i \in 1 .. k : 1 + i - 1 = i)
  BY <1>1
<1>4. /\ SubSeq(s, 1, k) \in Seq(S)
      /\ Len(SubSeq(s, 1, k)) = IF 1 <= k THEN k - 1 + 1 ELSE 0
      /\ \A i \in 1 .. k - 1 + 1 : SubSeq(s, 1, k)[i] = s[1 + i - 1]
  BY <1>2, <1>3, SubSeqProperties
<1> QED BY <1>3, <1>4

(* The records the engine writes.                                           *)
LEMMA GoneTo ==
  ASSUME NEW r, NEW S, run[r] \in RunState(S), 0 \in S, NEW pc \in Nat
  PROVE  /\ GoTo(r, pc) \in RunState(S)
         /\ GoTo(r, pc).mode = run[r].mode /\ GoTo(r, pc).pc = pc
         /\ GoTo(r, pc).at = 1 /\ GoTo(r, pc).got = 0
         /\ GoTo(r, pc).memo = run[r].memo /\ GoTo(r, pc).kept = run[r].kept
<1>1. PICK u \in RunState(S) : u = run[r]
  OBVIOUS
<1>2. GoTo(r, pc) = [u EXCEPT !.pc = pc, !.at = 1, !.got = 0, !.tries = 1]
  BY <1>1 DEF GoTo
<1>3. PICK g : g = [u EXCEPT !.pc = pc, !.at = 1, !.got = 0, !.tries = 1]
  OBVIOUS
<1>4. 1 \in Nat \ {0}
  OBVIOUS
<1>5. g \in RunState(S) /\ g.mode = u.mode /\ g.pc = pc /\ g.at = 1 /\ g.got = 0 /\ g.memo = u.memo /\ g.kept = u.kept
  BY <1>3, <1>4 DEF RunState
<1> QED BY <1>1, <1>2, <1>3, <1>5

LEMMA ReturnedIs ==
  ASSUME NEW r, NEW S, run[r] \in RunState(S), NEW v \in S, 0 \in S, ~Undoes(r)
  PROVE  /\ Returned(r, v) \in RunState(S)
         /\ Returned(r, v).mode = IF run[r].pc = Len(Steps(r)) THEN "completed" ELSE "forward"
         /\ Returned(r, v).pc = run[r].pc + 1 /\ Returned(r, v).at = 1 /\ Returned(r, v).got = 0
         /\ Returned(r, v).memo = Append(run[r].memo, v) /\ Returned(r, v).kept = run[r].kept
<1>1. PICK m : m = IF run[r].pc = Len(Steps(r)) THEN "completed" ELSE "forward"
  OBVIOUS
<1>2. m \in Modes
  BY <1>1 DEF Modes
<1>3. PICK pc : pc = run[r].pc + 1 /\ pc \in Nat
  BY DEF RunState
<1>4. PICK list : list = Append(run[r].memo, v) /\ list \in Seq(S)
  BY OneMoreAnswer DEF RunState
<1>5. PICK g \in RunState(S) :
        /\ g = GoTo(r, pc) /\ g.pc = pc /\ g.at = 1 /\ g.got = 0
        /\ g.memo = run[r].memo /\ g.kept = run[r].kept
  BY <1>3, GoneTo
<1>6. Returned(r, v) = [g EXCEPT !.memo = list, !.mode = m]
  BY <1>1, <1>3, <1>4, <1>5 DEF Returned
<1>7. PICK rec : rec = Returned(r, v)
  OBVIOUS
<1>8. /\ rec \in RunState(S) /\ rec.mode = m /\ rec.pc = pc /\ rec.at = 1 /\ rec.got = 0
      /\ rec.memo = list /\ rec.kept = run[r].kept
  BY <1>2, <1>4, <1>5, <1>6, <1>7 DEF RunState
<1> QED BY <1>1, <1>3, <1>4, <1>7, <1>8

LEMMA UndoneIs ==
  ASSUME NEW r, NEW S, run[r] \in RunState(S), 0 \in S, NEW pc \in Nat
  PROVE  /\ UndoFrom(r, pc) \in RunState(S)
         /\ UndoFrom(r, pc).mode = IF pc = 0 THEN "failed" ELSE "undo"
         /\ UndoFrom(r, pc).pc = pc /\ UndoFrom(r, pc).at = 1 /\ UndoFrom(r, pc).got = 0
         /\ UndoFrom(r, pc).memo = run[r].memo /\ UndoFrom(r, pc).kept = run[r].kept
<1>1. PICK m : m = IF pc = 0 THEN "failed" ELSE "undo"
  OBVIOUS
<1>2. m \in Modes
  BY <1>1 DEF Modes
<1>3. PICK g \in RunState(S) :
        /\ g = GoTo(r, pc) /\ g.pc = pc /\ g.at = 1 /\ g.got = 0
        /\ g.memo = run[r].memo /\ g.kept = run[r].kept
  BY GoneTo
<1>4. UndoFrom(r, pc) = [g EXCEPT !.mode = m]
  BY <1>1, <1>3 DEF UndoFrom
<1>5. PICK rec : rec = UndoFrom(r, pc)
  OBVIOUS
<1>6. /\ rec \in RunState(S) /\ rec.mode = m /\ rec.pc = pc /\ rec.at = 1 /\ rec.got = 0
      /\ rec.memo = run[r].memo /\ rec.kept = run[r].kept
  BY <1>2, <1>3, <1>4, <1>5 DEF RunState
<1> QED BY <1>1, <1>5, <1>6

(* Where they leave the run.                                                *)
IsPlacedAt(r, rec) ==
  /\ \E S : rec \in RunState(S)
  /\ Placed(rec.mode, rec.pc, Len(rec.memo), rec.kept, Len(Steps(r)))
  /\ rec.mode = "parked" => rec.got \in Nat

LEMMA PlacedRun ==
  ASSUME NEW r, IsPlaced(r), IsFunction(job[r])
  PROVE  /\ \A v : \E S : v \in S /\ 0 \in S /\ run[r] \in RunState(S)
         /\ Len(Steps(r)) \in Nat /\ Len(run[r].memo) \in Nat
<1>1. PICK S : run[r] \in RunState(S)
  BY DEF IsPlaced
<1>2. ASSUME NEW v PROVE \E T : v \in T /\ 0 \in T /\ run[r] \in RunState(T)
  <2>1. run[r] \in RunState(S \cup {0, v})
    BY <1>1, RunStateGrows
  <2> QED BY <2>1
<1>3. Len(Steps(r)) \in Nat
  BY LenProperties DEF IsFunction, Steps
<1>4. Len(run[r].memo) \in Nat
  BY <1>1, LenProperties DEF RunState
<1> QED BY <1>2, <1>3, <1>4

LEMMA ReturnPlaces ==
  ASSUME NEW r, IsPlaced(r), IsFunction(job[r]), run[r].mode \in {"forward", "parked", "undo"}, NEW v
  PROVE  IsPlacedAt(r, Returned(r, v))
<1>1. PICK S : v \in S /\ 0 \in S /\ run[r] \in RunState(S)
  BY PlacedRun
<1>2. PICK n, len, k, pc, mode :
        /\ n = Len(run[r].memo) /\ len = Len(Steps(r)) /\ k = run[r].kept /\ pc = run[r].pc /\ mode = run[r].mode
  OBVIOUS
<1>3. n \in Nat /\ len \in Nat /\ k \in Nat /\ pc \in Nat /\ Placed(mode, pc, n, k, len)
  BY <1>1, <1>2, PlacedRun DEF IsPlaced, RunState
<1>4. PICK rec : rec = Returned(r, v)
  OBVIOUS
<1>5. CASE mode = "undo"
  <2>1. pc - 1 \in Nat /\ pc - 1 <= n /\ (pc - 1 # 0 => 1 <= pc - 1)
    BY <1>3, <1>5 DEF Placed
  <2>2. Returned(r, v) = UndoFrom(r, pc - 1)
    BY <1>2, <1>5 DEF Returned, Undoes
  <2>3. /\ rec \in RunState(S) /\ rec.mode = (IF pc - 1 = 0 THEN "failed" ELSE "undo") /\ rec.pc = pc - 1
        /\ rec.memo = run[r].memo /\ rec.kept = k
    BY <1>1, <1>2, <1>4, <2>1, <2>2, UndoneIs
  <2>4. Len(rec.memo) = n
    BY <1>2, <2>3
  <2>5. Placed(rec.mode, rec.pc, n, k, len)
    BY <1>3, <2>1, <2>3 DEF Placed
  <2> QED BY <1>2, <1>4, <2>3, <2>4, <2>5 DEF IsPlacedAt
<1>6. CASE mode # "undo"
  <2>1. pc = n + 1 /\ pc <= len
    BY <1>2, <1>3, <1>6 DEF Placed
  <2>2. ~Undoes(r)
    BY <1>2, <1>6 DEF Undoes
  <2>3. /\ rec \in RunState(S) /\ rec.mode = (IF pc = len THEN "completed" ELSE "forward") /\ rec.pc = pc + 1
        /\ rec.memo = Append(run[r].memo, v) /\ rec.kept = k
    BY <1>1, <1>2, <1>4, <2>2, ReturnedIs
  <2>4. Len(rec.memo) = n + 1
    BY <1>1, <1>2, <2>3, OneMoreAnswer DEF RunState
  <2>5. Placed(rec.mode, rec.pc, n + 1, k, len)
    BY <1>3, <2>1, <2>3 DEF Placed
  <2> QED BY <1>2, <1>4, <2>3, <2>4, <2>5 DEF IsPlacedAt
<1> QED BY <1>5, <1>6

LEMMA GivesUpPlaces ==
  ASSUME NEW r, IsPlaced(r), IsFunction(job[r]), run[r].mode \in {"forward", "parked", "undo"}
  PROVE  IsPlacedAt(r, GivesUp(r))
<1>1. PICK S : 0 \in S /\ run[r] \in RunState(S)
  BY PlacedRun
<1>2. PICK n, len, k, pc, mode :
        /\ n = Len(run[r].memo) /\ len = Len(Steps(r)) /\ k = run[r].kept /\ pc = run[r].pc /\ mode = run[r].mode
  OBVIOUS
<1>3. n \in Nat /\ len \in Nat /\ k \in Nat /\ pc \in Nat /\ Placed(mode, pc, n, k, len)
  BY <1>1, <1>2, PlacedRun DEF IsPlaced, RunState
<1>4. PICK back : back = IF Undoes(r) THEN pc - 1 ELSE n
  OBVIOUS
<1>5. back \in Nat /\ back <= n /\ (back # 0 => 1 <= back)
  BY <1>2, <1>3, <1>4 DEF Placed, Undoes
<1>6. PICK rec : rec = GivesUp(r) /\ rec = UndoFrom(r, back)
  BY <1>2, <1>4 DEF GivesUp
<1>7. /\ rec \in RunState(S) /\ rec.mode = (IF back = 0 THEN "failed" ELSE "undo") /\ rec.pc = back
      /\ rec.memo = run[r].memo /\ rec.kept = k
  BY <1>1, <1>2, <1>5, <1>6, UndoneIs
<1>8. Len(rec.memo) = n
  BY <1>2, <1>7
<1>9. Placed(rec.mode, rec.pc, n, k, len)
  BY <1>3, <1>5, <1>7 DEF Placed
<1> QED BY <1>2, <1>6, <1>7, <1>8, <1>9 DEF IsPlacedAt

(* A run's step is written down as one record, and the others' are left.    *)
OnlyRuns(r) ==
  /\ job' = job /\ hit \subseteq hit' /\ DOMAIN run' = DOMAIN run
  /\ \A q \in DOMAIN run \ {r} : run'[q] = run[q]

LEMMA SetRun ==
  ASSUME NEW r, NEW rec, Set(r, rec)
  PROVE  /\ DOMAIN run' = DOMAIN run /\ \A q \in DOMAIN run \ {r} : run'[q] = run[q]
         /\ r \in DOMAIN run => run'[r] = rec
BY DEF Set

LEMMA StepsOnlyRun ==
  ASSUME NEW r, Advance(r) \/ LoseAnswer(r) \/ Crash(r) \/ Elapse(r)
  PROVE  OnlyRuns(r)
<1>1. Start(r) \/ Park(r) \/ Woken(r) \/ Check(r) \/ Pass(r) \/ Elapse(r) \/ Crash(r) =>
        \E rec : Set(r, rec)
  BY DEF Start, Park, Woken, Check, Pass, Elapse, Crash, Answer
<1>2. \A v : Answer(r, v) => \E rec : Set(r, rec)
  BY DEF Answer
<1>3. Throw(r) => \E rec : Set(r, rec)
  BY DEF Throw
<1>4. ReadStore(r) \/ ReadView(r) \/ Call(r) \/ Conflict(r) \/ LoseAnswer(r) => \E rec : Set(r, rec)
  BY <1>2, <1>3 DEF ReadStore, ReadView, Call, Conflict, LoseAnswer
<1>5. job' = job /\ hit \subseteq hit'
  BY DEF Advance, Start, ReadStore, ReadView, Park, Woken, Check, Call, Conflict, Pass, LoseAnswer, Crash, Elapse, Hit
<1> QED BY <1>1, <1>4, <1>5, SetRun DEF Advance, OnlyRuns

-----------------------------------------------------------------------------
(* What a step makes of its run: rec is the run after it.                   *)

Fresh(rec) == rec.at = 1 /\ rec.got = 0
Same(r, rec) == rec.pc = run[r].pc /\ rec.memo = run[r].memo /\ run[r].kept <= rec.kept
KeptOf(r, rec) ==
  /\ Len(rec.memo) <= Len(run[r].memo) /\ run[r].kept <= rec.kept
  /\ \A i \in 1 .. Len(rec.memo) : rec.memo[i] = run[r].memo[i]

Starts(r, rec) ==
  /\ run[r].mode = "waiting" /\ rec.mode = "forward" /\ Same(r, rec)
  /\ rec.at = run[r].at /\ rec.got = run[r].got

(* What a call answers.                                                     *)
Gives(r, v) ==
  \/ Doing(r, "read") /\ v = StreamVersion(Effect(r).on)
  \/ Doing(r, "get") /\ v = cell[Effect(r).on]
  \/ Doing(r, "match") /\ v = Effect(r).value /\ v = cell[Effect(r).on]
  \/ Doing(r, "refuse") /\ v = run[r].got /\ v \notin Effect(r).on
  \/ Doing(r, "view")
  \/ Call(r) /\ v = Written(r)
CallsOn(r, rec) ==
  /\ Working(r) /\ run[r].at <= Len(Effects(r)) /\ run[r].at # Len(Effects(r))
  /\ rec.mode = run[r].mode /\ Same(r, rec) /\ rec.at = run[r].at + 1 /\ Gives(r, rec.got)
Parks(r, rec) ==
  /\ Forward(r) /\ Doing(r, "wait")
  /\ rec.mode = "parked" /\ Same(r, rec) /\ rec.at = run[r].at
Returns(r, rec) ==
  /\ run[r].mode \in {"forward", "parked", "undo"} /\ rec.mode \in {"forward", "undo", "failed"}
  /\ Fresh(rec) /\ KeptOf(r, rec)
Records(r, rec, v) ==
  /\ run[r].mode \in {"forward", "parked"} /\ rec.mode \in {"forward", "completed"}
  /\ Fresh(rec) /\ rec.memo = Append(run[r].memo, v) /\ run[r].kept <= rec.kept

(* Why an answer was recorded: the run read something, or it called.        *)
Reads(r) == \E op \in {"read", "get", "match", "view", "refuse"} : Doing(r, op)
LEMMA GivesReads == \A r, v : Gives(r, v) => Reads(r) \/ (Call(r) /\ v = Written(r))
BY DEF Gives, Reads

Reason(r, v) ==
  \/ Woken(r)
  \/ Forward(r) /\ Working(r) /\ run[r].at = Len(Effects(r)) /\ Gives(r, v)
  \/ Forward(r) /\ v = 0 /\ (~Needed(r) \/ Effects(r) = <<>>)
  \/ v = 0 /\ job[r].errors = "skip"
Outcome(r, rec) ==
  Starts(r, rec) \/ CallsOn(r, rec) \/ Parks(r, rec) \/ Returns(r, rec) \/ \E v : Records(r, rec, v) /\ Reason(r, v)

LEMMA ReturnOutcome ==
  ASSUME NEW r, IsPlaced(r), IsFunction(job[r]), run[r].mode \in {"forward", "parked", "undo"}, NEW v
  PROVE  /\ Undoes(r) => Returns(r, Returned(r, v))
         /\ ~Undoes(r) => Records(r, Returned(r, v), v)
<1>1. PICK S : v \in S /\ 0 \in S /\ run[r] \in RunState(S)
  BY PlacedRun
<1>2. run[r].pc \in Nat /\ run[r].kept \in Nat /\ Len(run[r].memo) \in Nat
  BY <1>1, PlacedRun DEF RunState
<1>3. CASE Undoes(r)
  <2>1. run[r].pc - 1 \in Nat
    BY <1>2, <1>3 DEF IsPlaced, Placed, Undoes
  <2>2. Returned(r, v) = UndoFrom(r, run[r].pc - 1)
    BY <1>3 DEF Returned
  <2>3. PICK rec : rec = Returned(r, v)
    OBVIOUS
  <2>4. /\ rec.mode \in {"failed", "undo"} /\ rec.at = 1 /\ rec.got = 0
        /\ rec.memo = run[r].memo /\ rec.kept = run[r].kept
    BY <1>1, <2>1, <2>2, <2>3, UndoneIs
  <2>5. Len(rec.memo) = Len(run[r].memo)
    BY <2>4
  <2>6. KeptOf(r, rec)
    BY <1>2, <2>4, <2>5 DEF KeptOf
  <2> QED BY <1>3, <2>3, <2>4, <2>6 DEF Returns, Fresh
<1>4. CASE ~Undoes(r)
  <2>1. PICK rec : rec = Returned(r, v)
    OBVIOUS
  <2>2. /\ rec.mode \in {"completed", "forward"} /\ rec.at = 1 /\ rec.got = 0
        /\ rec.memo = Append(run[r].memo, v) /\ rec.kept = run[r].kept
    BY <1>1, <1>4, <2>1, ReturnedIs
  <2>3. run[r].kept <= rec.kept
    BY <1>2, <2>2
  <2> QED BY <1>4, <2>1, <2>2, <2>3 DEF Records, Fresh, Undoes
<1> QED BY <1>3, <1>4

LEMMA GivesUpOutcome ==
  ASSUME NEW r, IsPlaced(r), IsFunction(job[r]), run[r].mode \in {"forward", "parked", "undo"}
  PROVE  Returns(r, GivesUp(r))
<1>1. PICK S : 0 \in S /\ run[r] \in RunState(S)
  BY PlacedRun
<1>2. run[r].pc \in Nat /\ run[r].kept \in Nat /\ Len(run[r].memo) \in Nat
  BY <1>1, PlacedRun DEF RunState
<1>3. PICK back : back = (IF Undoes(r) THEN run[r].pc - 1 ELSE Len(run[r].memo)) /\ back \in Nat
  BY <1>2 DEF IsPlaced, Placed, Undoes
<1>4. PICK rec : rec = GivesUp(r) /\ rec = UndoFrom(r, back)
  BY <1>3 DEF GivesUp
<1>5. /\ rec.mode \in {"failed", "undo"} /\ rec.at = 1 /\ rec.got = 0
      /\ rec.memo = run[r].memo /\ rec.kept = run[r].kept
  BY <1>1, <1>3, <1>4, UndoneIs
<1>6. Len(rec.memo) = Len(run[r].memo)
  BY <1>5
<1>7. KeptOf(r, rec)
  BY <1>2, <1>5, <1>6 DEF KeptOf
<1> QED BY <1>4, <1>5, <1>7 DEF Returns, Fresh

(* A call that is answered, and one that throws.                            *)
LEMMA AnswerOutcome ==
  ASSUME NEW r \in DOMAIN run, IsPlaced(r), IsFunction(job[r]), NEW op, Doing(r, op), NEW v, Answer(r, v), Gives(r, v)
  PROVE  /\ IsPlacedAt(r, run'[r])
         /\ \/ CallsOn(r, run'[r])
            \/ Undoes(r) /\ run[r].at = Len(Effects(r)) /\ Returns(r, run'[r])
            \/ Forward(r) /\ run[r].at = Len(Effects(r)) /\ Records(r, run'[r], v)
<1>1. Working(r) /\ run[r].at <= Len(Effects(r)) /\ run[r].mode \in {"forward", "undo"}
  BY DEF Doing, Working, Busy
<1>2. CASE run[r].at = Len(Effects(r))
  <2>1. run'[r] = Returned(r, v)
    BY <1>2, SetRun DEF Answer
  <2>2. IsPlacedAt(r, Returned(r, v))
    BY <1>1, ReturnPlaces
  <2> QED BY <1>1, <1>2, <2>1, <2>2, ReturnOutcome DEF Undoes, Forward
<1>3. CASE run[r].at # Len(Effects(r))
  <2>1. PICK S : v \in S /\ 0 \in S /\ run[r] \in RunState(S)
    BY PlacedRun
  <2>2. PICK u \in RunState(S) : u = run[r]
    BY <2>1
  <2>3. u.at \in Nat \ {0} /\ u.kept \in Nat /\ u.at + 1 \in Nat \ {0}
    BY <2>2 DEF RunState
  <2>4. PICK at : at = u.at + 1 /\ at \in Nat \ {0}
    BY <2>3
  <2>5. PICK rec : rec = [u EXCEPT !.at = at, !.got = v]
    OBVIOUS
  <2>6. run'[r] = rec
    BY <1>3, <2>2, <2>4, <2>5, SetRun DEF Answer
  <2>7. /\ rec \in RunState(S) /\ rec.mode = u.mode /\ rec.pc = u.pc /\ rec.memo = u.memo /\ rec.kept = u.kept
        /\ rec.at = at /\ rec.got = v
    BY <2>1, <2>4, <2>5 DEF RunState
  <2>8. IsPlacedAt(r, rec)
    <3>1. rec.mode # "parked"
      BY <1>1, <2>2, <2>7
    <3> QED BY <2>2, <2>7, <3>1 DEF IsPlacedAt, IsPlaced
  <2>9. u.kept <= rec.kept
    BY <2>3, <2>7
  <2> QED BY <1>1, <1>3, <2>2, <2>4, <2>6, <2>7, <2>8, <2>9 DEF CallsOn, Same
<1> QED BY <1>2, <1>3

LEMMA ThrowOutcome ==
  ASSUME NEW r \in DOMAIN run, IsPlaced(r), IsFunction(job[r]), NEW op, Doing(r, op), Throw(r)
  PROVE  /\ IsPlacedAt(r, run'[r])
         /\ \/ Returns(r, run'[r])
            \/ job[r].errors = "skip" /\ Records(r, run'[r], 0)
<1>1. run[r].mode \in {"forward", "undo"}
  BY DEF Doing, Working, Busy
<1>2. CASE Set(r, GivesUp(r))
  <2>1. run'[r] = GivesUp(r)
    BY <1>2, SetRun
  <2> QED BY <1>1, <2>1, GivesUpPlaces, GivesUpOutcome
<1>3. CASE job[r].errors = "skip" /\ Set(r, Returned(r, 0))
  <2>1. run'[r] = Returned(r, 0)
    BY <1>3, SetRun
  <2> QED BY <1>1, <1>3, <2>1, ReturnPlaces, ReturnOutcome
<1>4. CASE Set(r, [run[r] EXCEPT !.at = 1, !.got = 0, !.tries = @ + 1])
  <2>1. PICK S : 0 \in S /\ run[r] \in RunState(S)
    BY PlacedRun
  <2>2. PICK u \in RunState(S) : u = run[r]
    BY <2>1
  <2>3. PICK rec : rec = [u EXCEPT !.at = 1, !.got = 0, !.tries = @ + 1]
    OBVIOUS
  <2>4. run'[r] = rec
    BY <1>4, <2>2, <2>3, SetRun
  <2>5. u.tries + 1 \in Nat /\ 1 \in Nat \ {0} /\ u.kept <= u.kept
    BY DEF RunState
  <2>6. /\ rec \in RunState(S) /\ rec.mode = u.mode /\ rec.pc = u.pc /\ rec.memo = u.memo /\ rec.kept = u.kept
        /\ rec.at = 1 /\ rec.got = 0
    BY <2>1, <2>3, <2>5 DEF RunState
  <2>7. IsPlacedAt(r, rec)
    BY <2>2, <2>6 DEF IsPlacedAt, IsPlaced
  <2>8. Len(rec.memo) = Len(u.memo) /\ Len(u.memo) \in Nat
    BY <2>2, <2>6, PlacedRun
  <2>9. KeptOf(r, rec)
    BY <2>2, <2>5, <2>6, <2>8 DEF KeptOf
  <2> QED BY <1>1, <2>2, <2>4, <2>6, <2>7, <2>9 DEF Returns, Fresh
<1> QED BY <1>2, <1>3, <1>4 DEF Throw

(* Numbers have a least one.                                                *)
LEMMA SmallestNumber ==
  ASSUME NEW T, T \subseteq Nat, T # {}
  PROVE  \E x \in T : \A y \in T : x <= y
<1> DEFINE R == {ss \in Nat \X Nat : ss[1] < ss[2]}
<1>1. IsWellFoundedOn(R, Nat)
  BY NatLessThanWellFounded DEF OpToRel
<1>2. PICK x \in T : \A y \in T : ~(<<y, x>> \in R)
  <2> HIDE DEF R
  <2> QED BY <1>1, WFMin
<1>3. ASSUME NEW y \in T PROVE x <= y
  <2>1. x \in Nat /\ y \in Nat
    OBVIOUS
  <2>2. <<y, x>> \in R <=> y < x
    BY <2>1
  <2> QED BY <1>2, <2>1, <2>2
<1> QED BY <1>3

LEMMA WaitingRuns ==
  ASSUME NEW r \in DOMAIN run, IsPlaced(r), IsFunction(job[r]), Start(r) \/ Park(r), Len(log) \in Nat
  PROVE  IsPlacedAt(r, run'[r]) /\ (Starts(r, run'[r]) \/ Parks(r, run'[r]))
<1>1. PICK S : Len(log) \in S /\ 0 \in S /\ run[r] \in RunState(S)
  BY PlacedRun
<1>2. PICK u \in RunState(S) : u = run[r]
  BY <1>1
<1>3. PICK n, len, k, pc, mode : n = Len(u.memo) /\ len = Len(Steps(r)) /\ k = u.kept /\ pc = u.pc /\ mode = u.mode
  OBVIOUS
<1>4. n \in Nat /\ len \in Nat /\ k \in Nat /\ pc \in Nat /\ Placed(mode, pc, n, k, len)
  BY <1>1, <1>2, <1>3, PlacedRun DEF IsPlaced, RunState
<1>5. CASE Start(r)
  <2>1. PICK rec : rec = [u EXCEPT !.mode = "forward"]
    OBVIOUS
  <2>2. run'[r] = rec /\ mode = "waiting"
    BY <1>2, <1>3, <1>5, <2>1, SetRun DEF Start
  <2>3. "forward" \in Modes
    BY DEF Modes
  <2>4. /\ rec \in RunState(S) /\ rec.mode = "forward" /\ rec.pc = pc /\ rec.memo = u.memo /\ rec.kept = k
        /\ rec.at = u.at /\ rec.got = u.got
    BY <1>3, <2>1, <2>3 DEF RunState
  <2>5. job[r].trigger # <<"never">>
    BY <1>5 DEF Start, Triggered
  <2>6. PICK T : Steps(r) \in Seq(T) /\ Steps(r) # <<>>
    BY <2>5 DEF IsFunction, Steps
  <2>7. len # 0
    BY <1>3, <2>6, EmptySeq
  <2>8. Placed("forward", pc, n, k, len)
    BY <1>4, <2>2, <2>7 DEF Placed
  <2>9. k <= rec.kept
    BY <1>4, <2>4
  <2> QED BY <1>2, <1>3, <2>2, <2>4, <2>8, <2>9 DEF IsPlacedAt, Starts, Same
<1>6. CASE Park(r)
  <2>1. PICK rec, l : rec = [u EXCEPT !.mode = "parked", !.got = l, !.kept = u.pc - 1] /\ l = Len(log)
    OBVIOUS
  <2>2. run'[r] = rec /\ Doing(r, "wait") /\ mode \in {"forward", "undo"}
    BY <1>2, <1>3, <1>6, <2>1, SetRun DEF Park, Doing, Working, Busy
  <2>3. mode = "forward"
    <3>1. SUFFICES ASSUME mode = "undo" PROVE FALSE
      BY <2>2
    <3>2. pc \in 1 .. len
      BY <1>4, <3>1 DEF Placed
    <3>3. PICK T : Steps(r) \in Seq(T)
      BY DEF IsFunction, Steps
    <3>4. pc \in DOMAIN Steps(r)
      BY <1>3, <3>2, <3>3
    <3>5. NoWait(Steps(r)[pc].undo)
      BY <3>4 DEF IsFunction, Steps
    <3>6. Effects(r) = Steps(r)[pc].undo
      BY <1>2, <1>3, <3>1 DEF Effects, Current
    <3>7. u.at \in Nat \ {0} /\ u.at <= Len(Effects(r)) /\ Effects(r)[u.at].op = "wait"
      BY <1>2, <2>2 DEF Doing, RunState
    <3> QED BY <3>5, <3>6, <3>7 DEF NoWait
  <2>4. "parked" \in Modes /\ u.pc - 1 \in Nat /\ pc = n + 1 /\ k <= u.pc - 1 /\ u.pc - 1 = n
    BY <1>3, <1>4, <2>3 DEF Modes, Placed
  <2>5. /\ rec \in RunState(S) /\ rec.mode = "parked" /\ rec.pc = pc /\ rec.memo = u.memo /\ rec.kept = n
        /\ rec.at = u.at /\ rec.got \in Nat
    BY <1>1, <1>3, <2>1, <2>4 DEF RunState
  <2>6. Placed("parked", pc, n, n, len)
    BY <1>4, <2>3, <2>4 DEF Placed
  <2> QED BY <1>2, <1>3, <2>2, <2>3, <2>4, <2>5, <2>6 DEF IsPlacedAt, Parks, Same, Forward
<1> QED BY <1>5, <1>6

(* The wait ends with the first event that answers it.                      *)
LEMMA WokenOutcome ==
  ASSUME NEW r \in DOMAIN run, IsPlaced(r), IsFunction(job[r]), Woken(r)
  PROVE  /\ IsPlacedAt(r, run'[r])
         /\ run'[r].kept = run[r].pc /\ run[r].pc = Len(run[r].memo) + 1
         /\ \E i \in Answers(r) : \E v \in Named(log[i].name, Effect(r).names) : Records(r, run'[r], v)
<1>1. PICK i, v :
        /\ i = CHOOSE x \in Answers(r) : \A j \in Answers(r) : x <= j
        /\ v = CHOOSE y \in Named(log[i].name, Effect(r).names) : TRUE
        /\ Set(r, [Returned(r, v) EXCEPT !.kept = run[r].pc])
  BY DEF Woken
<1>2. run[r].mode = "parked" /\ Answers(r) # {}
  BY DEF Woken
<1>3. i \in Answers(r) /\ v \in Named(log[i].name, Effect(r).names)
  <2>1. Answers(r) \subseteq Nat
    BY <1>2 DEF Answers, IsPlaced
  <2>2. \E x \in Answers(r) : \A j \in Answers(r) : x <= j
    BY <1>2, <2>1, SmallestNumber
  <2>3. i \in Answers(r)
    BY <1>1, <2>2
  <2>4. Named(log[i].name, Effect(r).names) # {}
    BY <2>3 DEF Answers
  <2> QED BY <1>1, <2>3, <2>4
<1>4. PICK S : v \in S /\ 0 \in S /\ run[r] \in RunState(S)
  BY PlacedRun
<1>5. PICK n, len, k, pc : n = Len(run[r].memo) /\ len = Len(Steps(r)) /\ k = run[r].kept /\ pc = run[r].pc
  OBVIOUS
<1>6. n \in Nat /\ len \in Nat /\ k \in Nat /\ pc \in Nat /\ pc = n + 1 /\ k <= pc /\ pc <= len
  BY <1>2, <1>4, <1>5, PlacedRun DEF IsPlaced, RunState, Placed
<1>7. PICK g : g = Returned(r, v) /\ IsPlacedAt(r, g) /\ Records(r, g, v) /\ g \in RunState(S)
  <2>1. ~Undoes(r)
    BY <1>2 DEF Undoes
  <2> QED BY <1>2, <1>4, <2>1, ReturnPlaces, ReturnOutcome, ReturnedIs
<1>8. PICK rec : rec = [g EXCEPT !.kept = pc]
  OBVIOUS
<1>9. run'[r] = rec
  BY <1>1, <1>5, <1>7, <1>8, SetRun
<1>10. /\ rec \in RunState(S) /\ rec.mode = g.mode /\ rec.pc = g.pc /\ rec.memo = g.memo /\ rec.kept = pc
       /\ rec.at = g.at /\ rec.got = g.got
  BY <1>6, <1>7, <1>8 DEF RunState
<1>11. Len(rec.memo) = n + 1
  BY <1>4, <1>5, <1>7, <1>10, OneMoreAnswer DEF Records, RunState
<1>12. Placed(rec.mode, rec.pc, n + 1, pc, len) /\ rec.mode # "parked"
  <2>1. Placed(g.mode, g.pc, Len(g.memo), g.kept, len) /\ g.mode \in {"forward", "completed"}
    BY <1>5, <1>7 DEF IsPlacedAt, Records
  <2>2. Len(g.memo) = n + 1
    BY <1>10, <1>11
  <2> QED BY <1>6, <1>10, <2>1, <2>2 DEF Placed
<1>13. Records(r, rec, v)
  BY <1>5, <1>6, <1>7, <1>10 DEF Records, Fresh
<1> QED BY <1>3, <1>5, <1>6, <1>9, <1>10, <1>11, <1>12, <1>13 DEF IsPlacedAt

LEMMA CrashOutcome ==
  ASSUME NEW r \in DOMAIN run, IsPlaced(r), IsFunction(job[r]), Crash(r)
  PROVE  IsPlacedAt(r, run'[r]) /\ Returns(r, run'[r])
<1>1. PICK S : 0 \in S /\ run[r] \in RunState(S)
  BY PlacedRun
<1>2. PICK u \in RunState(S) : u = run[r]
  BY <1>1
<1>3. PICK n, len, k, pc, mode : n = Len(u.memo) /\ len = Len(Steps(r)) /\ k = u.kept /\ pc = u.pc /\ mode = u.mode
  OBVIOUS
<1>4. n \in Nat /\ len \in Nat /\ k \in Nat /\ pc \in Nat /\ Placed(mode, pc, n, k, len)
  BY <1>1, <1>2, <1>3, PlacedRun DEF IsPlaced, RunState
<1>5. mode \in {"forward", "undo"}
  BY <1>2, <1>3 DEF Crash, Busy
<1>6. CASE mode = "undo"
  <2>1. PICK rec : rec = GoTo(r, pc)
    OBVIOUS
  <2>2. run'[r] = rec
    BY <1>2, <1>3, <1>6, <2>1, SetRun DEF Crash, Forward
  <2>3. /\ rec \in RunState(S) /\ rec.mode = mode /\ rec.pc = pc /\ rec.at = 1 /\ rec.got = 0
        /\ rec.memo = u.memo /\ rec.kept = k
    BY <1>1, <1>2, <1>3, <1>4, <2>1, GoneTo
  <2>4. Len(rec.memo) = n /\ k <= k
    BY <1>3, <1>4, <2>3
  <2>5. KeptOf(r, rec)
    BY <1>2, <1>3, <1>4, <2>3, <2>4 DEF KeptOf
  <2> QED BY <1>2, <1>3, <1>4, <1>6, <2>2, <2>3, <2>4, <2>5 DEF IsPlacedAt, Returns, Fresh
<1>7. CASE mode = "forward"
  <2>1. PICK j \in k .. n : Set(r, [GoTo(r, j + 1) EXCEPT !.kept = j, !.memo = SubSeq(@, 1, j)])
    BY <1>2, <1>3, <1>7 DEF Crash, Forward
  <2>2. j \in Nat /\ j \in 0 .. n /\ j + 1 \in Nat /\ j <= n /\ k <= j /\ j <= j
    BY <1>4, <2>1
  <2>3. PICK pos : pos = j + 1 /\ pos \in Nat
    BY <2>2
  <2>4. PICK g : /\ g = GoTo(r, pos) /\ g \in RunState(S) /\ g.mode = mode /\ g.pc = pos /\ g.at = 1 /\ g.got = 0
                 /\ g.memo = u.memo /\ g.kept = k
    BY <1>1, <1>2, <1>3, <2>3, GoneTo
  <2>5. u.memo \in Seq(S) /\ j \in 0 .. Len(u.memo)
    BY <1>2, <1>3, <2>2 DEF RunState
  <2>6. PICK list : /\ list = SubSeq(u.memo, 1, j) /\ list \in Seq(S) /\ Len(list) = j
                    /\ \A i \in 1 .. j : list[i] = u.memo[i]
    <3>1. PICK memo : memo = u.memo /\ memo \in Seq(S) /\ j \in 0 .. Len(memo)
      BY <2>5
    <3>2. PICK list : list = SubSeq(memo, 1, j)
      OBVIOUS
    <3>3. list \in Seq(S) /\ Len(list) = j /\ \A i \in 1 .. j : list[i] = memo[i]
      BY <3>1, <3>2, FewerAnswers
    <3> QED BY <3>1, <3>2, <3>3
  <2>7. PICK rec : rec = [g EXCEPT !.kept = j, !.memo = list]
    OBVIOUS
  <2>8. run'[r] = rec
    <3>1. [GoTo(r, j + 1) EXCEPT !.kept = j, !.memo = SubSeq(@, 1, j)] = [g EXCEPT !.kept = j, !.memo = SubSeq(g.memo, 1, j)]
      BY <2>3, <2>4
    <3> QED BY <2>1, <2>4, <2>6, <2>7, <3>1, SetRun
  <2>9. /\ rec \in RunState(S) /\ rec.mode = mode /\ rec.pc = pos /\ rec.at = 1 /\ rec.got = 0
        /\ rec.memo = list /\ rec.kept = j
    BY <2>2, <2>4, <2>6, <2>7 DEF RunState
  <2>10. Len(rec.memo) = j
    BY <2>6, <2>9
  <2>11. KeptOf(r, rec)
    BY <1>2, <1>3, <2>2, <2>6, <2>9, <2>10 DEF KeptOf
  <2>12. Placed(mode, pos, j, j, len)
    BY <1>4, <1>7, <2>2, <2>3 DEF Placed
  <2> QED BY <1>2, <1>3, <1>7, <2>8, <2>9, <2>10, <2>11, <2>12 DEF IsPlacedAt, Returns, Fresh
<1> QED BY <1>5, <1>6, <1>7

LEMMA PassOutcome ==
  ASSUME NEW r \in DOMAIN run, IsPlaced(r), IsFunction(job[r]), Pass(r)
  PROVE  /\ IsPlacedAt(r, run'[r])
         /\ \/ Returns(r, run'[r])
            \/ Forward(r) /\ (~Needed(r) \/ Effects(r) = <<>>) /\ Records(r, run'[r], 0)
<1>1. run[r].mode \in {"forward", "undo"} /\ run'[r] = Returned(r, 0)
  BY SetRun DEF Pass, Busy
<1>2. Forward(r) => ~Needed(r) \/ Effects(r) = <<>>
  BY DEF Pass
<1> QED BY <1>1, <1>2, ReturnPlaces, ReturnOutcome DEF Undoes, Forward

(* Every step of a run.                                                     *)
LEMMA RunMoves ==
  ASSUME NEW r \in DOMAIN run, IsPlaced(r), IsFunction(job[r]), Len(log) \in Nat,
         Advance(r) \/ LoseAnswer(r) \/ Crash(r) \/ Elapse(r)
  PROVE  IsPlacedAt(r, run'[r]) /\ Outcome(r, run'[r])
<1>1. ASSUME NEW op, Doing(r, op), NEW v, Answer(r, v), Gives(r, v)
      PROVE  IsPlacedAt(r, run'[r]) /\ Outcome(r, run'[r])
  <2>1. Working(r)
    BY <1>1 DEF Doing
  <2> QED BY <1>1, <2>1, AnswerOutcome DEF Outcome, Reason
<1>2. ASSUME NEW op, Doing(r, op), Throw(r)
      PROVE  IsPlacedAt(r, run'[r]) /\ Outcome(r, run'[r])
  BY <1>2, ThrowOutcome DEF Outcome, Reason
<1>3. CASE ReadStore(r)
  <2>1. \E op : Doing(r, op) /\ \E v : Answer(r, v) /\ Gives(r, v)
    BY <1>3 DEF ReadStore, Gives
  <2> QED BY <2>1, <1>1
<1>4. CASE ReadView(r)
  <2>1. Doing(r, "view") /\ \E v : Answer(r, v) /\ Gives(r, v)
    BY <1>4 DEF ReadView, Gives
  <2> QED BY <2>1, <1>1
<1>5. CASE Check(r)
  <2>1. Doing(r, "refuse") /\ (Set(r, GivesUp(r)) \/ \E v : Answer(r, v) /\ Gives(r, v))
    BY <1>5 DEF Check, Gives
  <2>2. run[r].mode \in {"forward", "undo"}
    BY <2>1 DEF Doing, Working, Busy
  <2>3. CASE Set(r, GivesUp(r))
    <3>1. run'[r] = GivesUp(r)
      BY <2>3, SetRun
    <3> QED BY <2>2, <3>1, GivesUpPlaces, GivesUpOutcome DEF Outcome
  <2> QED BY <2>1, <2>3, <1>1
<1>6. CASE Call(r)
  <2>1. (\E op : Doing(r, op)) /\ Answer(r, Written(r)) /\ Gives(r, Written(r))
    BY <1>6 DEF Call, CanWrite, Gives
  <2> QED BY <2>1, <1>1, <1>6
<1>7. CASE Conflict(r) \/ LoseAnswer(r)
  <2>1. (\E op : Doing(r, op)) /\ Throw(r)
    BY <1>7 DEF Conflict, LoseAnswer, CanWrite
  <2> QED BY <2>1, <1>2
<1>8. CASE Start(r) \/ Park(r)
  BY <1>8, WaitingRuns DEF Outcome
<1>9. CASE Woken(r)
  BY <1>9, WokenOutcome DEF Outcome, Reason
<1>10. CASE Crash(r)
  BY <1>10, CrashOutcome DEF Outcome
<1>11. CASE Pass(r)
  BY <1>11, PassOutcome DEF Outcome, Reason
<1>12. CASE Elapse(r)
  <2>1. run[r].mode = "parked" /\ run'[r] = GivesUp(r)
    BY <1>12, SetRun DEF Elapse
  <2> QED BY <2>1, GivesUpPlaces, GivesUpOutcome DEF Outcome
<1> QED BY <1>3, <1>4, <1>5, <1>6, <1>7, <1>8, <1>9, <1>10, <1>11, <1>12 DEF Advance

LEMMA RunStays ==
  ASSUME NEW r \in DOMAIN run, IsPlaced(r), IsFunction(job[r]), Len(log) \in Nat, NEW q,
         Advance(q) \/ LoseAnswer(q) \/ Crash(q) \/ Elapse(q)
  PROVE  IsPlaced(r)' /\ r \in DOMAIN run' /\ job' = job /\ hit \subseteq hit'
         /\ (q # r => run'[r] = run[r]) /\ (q = r => IsPlacedAt(r, run'[r]) /\ Outcome(r, run'[r]))
<1>1. OnlyRuns(q)
  BY StepsOnlyRun
<1>2. r \in DOMAIN run' /\ job' = job /\ hit \subseteq hit' /\ Steps(r)' = Steps(r)
  BY <1>1 DEF OnlyRuns, Steps
<1>3. CASE q = r
  <2>1. IsPlacedAt(r, run'[r]) /\ Outcome(r, run'[r])
    BY <1>3, RunMoves
  <2> QED BY <1>2, <1>3, <2>1 DEF IsPlaced, IsPlacedAt
<1>4. CASE q # r
  <2>1. run'[r] = run[r]
    BY <1>1, <1>4 DEF OnlyRuns
  <2> QED BY <1>2, <1>4, <2>1 DEF IsPlaced
<1> QED BY <1>3, <1>4

(* What a step writes down.                                                 *)
LEMMA LogGrows ==
  ASSUME NEW S, log \in Seq(S), NEW q, Advance(q) \/ LoseAnswer(q) \/ Crash(q) \/ Elapse(q)
  PROVE  \/ log' = log
         \/ /\ Call(q) \/ LoseAnswer(q)
            /\ Doing(q, "append") \/ Doing(q, "publish")
            /\ ~Repeated(q) /\ log' = Append(log, Keyed(q))
<1>1. ASSUME Write(q), CanWrite(q)
      PROVE  \/ log' = log
             \/ /\ Doing(q, "append") \/ Doing(q, "publish")
                /\ ~Repeated(q) /\ log' = Append(log, Keyed(q))
  BY <1>1 DEF Write, CanWrite, Doing, Effect
<1> QED BY <1>1 DEF Advance, Start, ReadStore, ReadView, Park, Woken, Check, Call, Conflict, Pass, LoseAnswer,
   Crash, Elapse

(* A log stays one, and what does not advance runs writes nobody's facts.   *)
LEMMA LonelyEvent ==
  ASSUME NEW S, log \in Seq(S), NEW e, log' = log \/ log' = Append(log, e)
  PROVE  /\ log' \in Seq(S \cup {e})
         /\ Len(log) \in Nat /\ DOMAIN log = 1 .. Len(log)
         /\ \A i \in DOMAIN log : i \in DOMAIN log' /\ log'[i] = log[i]
         /\ \A i \in DOMAIN log' : i \in DOMAIN log \/ (i = Len(log) + 1 /\ log'[i] = e /\ log' = Append(log, e))
<1>1. log \in Seq(S \cup {e})
  BY SeqMonotonic
<1>2. PICK n : n = Len(log) /\ n \in Nat /\ DOMAIN log = 1 .. n
  BY LenProperties
<1>3. CASE log' = log
  BY <1>1, <1>2, <1>3
<1>4. CASE log' = Append(log, e)
  <2>1. /\ log' \in Seq(S \cup {e}) /\ Len(log') = n + 1
        /\ \A i \in 1 .. n : log'[i] = log[i]
        /\ log'[n + 1] = e
    BY <1>1, <1>2, <1>4, OneMoreAnswer
  <2>2. DOMAIN log' = 1 .. n + 1
    BY <2>1, LenProperties
  <2> QED BY <1>2, <1>4, <2>1, <2>2
<1> QED BY <1>3, <1>4

LEMMA OthersKeepRuns ==
  ASSUME InboxNext \/ NotifierNext \/ UNCHANGED exampleVars
  PROVE  /\ UNCHANGED <<job, cell, run, hit>>
         /\ \E e : e.by = 0 /\ (log' = log \/ log' = Append(log, e))
<1>1. \E e : e.by = 0
  <2> WITNESS [by |-> 0]
  <2> QED OBVIOUS
<1>2. CASE NotifierNext \/ UNCHANGED exampleVars
  <2>1. NotifierNext => UNCHANGED <<job, cell, run, hit, log>>
    <3>1. (StartNotifier \/ ReplayRuns \/ StopNotifier \/ \E on \in SUBSET Topics : SetRules(on)) => UNCHANGED <<job, cell, run, hit, log>>
      BY DEF StartNotifier, ReplayRuns, StopNotifier, SetRules, EngineIdle, vars
    <3>2. \A s \in Topics : Process(s) \/ Send(s) \/ PutMark(s) \/ PutCursor(s) \/ Reconnect(s) => UNCHANGED <<job, cell, run, hit, log>>
      BY DEF Process, Send, PutMark, PutCursor, Reconnect, EngineIdle, vars
    <3> QED BY <3>1, <3>2 DEF NotifierNext
  <2> QED BY <1>1, <1>2, <2>1 DEF exampleVars, vars
<1>3. ASSUME NEW c, EmitDecision(c) \/ LoseEmit(c)
      PROVE  /\ UNCHANGED <<job, cell, run, hit>>
             /\ \E e : e.by = 0 /\ (log' = log \/ log' = Append(log, e))
  <2>1. UNCHANGED <<job, cell, run, hit>> /\ Emitted(c)
    BY <1>3 DEF EmitDecision, LoseEmit
  <2>2. PICK e : e = [on |-> Gate(click[c].gate), name |-> Wanted(c), by |-> 0, about |-> 0,
                      key |-> DecisionKey(click[c].gate)]
    OBVIOUS
  <2>3. e.by = 0 /\ (log' = log \/ log' = Append(log, e))
    BY <2>1, <2>2 DEF Emitted
  <2> QED BY <2>1, <2>3
<1>4. ASSUME NEW c, Click(c) \/ ReadGate(c) \/ ReadStored(c) \/ Offer(c) \/ RestartInbox
      PROVE  UNCHANGED <<job, cell, run, hit, log>>
  BY <1>4 DEF Click, ReadGate, ReadStored, Offer, RestartInbox, vars
<1>5. CASE InboxNext
  BY <1>1, <1>3, <1>4, <1>5 DEF InboxNext
<1> QED BY <1>2, <1>5

(* What is not deployed does nothing.                                       *)
LEMMA NeverSteps ==
  ASSUME NEW r, job[r] = NotDeployed, run[r].mode = "waiting"
  PROVE  ~(Advance(r) \/ LoseAnswer(r) \/ Crash(r) \/ Elapse(r))
<1>1. job[r].trigger = <<"never">>
  BY DEF NotDeployed, Function
<1>2. ~Triggered(r)
  BY <1>1 DEF Triggered
<1>3. ~Busy(r) /\ run[r].mode # "parked" /\ \A op : ~Doing(r, op)
  BY DEF Busy, Doing, Working
<1> QED BY <1>2, <1>3 DEF Advance, Start, ReadStore, ReadView, Park, Woken, Check, Call, Conflict, Pass,
       LoseAnswer, Crash, Elapse, CanWrite

-----------------------------------------------------------------------------
(* The counts of fraud-detection.                                           *)

IsEvaluation(r) == \E tx : job[r] = EvaluateFraud(tx) /\ tx.card \in DOMAIN cell
HasCount(r) == Len(run[r].memo) >= 2
CountOf(r) == run[r].memo[2]
FraudOK ==
  /\ \E S : log \in Seq(S)
  /\ DOMAIN run = Runs
  /\ \A c \in DOMAIN cell : cell[c] \in Nat
  /\ \A r \in Runs : (job[r] = NotDeployed /\ run[r].mode = "waiting") \/ IsEvaluation(r)
  /\ \A r \in Evaluations : /\ IsPlaced(r) /\ run[r].mode # "parked"
                            /\ HasCount(r) => CountOf(r) \in Nat /\ CountOf(r) <= cell[Card(r)]
  /\ \A r, q \in Evaluations : Card(r) = Card(q) /\ HasCount(r) /\ HasCount(q) /\ r # q => CountOf(r) # CountOf(q)
FraudInv == Evaluations = {} \/ FraudOK

(* Its steps: the second is the check, the others only record.              *)
Evaluates(r, tx) ==
  /\ IsFunction(job[r]) /\ job[r].errors = "retry" /\ job[r].trigger = Request /\ job[r].id = "fraud/evaluate"
  /\ job[r] # NotDeployed /\ Card(r) = tx.card
  /\ DOMAIN Steps(r) = 1 .. 5 /\ Len(Steps(r)) = 5
ChecksVelocity(r, tx) ==
  /\ Steps(r)[2].name = "velocity-check" /\ \A i \in {1, 3, 4, 5} : Steps(r)[i].name # "velocity-check"
  /\ Steps(r)[2].needs = <<>> /\ Steps(r)[2].does = <<Get(tx.card), Cas(tx.card)>>
  /\ Position(r, "velocity-check") = 2
RecordsTheRest(r) ==
  /\ \A i \in 1 .. 5 : Steps(r)[i].undo = <<>>
  /\ \A i \in {1, 3, 4, 5} : \A j \in 1 .. Len(Steps(r)[i].does) : Steps(r)[i].does[j].op \in {"append", "publish"}

LEMMA EvaluationFacts ==
  ASSUME NEW r, NEW tx, job[r] = EvaluateFraud(tx)
  PROVE  Evaluates(r, tx) /\ ChecksVelocity(r, tx) /\ RecordsTheRest(r)
<1> DEFINE list == <<CollectSignals, VelocityCheck(tx), ScoreStep(tx), Decide(tx), Alert(tx)>>
<1>1. /\ job[r].steps = list /\ job[r].errors = "retry" /\ job[r].trigger = Request
      /\ job[r].id = "fraud/evaluate"
  BY DEF EvaluateFraud, Function
<1>2. /\ Steps(r) = list /\ DOMAIN list = 1 .. 5 /\ Len(list) = 5 /\ list # <<>>
      /\ list[1] = CollectSignals /\ list[2] = VelocityCheck(tx) /\ list[3] = ScoreStep(tx)
      /\ list[4] = Decide(tx) /\ list[5] = Alert(tx)
  BY <1>1 DEF Steps
<1>3. \E S : list \in Seq(S)
  <2>1. list \in Seq({CollectSignals, VelocityCheck(tx), ScoreStep(tx), Decide(tx), Alert(tx)})
    OBVIOUS
  <2> QED BY <2>1
<1>4. \A i \in 1 .. 5 : i = 1 \/ i = 2 \/ i = 3 \/ i = 4 \/ i = 5
  OBVIOUS
<1>5. \A i \in 1 .. 5 : list[i].undo = <<>>
  BY <1>2, <1>4 DEF CollectSignals, VelocityCheck, ScoreStep, Decide, Alert, OnlyIf, Step
<1>6. /\ list[2].name = "velocity-check" /\ \A i \in {1, 3, 4, 5} : list[i].name # "velocity-check"
      /\ list[2].needs = <<>> /\ list[2].does = <<Get(tx.card), Cas(tx.card)>>
  BY <1>2 DEF CollectSignals, VelocityCheck, ScoreStep, Decide, Alert, OnlyIf, Step
<1>7. \A i \in {1, 3, 4, 5} : \A j \in 1 .. Len(list[i].does) : list[i].does[j].op \in {"append", "publish"}
  <2>1. list[1].does = <<>>
    BY <1>2 DEF CollectSignals, Step
  <2>2. /\ list[3].does = <<Record(tx.id, "signals_collected", Version(0)), Record(tx.id, "model_scored", Version(1))>>
        /\ list[4].does = <<Record(tx.id, "decision_made", Version(2))>>
        /\ list[5].does = <<Publish("fraud-alerts", "alerts")>>
    BY <1>2 DEF ScoreStep, Decide, Alert, OnlyIf, Step
  <2>3. \A s, n, v : Record(s, n, v).op = "append"
    BY DEF Record
  <2>4. Publish("fraud-alerts", "alerts").op = "publish"
    BY DEF Publish
  <2>5. /\ Len(list[1].does) = 0 /\ Len(list[3].does) = 2 /\ Len(list[4].does) = 1 /\ Len(list[5].does) = 1
    BY <2>1, <2>2
  <2>6. \A j \in 1 .. 2 : list[3].does[j].op = "append"
    BY <2>2, <2>3
  <2>7. \A j \in 1 .. 1 : list[4].does[j].op = "append" /\ list[5].does[j].op = "publish"
    BY <2>2, <2>3, <2>4
  <2> HIDE DEF list
  <2> QED BY <2>5, <2>6, <2>7
<1>8. Card(r) = tx.card
  BY <1>1, <1>2, <1>6 DEF Card, Get
<1>9. Position(r, "velocity-check") = 2
  <2> HIDE DEF list
  <2>1. \A i \in DOMAIN Steps(r) : Steps(r)[i].name = "velocity-check" <=> i = 2
    BY <1>2, <1>4, <1>6
  <2>2. 2 \in DOMAIN Steps(r)
    BY <1>2
  <2> QED BY <2>1, <2>2 DEF Position
<1>10. job[r] # NotDeployed
  BY <1>1 DEF NotDeployed, Function
<1> HIDE DEF list
<1>11. \A i \in DOMAIN list : NoWait(list[i].undo)
  BY <1>2, <1>5 DEF NoWait
<1>12. Evaluates(r, tx)
  BY <1>1, <1>2, <1>3, <1>8, <1>10, <1>11 DEF IsFunction, Evaluates
<1>13. ChecksVelocity(r, tx)
  BY <1>2, <1>6, <1>9 DEF ChecksVelocity
<1>14. RecordsTheRest(r)
  BY <1>2, <1>5, <1>7 DEF RecordsTheRest
<1> QED BY <1>12, <1>13, <1>14

LEMMA EvaluationIs ==
  \A r, tx : job[r] = EvaluateFraud(tx) =>
    IsFunction(job[r]) /\ job[r].id = "fraud/evaluate" /\ Card(r) = tx.card
BY EvaluationFacts DEF Evaluates

(* What a check does is at its second step: it reads and it swaps.          *)
LEMMA EvaluationDoes ==
  ASSUME NEW r, NEW tx, job[r] = EvaluateFraud(tx), IsPlaced(r), NEW op, Doing(r, op)
  PROVE  /\ Forward(r)
         /\ IF run[r].pc = 2
            THEN Len(Effects(r)) = 2 /\ ((run[r].at = 1 /\ op = "get") \/ (run[r].at = 2 /\ op = "cas" /\ Effect(r) = Cas(tx.card)))
            ELSE op \in {"append", "publish"}
<1>1. PICK S : run[r] \in RunState(S)
  BY DEF IsPlaced
<1>2. run[r].at \in Nat \ {0} /\ run[r].pc \in Nat
  BY <1>1 DEF RunState
<1>3. run[r].mode \in {"forward", "undo"} /\ run[r].at <= Len(Effects(r)) /\ Effects(r)[run[r].at].op = op
  BY DEF Doing, Working, Busy
<1>4. PICK n : n = Len(run[r].memo) /\ n \in Nat
  BY <1>1, LenProperties DEF RunState
<1>5. run[r].pc \in 1 .. 5
  <2> DEFINE len == Len(Steps(r))
  <2>1. Placed(run[r].mode, run[r].pc, n, run[r].kept, len) /\ len = 5
    BY <1>4, EvaluationFacts DEF IsPlaced, Evaluates
  <2> HIDE DEF len
  <2>2. PICK pc : pc = run[r].pc /\ pc \in Nat
    BY <1>2
  <2>3. n <= 5 /\ ((pc <= 5 /\ pc = n + 1) \/ (1 <= pc /\ pc <= n))
    BY <1>3, <2>1, <2>2 DEF Placed
  <2> QED BY <1>4, <2>2, <2>3
<1>6. Forward(r) /\ Effects(r) = Steps(r)[run[r].pc].does
  <2>1. run[r].mode # "undo"
    <3>1. SUFFICES ASSUME run[r].mode = "undo" PROVE FALSE
      OBVIOUS
    <3>2. Effects(r) = <<>>
      BY <1>5, <3>1, EvaluationFacts DEF RecordsTheRest, Effects, Current
    <3>3. Len(Effects(r)) = 0
      BY <3>2
    <3> QED BY <1>2, <1>3, <3>3
  <2> QED BY <1>3, <2>1 DEF Forward, Effects, Current
<1>7. CASE run[r].pc = 2
  <2>1. Effects(r) = <<Get(tx.card), Cas(tx.card)>>
    <3>1. Steps(r)[2].does = <<Get(tx.card), Cas(tx.card)>>
      BY EvaluationFacts DEF ChecksVelocity
    <3> QED BY <1>6, <1>7, <3>1
  <2>2. Len(Effects(r)) = 2 /\ Effects(r)[1] = Get(tx.card) /\ Effects(r)[2] = Cas(tx.card)
    BY <2>1
  <2>3. run[r].at = 1 \/ run[r].at = 2
    BY <1>2, <1>3, <2>2
  <2> QED BY <1>3, <1>6, <1>7, <2>2, <2>3 DEF Get, Cas, Effect
<1>8. CASE run[r].pc # 2
  <2>1. run[r].pc \in {1, 3, 4, 5}
    BY <1>5, <1>8
  <2>2. PICK l : l = Len(Effects(r)) /\ run[r].at <= l
    BY <1>3
  <2>3. l \in Nat
    <3>1. \A i \in {1, 3, 4, 5} : Len(Steps(r)[i].does) \in Nat
      <4>1. Len(<<>>) \in Nat /\ \A a, b : Len(<<a, b>>) \in Nat /\ Len(<<a>>) \in Nat
        OBVIOUS
      <4>2. job[r].steps = <<CollectSignals, VelocityCheck(tx), ScoreStep(tx), Decide(tx), Alert(tx)>>
        BY DEF EvaluateFraud, Function
      <4> QED BY <4>1, <4>2 DEF Steps, CollectSignals, ScoreStep, Decide, Alert, OnlyIf, Step
    <3> QED BY <1>6, <2>1, <2>2, <3>1
  <2>4. run[r].at \in 1 .. l
    BY <1>2, <2>2, <2>3
  <2>5. PICK i \in {1, 3, 4, 5} : i = run[r].pc /\ Effects(r) = Steps(r)[i].does /\ l = Len(Steps(r)[i].does)
    BY <1>6, <2>1, <2>2
  <2>6. \A j \in 1 .. l : Effects(r)[j].op \in {"append", "publish"}
    <3>1. PICK effects : effects = Steps(r)[i].does
      OBVIOUS
    <3>2. \A j \in 1 .. Len(effects) : effects[j].op \in {"append", "publish"}
      BY <3>1, EvaluationFacts DEF RecordsTheRest
    <3> QED BY <2>5, <3>1, <3>2
  <2> QED BY <1>3, <1>6, <1>8, <2>4, <2>6
<1> QED BY <1>7, <1>8

(* A count is the card's when it is taken, and a new one.                   *)
LEMMA CheckCounts ==
  ASSUME NEW S, log \in Seq(S), \A c \in DOMAIN cell : cell[c] \in Nat,
         NEW r \in DOMAIN run, NEW tx, job[r] = EvaluateFraud(tx), tx.card \in DOMAIN cell,
         IsPlaced(r), run[r].mode # "parked",
         Advance(r) \/ LoseAnswer(r) \/ Crash(r) \/ Elapse(r)
  PROVE  /\ DOMAIN cell' = DOMAIN cell
         /\ \A c \in DOMAIN cell : cell'[c] \in Nat /\ cell[c] <= cell'[c]
         /\ run'[r].mode # "parked"
         /\ HasCount(r)' => \/ HasCount(r) /\ CountOf(r)' = CountOf(r)
                            \/ /\ CountOf(r)' = cell[tx.card] + 1
                               /\ cell'[tx.card] = cell[tx.card] + 1
<1>1. cell' = cell \/ (Doing(r, "cas") /\ run[r].got = cell[tx.card]
                       /\ cell' = [cell EXCEPT ![tx.card] = @ + 1])
  <2>1. CASE Call(r) \/ LoseAnswer(r)
    <3>1. Write(r) /\ CanWrite(r)
      BY <2>1 DEF Call, LoseAnswer
    <3>2. CASE Doing(r, "append") \/ Doing(r, "publish")
      BY <3>1, <3>2 DEF Write, Doing, Effect
    <3>3. CASE Doing(r, "cas") /\ cell[Effect(r).on] = run[r].got
      <4>1. Effect(r) = Cas(tx.card)
        BY <3>3, EvaluationDoes
      <4>2. Effect(r).op = "cas" /\ Effect(r).on = tx.card
        BY <4>1 DEF Cas
      <4> QED BY <3>1, <3>3, <4>2 DEF Write
    <3>4. ~Doing(r, "put")
      BY EvaluationDoes
    <3> QED BY <3>1, <3>2, <3>3, <3>4 DEF CanWrite
  <2>2. CASE ~(Call(r) \/ LoseAnswer(r))
    BY <2>2 DEF Advance, Start, ReadStore, ReadView, Park, Woken, Check, Conflict, Pass, Crash, Elapse
  <2> QED BY <2>1, <2>2
<1>2. /\ DOMAIN cell' = DOMAIN cell
      /\ \A c \in DOMAIN cell : cell'[c] \in Nat /\ cell[c] <= cell'[c]
  BY <1>1
<1>3. Len(log) \in Nat /\ IsFunction(job[r])
  BY EvaluationFacts, LenProperties DEF Evaluates
<1>4. Outcome(r, run'[r])
  BY <1>3, RunMoves
<1>5. PICK T : run[r] \in RunState(T)
  BY DEF IsPlaced
<1>6. PICK memo, n : memo = run[r].memo /\ n = Len(memo) /\ memo \in Seq(T) /\ n \in Nat
  BY <1>5, LenProperties DEF RunState
<1>7. CASE Starts(r, run'[r]) \/ CallsOn(r, run'[r])
  BY <1>2, <1>7 DEF Starts, CallsOn, Same, HasCount, CountOf
<1>8. CASE Parks(r, run'[r])
  BY <1>8, EvaluationDoes DEF Parks
<1>9. CASE Returns(r, run'[r])
  <2>1. PICK U : run'[r] \in RunState(U)
    BY <1>3, RunMoves DEF IsPlacedAt
  <2>2. PICK after, m : /\ after = run'[r].memo /\ m = Len(after) /\ m \in Nat
                        /\ m <= n /\ \A i \in 1 .. m : after[i] = memo[i]
    <3>1. PICK after, m : after = run'[r].memo /\ m = Len(after)
      OBVIOUS
    <3>2. after \in Seq(U) /\ m \in Nat
      BY <2>1, <3>1, LenProperties DEF RunState
    <3>3. m <= n /\ \A i \in 1 .. m : after[i] = memo[i]
      BY <1>6, <1>9, <3>1 DEF Returns, KeptOf
    <3> QED BY <3>1, <3>2, <3>3
  <2>3. ASSUME m >= 2 PROVE n >= 2 /\ after[2] = memo[2]
    <3>1. n \in Nat /\ m \in Nat /\ m <= n
      BY <1>6, <2>2
    <3>2. n >= 2 /\ 2 \in 1 .. m
      BY <2>3, <3>1
    <3>3. \A i \in 1 .. m : after[i] = memo[i]
      BY <2>2
    <3> QED BY <3>2, <3>3
  <2>4. run'[r].mode # "parked"
    BY <1>9 DEF Returns
  <2> QED BY <1>2, <1>6, <2>2, <2>3, <2>4 DEF HasCount, CountOf
<1>10. ASSUME NEW v, Records(r, run'[r], v), Reason(r, v)
       PROVE  HasCount(r)' => \/ HasCount(r) /\ CountOf(r)' = CountOf(r)
                              \/ /\ CountOf(r)' = cell[tx.card] + 1
                                 /\ cell'[tx.card] = cell[tx.card] + 1
  <2>1. PICK after : after = run'[r].memo /\ after = Append(memo, v)
    BY <1>6, <1>10 DEF Records
  <2>2. /\ Len(after) = n + 1 /\ \A i \in 1 .. n : after[i] = memo[i]
        /\ after[n + 1] = v
    <3>1. memo \in Seq(T \cup {v})
      BY <1>6, SeqMonotonic
    <3> QED BY <1>6, <2>1, <3>1, OneMoreAnswer
  <2>3. CASE n >= 2
    <3>1. after[2] = memo[2]
      BY <1>6, <2>2, <2>3
    <3> QED BY <1>6, <2>1, <2>3, <3>1 DEF HasCount, CountOf
  <2>4. CASE n = 0
    <3>1. ~(Len(after) >= 2)
      BY <2>2, <2>4
    <3> QED BY <2>1, <3>1 DEF HasCount
  <2>5. CASE n = 1
    <3>1. run[r].mode = "forward" /\ run[r].pc = 2
      <4> DEFINE len == Len(Steps(r))
      <4>1. Placed(run[r].mode, run[r].pc, n, run[r].kept, len) /\ run[r].mode = "forward"
        BY <1>6, <1>10 DEF IsPlaced, Records
      <4> HIDE DEF len
      <4> QED BY <2>5, <4>1 DEF Placed
    <3>2. Current(r) = Steps(r)[2] /\ Effects(r) = Steps(r)[2].does
      BY <3>1 DEF Effects, Current
    <3>3. Needed(r)
      BY <3>2, EvaluationFacts DEF ChecksVelocity, Needed
    <3>4. Effects(r) # <<>> /\ Len(Effects(r)) = 2
      <4>1. Effects(r) = <<Get(tx.card), Cas(tx.card)>>
        BY <3>2, EvaluationFacts DEF ChecksVelocity
      <4> QED BY <4>1
    <3>5. job[r].errors = "retry"
      BY EvaluationFacts DEF Evaluates
    <3>6. run[r].at = 2 /\ (Reads(r) \/ (Call(r) /\ v = Written(r)))
      BY <1>10, <3>1, <3>3, <3>4, <3>5, GivesReads DEF Reason, Woken
    <3>7. \A op : Doing(r, op) => op = "cas" /\ Effect(r) = Cas(tx.card)
      BY <3>1, <3>6, EvaluationDoes
    <3>8. Call(r) /\ v = Written(r)
      BY <3>6, <3>7 DEF Reads
    <3>9. Doing(r, "cas") /\ cell[Effect(r).on] = run[r].got /\ Effect(r) = Cas(tx.card)
      BY <3>7, <3>8 DEF Call, CanWrite
    <3>10. v = cell[tx.card] + 1
      BY <3>8, <3>9 DEF Written, Cas
    <3>11. cell' = [cell EXCEPT ![tx.card] = @ + 1]
      BY <3>8, <3>9 DEF Call, Write, Cas
    <3>12. after[2] = v
      BY <2>2, <2>5
    <3> QED BY <2>1, <3>10, <3>11, <3>12 DEF CountOf
  <2>6. n = 0 \/ n = 1 \/ n >= 2
    <3>1. n \in Nat
      BY <1>6
    <3> QED BY <3>1
  <2> HIDE DEF HasCount, CountOf
  <2> QED BY <2>3, <2>4, <2>5, <2>6
<1>11. CASE \E v : Records(r, run'[r], v) /\ Reason(r, v)
  BY <1>2, <1>10, <1>11 DEF Records
<1> QED BY <1>4, <1>7, <1>8, <1>9, <1>11 DEF Outcome

LEMMA FraudSteps ==
  ASSUME FraudOK, NEW r \in Runs, Advance(r) \/ LoseAnswer(r) \/ Crash(r) \/ Elapse(r)
  PROVE  FraudOK'
<1>1. PICK S : log \in Seq(S)
  BY DEF FraudOK
<1>2. Len(log) \in Nat
  BY <1>1, LenProperties
<1>3. IsEvaluation(r)
  BY NeverSteps DEF FraudOK
<1>4. PICK tx : job[r] = EvaluateFraud(tx) /\ tx.card \in DOMAIN cell
  BY <1>3 DEF IsEvaluation
<1>5. r \in Evaluations /\ Card(r) = tx.card /\ r \in DOMAIN run
  <2>1. DOMAIN run = Runs
    BY DEF FraudOK
  <2>2. job[r].id = "fraud/evaluate" /\ Card(r) = tx.card
    BY <1>4, EvaluationIs
  <2> QED BY <2>1, <2>2 DEF Evaluations
<1>6. IsPlaced(r) /\ run[r].mode # "parked" /\ \A c \in DOMAIN cell : cell[c] \in Nat
  BY <1>5 DEF FraudOK
<1>7. /\ DOMAIN cell' = DOMAIN cell
      /\ \A c \in DOMAIN cell : cell'[c] \in Nat /\ cell[c] <= cell'[c]
      /\ run'[r].mode # "parked"
      /\ HasCount(r)' => \/ HasCount(r) /\ CountOf(r)' = CountOf(r)
                         \/ /\ CountOf(r)' = cell[tx.card] + 1
                            /\ cell'[tx.card] = cell[tx.card] + 1
  BY <1>1, <1>4, <1>5, <1>6, CheckCounts
<1>8. OnlyRuns(r)
  BY StepsOnlyRun
<1>9. \A q : Evaluations' = Evaluations /\ Card(q)' = Card(q)
  BY <1>8 DEF OnlyRuns, Evaluations, Card
<1>10. \A q \in Runs \ {r} : run'[q] = run[q] /\ HasCount(q)' = HasCount(q) /\ CountOf(q)' = CountOf(q)
  BY <1>8 DEF OnlyRuns, FraudOK, HasCount, CountOf
<1>11. \E T : log' \in Seq(T)
  <2>1. log' = log \/ log' = Append(log, Keyed(r))
    BY <1>1, LogGrows
  <2>2. log \in Seq(S \cup {Keyed(r)}) /\ Append(log, Keyed(r)) \in Seq(S \cup {Keyed(r)})
    <3>1. log \in Seq(S \cup {Keyed(r)})
      BY <1>1, SeqMonotonic
    <3> QED BY <3>1, OneMoreAnswer
  <2> QED BY <2>1, <2>2
<1>12. \A q \in Evaluations : IsEvaluation(q)
  BY DEF Evaluations, FraudOK, NotDeployed, Function
<1>13. ASSUME NEW q \in Evaluations
       PROVE  Card(q) \in DOMAIN cell /\ IsFunction(job[q]) /\ q \in DOMAIN run /\ IsPlaced(q)
  <2>1. PICK t : job[q] = EvaluateFraud(t) /\ t.card \in DOMAIN cell
    BY <1>12 DEF IsEvaluation
  <2>2. IsFunction(job[q]) /\ Card(q) = t.card
    BY <2>1, EvaluationIs
  <2>3. DOMAIN run = Runs /\ IsPlaced(q)
    BY DEF FraudOK
  <2> QED BY <2>1, <2>2, <2>3 DEF Evaluations
<1>14. \A q \in Evaluations : IsPlaced(q)'
  BY <1>2, <1>13, RunStays
<1>15. \A q \in Evaluations : HasCount(q) => CountOf(q) \in Nat /\ CountOf(q) <= cell[Card(q)]
  BY DEF FraudOK
<1>16. ASSUME NEW q \in Evaluations
       PROVE  HasCount(q)' => CountOf(q)' \in Nat /\ CountOf(q)' <= cell'[Card(q)]
  <2>1. cell[Card(q)] \in Nat /\ cell'[Card(q)] \in Nat /\ cell[Card(q)] <= cell'[Card(q)]
    BY <1>6, <1>7, <1>13
  <2>2. HasCount(q) => CountOf(q) \in Nat /\ CountOf(q) <= cell[Card(q)]
    BY <1>15
  <2>3. \/ HasCount(q)' => HasCount(q) /\ CountOf(q)' = CountOf(q)
        \/ CountOf(q)' = cell[Card(q)] + 1 /\ cell'[Card(q)] = cell[Card(q)] + 1
    BY <1>5, <1>7, <1>10 DEF Evaluations
  <2> QED BY <2>1, <2>2, <2>3
<1>17. ASSUME NEW p \in Evaluations, NEW q \in Evaluations, Card(p) = Card(q), HasCount(p)', HasCount(q)', p # q
       PROVE  CountOf(p)' # CountOf(q)'
  <2>1. \A e \in Evaluations : cell[Card(e)] \in Nat
    BY <1>6, <1>13
  <2>2. \A e \in Evaluations : e # r => HasCount(e)' = HasCount(e) /\ CountOf(e)' = CountOf(e)
    BY <1>10 DEF Evaluations
  <2>3. \A e \in Evaluations : HasCount(e) /\ Card(e) = Card(r) => CountOf(e) # cell[Card(r)] + 1
    BY <1>5, <1>15, <2>1
  <2>4. \A e, f \in Evaluations : Card(e) = Card(f) /\ HasCount(e) /\ HasCount(f) /\ e # f => CountOf(e) # CountOf(f)
    BY DEF FraudOK
  <2>5. HasCount(r)' => \/ HasCount(r) /\ CountOf(r)' = CountOf(r)
                        \/ CountOf(r)' = cell[Card(r)] + 1
    BY <1>5, <1>7
  <2> HIDE DEF HasCount, CountOf
  <2>6. CASE p = r
    BY <1>5, <1>17, <2>2, <2>3, <2>4, <2>5, <2>6
  <2>7. CASE q = r
    BY <1>5, <1>17, <2>2, <2>3, <2>4, <2>5, <2>7
  <2> QED BY <1>17, <2>2, <2>4, <2>6, <2>7
<1>18. \A q \in Runs : (job'[q] = NotDeployed /\ run'[q].mode = "waiting") \/ IsEvaluation(q)'
  <2>1. job' = job
    BY <1>8 DEF OnlyRuns
  <2>2. \A q : IsEvaluation(q) => IsEvaluation(q)'
    BY <1>7, <2>1 DEF IsEvaluation
  <2> QED BY <1>3, <1>10, <2>1, <2>2 DEF FraudOK
<1>19. \A q \in Evaluations : run'[q].mode # "parked"
  BY <1>7, <1>10 DEF FraudOK, Evaluations
<1>20. DOMAIN run' = Runs
  BY <1>8 DEF OnlyRuns, FraudOK
<1> HIDE DEF HasCount, CountOf
<1> QED BY <1>7, <1>9, <1>11, <1>14, <1>16, <1>17, <1>18, <1>19, <1>20 DEF FraudOK

LEMMA FraudIdles ==
  ASSUME FraudOK, InboxNext \/ NotifierNext \/ UNCHANGED exampleVars
  PROVE  FraudOK'
<1>1. /\ UNCHANGED <<job, cell, run>>
      /\ \E e : log' = log \/ log' = Append(log, e)
  BY OthersKeepRuns
<1>2. \E S : log' \in Seq(S)
  BY <1>1, LonelyEvent DEF FraudOK
<1>3. \A r : /\ IsPlaced(r) => IsPlaced(r)'
             /\ HasCount(r)' = HasCount(r) /\ CountOf(r)' = CountOf(r) /\ Card(r)' = Card(r)
             /\ IsEvaluation(r) => IsEvaluation(r)'
  BY <1>1 DEF IsPlaced, HasCount, CountOf, Card, IsEvaluation, Steps
<1>4. Evaluations' = Evaluations
  BY <1>1 DEF Evaluations
<1> HIDE DEF HasCount, CountOf, IsPlaced, IsEvaluation
<1> QED BY <1>1, <1>2, <1>3, <1>4 DEF FraudOK

LEMMA FraudInvariantSteps == ASSUME FraudInv, [ExamplesNext]_exampleVars PROVE FraudInv'
<1>1. job' = job
  BY JobsStay DEF ExamplesNext, exampleVars, vars
<1>2. Evaluations' = Evaluations
  BY <1>1 DEF Evaluations
<1>3. FraudOK => FraudOK'
  BY FraudSteps, FraudIdles DEF ExamplesNext, Next
<1> QED BY <1>2, <1>3 DEF FraudInv

(* A run as it begins.                                                      *)
LEMMA IdleIsPlaced ==
  ASSUME NEW r, run[r] = Idle(r), IsFunction(job[r]), Len(Steps(r)) >= 1
  PROVE  IsPlaced(r) /\ run[r].memo = <<>> /\ run[r].mode # "parked" /\ Len(run[r].memo) = 0
         /\ run[r].at = 1 /\ run[r].got = 0
<1>1. PICK m : m = IF job[r].trigger = Request THEN "forward" ELSE "waiting"
  OBVIOUS
<1>2. m \in Modes /\ m \in {"forward", "waiting"}
  BY <1>1 DEF Modes
<1>3. PICK rec : rec = run[r]
  OBVIOUS
<1>4. rec = [mode |-> m, pc |-> 1, at |-> 1, got |-> 0, tries |-> 1, memo |-> <<>>, kept |-> 0]
  BY <1>1, <1>3 DEF Idle
<1>5. <<>> \in Seq({0}) /\ Len(<<>>) = 0 /\ 1 \in Nat \ {0} /\ 0 \in {0}
  OBVIOUS
<1>6. rec \in RunState({0}) /\ rec.memo = <<>> /\ rec.mode = m /\ rec.pc = 1 /\ rec.kept = 0 /\ rec.at = 1 /\ rec.got = 0
  BY <1>2, <1>4, <1>5 DEF RunState
<1>7. PICK len : len = Len(Steps(r)) /\ len \in Nat /\ len >= 1
  BY LenProperties DEF IsFunction, Steps
<1>8. Placed(m, 1, 0, 0, len)
  BY <1>2, <1>7 DEF Placed
<1> QED BY <1>2, <1>3, <1>5, <1>6, <1>7, <1>8 DEF IsPlaced

LEMMA FraudStart == Init => FraudInv
<1> SUFFICES ASSUME Init, Evaluations # {} PROVE FraudOK
  BY DEF FraudInv
<1>1. PICK p \in Programs : job = p.runs
  BY DEF Init
<1>2. /\ log = <<>> /\ run = [r \in Runs |-> Idle(r)]
      /\ cell = [c \in {"card", "object", "report", "doc"} |-> 0]
  BY DEF Init, InitEngine
<1>3. \A j \in Runs : Counts(job[j])
  <2>1. PICK i \in Runs : job[i].id = "fraud/evaluate"
    BY DEF Evaluations
  <2>2. ~Fits(i, job[i])
    BY <2>1, JobNames DEF Fits, Apart, Studied, IsApprover
  <2>3. job[i] \notin {ApprovalsAgent(i, TRUE), ApprovalsAgent(i, FALSE)}
    BY <2>1, JobNames
  <2> QED BY <1>1, <2>2, <2>3, ProgramsApart
<1>4. \A t : Purchase(t).card = "card"
  BY DEF Purchase, Transaction
<1>5. ASSUME NEW r \in Runs PROVE (job[r] = NotDeployed /\ run[r].mode = "waiting") \/ IsEvaluation(r)
  <2>1. CASE job[r] = NotDeployed
    BY <1>2, <2>1 DEF Idle, NotDeployed, Function, Request
  <2>2. ASSUME NEW t, job[r] = EvaluateFraud(Purchase(t)) PROVE IsEvaluation(r)
    BY <1>2, <1>4, <2>2 DEF IsEvaluation
  <2> QED BY <1>3, <2>1, <2>2 DEF Counts
<1>6. ASSUME NEW r \in Evaluations PROVE IsPlaced(r) /\ run[r].mode # "parked" /\ ~HasCount(r)
  <2>1. r \in Runs /\ job[r] # NotDeployed
    BY JobNames DEF Evaluations
  <2>2. PICK tx : job[r] = EvaluateFraud(tx)
    BY <1>5, <2>1 DEF IsEvaluation
  <2>3. IsFunction(job[r])
    BY <2>2, EvaluationFacts DEF Evaluates
  <2>4. Len(Steps(r)) = 5
    BY <2>2, EvaluationFacts DEF Evaluates
  <2>5. run[r] = Idle(r) /\ Len(Steps(r)) >= 1
    BY <1>2, <2>1, <2>4
  <2>6. IsPlaced(r) /\ run[r].mode # "parked" /\ Len(run[r].memo) = 0
    BY <2>3, <2>5, IdleIsPlaced
  <2> QED BY <2>6 DEF HasCount
<1>7. log \in Seq({}) /\ DOMAIN run = Runs /\ \A c \in DOMAIN cell : cell[c] \in Nat
  BY <1>2
<1> HIDE DEF HasCount, CountOf, IsPlaced, IsEvaluation
<1> QED BY <1>5, <1>6, <1>7 DEF FraudOK

(* fraud-detection: the count an evaluation holds is one its card's counter *)
(* has reached, and no other evaluation of the card holds the same.         *)
THEOREM FraudInvariance == Spec => []FraudInv
<1> QED BY FraudStart, FraudInvariantSteps, PTL DEF Spec

(* No two evaluations of a card ever use the same count, whatever races,    *)
(* whatever conflict or lost answer makes a check read again and however    *)
(* often a crash takes one back (incrementVelocity).                        *)
THEOREM CountsStayDistinct == Spec => []CountsAreDistinct
<1>1. ASSUME FraudInv PROVE CountsAreDistinct
  <2> SUFFICES ASSUME NEW r \in Evaluations, NEW q \in Evaluations,
                      Card(r) = Card(q), Did(r, "velocity-check"), Did(q, "velocity-check")
               PROVE  /\ Memo(r, "velocity-check") <= cell[Card(r)]
                      /\ r # q => Memo(r, "velocity-check") # Memo(q, "velocity-check")
    BY DEF CountsAreDistinct
  <2>1. FraudOK
    BY <1>1 DEF FraudInv
  <2>2. ASSUME NEW e \in Evaluations, Did(e, "velocity-check")
        PROVE  HasCount(e) /\ Memo(e, "velocity-check") = CountOf(e)
    <3>1. e \in Runs /\ job[e] # NotDeployed /\ IsPlaced(e)
      BY <2>1, JobNames DEF Evaluations, FraudOK
    <3>2. PICK tx : job[e] = EvaluateFraud(tx)
      BY <2>1, <3>1 DEF FraudOK, IsEvaluation
    <3>11. Evaluates(e, tx) /\ ChecksVelocity(e, tx)
      BY <3>2, EvaluationFacts
    <3>3. Position(e, "velocity-check") = 2
      BY <3>11 DEF ChecksVelocity
    <3>4. \A i \in {1, 3, 4, 5} : Steps(e)[i].name # "velocity-check"
      BY <3>11 DEF ChecksVelocity
    <3>5. Len(Steps(e)) = 5
      BY <3>11 DEF Evaluates
    <3>6. PICK S : run[e] \in RunState(S)
      BY <3>1 DEF IsPlaced
    <3>7. PICK n : n = Len(run[e].memo) /\ n \in Nat /\ DOMAIN run[e].memo = 1 .. n /\ n <= 5
      BY <3>1, <3>5, <3>6, LenProperties DEF RunState, IsPlaced, Placed
    <3>8. PICK i \in 1 .. n : Steps(e)[i].name = "velocity-check"
      BY <2>2, <3>7 DEF Did
    <3>9. i = 2
      BY <3>4, <3>7, <3>8
    <3>10. n >= 2
      BY <3>7, <3>8, <3>9
    <3> QED BY <3>3, <3>7, <3>10 DEF HasCount, CountOf, Memo
  <2>3. HasCount(r) /\ HasCount(q) /\ Memo(r, "velocity-check") = CountOf(r) /\ Memo(q, "velocity-check") = CountOf(q)
    BY <2>2
  <2> HIDE DEF HasCount, CountOf
  <2> QED BY <2>1, <2>3 DEF FraudOK
<1> QED BY <1>1, FraudInvariance, PTL

-----------------------------------------------------------------------------
(* The agents that act: one contacts, one comments, both when approved.     *)

IsCase(r) == job[r].id = "reconciliation-case"
Length(r) == IF IsCase(r) THEN 12 ELSE 4
ApproveAt(r) == IF IsCase(r) THEN 5 ELSE 3
ActAt(r) == IF IsCase(r) THEN 7 ELSE 4
Act(r) == Steps(r)[ActAt(r)].does[1]
ActKey(r) == Append(Act(r).key, 0)

Acting == {"reconciliation-case", "code-review-agent"}
Outside == {"contact", "comment"}
IsAct(f, r) == f.by = r /\ f.name \in Outside
Acts(r) == {i \in DOMAIN log : IsAct(log[i], r)}
Approved(r) == \E j \in DOMAIN log : log[j].on = Gate(r) /\ log[j].name = "approved"
SaidYes(r) == ApproveAt(r) <= Len(run[r].memo) /\ run[r].memo[ApproveAt(r)] = 1

(* Where the run is, and that an answered approval is never taken back.     *)
AgentAt(r) ==
  /\ IsPlaced(r)
  /\ run[r].at = 1 /\ (run[r].mode # "parked" => run[r].got = 0)
  /\ ApproveAt(r) <= Len(run[r].memo) =>
       ApproveAt(r) <= run[r].kept /\ (run[r].memo[ApproveAt(r)] = 1 => Approved(r))
(* What it has done outside.                                                *)
ActsAreRight(r) ==
  /\ \A i \in Acts(r) : Before(i, Gate(r), "approved")
  /\ Acts(r) # {} => SaidYes(r)
  /\ IsCase(r) => \A i, j \in Acts(r) : i = j /\ log[i].key = ActKey(r)
  /\ ~IsCase(r) =>
       /\ \A i \in Acts(r) : log[i].name = "comment"
       /\ Acts(r) # {} /\ <<r, "forward", 4>> \notin hit => run[r].mode = "completed" /\ \A i, j \in Acts(r) : i = j
ActorsOK ==
  /\ \E S : log \in Seq(S)
  /\ DOMAIN run = Runs
  /\ \A r \in Runs : job[r].id \in Acting => IsApprover(r, job[r])
  /\ \A r \in Runs : IsApprover(r, job[r]) => AgentAt(r) /\ ActsAreRight(r)

(* A step that does at most one thing, is never undone and does not act.    *)
OneEffect(s) ==
  s.undo = <<>> /\ (s.does = <<>> \/ \E e : s.does = <<e>> /\ e.op \in {"append", "refuse", "wait"})
Quietly(s) == OneEffect(s) /\ \A e : s.does = <<e>> /\ e.op = "append" => e.name \notin Outside

LEMMA QuietSteps ==
  /\ \A name, of, ev : ev \notin Outside => Quietly(Step(name, <<Emit(ev, of)>>))
  /\ \A name, on : Quietly(Step(name, <<Refuse(on)>>))
  /\ \A name, of, names : Quietly(Step(name, <<Wait(of, names)>>))
  /\ \A name : Quietly(Step(name, <<>>))
  /\ \A s, step, answers : Quietly(s) => Quietly(OnlyIf(s, step, answers))
<1>1. \A name, does : Step(name, does).does = does /\ Step(name, does).undo = <<>>
  BY DEF Step
<1>2. ASSUME NEW name, NEW e, e.op \in {"append", "refuse", "wait"}, e.op = "append" => e.name \notin Outside
      PROVE  Quietly(Step(name, <<e>>))
  <2>1. \A f : <<f>> = <<e>> => f = e
    OBVIOUS
  <2> QED BY <1>1, <1>2, <2>1 DEF Quietly, OneEffect
<1>3. \A name, of, ev : ev \notin Outside => Quietly(Step(name, <<Emit(ev, of)>>))
  <2>1. \A ev, of : Emit(ev, of).op = "append" /\ Emit(ev, of).name = ev
    BY DEF Emit, Record
  <2> QED BY <1>2, <2>1
<1>4. \A name, on : Quietly(Step(name, <<Refuse(on)>>))
  <2>1. \A on : Refuse(on).op = "refuse"
    BY DEF Refuse
  <2> QED BY <1>2, <2>1
<1>5. \A name, of, names : Quietly(Step(name, <<Wait(of, names)>>))
  <2>1. \A of, names : Wait(of, names).op = "wait"
    BY DEF Wait
  <2> QED BY <1>2, <2>1
<1>6. \A name : Quietly(Step(name, <<>>))
  <2>1. \A e : <<e>> # <<>>
    OBVIOUS
  <2> QED BY <1>1, <2>1 DEF Quietly, OneEffect
<1>7. ASSUME NEW s, NEW step, NEW answers, Quietly(s)
      PROVE  Quietly(OnlyIf(s, step, answers))
  <2>1. OnlyIf(s, step, answers).does = s.does /\ OnlyIf(s, step, answers).undo = s.undo
    BY <1>7 DEF OnlyIf
  <2> QED BY <1>7, <2>1 DEF Quietly, OneEffect
<1> QED BY <1>3, <1>4, <1>5, <1>6, <1>7

(* The steps of an agent that acts.                                         *)
ActorSteps(r) ==
  /\ IsFunction(job[r]) /\ job[r].errors = "retry" /\ job[r].trigger # Request
  /\ Len(Steps(r)) = Length(r)
  /\ \A i \in 1 .. Length(r) : OneEffect(Steps(r)[i]) /\ (i # ActAt(r) => Quietly(Steps(r)[i]))
  /\ Position(r, "approve") = ApproveAt(r)
  /\ Steps(r)[ApproveAt(r)] = Approve(r)
  /\ Steps(r)[ActAt(r)].needs = <<"approve", {1}>>
  /\ Steps(r)[ActAt(r)].does = <<Act(r)>> /\ Act(r).op = "append"
  /\ IF IsCase(r) THEN Act(r).key = <<contactKey(r, Case(r))>> /\ Act(r).name = "contact"
     ELSE Act(r).key = NoKey /\ Act(r).name = "comment"

LEMMA CaseFacts ==
  ASSUME NEW r, NEW c, NEW allowed, job[r] = ReconciliationCase(r, c, allowed)
  PROVE  ActorSteps(r)
<1> DEFINE list == <<Remember("opened", c, "case.opened"), Remember("escalated", c, "case.escalated"), Triage(allowed),
                     Remember("proposed", c, "case.action.proposed"), Approve(r), Declined(c), SendContact(r, c),
                     ContactSent(c), Reply(c), NoReply(c), Unconfirmed(c), Resolved(c)>>
<1>1. job[r] = Function("reconciliation-case", OnFact(c, "case.requested"), list)
  BY DEF ReconciliationCase
<1>2. /\ job[r].steps = list /\ job[r].errors = "retry" /\ job[r].id = "reconciliation-case"
      /\ job[r].trigger = <<"fact", c, "case.requested">>
  <2> HIDE DEF list
  <2> QED BY <1>1 DEF Function, OnFact
<1>3. /\ DOMAIN list = 1 .. 12 /\ Len(list) = 12 /\ list # <<>>
      /\ list[1] = Remember("opened", c, "case.opened") /\ list[2] = Remember("escalated", c, "case.escalated")
      /\ list[3] = Triage(allowed) /\ list[4] = Remember("proposed", c, "case.action.proposed")
      /\ list[5] = Approve(r) /\ list[6] = Declined(c) /\ list[7] = SendContact(r, c) /\ list[8] = ContactSent(c)
      /\ list[9] = Reply(c) /\ list[10] = NoReply(c) /\ list[11] = Unconfirmed(c) /\ list[12] = Resolved(c)
  OBVIOUS
<1>4. \E S : list \in Seq(S)
  <2>1. list \in Seq({list[1], list[2], list[3], list[4], list[5], list[6], list[7], list[8], list[9], list[10],
                      list[11], list[12]})
    OBVIOUS
  <2> QED BY <2>1
<1> HIDE DEF list
<1>5. IsCase(r) /\ Length(r) = 12 /\ ApproveAt(r) = 5 /\ ActAt(r) = 7 /\ Steps(r) = list /\ Case(r) = c
  BY <1>2 DEF IsCase, Length, ApproveAt, ActAt, Steps, Case
<1>6. \A i \in 1 .. 12 : i # 7 => Quietly(list[i])
  <2>1. \A step, name : name \notin Outside => Quietly(Remember(step, c, name))
    BY QuietSteps DEF Remember
  <2>2. /\ "case.opened" \notin Outside /\ "case.escalated" \notin Outside /\ "case.action.proposed" \notin Outside
        /\ "case.unresolved" \notin Outside /\ "case.contact.sent" \notin Outside /\ "case.resolved" \notin Outside
    BY DEF Outside
  <2>3. Quietly(list[1]) /\ Quietly(list[2]) /\ Quietly(list[4])
    BY <1>3, <2>1, <2>2
  <2>4. Quietly(list[3]) /\ Quietly(list[5]) /\ Quietly(list[9])
    BY <1>3, QuietSteps DEF Triage, Approve, Reply
  <2>5. Quietly(list[6]) /\ Quietly(list[8]) /\ Quietly(list[10]) /\ Quietly(list[11]) /\ Quietly(list[12])
    BY <1>3, <2>1, <2>2, QuietSteps DEF Declined, ContactSent, NoReply, Unconfirmed, Resolved
  <2>6. \A i \in 1 .. 12 : i \in {1, 2, 3, 4, 5, 6, 7, 8, 9, 10, 11, 12}
    OBVIOUS
  <2> QED BY <2>3, <2>4, <2>5, <2>6
<1>7. PICK e : e = EmitOnce("contact", c, contactKey(r, c))
  OBVIOUS
<1>8. e.op = "append" /\ e.name = "contact" /\ e.key = <<contactKey(r, c)>>
  BY <1>7 DEF EmitOnce, Emit, Record
<1>9. list[7].does = <<e>> /\ list[7].undo = <<>> /\ list[7].needs = <<"approve", {1}>>
  BY <1>3, <1>7 DEF SendContact, OnlyIf, Step
<1>10. OneEffect(list[7]) /\ Act(r) = e
  BY <1>5, <1>8, <1>9 DEF OneEffect, Act
<1>11. Position(r, "approve") = 5
  <2>1. list[5].name = "approve"
    BY <1>3 DEF Approve, Step
  <2>2. /\ list[1].name # "approve" /\ list[2].name # "approve" /\ list[3].name # "approve" /\ list[4].name # "approve"
        /\ list[6].name # "approve" /\ list[7].name # "approve" /\ list[8].name # "approve"
    BY <1>3 DEF Remember, Triage, Declined, SendContact, ContactSent, OnlyIf, Step
  <2>3. list[9].name # "approve" /\ list[10].name # "approve" /\ list[11].name # "approve" /\ list[12].name # "approve"
    BY <1>3 DEF Remember, Reply, NoReply, Unconfirmed, Resolved, OnlyIf, Step
  <2>4. \A i \in 1 .. 12 : i \in {1, 2, 3, 4, 5, 6, 7, 8, 9, 10, 11, 12}
    OBVIOUS
  <2>5. \A i \in DOMAIN list : list[i].name = "approve" <=> i = 5
    BY <1>3, <2>1, <2>2, <2>3, <2>4
  <2> QED BY <1>3, <1>5, <2>5 DEF Position
<1>12. IsFunction(job[r]) /\ job[r].trigger # Request
  <2>1. \A i \in DOMAIN list : list[i].undo = <<>>
    BY <1>3, <1>6, <1>10 DEF Quietly, OneEffect
  <2>2. \A i \in DOMAIN list : NoWait(list[i].undo)
    BY <2>1 DEF NoWait
  <2> QED BY <1>2, <1>3, <1>4, <2>2 DEF IsFunction, Request
<1>13. \A i \in 1 .. 12 : OneEffect(list[i])
  BY <1>6, <1>10 DEF Quietly
<1> QED BY <1>2, <1>3, <1>5, <1>6, <1>8, <1>9, <1>10, <1>11, <1>12, <1>13 DEF ActorSteps

LEMMA ReviewFacts ==
  ASSUME NEW r, NEW pr, job[r] = CodeReviewAgent(r, pr)
  PROVE  ActorSteps(r)
<1> DEFINE list == <<FetchDiff, ReviewWith, Approve(r), PostComment(pr)>>
<1>1. job[r] = Function("code-review-agent", OnFact(pr, "pr.opened"), list)
  BY DEF CodeReviewAgent
<1>2. /\ job[r].steps = list /\ job[r].errors = "retry" /\ job[r].id = "code-review-agent"
      /\ job[r].trigger = <<"fact", pr, "pr.opened">>
  <2> HIDE DEF list
  <2> QED BY <1>1 DEF Function, OnFact
<1>3. /\ DOMAIN list = 1 .. 4 /\ Len(list) = 4 /\ list # <<>>
      /\ list[1] = FetchDiff /\ list[2] = ReviewWith /\ list[3] = Approve(r) /\ list[4] = PostComment(pr)
  OBVIOUS
<1>4. \E S : list \in Seq(S)
  <2>1. list \in Seq({list[1], list[2], list[3], list[4]})
    OBVIOUS
  <2> QED BY <2>1
<1> HIDE DEF list
<1>5. ~IsCase(r) /\ Length(r) = 4 /\ ApproveAt(r) = 3 /\ ActAt(r) = 4 /\ Steps(r) = list
  BY <1>2 DEF IsCase, Length, ApproveAt, ActAt, Steps
<1>6. \A i \in 1 .. 4 : i \in {1, 2, 3, 4}
  OBVIOUS
<1>7. \A i \in 1 .. 4 : i # 4 => Quietly(list[i])
  BY <1>3, <1>6, QuietSteps DEF FetchDiff, ReviewWith, Approve
<1>8. PICK e : e = Emit("comment", pr)
  OBVIOUS
<1>9. e.op = "append" /\ e.name = "comment" /\ e.key = NoKey
  BY <1>8 DEF Emit, Record
<1>10. list[4].does = <<e>> /\ list[4].undo = <<>> /\ list[4].needs = <<"approve", {1}>>
  BY <1>3, <1>8 DEF PostComment, OnlyIf, Step
<1>11. OneEffect(list[4]) /\ Act(r) = e
  BY <1>5, <1>9, <1>10 DEF OneEffect, Act
<1>12. Position(r, "approve") = 3
  <2>1. list[3].name = "approve" /\ list[1].name # "approve" /\ list[2].name # "approve" /\ list[4].name # "approve"
    BY <1>3 DEF Approve, FetchDiff, ReviewWith, PostComment, OnlyIf, Step
  <2>2. \A i \in DOMAIN list : list[i].name = "approve" <=> i = 3
    BY <1>3, <1>6, <2>1
  <2> QED BY <1>3, <1>5, <2>2 DEF Position
<1>13. IsFunction(job[r]) /\ job[r].trigger # Request
  <2>1. \A i \in DOMAIN list : list[i].undo = <<>>
    BY <1>3, <1>7, <1>11 DEF Quietly, OneEffect
  <2>2. \A i \in DOMAIN list : NoWait(list[i].undo)
    BY <2>1 DEF NoWait
  <2> QED BY <1>2, <1>3, <1>4, <2>2 DEF IsFunction, Request
<1>14. \A i \in 1 .. 4 : OneEffect(list[i])
  BY <1>7, <1>11 DEF Quietly
<1> QED BY <1>2, <1>3, <1>5, <1>7, <1>9, <1>10, <1>11, <1>12, <1>13, <1>14 DEF ActorSteps

LEMMA ActorsHaveSteps ==
  ASSUME NEW r, IsApprover(r, job[r])
  PROVE  ActorSteps(r) /\ r # 0
BY CaseFacts, ReviewFacts DEF IsApprover

(* What an agent does it does in the first line of its current step.        *)
LEMMA ActorDoes ==
  ASSUME NEW r, ActorSteps(r), AgentAt(r), NEW op, Doing(r, op)
  PROVE  /\ Forward(r) /\ Needed(r) /\ run[r].pc = Len(run[r].memo) + 1 /\ run[r].pc \in 1 .. Length(r)
         /\ run[r].got = 0
         /\ Steps(r)[run[r].pc].does = <<Effect(r)>> /\ Effects(r) = <<Effect(r)>> /\ Effect(r).op = op
         /\ op \in {"append", "refuse", "wait"}
<1>1. PICK S : run[r] \in RunState(S)
  BY DEF AgentAt, IsPlaced
<1>2. run[r].at = 1 /\ (run[r].mode # "parked" => run[r].got = 0)
  BY DEF AgentAt
<1>3. run[r].mode \in {"forward", "undo"} /\ Effects(r)[1].op = op /\ (Forward(r) => Needed(r))
      /\ 1 <= Len(Effects(r))
  BY <1>2 DEF Doing, Working, Busy
<1>4. PICK n, len, pc : /\ n = Len(run[r].memo) /\ n \in Nat /\ len = Length(r) /\ len = Len(Steps(r))
                        /\ len \in Nat /\ pc = run[r].pc /\ pc \in Nat
  <2>1. Len(run[r].memo) \in Nat /\ run[r].pc \in Nat
    BY <1>1, LenProperties DEF RunState
  <2> QED BY <2>1 DEF ActorSteps, Length
<1>5. Placed(run[r].mode, pc, n, run[r].kept, len)
  BY <1>4 DEF AgentAt, IsPlaced
<1>6. pc \in 1 .. len
  BY <1>3, <1>4, <1>5 DEF Placed
<1>7. OneEffect(Steps(r)[pc])
  BY <1>4, <1>6 DEF ActorSteps
<1>8. run[r].mode # "undo"
  <2>1. SUFFICES ASSUME run[r].mode = "undo" PROVE FALSE
    OBVIOUS
  <2>2. Effects(r) = <<>>
    BY <1>4, <1>7, <2>1 DEF Effects, Current, OneEffect
  <2> QED BY <1>3, <2>2
<1>9. Forward(r) /\ pc = n + 1 /\ Effects(r) = Steps(r)[pc].does
  BY <1>3, <1>4, <1>5, <1>8 DEF Placed, Forward, Effects, Current
<1>10. Effects(r) # <<>>
  BY <1>3
<1>11. PICK e : Effects(r) = <<e>> /\ e.op \in {"append", "refuse", "wait"}
  BY <1>7, <1>9, <1>10 DEF OneEffect
<1>12. Effect(r) = e
  BY <1>2, <1>11 DEF Effect
<1>13. e.op = op
  BY <1>3, <1>11
<1> QED BY <1>2, <1>3, <1>4, <1>6, <1>8, <1>9, <1>11, <1>12, <1>13

(* An approval is answered by an event of its gate, and nothing else.       *)
LEMMA ActorMoves ==
  ASSUME NEW S, log \in Seq(S), NEW r \in DOMAIN run, ActorSteps(r), AgentAt(r),
         Advance(r) \/ LoseAnswer(r) \/ Crash(r) \/ Elapse(r)
  PROVE  /\ run'[r].at = 1 /\ (run'[r].mode # "parked" => run'[r].got = 0)
         /\ run[r].mode # "completed"
         /\ SaidYes(r) => SaidYes(r)'
         /\ ApproveAt(r) <= Len(run'[r].memo) =>
              ApproveAt(r) <= run'[r].kept /\ (run'[r].memo[ApproveAt(r)] = 1 => Approved(r))
<1>1. IsPlaced(r) /\ IsFunction(job[r]) /\ Len(log) \in Nat /\ job[r].errors = "retry"
  BY LenProperties DEF AgentAt, ActorSteps
<1>2. IsPlacedAt(r, run'[r]) /\ Outcome(r, run'[r])
  BY <1>1, RunMoves
<1>3. PICK T : run[r] \in RunState(T)
  BY <1>1 DEF IsPlaced
<1>4. PICK memo, n, kept : /\ memo = run[r].memo /\ memo \in Seq(T) /\ n = Len(memo) /\ n \in Nat
                           /\ kept = run[r].kept /\ kept \in Nat
  BY <1>3, LenProperties DEF RunState
<1>5. PICK U : run'[r] \in RunState(U)
  BY <1>2 DEF IsPlacedAt
<1>6. PICK after, m, ships : /\ after = run'[r].memo /\ m = Len(after) /\ m \in Nat
                             /\ ships = run'[r].kept /\ ships \in Nat
  <2>1. run'[r].memo \in Seq(U) /\ run'[r].kept \in Nat
    BY <1>5 DEF RunState
  <2> QED BY <2>1, LenProperties
<1>7. ships <= m
  BY <1>2, <1>6 DEF IsPlacedAt, Placed
<1>8. PICK a : a = ApproveAt(r) /\ a \in {3, 5}
  BY DEF ApproveAt
<1>9. a <= n => a <= kept /\ (memo[a] = 1 => Approved(r))
  BY <1>4, <1>8 DEF AgentAt
<1>10. run[r].at = 1 /\ (run[r].mode # "parked" => run[r].got = 0)
  BY DEF AgentAt
<1> DEFINE Goal == /\ run'[r].at = 1 /\ (run'[r].mode # "parked" => run'[r].got = 0)
                   /\ run[r].mode # "completed"
                   /\ a <= n => a <= m /\ a <= ships /\ after[a] = memo[a]
                   /\ a <= m /\ ~(a <= n) => a <= ships /\ (after[a] = 1 => Approved(r))
<1>11. ASSUME Starts(r, run'[r]) \/ Parks(r, run'[r]) PROVE Goal
  <2>1. after = memo /\ kept <= ships
    BY <1>4, <1>6, <1>11 DEF Starts, Parks, Same
  <2>2. run'[r].at = 1 /\ (run'[r].mode # "parked" => run'[r].got = 0) /\ run[r].mode # "completed"
    BY <1>10, <1>11 DEF Starts, Parks, Forward
  <2>3. m = n
    BY <1>4, <1>6, <2>1
  <2>4. a <= n => a <= ships
    BY <1>4, <1>6, <1>8, <1>9, <2>1
  <2> QED BY <1>4, <1>6, <1>8, <2>1, <2>2, <2>3, <2>4
<1>12. ASSUME CallsOn(r, run'[r]) PROVE Goal
  <2>1. Working(r) /\ 1 <= Len(Effects(r)) /\ 1 # Len(Effects(r))
    BY <1>10, <1>12 DEF CallsOn
  <2>2. Doing(r, Effects(r)[1].op)
    BY <1>10, <2>1 DEF Doing
  <2>3. Effects(r) = <<Effect(r)>>
    BY <2>2, ActorDoes
  <2>4. Len(Effects(r)) = 1
    BY <2>3
  <2> QED BY <2>1, <2>4
<1>13. ASSUME Returns(r, run'[r]) PROVE Goal
  <2>1. m <= n /\ kept <= ships /\ \A i \in 1 .. m : after[i] = memo[i]
    BY <1>4, <1>6, <1>13 DEF Returns, KeptOf
  <2>2. run'[r].at = 1 /\ run'[r].got = 0 /\ run[r].mode # "completed"
    BY <1>13 DEF Returns, Fresh
  <2>3. a <= n => a <= ships /\ a <= m /\ a \in 1 .. m
    BY <1>4, <1>6, <1>7, <1>8, <1>9, <2>1
  <2>4. ~(a <= m /\ ~(a <= n))
    BY <1>4, <1>6, <1>8, <2>1
  <2>5. a <= n => after[a] = memo[a]
    BY <2>1, <2>3
  <2> QED BY <2>2, <2>3, <2>4, <2>5
<1>14. ASSUME NEW v, Records(r, run'[r], v), Reason(r, v)
       PROVE  Goal
  <2>1. run'[r].at = 1 /\ run'[r].got = 0 /\ run[r].mode # "completed" /\ kept <= ships /\ after = Append(memo, v)
    BY <1>4, <1>6, <1>14 DEF Records, Fresh
  <2>2. m = n + 1 /\ (\A i \in 1 .. n : after[i] = memo[i]) /\ after[n + 1] = v
    <3>1. memo \in Seq(T \cup {v})
      BY <1>4, SeqMonotonic
    <3>2. /\ Len(Append(memo, v)) = Len(memo) + 1
          /\ \A i \in 1 .. Len(memo) : Append(memo, v)[i] = memo[i]
          /\ Append(memo, v)[Len(memo) + 1] = v
      BY <3>1, OneMoreAnswer
    <3> QED BY <1>4, <1>6, <2>1, <3>2
  <2>3. a <= n => a <= ships /\ a <= m /\ a \in 1 .. n
    BY <1>4, <1>6, <1>8, <1>9, <2>1, <2>2
  <2>4. ASSUME a <= m, ~(a <= n)
        PROVE  a <= ships /\ (after[a] = 1 => Approved(r))
    <3>1. a = n + 1
      BY <1>4, <1>6, <1>8, <2>2, <2>4
    <3>2. run[r].mode \in {"forward", "parked"} /\ run[r].pc = a
      <4> DEFINE len == Len(Steps(r))
      <4>1. Placed(run[r].mode, run[r].pc, n, kept, len) /\ run[r].mode \in {"forward", "parked"}
        BY <1>1, <1>4, <1>14 DEF IsPlaced, Records
      <4> HIDE DEF len
      <4> QED BY <3>1, <4>1 DEF Placed
    <3>3. Current(r) = Approve(r)
      BY <1>8, <3>2 DEF ActorSteps, Current
    <3>4. Approve(r).needs = <<>> /\ Approve(r).does = <<Wait(Gate(r), Decisions)>>
      BY DEF Approve, Step
    <3>5. Effects(r) = <<Wait(Gate(r), Decisions)>> /\ Effect(r) = Wait(Gate(r), Decisions) /\ Needed(r)
          /\ Effects(r) # <<>> /\ Effect(r).op = "wait"
      <4>1. Effects(r) = <<Wait(Gate(r), Decisions)>>
        BY <3>2, <3>3, <3>4 DEF Effects
      <4>2. Effect(r) = Wait(Gate(r), Decisions)
        BY <1>10, <4>1 DEF Effect
      <4>3. Needed(r)
        BY <3>3, <3>4 DEF Needed
      <4>4. Effect(r).op = "wait"
        BY <4>2 DEF Wait
      <4> QED BY <4>1, <4>2, <4>3, <4>4
    <3>6. \A op : Doing(r, op) => op = "wait"
      BY <3>5, ActorDoes
    <3>7. ~Reads(r) /\ ~Call(r)
      BY <3>6 DEF Reads, Call, CanWrite
    <3>8. Woken(r)
      BY <1>1, <1>14, <3>5, <3>7, GivesReads DEF Reason
    <3>13. PICK i \in Answers(r) :
             run'[r].kept = run[r].pc /\ \E w \in Named(log[i].name, Effect(r).names) : Records(r, run'[r], w)
      BY <1>1, <3>8, WokenOutcome
    <3>9. PICK w \in Named(log[i].name, Effect(r).names) : run'[r].kept = run[r].pc /\ Records(r, run'[r], w)
      BY <3>13
    <3>10. after[a] = w
      <4>1. memo \in Seq(T \cup {w})
        BY <1>4, SeqMonotonic
      <4>2. Append(memo, w)[Len(memo) + 1] = w
        BY <4>1, OneMoreAnswer
      <4>3. after = Append(memo, w)
        BY <1>4, <1>6, <3>9 DEF Records
      <4> QED BY <1>4, <3>1, <4>2, <4>3
    <3>11. ASSUME w = 1 PROVE Approved(r)
      <4>1. Effect(r).on = Gate(r) /\ Effect(r).names = Decisions
        BY <3>5 DEF Wait
      <4>2. log[i].name = "approved" /\ log[i].on = Gate(r)
        BY <3>9, <3>11, <4>1 DEF Named, Decisions, Answers
      <4>3. i \in DOMAIN log
        <5>1. run[r].got \in Nat
          BY <1>1, <3>8 DEF IsPlaced, Woken
        <5>2. i \in run[r].got + 1 .. Len(log)
          BY DEF Answers
        <5>3. DOMAIN log = 1 .. Len(log)
          BY LenProperties
        <5> QED BY <1>1, <5>1, <5>2, <5>3
      <4> QED BY <4>2, <4>3 DEF Approved
    <3>12. a <= ships
      BY <1>6, <1>8, <3>2, <3>9
    <3> QED BY <3>10, <3>11, <3>12
  <2>5. a <= n => after[a] = memo[a]
    BY <2>2, <2>3
  <2> QED BY <2>1, <2>3, <2>4, <2>5
<1>15. Goal
  <2> HIDE DEF Goal
  <2> QED BY <1>2, <1>11, <1>12, <1>13, <1>14 DEF Outcome
<1>16. ApproveAt(r)' = a
  BY <1>8, StepsOnlyRun DEF OnlyRuns, ApproveAt, IsCase
<1>17. a <= m => a <= ships /\ (after[a] = 1 => Approved(r))
  BY <1>9, <1>15
<1>18. SaidYes(r) => SaidYes(r)'
  <2> HIDE DEF Goal
  <2>1. (SaidYes(r) <=> a <= n /\ memo[a] = 1) /\ (SaidYes(r)' <=> a <= m /\ after[a] = 1)
    BY <1>4, <1>6, <1>8, <1>16 DEF SaidYes
  <2> QED BY <1>15, <2>1 DEF Goal
<1> QED BY <1>4, <1>6, <1>8, <1>15, <1>17, <1>18

(* What the log says of an agent when it grows by one event.                *)
LEMMA ActsGrow ==
  ASSUME NEW S, log \in Seq(S), NEW r, NEW e, log' = log \/ log' = Append(log, e)
  PROVE  /\ Approved(r) => Approved(r)'
         /\ \A i \in Acts(r) : log'[i] = log[i]
         /\ \A i \in Acts(r) : Before(i, Gate(r), "approved") => Before(i, Gate(r), "approved")'
         /\ log' = log \/ ~IsAct(e, r) => Acts(r)' = Acts(r)
         /\ Acts(r) \subseteq Acts(r)'
<1>1. PICK n : n = Len(log) /\ n \in Nat /\ DOMAIN log = 1 .. n
  BY LenProperties
<1>2. \A i \in 1 .. n : i \in DOMAIN log' /\ log'[i] = log[i]
  BY <1>1, LonelyEvent
<1>3. \A i \in DOMAIN log' : i \in 1 .. n \/ (i = n + 1 /\ log'[i] = e /\ log' = Append(log, e))
  BY <1>1, LonelyEvent
<1>4. Approved(r) => Approved(r)'
  BY <1>1, <1>2 DEF Approved, Gate
<1>5. ASSUME NEW i \in Acts(r), Before(i, Gate(r), "approved") PROVE Before(i, Gate(r), "approved")'
  <2>1. i \in 1 .. n
    BY <1>1 DEF Acts
  <2>2. PICK j \in 1 .. (i - 1) : log[j].on = Gate(r) /\ log[j].name = "approved"
    BY <1>5 DEF Before
  <2>3. j \in 1 .. n
    BY <1>1, <2>1, <2>2
  <2>4. log'[j] = log[j]
    BY <1>2, <2>3
  <2> QED BY <2>2, <2>4 DEF Before, Gate
<1>6. ASSUME NEW i \in Acts(r)', i \notin Acts(r) PROVE IsAct(e, r)
  <2>1. i \in DOMAIN log' /\ IsAct(log'[i], r)
    BY <1>6 DEF Acts, IsAct
  <2>2. i \notin 1 .. n
    BY <1>1, <1>2, <1>6, <2>1 DEF Acts
  <2>3. i = n + 1 /\ log'[i] = e /\ log' = Append(log, e)
    BY <1>3, <2>1, <2>2
  <2> QED BY <2>1, <2>3
<1>7. \A i \in Acts(r) : i \in 1 .. n /\ IsAct(log[i], r)
  BY <1>1 DEF Acts
<1>8. Acts(r) \subseteq Acts(r)'
  BY <1>2, <1>7 DEF Acts, IsAct
<1>9. log' = log => Acts(r)' = Acts(r)
  BY DEF Acts, IsAct
<1>10. ~IsAct(e, r) => Acts(r)' = Acts(r)
  BY <1>6, <1>8
<1> HIDE DEF Acts, Before, Approved
<1> QED BY <1>1, <1>2, <1>4, <1>5, <1>6, <1>7, <1>8, <1>9, <1>10

LEMMA NewActs ==
  ASSUME NEW S, log \in Seq(S), NEW r, NEW e, log' = log \/ log' = Append(log, e), NEW i \in Acts(r)'
  PROVE  i \in Acts(r) \/ (i = Len(log) + 1 /\ log'[i] = e /\ (Approved(r) => Before(i, Gate(r), "approved")'))
<1> SUFFICES ASSUME i \notin Acts(r)
             PROVE  i = Len(log) + 1 /\ log'[i] = e /\ (Approved(r) => Before(i, Gate(r), "approved")')
  OBVIOUS
<1>1. PICK n : n = Len(log) /\ n \in Nat /\ DOMAIN log = 1 .. n
  BY LenProperties
<1>2. \A j \in 1 .. n : j \in DOMAIN log' /\ log'[j] = log[j]
  BY <1>1, LonelyEvent
<1>3. i \in DOMAIN log' /\ IsAct(log'[i], r)
  BY DEF Acts, IsAct
<1>4. i \notin 1 .. n
  BY <1>1, <1>2, <1>3 DEF Acts
<1>5. i = n + 1 /\ log'[i] = e
  BY <1>1, <1>3, <1>4, LonelyEvent
<1>6. ASSUME Approved(r) PROVE Before(i, Gate(r), "approved")'
  <2>1. PICK j \in 1 .. n : log[j].on = Gate(r) /\ log[j].name = "approved"
    BY <1>1, <1>6 DEF Approved
  <2>2. j \in 1 .. (i - 1)
    BY <1>1, <1>5
  <2>3. log'[j] = log[j]
    BY <1>2
  <2> QED BY <2>1, <2>2, <2>3 DEF Before, Gate
<1> QED BY <1>1, <1>5, <1>6

(* An agent acts once it was told to, and the second time only when a lost  *)
(* answer makes it post its comment again.                                  *)
LEMMA ActorActs ==
  ASSUME NEW S, log \in Seq(S), NEW r \in DOMAIN run, ActorSteps(r), AgentAt(r), ActsAreRight(r),
         Call(r) \/ LoseAnswer(r), Doing(r, "append") \/ Doing(r, "publish"), ~Repeated(r), IsAct(Keyed(r), r)
  PROVE  /\ SaidYes(r) /\ Approved(r)
         /\ IsCase(r) => Acts(r) = {} /\ Keyed(r).key = ActKey(r)
         /\ ~IsCase(r) => /\ Keyed(r).name = "comment"
                          /\ <<r, "forward", 4>> \notin hit' => Acts(r) = {} /\ run'[r].mode = "completed"
<1>1. Doing(r, "append")
  BY ActorDoes
<1>2. /\ Forward(r) /\ Needed(r) /\ run[r].pc = Len(run[r].memo) + 1 /\ run[r].pc \in 1 .. Length(r)
      /\ run[r].got = 0
  BY <1>1, ActorDoes
<1>3. Steps(r)[run[r].pc].does = <<Effect(r)>> /\ Effects(r) = <<Effect(r)>> /\ Effect(r).op = "append"
  BY <1>1, ActorDoes
<1>4. PICK a, p : a = ApproveAt(r) /\ p = ActAt(r) /\ (IF IsCase(r) THEN a = 5 /\ p = 7 ELSE a = 3 /\ p = 4)
  BY DEF ApproveAt, ActAt
<1>5. Keyed(r).name = Effect(r).name /\ Keyed(r).name \in Outside
  BY DEF Keyed, IsAct
<1>6. run[r].pc = p
  <2>1. SUFFICES ASSUME run[r].pc # p PROVE FALSE
    OBVIOUS
  <2>2. Quietly(Steps(r)[run[r].pc])
    BY <1>2, <1>4, <2>1 DEF ActorSteps
  <2>3. Effect(r).name \notin Outside
    BY <1>3, <2>2 DEF Quietly
  <2> QED BY <1>5, <2>3
<1>7. Effect(r) = Act(r)
  <2>1. <<Effect(r)>> = <<Act(r)>>
    BY <1>3, <1>4, <1>6 DEF ActorSteps
  <2> QED BY <2>1
<1>8. SaidYes(r)
  <2>1. Current(r).needs = <<"approve", {1}>>
    BY <1>4, <1>6 DEF ActorSteps, Current
  <2>2. Memo(r, "approve") = 1
    BY <1>2, <2>1 DEF Needed
  <2>3. run[r].memo[a] = 1
    BY <1>4, <2>2 DEF Memo, ActorSteps
  <2>4. PICK n : n = Len(run[r].memo) /\ n \in Nat
    BY LenProperties DEF AgentAt, IsPlaced, RunState
  <2>5. a <= n
    BY <1>2, <1>4, <1>6, <2>4
  <2> QED BY <1>4, <2>3, <2>4, <2>5 DEF SaidYes
<1>9. Approved(r)
  BY <1>8 DEF SaidYes, AgentAt
<1>10. ASSUME IsCase(r) PROVE Acts(r) = {} /\ Keyed(r).key = ActKey(r)
  <2>1. Act(r).key = <<contactKey(r, Case(r))>> /\ Act(r).key # NoKey
    <3>1. Act(r).key = <<contactKey(r, Case(r))>>
      BY <1>10 DEF ActorSteps
    <3>2. \A x : <<x>> # NoKey
      BY DEF NoKey
    <3> QED BY <3>1, <3>2
  <2>2. Keyed(r).key = ActKey(r)
    BY <1>2, <1>3, <1>7, <2>1 DEF Keyed, ActKey
  <2>3. ActKey(r) # NoKey
    BY <2>1 DEF ActKey, NoKey
  <2>4. \A i \in Acts(r) : log[i].key = ActKey(r) /\ i \in DOMAIN log
    BY <1>10 DEF ActsAreRight, Acts
  <2> QED BY <2>2, <2>3, <2>4 DEF Repeated
<1>11. ASSUME ~IsCase(r) PROVE Keyed(r).name = "comment"
  BY <1>5, <1>7, <1>11 DEF ActorSteps
<1>12. hit \subseteq hit' /\ run[r].mode # "completed"
  BY <1>2 DEF Forward, Call, LoseAnswer, Hit
<1>13. ASSUME ~IsCase(r), <<r, "forward", 4>> \notin hit' PROVE Acts(r) = {} /\ run'[r].mode = "completed"
  <2>1. Acts(r) = {}
    BY <1>12, <1>13 DEF ActsAreRight
  <2>2. ~LoseAnswer(r)
    <3>1. LoseAnswer(r) => Hit(r, 4) /\ run[r].mode = "forward" /\ run[r].pc = 4
      BY <1>2, <1>4, <1>6, <1>13 DEF LoseAnswer, Forward
    <3>2. Hit(r, 4) /\ run[r].mode = "forward" /\ run[r].pc = 4 => <<r, "forward", 4>> \in hit'
      <4>1. 4 \in 4 .. 4
        OBVIOUS
      <4> QED BY <4>1 DEF Hit
    <3> QED BY <1>13, <3>1, <3>2
  <2>3. Answer(r, Written(r))
    BY <2>2 DEF Call
  <2>4. IsPlaced(r) /\ IsFunction(job[r])
    BY DEF AgentAt, ActorSteps
  <2>5. /\ IsPlacedAt(r, run'[r])
        /\ \/ CallsOn(r, run'[r])
           \/ Undoes(r) /\ Returns(r, run'[r])
           \/ Forward(r) /\ run[r].at = Len(Effects(r)) /\ Records(r, run'[r], Written(r))
    BY <1>1, <2>2, <2>3, <2>4, AnswerOutcome DEF Gives
  <2>6. ~CallsOn(r, run'[r]) /\ ~Undoes(r)
    <3>1. run[r].at = 1 /\ Len(Effects(r)) = 1
      BY <1>3 DEF AgentAt
    <3> QED BY <1>2, <3>1 DEF CallsOn, Undoes, Forward
  <2>7. Records(r, run'[r], Written(r))
    BY <2>5, <2>6
  <2>8. PICK m, len : m = Len(run'[r].memo) /\ len = Len(Steps(r)) /\ m = 4 /\ len = 4
    <3>1. PICK T : run[r].memo \in Seq(T) /\ Written(r) \in T
      <4>1. PICK T : run[r].memo \in Seq(T)
        BY <2>4 DEF IsPlaced, RunState
      <4>2. run[r].memo \in Seq(T \cup {Written(r)})
        BY <4>1, SeqMonotonic
      <4> QED BY <4>2
    <3>2. PICK n : n = Len(run[r].memo) /\ n \in Nat
      BY <3>1, LenProperties
    <3>6. run[r].pc = n + 1 /\ run[r].pc = 4
      BY <1>2, <1>4, <1>6, <1>13, <3>2
    <3>7. n \in Nat /\ n + 1 = 4
      BY <3>2, <3>6
    <3>3. n = 3
      BY <3>7
    <3>4. Len(run'[r].memo) = n + 1
      BY <2>7, <3>1, <3>2, OneMoreAnswer DEF Records
    <3>5. Len(Steps(r)) = 4
      BY <1>13 DEF ActorSteps, Length
    <3> QED BY <3>3, <3>4, <3>5
  <2>9. run'[r].mode \in {"forward", "completed"} /\ Placed(run'[r].mode, run'[r].pc, m, run'[r].kept, len)
    BY <2>5, <2>7, <2>8 DEF Records, IsPlacedAt
  <2>10. run'[r].mode # "forward"
    BY <2>8, <2>9 DEF Placed
  <2> QED BY <2>1, <2>9, <2>10
<1> QED BY <1>8, <1>9, <1>10, <1>11, <1>13

LEMMA ActorStep ==
  ASSUME NEW S, log \in Seq(S), NEW r \in DOMAIN run, ActorSteps(r), AgentAt(r), ActsAreRight(r),
         Advance(r) \/ LoseAnswer(r) \/ Crash(r) \/ Elapse(r)
  PROVE  AgentAt(r)' /\ ActsAreRight(r)'
<1>1. /\ run'[r].at = 1 /\ (run'[r].mode # "parked" => run'[r].got = 0)
      /\ run[r].mode # "completed"
      /\ SaidYes(r) => SaidYes(r)'
      /\ ApproveAt(r) <= Len(run'[r].memo) =>
           ApproveAt(r) <= run'[r].kept /\ (run'[r].memo[ApproveAt(r)] = 1 => Approved(r))
  BY ActorMoves
<1>2. job' = job /\ hit \subseteq hit'
  BY StepsOnlyRun DEF OnlyRuns
<1>3. /\ ApproveAt(r)' = ApproveAt(r) /\ IsCase(r)' = IsCase(r) /\ ActKey(r)' = ActKey(r) /\ Gate(r)' = Gate(r)
      /\ Length(r)' = Length(r)
  BY <1>2 DEF ApproveAt, IsCase, ActKey, Act, ActAt, Steps, Gate, Length
<1>4. PICK e : e = Keyed(r)
  OBVIOUS
<1>5. \/ log' = log
      \/ /\ Call(r) \/ LoseAnswer(r)
         /\ Doing(r, "append") \/ Doing(r, "publish")
         /\ ~Repeated(r) /\ log' = Append(log, e)
  BY <1>4, LogGrows
<1>6. /\ Approved(r) => Approved(r)'
      /\ \A i \in Acts(r) : log'[i] = log[i]
      /\ \A i \in Acts(r) : Before(i, Gate(r), "approved") => Before(i, Gate(r), "approved")'
      /\ log' = log \/ ~IsAct(e, r) => Acts(r)' = Acts(r)
  BY <1>5, ActsGrow
<1>10. ASSUME NEW i \in Acts(r)'
       PROVE  i \in Acts(r) \/ (i = Len(log) + 1 /\ log'[i] = e /\ (Approved(r) => Before(i, Gate(r), "approved")'))
  BY <1>5, NewActs
<1>7. AgentAt(r)'
  <2>1. IsPlaced(r)'
    <3>1. IsPlaced(r) /\ IsFunction(job[r]) /\ Len(log) \in Nat
      BY LenProperties DEF AgentAt, ActorSteps
    <3> QED BY <3>1, RunStays
  <2> HIDE DEF IsPlaced, Approved
  <2> QED BY <1>1, <1>3, <1>6, <2>1 DEF AgentAt
<1>8. ASSUME log' = log \/ ~IsAct(e, r) PROVE ActsAreRight(r)'
  <2>1. Acts(r)' = Acts(r)
    BY <1>6, <1>8
  <2>2. \A i \in Acts(r) : Before(i, Gate(r), "approved")'
    BY <1>6 DEF ActsAreRight
  <2>3. Acts(r) # {} => SaidYes(r)'
    BY <1>1 DEF ActsAreRight
  <2>4. IsCase(r) => \A i, j \in Acts(r) : i = j /\ log'[i].key = ActKey(r)
    BY <1>6 DEF ActsAreRight
  <2>5. ~IsCase(r) => /\ \A i \in Acts(r) : log'[i].name = "comment"
                      /\ Acts(r) # {} => <<r, "forward", 4>> \in hit'
    BY <1>1, <1>2, <1>6 DEF ActsAreRight
  <2> HIDE DEF Acts, SaidYes, Before, IsCase, ActKey
  <2>6. \A i \in Acts(r)' : Before(i, Gate(r), "approved")'
    BY <2>1, <2>2
  <2>7. Acts(r)' # {} => SaidYes(r)'
    BY <2>1, <2>3
  <2>8. IsCase(r)' => \A i, j \in Acts(r)' : i = j /\ log'[i].key = ActKey(r)'
    BY <1>3, <2>1, <2>4
  <2>9. ~IsCase(r)' =>
          /\ \A i \in Acts(r)' : log'[i].name = "comment"
          /\ Acts(r)' # {} => <<r, "forward", 4>> \in hit'
    BY <1>3, <2>1, <2>5
  <2> QED BY <2>6, <2>7, <2>8, <2>9 DEF ActsAreRight
<1>9. ASSUME ~(log' = log) /\ IsAct(e, r) PROVE ActsAreRight(r)'
  <2>1. /\ SaidYes(r) /\ Approved(r)
        /\ IsCase(r) => Acts(r) = {} /\ e.key = ActKey(r)
        /\ ~IsCase(r) => /\ e.name = "comment"
                         /\ <<r, "forward", 4>> \notin hit' => Acts(r) = {} /\ run'[r].mode = "completed"
    BY <1>4, <1>5, <1>9, ActorActs
  <2>2. ASSUME NEW i \in Acts(r)'
        PROVE  i \in Acts(r) \/ (i = Len(log) + 1 /\ log'[i] = e /\ Before(i, Gate(r), "approved")')
    BY <1>10, <2>1
  <2>3. \A i \in Acts(r) : Before(i, Gate(r), "approved")'
    BY <1>6 DEF ActsAreRight
  <2>4. \A i \in Acts(r)' : Before(i, Gate(r), "approved")'
    BY <2>2, <2>3
  <2>5. SaidYes(r)'
    BY <1>1, <2>1
  <2>6. IsCase(r) => \A i, j \in Acts(r)' : i = j /\ log'[i].key = ActKey(r)
    BY <2>1, <2>2
  <2>7. ~IsCase(r) => \A i \in Acts(r)' : log'[i].name = "comment"
    BY <1>6, <2>1, <2>2 DEF ActsAreRight
  <2>8. ~IsCase(r) /\ <<r, "forward", 4>> \notin hit' => run'[r].mode = "completed" /\ \A i, j \in Acts(r)' : i = j
    BY <2>1, <2>2
  <2> HIDE DEF Acts, SaidYes, Before, IsCase, ActKey
  <2>9. IsCase(r)' => \A i, j \in Acts(r)' : i = j /\ log'[i].key = ActKey(r)'
    BY <1>3, <2>6
  <2>10. ~IsCase(r)' =>
           /\ \A i \in Acts(r)' : log'[i].name = "comment"
           /\ <<r, "forward", 4>> \notin hit' => run'[r].mode = "completed" /\ \A i, j \in Acts(r)' : i = j
    BY <1>3, <2>7, <2>8
  <2> QED BY <2>4, <2>5, <2>9, <2>10 DEF ActsAreRight
<1> QED BY <1>7, <1>8, <1>9

(* What anything else does leaves it what it has done.                      *)
LEMMA ActorStays ==
  ASSUME NEW S, log \in Seq(S), NEW r \in DOMAIN run, AgentAt(r), ActsAreRight(r),
         job' = job, hit \subseteq hit', run'[r] = run[r], NEW e, log' = log \/ log' = Append(log, e), e.by # r
  PROVE  AgentAt(r)' /\ ActsAreRight(r)'
<1>1. /\ ApproveAt(r)' = ApproveAt(r) /\ IsCase(r)' = IsCase(r) /\ ActKey(r)' = ActKey(r) /\ Gate(r)' = Gate(r)
      /\ SaidYes(r)' = SaidYes(r) /\ IsPlaced(r)' = IsPlaced(r)
  BY DEF ApproveAt, IsCase, ActKey, Act, ActAt, Steps, Gate, SaidYes, IsPlaced
<1>2. ~IsAct(e, r)
  BY DEF IsAct
<1>3. /\ Approved(r) => Approved(r)'
      /\ \A i \in Acts(r) : log'[i] = log[i]
      /\ \A i \in Acts(r) : Before(i, Gate(r), "approved") => Before(i, Gate(r), "approved")'
      /\ Acts(r)' = Acts(r)
  BY <1>2, ActsGrow
<1>4. AgentAt(r)'
  <2> HIDE DEF IsPlaced, Approved
  <2> QED BY <1>1, <1>3 DEF AgentAt
<1>5. \A i \in Acts(r) : Before(i, Gate(r), "approved")'
  BY <1>3 DEF ActsAreRight
<1>6. Acts(r) # {} => SaidYes(r)
  BY DEF ActsAreRight
<1>7. IsCase(r) => \A i, j \in Acts(r) : i = j /\ log'[i].key = ActKey(r)
  BY <1>3 DEF ActsAreRight
<1>8. ~IsCase(r) => \A i \in Acts(r) : log'[i].name = "comment"
  BY <1>3 DEF ActsAreRight
<1>9. ~IsCase(r) => (Acts(r) # {} /\ <<r, "forward", 4>> \notin hit' =>
                       run'[r].mode = "completed" /\ \A i, j \in Acts(r) : i = j)
  BY DEF ActsAreRight
<1>10. ActsAreRight(r)'
  <2> HIDE DEF Acts, SaidYes, Before, IsCase, ActKey
  <2> QED BY <1>1, <1>3, <1>5, <1>6, <1>7, <1>8, <1>9 DEF ActsAreRight
<1> QED BY <1>4, <1>10

LEMMA ActorsSteps == ASSUME ActorsOK, [ExamplesNext]_exampleVars PROVE ActorsOK'
<1>1. PICK S : log \in Seq(S)
  BY DEF ActorsOK
<1>2. DOMAIN run = Runs
  BY DEF ActorsOK
<1>3. ASSUME NEW q \in Runs, Advance(q) \/ LoseAnswer(q) \/ Crash(q) \/ Elapse(q)
      PROVE  ActorsOK'
  <2>1. OnlyRuns(q)
    BY <1>3, StepsOnlyRun
  <2>2. job' = job /\ hit \subseteq hit' /\ DOMAIN run' = Runs
    BY <1>2, <2>1 DEF OnlyRuns
  <2>3. PICK e : e = Keyed(q)
    OBVIOUS
  <2>4. log' = log \/ log' = Append(log, e)
    BY <1>1, <1>3, <2>3, LogGrows
  <2>5. e.by = q
    BY <2>3 DEF Keyed
  <2>6. \E T : log' \in Seq(T)
    BY <1>1, <2>4, LonelyEvent
  <2>7. ASSUME NEW r \in Runs, IsApprover(r, job[r])
        PROVE  AgentAt(r)' /\ ActsAreRight(r)'
    <3>1. r \in DOMAIN run /\ AgentAt(r) /\ ActsAreRight(r) /\ ActorSteps(r)
      BY <1>2, <2>7, ActorsHaveSteps DEF ActorsOK
    <3>2. CASE q = r
      BY <1>1, <1>3, <3>1, <3>2, ActorStep
    <3>3. CASE q # r
      <4>1. run'[r] = run[r]
        BY <2>1, <3>1, <3>3 DEF OnlyRuns
      <4> QED BY <1>1, <2>2, <2>4, <2>5, <3>1, <3>3, <4>1, ActorStays
    <3> QED BY <3>2, <3>3
  <2>8. \A r \in Runs : job[r].id \in Acting => IsApprover(r, job[r])
    BY DEF ActorsOK
  <2> HIDE DEF IsApprover, AgentAt, ActsAreRight, Acting
  <2> QED BY <2>2, <2>6, <2>7, <2>8 DEF ActorsOK
<1>4. CASE InboxNext \/ NotifierNext \/ UNCHANGED exampleVars
  <2>1. /\ UNCHANGED <<job, cell, run, hit>>
        /\ \E e : e.by = 0 /\ (log' = log \/ log' = Append(log, e))
    BY <1>4, OthersKeepRuns
  <2>2. PICK e : e.by = 0 /\ (log' = log \/ log' = Append(log, e))
    BY <2>1
  <2>3. \E T : log' \in Seq(T)
    BY <1>1, <2>2, LonelyEvent
  <2>4. ASSUME NEW r \in Runs, IsApprover(r, job[r])
        PROVE  AgentAt(r)' /\ ActsAreRight(r)'
    <3>1. r \in DOMAIN run /\ AgentAt(r) /\ ActsAreRight(r) /\ r # 0
      BY <1>2, <2>4, ActorsHaveSteps DEF ActorsOK
    <3> QED BY <1>1, <2>1, <2>2, <3>1, ActorStays
  <2>5. \A r \in Runs : job[r].id \in Acting => IsApprover(r, job[r])
    BY DEF ActorsOK
  <2> HIDE DEF IsApprover, AgentAt, ActsAreRight, Acting
  <2> QED BY <1>2, <2>1, <2>3, <2>4, <2>5 DEF ActorsOK
<1> QED BY <1>3, <1>4 DEF ExamplesNext, Next

LEMMA ActorsStart == Init => ActorsOK
<1> SUFFICES ASSUME Init PROVE ActorsOK
  OBVIOUS
<1>1. PICK p \in Programs : job = p.runs
  BY DEF Init
<1>2. log = <<>> /\ run = [r \in Runs |-> Idle(r)]
  BY DEF Init, InitEngine
<1>3. ASSUME NEW r \in Runs, job[r].id \in Acting PROVE IsApprover(r, job[r])
  <2>1. ~Apart(job[r])
    BY <1>3 DEF Apart, Studied, Acting
  <2>2. job[r] \notin {ApprovalsAgent(r, TRUE), ApprovalsAgent(r, FALSE)} /\ ~Counts(job[r])
    BY <1>3, JobNames DEF Counts, Acting
  <2>3. Fits(r, job[r])
    BY <1>1, <2>2, ProgramsApart
  <2> QED BY <2>1, <2>3 DEF Fits
<1>4. ASSUME NEW r \in Runs, IsApprover(r, job[r]) PROVE AgentAt(r) /\ ActsAreRight(r)
  <2>1. ActorSteps(r)
    BY <1>4, ActorsHaveSteps
  <2>2. IsFunction(job[r]) /\ Len(Steps(r)) = Length(r) /\ run[r] = Idle(r)
    BY <1>2, <2>1 DEF ActorSteps
  <2>3. Length(r) >= 1 /\ ApproveAt(r) \in {3, 5}
    BY DEF Length, ApproveAt
  <2>4. /\ IsPlaced(r) /\ run[r].mode # "parked" /\ Len(run[r].memo) = 0
        /\ run[r].at = 1 /\ run[r].got = 0
    BY <2>2, <2>3, IdleIsPlaced
  <2>5. PICK n : n = Len(run[r].memo) /\ n = 0
    BY <2>4
  <2>6. ~(ApproveAt(r) <= n)
    BY <2>3, <2>5
  <2>7. AgentAt(r)
    BY <2>4, <2>5, <2>6 DEF AgentAt
  <2>8. Acts(r) = {}
    BY <1>2 DEF Acts
  <2> QED BY <2>7, <2>8 DEF ActsAreRight
<1>5. log \in Seq({}) /\ DOMAIN run = Runs
  BY <1>2
<1> HIDE DEF IsApprover, AgentAt, ActsAreRight, Acting
<1> QED BY <1>3, <1>4, <1>5 DEF ActorsOK

(* The agents that act on the world: an act comes after the approval its    *)
(* gate recorded, and a case acts at most once.                             *)
THEOREM ActorsInvariance == Spec => []ActorsOK
<1> QED BY ActorsStart, ActorsSteps, PTL DEF Spec

(* Nobody is contacted and nothing is posted before a person said yes, and  *)
(* at most once but for a comment whose answer was lost: however the run is *)
(* executed again and whatever the clicks and the other runs do.            *)
THEOREM ActionsStayApproved == Spec => []ActionsNeedApproval
<1>1. ASSUME ActorsOK PROVE ActionsNeedApproval
  <2>1. SUFFICES ASSUME NEW r \in Runs, job[r].id \in Acting
                 PROVE  /\ \A i \in Acts(r) : Before(i, Gate(r), "approved")
                        /\ Acts(r) # {} => Memo(r, "approve") = 1
                        /\ Cardinality(Acts(r)) > 1 =>
                             \E i \in Acts(r) : log[i].name = "comment" /\ <<r, "forward", 4>> \in hit
    BY DEF ActionsNeedApproval, Acts, IsAct, Outside, Acting
  <2>2. ActsAreRight(r) /\ ActorSteps(r)
    BY <1>1, <2>1, ActorsHaveSteps DEF ActorsOK
  <2>3. Acts(r) # {} => Memo(r, "approve") = 1
    BY <2>2 DEF ActsAreRight, ActorSteps, SaidYes, Memo
  <2>4. ASSUME \A i, j \in Acts(r) : i = j PROVE ~(Cardinality(Acts(r)) > 1)
    <3> DEFINE acts == Acts(r)
    <3>1. \A i, j \in acts : i = j
      BY <2>4
    <3> HIDE DEF acts
    <3>2. CASE acts = {}
      <4>1. Cardinality(acts) = 0
        BY <3>2, FS_EmptySet
      <4> QED BY <4>1 DEF acts
    <3>3. CASE acts # {}
      <4>1. PICK i : acts = {i}
        BY <3>1, <3>3
      <4>2. Cardinality(acts) = 1
        BY <4>1, FS_Singleton
      <4> QED BY <4>2 DEF acts
    <3> QED BY <3>2, <3>3
  <2>5. ASSUME Cardinality(Acts(r)) > 1
        PROVE  \E i \in Acts(r) : log[i].name = "comment" /\ <<r, "forward", 4>> \in hit
    <3>1. ~(\A i, j \in Acts(r) : i = j)
      BY <2>4, <2>5
    <3>2. Acts(r) # {}
      BY <3>1
    <3>3. ~IsCase(r) /\ <<r, "forward", 4>> \in hit
      BY <2>2, <3>1, <3>2 DEF ActsAreRight
    <3>4. PICK i \in Acts(r) : TRUE
      BY <3>2
    <3> QED BY <2>2, <3>3, <3>4 DEF ActsAreRight
  <2> QED BY <2>2, <2>3, <2>5 DEF ActsAreRight
<1> QED BY <1>1, ActorsInvariance, PTL

-----------------------------------------------------------------------------
(* The statements CasesAreCutRightly is about: one line or two, each known  *)
(* by its place.                                                            *)
Listed(st, ls) ==
  /\ DOMAIN ls = {1} \/ DOMAIN ls = {1, 2}
  /\ \A i \in DOMAIN ls : ls[i] \in Matching!Lines
  /\ st.transactions = [i \in DOMAIN ls |-> Matching!Transaction(i, ls[i].counterparty, ls[i].amountCents,
                                                                 ls[i].dayOffset, ls[i].label)]

LEMMA StatementLists == ASSUME NEW st \in Matching!Statements PROVE \E ls : Listed(st, ls)
<1>1. PICK booked \in {{}, {1}}, ls \in Matching!OneOrTwo : st = Matching!Listing(booked, ls)
  BY DEF Matching!Statements
<1>2. (DOMAIN ls = {1} \/ DOMAIN ls = {1, 2}) /\ \A i \in DOMAIN ls : ls[i] \in Matching!Lines
  <2>1. CASE \E l \in Matching!Lines : ls = <<l>>
    BY <2>1
  <2>2. CASE \E l, m \in Matching!Lines : ls = <<l, m>>
    BY <2>2
  <2> QED BY <2>1, <2>2 DEF Matching!OneOrTwo
<1> QED BY <1>1, <1>2 DEF Listed, Matching!Listing, Matching!Statement

LEMMA SameCardinality == \A S : Matching!Cardinality(S) = Cardinality(S)
BY DEF Matching!Cardinality, Cardinality

(* The places of such a statement in their order.                           *)
LEMMA PlacesInOrder ==
  /\ DOMAIN Matching!InOrder({}) = {}
  /\ \A i \in {1, 2} : DOMAIN Matching!InOrder({i}) = {1} /\ Matching!InOrder({i})[1] = i
  /\ DOMAIN Matching!InOrder({1, 2}) = {1, 2} /\ Matching!InOrder({1, 2})[1] = 1 /\ Matching!InOrder({1, 2})[2] = 2
<1>1. Matching!Cardinality({}) = 0 /\ \A i : Matching!Cardinality({i}) = 1
  BY SameCardinality, FS_EmptySet, FS_Singleton
<1>2. Matching!Cardinality({1, 2}) = 2
  <2>1. {1, 2} = {1} \cup {2}
    OBVIOUS
  <2>2. IsFiniteSet({1}) /\ 2 \notin {1} /\ Cardinality({1}) = 1
    BY FS_Singleton
  <2>3. Cardinality({1} \cup {2}) = 1 + 1
    BY <2>2, FS_AddElement
  <2> QED BY <2>1, <2>3, SameCardinality
<1>3. {h \in {1, 2} : h <= 1} = {1} /\ {h \in {1, 2} : h <= 2} = {1, 2} /\ \A i \in {1, 2} : {h \in {i} : h <= i} = {i}
  OBVIOUS
<1>4. DOMAIN Matching!InOrder({}) = {}
  BY <1>1 DEF Matching!InOrder
<1>5. ASSUME NEW i \in {1, 2} PROVE DOMAIN Matching!InOrder({i}) = {1} /\ Matching!InOrder({i})[1] = i
  BY <1>1, <1>3 DEF Matching!InOrder
<1>6. DOMAIN Matching!InOrder({1, 2}) = {1, 2} /\ Matching!InOrder({1, 2})[1] = 1 /\ Matching!InOrder({1, 2})[2] = 2
  <2>1. /\ (CHOOSE i \in {1, 2} : Matching!Cardinality({j \in {1, 2} : j <= i}) = 1) = 1
        /\ (CHOOSE i \in {1, 2} : Matching!Cardinality({j \in {1, 2} : j <= i}) = 2) = 2
    <3> DEFINE C(i) == Matching!Cardinality({j \in {1, 2} : j <= i})
    <3>1. C(1) = 1 /\ C(2) = 2
      BY <1>1, <1>2, <1>3
    <3> HIDE DEF C
    <3>2. \A i \in {1, 2} : (C(i) = 1 <=> i = 1) /\ (C(i) = 2 <=> i = 2)
      BY <3>1
    <3>3. (CHOOSE i \in {1, 2} : C(i) = 1) = 1 /\ (CHOOSE i \in {1, 2} : C(i) = 2) = 2
      BY <3>2
    <3> QED BY <3>3 DEF C
  <2> QED BY <1>2, <2>1 DEF Matching!InOrder
<1> QED BY <1>4, <1>5, <1>6

LEMMA PlacesStay ==
  ASSUME NEW S \in SUBSET {1, 2}
  PROVE  \A n \in DOMAIN Matching!InOrder(S) : Matching!InOrder(S)[n] \in S
<1>1. S = {} \/ S = {1} \/ S = {2} \/ S = {1, 2}
  OBVIOUS
<1> QED BY <1>1, PlacesInOrder

(* A name is a pair, and so is a label.                                     *)
LEMMA LinesAre ==
  ASSUME NEW l \in Matching!Lines
  PROVE  /\ l.counterparty \in Matching!Vendors
         /\ \E a, b : l.label = <<a, b>>
         /\ l.label \in {<<"ADJ-", "1">>, <<"ADJ-", "x">>, <<"INV-", "1">>}
<1>1. /\ l.counterparty \in Matching!Vendors
      /\ l.label \in {<<"ADJ-", "1">>, <<"ADJ-", "x">>, <<"INV-", "1">>}
  BY DEF Matching!Lines
<1> QED BY <1>1

LEMMA ShapesStay ==
  ASSUME NEW label \in {<<"ADJ-", "1">>, <<"ADJ-", "x">>, <<"INV-", "1">>},
         NEW new, new = <<label[1], IF label[2] \in Matching!Digits THEN "2" ELSE "y">>
  PROVE  Matching!labelShape(new) = Matching!labelShape(label)
<1>1. PICK a, b : label = <<a, b>> /\ label[1] = a /\ label[2] = b /\ Len(label) = 2
  OBVIOUS
<1>2. PICK d : d = (IF b \in Matching!Digits THEN "2" ELSE "y") /\ new = <<a, d>> /\ new[1] = a /\ new[2] = d /\ Len(new) = 2
  BY <1>1
<1>3. d \in Matching!Digits <=> b \in Matching!Digits
  BY <1>2 DEF Matching!Digits
<1> QED BY <1>1, <1>2, <1>3 DEF Matching!labelShape

(* What a line keeps when its name and number are replaced.                 *)
Alias(c) == <<c[1], "renamed", c[2]>>
KeepsLine(t, new) ==
  /\ new.id = t.id /\ new.amountCents = t.amountCents /\ new.dayOffset = t.dayOffset
  /\ new.counterparty = Alias(t.counterparty)
  /\ Matching!labelShape(new.label) = Matching!labelShape(t.label)

LEMMA RenamedKeeps ==
  ASSUME NEW st \in Matching!Statements, NEW new, new = Matching!Renamed(st)
  PROVE  /\ new.applicationLines = st.applicationLines
         /\ DOMAIN new.transactions = DOMAIN st.transactions
         /\ \A i \in DOMAIN st.transactions :
              KeepsLine(st.transactions[i], new.transactions[i]) /\ st.transactions[i].counterparty \in Matching!Vendors
<1>1. PICK ls : Listed(st, ls)
  BY StatementLists
<1>2. PICK booked, list : /\ st = [periodStart |-> "2026-09", applicationLines |-> booked, transactions |-> list]
                          /\ st.transactions = list
  BY DEF Matching!Statements, Matching!Listing, Matching!Statement
<1>3. DOMAIN list = DOMAIN ls
  BY <1>1, <1>2 DEF Listed
<1>4. /\ new.applicationLines = st.applicationLines
      /\ new.transactions = [i \in DOMAIN list |-> Matching!Hidden(list[i])]
  BY <1>2 DEF Matching!Renamed
<1>5. ASSUME NEW i \in DOMAIN list
      PROVE  KeepsLine(list[i], new.transactions[i]) /\ list[i].counterparty \in Matching!Vendors
  <2>1. PICK l \in Matching!Lines : l = ls[i]
    BY <1>1, <1>3, <1>5 DEF Listed
  <2>2. PICK t : t = list[i] /\ t = Matching!Transaction(i, l.counterparty, l.amountCents, l.dayOffset, l.label)
    BY <1>1, <1>2, <1>3, <1>5, <2>1 DEF Listed
  <2>3. t = [id |-> i, counterparty |-> l.counterparty, amountCents |-> l.amountCents,
             dayOffset |-> l.dayOffset, label |-> l.label]
    BY <2>2 DEF Matching!Transaction
  <2>4. PICK label : label = t.label /\ label \in {<<"ADJ-", "1">>, <<"ADJ-", "x">>, <<"INV-", "1">>}
    BY <2>3, LinesAre
  <2>5. PICK other : other = <<label[1], IF label[2] \in Matching!Digits THEN "2" ELSE "y">>
    OBVIOUS
  <2>6. PICK u : u = new.transactions[i]
    OBVIOUS
  <2>9. u = Matching!Hidden(t)
    BY <1>4, <1>5, <2>2, <2>6
  <2>7. /\ u.id = t.id /\ u.amountCents = t.amountCents /\ u.dayOffset = t.dayOffset
        /\ u.counterparty = Alias(t.counterparty) /\ u.label = other
    BY <2>3, <2>4, <2>5, <2>9 DEF Matching!Hidden, Alias
  <2>8. Matching!labelShape(other) = Matching!labelShape(label)
    BY <2>4, <2>5, ShapesStay
  <2> QED BY <2>1, <2>2, <2>3, <2>4, <2>6, <2>7, <2>8, LinesAre DEF KeepsLine
<1> QED BY <1>2, <1>4, <1>5

LEMMA AliasesDiffer == \A c, d \in Matching!Vendors : Alias(c) = Alias(d) => c = d
<1>1. \A a, b, x, y : <<a, "renamed", b>> = <<x, "renamed", y>> => a = x /\ b = y
  OBVIOUS
<1>2. \A c, d \in Matching!Vendors : c[1] = d[1] /\ c[2] = d[2] => c = d
  BY DEF Matching!Vendors
<1> QED BY <1>1, <1>2 DEF Alias

(* So one case is cut as the other is, and shown as the other is.           *)
LEMMA RenamedCase ==
  ASSUME NEW st \in Matching!Statements, NEW new, new = Matching!Renamed(st), NEW c \in Matching!Vendors
  PROVE  /\ Matching!residue(new, <<>>) = Matching!residue(st, <<>>)
         /\ Matching!redactCluster(new, Matching!Cluster(new, <<>>, Alias(c)))
              = Matching!redactCluster(st, Matching!Cluster(st, <<>>, c))
<1>1. /\ new.applicationLines = st.applicationLines
      /\ DOMAIN new.transactions = DOMAIN st.transactions
      /\ \A i \in DOMAIN st.transactions :
           KeepsLine(st.transactions[i], new.transactions[i]) /\ st.transactions[i].counterparty \in Matching!Vendors
  BY RenamedKeeps
<1>2. \A t : Matching!Settling(<<>>, t) = {}
  BY DEF Matching!Settling
<1>3. Matching!residue(new, <<>>) = Matching!residue(st, <<>>)
  BY <1>1, <1>2 DEF Matching!residue, Matching!matchesDeterministically, KeepsLine
<1>4. PICK S : S = Matching!byCounterparty(st, <<>>, c) /\ S = Matching!byCounterparty(new, <<>>, Alias(c))
  <2>1. Matching!residue(st, <<>>) \subseteq DOMAIN st.transactions
    BY DEF Matching!residue
  <2>2. \A i \in DOMAIN st.transactions : new.transactions[i].counterparty = Alias(c) <=> st.transactions[i].counterparty = c
    BY <1>1, AliasesDiffer DEF KeepsLine
  <2> QED BY <1>3, <2>1, <2>2 DEF Matching!byCounterparty
<1>5. S \subseteq DOMAIN st.transactions /\ S \in SUBSET {1, 2}
  <2>1. PICK ls : Listed(st, ls)
    BY StatementLists
  <2> QED BY <1>4, <2>1 DEF Listed, Matching!byCounterparty, Matching!residue
<1>6. PICK cents : cents = Matching!Amounts(st) /\ cents = Matching!Amounts(new)
  BY <1>1 DEF Matching!Amounts, KeepsLine
<1>11. PICK old, other : old = Matching!Cluster(st, <<>>, c) /\ other = Matching!Cluster(new, <<>>, Alias(c))
  OBVIOUS
<1>7. old.transactions = S /\ other.transactions = S /\ other.deltaCents = old.deltaCents
  BY <1>4, <1>6, <1>11 DEF Matching!Cluster
<1>8. PICK at : at = Matching!InOrder(S) /\ \A n \in DOMAIN at : at[n] \in S
  BY <1>5, PlacesStay
<1> DEFINE Shown(s) == [n \in DOMAIN at |-> [amountCents |-> s.transactions[at[n]].amountCents,
                                             dayOffset |-> s.transactions[at[n]].dayOffset,
                                             labelShape |-> Matching!labelShape(s.transactions[at[n]].label)]]
<1>9. Shown(new) = Shown(st)
  <2>1. \A n \in DOMAIN at : KeepsLine(st.transactions[at[n]], new.transactions[at[n]])
    BY <1>1, <1>5, <1>8
  <2> QED BY <2>1 DEF KeepsLine
<1>10. /\ Matching!redactCluster(st, old) = [deltaCents |-> old.deltaCents, lines |-> Shown(st)]
       /\ Matching!redactCluster(new, other) = [deltaCents |-> old.deltaCents, lines |-> Shown(new)]
  BY <1>7, <1>8 DEF Matching!redactCluster
<1> HIDE DEF Shown
<1> QED BY <1>3, <1>9, <1>10, <1>11

(* The model sees the same of a statement whoever it is about.              *)
THEOREM ModelStaysBlind == ASSUME NEW st \in Matching!Statements PROVE Matching!ModelIsBlind(st)
<1>1. PICK new : new = Matching!Renamed(st)
  OBVIOUS
<1>2. \A c \in Matching!Vendors :
         /\ Matching!residue(new, <<>>) = Matching!residue(st, <<>>)
         /\ Matching!redactCluster(new, Matching!Cluster(new, <<>>, Alias(c)))
              = Matching!redactCluster(st, Matching!Cluster(st, <<>>, c))
  BY <1>1, RenamedCase
<1>3. \A i \in Matching!residue(st, <<>>) :
         /\ st.transactions[i].counterparty \in Matching!Vendors
         /\ new.transactions[i].counterparty = Alias(st.transactions[i].counterparty)
  BY <1>1, RenamedKeeps DEF Matching!residue, KeepsLine
<1> DEFINE Shown(s) == {Matching!redactCluster(s, Matching!Cluster(s, <<>>, s.transactions[i].counterparty)) :
                          i \in Matching!residue(s, <<>>)}
<1>4. \A s : Matching!Seen(s) = Shown(s)
  BY DEF Matching!Seen, Matching!clusters
<1>5. Matching!residue(new, <<>>) = Matching!residue(st, <<>>)
  <2>1. <<"vendor-a", "Vendor_A">> \in Matching!Vendors
    BY DEF Matching!Vendors
  <2> QED BY <1>2, <2>1
<1>6. \A i \in Matching!residue(st, <<>>) :
        Matching!redactCluster(new, Matching!Cluster(new, <<>>, new.transactions[i].counterparty))
          = Matching!redactCluster(st, Matching!Cluster(st, <<>>, st.transactions[i].counterparty))
  BY <1>2, <1>3
<1>7. Shown(new) = Shown(st)
  BY <1>5, <1>6
<1> HIDE DEF Shown
<1> QED BY <1>1, <1>4, <1>7 DEF Matching!ModelIsBlind

-----------------------------------------------------------------------------
(* What the model sees of a statement of one line, and of two of one        *)
(* counterparty, none of them booked.                                       *)
Line(c, cents, day, label) == [counterparty |-> c, amountCents |-> cents, dayOffset |-> day, label |-> label]
SomeVendor == <<"vendor-a", "Vendor-A">>
ShownAs(line, l) ==
  /\ line.amountCents = l.amountCents /\ line.dayOffset = l.dayOffset
  /\ line.labelShape = Matching!labelShape(l.label)

Unbooked(st, ls) ==
  /\ st = Matching!Listing({}, ls) /\ ls \in Matching!OneOrTwo
  /\ DOMAIN ls = {1} \/ DOMAIN ls = {1, 2}
  /\ \A i \in DOMAIN ls : ls[i] \in Matching!Lines /\ ls[i].counterparty = SomeVendor
ShownOf(input, ls) ==
  /\ DOMAIN input.lines = DOMAIN ls
  /\ DOMAIN ls = {1} => Len(input.lines) = 1
  /\ DOMAIN ls = {1, 2} => Len(input.lines) = 2
  /\ \A i \in DOMAIN ls : ShownAs(input.lines[i], ls[i])

LEMMA LinesSeen ==
  ASSUME NEW ls, NEW st, Unbooked(st, ls)
  PROVE  st \in Matching!Statements /\ \E input \in Matching!Seen(st) : ShownOf(input, ls)
<1>0. /\ st = Matching!Listing({}, ls) /\ ls \in Matching!OneOrTwo
      /\ DOMAIN ls = {1} \/ DOMAIN ls = {1, 2}
      /\ \A i \in DOMAIN ls : ls[i] \in Matching!Lines /\ ls[i].counterparty = SomeVendor
  BY DEF Unbooked
<1>1. st \in Matching!Statements
  BY <1>0 DEF Matching!Statements
<1>2. PICK list : /\ list = st.transactions /\ st.applicationLines = {} /\ DOMAIN list = DOMAIN ls
                  /\ \A i \in DOMAIN ls : list[i] = Matching!Transaction(i, ls[i].counterparty, ls[i].amountCents,
                                                                         ls[i].dayOffset, ls[i].label)
  BY <1>0 DEF Matching!Listing, Matching!Statement
<1>3. \A i \in DOMAIN ls : /\ list[i].counterparty = SomeVendor /\ list[i].amountCents = ls[i].amountCents
                           /\ list[i].dayOffset = ls[i].dayOffset /\ list[i].label = ls[i].label
  <2>1. ASSUME NEW i \in DOMAIN ls
        PROVE  /\ list[i].counterparty = ls[i].counterparty /\ list[i].amountCents = ls[i].amountCents
               /\ list[i].dayOffset = ls[i].dayOffset /\ list[i].label = ls[i].label
    <3>1. list[i] = Matching!Transaction(i, ls[i].counterparty, ls[i].amountCents, ls[i].dayOffset, ls[i].label)
      BY <1>2
    <3> QED BY <3>1 DEF Matching!Transaction
  <2> QED BY <1>0, <2>1
<1>4. Matching!residue(st, <<>>) = DOMAIN ls
  <2>1. \A t : Matching!Settling(<<>>, t) = {}
    BY DEF Matching!Settling
  <2> QED BY <1>2, <2>1 DEF Matching!residue, Matching!matchesDeterministically
<1>5. Matching!byCounterparty(st, <<>>, SomeVendor) = DOMAIN ls
  BY <1>2, <1>3, <1>4 DEF Matching!byCounterparty
<1>13. PICK k : k = Matching!Cluster(st, <<>>, SomeVendor)
  OBVIOUS
<1>6. k.transactions = DOMAIN ls
  BY <1>5, <1>13 DEF Matching!Cluster
<1>7. k \in Matching!clusters(st, <<>>)
  <2>1. 1 \in Matching!residue(st, <<>>) /\ st.transactions[1].counterparty = SomeVendor
    BY <1>0, <1>2, <1>3, <1>4
  <2> QED BY <1>13, <2>1 DEF Matching!clusters
<1>8. PICK at : at = Matching!InOrder(DOMAIN ls) /\ DOMAIN at = DOMAIN ls /\ \A n \in DOMAIN ls : at[n] = n
  BY <1>0, PlacesInOrder
<1>9. PICK lines : lines = [n \in DOMAIN ls |->
                     [amountCents |-> st.transactions[at[n]].amountCents, dayOffset |-> st.transactions[at[n]].dayOffset,
                      labelShape |-> Matching!labelShape(st.transactions[at[n]].label)]]
  OBVIOUS
<1>14. PICK input : input = Matching!redactCluster(st, k)
  OBVIOUS
<1>10. input.lines = lines
  BY <1>6, <1>8, <1>9, <1>14 DEF Matching!redactCluster
<1>11. input \in Matching!Seen(st)
  BY <1>7, <1>14 DEF Matching!Seen
<1>12. DOMAIN lines = DOMAIN ls /\ \A n \in DOMAIN ls : ShownAs(lines[n], ls[n])
  BY <1>2, <1>3, <1>8, <1>9 DEF ShownAs
<1>15. (DOMAIN ls = {1} => Len(lines) = 1) /\ (DOMAIN ls = {1, 2} => Len(lines) = 2)
  <2>1. {1} = 1 .. 1 /\ {1, 2} = 1 .. 2
    OBVIOUS
  <2> QED BY <1>9, <2>1
<1> QED BY <1>1, <1>10, <1>11, <1>12, <1>15 DEF ShownOf

LEMMA LineIsOne ==
  ASSUME NEW cents \in {4000, 6000}, NEW day \in {0, 9},
         NEW label \in {<<"ADJ-", "1">>, <<"ADJ-", "x">>, <<"INV-", "1">>}, NEW l, l = Line(SomeVendor, cents, day, label)
  PROVE  /\ l \in Matching!Lines /\ l.counterparty = SomeVendor /\ l.amountCents = cents /\ l.dayOffset = day
         /\ l.label = label
BY DEF Line, Matching!Lines, Matching!Vendors, SomeVendor

(* A lone line is judged by its amount and then its label.                  *)
LEMMA LoneLine ==
  ASSUME NEW cents \in {4000, 6000}, NEW label \in {<<"ADJ-", "1">>, <<"INV-", "1">>}
  PROVE  \E st \in Matching!Statements : \E input \in Matching!Seen(st) :
           Matching!triageWith(input) =
             (IF cents = 4000 THEN "fee-deducted-at-source"
              ELSE IF label[1] = "ADJ-" THEN "posted-to-sibling-account" ELSE "timing-next-period")
<1>1. PICK l : l = Line(SomeVendor, cents, 0, label)
  OBVIOUS
<1>2. l \in Matching!Lines /\ l.counterparty = SomeVendor /\ l.amountCents = cents /\ l.label = label
  BY <1>1, LineIsOne
<1> DEFINE ls == <<l>>
<1>3. DOMAIN ls = {1} /\ ls[1] = l
  OBVIOUS
<1>4. ls \in Matching!OneOrTwo
  BY <1>2 DEF Matching!OneOrTwo
<1> HIDE DEF ls
<1>5. PICK st : st = Matching!Listing({}, ls)
  OBVIOUS
<1>6. \A i \in DOMAIN ls : ls[i] \in Matching!Lines /\ ls[i].counterparty = SomeVendor
  BY <1>2, <1>3
<1>17. Unbooked(st, ls)
  BY <1>3, <1>4, <1>5, <1>6 DEF Unbooked
<1>7. st \in Matching!Statements /\ \E input \in Matching!Seen(st) : ShownOf(input, ls)
  BY <1>17, LinesSeen
<1>8. PICK input \in Matching!Seen(st) : ShownOf(input, ls)
  BY <1>7
<1>9. PICK lines : lines = input.lines
  OBVIOUS
<1>10. DOMAIN lines = {1} /\ Len(lines) = 1 /\ lines # <<>> /\ ShownAs(lines[1], l)
  BY <1>3, <1>8, <1>9 DEF ShownOf
<1>11. ~Matching!hasDuplicateLine(lines)
  BY <1>10 DEF Matching!hasDuplicateLine
<1>12. lines[1].amountCents = cents /\ lines[1].labelShape = Matching!labelShape(label)
  BY <1>2, <1>10 DEF ShownAs
<1>13. Matching!labelShape(label)[1] = label[1]
  BY DEF Matching!labelShape, Matching!Digits
<1>14. cents < Matching!Small <=> cents = 4000
  BY DEF Matching!Small
<1>15. Matching!triageWith(input) =
             (IF cents = 4000 THEN "fee-deducted-at-source"
              ELSE IF label[1] = "ADJ-" THEN "posted-to-sibling-account" ELSE "timing-next-period")
  BY <1>9, <1>10, <1>11, <1>12, <1>13, <1>14 DEF Matching!triageWith
<1> QED BY <1>7, <1>8, <1>15

(* Two are a payment in parts, or one that was posted twice.                *)
LEMMA TwoLines ==
  ASSUME NEW day \in {0, 9}
  PROVE  \E st \in Matching!Statements : \E input \in Matching!Seen(st) :
           Matching!triageWith(input) = (IF day = 0 THEN "duplicate-posting" ELSE "partial-payment")
<1>1. PICK l, m : l = Line(SomeVendor, 4000, 0, <<"ADJ-", "1">>) /\ m = Line(SomeVendor, 4000, day, <<"ADJ-", "1">>)
  OBVIOUS
<1>2. /\ l \in Matching!Lines /\ l.counterparty = SomeVendor /\ l.amountCents = 4000 /\ l.dayOffset = 0
      /\ m \in Matching!Lines /\ m.counterparty = SomeVendor /\ m.amountCents = 4000 /\ m.dayOffset = day
  BY <1>1, LineIsOne
<1>16. PICK ls : ls = <<l, m>>
  OBVIOUS
<1>3. DOMAIN ls = {1, 2} /\ ls[1] = l /\ ls[2] = m
  BY <1>16
<1>4. ls \in Matching!OneOrTwo
  BY <1>2, <1>16 DEF Matching!OneOrTwo
<1>5. PICK st : st = Matching!Listing({}, ls)
  OBVIOUS
<1>6. \A i \in DOMAIN ls : ls[i] \in Matching!Lines /\ ls[i].counterparty = SomeVendor
  BY <1>2, <1>3
<1>17. Unbooked(st, ls)
  BY <1>3, <1>4, <1>5, <1>6 DEF Unbooked
<1>7. st \in Matching!Statements /\ \E input \in Matching!Seen(st) : ShownOf(input, ls)
  BY <1>17, LinesSeen
<1>8. PICK input \in Matching!Seen(st) : ShownOf(input, ls)
  BY <1>7
<1>9. PICK lines : lines = input.lines
  OBVIOUS
<1>10. DOMAIN lines = {1, 2} /\ Len(lines) = 2 /\ ShownAs(lines[1], l) /\ ShownAs(lines[2], m)
  BY <1>3, <1>8, <1>9 DEF ShownOf
<1>11. Matching!hasDuplicateLine(lines) <=> day = 0
  <2>1. /\ lines[1].amountCents = 4000 /\ lines[1].dayOffset = 0
        /\ lines[2].amountCents = 4000 /\ lines[2].dayOffset = day
    BY <1>2, <1>10 DEF ShownAs
  <2> QED BY <1>10, <2>1 DEF Matching!hasDuplicateLine
<1>12. Matching!triageWith(input) = (IF day = 0 THEN "duplicate-posting" ELSE "partial-payment")
  BY <1>9, <1>10, <1>11 DEF Matching!triageWith
<1> QED BY <1>7, <1>8, <1>12

(* And each of the causes is reached.                                       *)
THEOREM CausesAreReached == Matching!EveryCauseIsReached(Matching!Statements)
<1> DEFINE Reached(cause) == \E st \in Matching!Statements : \E input \in Matching!Seen(st) : Matching!triageWith(input) = cause
<1>1. \A label \in {<<"ADJ-", "1">>, <<"INV-", "1">>} : label[1] = "ADJ-" <=> label = <<"ADJ-", "1">>
  OBVIOUS
<1>2. Reached("fee-deducted-at-source")
  BY LoneLine
<1>3. Reached("posted-to-sibling-account")
  BY LoneLine
<1>4. Reached("timing-next-period")
  BY LoneLine
<1>5. Reached("duplicate-posting")
  BY TwoLines
<1>6. Reached("partial-payment")
  BY TwoLines
<1>7. ASSUME NEW cause \in Matching!Causes
      PROVE  cause \in UNION {{Matching!triageWith(input) : input \in Matching!Seen(st)} : st \in Matching!Statements}
  <2>1. Reached(cause)
    BY <1>2, <1>3, <1>4, <1>5, <1>6, <1>7 DEF Matching!Causes
  <2> QED BY <2>1
<1> QED BY <1>7 DEF Matching!EveryCauseIsReached

(* All of it, of the statements and the rules a run may meet.               *)
THEOREM CasesAreCut == Matching!CasesAreCutRightly
<1>1. ASSUME NEW list \in Matching!RuleLists PROVE RuleList(list)
  <2>1. list = <<>> \/ \E r \in Matching!Rules : list = <<r>>
    BY <1>1 DEF Matching!RuleLists
  <2>2. \A r \in Matching!Rules : r.key = Matching!ruleKey(r.counterparty, r.predicate)
    BY DEF Matching!Rules, Matching!learnRule
  <2>3. list \in Seq(Matching!Rules)
    <3>1. <<>> \in Seq(Matching!Rules) /\ \A r \in Matching!Rules : <<r>> \in Seq(Matching!Rules)
      OBVIOUS
    <3> QED BY <2>1, <3>1
  <2>4. \A i \in DOMAIN list : list[i].key = Matching!ruleKey(list[i].counterparty, list[i].predicate)
    BY <2>1, <2>2
  <2> QED BY <2>3, <2>4 DEF RuleList
<1>2. ASSUME NEW st \in Matching!Statements, NEW list \in Matching!RuleLists
      PROVE  /\ Matching!EachLineIsPlaced(st, list) /\ Matching!ConfirmedIsSettled(st, list)
             /\ \A r \in Matching!Rules : Matching!LearningIsLocal(st, list, r)
  <2>1. Matching!EachLineIsPlaced(st, list) /\ Matching!ConfirmedIsSettled(st, list)
    BY <1>1, LinesArePlaced, ConfirmedStaysSettled
  <2>2. RuleList(list)
    BY <1>1
  <2>3. \A r : Matching!LearningIsLocal(st, list, r)
    BY <2>2, RulesAreLocal
  <2> QED BY <2>1, <2>3
<1> QED BY <1>2, ModelStaysBlind, CausesAreReached DEF Matching!CasesAreCutRightly

-----------------------------------------------------------------------------
(* Facts and the versions they give their streams.                          *)
LogIs == \E S : log \in Seq(S)

LEMMA LogShape ==
  ASSUME LogIs
  PROVE  \E n \in Nat : n = Len(log) /\ DOMAIN log = 1 .. n
BY LenProperties DEF LogIs

(* Positions below one, of a stream or not, are finitely many.              *)
LEMMA VersionsCount ==
  ASSUME LogIs
  PROVE  /\ \A s : IsFiniteSet(Stream(s)) /\ StreamVersion(s) \in Nat
         /\ \A i \in DOMAIN log : VersionOf(i) \in Nat /\ 1 <= VersionOf(i) /\ VersionOf(i) <= StreamVersion(log[i].on)
         /\ \A i, j \in DOMAIN log : log[i].on = log[j].on /\ i < j => VersionOf(i) < VersionOf(j)
<1>1. PICK n \in Nat : n = Len(log) /\ DOMAIN log = 1 .. n
  BY LogShape
<1>2. IsFiniteSet(1 .. n)
  BY FS_Interval
<1>3. ASSUME NEW s PROVE IsFiniteSet(Stream(s)) /\ StreamVersion(s) \in Nat
  <2>1. Stream(s) \subseteq 1 .. n
    BY <1>1 DEF Stream
  <2> QED BY <1>2, <2>1, FS_Subset, FS_CardinalityType DEF StreamVersion
<1>4. ASSUME NEW i \in DOMAIN log
      PROVE  VersionOf(i) \in Nat /\ 1 <= VersionOf(i) /\ VersionOf(i) <= StreamVersion(log[i].on)
  <2> DEFINE S == Stream(log[i].on)
             T == {k \in S : k <= i}
  <2>1. IsFiniteSet(S) /\ T \subseteq S
    BY <1>3
  <2>2. i \in T
    BY <1>1 DEF Stream
  <2>3. IsFiniteSet(T) /\ Cardinality(T) <= Cardinality(S) /\ Cardinality(T) \in Nat
    BY <2>1, FS_Subset, FS_CardinalityType
  <2>4. {i} \subseteq T
    BY <2>2
  <2>5. Cardinality({i}) <= Cardinality(T) /\ Cardinality({i}) = 1
    BY <2>3, <2>4, FS_Subset, FS_Singleton
  <2>6. VersionOf(i) = Cardinality(T) /\ StreamVersion(log[i].on) = Cardinality(S)
    BY DEF VersionOf, StreamVersion
  <2> HIDE DEF T, S
  <2> QED BY <2>3, <2>5, <2>6
<1>5. ASSUME NEW i \in DOMAIN log, NEW j \in DOMAIN log, log[i].on = log[j].on, i < j
      PROVE  VersionOf(i) < VersionOf(j)
  <2> DEFINE S == Stream(log[i].on)
             T == {k \in S : k <= i}
             U == {k \in S : k <= j}
  <2>1. i \in Nat /\ j \in Nat /\ S \subseteq Nat /\ j \in S
    BY <1>1, <1>5 DEF Stream
  <2>2. T \subseteq U /\ j \in U /\ j \notin T
    BY <1>5, <2>1
  <2>3. IsFiniteSet(U)
    <3>1. IsFiniteSet(S) /\ U \subseteq S
      BY <1>3
    <3> QED BY <3>1, FS_Subset
  <2>4. T # U /\ IsFiniteSet(T)
    BY <2>2, <2>3, FS_Subset
  <2>5. Cardinality(T) < Cardinality(U)
    <3>1. Cardinality(T) <= Cardinality(U) /\ (Cardinality(T) = Cardinality(U) => T = U)
      BY <2>2, <2>3, FS_Subset
    <3>2. Cardinality(T) \in Nat /\ Cardinality(U) \in Nat
      BY <2>3, <2>4, FS_CardinalityType
    <3> HIDE DEF T, U
    <3> QED BY <2>4, <3>1, <3>2
  <2>6. VersionOf(i) = Cardinality(T) /\ VersionOf(j) = Cardinality(U)
    BY <1>5 DEF VersionOf
  <2> QED BY <2>5, <2>6
<1> QED BY <1>3, <1>4, <1>5

(* Two facts of a stream have different versions.                           *)
LEMMA VersionsDiffer ==
  ASSUME LogIs, NEW i \in DOMAIN log, NEW j \in DOMAIN log, log[i].on = log[j].on, VersionOf(i) = VersionOf(j)
  PROVE  i = j
<1>1. i \in Nat /\ j \in Nat
  BY LogShape
<1>2. VersionOf(i) \in Nat
  BY VersionsCount
<1>3. ~(i < j) /\ ~(j < i)
  BY <1>2, VersionsCount
<1> QED BY <1>1, <1>3

(* One more fact.                                                           *)
LEMMA LogAppends ==
  ASSUME LogIs, NEW e, log' = Append(log, e)
  PROVE  /\ LogIs' /\ Len(log) + 1 \notin DOMAIN log /\ DOMAIN log' = DOMAIN log \cup {Len(log) + 1}
         /\ \A i \in DOMAIN log : log'[i] = log[i] /\ i < Len(log) + 1
         /\ log'[Len(log) + 1] = e /\ Len(log) + 1 \in Nat
<1>1. PICK n \in Nat : n = Len(log) /\ DOMAIN log = 1 .. n
  BY LogShape
<1>2. PICK S : log \in Seq(S)
  BY DEF LogIs
<1>3. log \in Seq(S \cup {e})
  BY <1>2, SeqMonotonic
<1>4. /\ log' \in Seq(S \cup {e}) /\ Len(log') = n + 1
      /\ \A i \in 1 .. n : log'[i] = log[i]
      /\ log'[n + 1] = e
  BY <1>1, <1>3, OneMoreAnswer
<1>5. DOMAIN log' = 1 .. n + 1
  BY <1>4, LenProperties
<1>6. 1 .. n + 1 = 1 .. n \cup {n + 1} /\ n + 1 \notin 1 .. n /\ \A i \in 1 .. n : i < n + 1
  BY <1>1
<1>7. LogIs'
  BY <1>4 DEF LogIs
<1> QED BY <1>1, <1>4, <1>5, <1>6, <1>7

LEMMA StreamGrows ==
  ASSUME LogIs, NEW e, log' = Append(log, e), NEW s
  PROVE  /\ Stream(s)' = IF s = e.on THEN Stream(s) \cup {Len(log) + 1} ELSE Stream(s)
         /\ StreamVersion(s)' = IF s = e.on THEN StreamVersion(s) + 1 ELSE StreamVersion(s)
<1>1. Stream(s)' = {i \in DOMAIN log' : log'[i].on = s}
  BY DEF Stream
<1>2. Stream(s)' = IF s = e.on THEN Stream(s) \cup {Len(log) + 1} ELSE Stream(s)
  BY <1>1, LogAppends DEF Stream
<1>3. IsFiniteSet(Stream(s)) /\ Len(log) + 1 \notin Stream(s)
  BY VersionsCount, LogAppends DEF Stream
<1>4. StreamVersion(s)' = Cardinality(Stream(s)') /\ StreamVersion(s) = Cardinality(Stream(s))
  BY DEF StreamVersion
<1> QED BY <1>2, <1>3, <1>4, FS_AddElement

LEMMA OldVersionsStay ==
  ASSUME LogIs, NEW e, log' = Append(log, e), NEW i \in DOMAIN log
  PROVE  VersionOf(i)' = VersionOf(i)
<1>1. log'[i] = log[i] /\ i < Len(log) + 1 /\ Len(log) + 1 \in Nat /\ i \in Nat
  BY LogAppends, LogShape
<1>2. PICK n : n = Len(log) + 1 /\ n \in Nat /\ i < n
  BY <1>1
<1>3. PICK s : s = log[i].on
  OBVIOUS
<1>4. \A j : j \in Stream(s)' /\ j <= i <=> j \in Stream(s) /\ j <= i
  BY <1>2, StreamGrows
<1>5. VersionOf(i) = Cardinality({j \in Stream(s) : j <= i})
  BY <1>3 DEF VersionOf
<1>6. VersionOf(i)' = Cardinality({j \in Stream(s)' : j <= i})
  BY <1>1, <1>3 DEF VersionOf, Stream
<1> QED BY <1>4, <1>5, <1>6

LEMMA NewVersion ==
  ASSUME LogIs, NEW e, log' = Append(log, e), NEW n, n = Len(log) + 1
  PROVE  VersionOf(n)' = StreamVersion(e.on) + 1
<1>1. log'[n] = e /\ n \in Nat
  BY LogAppends
<1>2. PICK s : s = e.on
  OBVIOUS
<1>3. \A j \in Stream(s)' : j <= n
  BY <1>1, LogAppends, LogShape DEF Stream
<1>4. VersionOf(n)' = Cardinality({j \in Stream(s)' : j <= n})
  BY <1>1, <1>2 DEF VersionOf, Stream
<1>5. {j \in Stream(s)' : j <= n} = Stream(s)'
  BY <1>3
<1>6. VersionOf(n)' = StreamVersion(s)'
  BY <1>4, <1>5 DEF StreamVersion
<1> QED BY <1>2, <1>6, StreamGrows

-----------------------------------------------------------------------------
(* What every function here is made of: lists of steps that are lists of    *)
(* calls, with an undo that does not wait, none of which tells of N.        *)
Telling == {"append", "publish"}
Spares(e, N) == e.op \in Telling => e.name \notin N
SparesAll(effects, N) == (\E S : effects \in Seq(S)) /\ \A j \in DOMAIN effects : Spares(effects[j], N)
GoodStep(s, N) == SparesAll(s.does, N) /\ SparesAll(s.undo, N) /\ NoWait(s.undo)
GoodSteps(steps, N) == (\E S : steps \in Seq(S)) /\ steps # <<>> /\ \A i \in DOMAIN steps : GoodStep(steps[i], N)
GoodFunction(f, N) ==
  /\ \E S : f.steps \in Seq(S)
  /\ f.trigger # <<"never">> => f.steps # <<>>
  /\ \A i \in DOMAIN f.steps : GoodStep(f.steps[i], N)

LEMMA GoodIsFunction == \A f, N : GoodFunction(f, N) => IsFunction(f)
BY DEF GoodFunction, GoodStep, IsFunction

LEMMA Sparing ==
  \A N, a, b, c :
    /\ Spares(Read(a), N) /\ Spares(Get(a), N) /\ Spares(Match(a, b), N) /\ Spares(Cas(a), N) /\ Spares(Put(a, b), N)
    /\ Spares(Refuse(a), N) /\ Spares(View(a, b), N) /\ Spares(Wait(a, b), N)
    /\ a \notin N => Spares(Record(b, a, c), N) /\ Spares(Emit(a, b), N) /\ Spares(EmitOnce(a, b, c), N)
                     /\ Spares(Publish(a, b), N)
BY DEF Spares, Telling, Read, Get, Match, Cas, Put, Refuse, View, Wait, Record, Emit, EmitOnce, Publish

LEMMA SparingAll ==
  ASSUME NEW N
  PROVE  /\ SparesAll(<<>>, N)
         /\ \A a : Spares(a, N) => SparesAll(<<a>>, N)
         /\ \A a, b : Spares(a, N) /\ Spares(b, N) => SparesAll(<<a, b>>, N)
         /\ \A a, b, c : Spares(a, N) /\ Spares(b, N) /\ Spares(c, N) => SparesAll(<<a, b, c>>, N)
         /\ \A a, b, c, d : Spares(a, N) /\ Spares(b, N) /\ Spares(c, N) /\ Spares(d, N) => SparesAll(<<a, b, c, d>>, N)
<1>1. SparesAll(<<>>, N)
  <2>1. <<>> \in Seq({}) /\ DOMAIN <<>> = {}
    OBVIOUS
  <2> QED BY <2>1 DEF SparesAll
<1>2. ASSUME NEW a, Spares(a, N)
      PROVE  SparesAll(<<a>>, N)
  <2> DEFINE list == <<a>>
  <2>1. list \in Seq({a}) /\ list # <<>>
    OBVIOUS
  <2>2. \A i \in DOMAIN list : Spares(list[i], N)
    BY <1>2
  <2> HIDE DEF list
  <2>3. SparesAll(list, N)
    BY <2>1, <2>2 DEF SparesAll
  <2> QED BY <2>3 DEF list
<1>3. ASSUME NEW a, NEW b, Spares(a, N), Spares(b, N)
      PROVE  SparesAll(<<a, b>>, N)
  <2> DEFINE list == <<a, b>>
  <2>1. list \in Seq({a, b}) /\ list # <<>>
    OBVIOUS
  <2>2. \A i \in DOMAIN list : Spares(list[i], N)
    BY <1>3
  <2> HIDE DEF list
  <2>3. SparesAll(list, N)
    BY <2>1, <2>2 DEF SparesAll
  <2> QED BY <2>3 DEF list
<1>4. ASSUME NEW a, NEW b, NEW c, Spares(a, N), Spares(b, N), Spares(c, N)
      PROVE  SparesAll(<<a, b, c>>, N)
  <2> DEFINE list == <<a, b, c>>
  <2>1. list \in Seq({a, b, c}) /\ list # <<>>
    OBVIOUS
  <2>2. \A i \in DOMAIN list : Spares(list[i], N)
    BY <1>4
  <2> HIDE DEF list
  <2>3. SparesAll(list, N)
    BY <2>1, <2>2 DEF SparesAll
  <2> QED BY <2>3 DEF list
<1>5. ASSUME NEW a, NEW b, NEW c, NEW d, Spares(a, N), Spares(b, N), Spares(c, N), Spares(d, N)
      PROVE  SparesAll(<<a, b, c, d>>, N)
  <2> DEFINE list == <<a, b, c, d>>
  <2>1. list \in Seq({a, b, c, d}) /\ list # <<>>
    OBVIOUS
  <2>2. \A i \in DOMAIN list : Spares(list[i], N)
    BY <1>5
  <2> HIDE DEF list
  <2>3. SparesAll(list, N)
    BY <2>1, <2>2 DEF SparesAll
  <2> QED BY <2>3 DEF list
<1> QED BY <1>1, <1>2, <1>3, <1>4, <1>5

LEMMA SparingSteps ==
  ASSUME NEW N
  PROVE  /\ \A n, does : SparesAll(does, N) => GoodStep(Step(n, does), N)
         /\ \A n, does, s, answers : SparesAll(does, N) => GoodStep(OnlyIf(Step(n, does), s, answers), N)
<1>1. SparesAll(<<>>, N) /\ NoWait(<<>>)
  BY SparingAll DEF NoWait
<1> QED BY <1>1 DEF GoodStep, Step, OnlyIf

LEMMA StepLists ==
  ASSUME NEW N
  PROVE  /\ \A a : GoodStep(a, N) => GoodSteps(<<a>>, N)
         /\ \A a, b : GoodStep(a, N) /\ GoodStep(b, N) => GoodSteps(<<a, b>>, N)
         /\ \A a, b, c : GoodStep(a, N) /\ GoodStep(b, N) /\ GoodStep(c, N) => GoodSteps(<<a, b, c>>, N)
         /\ \A a, b, c, d : GoodStep(a, N) /\ GoodStep(b, N) /\ GoodStep(c, N) /\ GoodStep(d, N) => GoodSteps(<<a, b, c, d>>, N)
         /\ \A a, b, c, d, e : GoodStep(a, N) /\ GoodStep(b, N) /\ GoodStep(c, N) /\ GoodStep(d, N) /\ GoodStep(e, N) =>
              GoodSteps(<<a, b, c, d, e>>, N)
<1>1. ASSUME NEW a, GoodStep(a, N)
      PROVE  GoodSteps(<<a>>, N)
  <2> DEFINE list == <<a>>
  <2>1. list \in Seq({a}) /\ list # <<>>
    OBVIOUS
  <2>2. \A i \in DOMAIN list : GoodStep(list[i], N)
    BY <1>1
  <2> HIDE DEF list
  <2>3. GoodSteps(list, N)
    BY <2>1, <2>2 DEF GoodSteps
  <2> QED BY <2>3 DEF list
<1>2. ASSUME NEW a, NEW b, GoodStep(a, N), GoodStep(b, N)
      PROVE  GoodSteps(<<a, b>>, N)
  <2> DEFINE list == <<a, b>>
  <2>1. list \in Seq({a, b}) /\ list # <<>>
    OBVIOUS
  <2>2. \A i \in DOMAIN list : GoodStep(list[i], N)
    BY <1>2
  <2> HIDE DEF list
  <2>3. GoodSteps(list, N)
    BY <2>1, <2>2 DEF GoodSteps
  <2> QED BY <2>3 DEF list
<1>3. ASSUME NEW a, NEW b, NEW c, GoodStep(a, N), GoodStep(b, N), GoodStep(c, N)
      PROVE  GoodSteps(<<a, b, c>>, N)
  <2> DEFINE list == <<a, b, c>>
  <2>1. list \in Seq({a, b, c}) /\ list # <<>>
    OBVIOUS
  <2>2. \A i \in DOMAIN list : GoodStep(list[i], N)
    BY <1>3
  <2> HIDE DEF list
  <2>3. GoodSteps(list, N)
    BY <2>1, <2>2 DEF GoodSteps
  <2> QED BY <2>3 DEF list
<1>4. ASSUME NEW a, NEW b, NEW c, NEW d, GoodStep(a, N), GoodStep(b, N), GoodStep(c, N), GoodStep(d, N)
      PROVE  GoodSteps(<<a, b, c, d>>, N)
  <2> DEFINE list == <<a, b, c, d>>
  <2>1. list \in Seq({a, b, c, d}) /\ list # <<>>
    OBVIOUS
  <2>2. \A i \in DOMAIN list : GoodStep(list[i], N)
    BY <1>4
  <2> HIDE DEF list
  <2>3. GoodSteps(list, N)
    BY <2>1, <2>2 DEF GoodSteps
  <2> QED BY <2>3 DEF list
<1>5. ASSUME NEW a, NEW b, NEW c, NEW d, NEW e, GoodStep(a, N), GoodStep(b, N), GoodStep(c, N), GoodStep(d, N), GoodStep(e, N)
      PROVE  GoodSteps(<<a, b, c, d, e>>, N)
  <2> DEFINE list == <<a, b, c, d, e>>
  <2>1. list \in Seq({a, b, c, d, e}) /\ list # <<>>
    OBVIOUS
  <2>2. \A i \in DOMAIN list : GoodStep(list[i], N)
    BY <1>5
  <2> HIDE DEF list
  <2>3. GoodSteps(list, N)
    BY <2>1, <2>2 DEF GoodSteps
  <2> QED BY <2>3 DEF list
<1> QED BY <1>1, <1>2, <1>3, <1>4, <1>5

LEMMA JoinedLists ==
  ASSUME NEW N, NEW a, NEW b, GoodSteps(a, N), GoodSteps(b, N)
  PROVE  GoodSteps(a \o b, N)
<1>1. PICK S : a \in Seq(S) /\ b \in Seq(S)
  <2>1. PICK A, B : a \in Seq(A) /\ b \in Seq(B)
    BY DEF GoodSteps
  <2>2. a \in Seq(A \cup B) /\ b \in Seq(A \cup B)
    BY <2>1, SeqMonotonic
  <2> QED BY <2>2
<1>2. PICK n, m : n = Len(a) /\ m = Len(b) /\ n \in Nat /\ m \in Nat /\ DOMAIN a = 1 .. n /\ DOMAIN b = 1 .. m
  BY <1>1, LenProperties
<1>3. /\ a \o b \in Seq(S) /\ Len(a \o b) = n + m
      /\ \A i \in 1 .. n + m : (a \o b)[i] = IF i <= n THEN a[i] ELSE b[i - n]
  BY <1>1, <1>2, ConcatProperties
<1>4. DOMAIN (a \o b) = 1 .. n + m
  BY <1>3, LenProperties
<1>5. ASSUME NEW i \in 1 .. n + m PROVE GoodStep((a \o b)[i], N)
  <2>1. CASE i <= n
    BY <1>2, <1>3, <2>1 DEF GoodSteps
  <2>2. CASE ~(i <= n)
    <3>1. i - n \in 1 .. m
      BY <1>2, <2>2
    <3> QED BY <1>2, <1>3, <2>2, <3>1 DEF GoodSteps
  <2> QED BY <2>1, <2>2
<1>6. a \o b # <<>>
  <2>1. n # 0
    BY <1>1, <1>2, EmptySeq DEF GoodSteps
  <2>2. n + m # 0
    BY <1>2, <2>1
  <2>3. Len(<<>>) = 0
    OBVIOUS
  <2> QED BY <1>3, <2>2, <2>3
<1> QED BY <1>3, <1>4, <1>5, <1>6 DEF GoodSteps

LEMMA GoodFunctions ==
  ASSUME NEW N, NEW steps, GoodSteps(steps, N), NEW id, NEW t
  PROVE  /\ GoodFunction(Function(id, t, steps), N)
         /\ \A e : GoodFunction(Script(id, t, steps, e), N)
         /\ Function(id, t, steps).id = id /\ \A e : Script(id, t, steps, e).id = id
BY DEF GoodFunction, GoodSteps, Function, Script

(* The functions of the examples, one by one.  Some names are one           *)
(* function's own; the others never tell of them.                           *)
Reserved == {"decision_made", "fraud-alerts", "doc-indexed", "chunk-embedded"}
Collected == {"agent.research.completed", "todo.added"}

LEMMA OrderFunctions ==
  ASSUME NEW N, N \subseteq Reserved \cup Collected, NEW o
  PROVE  /\ \A v : GoodFunction(PlaceOrder(o, v), N)
         /\ GoodFunction(FulfillOrder(o), N)
<1>1. {"order.placed", "order.confirmed", "order.cancelled", "order.shipped", "notifications.order.shipped"} \cap N = {}
  BY DEF Reserved, Collected
<1>2. ASSUME NEW v PROVE GoodFunction(PlaceOrder(o, v), N)
  <2>1. GoodStep(ValidateOrder(o, v), N)
    BY Sparing, SparingAll, SparingSteps DEF ValidateOrder
  <2>2. GoodStep(RecordOrderPlaced(o), N)
    BY <1>1, Sparing, SparingAll, SparingSteps DEF RecordOrderPlaced
  <2>3. GoodSteps(<<ValidateOrder(o, v), RecordOrderPlaced(o)>>, N)
    BY <2>1, <2>2, StepLists
  <2> QED BY <2>3, GoodFunctions DEF PlaceOrder
<1>3. GoodFunction(FulfillOrder(o), N)
  <2>1. SparesAll(<<Read(o), Refuse({0}), Record(o, "order.confirmed", AsRead)>>, N)
    BY <1>1, Sparing, SparingAll
  <2>2. SparesAll(ReversePayment(o), N) /\ NoWait(ReversePayment(o))
    <3>1. SparesAll(ReversePayment(o), N)
      BY <1>1, Sparing, SparingAll DEF ReversePayment
    <3>2. NoWait(ReversePayment(o))
      BY DEF NoWait, ReversePayment, Read, Refuse, Record
    <3> QED BY <3>1, <3>2
  <2>3. GoodStep(ConfirmPayment(o), N)
    BY <2>1, <2>2 DEF GoodStep, ConfirmPayment, Undoing, Step
  <2>4. GoodStep(ShipOrder(o), N) /\ GoodStep(AnnounceShipped, N)
    BY <1>1, Sparing, SparingAll, SparingSteps DEF ShipOrder, AnnounceShipped
  <2>5. GoodSteps(<<ConfirmPayment(o), ShipOrder(o), AnnounceShipped>>, N)
    BY <2>3, <2>4, StepLists
  <2> QED BY <2>5, GoodFunctions DEF FulfillOrder
<1> QED BY <1>2, <1>3

LEMMA EvaluationFunctions ==
  ASSUME NEW N, N \subseteq {"doc-indexed", "chunk-embedded"} \cup Collected, NEW tx
  PROVE  GoodFunction(EvaluateFraud(tx), N)
<1>1. {"signals_collected", "model_scored", "decision_made", "fraud-alerts"} \cap N = {}
  BY DEF Collected
<1>2. GoodStep(CollectSignals, N) /\ GoodStep(VelocityCheck(tx), N)
  BY Sparing, SparingAll, SparingSteps DEF CollectSignals, VelocityCheck
<1>3. GoodStep(ScoreStep(tx), N)
  BY <1>1, Sparing, SparingAll, SparingSteps DEF ScoreStep
<1>4. GoodStep(Decide(tx), N) /\ GoodStep(Alert(tx), N)
  BY <1>1, Sparing, SparingAll, SparingSteps DEF Decide, Alert
<1>5. GoodSteps(<<CollectSignals, VelocityCheck(tx), ScoreStep(tx), Decide(tx), Alert(tx)>>, N)
  BY <1>2, <1>3, <1>4, StepLists
<1> QED BY <1>5, GoodFunctions DEF EvaluateFraud

LEMMA UploadFunctions ==
  ASSUME NEW N
  PROVE  /\ \A path : GoodFunction(Upload(path), N) /\ GoodFunction(Edit(path), N)
         /\ \A path, report, etag : GoodFunction(ProcessUpload(path, report, etag), N)
<1>1. ASSUME NEW path PROVE GoodFunction(Upload(path), N) /\ GoodFunction(Edit(path), N)
  <2>1. \A n : GoodStep(Step(n, <<Put(path, Newer)>>), N)
    BY Sparing, SparingAll, SparingSteps
  <2>2. \A n : GoodSteps(<<Step(n, <<Put(path, Newer)>>)>>, N)
    BY <2>1, StepLists
  <2> QED BY <2>2, GoodFunctions DEF Upload, Edit
<1>2. ASSUME NEW path, NEW report, NEW etag PROVE GoodFunction(ProcessUpload(path, report, etag), N)
  <2>1. GoodStep(Analyze(path, etag), N) /\ GoodStep(WriteReport(report), N)
    BY Sparing, SparingAll, SparingSteps DEF Analyze, WriteReport
  <2>2. GoodSteps(<<Analyze(path, etag), WriteReport(report)>>, N)
    BY <2>1, StepLists
  <2> QED BY <2>2, GoodFunctions DEF ProcessUpload
<1> QED BY <1>1, <1>2

LEMMA IngestFunctions ==
  ASSUME NEW N, N \subseteq {"decision_made", "fraud-alerts"} \cup Collected, NEW doc
  PROVE  GoodFunction(IngestCorpus(doc), N)
<1>1. {"doc-indexed", "chunk-embedded"} \cap N = {}
  BY DEF Collected
<1>2. GoodStep(ListCorpus, N)
  BY SparingAll, SparingSteps DEF ListCorpus
<1>3. /\ Spares(Get(doc), N) /\ \A a, b : Spares(EmitOnce("chunk-embedded", a, b), N)
      /\ Spares(EmitOnce("doc-indexed", doc, doc), N)
  BY <1>1, Sparing
<1>4. GoodStep(EmbedAndEmit(doc), N)
  BY <1>3, SparingAll, SparingSteps DEF EmbedAndEmit
<1>5. GoodSteps(<<ListCorpus, EmbedAndEmit(doc)>>, N)
  BY <1>2, <1>4, StepLists
<1> QED BY <1>5, GoodFunctions DEF IngestCorpus

LEMMA TodoFunctions ==
  ASSUME NEW N, N \subseteq Reserved \cup Collected
  PROVE  /\ "todo.added" \notin N => \A t, u : GoodFunction(User(<<AddTodo(t), AddTodo(u)>>), N)
         /\ \A t, a, b : GoodFunction(UserOf(t, <<ToggleTodo(t, a), ToggleTodo(t, b)>>), N)
         /\ \A t, a : GoodFunction(UserOf(t, <<ToggleTodo(t, a), DeleteTodo(t)>>), N)
         /\ \A t, n : GoodFunction(ProcessTodo(t, n), N)
<1>1. {"todo.toggled:true", "todo.toggled:false", "todo.deleted"} \cap N = {}
  BY DEF Reserved, Collected
<1>2. \A a : Toggled(a) \notin N
  BY <1>1 DEF Toggled
<1>3. ASSUME NEW t PROVE ("todo.added" \notin N => GoodStep(AddTodo(t), N)) /\ GoodStep(DeleteTodo(t), N)
  BY <1>1, Sparing, SparingAll, SparingSteps DEF AddTodo, DeleteTodo
<1>4. ASSUME NEW t, NEW a PROVE GoodStep(ToggleTodo(t, a), N)
  BY <1>2, Sparing, SparingAll, SparingSteps DEF ToggleTodo
<1>5. \A n : GoodStep(Step(n, <<>>), N)
  BY SparingAll, SparingSteps
<1>6. ASSUME "todo.added" \notin N, NEW t, NEW u PROVE GoodFunction(User(<<AddTodo(t), AddTodo(u)>>), N)
  <2>1. GoodSteps(<<AddTodo(t), AddTodo(u)>>, N)
    BY <1>3, <1>6, StepLists
  <2> QED BY <2>1, GoodFunctions DEF User
<1>7. ASSUME NEW t, NEW a, NEW b PROVE GoodFunction(UserOf(t, <<ToggleTodo(t, a), ToggleTodo(t, b)>>), N)
  <2>1. GoodSteps(<<ToggleTodo(t, a), ToggleTodo(t, b)>>, N)
    BY <1>4, StepLists
  <2> QED BY <2>1, GoodFunctions DEF UserOf
<1>8. ASSUME NEW t, NEW a PROVE GoodFunction(UserOf(t, <<ToggleTodo(t, a), DeleteTodo(t)>>), N)
  <2>1. GoodSteps(<<ToggleTodo(t, a), DeleteTodo(t)>>, N)
    BY <1>3, <1>4, StepLists
  <2> QED BY <2>1, GoodFunctions DEF UserOf
<1>9. ASSUME NEW t, NEW n PROVE GoodFunction(ProcessTodo(t, n), N)
  <2>1. PICK s : s = CASE n = "todo.added" -> CreateTodoStep [] n = "todo.deleted" -> DeleteTodoStep [] OTHER -> ToggleTodoStep
    OBVIOUS
  <2>2. s \in {CreateTodoStep, DeleteTodoStep, ToggleTodoStep}
    BY <2>1
  <2>3. GoodStep(CreateTodoStep, N) /\ GoodStep(DeleteTodoStep, N) /\ GoodStep(ToggleTodoStep, N)
    BY <1>5 DEF CreateTodoStep, DeleteTodoStep, ToggleTodoStep
  <2>4. GoodSteps(<<s>>, N)
    BY <2>2, <2>3, StepLists
  <2> QED BY <2>1, <2>4, GoodFunctions DEF ProcessTodo
<1> QED BY <1>6, <1>7, <1>8, <1>9

LEMMA QuickFunctions ==
  ASSUME NEW N, N \subseteq Reserved \cup Collected, NEW o
  PROVE  /\ \A p : GoodFunction(PlaceOrders(o, p), N) /\ GoodFunction(PostTwice(o, p), N)
         /\ \A v : GoodFunction(GoProcessOrder(o, v), N)
         /\ GoodFunction(QuickOrder(o), N) /\ GoodFunction(process_order(o), N) /\ GoodFunction(HourlyOrderReport, N)
<1>1. {"order.placed", "order.report.tick", "notifications.email"} \cap N = {}
  BY DEF Reserved, Collected
<1>2. \A n : GoodStep(Step(n, <<>>), N) /\ \A a : GoodStep(Step(n, <<Refuse(a)>>), N)
  BY Sparing, SparingAll, SparingSteps
<1>3. \A n, p : /\ GoodStep(Step(n, <<Emit("order.placed", p)>>), N) /\ GoodStep(Step(n, <<Emit("order.report.tick", p)>>), N)
                /\ GoodStep(Step(n, <<Publish("notifications.email", p)>>), N)
  BY <1>1, Sparing, SparingAll, SparingSteps
<1>4. \A p, w : GoodStep(place_order(p, w), N)
  BY <1>1, Sparing, SparingAll, SparingSteps DEF place_order
<1>5. ASSUME NEW p PROVE GoodFunction(PlaceOrders(o, p), N) /\ GoodFunction(PostTwice(o, p), N)
  <2>1. GoodSteps(<<Step("first", <<Emit("order.placed", o)>>), Step("second", <<Emit("order.placed", p)>>),
                    Step("tick", <<Emit("order.report.tick", "cron")>>)>>, N)
    BY <1>3, StepLists
  <2>2. GoodSteps(<<place_order(o, TRUE), place_order(p, TRUE), place_order(p, FALSE)>>, N)
    BY <1>4, StepLists
  <2>3. GoodFunction(PlaceOrders(o, p), N)
    BY <2>1, GoodFunctions DEF PlaceOrders
  <2>4. GoodFunction(PostTwice(o, p), N)
    BY <2>2, GoodFunctions DEF PostTwice
  <2> QED BY <2>3, <2>4
<1>6. ASSUME NEW v PROVE GoodFunction(GoProcessOrder(o, v), N)
  <2>1. GoodSteps(<<ParseOrder(v), ChargeOrder, ConfirmOrder>>, N)
    BY <1>2, StepLists DEF ParseOrder, ChargeOrder, ConfirmOrder
  <2> QED BY <2>1, GoodFunctions DEF GoProcessOrder
<1>7. GoodFunction(QuickOrder(o), N)
  <2>1. GoodSteps(<<ValidateQuickOrder, ProcessPayment, SendConfirmation, PublishEmail>>, N)
    BY <1>2, <1>3, StepLists DEF ValidateQuickOrder, ProcessPayment, SendConfirmation, PublishEmail
  <2> QED BY <2>1, GoodFunctions DEF QuickOrder
<1>8. GoodFunction(process_order(o), N)
  <2>1. GoodSteps(<<Step("price", <<>>), Step("receipt", <<>>)>>, N)
    BY <1>2, StepLists
  <2> QED BY <2>1, GoodFunctions DEF process_order
<1>9. GoodFunction(HourlyOrderReport, N)
  <2>1. GoodSteps(<<Step("snapshot-stats", <<>>)>>, N)
    BY <1>2, StepLists
  <2> QED BY <2>1, GoodFunctions DEF HourlyOrderReport
<1> QED BY <1>5, <1>6, <1>7, <1>8, <1>9

LEMMA AuditFunctions ==
  ASSUME NEW N, N \subseteq Reserved \cup Collected
  PROVE  GoodFunction(Setup, N) /\ GoodFunction(ProcessOrderCreated, N) /\ GoodFunction(ProcessOrderShipped, N)
<1>1. \A n : GoodStep(Step(n, <<>>), N)
  BY SparingAll, SparingSteps
<1>2. GoodFunction(ProcessOrderCreated, N)
  <2>1. GoodSteps(<<ValidateCreated, ReserveInventory>>, N)
    BY <1>1, StepLists DEF ValidateCreated, ReserveInventory
  <2> QED BY <2>1, GoodFunctions DEF ProcessOrderCreated
<1>3. GoodFunction(ProcessOrderShipped, N)
  <2>1. GoodSteps(<<NotifyCustomer, UpdateTracking>>, N)
    BY <1>1, StepLists DEF NotifyCustomer, UpdateTracking
  <2> QED BY <2>1, GoodFunctions DEF ProcessOrderShipped
<1>4. GoodFunction(Setup, N)
  <2> DEFINE steps == [i \in DOMAIN orderLifecycle |-> SeedEvent(i)]
  <2>1. DOMAIN orderLifecycle = 1 .. 5 /\ \A i \in 1 .. 5 : orderLifecycle[i] \notin N
    <3>1. {"OrderCreated", "OrderConfirmed", "OrderPacked", "OrderShipped", "OrderDelivered"} \cap N = {}
      BY DEF Reserved, Collected
    <3>2. DOMAIN orderLifecycle = 1 .. 5
      BY DEF orderLifecycle
    <3>3. \A i \in 1 .. 5 : orderLifecycle[i] \in {"OrderCreated", "OrderConfirmed", "OrderPacked", "OrderShipped", "OrderDelivered"}
      BY DEF orderLifecycle
    <3> QED BY <3>1, <3>2, <3>3
  <2>2. \A i \in 1 .. 5 : GoodStep(SeedEvent(i), N)
    BY <2>1, Sparing, SparingAll, SparingSteps DEF SeedEvent
  <2>3. steps \in Seq({SeedEvent(i) : i \in 1 .. 5})
    BY <2>1
  <2>4. steps # <<>>
    BY <2>1
  <2>5. GoodSteps(steps, N)
    BY <2>1, <2>2, <2>3, <2>4 DEF GoodSteps
  <2> QED BY <2>5, GoodFunctions DEF Setup
<1> QED BY <1>2, <1>3, <1>4

LEMMA AgentFunctions ==
  ASSUME NEW N, N \subseteq Reserved \cup Collected
  PROVE  /\ "agent.research.completed" \notin N => \A depth \in {"quick", "deep"} : GoodFunction(researchAgent(depth), N)
         /\ \A d : GoodFunction(docProcessor(d), N) /\ GoodFunction(trigger(d), N) /\ GoodFunction(verify(d), N)
<1>1. {"doc.processed", "doc.received"} \cap N = {}
  BY DEF Reserved, Collected
<1>2. \A n : GoodStep(Step(n, <<>>), N)
  BY SparingAll, SparingSteps
<1>3. /\ \A of, n : n \notin N => GoodStep(AppendToMemory(of, n), N)
      /\ \A of : GoodStep(AppendToMemory(of, "doc.processed"), N)
  BY <1>1, Sparing, SparingAll, SparingSteps DEF AppendToMemory
<1>4. ASSUME "agent.research.completed" \notin N, NEW depth \in {"quick", "deep"} PROVE GoodFunction(researchAgent(depth), N)
  <2>1. PICK n \in Nat : planQueries(depth) = 1 .. n /\ n >= 1
    <3>1. planQueries("quick") = 1 .. 2 /\ planQueries("deep") = 1 .. 5
      BY DEF planQueries
    <3>2. 2 \in Nat /\ 5 \in Nat /\ 2 >= 1 /\ 5 >= 1
      OBVIOUS
    <3> QED BY <3>1, <3>2
  <2> DEFINE searches == [q \in 1 .. n |-> webSearch(q)]
  <2>2. searches \in Seq({webSearch(q) : q \in 1 .. n}) /\ DOMAIN searches = 1 .. n
    BY <2>1
  <2>3. \A q \in 1 .. n : GoodStep(searches[q], N)
    BY <1>2 DEF webSearch
  <2>4. searches # <<>>
    BY <2>1, <2>2
  <2>5. GoodSteps(searches, N)
    BY <2>2, <2>3, <2>4 DEF GoodSteps
  <2>6. GoodSteps(<<summarizeWith, AppendToMemory("agent-memory", "agent.research.completed")>>, N)
    BY <1>2, <1>3, <1>4, StepLists DEF summarizeWith
  <2>7. [q \in planQueries(depth) |-> webSearch(q)] = searches
    BY <2>1
  <2> HIDE DEF searches
  <2>8. GoodSteps(searches \o <<summarizeWith, AppendToMemory("agent-memory", "agent.research.completed")>>, N)
    BY <2>5, <2>6, JoinedLists
  <2> QED BY <2>7, <2>8, GoodFunctions DEF researchAgent
<1>5. ASSUME NEW d PROVE GoodFunction(docProcessor(d), N) /\ GoodFunction(trigger(d), N) /\ GoodFunction(verify(d), N)
  <2>1. GoodSteps(<<ocr, classify, publish, AppendToMemory(d, "doc.processed")>>, N)
    BY <1>2, <1>3, StepLists DEF ocr, classify, publish
  <2>2. GoodSteps(<<Step("emit", <<Emit("doc.received", d)>>)>>, N)
    BY <1>1, Sparing, SparingAll, SparingSteps, StepLists
  <2>3. GoodSteps(<<Step("poll", <<View(d, <<"doc.processed">>), Refuse({0})>>)>>, N)
    BY Sparing, SparingAll, SparingSteps, StepLists
  <2>4. GoodFunction(docProcessor(d), N)
    BY <2>1, GoodFunctions DEF docProcessor
  <2>5. GoodFunction(trigger(d), N)
    BY <2>2, GoodFunctions DEF trigger
  <2>6. GoodFunction(verify(d), N)
    BY <2>3, GoodFunctions DEF verify
  <2> QED BY <2>4, <2>5, <2>6
<1> QED BY <1>4, <1>5

LEMMA PeopleFunctions ==
  ASSUME NEW N, N \subseteq Reserved \cup Collected, NEW r, NEW c
  PROVE  /\ \A earlier : GoodFunction(ReconcileStatement(c, earlier), N)
         /\ \A a : GoodFunction(ReconciliationCase(r, c, a), N)
         /\ GoodFunction(SweepDeadlines(r, c), N)
         /\ \A d \in Outcomes : GoodFunction(ApproveContact(r, d), N) /\ GoodFunction(ApproveReview(r, d), N)
         /\ \A s \in {"confirmed", "unclear"} : GoodFunction(ReplyToCase(c, s), N)
         /\ GoodFunction(CodeReviewAgent(r, c), N) /\ GoodFunction(OpenPr(c), N)
         /\ \A t : GoodFunction(ApprovalsAgent(r, t), N)
<1>1. {"case.requested", "case.opened", "case.escalated", "case.action.proposed", "contact", "case.contact.sent",
       "case.unresolved", "case.resolved", "rejected", "approved", "timeout", "confirmed", "unclear", "comment",
       "pr.opened"} \cap N = {}
  BY DEF Reserved, Collected
<1>2. /\ \A n : GoodStep(Step(n, <<>>), N)
      /\ \A n, e : Spares(e, N) => GoodStep(Step(n, <<e>>), N)
      /\ \A n, e, s, a : Spares(e, N) => GoodStep(OnlyIf(Step(n, <<e>>), s, a), N)
  BY SparingAll, SparingSteps
<1>3. ASSUME NEW earlier PROVE GoodFunction(ReconcileStatement(c, earlier), N)
  <2>1. GoodStep(LoadRules(earlier), N) /\ GoodStep(Reconcile, N)
    BY <1>2, Sparing DEF LoadRules, Reconcile
  <2>2. GoodStep(RequestCase(c), N)
    BY <1>1, <1>2, Sparing DEF RequestCase
  <2>3. GoodSteps(<<LoadRules(earlier), Reconcile, RequestCase(c)>>, N)
    BY <2>1, <2>2, StepLists
  <2> QED BY <2>3, GoodFunctions DEF ReconcileStatement
<1>4. \A s, n : n \notin N => GoodStep(Remember(s, c, n), N) /\ \A t, a : GoodStep(OnlyIf(Remember(s, c, n), t, a), N)
  BY <1>2, Sparing DEF Remember
<1>5. \A a : GoodStep(Approve(a), N)
  BY <1>2, Sparing DEF Approve
<1>6. ASSUME NEW a PROVE GoodFunction(ReconciliationCase(r, c, a), N)
  <2>1. /\ GoodStep(Remember("opened", c, "case.opened"), N) /\ GoodStep(Remember("escalated", c, "case.escalated"), N)
        /\ GoodStep(Remember("proposed", c, "case.action.proposed"), N)
    BY <1>1, <1>4
  <2>2. GoodStep(Triage(a), N)
    BY <1>2, Sparing DEF Triage
  <2>3. GoodStep(Declined(c), N) /\ GoodStep(ContactSent(c), N)
    BY <1>1, <1>4 DEF Declined, ContactSent
  <2>4. GoodStep(NoReply(c), N) /\ GoodStep(Unconfirmed(c), N) /\ GoodStep(Resolved(c), N)
    BY <1>1, <1>4 DEF NoReply, Unconfirmed, Resolved
  <2>5. GoodStep(SendContact(r, c), N) /\ GoodStep(Reply(c), N)
    BY <1>1, <1>2, Sparing DEF SendContact, Reply
  <2> DEFINE list == <<Remember("opened", c, "case.opened"), Remember("escalated", c, "case.escalated"), Triage(a),
                       Remember("proposed", c, "case.action.proposed"), Approve(r), Declined(c), SendContact(r, c),
                       ContactSent(c), Reply(c), NoReply(c), Unconfirmed(c), Resolved(c)>>
  <2>6. \A i \in DOMAIN list : GoodStep(list[i], N)
    BY <1>5, <2>1, <2>2, <2>3, <2>4, <2>5
  <2>7. list \in Seq({list[i] : i \in 1 .. 12}) /\ list # <<>>
    OBVIOUS
  <2>8. GoodSteps(list, N)
    <3> HIDE DEF list
    <3> QED BY <2>6, <2>7 DEF GoodSteps
  <2>9. ReconciliationCase(r, c, a) = Function("reconciliation-case", OnFact(c, "case.requested"), list)
    BY DEF ReconciliationCase
  <2> HIDE DEF list
  <2> QED BY <2>8, <2>9, GoodFunctions
<1>7. GoodFunction(SweepDeadlines(r, c), N)
  <2>1. GoodSteps(<<Sweep(c)>>, N)
    BY <1>2, Sparing, StepLists DEF Sweep
  <2>2. GoodSteps(deadlineEventFor(r, c), N)
    BY <1>1, <1>2, Sparing, StepLists DEF deadlineEventFor
  <2>3. GoodSteps(<<Sweep(c)>> \o deadlineEventFor(r, c), N)
    BY <2>1, <2>2, JoinedLists
  <2> QED BY <2>3, GoodFunctions DEF SweepDeadlines
<1>8. \A n, of : n \notin N => GoodSteps(<<Step("emit", <<Emit(n, of)>>)>>, N)
  BY <1>2, Sparing, StepLists
<1>9. ASSUME NEW d \in Outcomes PROVE GoodFunction(ApproveContact(r, d), N) /\ GoodFunction(ApproveReview(r, d), N)
  <2>1. d \notin N
    BY <1>1 DEF Outcomes
  <2>2. GoodSteps(<<Step("emit", <<Emit(d, Gate(r))>>)>>, N)
    BY <1>8, <2>1
  <2> QED BY <2>2, GoodFunctions DEF ApproveContact, ApproveReview
<1>10. ASSUME NEW s \in {"confirmed", "unclear"} PROVE GoodFunction(ReplyToCase(c, s), N)
  <2>1. GoodSteps(<<Step("emit", <<Emit(s, c)>>)>>, N)
    BY <1>1, <1>8
  <2> QED BY <2>1, GoodFunctions DEF ReplyToCase
<1>11. GoodFunction(CodeReviewAgent(r, c), N)
  <2>1. GoodStep(PostComment(c), N)
    BY <1>1, <1>2, Sparing DEF PostComment
  <2>2. GoodSteps(<<FetchDiff, ReviewWith, Approve(r), PostComment(c)>>, N)
    BY <1>2, <1>5, <2>1, StepLists DEF FetchDiff, ReviewWith
  <2> QED BY <2>2, GoodFunctions DEF CodeReviewAgent
<1>12. GoodFunction(OpenPr(c), N)
  <2>1. GoodSteps(<<Step("emit", <<Emit("pr.opened", c)>>)>>, N)
    BY <1>1, <1>8
  <2> QED BY <2>1, GoodFunctions DEF OpenPr
<1>13. ASSUME NEW t PROVE GoodFunction(ApprovalsAgent(r, t), N)
  <2>1. GoodStep(PrepareDraft(t), N)
    BY <1>2, Sparing DEF PrepareDraft
  <2>2. GoodSteps(<<PrepareDraft(t), Approve(r)>>, N)
    BY <1>5, <2>1, StepLists
  <2> QED BY <2>2, GoodFunctions DEF ApprovalsAgent
<1> QED BY <1>3, <1>6, <1>7, <1>9, <1>10, <1>11, <1>12, <1>13

LEMMA UndeployedFunction == \A N : GoodFunction(NotDeployed, N) /\ NotDeployed.id = "none" /\ NotDeployed.trigger = <<"never">>
<1>1. NotDeployed.steps = <<>> /\ NotDeployed.trigger = <<"never">> /\ NotDeployed.id = "none"
  BY DEF NotDeployed, Function
<1>2. <<>> \in Seq({}) /\ DOMAIN <<>> = {}
  OBVIOUS
<1> QED BY <1>1, <1>2 DEF GoodFunction

-----------------------------------------------------------------------------
(* The programs by what their functions keep: five of them are studied      *)
(* below, and no other tells of what those alone tell.                      *)
OrderJob(f) == f = NotDeployed \/ \E o \in {"o1", "o2"} : f = FulfillOrder(o) \/ \E v : f = PlaceOrder(o, v)
AuditJob(f) == f \in {NotDeployed, Setup, ProcessOrderCreated, ProcessOrderShipped}
EvaluationJob(f) == f = NotDeployed \/ \E t \in {"t1", "t2"} : f = EvaluateFraud(Purchase(t))
UploadJob(f) == f \in {NotDeployed, Upload("object"), ProcessUpload("object", "report", 1), ProcessUpload("object", "report", 2)}
IngestJob(f) == f \in {NotDeployed, IngestCorpus("doc"), Edit("doc")}
Kept4 == {"place-order", "fulfill-order", "fraud/evaluate", "setup", "process-upload", "ingest-corpus"}
OtherJob(f) == GoodFunction(f, Reserved) /\ f.id \notin Kept4

LEMMA OtherById ==
  /\ \A id, t, s : id \notin Kept4 /\ GoodFunction(Function(id, t, s), Reserved) => OtherJob(Function(id, t, s))
  /\ \A id, t, s, e : id \notin Kept4 /\ GoodFunction(Script(id, t, s, e), Reserved) => OtherJob(Script(id, t, s, e))
<1>1. ASSUME NEW id, NEW t, NEW s, NEW e
      PROVE  Function(id, t, s).id = id /\ Script(id, t, s, e).id = id
  BY DEF Function, Script
<1> QED BY <1>1 DEF OtherJob

LEMMA OtherShops ==
  /\ OtherJob(NotDeployed) /\ OtherJob(HourlyOrderReport)
  /\ \A t, u : OtherJob(User(<<AddTodo(t), AddTodo(u)>>))
  /\ \A t, a, b : OtherJob(UserOf(t, <<ToggleTodo(t, a), ToggleTodo(t, b)>>))
  /\ \A t, a : OtherJob(UserOf(t, <<ToggleTodo(t, a), DeleteTodo(t)>>))
  /\ \A t, n : OtherJob(ProcessTodo(t, n))
  /\ \A o, p : OtherJob(PlaceOrders(o, p)) /\ OtherJob(PostTwice(o, p)) /\ OtherJob(GoProcessOrder(o, p))
               /\ OtherJob(QuickOrder(o)) /\ OtherJob(process_order(o))
<1>1. Reserved \subseteq Reserved /\ Reserved \subseteq Reserved \cup Collected
      /\ "agent.research.completed" \notin Reserved /\ "todo.added" \notin Reserved
  BY DEF Reserved
<1>2. OtherJob(NotDeployed)
  BY UndeployedFunction DEF OtherJob, Kept4
<1>3. OtherJob(HourlyOrderReport)
  BY <1>1, QuickFunctions, OtherById DEF HourlyOrderReport, Kept4
<1>4. \A t, u : OtherJob(User(<<AddTodo(t), AddTodo(u)>>))
  BY <1>1, TodoFunctions, OtherById DEF User, Kept4
<1>5. \A t, a, b : OtherJob(UserOf(t, <<ToggleTodo(t, a), ToggleTodo(t, b)>>))
  BY <1>1, TodoFunctions, OtherById DEF UserOf, Kept4
<1>6. \A t, a : OtherJob(UserOf(t, <<ToggleTodo(t, a), DeleteTodo(t)>>))
  BY <1>1, TodoFunctions, OtherById DEF UserOf, Kept4
<1>7. \A t, n : OtherJob(ProcessTodo(t, n))
  BY <1>1, TodoFunctions, OtherById DEF ProcessTodo, Kept4
<1>8. \A o, p : OtherJob(PlaceOrders(o, p)) /\ OtherJob(PostTwice(o, p))
  BY <1>1, QuickFunctions, OtherById DEF PlaceOrders, PostTwice, Kept4
<1>9. \A o, p : OtherJob(GoProcessOrder(o, p)) /\ OtherJob(QuickOrder(o)) /\ OtherJob(process_order(o))
  BY <1>1, QuickFunctions, OtherById DEF GoProcessOrder, QuickOrder, process_order, Kept4
<1> QED BY <1>2, <1>3, <1>4, <1>5, <1>6, <1>7, <1>8, <1>9

LEMMA OtherAgents ==
  /\ \A depth \in {"quick", "deep"} : OtherJob(researchAgent(depth))
  /\ \A d : OtherJob(docProcessor(d)) /\ OtherJob(trigger(d)) /\ OtherJob(verify(d)) /\ OtherJob(OpenPr(d))
  /\ \A c, d : OtherJob(ReconcileStatement(c, d)) /\ OtherJob(SweepDeadlines(c, d)) /\ OtherJob(CodeReviewAgent(c, d))
               /\ OtherJob(ApprovalsAgent(c, d)) /\ \A a : OtherJob(ReconciliationCase(c, d, a))
  /\ \A r : \A d \in Outcomes : OtherJob(ApproveContact(r, d)) /\ OtherJob(ApproveReview(r, d))
  /\ \A c : \A s \in {"confirmed", "unclear"} : OtherJob(ReplyToCase(c, s))
<1>1. Reserved \subseteq Reserved /\ Reserved \subseteq Reserved \cup Collected /\ "agent.research.completed" \notin Reserved
  BY DEF Reserved
<1>2. \A depth \in {"quick", "deep"} : OtherJob(researchAgent(depth))
  BY <1>1, AgentFunctions, OtherById DEF researchAgent, Kept4
<1>3. \A d : OtherJob(docProcessor(d)) /\ OtherJob(trigger(d)) /\ OtherJob(verify(d))
  BY <1>1, AgentFunctions, OtherById DEF docProcessor, trigger, verify, Kept4
<1>4. \A d : OtherJob(OpenPr(d))
  BY <1>1, PeopleFunctions, OtherById DEF OpenPr, Kept4
<1>5. \A c, d : OtherJob(ReconcileStatement(c, d)) /\ OtherJob(SweepDeadlines(c, d))
  BY <1>1, PeopleFunctions, OtherById DEF ReconcileStatement, SweepDeadlines, Kept4
<1>6. \A c, d : OtherJob(CodeReviewAgent(c, d)) /\ OtherJob(ApprovalsAgent(c, d))
  BY <1>1, PeopleFunctions, OtherById DEF CodeReviewAgent, ApprovalsAgent, Kept4
<1>7. \A c, d, a : OtherJob(ReconciliationCase(c, d, a))
  BY <1>1, PeopleFunctions, OtherById DEF ReconciliationCase, Kept4
<1>8. \A r : \A d \in Outcomes : OtherJob(ApproveContact(r, d)) /\ OtherJob(ApproveReview(r, d))
  BY <1>1, PeopleFunctions, OtherById DEF ApproveContact, ApproveReview, Kept4
<1>9. \A c : \A s \in {"confirmed", "unclear"} : OtherJob(ReplyToCase(c, s))
  BY <1>1, PeopleFunctions, OtherById DEF ReplyToCase, Kept4
<1> QED BY <1>2, <1>3, <1>4, <1>5, <1>6, <1>7, <1>8, <1>9

LEMMA OthersFit ==
  ASSUME NEW m, NEW i \in Runs
  PROVE  /\ OtherJob(Program(m, <<>>).runs[i])
         /\ \A a : OtherJob(a) => OtherJob(Program(m, <<a>>).runs[i])
         /\ \A a, b : OtherJob(a) /\ OtherJob(b) => OtherJob(Program(m, <<a, b>>).runs[i])
         /\ \A a, b, c : OtherJob(a) /\ OtherJob(b) /\ OtherJob(c) => OtherJob(Program(m, <<a, b, c>>).runs[i])
         /\ \A a, b, c, d : OtherJob(a) /\ OtherJob(b) /\ OtherJob(c) /\ OtherJob(d) =>
              OtherJob(Program(m, <<a, b, c, d>>).runs[i])
         /\ \A a, b, c, d, e : OtherJob(a) /\ OtherJob(b) /\ OtherJob(c) /\ OtherJob(d) /\ OtherJob(e) =>
              OtherJob(Program(m, <<a, b, c, d, e>>).runs[i])
<1>1. ASSUME NEW S, \A j \in DOMAIN S : OtherJob(S[j])
      PROVE  OtherJob(Program(m, S).runs[i])
  BY <1>1, OtherShops DEF Program
<1>2. \A j \in DOMAIN <<>> : OtherJob(<<>>[j])
  OBVIOUS
<1>3. \A a : OtherJob(a) => \A j \in DOMAIN <<a>> : OtherJob(<<a>>[j])
  OBVIOUS
<1>4. \A a, b : OtherJob(a) /\ OtherJob(b) => \A j \in DOMAIN <<a, b>> : OtherJob(<<a, b>>[j])
  OBVIOUS
<1>5. \A a, b, c : OtherJob(a) /\ OtherJob(b) /\ OtherJob(c) => \A j \in DOMAIN <<a, b, c>> : OtherJob(<<a, b, c>>[j])
  OBVIOUS
<1>6. \A a, b, c, d : OtherJob(a) /\ OtherJob(b) /\ OtherJob(c) /\ OtherJob(d) =>
        \A j \in DOMAIN <<a, b, c, d>> : OtherJob(<<a, b, c, d>>[j])
  OBVIOUS
<1>7. \A a, b, c, d, e : OtherJob(a) /\ OtherJob(b) /\ OtherJob(c) /\ OtherJob(d) /\ OtherJob(e) =>
        \A j \in DOMAIN <<a, b, c, d, e>> : OtherJob(<<a, b, c, d, e>>[j])
  OBVIOUS
<1> QED BY <1>1, <1>2, <1>3, <1>4, <1>5, <1>6, <1>7

OrderProgram(jobs) ==
  /\ \A i \in Runs : OrderJob(jobs[i])
  /\ \A i, j \in Runs : \A o : jobs[i] = FulfillOrder(o) /\ jobs[j] = FulfillOrder(o) => i = j

LEMMA SagasDiffer ==
  /\ \A o, p, v : FulfillOrder(o) # PlaceOrder(p, v) /\ FulfillOrder(o) # NotDeployed
  /\ \A o, p : FulfillOrder(o) = FulfillOrder(p) => o = p
  /\ \A v : OrderJob(PlaceOrder("o1", v)) /\ OrderJob(PlaceOrder("o2", v))
  /\ OrderJob(FulfillOrder("o1")) /\ OrderJob(FulfillOrder("o2")) /\ OrderJob(NotDeployed)
<1>1. \A o, p, v : FulfillOrder(o).id = "fulfill-order" /\ PlaceOrder(p, v).id = "place-order" /\ NotDeployed.id = "none"
  BY DEF FulfillOrder, PlaceOrder, Function, NotDeployed
<1>2. \A o : FulfillOrder(o).trigger = <<"fact", o, "order.placed">>
  BY DEF FulfillOrder, Function, OnFact
<1>3. /\ \A v : OrderJob(PlaceOrder("o1", v)) /\ OrderJob(PlaceOrder("o2", v))
      /\ OrderJob(FulfillOrder("o1")) /\ OrderJob(FulfillOrder("o2")) /\ OrderJob(NotDeployed)
  BY DEF OrderJob
<1> QED BY <1>1, <1>2, <1>3

LEMMA OrderPrograms ==
  OrderProgram(DuplicateOrder(TRUE).runs) /\ OrderProgram(DuplicateOrder(FALSE).runs) /\ OrderProgram(TwoOrders.runs)
<1>1. ASSUME NEW v PROVE OrderProgram(DuplicateOrder(v).runs)
  <2>1. PICK jobs : jobs = DuplicateOrder(v).runs
    OBVIOUS
  <2>2. ASSUME NEW i \in Runs
        PROVE  \/ i = 3 /\ jobs[i] = FulfillOrder("o1")
               \/ jobs[i] \in {PlaceOrder("o1", TRUE), PlaceOrder("o1", v), NotDeployed}
    <3>1. PICK list : list = <<PlaceOrder("o1", TRUE), PlaceOrder("o1", v), FulfillOrder("o1")>>
      OBVIOUS
    <3>2. jobs[i] = IF i \in DOMAIN list THEN list[i] ELSE NotDeployed
      BY <2>1, <3>1 DEF DuplicateOrder, Program
    <3>3. /\ DOMAIN list = {1, 2, 3} /\ list[1] = PlaceOrder("o1", TRUE) /\ list[2] = PlaceOrder("o1", v)
          /\ list[3] = FulfillOrder("o1")
      BY <3>1
    <3> QED BY <3>2, <3>3
  <2>3. \A i \in Runs : OrderJob(jobs[i])
    BY <2>2, SagasDiffer
  <2>4. \A i \in Runs : \A o : jobs[i] = FulfillOrder(o) => i = 3
    BY <2>2, SagasDiffer
  <2> QED BY <2>1, <2>3, <2>4 DEF OrderProgram
<1>2. OrderProgram(TwoOrders.runs)
  <2>1. PICK jobs : jobs = TwoOrders.runs
    OBVIOUS
  <2>2. ASSUME NEW i \in Runs
        PROVE  \/ i = 2 /\ jobs[i] = FulfillOrder("o1")
               \/ i = 4 /\ jobs[i] = FulfillOrder("o2")
               \/ jobs[i] \in {PlaceOrder("o1", TRUE), PlaceOrder("o2", TRUE), NotDeployed}
    <3>1. PICK list : list = <<PlaceOrder("o1", TRUE), FulfillOrder("o1"), PlaceOrder("o2", TRUE), FulfillOrder("o2")>>
      OBVIOUS
    <3>2. jobs[i] = IF i \in DOMAIN list THEN list[i] ELSE NotDeployed
      BY <2>1, <3>1 DEF TwoOrders, Program
    <3>3. /\ DOMAIN list = {1, 2, 3, 4} /\ list[1] = PlaceOrder("o1", TRUE) /\ list[2] = FulfillOrder("o1")
          /\ list[3] = PlaceOrder("o2", TRUE) /\ list[4] = FulfillOrder("o2")
      BY <3>1
    <3> QED BY <3>2, <3>3
  <2>3. \A i \in Runs : OrderJob(jobs[i])
    BY <2>2, SagasDiffer
  <2>4. \A i \in Runs : \A o : jobs[i] = FulfillOrder(o) => (i = 2 /\ o = "o1") \/ (i = 4 /\ o = "o2")
    BY <2>2, SagasDiffer
  <2> QED BY <2>1, <2>3, <2>4 DEF OrderProgram
<1> QED BY <1>1, <1>2

LEMMA OtherPrograms ==
  ASSUME NEW i \in Runs, NEW p \in {Todos, QuickOrdering, GoOrdering, FlaskOrdering, Research, Documents, Statements,
           SweptReply("confirmed"), SweptReply("unclear"), Untriaged, NextPeriod, Review, Draft(TRUE), Draft(FALSE), Alerting}
  PROVE  OtherJob(p.runs[i])
<1>1. OtherJob(Todos.runs[i])
  BY OthersFit, OtherShops DEF Todos
<1>2. OtherJob(QuickOrdering.runs[i]) /\ OtherJob(GoOrdering.runs[i]) /\ OtherJob(FlaskOrdering.runs[i])
  BY OthersFit, OtherShops DEF QuickOrdering, GoOrdering, FlaskOrdering
<1>3. OtherJob(Research.runs[i]) /\ OtherJob(Documents.runs[i])
  BY OthersFit, OtherShops, OtherAgents DEF Research, Documents
<1>4. "approved" \in Outcomes /\ "rejected" \in Outcomes
  BY DEF Outcomes
<1>5. OtherJob(Statements.runs[i]) /\ OtherJob(Untriaged.runs[i]) /\ OtherJob(NextPeriod.runs[i])
  BY <1>4, OthersFit, OtherShops, OtherAgents DEF Statements, Untriaged, NextPeriod, Statement
<1>6. \A s \in {"confirmed", "unclear"} : OtherJob(SweptReply(s).runs[i])
  BY <1>4, OthersFit, OtherShops, OtherAgents DEF SweptReply, Statement
<1>7. OtherJob(Review.runs[i])
  BY <1>4, OthersFit, OtherShops, OtherAgents DEF Review
<1>8. OtherJob(Draft(TRUE).runs[i]) /\ OtherJob(Draft(FALSE).runs[i])
  BY OthersFit, OtherShops, OtherAgents DEF Draft
<1>9. OtherJob(Alerting.runs[i])
  <2>1. Alerting.runs = Program(2, <<>>).runs
    BY DEF Alerting, Watched, Program
  <2> QED BY <2>1, OthersFit
<1> QED BY <1>1, <1>2, <1>3, <1>5, <1>6, <1>7, <1>8, <1>9

LEMMA NotOrdering ==
  ASSUME NEW p \in Programs, p \notin {DuplicateOrder(TRUE), DuplicateOrder(FALSE), TwoOrders}
  PROVE  \/ \A i \in Runs : EvaluationJob(p.runs[i])
         \/ \A i \in Runs : AuditJob(p.runs[i])
         \/ \A i \in Runs : UploadJob(p.runs[i])
         \/ \A i \in Runs : IngestJob(p.runs[i])
         \/ \A i \in Runs : OtherJob(p.runs[i])
<1>1. \A i \in Runs : EvaluationJob(RacingCards.runs[i]) /\ EvaluationJob(DuplicateTransaction.runs[i])
  BY DEF Program, RacingCards, DuplicateTransaction, EvaluationJob
<1>2. \A i \in Runs : AuditJob(Compliance.runs[i])
  BY DEF Program, Compliance, AuditJob
<1>3. \A i \in Runs : UploadJob(Uploads.runs[i])
  BY DEF Program, Uploads, UploadJob
<1>4. \A i \in Runs : IngestJob(Ingests.runs[i])
  BY DEF Program, Ingests, IngestJob
<1> QED BY <1>1, <1>2, <1>3, <1>4, OtherPrograms DEF Programs

LEMMA ProgramKinds ==
  ASSUME NEW p \in Programs
  PROVE  \/ OrderProgram(p.runs)
         \/ \A i \in Runs : EvaluationJob(p.runs[i])
         \/ \A i \in Runs : AuditJob(p.runs[i])
         \/ \A i \in Runs : UploadJob(p.runs[i])
         \/ \A i \in Runs : IngestJob(p.runs[i])
         \/ \A i \in Runs : OtherJob(p.runs[i])
<1>1. CASE p \in {DuplicateOrder(TRUE), DuplicateOrder(FALSE), TwoOrders}
  BY <1>1, OrderPrograms
<1>2. CASE p \notin {DuplicateOrder(TRUE), DuplicateOrder(FALSE), TwoOrders}
  BY <1>2, NotOrdering, Zenon
<1> QED BY <1>1, <1>2

(* Every function of every program is good, and only the evaluations tell   *)
(* of decisions and alerts, and only an ingest of chunks and documents.     *)
LEMMA JobsAreGood ==
  /\ \A f : OrderJob(f) \/ AuditJob(f) \/ UploadJob(f) \/ OtherJob(f) => GoodFunction(f, Reserved)
  /\ \A f : EvaluationJob(f) => GoodFunction(f, {"doc-indexed", "chunk-embedded"})
  /\ \A f : IngestJob(f) => GoodFunction(f, {"decision_made", "fraud-alerts"})
<1>1. Reserved \subseteq Reserved /\ Reserved \subseteq Reserved \cup Collected /\ "agent.research.completed" \notin Reserved
  BY DEF Reserved
<1>2. \A f : OrderJob(f) => GoodFunction(f, Reserved)
  BY <1>1, OrderFunctions, UndeployedFunction DEF OrderJob
<1>3. \A f : AuditJob(f) => GoodFunction(f, Reserved)
  BY <1>1, AuditFunctions, UndeployedFunction DEF AuditJob
<1>4. \A f : UploadJob(f) => GoodFunction(f, Reserved)
  BY UploadFunctions, UndeployedFunction DEF UploadJob
<1>5. \A f : EvaluationJob(f) => GoodFunction(f, {"doc-indexed", "chunk-embedded"})
  BY EvaluationFunctions, UndeployedFunction DEF EvaluationJob
<1>6. \A f : IngestJob(f) => GoodFunction(f, {"decision_made", "fraud-alerts"})
  BY IngestFunctions, UploadFunctions, UndeployedFunction DEF IngestJob
<1> QED BY <1>2, <1>3, <1>4, <1>5, <1>6 DEF OtherJob

LEMMA FewerSpared ==
  ASSUME NEW f, NEW N, NEW M, M \subseteq N, GoodFunction(f, N)
  PROVE  GoodFunction(f, M)
BY DEF GoodFunction, GoodStep, SparesAll, Spares

-----------------------------------------------------------------------------
(* Where facts come from, whatever functions run.  A fact is told by a call *)
(* of its run's function; a call that is always made, and repeats no key,   *)
(* has told its fact once the run's record says that it was made.           *)
Calls(r, i) == Steps(r)[i].does
KeyOf(k, e) == IF e.op = "append" /\ e.key # NoKey THEN Append(e.key, log[k].about) ELSE NoKey
IsFactOf(k, r, e) ==
  /\ log[k].by = r /\ log[k].on = e.on /\ log[k].name = e.name /\ log[k].key = KeyOf(k, e)
  /\ e.op = "append" /\ e.expect[1] = "at" => VersionOf(k) = e.expect[2] + 1
HasFact(r, e) == \E k \in DOMAIN log : IsFactOf(k, r, e)

PlainCall(r, i, j) ==
  /\ Steps(r)[i].needs = <<>> /\ NoWait(Calls(r, i))
  /\ Calls(r, i)[j].op \in Telling /\ (Calls(r, i)[j].op = "append" => Calls(r, i)[j].key = NoKey)
Reached(r, rec, i, j) ==
  \/ i <= Len(rec.memo) /\ (rec.memo[i] # 0 \/ job[r].errors # "skip")
  \/ rec.mode = "forward" /\ i = rec.pc /\ j < rec.at
Told(r) ==
  \A i \in DOMAIN Steps(r) : \A j \in DOMAIN Calls(r, i) :
    PlainCall(r, i, j) /\ Reached(r, run[r], i, j) => HasFact(r, Calls(r, i)[j])

(* What was to be told before.                                              *)
ToldBefore(k, r, i, j) ==
  \A i2 \in DOMAIN Steps(r) : \A j2 \in DOMAIN Calls(r, i2) :
    PlainCall(r, i2, j2) /\ (i2 < i \/ (i2 = i /\ j2 < j)) /\ job[r].errors # "skip" =>
      \E k2 \in DOMAIN log : k2 < k /\ IsFactOf(k2, r, Calls(r, i2)[j2])
DoneBy(k, r, i) ==
  \E j \in DOMAIN Calls(r, i) :
    Calls(r, i)[j].op \in Telling /\ IsFactOf(k, r, Calls(r, i)[j]) /\ ToldBefore(k, r, i, j)
UndoneBy(k, r, i) ==
  \E j \in DOMAIN Steps(r)[i].undo : Steps(r)[i].undo[j].op \in Telling /\ IsFactOf(k, r, Steps(r)[i].undo[j])
Caused(k, r) == job[r].trigger[1] = "fact" => \E k2 \in Facts(job[r].trigger[2], job[r].trigger[3]) : k2 < k
FromRun(k, r) == r \in Runs /\ Caused(k, r) /\ \E i \in DOMAIN Steps(r) : DoneBy(k, r, i) \/ UndoneBy(k, r, i)
IsDecision(k) == Drafts # {} /\ log[k].name \in Outcomes
Sourced == \A k \in DOMAIN log : IsDecision(k) \/ FromRun(k, log[k].by)

Begun(r) == run[r].mode # "waiting" /\ job[r].trigger[1] = "fact" => Facts(job[r].trigger[2], job[r].trigger[3]) # {}
Waits(r) == (run[r].mode = "parked" => ~NoWait(Current(r).does)) /\ (run[r].mode = "waiting" => run[r].at = 1)
KeysDiffer == \A i, j \in DOMAIN log : i # j /\ log[i].key # NoKey => log[i].key # log[j].key

EngineInv ==
  /\ LogIs /\ DOMAIN run = Runs
  /\ \A r \in Runs : GoodFunction(job[r], {}) /\ IsPlaced(r) /\ Waits(r) /\ Begun(r) /\ Told(r)
  /\ Sourced /\ KeysDiffer
  /\ Drafts = {} => click = <<>>

LEMMA SameFunctions ==
  ASSUME job' = job, NEW r
  PROVE  /\ Steps(r)' = Steps(r)
         /\ \A i : Calls(r, i)' = Calls(r, i)
         /\ \A i, j : PlainCall(r, i, j)' = PlainCall(r, i, j)
         /\ \A rec, i, j : Reached(r, rec, i, j)' = Reached(r, rec, i, j)
BY DEF Steps, Calls, PlainCall, Reached

LEMMA FactsStay ==
  ASSUME LogIs, NEW e, log' = log \/ log' = Append(log, e)
  PROVE  /\ LogIs'
         /\ \A k \in DOMAIN log : k \in DOMAIN log' /\ log'[k] = log[k] /\ VersionOf(k)' = VersionOf(k)
         /\ \A k \in DOMAIN log' : k \in DOMAIN log \/ (log' = Append(log, e) /\ k = Len(log) + 1 /\ log'[k] = e)
         /\ \A k \in DOMAIN log : k \in Nat /\ k < Len(log) + 1
<1>1. CASE log' = log
  <2>1. LogIs'
    BY <1>1 DEF LogIs
  <2>2. \A k \in DOMAIN log : VersionOf(k)' = VersionOf(k)
    BY <1>1 DEF VersionOf, Stream
  <2>3. \A k \in DOMAIN log : k \in Nat /\ k < Len(log) + 1
    BY LogShape
  <2> QED BY <1>1, <2>1, <2>2, <2>3
<1>2. CASE log' = Append(log, e)
  <2>1. \A k \in DOMAIN log : VersionOf(k)' = VersionOf(k)
    BY <1>2, OldVersionsStay
  <2>2. \A k \in DOMAIN log : k \in Nat
    BY LogShape
  <2> QED BY <1>2, <2>1, <2>2, LogAppends
<1> QED BY <1>1, <1>2

LEMMA FactIsFact ==
  ASSUME LogIs, NEW e, log' = log \/ log' = Append(log, e), NEW k \in DOMAIN log, NEW r, NEW f
  PROVE  IsFactOf(k, r, f)' = IsFactOf(k, r, f)
<1>1. log'[k] = log[k] /\ VersionOf(k)' = VersionOf(k)
  BY FactsStay
<1> QED BY <1>1 DEF IsFactOf, KeyOf

LEMMA FactsOfStreams ==
  ASSUME LogIs, NEW e, log' = log \/ log' = Append(log, e), NEW s, NEW n
  PROVE  Facts(s, n) \subseteq Facts(s, n)'
BY FactsStay DEF Facts, Stream

(* A call is one of its step's, or of its step's undo.                      *)
LEMMA CallAt ==
  ASSUME NEW r, GoodFunction(job[r], {}), IsPlaced(r), NEW op, Doing(r, op)
  PROVE  /\ run[r].pc \in DOMAIN Steps(r) /\ Effect(r).op = op
         /\ \/ /\ Forward(r) /\ Needed(r) /\ run[r].at \in DOMAIN Calls(r, run[r].pc)
               /\ Effect(r) = Calls(r, run[r].pc)[run[r].at]
               /\ Effects(r) = Calls(r, run[r].pc) /\ run[r].pc = Len(run[r].memo) + 1
            \/ /\ Undoes(r) /\ run[r].at \in DOMAIN Steps(r)[run[r].pc].undo
               /\ Effect(r) = Steps(r)[run[r].pc].undo[run[r].at]
<1>1. PICK S : run[r] \in RunState(S)
  BY DEF IsPlaced
<1>2. PICK pc, at, n, len : pc = run[r].pc /\ at = run[r].at /\ n = Len(run[r].memo) /\ len = Len(Steps(r))
  OBVIOUS
<1>3. pc \in Nat /\ at \in Nat \ {0} /\ n \in Nat
  BY <1>1, <1>2, LenProperties DEF RunState
<1>4. len \in Nat /\ DOMAIN Steps(r) = 1 .. len
  BY <1>2, LenProperties DEF GoodFunction, Steps
<1>5. run[r].mode \in {"forward", "undo"} /\ (Forward(r) => Needed(r)) /\ at <= Len(Effects(r)) /\ Effects(r)[at].op = op
  BY <1>2 DEF Doing, Working, Busy
<1>6. pc \in 1 .. len /\ (Forward(r) => pc = n + 1)
  <2>1. Placed(run[r].mode, pc, n, run[r].kept, len)
    BY <1>2 DEF IsPlaced
  <2> QED BY <1>3, <1>4, <1>5, <2>1 DEF Placed, Forward
<1>7. GoodStep(Steps(r)[pc], {})
  BY <1>4, <1>6 DEF GoodFunction, Steps
<1>8. (\E T : Calls(r, pc) \in Seq(T)) /\ \E T : Steps(r)[pc].undo \in Seq(T)
  BY <1>7 DEF GoodStep, SparesAll, Calls
<1>9. CASE run[r].mode = "forward"
  <2>1. Effects(r) = Calls(r, pc)
    BY <1>2, <1>9 DEF Effects, Current, Calls
  <2>2. PICK m \in Nat : m = Len(Calls(r, pc)) /\ DOMAIN Calls(r, pc) = 1 .. m
    BY <1>8, LenProperties
  <2>3. at \in 1 .. m
    BY <1>3, <1>5, <2>1, <2>2
  <2> QED BY <1>2, <1>4, <1>5, <1>6, <1>9, <2>1, <2>2, <2>3 DEF Forward, Effect
<1>10. CASE run[r].mode = "undo"
  <2>1. Effects(r) = Steps(r)[pc].undo
    BY <1>2, <1>10 DEF Effects, Current
  <2>2. PICK m \in Nat : m = Len(Steps(r)[pc].undo) /\ DOMAIN Steps(r)[pc].undo = 1 .. m
    BY <1>8, LenProperties
  <2>3. at \in 1 .. m
    BY <1>3, <1>5, <2>1, <2>2
  <2> QED BY <1>2, <1>4, <1>5, <1>6, <1>10, <2>1, <2>2, <2>3 DEF Undoes, Effect
<1> QED BY <1>5, <1>9, <1>10

(* A call that tells writes its fact.                                       *)
LEMMA FactIsNew ==
  ASSUME LogIs, NEW r, NEW e, e = Effect(r), e.op \in Telling, CanWrite(r), log' = Append(log, Keyed(r)),
         NEW n, n = Len(log) + 1
  PROVE  n \in DOMAIN log' /\ IsFactOf(n, r, e)'
<1>1. log'[n] = Keyed(r) /\ n \in DOMAIN log' /\ VersionOf(n)' = StreamVersion(Keyed(r).on) + 1
  BY LogAppends, NewVersion
<1>2. PICK f : f = Keyed(r)
  OBVIOUS
<1>3. /\ f.on = e.on /\ f.name = e.name /\ f.by = r /\ f.about = run[r].got
      /\ f.key = IF e.op = "append" /\ e.key # NoKey THEN Append(e.key, run[r].got) ELSE NoKey
  BY <1>2 DEF Keyed
<1>4. KeyOf(n, e)' = f.key
  BY <1>1, <1>2, <1>3 DEF KeyOf
<1>5. ASSUME e.op = "append", e.expect[1] = "at" PROVE StreamVersion(e.on) = e.expect[2]
  <2>1. StreamVersion(e.on) = Expected(r)
    BY <1>5 DEF CanWrite, Doing, Effect
  <2>2. Expected(r) = e.expect[2]
    BY <1>5 DEF Expected
  <2> QED BY <2>1, <2>2
<1> QED BY <1>1, <1>2, <1>3, <1>4, <1>5 DEF IsFactOf

(* A call that a step adds to those that were made was made by that step.   *)
LEMMA NewlyReached ==
  ASSUME NEW r, GoodFunction(job[r], {}), IsPlaced(r), Waits(r), NEW rec, IsPlacedAt(r, rec), Outcome(r, rec),
         NEW i \in DOMAIN Steps(r), NEW j \in DOMAIN Calls(r, i), PlainCall(r, i, j),
         Reached(r, rec, i, j), ~Reached(r, run[r], i, j)
  PROVE  Call(r) /\ Forward(r) /\ i = run[r].pc /\ j = run[r].at /\ Effect(r) = Calls(r, i)[j]
<1>1. PICK S : run[r] \in RunState(S)
  BY DEF IsPlaced
<1>2. PICK pc, at, memo, n, len, l :
        /\ pc = run[r].pc /\ at = run[r].at /\ memo = run[r].memo /\ n = Len(memo) /\ len = Len(Steps(r))
        /\ l = Len(Calls(r, i))
  OBVIOUS
<1>3. pc \in Nat /\ at \in Nat \ {0} /\ memo \in Seq(S) /\ n \in Nat
  BY <1>1, <1>2, LenProperties DEF RunState
<1>4. len \in Nat /\ DOMAIN Steps(r) = 1 .. len /\ i \in 1 .. len
  BY <1>2, LenProperties DEF GoodFunction, Steps
<1>5. l \in Nat /\ DOMAIN Calls(r, i) = 1 .. l /\ j \in 1 .. l
  <2>1. GoodStep(Steps(r)[i], {})
    BY DEF GoodFunction, Steps
  <2>2. \E T : Calls(r, i) \in Seq(T)
    BY <2>1 DEF GoodStep, SparesAll, Calls
  <2> QED BY <1>2, <2>2, LenProperties
<1>6. /\ ~(i <= n /\ (memo[i] # 0 \/ job[r].errors # "skip"))
      /\ ~(Forward(r) /\ i = pc /\ j < at)
  BY <1>2 DEF Reached, Forward
<1>7. /\ run[r].mode \in {"forward", "parked"} => pc = n + 1
      /\ Forward(r) => Current(r) = Steps(r)[pc] /\ Effects(r) = Calls(r, pc)
  <2>1. Placed(run[r].mode, pc, n, run[r].kept, len)
    BY <1>2 DEF IsPlaced
  <2> QED BY <1>2, <2>1 DEF Placed, Forward, Effects, Current, Calls
<1>8. CASE Starts(r, rec)
  <2>1. rec.memo = memo /\ rec.at = 1
    BY <1>2, <1>8 DEF Starts, Same, Waits
  <2> QED BY <1>2, <1>5, <1>6, <2>1 DEF Reached
<1>9. CASE CallsOn(r, rec)
  <2>1. rec.memo = memo /\ rec.at = at + 1 /\ rec.pc = pc /\ rec.mode = run[r].mode /\ Gives(r, rec.got)
    BY <1>2, <1>9 DEF CallsOn, Same
  <2>2. Forward(r) /\ i = pc /\ j < at + 1
    BY <1>2, <1>6, <2>1 DEF Reached, Forward
  <2>3. j = at
    BY <1>3, <1>5, <1>6, <2>2
  <2>4. Effect(r) = Calls(r, i)[j] /\ Effect(r).op \in Telling
    BY <1>2, <1>7, <2>2, <2>3 DEF Effect, PlainCall
  <2>5. \A op : Doing(r, op) => op \in Telling
    BY <2>4 DEF Doing, Effect
  <2>6. Call(r)
    BY <2>1, <2>5 DEF Gives, Telling
  <2> QED BY <1>2, <2>2, <2>3, <2>4, <2>6
<1>10. CASE Parks(r, rec)
  <2>1. rec.memo = memo /\ rec.mode = "parked"
    BY <1>2, <1>10 DEF Parks, Same
  <2> QED BY <1>2, <1>6, <2>1 DEF Reached
<1>11. CASE Returns(r, rec)
  <2>1. rec.at = 1 /\ Len(rec.memo) <= n /\ \A x \in 1 .. Len(rec.memo) : rec.memo[x] = memo[x]
    BY <1>2, <1>11 DEF Returns, Fresh, KeptOf
  <2>2. PICK m : m = Len(rec.memo) /\ m \in Nat
    BY LenProperties DEF IsPlacedAt, RunState
  <2>3. i <= m /\ (rec.memo[i] # 0 \/ job[r].errors # "skip")
    BY <1>5, <2>1, <2>2 DEF Reached
  <2>4. i \in 1 .. m /\ i <= n
    BY <1>3, <1>4, <2>1, <2>2, <2>3
  <2> QED BY <1>6, <2>1, <2>2, <2>3, <2>4
<1>12. ASSUME NEW v, Records(r, rec, v), Reason(r, v)
       PROVE  Call(r) /\ Forward(r) /\ i = run[r].pc /\ j = run[r].at /\ Effect(r) = Calls(r, i)[j]
  <2>1. rec.at = 1 /\ rec.memo = Append(memo, v)
    BY <1>2, <1>12 DEF Records, Fresh
  <2>2. Len(rec.memo) = n + 1 /\ (\A x \in 1 .. n : rec.memo[x] = memo[x]) /\ rec.memo[n + 1] = v
    <3>1. memo \in Seq(S \cup {v})
      BY <1>3, SeqMonotonic
    <3> QED BY <1>2, <2>1, <3>1, OneMoreAnswer
  <2>3. i <= n + 1 /\ (rec.memo[i] # 0 \/ job[r].errors # "skip")
    <3>1. ~(j < rec.at)
      BY <1>5, <2>1
    <3>2. PICK m : m = Len(rec.memo) /\ m = n + 1
      BY <2>2
    <3> QED BY <3>1, <3>2 DEF Reached
  <2>4. i = n + 1
    <3>1. ~(i \in 1 .. n)
      BY <1>3, <1>4, <1>6, <2>2, <2>3
    <3> QED BY <1>3, <1>4, <2>3, <3>1
  <2>5. v # 0 \/ job[r].errors # "skip"
    BY <2>2, <2>3, <2>4
  <2>6. run[r].mode \in {"forward", "parked"} /\ i = pc
    BY <1>7, <1>12, <2>4 DEF Records
  <2>7. ~Woken(r)
    <3>1. SUFFICES ASSUME run[r].mode = "parked" PROVE FALSE
      BY DEF Woken
    <3>2. ~NoWait(Calls(r, i))
      BY <1>2, <2>6, <3>1 DEF Waits, Current, Calls
    <3> QED BY <3>2 DEF PlainCall
  <2>8. Forward(r) => Needed(r)
    BY <1>2, <1>7, <2>6 DEF PlainCall, Needed
  <2>9. Forward(r) => Effects(r) # <<>> /\ Effects(r) = Calls(r, i) /\ Len(Effects(r)) = l
    BY <1>2, <1>5, <1>7, <2>6
  <2>10. Forward(r) /\ at = l /\ Gives(r, v)
    BY <1>2, <1>12, <2>5, <2>7, <2>8, <2>9 DEF Reason
  <2>11. j = at
    BY <1>3, <1>5, <1>6, <2>6, <2>10
  <2>12. Effect(r) = Calls(r, i)[j] /\ Effect(r).op \in Telling
    BY <1>2, <2>9, <2>10, <2>11 DEF Effect, PlainCall
  <2>13. \A op : Doing(r, op) => op \in Telling
    BY <2>12 DEF Doing, Effect
  <2>14. Call(r)
    BY <2>10, <2>13 DEF Gives, Telling
  <2> QED BY <1>2, <2>6, <2>10, <2>11, <2>12, <2>14
<1> QED BY <1>8, <1>9, <1>10, <1>11, <1>12 DEF Outcome

(* What a step of a run writes, seen from the log.                          *)
LEMMA RunWrites ==
  ASSUME LogIs, NEW r, Advance(r) \/ LoseAnswer(r) \/ Crash(r) \/ Elapse(r)
  PROVE  /\ log' = log \/ log' = Append(log, Keyed(r))
         /\ log' # log => /\ (\E op \in Telling : Doing(r, op)) /\ CanWrite(r)
                          /\ ~Repeated(r) /\ log' = Append(log, Keyed(r))
         /\ job' = job
<1>1. PICK S : log \in Seq(S)
  BY DEF LogIs
<1>2. Call(r) \/ LoseAnswer(r) => CanWrite(r)
  BY DEF Call, LoseAnswer
<1> QED BY <1>1, <1>2, LogGrows, StepsOnlyRun DEF OnlyRuns, Telling

LEMMA ToldStays ==
  ASSUME LogIs, NEW e, log' = log \/ log' = Append(log, e), job' = job, NEW q, run'[q] = run[q], Told(q)
  PROVE  Told(q)'
<1>1. ASSUME NEW f, HasFact(q, f) PROVE HasFact(q, f)'
  BY <1>1, FactsStay, FactIsFact DEF HasFact
<1>2. PICK rec : rec = run[q] /\ rec = run'[q]
  OBVIOUS
<1> QED BY <1>1, <1>2, SameFunctions DEF Told

LEMMA ToldStep ==
  ASSUME LogIs, NEW r \in DOMAIN run, GoodFunction(job[r], {}), IsPlaced(r), Waits(r), Told(r),
         Advance(r) \/ LoseAnswer(r) \/ Crash(r) \/ Elapse(r)
  PROVE  Told(r)'
<1>1. PICK rec : rec = run'[r]
  OBVIOUS
<1>2. IsPlacedAt(r, rec) /\ Outcome(r, rec)
  BY <1>1, RunMoves, LogShape, GoodIsFunction
<1>3. job' = job /\ (log' = log \/ log' = Append(log, Keyed(r)))
  BY RunWrites
<1>4. ASSUME NEW f, HasFact(r, f) PROVE HasFact(r, f)'
  BY <1>3, <1>4, FactsStay, FactIsFact DEF HasFact
<1>5. ASSUME NEW i \in DOMAIN Steps(r), NEW j \in DOMAIN Calls(r, i), PlainCall(r, i, j), Reached(r, rec, i, j), NEW f, f = Calls(r, i)[j]
      PROVE  HasFact(r, f)'
  <2>1. CASE Reached(r, run[r], i, j)
    BY <1>4, <1>5, <2>1 DEF Told
  <2>2. CASE ~Reached(r, run[r], i, j)
    <3>1. Call(r) /\ Effect(r) = f
      BY <1>2, <1>5, <2>2, NewlyReached
    <3>2. f.op \in Telling /\ (f.op = "append" => f.key = NoKey)
      BY <1>5 DEF PlainCall
    <3>3. ~Repeated(r)
      <4>1. Keyed(r).key = NoKey
        BY <3>1, <3>2 DEF Keyed
      <4> QED BY <4>1 DEF Repeated
    <3>4. log' = Append(log, Keyed(r)) /\ CanWrite(r)
      BY <3>1, <3>2, <3>3 DEF Call, Write, Telling
    <3>5. PICK k : k = Len(log) + 1
      OBVIOUS
    <3>6. k \in DOMAIN log' /\ IsFactOf(k, r, f)'
      BY <3>1, <3>2, <3>4, <3>5, FactIsNew
    <3> QED BY <3>6 DEF HasFact
  <2> QED BY <2>1, <2>2
<1> QED BY <1>1, <1>3, <1>5, SameFunctions DEF Told

LEMMA SourceStays ==
  ASSUME LogIs, NEW e, log' = log \/ log' = Append(log, e), job' = job, NEW k \in DOMAIN log, NEW r, FromRun(k, r)
  PROVE  FromRun(k, r)'
<1>1. Caused(k, r)'
  <2>1. \A s, n : Facts(s, n) \subseteq Facts(s, n)'
    BY FactsOfStreams
  <2> QED BY <2>1 DEF FromRun, Caused
<1>2. \A x \in DOMAIN log : x \in DOMAIN log' /\ \A f : IsFactOf(x, r, f)' = IsFactOf(x, r, f)
  BY FactsStay, FactIsFact
<1>3. ASSUME NEW i, NEW j, ToldBefore(k, r, i, j) PROVE ToldBefore(k, r, i, j)'
  BY <1>2, <1>3, SameFunctions DEF ToldBefore
<1>4. ASSUME NEW i PROVE (DoneBy(k, r, i) => DoneBy(k, r, i)') /\ (UndoneBy(k, r, i) => UndoneBy(k, r, i)')
  <2>1. DoneBy(k, r, i) => DoneBy(k, r, i)'
    BY <1>2, <1>3, SameFunctions DEF DoneBy
  <2>2. UndoneBy(k, r, i) => UndoneBy(k, r, i)'
    BY <1>2, SameFunctions DEF UndoneBy
  <2> QED BY <2>1, <2>2
<1> QED BY <1>1, <1>4, SameFunctions DEF FromRun

LEMMA SourceIsNew ==
  ASSUME LogIs, NEW r \in Runs, GoodFunction(job[r], {}), IsPlaced(r), Begun(r), Told(r), job' = job,
         NEW op \in Telling, Doing(r, op), CanWrite(r), log' = Append(log, Keyed(r)), NEW n, n = Len(log) + 1
  PROVE  FromRun(n, r)'
<1>1. PICK e : e = Effect(r)
  OBVIOUS
<1>2. n \in DOMAIN log' /\ IsFactOf(n, r, e)'
  BY <1>1, CallAt, FactIsNew
<1>3. \A x \in DOMAIN log : x < n /\ x \in DOMAIN log' /\ \A f : IsFactOf(x, r, f)' = IsFactOf(x, r, f)
  BY FactsStay, FactIsFact
<1>4. Caused(n, r)'
  <2>1. run[r].mode # "waiting"
    BY DEF Doing, Working, Busy
  <2>2. \A s, m : Facts(s, m) \subseteq Facts(s, m)' /\ Facts(s, m) \subseteq DOMAIN log
    BY FactsOfStreams DEF Facts, Stream
  <2> QED BY <1>3, <2>1, <2>2 DEF Begun, Caused
<1>5. PICK i, j : i = run[r].pc /\ j = run[r].at
  OBVIOUS
<1>6. i \in DOMAIN Steps(r) /\ e.op \in Telling
  BY <1>1, <1>5, CallAt
<1>7. CASE Forward(r) /\ j \in DOMAIN Calls(r, i) /\ e = Calls(r, i)[j] /\ i = Len(run[r].memo) + 1
  <2>1. ASSUME NEW i2 \in DOMAIN Steps(r), NEW j2 \in DOMAIN Calls(r, i2), PlainCall(r, i2, j2),
               i2 < i \/ (i2 = i /\ j2 < j), job[r].errors # "skip"
        PROVE  \E k2 \in DOMAIN log : k2 < n /\ IsFactOf(k2, r, Calls(r, i2)[j2])
    <3>1. Reached(r, run[r], i2, j2)
      <4>1. i2 \in Nat
        BY LenProperties DEF GoodFunction, Steps
      <4>2. i2 < i => i2 <= Len(run[r].memo)
        <5>1. PICK m : m = Len(run[r].memo) /\ m \in Nat /\ i = m + 1
          BY <1>7, PlacedRun, GoodIsFunction
        <5> QED BY <4>1, <5>1
      <4> QED BY <1>5, <1>7, <2>1, <4>2 DEF Reached, Forward
    <3> QED BY <1>3, <2>1, <3>1 DEF Told, HasFact
  <2>2. ToldBefore(n, r, i, j)'
    BY <1>3, <2>1, SameFunctions DEF ToldBefore
  <2>3. DoneBy(n, r, i)'
    BY <1>2, <1>6, <1>7, <2>2, SameFunctions DEF DoneBy
  <2> QED BY <1>4, <1>6, <2>3, SameFunctions DEF FromRun
<1>8. CASE j \in DOMAIN Steps(r)[i].undo /\ e = Steps(r)[i].undo[j]
  <2>1. UndoneBy(n, r, i)'
    BY <1>2, <1>6, <1>8, SameFunctions DEF UndoneBy
  <2> QED BY <1>4, <1>6, <2>1, SameFunctions DEF FromRun
<1> QED BY <1>1, <1>5, <1>7, <1>8, CallAt

(* A run that waits for its trigger does nothing else.                      *)
LEMMA WaitingStarts ==
  ASSUME NEW r, run[r].mode = "waiting", Advance(r) \/ LoseAnswer(r) \/ Crash(r) \/ Elapse(r)
  PROVE  Start(r)
<1>1. ~Busy(r) /\ run[r].mode # "parked" /\ \A op : ~Doing(r, op)
  BY DEF Busy, Doing, Working
<1> QED BY <1>1 DEF Advance, ReadStore, ReadView, Park, Woken, Check, Call, Conflict, Pass,
       LoseAnswer, Crash, Elapse, CanWrite

LEMMA WaitsStep ==
  ASSUME LogIs, NEW r \in DOMAIN run, GoodFunction(job[r], {}), IsPlaced(r), Waits(r),
         Advance(r) \/ LoseAnswer(r) \/ Crash(r) \/ Elapse(r)
  PROVE  Waits(r)'
<1>1. PICK rec : rec = run'[r]
  OBVIOUS
<1>2. Outcome(r, rec) /\ job' = job
  BY <1>1, RunMoves, RunWrites, LogShape, GoodIsFunction
<1>3. ASSUME Parks(r, rec) PROVE ~NoWait(Steps(r)[rec.pc].does)
  <2>1. Doing(r, "wait") /\ rec.pc = run[r].pc /\ Forward(r)
    BY <1>3 DEF Parks, Same
  <2>2. run[r].at \in DOMAIN Calls(r, rec.pc) /\ Calls(r, rec.pc)[run[r].at].op = "wait" /\ rec.pc \in DOMAIN Steps(r)
    BY <2>1, CallAt DEF Undoes, Forward
  <2>3. GoodStep(Steps(r)[rec.pc], {})
    BY <2>2 DEF GoodFunction, Steps
  <2>4. DOMAIN Calls(r, rec.pc) = 1 .. Len(Calls(r, rec.pc))
    BY <2>3, LenProperties DEF GoodStep, SparesAll, Calls
  <2> QED BY <2>2, <2>4 DEF NoWait, Calls
<1>4. rec.mode # "waiting" /\ (rec.mode = "parked" => Parks(r, rec))
  BY <1>2 DEF Outcome, Starts, CallsOn, Parks, Returns, Records, Working, Busy
<1>5. Current(r)' = Steps(r)[rec.pc]
  BY <1>1, <1>2 DEF Current, Steps
<1> QED BY <1>1, <1>3, <1>4, <1>5 DEF Waits

LEMMA BegunStep ==
  ASSUME LogIs, NEW r, Begun(r), Advance(r) \/ LoseAnswer(r) \/ Crash(r) \/ Elapse(r)
  PROVE  Begun(r)'
<1>1. job' = job /\ (log' = log \/ log' = Append(log, Keyed(r)))
  BY RunWrites
<1>2. \A s, n : Facts(s, n) \subseteq Facts(s, n)'
  BY <1>1, FactsOfStreams
<1>3. CASE run[r].mode # "waiting"
  BY <1>1, <1>2, <1>3 DEF Begun
<1>4. CASE run[r].mode = "waiting"
  <2>1. Triggered(r)
    BY <1>4, WaitingStarts DEF Start
  <2>2. job[r].trigger[1] = "fact" => Facts(job[r].trigger[2], job[r].trigger[3]) # {}
    BY <2>1 DEF Triggered
  <2> QED BY <1>1, <1>2, <2>2 DEF Begun
<1> QED BY <1>3, <1>4

LEMMA KeysStep ==
  ASSUME LogIs, KeysDiffer, NEW e, log' = log \/ log' = Append(log, e),
         log' # log => e.key = NoKey \/ \A k \in DOMAIN log : log[k].key # e.key
  PROVE  KeysDiffer'
BY FactsStay DEF KeysDiffer

LEMMA EngineStep ==
  ASSUME EngineInv, NEW q \in Runs, Advance(q) \/ LoseAnswer(q) \/ Crash(q) \/ Elapse(q), UNCHANGED inboxVars
  PROVE  EngineInv'
<1>1. LogIs /\ DOMAIN run = Runs /\ \A r \in Runs : GoodFunction(job[r], {}) /\ IsPlaced(r) /\ Waits(r) /\ Begun(r) /\ Told(r)
  BY DEF EngineInv
<1>2. /\ log' = log \/ log' = Append(log, Keyed(q))
      /\ log' # log => /\ (\E op \in Telling : Doing(q, op)) /\ CanWrite(q)
                       /\ ~Repeated(q) /\ log' = Append(log, Keyed(q))
      /\ job' = job
  BY <1>1, RunWrites
<1>3. LogIs' /\ DOMAIN run' = Runs /\ \A r \in Runs \ {q} : run'[r] = run[r]
  BY <1>1, <1>2, FactsStay, StepsOnlyRun DEF OnlyRuns
<1>4. ASSUME NEW r \in Runs PROVE GoodFunction(job[r], {})' /\ IsPlaced(r)' /\ Waits(r)' /\ Begun(r)' /\ Told(r)'
  <2>1. GoodFunction(job[r], {})'
    BY <1>1, <1>2
  <2>2. IsPlaced(r)'
    BY <1>1, RunStays, LogShape, GoodIsFunction
  <2>3. CASE r = q
    BY <1>1, <2>1, <2>2, <2>3, WaitsStep, BegunStep, ToldStep
  <2>4. CASE r # q
    <3>1. run'[r] = run[r]
      BY <1>3, <2>4
    <3>2. Waits(r)'
      BY <1>1, <1>2, <3>1 DEF Waits, Current, Steps
    <3>3. Begun(r)'
      BY <1>1, <1>2, <3>1, FactsOfStreams DEF Begun
    <3>4. Told(r)'
      BY <1>1, <1>2, <3>1, ToldStays
    <3> QED BY <2>1, <2>2, <3>2, <3>3, <3>4
  <2> QED BY <2>3, <2>4
<1>5. Sourced'
  <2>1. ASSUME NEW k \in DOMAIN log
        PROVE  \E r : r = log'[k].by /\ (IsDecision(k)' \/ FromRun(k, r)')
    <3>1. PICK r : r = log[k].by /\ r = log'[k].by /\ log'[k].name = log[k].name
      BY <1>1, <1>2, FactsStay
    <3>2. IsDecision(k) \/ FromRun(k, r)
      BY <3>1 DEF EngineInv, Sourced
    <3> QED BY <1>1, <1>2, <3>1, <3>2, SourceStays DEF IsDecision, Drafts
  <2>2. ASSUME NEW k \in DOMAIN log' \ DOMAIN log
        PROVE  \E r : r = log'[k].by /\ (IsDecision(k)' \/ FromRun(k, r)')
    <3>1. log' = Append(log, Keyed(q)) /\ k = Len(log) + 1 /\ log'[k] = Keyed(q) /\ log' # log
      BY <1>1, <1>2, <2>2, FactsStay
    <3>2. log'[k].by = q
      BY <3>1 DEF Keyed
    <3>3. FromRun(k, q)'
      BY <1>1, <1>2, <3>1, SourceIsNew
    <3> QED BY <3>2, <3>3
  <2> QED BY <2>1, <2>2 DEF Sourced
<1>6. KeysDiffer'
  BY <1>1, <1>2, KeysStep DEF EngineInv, Repeated
<1>7. Drafts' = Drafts /\ click' = click
  BY <1>2 DEF Drafts, inboxVars
<1> QED BY <1>3, <1>4, <1>5, <1>6, <1>7 DEF EngineInv

(* The inbox, the only other writer, writes decisions, each once.           *)
LEMMA WhatIsEmitted ==
  ASSUME InboxInv, LogIs, Drafts = {} => click = <<>>,
         (InboxNext /\ UNCHANGED notifierVars) \/ (NotifierNext /\ UNCHANGED inboxVars) \/ UNCHANGED exampleVars
  PROVE  /\ UNCHANGED <<job, cell, run, hit>> /\ (Drafts = {} => click' = <<>>)
         /\ \E e : /\ log' = log \/ log' = Append(log, e)
                   /\ log' # log => Drafts # {} /\ e.name \in Outcomes /\ e.by = 0 /\ \A k \in DOMAIN log : log[k].key # e.key
<1>1. UNCHANGED <<job, cell, run, hit>>
  BY OthersKeepRuns
<1>2. CASE (NotifierNext /\ UNCHANGED inboxVars) \/ UNCHANGED exampleVars
  BY <1>1, <1>2, NotifierKeepsInbox DEF inboxVars, exampleVars, vars
<1>3. CASE InboxNext /\ Drafts = {}
  <2>1. DOMAIN click = {}
    BY <1>3
  <2> QED BY <1>3, <2>1 DEF InboxNext
<1>4. CASE InboxNext /\ Drafts # {}
  <2>1. click \in [Clicks -> ClickState]
    BY <1>4 DEF InboxInv, ClicksOK
  <2>2. ASSUME NEW c \in DOMAIN click, EmitDecision(c) \/ LoseEmit(c)
        PROVE  \E e : /\ log' = log \/ log' = Append(log, e)
                      /\ log' # log => Drafts # {} /\ e.name \in Outcomes /\ e.by = 0 /\ \A k \in DOMAIN log : log[k].key # e.key
    <3>1. PICK key : key = DecisionKey(click[c].gate)
      OBVIOUS
    <3>2. PICK e : e = [on |-> Gate(click[c].gate), name |-> Wanted(c), by |-> 0, about |-> 0, key |-> key]
      OBVIOUS
    <3>3. e.name \in Outcomes /\ e.by = 0 /\ e.key = key
      BY <2>1, <2>2, <3>2 DEF Wanted, ClickState
    <3>4. log' = IF Stored(click[c].gate) # {} THEN log ELSE Append(log, e)
      BY <2>2, <3>1, <3>2 DEF EmitDecision, LoseEmit, Emitted
    <3>5. Stored(click[c].gate) = {} => \A k \in DOMAIN log : log[k].key # key
      BY <3>1 DEF Stored
    <3> QED BY <3>3, <3>4, <3>5
  <2>3. ASSUME NEW c, Click(c) \/ ReadGate(c) \/ ReadStored(c) \/ Offer(c) \/ RestartInbox
        PROVE  log' = log
    BY <2>3 DEF Click, ReadGate, ReadStored, Offer, RestartInbox, vars
  <2> QED BY <1>1, <1>4, <2>2, <2>3 DEF InboxNext
<1> QED BY <1>2, <1>3, <1>4

LEMMA EngineIdles ==
  ASSUME EngineInv, InboxInv,
         (InboxNext /\ UNCHANGED notifierVars) \/ (NotifierNext /\ UNCHANGED inboxVars) \/ UNCHANGED exampleVars
  PROVE  EngineInv'
<1>1. LogIs /\ DOMAIN run = Runs /\ \A r \in Runs : GoodFunction(job[r], {}) /\ IsPlaced(r) /\ Waits(r) /\ Begun(r) /\ Told(r)
  BY DEF EngineInv
<1>2. UNCHANGED <<job, run>> /\ (Drafts = {} => click' = <<>>)
  BY WhatIsEmitted DEF EngineInv
<1>3. PICK e : /\ log' = log \/ log' = Append(log, e)
               /\ log' # log => Drafts # {} /\ e.name \in Outcomes /\ e.by = 0 /\ \A k \in DOMAIN log : log[k].key # e.key
  BY WhatIsEmitted DEF EngineInv
<1>4. LogIs' /\ DOMAIN run' = Runs
  BY <1>1, <1>2, <1>3, FactsStay
<1>5. ASSUME NEW r \in Runs PROVE GoodFunction(job[r], {})' /\ IsPlaced(r)' /\ Waits(r)' /\ Begun(r)' /\ Told(r)'
  <2>1. GoodFunction(job[r], {})'
    BY <1>1, <1>2
  <2>2. IsPlaced(r)'
    BY <1>1, <1>2 DEF IsPlaced, Steps
  <2>3. Waits(r)'
    BY <1>1, <1>2 DEF Waits, Current, Steps
  <2>4. Begun(r)'
    BY <1>1, <1>2, <1>3, FactsOfStreams DEF Begun
  <2>5. Told(r)'
    BY <1>1, <1>2, <1>3, ToldStays
  <2> QED BY <2>1, <2>2, <2>3, <2>4, <2>5
<1>6. Sourced'
  <2>1. ASSUME NEW k \in DOMAIN log
        PROVE  \E r : r = log'[k].by /\ (IsDecision(k)' \/ FromRun(k, r)')
    <3>1. PICK r : r = log[k].by /\ r = log'[k].by /\ log'[k].name = log[k].name
      BY <1>1, <1>3, FactsStay
    <3>2. IsDecision(k) \/ FromRun(k, r)
      BY <3>1 DEF EngineInv, Sourced
    <3> QED BY <1>1, <1>2, <1>3, <3>1, <3>2, SourceStays DEF IsDecision, Drafts
  <2>2. ASSUME NEW k \in DOMAIN log' \ DOMAIN log PROVE IsDecision(k)'
    BY <1>1, <1>2, <1>3, <2>2, FactsStay DEF IsDecision, Drafts
  <2> QED BY <2>1, <2>2 DEF Sourced
<1>7. KeysDiffer'
  BY <1>1, <1>3, KeysStep DEF EngineInv
<1>8. Drafts' = Drafts
  BY <1>2 DEF Drafts
<1> QED BY <1>2, <1>4, <1>5, <1>6, <1>7, <1>8 DEF EngineInv

LEMMA EngineStart == Init => EngineInv
<1> SUFFICES ASSUME Init PROVE EngineInv
  OBVIOUS
<1>1. PICK p \in Programs : job = p.runs
  BY DEF Init
<1>2. log = <<>> /\ run = [r \in Runs |-> Idle(r)]
  BY DEF Init, InitEngine
<1>3. ASSUME NEW r \in Runs PROVE GoodFunction(job[r], {})
  BY <1>1, ProgramKinds, JobsAreGood, FewerSpared DEF OrderProgram
<1>4. ASSUME NEW r \in Runs PROVE IsPlaced(r) /\ Waits(r) /\ Begun(r) /\ Told(r)
  <2>1. PICK m : m = IF job[r].trigger = Request THEN "forward" ELSE "waiting"
    OBVIOUS
  <2>2. PICK rec : rec = run[r]
    OBVIOUS
  <2>3. rec = [mode |-> m, pc |-> 1, at |-> 1, got |-> 0, tries |-> 1, memo |-> <<>>, kept |-> 0]
    BY <1>2, <2>1, <2>2 DEF Idle
  <2>4. m \in Modes /\ m \in {"forward", "waiting"} /\ (m = "forward" => job[r].trigger = Request)
    BY <2>1 DEF Modes
  <2>5. <<>> \in Seq({0}) /\ Len(<<>>) = 0 /\ 1 \in Nat \ {0} /\ 0 \in {0}
    OBVIOUS
  <2>6. rec \in RunState({0}) /\ rec.memo = <<>> /\ rec.mode = m /\ rec.pc = 1 /\ rec.kept = 0 /\ rec.at = 1
    BY <2>3, <2>4, <2>5 DEF RunState
  <2>7. PICK len : len = Len(Steps(r)) /\ len \in Nat /\ DOMAIN Steps(r) = 1 .. len
    BY <1>3, LenProperties DEF GoodFunction, Steps
  <2>8. m = "forward" => len >= 1
    <3>1. Request # <<"never">>
      BY DEF Request
    <3>2. m = "forward" => Steps(r) # <<>>
      BY <1>3, <2>4, <3>1 DEF GoodFunction, Steps
    <3>3. len = 0 => Steps(r) = <<>>
      BY <1>3, <2>7, EmptySeq DEF GoodFunction, Steps
    <3> QED BY <2>7, <3>2, <3>3
  <2>9. Placed(m, 1, 0, 0, len)
    BY <2>4, <2>7, <2>8 DEF Placed
  <2>10. IsPlaced(r)
    BY <2>2, <2>4, <2>5, <2>6, <2>7, <2>9 DEF IsPlaced
  <2>11. Waits(r)
    BY <2>2, <2>4, <2>6 DEF Waits
  <2>12. Begun(r)
    BY <2>2, <2>4, <2>6 DEF Begun, Request
  <2>13. Told(r)
    <3>1. ASSUME NEW i \in DOMAIN Steps(r), NEW j \in DOMAIN Calls(r, i) PROVE ~Reached(r, rec, i, j)
      <4>1. \E S : Calls(r, i) \in Seq(S)
        BY <1>3, <3>1 DEF GoodFunction, GoodStep, SparesAll, Steps, Calls
      <4>2. j \in Nat /\ j >= 1 /\ i \in Nat /\ i >= 1
        <5>1. PICK c \in Nat : DOMAIN Calls(r, i) = 1 .. c
          BY <4>1, LenProperties
        <5> QED BY <2>7, <3>1, <5>1
      <4> QED BY <2>5, <2>6, <4>2 DEF Reached
    <3> QED BY <2>2, <3>1 DEF Told
  <2> QED BY <2>10, <2>11, <2>12, <2>13
<1>5. LogIs /\ DOMAIN log = {} /\ DOMAIN run = Runs
  <2>1. log \in Seq({0}) /\ DOMAIN log = {}
    BY <1>2
  <2> QED BY <1>2, <2>1 DEF LogIs
<1>6. Sourced /\ KeysDiffer
  BY <1>5 DEF Sourced, KeysDiffer
<1>7. Drafts = {} => click = <<>>
  BY DEF Init, InitInbox
<1> QED BY <1>3, <1>4, <1>5, <1>6, <1>7 DEF EngineInv

(* What the functions rely on, whatever they are.                           *)
THEOREM EngineInvariance == Spec => []EngineInv
<1>1. Init => EngineInv /\ InboxInv
  BY EngineStart, InboxStart
<1>2. ASSUME EngineInv, InboxInv, [ExamplesNext]_exampleVars
      PROVE  EngineInv' /\ InboxInv'
  <2>1. CASE Next /\ UNCHANGED <<inboxVars, notifierVars>>
    BY <1>2, <2>1, EngineStep, InboxSteps DEF Next
  <2>2. CASE (InboxNext /\ UNCHANGED notifierVars) \/ (NotifierNext /\ UNCHANGED inboxVars) \/ UNCHANGED exampleVars
    BY <1>2, <2>2, EngineIdles, InboxSteps
  <2> QED BY <1>2, <2>1, <2>2 DEF ExamplesNext
<1> QED BY <1>1, <1>2, PTL DEF Spec

-----------------------------------------------------------------------------
(* What is deployed stays deployed.                                         *)
DeployedKinds ==
  \/ OrderProgram(job)
  \/ \A r \in Runs : EvaluationJob(job[r])
  \/ \A r \in Runs : AuditJob(job[r])
  \/ \A r \in Runs : UploadJob(job[r])
  \/ \A r \in Runs : IngestJob(job[r])
  \/ \A r \in Runs : OtherJob(job[r])

LEMMA KindsStart == Init => DeployedKinds
BY ProgramKinds DEF Init, DeployedKinds

LEMMA KindsStay == ASSUME DeployedKinds, [ExamplesNext]_exampleVars PROVE DeployedKinds'
<1>1. job' = job
  BY JobsStay DEF ExamplesNext, exampleVars, vars
<1> QED BY <1>1 DEF DeployedKinds

(* What the engine does and what it executes.                               *)
THEOREM ExamplesInvariance == Spec => [](EngineInv /\ DeployedKinds)
<1> QED BY EngineInvariance, KindsStart, KindsStay, PTL DEF Spec

LEMMA AllSame ==
  ASSUME NEW S, IsFiniteSet(S), \A a, b \in S : a = b
  PROVE  Cardinality(S) <= 1
<1>1. CASE S = {}
  BY <1>1, FS_EmptySet
<1>2. CASE S # {}
  <2>1. PICK a \in S : S = {a}
    BY <1>2
  <2> QED BY <2>1, FS_Singleton
<1> QED BY <1>1, <1>2

(* The last fact of a stream has the stream's version.                      *)
LEMMA LastFact ==
  ASSUME LogIs, NEW s, Stream(s) # {}
  PROVE  \E i \in Stream(s) : (\A j \in Stream(s) : j <= i) /\ VersionOf(i) = StreamVersion(s)
<1>1. PICK n \in Nat : n = Len(log) /\ DOMAIN log = 1 .. n
  BY LogShape
<1>2. Stream(s) \subseteq 1 .. n /\ \A i \in Stream(s) : log[i].on = s
  BY <1>1 DEF Stream
<1> DEFINE T == {n - i : i \in Stream(s)}
<1>3. T \subseteq Nat /\ T # {}
  BY <1>2
<1>4. PICK x \in T : \A y \in T : x <= y
  BY <1>3, SmallestNumber
<1>5. PICK i \in Stream(s) : x = n - i
  BY <1>4
<1>6. ASSUME NEW j \in Stream(s) PROVE j <= i
  <2>1. n - i <= n - j
    BY <1>4, <1>5
  <2>2. i \in 1 .. n /\ j \in 1 .. n
    BY <1>2
  <2> QED BY <2>1, <2>2
<1>7. {j \in Stream(s) : j <= i} = Stream(s)
  BY <1>6
<1>8. VersionOf(i) = StreamVersion(s)
  BY <1>2, <1>7 DEF VersionOf, StreamVersion
<1> QED BY <1>6, <1>8

(* What no function tells of is not in the log.                             *)
LEMMA NeverTold ==
  ASSUME EngineInv, NEW N, N \cap Outcomes = {}, \A r \in Runs : GoodFunction(job[r], N), NEW k \in DOMAIN log
  PROVE  log[k].name \notin N
<1>1. CASE IsDecision(k)
  BY <1>1 DEF IsDecision
<1>2. ASSUME NEW r, r = log[k].by, FromRun(k, r) PROVE log[k].name \notin N
  <2>1. PICK i \in DOMAIN Steps(r) : DoneBy(k, r, i) \/ UndoneBy(k, r, i)
    BY <1>2 DEF FromRun
  <2>2. r \in Runs
    BY <1>2 DEF FromRun
  <2>3. GoodStep(Steps(r)[i], N)
    BY <2>1, <2>2 DEF GoodFunction, Steps
  <2> QED BY <2>1, <2>3 DEF DoneBy, UndoneBy, IsFactOf, GoodStep, SparesAll, Spares, Calls
<1>3. IsDecision(k) \/ FromRun(k, log[k].by)
  BY DEF EngineInv, Sourced
<1> QED BY <1>1, <1>2, <1>3

LEMMA WhoIsDeployed ==
  /\ \A f : OrderJob(f) => f.id \in {"place-order", "fulfill-order", "none"}
  /\ \A f : EvaluationJob(f) => f.id \in {"fraud/evaluate", "none"}
  /\ \A f : AuditJob(f) => f.id \in {"setup", "process-order-created", "process-order-shipped", "none"}
  /\ \A f : UploadJob(f) => f.id \in {"upload", "process-upload", "none"}
  /\ \A f : IngestJob(f) => f.id \in {"ingest-corpus", "edit", "none"}
  /\ \A f : OtherJob(f) => f.id \notin Kept4
<1>1. /\ \A o, v : PlaceOrder(o, v).id = "place-order" /\ FulfillOrder(o).id = "fulfill-order"
      /\ NotDeployed.id = "none" /\ \A tx : EvaluateFraud(tx).id = "fraud/evaluate"
  BY DEF PlaceOrder, FulfillOrder, EvaluateFraud, NotDeployed, Function
<1>2. Setup.id = "setup" /\ ProcessOrderCreated.id = "process-order-created" /\ ProcessOrderShipped.id = "process-order-shipped"
  BY DEF Setup, ProcessOrderCreated, ProcessOrderShipped, Function, Script
<1>3. /\ \A p : Upload(p).id = "upload" /\ Edit(p).id = "edit" /\ IngestCorpus(p).id = "ingest-corpus"
      /\ \A p, q, e : ProcessUpload(p, q, e).id = "process-upload"
  BY DEF Upload, Edit, IngestCorpus, ProcessUpload, Function, Script
<1> QED BY <1>1, <1>2, <1>3 DEF OrderJob, EvaluationJob, AuditJob, UploadJob, IngestJob, OtherJob

(* Which of the programs runs follows from one of its functions.            *)
LEMMA OneKind ==
  ASSUME DeployedKinds, NEW r \in Runs
  PROVE  /\ job[r].id \in {"place-order", "fulfill-order"} => OrderProgram(job)
         /\ job[r].id = "fraud/evaluate" => \A q \in Runs : EvaluationJob(job[q])
         /\ job[r].id = "setup" => \A q \in Runs : AuditJob(job[q])
         /\ job[r].id = "process-upload" => \A q \in Runs : UploadJob(job[q])
         /\ job[r].id = "ingest-corpus" => \A q \in Runs : IngestJob(job[q])
         /\ job[r].id \in Kept4 => Drafts = {}
<1>1. /\ \A o : OrderProgram(job) => OrderJob(job[r])
      /\ job[r].id \in Kept4 => ~OtherJob(job[r])
  BY WhoIsDeployed DEF OrderProgram
<1>2. ASSUME job[r].id \in Kept4 PROVE \A q \in Runs : job[q].id # "slack-approvals-agent"
  <2>1. OrderProgram(job) => \A q \in Runs : OrderJob(job[q])
    BY DEF OrderProgram
  <2> QED BY <1>1, <1>2, <2>1, WhoIsDeployed DEF DeployedKinds
<1>3. job[r].id \in Kept4 => Drafts = {}
  BY <1>2 DEF Drafts
<1> QED BY <1>1, <1>3, WhoIsDeployed DEF DeployedKinds, Kept4

(* In such a program a fact is a call's.                                    *)
LEMMA FactsHaveRuns ==
  ASSUME EngineInv, Drafts = {}, NEW k \in DOMAIN log
  PROVE  \E r \in Runs : r = log[k].by /\ FromRun(k, r)
<1>1. PICK r : r = log[k].by
  OBVIOUS
<1>2. FromRun(k, r)
  BY <1>1 DEF EngineInv, Sourced, IsDecision
<1> QED BY <1>1, <1>2 DEF FromRun
=============================================================================
