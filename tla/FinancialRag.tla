---------------------------- MODULE FinancialRag ----------------------------
(* financial-rag: a folder of filings is polled, what changed is parsed     *)
(* into a shadow index version, an evaluation scores that version, and a    *)
(* promotion moves the live pointer to it, verifies it and moves it back    *)
(* when the verification fails.  The figures, the passages and the vectors  *)
(* of a filing are one "row" and one "chunk".                               *)
EXTENDS Integers, Sequences, FiniteSets

CONSTANTS Docs,         \* filings: numbers, a later one restates the earlier
          MaxWrites,    \* bound: files written to the folder, replacements among them
          MaxBatches,   \* bound: polls that open a batch
          MaxRagFaults     \* bound: crashes, lost answers and runs that give up

ASSUME RagAssumption == /\ Docs \subseteq Nat /\ Docs # {} /\ IsFiniteSet(Docs)
                        /\ MaxWrites \in Nat \ {0} /\ MaxBatches \in Nat /\ MaxRagFaults \in Nat

VARIABLES
  files,      \* the content of each filing in the folder, 0 while there is none
  keys,       \* the idempotency keys the engine has seen
  parse,      \* the parse-document run of each content of each filing
  feed,       \* events the documents projection has not handled
  documents,  \* its rows
  artifacts,  \* chunks and figures emitted
  shown,      \* those the vector index and the table_rows projection hold
  poll,       \* the poll-source run
  batches,    \* batches opened
  closed,     \* batches closed
  eval,       \* the run-eval run
  scope,      \* the retriever's module-level version, 0 when there is none
  verdicts,   \* verdicts emitted
  promote,    \* the promote-index run
  began,      \* the events that have triggered their run
  pointer,    \* the live index version
  verified,   \* history: versions a verification has seen answer
  doubt,      \* history: promotions a fault or a running evaluation touched
  ragFaults

ragVars == <<files, keys, parse, feed, documents, artifacts, shown, poll, batches, closed,
             eval, scope, verdicts, promote, began, pointer, verified, doubt, ragFaults>>

Contents == 1..MaxWrites
Versions == 0..MaxBatches
Kinds == <<"chunk", "row">>
Newest == CHOOSE d \in Docs : \A e \in Docs : e <= d

NoParse == [pc |-> "none", version |-> 0, batch |-> 0, content |-> 0, at |-> 1]
NoRow == [version |-> 0, batch |-> 0, parsed |-> FALSE]
NoPoll == [pc |-> "idle", source |-> [d \in Docs |-> 0], changed |-> {}, todo |-> {},
           version |-> 0, batch |-> 0, parsed |-> 0]
NoEval == [pc |-> "idle", version |-> 0, batch |-> 0, passed |-> FALSE]
NoPromotion == [pc |-> "idle", version |-> 0, previous |-> 0]

createSchema == pointer = 0 /\ artifacts = {} /\ shown = {}

InitRag ==
  /\ createSchema
  /\ files = [d \in Docs |-> 0]
  /\ keys = {} /\ feed = <<>>
  /\ parse = [f \in Docs \X Contents |-> NoParse]
  /\ documents = [f \in Docs \X Contents |-> NoRow]
  /\ poll = NoPoll /\ batches = 0 /\ closed = {}
  /\ eval = NoEval /\ scope = 0 /\ verdicts = {}
  /\ promote = NoPromotion /\ began = {}
  /\ verified = {} /\ doubt = {} /\ ragFaults = 0

(* A step whose answer is lost, or whose worker dies before it is recorded, *)
(* has had its effect and is executed again.                                *)
Answered(answered) == IF answered THEN UNCHANGED ragFaults ELSE ragFaults < MaxRagFaults /\ ragFaults' = ragFaults + 1

-----------------------------------------------------------------------------
(* Filings are written to the folder and replaced.                          *)
PutFiling(d) ==
  /\ LET put == {f \in Docs \X Contents : f[2] <= files[f[1]]} IN
       Cardinality(put) < MaxWrites
  /\ files' = [files EXCEPT ![d] = @ + 1]
  /\ UNCHANGED <<keys, parse, feed, documents, artifacts, shown, poll, batches, closed, eval, scope,
                 verdicts, promote, began, pointer, verified, doubt, ragFaults>>

-----------------------------------------------------------------------------
(* poll-source: one run at a time.                                          *)

pollRest == <<files, artifacts, shown, documents, eval, scope, verdicts, promote, began, pointer, verified, doubt>>

(* list-source and hash-object.                                             *)
ListSource ==
  /\ poll.pc = "idle" /\ batches < MaxBatches
  /\ \E d \in Docs : files[d] # 0
  /\ poll' = [NoPoll EXCEPT !.pc = "diff", !.source = files]
  /\ UNCHANGED <<pollRest, keys, parse, feed, batches, closed, ragFaults>>

(* The map has one entry per filing, whichever of its rows came last.       *)
SeenMaps == {m \in [Docs -> Contents \cup {0}] :
               \A d \in Docs : LET of == {c \in Contents : documents[<<d, c>>].version # 0}
                               IN m[d] \in (IF of = {} THEN {0} ELSE of)}
diffChangedSet(source, seen) == {d \in Docs : source[d] # 0 /\ seen[d] # source[d]}

DiffSeen ==
  /\ poll.pc = "diff"
  /\ \E seen \in SeenMaps :
       LET changed == diffChangedSet(poll.source, seen) IN
         poll' = IF changed = {} THEN NoPoll
                 ELSE [poll EXCEPT !.pc = "open", !.changed = changed, !.todo = changed]
  /\ UNCHANGED <<pollRest, keys, parse, feed, batches, closed, ragFaults>>

(* The next version after the latest row, and an id nobody has.             *)
LatestVersion(v) == /\ v = 0 \/ \E f \in DOMAIN documents : documents[f].version = v
             /\ \A f \in DOMAIN documents : documents[f].version <= v
OpenBatch ==
  /\ poll.pc = "open"
  /\ \E v \in Versions :
       /\ LatestVersion(v)
       /\ poll' = [poll EXCEPT !.pc = "append", !.version = v + 1, !.batch = batches + 1]
  /\ batches' = batches + 1
  /\ UNCHANGED <<pollRest, keys, parse, feed, closed, ragFaults>>

(* The append is keyed by the filing and its content, and triggers a parse. *)
VersionKey(d, c) == <<"version", d, c>>

AppendVersion(d, answered) ==
  LET c == poll.source[d]  key == VersionKey(d, c) IN
    /\ poll.pc = "append" /\ d \in poll.todo
    /\ Answered(answered)
    /\ IF key \in keys THEN UNCHANGED <<parse, feed>>
       ELSE /\ parse' = [parse EXCEPT ![<<d, c>>] = [NoParse EXCEPT !.pc = "fetch", !.version = poll.version,
                                                                !.batch = poll.batch]]
            /\ feed' = Append(feed, [name |-> "document.version.created", doc |-> d, content |-> c,
                                     version |-> poll.version, batch |-> poll.batch])
    /\ keys' = keys \cup {key}
    /\ poll' = IF answered
               THEN [poll EXCEPT !.todo = @ \ {d}, !.pc = IF poll.todo = {d} THEN "wait" ELSE "append"]
               ELSE poll
    /\ UNCHANGED <<pollRest, batches, closed>>

(* The rows of the batch that report chunks are counted every thirty        *)
(* seconds, 240 times at most; two hours without them count as a fault.     *)
Completed == Cardinality({f \in DOMAIN documents : documents[f].batch = poll.batch /\ documents[f].parsed})
ExpectedFilings == Cardinality(poll.changed)

CountParsed ==
  /\ poll.pc = "wait"
  /\ Answered(Completed >= ExpectedFilings)
  /\ poll' = [poll EXCEPT !.pc = "close", !.parsed = Completed]
  /\ UNCHANGED <<pollRest, keys, parse, feed, batches, closed>>

CloseBatch(answered) ==
  /\ poll.pc = "close"
  /\ Answered(answered)
  /\ closed' = IF <<"batch-closed", poll.batch>> \in keys THEN closed
               ELSE closed \cup {[batch |-> poll.batch, version |-> poll.version, docs |-> poll.changed,
                                  failed |-> ExpectedFilings - poll.parsed]}
  /\ keys' = keys \cup {<<"batch-closed", poll.batch>>}
  /\ poll' = IF answered THEN NoPoll ELSE poll
  /\ UNCHANGED <<pollRest, parse, feed, batches>>

(* A step of the run has failed for the last time.                          *)
FailPoll ==
  /\ poll.pc # "idle"
  /\ Answered(FALSE)
  /\ poll' = NoPoll
  /\ UNCHANGED <<pollRest, keys, parse, feed, batches, closed>>

-----------------------------------------------------------------------------
(* parse-document: one run per appended version, any number at a time.      *)

parseRest == <<files, documents, shown, poll, batches, closed, eval, scope, verdicts, promote, began,
               pointer, verified, doubt>>
Parse(f, rec) == parse' = [parse EXCEPT ![f] = rec]

(* fetch-pdf reads the file as it is now, whatever was hashed; parse-range  *)
(* may find nothing in it.                                                  *)
FetchPdf(f, found) ==
  /\ parse[f].pc = "fetch"
  /\ Parse(f, [parse[f] EXCEPT !.pc = IF found THEN "emit" ELSE "report", !.content = files[f[1]],
                               !.at = IF found THEN 1 ELSE 0])
  /\ UNCHANGED <<parseRest, keys, feed, artifacts, ragFaults>>

(* emit-artifacts is one step of many emits; each is keyed by its place in  *)
(* the filing.                                                              *)
ArtifactKey(f, kind) == <<kind, f[1]>>

EmitArtifact(f, answered) ==
  LET p == parse[f]  kind == Kinds[p.at]  key == ArtifactKey(f, kind) IN
    /\ p.pc = "emit"
    /\ Answered(answered)
    /\ artifacts' = IF key \in keys THEN artifacts
                    ELSE artifacts \cup {[kind |-> kind, doc |-> f[1], version |-> p.version, content |-> p.content]}
    /\ keys' = keys \cup {key}
    /\ Parse(f, IF ~answered THEN [p EXCEPT !.at = 1]
                ELSE IF p.at = Len(Kinds) THEN [p EXCEPT !.pc = "report"] ELSE [p EXCEPT !.at = @ + 1])
    /\ UNCHANGED <<parseRest, feed>>

ReportParsed(f, answered) ==
  LET p == parse[f]  key == <<"parsed", p.batch, f[1]>> IN
    /\ p.pc = "report"
    /\ Answered(answered)
    /\ feed' = IF key \in keys THEN feed
               ELSE Append(feed, [name |-> "document.parsed", doc |-> f[1], chunks |-> p.at > 0])
    /\ keys' = keys \cup {key}
    /\ Parse(f, IF answered THEN [p EXCEPT !.pc = "done"] ELSE p)
    /\ UNCHANGED <<parseRest, artifacts>>

(* Its third attempt of a step failed.                                      *)
FailParse(f) ==
  /\ parse[f].pc \in {"fetch", "emit", "report"}
  /\ Answered(FALSE)
  /\ Parse(f, [parse[f] EXCEPT !.pc = "failed"])
  /\ UNCHANGED <<parseRest, keys, feed, artifacts>>

-----------------------------------------------------------------------------
(* The projections, each at its own pace.                                   *)

(* The documents projection in the order of the events; a parsed filing     *)
(* updates every row of that filing.                                        *)
Inserted(e) == [documents EXCEPT ![<<e.doc, e.content>>] = [version |-> e.version, batch |-> e.batch, parsed |-> FALSE]]
Updated(e) == [f \in DOMAIN documents |->
                 IF f[1] = e.doc /\ documents[f].version # 0
                 THEN [documents[f] EXCEPT !.parsed = e.chunks] ELSE documents[f]]

ProjectDocuments ==
  /\ feed # <<>>
  /\ documents' = IF Head(feed).name = "document.parsed" THEN Updated(Head(feed)) ELSE Inserted(Head(feed))
  /\ feed' = Tail(feed)
  /\ UNCHANGED <<files, keys, parse, artifacts, shown, poll, batches, closed, eval, scope, verdicts,
                 promote, began, pointer, verified, doubt, ragFaults>>

(* vector-index keeps passages, table_rows figures; neither waits for the   *)
(* other or for the filing to be reported.                                  *)
vectorIndex(a) == a.kind = "chunk"
table_rows(a) == a.kind = "row"

Index(a) ==
  /\ a \in artifacts \ shown /\ (vectorIndex(a) \/ table_rows(a))
  /\ shown' = shown \cup {a}
  /\ UNCHANGED <<files, keys, parse, feed, documents, artifacts, poll, batches, closed, eval, scope,
                 verdicts, promote, began, pointer, verified, doubt, ragFaults>>

-----------------------------------------------------------------------------
(* The retriever: every read is of one version.                             *)
resolveVersion(explicit) == IF explicit # 0 THEN explicit ELSE IF scope # 0 THEN scope ELSE pointer

(* Of one period, the passages and the figures of the latest filing.        *)
supersede(rows) == {a \in rows : \A b \in rows : b.doc <= a.doc}
buildHybridQuery(version) == supersede({a \in shown : a.kind = "chunk" /\ a.version = version})
searchDocuments(explicit) == buildHybridQuery(resolveVersion(explicit))
queryTable(explicit) == supersede({a \in shown : a.kind = "row" /\ a.version = resolveVersion(explicit)})

(* The tools name no version.  The golden set was written for the first     *)
(* content of the latest filing, and a model may answer wrongly what it     *)
(* could have read.                                                         *)
Answerable == \E a \in queryTable(0) : a.doc = Newest /\ a.content = 1
answerQuestion == {"other"} \cup (IF Answerable THEN {"expected"} ELSE {})

(* A figure that is not the expected one is no match; the golden questions, *)
(* of which nine tenths must be right, stand for one here.                  *)
(* Mutant: any figure matches.                                              *)
AnyFigure(answer) == answer \in {"expected", "other"}

numericMatch(answer) == answer = "expected"
passesGate(answer) == numericMatch(answer)

-----------------------------------------------------------------------------
(* run-eval: one run at a time, and the tools read the version it scores.   *)

evalRest == <<files, parse, feed, documents, artifacts, shown, poll, batches, closed, promote, pointer,
              verified, doubt>>

RunEval(c) ==
  /\ eval.pc = "idle" /\ c \in closed /\ <<"run-eval", c.batch>> \notin began
  /\ eval' = [pc |-> "score", version |-> c.version, batch |-> c.batch, passed |-> FALSE]
  /\ scope' = c.version
  /\ began' = began \cup {<<"run-eval", c.batch>>}
  /\ UNCHANGED <<evalRest, keys, verdicts, ragFaults>>

(* The worker that restarts executes the function from its top again.       *)
ResumeEval ==
  /\ eval.pc # "idle" /\ scope = 0
  /\ scope' = eval.version
  /\ UNCHANGED <<evalRest, eval, keys, verdicts, began, ragFaults>>

ScoreVersion ==
  /\ eval.pc = "score" /\ scope # 0
  /\ \E answer \in answerQuestion : eval' = [eval EXCEPT !.pc = "verdict", !.passed = passesGate(answer)]
  /\ UNCHANGED <<evalRest, scope, keys, verdicts, began, ragFaults>>

EmitVerdict(answered) ==
  LET key == <<"eval", eval.batch, eval.version>> IN
    /\ eval.pc = "verdict" /\ scope # 0
    /\ Answered(answered)
    /\ verdicts' = IF key \in keys THEN verdicts
                   ELSE verdicts \cup {[batch |-> eval.batch, version |-> eval.version, passed |-> eval.passed]}
    /\ keys' = keys \cup {key}
    /\ eval' = IF answered THEN NoEval ELSE eval
    /\ scope' = IF answered THEN 0 ELSE scope
    /\ UNCHANGED <<evalRest, began>>

(* The run fails, and its finally clause releases the version.              *)
FailEval ==
  /\ eval.pc # "idle"
  /\ Answered(FALSE)
  /\ eval' = NoEval /\ scope' = 0
  /\ UNCHANGED <<evalRest, keys, verdicts, began>>

-----------------------------------------------------------------------------
(* promote-index: one run at a time.  record-regression only logs.          *)

promoteRest == <<files, keys, parse, feed, documents, artifacts, shown, poll, batches, closed, eval,
                 scope, verdicts>>

PromoteIndex(v) ==
  /\ promote.pc = "idle" /\ v \in verdicts /\ v.passed /\ <<"promote-index", v.batch>> \notin began
  /\ promote' = [NoPromotion EXCEPT !.pc = "read", !.version = v.version]
  /\ began' = began \cup {<<"promote-index", v.batch>>}
  /\ UNCHANGED <<promoteRest, pointer, verified, doubt, ragFaults>>

ReadPointer ==
  /\ promote.pc = "read"
  /\ promote' = IF pointer >= promote.version THEN NoPromotion
                ELSE [promote EXCEPT !.pc = "advance", !.previous = pointer]
  /\ UNCHANGED <<promoteRest, began, pointer, verified, doubt, ragFaults>>

(* comparePointer; an execution after a lost answer finds the pointer moved *)
(* and leaves it.                                                           *)
Doubt(answered) == doubt' = IF answered THEN doubt ELSE doubt \cup {promote.version}

AdvancePointer(answered) ==
  /\ promote.pc = "advance"
  /\ Answered(answered)
  /\ Doubt(answered)
  /\ pointer' = IF pointer = promote.previous THEN promote.version ELSE pointer
  /\ promote' = IF ~answered THEN promote
                ELSE IF pointer = promote.previous THEN [promote EXCEPT !.pc = "verify"] ELSE NoPromotion
  /\ UNCHANGED <<promoteRest, began, verified>>

(* Mutant: a verification that fails is only logged.                        *)
VerifyAndLog(threw) ==
  LET live == searchDocuments(0) # {} /\ ~threw  foreign == resolveVersion(0) # promote.version IN
    /\ promote.pc = "verify"
    /\ promote' = NoPromotion
    /\ verified' = IF live /\ ~foreign THEN verified \cup {promote.version} ELSE verified
    /\ doubt' = IF live /\ foreign THEN doubt \cup {promote.version} ELSE doubt
    /\ UNCHANGED <<promoteRest, began, pointer, ragFaults>>

(* Mutant: what the verification found is taken the wrong way round.        *)
VerifyInverted(threw) ==
  LET live == searchDocuments(0) # {} /\ ~threw  foreign == resolveVersion(0) # promote.version IN
    /\ promote.pc = "verify"
    /\ promote' = IF live THEN [promote EXCEPT !.pc = "compensate"] ELSE NoPromotion
    /\ verified' = IF live /\ ~foreign THEN verified \cup {promote.version} ELSE verified
    /\ doubt' = IF live /\ foreign THEN doubt \cup {promote.version} ELSE doubt
    /\ UNCHANGED <<promoteRest, began, pointer, ragFaults>>

(* verify-live reads as the live queries do; it may also throw.             *)
VerifyLive(threw) ==
  LET live == searchDocuments(0) # {} /\ ~threw  foreign == resolveVersion(0) # promote.version IN
    /\ promote.pc = "verify"
    /\ promote' = IF live THEN NoPromotion ELSE [promote EXCEPT !.pc = "compensate"]
    /\ verified' = IF live /\ ~foreign THEN verified \cup {promote.version} ELSE verified
    /\ doubt' = IF live /\ foreign THEN doubt \cup {promote.version} ELSE doubt
    /\ UNCHANGED <<promoteRest, began, pointer, ragFaults>>

Compensate(answered) ==
  /\ promote.pc = "compensate"
  /\ Answered(answered)
  /\ Doubt(answered)
  /\ pointer' = IF pointer = promote.version THEN promote.previous ELSE pointer
  /\ promote' = IF answered THEN NoPromotion ELSE promote
  /\ UNCHANGED <<promoteRest, began, verified>>

(* The run has no attempts left.                                            *)
FailPromotion ==
  /\ promote.pc # "idle"
  /\ Answered(FALSE)
  /\ Doubt(FALSE)
  /\ promote' = NoPromotion
  /\ UNCHANGED <<promoteRest, began, pointer, verified>>

-----------------------------------------------------------------------------
(* The worker process dies with everything it runs.                         *)
CrashWorker ==
  /\ ragFaults < MaxRagFaults /\ ragFaults' = ragFaults + 1
  /\ scope' = 0
  /\ parse' = [f \in DOMAIN parse |-> IF parse[f].pc = "emit" THEN [parse[f] EXCEPT !.at = 1] ELSE parse[f]]
  /\ UNCHANGED <<files, keys, feed, documents, artifacts, shown, poll, batches, closed, eval, verdicts,
                 promote, began, pointer, verified, doubt>>

PollStep == \/ ListSource \/ DiffSeen \/ OpenBatch \/ CountParsed
            \/ \E a \in BOOLEAN : CloseBatch(a) \/ \E d \in Docs : AppendVersion(d, a)
ParseStep(f) == \E a \in BOOLEAN : FetchPdf(f, a) \/ EmitArtifact(f, a) \/ ReportParsed(f, a)
EvalStep == ResumeEval \/ ScoreVersion \/ (\E c \in closed : RunEval(c)) \/ \E a \in BOOLEAN : EmitVerdict(a)
PromoteStep == \/ ReadPointer \/ \E v \in verdicts : PromoteIndex(v)
               \/ \E a \in BOOLEAN : AdvancePointer(a) \/ VerifyLive(a) \/ Compensate(a)

RagNext ==
  \/ \E d \in Docs : PutFiling(d)
  \/ PollStep
  \/ \E f \in Docs \X Contents : ParseStep(f) \/ FailParse(f)
  \/ ProjectDocuments \/ \E a \in artifacts : Index(a)
  \/ EvalStep \/ PromoteStep
  \/ FailPoll \/ FailEval \/ FailPromotion
  \/ CrashWorker

RagSpec == InitRag /\ [][RagNext]_ragVars

-----------------------------------------------------------------------------
TypeOK ==
  /\ files \in [Docs -> Contents \cup {0}]
  /\ parse \in [Docs \X Contents ->
                 [pc : {"none", "fetch", "emit", "report", "done", "failed"}, version : Versions,
                  batch : Versions, content : Contents \cup {0}, at : 0..Len(Kinds)]]
  /\ documents \in [Docs \X Contents -> [version : Versions, batch : Versions, parsed : BOOLEAN]]
  /\ shown \subseteq artifacts
  /\ batches \in Versions /\ pointer \in Versions /\ scope \in Versions
  /\ eval.version \in Versions /\ promote.version \in Versions

(* What is live has been scored: the pointer names a version that passed    *)
(* its evaluation, and in that version the figures the golden set asks for  *)
(* are there to be read (run-eval.ts, promote-index.ts, the override of     *)
(* retriever.ts).                                                           *)
LiveIndexAnswers ==
  pointer # 0 =>
    /\ \E v \in verdicts : v.passed /\ v.version = pointer
    /\ \E a \in shown : a.kind = "row" /\ a.version = pointer /\ a.doc = Newest /\ a.content = 1

(* No promotion ends with the pointer on a version its verification has not *)
(* seen answer, unless one of its steps was hit or an evaluation was        *)
(* running in the same worker when it verified.                             *)
PublishedIsVerified == promote.pc = "idle" /\ pointer # 0 => pointer \in verified \cup doubt

(* The pointer goes up, or back to where the promotion found it while what  *)
(* it put there has not been verified.                                      *)
RollbackIsOwn ==
  [][pointer' < pointer => /\ promote.pc = "compensate" /\ pointer = promote.version
                           /\ pointer' = promote.previous /\ pointer \notin verified]_ragVars
=============================================================================
