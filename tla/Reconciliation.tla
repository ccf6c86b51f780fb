---------------------------- MODULE Reconciliation ----------------------------
(* agents/reconciliation-agent: a statement's unmatched clusters become one *)
(* case run each.  The run triages, waits for an approval to contact the    *)
(* counterparty, contacts it, waits for its reply and learns a rule from a  *)
(* confirmed one.  A cron sweep answers the waits nobody else answered.     *)
(* A case is named <<counterparty, period>>, the gate of run r <<r>>.       *)
EXTENDS DurableFunctions

(* What a statement leaves to be asked about, and what its rules settle.    *)
Matching == INSTANCE StatementMatching

(* memory.append; that it then waits for its projection changes nothing.    *)
Remember(step, c, name) == Step(step, <<Emit(name, c)>>)

(* approve() matches on the run and a reply on the case.                    *)
Gate(r) == <<r>>
Decisions == <<"approved", "rejected">>
Approve(r) == Step("approve", <<Wait(Gate(r), Decisions)>>)
Signals == <<"timeout", "confirmed", "unclear">>

-----------------------------------------------------------------------------
(* statement.ts: what a rule learned from an earlier case matches is never  *)
(* escalated; a case is requested under a key, and once more under the same *)
(* key when the request fails.                                              *)
LoadRules(earlier) == Step("load-learned-rules", <<View(earlier, <<"case.resolved">>)>>)
Reconcile == Step("reconcile", <<>>)
RequestCase(c) ==
  OnlyIf(Step("request", <<EmitOnce("case.requested", c, <<"reconciliation", c>>)>>), "load-learned-rules", {0})
ReconcileStatement(c, earlier) ==
  Function("reconcile-statement", Request, <<LoadRules(earlier), Reconcile, RequestCase(c)>>)

(* A triage that is not on the allowlist ends the run.                      *)
Triage(allowed) == Step("llm.complete", <<Refuse(IF allowed THEN {} ELSE Anything)>>)

(* The provider keeps the first delivery under a key.                       *)
contactKey(r, c) == <<"contact", r, c>>
SendContact(r, c) ==
  OnlyIf(Step("send-contact", <<EmitOnce("contact", c, contactKey(r, c))>>), "approve", {1})
ContactSent(c) == OnlyIf(Remember("sent", c, "case.contact.sent"), "approve", {1})
Declined(c) == OnlyIf(Remember("declined", c, "case.unresolved"), "approve", {2})

(* confirmedActionFor: a reply counts when it confirms an allowed action.   *)
Reply(c) == OnlyIf(Step("reply", <<Wait(c, Signals)>>), "approve", {1})
NoReply(c) == OnlyIf(Remember("no-reply", c, "case.unresolved"), "reply", {1})
Unconfirmed(c) == OnlyIf(Remember("unconfirmed", c, "case.unresolved"), "reply", {3})
(* Mutant: a reply that confirms nothing counts too.                        *)
ResolvedByAny(c) == OnlyIf(Remember("resolved", c, "case.resolved"), "reply", {2, 3})

Resolved(c) == OnlyIf(Remember("resolved", c, "case.resolved"), "reply", {2})

ReconciliationCase(r, c, allowed) ==
  Function("reconciliation-case", OnFact(c, "case.requested"),
           <<Remember("opened", c, "case.opened"), Remember("escalated", c, "case.escalated"), Triage(allowed),
             Remember("proposed", c, "case.action.proposed"), Approve(r), Declined(c), SendContact(r, c),
             ContactSent(c), Reply(c), NoReply(c), Unconfirmed(c), Resolved(c)>>)

-----------------------------------------------------------------------------
(* The operational projection: the last of these events is a case's stage.  *)
StageEvents == <<"case.escalated", "case.action.proposed", "case.contact.sent", "case.resolved", "case.unresolved">>

(* The sweep reads it once and emits what is due, a rejection or a timeout  *)
(* and never an approval, whatever has happened to the case since.          *)
Sweep(c) == Step("sweep", <<View(c, StageEvents)>>)
deadlineEventFor(r, c) ==
  <<OnlyIf(Step("emit-rejection", <<Emit("rejected", Gate(r))>>), "sweep", {2}),
    OnlyIf(Step("emit-timeout", <<Emit("timeout", c)>>), "sweep", {3})>>
SweepDeadlines(r, c) == Function("deadline-sweep", Request, <<Sweep(c)>> \o deadlineEventFor(r, c))

(* scripts/approve.ts and scripts/reply.ts, by hand and at any time.        *)
ApproveContact(r, decision) == Script("approve", Request, <<Step("emit", <<Emit(decision, Gate(r))>>)>>, "stop")
ReplyToCase(c, signal) == Script("reply", OnFact(c, "contact"), <<Step("emit", <<Emit(signal, c)>>)>>, "stop")

(* The curated projection keeps one rule per counterparty and predicate,    *)
(* and every rule here has the same predicate.                              *)
Learned(rules, f) == IF f.name = "case.resolved" THEN rules \cup {f.on[1]} ELSE rules
CuratedRules(twice) == Folded(Learned, {}, Handled(twice))

-----------------------------------------------------------------------------
CaseRuns == {r \in Runs : job[r].id = "reconciliation-case"}
Case(r) == job[r].trigger[2]
Before(i, s, name) == \E j \in 1..(i - 1) : log[j].on = s /\ log[j].name = name

(* A rule is learned only along the whole chain of authorizations: its case *)
(* was requested, a person approved the contact, it was made, and then a    *)
(* reply confirmed an action, whatever the sweep and the other replies of   *)
(* that case sent in between.                                               *)
RulesNeedConfirmation ==
  \A r \in CaseRuns, i \in DOMAIN log :
    log[i].name = "case.resolved" /\ log[i].on = Case(r) =>
      /\ Before(i, Gate(r), "approved")
      /\ \A name \in {"case.requested", "case.opened", "contact", "case.contact.sent", "confirmed"} :
           Before(i, Case(r), name)

(* The rules do not depend on an event that reaches the projection twice.   *)
RulesAreCurated == \A n \in DOMAIN log : CuratedRules({n}) = CuratedRules({})

(* A case has one outcome, recorded once unless its step was executed       *)
(* again, and a case run that completes has recorded it: no sweep, no late  *)
(* approval and no second reply turns a closed case around.                 *)
OneOutcome ==
  \A r \in CaseRuns :
    LET outcomes == Facts(Case(r), "case.resolved") \cup Facts(Case(r), "case.unresolved") IN
      /\ Cardinality({log[i].name : i \in outcomes}) <= 1
      /\ Cardinality(outcomes) > 1 => \E i \in 6..12 : <<r, "forward", i>> \in hit
      /\ run[r].mode = "completed" => outcomes # {}
      /\ Cardinality(Facts(Case(r), "case.requested")) <= 1

(* A case closes once and rightly: as resolved only on a confirmation a     *)
(* person authorized, and never a second time (sweep.ts, reply.ts); and it  *)
(* is about the lines nothing else settled, each in one case (reconcile.ts):*)
(* that holds of any statement, and is evaluated where one is waiting.      *)
StatementIsWaiting ==
  /\ log = <<>> /\ \E r \in Runs : job[r].id = "reconcile-statement"
  /\ \A r \in Runs : run[r] = Idle(r)
CasesCloseRightly ==
  RulesNeedConfirmation /\ OneOutcome /\ (StatementIsWaiting => Matching!CasesAreCutRightly)
=============================================================================
