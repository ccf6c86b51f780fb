---------------------------- MODULE ApprovalInbox ----------------------------
(* agents/slack-approvals: an agent whose draft waits for a decision, and   *)
(* the inbox process that turns clicks into one: it reads the gate, emits   *)
(* the decision under the gate's key and reads back what is stored there.   *)
EXTENDS CodeReview

CONSTANT Clicks       \* clicks on Approve and Reject buttons

VARIABLES
  click,     \* what each click wants, where it is, and what it was answered
  offered,   \* gates whose buttons somebody has been shown
  busy,      \* gates with a decision in progress in this process
  decided    \* the decisions this process has seen stored

inboxVars == <<click, offered, busy, decided>>

(* The title is checked before the draft is made.                           *)
PrepareDraft(titled) == Step("prepare-draft", <<Refuse(IF titled THEN {} ELSE Anything)>>)
ApprovalsAgent(r, titled) == Function("slack-approvals-agent", Request, <<PrepareDraft(titled), Approve(r)>>)

Drafts == {r \in Runs : job[r].id = "slack-approvals-agent"}
PendingGate(r) == run[r].mode = "parked"
DecisionKey(r) == <<"slack-approval", r>>
Undecided == ""

InitInbox ==
  /\ click \in IF Drafts = {} THEN {<<>>}
               ELSE [Clicks -> [gate : Drafts, wants : {"approved", "rejected"}, at : {"idle"}, event : {0}]]
  /\ offered = {} /\ busy = {}
  /\ decided = [r \in Drafts |-> Undecided]

At(c, place) == click[c].at = place
Wanted(c) == click[c].wants
Moves(c, place) == click' = [click EXCEPT ![c].at = place]
Ends(c, answer) == Moves(c, answer) /\ busy' = busy \ {click[c].gate}

(* The page lists the pending gates, or the poll posts one to Slack.        *)
Offer(r) ==
  /\ PendingGate(r) /\ r \notin offered
  /\ offered' = offered \cup {r}
  /\ UNCHANGED <<vars, click, busy, decided>>

(* decide, up to its first await.                                           *)
Refused(c) == LET r == click[c].gate IN
  \/ r \in busy /\ Moves(c, "error")
  \/ r \notin busy /\ decided[r] = Wanted(c) /\ Moves(c, "duplicate")
  \/ r \notin busy /\ decided[r] \notin {Undecided, Wanted(c)} /\ Moves(c, "conflict")

Click(c) == LET r == click[c].gate IN
  /\ At(c, "idle") /\ r \in offered
  /\ \/ Refused(c) /\ UNCHANGED busy
     \/ r \notin busy /\ decided[r] = Undecided /\ Moves(c, "gate") /\ busy' = busy \cup {r}
  /\ UNCHANGED <<vars, offered, decided>>

(* getRun and getRunSteps.                                                  *)
ReadGate(c) ==
  /\ At(c, "gate")
  /\ \/ PendingGate(click[c].gate) /\ Moves(c, "emit") /\ UNCHANGED busy
     \/ ~PendingGate(click[c].gate) /\ Ends(c, "error")
  /\ UNCHANGED <<vars, offered, decided>>

(* The emit answers with the event already stored under the key, if any.    *)
Stored(r) == {i \in DOMAIN log : log[i].key = DecisionKey(r)}
(* Mutant: the event is emitted without the gate's key being looked up.     *)
EmittedAgain(c) == LET r == click[c].gate IN
  log' = Append(log, [on |-> Gate(r), name |-> Wanted(c), by |-> 0, about |-> 0, key |-> DecisionKey(r)])

Emitted(c) == LET r == click[c].gate IN
  log' = IF Stored(r) # {} THEN log
         ELSE Append(log, [on |-> Gate(r), name |-> Wanted(c), by |-> 0, about |-> 0, key |-> DecisionKey(r)])

EmitDecision(c) ==
  /\ At(c, "emit")
  /\ Emitted(c)
  /\ click' = [click EXCEPT ![c].at = "stored", ![c].event = CHOOSE i \in DOMAIN log' : log'[i].key = DecisionKey(click[c].gate)]
  /\ UNCHANGED <<job, cell, run, hit, faults, offered, busy, decided>>

LoseEmit(c) ==
  /\ At(c, "emit") /\ faults < MaxFaults
  /\ Emitted(c) /\ faults' = faults + 1
  /\ Ends(c, "error")
  /\ UNCHANGED <<job, cell, run, hit, offered, decided>>

(* getEvent: what is stored decides, whatever was clicked.                  *)
ReadStored(c) == LET stored == log[click[c].event].name IN
  /\ At(c, "stored")
  /\ decided' = [decided EXCEPT ![click[c].gate] = stored]
  /\ Ends(c, IF stored = Wanted(c) THEN "accepted" ELSE "conflict")
  /\ UNCHANGED <<vars, offered>>

(* The inbox process dies; its memory and its requests with it.             *)
RestartInbox ==
  /\ faults < MaxFaults /\ faults' = faults + 1
  /\ click' = [c \in DOMAIN click |-> IF click[c].at \in {"gate", "emit", "stored"} THEN [click[c] EXCEPT !.at = "error"]
                                ELSE click[c]]
  /\ busy' = {} /\ decided' = [r \in Drafts |-> Undecided]
  /\ UNCHANGED <<job, log, cell, run, hit, offered>>

InboxNext ==
  \/ \E r \in Drafts : Offer(r)
  \/ \E c \in DOMAIN click : Click(c) \/ ReadGate(c) \/ EmitDecision(c) \/ LoseEmit(c) \/ ReadStored(c)
  \/ Drafts # {} /\ RestartInbox

-----------------------------------------------------------------------------
(* The first stored decision of a gate wins, and every click that is        *)
(* answered learns it: accepted and duplicate mean that it is what was      *)
(* clicked, conflict that it is not, also when answers were lost and the    *)
(* inbox started over.  The run, if its wait is answered at all, goes on    *)
(* with that decision.                                                      *)
FirstDecisionWins ==
  \A r \in Drafts :
    LET decision == {log[i].name : i \in Stored(r)}
        clicks == {c \in DOMAIN click : click[c].gate = r} IN
      /\ Cardinality(Stored(r)) <= 1
      /\ \A c \in clicks : /\ click[c].at \in {"accepted", "duplicate"} => decision = {Wanted(c)}
                           /\ At(c, "conflict") => decision # {} /\ Wanted(c) \notin decision
      /\ Did(r, "approve") => {Decisions[Memo(r, "approve")]} = decision
=============================================================================
