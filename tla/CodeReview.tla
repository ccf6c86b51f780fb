------------------------------ MODULE CodeReview ------------------------------
(* agents/code-review-agent: a review that is posted once a person approves *)
(* it.  The comment carries no key.                                         *)
EXTENDS Reconciliation

FetchDiff == Step("fetch-diff", <<>>)
ReviewWith == Step("llm.complete", <<>>)
(* Mutant: the decision is not looked at.                                   *)
PostAnyway(pr) == Step("post-comment", <<Emit("comment", pr)>>)

PostComment(pr) == OnlyIf(Step("post-comment", <<Emit("comment", pr)>>), "approve", {1})
CodeReviewAgent(r, pr) ==
  Function("code-review-agent", OnFact(pr, "pr.opened"), <<FetchDiff, ReviewWith, Approve(r), PostComment(pr)>>)

OpenPr(pr) == Script("trigger", Request, <<Step("emit", <<Emit("pr.opened", pr)>>)>>, "stop")
ApproveReview(r, decision) == Script("approve", Request, <<Step("emit", <<Emit(decision, Gate(r))>>)>>, "stop")

-----------------------------------------------------------------------------
(* What an agent does outside, a contact or a comment, follows an approval  *)
(* of its own run's gate, and no gate that a rejection reached first opens. *)
(* A contact is made once, however often its step is executed; a comment    *)
(* is posted again only when its step is.                                   *)
ActionsNeedApproval ==
  \A r \in Runs : job[r].id \in {"reconciliation-case", "code-review-agent"} =>
    LET acts == {i \in DOMAIN log : log[i].by = r /\ log[i].name \in {"contact", "comment"}} IN
      /\ \A i \in acts : Before(i, Gate(r), "approved")
      /\ acts # {} => Memo(r, "approve") = 1
      /\ Cardinality(acts) > 1 => \E i \in acts : log[i].name = "comment" /\ <<r, "forward", 4>> \in hit
=============================================================================
