------------------------------ MODULE Examples ------------------------------
(* The examples whose workers are durable functions over streams, buckets   *)
(* and projections, each deployed alone: a behaviour is one of the programs *)
(* below, with the clients that drive it and the faults that hit it.        *)
EXTENDS OrderManagement, FraudDetection, FileUpload, RagIngest, TodoWeb, Quickstarts,
        MemoryAgents, ApprovalInbox, Notifier

NotDeployed == Function("none", <<"never">>, <<>>)
Program(most, S) == [faults |-> most, feed |-> Quiet,
                     runs |-> [i \in Runs |-> IF i \in DOMAIN S THEN S[i] ELSE NotDeployed]]
Watched(most, F) == [Program(most, <<>>) EXCEPT !.feed = F]

(* The longest program has five runs.                                       *)
ASSUME ProgramsAssumption == 1..5 \subseteq Runs

(* Two create.order commands of one order, and another order.               *)
DuplicateOrder(valid) ==
  Program(2, <<PlaceOrder("o1", TRUE), PlaceOrder("o1", valid), FulfillOrder("o1")>>)
TwoOrders ==
  Program(0, <<PlaceOrder("o1", TRUE), FulfillOrder("o1"), PlaceOrder("o2", TRUE), FulfillOrder("o2")>>)

(* Two transactions of one card, and one that is delivered twice.           *)
Purchase(id) == Transaction(id, "card", FALSE, TRUE, TRUE, "low")
RacingCards == Program(1, <<EvaluateFraud(Purchase("t1")), EvaluateFraud(Purchase("t2"))>>)
DuplicateTransaction == Program(2, <<EvaluateFraud(Purchase("t1")), EvaluateFraud(Purchase("t1"))>>)

(* An object replaced while its report is made.                             *)
Uploads == Program(2, <<Upload("object"), Upload("object"), ProcessUpload("object", "report", 1),
                        ProcessUpload("object", "report", 2)>>)

(* Two ingests of a file somebody edits.                                    *)
Ingests == Program(1, <<IngestCorpus("doc"), IngestCorpus("doc"), Edit("doc")>>)

Todos == Program(2, <<User(<<AddTodo("t1"), AddTodo("t2")>>),
                      UserOf("t1", <<ToggleTodo("t1", TRUE), ToggleTodo("t1", FALSE)>>),
                      UserOf("t2", <<ToggleTodo("t2", TRUE), DeleteTodo("t2")>>),
                      ProcessTodo("t1", "todo.added")>>)

(* A client that orders twice, and the programs that process the orders.    *)
QuickOrdering ==
  Program(2, <<PlaceOrders("o1", "o2"), QuickOrder("o1"), QuickOrder("o2"), HourlyOrderReport>>)
GoOrdering ==
  Program(2, <<PlaceOrders("o1", "o2"), GoProcessOrder("o1", TRUE), GoProcessOrder("o2", FALSE)>>)
FlaskOrdering == Program(2, <<PostTwice("o1", "o2"), process_order("o1"), process_order("o2")>>)

(* The script is run twice.                                                 *)
Compliance == Program(1, <<Setup, Setup, ProcessOrderCreated, ProcessOrderShipped>>)

Research == Program(2, <<researchAgent("quick"), researchAgent("deep")>>)
Documents == Program(2, <<trigger("d1"), docProcessor("d1"), verify("d1"), docProcessor("d1")>>)

-----------------------------------------------------------------------------
(* The agents that wait for people.                                         *)
Acme == <<"acme", 2>>
AcmeBefore == <<"acme", 1>>
Statement(c) == ReconcileStatement(c, AcmeBefore)

(* Two statements of one period, and a person who declines.                 *)
Statements ==
  Program(1, <<Statement(Acme), Statement(Acme), ReconciliationCase(3, Acme, TRUE), ApproveContact(3, "rejected")>>)

(* The sweep against a person who approves, and against a reply.            *)
SweptReply(signal) ==
  Program(1, <<Statement(Acme), ReconciliationCase(2, Acme, TRUE), ApproveContact(2, "approved"),
               SweepDeadlines(2, Acme), ReplyToCase(Acme, signal)>>)
Untriaged == Program(1, <<Statement(Acme), ReconciliationCase(2, Acme, FALSE)>>)

(* Two periods of one counterparty.                                         *)
NextPeriod ==
  Program(1, <<Statement(AcmeBefore), ReconciliationCase(2, AcmeBefore, TRUE), ApproveContact(2, "approved"),
               ReplyToCase(AcmeBefore, "confirmed"), Statement(Acme)>>)

PullRequest == <<"repo", 7>>
Review ==
  Program(1, <<OpenPr(PullRequest), CodeReviewAgent(2, PullRequest), ApproveReview(2, "approved"),
               ApproveReview(2, "rejected")>>)

Draft(titled) == Program(1, <<ApprovalsAgent(1, titled)>>)

(* A failure told of twice, one more, and a projection that breaks twice.   *)
Alerting == Watched(2, [runs |-> <<"a", NoFailure, "a", "b">>, health |-> <<"broken", "broken", NoFailure, "broken">>])

Programs == {DuplicateOrder(TRUE), DuplicateOrder(FALSE), TwoOrders, RacingCards, DuplicateTransaction,
             Uploads, Ingests, Todos, QuickOrdering, GoOrdering, FlaskOrdering, Compliance, Research,
             Documents, Statements, SweptReply("confirmed"), SweptReply("unclear"), Untriaged, NextPeriod,
             Review, Draft(TRUE), Draft(FALSE), Alerting}

(* A program that less may hit starts with the rest of its faults spent.    *)
Init ==
  /\ \E p \in Programs : job = p.runs /\ frames = p.feed /\ faults = MaxFaults - p.faults
  /\ cell = [c \in {"card", "object", "report", "doc"} |-> 0]
  /\ InitEngine
  /\ InitInbox
  /\ InitNotifier

ExamplesNext ==
  \/ Next /\ UNCHANGED <<inboxVars, notifierVars>>
  \/ InboxNext /\ UNCHANGED notifierVars
  \/ NotifierNext /\ UNCHANGED inboxVars

exampleVars == <<vars, inboxVars, notifierVars>>
Spec == Init /\ [][ExamplesNext]_exampleVars

-----------------------------------------------------------------------------
(* What an expected version protects: each order's stream begins with the   *)
(* one order.placed, a transaction's is a beginning of the chain and the    *)
(* compliance trail one of the life cycle, whoever races to write it and    *)
(* whatever is executed again.                                              *)
StreamsKeepTheirOrder == OrdersArePlacedOnce /\ ReasoningIsAChain /\ AuditTrailInOrder

(* What is made from a content is filed under that content: a report under  *)
(* the version that asked for it, an index entry under the text it embeds,  *)
(* although the object or the file is replaced in between.                  *)
ResultsMatchTheirContent == ReportsArePinned /\ IndexedIsComplete

(* What a projection says is what happened, each in the measure its reducer *)
(* allows: lists and last events although events reach it twice, counts as  *)
(* long as no step repeated its event.                                      *)
ProjectionsFollowTheLog ==
  TodoListIsExact /\ MemoryAgreesWithRuns /\ RulesAreCurated /\ DashboardIsRecount /\ EmailsFollowOrders
=============================================================================
