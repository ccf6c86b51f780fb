----------------------------- MODULE Quickstarts -----------------------------
(* The introductory programs: quickstart, go-quickstart, the Flask example  *)
(* and the compliance audit trail.                                          *)
EXTENDS DurableFunctions

(* quickstart/worker.ts: the first three steps compute, the last one is     *)
(* seen outside the run.                                                    *)
ValidateQuickOrder == Step("validate-order", <<>>)
ProcessPayment == Step("process-payment", <<>>)
SendConfirmation == Step("send-confirmation", <<>>)
PublishEmail == Step("publish", <<Publish("notifications.email", "email")>>)
QuickOrder(o) ==
  Function("process-order", OnFact(o, "order.placed"),
           <<ValidateQuickOrder, ProcessPayment, SendConfirmation, PublishEmail>>)

HourlyOrderReport ==
  Function("hourly-order-report", OnFact("cron", "order.report.tick"), <<Step("snapshot-stats", <<>>)>>)

(* The clients: `ironflow emit', and the cron scheduler.                    *)
PlaceOrders(o, p) ==
  Script("emit", Request, <<Step("first", <<Emit("order.placed", o)>>), Step("second", <<Emit("order.placed", p)>>),
                            Step("tick", <<Emit("order.report.tick", "cron")>>)>>, "skip")

(* The reducer of order-stats; every order has a total of 10 here.          *)
Total == 10
Counted(s, f) == IF f.name = "order.placed" THEN [orders |-> s.orders + 1, revenue |-> s.revenue + Total] ELSE s
OrderStats(twice) == Folded(Counted, [orders |-> 0, revenue |-> 0], Handled(twice))

-----------------------------------------------------------------------------
(* go-quickstart/main.go: the same without the publish, and a payload that  *)
(* does not parse fails the run before its first step.                      *)
ParseOrder(parses) == Step("validate-order", <<Refuse(IF parses THEN {} ELSE Anything)>>)
ChargeOrder == Step("process-payment", <<>>)
ConfirmOrder == Step("send-confirmation", <<>>)
GoProcessOrder(o, parses) ==
  Function("process-order", OnFact(o, "order.placed"), <<ParseOrder(parses), ChargeOrder, ConfirmOrder>>)

(* flask-single-container: the request is refused before anything is        *)
(* recorded, and a client that got no answer posts again.                   *)
place_order(o, wellFormed) ==
  Step("post", <<Refuse(IF wellFormed THEN {} ELSE Anything), Emit("order.placed", o)>>)
PostTwice(o, p) == Script("client", Request, <<place_order(o, TRUE), place_order(p, TRUE), place_order(p, FALSE)>>, "skip")
process_order(o) == Function("process-order", OnFact(o, "order.placed"), <<Step("price", <<>>), Step("receipt", <<>>)>>)

-----------------------------------------------------------------------------
(* compliance-audit: setup.ts appends the life cycle one version at a time, *)
(* and goes on to the next event when an append fails.                      *)
orderLifecycle == <<"OrderCreated", "OrderConfirmed", "OrderPacked", "OrderShipped", "OrderDelivered">>
Trail == "order-demo-001"
SeedEvent(i) == Step(orderLifecycle[i], <<Record(Trail, orderLifecycle[i], Version(i - 1))>>)
Setup == Script("setup", Request, [i \in DOMAIN orderLifecycle |-> SeedEvent(i)], "skip")

ValidateCreated == Step("validate-order", <<>>)
ReserveInventory == Step("reserve-inventory", <<>>)
ProcessOrderCreated ==
  Function("process-order-created", OnFact(Trail, "OrderCreated"), <<ValidateCreated, ReserveInventory>>)

NotifyCustomer == Step("notify-customer", <<>>)
UpdateTracking == Step("update-tracking", <<>>)
ProcessOrderShipped ==
  Function("process-order-shipped", OnFact(Trail, "OrderShipped"), <<NotifyCustomer, UpdateTracking>>)

(* What setup counts as failed; any makes it say the stream is incomplete.  *)
Failures(r) == {i \in DOMAIN run[r].memo : run[r].memo[i] = 0}

-----------------------------------------------------------------------------
(* Nobody is mailed about an order that order-stats has not counted, and    *)
(* an order is mailed about twice only when a step of its run was executed  *)
(* again; a run that completes has mailed.                                  *)
Mailed(r) == Cardinality(FactsBy(r, "notifications.email"))
QuickOrders == {r \in Runs : job[r].id = "process-order" /\ Len(job[r].steps) = 4}
EmailsFollowOrders ==
  /\ Cardinality({r \in QuickOrders : Mailed(r) > 0}) <= OrderStats({}).orders
  /\ \A r \in QuickOrders : /\ Mailed(r) > 1 => \E h \in hit : h[1] = r
                            /\ run[r].mode = "completed" => Mailed(r) > 0

(* The trail is the life cycle as far as it has come, with no event twice   *)
(* or out of order, whoever else seeds it and whichever answer is lost; the *)
(* setup that counted no failure wrote all of it.                           *)
AuditTrailInOrder ==
  (\E r \in Runs : job[r].id = "setup") => LET all == Len(orderLifecycle) IN
    /\ \A i \in Stream(Trail) : VersionOf(i) <= all /\ log[i].name = orderLifecycle[VersionOf(i)]
    /\ \A r \in Runs : /\ job[r].id = "setup" /\ run[r].mode = "completed" /\ Failures(r) = {}
                       => StreamVersion(Trail) = all /\ \A i \in Stream(Trail) : log[i].by = r
=============================================================================
