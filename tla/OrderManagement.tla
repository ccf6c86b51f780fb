--------------------------- MODULE OrderManagement ---------------------------
(* ddd-order-management/worker.ts: the place-order command handler, the     *)
(* fulfill-order saga and the two projections of the orders' streams.       *)
EXTENDS DurableFunctions

ValidateOrder(o, valid) ==
  Step("validate-order", <<Refuse(IF valid THEN {} ELSE Anything), Read(o), Refuse(Something)>>)

(* Mutant: the append names no version.                                     *)
PlacedBlindly(o) == Step("record-order-placed", <<Record(o, "order.placed", AnyVersion)>>)

RecordOrderPlaced(o) == Step("record-order-placed", <<Record(o, "order.placed", Version(0))>>)

PlaceOrder(o, valid) ==
  Function("place-order", Request, <<ValidateOrder(o, valid), RecordOrderPlaced(o)>>)

(* The compensation reads the head of the stream again: other steps may     *)
(* have moved it.                                                           *)
ReversePayment(o) == <<Read(o), Refuse({0}), Record(o, "order.cancelled", AsRead)>>

(* Mutant: the step has no compensation.                                    *)
ConfirmedForGood(o) ==
  Step("confirm-payment", <<Read(o), Refuse({0}), Record(o, "order.confirmed", AsRead)>>)

ConfirmPayment(o) ==
  Undoing(Step("confirm-payment", <<Read(o), Refuse({0}), Record(o, "order.confirmed", AsRead)>>),
          ReversePayment(o))

(* Its compensation only logs.                                              *)
ShipOrder(o) == Step("ship-order", <<Record(o, "order.shipped", After("confirm-payment"))>>)

AnnounceShipped == Step("publish", <<Publish("notifications.order.shipped", "topic")>>)

FulfillOrder(o) ==
  Function("fulfill-order", OnFact(o, "order.placed"),
           <<ConfirmPayment(o), ShipOrder(o), AnnounceShipped>>)

-----------------------------------------------------------------------------
(* The projections.                                                         *)

Statuses == {"placed", "confirmed", "shipped", "cancelled"}
StatusAfter(name) ==
  CASE name = "order.placed" -> "placed" [] name = "order.confirmed" -> "confirmed"
    [] name = "order.shipped" -> "shipped" [] name = "order.cancelled" -> "cancelled"

OrderSummary(o) ==
  LET Summarise(status, f) == IF f.on = o THEN StatusAfter(f.name) ELSE status
  IN Folded(Summarise, "unknown", log)

(* Counts move with each event, whatever was counted for that order before. *)
Moved(n, f) ==
  CASE f.name = "order.placed" -> [n EXCEPT !["placed"] = @ + 1]
    [] f.name = "order.confirmed" -> [n EXCEPT !["placed"] = @ - 1, !["confirmed"] = @ + 1]
    [] f.name = "order.shipped" -> [n EXCEPT !["confirmed"] = @ - 1, !["shipped"] = @ + 1]
    [] f.name = "order.cancelled" -> [n EXCEPT !["confirmed"] = IF @ > 0 THEN @ - 1 ELSE 0,
                                               !["cancelled"] = @ + 1]
    [] OTHER -> n

OrderDashboard == Folded(Moved, [s \in Statuses |-> 0], log)

Orders == {job[r].steps[1].does[1].on : r \in {q \in Runs : job[q].id = "fulfill-order"}}

-----------------------------------------------------------------------------
(* Two create.order commands of one order may both find no stream: the      *)
(* expected version lets one of them place it, whatever is executed again,  *)
(* and a place-order run that completes is the one that did.                *)
OrdersArePlacedOnce ==
  \A o \in Orders :
    /\ Cardinality(Facts(o, "order.placed")) <= 1
    /\ \A i \in Stream(o) : VersionOf(i) = 1 => log[i].name = "order.placed"
    /\ \A r \in Runs : /\ job[r].id = "place-order" /\ run[r].mode = "completed"
                       /\ job[r].steps[2].does[1].on = o
                       => \E i \in Stream(o) : log[i].by = r

(* The saga ships what it confirmed or cancels it, and nothing else: an     *)
(* order is confirmed twice, or cancelled after it shipped, only when a     *)
(* step of its saga was executed again after its append had been recorded,  *)
(* and a saga that fails leaves no order confirmed unless its undo was hit. *)
Once(o, name) == Cardinality(Facts(o, name)) <= 1
SagaIsAllOrNothing ==
  \A r \in Runs : job[r].id = "fulfill-order" =>
    LET o == job[r].steps[1].does[1].on IN
      /\ ({i \in 1..4 : <<r, "forward", i>> \in hit} = {}) =>
           /\ Once(o, "order.confirmed") /\ Once(o, "order.shipped")
           /\ Facts(o, "order.shipped") # {} => Facts(o, "order.cancelled") = {}
      /\ (run[r].mode = "failed" /\ Did(r, "confirm-payment") /\ <<r, "undo", 1>> \notin hit) =>
           \E i \in Facts(o, "order.cancelled") : VersionOf(i) = StreamVersion(o)
      /\ run[r].mode = "completed" => OrderSummary(o) = "shipped"

(* The dashboard counts the orders in each status, as long as every event   *)
(* reached it once and no saga repeated one.                                *)
DashboardIsRecount ==
  hit = {} /\ Orders # {} =>
    \A s \in Statuses : OrderDashboard[s] = Cardinality({o \in Orders : OrderSummary(o) = s})
=============================================================================
