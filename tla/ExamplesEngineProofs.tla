----------------------- MODULE ExamplesEngineProofs -----------------------
(* Proofs about what the examples' runs leave behind in the engine: the     *)
(* streams of facts stay in order, a result has the content of its          *)
(* document, a placed order's saga ends in all or nothing, and a            *)
(* reconciliation case closes rightly.  They rest on EngineInv, which       *)
(* ExamplesProofs shows: what a run has done is what its answers say.       *)
EXTENDS ExamplesProofs

-----------------------------------------------------------------------------
(* ddd-order-management: the streams of the orders.                         *)
LEMMA Effectless ==
  /\ \A e : e.op \in Telling => e.op # "read" /\ e.op # "refuse"
  /\ \A s, n, v : /\ Record(s, n, v).op = "append" /\ Record(s, n, v).on = s /\ Record(s, n, v).name = n
                  /\ Record(s, n, v).expect = v /\ Record(s, n, v).key = NoKey
  /\ \A s : Read(s).op = "read" /\ Refuse(s).op = "refuse"
  /\ \A t, s : Publish(t, s).op = "publish" /\ Publish(t, s).on = s /\ Publish(t, s).name = t
BY DEF Telling, Record, Read, Refuse, Publish

LEMMA PlaceOrderIs ==
  ASSUME NEW r, NEW o, NEW v, job[r] = PlaceOrder(o, v)
  PROVE  /\ job[r].id = "place-order" /\ job[r].errors = "retry" /\ job[r].trigger = Request
         /\ DOMAIN Steps(r) = {1, 2} /\ Len(Steps(r)) = 2
         /\ \A j \in DOMAIN Calls(r, 1) : Calls(r, 1)[j].op \notin Telling
         /\ DOMAIN Calls(r, 2) = {1} /\ Len(Calls(r, 2)) = 1
         /\ Calls(r, 2)[1] = Record(o, "order.placed", Version(0))
         /\ Steps(r)[2].needs = <<>> /\ Steps(r)[1].undo = <<>> /\ Steps(r)[2].undo = <<>>
         /\ job[r].steps[2].does[1].on = o
<1>1. PICK x : x = IF v THEN {} ELSE Anything
  OBVIOUS
<1>2. PICK list, one, two :
        /\ one = <<Refuse(x), Read(o), Refuse(Something)>> /\ two = <<Record(o, "order.placed", Version(0))>>
        /\ list = <<Step("validate-order", one), Step("record-order-placed", two)>>
  OBVIOUS
<1>3. job[r] = Function("place-order", Request, list)
  BY <1>1, <1>2 DEF PlaceOrder, ValidateOrder, RecordOrderPlaced
<1>4. /\ job[r].id = "place-order" /\ job[r].errors = "retry" /\ job[r].trigger = Request /\ job[r].steps = list
  BY <1>3 DEF Function
<1>5. /\ DOMAIN list = {1, 2} /\ Len(list) = 2 /\ DOMAIN one = {1, 2, 3} /\ DOMAIN two = {1} /\ Len(two) = 1
      /\ list[1] = Step("validate-order", one) /\ list[2] = Step("record-order-placed", two)
      /\ one[1] = Refuse(x) /\ one[2] = Read(o) /\ one[3] = Refuse(Something) /\ two[1] = Record(o, "order.placed", Version(0))
  BY <1>2
<1>6. \A n, d : Step(n, d).does = d /\ Step(n, d).undo = <<>> /\ Step(n, d).needs = <<>>
  BY DEF Step
<1>7. Calls(r, 1) = one /\ Calls(r, 2) = two /\ Steps(r) = list
  BY <1>4, <1>5, <1>6 DEF Calls, Steps
<1>8. \A j \in DOMAIN one : one[j].op \notin Telling
  BY <1>5, Effectless DEF Telling
<1>9. two[1].on = o
  BY <1>5, Effectless
<1> QED BY <1>4, <1>5, <1>6, <1>7, <1>8, <1>9

(* The steps of an order's saga.                                            *)
FulfillSteps(r, o) ==
  /\ job[r].id = "fulfill-order" /\ job[r].errors = "retry" /\ job[r].trigger = <<"fact", o, "order.placed">>
  /\ DOMAIN Steps(r) = {1, 2, 3} /\ Len(Steps(r)) = 3
  /\ Steps(r)[1].name = "confirm-payment" /\ Steps(r)[2].name = "ship-order" /\ Steps(r)[3].name = "publish"
  /\ \A i \in {1, 2, 3} : Steps(r)[i].needs = <<>>
  /\ Calls(r, 1) = <<Read(o), Refuse({0}), Record(o, "order.confirmed", AsRead)>>
  /\ Calls(r, 2) = <<Record(o, "order.shipped", After("confirm-payment"))>>
  /\ Calls(r, 3) = <<Publish("notifications.order.shipped", "topic")>>
  /\ Steps(r)[1].undo = ReversePayment(o) /\ Steps(r)[2].undo = <<>> /\ Steps(r)[3].undo = <<>>
  /\ job[r].steps[1].does[1].on = o

LEMMA FulfillOrderIs ==
  ASSUME NEW r, NEW o, job[r] = FulfillOrder(o)
  PROVE  FulfillSteps(r, o)
<1>1. PICK list, one, two, three :
        /\ one = <<Read(o), Refuse({0}), Record(o, "order.confirmed", AsRead)>>
        /\ two = <<Record(o, "order.shipped", After("confirm-payment"))>>
        /\ three = <<Publish("notifications.order.shipped", "topic")>>
        /\ list = <<Undoing(Step("confirm-payment", one), ReversePayment(o)), Step("ship-order", two), Step("publish", three)>>
  OBVIOUS
<1>2. job[r] = Function("fulfill-order", OnFact(o, "order.placed"), list)
  BY <1>1 DEF FulfillOrder, ConfirmPayment, ShipOrder, AnnounceShipped
<1>3. /\ job[r].id = "fulfill-order" /\ job[r].errors = "retry" /\ job[r].trigger = <<"fact", o, "order.placed">>
      /\ job[r].steps = list
  BY <1>2 DEF Function, OnFact
<1>4. /\ DOMAIN list = {1, 2, 3} /\ Len(list) = 3
      /\ list[1] = Undoing(Step("confirm-payment", one), ReversePayment(o))
      /\ list[2] = Step("ship-order", two) /\ list[3] = Step("publish", three)
  BY <1>1
<1>5. /\ \A n, d : Step(n, d).does = d /\ Step(n, d).undo = <<>> /\ Step(n, d).needs = <<>> /\ Step(n, d).name = n
      /\ \A n, d, u : /\ Undoing(Step(n, d), u).does = d /\ Undoing(Step(n, d), u).undo = u
                      /\ Undoing(Step(n, d), u).needs = <<>> /\ Undoing(Step(n, d), u).name = n
  BY DEF Step, Undoing
<1>6. Calls(r, 1) = one /\ Calls(r, 2) = two /\ Calls(r, 3) = three /\ Steps(r) = list
  BY <1>3, <1>4, <1>5 DEF Calls, Steps
<1>7. one[1] = Read(o) /\ Read(o).on = o
  BY <1>1 DEF Read
<1> QED BY <1>1, <1>3, <1>4, <1>5, <1>6, <1>7 DEF FulfillSteps

(* Who tells of what, in a program of orders.                               *)
Placing(k, o) == \E v : job[log[k].by] = PlaceOrder(o, v) /\ log[k].name = "order.placed" /\ VersionOf(k) = 1
SagaNames == {"order.confirmed", "order.shipped", "order.cancelled"}
Fulfilling(k, o) ==
  /\ job[log[k].by] = FulfillOrder(o) /\ log[k].name \in SagaNames
  /\ \E k2 \in Facts(o, "order.placed") : k2 < k
LEMMA OrderFacts ==
  ASSUME EngineInv, OrderProgram(job), Drafts = {}, NEW k \in DOMAIN log
  PROVE  /\ log[k].by \in Runs
         /\ log[k].on # "topic" \/ log[k].name # "notifications.order.shipped" =>
              Placing(k, log[k].on) \/ Fulfilling(k, log[k].on)
<1>1. PICK r \in Runs : r = log[k].by /\ FromRun(k, r)
  BY FactsHaveRuns
<1>2. PICK i \in DOMAIN Steps(r) : DoneBy(k, r, i) \/ UndoneBy(k, r, i)
  BY <1>1 DEF FromRun
<1>3. CASE job[r] = NotDeployed
  <2>1. Steps(r) = <<>>
    BY <1>3 DEF Steps, NotDeployed, Function
  <2> QED BY <1>2, <2>1
<1>4. ASSUME NEW o, NEW v, job[r] = PlaceOrder(o, v) PROVE Placing(k, log[k].on)
  <2>1. i = 2 /\ DoneBy(k, r, 2)
    BY <1>2, <1>4, PlaceOrderIs DEF DoneBy, UndoneBy
  <2>2. IsFactOf(k, r, Record(o, "order.placed", Version(0)))
    BY <1>4, <2>1, PlaceOrderIs DEF DoneBy
  <2>3. Version(0)[1] = "at" /\ Version(0)[2] = 0
    BY DEF Version
  <2>4. log[k].on = o /\ log[k].name = "order.placed" /\ VersionOf(k) = 1
    BY <2>2, <2>3, Effectless DEF IsFactOf
  <2> QED BY <1>1, <1>4, <2>4 DEF Placing
<1>5. ASSUME NEW o, job[r] = FulfillOrder(o), log[k].on # "topic" \/ log[k].name # "notifications.order.shipped"
      PROVE  Fulfilling(k, log[k].on)
  <2>1. PICK e : IsFactOf(k, r, e) /\ e.op \in Telling /\
                 (\/ e = Record(o, "order.confirmed", AsRead) \/ e = Record(o, "order.shipped", After("confirm-payment"))
                  \/ e = Publish("notifications.order.shipped", "topic") \/ e = Record(o, "order.cancelled", AsRead)
                  \/ e = Read(o) \/ e = Refuse({0}))
    <3>1. CASE DoneBy(k, r, i)
      <4>1. PICK e, j : j \in DOMAIN Calls(r, i) /\ e = Calls(r, i)[j] /\ IsFactOf(k, r, e) /\ e.op \in Telling
        BY <3>1 DEF DoneBy
      <4>2. i \in {1, 2, 3}
        BY <1>5, FulfillOrderIs DEF FulfillSteps
      <4> QED BY <1>5, <4>1, <4>2, FulfillOrderIs DEF FulfillSteps
    <3>2. CASE UndoneBy(k, r, i)
      <4>1. PICK e, j : j \in DOMAIN Steps(r)[i].undo /\ e = Steps(r)[i].undo[j] /\ IsFactOf(k, r, e) /\ e.op \in Telling
        BY <3>2 DEF UndoneBy
      <4>2. i \in {1, 2, 3}
        BY <1>5, FulfillOrderIs DEF FulfillSteps
      <4> QED BY <1>5, <4>1, <4>2, FulfillOrderIs DEF ReversePayment, FulfillSteps
    <3> QED BY <1>2, <3>1, <3>2
  <2>2. log[k].on = o /\ log[k].name \in SagaNames
    BY <1>5, <2>1, Effectless DEF IsFactOf, SagaNames
  <2>3. \E k2 \in Facts(o, "order.placed") : k2 < k
    <3>1. job[r].trigger[1] = "fact" /\ job[r].trigger[2] = o /\ job[r].trigger[3] = "order.placed"
      BY <1>5, FulfillOrderIs DEF FulfillSteps
    <3> QED BY <1>1, <3>1 DEF FromRun, Caused
  <2> QED BY <1>1, <1>5, <2>2, <2>3 DEF Fulfilling
<1>6. OrderJob(job[r])
  BY DEF OrderProgram
<1> QED BY <1>1, <1>3, <1>4, <1>5, <1>6 DEF OrderJob

LEMMA OrdersAre ==
  ASSUME EngineInv, DeployedKinds, NEW o \in Orders
  PROVE  OrderProgram(job) /\ Drafts = {} /\ o # "topic"
<1>1. PICK r \in Runs : job[r].id = "fulfill-order" /\ o = job[r].steps[1].does[1].on
  BY DEF Orders
<1>2. OrderProgram(job) /\ Drafts = {} /\ OrderJob(job[r])
  BY <1>1, OneKind DEF Kept4, OrderProgram
<1>3. \A p, v : PlaceOrder(p, v).id = "place-order" /\ NotDeployed.id = "none"
  BY DEF PlaceOrder, NotDeployed, Function
<1>4. PICK p \in {"o1", "o2"} : job[r] = FulfillOrder(p)
  BY <1>1, <1>2, <1>3 DEF OrderJob
<1>5. job[r].steps[1].does[1].on = p
  BY <1>4, FulfillOrderIs DEF FulfillSteps
<1>6. o = p
  BY <1>1, <1>5
<1> QED BY <1>2, <1>6

(* A run that is done has told what its steps always tell.                  *)
LEMMA DoneIsTold ==
  ASSUME EngineInv, NEW r \in Runs, run[r].mode = "completed", job[r].errors # "skip",
         NEW i \in DOMAIN Steps(r), NEW j \in DOMAIN Calls(r, i), PlainCall(r, i, j)
  PROVE  HasFact(r, Calls(r, i)[j])
<1>1. IsPlaced(r) /\ Told(r) /\ \E S : Steps(r) \in Seq(S)
  BY DEF EngineInv, GoodFunction, Steps
<1>2. PICK n : n = Len(run[r].memo) /\ n = Len(Steps(r))
  BY <1>1 DEF IsPlaced, Placed
<1>3. i <= n
  <2>1. n \in Nat /\ DOMAIN Steps(r) = 1 .. n
    BY <1>1, <1>2, LenProperties
  <2> QED BY <2>1
<1>4. Reached(r, run[r], i, j)
  BY <1>2, <1>3 DEF Reached
<1> QED BY <1>1, <1>4 DEF Told

(* An order's stream begins with its one order.placed, and a command that   *)
(* completes is the one that placed it: whichever of two commands of an     *)
(* order finds no stream first, and whatever is executed again              *)
(* (place-order, fulfill-order).                                            *)
THEOREM OrdersStayPlacedOnce == Spec => []OrdersArePlacedOnce
<1>1. ASSUME EngineInv, DeployedKinds PROVE OrdersArePlacedOnce
  <2> SUFFICES ASSUME NEW o \in Orders
               PROVE  /\ Cardinality(Facts(o, "order.placed")) <= 1
                      /\ \A i \in Stream(o) : VersionOf(i) = 1 => log[i].name = "order.placed"
                      /\ \A r \in Runs : /\ job[r].id = "place-order" /\ run[r].mode = "completed"
                                         /\ job[r].steps[2].does[1].on = o
                                         => \E i \in Stream(o) : log[i].by = r
    BY DEF OrdersArePlacedOnce
  <2>1. OrderProgram(job) /\ Drafts = {} /\ o # "topic" /\ LogIs
    BY <1>1, OrdersAre DEF EngineInv
  <2>2. \A i \in Stream(o) : i \in DOMAIN log /\ log[i].on = o /\ (Placing(i, o) \/ Fulfilling(i, o))
    BY <1>1, <2>1, OrderFacts DEF Stream
  <2>3. Facts(o, "order.placed") \subseteq Stream(o) /\ \A i \in Facts(o, "order.placed") : VersionOf(i) = 1
    BY <2>2 DEF Facts, Placing, Fulfilling, SagaNames
  <2>4. \A i, j \in Facts(o, "order.placed") : i = j
    <3>1. ASSUME NEW i \in Facts(o, "order.placed"), NEW j \in Facts(o, "order.placed") PROVE i = j
      BY <2>1, <2>2, <2>3, VersionsDiffer
    <3> QED BY <3>1
  <2>5. IsFiniteSet(Facts(o, "order.placed"))
    BY <2>1, <2>3, VersionsCount, FS_Subset
  <2>6. Cardinality(Facts(o, "order.placed")) <= 1
    BY <2>4, <2>5, AllSame
  <2>7. ASSUME NEW i \in Stream(o), VersionOf(i) = 1 PROVE ~Fulfilling(i, o)
    <3>1. SUFFICES ASSUME NEW k \in Facts(o, "order.placed"), k < i PROVE FALSE
      BY DEF Fulfilling
    <3>2. VersionOf(k) < VersionOf(i)
      BY <2>1, <2>2, <2>3, <3>1, VersionsCount
    <3> QED BY <2>3, <2>7, <3>2
  <2>8. \A i \in Stream(o) : VersionOf(i) = 1 => log[i].name = "order.placed"
    BY <2>2, <2>7 DEF Placing
  <2>9. ASSUME NEW r \in Runs, job[r].id = "place-order", run[r].mode = "completed", job[r].steps[2].does[1].on = o
        PROVE  \E i \in Stream(o) : log[i].by = r
    <3>1. OrderJob(job[r]) /\ \A p : FulfillOrder(p).id # "place-order" /\ NotDeployed.id # "place-order"
      BY <2>1 DEF OrderProgram, FulfillOrder, NotDeployed, Function
    <3>2. PICK p, v : job[r] = PlaceOrder(p, v)
      BY <2>9, <3>1 DEF OrderJob
    <3>3. /\ DOMAIN Calls(r, 2) = {1} /\ Len(Calls(r, 2)) = 1 /\ DOMAIN Steps(r) = {1, 2} /\ job[r].errors = "retry"
          /\ Calls(r, 2)[1] = Record(p, "order.placed", Version(0)) /\ Steps(r)[2].needs = <<>>
          /\ job[r].steps[2].does[1].on = p
      BY <3>2, PlaceOrderIs
    <3>4. PlainCall(r, 2, 1)
      <4>1. PICK e : e = Calls(r, 2)[1] /\ e.op = "append" /\ e.key = NoKey
        BY <3>3, Effectless
      <4> QED BY <3>3, <4>1 DEF PlainCall, Telling, NoWait
    <3>5. HasFact(r, Record(o, "order.placed", Version(0)))
      <4>1. HasFact(r, Calls(r, 2)[1])
        BY <1>1, <2>9, <3>3, <3>4, DoneIsTold
      <4>2. o = p
        BY <2>9, <3>3
      <4> QED BY <3>3, <4>1, <4>2
    <3> QED BY <3>5, Effectless DEF HasFact, IsFactOf, Stream
  <2> QED BY <2>6, <2>8, <2>9
<1> QED BY <1>1, ExamplesInvariance, PTL

-----------------------------------------------------------------------------
(* compliance-audit: the trail.                                             *)
Seeding(i) == Record(Trail, orderLifecycle[i], Version(i - 1))

LEMMA SetupIs ==
  ASSUME NEW r, job[r] = Setup
  PROVE  /\ job[r].errors = "skip" /\ DOMAIN Steps(r) = 1 .. 5 /\ Len(orderLifecycle) = 5 /\ Len(Steps(r)) = 5
         /\ \A i \in 1 .. 5 : /\ Calls(r, i) = <<Seeding(i)>> /\ Steps(r)[i].undo = <<>>
                              /\ Steps(r)[i].needs = <<>>
<1>1. DOMAIN orderLifecycle = 1 .. 5 /\ Len(orderLifecycle) = 5
  BY DEF orderLifecycle
<1>2. PICK list : list = [i \in DOMAIN orderLifecycle |-> SeedEvent(i)]
  OBVIOUS
<1>3. job[r].errors = "skip" /\ Steps(r) = list
  BY <1>2 DEF Setup, Script, Function, Steps
<1>4. \A i \in 1 .. 5 : list[i] = Step(orderLifecycle[i], <<Seeding(i)>>)
  BY <1>1, <1>2 DEF SeedEvent, Seeding
<1>5. list \in Seq({SeedEvent(i) : i \in 1 .. 5})
  BY <1>1, <1>2
<1>6. DOMAIN list = 1 .. 5
  BY <1>1, <1>2
<1>7. Len(list) = 5
  <2>1. PICK n : n = Len(list) /\ n \in Nat /\ DOMAIN list = 1 .. n
    BY <1>5, LenProperties
  <2>2. n = 5
    BY <1>6, <2>1
  <2> QED BY <2>1, <2>2
<1>8. \A n, d : Step(n, d).does = d /\ Step(n, d).undo = <<>> /\ Step(n, d).needs = <<>>
  BY DEF Step
<1> QED BY <1>1, <1>3, <1>4, <1>6, <1>7, <1>8 DEF Calls

LEMMA AuditorsIdle ==
  ASSUME NEW r, job[r] \in {NotDeployed, ProcessOrderCreated, ProcessOrderShipped}, NEW i \in DOMAIN Steps(r)
  PROVE  Calls(r, i) = <<>> /\ Steps(r)[i].undo = <<>>
<1>1. \A n : Step(n, <<>>).does = <<>> /\ Step(n, <<>>).undo = <<>>
  BY DEF Step
<1>2. Steps(r) = <<>> \/ \E m, n : Steps(r) = <<Step(m, <<>>), Step(n, <<>>)>>
  BY DEF Steps, NotDeployed, ProcessOrderCreated, ProcessOrderShipped, Function, ValidateCreated, ReserveInventory,
         NotifyCustomer, UpdateTracking
<1>3. CASE Steps(r) = <<>>
  BY <1>3
<1>4. ASSUME NEW m, NEW n, Steps(r) = <<Step(m, <<>>), Step(n, <<>>)>>
      PROVE  Calls(r, i) = <<>> /\ Steps(r)[i].undo = <<>>
  <2>1. DOMAIN Steps(r) = {1, 2} /\ Steps(r)[1] = Step(m, <<>>) /\ Steps(r)[2] = Step(n, <<>>)
    BY <1>4
  <2>2. i = 1 \/ i = 2
    BY <2>1
  <2> QED BY <1>1, <2>1, <2>2 DEF Calls
<1> QED BY <1>2, <1>3, <1>4

LEMMA TrailFacts ==
  ASSUME EngineInv, \A q \in Runs : AuditJob(job[q]), Drafts = {}, NEW k \in DOMAIN log
  PROVE  VersionOf(k) \in 1 .. 5 /\ log[k].name = orderLifecycle[VersionOf(k)]
<1>1. PICK r \in Runs : r = log[k].by /\ FromRun(k, r)
  BY FactsHaveRuns
<1>2. PICK i \in DOMAIN Steps(r) : DoneBy(k, r, i) \/ UndoneBy(k, r, i)
  BY <1>1 DEF FromRun
<1>3. job[r] = Setup
  <2>1. SUFFICES ASSUME job[r] # Setup PROVE FALSE
    OBVIOUS
  <2>2. Calls(r, i) = <<>> /\ Steps(r)[i].undo = <<>>
    BY <2>1, AuditorsIdle DEF AuditJob
  <2> QED BY <1>2, <2>2 DEF DoneBy, UndoneBy
<1>4. i \in 1 .. 5 /\ Calls(r, i) = <<Seeding(i)>> /\ Steps(r)[i].undo = <<>>
  BY <1>2, <1>3, SetupIs
<1>5. IsFactOf(k, r, Seeding(i))
  BY <1>2, <1>4 DEF DoneBy, UndoneBy
<1>6. Version(i - 1)[1] = "at" /\ Version(i - 1)[2] + 1 = i
  BY <1>4 DEF Version
<1>7. VersionOf(k) = i /\ log[k].name = orderLifecycle[i]
  BY <1>5, <1>6, Effectless DEF IsFactOf, Seeding
<1> QED BY <1>4, <1>7

(* The compliance trail is the life cycle as far as it has come, with no    *)
(* event twice or out of order, however many scripts seed it and whichever  *)
(* answers are lost; the setup that counted no failure wrote all of it.     *)
THEOREM TrailStaysInOrder == Spec => []AuditTrailInOrder
<1>1. ASSUME EngineInv, DeployedKinds PROVE AuditTrailInOrder
  <2>1. Len(orderLifecycle) = 5
    BY DEF orderLifecycle
  <2> SUFFICES ASSUME NEW p \in Runs, job[p].id = "setup"
               PROVE  /\ \A i \in Stream(Trail) : VersionOf(i) <= 5 /\ log[i].name = orderLifecycle[VersionOf(i)]
                      /\ \A r \in Runs : /\ job[r].id = "setup" /\ run[r].mode = "completed" /\ Failures(r) = {}
                                         => StreamVersion(Trail) = 5 /\ \A i \in Stream(Trail) : log[i].by = r
    BY <2>1 DEF AuditTrailInOrder
  <2>2. (\A q \in Runs : AuditJob(job[q])) /\ Drafts = {} /\ LogIs
    BY <1>1, OneKind DEF Kept4, EngineInv
  <2>3. \A i \in Stream(Trail) : i \in DOMAIN log /\ log[i].on = Trail
                                 /\ VersionOf(i) \in 1 .. 5 /\ log[i].name = orderLifecycle[VersionOf(i)]
    BY <1>1, <2>2, TrailFacts DEF Stream
  <2>4. ASSUME NEW r \in Runs, job[r].id = "setup", run[r].mode = "completed", Failures(r) = {}
        PROVE  StreamVersion(Trail) = 5 /\ \A i \in Stream(Trail) : log[i].by = r
    <3>1. job[r] = Setup
      <4>1. NotDeployed.id # "setup" /\ ProcessOrderCreated.id # "setup" /\ ProcessOrderShipped.id # "setup"
        BY DEF NotDeployed, ProcessOrderCreated, ProcessOrderShipped, Function
      <4> QED BY <2>2, <2>4, <4>1 DEF AuditJob
    <3>2. IsPlaced(r) /\ Told(r)
      BY <1>1 DEF EngineInv
    <3>3. Len(run[r].memo) = 5 /\ \A i \in 1 .. 5 : run[r].memo[i] # 0
      <4>1. Len(run[r].memo) = 5
        BY <2>4, <3>1, <3>2, SetupIs DEF IsPlaced, Placed
      <4>2. DOMAIN run[r].memo = 1 .. 5
        BY <3>2, <4>1, LenProperties DEF IsPlaced, RunState
      <4> QED BY <2>4, <4>1, <4>2 DEF Failures
    <3>4. ASSUME NEW i \in 1 .. 5 PROVE \E k \in Stream(Trail) : log[k].by = r /\ VersionOf(k) = i
      <4>1. /\ i \in DOMAIN Steps(r) /\ Calls(r, i) = <<Seeding(i)>> /\ Steps(r)[i].needs = <<>>
        BY <3>1, SetupIs
      <4>2. PICK e : e = Seeding(i) /\ e.op = "append" /\ e.key = NoKey /\ e.on = Trail /\ e.expect = Version(i - 1)
        BY Effectless DEF Seeding
      <4>3. DOMAIN Calls(r, i) = {1} /\ Len(Calls(r, i)) = 1 /\ Calls(r, i)[1] = e
        BY <4>1, <4>2
      <4>4. PlainCall(r, i, 1)
        BY <4>1, <4>2, <4>3 DEF PlainCall, NoWait, Telling
      <4>5. Reached(r, run[r], i, 1)
        BY <3>3 DEF Reached
      <4>6. HasFact(r, e)
        BY <3>2, <4>1, <4>3, <4>4, <4>5 DEF Told
      <4>7. Version(i - 1)[1] = "at" /\ Version(i - 1)[2] + 1 = i
        BY DEF Version
      <4> QED BY <4>2, <4>6, <4>7 DEF HasFact, IsFactOf, Stream
    <3>5. \A i \in Stream(Trail) : log[i].by = r
      <4>1. ASSUME NEW i \in Stream(Trail) PROVE log[i].by = r
        <5>1. PICK k \in Stream(Trail) : log[k].by = r /\ VersionOf(k) = VersionOf(i)
          BY <2>3, <3>4
        <5> QED BY <2>2, <2>3, <5>1, VersionsDiffer
      <4> QED BY <4>1
    <3>6. StreamVersion(Trail) >= 5
      <4>1. PICK k \in Stream(Trail) : VersionOf(k) = 5
        BY <3>4
      <4> QED BY <2>2, <2>3, <4>1, VersionsCount
    <3>7. StreamVersion(Trail) <= 5 /\ StreamVersion(Trail) \in Nat
      <4>1. Stream(Trail) # {}
        BY <3>4
      <4>2. PICK i \in Stream(Trail) : VersionOf(i) = StreamVersion(Trail)
        BY <2>2, <4>1, LastFact
      <4> QED BY <2>2, <2>3, <4>2, VersionsCount
    <3> QED BY <3>5, <3>6, <3>7
  <2> QED BY <2>3, <2>4
<1> QED BY <1>1, ExamplesInvariance, PTL

-----------------------------------------------------------------------------
(* fraud-detection: the reasoning on a transaction's stream.                *)
LEMMA EvaluationCalls ==
  ASSUME NEW r, NEW t, job[r] = EvaluateFraud(Purchase(t))
  PROVE  /\ job[r].errors = "retry" /\ job[r].id = "fraud/evaluate" /\ DOMAIN Steps(r) = 1 .. 5 /\ Len(Steps(r)) = 5
         /\ \A i \in 1 .. 5 : Steps(r)[i].undo = <<>>
         /\ \A i \in 1 .. 4 : Steps(r)[i].needs = <<>>
         /\ Calls(r, 1) = <<>> /\ Calls(r, 2) = <<Get(Purchase(t).card), Cas(Purchase(t).card)>>
         /\ Calls(r, 3) = <<Record(t, Chain[1], Version(0)), Record(t, Chain[2], Version(1))>>
         /\ Calls(r, 4) = <<Record(t, Chain[3], Version(2))>>
         /\ Calls(r, 5) = <<Publish("fraud-alerts", "alerts")>>
         /\ Txn(r) = t
<1>0. Purchase(t).id = t
  BY DEF Purchase, Transaction
<1>1. PICK tx : tx = Purchase(t) /\ tx.id = t
  BY <1>0
<1>2. PICK list, alert : /\ alert = OnlyIf(Step("publish", <<Publish("fraud-alerts", "alerts")>>), "velocity-check", {n \in 1..MaxCount : Action(tx, n) # "approve"})
                         /\ list = <<CollectSignals, VelocityCheck(tx), ScoreStep(tx), Decide(tx), alert>>
  OBVIOUS
<1>3. job[r] = Function("fraud/evaluate", Request, list)
  BY <1>1, <1>2 DEF EvaluateFraud, Alert
<1>4. /\ DOMAIN list = 1 .. 5 /\ Len(list) = 5
      /\ list[1] = CollectSignals /\ list[2] = VelocityCheck(tx) /\ list[3] = ScoreStep(tx)
      /\ list[4] = Decide(tx) /\ list[5] = alert
  BY <1>2
<1>5. /\ job[r].errors = "retry" /\ job[r].id = "fraud/evaluate" /\ job[r].steps = list /\ Steps(r) = list
  BY <1>3 DEF Function, Steps
<1>6. /\ \A n, d : Step(n, d).does = d /\ Step(n, d).undo = <<>> /\ Step(n, d).needs = <<>>
      /\ \A n, d, s, a : OnlyIf(Step(n, d), s, a).does = d /\ OnlyIf(Step(n, d), s, a).undo = <<>>
  BY DEF Step, OnlyIf
<1>7. Chain[1] = "signals_collected" /\ Chain[2] = "model_scored" /\ Chain[3] = "decision_made"
  BY DEF Chain
<1>8. /\ list[1].does = <<>> /\ list[2].does = <<Get(tx.card), Cas(tx.card)>>
      /\ list[3].does = <<Record(t, Chain[1], Version(0)), Record(t, Chain[2], Version(1))>>
      /\ list[4].does = <<Record(t, Chain[3], Version(2))>>
      /\ list[5].does = <<Publish("fraud-alerts", "alerts")>>
  BY <1>1, <1>2, <1>4, <1>6, <1>7 DEF CollectSignals, VelocityCheck, ScoreStep, Decide
<1>9. \A i \in 1 .. 5 : i \in {1, 2, 3, 4} \/ i = 5
  OBVIOUS
<1>10. \A i \in {1, 2, 3, 4} : list[i].undo = <<>> /\ list[i].needs = <<>>
  BY <1>4, <1>6 DEF CollectSignals, VelocityCheck, ScoreStep, Decide
<1>11. list[5].undo = <<>>
  BY <1>2, <1>4, <1>6
<1>12. Txn(r) = t
  <2>1. PICK e, d : d = list[4].does /\ e = d[1]
    OBVIOUS
  <2>2. e = Record(t, Chain[3], Version(2)) /\ e.on = t
    BY <1>8, <2>1, Effectless
  <2> QED BY <1>5, <2>1, <2>2 DEF Txn
<1> QED BY <1>1, <1>4, <1>5, <1>8, <1>9, <1>10, <1>11, <1>12 DEF Calls

Linked(k) == VersionOf(k) \in 1 .. 3 /\ log[k].name = Chain[VersionOf(k)]
LEMMA ReasoningFacts ==
  ASSUME EngineInv, \A q \in Runs : EvaluationJob(job[q]), Drafts = {}, NEW k \in DOMAIN log
  PROVE  \E r \in Evaluations :
           /\ r = log[k].by
           /\ \/ log[k].on = Txn(r) /\ Linked(k)
              \/ log[k].on = "alerts" /\ log[k].name = "fraud-alerts" /\ DoneBy(k, r, 5)
<1>1. PICK r \in Runs : r = log[k].by /\ FromRun(k, r)
  BY FactsHaveRuns
<1>2. PICK i \in DOMAIN Steps(r) : DoneBy(k, r, i) \/ UndoneBy(k, r, i)
  BY <1>1 DEF FromRun
<1>3. job[r] # NotDeployed
  <2>1. job[r] = NotDeployed => Steps(r) = <<>>
    BY DEF Steps, NotDeployed, Function
  <2> QED BY <1>2, <2>1
<1>4. PICK t : job[r] = EvaluateFraud(Purchase(t))
  BY <1>3 DEF EvaluationJob
<1>5. /\ DOMAIN Steps(r) = 1 .. 5 /\ Steps(r)[i].undo = <<>> /\ Txn(r) = t /\ job[r].id = "fraud/evaluate"
      /\ Calls(r, 1) = <<>> /\ Calls(r, 2) = <<Get(Purchase(t).card), Cas(Purchase(t).card)>>
      /\ Calls(r, 3) = <<Record(t, Chain[1], Version(0)), Record(t, Chain[2], Version(1))>>
      /\ Calls(r, 4) = <<Record(t, Chain[3], Version(2))>>
      /\ Calls(r, 5) = <<Publish("fraud-alerts", "alerts")>>
  BY <1>2, <1>4, EvaluationCalls
<1>6. PICK e, j : j \in DOMAIN Calls(r, i) /\ e = Calls(r, i)[j] /\ IsFactOf(k, r, e) /\ e.op \in Telling /\ DoneBy(k, r, i)
  BY <1>2, <1>5 DEF DoneBy, UndoneBy
<1>7. Get(Purchase(t).card).op \notin Telling /\ Cas(Purchase(t).card).op \notin Telling
  BY DEF Telling, Get, Cas
<1>8. i \in {1, 2, 3, 4, 5}
  BY <1>5
<1>9. \/ \E v \in 1 .. 3 : e = Record(t, Chain[v], Version(v - 1))
      \/ i = 5 /\ e = Publish("fraud-alerts", "alerts")
  <2>1. CASE i \in {1, 2}
    BY <1>5, <1>6, <1>7, <2>1
  <2>2. CASE i = 3
    <3>1. e = Record(t, Chain[1], Version(1 - 1)) \/ e = Record(t, Chain[2], Version(2 - 1))
      BY <1>5, <1>6, <2>2
    <3> QED BY <3>1
  <2>3. CASE i = 4
    <3>1. e = Record(t, Chain[3], Version(3 - 1))
      BY <1>5, <1>6, <2>3
    <3> QED BY <3>1
  <2>4. CASE i = 5
    BY <1>5, <1>6, <2>4
  <2> QED BY <1>8, <2>1, <2>2, <2>3, <2>4
<1>10. ASSUME NEW v \in 1 .. 3, e = Record(t, Chain[v], Version(v - 1)) PROVE log[k].on = t /\ Linked(k)
  <2>1. Version(v - 1)[1] = "at" /\ Version(v - 1)[2] + 1 = v
    BY DEF Version
  <2> QED BY <1>6, <1>10, <2>1, Effectless DEF IsFactOf, Linked
<1>11. i = 5 /\ e = Publish("fraud-alerts", "alerts") => log[k].on = "alerts" /\ log[k].name = "fraud-alerts" /\ DoneBy(k, r, 5)
  BY <1>6, Effectless DEF IsFactOf
<1>12. r \in Evaluations
  BY <1>5 DEF Evaluations
<1> QED BY <1>1, <1>5, <1>9, <1>10, <1>11, <1>12

(* An alert follows the decision it reports.                                *)
LEMMA AlertsFollowDecisions ==
  ASSUME EngineInv, NEW r, NEW t, job[r] = EvaluateFraud(Purchase(t)), NEW k \in DOMAIN log, DoneBy(k, r, 5)
  PROVE  \E j \in DOMAIN log : j < k /\ log[j].name = "decision_made" /\ log[j].by = r
<1>1. /\ DOMAIN Steps(r) = 1 .. 5 /\ Steps(r)[4].needs = <<>> /\ job[r].errors = "retry"
      /\ Calls(r, 4) = <<Record(t, Chain[3], Version(2))>>
  BY EvaluationCalls
<1>2. PICK e : e = Record(t, Chain[3], Version(2)) /\ e.op = "append" /\ e.key = NoKey /\ e.name = Chain[3]
  BY Effectless
<1>3. DOMAIN Calls(r, 4) = {1} /\ Len(Calls(r, 4)) = 1 /\ Calls(r, 4)[1] = e
  BY <1>1, <1>2
<1>4. PlainCall(r, 4, 1)
  BY <1>1, <1>2, <1>3 DEF PlainCall, NoWait, Telling
<1>5. PICK j : ToldBefore(k, r, 5, j)
  BY DEF DoneBy
<1>6. PICK k2 \in DOMAIN log : k2 < k /\ IsFactOf(k2, r, e)
  <2>1. 4 \in DOMAIN Steps(r) /\ 1 \in DOMAIN Calls(r, 4) /\ 4 < 5 /\ job[r].errors # "skip"
    BY <1>1, <1>3
  <2> QED BY <1>3, <1>4, <1>5, <2>1 DEF ToldBefore
<1>7. log[k2].name = "decision_made" /\ log[k2].by = r
  BY <1>2, <1>6 DEF IsFactOf, Chain
<1> QED BY <1>6, <1>7

(* The statistics have counted every decision.                              *)
Decided == {i \in DOMAIN log : log[i].name = "decision_made"}

LEMMA StatsCount ==
  ASSUME LogIs
  PROVE  DecisionStats = Cardinality(Decided)
<1>1. PICK n \in Nat : n = Len(log) /\ DOMAIN log = 1 .. n
  BY LogShape
<1> DEFINE D(i) == {k \in 1 .. i : log[k].name = "decision_made"}
           g == [i \in 0 .. n |-> Cardinality(D(i))]
           F(h) == [i \in 0 .. n |-> IF i = 0 THEN 0 ELSE IF log[i].name = "decision_made" THEN h[i - 1] + 1 ELSE h[i - 1]]
<1>2. ASSUME NEW i \in 0 .. n PROVE IsFiniteSet(D(i)) /\ Cardinality(D(i)) \in Nat
  <2>1. IsFiniteSet(1 .. i) /\ D(i) \subseteq 1 .. i
    BY FS_Interval
  <2> QED BY <2>1, FS_Subset, FS_CardinalityType
<1>3. ASSUME NEW i \in 0 .. n
      PROVE  g[i] = IF i = 0 THEN 0 ELSE IF log[i].name = "decision_made" THEN g[i - 1] + 1 ELSE g[i - 1]
  <2>1. CASE i = 0
    <3>1. D(i) = {}
      BY <2>1
    <3>2. g[i] = Cardinality(D(i)) /\ Cardinality({}) = 0
      BY FS_EmptySet
    <3> QED BY <2>1, <3>1, <3>2
  <2>2. CASE i # 0
    <3>1. i - 1 \in 0 .. n /\ i \notin 1 .. (i - 1) /\ 1 .. i = 1 .. (i - 1) \cup {i}
      BY <2>2
    <3>2. D(i) = IF log[i].name = "decision_made" THEN D(i - 1) \cup {i} ELSE D(i - 1)
      BY <3>1
    <3>3. i \notin D(i - 1) /\ IsFiniteSet(D(i - 1))
      BY <1>2, <3>1
    <3>4. Cardinality(D(i - 1) \cup {i}) = Cardinality(D(i - 1)) + 1
      BY <3>3, FS_AddElement
    <3>5. g[i] = Cardinality(D(i)) /\ g[i - 1] = Cardinality(D(i - 1))
      BY <3>1
    <3> HIDE DEF D, g
    <3> QED BY <2>2, <3>2, <3>4, <3>5
  <2> QED BY <2>1, <2>2
<1>4. g = F(g)
  <2>1. DOMAIN g = 0 .. n /\ g = [i \in 0 .. n |-> g[i]]
    OBVIOUS
  <2> HIDE DEF g
  <2> QED BY <1>3, <2>1
<1>5. ASSUME NEW h, h = F(h) PROVE h = g
  <2> DEFINE T == {i \in 0 .. n : h[i] # g[i]}
  <2>1. \A i \in 0 .. n : h[i] = IF i = 0 THEN 0 ELSE IF log[i].name = "decision_made" THEN h[i - 1] + 1 ELSE h[i - 1]
    <3>1. PICK f : f = F(h) /\ f = h
      BY <1>5
    <3>2. \A i \in 0 .. n : f[i] = IF i = 0 THEN 0 ELSE IF log[i].name = "decision_made" THEN h[i - 1] + 1 ELSE h[i - 1]
      BY <3>1
    <3> QED BY <3>1, <3>2
  <2>2. T = {}
    <3>1. SUFFICES ASSUME T # {} PROVE FALSE
      OBVIOUS
    <3>2. T \subseteq Nat
      OBVIOUS
    <3>3. PICK x \in T : \A y \in T : x <= y
      BY <3>1, <3>2, SmallestNumber
    <3>4. x \in 0 .. n /\ h[x] # g[x]
      OBVIOUS
    <3>5. x # 0
      BY <1>3, <2>1, <3>4
    <3>6. x - 1 \in 0 .. n /\ x - 1 \notin T
      BY <3>3, <3>4, <3>5
    <3>7. h[x - 1] = g[x - 1]
      BY <3>6
    <3> HIDE DEF T, g
    <3> QED BY <1>3, <2>1, <3>4, <3>5, <3>7
  <2>3. \A i \in 0 .. n : h[i] = g[i]
    BY <2>2
  <2>4. DOMAIN h = 0 .. n /\ h = [i \in 0 .. n |-> h[i]]
    <3>1. PICK f : f = F(h) /\ f = h
      BY <1>5
    <3>2. DOMAIN f = 0 .. n /\ f = [i \in 0 .. n |-> f[i]]
      BY <3>1
    <3> QED BY <3>1, <3>2
  <2> QED BY <2>3, <2>4
<1>6. DecisionStats = g[n]
  <2>1. \A h : h = F(h) => h = g
    BY <1>5
  <2> HIDE DEF g
  <2> QED BY <1>1, <1>4, <2>1 DEF DecisionStats, Folded
<1>7. D(n) = Decided /\ n \in 0 .. n
  BY <1>1 DEF Decided
<1> QED BY <1>6, <1>7

(* Each transaction that was decided was decided once.                      *)
LEMMA DecisionsAreTransactions ==
  ASSUME EngineInv, \A q \in Runs : EvaluationJob(job[q]), Drafts = {},
         NEW T, T = {Txn(r) : r \in {q \in Evaluations : StreamVersion(Txn(q)) = 3}}
  PROVE  Cardinality(Decided) = Cardinality(T)
<1>1. LogIs
  BY DEF EngineInv
<1>2. ASSUME NEW k \in DOMAIN log, log[k].name # "fraud-alerts" PROVE Linked(k) /\ \E r \in Evaluations : Txn(r) = log[k].on
  BY <1>2, ReasoningFacts
<1>3. Chain[1] = "signals_collected" /\ Chain[2] = "model_scored" /\ Chain[3] = "decision_made"
  BY DEF Chain
<1>4. ASSUME NEW r \in Evaluations, NEW k \in Stream(Txn(r)) PROVE Linked(k)
  <2>1. \A q \in Evaluations : Txn(q) # "alerts"
    <3>1. ASSUME NEW q \in Evaluations PROVE Txn(q) # "alerts"
      <4>1. NotDeployed.id # "fraud/evaluate"
        BY DEF NotDeployed, Function
      <4>2. PICK t \in {"t1", "t2"} : job[q] = EvaluateFraud(Purchase(t))
        BY <4>1 DEF Evaluations, EvaluationJob
      <4> QED BY <4>2, EvaluationCalls
    <3> QED BY <3>1
  <2> QED BY <2>1, ReasoningFacts DEF Stream
<1>5. \A i \in Decided : i \in DOMAIN log /\ Linked(i) /\ VersionOf(i) = 3 /\ log[i].on \in T
  <2>1. ASSUME NEW i \in Decided PROVE i \in DOMAIN log /\ Linked(i) /\ VersionOf(i) = 3 /\ log[i].on \in T
    <3>1. i \in DOMAIN log /\ Linked(i)
      BY <1>2 DEF Decided
    <3>2. VersionOf(i) = 3
      BY <1>3, <3>1 DEF Linked, Decided
    <3>3. PICK r \in Evaluations : Txn(r) = log[i].on
      BY <1>2, <3>1 DEF Decided
    <3>4. i \in Stream(Txn(r))
      BY <3>1, <3>3 DEF Stream
    <3>5. PICK l \in Stream(Txn(r)) : (\A j \in Stream(Txn(r)) : j <= l) /\ VersionOf(l) = StreamVersion(Txn(r))
      BY <1>1, <3>4, LastFact
    <3>6. VersionOf(l) <= 3 /\ StreamVersion(Txn(r)) >= 3
      BY <1>1, <1>4, <3>1, <3>2, <3>3, VersionsCount DEF Linked
    <3>7. StreamVersion(Txn(r)) = 3
      BY <1>1, <3>5, <3>6, VersionsCount
    <3> QED BY <3>1, <3>2, <3>3, <3>7
  <2> QED BY <2>1
<1>6. ASSUME NEW s \in T PROVE \E i \in Decided : log[i].on = s
  <2>1. PICK r \in Evaluations : s = Txn(r) /\ StreamVersion(Txn(r)) = 3
    OBVIOUS
  <2>2. Stream(s) # {}
    <3>1. StreamVersion(s) = 0 \/ Stream(s) # {}
      BY FS_EmptySet DEF StreamVersion
    <3> QED BY <2>1, <3>1
  <2>3. PICK i \in Stream(s) : VersionOf(i) = 3
    BY <1>1, <2>1, <2>2, LastFact
  <2>4. Linked(i)
    BY <1>4, <2>1
  <2> QED BY <1>3, <2>3, <2>4 DEF Linked, Decided, Stream
<1>7. IsFiniteSet(Decided)
  <2>1. PICK n \in Nat : n = Len(log) /\ DOMAIN log = 1 .. n
    BY <1>1, LogShape
  <2>2. IsFiniteSet(1 .. n) /\ Decided \subseteq 1 .. n
    BY <2>1, FS_Interval DEF Decided
  <2> QED BY <2>2, FS_Subset
<1> DEFINE f == [i \in Decided |-> log[i].on]
<1>8. f \in Bijection(Decided, T)
  <2>1. f \in [Decided -> T]
    BY <1>5
  <2>2. \A i, j \in Decided : f[i] = f[j] => i = j
    <3>1. ASSUME NEW i \in Decided, NEW j \in Decided, f[i] = f[j] PROVE i = j
      <4>1. log[i].on = log[j].on /\ VersionOf(i) = VersionOf(j) /\ i \in DOMAIN log /\ j \in DOMAIN log
        BY <1>5, <3>1
      <4> QED BY <1>1, <4>1, VersionsDiffer
    <3> QED BY <3>1
  <2>3. \A s \in T : \E i \in Decided : f[i] = s
    BY <1>6
  <2> QED BY <2>1, <2>2, <2>3 DEF Bijection, Injection, Surjection, IsInjective
<1>9. ExistsBijection(Decided, T)
  BY <1>8 DEF ExistsBijection
<1> QED BY <1>7, <1>9, FS_Bijection

(* The reasoning on a transaction is a beginning of the chain, each link    *)
(* once, however often the transaction is delivered and steps are executed  *)
(* again; a completed evaluation has all of it, an alert follows the        *)
(* decision it reports, and the statistics count each decided transaction   *)
(* once (evaluate, decision-stats).                                         *)
THEOREM ReasoningStaysAChain == Spec => []ReasoningIsAChain
<1>1. ASSUME EngineInv, DeployedKinds, Evaluations # {} PROVE ReasoningIsAChain
  <2>1. (\A q \in Runs : EvaluationJob(job[q])) /\ Drafts = {} /\ LogIs
    BY <1>1, OneKind DEF Evaluations, Kept4, EngineInv
  <2>2. ASSUME NEW r \in Evaluations PROVE \E t \in {"t1", "t2"} : job[r] = EvaluateFraud(Purchase(t)) /\ Txn(r) = t
    <3>1. NotDeployed.id # "fraud/evaluate"
      BY DEF NotDeployed, Function
    <3>2. PICK t \in {"t1", "t2"} : job[r] = EvaluateFraud(Purchase(t))
      BY <2>1, <3>1 DEF Evaluations, EvaluationJob
    <3> QED BY <3>2, EvaluationCalls
  <2>3. ASSUME NEW r \in Evaluations, NEW i \in Stream(Txn(r)) PROVE i \in DOMAIN log /\ log[i].on = Txn(r) /\ Linked(i)
    BY <1>1, <2>1, <2>2, ReasoningFacts DEF Stream
  <2>4. ASSUME NEW r \in Evaluations, run[r].mode = "completed" PROVE StreamVersion(Txn(r)) = 3
    <3>1. PICK t \in {"t1", "t2"} : job[r] = EvaluateFraud(Purchase(t)) /\ Txn(r) = t
      BY <2>2
    <3>2. /\ DOMAIN Steps(r) = 1 .. 5 /\ Steps(r)[4].needs = <<>> /\ job[r].errors = "retry"
          /\ Calls(r, 4) = <<Record(t, Chain[3], Version(2))>>
      BY <3>1, EvaluationCalls
    <3>3. PICK e : e = Record(t, Chain[3], Version(2)) /\ e.op = "append" /\ e.key = NoKey /\ e.on = t /\ e.expect = Version(2)
      BY Effectless
    <3>4. DOMAIN Calls(r, 4) = {1} /\ Len(Calls(r, 4)) = 1 /\ Calls(r, 4)[1] = e
      BY <3>2, <3>3
    <3>5. PlainCall(r, 4, 1)
      BY <3>2, <3>3, <3>4 DEF PlainCall, NoWait, Telling
    <3>6. HasFact(r, e)
      <4>1. 4 \in DOMAIN Steps(r) /\ 1 \in DOMAIN Calls(r, 4) /\ r \in Runs /\ job[r].errors # "skip"
        BY <3>2, <3>4 DEF Evaluations
      <4>2. HasFact(r, Calls(r, 4)[1])
        BY <1>1, <2>4, <3>5, <4>1, DoneIsTold
      <4> QED BY <3>4, <4>2
    <3>7. PICK k \in DOMAIN log : log[k].on = t /\ VersionOf(k) = 3
      BY <3>3, <3>6 DEF HasFact, IsFactOf, Version
    <3>8. PICK l \in Stream(t) : VersionOf(l) = StreamVersion(t)
      BY <2>1, <3>7, LastFact DEF Stream
    <3>9. VersionOf(l) <= 3
      BY <2>3, <3>1 DEF Linked
    <3>10. StreamVersion(t) >= 3 /\ StreamVersion(t) \in Nat
      BY <2>1, <3>7, VersionsCount
    <3> QED BY <3>1, <3>8, <3>9, <3>10
  <2>5. ASSUME NEW i \in DOMAIN log, log[i].name = "fraud-alerts"
        PROVE  \E j \in 1..(i - 1) : log[j].name = "decision_made" /\ log[j].by = log[i].by
    <3>1. PICK r \in Evaluations : r = log[i].by /\ (Linked(i) \/ DoneBy(i, r, 5))
      BY <1>1, <2>1, ReasoningFacts
    <3>2. ~Linked(i)
      <4>1. \A v \in 1 .. 3 : Chain[v] # "fraud-alerts"
        <5>1. Chain[1] # "fraud-alerts" /\ Chain[2] # "fraud-alerts" /\ Chain[3] # "fraud-alerts"
          BY DEF Chain
        <5>2. \A v \in 1 .. 3 : v = 1 \/ v = 2 \/ v = 3
          OBVIOUS
        <5> QED BY <5>1, <5>2
      <4> QED BY <2>5, <4>1 DEF Linked
    <3>3. PICK j \in DOMAIN log : j < i /\ log[j].name = "decision_made" /\ log[j].by = r
      <4>1. PICK t : job[r] = EvaluateFraud(Purchase(t))
        BY <2>2
      <4>2. DoneBy(i, r, 5)
        BY <3>1, <3>2
      <4> QED BY <1>1, <4>1, <4>2, AlertsFollowDecisions
    <3>4. j \in 1 .. (i - 1)
      <4>1. PICK n \in Nat : DOMAIN log = 1 .. n
        BY <2>1, LogShape
      <4> QED BY <3>3, <4>1
    <3> QED BY <3>1, <3>3, <3>4
  <2>6. DecisionStats = Cardinality({Txn(r) : r \in {q \in Evaluations : StreamVersion(Txn(q)) = 3}})
    BY <1>1, <2>1, StatsCount, DecisionsAreTransactions
  <2> QED BY <2>3, <2>4, <2>5, <2>6 DEF ReasoningIsAChain, Linked
<1>2. ASSUME EngineInv, DeployedKinds, Evaluations = {} PROVE ReasoningIsAChain
  <2> DEFINE N == {"decision_made", "fraud-alerts"}
  <2>1. ASSUME NEW r \in Runs PROVE GoodFunction(job[r], N)
    <3>1. N \subseteq Reserved /\ N \subseteq N
      BY DEF Reserved
    <3>2. EvaluationJob(job[r]) => job[r] = NotDeployed
      <4>1. \A t : EvaluateFraud(Purchase(t)).id = "fraud/evaluate"
        BY DEF EvaluateFraud, Function
      <4> QED BY <1>2, <4>1 DEF EvaluationJob, Evaluations
    <3>3. OrderProgram(job) => OrderJob(job[r])
      BY DEF OrderProgram
    <3> QED BY <1>2, <3>1, <3>2, <3>3, JobsAreGood, FewerSpared, UndeployedFunction DEF DeployedKinds
  <2>2. N \cap Outcomes = {}
    BY DEF Outcomes
  <2>3. \A k \in DOMAIN log : log[k].name \notin N
    BY <1>2, <2>1, <2>2, NeverTold
  <2>4. DecisionStats = Cardinality({})
    <3>1. Decided = {} /\ LogIs
      BY <1>2, <2>3 DEF Decided, EngineInv
    <3> QED BY <3>1, StatsCount
  <2>5. {Txn(r) : r \in {q \in Evaluations : StreamVersion(Txn(q)) = 3}} = {}
    BY <1>2
  <2> QED BY <1>2, <2>3, <2>4, <2>5 DEF ReasoningIsAChain
<1>3. EngineInv /\ DeployedKinds => ReasoningIsAChain
  BY <1>1, <1>2
<1> QED BY <1>3, ExamplesInvariance, PTL

(* Each order's stream, each transaction's and the compliance trail keep    *)
(* the order that the expected versions are to protect.                     *)
THEOREM StreamsStayInOrder == Spec => []StreamsKeepTheirOrder
<1>1. OrdersArePlacedOnce /\ ReasoningIsAChain /\ AuditTrailInOrder => StreamsKeepTheirOrder
  BY DEF StreamsKeepTheirOrder
<1> QED BY <1>1, OrdersStayPlacedOnce, ReasoningStaysAChain, TrailStaysInOrder, PTL

-----------------------------------------------------------------------------
(* rag-core: what is indexed.                                               *)
LEMMA IngestCalls ==
  ASSUME NEW r
  PROVE  /\ job[r] = IngestCorpus("doc") =>
              /\ DOMAIN Steps(r) = {1, 2} /\ Steps(r)[1].undo = <<>> /\ Steps(r)[2].undo = <<>>
              /\ Calls(r, 1) = <<>>
              /\ Calls(r, 2) = <<Get("doc"), EmitOnce("chunk-embedded", "chunk1", "chunk1"),
                                 EmitOnce("chunk-embedded", "chunk2", "chunk2"), EmitOnce("doc-indexed", "doc", "doc")>>
         /\ job[r] = Edit("doc") => DOMAIN Steps(r) = {1} /\ Steps(r)[1].undo = <<>> /\ Calls(r, 1) = <<Put("doc", Newer)>>
         /\ job[r] = NotDeployed => DOMAIN Steps(r) = {}
<1>1. \A n, d : Step(n, d).does = d /\ Step(n, d).undo = <<>>
  BY DEF Step
<1>2. ASSUME job[r] = IngestCorpus("doc")
      PROVE  /\ DOMAIN Steps(r) = {1, 2} /\ Steps(r)[1].undo = <<>> /\ Steps(r)[2].undo = <<>>
             /\ Calls(r, 1) = <<>>
             /\ Calls(r, 2) = <<Get("doc"), EmitOnce("chunk-embedded", "chunk1", "chunk1"),
                                EmitOnce("chunk-embedded", "chunk2", "chunk2"), EmitOnce("doc-indexed", "doc", "doc")>>
  <2>1. PICK list, two : /\ two = <<Get("doc"), EmitOnce("chunk-embedded", "chunk1", "chunk1"),
                                    EmitOnce("chunk-embedded", "chunk2", "chunk2"), EmitOnce("doc-indexed", "doc", "doc")>>
                         /\ list = <<Step("list-corpus", <<>>), Step("doc", two)>>
    OBVIOUS
  <2>2. Steps(r) = list
    BY <1>2, <2>1 DEF IngestCorpus, ListCorpus, EmbedAndEmit, Function, Steps
  <2>3. DOMAIN list = {1, 2} /\ list[1] = Step("list-corpus", <<>>) /\ list[2] = Step("doc", two)
    BY <2>1
  <2> QED BY <1>1, <2>1, <2>2, <2>3 DEF Calls
<1>3. ASSUME job[r] = Edit("doc")
      PROVE  DOMAIN Steps(r) = {1} /\ Steps(r)[1].undo = <<>> /\ Calls(r, 1) = <<Put("doc", Newer)>>
  <2>1. PICK list, one : one = <<Put("doc", Newer)>> /\ list = <<Step("edit", one)>>
    OBVIOUS
  <2>2. Steps(r) = list
    BY <1>3, <2>1 DEF Edit, Script, Function, Steps
  <2>3. DOMAIN list = {1} /\ list[1] = Step("edit", one)
    BY <2>1
  <2> QED BY <1>1, <2>1, <2>2, <2>3 DEF Calls
<1>4. job[r] = NotDeployed => DOMAIN Steps(r) = {}
  BY DEF NotDeployed, Function, Steps
<1> QED BY <1>2, <1>3, <1>4

LEMMA PairedKey ==
  ASSUME NEW c, NEW a
  PROVE  Append(<<c>>, a) = <<c, a>> /\ <<c>> # NoKey
<1>1. <<c>> \in Seq({c, a}) /\ a \in {c, a} /\ Len(<<c>>) = 1
  OBVIOUS
<1>2. PICK s : s = Append(<<c>>, a)
  OBVIOUS
<1>3. s \in Seq({c, a}) /\ Len(s) = 2 /\ s[2] = a /\ s[1] = c
  BY <1>1, <1>2, AppendProperties
<1>4. s = <<c, a>>
  BY <1>3
<1>5. <<c>> # NoKey
  BY DEF NoKey
<1> QED BY <1>2, <1>4, <1>5

LEMMA EmittedOnce ==
  \A n, c : /\ EmitOnce(n, c, c).op = "append" /\ EmitOnce(n, c, c).on = c /\ EmitOnce(n, c, c).name = n
            /\ EmitOnce(n, c, c).key = <<c>> /\ EmitOnce(n, c, c).key # NoKey
<1>1. \A n, c : /\ EmitOnce(n, c, c).op = "append" /\ EmitOnce(n, c, c).on = c /\ EmitOnce(n, c, c).name = n
                /\ EmitOnce(n, c, c).key = <<c>>
  BY DEF EmitOnce, Emit, Record
<1>2. \A c : <<c>> # NoKey
  BY DEF NoKey
<1> QED BY <1>1, <1>2

(* What an ingest's call that tells is.                                     *)
Ingests4(e, j) ==
  \/ j = 2 /\ e = EmitOnce("chunk-embedded", "chunk1", "chunk1")
  \/ j = 3 /\ e = EmitOnce("chunk-embedded", "chunk2", "chunk2")
  \/ j = 4 /\ e = EmitOnce("doc-indexed", "doc", "doc")
LEMMA IngestTells ==
  ASSUME NEW r, IngestJob(job[r]), NEW i \in DOMAIN Steps(r)
  PROVE  /\ Steps(r)[i].undo = <<>>
         /\ \A j \in DOMAIN Calls(r, i) :
              Calls(r, i)[j].op \in Telling => job[r] = IngestCorpus("doc") /\ i = 2 /\ Ingests4(Calls(r, i)[j], j)
<1>1. \A c, v : Get(c).op \notin Telling /\ Put(c, v).op \notin Telling
  BY DEF Telling, Get, Put
<1>2. CASE job[r] = IngestCorpus("doc")
  <2>1. i = 1 \/ i = 2
    BY <1>2, IngestCalls
  <2>2. CASE i = 1
    BY <1>2, <2>2, IngestCalls
  <2>3. CASE i = 2
    <3>1. PICK list : list = Calls(r, 2)
      OBVIOUS
    <3>2. /\ DOMAIN list = {1, 2, 3, 4} /\ list[1] = Get("doc") /\ list[2] = EmitOnce("chunk-embedded", "chunk1", "chunk1")
          /\ list[3] = EmitOnce("chunk-embedded", "chunk2", "chunk2") /\ list[4] = EmitOnce("doc-indexed", "doc", "doc")
      BY <1>2, <3>1, IngestCalls
    <3>3. \A j \in DOMAIN list : list[j].op \in Telling => Ingests4(list[j], j)
      BY <1>1, <3>2 DEF Ingests4
    <3> QED BY <1>2, <2>3, <3>1, <3>3, IngestCalls
  <2> QED BY <2>1, <2>2, <2>3
<1>3. CASE job[r] = Edit("doc")
  <2>1. i = 1 /\ Steps(r)[i].undo = <<>> /\ Calls(r, i) = <<Put("doc", Newer)>>
    BY <1>3, IngestCalls
  <2> QED BY <1>1, <2>1
<1>4. CASE job[r] = NotDeployed
  BY <1>4, IngestCalls
<1> QED BY <1>2, <1>3, <1>4 DEF IngestJob

KeyIs(k) ==
  \/ log[k].name = "chunk-embedded" /\ log[k].on \in {"chunk1", "chunk2"}
  \/ log[k].name = "doc-indexed" /\ log[k].on = "doc"
LEMMA IngestFacts ==
  ASSUME EngineInv, \A q \in Runs : IngestJob(job[q]), Drafts = {}, NEW k \in DOMAIN log
  PROVE  KeyIs(k) /\ log[k].key = <<log[k].on, log[k].about>>
<1>1. PICK r \in Runs : r = log[k].by /\ FromRun(k, r)
  BY FactsHaveRuns
<1>2. PICK i \in DOMAIN Steps(r) : DoneBy(k, r, i) \/ UndoneBy(k, r, i)
  BY <1>1 DEF FromRun
<1>3. PICK e, j : IsFactOf(k, r, e) /\ Ingests4(e, j)
  BY <1>2, IngestTells DEF DoneBy, UndoneBy
<1>4. ASSUME NEW n, NEW c, e = EmitOnce(n, c, c) PROVE log[k].name = n /\ log[k].on = c /\ log[k].key = <<c, log[k].about>>
  <2>1. PICK a : a = log[k].about
    OBVIOUS
  <2>2. e.op = "append" /\ e.on = c /\ e.name = n /\ e.key = <<c>> /\ e.key # NoKey
    BY <1>4, EmittedOnce
  <2>3. Append(e.key, a) = <<c, a>>
    BY <2>2, PairedKey
  <2> QED BY <1>3, <2>1, <2>2, <2>3 DEF IsFactOf, KeyOf
<1> QED BY <1>3, <1>4 DEF Ingests4, KeyIs

(* An ingest that goes on has told of the chunks of what it read.           *)
HasChunk(c, a) == \E k \in DOMAIN log : log[k].name = "chunk-embedded" /\ log[k].on = c /\ log[k].about = a
ChunksTold(r) ==
  Forward(r) /\ run[r].pc = 2 =>
    /\ run[r].at = 3 \/ run[r].at = 4 => HasChunk("chunk1", run[r].got)
    /\ run[r].at = 4 => HasChunk("chunk2", run[r].got)
Complete(k) == log[k].name = "doc-indexed" => HasChunk("chunk1", log[k].about) /\ HasChunk("chunk2", log[k].about)
Indexed ==
  /\ \A r \in Runs : job[r] = IngestCorpus("doc") => ChunksTold(r)
  /\ \A k \in DOMAIN log : Complete(k)
IndexInv == (\A r \in Runs : IngestJob(job[r])) => Indexed

LEMMA ChunksStay ==
  ASSUME LogIs, NEW e, log' = log \/ log' = Append(log, e), NEW c, NEW a, HasChunk(c, a)
  PROVE  HasChunk(c, a)'
BY FactsStay DEF HasChunk

LEMMA ChunkIsTold ==
  ASSUME EngineInv, \A q \in Runs : IngestJob(job[q]), Drafts = {}, NEW r \in Runs,
         NEW c \in {"chunk1", "chunk2"}, Effect(r) = EmitOnce("chunk-embedded", c, c), Call(r),
         log' = log \/ log' = Append(log, Keyed(r)), NEW a, a = run[r].got
  PROVE  HasChunk(c, a)'
<1>1. PICK e : e = Effect(r) /\ e.op = "append" /\ e.on = c /\ e.name = "chunk-embedded" /\ e.key # NoKey /\ e.key = <<c>>
  BY EmittedOnce
<1>2. PICK f : f = Keyed(r)
  OBVIOUS
<1>3. Append(e.key, a) = <<c, a>>
  BY <1>1, PairedKey
<1>4. f.on = c /\ f.name = "chunk-embedded" /\ f.about = a /\ f.key = <<c, a>>
  BY <1>1, <1>2, <1>3 DEF Keyed
<1>5. CASE Repeated(r)
  <2>1. PICK i \in DOMAIN log : log[i].key = <<c, a>>
    BY <1>1, <1>2, <1>4, <1>5 DEF Repeated
  <2>2. KeyIs(i) /\ log[i].key = <<log[i].on, log[i].about>>
    BY IngestFacts
  <2>3. log[i].on = c /\ log[i].about = a
    BY <2>1, <2>2
  <2>4. HasChunk(c, a)
    BY <2>2, <2>3 DEF KeyIs, HasChunk
  <2> QED BY <2>4, ChunksStay DEF EngineInv
<1>6. CASE ~Repeated(r)
  <2>1. log' = Append(log, f)
    BY <1>1, <1>2, <1>6 DEF Call, Write
  <2>2. PICK k : k \in DOMAIN log' /\ log'[k] = f
    BY <2>1, LogAppends DEF EngineInv
  <2> QED BY <1>4, <2>2 DEF HasChunk
<1> QED BY <1>5, <1>6

LEMMA ChunksStep ==
  ASSUME EngineInv, \A q \in Runs : IngestJob(job[q]), Drafts = {}, NEW r \in Runs, job[r] = IngestCorpus("doc"),
         ChunksTold(r), Advance(r) \/ LoseAnswer(r) \/ Crash(r) \/ Elapse(r)
  PROVE  ChunksTold(r)'
<1>1. LogIs /\ DOMAIN run = Runs /\ GoodFunction(job[r], {}) /\ IsPlaced(r) /\ Waits(r)
  BY DEF EngineInv
<1>2. log' = log \/ log' = Append(log, Keyed(r))
  BY <1>1, RunWrites
<1>3. PICK rec : rec = run'[r]
  OBVIOUS
<1>4. IsPlacedAt(r, rec) /\ Outcome(r, rec)
  BY <1>1, <1>3, RunMoves, LogShape, GoodIsFunction
<1>5. PICK at, got : at = run[r].at /\ got = run[r].got
  OBVIOUS
<1>6. SUFFICES ASSUME rec.mode = "forward", rec.pc = 2, rec.at = 3 \/ rec.at = 4
               PROVE  HasChunk("chunk1", rec.got)' /\ (rec.at = 4 => HasChunk("chunk2", rec.got)')
  <2>1. ChunksTold(r)' = (rec.mode = "forward" /\ rec.pc = 2 =>
          /\ rec.at = 3 \/ rec.at = 4 => HasChunk("chunk1", rec.got)'
          /\ rec.at = 4 => HasChunk("chunk2", rec.got)')
    BY <1>3 DEF ChunksTold, Forward, HasChunk
  <2> QED BY <2>1
<1>7. CallsOn(r, rec)
  <2>1. Starts(r, rec) => rec.at = 1
    BY <1>1 DEF Starts, Waits
  <2> QED BY <1>4, <1>6, <2>1 DEF Outcome, Parks, Returns, Records, Fresh
<1>8. Forward(r) /\ run[r].pc = 2 /\ rec.at = at + 1 /\ Gives(r, rec.got) /\ at \in Nat
  <2>1. at \in Nat
    BY <1>1, <1>5 DEF IsPlaced, RunState
  <2> QED BY <1>5, <1>6, <1>7, <2>1 DEF CallsOn, Same, Forward
<1>9. at = 2 \/ at = 3
  BY <1>6, <1>8
<1>10. PICK list : list = Calls(r, 2) /\ DOMAIN list = {1, 2, 3, 4} /\ list[2] = EmitOnce("chunk-embedded", "chunk1", "chunk1")
                   /\ list[3] = EmitOnce("chunk-embedded", "chunk2", "chunk2")
  <2>1. PICK list : list = Calls(r, 2)
    OBVIOUS
  <2> QED BY <2>1, IngestCalls
<1>11. Effect(r) = list[at]
  <2>1. Effects(r) = Calls(r, 2)
    BY <1>8 DEF Effects, Current, Calls, Forward
  <2> QED BY <1>5, <1>10, <2>1 DEF Effect
<1>12. PICK e : e = Effect(r) /\ e.op = "append" /\ e.key # NoKey
  <2>1. \E c : Effect(r) = EmitOnce("chunk-embedded", c, c)
    BY <1>9, <1>10, <1>11
  <2> QED BY <2>1, EmittedOnce
<1>13. Call(r) /\ rec.got = got
  <2>1. ~Reads(r)
    BY <1>12 DEF Reads, Doing, Effect
  <2>2. Call(r) /\ rec.got = Written(r)
    BY <1>8, <2>1, GivesReads
  <2>3. Written(r) = run[r].got
    BY <1>12 DEF Written
  <2> QED BY <1>5, <2>2, <2>3
<1>14. CASE at = 2
  <2>1. HasChunk("chunk1", got)'
    BY <1>2, <1>5, <1>10, <1>11, <1>13, <1>14, ChunkIsTold
  <2> QED BY <1>8, <1>13, <1>14, <2>1
<1>15. CASE at = 3
  <2>1. HasChunk("chunk2", got)'
    BY <1>2, <1>5, <1>10, <1>11, <1>13, <1>15, ChunkIsTold
  <2>2. HasChunk("chunk1", got)
    BY <1>5, <1>8, <1>15 DEF ChunksTold
  <2>3. HasChunk("chunk1", got)'
    BY <1>1, <1>2, <2>2, ChunksStay
  <2> QED BY <1>13, <2>1, <2>3
<1> QED BY <1>9, <1>14, <1>15

LEMMA IndexStep ==
  ASSUME EngineInv, \A q \in Runs : IngestJob(job[q]), Drafts = {}, Indexed, NEW q \in Runs,
         Advance(q) \/ LoseAnswer(q) \/ Crash(q) \/ Elapse(q)
  PROVE  Indexed'
<1>1. LogIs /\ DOMAIN run = Runs /\ GoodFunction(job[q], {}) /\ IsPlaced(q)
  BY DEF EngineInv
<1>2. /\ log' = log \/ log' = Append(log, Keyed(q))
      /\ log' # log => (\E op \in Telling : Doing(q, op)) /\ log' = Append(log, Keyed(q))
      /\ job' = job
  BY <1>1, RunWrites
<1>3. \A r \in Runs \ {q} : run'[r] = run[r]
  BY <1>1, StepsOnlyRun DEF OnlyRuns
<1>4. ASSUME NEW r \in Runs, job[r] = IngestCorpus("doc") PROVE ChunksTold(r)'
  <2>1. CASE r = q
    BY <1>4, <2>1, ChunksStep DEF Indexed
  <2>2. CASE r # q
    <3>1. PICK u : u = run[r] /\ u = run'[r]
      BY <1>3, <2>2
    <3>2. ChunksTold(r) /\ \A c, a : HasChunk(c, a) => HasChunk(c, a)'
      BY <1>1, <1>2, <1>4, ChunksStay DEF Indexed
    <3> QED BY <3>1, <3>2 DEF ChunksTold, Forward
  <2> QED BY <2>1, <2>2
<1>5. ASSUME NEW k \in DOMAIN log' PROVE Complete(k)'
  <2>1. CASE k \in DOMAIN log
    <3>1. PICK f : f = log[k] /\ f = log'[k]
      BY <1>1, <1>2, <2>1, FactsStay
    <3>2. Complete(k) /\ \A c, a : HasChunk(c, a) => HasChunk(c, a)'
      BY <1>1, <1>2, <2>1, ChunksStay DEF Indexed
    <3> QED BY <3>1, <3>2 DEF Complete
  <2>2. CASE k \notin DOMAIN log
    <3>1. log'[k] = Keyed(q) /\ log' # log
      BY <1>1, <1>2, <2>2, FactsStay
    <3>2. PICK op \in Telling : Doing(q, op)
      BY <1>2, <3>1
    <3>3. PICK e, f, got : e = Effect(q) /\ f = Keyed(q) /\ got = run[q].got
      OBVIOUS
    <3>8. e.op = op /\ f.name = e.name /\ f.about = got
      BY <3>2, <3>3, CallAt, <1>1 DEF Keyed
    <3>4. SUFFICES ASSUME f.name = "doc-indexed" PROVE HasChunk("chunk1", got)' /\ HasChunk("chunk2", got)'
      BY <3>1, <3>3, <3>8 DEF Complete, HasChunk
    <3>5. job[q] = IngestCorpus("doc") /\ Forward(q) /\ run[q].pc = 2 /\ Ingests4(e, run[q].at)
      <4>1. run[q].pc \in DOMAIN Steps(q) /\ Steps(q)[run[q].pc].undo = <<>>
        BY <1>1, <3>2, CallAt, IngestTells
      <4>2. /\ Forward(q) /\ run[q].at \in DOMAIN Calls(q, run[q].pc)
            /\ Effect(q) = Calls(q, run[q].pc)[run[q].at]
        BY <1>1, <3>2, <4>1, CallAt
      <4> QED BY <3>2, <3>3, <3>8, <4>1, <4>2, IngestTells
    <3>6. run[q].at = 4
      <4>1. \A c : e = EmitOnce("chunk-embedded", c, c) => e.name # "doc-indexed"
        <5>1. \A c : e = EmitOnce("chunk-embedded", c, c) => e.name = "chunk-embedded"
          BY EmittedOnce
        <5> QED BY <5>1
      <4> QED BY <3>4, <3>5, <3>8, <4>1 DEF Ingests4
    <3>7. HasChunk("chunk1", got) /\ HasChunk("chunk2", got)
      BY <3>3, <3>5, <3>6 DEF Indexed, ChunksTold
    <3> QED BY <1>1, <1>2, <3>7, ChunksStay
  <2> QED BY <2>1, <2>2
<1> QED BY <1>2, <1>4, <1>5 DEF Indexed

LEMMA NoDrafts ==
  (\A r \in Runs : IngestJob(job[r])) \/ (\A r \in Runs : UploadJob(job[r])) => Drafts = {}
BY WhoIsDeployed DEF Drafts

LEMMA IndexSteps == ASSUME EngineInv, InboxInv, IndexInv, [ExamplesNext]_exampleVars PROVE IndexInv'
<1>1. job' = job
  BY JobsStay DEF ExamplesNext, exampleVars, vars
<1>2. SUFFICES ASSUME \A r \in Runs : IngestJob(job[r]) PROVE Indexed'
  BY <1>1 DEF IndexInv
<1>3. Drafts = {} /\ Indexed
  BY <1>2, NoDrafts DEF IndexInv
<1>4. CASE Next /\ UNCHANGED <<inboxVars, notifierVars>>
  BY <1>2, <1>3, <1>4, IndexStep DEF Next
<1>5. CASE (InboxNext /\ UNCHANGED notifierVars) \/ (NotifierNext /\ UNCHANGED inboxVars) \/ UNCHANGED exampleVars
  <2>1. UNCHANGED <<job, log, run>>
    BY <1>3, <1>5, WhatIsEmitted DEF EngineInv
  <2>2. \A r, k : ChunksTold(r)' = ChunksTold(r) /\ Complete(k)' = Complete(k)
    BY <2>1 DEF ChunksTold, Complete, HasChunk, Forward
  <2> QED BY <1>3, <2>1, <2>2 DEF Indexed
<1> QED BY <1>4, <1>5 DEF ExamplesNext

LEMMA IndexStart == Init => IndexInv
<1> SUFFICES ASSUME Init, \A r \in Runs : IngestJob(job[r]) PROVE Indexed
  BY DEF IndexInv
<1>1. log = <<>> /\ run = [r \in Runs |-> Idle(r)]
  BY DEF Init, InitEngine
<1>2. \A r \in Runs : run[r].pc = 1
  BY <1>1 DEF Idle
<1>3. DOMAIN log = {}
  BY <1>1
<1> QED BY <1>2, <1>3 DEF Indexed, ChunksTold

LEMMA IndexInvariance == Spec => [](EngineInv /\ IndexInv)
<1>1. Init => EngineInv /\ InboxInv /\ IndexInv
  BY EngineStart, InboxStart, IndexStart
<1>2. (EngineInv /\ InboxInv /\ IndexInv) /\ [ExamplesNext]_exampleVars => IndexInv'
  BY IndexSteps
<1> QED BY <1>1, <1>2, EngineInvariance, InboxInvariance, PTL DEF Spec

(* An event says a document is indexed only when every chunk of the content *)
(* it names is in the index, and no content is recorded twice, however many *)
(* ingests overlap, die half way or read a file that somebody edits         *)
(* (ingest-corpus, the vector projection).                                  *)
THEOREM IndexedStaysComplete == Spec => []IndexedIsComplete
<1>1. ASSUME EngineInv, DeployedKinds, IndexInv PROVE IndexedIsComplete
  <2>1. CASE \A r \in Runs : IngestJob(job[r])
    <3>1. Drafts = {} /\ Indexed
      BY <1>1, <2>1, NoDrafts DEF IndexInv
    <3>2. ASSUME NEW c, NEW a, HasChunk(c, a) PROVE <<c, a>> \in VectorIndex
      <4>1. PICK k \in DOMAIN log : log[k].name = "chunk-embedded" /\ log[k].on = c /\ log[k].about = a
        BY <3>2 DEF HasChunk
      <4> QED BY <4>1 DEF VectorIndex
    <3>3. ASSUME NEW i \in DOMAIN log, log[i].name = "doc-indexed", NEW c \in Chunks
          PROVE  <<c, log[i].about>> \in VectorIndex
      BY <3>1, <3>2, <3>3 DEF Indexed, Complete, Chunks
    <3>4. ASSUME NEW i \in DOMAIN log, NEW j \in DOMAIN log, i # j,
                 log[i].on = log[j].on, log[i].about = log[j].about
          PROVE  FALSE
      <4>1. log[i].key = <<log[i].on, log[i].about>> /\ log[j].key = <<log[j].on, log[j].about>>
        BY <1>1, <2>1, <3>1, IngestFacts
      <4>2. log[i].key = log[j].key /\ log[i].key # NoKey
        <5>1. \A x, y : <<x, y>> # NoKey
          BY DEF NoKey
        <5> QED BY <3>4, <4>1, <5>1
      <4> QED BY <1>1, <3>4, <4>2 DEF EngineInv, KeysDiffer
    <3> QED BY <3>3, <3>4 DEF IndexedIsComplete
  <2>2. CASE ~\A r \in Runs : IngestJob(job[r])
    <3> DEFINE N == {"doc-indexed", "chunk-embedded"}
    <3>1. ASSUME NEW r \in Runs PROVE GoodFunction(job[r], N)
      <4>1. N \subseteq Reserved /\ N \subseteq N
        BY DEF Reserved
      <4>2. OrderProgram(job) => OrderJob(job[r])
        BY DEF OrderProgram
      <4> QED BY <1>1, <2>2, <4>1, <4>2, JobsAreGood, FewerSpared DEF DeployedKinds
    <3>2. N \cap Outcomes = {}
      BY DEF Outcomes
    <3>3. \A k \in DOMAIN log : log[k].name \notin N
      BY <1>1, <3>1, <3>2, NeverTold
    <3> QED BY <3>3 DEF IndexedIsComplete
  <2> QED BY <2>1, <2>2
<1>2. EngineInv /\ DeployedKinds /\ IndexInv => IndexedIsComplete
  BY <1>1
<1> QED BY <1>2, ExamplesInvariance, IndexInvariance, PTL

-----------------------------------------------------------------------------
(* file-upload: which report is filed.                                      *)
ReportOf(e) == ProcessUpload("object", "report", e)
LEMMA ReportCalls ==
  ASSUME NEW r, NEW e, job[r] = ReportOf(e)
  PROVE  /\ job[r].errors = "retry" /\ job[r].id = "process-upload" /\ job[r].trigger[3] = e
         /\ DOMAIN Steps(r) = {1, 2} /\ Len(Steps(r)) = 2 /\ Steps(r)[1].name = "analyze" /\ Steps(r)[2].name = "write-report"
         /\ Steps(r)[1].undo = <<>> /\ Steps(r)[2].undo = <<>> /\ Steps(r)[1].needs = <<>> /\ Steps(r)[2].needs = <<>>
         /\ Calls(r, 1) = <<Match("object", e)>> /\ Calls(r, 2) = <<Put("report", After("analyze"))>>
         /\ job[r].steps[2].does[1].on = "report"
<1>1. PICK list, one, two : /\ one = <<Match("object", e)>> /\ two = <<Put("report", After("analyze"))>>
                            /\ list = <<Step("analyze", one), Step("write-report", two)>>
  OBVIOUS
<1>2. job[r] = Function("process-upload", OnObject("object", e), list)
  BY <1>1 DEF ReportOf, ProcessUpload, Analyze, WriteReport
<1>3. /\ job[r].errors = "retry" /\ job[r].id = "process-upload" /\ job[r].steps = list
      /\ job[r].trigger = <<"object", "object", e>>
  BY <1>2 DEF Function, OnObject
<1>4. DOMAIN list = {1, 2} /\ Len(list) = 2 /\ list[1] = Step("analyze", one) /\ list[2] = Step("write-report", two)
  BY <1>1
<1>5. \A n, d : Step(n, d).does = d /\ Step(n, d).undo = <<>> /\ Step(n, d).needs = <<>> /\ Step(n, d).name = n
  BY DEF Step
<1>6. two[1] = Put("report", After("analyze")) /\ Put("report", After("analyze")).on = "report"
  BY <1>1 DEF Put
<1>7. job[r].trigger[3] = e
  BY <1>3
<1> QED BY <1>1, <1>3, <1>4, <1>5, <1>6, <1>7 DEF Calls, Steps

LEMMA UploadCalls ==
  ASSUME NEW r, job[r] = Upload("object")
  PROVE  /\ DOMAIN Steps(r) = {1} /\ Steps(r)[1].undo = <<>> /\ Calls(r, 1) = <<Put("object", Newer)>>
         /\ job[r].id = "upload"
<1>1. PICK list, one : one = <<Put("object", Newer)>> /\ list = <<Step("upload", one)>>
  OBVIOUS
<1>2. Steps(r) = list /\ job[r].id = "upload"
  BY <1>1 DEF Upload, Script, Function, Steps
<1>3. DOMAIN list = {1} /\ list[1] = Step("upload", one)
  BY <1>1
<1>4. Step("upload", one).does = one /\ Step("upload", one).undo = <<>>
  BY DEF Step
<1> QED BY <1>1, <1>2, <1>3, <1>4 DEF Calls

(* A report that was analysed is of the version asked for, one that was     *)
(* written is filed, and what is filed some started run was asked for.      *)
Pinned(r, e) ==
  /\ 1 <= Len(run[r].memo) => run[r].memo[1] = e
  /\ 2 <= Len(run[r].memo) => cell["report"] # 0
Asked(r, e) == job[r] = ReportOf(e) /\ run[r].mode # "waiting"
Reported ==
  /\ "report" \in DOMAIN cell
  /\ \A r \in Runs : \A e \in {1, 2} : job[r] = ReportOf(e) => Pinned(r, e)
  /\ cell["report"] # 0 => \E r \in Runs : \E e \in {1, 2} : Asked(r, e) /\ cell["report"] = e
ReportInv == (\A r \in Runs : UploadJob(job[r])) => Reported

(* What a call does to the report.                                          *)
LEMMA ReportIsPut ==
  ASSUME EngineInv, NEW r \in Runs, UploadJob(job[r]), Reported, NEW op, Doing(r, op), Write(r)
  PROVE  /\ "report" \in DOMAIN cell'
         /\ \/ cell'["report"] = cell["report"] /\ \A e : job[r] = ReportOf(e) => run[r].pc = 1
            \/ \E e \in {1, 2} : job[r] = ReportOf(e) /\ run[r].pc = 2 /\ cell'["report"] = e
<1>1. GoodFunction(job[r], {}) /\ IsPlaced(r)
  BY DEF EngineInv
<1>2. PICK i, j, e : i = run[r].pc /\ j = run[r].at /\ e = Effect(r) /\ e.op = op
  BY <1>1, CallAt
<1>3. job[r] # NotDeployed
  <2>1. job[r] = NotDeployed => DOMAIN Steps(r) = {}
    BY DEF NotDeployed, Function, Steps
  <2> QED BY <1>1, <2>1, CallAt
<1>4. CASE job[r] = Upload("object")
  <2>1. e = Put("object", Newer)
    BY <1>1, <1>2, <1>4, UploadCalls, CallAt
  <2>2. e.op = "put" /\ e.on = "object"
    BY <2>1 DEF Put
  <2>3. \E v : cell' = [cell EXCEPT !["object"] = v]
    BY <1>2, <2>2 DEF Write
  <2>4. \A x : job[r] # ReportOf(x)
    BY <1>4, UploadCalls DEF ReportOf, ProcessUpload, Function
  <2> QED BY <2>3, <2>4 DEF Reported
<1>5. ASSUME NEW v \in {1, 2}, job[r] = ReportOf(v)
      PROVE  /\ "report" \in DOMAIN cell'
             /\ \/ cell'["report"] = cell["report"] /\ \A x : job[r] = ReportOf(x) => run[r].pc = 1
                \/ \E x \in {1, 2} : job[r] = ReportOf(x) /\ run[r].pc = 2 /\ cell'["report"] = x
  <2>1. /\ DOMAIN Steps(r) = {1, 2} /\ Steps(r)[1].undo = <<>> /\ Steps(r)[2].undo = <<>>
        /\ Steps(r)[1].name = "analyze" /\ Steps(r)[2].name = "write-report"
        /\ Calls(r, 1) = <<Match("object", v)>> /\ Calls(r, 2) = <<Put("report", After("analyze"))>>
    BY <1>5, ReportCalls
  <2>2. /\ i = 1 => e = Match("object", v)
        /\ i = 2 => e = Put("report", After("analyze")) /\ i = Len(run[r].memo) + 1
        /\ i \in {1, 2}
    BY <1>1, <1>2, <2>1, CallAt
  <2>3. i = 2
    <3>1. Match("object", v).op = "match"
      BY DEF Match
    <3> QED BY <1>2, <2>2, <3>1 DEF Write
  <2>4. e.op = "put" /\ e.on = "report" /\ e.value = <<"step", "analyze">>
    BY <2>2, <2>3 DEF Put, After
  <2>5. cell' = [cell EXCEPT !["report"] = Memo(r, "analyze")]
    <3>1. e.value # Newer /\ e.value # Nothing /\ e.value[2] = "analyze"
      BY <2>4 DEF Newer, Nothing
    <3> QED BY <1>2, <2>4, <3>1 DEF Write
  <2>6. Memo(r, "analyze") = v
    <3>1. Position(r, "analyze") = 1
      BY <2>1 DEF Position
    <3>2. PICK n : n = Len(run[r].memo) /\ n \in Nat
      BY <1>1, PlacedRun, GoodIsFunction
    <3>3. 1 <= n
      BY <2>2, <2>3, <3>2
    <3>4. run[r].memo[1] = v
      BY <1>5, <3>2, <3>3 DEF Reported, Pinned
    <3> QED BY <3>1, <3>4 DEF Memo
  <2> QED BY <1>2, <1>5, <2>3, <2>5, <2>6 DEF Reported
<1> QED BY <1>3, <1>4, <1>5 DEF UploadJob, ReportOf

(* An answer of a report's step is what it read, or it is filed.            *)
LEMMA ReportStep ==
  ASSUME EngineInv, NEW r \in Runs, UploadJob(job[r]), Reported, NEW e \in {1, 2}, job[r] = ReportOf(e),
         cell'["report"] = cell["report"] \/ cell'["report"] \in {1, 2},
         Advance(r) \/ LoseAnswer(r) \/ Crash(r) \/ Elapse(r)
  PROVE  Pinned(r, e)'
<1>1. LogIs /\ DOMAIN run = Runs /\ GoodFunction(job[r], {}) /\ IsPlaced(r) /\ Waits(r) /\ Pinned(r, e)
  BY DEF EngineInv, Reported
<1>2. PICK rec : rec = run'[r]
  OBVIOUS
<1>3. IsPlacedAt(r, rec) /\ Outcome(r, rec)
  BY <1>1, <1>2, RunMoves, LogShape, GoodIsFunction
<1>4. PICK n, m, memo : n = Len(run[r].memo) /\ m = Len(rec.memo) /\ memo = run[r].memo
  OBVIOUS
<1>5. n \in Nat /\ m \in Nat
  <2>1. n \in Nat
    BY <1>1, <1>4, PlacedRun, GoodIsFunction
  <2>2. m \in Nat
    BY <1>3, <1>4, LenProperties DEF IsPlacedAt, RunState
  <2> QED BY <2>1, <2>2
<1>6. cell["report"] # 0 => cell'["report"] # 0
  OBVIOUS
<1>7. SUFFICES /\ 1 <= m => rec.memo[1] = e
               /\ 2 <= m => cell'["report"] # 0
  BY <1>2, <1>4 DEF Pinned
<1>8. CASE rec.memo = memo
  BY <1>1, <1>4, <1>6, <1>8 DEF Pinned
<1>9. CASE Returns(r, rec)
  <2>1. m <= n /\ \A i \in 1 .. m : rec.memo[i] = memo[i]
    BY <1>4, <1>9 DEF Returns, KeptOf
  <2>2. 1 <= m => 1 <= n /\ 1 \in 1 .. m
    BY <1>5, <2>1
  <2>3. 2 <= m => 2 <= n
    BY <1>5, <2>1
  <2> QED BY <1>1, <1>4, <1>6, <2>1, <2>2, <2>3 DEF Pinned
<1>10. ASSUME NEW v, Records(r, rec, v), Reason(r, v)
       PROVE  (1 <= m => rec.memo[1] = e) /\ (2 <= m => cell'["report"] # 0)
  <2>1. PICK pc : pc = run[r].pc /\ pc = n + 1 /\ pc \in {1, 2} /\ run[r].mode \in {"forward", "parked"}
    <3>1. Placed(run[r].mode, run[r].pc, n, run[r].kept, Len(Steps(r))) /\ Len(Steps(r)) = 2
      BY <1>1, <1>4, ReportCalls DEF IsPlaced
    <3>2. run[r].mode \in {"forward", "parked"}
      BY <1>10 DEF Records
    <3>3. run[r].pc <= 2 /\ run[r].pc = n + 1
      BY <3>1, <3>2 DEF Placed
    <3> QED BY <1>5, <3>2, <3>3
  <2>2. /\ m = n + 1 /\ rec.memo[n + 1] = v /\ \A i \in 1 .. n : rec.memo[i] = memo[i]
    <3>1. rec.memo = Append(memo, v)
      BY <1>4, <1>10 DEF Records
    <3>2. PICK S : memo \in Seq(S \cup {v})
      <4>1. PICK S : memo \in Seq(S)
        BY <1>1, <1>4 DEF IsPlaced, RunState
      <4> QED BY <4>1, SeqMonotonic
    <3> QED BY <1>4, <3>1, <3>2, OneMoreAnswer
  <2>3. PICK step, call : step = Steps(r)[pc] /\ call = Calls(r, pc)[1] /\ step.needs = <<>> /\ step.does = <<call>>
                          /\ (pc = 1 => call = Match("object", e)) /\ (pc = 2 => call = Put("report", After("analyze")))
    <3>1. CASE pc = 1
      <4>1. Calls(r, 1) = <<Match("object", e)>> /\ Steps(r)[1].needs = <<>>
        BY ReportCalls
      <4>2. Calls(r, 1)[1] = Match("object", e)
        BY <4>1
      <4> QED BY <3>1, <4>1, <4>2 DEF Calls
    <3>2. CASE pc = 2
      <4>1. Calls(r, 2) = <<Put("report", After("analyze"))>> /\ Steps(r)[2].needs = <<>>
        BY ReportCalls
      <4>2. Calls(r, 2)[1] = Put("report", After("analyze"))
        BY <4>1
      <4> QED BY <3>2, <4>1, <4>2 DEF Calls
    <3> QED BY <2>1, <3>1, <3>2
  <2>4. call.op \in {"match", "put"} /\ Len(step.does) = 1 /\ step.does # <<>> /\ step.does[1] = call
    BY <2>1, <2>3 DEF Match, Put
  <2>5. Current(r) = step
    BY <2>1, <2>3 DEF Current
  <2>6. ~Woken(r)
    <3>1. NoWait(step.does)
      BY <2>4 DEF NoWait
    <3>2. run[r].mode # "parked"
      BY <1>1, <2>5, <3>1 DEF Waits
    <3> QED BY <3>2 DEF Woken
  <2>7. Effects(r) = step.does /\ Needed(r)
    BY <2>1, <2>3, <2>5 DEF Effects, Needed
  <2>8. run[r].at = 1 /\ Gives(r, v)
    <3>1. job[r].errors = "retry"
      BY ReportCalls
    <3> QED BY <1>10, <2>4, <2>6, <2>7, <3>1 DEF Reason
  <2>9. Effect(r) = call
    BY <2>4, <2>7, <2>8 DEF Effect
  <2>10. CASE pc = 1
    <3>1. call.op = "match" /\ call.value = e
      BY <2>3, <2>10 DEF Match
    <3>2. ~Call(r) /\ \A op : Doing(r, op) => op = "match"
      BY <2>9, <3>1 DEF Call, CanWrite, Doing, Effect
    <3>3. v = e
      BY <2>8, <2>9, <3>1, <3>2 DEF Gives
    <3> QED BY <1>5, <2>1, <2>2, <2>10, <3>3
  <2>11. CASE pc = 2
    <3>1. call.op = "put"
      BY <2>3, <2>11 DEF Put
    <3>2. \A op : Doing(r, op) => op = "put"
      BY <2>9, <3>1 DEF Doing, Effect
    <3>3. Call(r)
      BY <2>8, <3>2 DEF Gives
    <3>4. Write(r) /\ \E op : Doing(r, op)
      BY <3>3 DEF Call, CanWrite
    <3>5. cell'["report"] # 0
      <4>1. PICK op : Doing(r, op)
        BY <3>4
      <4>2. \/ \A x : job[r] = ReportOf(x) => run[r].pc = 1
            \/ \E x \in {1, 2} : cell'["report"] = x
        BY <3>4, <4>1, ReportIsPut
      <4>3. \E x \in {1, 2} : cell'["report"] = x
        BY <2>1, <2>11, <4>2
      <4> QED BY <4>3
    <3>6. 1 \in 1 .. n /\ 1 <= n
      BY <1>5, <2>1, <2>11
    <3>7. memo[1] = e
      BY <1>1, <1>4, <3>6 DEF Pinned
    <3> QED BY <2>2, <3>5, <3>6, <3>7
  <2> QED BY <2>1, <2>10, <2>11
<1> QED BY <1>3, <1>4, <1>8, <1>9, <1>10 DEF Outcome, Starts, CallsOn, Parks, Same

(* No run returns to waiting for its trigger, and only a call writes.       *)
LEMMA RunsStayStarted ==
  ASSUME LogIs, NEW r \in DOMAIN run, GoodFunction(job[r], {}), IsPlaced(r), Waits(r),
         Advance(r) \/ LoseAnswer(r) \/ Crash(r) \/ Elapse(r)
  PROVE  run'[r].mode # "waiting"
<1>1. PICK rec : rec = run'[r]
  OBVIOUS
<1>2. Outcome(r, rec)
  BY <1>1, RunMoves, LogShape, GoodIsFunction
<1>3. rec.mode # "waiting"
  BY <1>2 DEF Outcome, Starts, CallsOn, Parks, Returns, Records, Working, Busy
<1> QED BY <1>1, <1>3

LEMMA CallsWrite ==
  ASSUME NEW r, Advance(r) \/ LoseAnswer(r) \/ Crash(r) \/ Elapse(r)
  PROVE  cell' = cell \/ (Write(r) /\ \E op : Doing(r, op))
BY DEF Advance, Start, ReadStore, ReadView, Park, Woken, Check, Call, Conflict, Pass, LoseAnswer, Crash, Elapse, CanWrite

LEMMA ReportsStep ==
  ASSUME EngineInv, \A q \in Runs : UploadJob(job[q]), Reported, NEW q \in Runs,
         Advance(q) \/ LoseAnswer(q) \/ Crash(q) \/ Elapse(q)
  PROVE  Reported'
<1>1. LogIs /\ DOMAIN run = Runs /\ GoodFunction(job[q], {}) /\ IsPlaced(q) /\ Waits(q)
  BY DEF EngineInv
<1>2. job' = job
  BY <1>1, RunWrites
<1>3. \A r \in Runs \ {q} : run'[r] = run[r]
  BY <1>1, StepsOnlyRun DEF OnlyRuns
<1>4. /\ "report" \in DOMAIN cell'
      /\ \/ cell'["report"] = cell["report"]
         \/ \E e \in {1, 2} : job[q] = ReportOf(e) /\ cell'["report"] = e
  <2>1. CASE cell' = cell
    BY <2>1 DEF Reported
  <2>2. CASE Write(q) /\ \E op : Doing(q, op)
    <3>1. PICK op : Doing(q, op)
      BY <2>2
    <3> QED BY <2>2, <3>1, ReportIsPut
  <2> QED BY <2>1, <2>2, CallsWrite
<1>5. cell["report"] # 0 => cell'["report"] # 0
  BY <1>4
<1>6. ASSUME NEW r \in Runs, NEW e \in {1, 2}, job[r] = ReportOf(e) PROVE Pinned(r, e)'
  <2>1. CASE r = q
    <3>1. cell'["report"] = cell["report"] \/ cell'["report"] \in {1, 2}
      BY <1>4
    <3>2. \A x \in {1, 2} : job[q] = ReportOf(x) => Pinned(q, x)'
      BY <3>1, ReportStep
    <3> QED BY <1>6, <2>1, <3>2
  <2>2. CASE r # q
    <3>1. Pinned(r, e) /\ run'[r] = run[r]
      BY <1>3, <1>6, <2>2 DEF Reported
    <3> QED BY <1>5, <3>1 DEF Pinned
  <2> QED BY <2>1, <2>2
<1>7. run'[q].mode # "waiting"
  BY <1>1, RunsStayStarted
<1>8. \A r, e : Asked(r, e) /\ r \in Runs => Asked(r, e)'
  BY <1>2, <1>3, <1>7 DEF Asked
<1>9. cell'["report"] # 0 => \E r \in Runs : \E e \in {1, 2} : Asked(r, e)' /\ cell'["report"] = e
  <2>1. CASE cell'["report"] = cell["report"]
    BY <1>8, <2>1 DEF Reported
  <2>2. ASSUME NEW e \in {1, 2}, job[q] = ReportOf(e), cell'["report"] = e
        PROVE  \E r \in Runs : \E x \in {1, 2} : Asked(r, x)' /\ cell'["report"] = x
    <3>1. Asked(q, e)'
      BY <1>2, <1>7, <2>2 DEF Asked
    <3> QED BY <2>2, <3>1
  <2> QED BY <1>4, <2>1, <2>2
<1> QED BY <1>2, <1>4, <1>6, <1>9 DEF Reported, ReportOf

LEMMA ReportSteps == ASSUME EngineInv, InboxInv, ReportInv, [ExamplesNext]_exampleVars PROVE ReportInv'
<1>1. job' = job
  BY JobsStay DEF ExamplesNext, exampleVars, vars
<1>2. SUFFICES ASSUME \A r \in Runs : UploadJob(job[r]) PROVE Reported'
  BY <1>1 DEF ReportInv
<1>3. Drafts = {} /\ Reported
  BY <1>2, NoDrafts DEF ReportInv
<1>4. CASE Next /\ UNCHANGED <<inboxVars, notifierVars>>
  BY <1>2, <1>3, <1>4, ReportsStep DEF Next
<1>5. CASE (InboxNext /\ UNCHANGED notifierVars) \/ (NotifierNext /\ UNCHANGED inboxVars) \/ UNCHANGED exampleVars
  <2>1. UNCHANGED <<job, cell, run>>
    BY <1>3, <1>5, WhatIsEmitted DEF EngineInv
  <2>2. \A r, e : Pinned(r, e)' = Pinned(r, e) /\ Asked(r, e)' = Asked(r, e)
    BY <2>1 DEF Pinned, Asked
  <2> QED BY <1>3, <2>1, <2>2 DEF Reported
<1> QED BY <1>4, <1>5 DEF ExamplesNext

LEMMA ReportStart == Init => ReportInv
<1> SUFFICES ASSUME Init, \A r \in Runs : UploadJob(job[r]) PROVE Reported
  BY DEF ReportInv
<1>1. cell = [c \in {"card", "object", "report", "doc"} |-> 0] /\ run = [r \in Runs |-> Idle(r)]
  BY DEF Init, InitEngine
<1>2. \A r \in Runs : run[r].memo = <<>>
  BY <1>1 DEF Idle
<1>3. "report" \in DOMAIN cell /\ cell["report"] = 0 /\ Len(<<>>) = 0
  BY <1>1
<1> QED BY <1>2, <1>3 DEF Reported, Pinned

LEMMA ReportInvariance == Spec => [](EngineInv /\ ReportInv)
<1>1. Init => EngineInv /\ InboxInv /\ ReportInv
  BY EngineStart, InboxStart, ReportStart
<1>2. (EngineInv /\ InboxInv /\ ReportInv) /\ [ExamplesNext]_exampleVars => ReportInv'
  BY ReportSteps
<1> QED BY <1>1, <1>2, EngineInvariance, InboxInvariance, PTL DEF Spec

(* A report is made from the bytes of the version its run was asked for, a  *)
(* run that ends has filed one, and what is filed some started run was      *)
(* asked for, although the object is replaced in between, a step is         *)
(* executed again or an answer is lost (process-upload, if_match).          *)
THEOREM ReportsStayPinned == Spec => []ReportsArePinned
<1>1. ASSUME EngineInv, DeployedKinds, ReportInv PROVE ReportsArePinned
  <2>1. ASSUME NEW r \in Runs, job[r].id = "process-upload"
        PROVE  LET etag == job[r].trigger[3]
                   report == cell[job[r].steps[2].does[1].on] IN
               /\ Did(r, "analyze") => Memo(r, "analyze") = etag
               /\ run[r].mode = "completed" => report # 0
               /\ report # 0 => \E q \in Runs : /\ job[q].id = "process-upload" /\ run[q].mode # "waiting"
                                                /\ report = job[q].trigger[3]
    <3>1. (\A q \in Runs : UploadJob(job[q])) /\ Reported
      BY <1>1, <2>1, OneKind DEF ReportInv
    <3>2. PICK e \in {1, 2} : job[r] = ReportOf(e)
      <4>1. NotDeployed.id # "process-upload" /\ Upload("object").id # "process-upload"
        BY DEF NotDeployed, Upload, Script, Function
      <4> QED BY <2>1, <3>1, <4>1 DEF UploadJob, ReportOf
    <3>3. /\ job[r].trigger[3] = e /\ DOMAIN Steps(r) = {1, 2} /\ Len(Steps(r)) = 2
          /\ Steps(r)[1].name = "analyze" /\ Steps(r)[2].name = "write-report"
          /\ job[r].steps[2].does[1].on = "report"
      BY <3>2, ReportCalls
    <3>4. PICK n : n = Len(run[r].memo) /\ n \in Nat /\ DOMAIN run[r].memo = 1 .. n
      <4>1. IsPlaced(r) /\ GoodFunction(job[r], {})
        BY <1>1 DEF EngineInv
      <4> QED BY <4>1, PlacedRun, GoodIsFunction, LenProperties DEF IsPlaced, RunState
    <3>5. Pinned(r, e)
      BY <3>1, <3>2 DEF Reported
    <3>6. Did(r, "analyze") => Memo(r, "analyze") = e
      <4>1. SUFFICES ASSUME NEW i \in DOMAIN run[r].memo PROVE Memo(r, "analyze") = e
        BY DEF Did
      <4>2. 1 <= n
        BY <3>4, <4>1
      <4>3. Position(r, "analyze") = 1
        BY <3>3 DEF Position
      <4> QED BY <3>4, <3>5, <4>2, <4>3 DEF Memo, Pinned
    <3>7. run[r].mode = "completed" => cell["report"] # 0
      <4>1. Placed(run[r].mode, run[r].pc, n, run[r].kept, 2)
        BY <1>1, <3>3, <3>4 DEF EngineInv, IsPlaced
      <4>2. run[r].mode = "completed" => n = 2
        BY <4>1 DEF Placed
      <4>3. n = 2 => 2 <= Len(run[r].memo)
        BY <3>4
      <4> QED BY <3>5, <4>2, <4>3 DEF Pinned
    <3>8. cell["report"] # 0 => \E q \in Runs : /\ job[q].id = "process-upload" /\ run[q].mode # "waiting"
                                                /\ cell["report"] = job[q].trigger[3]
      <4>1. SUFFICES ASSUME cell["report"] # 0
                     PROVE  \E q \in Runs : /\ job[q].id = "process-upload" /\ run[q].mode # "waiting"
                                            /\ cell["report"] = job[q].trigger[3]
        OBVIOUS
      <4>2. PICK q \in Runs : \E x \in {1, 2} : Asked(q, x) /\ cell["report"] = x
        BY <3>1, <4>1 DEF Reported
      <4>3. PICK x \in {1, 2} : Asked(q, x) /\ cell["report"] = x
        BY <4>2
      <4>4. job[q].id = "process-upload" /\ job[q].trigger[3] = x /\ run[q].mode # "waiting"
        BY <4>3, ReportCalls DEF Asked
      <4> QED BY <4>3, <4>4
    <3> QED BY <3>3, <3>6, <3>7, <3>8
  <2> QED BY <2>1 DEF ReportsArePinned
<1>2. EngineInv /\ DeployedKinds /\ ReportInv => ReportsArePinned
  BY <1>1
<1> QED BY <1>2, ExamplesInvariance, ReportInvariance, PTL

(* What is made from a content is filed under that content: the report of   *)
(* file-upload and the index of financial-rag.                              *)
THEOREM ResultsStayTheirContents == Spec => []ResultsMatchTheirContent
<1>1. ReportsArePinned /\ IndexedIsComplete => ResultsMatchTheirContent
  BY DEF ResultsMatchTheirContent
<1> QED BY <1>1, ReportsStayPinned, IndexedStaysComplete, PTL

-----------------------------------------------------------------------------
(* How a run's forward part and its undo go on: what stops one is a refusal *)
(* or a write the store rejects, a lost answer or a crash.                  *)
TurnedDown(r) == Doing(r, "refuse") /\ run[r].got \in Effect(r).on
Stopped(r) == TurnedDown(r) \/ Conflict(r) \/ LoseAnswer(r)
GoesOn(r, rec) == CallsOn(r, rec) \/ Parks(r, rec) \/ \E v : Records(r, rec, v) /\ Reason(r, v)

LEMMA GivesUpTo ==
  ASSUME NEW r, IsPlaced(r), IsFunction(job[r]), run[r].mode \in {"forward", "parked", "undo"}
  PROVE  /\ GivesUp(r).memo = run[r].memo
         /\ GivesUp(r).mode = "failed" => IF Undoes(r) THEN run[r].pc = 1 ELSE Len(run[r].memo) = 0
         /\ GivesUp(r).mode \in {"failed", "undo"}
<1>1. PICK S : 0 \in S /\ run[r] \in RunState(S)
  BY PlacedRun
<1>2. run[r].pc \in Nat /\ Len(run[r].memo) \in Nat
  BY <1>1, PlacedRun DEF RunState
<1>3. PICK back : back = (IF Undoes(r) THEN run[r].pc - 1 ELSE Len(run[r].memo)) /\ back \in Nat
  BY <1>2 DEF IsPlaced, Placed, Undoes
<1>4. PICK rec : rec = GivesUp(r) /\ rec = UndoFrom(r, back)
  BY <1>3 DEF GivesUp
<1>5. /\ rec \in RunState(S) /\ rec.mode = (IF back = 0 THEN "failed" ELSE "undo") /\ rec.pc = back
      /\ rec.memo = run[r].memo
  <2>1. PICK b \in Nat : b = back
    BY <1>3
  <2>2. UndoFrom(r, b).mode = (IF b = 0 THEN "failed" ELSE "undo") /\ UndoFrom(r, b).memo = run[r].memo
        /\ UndoFrom(r, b) \in RunState(S) /\ UndoFrom(r, b).pc = b
    BY <1>1, UndoneIs
  <2> QED BY <1>4, <2>1, <2>2
<1>6. back = 0 => IF Undoes(r) THEN run[r].pc = 1 ELSE Len(run[r].memo) = 0
  BY <1>2, <1>3
<1> QED BY <1>4, <1>5, <1>6

LEMMA ThrowsTo ==
  ASSUME NEW r \in DOMAIN run, IsPlaced(r), IsFunction(job[r]), job[r].errors = "retry", NEW op, Doing(r, op), Throw(r)
  PROVE  /\ run'[r].memo = run[r].memo
         /\ run'[r].mode = "failed" => IF Undoes(r) THEN run[r].pc = 1 ELSE Len(run[r].memo) = 0
         /\ run'[r].mode \in {"failed", "undo"} \/ run'[r].mode = run[r].mode
<1>1. run[r].mode \in {"forward", "undo"}
  BY DEF Doing, Working, Busy
<1>2. CASE Set(r, GivesUp(r))
  BY <1>1, <1>2, SetRun, GivesUpTo
<1>3. CASE Set(r, [run[r] EXCEPT !.at = 1, !.got = 0, !.tries = @ + 1])
  <2>1. PICK S : run[r] \in RunState(S)
    BY PlacedRun
  <2>2. PICK u \in RunState(S) : u = run[r]
    BY <2>1
  <2>3. PICK rec : rec = [u EXCEPT !.at = 1, !.got = 0, !.tries = @ + 1]
    OBVIOUS
  <2>4. run'[r] = rec
    BY <1>3, <2>2, <2>3, SetRun
  <2>5. rec.mode = u.mode /\ rec.memo = u.memo
    BY <2>3 DEF RunState
  <2> QED BY <1>1, <2>2, <2>4, <2>5
<1> QED BY <1>2, <1>3 DEF Throw

LEMMA ForwardMoves ==
  ASSUME NEW r \in DOMAIN run, IsPlaced(r), IsFunction(job[r]), job[r].errors = "retry", Forward(r),
         Len(log) \in Nat, Advance(r) \/ LoseAnswer(r) \/ Crash(r) \/ Elapse(r)
  PROVE  \/ GoesOn(r, run'[r])
         \/ Crash(r) /\ Returns(r, run'[r]) /\ run'[r].mode = "forward"
         \/ Stopped(r) /\ Returns(r, run'[r]) /\ run'[r].memo = run[r].memo
            /\ (run'[r].mode = "failed" => Len(run[r].memo) = 0)
<1>0. run[r].mode = "forward" /\ ~Undoes(r)
  BY DEF Forward, Undoes
<1>1. ASSUME NEW op, Doing(r, op), NEW v, Answer(r, v), Gives(r, v)
      PROVE  GoesOn(r, run'[r])
  <2>1. Working(r)
    BY <1>1 DEF Doing
  <2> QED BY <1>0, <1>1, <2>1, AnswerOutcome DEF GoesOn, Reason
<1>2. ASSUME NEW op, Doing(r, op), Throw(r)
      PROVE  Returns(r, run'[r]) /\ run'[r].memo = run[r].memo /\ (run'[r].mode = "failed" => Len(run[r].memo) = 0)
  BY <1>0, <1>2, ThrowOutcome, ThrowsTo
<1>3. CASE ReadStore(r)
  <2>1. \E op : Doing(r, op) /\ \E v : Answer(r, v) /\ Gives(r, v)
    BY <1>3 DEF ReadStore, Gives
  <2> QED BY <2>1, <1>1
<1>4. CASE ReadView(r)
  <2>1. Doing(r, "view") /\ \E v : Answer(r, v) /\ Gives(r, v)
    BY <1>4 DEF ReadView, Gives
  <2> QED BY <2>1, <1>1
<1>5. CASE Check(r)
  <2>1. \/ TurnedDown(r) /\ Set(r, GivesUp(r))
        \/ Doing(r, "refuse") /\ \E v : Answer(r, v) /\ Gives(r, v)
    BY <1>5 DEF Check, Gives, TurnedDown
  <2>2. CASE TurnedDown(r) /\ Set(r, GivesUp(r))
    <3>1. run'[r] = GivesUp(r)
      BY <2>2, SetRun
    <3> QED BY <1>0, <2>2, <3>1, GivesUpOutcome, GivesUpTo DEF Stopped
  <2> QED BY <2>1, <2>2, <1>1
<1>6. CASE Call(r)
  <2>1. (\E op : Doing(r, op)) /\ Answer(r, Written(r)) /\ Gives(r, Written(r))
    BY <1>6 DEF Call, CanWrite, Gives
  <2> QED BY <2>1, <1>1, <1>6
<1>7. CASE Conflict(r) \/ LoseAnswer(r)
  <2>1. (\E op : Doing(r, op)) /\ Throw(r)
    BY <1>7 DEF Conflict, LoseAnswer, CanWrite
  <2> QED BY <2>1, <1>2, <1>7 DEF Stopped
<1>8. CASE Park(r)
  BY <1>0, <1>8, WaitingRuns DEF GoesOn, Starts
<1>9. CASE Crash(r)
  <2>1. Returns(r, run'[r])
    BY <1>9, CrashOutcome
  <2>2. PICK S : 0 \in S /\ run[r] \in RunState(S)
    BY PlacedRun
  <2>3. PICK k : Set(r, [GoTo(r, k + 1) EXCEPT !.kept = k, !.memo = SubSeq(@, 1, k)]) /\ k \in run[r].kept .. Len(run[r].memo)
    BY <1>0, <1>9 DEF Crash, Forward
  <2>4. k + 1 \in Nat
    BY <2>2, <2>3, PlacedRun DEF RunState
  <2>5. PICK g : g = GoTo(r, k + 1) /\ g \in RunState(S) /\ g.mode = "forward"
    BY <1>0, <2>2, <2>4, GoneTo
  <2>6. PICK rec : rec = [g EXCEPT !.kept = k, !.memo = SubSeq(g.memo, 1, k)]
    OBVIOUS
  <2>7. run'[r] = rec
    BY <2>3, <2>5, <2>6, SetRun
  <2>8. rec.mode = "forward"
    BY <2>5, <2>6 DEF RunState
  <2> QED BY <1>9, <2>1, <2>7, <2>8
<1>10. CASE Pass(r)
  <2>1. run'[r] = Returned(r, 0) /\ (~Needed(r) \/ Effects(r) = <<>>)
    BY <1>10, SetRun DEF Pass
  <2>2. Records(r, Returned(r, 0), 0)
    BY <1>0, ReturnOutcome
  <2> QED BY <2>1, <2>2 DEF GoesOn, Reason
<1> QED BY <1>0, <1>3, <1>4, <1>5, <1>6, <1>7, <1>8, <1>9, <1>10 DEF Advance, Start, Woken, Elapse

LEMMA UndoMoves ==
  ASSUME NEW r \in DOMAIN run, IsPlaced(r), IsFunction(job[r]), job[r].errors = "retry", Undoes(r), ~Doing(r, "wait"),
         Advance(r) \/ LoseAnswer(r) \/ Crash(r) \/ Elapse(r)
  PROVE  /\ run'[r].memo = run[r].memo /\ run'[r].mode \in {"undo", "failed"}
         /\ CallsOn(r, run'[r]) \/ Fresh(run'[r])
         /\ run'[r].mode = "failed" =>
              /\ run[r].pc = 1
              /\ \/ Stopped(r) \/ Effects(r) = <<>>
                 \/ run[r].at = Len(Effects(r)) /\ (Reads(r) \/ Call(r))
<1>0. run[r].mode = "undo" /\ ~Forward(r)
  BY DEF Forward, Undoes
<1>1. PICK S : 0 \in S /\ run[r] \in RunState(S)
  BY PlacedRun
<1>2. run[r].pc \in Nat /\ 1 <= run[r].pc
  BY <1>0, <1>1 DEF RunState, IsPlaced, Placed
<1>3. ASSUME NEW v
      PROVE  /\ Returned(r, v).memo = run[r].memo /\ Returned(r, v).mode \in {"undo", "failed"}
             /\ Fresh(Returned(r, v)) /\ (Returned(r, v).mode = "failed" => run[r].pc = 1)
  <2>1. PICK back : back = run[r].pc - 1 /\ back \in Nat
    BY <1>2
  <2>2. PICK rec : rec = Returned(r, v) /\ rec = UndoFrom(r, back)
    BY <2>1 DEF Returned
  <2>3. /\ rec \in RunState(S) /\ rec.mode = (IF back = 0 THEN "failed" ELSE "undo") /\ rec.pc = back
        /\ rec.memo = run[r].memo /\ rec.at = 1 /\ rec.got = 0
    <3>1. PICK b \in Nat : b = back
      BY <2>1
    <3>2. /\ UndoFrom(r, b).mode = (IF b = 0 THEN "failed" ELSE "undo") /\ UndoFrom(r, b).memo = run[r].memo
          /\ UndoFrom(r, b) \in RunState(S) /\ UndoFrom(r, b).pc = b
          /\ UndoFrom(r, b).at = 1 /\ UndoFrom(r, b).got = 0
      BY <1>1, UndoneIs
    <3> QED BY <2>2, <3>1, <3>2
  <2> QED BY <1>2, <2>1, <2>2, <2>3 DEF Fresh
<1>4. ASSUME NEW op, Doing(r, op), NEW v, Answer(r, v), Gives(r, v)
      PROVE  /\ run'[r].memo = run[r].memo /\ run'[r].mode \in {"undo", "failed"}
             /\ CallsOn(r, run'[r]) \/ Fresh(run'[r])
             /\ run'[r].mode = "failed" => run[r].pc = 1 /\ run[r].at = Len(Effects(r)) /\ (Reads(r) \/ Call(r))
  <2>1. CASE run[r].at = Len(Effects(r))
    <3>1. run'[r] = Returned(r, v)
      BY <1>4, <2>1, SetRun DEF Answer
    <3> QED BY <1>3, <1>4, <2>1, <3>1, GivesReads
  <2>2. CASE run[r].at # Len(Effects(r))
    <3>1. CallsOn(r, run'[r])
      BY <1>0, <1>4, <2>2, AnswerOutcome
    <3> QED BY <1>0, <3>1 DEF CallsOn, Same
  <2> QED BY <2>1, <2>2
<1>5. ASSUME NEW op, Doing(r, op), Throw(r)
      PROVE  /\ run'[r].memo = run[r].memo /\ run'[r].mode \in {"undo", "failed"} /\ Fresh(run'[r])
             /\ run'[r].mode = "failed" => run[r].pc = 1
  <2>1. Returns(r, run'[r])
    BY <1>5, ThrowOutcome
  <2> QED BY <1>0, <1>5, <2>1, ThrowsTo DEF Returns
<1>6. CASE ReadStore(r)
  <2>1. \E op : Doing(r, op) /\ \E v : Answer(r, v) /\ Gives(r, v)
    BY <1>6 DEF ReadStore, Gives
  <2> QED BY <2>1, <1>4
<1>7. CASE ReadView(r)
  <2>1. Doing(r, "view") /\ \E v : Answer(r, v) /\ Gives(r, v)
    BY <1>7 DEF ReadView, Gives
  <2> QED BY <2>1, <1>4
<1>8. CASE Check(r)
  <2>1. \/ TurnedDown(r) /\ Set(r, GivesUp(r))
        \/ Doing(r, "refuse") /\ \E v : Answer(r, v) /\ Gives(r, v)
    BY <1>8 DEF Check, Gives, TurnedDown
  <2>2. CASE TurnedDown(r) /\ Set(r, GivesUp(r))
    <3>1. run'[r] = GivesUp(r)
      BY <2>2, SetRun
    <3>2. Returns(r, GivesUp(r))
      BY <1>0, GivesUpOutcome
    <3> QED BY <1>0, <2>2, <3>1, <3>2, GivesUpTo DEF Stopped, Returns
  <2> QED BY <2>1, <2>2, <1>4
<1>9. CASE Call(r)
  <2>1. (\E op : Doing(r, op)) /\ Answer(r, Written(r)) /\ Gives(r, Written(r))
    BY <1>9 DEF Call, CanWrite, Gives
  <2> QED BY <2>1, <1>4, <1>9
<1>10. CASE Conflict(r) \/ LoseAnswer(r)
  <2>1. (\E op : Doing(r, op)) /\ Throw(r)
    BY <1>10 DEF Conflict, LoseAnswer, CanWrite
  <2> QED BY <2>1, <1>5, <1>10 DEF Stopped
<1>11. CASE Crash(r)
  <2>1. Set(r, GoTo(r, run[r].pc))
    BY <1>0, <1>11 DEF Crash
  <2>2. run'[r] = GoTo(r, run[r].pc)
    BY <2>1, SetRun
  <2>3. /\ GoTo(r, run[r].pc).mode = "undo" /\ GoTo(r, run[r].pc).at = 1 /\ GoTo(r, run[r].pc).got = 0
        /\ GoTo(r, run[r].pc).memo = run[r].memo
    BY <1>0, <1>1, <1>2, GoneTo
  <2> QED BY <2>2, <2>3 DEF Fresh
<1>12. CASE Pass(r)
  <2>1. run'[r] = Returned(r, 0) /\ Effects(r) = <<>>
    BY <1>0, <1>12, SetRun DEF Pass
  <2> QED BY <1>3, <2>1
<1> QED BY <1>0, <1>6, <1>7, <1>8, <1>9, <1>10, <1>11, <1>12 DEF Advance, Start, Park, Woken, Elapse

-----------------------------------------------------------------------------
(* ddd-order-management: the saga of an order.                              *)
OnlyOne(o, name) == \A i, j \in Facts(o, name) : i = j
LastIs(o, name) == \E i \in Facts(o, name) : VersionOf(i) = StreamVersion(o)
Unhit(r) == {i \in 1..4 : <<r, "forward", i>> \in hit} = {}

(* A saga nothing was executed again of has written one fact for each of    *)
(* its answers.                                                             *)
Clean(r, o) ==
  /\ run[r].mode \notin {"undo", "failed"}
  /\ Facts(o, "order.cancelled") = {}
  /\ Len(run[r].memo) = 0 => Facts(o, "order.confirmed") = {}
  /\ Len(run[r].memo) \in {0, 1} => Facts(o, "order.shipped") = {}
  /\ Len(run[r].memo) = 1 => run[r].memo[1] = StreamVersion(o)
  /\ OnlyOne(o, "order.confirmed") /\ OnlyOne(o, "order.shipped")

(* What it read of its stream is still so, the last fact is what it has     *)
(* shipped, or cancelled.                                                   *)
SagaOK(r, o) ==
  /\ Busy(r) /\ run[r].pc = 1 /\ run[r].at \in {2, 3} => run[r].got = StreamVersion(o)
  /\ run[r].mode \in {"forward", "completed"} /\ 2 <= Len(run[r].memo) => LastIs(o, "order.shipped")
  /\ run[r].mode = "failed" /\ 1 <= Len(run[r].memo) /\ <<r, "undo", 1>> \notin hit => LastIs(o, "order.cancelled")
  /\ Unhit(r) => Clean(r, o)
SagaInv == OrderProgram(job) => \A r \in Runs : \A o \in {"o1", "o2"} : job[r] = FulfillOrder(o) => SagaOK(r, o)

(* What becomes of a stream.                                                *)
LEMMA FactsGrow ==
  ASSUME LogIs, NEW e, log' = Append(log, e), NEW o
  PROVE  /\ \A n : n # e.name \/ o # e.on => Facts(o, n)' = Facts(o, n)
         /\ o # e.on => StreamVersion(o)' = StreamVersion(o) /\ \A n : LastIs(o, n) => LastIs(o, n)'
         /\ o = e.on => /\ LastIs(o, e.name)' /\ StreamVersion(o)' = StreamVersion(o) + 1
                        /\ Facts(o, e.name) = {} => OnlyOne(o, e.name)'
<1>1. PICK n : n = Len(log) + 1
  OBVIOUS
<1>2. /\ DOMAIN log' = DOMAIN log \cup {n} /\ n \notin DOMAIN log /\ log'[n] = e
      /\ \A i \in DOMAIN log : log'[i] = log[i]
  BY <1>1, LogAppends
<1>3. ASSUME NEW m PROVE Facts(o, m)' = IF o = e.on /\ m = e.name THEN Facts(o, m) \cup {n} ELSE Facts(o, m)
  BY <1>2 DEF Facts, Stream
<1>4. StreamVersion(o)' = IF o = e.on THEN StreamVersion(o) + 1 ELSE StreamVersion(o)
  BY StreamGrows
<1>5. \A i \in DOMAIN log : VersionOf(i)' = VersionOf(i)
  BY OldVersionsStay
<1>6. VersionOf(n)' = StreamVersion(e.on) + 1
  BY <1>1, NewVersion
<1>7. ASSUME o # e.on, NEW m, LastIs(o, m) PROVE LastIs(o, m)'
  <2>1. PICK i \in Facts(o, m) : VersionOf(i) = StreamVersion(o)
    BY <1>7 DEF LastIs
  <2>2. i \in Facts(o, m)' /\ i \in DOMAIN log
    BY <1>3, <1>7, <2>1 DEF Facts, Stream
  <2> QED BY <1>4, <1>5, <1>7, <2>1, <2>2 DEF LastIs
<1>8. ASSUME o = e.on PROVE LastIs(o, e.name)' /\ (Facts(o, e.name) = {} => OnlyOne(o, e.name)')
  <2>1. n \in Facts(o, e.name)' /\ VersionOf(n)' = StreamVersion(o)'
    BY <1>3, <1>4, <1>6, <1>8
  <2>2. Facts(o, e.name) = {} => Facts(o, e.name)' = {n}
    BY <1>3, <1>8
  <2> QED BY <2>1, <2>2 DEF LastIs, OnlyOne
<1> QED BY <1>3, <1>4, <1>7, <1>8

LEMMA StreamKeeps ==
  ASSUME log' = log, NEW o
  PROVE  /\ StreamVersion(o)' = StreamVersion(o)
         /\ \A n : Facts(o, n)' = Facts(o, n) /\ LastIs(o, n)' = LastIs(o, n)
BY DEF StreamVersion, Facts, LastIs, Stream, VersionOf

(* What a run of the program writes to an order's stream.                   *)
LEMMA SagaCalls ==
  ASSUME EngineInv, NEW r \in Runs, NEW o, job[r] = FulfillOrder(o), NEW op, Doing(r, op)
  PROVE  \/ Forward(r) /\ run[r].pc = 1 /\ Len(run[r].memo) = 0 /\ Len(Effects(r)) = 3
            /\ (\/ run[r].at = 1 /\ Effect(r) = Read(o)
                \/ run[r].at = 2 /\ Effect(r) = Refuse({0})
                \/ run[r].at = 3 /\ Effect(r) = Record(o, "order.confirmed", AsRead))
         \/ Forward(r) /\ run[r].pc = 2 /\ Len(run[r].memo) = 1 /\ run[r].at = 1 /\ Len(Effects(r)) = 1
            /\ Effect(r) = Record(o, "order.shipped", After("confirm-payment"))
         \/ Forward(r) /\ run[r].pc = 3 /\ Len(run[r].memo) = 2 /\ run[r].at = 1 /\ Len(Effects(r)) = 1
            /\ Effect(r) = Publish("notifications.order.shipped", "topic")
         \/ Undoes(r) /\ run[r].pc = 1 /\ Len(Effects(r)) = 3
            /\ (\/ run[r].at = 1 /\ Effect(r) = Read(o)
                \/ run[r].at = 2 /\ Effect(r) = Refuse({0})
                \/ run[r].at = 3 /\ Effect(r) = Record(o, "order.cancelled", AsRead))
<1>1. GoodFunction(job[r], {}) /\ IsPlaced(r)
  BY DEF EngineInv
<1>2. PICK n : n = Len(run[r].memo) /\ n \in Nat
  BY <1>1, PlacedRun, GoodIsFunction
<1>3. /\ DOMAIN Steps(r) = {1, 2, 3}
      /\ Calls(r, 1) = <<Read(o), Refuse({0}), Record(o, "order.confirmed", AsRead)>>
      /\ Calls(r, 2) = <<Record(o, "order.shipped", After("confirm-payment"))>>
      /\ Calls(r, 3) = <<Publish("notifications.order.shipped", "topic")>>
      /\ Steps(r)[1].undo = <<Read(o), Refuse({0}), Record(o, "order.cancelled", AsRead)>>
      /\ Steps(r)[2].undo = <<>> /\ Steps(r)[3].undo = <<>>
  BY FulfillOrderIs DEF ReversePayment, FulfillSteps
<1>4. run[r].pc \in {1, 2, 3}
  BY <1>1, <1>3, CallAt
<1>5. CASE Forward(r) /\ run[r].at \in DOMAIN Calls(r, run[r].pc) /\ run[r].pc = n + 1
            /\ Effects(r) = Calls(r, run[r].pc) /\ Effect(r) = Calls(r, run[r].pc)[run[r].at]
  <2>1. CASE run[r].pc = 1
    <3>1. Effects(r) = <<Read(o), Refuse({0}), Record(o, "order.confirmed", AsRead)>> /\ run[r].at \in {1, 2, 3}
          /\ Effect(r) = Effects(r)[run[r].at] /\ n = 0
      BY <1>2, <1>3, <1>5, <2>1
    <3> QED BY <1>2, <1>5, <2>1, <3>1
  <2>2. CASE run[r].pc = 2
    <3>1. PICK list : list = <<Record(o, "order.shipped", After("confirm-payment"))>>
      OBVIOUS
    <3>2. Effects(r) = list /\ run[r].at \in DOMAIN list /\ Effect(r) = list[run[r].at] /\ n = 1
      <4>1. Calls(r, 2) = list
        BY <1>3, <3>1
      <4>2. n = 1
        <5>1. n \in Nat /\ 2 = n + 1
          BY <1>2, <1>5, <2>2
        <5> QED BY <5>1
      <4> QED BY <1>5, <2>2, <4>1, <4>2
    <3>3. DOMAIN list = {1} /\ Len(list) = 1 /\ list[1] = Record(o, "order.shipped", After("confirm-payment"))
      BY <3>1
    <3> QED BY <1>2, <1>5, <2>2, <3>2, <3>3
  <2>3. CASE run[r].pc = 3
    <3>1. PICK list : list = <<Publish("notifications.order.shipped", "topic")>>
      OBVIOUS
    <3>2. Effects(r) = list /\ run[r].at \in DOMAIN list /\ Effect(r) = list[run[r].at] /\ n = 2
      <4>1. Calls(r, 3) = list
        BY <1>3, <3>1
      <4>2. n = 2
        <5>1. n \in Nat /\ 3 = n + 1
          BY <1>2, <1>5, <2>3
        <5> QED BY <5>1
      <4> QED BY <1>5, <2>3, <4>1, <4>2
    <3>3. DOMAIN list = {1} /\ Len(list) = 1 /\ list[1] = Publish("notifications.order.shipped", "topic")
      BY <3>1
    <3> QED BY <1>2, <1>5, <2>3, <3>2, <3>3
  <2> QED BY <1>4, <2>1, <2>2, <2>3
<1>6. CASE Undoes(r) /\ run[r].at \in DOMAIN Steps(r)[run[r].pc].undo
            /\ Effect(r) = Steps(r)[run[r].pc].undo[run[r].at]
  <2>1. run[r].pc = 1 /\ run[r].at \in {1, 2, 3}
    BY <1>3, <1>4, <1>6
  <2>2. Effects(r) = <<Read(o), Refuse({0}), Record(o, "order.cancelled", AsRead)>>
    BY <1>3, <1>6, <2>1 DEF Effects, Current, Undoes
  <2> QED BY <1>3, <1>6, <2>1, <2>2
<1> QED BY <1>1, <1>2, <1>5, <1>6, CallAt

LEMMA SagaShape ==
  ASSUME EngineInv, NEW r \in Runs, NEW o, job[r] = FulfillOrder(o)
  PROVE  /\ r \in DOMAIN run /\ GoodFunction(job[r], {}) /\ IsFunction(job[r]) /\ IsPlaced(r) /\ Waits(r) /\ LogIs /\ Len(log) \in Nat
         /\ job[r].errors = "retry" /\ DOMAIN Steps(r) = {1, 2, 3} /\ Len(Steps(r)) = 3
         /\ Len(run[r].memo) \in Nat /\ StreamVersion(o) \in Nat /\ run[r].at \in Nat
         /\ \A op : Doing(r, op) => op \in {"read", "refuse", "append", "publish"}
         /\ run[r].mode # "parked"
         /\ run[r].mode = "forward" => run[r].pc \in {1, 2, 3} /\ run[r].pc = Len(run[r].memo) + 1
         /\ run[r].mode # "waiting" => 1 <= StreamVersion(o)
<1>1. GoodFunction(job[r], {}) /\ IsFunction(job[r]) /\ IsPlaced(r) /\ Waits(r) /\ LogIs /\ DOMAIN run = Runs
  BY GoodIsFunction DEF EngineInv
<1>2. /\ job[r].errors = "retry" /\ DOMAIN Steps(r) = {1, 2, 3} /\ Len(Steps(r)) = 3
      /\ Calls(r, 1) = <<Read(o), Refuse({0}), Record(o, "order.confirmed", AsRead)>>
      /\ Calls(r, 2) = <<Record(o, "order.shipped", After("confirm-payment"))>>
      /\ Calls(r, 3) = <<Publish("notifications.order.shipped", "topic")>>
  <2>1. FulfillSteps(r, o)
    BY FulfillOrderIs
  <2> QED BY <2>1, Zenon DEF FulfillSteps
<1>3. Len(run[r].memo) \in Nat /\ StreamVersion(o) \in Nat
  BY <1>1, PlacedRun, VersionsCount
<1>4. run[r].at \in Nat /\ run[r].pc \in Nat
  BY <1>1 DEF IsPlaced, RunState
<1>5. ASSUME NEW op, Doing(r, op) PROVE op \in {"read", "refuse", "append", "publish"}
  BY <1>1, <1>5, SagaCalls, CallAt, Effectless
<1>6. run[r].mode \in {"forward", "parked"} => run[r].pc \in {1, 2, 3} /\ run[r].pc = Len(run[r].memo) + 1
  <2>1. PICK n : n = Len(run[r].memo) /\ n \in Nat
    BY <1>3
  <2>2. Placed(run[r].mode, run[r].pc, n, run[r].kept, 3)
    BY <1>1, <1>2, <2>1 DEF IsPlaced
  <2> QED BY <1>4, <2>1, <2>2 DEF Placed
<1>7. run[r].mode # "parked"
  <2>1. SUFFICES ASSUME run[r].mode = "parked" PROVE FALSE
    OBVIOUS
  <2>2. PICK list : list = Current(r).does /\ ~NoWait(list)
    BY <1>1, <2>1 DEF Waits
  <2>3. list = Calls(r, run[r].pc) /\ run[r].pc \in {1, 2, 3}
    BY <1>6, <2>1, <2>2 DEF Current, Calls
  <2>4. PICK j : j \in 1 .. Len(list) /\ list[j].op = "wait"
    BY <2>2 DEF NoWait
  <2>5. ASSUME NEW a, NEW b, NEW c, a.op # "wait", b.op # "wait", c.op # "wait", list = <<a, b, c>> \/ list = <<a>>
        PROVE FALSE
    <3>1. CASE list = <<a, b, c>>
      <4>1. Len(list) = 3 /\ list[1] = a /\ list[2] = b /\ list[3] = c
        BY <3>1
      <4>2. j \in {1, 2, 3}
        BY <2>4, <4>1
      <4> QED BY <2>4, <2>5, <4>1, <4>2
    <3>2. CASE list = <<a>>
      <4>1. Len(list) = 1 /\ list[1] = a
        BY <3>2
      <4>2. j = 1
        BY <2>4, <4>1
      <4> QED BY <2>4, <2>5, <4>1, <4>2
    <3> QED BY <2>5, <3>1, <3>2
  <2>6. /\ Read(o).op # "wait" /\ Refuse({0}).op # "wait" /\ \A n, v : Record(o, n, v).op # "wait"
        /\ \A t, s : Publish(t, s).op # "wait"
    BY Effectless
  <2> QED BY <1>2, <2>3, <2>5, <2>6
<1>8. run[r].mode # "waiting" => 1 <= StreamVersion(o)
  <2>1. SUFFICES ASSUME run[r].mode # "waiting" PROVE StreamVersion(o) # 0
    BY <1>3
  <2>2. job[r].trigger = <<"fact", o, "order.placed">>
    BY FulfillOrderIs DEF FulfillSteps
  <2>3. job[r].trigger[1] = "fact" /\ job[r].trigger[2] = o /\ job[r].trigger[3] = "order.placed"
    BY <2>2
  <2>4. Facts(o, "order.placed") # {}
    BY <2>1, <2>3 DEF EngineInv, Begun
  <2>5. Stream(o) # {} /\ IsFiniteSet(Stream(o))
    BY <1>1, <2>4, VersionsCount DEF Facts
  <2> QED BY <2>5, FS_EmptySet DEF StreamVersion
<1> QED BY <1>1, <1>2, <1>3, <1>4, <1>5, <1>6, <1>7, <1>8, LogShape

LEMMA OthersLeave ==
  ASSUME EngineInv, OrderProgram(job), NEW r \in Runs, NEW o \in {"o1", "o2"}, job[r] = FulfillOrder(o), NEW q \in Runs, q # r,
         NEW op \in Telling, Doing(q, op), CanWrite(q)
  PROVE  /\ Keyed(q).on = o => Keyed(q).name = "order.placed" /\ run[r].mode = "waiting"
<1>1. PICK e : e = Effect(q) /\ e.op = op
  BY CallAt DEF EngineInv
<1>2. Keyed(q).on = e.on /\ Keyed(q).name = e.name
  BY <1>1 DEF Keyed
<1>3. OrderJob(job[q])
  BY DEF OrderProgram
<1>4. CASE job[q] = NotDeployed
  <2>1. DOMAIN Steps(q) = {}
    BY <1>4 DEF Steps, NotDeployed, Function
  <2> QED BY <2>1, CallAt DEF EngineInv
<1>5. ASSUME NEW p \in {"o1", "o2"}, job[q] = FulfillOrder(p) PROVE e.on # o
  <2>1. p # o
    BY <1>5 DEF OrderProgram
  <2>2. /\ e = Read(p) \/ e = Refuse({0}) \/ e = Record(p, "order.confirmed", AsRead)
           \/ e = Record(p, "order.shipped", After("confirm-payment"))
           \/ e = Publish("notifications.order.shipped", "topic") \/ e = Record(p, "order.cancelled", AsRead)
    BY <1>1, <1>5, SagaCalls
  <2>3. e.on \in {p, "topic"}
    BY <1>1, <2>2, Effectless
  <2> QED BY <2>1, <2>3
<1>6. ASSUME NEW p, NEW v, job[q] = PlaceOrder(p, v), e.on = o
      PROVE  e.name = "order.placed" /\ run[r].mode = "waiting"
  <2>1. e = Record(p, "order.placed", Version(0))
    <3>1. /\ DOMAIN Steps(q) = {1, 2} /\ \A j \in DOMAIN Calls(q, 1) : Calls(q, 1)[j].op \notin Telling
          /\ DOMAIN Calls(q, 2) = {1} /\ Calls(q, 2)[1] = Record(p, "order.placed", Version(0))
          /\ Steps(q)[1].undo = <<>> /\ Steps(q)[2].undo = <<>>
      BY <1>6, PlaceOrderIs
    <3> QED BY <1>1, <3>1, CallAt DEF EngineInv
  <2>2. p = o /\ e.name = "order.placed" /\ e.op = "append" /\ e.expect = Version(0)
    BY <1>6, <2>1, Effectless
  <2>3. StreamVersion(o) = 0
    <3>1. op = "append" /\ StreamVersion(e.on) = Expected(q)
      BY <1>1, <2>2 DEF CanWrite, Doing, Effect
    <3>2. Expected(q) = 0
      BY <1>1, <2>2 DEF Expected, Version
    <3> QED BY <1>6, <3>1, <3>2
  <2>4. run[r].mode # "waiting" => 1 <= StreamVersion(o)
    BY SagaShape
  <2> QED BY <2>2, <2>3, <2>4
<1> QED BY <1>2, <1>3, <1>4, <1>5, <1>6 DEF OrderJob

(* Steps of the others.                                                     *)
LEMMA SagaWaits ==
  ASSUME EngineInv, OrderProgram(job), NEW r \in Runs, NEW o \in {"o1", "o2"}, job[r] = FulfillOrder(o), SagaOK(r, o),
         NEW q \in Runs, q # r, Advance(q) \/ LoseAnswer(q) \/ Crash(q) \/ Elapse(q)
  PROVE  SagaOK(r, o)'
<1>1. LogIs /\ DOMAIN run = Runs /\ Len(run[r].memo) \in Nat /\ IsPlaced(r) /\ Len(Steps(r)) = 3
  BY SagaShape DEF EngineInv
<1>2. run'[r] = run[r] /\ hit \subseteq hit'
  BY <1>1, StepsOnlyRun DEF OnlyRuns
<1>3. PICK u : u = run[r] /\ u = run'[r]
  BY <1>2
<1>4. PICK e : /\ e = Keyed(q) /\ (log' = log \/ log' = Append(log, e))
               /\ log' # log => (e.on = o => e.name = "order.placed" /\ run[r].mode = "waiting")
  <2>1. log' # log => (\E op \in Telling : Doing(q, op)) /\ CanWrite(q)
    BY <1>1, RunWrites
  <2>2. log' # log => (Keyed(q).on = o => Keyed(q).name = "order.placed" /\ run[r].mode = "waiting")
    BY <2>1, OthersLeave
  <2> QED BY <1>1, <2>2, RunWrites
<1>5. \A n : n # "order.placed" => Facts(o, n)' = Facts(o, n)
  BY <1>1, <1>4, FactsGrow, StreamKeeps
<1>6. run[r].mode # "waiting" => StreamVersion(o)' = StreamVersion(o) /\ \A n : LastIs(o, n) => LastIs(o, n)'
  BY <1>1, <1>4, FactsGrow, StreamKeeps
<1>7. run[r].mode = "waiting" => Len(run[r].memo) = 0
  <2>1. Placed(run[r].mode, run[r].pc, Len(run[r].memo), run[r].kept, Len(Steps(r)))
    BY <1>1 DEF IsPlaced
  <2> QED BY <2>1 DEF Placed
<1>8. Unhit(r)' => Clean(r, o)
  BY <1>2 DEF SagaOK, Unhit
<1>9. Unhit(r)' => Clean(r, o)'
  <2>1. Clean(r, o) => Clean(r, o)'
    BY <1>3, <1>5, <1>6, <1>7 DEF Clean, OnlyOne
  <2> QED BY <1>8, <2>1
<1>10. Busy(r) /\ run[r].pc = 1 /\ run[r].at \in {2, 3} => run[r].mode # "waiting" /\ run[r].got = StreamVersion(o)
  BY DEF SagaOK, Busy
<1> QED BY <1>2, <1>3, <1>6, <1>9, <1>10 DEF SagaOK, Busy

(* What the saga writes itself.                                             *)
LEMMA SagaTells ==
  ASSUME EngineInv, NEW r \in Runs, NEW o \in {"o1", "o2"}, job[r] = FulfillOrder(o),
         Advance(r) \/ LoseAnswer(r) \/ Crash(r) \/ Elapse(r)
  PROVE  \/ log' = log
         \/ \E e : log' = Append(log, e) /\ e = Keyed(r) /\ CanWrite(r)
                   /\ (\E op \in Telling : Doing(r, op)) /\ e.on = Effect(r).on /\ e.name = Effect(r).name
<1>1. PICK e : e = Keyed(r)
  OBVIOUS
<1>2. e.on = Effect(r).on /\ e.name = Effect(r).name
  BY <1>1 DEF Keyed
<1> QED BY <1>1, <1>2, SagaShape, RunWrites

LEMMA CallTells ==
  ASSUME NEW r, Call(r), Effect(r).op \in Telling, Effect(r).op = "append" => Effect(r).key = NoKey
  PROVE  log' = Append(log, Keyed(r))
<1>1. Keyed(r).key = NoKey
  BY DEF Keyed
<1> QED BY <1>1 DEF Call, Write, Repeated, Telling

(* The saga's own steps: it starts, or goes on.                             *)
LEMMA SagaStarts ==
  ASSUME EngineInv, NEW r \in Runs, NEW o \in {"o1", "o2"}, job[r] = FulfillOrder(o), SagaOK(r, o), Start(r)
  PROVE  SagaOK(r, o)'
<1>1. PICK rec : rec = run'[r]
  OBVIOUS
<1>2. run[r].mode = "waiting" /\ run[r].at = 1 /\ Len(run[r].memo) = 0
  <2>1. run[r].mode = "waiting" /\ Waits(r) /\ IsPlaced(r) /\ Len(Steps(r)) = 3
    BY SagaShape DEF Start
  <2>2. Placed(run[r].mode, run[r].pc, Len(run[r].memo), run[r].kept, 3)
    BY <2>1 DEF IsPlaced
  <2> QED BY <2>1, <2>2 DEF Placed, Waits
<1>3. rec.mode = "forward" /\ rec.memo = run[r].memo /\ rec.at = 1
  <2>1. Starts(r, rec) \/ Parks(r, rec)
    BY <1>1, SagaShape, WaitingRuns
  <2> QED BY <1>2, <2>1 DEF Starts, Parks, Same, Forward
<1>4. log' = log /\ hit' = hit
  BY DEF Start
<1>5. StreamVersion(o)' = StreamVersion(o) /\ \A n : Facts(o, n)' = Facts(o, n)
  BY <1>4, StreamKeeps
<1>6. Clean(r, o) => Clean(r, o)'
  BY <1>1, <1>2, <1>3, <1>5 DEF Clean, OnlyOne
<1> QED BY <1>1, <1>2, <1>3, <1>4, <1>6 DEF SagaOK, Unhit, Busy

(* It calls on within its first step.                                       *)
LEMMA SagaCallsOn ==
  ASSUME EngineInv, NEW r \in Runs, NEW o \in {"o1", "o2"}, job[r] = FulfillOrder(o), SagaOK(r, o),
         Advance(r) \/ LoseAnswer(r) \/ Crash(r) \/ Elapse(r), CallsOn(r, run'[r])
  PROVE  /\ log' = log /\ run[r].pc = 1 /\ run'[r].pc = 1 /\ run'[r].memo = run[r].memo
         /\ run'[r].mode = run[r].mode /\ run'[r].at \in {2, 3}
         /\ run'[r].got = StreamVersion(o)
<1>1. PICK rec : rec = run'[r]
  OBVIOUS
<1>2. /\ Working(r) /\ run[r].at <= Len(Effects(r)) /\ run[r].at # Len(Effects(r))
      /\ rec.mode = run[r].mode /\ rec.pc = run[r].pc /\ rec.memo = run[r].memo
      /\ rec.at = run[r].at + 1 /\ Gives(r, rec.got)
  BY <1>1 DEF CallsOn, Same
<1>3. PICK op : Doing(r, op) /\ Effect(r).op = op
  BY <1>2 DEF Doing, Effect
<1>4. /\ run[r].pc = 1
      /\ \/ run[r].at = 1 /\ Effect(r) = Read(o)
         \/ run[r].at = 2 /\ Effect(r) = Refuse({0})
  BY <1>2, <1>3, SagaCalls
<1>5. op \notin Telling /\ (\A x : Doing(r, x) => x = op)
  BY <1>3, <1>4, Effectless DEF Telling, Doing, Effect
<1>6. log' = log
  BY <1>5, SagaTells
<1>7. CASE run[r].at = 1 /\ Effect(r) = Read(o)
  <2>1. op = "read" /\ Effect(r).on = o
    BY <1>3, <1>7 DEF Read
  <2>2. rec.got = StreamVersion(o)
    BY <1>2, <1>5, <2>1 DEF Gives, Call, CanWrite
  <2> QED BY <1>1, <1>2, <1>4, <1>6, <1>7, <2>2
<1>8. CASE run[r].at = 2 /\ Effect(r) = Refuse({0})
  <2>1. op = "refuse"
    BY <1>3, <1>8 DEF Refuse
  <2>2. rec.got = run[r].got
    BY <1>2, <1>5, <2>1 DEF Gives, Call, CanWrite
  <2>3. run[r].got = StreamVersion(o)
    BY <1>2, <1>4, <1>8 DEF SagaOK, Working
  <2> QED BY <1>1, <1>2, <1>4, <1>6, <1>8, <2>2, <2>3
<1> QED BY <1>4, <1>7, <1>8

(* Nothing but a lost answer stops its first step or its undo.              *)
LEMMA SagaConflicts ==
  ASSUME EngineInv, NEW r \in Runs, NEW o \in {"o1", "o2"}, job[r] = FulfillOrder(o), SagaOK(r, o), Stopped(r)
  PROVE  \/ LoseAnswer(r) /\ run[r].pc \in {1, 2} /\ (Forward(r) => Len(run[r].memo) \in {0, 1})
         \/ Forward(r) /\ run[r].pc = 2 /\ Len(run[r].memo) = 1 /\ log' = log /\ hit' = hit
            /\ StreamVersion(o) # run[r].memo[1]
<1>1. PICK op : Doing(r, op) /\ Effect(r).op = op
  BY DEF Stopped, TurnedDown, Conflict, LoseAnswer, CanWrite, Doing, Effect
<1>2. Busy(r) /\ run[r].mode # "waiting"
  BY <1>1 DEF Doing, Working, Busy
<1>3. \A x : Doing(r, x) => x = op
  BY <1>1 DEF Doing, Effect
<1>4. ~TurnedDown(r)
  <2>1. SUFFICES ASSUME TurnedDown(r) PROVE FALSE
    OBVIOUS
  <2>2. op = "refuse" /\ run[r].got \in Effect(r).on
    BY <1>3, <2>1 DEF TurnedDown
  <2>3. run[r].pc = 1 /\ run[r].at = 2 /\ Effect(r) = Refuse({0})
    BY <1>1, <2>2, SagaCalls, Effectless
  <2>4. Effect(r).on = {0}
    BY <2>3 DEF Refuse
  <2>5. run[r].got = 0 /\ run[r].got = StreamVersion(o)
    BY <1>2, <2>2, <2>3, <2>4 DEF SagaOK
  <2> QED BY <1>2, <2>5, SagaShape
<1>5. CASE LoseAnswer(r)
  <2>1. op # "publish"
    BY <1>1, <1>5 DEF LoseAnswer
  <2>2. run[r].pc \in {1, 2} /\ (Forward(r) => Len(run[r].memo) \in {0, 1})
    BY <1>1, <2>1, SagaCalls, Effectless DEF Forward, Undoes
  <2> QED BY <1>5, <2>2
<1>6. CASE Conflict(r)
  <2>1. op \notin {"cas", "match"}
    BY <1>1, SagaShape
  <2>2. op = "append" /\ ~CanWrite(r) /\ log' = log /\ hit' = hit
    BY <1>3, <1>6, <2>1 DEF Conflict
  <2>3. StreamVersion(Effect(r).on) # Expected(r)
    BY <1>1, <2>2 DEF CanWrite
  <2>4. ASSUME run[r].pc = 1, run[r].at = 3, NEW n, Effect(r) = Record(o, n, AsRead) PROVE FALSE
    <3>1. Effect(r).on = o /\ Effect(r).expect = AsRead
      BY <2>4, Effectless
    <3>2. Expected(r) = run[r].got
      BY <3>1 DEF Expected, AsRead
    <3>3. run[r].got = StreamVersion(o)
      BY <1>2, <2>4 DEF SagaOK
    <3> QED BY <2>3, <3>1, <3>2, <3>3
  <2>5. Forward(r) /\ run[r].pc = 2 /\ Len(run[r].memo) = 1 /\ Effect(r) = Record(o, "order.shipped", After("confirm-payment"))
    BY <1>1, <2>2, <2>4, SagaCalls, Effectless
  <2>6. Expected(r) = run[r].memo[1]
    <3>1. Effect(r).expect = <<"step", "confirm-payment">>
      BY <2>5, Effectless DEF After
    <3>2. Expected(r) = Memo(r, "confirm-payment")
      <4>1. PICK x : x = Effect(r).expect /\ x[1] = "step" /\ x[2] = "confirm-payment"
        BY <3>1
      <4> QED BY <4>1 DEF Expected
    <3>3. Position(r, "confirm-payment") = 1
      <4>1. DOMAIN Steps(r) = {1, 2, 3} /\ Steps(r)[1].name = "confirm-payment" /\ Steps(r)[2].name = "ship-order" /\ Steps(r)[3].name = "publish"
        BY FulfillOrderIs DEF FulfillSteps
      <4> QED BY <4>1 DEF Position
    <3> QED BY <3>2, <3>3 DEF Memo
  <2>7. Effect(r).on = o
    BY <2>5, Effectless
  <2> QED BY <2>2, <2>3, <2>5, <2>6, <2>7
<1> QED BY <1>4, <1>5, <1>6 DEF Stopped

(* It records an answer: that of the fact it has just written.              *)
LEMMA SagaAnswers ==
  ASSUME EngineInv, NEW r \in Runs, NEW o \in {"o1", "o2"}, job[r] = FulfillOrder(o), Forward(r), NEW v, Reason(r, v)
  PROVE  /\ Call(r) /\ v = Written(r) /\ log' = Append(log, Keyed(r)) /\ hit' = hit
         /\ \/ /\ run[r].pc = 1 /\ Len(run[r].memo) = 0 /\ Effect(r) = Record(o, "order.confirmed", AsRead)
               /\ v = StreamVersion(o) + 1
            \/ run[r].pc = 2 /\ Len(run[r].memo) = 1 /\ Effect(r) = Record(o, "order.shipped", After("confirm-payment"))
            \/ run[r].pc = 3 /\ Len(run[r].memo) = 2 /\ Effect(r) = Publish("notifications.order.shipped", "topic")
<1>1. run[r].pc \in {1, 2, 3} /\ job[r].errors = "retry" /\ ~Woken(r) /\ ~Undoes(r)
  BY SagaShape DEF Forward, Woken, Undoes
<1>2. Effects(r) # <<>> /\ Needed(r)
  <2>1. Current(r).needs = <<>> /\ Current(r).does = Calls(r, run[r].pc)
    BY <1>1, FulfillOrderIs DEF Current, Calls, FulfillSteps
  <2>2. Calls(r, run[r].pc) # <<>>
    <3>1. /\ Calls(r, 1) = <<Read(o), Refuse({0}), Record(o, "order.confirmed", AsRead)>>
          /\ Calls(r, 2) = <<Record(o, "order.shipped", After("confirm-payment"))>>
          /\ Calls(r, 3) = <<Publish("notifications.order.shipped", "topic")>>
      BY FulfillOrderIs DEF FulfillSteps
    <3>2. \A x, y, z : <<x, y, z>> # <<>> /\ <<x>> # <<>>
      OBVIOUS
    <3> QED BY <1>1, <3>1, <3>2
  <2> QED BY <1>1, <2>1, <2>2 DEF Effects, Needed, Undoes
<1>3. Working(r) /\ run[r].at = Len(Effects(r)) /\ Gives(r, v)
  BY <1>1, <1>2 DEF Reason
<1>4. PICK op : Doing(r, op) /\ Effect(r).op = op
  <2>1. run[r].at \in Nat
    BY SagaShape
  <2> QED BY <1>3, <2>1 DEF Doing, Effect
<1>5. \/ run[r].pc = 1 /\ Len(run[r].memo) = 0 /\ Effect(r) = Record(o, "order.confirmed", AsRead)
      \/ run[r].pc = 2 /\ Len(run[r].memo) = 1 /\ Effect(r) = Record(o, "order.shipped", After("confirm-payment"))
      \/ run[r].pc = 3 /\ Len(run[r].memo) = 2 /\ Effect(r) = Publish("notifications.order.shipped", "topic")
  <2>1. PICK at, m, L : at = run[r].at /\ m = Len(run[r].memo) /\ L = Len(Effects(r)) /\ at = L
    BY <1>3
  <2>2. \/ run[r].pc = 1 /\ m = 0 /\ L = 3
           /\ (at = 1 \/ at = 2 \/ (at = 3 /\ Effect(r) = Record(o, "order.confirmed", AsRead)))
        \/ run[r].pc = 2 /\ m = 1 /\ Effect(r) = Record(o, "order.shipped", After("confirm-payment"))
        \/ run[r].pc = 3 /\ m = 2 /\ Effect(r) = Publish("notifications.order.shipped", "topic")
    <3>1. ~Undoes(r) /\ Doing(r, op)
      BY <1>1, <1>4
    <3> QED BY <2>1, <3>1, SagaCalls
  <2>3. L # 3 \/ (at # 1 /\ at # 2)
    <3>1. at = L
      BY <2>1
    <3> QED BY <3>1
  <2> QED BY <2>1, <2>2, <2>3, Zenon
<1>6. op \in Telling /\ (op = "append" => Effect(r).key = NoKey)
  BY <1>4, <1>5, Effectless DEF Telling
<1>7. Call(r) /\ v = Written(r)
  <2>1. ~Reads(r)
    BY <1>4, <1>6 DEF Reads, Doing, Effect, Telling
  <2> QED BY <1>3, <2>1, GivesReads
<1>8. log' = Append(log, Keyed(r)) /\ hit' = hit
  BY <1>4, <1>6, <1>7, CallTells DEF Call
<1>9. run[r].pc = 1 => v = StreamVersion(o) + 1
  <2>1. SUFFICES ASSUME run[r].pc = 1 PROVE Written(r) = StreamVersion(o) + 1
    BY <1>7
  <2>2. Effect(r).op = "append" /\ Effect(r).key = NoKey /\ Effect(r).on = o
    BY <1>5, <2>1, Effectless
  <2> QED BY <2>2 DEF Written
<1> QED BY <1>5, <1>7, <1>8, <1>9

LEMMA SagaRecords ==
  ASSUME EngineInv, NEW r \in Runs, NEW o \in {"o1", "o2"}, job[r] = FulfillOrder(o), SagaOK(r, o), Forward(r),
         NEW rec, rec = run'[r], NEW v, Records(r, rec, v), Reason(r, v)
  PROVE  SagaOK(r, o)'
<1>1. PICK n : n = Len(run[r].memo) /\ n \in Nat
  BY SagaShape
<1>2. /\ rec.mode \in {"forward", "completed"} /\ rec.at = 1
      /\ Len(rec.memo) = n + 1 /\ rec.memo[n + 1] = v
  <2>1. rec.mode \in {"forward", "completed"} /\ rec.at = 1 /\ rec.memo = Append(run[r].memo, v)
    BY DEF Records, Fresh
  <2>2. PICK S : run[r].memo \in Seq(S \cup {v})
    <3>1. PICK T : run[r].memo \in Seq(T)
      BY SagaShape DEF IsPlaced, RunState
    <3>2. PICK U : U = T \cup {v}
      OBVIOUS
    <3>3. T \subseteq U /\ U = U \cup {v}
      BY <3>2
    <3>4. run[r].memo \in Seq(U)
      BY <3>1, <3>3, SeqMonotonic
    <3> QED BY <3>3, <3>4
  <2> QED BY <1>1, <2>1, <2>2, OneMoreAnswer
<1>3. PICK e : e = Keyed(r) /\ log' = Append(log, e) /\ hit' = hit /\ LogIs
  BY SagaAnswers, SagaShape
<1>4. e.on = Effect(r).on /\ e.name = Effect(r).name
  BY <1>3 DEF Keyed
<1>5. Unhit(r)' => Clean(r, o)
  BY <1>3 DEF Unhit, SagaOK
<1>6. SUFFICES /\ 2 <= n + 1 => LastIs(o, "order.shipped")'
               /\ Clean(r, o) => Clean(r, o)'
  BY <1>2, <1>5 DEF SagaOK, Busy
<1>7. CASE n = 0 /\ Effect(r) = Record(o, "order.confirmed", AsRead) /\ v = StreamVersion(o) + 1
  <2>1. e.on = o /\ e.name = "order.confirmed"
    BY <1>4, <1>7, Effectless
  <2>2. /\ StreamVersion(o)' = StreamVersion(o) + 1 /\ \A m : m # "order.confirmed" => Facts(o, m)' = Facts(o, m)
        /\ Facts(o, "order.confirmed") = {} => OnlyOne(o, "order.confirmed")'
    BY <1>3, <2>1, FactsGrow
  <2>3. Len(rec.memo) = 1 /\ rec.memo[1] = v
    BY <1>2, <1>7
  <2>4. Clean(r, o) => Clean(r, o)'
    BY <1>1, <1>2, <1>7, <2>2, <2>3 DEF Clean, OnlyOne
  <2> QED BY <1>7, <2>4
<1>8. CASE n = 1 /\ Effect(r) = Record(o, "order.shipped", After("confirm-payment"))
  <2>1. e.on = o /\ e.name = "order.shipped"
    BY <1>4, <1>8, Effectless
  <2>2. /\ LastIs(o, "order.shipped")' /\ \A m : m # "order.shipped" => Facts(o, m)' = Facts(o, m)
        /\ Facts(o, "order.shipped") = {} => OnlyOne(o, "order.shipped")'
    BY <1>3, <2>1, FactsGrow
  <2>3. Len(rec.memo) = 2
    BY <1>2, <1>8
  <2>4. Clean(r, o) => Clean(r, o)'
    BY <1>1, <1>2, <1>8, <2>2, <2>3 DEF Clean, OnlyOne
  <2> QED BY <2>2, <2>4
<1>9. CASE n = 2 /\ Effect(r) = Publish("notifications.order.shipped", "topic")
  <2>1. e.on # o
    BY <1>4, <1>9, Effectless
  <2>2. (\A m : Facts(o, m)' = Facts(o, m)) /\ (LastIs(o, "order.shipped") => LastIs(o, "order.shipped")')
    BY <1>3, <2>1, FactsGrow
  <2>3. Len(rec.memo) = 3
    BY <1>2, <1>9
  <2>4. ASSUME Clean(r, o) PROVE Clean(r, o)'
    <3>1. run'[r].mode \notin {"undo", "failed"} /\ Len(run'[r].memo) = 3
      BY <1>2, <2>3
    <3>2. /\ Facts(o, "order.cancelled")' = {}
          /\ OnlyOne(o, "order.confirmed")' /\ OnlyOne(o, "order.shipped")'
      BY <2>2, <2>4 DEF Clean, OnlyOne
    <3> QED BY <3>1, <3>2 DEF Clean
  <2>5. LastIs(o, "order.shipped")
    BY <1>1, <1>9 DEF SagaOK, Forward
  <2> QED BY <2>2, <2>4, <2>5
<1> QED BY <1>1, <1>7, <1>8, <1>9, SagaAnswers

LEMMA SagaForward ==
  ASSUME EngineInv, NEW r \in Runs, NEW o \in {"o1", "o2"}, job[r] = FulfillOrder(o), SagaOK(r, o), Forward(r),
         Advance(r) \/ LoseAnswer(r) \/ Crash(r) \/ Elapse(r)
  PROVE  SagaOK(r, o)'
<1>1. PICK rec : rec = run'[r]
  OBVIOUS
<1>2. PICK n : n = Len(run[r].memo) /\ n \in Nat /\ run[r].pc \in {1, 2, 3} /\ run[r].mode = "forward" /\ run[r].pc = n + 1
  BY SagaShape DEF Forward
<1>3. \/ GoesOn(r, rec)
      \/ Crash(r) /\ Returns(r, rec) /\ rec.mode = "forward"
      \/ Stopped(r) /\ Returns(r, rec) /\ rec.memo = run[r].memo /\ (rec.mode = "failed" => n = 0)
  BY <1>1, <1>2, SagaShape, ForwardMoves
<1>4. hit \subseteq hit'
  BY SagaShape, StepsOnlyRun DEF OnlyRuns
<1>5. CASE CallsOn(r, rec)
  <2>1. /\ log' = log /\ rec.memo = run[r].memo /\ rec.mode = run[r].mode /\ rec.got = StreamVersion(o) /\ run[r].pc = 1
    BY <1>1, <1>5, SagaCallsOn
  <2>2. n = 0
    BY <1>2, <2>1
  <2>3. StreamVersion(o)' = StreamVersion(o) /\ \A m : Facts(o, m)' = Facts(o, m)
    BY <2>1, StreamKeeps
  <2>4. Clean(r, o) => Clean(r, o)'
    BY <1>1, <2>1, <2>3 DEF Clean, OnlyOne
  <2>5. Unhit(r)' => Unhit(r)
    BY <1>4 DEF Unhit
  <2> QED BY <1>1, <1>2, <2>1, <2>2, <2>3, <2>4, <2>5 DEF SagaOK, Busy
<1>6. CASE Parks(r, rec)
  BY <1>6, SagaShape DEF Parks
<1>7. CASE \E v : Records(r, rec, v) /\ Reason(r, v)
  BY <1>1, <1>7, SagaRecords
<1>8. CASE Crash(r) /\ Returns(r, rec) /\ rec.mode = "forward"
  <2>1. rec.at = 1 /\ Len(rec.memo) <= n /\ Len(rec.memo) \in Nat
    <3>1. IsPlacedAt(r, rec)
      BY <1>1, SagaShape, RunMoves
    <3> QED BY <1>2, <1>8, <3>1, LenProperties DEF Returns, Fresh, KeptOf, IsPlacedAt, RunState
  <2>2. ~Unhit(r)'
    <3>1. PICK k : k \in run[r].kept .. n /\ Hit(r, k + 1)
      BY <1>2, <1>8 DEF Crash, Forward
    <3>2. run[r].kept \in Nat
      BY SagaShape DEF IsPlaced, RunState
    <3>3. run[r].pc \in k + 1 .. run[r].pc /\ run[r].pc \in 1 .. 4
      BY <1>2, <3>1, <3>2
    <3>4. <<r, "forward", run[r].pc>> \in hit'
      BY <1>2, <3>1, <3>3 DEF Hit
    <3> QED BY <3>3, <3>4 DEF Unhit
  <2>3. log' = log
    BY <1>8 DEF Crash
  <2>4. 2 <= Len(rec.memo) => LastIs(o, "order.shipped")'
    <3>1. 2 <= Len(rec.memo) => 2 <= n
      <4>1. PICK m : m = Len(rec.memo) /\ m \in Nat /\ m <= n
        BY <2>1
      <4> QED BY <1>2, <4>1
    <3> QED BY <1>2, <2>3, <3>1, StreamKeeps DEF SagaOK
  <2> QED BY <1>1, <1>8, <2>1, <2>2, <2>4 DEF SagaOK
<1>9. CASE Stopped(r) /\ Returns(r, rec) /\ rec.memo = run[r].memo /\ (rec.mode = "failed" => n = 0)
  <2>1. rec.at = 1
    BY <1>9 DEF Returns, Fresh
  <2>2. ~Unhit(r)' /\ n \in {0, 1}
    <3>1. CASE LoseAnswer(r) /\ run[r].pc \in {1, 2} /\ n \in {0, 1}
      <4>1. Hit(r, run[r].pc)
        BY <3>1 DEF LoseAnswer
      <4>2. run[r].pc \in run[r].pc .. run[r].pc /\ run[r].pc \in 1 .. 4
        BY <3>1
      <4>3. <<r, "forward", run[r].pc>> \in hit'
        BY <1>2, <4>1, <4>2 DEF Hit
      <4> QED BY <3>1, <4>2, <4>3 DEF Unhit
    <3>2. CASE n = 1 /\ hit' = hit /\ StreamVersion(o) # run[r].memo[1]
      <4>1. ~Clean(r, o)
        BY <1>2, <3>2 DEF Clean
      <4> QED BY <3>2, <4>1 DEF SagaOK, Unhit
    <3> QED BY <1>2, <1>9, <3>1, <3>2, SagaConflicts
  <2>3. ~(2 <= Len(rec.memo)) /\ (rec.mode = "failed" => ~(1 <= Len(rec.memo)))
    <3>1. PICK m : m = Len(rec.memo) /\ m = n
      BY <1>2, <1>9
    <3> QED BY <1>9, <2>2, <3>1
  <2> QED BY <1>1, <2>1, <2>2, <2>3 DEF SagaOK
<1> QED BY <1>3, <1>5, <1>6, <1>7, <1>8, <1>9 DEF GoesOn

(* Its undo: a run that fails has cancelled, unless its undo was hit.       *)
LEMMA SagaCancels ==
  ASSUME EngineInv, NEW r \in Runs, NEW o \in {"o1", "o2"}, job[r] = FulfillOrder(o), Undoes(r),
         run[r].at = Len(Effects(r)), Reads(r) \/ Call(r)
  PROVE  LastIs(o, "order.cancelled")'
<1>1. PICK op : Doing(r, op) /\ Effect(r).op = op
  BY DEF Reads, Call, CanWrite, Doing, Effect
<1>2. Effect(r) = Record(o, "order.cancelled", AsRead)
  <2>1. ~Forward(r)
    BY DEF Undoes, Forward
  <2> QED BY <1>1, <2>1, SagaCalls
<1>0. PICK e : e = Keyed(r)
  OBVIOUS
<1>3. e.on = Effect(r).on /\ e.name = Effect(r).name
  BY <1>0 DEF Keyed
<1>4. e.on = o /\ e.name = "order.cancelled" /\ op = "append" /\ Effect(r).key = NoKey
  BY <1>1, <1>2, <1>3, Effectless
<1>5. ~Reads(r)
  BY <1>1, <1>4 DEF Reads, Doing, Effect
<1>6. log' = Append(log, e)
  BY <1>0, <1>1, <1>4, <1>5, CallTells DEF Telling
<1> QED BY <1>4, <1>6, SagaShape, FactsGrow

LEMMA SagaUndoes ==
  ASSUME EngineInv, NEW r \in Runs, NEW o \in {"o1", "o2"}, job[r] = FulfillOrder(o), SagaOK(r, o), Undoes(r),
         Advance(r) \/ LoseAnswer(r) \/ Crash(r) \/ Elapse(r)
  PROVE  SagaOK(r, o)'
<1>1. PICK rec : rec = run'[r]
  OBVIOUS
<1>2. ~Doing(r, "wait") /\ ~Forward(r) /\ hit \subseteq hit'
  <2>1. ~Doing(r, "wait")
    BY SagaShape
  <2> QED BY <2>1, SagaShape, StepsOnlyRun DEF OnlyRuns, Undoes, Forward
<1>3. /\ rec.memo = run[r].memo /\ rec.mode \in {"undo", "failed"}
      /\ CallsOn(r, rec) \/ Fresh(rec)
      /\ rec.mode = "failed" => /\ run[r].pc = 1
                                /\ \/ Stopped(r) \/ Effects(r) = <<>>
                                   \/ run[r].at = Len(Effects(r)) /\ (Reads(r) \/ Call(r))
  BY <1>1, <1>2, SagaShape, UndoMoves
<1>4. ~Unhit(r)'
  <2>1. ~Unhit(r)
    BY DEF SagaOK, Clean, Undoes
  <2> QED BY <1>2, <2>1 DEF Unhit
<1>5. Busy(r)' /\ rec.pc = 1 /\ rec.at \in {2, 3} => rec.got = StreamVersion(o)'
  <2>1. CASE CallsOn(r, rec)
    <3>1. log' = log /\ rec.got = StreamVersion(o)
      BY <1>1, <2>1, SagaCallsOn
    <3> QED BY <3>1, StreamKeeps
  <2> QED BY <1>3, <2>1 DEF Fresh
<1>6. rec.mode = "failed" /\ <<r, "undo", 1>> \notin hit' => LastIs(o, "order.cancelled")'
  <2>1. SUFFICES ASSUME rec.mode = "failed" PROVE <<r, "undo", 1>> \in hit' \/ LastIs(o, "order.cancelled")'
    OBVIOUS
  <2>2. CASE Stopped(r)
    <3>1. LoseAnswer(r)
      BY <1>2, <2>2, SagaConflicts
    <3>2. Hit(r, 1) /\ run[r].mode = "undo" /\ run[r].pc = 1
      BY <1>3, <2>1, <3>1 DEF LoseAnswer, Undoes
    <3> QED BY <3>2 DEF Hit
  <2>3. CASE Effects(r) = <<>>
    <3>1. Effects(r) = <<Read(o), Refuse({0}), Record(o, "order.cancelled", AsRead)>>
      BY <1>3, <2>1, FulfillOrderIs DEF Effects, Current, Undoes, ReversePayment, FulfillSteps
    <3> QED BY <2>3, <3>1
  <2>4. CASE run[r].at = Len(Effects(r)) /\ (Reads(r) \/ Call(r))
    BY <2>4, SagaCancels
  <2> QED BY <1>3, <2>1, <2>2, <2>3, <2>4
<1> QED BY <1>1, <1>3, <1>4, <1>5, <1>6 DEF SagaOK

LEMMA SagaStep ==
  ASSUME EngineInv, OrderProgram(job), SagaInv, NEW q \in Runs, Advance(q) \/ LoseAnswer(q) \/ Crash(q) \/ Elapse(q)
  PROVE  SagaInv'
<1>1. LogIs /\ DOMAIN run = Runs /\ GoodFunction(job[q], {}) /\ IsFunction(job[q]) /\ IsPlaced(q) /\ Len(log) \in Nat
  BY LogShape, GoodIsFunction DEF EngineInv
<1>2. job' = job
  BY <1>1, RunWrites
<1>3. ASSUME NEW r \in Runs, NEW o \in {"o1", "o2"}, job[r] = FulfillOrder(o) PROVE SagaOK(r, o)'
  <2>1. SagaOK(r, o)
    BY <1>3 DEF SagaInv
  <2>2. CASE r # q
    BY <1>3, <2>1, <2>2, SagaWaits
  <2>3. CASE r = q
    <3>1. PICK rec : rec = run'[r] /\ Outcome(r, rec)
      BY <1>1, <2>3, RunMoves
    <3>2. run[r].mode \in {"waiting", "forward", "undo"}
      <4>1. run[r].mode # "parked"
        BY <1>3, SagaShape
      <4> QED BY <3>1, <4>1 DEF Outcome, Starts, CallsOn, Parks, Returns, Records, Working, Busy, Forward
    <3>3. run[r].mode = "waiting" => Start(r)
      BY <2>3, WaitingStarts
    <3>4. run[r].mode = "forward" => Forward(r)
      BY DEF Forward
    <3>5. run[r].mode = "undo" => Undoes(r)
      BY DEF Undoes
    <3>6. CASE Start(r)
      BY <1>3, <2>1, <3>6, SagaStarts
    <3>7. CASE Forward(r)
      BY <1>3, <2>1, <2>3, <3>7, SagaForward
    <3>8. CASE Undoes(r)
      BY <1>3, <2>1, <2>3, <3>8, SagaUndoes
    <3> QED BY <3>2, <3>3, <3>4, <3>5, <3>6, <3>7, <3>8
  <2> QED BY <2>2, <2>3
<1> QED BY <1>2, <1>3 DEF SagaInv, OrderProgram

LEMMA SagaSteps == ASSUME EngineInv, InboxInv, DeployedKinds, SagaInv, [ExamplesNext]_exampleVars PROVE SagaInv'
<1>1. job' = job
  BY JobsStay DEF ExamplesNext, exampleVars, vars
<1>2. SUFFICES ASSUME OrderProgram(job), NEW p \in Runs, NEW x \in {"o1", "o2"}, job[p] = FulfillOrder(x) PROVE SagaInv'
  BY <1>1 DEF SagaInv, OrderProgram
<1>3. Drafts = {}
  BY <1>2, OneKind, FulfillOrderIs DEF Kept4, FulfillSteps
<1>4. CASE Next /\ UNCHANGED <<inboxVars, notifierVars>>
  BY <1>2, <1>4, SagaStep DEF Next
<1>5. CASE (InboxNext /\ UNCHANGED notifierVars) \/ (NotifierNext /\ UNCHANGED inboxVars) \/ UNCHANGED exampleVars
  <2>1. UNCHANGED <<job, log, run, hit>>
    BY <1>3, <1>5, WhatIsEmitted DEF EngineInv
  <2>2. ASSUME NEW r, NEW o PROVE SagaOK(r, o)' = SagaOK(r, o)
    <3>1. StreamVersion(o)' = StreamVersion(o) /\ \A n : Facts(o, n)' = Facts(o, n) /\ LastIs(o, n)' = LastIs(o, n)
      BY <2>1, StreamKeeps
    <3>2. Clean(r, o)' = Clean(r, o) /\ Unhit(r)' = Unhit(r)
      BY <2>1, <3>1 DEF Clean, Unhit, OnlyOne
    <3> QED BY <2>1, <3>1, <3>2 DEF SagaOK, Busy
  <2> QED BY <1>2, <2>1, <2>2 DEF SagaInv
<1> QED BY <1>4, <1>5 DEF ExamplesNext

LEMMA SagaStart == Init => SagaInv
<1> SUFFICES ASSUME Init, NEW r \in Runs, NEW o \in {"o1", "o2"} PROVE SagaOK(r, o)
  BY DEF SagaInv
<1>1. log = <<>> /\ run = [q \in Runs |-> Idle(q)]
  BY DEF Init, InitEngine
<1>2. run[r].mode \in {"waiting", "forward"} /\ run[r].at = 1 /\ Len(run[r].memo) = 0
  BY <1>1 DEF Idle
<1>3. \A n : Facts(o, n) = {}
  BY <1>1 DEF Facts, Stream
<1> QED BY <1>2, <1>3 DEF SagaOK, Clean, OnlyOne, Busy

(* The saga of an order: its stream follows its run, in every state.        *)
THEOREM SagaInvariance == Spec => [](EngineInv /\ DeployedKinds /\ SagaInv)
<1>1. Init => EngineInv /\ InboxInv /\ DeployedKinds /\ SagaInv
  BY EngineStart, InboxStart, KindsStart, SagaStart
<1>2. (EngineInv /\ InboxInv /\ DeployedKinds /\ SagaInv) /\ [ExamplesNext]_exampleVars => SagaInv'
  BY SagaSteps
<1> QED BY <1>1, <1>2, ExamplesInvariance, InboxInvariance, PTL DEF Spec

(* What the summary of an order shows is what its last fact says.           *)
NewestOf(S) == CHOOSE m \in S : \A j \in S : j <= m

LEMMA NewestIs ==
  ASSUME NEW S, S \subseteq Nat, NEW i \in S, \A j \in S : j <= i
  PROVE  NewestOf(S) = i
<1>1. PICK m : m = NewestOf(S) /\ m \in S /\ \A j \in S : j <= m
  BY DEF NewestOf
<1>2. m \in Nat /\ i \in Nat /\ m <= i /\ i <= m
  BY <1>1
<1> QED BY <1>1, <1>2

LEMMA SummaryIsNewest ==
  ASSUME LogIs, NEW o
  PROVE  OrderSummary(o) = IF Stream(o) = {} THEN "unknown" ELSE StatusAfter(log[NewestOf(Stream(o))].name)
<1>1. PICK n \in Nat : n = Len(log) /\ DOMAIN log = 1 .. n
  BY LogShape
<1> DEFINE W(i) == {k \in 1 .. i : log[k].on = o}
           g == [i \in 0 .. n |-> IF W(i) = {} THEN "unknown" ELSE StatusAfter(log[NewestOf(W(i))].name)]
           F(h) == [i \in 0 .. n |-> IF i = 0 THEN "unknown"
                                     ELSE IF log[i].on = o THEN StatusAfter(log[i].name) ELSE h[i - 1]]
<1>2. ASSUME NEW i \in 0 .. n
      PROVE  g[i] = IF i = 0 THEN "unknown" ELSE IF log[i].on = o THEN StatusAfter(log[i].name) ELSE g[i - 1]
  <2>1. CASE i = 0
    <3>1. W(i) = {}
      BY <2>1
    <3> QED BY <2>1, <3>1
  <2>2. CASE i # 0
    <3>1. i - 1 \in 0 .. n /\ i \notin 1 .. (i - 1) /\ 1 .. i = 1 .. (i - 1) \cup {i}
      BY <2>2
    <3>2. /\ g[i] = IF W(i) = {} THEN "unknown" ELSE StatusAfter(log[NewestOf(W(i))].name)
          /\ g[i - 1] = IF W(i - 1) = {} THEN "unknown" ELSE StatusAfter(log[NewestOf(W(i - 1))].name)
      BY <3>1
    <3>3. CASE log[i].on = o
      <4>1. i \in W(i) /\ W(i) \subseteq Nat /\ \A j \in W(i) : j <= i
        BY <2>2, <3>3
      <4> HIDE DEF W, g
      <4>2. NewestOf(W(i)) = i
        BY <4>1, NewestIs
      <4> QED BY <2>2, <3>2, <3>3, <4>1, <4>2
    <3>4. CASE log[i].on # o
      <4>1. W(i) = W(i - 1)
        BY <3>1, <3>4
      <4> HIDE DEF W, g
      <4> QED BY <2>2, <3>2, <3>4, <4>1
    <3> QED BY <3>3, <3>4
  <2> QED BY <2>1, <2>2
<1>3. DOMAIN g = 0 .. n /\ g = [i \in 0 .. n |-> g[i]]
  OBVIOUS
<1>4. g = F(g)
  <2> HIDE DEF g
  <2> QED BY <1>2, <1>3
<1>5. ASSUME NEW h, h = F(h) PROVE h = g
  <2> DEFINE T == {i \in 0 .. n : h[i] # g[i]}
  <2>1. PICK f : f = F(h) /\ f = h
    BY <1>5
  <2>2. /\ \A i \in 0 .. n : h[i] = IF i = 0 THEN "unknown" ELSE IF log[i].on = o THEN StatusAfter(log[i].name) ELSE h[i - 1]
        /\ DOMAIN h = 0 .. n /\ h = [i \in 0 .. n |-> h[i]]
    <3>1. /\ \A i \in 0 .. n : f[i] = IF i = 0 THEN "unknown" ELSE IF log[i].on = o THEN StatusAfter(log[i].name) ELSE h[i - 1]
          /\ DOMAIN f = 0 .. n /\ f = [i \in 0 .. n |-> f[i]]
      BY <2>1
    <3> QED BY <2>1, <3>1
  <2>3. T = {}
    <3>1. SUFFICES ASSUME T # {} PROVE FALSE
      OBVIOUS
    <3>2. T \subseteq Nat
      OBVIOUS
    <3>3. PICK x \in T : \A y \in T : x <= y
      BY <3>1, <3>2, SmallestNumber
    <3>4. x \in 0 .. n /\ h[x] # g[x]
      OBVIOUS
    <3>5. x # 0
      <4> HIDE DEF g
      <4> QED BY <1>2, <2>2, <3>4
    <3>6. x - 1 \in 0 .. n /\ x - 1 \notin T
      <4>1. x - 1 \in 0 .. n /\ ~(x <= x - 1)
        BY <3>4, <3>5
      <4> HIDE DEF T
      <4> QED BY <3>3, <4>1
    <3>7. h[x - 1] = g[x - 1]
      BY <3>6
    <3> HIDE DEF T, g
    <3> QED BY <1>2, <2>2, <3>4, <3>5, <3>7
  <2>4. \A i \in 0 .. n : h[i] = g[i]
    BY <2>3
  <2> HIDE DEF g
  <2> QED BY <1>3, <2>2, <2>4
<1>6. OrderSummary(o) = g[n]
  <2>1. \A h : h = F(h) => h = g
    BY <1>5
  <2> HIDE DEF g
  <2> QED BY <1>1, <1>4, <2>1 DEF OrderSummary, Folded
<1>7. W(n) = Stream(o) /\ n \in 0 .. n
  BY <1>1 DEF Stream
<1> HIDE DEF W
<1> QED BY <1>6, <1>7

LEMMA SummaryIs ==
  ASSUME LogIs, NEW o, NEW name, LastIs(o, name)
  PROVE  OrderSummary(o) = StatusAfter(name)
<1>1. PICK i \in Facts(o, name) : VersionOf(i) = StreamVersion(o)
  BY DEF LastIs
<1>2. i \in DOMAIN log /\ log[i].on = o /\ log[i].name = name /\ i \in Stream(o)
  BY <1>1 DEF Facts, Stream
<1>3. \A j \in Stream(o) : j <= i
  <2>1. PICK m \in Stream(o) : (\A j \in Stream(o) : j <= m) /\ VersionOf(m) = StreamVersion(o)
    BY <1>2, LastFact
  <2>2. m \in DOMAIN log /\ log[m].on = o
    BY DEF Stream
  <2>3. m = i
    BY <1>1, <1>2, <2>1, <2>2, VersionsDiffer
  <2> QED BY <2>1, <2>3
<1>4. Stream(o) \subseteq Nat
  BY LogShape DEF Stream
<1>5. NewestOf(Stream(o)) = i
  BY <1>2, <1>3, <1>4, NewestIs
<1> QED BY <1>2, <1>5, SummaryIsNewest

(* The saga ships what it confirmed or cancels it, and nothing else: an     *)
(* order is confirmed or shipped twice, or cancelled after it shipped, only *)
(* when a step of its saga was executed again after its append had been     *)
(* recorded, and a saga that fails leaves no order confirmed unless its     *)
(* undo was hit (fulfill-order).                                            *)
THEOREM SagasAreAllOrNothing == Spec => []SagaIsAllOrNothing
<1>1. ASSUME EngineInv, DeployedKinds, SagaInv PROVE SagaIsAllOrNothing
  <2>1. SUFFICES ASSUME NEW r \in Runs, job[r].id = "fulfill-order"
                 PROVE  LET o == job[r].steps[1].does[1].on IN
                          /\ ({i \in 1..4 : <<r, "forward", i>> \in hit} = {}) =>
                               /\ Once(o, "order.confirmed") /\ Once(o, "order.shipped")
                               /\ Facts(o, "order.shipped") # {} => Facts(o, "order.cancelled") = {}
                          /\ (run[r].mode = "failed" /\ Did(r, "confirm-payment") /\ <<r, "undo", 1>> \notin hit) =>
                               \E i \in Facts(o, "order.cancelled") : VersionOf(i) = StreamVersion(o)
                          /\ run[r].mode = "completed" => OrderSummary(o) = "shipped"
    BY DEF SagaIsAllOrNothing
  <2>2. OrderProgram(job) /\ OrderJob(job[r])
    BY <1>1, <2>1, OneKind DEF OrderProgram
  <2>3. PICK o \in {"o1", "o2"} : job[r] = FulfillOrder(o)
    <3>1. \A p, v : PlaceOrder(p, v).id = "place-order" /\ NotDeployed.id = "none"
      BY DEF PlaceOrder, NotDeployed, Function
    <3> QED BY <2>1, <2>2, <3>1 DEF OrderJob
  <2>4. job[r].steps[1].does[1].on = o /\ SagaOK(r, o) /\ LogIs /\ IsPlaced(r) /\ Len(Steps(r)) = 3
    BY <1>1, <2>2, <2>3, FulfillOrderIs, SagaShape DEF SagaInv, FulfillSteps
  <2>5. ASSUME Unhit(r)
        PROVE  /\ Once(o, "order.confirmed") /\ Once(o, "order.shipped")
               /\ Facts(o, "order.shipped") # {} => Facts(o, "order.cancelled") = {}
    <3>1. Clean(r, o)
      BY <2>4, <2>5 DEF SagaOK
    <3>2. ASSUME NEW name, OnlyOne(o, name) PROVE Once(o, name)
      <4>1. IsFiniteSet(Stream(o)) /\ Facts(o, name) \subseteq Stream(o)
        BY <2>4, VersionsCount DEF Facts
      <4>2. IsFiniteSet(Facts(o, name))
        BY <4>1, FS_Subset
      <4> QED BY <3>2, <4>2, AllSame DEF OnlyOne, Once
    <3> QED BY <3>1, <3>2 DEF Clean
  <2>6. PICK n : n = Len(run[r].memo) /\ n \in Nat /\ DOMAIN run[r].memo = 1 .. n
    BY <2>4, PlacedRun, LenProperties DEF IsPlaced, RunState
  <2>7. ASSUME run[r].mode = "failed", Did(r, "confirm-payment"), <<r, "undo", 1>> \notin hit
        PROVE  LastIs(o, "order.cancelled")
    <3>1. PICK i \in 1 .. n : TRUE
      BY <2>6, <2>7 DEF Did
    <3>2. 1 <= n
      BY <2>6, <3>1
    <3> QED BY <2>4, <2>6, <2>7, <3>2 DEF SagaOK
  <2>8. ASSUME run[r].mode = "completed" PROVE OrderSummary(o) = "shipped"
    <3>1. n = 3
      <4>1. Placed(run[r].mode, run[r].pc, n, run[r].kept, 3)
        BY <2>4, <2>6 DEF IsPlaced
      <4> QED BY <2>8, <4>1 DEF Placed
    <3>2. LastIs(o, "order.shipped")
      BY <2>4, <2>6, <2>8, <3>1 DEF SagaOK
    <3>3. OrderSummary(o) = StatusAfter("order.shipped")
      BY <2>4, <3>2, SummaryIs
    <3> QED BY <3>3 DEF StatusAfter
  <2> QED BY <2>4, <2>5, <2>7, <2>8 DEF Unhit, LastIs
<1>2. EngineInv /\ DeployedKinds /\ SagaInv => SagaIsAllOrNothing
  BY <1>1
<1> QED BY <1>2, SagaInvariance, PTL

-----------------------------------------------------------------------------
(* agents/reconciliation-agent: what a case run does, and what the others   *)
(* of its programs do not.                                                  *)
Accounts == {Acme, AcmeBefore}
Verdicts == {"case.resolved", "case.unresolved"}
CaseNames == <<"opened", "escalated", "llm.complete", "proposed", "approve", "declined", "send-contact", "sent", "reply",
               "no-reply", "unconfirmed", "resolved">>

(* The steps of a case.                                                     *)
CaseSteps(r, k, c, a) ==
  /\ job[r].id = "reconciliation-case" /\ job[r].errors = "retry" /\ job[r].trigger = <<"fact", c, "case.requested">>
  /\ DOMAIN Steps(r) = 1 .. 12 /\ Len(Steps(r)) = 12
  /\ \A i \in 1 .. 12 : Steps(r)[i].name = CaseNames[i] /\ Steps(r)[i].undo = <<>>
  /\ \A i \in {1, 2, 3, 4, 5} : Steps(r)[i].needs = <<>>
  /\ \A i \in {7, 8, 9} : Steps(r)[i].needs = <<"approve", {1}>>
  /\ Steps(r)[6].needs = <<"approve", {2}>> /\ Steps(r)[10].needs = <<"reply", {1}>>
  /\ Steps(r)[11].needs = <<"reply", {3}>> /\ Steps(r)[12].needs = <<"reply", {2}>>
  /\ Calls(r, 1) = <<Emit("case.opened", c)>> /\ Calls(r, 2) = <<Emit("case.escalated", c)>>
  /\ Calls(r, 3) = <<Refuse(IF a THEN {} ELSE Anything)>> /\ Calls(r, 4) = <<Emit("case.action.proposed", c)>>
  /\ Calls(r, 5) = <<Wait(Gate(k), Decisions)>> /\ Calls(r, 6) = <<Emit("case.unresolved", c)>>
  /\ Calls(r, 7) = <<EmitOnce("contact", c, contactKey(k, c))>> /\ Calls(r, 8) = <<Emit("case.contact.sent", c)>>
  /\ Calls(r, 9) = <<Wait(c, Signals)>> /\ Calls(r, 10) = <<Emit("case.unresolved", c)>>
  /\ Calls(r, 11) = <<Emit("case.unresolved", c)>> /\ Calls(r, 12) = <<Emit("case.resolved", c)>>

LEMMA CaseIs ==
  ASSUME NEW r, NEW k, NEW c, NEW a, job[r] = ReconciliationCase(k, c, a)
  PROVE  CaseSteps(r, k, c, a)
<1>1. PICK list :
        list = <<Remember("opened", c, "case.opened"), Remember("escalated", c, "case.escalated"), Triage(a),
                 Remember("proposed", c, "case.action.proposed"), Approve(k), Declined(c), SendContact(k, c),
                 ContactSent(c), Reply(c), NoReply(c), Unconfirmed(c), Resolved(c)>>
  OBVIOUS
<1>2. job[r] = Function("reconciliation-case", OnFact(c, "case.requested"), list)
  BY <1>1 DEF ReconciliationCase
<1>3. /\ job[r].id = "reconciliation-case" /\ job[r].errors = "retry" /\ job[r].trigger = <<"fact", c, "case.requested">>
      /\ Steps(r) = list
  BY <1>2 DEF Function, OnFact, Steps
<1>4. /\ DOMAIN list = 1 .. 12 /\ Len(list) = 12
      /\ list[1] = Remember("opened", c, "case.opened") /\ list[2] = Remember("escalated", c, "case.escalated")
      /\ list[3] = Triage(a) /\ list[4] = Remember("proposed", c, "case.action.proposed") /\ list[5] = Approve(k)
      /\ list[6] = Declined(c) /\ list[7] = SendContact(k, c) /\ list[8] = ContactSent(c) /\ list[9] = Reply(c)
      /\ list[10] = NoReply(c) /\ list[11] = Unconfirmed(c) /\ list[12] = Resolved(c)
  BY <1>1
<1>5. /\ \A n, d : Step(n, d).does = d /\ Step(n, d).undo = <<>> /\ Step(n, d).needs = <<>> /\ Step(n, d).name = n
      /\ \A n, d, s, v : /\ OnlyIf(Step(n, d), s, v).does = d /\ OnlyIf(Step(n, d), s, v).undo = <<>>
                         /\ OnlyIf(Step(n, d), s, v).needs = <<s, v>> /\ OnlyIf(Step(n, d), s, v).name = n
  BY DEF Step, OnlyIf
<1>6. \A i \in 1 .. 12 : list[i].undo = <<>>
  BY <1>4, <1>5 DEF Remember, Triage, Approve, Declined, SendContact, ContactSent, Reply, NoReply, Unconfirmed, Resolved
<1>7. /\ list[1].name = "opened" /\ list[2].name = "escalated" /\ list[3].name = "llm.complete" /\ list[4].name = "proposed"
      /\ list[5].name = "approve" /\ list[6].name = "declined" /\ list[7].name = "send-contact" /\ list[8].name = "sent"
      /\ list[9].name = "reply" /\ list[10].name = "no-reply" /\ list[11].name = "unconfirmed" /\ list[12].name = "resolved"
  BY <1>4, <1>5 DEF Remember, Triage, Approve, Declined, SendContact, ContactSent, Reply, NoReply, Unconfirmed, Resolved
<1>8. \A i \in 1 .. 12 : list[i].name = CaseNames[i]
  BY <1>7 DEF CaseNames
<1>9. /\ \A i \in {1, 2, 3, 4, 5} : list[i].needs = <<>>
      /\ \A i \in {7, 8, 9} : list[i].needs = <<"approve", {1}>>
      /\ list[6].needs = <<"approve", {2}>> /\ list[10].needs = <<"reply", {1}>>
      /\ list[11].needs = <<"reply", {3}>> /\ list[12].needs = <<"reply", {2}>>
  BY <1>4, <1>5 DEF Remember, Triage, Approve, Declined, SendContact, ContactSent, Reply, NoReply, Unconfirmed, Resolved
<1>10. /\ list[1].does = <<Emit("case.opened", c)>> /\ list[2].does = <<Emit("case.escalated", c)>>
       /\ list[3].does = <<Refuse(IF a THEN {} ELSE Anything)>> /\ list[4].does = <<Emit("case.action.proposed", c)>>
       /\ list[5].does = <<Wait(Gate(k), Decisions)>> /\ list[6].does = <<Emit("case.unresolved", c)>>
       /\ list[7].does = <<EmitOnce("contact", c, contactKey(k, c))>> /\ list[8].does = <<Emit("case.contact.sent", c)>>
       /\ list[9].does = <<Wait(c, Signals)>> /\ list[10].does = <<Emit("case.unresolved", c)>>
       /\ list[11].does = <<Emit("case.unresolved", c)>> /\ list[12].does = <<Emit("case.resolved", c)>>
  BY <1>4, <1>5 DEF Remember, Triage, Approve, Declined, SendContact, ContactSent, Reply, NoReply, Unconfirmed, Resolved
<1> QED BY <1>3, <1>4, <1>6, <1>8, <1>9, <1>10 DEF Calls, CaseSteps

(* The other functions of those programs write no verdict; only the         *)
(* statements request a case.                                               *)
CaseJob(q, f) ==
  \/ f = NotDeployed
  \/ \E c \in Accounts : \/ f = ReconcileStatement(c, AcmeBefore)
                         \/ \E a \in BOOLEAN : f = ReconciliationCase(q, c, a)
                         \/ \E k : f = SweepDeadlines(k, c)
                         \/ \E s \in {"confirmed", "unclear"} : f = ReplyToCase(c, s)
  \/ \E k : \E d \in Outcomes : f = ApproveContact(k, d)
IsCaseJob(f) == f.id = "reconciliation-case"
CaseProgram(jobs) ==
  /\ \A q \in Runs : CaseJob(q, jobs[q])
  /\ \A p, q \in Runs : IsCaseJob(jobs[p]) /\ IsCaseJob(jobs[q]) => p = q
NoCase(jobs) == \A q \in Runs : ~IsCaseJob(jobs[q])

LEMMA CaseJobIds ==
  /\ \A k, c, a : ReconciliationCase(k, c, a).id = "reconciliation-case"
  /\ \A c, e : ReconcileStatement(c, e).id = "reconcile-statement"
  /\ \A k, c : SweepDeadlines(k, c).id = "deadline-sweep"
  /\ \A c, s : ReplyToCase(c, s).id = "reply"
  /\ \A k, d : ApproveContact(k, d).id = "approve"
  /\ NotDeployed.id = "none"
<1>1. /\ \A k, c, a : ReconciliationCase(k, c, a).id = "reconciliation-case"
      /\ \A c, e : ReconcileStatement(c, e).id = "reconcile-statement"
      /\ \A k, c : SweepDeadlines(k, c).id = "deadline-sweep"
  BY DEF ReconciliationCase, ReconcileStatement, SweepDeadlines, Function
<1>2. /\ \A c, s : ReplyToCase(c, s).id = "reply"
      /\ \A k, d : ApproveContact(k, d).id = "approve"
      /\ NotDeployed.id = "none"
  BY DEF ReplyToCase, ApproveContact, Script, Function, NotDeployed
<1> QED BY <1>1, <1>2

LEMMA CasesSpare ==
  ASSUME NEW q, NEW f, CaseJob(q, f), ~IsCaseJob(f)
  PROVE  GoodFunction(f, Verdicts)
<1> DEFINE N == Verdicts
<1>1. {"case.requested", "rejected", "approved", "timeout", "confirmed", "unclear"} \cap N = {}
  BY DEF Verdicts
<1> HIDE DEF N
<1>2. /\ \A n : GoodStep(Step(n, <<>>), N)
      /\ \A n, e : Spares(e, N) => GoodStep(Step(n, <<e>>), N)
      /\ \A n, e, s, a : Spares(e, N) => GoodStep(OnlyIf(Step(n, <<e>>), s, a), N)
  BY SparingAll, SparingSteps
<1>3. ASSUME NEW c, NEW e PROVE GoodFunction(ReconcileStatement(c, e), N)
  <2>1. GoodStep(LoadRules(e), N) /\ GoodStep(Reconcile, N)
    BY <1>2, Sparing DEF LoadRules, Reconcile
  <2>2. GoodStep(RequestCase(c), N)
    BY <1>1, <1>2, Sparing DEF RequestCase
  <2>3. GoodSteps(<<LoadRules(e), Reconcile, RequestCase(c)>>, N)
    BY <2>1, <2>2, StepLists
  <2> QED BY <2>3, GoodFunctions DEF ReconcileStatement
<1>4. ASSUME NEW k, NEW c PROVE GoodFunction(SweepDeadlines(k, c), N)
  <2>1. GoodSteps(<<Sweep(c)>>, N)
    BY <1>2, Sparing, StepLists DEF Sweep
  <2>2. GoodSteps(deadlineEventFor(k, c), N)
    BY <1>1, <1>2, Sparing, StepLists DEF deadlineEventFor
  <2>3. GoodSteps(<<Sweep(c)>> \o deadlineEventFor(k, c), N)
    BY <2>1, <2>2, JoinedLists
  <2> QED BY <2>3, GoodFunctions DEF SweepDeadlines
<1>5. \A n, of : n \notin N => GoodSteps(<<Step("emit", <<Emit(n, of)>>)>>, N)
  BY <1>2, Sparing, StepLists
<1>6. ASSUME NEW k, NEW d \in Outcomes PROVE GoodFunction(ApproveContact(k, d), N)
  <2>1. d \notin N
    BY <1>1 DEF Outcomes
  <2>2. GoodSteps(<<Step("emit", <<Emit(d, Gate(k))>>)>>, N)
    BY <1>5, <2>1
  <2> QED BY <2>2, GoodFunctions DEF ApproveContact
<1>7. ASSUME NEW c, NEW s \in {"confirmed", "unclear"} PROVE GoodFunction(ReplyToCase(c, s), N)
  <2>1. GoodSteps(<<Step("emit", <<Emit(s, c)>>)>>, N)
    BY <1>1, <1>5
  <2> QED BY <2>1, GoodFunctions DEF ReplyToCase
<1>8. \A k, c, a : IsCaseJob(ReconciliationCase(k, c, a))
  BY CaseJobIds DEF IsCaseJob
<1> QED BY <1>3, <1>4, <1>6, <1>7, <1>8, UndeployedFunction DEF CaseJob, N

LEMMA CasePrograms ==
  /\ CaseProgram(Statements.runs) /\ CaseProgram(Untriaged.runs) /\ CaseProgram(NextPeriod.runs)
  /\ \A s \in {"confirmed", "unclear"} : CaseProgram(SweptReply(s).runs)
<1>0. /\ Acme \in Accounts /\ AcmeBefore \in Accounts /\ TRUE \in BOOLEAN /\ FALSE \in BOOLEAN
      /\ "approved" \in Outcomes /\ "rejected" \in Outcomes
  BY DEF Accounts, Outcomes
<1>1. /\ \A q : CaseJob(q, NotDeployed) /\ ~IsCaseJob(NotDeployed)
      /\ \A q : \A c \in Accounts : CaseJob(q, Statement(c)) /\ ~IsCaseJob(Statement(c))
      /\ \A q, k : \A d \in Outcomes : CaseJob(q, ApproveContact(k, d)) /\ ~IsCaseJob(ApproveContact(k, d))
      /\ \A q, k : \A c \in Accounts : CaseJob(q, SweepDeadlines(k, c)) /\ ~IsCaseJob(SweepDeadlines(k, c))
      /\ \A q : \A c \in Accounts : \A s \in {"confirmed", "unclear"} : CaseJob(q, ReplyToCase(c, s)) /\ ~IsCaseJob(ReplyToCase(c, s))
      /\ \A q : \A c \in Accounts : \A a \in BOOLEAN : CaseJob(q, ReconciliationCase(q, c, a))
  BY CaseJobIds DEF CaseJob, IsCaseJob, Statement
<1>2. ASSUME NEW m, NEW list, NEW k,
             \A j \in DOMAIN list : (\A q \in Runs : q = j => CaseJob(q, list[j])) /\ (j # k => ~IsCaseJob(list[j]))
      PROVE  CaseProgram(Program(m, list).runs)
  <2>1. PICK jobs : jobs = Program(m, list).runs
    OBVIOUS
  <2>2. \A q \in Runs : jobs[q] = IF q \in DOMAIN list THEN list[q] ELSE NotDeployed
    BY <2>1 DEF Program
  <2>3. \A q \in Runs : CaseJob(q, jobs[q]) /\ (q # k => ~IsCaseJob(jobs[q]))
    BY <1>1, <1>2, <2>2
  <2> QED BY <2>1, <2>3 DEF CaseProgram
<1>3. CaseProgram(Statements.runs)
  <2>1. PICK list : list = <<Statement(Acme), Statement(Acme), ReconciliationCase(3, Acme, TRUE), ApproveContact(3, "rejected")>>
    OBVIOUS
  <2>2. /\ DOMAIN list = {1, 2, 3, 4} /\ list[1] = Statement(Acme) /\ list[2] = Statement(Acme)
        /\ list[3] = ReconciliationCase(3, Acme, TRUE) /\ list[4] = ApproveContact(3, "rejected")
    BY <2>1
  <2>3. /\ \A q : CaseJob(q, Statement(Acme))
        /\ CaseJob(3, ReconciliationCase(3, Acme, TRUE))
        /\ \A q : CaseJob(q, ApproveContact(3, "rejected"))
    BY <1>0, <1>1
  <2>4. ~IsCaseJob(Statement(Acme)) /\ ~IsCaseJob(ApproveContact(3, "rejected"))
    BY <1>0, <1>1
  <2>5. \A j \in DOMAIN list : (\A q \in Runs : q = j => CaseJob(q, list[j])) /\ (j # 3 => ~IsCaseJob(list[j]))
    BY <2>2, <2>3, <2>4
  <2>6. Statements = Program(1, list)
    BY <2>1 DEF Statements
  <2> QED BY <1>2, <2>5, <2>6
<1>4. CaseProgram(Untriaged.runs)
  <2>1. PICK list : list = <<Statement(Acme), ReconciliationCase(2, Acme, FALSE)>>
    OBVIOUS
  <2>2. DOMAIN list = {1, 2} /\ list[1] = Statement(Acme) /\ list[2] = ReconciliationCase(2, Acme, FALSE)
    BY <2>1
  <2>3. /\ \A q : CaseJob(q, Statement(Acme))
        /\ CaseJob(2, ReconciliationCase(2, Acme, FALSE))
    BY <1>0, <1>1
  <2>4. ~IsCaseJob(Statement(Acme))
    BY <1>0, <1>1
  <2>5. \A j \in DOMAIN list : (\A q \in Runs : q = j => CaseJob(q, list[j])) /\ (j # 2 => ~IsCaseJob(list[j]))
    BY <2>2, <2>3, <2>4
  <2>6. Untriaged = Program(1, list)
    BY <2>1 DEF Untriaged
  <2> QED BY <1>2, <2>5, <2>6
<1>5. CaseProgram(NextPeriod.runs)
  <2>1. PICK list : list = <<Statement(AcmeBefore), ReconciliationCase(2, AcmeBefore, TRUE), ApproveContact(2, "approved"),
                             ReplyToCase(AcmeBefore, "confirmed"), Statement(Acme)>>
    OBVIOUS
  <2>2. /\ DOMAIN list = {1, 2, 3, 4, 5} /\ list[1] = Statement(AcmeBefore)
        /\ list[2] = ReconciliationCase(2, AcmeBefore, TRUE) /\ list[3] = ApproveContact(2, "approved")
        /\ list[4] = ReplyToCase(AcmeBefore, "confirmed") /\ list[5] = Statement(Acme)
    BY <2>1
  <2>3. /\ \A q : CaseJob(q, Statement(AcmeBefore))
        /\ CaseJob(2, ReconciliationCase(2, AcmeBefore, TRUE))
        /\ \A q : CaseJob(q, ApproveContact(2, "approved"))
        /\ \A q : CaseJob(q, ReplyToCase(AcmeBefore, "confirmed"))
        /\ \A q : CaseJob(q, Statement(Acme))
    BY <1>0, <1>1
  <2>4. ~IsCaseJob(Statement(AcmeBefore)) /\ ~IsCaseJob(ApproveContact(2, "approved"))
        /\ ~IsCaseJob(ReplyToCase(AcmeBefore, "confirmed")) /\ ~IsCaseJob(Statement(Acme))
    BY <1>0, <1>1
  <2>5. \A j \in DOMAIN list : (\A q \in Runs : q = j => CaseJob(q, list[j])) /\ (j # 2 => ~IsCaseJob(list[j]))
    BY <2>2, <2>3, <2>4
  <2>6. NextPeriod = Program(1, list)
    BY <2>1 DEF NextPeriod
  <2> QED BY <1>2, <2>5, <2>6
<1>6. ASSUME NEW s \in {"confirmed", "unclear"} PROVE CaseProgram(SweptReply(s).runs)
  <2>1. PICK list : list = <<Statement(Acme), ReconciliationCase(2, Acme, TRUE), ApproveContact(2, "approved"),
                             SweepDeadlines(2, Acme), ReplyToCase(Acme, s)>>
    OBVIOUS
  <2>2. /\ DOMAIN list = {1, 2, 3, 4, 5} /\ list[1] = Statement(Acme) /\ list[2] = ReconciliationCase(2, Acme, TRUE)
        /\ list[3] = ApproveContact(2, "approved") /\ list[4] = SweepDeadlines(2, Acme) /\ list[5] = ReplyToCase(Acme, s)
    BY <2>1
  <2>3. /\ \A q : CaseJob(q, Statement(Acme))
        /\ CaseJob(2, ReconciliationCase(2, Acme, TRUE))
        /\ \A q : CaseJob(q, ApproveContact(2, "approved"))
        /\ \A q : CaseJob(q, SweepDeadlines(2, Acme))
        /\ \A q : CaseJob(q, ReplyToCase(Acme, s))
    BY <1>0, <1>1
  <2>4. ~IsCaseJob(Statement(Acme)) /\ ~IsCaseJob(ApproveContact(2, "approved")) 
        /\ ~IsCaseJob(SweepDeadlines(2, Acme)) /\ ~IsCaseJob(ReplyToCase(Acme, s))
    BY <1>0, <1>1
  <2>5. \A j \in DOMAIN list : (\A q \in Runs : q = j => CaseJob(q, list[j])) /\ (j # 2 => ~IsCaseJob(list[j]))
    BY <2>2, <2>3, <2>4
  <2>6. SweptReply(s) = Program(1, list)
    BY <2>1 DEF SweptReply
  <2> QED BY <1>2, <2>5, <2>6
<1> QED BY <1>3, <1>4, <1>5, <1>6

(* No other program has a case.                                             *)
LEMMA CaselessLists ==
  ASSUME NEW m
  PROVE  /\ NoCase(Program(m, <<>>).runs)
         /\ \A a : ~IsCaseJob(a) => NoCase(Program(m, <<a>>).runs)
         /\ \A a, b : ~IsCaseJob(a) /\ ~IsCaseJob(b) => NoCase(Program(m, <<a, b>>).runs)
         /\ \A a, b, c : ~IsCaseJob(a) /\ ~IsCaseJob(b) /\ ~IsCaseJob(c) => NoCase(Program(m, <<a, b, c>>).runs)
         /\ \A a, b, c, d : ~IsCaseJob(a) /\ ~IsCaseJob(b) /\ ~IsCaseJob(c) /\ ~IsCaseJob(d) => NoCase(Program(m, <<a, b, c, d>>).runs)
<1>1. ASSUME NEW S, \A j \in DOMAIN S : ~IsCaseJob(S[j])
      PROVE  NoCase(Program(m, S).runs)
  <2>1. ~IsCaseJob(NotDeployed)
    BY CaseJobIds DEF IsCaseJob
  <2> QED BY <1>1, <2>1 DEF Program, NoCase
<1>2. \A j \in DOMAIN <<>> : ~IsCaseJob(<<>>[j])
  OBVIOUS
<1>3. \A a : ~IsCaseJob(a) => \A j \in DOMAIN <<a>> : ~IsCaseJob(<<a>>[j])
  OBVIOUS
<1>4. \A a, b : ~IsCaseJob(a) /\ ~IsCaseJob(b) => \A j \in DOMAIN <<a, b>> : ~IsCaseJob(<<a, b>>[j])
  OBVIOUS
<1>5. \A a, b, c : ~IsCaseJob(a) /\ ~IsCaseJob(b) /\ ~IsCaseJob(c) => \A j \in DOMAIN <<a, b, c>> : ~IsCaseJob(<<a, b, c>>[j])
  OBVIOUS
<1>6. \A a, b, c, d : ~IsCaseJob(a) /\ ~IsCaseJob(b) /\ ~IsCaseJob(c) /\ ~IsCaseJob(d) =>
        \A j \in DOMAIN <<a, b, c, d>> : ~IsCaseJob(<<a, b, c, d>>[j])
  OBVIOUS
<1> QED BY <1>1, <1>2, <1>3, <1>4, <1>5, <1>6

LEMMA CaselessJobs ==
  /\ \A o, v : ~IsCaseJob(PlaceOrder(o, v)) /\ ~IsCaseJob(FulfillOrder(o)) /\ \A tx : ~IsCaseJob(EvaluateFraud(tx))
  /\ \A p, q, e : ~IsCaseJob(Upload(p)) /\ ~IsCaseJob(ProcessUpload(p, q, e)) /\ ~IsCaseJob(IngestCorpus(p)) /\ ~IsCaseJob(Edit(p))
  /\ \A s, t, n : ~IsCaseJob(User(s)) /\ ~IsCaseJob(UserOf(t, s)) /\ ~IsCaseJob(ProcessTodo(t, n))
  /\ \A o, p : /\ ~IsCaseJob(PlaceOrders(o, p)) /\ ~IsCaseJob(PostTwice(o, p)) /\ ~IsCaseJob(GoProcessOrder(o, p))
               /\ ~IsCaseJob(QuickOrder(o)) /\ ~IsCaseJob(process_order(o)) /\ ~IsCaseJob(HourlyOrderReport)
  /\ ~IsCaseJob(Setup) /\ ~IsCaseJob(ProcessOrderCreated) /\ ~IsCaseJob(ProcessOrderShipped)
  /\ \A d : ~IsCaseJob(researchAgent(d)) /\ ~IsCaseJob(docProcessor(d)) /\ ~IsCaseJob(trigger(d)) /\ ~IsCaseJob(verify(d))
  /\ \A r, c, d : ~IsCaseJob(OpenPr(c)) /\ ~IsCaseJob(CodeReviewAgent(r, c)) /\ ~IsCaseJob(ApproveReview(r, d)) /\ ~IsCaseJob(ApprovalsAgent(r, d))
<1>1. /\ \A id, t, s : id # "reconciliation-case" => ~IsCaseJob(Function(id, t, s))
      /\ \A id, t, s, e : id # "reconciliation-case" => ~IsCaseJob(Script(id, t, s, e))
  BY DEF IsCaseJob, Function, Script
<1>2. /\ \A o, v : ~IsCaseJob(PlaceOrder(o, v)) /\ ~IsCaseJob(FulfillOrder(o)) /\ \A tx : ~IsCaseJob(EvaluateFraud(tx))
      /\ \A p, q, e : ~IsCaseJob(Upload(p)) /\ ~IsCaseJob(ProcessUpload(p, q, e)) /\ ~IsCaseJob(IngestCorpus(p)) /\ ~IsCaseJob(Edit(p))
  BY <1>1 DEF PlaceOrder, FulfillOrder, EvaluateFraud, Upload, ProcessUpload, IngestCorpus, Edit
<1>3. /\ \A s, t, n : ~IsCaseJob(User(s)) /\ ~IsCaseJob(UserOf(t, s)) /\ ~IsCaseJob(ProcessTodo(t, n))
      /\ \A o, p : /\ ~IsCaseJob(PlaceOrders(o, p)) /\ ~IsCaseJob(PostTwice(o, p)) /\ ~IsCaseJob(GoProcessOrder(o, p))
                   /\ ~IsCaseJob(QuickOrder(o)) /\ ~IsCaseJob(process_order(o)) /\ ~IsCaseJob(HourlyOrderReport)
  BY <1>1 DEF User, UserOf, ProcessTodo, PlaceOrders, PostTwice, GoProcessOrder, QuickOrder, process_order, HourlyOrderReport
<1>4. ~IsCaseJob(Setup) /\ ~IsCaseJob(ProcessOrderCreated) /\ ~IsCaseJob(ProcessOrderShipped)
  BY <1>1 DEF Setup, ProcessOrderCreated, ProcessOrderShipped
<1>5. /\ \A d : ~IsCaseJob(researchAgent(d)) /\ ~IsCaseJob(docProcessor(d)) /\ ~IsCaseJob(trigger(d)) /\ ~IsCaseJob(verify(d))
      /\ \A r, c, d : ~IsCaseJob(OpenPr(c)) /\ ~IsCaseJob(CodeReviewAgent(r, c)) /\ ~IsCaseJob(ApproveReview(r, d)) /\ ~IsCaseJob(ApprovalsAgent(r, d))
  BY <1>1 DEF researchAgent, docProcessor, trigger, verify, OpenPr, CodeReviewAgent, ApproveReview, ApprovalsAgent
<1> QED BY <1>2, <1>3, <1>4, <1>5

LEMMA CaseKinds == ASSUME NEW p \in Programs PROVE CaseProgram(p.runs) \/ NoCase(p.runs)
<1>1. NoCase(DuplicateOrder(TRUE).runs) /\ NoCase(DuplicateOrder(FALSE).runs) /\ NoCase(TwoOrders.runs)
  BY CaselessLists, CaselessJobs DEF DuplicateOrder, TwoOrders
<1>2. NoCase(RacingCards.runs) /\ NoCase(DuplicateTransaction.runs) /\ NoCase(Uploads.runs) /\ NoCase(Ingests.runs)
  BY CaselessLists, CaselessJobs DEF RacingCards, DuplicateTransaction, Uploads, Ingests
<1>3. NoCase(Todos.runs) /\ NoCase(QuickOrdering.runs) /\ NoCase(GoOrdering.runs) /\ NoCase(FlaskOrdering.runs)
  BY CaselessLists, CaselessJobs DEF Todos, QuickOrdering, GoOrdering, FlaskOrdering
<1>4. NoCase(Compliance.runs) /\ NoCase(Research.runs) /\ NoCase(Documents.runs) /\ NoCase(Review.runs)
  BY CaselessLists, CaselessJobs DEF Compliance, Research, Documents, Review
<1>5. NoCase(Draft(TRUE).runs) /\ NoCase(Draft(FALSE).runs)
  BY CaselessLists, CaselessJobs DEF Draft
<1>6. NoCase(Alerting.runs)
  <2>1. Alerting.runs = Program(2, <<>>).runs
    BY DEF Alerting, Watched, Program
  <2> QED BY <2>1, CaselessLists
<1> QED BY <1>1, <1>2, <1>3, <1>4, <1>5, <1>6, CasePrograms DEF Programs

(* The case of a run, and where its answers leave it: the step that closes  *)
(* it, and what that step tells.                                            *)
Handles(r, c) == \E a \in BOOLEAN : job[r] = ReconciliationCase(r, c, a)
Closing(rec) ==
  IF 5 <= Len(rec.memo) /\ rec.memo[5] = 2 THEN 6
  ELSE IF 9 <= Len(rec.memo) /\ rec.memo[9] = 1 THEN 10
  ELSE IF 9 <= Len(rec.memo) /\ rec.memo[9] = 3 THEN 11
  ELSE IF 9 <= Len(rec.memo) /\ rec.memo[9] = 2 THEN 12 ELSE 13
Verdict(rec) == IF Closing(rec) = 12 THEN "case.resolved" ELSE "case.unresolved"

(* What a person and a counterparty answered is shipped with the wait.      *)
Heard(rec) ==
  /\ 5 <= Len(rec.memo) => rec.memo[5] \in {1, 2} /\ 5 <= rec.kept
  /\ 9 <= Len(rec.memo) => \/ rec.memo[5] = 1 /\ rec.memo[9] \in {1, 2, 3} /\ 9 <= rec.kept
                           \/ rec.memo[5] = 2 /\ rec.memo[9] = 0
  /\ rec.mode = "parked" /\ rec.pc = 9 => rec.memo[5] = 1

Has(c, name) == Facts(c, name) # {}
Grounds(rec, c) ==
  /\ 9 <= Len(rec.memo) /\ rec.memo[9] = 2 => Has(c, "confirmed")
  /\ 7 <= Len(rec.memo) /\ rec.memo[5] = 1 => Has(c, "contact")
  /\ 8 <= Len(rec.memo) /\ rec.memo[5] = 1 => Has(c, "case.contact.sent")
  /\ Closing(rec) <= Len(rec.memo) => Has(c, Verdict(rec))

(* A case that has a verdict has the one its answers chose, and once unless *)
(* the step that tells it was executed again.                               *)
Spared(r) == \A i \in 6 .. 12 : <<r, "forward", i>> \notin hit
Closed(r, rec, c) ==
  \A name \in Verdicts : Has(c, name) =>
    /\ Closing(rec) # 13 /\ name = Verdict(rec)
    /\ Spared(r) => Closing(rec) <= Len(rec.memo) /\ OnlyOne(c, name)
ChainNames == {"case.requested", "case.opened", "contact", "case.contact.sent", "confirmed"}
Authorized(i, r, c) == Before(i, Gate(r), "approved") /\ \A name \in ChainNames : Before(i, c, name)
Chained(r, c) == \A i \in Facts(c, "case.resolved") : Authorized(i, r, c)
CaseOK(r, c) == Heard(run[r]) /\ Grounds(run[r], c) /\ Closed(r, run[r], c) /\ Chained(r, c)

(* Answers that stay, and one that is added.                                *)
LEMMA HeardStays ==
  ASSUME NEW old, NEW new, Heard(old), NEW n \in Nat, NEW m \in Nat, n = Len(old.memo), m = Len(new.memo), m <= n,
         NEW k \in Nat, NEW l \in Nat, k = old.kept, l = new.kept, k <= l, l <= m,
         \A i \in 1 .. m : new.memo[i] = old.memo[i],
         new.mode = "parked" /\ new.pc = 9 => 5 <= m /\ old.memo[5] = 1
  PROVE  Heard(new) /\ Closing(new) = Closing(old)
<1>1. 5 <= m => 5 \in 1 .. m /\ 5 <= n
  OBVIOUS
<1>2. 9 <= m => 9 \in 1 .. m /\ 9 <= n /\ 5 <= m
  OBVIOUS
<1>3. /\ 5 <= m => new.memo[5] = old.memo[5] /\ 5 <= n
      /\ 9 <= m => new.memo[9] = old.memo[9] /\ 9 <= n /\ 5 <= m
  BY <1>1, <1>2
<1>4. /\ 5 <= n => old.memo[5] \in {1, 2} /\ 5 <= k
      /\ 9 <= n => \/ old.memo[5] = 1 /\ old.memo[9] \in {1, 2, 3} /\ 9 <= k
                   \/ old.memo[5] = 2 /\ old.memo[9] = 0
  BY DEF Heard
<1>5. /\ 5 <= n => 5 <= m /\ 5 <= l
      /\ 9 <= n => 5 <= n
      /\ 9 <= n /\ old.memo[9] # 0 => 9 <= m /\ 9 <= l
  BY <1>4
<1>6. Heard(new)
  BY <1>3, <1>4, <1>5 DEF Heard
<1>7. /\ 5 <= m <=> 5 <= n
      /\ 9 <= m => 9 <= n
      /\ 9 <= n /\ old.memo[5] # 2 => 9 <= m
  BY <1>3, <1>4, <1>5
<1>8. Closing(new) = Closing(old)
  BY <1>3, <1>7 DEF Closing
<1> QED BY <1>6, <1>8

OneMore(old, new, n, v) ==
  /\ n = Len(old.memo) /\ n + 1 = Len(new.memo) /\ new.memo[n + 1] = v /\ \A i \in 1 .. n : new.memo[i] = old.memo[i]
  /\ old.kept \in Nat /\ new.kept \in Nat /\ old.kept <= new.kept /\ new.mode # "parked"
  /\ n + 1 = 5 => v \in {1, 2} /\ 5 <= new.kept
  /\ n + 1 = 9 => (old.memo[5] = 1 /\ v \in {1, 2, 3} /\ 9 <= new.kept) \/ (old.memo[5] = 2 /\ v = 0)

LEMMA HeardMore ==
  ASSUME NEW old, NEW new, NEW n \in Nat, NEW v, Heard(old), OneMore(old, new, n, v)
  PROVE  /\ Heard(new)
         /\ Closing(old) # 13 => Closing(new) = Closing(old)
         /\ Closing(new) # Closing(old) => n + 1 < Closing(new)
         /\ 5 <= n => new.memo[5] = old.memo[5]
         /\ 9 <= n => new.memo[9] = old.memo[9]
<1>0. PICK m \in Nat, k \in Nat, l \in Nat :
        /\ m = n + 1 /\ k = old.kept /\ l = new.kept /\ k <= l /\ n = Len(old.memo) /\ m = Len(new.memo)
        /\ new.memo[m] = v /\ new.mode # "parked"
        /\ m = 5 => v \in {1, 2} /\ 5 <= l
        /\ m = 9 => (old.memo[5] = 1 /\ v \in {1, 2, 3} /\ 9 <= l) \/ (old.memo[5] = 2 /\ v = 0)
        /\ \A i \in 1 .. n : new.memo[i] = old.memo[i]
  BY DEF OneMore
<1>1. /\ 5 <= m => 5 <= n \/ m = 5
      /\ 9 <= m => 9 <= n \/ m = 9
      /\ 5 <= n => 5 \in 1 .. n /\ m # 5 /\ 5 <= m
      /\ 9 <= n => 9 \in 1 .. n /\ m # 9 /\ 9 <= m
      /\ 9 <= m => 5 <= n
  BY <1>0
<1>2. /\ 5 <= n => new.memo[5] = old.memo[5]
      /\ 9 <= n => new.memo[9] = old.memo[9]
  BY <1>0, <1>1
<1>3. /\ 5 <= n => old.memo[5] \in {1, 2} /\ 5 <= k
      /\ 9 <= n => \/ old.memo[5] = 1 /\ old.memo[9] \in {1, 2, 3} /\ 9 <= k
                   \/ old.memo[5] = 2 /\ old.memo[9] = 0
  BY <1>0 DEF Heard
<1>4. /\ 5 <= m => new.memo[5] \in {1, 2} /\ 5 <= l
      /\ 9 <= m => \/ new.memo[5] = 1 /\ new.memo[9] \in {1, 2, 3} /\ 9 <= l
                   \/ new.memo[5] = 2 /\ new.memo[9] = 0
  BY <1>0, <1>1, <1>2, <1>3
<1>5. Heard(new)
  BY <1>0, <1>4 DEF Heard
<1>6. Closing(old) # 13 => Closing(new) = Closing(old)
  BY <1>0, <1>1, <1>2, <1>3, <1>4 DEF Closing
<1>7. Closing(new) # Closing(old) => m < Closing(new)
  BY <1>0, <1>1, <1>2, <1>3, <1>4 DEF Closing
<1> QED BY <1>0, <1>2, <1>5, <1>6, <1>7

LEMMA CaseHandled ==
  ASSUME NEW r, NEW c, Handles(r, c)
  PROVE  /\ job[r].id = "reconciliation-case" /\ job[r].errors = "retry" /\ job[r].trigger = <<"fact", c, "case.requested">>
         /\ DOMAIN Steps(r) = 1 .. 12 /\ Len(Steps(r)) = 12
         /\ \A i \in 1 .. 12 : Steps(r)[i].name = CaseNames[i] /\ Steps(r)[i].undo = <<>>
         /\ \A i \in {1, 2, 3, 4, 5} : Steps(r)[i].needs = <<>>
         /\ \A i \in {7, 8, 9} : Steps(r)[i].needs = <<"approve", {1}>>
         /\ Steps(r)[6].needs = <<"approve", {2}>> /\ Steps(r)[10].needs = <<"reply", {1}>>
         /\ Steps(r)[11].needs = <<"reply", {3}>> /\ Steps(r)[12].needs = <<"reply", {2}>>
<1>1. PICK a : CaseSteps(r, r, c, a)
  BY CaseIs DEF Handles
<1>2. /\ job[r].id = "reconciliation-case" /\ job[r].errors = "retry" /\ job[r].trigger = <<"fact", c, "case.requested">>
      /\ DOMAIN Steps(r) = 1 .. 12 /\ Len(Steps(r)) = 12
  BY <1>1 DEF CaseSteps
<1>3. /\ \A i \in 1 .. 12 : Steps(r)[i].name = CaseNames[i] /\ Steps(r)[i].undo = <<>>
      /\ \A i \in {1, 2, 3, 4, 5} : Steps(r)[i].needs = <<>>
      /\ \A i \in {7, 8, 9} : Steps(r)[i].needs = <<"approve", {1}>>
  BY <1>1 DEF CaseSteps
<1>4. /\ Steps(r)[6].needs = <<"approve", {2}>> /\ Steps(r)[10].needs = <<"reply", {1}>>
      /\ Steps(r)[11].needs = <<"reply", {3}>> /\ Steps(r)[12].needs = <<"reply", {2}>>
  BY <1>1 DEF CaseSteps
<1> QED BY <1>2, <1>3, <1>4

LEMMA CaseShape ==
  ASSUME EngineInv, ActorsOK, NEW r \in Runs, NEW c, Handles(r, c)
  PROVE  /\ r \in DOMAIN run /\ GoodFunction(job[r], {}) /\ IsFunction(job[r]) /\ IsPlaced(r) /\ Waits(r) /\ Begun(r) /\ Told(r)
         /\ LogIs /\ Len(log) \in Nat /\ job[r].errors = "retry" /\ Len(run[r].memo) \in Nat /\ run[r].kept \in Nat
         /\ run[r].kept <= Len(run[r].memo) /\ Len(run[r].memo) <= 12
         /\ AgentAt(r) /\ ActorSteps(r) /\ ActsAreRight(r) /\ IsCase(r) /\ ApproveAt(r) = 5 /\ Length(r) = 12 /\ Case(r) = c
         /\ run[r].mode \in {"forward", "parked"} => run[r].pc = Len(run[r].memo) + 1 /\ run[r].pc \in 1 .. 12
<1>1. /\ r \in DOMAIN run /\ GoodFunction(job[r], {}) /\ IsPlaced(r) /\ Waits(r) /\ Begun(r) /\ Told(r) /\ LogIs
  BY DEF EngineInv
<1>2. IsFunction(job[r]) /\ Len(log) \in Nat
  BY <1>1, GoodIsFunction, LenProperties DEF LogIs
<1>4. /\ job[r].id = "reconciliation-case" /\ job[r].errors = "retry" /\ job[r].trigger = <<"fact", c, "case.requested">>
      /\ Len(Steps(r)) = 12
  BY CaseHandled
<1>5. IsCase(r) /\ ApproveAt(r) = 5 /\ Length(r) = 12 /\ Case(r) = c
  BY <1>4 DEF IsCase, ApproveAt, Length, Case
<1>6. IsApprover(r, job[r])
  BY <1>4 DEF ActorsOK, Acting
<1>7. AgentAt(r) /\ ActsAreRight(r) /\ ActorSteps(r)
  BY <1>6, ActorsHaveSteps DEF ActorsOK
<1>8. PICK S : run[r] \in RunState(S)
  BY <1>1 DEF IsPlaced
<1>9. run[r].memo \in Seq(S) /\ run[r].kept \in Nat /\ run[r].pc \in Nat
  BY <1>8 DEF RunState
<1>10. PICK n, len : n = Len(run[r].memo) /\ n \in Nat /\ len = Len(Steps(r)) /\ len = 12
  BY <1>4, <1>9, LenProperties
<1>11. Placed(run[r].mode, run[r].pc, n, run[r].kept, len)
  BY <1>1, <1>10 DEF IsPlaced
<1>12. /\ run[r].kept <= n /\ n <= 12
       /\ run[r].mode \in {"forward", "parked"} => run[r].pc = n + 1 /\ run[r].pc \in 1 .. 12
  <2>1. PICK k, pc, mode : k = run[r].kept /\ pc = run[r].pc /\ mode = run[r].mode
    OBVIOUS
  <2>2. n \in Nat /\ len = 12 /\ k \in Nat /\ pc \in Nat /\ Placed(mode, pc, n, k, len)
    BY <1>9, <1>10, <1>11, <2>1
  <2>3. k <= n /\ n <= 12 /\ (mode \in {"forward", "parked"} => pc = n + 1 /\ pc \in 1 .. 12)
    BY <2>2 DEF Placed
  <2> QED BY <2>1, <2>3
<1> QED BY <1>1, <1>2, <1>4, <1>5, <1>7, <1>9, <1>10, <1>12

(* Which of its steps are passed over.                                      *)
LEMMA CaseNeeds ==
  ASSUME EngineInv, ActorsOK, NEW r \in Runs, NEW c, Handles(r, c), NEW pc \in 1 .. 12, pc = run[r].pc
  PROVE  /\ pc \in {1, 2, 3, 4, 5} => Needed(r)
         /\ pc \in {7, 8, 9} => (Needed(r) <=> run[r].memo[5] = 1)
         /\ pc = 6 => (Needed(r) <=> run[r].memo[5] = 2)
         /\ pc = 10 => (Needed(r) <=> run[r].memo[9] = 1)
         /\ pc = 11 => (Needed(r) <=> run[r].memo[9] = 3)
         /\ pc = 12 => (Needed(r) <=> run[r].memo[9] = 2)
<1>2. /\ DOMAIN Steps(r) = 1 .. 12
      /\ \A i \in 1 .. 12 : Steps(r)[i].name = CaseNames[i]
      /\ \A i \in {1, 2, 3, 4, 5} : Steps(r)[i].needs = <<>>
      /\ \A i \in {7, 8, 9} : Steps(r)[i].needs = <<"approve", {1}>>
      /\ Steps(r)[6].needs = <<"approve", {2}>> /\ Steps(r)[10].needs = <<"reply", {1}>>
      /\ Steps(r)[11].needs = <<"reply", {3}>> /\ Steps(r)[12].needs = <<"reply", {2}>>
  BY CaseHandled
<1>3. Current(r) = Steps(r)[pc]
  BY DEF Current
<1>4. Position(r, "approve") = 5
  BY CaseShape DEF ActorSteps
<1>5. Position(r, "reply") = 9
  <2>1. \A i \in 1 .. 12 : CaseNames[i] = "reply" <=> i = 9
    BY DEF CaseNames
  <2>2. \A i \in DOMAIN Steps(r) : Steps(r)[i].name = "reply" <=> i = 9
    BY <1>2, <2>1
  <2> QED BY <1>2, <2>2 DEF Position
<1>6. Memo(r, "approve") = run[r].memo[5] /\ Memo(r, "reply") = run[r].memo[9]
  BY <1>4, <1>5 DEF Memo
<1>7. \A x, y : <<x, y>> # <<>> /\ <<x, y>>[1] = x /\ <<x, y>>[2] = y
  OBVIOUS
<1>8. /\ Current(r).needs = <<>> => Needed(r)
      /\ \A s, v : Current(r).needs = <<s, v>> => (Needed(r) <=> Memo(r, s) \in v)
  BY <1>7 DEF Needed
<1>9. pc \in {1, 2, 3, 4, 5} => Needed(r)
  BY <1>2, <1>3, <1>8
<1>10. pc \in {7, 8, 9} => (Needed(r) <=> run[r].memo[5] = 1)
  <2>1. ASSUME pc \in {7, 8, 9} PROVE Needed(r) <=> Memo(r, "approve") \in {1}
    BY <1>2, <1>3, <1>8, <2>1
  <2> QED BY <1>6, <2>1
<1>11. pc = 6 => (Needed(r) <=> run[r].memo[5] = 2)
  <2>1. ASSUME pc = 6 PROVE Needed(r) <=> Memo(r, "approve") \in {2}
    BY <1>2, <1>3, <1>8, <2>1
  <2> QED BY <1>6, <2>1
<1>12. ASSUME NEW v, pc \in 1 .. 12, Steps(r)[pc].needs = <<"reply", {v}>>
       PROVE  Needed(r) <=> run[r].memo[9] = v
  <2>1. Needed(r) <=> Memo(r, "reply") \in {v}
    BY <1>3, <1>8, <1>12
  <2> QED BY <1>6, <2>1
<1>13. (pc = 10 => (Needed(r) <=> run[r].memo[9] = 1)) /\ (pc = 11 => (Needed(r) <=> run[r].memo[9] = 3))
  BY <1>2, <1>12
<1>14. pc = 12 => (Needed(r) <=> run[r].memo[9] = 2)
  BY <1>2, <1>12
<1> QED BY <1>9, <1>10, <1>11, <1>13, <1>14

(* What a step of it calls.                                                 *)
LEMMA CaseCalls ==
  ASSUME EngineInv, ActorsOK, NEW r \in Runs, NEW c, Handles(r, c), NEW op, Doing(r, op)
  PROVE  /\ Forward(r) /\ Needed(r) /\ run[r].at = 1 /\ run[r].got = 0 /\ Len(Effects(r)) = 1
         /\ run[r].pc = Len(run[r].memo) + 1 /\ run[r].pc \in 1 .. 12 /\ Effect(r).op = op
         /\ \/ run[r].pc = 1 /\ Effect(r) = Emit("case.opened", c)
            \/ run[r].pc = 2 /\ Effect(r) = Emit("case.escalated", c)
            \/ run[r].pc = 3 /\ op = "refuse"
            \/ run[r].pc = 4 /\ Effect(r) = Emit("case.action.proposed", c)
            \/ run[r].pc = 5 /\ Effect(r) = Wait(Gate(r), Decisions) /\ op = "wait"
            \/ run[r].pc \in {6, 10, 11} /\ Effect(r) = Emit("case.unresolved", c)
            \/ run[r].pc = 7 /\ Effect(r) = EmitOnce("contact", c, contactKey(r, c))
            \/ run[r].pc = 8 /\ Effect(r) = Emit("case.contact.sent", c)
            \/ run[r].pc = 9 /\ Effect(r) = Wait(c, Signals) /\ op = "wait"
            \/ run[r].pc = 12 /\ Effect(r) = Emit("case.resolved", c)
<1>1. AgentAt(r) /\ ActorSteps(r) /\ Length(r) = 12
  BY CaseShape
<1>2. /\ Forward(r) /\ Needed(r) /\ run[r].pc = Len(run[r].memo) + 1 /\ run[r].pc \in 1 .. Length(r)
      /\ run[r].got = 0
      /\ Steps(r)[run[r].pc].does = <<Effect(r)>> /\ Effects(r) = <<Effect(r)>> /\ Effect(r).op = op
  BY <1>1, ActorDoes
<1>3. run[r].at = 1 /\ Len(Effects(r)) = 1
  BY <1>1, <1>2 DEF AgentAt
<1>4. PICK a : CaseSteps(r, r, c, a)
  BY CaseIs DEF Handles
<1>5. \A x, y : <<x>> = <<y>> => x = y
  OBVIOUS
<1>6. PICK pc \in 1 .. 12 : pc = run[r].pc /\ Calls(r, pc) = <<Effect(r)>>
  BY <1>1, <1>2 DEF Calls
<1>7. /\ \A s : Refuse(s).op = "refuse"
      /\ \A s, n : Wait(s, n).op = "wait"
  BY DEF Refuse, Wait
<1>8. /\ pc = 1 => Effect(r) = Emit("case.opened", c)
      /\ pc = 2 => Effect(r) = Emit("case.escalated", c)
      /\ pc = 3 => op = "refuse"
      /\ pc = 4 => Effect(r) = Emit("case.action.proposed", c)
      /\ pc = 5 => Effect(r) = Wait(Gate(r), Decisions) /\ op = "wait"
  BY <1>2, <1>4, <1>5, <1>6, <1>7 DEF CaseSteps
<1>9. /\ pc \in {6, 10, 11} => Effect(r) = Emit("case.unresolved", c)
      /\ pc = 7 => Effect(r) = EmitOnce("contact", c, contactKey(r, c))
      /\ pc = 8 => Effect(r) = Emit("case.contact.sent", c)
      /\ pc = 9 => Effect(r) = Wait(c, Signals) /\ op = "wait"
      /\ pc = 12 => Effect(r) = Emit("case.resolved", c)
  BY <1>2, <1>4, <1>5, <1>6, <1>7 DEF CaseSteps
<1>10. pc \in {1, 2, 3, 4, 5, 6, 7, 8, 9, 10, 11, 12}
  OBVIOUS
<1> QED BY <1>1, <1>2, <1>3, <1>6, <1>8, <1>9, <1>10

(* A verdict is told by the step the answers chose.                         *)
LEMMA VerdictCalls ==
  ASSUME EngineInv, ActorsOK, NEW r \in Runs, NEW c, Handles(r, c), Heard(run[r]), NEW op \in Telling, Doing(r, op),
         Effect(r).name \in Verdicts
  PROVE  /\ Closing(run[r]) = run[r].pc /\ run[r].pc \in 6 .. 12 /\ Effect(r) = Emit(Verdict(run[r]), c)
         /\ Effect(r).name = Verdict(run[r])
<1>1. \A n : Emit(n, c).name = n
  BY DEF Emit, Record
<1>2. EmitOnce("contact", c, contactKey(r, c)).name = "contact"
  BY DEF EmitOnce, Emit, Record
<1>3. op # "refuse" /\ op # "wait"
  BY DEF Telling
<1>4. \/ run[r].pc \in {6, 10, 11} /\ Effect(r) = Emit("case.unresolved", c)
      \/ run[r].pc = 12 /\ Effect(r) = Emit("case.resolved", c)
  BY <1>1, <1>2, <1>3, CaseCalls DEF Verdicts
<1>5. Needed(r) /\ run[r].pc = Len(run[r].memo) + 1 /\ run[r].pc \in 1 .. 12 /\ Len(run[r].memo) \in Nat
  BY CaseCalls, CaseShape
<1>6. PICK n \in Nat, pc \in 1 .. 12 : n = Len(run[r].memo) /\ pc = run[r].pc /\ pc = n + 1
  BY <1>5
<1>7. /\ pc = 6 => run[r].memo[5] = 2
      /\ pc = 10 => run[r].memo[9] = 1
      /\ pc = 11 => run[r].memo[9] = 3
      /\ pc = 12 => run[r].memo[9] = 2
  BY <1>5, <1>6, CaseNeeds
<1>8. /\ pc = 6 => 5 <= n
      /\ pc \in {10, 11, 12} => 9 <= n /\ 5 <= n
      /\ 9 <= n /\ run[r].memo[9] # 0 => run[r].memo[5] = 1
  BY <1>6 DEF Heard
<1>9. Closing(run[r]) = pc
  <2>1. pc = 6 => 5 <= Len(run[r].memo) /\ run[r].memo[5] = 2
    BY <1>6, <1>7, <1>8
  <2>2. pc \in {10, 11, 12} => 9 <= Len(run[r].memo) /\ run[r].memo[5] = 1
    BY <1>6, <1>7, <1>8
  <2> QED BY <1>4, <1>6, <1>7, <2>1, <2>2 DEF Closing
<1>10. Effect(r) = Emit(Verdict(run[r]), c)
  BY <1>4, <1>6, <1>9 DEF Verdict
<1> QED BY <1>1, <1>4, <1>6, <1>9, <1>10

(* What the log says stays said, and is said before the next fact.          *)
LEMMA SaidBefore ==
  ASSUME LogIs, NEW e, log' = log \/ log' = Append(log, e), NEW s, NEW name, NEW n, n = Len(log) + 1
  PROVE  /\ Has(s, name) => Has(s, name)'
         /\ \A i \in DOMAIN log : Before(i, s, name) => Before(i, s, name)'
         /\ Has(s, name) => Before(n, s, name)'
         /\ log' = Append(log, e) /\ e.on = s /\ e.name = name => Has(s, name)'
<1>1. Has(s, name) => Has(s, name)'
  BY FactsOfStreams DEF Has
<1>2. /\ \A k \in DOMAIN log : k \in DOMAIN log' /\ log'[k] = log[k]
      /\ \A k \in DOMAIN log : k \in Nat /\ k < Len(log) + 1
  BY FactsStay
<1>3. n \in Nat \ {0} /\ DOMAIN log = 1 .. n - 1
  <2>1. PICK m \in Nat : m = Len(log) /\ DOMAIN log = 1 .. m
    BY LogShape
  <2> QED BY <2>1
<1>4. ASSUME NEW i \in DOMAIN log, Before(i, s, name) PROVE Before(i, s, name)'
  <2>1. PICK j \in 1 .. (i - 1) : log[j].on = s /\ log[j].name = name
    BY <1>4 DEF Before
  <2>2. j \in DOMAIN log
    BY <1>3, <2>1
  <2> QED BY <1>2, <2>1, <2>2 DEF Before
<1>5. ASSUME Has(s, name) PROVE Before(n, s, name)'
  <2>1. PICK j \in DOMAIN log : log[j].on = s /\ log[j].name = name
    BY <1>5 DEF Has, Facts, Stream
  <2>2. j \in 1 .. (n - 1)
    BY <1>3
  <2>3. log'[j].on = s /\ log'[j].name = name
    BY <1>2, <2>1
  <2> QED BY <2>2, <2>3 DEF Before
<1>6. ASSUME log' = Append(log, e), e.on = s, e.name = name PROVE Has(s, name)'
  <2>1. n \in DOMAIN log' /\ log'[n] = e
    BY <1>3, <1>6, LogAppends
  <2> QED BY <1>6, <2>1 DEF Has, Facts, Stream
<1> QED BY <1>1, <1>4, <1>5, <1>6

(* A run that goes on without its case's verdict.                           *)
LEMMA CaseLeft ==
  ASSUME LogIs, NEW e, log' = log \/ log' = Append(log, e), log' # log => e.name \notin Verdicts,
         NEW r, NEW c, CaseOK(r, c), hit \subseteq hit', run'[r] = run[r]
  PROVE  CaseOK(r, c)'
<1>1. PICK rec : rec = run[r] /\ rec = run'[r]
  OBVIOUS
<1>2. \A s, name : Has(s, name) => Has(s, name)'
  BY SaidBefore
<1>3. \A name \in Verdicts : Facts(c, name)' = Facts(c, name)
  <2>1. CASE log' = log
    BY <2>1 DEF Facts, Stream
  <2>2. CASE log' = Append(log, e)
    <3>1. log' # log
      BY <2>2, LogShape, LogAppends
    <3> QED BY <2>2, <3>1, FactsGrow
  <2> QED BY <2>1, <2>2
<1>4. Heard(rec) /\ Grounds(rec, c) /\ Closed(r, rec, c) /\ Chained(r, c)
  BY <1>1 DEF CaseOK
<1>5. Grounds(rec, c)'
  BY <1>2, <1>4 DEF Grounds
<1>6. Spared(r)' => Spared(r)
  BY DEF Spared
<1>7. Closed(r, rec, c)'
  <2>1. ASSUME NEW name \in Verdicts PROVE (Has(c, name)' <=> Has(c, name)) /\ (OnlyOne(c, name)' <=> OnlyOne(c, name))
    BY <1>3 DEF Has, OnlyOne
  <2> QED BY <1>4, <1>6, <2>1 DEF Closed
<1>8. Chained(r, c)'
  <2>1. ASSUME NEW i \in Facts(c, "case.resolved") PROVE Authorized(i, r, c)'
    <3>1. i \in DOMAIN log /\ Authorized(i, r, c)
      BY <1>4 DEF Chained, Facts, Stream
    <3> QED BY <3>1, SaidBefore DEF Authorized, Gate
  <2> QED BY <1>3, <2>1 DEF Chained, Verdicts
<1> QED BY <1>1, <1>4, <1>5, <1>7, <1>8 DEF CaseOK

(* What those functions tell under a key.                                   *)
RequestOf(c) == EmitOnce("case.requested", c, <<"reconciliation", c>>)
ContactOf(r, c) == EmitOnce("contact", c, contactKey(r, c))
Keyless(e) == e.op \in Telling => e.op = "append" /\ e.key = NoKey /\ e.name # "case.requested"
Tells(q, e) == Keyless(e) \/ (\E c : e = RequestOf(c)) \/ (\E c : Handles(q, c) /\ e = ContactOf(q, c))
StepTells(q, s) == s.undo = <<>> /\ (s.does = <<>> \/ \E e : s.does = <<e>> /\ Tells(q, e))

LEMMA KeylessCalls ==
  /\ \A n, of : n # "case.requested" => Keyless(Emit(n, of))
  /\ \A a, b : Keyless(View(a, b)) /\ Keyless(Wait(a, b)) /\ Keyless(Refuse(a))
  /\ \A c : /\ RequestOf(c).op = "append" /\ RequestOf(c).on = c /\ RequestOf(c).name = "case.requested"
            /\ RequestOf(c).key = <<<<"reconciliation", c>>>> /\ RequestOf(c).expect = AnyVersion
  /\ \A r, c : /\ ContactOf(r, c).op = "append" /\ ContactOf(r, c).on = c /\ ContactOf(r, c).name = "contact"
               /\ ContactOf(r, c).key = <<contactKey(r, c)>>
BY DEF Keyless, Emit, Record, EmitOnce, View, Wait, Refuse, RequestOf, ContactOf, Telling

LEMMA TellingSteps ==
  ASSUME NEW q
  PROVE  /\ \A n : StepTells(q, Step(n, <<>>))
         /\ \A n, e : Tells(q, e) => StepTells(q, Step(n, <<e>>))
         /\ \A n, e, s, v : Tells(q, e) => StepTells(q, OnlyIf(Step(n, <<e>>), s, v))
<1>1. /\ \A n, d : Step(n, d).does = d /\ Step(n, d).undo = <<>>
      /\ \A n, d, s, v : OnlyIf(Step(n, d), s, v).does = d /\ OnlyIf(Step(n, d), s, v).undo = <<>>
  BY DEF Step, OnlyIf
<1> QED BY <1>1 DEF StepTells

LEMMA CaseTells ==
  ASSUME NEW q, NEW f, f = job[q], CaseJob(q, f), NEW i \in DOMAIN Steps(q)
  PROVE  StepTells(q, Steps(q)[i])
<1>1. /\ \A n, of : n # "case.requested" => Tells(q, Emit(n, of))
      /\ \A a, b : Tells(q, View(a, b)) /\ Tells(q, Wait(a, b)) /\ Tells(q, Refuse(a))
      /\ \A c : Tells(q, RequestOf(c))
  BY KeylessCalls DEF Tells
<1>2. CASE f = NotDeployed
  <2>1. DOMAIN Steps(q) = {}
    BY <1>2 DEF Steps, NotDeployed, Function
  <2> QED BY <2>1
<1>3. ASSUME NEW c, f = ReconcileStatement(c, AcmeBefore) PROVE StepTells(q, Steps(q)[i])
  <2>1. PICK list : list = <<LoadRules(AcmeBefore), Reconcile, RequestCase(c)>>
    OBVIOUS
  <2>2. Steps(q) = list
    BY <1>3, <2>1 DEF ReconcileStatement, Function, Steps
  <2>3. DOMAIN list = {1, 2, 3} /\ list[1] = LoadRules(AcmeBefore) /\ list[2] = Reconcile /\ list[3] = RequestCase(c)
    BY <2>1
  <2>4. StepTells(q, LoadRules(AcmeBefore)) /\ StepTells(q, Reconcile)
    BY <1>1, TellingSteps DEF LoadRules, Reconcile
  <2>5. StepTells(q, RequestCase(c))
    <3>1. RequestCase(c) = OnlyIf(Step("request", <<RequestOf(c)>>), "load-learned-rules", {0})
      BY DEF RequestCase, RequestOf
    <3> QED BY <1>1, <3>1, TellingSteps
  <2> QED BY <2>2, <2>3, <2>4, <2>5
<1>4. ASSUME NEW k, NEW c, f = SweepDeadlines(k, c) PROVE StepTells(q, Steps(q)[i])
  <2>1. PICK a, b, d : /\ a = Sweep(c) /\ b = OnlyIf(Step("emit-rejection", <<Emit("rejected", Gate(k))>>), "sweep", {2})
                       /\ d = OnlyIf(Step("emit-timeout", <<Emit("timeout", c)>>), "sweep", {3})
    OBVIOUS
  <2>2. Steps(q) = <<a>> \o <<b, d>>
    BY <1>4, <2>1 DEF SweepDeadlines, deadlineEventFor, Function, Steps
  <2>3. PICK S : S = {a, b, d}
    OBVIOUS
  <2>4. PICK list : list = <<a>> \o <<b, d>> /\ Steps(q) = list
    BY <2>2
  <2>5. DOMAIN list = {1, 2, 3} /\ list[1] = a /\ list[2] = b /\ list[3] = d
    <3>1. PICK x, y : x = <<a>> /\ y = <<b, d>>
      OBVIOUS
    <3>2. x \in Seq(S) /\ y \in Seq(S) /\ Len(x) = 1 /\ Len(y) = 2 /\ x[1] = a /\ y[1] = b /\ y[2] = d
      BY <2>3, <3>1
    <3>3. /\ list \in Seq(S) /\ Len(list) = Len(x) + Len(y)
          /\ \A j \in 1 .. Len(x) + Len(y) : list[j] = IF j <= Len(x) THEN x[j] ELSE y[j - Len(x)]
      BY <2>4, <3>1, <3>2, ConcatProperties
    <3>4. Len(list) = 3 /\ \A j \in 1 .. 3 : list[j] = IF j <= 1 THEN x[j] ELSE y[j - 1]
      BY <3>2, <3>3
    <3>5. DOMAIN list = 1 .. 3
      BY <3>3, <3>4, LenProperties
    <3>6. list[1] = x[1] /\ list[2] = y[1] /\ list[3] = y[2]
      BY <3>4
    <3> QED BY <3>2, <3>5, <3>6
  <2>6. StepTells(q, a)
    BY <1>1, <2>1, TellingSteps DEF Sweep
  <2>7. StepTells(q, b) /\ StepTells(q, d)
    BY <1>1, <2>1, TellingSteps
  <2> QED BY <2>4, <2>5, <2>6, <2>7
<1>5. ASSUME NEW n, NEW of, n # "case.requested", Steps(q) = <<Step("emit", <<Emit(n, of)>>)>>
      PROVE  StepTells(q, Steps(q)[i])
  <2>1. PICK s : s = Step("emit", <<Emit(n, of)>>)
    OBVIOUS
  <2>2. DOMAIN <<s>> = {1} /\ <<s>>[1] = s
    OBVIOUS
  <2> QED BY <1>1, <1>5, <2>1, <2>2, TellingSteps
<1>6. ASSUME NEW k, NEW d \in Outcomes, f = ApproveContact(k, d) PROVE StepTells(q, Steps(q)[i])
  <2>1. Steps(q) = <<Step("emit", <<Emit(d, Gate(k))>>)>> /\ d # "case.requested"
    BY <1>6 DEF ApproveContact, Script, Function, Steps, Outcomes
  <2> QED BY <1>5, <2>1
<1>7. ASSUME NEW c, NEW s \in {"confirmed", "unclear"}, f = ReplyToCase(c, s) PROVE StepTells(q, Steps(q)[i])
  <2>1. Steps(q) = <<Step("emit", <<Emit(s, c)>>)>> /\ s # "case.requested"
    BY <1>7 DEF ReplyToCase, Script, Function, Steps
  <2> QED BY <1>5, <2>1
<1>8. ASSUME NEW c, NEW a \in BOOLEAN, f = ReconciliationCase(q, c, a) PROVE StepTells(q, Steps(q)[i])
  <2>1. CaseSteps(q, q, c, a) /\ Handles(q, c)
    BY <1>8, CaseIs DEF Handles
  <2>2. i \in 1 .. 12 /\ Steps(q)[i].undo = <<>> /\ Steps(q)[i].does = Calls(q, i)
    BY <2>1 DEF CaseSteps, Calls
  <2>3. Tells(q, ContactOf(q, c))
    BY <2>1 DEF Tells
  <2>4. \E e : Calls(q, i) = <<e>> /\ Tells(q, e)
    <3>1. i \in {1, 2, 3, 4, 5, 6, 7, 8, 9, 10, 11, 12}
      BY <2>2
    <3>2. /\ i = 1 => Calls(q, i) = <<Emit("case.opened", c)>>
          /\ i = 2 => Calls(q, i) = <<Emit("case.escalated", c)>>
          /\ i = 3 => Calls(q, i) = <<Refuse(IF a THEN {} ELSE Anything)>>
          /\ i = 4 => Calls(q, i) = <<Emit("case.action.proposed", c)>>
          /\ i = 5 => Calls(q, i) = <<Wait(Gate(q), Decisions)>>
          /\ i = 7 => Calls(q, i) = <<ContactOf(q, c)>>
          /\ i = 8 => Calls(q, i) = <<Emit("case.contact.sent", c)>>
          /\ i = 9 => Calls(q, i) = <<Wait(c, Signals)>>
          /\ i \in {6, 10, 11} => Calls(q, i) = <<Emit("case.unresolved", c)>>
          /\ i = 12 => Calls(q, i) = <<Emit("case.resolved", c)>>
      BY <2>1 DEF CaseSteps, ContactOf
    <3>3. \A n \in {"case.opened", "case.escalated", "case.action.proposed", "case.contact.sent", "case.unresolved",
                    "case.resolved"} : Tells(q, Emit(n, c))
      BY <1>1
    <3>4. i \in {1, 2, 3, 4, 5} => \E e : Calls(q, i) = <<e>> /\ Tells(q, e)
      BY <1>1, <3>2, <3>3
    <3>5. i \in {6, 7, 8, 9, 10, 11, 12} => \E e : Calls(q, i) = <<e>> /\ Tells(q, e)
      BY <1>1, <2>3, <3>2, <3>3
    <3> QED BY <3>1, <3>4, <3>5
  <2> QED BY <2>2, <2>4 DEF StepTells
<1> QED BY <1>2, <1>3, <1>4, <1>6, <1>7, <1>8 DEF CaseJob

(* What the log holds under a key.                                          *)
KeyedFact(k) ==
  \/ log[k].key = NoKey /\ log[k].name # "case.requested"
  \/ \E c : log[k].on = c /\ log[k].name = "case.requested" /\ log[k].key = <<<<"reconciliation", c>>, log[k].about>>
  \/ \E r, c : log[k].on = c /\ log[k].name = "contact" /\ log[k].key = <<contactKey(r, c), log[k].about>>

LEMMA KeyedFacts ==
  ASSUME EngineInv, CaseProgram(job), Drafts = {}, NEW k \in DOMAIN log
  PROVE  KeyedFact(k)
<1>1. PICK r \in Runs : r = log[k].by /\ FromRun(k, r)
  BY FactsHaveRuns
<1>2. PICK i \in DOMAIN Steps(r) : DoneBy(k, r, i) \/ UndoneBy(k, r, i)
  BY <1>1 DEF FromRun
<1>3. StepTells(r, Steps(r)[i])
  BY CaseTells DEF CaseProgram
<1>4. ~UndoneBy(k, r, i)
  <2>1. DOMAIN Steps(r)[i].undo = {}
    BY <1>3 DEF StepTells
  <2> QED BY <2>1 DEF UndoneBy
<1>5. PICK j \in DOMAIN Calls(r, i) : Calls(r, i)[j].op \in Telling /\ IsFactOf(k, r, Calls(r, i)[j])
  BY <1>2, <1>4 DEF DoneBy
<1>6. Calls(r, i) # <<>>
  <2>1. DOMAIN <<>> = {}
    OBVIOUS
  <2> QED BY <1>5, <2>1
<1>7. PICK e : Calls(r, i) = <<e>> /\ Tells(r, e)
  BY <1>3, <1>6 DEF StepTells, Calls
<1>8. DOMAIN <<e>> = {1} /\ <<e>>[1] = e
  OBVIOUS
<1>9. e.op \in Telling /\ IsFactOf(k, r, e)
  BY <1>5, <1>7, <1>8
<1>10. CASE Keyless(e)
  BY <1>9, <1>10 DEF Keyless, IsFactOf, KeyOf, KeyedFact
<1>11. ASSUME NEW c, NEW a, e.op = "append", e.key = <<a>> PROVE log[k].key = <<a, log[k].about>>
  <2>1. <<a>> # NoKey
    BY DEF NoKey
  <2>2. log[k].key = Append(<<a>>, log[k].about)
    BY <1>9, <1>11, <2>1 DEF IsFactOf, KeyOf
  <2> QED BY <2>2, PairedKey
<1>12. CASE \E c : e = RequestOf(c)
  BY <1>9, <1>11, <1>12, KeylessCalls DEF IsFactOf, KeyedFact
<1>13. CASE \E c : Handles(r, c) /\ e = ContactOf(r, c)
  BY <1>9, <1>11, <1>13, KeylessCalls DEF IsFactOf, KeyedFact
<1> QED BY <1>7, <1>10, <1>12, <1>13 DEF Tells

(* A case that was opened and asked for has it on record.                   *)
LEMMA CaseBegins ==
  ASSUME EngineInv, ActorsOK, NEW r \in Runs, NEW c, Handles(r, c)
  PROVE  /\ run[r].mode # "waiting" => Has(c, "case.requested")
         /\ 1 <= Len(run[r].memo) => Has(c, "case.opened")
<1>1. Begun(r) /\ Told(r) /\ job[r].errors = "retry"
  BY CaseShape
<1>2. job[r].trigger = <<"fact", c, "case.requested">>
  BY CaseHandled
<1>3. run[r].mode # "waiting" => Has(c, "case.requested")
  <2>1. \A x, y, z : <<x, y, z>>[1] = x /\ <<x, y, z>>[2] = y /\ <<x, y, z>>[3] = z
    OBVIOUS
  <2> QED BY <1>1, <1>2, <2>1 DEF Begun, Has
<1>4. ASSUME 1 <= Len(run[r].memo) PROVE Has(c, "case.opened")
  <2>1. PICK a : CaseSteps(r, r, c, a)
    BY CaseIs DEF Handles
  <2>2. PICK e : e = Emit("case.opened", c) /\ Calls(r, 1) = <<e>> /\ Steps(r)[1].needs = <<>> /\ 1 \in DOMAIN Steps(r)
    BY <2>1 DEF CaseSteps
  <2>3. DOMAIN <<e>> = {1} /\ <<e>>[1] = e /\ Len(<<e>>) = 1
    OBVIOUS
  <2>4. e.op = "append" /\ e.key = NoKey /\ e.on = c /\ e.name = "case.opened"
    BY <2>2 DEF Emit, Record
  <2>5. 1 \in DOMAIN Calls(r, 1) /\ Calls(r, 1)[1] = e /\ NoWait(Calls(r, 1))
    BY <2>2, <2>3, <2>4 DEF NoWait
  <2>6. PlainCall(r, 1, 1)
    BY <2>2, <2>4, <2>5 DEF PlainCall, Telling
  <2>7. Reached(r, run[r], 1, 1)
    BY <1>1, <1>4 DEF Reached
  <2>8. HasFact(r, e)
    BY <1>1, <2>2, <2>5, <2>6, <2>7 DEF Told
  <2> QED BY <2>4, <2>8 DEF HasFact, IsFactOf, Has, Facts, Stream
<1> QED BY <1>3, <1>4

(* A contact that is made, or was made before, is on record.                *)
LEMMA ContactIsSaid ==
  ASSUME EngineInv, CaseProgram(job), Drafts = {}, NEW r \in Runs, NEW c, Effect(r) = ContactOf(r, c), Call(r),
         run[r].got = 0
  PROVE  Has(c, "contact")'
<1>1. PICK e : e = Effect(r) /\ e.op = "append" /\ e.on = c /\ e.name = "contact" /\ e.key = <<contactKey(r, c)>>
  BY KeylessCalls
<1>2. PICK f : f = Keyed(r)
  OBVIOUS
<1>3. <<contactKey(r, c)>> # NoKey /\ Append(<<contactKey(r, c)>>, 0) = <<contactKey(r, c), 0>>
  BY PairedKey DEF NoKey
<1>4. f.on = c /\ f.name = "contact" /\ f.key = <<contactKey(r, c), 0>>
  BY <1>1, <1>2, <1>3 DEF Keyed
<1>5. LogIs
  BY DEF EngineInv
<1>6. CASE Repeated(r)
  <2>1. PICK i \in DOMAIN log : log[i].key = <<contactKey(r, c), 0>>
    BY <1>2, <1>4, <1>6 DEF Repeated
  <2>2. KeyedFact(i)
    BY KeyedFacts
  <2>3. <<contactKey(r, c), 0>> # NoKey
    BY DEF NoKey
  <2>4. \A x, y, n, m : <<x, n>> = <<y, m>> => x = y
    OBVIOUS
  <2>5. \A x : <<"reconciliation", x>> # contactKey(r, c)
    <3>1. \A x, y, z : <<"reconciliation", x>> # <<"contact", y, z>>
      OBVIOUS
    <3> QED BY <3>1 DEF contactKey
  <2>6. \A q, d : contactKey(q, d) = contactKey(r, c) => d = c
    BY DEF contactKey
  <2>7. log[i].on = c /\ log[i].name = "contact"
    BY <2>1, <2>2, <2>3, <2>4, <2>5, <2>6 DEF KeyedFact
  <2>8. Has(c, "contact")
    BY <2>7 DEF Has, Facts, Stream
  <2>9. log' = log
    BY <1>1, <1>6 DEF Call, Write
  <2> QED BY <1>5, <2>8, <2>9, SaidBefore
<1>7. CASE ~Repeated(r)
  <2>1. log' = Append(log, f)
    BY <1>1, <1>2, <1>7 DEF Call, Write
  <2> QED BY <1>4, <1>5, <2>1, SaidBefore
<1> QED BY <1>6, <1>7

(* A case is resolved only after all that it takes.                         *)
LEMMA CaseIsChained ==
  ASSUME EngineInv, ActorsOK, NEW r \in Runs, NEW c, Handles(r, c), CaseOK(r, c),
         Advance(r) \/ LoseAnswer(r) \/ Crash(r) \/ Elapse(r)
  PROVE  Chained(r, c)'
<1>1. Heard(run[r]) /\ Grounds(run[r], c) /\ Chained(r, c) /\ LogIs
  BY DEF CaseOK, EngineInv
<1>2. /\ log' = log \/ log' = Append(log, Keyed(r))
      /\ log' # log => /\ (\E op \in Telling : Doing(r, op)) /\ CanWrite(r)
                       /\ ~Repeated(r) /\ log' = Append(log, Keyed(r))
  BY <1>1, RunWrites
<1>3. ASSUME NEW i \in Facts(c, "case.resolved")', i \in DOMAIN log PROVE Authorized(i, r, c)'
  <2>1. i \in Facts(c, "case.resolved")
    <3>1. log'[i] = log[i]
      BY <1>1, <1>2, <1>3, FactsStay
    <3> QED BY <1>3, <3>1 DEF Facts, Stream
  <2>2. Authorized(i, r, c)
    BY <1>1, <2>1 DEF Chained
  <2> QED BY <1>1, <1>2, <1>3, <2>2, SaidBefore DEF Authorized, Gate
<1>4. ASSUME NEW i \in Facts(c, "case.resolved")', i \notin DOMAIN log PROVE Authorized(i, r, c)'
  <2>1. i \in DOMAIN log' /\ log'[i].name = "case.resolved"
    BY <1>4 DEF Facts, Stream
  <2>2. log' = Append(log, Keyed(r)) /\ i = Len(log) + 1 /\ log'[i] = Keyed(r) /\ log' # log
    BY <1>1, <1>2, <1>4, <2>1, FactsStay
  <2>3. PICK op \in Telling : Doing(r, op)
    BY <1>2, <2>2
  <2>4. Effect(r).name = "case.resolved"
    BY <2>1, <2>2 DEF Keyed
  <2>5. Closing(run[r]) = run[r].pc /\ Effect(r).name = Verdict(run[r])
    BY <1>1, <2>3, <2>4, VerdictCalls DEF Verdicts
  <2>6. run[r].pc = Len(run[r].memo) + 1 /\ Len(run[r].memo) \in Nat
    BY <2>3, CaseCalls, CaseShape
  <2>7. Closing(run[r]) = 12
    BY <2>4, <2>5 DEF Verdict
  <2>8. PICK n \in Nat : n = Len(run[r].memo) /\ n = 11
    <3>1. PICK n \in Nat : n = Len(run[r].memo)
      BY <2>6
    <3>2. n + 1 = 12
      BY <2>5, <2>6, <2>7, <3>1
    <3> QED BY <3>1, <3>2
  <2>9. run[r].memo[9] = 2
    BY <2>7 DEF Closing
  <2>10. run[r].memo[5] = 1
    BY <1>1, <2>8, <2>9 DEF Heard
  <2>11. Has(c, "confirmed") /\ Has(c, "contact") /\ Has(c, "case.contact.sent")
    BY <1>1, <2>8, <2>9, <2>10 DEF Grounds
  <2>12. run[r].mode # "waiting"
    BY <2>3 DEF Doing, Working, Busy
  <2>13. Has(c, "case.requested") /\ Has(c, "case.opened")
    <3>1. 1 <= Len(run[r].memo)
      BY <2>8
    <3> QED BY <2>12, <3>1, CaseBegins
  <2>14. Has(Gate(r), "approved")
    <3>1. AgentAt(r) /\ ApproveAt(r) = 5
      BY CaseShape
    <3>2. Approved(r)
      BY <2>8, <2>10, <3>1 DEF AgentAt
    <3> QED BY <3>2 DEF Approved, Has, Facts, Stream
  <2>15. PICK g : g = Gate(r)
    OBVIOUS
  <2>16. Before(i, g, "approved")' /\ \A name \in ChainNames : Before(i, c, name)'
    BY <1>1, <2>2, <2>11, <2>13, <2>14, <2>15, SaidBefore DEF ChainNames
  <2> QED BY <2>15, <2>16 DEF Authorized, Gate
<1> QED BY <1>3, <1>4 DEF Chained

(* What a case tells of its verdict.                                        *)
NoVerdict(c) == \A name \in Verdicts : Facts(c, name)' = Facts(c, name)
TellsVerdict(r, c) ==
  /\ Closing(run[r]) = run[r].pc /\ run[r].pc = Len(run[r].memo) + 1 /\ run[r].pc \in 6 .. 12
  /\ \E v : /\ v = Verdict(run[r]) /\ \E n : n \notin Facts(c, v) /\ Facts(c, v)' = Facts(c, v) \cup {n}
            /\ \A name \in Verdicts \ {v} : Facts(c, name)' = Facts(c, name)
  /\ Call(r) \/ LoseAnswer(r)

LEMMA VerdictStep ==
  ASSUME EngineInv, ActorsOK, NEW r \in Runs, NEW c, Handles(r, c), Heard(run[r]),
         Advance(r) \/ LoseAnswer(r) \/ Crash(r) \/ Elapse(r)
  PROVE  NoVerdict(c) \/ TellsVerdict(r, c)
<1>1. LogIs
  BY DEF EngineInv
<1>2. /\ log' = log \/ log' = Append(log, Keyed(r))
      /\ log' # log => /\ (\E op \in Telling : Doing(r, op)) /\ CanWrite(r)
                       /\ ~Repeated(r) /\ log' = Append(log, Keyed(r))
  BY <1>1, RunWrites
<1>3. CASE log' = log
  BY <1>3 DEF NoVerdict, Facts, Stream
<1>4. CASE log' # log
  <2>1. PICK op \in Telling : Doing(r, op)
    BY <1>2, <1>4
  <2>2. PICK e : e = Keyed(r) /\ log' = Append(log, e) /\ e.name = Effect(r).name /\ e.on = Effect(r).on
    BY <1>2, <1>4 DEF Keyed
  <2>3. \A name : name # e.name => Facts(c, name)' = Facts(c, name)
    BY <1>1, <2>2, FactsGrow
  <2>4. CASE e.name \notin Verdicts
    BY <2>3, <2>4 DEF NoVerdict
  <2>5. CASE e.name \in Verdicts
    <3>1. /\ Closing(run[r]) = run[r].pc /\ run[r].pc \in 6 .. 12 /\ Effect(r) = Emit(Verdict(run[r]), c)
          /\ Effect(r).name = Verdict(run[r])
      BY <2>1, <2>2, <2>5, VerdictCalls
    <3>2. run[r].pc = Len(run[r].memo) + 1
      BY <2>1, CaseCalls
    <3>3. PICK v : v = Verdict(run[r]) /\ e.name = v /\ e.on = c
      BY <2>2, <3>1 DEF Emit, Record
    <3>4. PICK n : n = Len(log) + 1
      OBVIOUS
    <3>5. n \notin Facts(c, v) /\ Facts(c, v)' = Facts(c, v) \cup {n}
      <4>1. /\ DOMAIN log' = DOMAIN log \cup {n} /\ n \notin DOMAIN log /\ log'[n] = e
            /\ \A i \in DOMAIN log : log'[i] = log[i]
        BY <1>1, <2>2, <3>4, LogAppends
      <4> QED BY <3>3, <4>1 DEF Facts, Stream
    <3>6. Call(r) \/ LoseAnswer(r)
      <4>1. PICK S : log \in Seq(S)
        BY <1>1 DEF LogIs
      <4> QED BY <1>4, <4>1, LogGrows
    <3>7. \A name \in Verdicts \ {v} : Facts(c, name)' = Facts(c, name)
      BY <2>3, <3>3
    <3> QED BY <3>1, <3>2, <3>3, <3>5, <3>6, <3>7 DEF TellsVerdict
  <2> QED BY <2>4, <2>5
<1> QED BY <1>3, <1>4

(* How a case goes on: it takes answers back that were not shipped, waits,  *)
(* or has one more.                                                         *)
TakesBack(r, rec) ==
  /\ KeptOf(r, rec) /\ rec.mode \notin {"parked", "completed"}
  /\ \A i \in 1 .. Len(run[r].memo) : i <= Len(rec.memo) \/ <<r, "forward", i>> \in hit'
  /\ log' # log => rec.memo = run[r].memo /\ <<r, "forward", run[r].pc>> \in hit'
CaseParks(r, rec) == Parks(r, rec) /\ log' = log /\ (run[r].pc = 9 => run[r].memo[5] = 1)
CaseRecords(r, c, rec, v) ==
  /\ Records(r, rec, v) /\ run[r].pc = Len(run[r].memo) + 1
  /\ run[r].pc = 5 => v \in {1, 2} /\ 5 <= rec.kept
  /\ run[r].pc = 9 => \/ run[r].memo[5] = 1 /\ v \in {1, 2, 3} /\ 9 <= rec.kept /\ (v = 2 => Has(c, "confirmed"))
                      \/ run[r].memo[5] = 2 /\ v = 0
  /\ Needed(r) /\ run[r].pc \notin {3, 5, 9} => Call(r)
CaseGoes(r, c, rec) == TakesBack(r, rec) \/ CaseParks(r, rec) \/ \E v : CaseRecords(r, c, rec, v)

LEMMA CaseWoken ==
  ASSUME EngineInv, ActorsOK, NEW r \in Runs, NEW c, Handles(r, c), Heard(run[r]), Woken(r)
  PROVE  CaseGoes(r, c, run'[r])
<1>1. /\ r \in DOMAIN run /\ IsPlaced(r) /\ IsFunction(job[r]) /\ Waits(r) /\ AgentAt(r) /\ LogIs
      /\ run[r].mode = "parked" /\ run[r].pc = Len(run[r].memo) + 1 /\ run[r].pc \in 1 .. 12
  BY CaseShape DEF Woken
<1>2. run'[r].kept = run[r].pc /\ \E i \in Answers(r) : \E w \in Named(log[i].name, Effect(r).names) : Records(r, run'[r], w)
  BY <1>1, WokenOutcome
<1>3. PICK i \in Answers(r) : \E w \in Named(log[i].name, Effect(r).names) : Records(r, run'[r], w)
  BY <1>2
<1>4. PICK w \in Named(log[i].name, Effect(r).names) : Records(r, run'[r], w)
  BY <1>3
<1>5. PICK a : CaseSteps(r, r, c, a)
  BY CaseIs DEF Handles
<1>6. PICK pc \in 1 .. 12 : pc = run[r].pc
  BY <1>1
<1>7. Effects(r) = Calls(r, pc) /\ Effect(r) = Effects(r)[1] /\ Current(r).does = Calls(r, pc)
  BY <1>1, <1>6 DEF Effects, Current, Calls, Effect, AgentAt
<1>8. pc \in {5, 9}
  <2>1. SUFFICES ASSUME pc \notin {5, 9} PROVE NoWait(Calls(r, pc))
    BY <1>1, <1>7 DEF Waits
  <2>2. pc \in {1, 2, 3, 4, 6, 7, 8, 10, 11, 12}
    BY <2>1
  <2>3. /\ \A n, of : Emit(n, of).op = "append"
        /\ \A n, of, k : EmitOnce(n, of, k).op = "append"
        /\ \A s : Refuse(s).op = "refuse"
    BY DEF Emit, Record, EmitOnce, Refuse
  <2>4. \A e : e.op # "wait" => NoWait(<<e>>)
    <3>1. \A e : Len(<<e>>) = 1 /\ <<e>>[1] = e
      OBVIOUS
    <3> QED BY <3>1 DEF NoWait
  <2>5. /\ \A n, of : NoWait(<<Emit(n, of)>>)
        /\ \A n, of, k : NoWait(<<EmitOnce(n, of, k)>>)
        /\ \A s : NoWait(<<Refuse(s)>>)
    BY <2>3, <2>4
  <2>6. pc \in {1, 2, 3, 4, 6} => NoWait(Calls(r, pc))
    BY <1>5, <2>5 DEF CaseSteps
  <2>7. pc \in {7, 8, 10, 11, 12} => NoWait(Calls(r, pc))
    BY <1>5, <2>5 DEF CaseSteps
  <2> QED BY <2>2, <2>6, <2>7
<1>9. /\ pc = 5 => Effect(r) = Wait(Gate(r), Decisions)
      /\ pc = 9 => Effect(r) = Wait(c, Signals)
  <2>1. \A e : <<e>>[1] = e
    OBVIOUS
  <2> QED BY <1>5, <1>7, <2>1 DEF CaseSteps
<1>10. pc = 5 => w \in {1, 2}
  <2>1. DOMAIN Decisions = {1, 2} /\ \A s, n : Wait(s, n).names = n
    BY DEF Decisions, Wait
  <2> QED BY <1>9, <2>1 DEF Named
<1>11. pc = 9 => w \in {1, 2, 3} /\ (w = 2 => Has(c, "confirmed"))
  <2>1. DOMAIN Signals = {1, 2, 3} /\ Signals[2] = "confirmed" /\ \A s, n : Wait(s, n).names = n /\ Wait(s, n).on = s
    BY DEF Signals, Wait
  <2>2. i \in DOMAIN log /\ log[i].on = Effect(r).on
    <3>1. PICK n \in Nat : n = Len(log) /\ DOMAIN log = 1 .. n
      BY <1>1, LogShape
    <3>2. PICK g \in Nat : g = run[r].got
      BY <1>1 DEF IsPlaced
    <3>3. i \in g + 1 .. n /\ log[i].on = Effect(r).on
      BY <3>1, <3>2 DEF Answers
    <3> QED BY <3>1, <3>2, <3>3
  <2>3. pc = 9 /\ w = 2 => log[i].on = c /\ log[i].name = "confirmed"
    BY <1>9, <2>1, <2>2 DEF Named
  <2>4. pc = 9 => w \in {1, 2, 3}
    BY <1>9, <2>1 DEF Named
  <2> QED BY <2>2, <2>3, <2>4 DEF Has, Facts, Stream
<1>12. pc = 9 => run[r].memo[5] = 1
  BY <1>1, <1>6 DEF Heard
<1>13. pc = 5 => 5 <= run'[r].kept
  BY <1>2, <1>6
<1>14. pc = 9 => 9 <= run'[r].kept
  BY <1>2, <1>6
<1>15. CaseRecords(r, c, run'[r], w)
  BY <1>1, <1>4, <1>6, <1>8, <1>10, <1>11, <1>12, <1>13, <1>14 DEF CaseRecords
<1> QED BY <1>15 DEF CaseGoes

(* A step of a case is one call.                                            *)
LEMMA CaseEffects ==
  ASSUME EngineInv, ActorsOK, NEW r \in Runs, NEW c, Handles(r, c), Forward(r)
  PROVE  /\ Effects(r) # <<>> /\ run[r].at = 1 /\ Len(Effects(r)) = 1
         /\ Needed(r) => Doing(r, Effects(r)[1].op)
         /\ Needed(r) /\ run[r].pc \in {5, 9} => Doing(r, "wait")
<1>1. AgentAt(r) /\ run[r].mode = "forward" /\ run[r].pc \in 1 .. 12
  BY CaseShape DEF Forward
<1>2. PICK pc \in 1 .. 12 : pc = run[r].pc
  BY <1>1
<1>3. Effects(r) = Calls(r, pc)
  BY <1>1, <1>2 DEF Effects, Current, Calls
<1>4. PICK a : CaseSteps(r, r, c, a)
  BY CaseIs DEF Handles
<1>5. /\ pc \in {1, 2, 3, 4, 5, 6} => \E e : Calls(r, pc) = <<e>>
      /\ pc \in {7, 8, 9, 10, 11, 12} => \E e : Calls(r, pc) = <<e>>
  BY <1>4 DEF CaseSteps
<1>6. PICK e : Effects(r) = <<e>>
  <2>1. pc \in {1, 2, 3, 4, 5, 6} \/ pc \in {7, 8, 9, 10, 11, 12}
    OBVIOUS
  <2> QED BY <1>3, <1>5, <2>1
<1>7. Effects(r) # <<>> /\ Len(Effects(r)) = 1 /\ Effects(r)[1] = e
  <2>1. Len(<<e>>) = 1 /\ <<e>>[1] = e /\ <<e>> # <<>>
    OBVIOUS
  <2> QED BY <1>6, <2>1
<1>8. run[r].at = 1
  BY <1>1 DEF AgentAt
<1>9. Needed(r) => Doing(r, e.op)
  BY <1>1, <1>7, <1>8 DEF Doing, Working, Busy
<1>10. pc \in {5, 9} => e.op = "wait"
  <2>1. \A s, n : Wait(s, n).op = "wait"
    BY DEF Wait
  <2>2. \A x, y : <<x>> = <<y>> => x = y
    OBVIOUS
  <2>3. Calls(r, 5) = <<Wait(Gate(r), Decisions)>> /\ Calls(r, 9) = <<Wait(c, Signals)>>
    BY <1>4 DEF CaseSteps
  <2>4. pc \in {5, 9} => \E w : w.op = "wait" /\ Calls(r, pc) = <<w>>
    BY <2>1, <2>3
  <2> QED BY <1>3, <1>6, <2>2, <2>4
<1> QED BY <1>2, <1>7, <1>8, <1>9, <1>10

LEMMA CaseAsksOnce ==
  ASSUME EngineInv, ActorsOK, NEW r \in Runs, NEW c, Handles(r, c), NEW rec
  PROVE  ~CallsOn(r, rec)
<1> SUFFICES ASSUME CallsOn(r, rec) PROVE FALSE
  OBVIOUS
<1>1. Working(r) /\ run[r].at <= Len(Effects(r)) /\ run[r].at # Len(Effects(r))
  BY DEF CallsOn
<1>2. Doing(r, Effects(r)[run[r].at].op)
  BY <1>1 DEF Doing
<1>3. run[r].at = 1 /\ Len(Effects(r)) = 1
  BY <1>2, CaseCalls
<1> QED BY <1>1, <1>3

LEMMA OneCall == ASSUME NEW r, NEW op, NEW o, Doing(r, op), Doing(r, o) PROVE op = o
BY DEF Doing

LEMMA CaseCrashes ==
  ASSUME EngineInv, ActorsOK, NEW r \in Runs, NEW c, Handles(r, c), Forward(r), Crash(r)
  PROVE  TakesBack(r, run'[r])
<1>1. /\ r \in DOMAIN run /\ IsPlaced(r) /\ IsFunction(job[r]) /\ Len(run[r].memo) \in Nat /\ run[r].kept \in Nat
      /\ run[r].mode = "forward" /\ run[r].pc = Len(run[r].memo) + 1
  BY CaseShape DEF Forward
<1>2. PICK S : 0 \in S /\ run[r] \in RunState(S)
  BY <1>1, PlacedRun
<1>3. PICK n \in Nat : n = Len(run[r].memo) /\ run[r].pc = n + 1
  BY <1>1
<1>4. PICK k \in run[r].kept .. n :
        Hit(r, k + 1) /\ Set(r, [GoTo(r, k + 1) EXCEPT !.kept = k, !.memo = SubSeq(@, 1, k)])
  BY <1>3 DEF Crash
<1>5. k \in 0 .. n /\ k + 1 \in Nat /\ k \in Nat
  BY <1>1, <1>4
<1>6. PICK g : g = GoTo(r, k + 1) /\ g \in RunState(S) /\ g.memo = run[r].memo
  BY <1>2, <1>5, GoneTo
<1>7. PICK back : back = SubSeq(g.memo, 1, k) /\ Len(back) = k
  <2>1. PICK s : s = g.memo /\ s \in Seq(S) /\ k \in 0 .. Len(s)
    BY <1>3, <1>5, <1>6 DEF RunState
  <2> QED BY <2>1, FewerAnswers
<1>8. PICK rec : rec = [g EXCEPT !.kept = k, !.memo = back]
  OBVIOUS
<1>9. run'[r] = rec
  BY <1>1, <1>4, <1>6, <1>7, <1>8, SetRun
<1>10. rec.memo = back
  BY <1>6, <1>8 DEF RunState
<1>11. ASSUME NEW i \in 1 .. n, ~(i <= k) PROVE <<r, "forward", i>> \in hit'
  <2>1. i \in (k + 1) .. run[r].pc
    BY <1>3, <1>5, <1>11
  <2> QED BY <1>1, <1>4, <2>1 DEF Hit
<1>12. KeptOf(r, run'[r]) /\ run'[r].mode = "forward"
  <2>1. Returns(r, run'[r])
    BY <1>1, CrashOutcome
  <2>2. g.mode = "forward"
    BY <1>1, <1>2, <1>5, <1>6, GoneTo
  <2>3. rec.mode = "forward"
    BY <1>6, <1>8, <2>2 DEF RunState
  <2> QED BY <1>9, <2>1, <2>3 DEF Returns
<1>13. \A i \in 1 .. Len(run[r].memo) : i <= Len(run'[r].memo) \/ <<r, "forward", i>> \in hit'
  BY <1>3, <1>7, <1>9, <1>10, <1>11
<1>14. log' = log
  BY DEF Crash
<1> QED BY <1>12, <1>13, <1>14 DEF TakesBack

LEMMA CaseForward ==
  ASSUME EngineInv, ActorsOK, NEW r \in Runs, NEW c, Handles(r, c), Heard(run[r]), Forward(r),
         Advance(r) \/ LoseAnswer(r) \/ Crash(r) \/ Elapse(r)
  PROVE  CaseGoes(r, c, run'[r])
<1>1. /\ r \in DOMAIN run /\ IsPlaced(r) /\ IsFunction(job[r]) /\ job[r].errors = "retry" /\ LogIs /\ Len(log) \in Nat
      /\ run[r].mode = "forward" /\ run[r].pc = Len(run[r].memo) + 1 /\ run[r].pc \in 1 .. 12
  BY CaseShape DEF Forward
<1>2. PICK rec : rec = run'[r]
  OBVIOUS
<1>3. \/ Parks(r, rec) \/ \E v : Records(r, rec, v) /\ Reason(r, v)
      \/ Crash(r) /\ Returns(r, rec) /\ rec.mode = "forward"
      \/ Stopped(r) /\ Returns(r, rec) /\ rec.memo = run[r].memo
  BY <1>1, <1>2, ForwardMoves, CaseAsksOnce DEF GoesOn
<1>4. PICK n \in Nat, pc \in 1 .. 12 : n = Len(run[r].memo) /\ pc = run[r].pc /\ pc = n + 1
  <2>1. Len(run[r].memo) \in Nat
    BY CaseShape
  <2> QED BY <1>1, <2>1
<1>5. \A op : Doing(r, op) /\ op \notin Telling => log' = log
  BY <1>1, RunWrites, OneCall
<1>6. CASE Parks(r, rec)
  <2>1. Doing(r, "wait") /\ "wait" \notin Telling
    BY <1>6 DEF Parks, Telling
  <2>2. log' = log
    BY <1>5, <2>1
  <2>3. Needed(r)
    BY <2>1, CaseCalls
  <2>4. pc = 9 => run[r].memo[5] = 1
    BY <1>4, <2>3, CaseNeeds
  <2> QED BY <1>2, <1>4, <1>6, <2>2, <2>4 DEF CaseGoes, CaseParks
<1>7. ASSUME NEW v, Records(r, rec, v), Reason(r, v) PROVE CaseRecords(r, c, rec, v)
  <2>1. ~Woken(r) /\ job[r].errors # "skip" /\ Effects(r) # <<>>
    BY <1>1, CaseEffects DEF Woken
  <2>2. (Needed(r) /\ Gives(r, v)) \/ (v = 0 /\ ~Needed(r))
    BY <1>7, <2>1 DEF Reason, Working
  <2>3. pc \in {5, 9} => ~Needed(r)
    <3>1. SUFFICES ASSUME pc \in {5, 9}, Needed(r) PROVE FALSE
      OBVIOUS
    <3>2. Doing(r, "wait")
      BY <1>4, <3>1, CaseEffects
    <3>3. \A op : Doing(r, op) => op = "wait"
      BY <3>2, OneCall
    <3>4. ~Reads(r) /\ ~Call(r)
      BY <3>3 DEF Reads, Call, CanWrite
    <3> QED BY <2>2, <3>1, <3>4, GivesReads
  <2>4. pc # 5
    BY <1>4, <2>3, CaseNeeds
  <2>5. pc = 9 => run[r].memo[5] = 2 /\ v = 0
    <3>1. SUFFICES ASSUME pc = 9 PROVE run[r].memo[5] = 2 /\ v = 0
      OBVIOUS
    <3>2. run[r].memo[5] # 1
      BY <1>4, <2>3, <3>1, CaseNeeds
    <3>3. run[r].memo[5] \in {1, 2}
      BY <1>4, <3>1 DEF Heard
    <3> QED BY <2>2, <2>3, <3>1, <3>2, <3>3
  <2>6. Needed(r) /\ pc \notin {3, 5, 9} => Call(r)
    <3>1. SUFFICES ASSUME Needed(r), pc \notin {3, 5, 9}, Reads(r) PROVE FALSE
      BY <2>2, GivesReads
    <3>2. PICK op \in {"read", "get", "match", "view", "refuse"} : Doing(r, op)
      BY <3>1 DEF Reads
    <3>3. /\ \A m, of : Emit(m, of).op = "append"
          /\ \A m, of, k : EmitOnce(m, of, k).op = "append"
      BY DEF Emit, Record, EmitOnce
    <3>4. Effect(r).op = op /\ op # "append" /\ op # "wait" /\ run[r].pc # 3
      BY <1>4, <3>1, <3>2, CaseCalls
    <3> QED BY <3>2, <3>3, <3>4, CaseCalls
  <2> QED BY <1>1, <1>4, <1>7, <2>4, <2>5, <2>6 DEF CaseRecords
<1>8. CASE Crash(r)
  BY <1>2, <1>8, CaseCrashes DEF CaseGoes
<1>9. CASE Stopped(r) /\ Returns(r, rec) /\ rec.memo = run[r].memo
  <2>1. KeptOf(r, rec) /\ rec.mode \notin {"parked", "completed"} /\ rec.memo = run[r].memo
    BY <1>9 DEF Returns
  <2>2. \A i \in 1 .. Len(run[r].memo) : i <= Len(rec.memo)
    BY <1>4, <2>1
  <2>3. log' # log => <<r, "forward", run[r].pc>> \in hit'
    <3>1. TurnedDown(r) => log' = log
      BY <1>5 DEF TurnedDown, Telling
    <3>2. Conflict(r) => log' = log
      BY DEF Conflict
    <3>3. LoseAnswer(r) => <<r, "forward", pc>> \in hit'
      <4>1. pc \in pc .. pc
        OBVIOUS
      <4> QED BY <1>1, <1>4, <4>1 DEF LoseAnswer, Hit
    <3> QED BY <1>4, <1>9, <3>1, <3>2, <3>3 DEF Stopped
  <2> QED BY <1>2, <2>1, <2>2, <2>3 DEF CaseGoes, TakesBack
<1> QED BY <1>2, <1>3, <1>6, <1>7, <1>8, <1>9 DEF CaseGoes

LEMMA CaseMoves ==
  ASSUME EngineInv, ActorsOK, NEW r \in Runs, NEW c, Handles(r, c), Heard(run[r]),
         Advance(r) \/ LoseAnswer(r) \/ Crash(r) \/ Elapse(r)
  PROVE  CaseGoes(r, c, run'[r])
<1>1. /\ r \in DOMAIN run /\ IsPlaced(r) /\ IsFunction(job[r]) /\ job[r].errors = "retry" /\ LogIs /\ Len(log) \in Nat
      /\ Len(run[r].memo) \in Nat
  BY CaseShape
<1>2. PICK rec : rec = run'[r] /\ Outcome(r, rec)
  BY <1>1, RunMoves
<1>3. CASE Forward(r)
  BY <1>3, CaseForward
<1>4. CASE ~Forward(r)
  <2>1. (\A op : ~Doing(r, op)) /\ ~CallsOn(r, rec) /\ ~Parks(r, rec)
    BY <1>4, CaseCalls, CaseAsksOnce DEF Parks
  <2>2. log' = log
    BY <1>1, <2>1, RunWrites
  <2>3. ASSUME rec.memo = run[r].memo, KeptOf(r, rec), rec.mode \notin {"parked", "completed"} PROVE TakesBack(r, rec)
    BY <1>1, <2>2, <2>3 DEF TakesBack
  <2>4. CASE Starts(r, rec)
    <3>1. rec.memo = run[r].memo /\ run[r].kept <= rec.kept /\ rec.mode = "forward"
      BY <2>4 DEF Starts, Same
    <3> QED BY <1>1, <1>2, <2>3, <3>1 DEF KeptOf, CaseGoes
  <2>5. CASE run[r].mode = "undo"
    <3>1. rec.memo = run[r].memo /\ rec.mode \in {"undo", "failed"}
      BY <1>1, <1>2, <2>1, <2>5, UndoMoves DEF Undoes
    <3>2. Returns(r, rec)
      BY <1>2, <2>1, <2>5 DEF Outcome, Starts, Records
    <3> QED BY <1>2, <2>3, <3>1, <3>2 DEF Returns, CaseGoes
  <2>6. CASE run[r].mode = "parked"
    <3>1. Woken(r) \/ Elapse(r)
      BY <2>1, <2>6 DEF Advance, Start, ReadStore, ReadView, Park, Check, Call, CanWrite, Conflict, Pass, LoseAnswer, Crash, Busy
    <3>2. CASE Elapse(r)
      <4>1. rec = GivesUp(r)
        BY <1>1, <1>2, <3>2, SetRun DEF Elapse
      <4>2. Returns(r, GivesUp(r)) /\ GivesUp(r).memo = run[r].memo /\ GivesUp(r).mode \in {"failed", "undo"}
        BY <1>1, <2>6, GivesUpOutcome, GivesUpTo
      <4> QED BY <1>2, <2>3, <4>1, <4>2 DEF Returns, CaseGoes
    <3> QED BY <3>1, <3>2, CaseWoken
  <2>7. Starts(r, rec) \/ run[r].mode \in {"undo", "parked"}
    BY <1>2, <1>4, <2>1 DEF Outcome, Returns, Records, Forward
  <2> QED BY <2>4, <2>5, <2>6, <2>7
<1> QED BY <1>3, <1>4

LEMMA CallSays ==
  ASSUME LogIs, NEW r, NEW c, NEW name, Call(r), Effect(r) = Emit(name, c)
  PROVE  Has(c, name)'
<1>1. PICK e : e = Effect(r) /\ e.op = "append" /\ e.key = NoKey /\ e.on = c /\ e.name = name
  BY DEF Emit, Record
<1>2. PICK f : f = Keyed(r)
  OBVIOUS
<1>3. f.on = c /\ f.name = name /\ f.key = NoKey
  BY <1>1, <1>2 DEF Keyed
<1>4. ~Repeated(r)
  BY <1>2, <1>3 DEF Repeated
<1>5. log' = Append(log, f)
  BY <1>1, <1>2, <1>4 DEF Call, Write
<1> QED BY <1>3, <1>5, SaidBefore

LEMMA CaseStays ==
  ASSUME EngineInv, ActorsOK, NEW r \in Runs, NEW c, Handles(r, c), CaseOK(r, c), NEW rec, rec = run'[r],
         Advance(r) \/ LoseAnswer(r) \/ Crash(r) \/ Elapse(r), TakesBack(r, rec) \/ CaseParks(r, rec)
  PROVE  Heard(rec) /\ Grounds(rec, c)' /\ Closed(r, rec, c)'
<1>1. /\ r \in DOMAIN run /\ IsPlaced(r) /\ IsFunction(job[r]) /\ LogIs /\ Len(log) \in Nat
      /\ Heard(run[r]) /\ Grounds(run[r], c) /\ Closed(r, run[r], c)
  BY CaseShape DEF CaseOK
<1>2. PICK old : old = run[r]
  OBVIOUS
<1>3. PICK n \in Nat, k \in Nat : n = Len(old.memo) /\ k = old.kept
  BY <1>2, CaseShape
<1>4. IsPlacedAt(r, rec)
  BY <1>1, RunMoves
<1>5. PICK m \in Nat, l \in Nat : m = Len(rec.memo) /\ l = rec.kept /\ l <= m
  <2>1. PICK S : rec \in RunState(S)
    BY <1>4 DEF IsPlacedAt
  <2>2. rec.memo \in Seq(S) /\ rec.kept \in Nat
    BY <2>1 DEF RunState
  <2> QED BY <1>4, <2>2, LenProperties DEF IsPlacedAt, Placed
<1>6. /\ m <= n /\ k <= l /\ \A i \in 1 .. m : rec.memo[i] = old.memo[i]
      /\ Parks(r, rec) => m = n
  <2>1. CASE TakesBack(r, rec)
    BY <1>2, <1>3, <1>5, <2>1 DEF TakesBack, KeptOf, Parks
  <2>2. CASE CaseParks(r, rec)
    BY <1>2, <1>3, <1>5, <2>2 DEF CaseParks, Parks, Same
  <2> QED BY <2>1, <2>2
<1>7. rec.mode = "parked" /\ rec.pc = 9 => 5 <= m /\ old.memo[5] = 1
  <2>1. SUFFICES ASSUME CaseParks(r, rec), rec.pc = 9 PROVE 5 <= m /\ old.memo[5] = 1
    BY DEF TakesBack
  <2>2. run[r].pc = 9 /\ Parks(r, rec) /\ run[r].memo[5] = 1
    BY <2>1 DEF CaseParks, Parks, Same
  <2>3. run[r].pc = Len(run[r].memo) + 1
    BY <2>2, CaseShape DEF Parks, Forward
  <2> QED BY <1>2, <1>3, <1>6, <2>2, <2>3
<1>8. Heard(rec) /\ Closing(rec) = Closing(old)
  <2>1. Heard(old)
    BY <1>1, <1>2
  <2>2. m <= n /\ k <= l /\ l <= m /\ \A i \in 1 .. m : rec.memo[i] = old.memo[i]
    BY <1>5, <1>6
  <2> QED BY <1>3, <1>5, <1>7, <2>1, <2>2, HeardStays
<1>9. Verdict(rec) = Verdict(old)
  BY <1>8 DEF Verdict
<1>10. \A name : Has(c, name) => Has(c, name)'
  BY <1>1, RunWrites, SaidBefore
<1>11. Closing(old) \in {6, 10, 11, 12, 13}
  BY DEF Closing
<1>12. Grounds(rec, c)'
  <2>1. /\ 9 <= m => 9 \in 1 .. m /\ 9 <= n /\ 5 <= m
        /\ 8 <= m => 8 <= n /\ 5 <= m
        /\ 7 <= m => 7 <= n /\ 5 <= m
        /\ 5 <= m => 5 \in 1 .. m
        /\ Closing(old) <= m => Closing(old) <= n
    BY <1>6, <1>11
  <2>2. (5 <= m => rec.memo[5] = old.memo[5]) /\ (9 <= m => rec.memo[9] = old.memo[9])
    BY <1>6, <2>1
  <2>3. Grounds(rec, c)
    BY <1>1, <1>2, <1>3, <1>5, <1>8, <1>9, <2>1, <2>2 DEF Grounds
  <2> QED BY <1>10, <2>3 DEF Grounds
<1>13. hit \subseteq hit'
  BY <1>1, StepsOnlyRun DEF OnlyRuns
<1>14. Spared(r)' => Spared(r)
  BY <1>13 DEF Spared
<1>15. ASSUME Spared(r)', Closing(old) # 13, Closing(old) <= n PROVE Closing(rec) <= m
  <2>1. CASE CaseParks(r, rec)
    BY <1>6, <1>8, <1>15, <2>1 DEF CaseParks
  <2>2. CASE TakesBack(r, rec)
    <3>1. PICK i \in 6 .. 12 : i = Closing(old) /\ i \in 1 .. n
      BY <1>11, <1>15
    <3>2. i <= m \/ <<r, "forward", i>> \in hit'
      BY <1>2, <1>3, <1>5, <2>2, <3>1 DEF TakesBack
    <3> QED BY <1>8, <1>15, <3>1, <3>2 DEF Spared
  <2> QED BY <2>1, <2>2
<1>16. CASE NoVerdict(c)
  <2>1. ASSUME NEW name \in Verdicts
        PROVE  (Has(c, name)' <=> Has(c, name)) /\ (OnlyOne(c, name)' <=> OnlyOne(c, name))
    BY <1>16 DEF NoVerdict, Has, OnlyOne
  <2>2. ASSUME NEW name \in Verdicts, Has(c, name)'
        PROVE  /\ Closing(rec) # 13 /\ name = Verdict(rec)
               /\ Spared(r)' => Closing(rec) <= m /\ OnlyOne(c, name)'
    <3>1. /\ Closing(old) # 13 /\ name = Verdict(old)
          /\ Spared(r) => Closing(old) <= n /\ OnlyOne(c, name)
      BY <1>1, <1>2, <1>3, <2>1, <2>2 DEF Closed
    <3> QED BY <1>8, <1>9, <1>14, <1>15, <2>1, <3>1
  <2> QED BY <1>5, <1>8, <1>12, <2>2 DEF Closed
<1>17. CASE ~NoVerdict(c)
  <2>1. TellsVerdict(r, c) /\ log' # log
    BY <1>1, <1>17, VerdictStep DEF NoVerdict, Facts, Stream
  <2>2. TakesBack(r, rec)
    BY <2>1 DEF CaseParks
  <2>3. <<r, "forward", run[r].pc>> \in hit' /\ run[r].pc \in 6 .. 12 /\ Closing(old) = run[r].pc
    BY <1>2, <2>1, <2>2 DEF TakesBack, TellsVerdict
  <2>4. ~Spared(r)' /\ Closing(old) # 13
    BY <2>3 DEF Spared
  <2>5. ASSUME NEW name \in Verdicts, Has(c, name)' PROVE name = Verdict(rec)
    <3>1. SUFFICES ASSUME name # Verdict(old) PROVE Has(c, name)
      BY <1>1, <1>2, <1>9 DEF Closed
    <3>2. Facts(c, name)' = Facts(c, name)
      BY <1>2, <2>1, <3>1 DEF TellsVerdict
    <3> QED BY <2>5, <3>2 DEF Has
  <2> QED BY <1>8, <1>12, <2>4, <2>5 DEF Closed
<1> QED BY <1>16, <1>17

LEMMA CaseAdds ==
  ASSUME EngineInv, ActorsOK, CaseProgram(job), Drafts = {}, NEW r \in Runs, NEW c, Handles(r, c), CaseOK(r, c),
         NEW rec, rec = run'[r], Advance(r) \/ LoseAnswer(r) \/ Crash(r) \/ Elapse(r), NEW v, CaseRecords(r, c, rec, v)
  PROVE  Heard(rec) /\ Grounds(rec, c)' /\ Closed(r, rec, c)'
<1>1. /\ r \in DOMAIN run /\ IsPlaced(r) /\ IsFunction(job[r]) /\ LogIs /\ Len(log) \in Nat
      /\ Heard(run[r]) /\ Grounds(run[r], c) /\ Closed(r, run[r], c)
  BY CaseShape DEF CaseOK
<1>2. PICK old : old = run[r]
  OBVIOUS
<1>3. PICK n \in Nat, k \in Nat : n = Len(old.memo) /\ k = old.kept
  BY <1>2, CaseShape
<1>4. rec.memo = Append(old.memo, v) /\ rec.mode \in {"forward", "completed"} /\ k <= rec.kept
  BY <1>2, <1>3 DEF CaseRecords, Records
<1>5. PICK m \in Nat : m = Len(rec.memo) /\ m = n + 1 /\ rec.memo[m] = v /\ \A i \in 1 .. n : rec.memo[i] = old.memo[i]
  <2>1. PICK S : old \in RunState(S) /\ v \in S
    <3>1. \E S : v \in S /\ 0 \in S /\ run[r] \in RunState(S)
      BY <1>1, PlacedRun
    <3> QED BY <1>2, <3>1
  <2>2. PICK s : s = old.memo /\ s \in Seq(S)
    BY <2>1 DEF RunState
  <2>3. /\ Len(Append(s, v)) = Len(s) + 1 /\ Append(s, v)[Len(s) + 1] = v
        /\ \A i \in 1 .. Len(s) : Append(s, v)[i] = s[i]
    BY <2>1, <2>2, OneMoreAnswer
  <2> QED BY <1>3, <1>4, <2>2, <2>3
<1>6. PICK l \in Nat : l = rec.kept /\ k <= l
  <2>1. PICK S : rec \in RunState(S)
    BY <1>1, RunMoves DEF IsPlacedAt
  <2> QED BY <1>4, <2>1 DEF RunState
<1>7. m = run[r].pc /\ m \in 1 .. 12
  <2>1. run[r].pc = n + 1
    BY <1>2, <1>3 DEF CaseRecords
  <2>2. run[r].mode \in {"forward", "parked"}
    BY DEF CaseRecords, Records
  <2> QED BY <1>5, <2>1, <2>2, CaseShape
<1>8. /\ m = 5 => v \in {1, 2} /\ 5 <= l
      /\ m = 9 => \/ old.memo[5] = 1 /\ v \in {1, 2, 3} /\ 9 <= l /\ (v = 2 => Has(c, "confirmed"))
                  \/ old.memo[5] = 2 /\ v = 0
      /\ Needed(r) /\ m \notin {3, 5, 9} => Call(r)
  BY <1>2, <1>6, <1>7 DEF CaseRecords
<1>23. /\ m \in {7, 8, 9} => (Needed(r) <=> old.memo[5] = 1)
       /\ m = 6 => (Needed(r) <=> old.memo[5] = 2)
       /\ m = 10 => (Needed(r) <=> old.memo[9] = 1)
       /\ m = 11 => (Needed(r) <=> old.memo[9] = 3)
       /\ m = 12 => (Needed(r) <=> old.memo[9] = 2)
  <2>1. PICK pc \in 1 .. 12 : pc = m /\ pc = run[r].pc
    BY <1>7
  <2> QED BY <1>2, <2>1, CaseNeeds
<1>9. /\ Heard(rec)
      /\ Closing(old) # 13 => Closing(rec) = Closing(old)
      /\ Closing(rec) # Closing(old) => m < Closing(rec)
      /\ 5 <= n => rec.memo[5] = old.memo[5]
      /\ 9 <= n => rec.memo[9] = old.memo[9]
  <2>1. Heard(old)
    BY <1>1, <1>2
  <2>2. OneMore(old, rec, n, v)
    BY <1>3, <1>4, <1>5, <1>6, <1>8 DEF OneMore
  <2> QED BY <1>5, <2>1, <2>2, HeardMore
<1>10. Closing(old) \in {6, 10, 11, 12, 13}
  BY DEF Closing
<1>11. \A name : Has(c, name) => Has(c, name)'
  BY <1>1, RunWrites, SaidBefore
<1>12. /\ 9 <= n /\ old.memo[9] = 2 => Has(c, "confirmed")
       /\ 7 <= n /\ old.memo[5] = 1 => Has(c, "contact")
       /\ 8 <= n /\ old.memo[5] = 1 => Has(c, "case.contact.sent")
       /\ Closing(old) <= n => Has(c, Verdict(old))
  BY <1>1, <1>2, <1>3 DEF Grounds
<1>13. 9 <= m /\ rec.memo[9] = 2 => Has(c, "confirmed")'
  <2>1. CASE 9 <= n
    BY <1>9, <1>11, <1>12, <2>1
  <2>2. ASSUME m = 9, rec.memo[9] = 2 PROVE Has(c, "confirmed")'
    BY <1>5, <1>8, <1>11, <2>2
  <2> QED BY <1>5, <2>1, <2>2
<1>14. 7 <= m /\ rec.memo[5] = 1 => Has(c, "contact")'
  <2>1. CASE 7 <= n
    BY <1>9, <1>11, <1>12, <2>1
  <2>2. ASSUME m = 7, rec.memo[5] = 1 PROVE Has(c, "contact")'
    <3>1. old.memo[5] = 1
      BY <1>5, <1>9, <2>2
    <3>2. Call(r)
      BY <1>8, <1>23, <2>2, <3>1
    <3>3. PICK op : Doing(r, op)
      BY <3>2 DEF Call, CanWrite
    <3>5. run[r].pc = 7
      BY <1>7, <2>2
    <3>4. Effect(r) = ContactOf(r, c) /\ run[r].got = 0
      BY <3>3, <3>5, CaseCalls DEF ContactOf
    <3> QED BY <3>2, <3>4, ContactIsSaid
  <2> QED BY <1>5, <2>1, <2>2
<1>15. 8 <= m /\ rec.memo[5] = 1 => Has(c, "case.contact.sent")'
  <2>1. CASE 8 <= n
    BY <1>9, <1>11, <1>12, <2>1
  <2>2. ASSUME m = 8, rec.memo[5] = 1 PROVE Has(c, "case.contact.sent")'
    <3>1. old.memo[5] = 1
      BY <1>5, <1>9, <2>2
    <3>2. Call(r)
      BY <1>8, <1>23, <2>2, <3>1
    <3>3. PICK op : Doing(r, op)
      BY <3>2 DEF Call, CanWrite
    <3>5. run[r].pc = 8
      BY <1>7, <2>2
    <3>4. Effect(r) = Emit("case.contact.sent", c)
      BY <3>3, <3>5, CaseCalls
    <3> QED BY <1>1, <3>2, <3>4, CallSays
  <2> QED BY <1>5, <2>1, <2>2
<1>16. ASSUME Closing(rec) <= m PROVE Has(c, Verdict(rec))'
  <2>1. Closing(rec) = Closing(old)
    BY <1>9, <1>10, <1>16 DEF Closing
  <2>2. Verdict(rec) = Verdict(old)
    BY <2>1 DEF Verdict
  <2>5. m \in {6, 10, 11, 12} \/ Closing(old) # m
    BY <1>7, <1>10
  <2>3. CASE Closing(old) <= n
    <3>1. PICK name : name = Verdict(old) /\ name = Verdict(rec) /\ Has(c, name)
      BY <1>12, <2>2, <2>3
    <3>2. Has(c, name)'
      BY <1>11, <3>1
    <3> QED BY <3>1, <3>2
  <2>4. CASE Closing(old) = m
    <3>1. /\ m = 6 => old.memo[5] = 2
          /\ m = 10 => old.memo[9] = 1
          /\ m = 11 => old.memo[9] = 3
          /\ m = 12 => old.memo[9] = 2
      BY <1>7, <1>10, <2>4 DEF Closing
    <3>2. Needed(r)
      BY <1>23, <2>4, <2>5, <3>1
    <3>3. Call(r) /\ m \in {6, 10, 11, 12}
      BY <1>7, <1>8, <1>10, <2>4, <3>2
    <3>4. PICK op : Doing(r, op)
      BY <3>3 DEF Call, CanWrite
    <3>5. PICK name : name = Verdict(old) /\ Effect(r) = Emit(name, c)
      <4>1. IF m = 12 THEN Effect(r) = Emit("case.resolved", c) ELSE Effect(r) = Emit("case.unresolved", c)
        BY <1>7, <3>3, <3>4, CaseCalls
      <4> QED BY <2>4, <4>1 DEF Verdict
    <3>6. Has(c, name)'
      BY <1>1, <3>3, <3>5, CallSays
    <3> QED BY <2>2, <3>5, <3>6
  <2> QED BY <1>5, <1>10, <1>16, <2>1, <2>3, <2>4
<1>17. Grounds(rec, c)'
  BY <1>5, <1>13, <1>14, <1>15, <1>16 DEF Grounds
<1>18. Spared(r)' => Spared(r)
  <2>1. hit \subseteq hit'
    BY <1>1, StepsOnlyRun DEF OnlyRuns
  <2> QED BY <2>1 DEF Spared
<1>19. ASSUME NEW name \in Verdicts, Has(c, name)
       PROVE  /\ Closing(rec) # 13 /\ Closing(rec) = Closing(old) /\ name = Verdict(rec) /\ name = Verdict(old)
              /\ Spared(r) => Closing(old) <= n /\ OnlyOne(c, name)
  <2>1. Closing(old) # 13 /\ name = Verdict(old) /\ (Spared(r) => Closing(old) <= n /\ OnlyOne(c, name))
    BY <1>1, <1>2, <1>3, <1>19 DEF Closed
  <2> QED BY <1>9, <2>1 DEF Verdict
<1>20. CASE NoVerdict(c)
  <2>1. ASSUME NEW name \in Verdicts
        PROVE  (Has(c, name)' <=> Has(c, name)) /\ (OnlyOne(c, name)' <=> OnlyOne(c, name))
    BY <1>20 DEF NoVerdict, Has, OnlyOne
  <2>2. ASSUME NEW name \in Verdicts, Has(c, name)'
        PROVE  /\ Closing(rec) # 13 /\ name = Verdict(rec)
               /\ Spared(r)' => Closing(rec) <= m /\ OnlyOne(c, name)'
    BY <1>5, <1>10, <1>18, <1>19, <2>1, <2>2
  <2> QED BY <1>5, <1>9, <1>17, <2>2 DEF Closed
<1>21. CASE TellsVerdict(r, c)
  <2>1. Closing(old) = m /\ Closing(rec) = m /\ m # 13 /\ Verdict(rec) = Verdict(old)
    <3>1. Closing(old) = m /\ m # 13
      BY <1>2, <1>7, <1>21 DEF TellsVerdict
    <3> QED BY <1>9, <3>1 DEF Verdict
  <2>2. PICK new : new = Verdict(rec) /\ new = Verdict(run[r])
    BY <1>2, <2>1
  <2>3. /\ \E i : Facts(c, new)' = Facts(c, new) \cup {i}
        /\ \A name \in Verdicts \ {new} : Facts(c, name)' = Facts(c, name)
    BY <2>2, <1>21 DEF TellsVerdict
  <2>4. ASSUME NEW name \in Verdicts, Has(c, name)' PROVE name = new
    <3>1. SUFFICES ASSUME name # new PROVE Has(c, name)
      BY <1>19, <2>2
    <3>2. Facts(c, name)' = Facts(c, name)
      BY <2>3, <3>1
    <3> QED BY <2>4, <3>2 DEF Has
  <2>5. ASSUME Spared(r)' PROVE OnlyOne(c, new)'
    <3>1. new \in Verdicts
      BY <2>2 DEF Verdict, Verdicts
    <3>2. ~Has(c, new)
      BY <1>5, <1>18, <1>19, <2>1, <2>5, <3>1
    <3>3. PICK i : Facts(c, new)' = {i}
      BY <2>3, <3>2 DEF Has
    <3> QED BY <3>3 DEF OnlyOne
  <2> QED BY <1>5, <1>9, <1>17, <2>1, <2>2, <2>4, <2>5 DEF Closed
<1>22. NoVerdict(c) \/ TellsVerdict(r, c)
  BY <1>1, VerdictStep
<1> QED BY <1>20, <1>21, <1>22

LEMMA CaseStep ==
  ASSUME EngineInv, ActorsOK, CaseProgram(job), Drafts = {}, NEW r \in Runs, NEW c, Handles(r, c), CaseOK(r, c),
         Advance(r) \/ LoseAnswer(r) \/ Crash(r) \/ Elapse(r)
  PROVE  CaseOK(r, c)'
<1>1. PICK rec : rec = run'[r]
  OBVIOUS
<1>2. TakesBack(r, rec) \/ CaseParks(r, rec) \/ \E v : CaseRecords(r, c, rec, v)
  BY <1>1, CaseMoves DEF CaseOK, CaseGoes
<1>3. Heard(rec) /\ Grounds(rec, c)' /\ Closed(r, rec, c)'
  BY <1>1, <1>2, CaseStays, CaseAdds
<1>4. Chained(r, c)'
  BY CaseIsChained
<1> QED BY <1>1, <1>3, <1>4 DEF CaseOK

(* What a run has not been answered yet it does not refer to.               *)
GotFresh(r) == run[r].at = 1 /\ run[r].mode # "parked" => run[r].got = 0
Unasked == \A k \in DOMAIN log : log[k].about = 0
CaseInv ==
  CaseProgram(job) =>
    /\ \A r \in Runs : GotFresh(r)
    /\ Unasked
    /\ \A r \in Runs : \A c \in Accounts : Handles(r, c) => CaseOK(r, c)

LEMMA FreshStays ==
  ASSUME EngineInv, NEW r \in Runs, GotFresh(r), NEW q \in Runs, Advance(q) \/ LoseAnswer(q) \/ Crash(q) \/ Elapse(q)
  PROVE  GotFresh(r)'
<1>1. r \in DOMAIN run /\ GoodFunction(job[r], {}) /\ IsPlaced(r) /\ Len(log) \in Nat
  BY LogShape DEF EngineInv
<1>2. IsFunction(job[r])
  BY <1>1, GoodIsFunction
<1>3. /\ q # r => run'[r] = run[r]
      /\ q = r => Outcome(r, run'[r])
  BY <1>1, <1>2, RunStays
<1>4. CASE q # r
  BY <1>3, <1>4 DEF GotFresh
<1>5. CASE q = r
  <2>1. PICK rec : rec = run'[r] /\ Outcome(r, rec)
    BY <1>3, <1>5
  <2>2. run[r].at \in Nat \ {0}
    <3>1. PICK S : run[r] \in RunState(S)
      BY <1>1 DEF IsPlaced
    <3> QED BY <3>1 DEF RunState
  <2>3. rec.at = 1 /\ rec.mode # "parked" => rec.got = 0
    BY <2>1, <2>2 DEF Outcome, Starts, CallsOn, Parks, Returns, Records, Fresh, GotFresh
  <2> QED BY <2>1, <2>3 DEF GotFresh
<1> QED BY <1>4, <1>5

LEMMA CaseTellsFirst ==
  ASSUME EngineInv, CaseProgram(job), NEW q \in Runs, GotFresh(q), NEW op, Doing(q, op)
  PROVE  run[q].got = 0
<1>1. GoodFunction(job[q], {}) /\ IsPlaced(q)
  BY DEF EngineInv
<1>2. run[q].mode # "parked"
  BY DEF Doing, Working, Busy
<1>3. PICK i : i = run[q].pc /\ i \in DOMAIN Steps(q) /\ (run[q].at \in DOMAIN Calls(q, i) \/ run[q].at \in DOMAIN Steps(q)[i].undo)
  BY <1>1, CallAt
<1>4. StepTells(q, Steps(q)[i])
  BY <1>3, CaseTells DEF CaseProgram
<1>5. DOMAIN <<>> = {} /\ \A e : DOMAIN <<e>> = {1}
  OBVIOUS
<1>6. run[q].at = 1
  BY <1>3, <1>4, <1>5 DEF StepTells, Calls
<1> QED BY <1>2, <1>6 DEF GotFresh

LEMMA CaseOthers ==
  ASSUME EngineInv, CaseProgram(job), NEW q \in Runs, ~IsCaseJob(job[q]), NEW op \in Telling, Doing(q, op)
  PROVE  Effect(q).name \notin Verdicts
<1>1. GoodFunction(job[q], {}) /\ IsPlaced(q)
  BY DEF EngineInv
<1>2. GoodFunction(job[q], Verdicts)
  BY CasesSpare DEF CaseProgram
<1>3. PICK i : /\ i \in DOMAIN Steps(q) /\ Effect(q).op = op
               /\ \/ \E j \in DOMAIN Calls(q, i) : Effect(q) = Calls(q, i)[j]
                  \/ \E j \in DOMAIN Steps(q)[i].undo : Effect(q) = Steps(q)[i].undo[j]
  BY <1>1, CallAt
<1>4. GoodStep(Steps(q)[i], Verdicts)
  BY <1>2, <1>3 DEF GoodFunction, Steps
<1> QED BY <1>3, <1>4 DEF GoodStep, SparesAll, Spares, Calls

LEMMA CaseNoDrafts == CaseProgram(job) => Drafts = {}
BY CaseJobIds DEF CaseProgram, CaseJob, Drafts

LEMMA CaseInvStep ==
  ASSUME EngineInv, ActorsOK, CaseInv, CaseProgram(job), NEW q \in Runs, Advance(q) \/ LoseAnswer(q) \/ Crash(q) \/ Elapse(q)
  PROVE  CaseInv'
<1>1. LogIs /\ Drafts = {} /\ \A r \in Runs : GotFresh(r)
  BY CaseNoDrafts DEF EngineInv, CaseInv
<1>2. /\ log' = log \/ log' = Append(log, Keyed(q))
      /\ log' # log => /\ (\E op \in Telling : Doing(q, op)) /\ CanWrite(q)
                       /\ ~Repeated(q) /\ log' = Append(log, Keyed(q))
      /\ job' = job
  BY <1>1, RunWrites
<1>3. \A r \in Runs : GotFresh(r)'
  BY <1>1, FreshStays
<1>4. Unasked'
  <2>1. Unasked
    BY DEF CaseInv
  <2>2. CASE log' = log
    BY <2>1, <2>2 DEF Unasked
  <2>3. CASE log' # log
    <3>1. PICK op : Doing(q, op)
      BY <1>2, <2>3
    <3>2. run[q].got = 0
      BY <1>1, <3>1, CaseTellsFirst
    <3>3. PICK e, n : e = Keyed(q) /\ e.about = 0 /\ n = Len(log) + 1 /\ log' = Append(log, e)
      BY <1>2, <2>3, <3>2 DEF Keyed
    <3>4. DOMAIN log' = DOMAIN log \cup {n} /\ log'[n] = e /\ \A i \in DOMAIN log : log'[i] = log[i]
      BY <1>1, <3>3, LogAppends
    <3> QED BY <2>1, <3>3, <3>4 DEF Unasked
  <2> QED BY <2>2, <2>3
<1>5. ASSUME NEW r \in Runs, NEW c \in Accounts, Handles(r, c) PROVE CaseOK(r, c)'
  <2>1. CaseOK(r, c)
    BY <1>5 DEF CaseInv
  <2>2. CASE q = r
    BY <1>1, <1>5, <2>1, <2>2, CaseStep
  <2>3. CASE q # r
    <3>1. IsCaseJob(job[r])
      BY <1>5, CaseHandled DEF IsCaseJob
    <3>2. ~IsCaseJob(job[q])
      BY <2>3, <3>1 DEF CaseProgram
    <3>3. PICK e : e = Keyed(q)
      OBVIOUS
    <3>6. e.name = Effect(q).name
      BY <3>3 DEF Keyed
    <3>4. log' # log => e.name \notin Verdicts
      BY <1>2, <3>2, <3>6, CaseOthers
    <3>5. run'[r] = run[r] /\ hit \subseteq hit'
      <4>1. r \in DOMAIN run
        BY DEF EngineInv
      <4> QED BY <2>3, <4>1, StepsOnlyRun DEF OnlyRuns
    <3> QED BY <1>1, <1>2, <2>1, <3>3, <3>4, <3>5, CaseLeft
  <2> QED BY <2>2, <2>3
<1>6. \A r : \A c : Handles(r, c)' = Handles(r, c)
  BY <1>2 DEF Handles
<1> QED BY <1>3, <1>4, <1>5, <1>6 DEF CaseInv

LEMMA CaseInvSteps == ASSUME EngineInv, InboxInv, ActorsOK, CaseInv, [ExamplesNext]_exampleVars PROVE CaseInv'
<1>1. job' = job
  BY JobsStay DEF ExamplesNext, exampleVars, vars
<1>2. CASE ~CaseProgram(job)
  BY <1>1, <1>2 DEF CaseInv, CaseProgram
<1>3. CASE CaseProgram(job)
  <2>1. Drafts = {}
    BY <1>3, CaseNoDrafts
  <2>2. CASE Next /\ UNCHANGED <<inboxVars, notifierVars>>
    BY <1>3, <2>2, CaseInvStep DEF Next
  <2>3. CASE (InboxNext /\ UNCHANGED notifierVars) \/ (NotifierNext /\ UNCHANGED inboxVars) \/ UNCHANGED exampleVars
    <3>1. UNCHANGED <<job, log, run, hit>> /\ LogIs
      BY <2>1, <2>3, WhatIsEmitted DEF EngineInv
    <3>2. /\ \A r \in Runs : GotFresh(r)'
          /\ Unasked'
      BY <1>3, <3>1 DEF CaseInv, GotFresh, Unasked
    <3>3. ASSUME NEW r \in Runs, NEW c \in Accounts, Handles(r, c) PROVE CaseOK(r, c)'
      <4>1. CaseOK(r, c)
        BY <1>3, <3>3 DEF CaseInv
      <4>2. PICK e : e = 0
        OBVIOUS
      <4> QED BY <3>1, <4>1, <4>2, CaseLeft
    <3>4. \A r : \A c : Handles(r, c)' = Handles(r, c)
      BY <1>1 DEF Handles
    <3> QED BY <3>2, <3>3, <3>4 DEF CaseInv
  <2> QED BY <2>2, <2>3 DEF ExamplesNext
<1> QED BY <1>2, <1>3

LEMMA CaseStart == Init => CaseInv
<1> SUFFICES ASSUME Init PROVE CaseInv
  OBVIOUS
<1>1. log = <<>> /\ run = [q \in Runs |-> Idle(q)] /\ DOMAIN log = {}
  BY DEF Init, InitEngine
<1>2. \A r \in Runs : run[r].mode # "parked" /\ run[r].got = 0 /\ Len(run[r].memo) = 0
  BY <1>1 DEF Idle
<1>3. \A c, n : Facts(c, n) = {}
  BY <1>1 DEF Facts, Stream
<1>4. ASSUME NEW r \in Runs, NEW c PROVE CaseOK(r, c)
  <2>1. Heard(run[r]) /\ Closing(run[r]) = 13
    BY <1>2 DEF Heard, Closing
  <2>2. Grounds(run[r], c)
    BY <1>2, <2>1 DEF Grounds
  <2>3. Closed(r, run[r], c) /\ Chained(r, c)
    BY <1>3 DEF Closed, Chained, Has
  <2> QED BY <2>1, <2>2, <2>3 DEF CaseOK
<1>5. Unasked /\ \A r \in Runs : GotFresh(r)
  BY <1>1, <1>2 DEF Unasked, GotFresh
<1> QED BY <1>4, <1>5 DEF CaseInv

Cases == CaseProgram(job) \/ NoCase(job)
LEMMA CasesStart == Init => Cases
BY CaseKinds DEF Init, Cases
LEMMA CasesStay == ASSUME Cases, [ExamplesNext]_exampleVars PROVE Cases'
<1>1. job' = job
  BY JobsStay DEF ExamplesNext, exampleVars, vars
<1> QED BY <1>1 DEF Cases, CaseProgram, NoCase

(* Each answer of a case run is backed by the fact it tells of, and its     *)
(* outcome by the answers, in every state of every program.                 *)
THEOREM CaseInvariance == Spec => [](EngineInv /\ Cases /\ CaseInv)
<1>1. Init => EngineInv /\ InboxInv /\ ActorsOK /\ Cases /\ CaseInv
  BY EngineStart, InboxStart, ActorsStart, CasesStart, CaseStart
<1>2. (EngineInv /\ InboxInv /\ ActorsOK /\ Cases /\ CaseInv) /\ [ExamplesNext]_exampleVars => Cases' /\ CaseInv'
  BY CaseInvSteps, CasesStay
<1> QED BY <1>1, <1>2, ExamplesInvariance, InboxInvariance, ActorsInvariance, PTL DEF Spec

(* What the cases of this deployment promise.                               *)
LEMMA AtMostOne == ASSUME NEW S, \A x, y \in S : x = y PROVE Cardinality(S) \in {0, 1}
<1>1. CASE S = {}
  BY <1>1, FS_EmptySet
<1>2. CASE S # {}
  <2>1. PICK x : x \in S
    BY <1>2
  <2>2. S = {x}
    BY <2>1
  <2> QED BY <2>2, FS_Singleton
<1> QED BY <1>1, <1>2

LEMMA CaseHandling ==
  ASSUME CaseProgram(job), NEW r \in CaseRuns
  PROVE  \E c \in Accounts : Handles(r, c) /\ c = Case(r)
<1>1. r \in Runs /\ job[r].id = "reconciliation-case" /\ CaseJob(r, job[r])
  BY DEF CaseRuns, CaseProgram
<1>2. PICK c \in Accounts : Handles(r, c)
  BY <1>1, CaseJobIds DEF CaseJob, Handles
<1>3. job[r].trigger = <<"fact", c, "case.requested">>
  BY <1>2, CaseHandled
<1> QED BY <1>2, <1>3 DEF Case

LEMMA CaseDone ==
  ASSUME EngineInv, CaseInv, CaseProgram(job), NEW r \in CaseRuns, NEW c \in Accounts, Handles(r, c),
         run[r].mode = "completed"
  PROVE  \E name \in Verdicts : Has(c, name)
<1>1. r \in Runs /\ CaseOK(r, c)
  BY DEF CaseInv, CaseRuns
<1>2. PICK rec : rec = run[r]
  OBVIOUS
<1>3. Heard(rec) /\ Grounds(rec, c) /\ IsPlaced(r)
  BY <1>1, <1>2 DEF CaseOK, EngineInv
<1>4. PICK n \in Nat : n = Len(rec.memo) /\ n = 12
  <2>1. Len(Steps(r)) = 12
    BY CaseHandled
  <2>2. Placed(rec.mode, rec.pc, Len(rec.memo), rec.kept, 12)
    BY <1>2, <1>3, <2>1 DEF IsPlaced
  <2> QED BY <1>2, <2>2 DEF Placed
<1>5. rec.memo[5] \in {1, 2} /\ (rec.memo[5] = 1 => rec.memo[9] \in {1, 2, 3})
  BY <1>3, <1>4 DEF Heard
<1>6. Closing(rec) \in {6, 10, 11, 12}
  BY <1>4, <1>5 DEF Closing
<1>7. Has(c, Verdict(rec))
  BY <1>3, <1>4, <1>6 DEF Grounds
<1> QED BY <1>7 DEF Verdict, Verdicts

LEMMA CaseAskedOnce ==
  ASSUME EngineInv, CaseInv, CaseProgram(job), NEW c
  PROVE  Cardinality(Facts(c, "case.requested")) <= 1
<1>1. ASSUME NEW k \in Facts(c, "case.requested")
      PROVE  k \in DOMAIN log /\ log[k].key = <<<<"reconciliation", c>>, 0>>
  <2>1. k \in DOMAIN log /\ log[k].on = c /\ log[k].name = "case.requested" /\ log[k].about = 0
    BY <1>1 DEF Facts, Stream, CaseInv, Unasked
  <2>2. KeyedFact(k)
    BY <2>1, KeyedFacts, CaseNoDrafts
  <2>3. "case.requested" # "contact"
    OBVIOUS
  <2>4. log[k].key = <<<<"reconciliation", log[k].on>>, log[k].about>>
    BY <2>1, <2>2, <2>3 DEF KeyedFact
  <2> QED BY <2>1, <2>4
<1>2. ASSUME NEW x \in Facts(c, "case.requested"), NEW y \in Facts(c, "case.requested") PROVE x = y
  <2>1. \A a, b : <<a, b>> # <<>>
    OBVIOUS
  <2>2. PICK key : key = <<<<"reconciliation", c>>, 0>>
    OBVIOUS
  <2>4. key # <<>>
    BY <2>1, <2>2
  <2>3. x \in DOMAIN log /\ y \in DOMAIN log /\ log[x].key = key /\ log[y].key = key
    BY <1>1, <1>2, <2>2
  <2> QED BY <2>3, <2>4 DEF EngineInv, KeysDiffer, NoKey
<1> QED BY <1>2, AtMostOne

(* A case that a run handles ends once and in one way, whatever the sweep   *)
(* and the replies do in between (agent.ts, sweep.ts).                      *)
LEMMA CasesEndOnce == ASSUME EngineInv, Cases, CaseInv PROVE OneOutcome
<1>1. SUFFICES ASSUME NEW r \in CaseRuns
      PROVE  LET outcomes == Facts(Case(r), "case.resolved") \cup Facts(Case(r), "case.unresolved") IN
               /\ Cardinality({log[i].name : i \in outcomes}) <= 1
               /\ Cardinality(outcomes) > 1 => \E i \in 6..12 : <<r, "forward", i>> \in hit
               /\ run[r].mode = "completed" => outcomes # {}
               /\ Cardinality(Facts(Case(r), "case.requested")) <= 1
  BY DEF OneOutcome
<1>2. CaseProgram(job) /\ r \in Runs
  BY DEF Cases, NoCase, IsCaseJob, CaseRuns
<1>3. PICK c \in Accounts : Handles(r, c) /\ c = Case(r)
  BY <1>2, CaseHandling
<1>4. Closed(r, run[r], c)
  BY <1>2, <1>3 DEF CaseInv, CaseOK
<1>5. PICK verdict : verdict = Verdict(run[r])
  OBVIOUS
<1> DEFINE outcomes == Facts(c, "case.resolved") \cup Facts(c, "case.unresolved")
<1>6. \A i \in outcomes : log[i].name \in Verdicts /\ i \in Facts(c, log[i].name)
  BY DEF Verdicts, Facts
<1>7. \A i \in outcomes : log[i].name = verdict /\ (Spared(r) => OnlyOne(c, verdict)) /\ i \in Facts(c, verdict)
  <2>1. ASSUME NEW i \in outcomes PROVE log[i].name = verdict /\ (Spared(r) => OnlyOne(c, verdict)) /\ i \in Facts(c, verdict)
    <3>1. PICK name \in Verdicts : name = log[i].name /\ i \in Facts(c, name) /\ Has(c, name)
      BY <1>6, <2>1 DEF Has
    <3> QED BY <1>4, <1>5, <3>1 DEF Closed
  <2> QED BY <2>1
<1>8. Cardinality({log[i].name : i \in outcomes}) <= 1
  <2>1. \A x, y \in {log[i].name : i \in outcomes} : x = y
    BY <1>7
  <2> QED BY <2>1, AtMostOne
<1>9. ASSUME Spared(r) PROVE Cardinality(outcomes) \in {0, 1}
  <2>1. \A x, y \in outcomes : x = y
    BY <1>7, <1>9 DEF OnlyOne
  <2> QED BY <2>1, AtMostOne
<1>10. Cardinality(outcomes) > 1 => \E i \in 6..12 : <<r, "forward", i>> \in hit
  <2>1. SUFFICES ASSUME Spared(r), Cardinality(outcomes) > 1 PROVE FALSE
    BY DEF Spared
  <2>2. PICK n : n = Cardinality(outcomes)
    OBVIOUS
  <2> QED BY <1>9, <2>1, <2>2
<1>11. run[r].mode = "completed" => outcomes # {}
  BY <1>2, <1>3, CaseDone DEF Has, Verdicts
<1>12. Cardinality(Facts(c, "case.requested")) <= 1
  BY <1>2, CaseAskedOnce
<1> QED BY <1>3, <1>8, <1>10, <1>11, <1>12

(* A rule is learned only where a person and then a counterparty said so.   *)
LEMMA CasesAreAuthorized == ASSUME Cases, CaseInv PROVE RulesNeedConfirmation
<1>1. SUFFICES ASSUME NEW r \in CaseRuns, NEW i \in DOMAIN log, log[i].name = "case.resolved", log[i].on = Case(r)
      PROVE  /\ Before(i, Gate(r), "approved")
             /\ \A name \in ChainNames : Before(i, Case(r), name)
  BY DEF RulesNeedConfirmation, ChainNames
<1>2. CaseProgram(job) /\ r \in Runs
  BY DEF Cases, NoCase, IsCaseJob, CaseRuns
<1>3. PICK c \in Accounts : Handles(r, c) /\ c = Case(r)
  BY <1>2, CaseHandling
<1>4. Chained(r, c) /\ i \in Facts(c, "case.resolved")
  BY <1>1, <1>2, <1>3 DEF CaseInv, CaseOK, Facts, Stream
<1> QED BY <1>3, <1>4 DEF Chained, Authorized

(* A case closes once and rightly (agent.ts, sweep.ts, reply.ts), about the *)
(* lines nothing else settled, each in one case (reconcile.ts).             *)
THEOREM CasesStayRight == Spec => []CasesCloseRightly
<1>1. EngineInv /\ Cases /\ CaseInv => CasesCloseRightly
  BY CasesEndOnce, CasesAreAuthorized, CasesAreCut DEF CasesCloseRightly
<1> QED BY <1>1, CaseInvariance, PTL
=============================================================================
