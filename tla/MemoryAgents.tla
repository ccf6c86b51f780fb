----------------------------- MODULE MemoryAgents -----------------------------
(* ai-agent and agents/doc-processor-agent: agents whose tools compute, and *)
(* which append what they did to a memory that a projection folds.          *)
EXTENDS DurableFunctions

(* memory.append; that it then waits for its projection changes nothing.    *)
AppendToMemory(of, name) == Step("memory.append", <<Emit(name, of)>>)

(* ai-agent: one search per planned query, a summary and the memory.        *)
planQueries(depth) == CASE depth = "quick" -> 1..2 [] depth = "standard" -> 1..3 [] depth = "deep" -> 1..5
webSearch(q) == Step(<<"web-search", q>>, <<>>)
summarizeWith == Step("llm.complete", <<>>)
researchAgent(depth) ==
  Function("research-agent", Request,
           [q \in planQueries(depth) |-> webSearch(q)] \o <<summarizeWith, AppendToMemory("agent-memory", "agent.research.completed")>>)

(* The projection keeps a count and a list.                                 *)
Remembered(m, f) ==
  IF f.name = "agent.research.completed" THEN [totalTasks |-> m.totalTasks + 1, topics |-> Append(m.topics, f.by)]
  ELSE m
agentMemory(twice) == Folded(Remembered, [totalTasks |-> 0, topics |-> <<>>], Handled(twice))

-----------------------------------------------------------------------------
(* doc-processor-agent: three tools and the memory.                         *)
ocr == Step("ocr", <<>>)
classify == Step("classify", <<>>)
publish == Step("publish", <<>>)
docProcessor(doc) ==
  Function("doc-processor", OnFact(doc, "doc.received"),
           <<ocr, classify, publish, AppendToMemory(doc, "doc.processed")>>)

(* The projection keeps the last event of each document.                    *)
Kept(docs, f) == IF f.name = "doc.processed" THEN docs \cup {f.on} ELSE docs
docMemory(twice) == Folded(Kept, {}, Handled(twice))

(* scripts/trigger.ts emits, and scripts/verify.ts polls the projection     *)
(* until the document is there or its time is over: the poll here is its    *)
(* last.                                                                    *)
trigger(doc) == Script("trigger", Request, <<Step("emit", <<Emit("doc.received", doc)>>)>>, "stop")
verify(doc) == Script("verify", Request, <<Step("poll", <<View(doc, <<"doc.processed">>), Refuse({0})>>)>>, "stop")

-----------------------------------------------------------------------------
(* A memory that counts and one that keeps the last event, against the runs *)
(* they remember.  The document memory holds exactly the documents some     *)
(* event processed, whichever event reaches the projection twice.  The      *)
(* research memory has one entry per run that remembered, unless that step  *)
(* was executed again after its append: then it counts the run twice.       *)
MemoryAgreesWithRuns ==
  LET Completed(id) == {r \in Runs : job[r].id = id /\ run[r].mode = "completed"}
      Again == {h \in hit : job[h[1]].id = "research-agent"}
      tasks == agentMemory({}).totalTasks IN
    /\ \A n \in 0..Len(log) : docMemory({n}) = docMemory({})
    /\ \A r \in Completed("doc-processor") : job[r].trigger[2] \in docMemory({})
    /\ \A r \in Completed("verify") : job[r].steps[1].does[1].on \in docMemory({})
    /\ Cardinality(Completed("research-agent")) <= tasks
    /\ Again = {} => \A r \in Runs : Cardinality(FactsBy(r, "agent.research.completed")) <= 1
    /\ tasks = Len(agentMemory({}).topics)
=============================================================================
