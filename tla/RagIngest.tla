------------------------------ MODULE RagIngest ------------------------------
(* rag-core/workflows/ingest-corpus.ts: one step per document reads it,     *)
(* embeds its chunks and emits one event per chunk, then one that says the  *)
(* document is indexed, all of them keyed by the content.                   *)
EXTENDS DurableFunctions

Chunks == {"chunk1", "chunk2"}

ListCorpus == Step("list-corpus", <<>>)

(* The file is read when the step executes.                                 *)
EmbedAndEmit(doc) ==
  Step(doc, <<Get(doc), EmitOnce("chunk-embedded", "chunk1", "chunk1"), EmitOnce("chunk-embedded", "chunk2", "chunk2"),
              EmitOnce("doc-indexed", doc, doc)>>)

IngestCorpus(doc) == Function("ingest-corpus", Request, <<ListCorpus, EmbedAndEmit(doc)>>)

(* Somebody edits the file in between.                                      *)
Edit(doc) == Script("edit", Request, <<Step("edit", <<Put(doc, Newer)>>)>>, "stop")

(* The external projection: insertChunk keeps the first row of a chunk.     *)
VectorIndex == {<<f.on, f.about>> : f \in {log[i] : i \in {j \in DOMAIN log : log[j].name = "chunk-embedded"}}}

(* An event says a document is indexed only when every chunk of the content *)
(* it names is in the index, and no event of a content is recorded twice,   *)
(* although ingests overlap, die half way and read an edited file.          *)
IndexedIsComplete ==
  /\ \A i \in DOMAIN log : log[i].name = "doc-indexed" =>
       \A c \in Chunks : <<c, log[i].about>> \in VectorIndex
  /\ \A i, j \in DOMAIN log :
       i # j /\ log[i].name \in {"doc-indexed", "chunk-embedded"} /\ log[j].name = log[i].name
       => <<log[i].on, log[i].about>> # <<log[j].on, log[j].about>>
=============================================================================
