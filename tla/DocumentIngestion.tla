---- MODULE DocumentIngestion ----
(***************************************************************************)
(* Uploading, indexing, re-indexing and deleting a document                *)
(* (features/documents/service.py, ingestion.py, repository.py).           *)
(*                                                                         *)
(* A document lives in three stores that share no transaction: the file    *)
(* store, the database (the document's row and its chunk rows) and the     *)
(* vector store that retrieval searches.  Each request and each event      *)
(* handler writes them one after the other, on a database session of its   *)
(* own, and nothing keeps two of them off the same document.               *)
(*                                                                         *)
(* The chunks one ingestion makes are one "batch": the row ids of a batch  *)
(* double as its vector ids, and a batch is never made twice.              *)
(***************************************************************************)
EXTENDS Naturals, FiniteSets

CONSTANTS Documents,
          Uploaders,      \* requests that upload, and run the ingestion
          Reindexers,     \* requests, or mirrored events, that re-index
          Deleters,       \* requests that delete
          ForeignKeys,    \* does the database enforce them (SQLite does not)
          Faults,         \* what may go wrong: the "file" store on a local disk, or an
                          \* "object" store, the "pipeline", the "vectors" store, a "crash"
          MaxBatches      \* bound: batches of one behaviour

ASSUME ForeignKeysAssumption == ForeignKeys \in BOOLEAN
ASSUME FaultsAssumption == Faults \subseteq {"file", "object", "pipeline", "vectors", "crash"}
ASSUME BoundAssumption == MaxBatches \in Nat

Workers == Uploaders \cup Reindexers \cup Deleters
None == 0

VARIABLES document,       \* documents.status, "none" before and "deleted" after
          rows,           \* rows[d]: the batch of its committed chunk rows, or None
          file,           \* documents whose file is in the file store
          vectors,        \* pairs <<d, batch>> in the vector store
          work,           \* what each request is doing
          batches,        \* batches made so far
          overlapped,     \* history: documents two requests were at, at one time
          contested,      \* history: those two of which were to ingest it
          faults          \* history: the kinds of fault met so far

vars == <<document, rows, file, vectors, work, batches, overlapped, contested, faults>>

Idle == [at |-> "idle", op |-> "upload", doc |-> CHOOSE d \in Documents : TRUE,
         loaded |-> "none", batch |-> None, ids |-> None]

Init == /\ document = [d \in Documents |-> "none"]
        /\ rows = [d \in Documents |-> None]
        /\ file = {}
        /\ vectors = {}
        /\ work = [w \in Workers |-> Idle]
        /\ batches = 0
        /\ overlapped = {}
        /\ contested = {}
        /\ faults = {}

----------------------------------------------------------------------------
Exists(d) == document[d] \notin {"none", "deleted"}

(* A request holds uncommitted chunk rows from the flush to the commit. *)
Flushed(d) == {w \in Workers : work[w].doc = d /\ work[w].at \in {"upsert", "finish"}}

Doc(w) == work[w].doc
At(w, at) == work[w].at = at
Goto(w, at) == work' = [work EXCEPT ![w].at = at]
Done(w) == work' = [work EXCEPT ![w] = Idle]
SetStatus(w, status) == document' = [document EXCEPT ![Doc(w)] = status]

(* The bound: each request in progress that ingests may still make a batch. *)
Ingesting == {w \in Workers : ~At(w, "idle") /\ work[w].op # "delete"}
Bounded == batches + Cardinality(Ingesting) < MaxBatches

(* A fault of any kind may happen any number of times. *)
Fault(kind) == kind \in Faults /\ faults' = faults \cup {kind}

(* A request begins work on a document. *)
Busy(d) == \E w \in Workers : ~At(w, "idle") /\ Doc(w) = d
NoteOverlap(d) == overlapped' = IF Busy(d) THEN overlapped \cup {d} ELSE overlapped
Ingested(d) == \E w \in Ingesting : Doc(w) = d
NoteContest(d, op) ==
    contested' = IF op # "delete" /\ Ingested(d) THEN contested \cup {d} ELSE contested

----------------------------------------------------------------------------
(* upload: the file, then the row; publishing DocumentUploaded awaits the  *)
(* ingestion.                                                              *)

SaveFile(w, d) ==
    /\ w \in Uploaders
    /\ At(w, "idle")
    /\ document[d] = "none" /\ d \notin file
    /\ Bounded
    /\ file' = file \cup {d}
    /\ work' = [work EXCEPT ![w] = [Idle EXCEPT !.at = "insert", !.doc = d]]
    /\ UNCHANGED <<document, rows, vectors, batches, overlapped, contested, faults>>

InsertDocument(w) ==
    /\ At(w, "insert")
    /\ SetStatus(w, "uploaded")
    /\ Goto(w, "ingest")
    /\ UNCHANGED <<rows, file, vectors, batches, overlapped, contested, faults>>

----------------------------------------------------------------------------
(* ingest. *)

(* The guard: only an UPLOADED document is ingested. *)
Admit(w) ==
    /\ At(w, "ingest")
    /\ IF document[Doc(w)] = "uploaded" THEN Goto(w, "claim") ELSE Done(w)
    /\ UNCHANGED <<document, rows, file, vectors, batches, overlapped, contested, faults>>

Claim(w) ==
    /\ At(w, "claim")
    /\ IF Exists(Doc(w)) THEN SetStatus(w, "processing") /\ Goto(w, "extract")
                         ELSE Done(w) /\ UNCHANGED document
    /\ UNCHANGED <<rows, file, vectors, batches, overlapped, contested, faults>>

Extract(w) ==
    /\ At(w, "extract")
    /\ Goto(w, IF Doc(w) \in file THEN "flush" ELSE "failed")
    /\ UNCHANGED <<document, rows, file, vectors, batches, overlapped, contested, faults>>

(* add_chunks: (document_id, chunk_index) is unique, so the flush waits for*)
(* another session's uncommitted rows and fails on committed ones.         *)
FlushChunks(w) ==
    /\ At(w, "flush")
    /\ Flushed(Doc(w)) = {}
    /\ rows[Doc(w)] = None
    /\ ForeignKeys => Exists(Doc(w))
    /\ batches' = batches + 1
    /\ work' = [work EXCEPT ![w].at = "upsert", ![w].batch = batches + 1]
    /\ UNCHANGED <<document, rows, file, vectors, overlapped, contested, faults>>

FlushRefused(w) ==
    /\ At(w, "flush")
    /\ Flushed(Doc(w)) = {}
    /\ \/ rows[Doc(w)] # None
       \/ ForeignKeys /\ ~Exists(Doc(w))
    /\ Goto(w, "failed")
    /\ UNCHANGED <<document, rows, file, vectors, batches, overlapped, contested, faults>>

Upsert(w) ==
    /\ At(w, "upsert")
    /\ vectors' = vectors \cup {<<Doc(w), work[w].batch>>}
    /\ Goto(w, "finish")
    /\ UNCHANGED <<document, rows, file, batches, overlapped, contested, faults>>

(* Mutant: the status is not advanced. *)
FinishUnmarked(w) ==
    /\ At(w, "finish")
    /\ rows' = [rows EXCEPT ![Doc(w)] = work[w].batch]
    /\ Done(w)
    /\ UNCHANGED <<document, file, vectors, batches, overlapped, contested, faults>>

(* The commit is outside the try block: when the row is gone it raises and *)
(* the session is rolled back.                                             *)
Finish(w) ==
    /\ At(w, "finish")
    /\ IF Exists(Doc(w))
       THEN /\ SetStatus(w, "indexed")
            /\ rows' = [rows EXCEPT ![Doc(w)] = work[w].batch]
       ELSE UNCHANGED <<document, rows>>
    /\ Done(w)
    /\ UNCHANGED <<file, vectors, batches, overlapped, contested, faults>>

(* Extraction, embedding or the vector store raises; a vector store that   *)
(* raises may have stored the vectors first.                               *)
PipelineFails(w) ==
    /\ work[w].at \in {"extract", "upsert"}
    /\ Fault("pipeline")
    /\ \/ UNCHANGED vectors
       \/ At(w, "upsert") /\ vectors' = vectors \cup {<<Doc(w), work[w].batch>>}
    /\ Goto(w, "failed")
    /\ UNCHANGED <<document, rows, file, batches, overlapped, contested>>

(* Rolled back, refreshed and marked; refreshing a deleted row raises. *)
MarkFailed(w) ==
    /\ At(w, "failed")
    /\ IF Exists(Doc(w)) THEN SetStatus(w, "failed") ELSE UNCHANGED document
    /\ Done(w)
    /\ UNCHANGED <<rows, file, vectors, batches, overlapped, contested, faults>>

----------------------------------------------------------------------------
(* reindex and delete_document: the row and the vector ids are read, the   *)
(* rows are changed and committed, the vectors are deleted best-effort.    *)

Load(w, d, op) ==
    /\ At(w, "idle")
    /\ Exists(d)
    /\ work' = [work EXCEPT ![w] = [Idle EXCEPT !.at = "read_ids", !.op = op, !.doc = d,
                                                !.loaded = document[d]]]
    /\ NoteOverlap(d)
    /\ NoteContest(d, op)
    /\ UNCHANGED <<document, rows, file, vectors, batches, faults>>

StartReindex(w, d) ==
    /\ w \in Reindexers
    /\ Bounded
    /\ Load(w, d, "reindex")

StartDelete(w, d) == w \in Deleters /\ Load(w, d, "delete")

(* Mutant: the ids are read when the rows are gone. *)
ReadIdsTooLate(w) ==
    /\ At(w, "read_ids")
    /\ work' = [work EXCEPT ![w].at = work[w].op, ![w].ids = None]
    /\ UNCHANGED <<document, rows, file, vectors, batches, overlapped, contested, faults>>

(* chunk_vector_ids sees committed chunk rows only. *)
ReadIds(w) ==
    /\ At(w, "read_ids")
    /\ work' = [work EXCEPT ![w].at = work[w].op, ![w].ids = rows[Doc(w)]]
    /\ UNCHANGED <<document, rows, file, vectors, batches, overlapped, contested, faults>>

(* Mutants: the chunk rows stay; the status stays. *)
TearDownKeepingRows(w) ==
    /\ At(w, "reindex")
    /\ IF Exists(Doc(w)) THEN SetStatus(w, "uploaded") ELSE UNCHANGED document
    /\ Goto(w, IF work[w].ids = None THEN "ingest" ELSE "forget")
    /\ UNCHANGED <<rows, file, vectors, batches, overlapped, contested, faults>>

(* delete_chunks deletes whatever rows are committed NOW.  The status is   *)
(* written only if it differs from the one LOADED, and writing it raises   *)
(* when the row is gone.                                                   *)
TearDown(w) ==
    LET writes == work[w].loaded # "uploaded"
    IN  /\ At(w, "reindex")
        /\ rows' = [rows EXCEPT ![Doc(w)] = None]
        /\ IF writes /\ Exists(Doc(w)) THEN SetStatus(w, "uploaded")
                                       ELSE UNCHANGED document
        /\ IF writes /\ ~Exists(Doc(w)) THEN Done(w)
           ELSE Goto(w, IF work[w].ids = None THEN "ingest" ELSE "forget")
        /\ UNCHANGED <<file, vectors, batches, overlapped, contested, faults>>

(* Mutant: the chunk rows are left to a cascade SQLite does not run. *)
DeleteRowsByCascade(w) ==
    /\ At(w, "delete")
    /\ Flushed(Doc(w)) = {}
    /\ SetStatus(w, "deleted")
    /\ Goto(w, "remove_file")
    /\ UNCHANGED <<rows, file, vectors, batches, overlapped, contested, faults>>

(* Deleting the row waits for uncommitted chunk rows that refer to it (the *)
(* foreign key's lock; on SQLite, the writer's) and takes them with it.    *)
DeleteRows(w) ==
    /\ At(w, "delete")
    /\ Flushed(Doc(w)) = {}
    /\ SetStatus(w, "deleted")
    /\ rows' = [rows EXCEPT ![Doc(w)] = None]
    /\ Goto(w, "remove_file")
    /\ UNCHANGED <<file, vectors, batches, overlapped, contested, faults>>

(* A file that will not go is logged, and the vectors' turn comes: what a  *)
(* local disk raises is an OSError, and delete_document catches no other.  *)
AfterFile(w) == IF work[w].ids = None THEN Done(w) ELSE Goto(w, "forget")

RemoveFile(w) ==
    /\ At(w, "remove_file")
    /\ file' = file \ {Doc(w)}
    /\ AfterFile(w)
    /\ UNCHANGED <<document, rows, vectors, batches, overlapped, contested, faults>>

RemoveFileFails(w) ==
    /\ At(w, "remove_file")
    /\ Fault("file")
    /\ AfterFile(w)
    /\ UNCHANGED <<document, rows, file, vectors, batches, overlapped, contested>>

(* An object store raises an error of its own, which ends the request:     *)
(* before the row of an upload, before the vectors of a deletion.  What it *)
(* was asked may have been done, its answer lost.                          *)
StorageRefuses(w) ==
    /\ work[w].at \in {"insert", "remove_file"}
    /\ Fault("object")
    /\ file' \in {file, file \ {Doc(w)}}
    /\ Done(w)
    /\ UNCHANGED <<document, rows, vectors, batches, overlapped, contested>>

AfterVectors(w) == IF work[w].op = "reindex" THEN Goto(w, "ingest") ELSE Done(w)

ForgetVectors(w) ==
    /\ At(w, "forget")
    /\ vectors' = vectors \ {<<Doc(w), work[w].ids>>}
    /\ AfterVectors(w)
    /\ UNCHANGED <<document, rows, file, batches, overlapped, contested, faults>>

ForgetVectorsFails(w) ==
    /\ At(w, "forget")
    /\ Fault("vectors")
    /\ AfterVectors(w)
    /\ UNCHANGED <<document, rows, file, vectors, batches, overlapped, contested>>

(* The request or the process is lost; uncommitted rows go with it. *)
Crash(w) ==
    /\ ~At(w, "idle")
    /\ Fault("crash")
    /\ Done(w)
    /\ UNCHANGED <<document, rows, file, vectors, batches, overlapped, contested>>

IngestStep(w) ==
    \/ InsertDocument(w) \/ Admit(w) \/ Claim(w) \/ Extract(w)
    \/ FlushChunks(w) \/ FlushRefused(w) \/ Upsert(w) \/ Finish(w) \/ MarkFailed(w)

ChangeStep(w) ==
    \/ ReadIds(w) \/ TearDown(w) \/ DeleteRows(w) \/ RemoveFile(w) \/ ForgetVectors(w)

FaultStep(w) ==
    \/ PipelineFails(w) \/ RemoveFileFails(w) \/ StorageRefuses(w)
    \/ ForgetVectorsFails(w) \/ Crash(w)

Next == \E w \in Workers :
            \/ IngestStep(w) \/ ChangeStep(w) \/ FaultStep(w)
            \/ \E d \in Documents :
                  SaveFile(w, d) \/ StartReindex(w, d) \/ StartDelete(w, d)

Spec == Init /\ [][Next]_vars

(* The event loop runs every accepted request to its end. *)
FairSpec == Spec /\ \A w \in Workers : WF_vars(IngestStep(w) \/ ChangeStep(w))

----------------------------------------------------------------------------
(* Properties. *)

(* What the database names is there, through concurrent ingestions,        *)
(* re-indexings, deletions, failures and lost requests.  "A surviving DB   *)
(* row pointing at deleted content would be a bug" (delete_document): a    *)
(* row never outlives its file, nor chunk rows their document.  And a      *)
(* committed chunk has its vector: vectors are written before the rows     *)
(* that name them commit, and deleted after those rows are.                *)
RowsHaveContent ==
    \A d \in Documents : /\ Exists(d) => d \in file
                         /\ rows[d] # None => Exists(d) /\ <<d, rows[d]>> \in vectors

(* The status tells what retrieval can find: an INDEXED document has       *)
(* chunks, a FAILED one has none, whatever is deleted, fails or is lost    *)
(* meanwhile.  That is so of documents no two ingestions were ever at: of  *)
(* two, the one that loses marks FAILED what the other indexed, and one    *)
(* that loaded UPLOADED takes the chunks of an INDEXED document and leaves *)
(* its status.                                                             *)
StatusMatchesChunks ==
    \A d \in Documents \ contested :
        /\ document[d] = "indexed" => rows[d] # None
        /\ document[d] = "failed" => rows[d] = None

Resting(d) == \A w \in Workers : Doc(w) # d \/ At(w, "idle")

(* Retrieval's vector half returns what the vector store matches and asks  *)
(* the database nothing: at rest, what it matches belongs to a live chunk, *)
(* unless requests overlapped on the document, or vectors were left behind *)
(* by a failure of the vector store, the pipeline or the process, or of an *)
(* object store, whose refusal ends a deletion before its vectors.  A file *)
(* a local disk will not remove leaves none.                               *)
NoStaleVectors ==
    faults \subseteq {"file"} =>
        \A v \in vectors : Resting(v[1]) /\ v[1] \notin overlapped => rows[v[1]] = v[2]

(* "An orphaned file or vector is harmless" (delete_document), and yet     *)
(* retrieval returns what the vector store matches: none of the text of a  *)
(* deleted document is there once its deletion is over.                    *)
DeletedIsForgotten ==
    \A v \in vectors : Resting(v[1]) => document[v[1]] # "deleted"

(* A document leaves PROCESSING: indexed, failed, or claimed by another    *)
(* operation, unless the process died.                                     *)
ProcessingEnds ==
    \A d \in Documents : document[d] = "processing" ~>
        document[d] # "processing" \/ "crash" \in faults
====
