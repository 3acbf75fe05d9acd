---- MODULE GroundedAnswer ----
(***************************************************************************)
(* One streamed question (features/rag/service.py ask_stream, with the     *)
(* fusion of platform/rag/fusion.py and the recorder of                    *)
(* platform/observability/recorder.py): retrieve by vector and by keyword, *)
(* fuse, rerank, compress, generate, and audit the model call.             *)
(*                                                                         *)
(* The retrievers, the reranker and the model are outside: each ranks, or  *)
(* answers, or fails as it likes.  What compression keeps is any selection *)
(* here; ContextBudget models which.                                       *)
(***************************************************************************)
EXTENDS Integers, Sequences, FiniteSets, SequencesExt

CONSTANTS Chunks,      \* ids of indexed chunks, numbers: ties break on them
          Depth,       \* candidates a retriever is asked for
          TopK,        \* chunks asked for
          Scale,       \* scores are whole numbers of 1 / Scale
          MaxDeltas    \* bound: pieces of text the model streams

VARIABLES at, vector, keyword, candidates, kept, frames, calls, records, unsaved

vars == <<at, vector, keyword, candidates, kept, frames, calls, records, unsaved>>

Init == /\ at = "vector"
        /\ vector = <<>>
        /\ keyword = <<>>
        /\ candidates = <<>>
        /\ kept = <<>>
        /\ frames = <<>>
        /\ calls = 0
        /\ records = <<>>
        /\ unsaved = FALSE

----------------------------------------------------------------------------
(* Reciprocal rank fusion. *)

Rankings(most) == {s \in SeqOf(Chunks, most) : IsInjective(s)}

Rank(ranking, c) == CHOOSE i \in DOMAIN ranking : ranking[i] = c

(* 1 / (k + rank) with k = 60, exact because Scale is a common multiple.   *)
Weight(ranking, c) ==
    IF Contains(ranking, c) THEN Scale \div (60 + Rank(ranking, c)) ELSE 0

(* Mutant: a chunk counts with its better rank only. *)
BestWeight(c) ==
    LET v == Weight(vector, c)  k == Weight(keyword, c)
    IN  IF v > k THEN v ELSE k

Score(c) == Weight(vector, c) + Weight(keyword, c)

(* Best first, ties by id; with one ranking empty it is the other.  There  *)
(* is one such order.                                                      *)
Better(c, d) == Score(c) > Score(d) \/ (Score(c) = Score(d) /\ c < d)

Fused ==
    {order \in SetToSeqs(ToSet(vector) \cup ToSet(keyword)) :
        \A i, j \in DOMAIN order : i < j => Better(order[i], order[j])}

----------------------------------------------------------------------------
(* Retrieval. *)

Frame(type, chunks) == [type |-> type, chunks |-> chunks]

(* A vector half that fails is an error, and no frame has been sent. *)
VectorSearch(ranking) ==
    /\ at = "vector"
    /\ vector' = ranking
    /\ at' = "keyword"
    /\ UNCHANGED <<keyword, candidates, kept, frames, calls, records, unsaved>>

VectorFails ==
    /\ at = "vector"
    /\ at' = "refused"
    /\ UNCHANGED <<vector, keyword, candidates, kept, frames, calls, records, unsaved>>

(* A keyword half that is off, finds nothing or fails ranks nothing. *)
KeywordSearch(ranking) ==
    /\ at = "keyword"
    /\ keyword' = ranking
    /\ at' = "fuse"
    /\ UNCHANGED <<vector, candidates, kept, frames, calls, records, unsaved>>

(* "When retrieval finds nothing the LLM is skipped entirely". *)
NoContext == /\ frames' = <<Frame("sources", <<>>), Frame("delta", <<>>), Frame("done", <<>>)>>
             /\ at' = "done"

Fuse ==
    /\ at = "fuse"
    /\ candidates' \in Fused
    /\ IF candidates' = <<>> THEN NoContext ELSE at' = "rerank" /\ UNCHANGED frames
    /\ UNCHANGED <<vector, keyword, kept, calls, records, unsaved>>

(* The reranker's choice, or the fused order if there is none, if there is *)
(* nothing to order or if it fails; then the first TopK.                   *)
Rerank(order) ==
    /\ at = "rerank"
    /\ \/ order = candidates
       \/ Len(candidates) > 1 /\ ToSet(order) \subseteq ToSet(candidates) /\ Len(order) <= TopK
    /\ candidates' = SubSeq(order, 1, IF Len(order) < TopK THEN Len(order) ELSE TopK)
    /\ IF candidates' = <<>> THEN NoContext ELSE at' = "compress" /\ UNCHANGED frames
    /\ UNCHANGED <<vector, keyword, kept, calls, records, unsaved>>

(* Compression keeps some of them, in their order; the sources are sent. *)
Compress(selected) ==
    /\ at = "compress"
    /\ kept' = SelectSeq(candidates, LAMBDA c : c \in selected)
    /\ IF kept' = <<>> THEN NoContext
       ELSE at' = "generate" /\ frames' = <<Frame("sources", kept')>>
    /\ UNCHANGED <<vector, keyword, candidates, calls, records, unsaved>>

----------------------------------------------------------------------------
(* Generation. *)

Send(type) == frames' = Append(frames, Frame(type, <<>>))

(* _record: never raises; a write that fails is logged. *)
Record(error) ==
    \/ records' = Append(records, [error |-> error]) /\ UNCHANGED unsaved
    \/ unsaved' = TRUE /\ UNCHANGED records

(* The model is called with what was kept. *)
Generate ==
    /\ at = "generate"
    /\ calls' = calls + 1
    /\ at' \in {"stream", "chat"}
    /\ UNCHANGED <<vector, keyword, candidates, kept, frames, records, unsaved>>

(* A provider that cannot stream is asked for the whole answer, which may  *)
(* be empty.                                                               *)
ChatAnswers ==
    /\ at = "chat"
    /\ Record(FALSE)
    /\ Send("delta") \/ UNCHANGED frames
    /\ at' = "finish"
    /\ UNCHANGED <<vector, keyword, candidates, kept, calls>>

Delta ==
    /\ at = "stream"
    /\ Len(frames) <= MaxDeltas
    /\ Send("delta")
    /\ UNCHANGED <<at, vector, keyword, candidates, kept, calls, records, unsaved>>

(* Recorded when the provider has nothing more, whether or not it said it  *)
(* was done.                                                               *)
StreamEnds ==
    /\ at = "stream"
    /\ Record(FALSE)
    /\ at' = "finish"
    /\ UNCHANGED <<vector, keyword, candidates, kept, frames, calls>>

Finish ==
    /\ at = "finish"
    /\ Send("done")
    /\ at' = "done"
    /\ UNCHANGED <<vector, keyword, candidates, kept, calls, records, unsaved>>

(* Mutant: what fails is not recorded. *)
ModelFailsUnrecorded ==
    /\ at \in {"stream", "chat"}
    /\ Send("error")
    /\ at' = "error"
    /\ UNCHANGED <<vector, keyword, candidates, kept, calls, records, unsaved>>

(* "Failures are recorded too", and reported in-band. *)
ModelFails ==
    /\ at \in {"stream", "chat"}
    /\ Record(TRUE)
    /\ Send("error")
    /\ at' = "error"
    /\ UNCHANGED <<vector, keyword, candidates, kept, calls>>

(* The client goes.  A stream's cleanup records the call, unless it is     *)
(* itself cancelled; a cancelled chat records nothing.                     *)
Leave ==
    /\ at \in {"stream", "chat", "finish"}
    /\ at' = "left"
    /\ IF at = "stream" THEN Record(FALSE) ELSE UNCHANGED <<records, unsaved>>
    /\ UNCHANGED <<vector, keyword, candidates, kept, frames, calls>>

Next == \/ \E ranking \in Rankings(Depth) : VectorSearch(ranking) \/ KeywordSearch(ranking)
        \/ \E order \in Rankings(Cardinality(Chunks)) : Rerank(order)
        \/ VectorFails
        \/ Fuse
        \/ \E selected \in SUBSET Chunks : Compress(selected)
        \/ Generate
        \/ ChatAnswers
        \/ Delta
        \/ StreamEnds
        \/ Finish
        \/ ModelFails
        \/ Leave

Spec == Init /\ [][Next]_vars

----------------------------------------------------------------------------
(* Properties. *)

Ahead(c, d) == Rank(candidates, c) < Rank(candidates, d)

(* Placed at least as well by both, and better by one. *)
Preferred(c, d) ==
    /\ Weight(vector, c) >= Weight(vector, d) /\ Weight(keyword, c) >= Weight(keyword, d)
    /\ Weight(vector, c) > Weight(vector, d) \/ Weight(keyword, c) > Weight(keyword, d)

(* A chunk both retrievers prefer to another is ahead of it, and           *)
(* "agreement between two independent methods is the signal": one that     *)
(* both found is ahead of one that only one of them did.                   *)
AgreementWins ==
    at = "rerank" =>
        LET both == ToSet(vector) \cap ToSet(keyword)
        IN  \A c, d \in ToSet(candidates) :
                Preferred(c, d) \/ (c \in both /\ d \notin both) => Ahead(c, d)

(* "Sources (once, first), then delta, then done" or error, the sources    *)
(* being what the model saw; and one record per model call, saying whether *)
(* it failed, unless it could not be written or the client had left.       *)
AnswerAccounted ==
    /\ \A i \in DOMAIN frames :
          /\ frames[i].type = "sources" <=> i = 1
          /\ frames[i].type \in {"done", "error"} =>
                i = Len(frames) /\ at = frames[i].type
    /\ at \in {"done", "error"} => Last(frames).type = at
    /\ calls > 0 => kept # <<>> /\ frames[1].chunks = kept
    /\ at \in {"done", "error"} /\ ~unsaved =>
          records = [n \in 1..calls |-> [error |-> at = "error"]]
====
