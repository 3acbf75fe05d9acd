---- MODULE LongTermMemory ----
(***************************************************************************)
(* Durable memories (features/memory/service.py): a row in the database    *)
(* and, under the row's id, a vector in a store of its own.  The two are   *)
(* written and deleted one after the other, and each step may fail or be   *)
(* the request's last.                                                     *)
(***************************************************************************)
EXTENDS Naturals, FiniteSets

CONSTANTS Entries,    \* ids of memories; an id is never used twice
          Requests,   \* requests under way at a time
          TopK        \* matches a recall asks for

VARIABLES row,        \* the committed row of each entry: none, plain, indexed
          vectors,    \* the entries the vector store holds
          born,       \* ids that were given out
          request     \* what each request is doing

vars == <<row, vectors, born, request>>

Idle == [at |-> "idle", entries |-> {}, indexed |-> FALSE, gone |-> {}]

Remembering(e) ==
    \E r \in Requests : request[r].at \in {"index", "commit"} /\ e \in request[r].entries

(* Forgotten, or lost before it was committed.  A recall's "gone" is       *)
(* history: what was so when it began.                                     *)
Forgotten == {e \in born : row[e] = "none" /\ ~Remembering(e)}

Init == /\ row = [e \in Entries |-> "none"]
        /\ vectors = {}
        /\ born = {}
        /\ request = [r \in Requests |-> Idle]

----------------------------------------------------------------------------
Goto(r, step) == request' = [request EXCEPT ![r].at = step]

(* remember: the row is added, and waits for its commit, ... *)
Remember(r, e) ==
    /\ request[r].at = "idle"
    /\ e \notin born
    /\ born' = born \cup {e}
    /\ request' = [request EXCEPT ![r] = [Idle EXCEPT !.at = "index", !.entries = {e}]]
    /\ UNCHANGED <<row, vectors>>

(* ... then indexed.  A failure is swallowed, and may hide that the store  *)
(* took the vector.                                                        *)
Index(r, taken, answered) ==
    /\ request[r].at = "index"
    /\ answered => taken
    /\ vectors' = IF taken THEN vectors \cup request[r].entries ELSE vectors
    /\ request' = [request EXCEPT ![r].at = "commit", ![r].indexed = answered]
    /\ UNCHANGED <<row, born>>

(* Mutant: the row names its vector whether the store took it or not. *)
CommitNaming(r) ==
    /\ request[r].at = "commit"
    /\ row' = [e \in Entries |-> IF e \in request[r].entries THEN "indexed" ELSE row[e]]
    /\ request' = [request EXCEPT ![r] = Idle]
    /\ UNCHANGED <<vectors, born>>

(* The row is committed, and names its vector only if that was stored. *)
Commit(r) ==
    /\ request[r].at = "commit"
    /\ row' = [e \in Entries |->
                IF e \notin request[r].entries THEN row[e]
                ELSE IF request[r].indexed THEN "indexed" ELSE "plain"]
    /\ request' = [request EXCEPT ![r] = Idle]
    /\ UNCHANGED <<vectors, born>>

(* recall: the nearest vectors, any TopK of them ... *)
Match(r, matches) ==
    /\ request[r].at = "idle"
    /\ matches \subseteq vectors
    /\ Cardinality(matches) = (IF Cardinality(vectors) < TopK THEN Cardinality(vectors) ELSE TopK)
    /\ request' = [request EXCEPT ![r] =
            [Idle EXCEPT !.at = "hydrate", !.entries = matches, !.gone = Forgotten]]
    /\ UNCHANGED <<row, vectors, born>>

(* ... of which those with a row are the answer. *)
Hydrate(r) ==
    /\ request[r].at = "hydrate"
    /\ request' = [request EXCEPT ![r].at = "answered",
                                  ![r].entries = {e \in @ : row[e] # "none"}]
    /\ UNCHANGED <<row, vectors, born>>

Answered(r) ==
    /\ request[r].at = "answered"
    /\ request' = [request EXCEPT ![r] = Idle]
    /\ UNCHANGED <<row, vectors, born>>

(* forget: the row is read ... *)
StartForget(r, e) ==
    /\ request[r].at = "idle"
    /\ row[e] # "none"
    /\ request' = [request EXCEPT ![r] =
            [Idle EXCEPT !.at = "delete", !.entries = {e}, !.indexed = row[e] = "indexed"]]
    /\ UNCHANGED <<row, vectors, born>>

(* ... deleted, ... *)
DeleteRow(r) ==
    /\ request[r].at = "delete"
    /\ row' = [e \in Entries |-> IF e \in request[r].entries THEN "none" ELSE row[e]]
    /\ request' = [request EXCEPT ![r] =
            IF request[r].indexed THEN [request[r] EXCEPT !.at = "delete vector"] ELSE Idle]
    /\ UNCHANGED <<vectors, born>>

(* ... and then its vector, if the row named one and the store answers. *)
DeleteVector(r, taken) ==
    /\ request[r].at = "delete vector"
    /\ vectors' = IF taken THEN vectors \ request[r].entries ELSE vectors
    /\ request' = [request EXCEPT ![r] = Idle]
    /\ UNCHANGED <<row, born>>

(* The request is lost at any step; what it had not committed is undone. *)
Lose(r) ==
    /\ request[r].at \notin {"idle", "answered"}
    /\ request' = [request EXCEPT ![r] = Idle]
    /\ UNCHANGED <<row, vectors, born>>

Next == \E r \in Requests :
            \/ \E e \in Entries : Remember(r, e) \/ StartForget(r, e)
            \/ \E taken, answered \in BOOLEAN : Index(r, taken, answered)
            \/ Commit(r)
            \/ \E matches \in SUBSET vectors : Match(r, matches)
            \/ Hydrate(r)
            \/ Answered(r)
            \/ DeleteRow(r)
            \/ \E taken \in BOOLEAN : DeleteVector(r, taken)
            \/ Lose(r)

Spec == Init /\ [][Next]_vars

----------------------------------------------------------------------------
(* Properties. *)

(* "Callers can tell the difference": a row that names a vector can be     *)
(* recalled by it, and an orphan vector "must not resurrect a forgotten    *)
(* fact": what was forgotten when a recall began is not in its answer,     *)
(* whatever failed or was lost before.                                     *)
RowsDecideRecall ==
    /\ \A e \in Entries : row[e] = "indexed" => e \in vectors
    /\ \A r \in Requests :
          request[r].at = "answered" => request[r].entries \cap request[r].gone = {}
====
