---- MODULE PlatformProofs ----
(***************************************************************************)
(* Proofs about the parts of the platform, of its specification: start-up, *)
(* uploads, the stores and the schema, for every finite set of processes,  *)
(* every set of keys, uploads, runs and containers, and every limit and    *)
(* bound.                                                                  *)
(* Each part has an inductive invariant of its own variables, which the    *)
(* steps of the other parts leave alone.                                   *)
(***************************************************************************)
EXTENDS MCPlatform, FiniteSetTheorems, WellFoundedInduction, TLAPS

----------------------------------------------------------------------------
(* Boot: Startup. *)

Statements == {"down", "discover", "bus", "checkpointer", "scheduler", "serving", "stop_bus",
               "stop_checkpointer", "dispose"}
Saving == {"scheduler", "serving", "stop_bus", "stop_checkpointer"}

(* What is held open at each statement of the lifespan. *)
HeldOpen ==
    /\ started \subseteq {"database", "bus", "checkpointer", "scheduler"}
    /\ at = "down" => started = {}
    /\ at # "down" => "database" \in started
    /\ at \in {"discover", "bus", "checkpointer"} => started \subseteq {"database", "bus"}
    /\ at \in {"scheduler", "serving"} => "checkpointer" \in started
    /\ at = "scheduler" => started \subseteq {"database", "bus", "checkpointer"}
    /\ at = "stop_bus" => started \subseteq {"database", "bus", "checkpointer"}
    /\ at = "stop_checkpointer" => started \subseteq {"database", "checkpointer"}
    /\ at = "dispose" => started \subseteq {"database"}

(* Checkpoints go where the rows are, and a run that is paused, or about   *)
(* to be, has one there.                                                   *)
BootInv ==
    /\ at \in Statements
    /\ settings.database \in Boot!Stores
    /\ checkpoints \in [Boot!Stores -> SUBSET Runs]
    /\ status \in [Runs -> {"none", "running", "paused", "completed", "failed"}]
    /\ pausing \subseteq Runs
    /\ at # "serving" => pausing = {}
    /\ downgraded \in BOOLEAN
    /\ HeldOpen
    /\ ~downgraded /\ at \in Saving => saver = settings.database
    /\ ~downgraded => \A run \in Runs : status[run] = "paused" \/ run \in pausing =>
                                           run \in checkpoints[settings.database]

LEMMA BootInitial == PlatformInit => BootInv
  BY ConfigurationsAssumption DEF PlatformInit, Boot!Init, BootInv, HeldOpen, Statements, Saving, Boot!Stores

LEMMA BootMoves == [PlatformNext]_allVars => Boot!Next \/ UNCHANGED bootVars
  BY DEF PlatformNext, allVars

LEMMA BootStep == BootInv /\ [PlatformNext]_allVars => BootInv'
<1> SUFFICES ASSUME BootInv, [PlatformNext]_allVars PROVE BootInv'
  OBVIOUS
<1> USE DEF BootInv, HeldOpen, Statements, Saving, Boot!Stores, Boot!durable
<1>1. CASE Boot!CreateApp
  BY <1>1 DEF Boot!CreateApp
<1>2. CASE Boot!Discover
  BY <1>2 DEF Boot!Discover
<1>3. CASE Boot!StartBus
  BY <1>3 DEF Boot!StartBus
<1>4. CASE Boot!StartCheckpointer
  BY <1>4 DEF Boot!StartCheckpointer, Boot!Backend
<1>5. CASE Boot!StartScheduler
  BY <1>5 DEF Boot!StartScheduler
<1>6. CASE Boot!Crash
  BY <1>6 DEF Boot!Crash
<1>7. CASE Boot!StopScheduler
  BY <1>7 DEF Boot!StopScheduler, Boot!Close
<1>8. CASE Boot!StopBus
  BY <1>8 DEF Boot!StopBus, Boot!Close
<1>9. CASE Boot!StopCheckpointer
  BY <1>9 DEF Boot!StopCheckpointer, Boot!Close
<1>10. CASE Boot!Dispose
  BY <1>10 DEF Boot!Dispose, Boot!Close
<1>11. CASE Boot!Redeploy
  BY <1>11 DEF Boot!Redeploy
<1>12. ASSUME NEW run \in Runs, Boot!Interrupt(run) PROVE BootInv'
  BY <1>12 DEF Boot!Interrupt
<1>13. ASSUME NEW run \in Runs, Boot!CommitPause(run) PROVE BootInv'
  BY <1>13 DEF Boot!CommitPause
<1>14. ASSUME NEW run \in Runs, Boot!Resume(run) PROVE BootInv'
  BY <1>14 DEF Boot!Resume
<1>15. CASE UNCHANGED bootVars
  BY <1>15 DEF bootVars
<1> QED
  BY <1>1, <1>2, <1>3, <1>4, <1>5, <1>6, <1>7, <1>8, <1>9, <1>10, <1>11, <1>12, <1>13, <1>14,
     <1>15, BootMoves DEF Boot!Next

(* Whatever containers stop, crash, resume and are redeployed, a run the   *)
(* database calls paused has a checkpoint in the saver of the process that *)
(* serves, as long as no boot fell back to the local file; and the         *)
(* scheduler and the bus run only over a database that is open, the        *)
(* scheduler over a checkpointer as well (lifespan, WorkflowCheckpointer). *)
THEOREM PausedRunsAreKept == PlatformSpec => []PausedRunsSurvive
<1>1. BootInv => PausedRunsSurvive
  BY DEF BootInv, HeldOpen, Saving, Statements, Boot!Stores, PausedRunsSurvive, Boot!PausedRunsSurvive
<1> QED BY <1>1, BootInitial, BootStep, PTL DEF PlatformSpec

----------------------------------------------------------------------------
(* Uploads: Intake. *)

Mimes == {"pdf", "docx", "xlsx", "text", "csv", "png", "jpeg"}
Stored == {"stored", "failed", "indexed"}
Filed == [at : {"absent", "refused"} \cup Stored, file : Files!Files \cup {Files!NoFile},
          mime : Mimes \cup {"none"}, by : {"none", "parser", "ocr"}, read : Nat]

FilesTypeOK ==
    /\ document \in [Uploads -> Filed]
    /\ changes \in Nat

(* What is stored was admitted, on this deployment if it is the first.     *)
StoredInv(d) ==
    d.at \in Stored =>
       /\ d.mime \in Mimes
       /\ d.file.bytes \in 1..MAX_BYTES
       /\ Files!MatchesContent(d.mime, d.file.holds)
       /\ changes = 0 => ocr_enabled \/ d.mime \notin Files!RequiresOcr

(* What came of reading it. *)
FailedInv(d) ==
    d.at = "failed" /\ changes = 0 =>
        \/ d.by = "parser" /\ (~d.file.words \/ d.file.holds # d.mime)
        \/ d.by = "ocr" /\ (~d.file.legible \/ ~engine \/ d.mime = "pdf")
IndexedInv(d) ==
    d.at = "indexed" =>
        /\ d.file.holds = (IF d.mime \in {"text", "csv"} THEN "utf8" ELSE d.mime)
        /\ d.read = d.file.pages \/ (d.by = "ocr" /\ d.read = IF d.file.holds = "pdf" THEN MAX_PAGES ELSE 1)
        /\ d.by = "ocr" => ~(d.file.holds = "pdf" /\ d.file.words)

FilesInv ==
    /\ FilesTypeOK
    /\ \A u \in Uploads : StoredInv(document[u]) /\ FailedInv(document[u]) /\ IndexedInv(document[u])

LEMMA FilesInitial == PlatformInit => FilesInv
<1> SUFFICES ASSUME PlatformInit PROVE FilesInv
  OBVIOUS
<1>1. document = [u \in Uploads |-> Files!Absent] /\ changes = 0
  BY DEF PlatformInit, Files!Init
<1>2. Files!Absent \in Filed /\ Files!Absent.at = "absent"
  BY DEF Files!Absent, Filed
<1> QED BY <1>1, <1>2 DEF FilesInv, FilesTypeOK, StoredInv, FailedInv, IndexedInv, Stored

(* One upload moves, with the deployment as it is.                         *)
LEMMA OneFiled ==
    ASSUME FilesInv, NEW u \in Uploads, NEW d \in Filed, document' = [document EXCEPT ![u] = d],
           StoredInv(d), FailedInv(d), IndexedInv(d),
           UNCHANGED <<ocr_enabled, engine, changes>>
    PROVE  FilesInv'
  BY DEF FilesInv, FilesTypeOK, StoredInv, FailedInv, IndexedInv

LEMMA CanonicalTypes ==
    \A e \in DOMAIN Files!Canonical : Files!Canonical[e] \in Mimes
  BY DEF Files!Canonical, Mimes

LEMMA UploadInv == ASSUME FilesInv, NEW u \in Uploads, Files!Upload(u) PROVE FilesInv'
<1>1. PICK f \in Files!Files :
        document' = [document EXCEPT ![u] =
            IF Files!Admitted(f)
            THEN [Files!Absent EXCEPT !.at = "stored", !.file = f, !.mime = Files!Canonical[f.name]]
            ELSE [Files!Absent EXCEPT !.at = "refused"]]
  BY DEF Files!Upload
<1>2. UNCHANGED <<ocr_enabled, engine, changes>>
  BY DEF Files!Upload
<1>3. CASE Files!Admitted(f)
  <2> DEFINE d == [Files!Absent EXCEPT !.at = "stored", !.file = f, !.mime = Files!Canonical[f.name]]
  <2>1. /\ f.name \in DOMAIN Files!Canonical
        /\ ocr_enabled \/ Files!Canonical[f.name] \notin Files!RequiresOcr
        /\ f.bytes \in 1..MAX_BYTES
        /\ Files!MatchesContent(Files!Canonical[f.name], f.holds)
    BY <1>3 DEF Files!Admitted, Files!Allowed_extensions
  <2>2. Files!Canonical[f.name] \in Mimes
    BY <2>1, CanonicalTypes
  <2>3. /\ d \in Filed /\ d.at = "stored" /\ d.mime = Files!Canonical[f.name] /\ d.file = f
    BY <2>2 DEF Filed, Stored, Files!Absent
  <2> HIDE DEF d
  <2>4. StoredInv(d) /\ FailedInv(d) /\ IndexedInv(d)
    BY <2>1, <2>2, <2>3 DEF StoredInv, FailedInv, IndexedInv
  <2> QED BY <1>1, <1>2, <1>3, <2>3, <2>4, OneFiled DEF d
<1>4. CASE ~Files!Admitted(f)
  <2> DEFINE d == [Files!Absent EXCEPT !.at = "refused"]
  <2>1. d \in Filed /\ d.at = "refused"
    BY DEF Filed, Files!Absent
  <2> HIDE DEF d
  <2>2. StoredInv(d) /\ FailedInv(d) /\ IndexedInv(d)
    BY <2>1 DEF StoredInv, FailedInv, IndexedInv, Stored
  <2> QED BY <1>1, <1>2, <1>4, <2>1, <2>2, OneFiled DEF d
<1> QED BY <1>3, <1>4

LEMMA ExtractInv == ASSUME FilesInv, NEW u \in Uploads, Files!Extract(u) PROVE FilesInv'
<1> DEFINE d == document[u]
           f == d.file
           way == Files!Way(d.mime, f)
           pages == IF way = "ocr" THEN Files!ByOcr(f) ELSE Files!ByParser(d.mime, f)
           e == [d EXCEPT !.at = IF pages = 0 THEN "failed" ELSE "indexed", !.by = way, !.read = pages]
<1>1. /\ d \in Filed /\ d.at = "stored" /\ StoredInv(d)
      /\ document' = [document EXCEPT ![u] = e]
      /\ UNCHANGED <<ocr_enabled, engine, changes>>
  BY DEF Files!Extract, FilesInv, FilesTypeOK
<1>2. f \in Files!Files \cup {Files!NoFile} /\ d.mime \in Mimes
  BY <1>1 DEF Filed, StoredInv, Stored
<1>3. way \in {"ocr", "parser"}
  BY DEF Files!Way
<1>4. f.pages \in Nat /\ f.pages # 0
  BY <1>2, SizesAssumption DEF Files!Files, Files!NoFile
<1>5. pages \in Nat
  BY <1>4, SizesAssumption DEF Files!ByOcr, Files!ByParser
<1>6. /\ e \in Filed /\ e.file = f /\ e.mime = d.mime /\ e.by = way /\ e.read = pages
      /\ e.at = IF pages = 0 THEN "failed" ELSE "indexed"
  <2> HIDE DEF pages, way
  <2> QED BY <1>1, <1>3, <1>5 DEF Filed, Stored
<1> HIDE DEF e
<1>7. StoredInv(e)
  BY <1>1, <1>6 DEF StoredInv, Stored
<1>8. FailedInv(e)
  <2> SUFFICES ASSUME pages = 0, changes = 0
               PROVE  \/ way = "parser" /\ (~f.words \/ f.holds # d.mime)
                      \/ way = "ocr" /\ (~f.legible \/ ~engine \/ d.mime = "pdf")
    BY <1>6 DEF FailedInv
  <2>1. CASE way = "parser"
    BY <1>4, <2>1 DEF Files!ByParser
  <2>2. CASE way = "ocr" /\ d.mime # "pdf"
    <3>1. d.mime \in Files!RequiresOcr
      BY <2>2 DEF Files!Way
    <3>2. ocr_enabled /\ f.holds = d.mime
      BY <1>1, <3>1 DEF StoredInv, Stored, Files!MatchesContent, Files!RequiresOcr
    <3> QED BY <2>2, <3>1, <3>2 DEF Files!ByOcr, Files!RequiresOcr
  <2> HIDE DEF way
  <2> QED BY <1>3, <2>1, <2>2
<1>9. IndexedInv(e)
  BY <1>1, <1>2, <1>6 DEF IndexedInv, StoredInv, Stored, Files!Way, Files!ByOcr, Files!ByParser,
     Files!RequiresOcr, Files!MatchesContent, Mimes
<1> QED BY <1>1, <1>6, <1>7, <1>8, <1>9, OneFiled

LEMMA ReindexInv == ASSUME FilesInv, NEW u \in Uploads, Files!Reindex(u) PROVE FilesInv'
<1> DEFINE d == document[u]
           e == [d EXCEPT !.at = "stored", !.read = 0]
<1>1. /\ d \in Filed /\ d.at \in {"failed", "indexed"} /\ StoredInv(d) /\ changes > 0
      /\ document' = [document EXCEPT ![u] = e]
      /\ UNCHANGED <<ocr_enabled, engine, changes>>
  BY DEF Files!Reindex, FilesInv, FilesTypeOK
<1>2. e \in Filed /\ e.at = "stored" /\ e.file = d.file /\ e.mime = d.mime
  BY <1>1 DEF Filed, Stored
<1> HIDE DEF e
<1>3. StoredInv(e) /\ FailedInv(e) /\ IndexedInv(e)
  BY <1>1, <1>2 DEF StoredInv, FailedInv, IndexedInv, Stored
<1> QED BY <1>1, <1>2, <1>3, OneFiled

LEMMA ReconfigureInv == FilesInv /\ Files!Reconfigure => FilesInv'
  BY DEF Files!Reconfigure, FilesInv, FilesTypeOK, StoredInv, FailedInv, IndexedInv

LEMMA FilesStep == FilesInv /\ [PlatformNext]_allVars => FilesInv'
<1> SUFFICES ASSUME FilesInv, [PlatformNext]_allVars PROVE FilesInv'
  OBVIOUS
<1>1. CASE Files!Next
  BY <1>1, UploadInv, ExtractInv, ReindexInv, ReconfigureInv DEF Files!Next
<1>2. CASE UNCHANGED filesVars
  BY <1>2 DEF filesVars, FilesInv, FilesTypeOK, StoredInv, FailedInv, IndexedInv
<1> QED BY <1>1, <1>2 DEF PlatformNext, allVars

(* A file that is stored passed its checks; it fails for what is in it,    *)
(* for an engine that is missing, or after the deployment was changed; and *)
(* what is indexed was read from the content it has, whole or up to the    *)
(* limit of OCR (validate_upload, extractor_for, the extractors).          *)
THEOREM WhatIsAdmittedIsReadable == PlatformSpec => []AdmittedIsReadable
<1>1. FilesInv => AdmittedIsReadable
  BY DEF FilesInv, FilesTypeOK, StoredInv, FailedInv, IndexedInv, Filed, Stored, AdmittedIsReadable, Files!AdmittedIsReadable
<1> QED BY <1>1, FilesInitial, FilesStep, PTL DEF PlatformSpec

----------------------------------------------------------------------------
(* Objects and vectors: Stores. *)

CallPlaces == {"idle", "ensure", "look", "create", "send", "reply", "done"}
Operations == {"put", "get", "remove"}
Errors == {"none", "conflict", "no collection", "upstream", "not found"}
Called == [at : CallPlaces, op : Operations, key : Keys,
           found : BOOLEAN, error : Errors]

StoresTypeOK ==
    /\ adapter \in Store!Remote \cup {"memory", "local"}
    /\ server \in [made : Nat, holds : SUBSET Keys]
    /\ local \in [Processes -> SUBSET Keys]
    /\ known \in [Processes -> Nat]
    /\ lock \in [Processes -> Calls \cup {Store!NoCall}]
    /\ call \in [Calls -> Called]
    /\ acked \in [Processes -> SUBSET Keys]
    /\ wiped \in Nat

(* Who makes sure of the collection holds its process's lock, and reverse. *)
LockInv ==
    /\ \A p \in Processes : lock[p] # Store!NoCall =>
          call[lock[p]].at \in {"look", "create"} /\ Home(lock[p]) = p
    /\ \A c \in Calls : call[c].at \in {"look", "create"} => lock[Home(c)] = c

(* A collection a process knows is there until the data is wiped. *)
KnownInv ==
    /\ adapter \in Store!Servers /\ server.made = 0 => server.holds = {}
    /\ wiped = 0 => \A p \in Processes : known[p] # 0 => known[p] = server.made
    /\ \A c \in Calls :
          /\ call[c].at = "send" /\ adapter \in Store!Servers => known[Home(c)] # 0
          /\ call[c].error = "no collection" => wiped > 0

(* A collection that is there after all was made by another process. *)
ConflictInv ==
    \A c \in Calls :
       /\ call[c].at = "create" => adapter = "qdrant"
       /\ call[c].at = "create" /\ server.made # 0 => \E p, q \in Processes : p # q
       /\ call[c].error = "conflict" => adapter = "qdrant" /\ \E p, q \in Processes : p # q

(* The calls that change a key and have not returned; their effect is      *)
(* there before they are acknowledged.                                     *)
Pending(k) == {c \in Calls : call[c].at \notin {"idle", "done"} /\ call[c].op # "get" /\ call[c].key = k}
Replying(k) == {c \in Pending(k) : call[c].at = "reply"}
Reaches(c, p) == adapter \in Store!Remote \/ Home(c) = p
KeptInv ==
    \A k \in Keys \ doubtful :
       /\ \A c, d \in Pending(k) : c = d
       /\ \A p \in Processes :
             /\ (\A c \in Replying(k) : ~Reaches(c, p)) => (k \in Store!Holds(p) <=> k \in acked[p])
             /\ \A c \in Replying(k) : Reaches(c, p) => (k \in Store!Holds(p) <=> call[c].op = "put")

StoresInv == StoresTypeOK /\ LockInv /\ KnownInv /\ ConflictInv /\ KeptInv

----------------------------------------------------------------------------
LEMMA HomeIsOne == \A c \in Calls : Home(c) \in Processes
  BY CallsAssumption DEF Home

LEMMA NoCallIsNone == Store!NoCall \notin Calls
  BY CallsAssumption DEF Store!NoCall

LEMMA StoreMoved ==
    ASSUME StoresTypeOK, NEW c \in Calls, NEW x \in Called, call' = [call EXCEPT ![c] = x]
    PROVE  call' \in [Calls -> Called] /\ call'[c] = x /\ \A d \in Calls : d # c => call'[d] = call[d]
  BY DEF StoresTypeOK

LEMMA CallFields ==
    \A x \in Called :
       /\ x.at \in CallPlaces /\ x.op \in Operations /\ x.error \in Errors /\ x.found \in BOOLEAN
       /\ \A there \in CallPlaces :
             LET y == [x EXCEPT !.at = there] IN
             y \in Called /\ y.at = there /\ y.op = x.op /\ y.key = x.key /\ y.error = x.error
  BY DEF Called

LEMMA AnsweredFields ==
    ASSUME NEW x \in Called, NEW b \in BOOLEAN
    PROVE  LET y == [x EXCEPT !.at = "reply", !.found = b] IN
           y \in Called /\ y.at = "reply" /\ y.op = x.op /\ y.key = x.key /\ y.error = x.error
  BY DEF Called, CallPlaces

LEMMA EndedFields ==
    ASSUME NEW x \in Called, NEW error \in Errors
    PROVE  LET y == [x EXCEPT !.at = "done", !.error = error] IN
           y \in Called /\ y.at = "done" /\ y.op = x.op /\ y.key = x.key /\ y.error = error
  BY DEF Called, CallPlaces

(* A call that changes no store, and ends before its effect is             *)
(* acknowledged only by leaving its key in doubt.                          *)
LEMMA KeptAsItWas ==
    ASSUME StoresTypeOK, KeptInv, NEW c \in Calls, NEW x \in Called, call' = [call EXCEPT ![c] = x],
           call[c].at # "idle", x.at \notin {"idle", "reply"}, x.op = call[c].op, x.key = call[c].key,
           call[c].at = "done" => x.at = "done",
           call[c].at = "reply" /\ call[c].op # "get" => call[c].key \in doubtful',
           doubtful \subseteq doubtful', UNCHANGED <<adapter, local, acked>>, server'.holds = server.holds
    PROVE  KeptInv'
<1>1. call'[c] = x /\ \A d \in Calls : d # c => call'[d] = call[d]
  BY StoreMoved
<1>2. \A k : \A d \in Calls : d \in Pending(k)' => d \in Pending(k)
  BY <1>1 DEF Pending
<1>3. \A k \in Keys \ doubtful' : \A d \in Calls : d \in Replying(k)' <=> d \in Replying(k)
  BY <1>1 DEF Replying, Pending
<1>4. \A d \in Calls : call'[d].op = call[d].op
  BY <1>1
<1>5. \A p : Store!Holds(p)' = Store!Holds(p)
  BY DEF Store!Holds
<1>6. \A d, p : Reaches(d, p)' <=> Reaches(d, p)
  BY DEF Reaches
<1>7. \A k : Pending(k)' \subseteq Calls /\ Replying(k)' \subseteq Calls /\ Replying(k) \subseteq Calls
  BY DEF Pending, Replying
<1> SUFFICES ASSUME NEW k \in Keys \ doubtful'
             PROVE  /\ \A d, e \in Pending(k)' : d = e
                    /\ \A p \in Processes :
                          /\ (\A d \in Replying(k)' : ~Reaches(d, p)') => (k \in Store!Holds(p)' <=> k \in acked'[p])
                          /\ \A d \in Replying(k)' : Reaches(d, p)' => (k \in Store!Holds(p)' <=> call'[d].op = "put")
  BY DEF KeptInv
<1>8. k \in Keys \ doubtful
  OBVIOUS
<1>9. \A d, e \in Pending(k) : d = e
  BY <1>8 DEF KeptInv
<1>10. \A p \in Processes :
          /\ (\A d \in Replying(k) : ~Reaches(d, p)) => (k \in Store!Holds(p) <=> k \in acked[p])
          /\ \A d \in Replying(k) : Reaches(d, p) => (k \in Store!Holds(p) <=> call[d].op = "put")
  BY <1>8 DEF KeptInv
<1>11. Replying(k)' = Replying(k)
  BY <1>3, <1>7
<1>12. \A d, e \in Pending(k)' : d = e
  BY <1>2, <1>7, <1>9
<1> QED BY <1>4, <1>5, <1>6, <1>7, <1>10, <1>11, <1>12

LEMMA StoreInitial == PlatformInit => StoresInv
<1> SUFFICES ASSUME PlatformInit PROVE StoresInv
  OBVIOUS
<1>1. /\ adapter \in Store!Remote \cup {"memory", "local"}
      /\ server = [made |-> 0, holds |-> {}] /\ local = [p \in Processes |-> {}]
      /\ known = [p \in Processes |-> 0] /\ lock = [p \in Processes |-> Store!NoCall]
      /\ call = [c \in Calls |-> Store!Idle] /\ acked = [p \in Processes |-> {}] /\ wiped = 0
  BY DEF PlatformInit, Store!Init
<1>2. /\ Store!Idle \in Called /\ Store!Idle.at = "idle" /\ Store!Idle.error = "none"
  BY KeysAssumption DEF Store!Idle, Called, CallPlaces, Operations, Errors
<1>3. StoresTypeOK
  BY <1>1, <1>2 DEF StoresTypeOK
<1>4. LockInv /\ KnownInv /\ ConflictInv
  BY <1>1, <1>2 DEF LockInv, KnownInv, ConflictInv
<1>5. \A k : Pending(k) = {} /\ Replying(k) = {}
  BY <1>1, <1>2 DEF Pending, Replying
<1>6. \A p \in Processes : Store!Holds(p) = {}
  BY <1>1 DEF Store!Holds
<1>7. KeptInv
  BY <1>1, <1>5, <1>6 DEF KeptInv
<1> QED BY <1>3, <1>4, <1>7 DEF StoresInv

----------------------------------------------------------------------------
LEMMA StoreBegins ==
    ASSUME StoresInv, NEW c \in Calls, NEW op \in Operations, NEW k \in Keys, Store!Begin(c, op, k)
    PROVE  StoresInv'
<1> USE DEF StoresInv
<1> DEFINE to == IF adapter \in Store!Servers /\ known[Home(c)] = 0 THEN "ensure" ELSE "send"
           x == [Store!Idle EXCEPT !.op = op, !.key = k, !.at = to]
<1>1. /\ x \in Called /\ x.at = to /\ x.op = op /\ x.key = k /\ x.error = "none" /\ to \in {"ensure", "send"}
  BY DEF Store!Idle, Called, CallPlaces, Operations, Errors
<1>2. /\ call[c].at = "idle" /\ call' = [call EXCEPT ![c] = x]
      /\ doubtful' = IF op # "get" /\ \E d \in Store!InFlight : call[d].key = k /\ Store!Changes(d)
                     THEN doubtful \cup {k} ELSE doubtful
      /\ UNCHANGED <<adapter, server, local, known, lock, acked, wiped, restarted>>
  BY DEF Store!Begin
<1>3. to = "send" /\ adapter \in Store!Servers => known[Home(c)] # 0
  OBVIOUS
<1> HIDE DEF x, to
<1>4. call' \in [Calls -> Called] /\ call'[c] = x /\ \A d \in Calls : d # c => call'[d] = call[d]
  BY <1>1, <1>2, StoreMoved
<1>5. StoresTypeOK'
  BY <1>2, <1>4 DEF StoresTypeOK
<1>6. LockInv'
  <2>1. \A p \in Processes : lock[p] # c
    BY <1>2, NoCallIsNone DEF LockInv
  <2> QED BY <1>1, <1>2, <1>4, <2>1 DEF LockInv, StoresTypeOK
<1>7. KnownInv'
  BY <1>1, <1>2, <1>3, <1>4 DEF KnownInv
<1>8. ConflictInv'
  BY <1>1, <1>2, <1>4 DEF ConflictInv
<1>9. KeptInv'
  <2>1. \A j : \A d \in Pending(j)' : d \in Pending(j) \/ (d = c /\ j = k /\ op # "get")
    BY <1>1, <1>2, <1>4 DEF Pending
  <2>2. \A j : Replying(j)' = Replying(j)
    BY <1>1, <1>2, <1>4 DEF Pending, Replying
  <2>3. \A j : \A d \in Replying(j) : d \in Calls /\ call'[d] = call[d]
    BY <1>2, <1>4 DEF Pending, Replying
  <2>4. \A p : Store!Holds(p)' = Store!Holds(p)
    BY <1>2 DEF Store!Holds
  <2>5. \A d, p : Reaches(d, p)' <=> Reaches(d, p)
    BY <1>2 DEF Reaches
  <2> SUFFICES ASSUME NEW j \in Keys \ doubtful'
               PROVE  /\ \A d, e \in Pending(j)' : d = e
                      /\ \A p \in Processes :
                            /\ (\A d \in Replying(j)' : ~Reaches(d, p)') => (j \in Store!Holds(p)' <=> j \in acked'[p])
                            /\ \A d \in Replying(j)' : Reaches(d, p)' => (j \in Store!Holds(p)' <=> call'[d].op = "put")
    BY DEF KeptInv
  <2>6. j \in Keys \ doubtful
    BY <1>2
  <2>7. /\ \A d, e \in Pending(j) : d = e
        /\ \A p \in Processes :
              /\ (\A d \in Replying(j) : ~Reaches(d, p)) => (j \in Store!Holds(p) <=> j \in acked[p])
              /\ \A d \in Replying(j) : Reaches(d, p) => (j \in Store!Holds(p) <=> call[d].op = "put")
    BY <2>6 DEF KeptInv
  <2>8. j = k /\ op # "get" => Pending(j) = {}
    BY <1>2 DEF Pending, Store!InFlight, Store!Changes
  <2>9. \A d, e \in Pending(j)' : d = e
    BY <2>1, <2>7, <2>8
  <2>10. acked' = acked
    BY <1>2
  <2> QED BY <2>2, <2>3, <2>4, <2>5, <2>7, <2>9, <2>10
<1> QED BY <1>5, <1>6, <1>7, <1>8, <1>9

(* A call goes on to look for the collection. *)
LEMMA StoreLocks == ASSUME StoresInv, NEW c \in Calls, Store!Lock(c) PROVE StoresInv'
<1> USE DEF StoresInv
<1> DEFINE to == IF known[Home(c)] # 0 THEN "send" ELSE "look"
           x == [call[c] EXCEPT !.at = to]
<1>1. call[c] \in Called /\ to \in CallPlaces /\ to \in {"send", "look"} /\ Home(c) \in Processes
  BY HomeIsOne DEF StoresTypeOK, CallPlaces
<1>2. /\ call[c].at = "ensure" /\ lock[Home(c)] = Store!NoCall /\ call' = [call EXCEPT ![c] = x]
      /\ lock' = (IF to = "send" THEN lock ELSE [lock EXCEPT ![Home(c)] = c])
      /\ UNCHANGED <<adapter, server, local, known, acked, doubtful, wiped, restarted>>
  BY DEF Store!Lock, Store!Goto, StoresTypeOK
<1>3. to = "send" => known[Home(c)] # 0
  OBVIOUS
<1> HIDE DEF to
<1>4. x \in Called /\ x.at = to /\ x.op = call[c].op /\ x.key = call[c].key /\ x.error = call[c].error
  BY <1>1, CallFields
<1> HIDE DEF x
<1>5. call' \in [Calls -> Called] /\ call'[c] = x /\ \A d \in Calls : d # c => call'[d] = call[d]
  BY <1>2, <1>4, StoreMoved
<1>6. StoresTypeOK'
  BY <1>1, <1>2, <1>5 DEF StoresTypeOK
<1>7. LockInv'
  <2>1. \A d \in Calls : d # c /\ Home(d) = Home(c) => call[d].at \notin {"look", "create"}
    BY <1>2, NoCallIsNone DEF LockInv
  <2>2. \A p \in Processes : lock[p] # c
    BY <1>2, NoCallIsNone DEF LockInv
  <2>3. /\ \A p \in Processes : p # Home(c) \/ to = "send" => lock'[p] = lock[p]
        /\ to = "look" => lock'[Home(c)] = c
    BY <1>1, <1>2 DEF StoresTypeOK
  <2>4. ASSUME NEW p \in Processes, lock'[p] # Store!NoCall
        PROVE  call'[lock'[p]].at \in {"look", "create"} /\ Home(lock'[p]) = p
    <3>1. CASE to = "look" /\ p = Home(c)
      BY <1>4, <1>5, <2>3, <3>1
    <3>2. CASE p # Home(c) \/ to = "send"
      <4>1. lock'[p] = lock[p] /\ lock[p] \in Calls /\ lock[p] # c
        BY <2>2, <2>3, <2>4, <3>2 DEF StoresTypeOK
      <4> QED BY <1>5, <2>4, <4>1 DEF LockInv
    <3> QED BY <1>1, <3>1, <3>2
  <2>5. ASSUME NEW d \in Calls, call'[d].at \in {"look", "create"} PROVE lock'[Home(d)] = d
    <3>1. CASE d = c
      BY <1>1, <1>4, <1>5, <2>3, <2>5, <3>1
    <3>2. CASE d # c
      <4>1. call[d].at \in {"look", "create"} /\ Home(d) # Home(c) /\ Home(d) \in Processes
        BY <1>5, <2>1, <2>5, <3>2, HomeIsOne
      <4> QED BY <2>3, <4>1 DEF LockInv
    <3> QED BY <3>1, <3>2
  <2> QED BY <2>4, <2>5 DEF LockInv
<1>8. KnownInv'
  BY <1>2, <1>3, <1>4, <1>5 DEF KnownInv
<1>9. ConflictInv'
  BY <1>1, <1>2, <1>4, <1>5 DEF ConflictInv
<1>10. KeptInv'
  BY <1>1, <1>2, <1>4, KeptAsItWas
<1> QED BY <1>6, <1>7, <1>8, <1>9, <1>10

(* The lock of a process is free again, and its call elsewhere. *)
LEMMA LockReturned ==
    ASSUME StoresTypeOK, LockInv, NEW c \in Calls, NEW x \in Called, call' = [call EXCEPT ![c] = x],
           call[c].at \in {"look", "create"}, x.at \notin {"look", "create"},
           lock' = [lock EXCEPT ![Home(c)] = Store!NoCall]
    PROVE  LockInv'
<1>1. call' \in [Calls -> Called] /\ call'[c] = x /\ \A d \in Calls : d # c => call'[d] = call[d]
  BY StoreMoved
<1>2. /\ Home(c) \in Processes /\ lock'[Home(c)] = Store!NoCall
      /\ \A p \in Processes : p # Home(c) => lock'[p] = lock[p]
  BY HomeIsOne DEF StoresTypeOK
<1>3. ASSUME NEW p \in Processes, lock'[p] # Store!NoCall
      PROVE  call'[lock'[p]].at \in {"look", "create"} /\ Home(lock'[p]) = p
  <2>1. lock'[p] = lock[p] /\ lock[p] \in Calls /\ p # Home(c)
    BY <1>2, <1>3 DEF StoresTypeOK
  <2> QED BY <1>1, <1>3, <2>1 DEF LockInv
<1>4. ASSUME NEW d \in Calls, call'[d].at \in {"look", "create"} PROVE lock'[Home(d)] = d
  <2>1. d # c /\ call[d].at \in {"look", "create"} /\ lock[Home(d)] = d /\ lock[Home(c)] = c
    BY <1>1, <1>4 DEF LockInv
  <2> QED BY <1>2, <2>1, HomeIsOne
<1> QED BY <1>3, <1>4 DEF LockInv

(* A call that holds no lock moves on. *)
LEMMA LockStays ==
    ASSUME StoresTypeOK, LockInv, NEW c \in Calls, NEW x \in Called, call' = [call EXCEPT ![c] = x],
           call[c].at \in {"look", "create"} <=> x.at \in {"look", "create"}, UNCHANGED lock
    PROVE  LockInv'
<1>1. call' \in [Calls -> Called] /\ call'[c] = x /\ \A d \in Calls : d # c => call'[d] = call[d]
  BY StoreMoved
<1>2. ASSUME NEW p \in Processes, lock[p] # Store!NoCall
      PROVE  call'[lock[p]].at \in {"look", "create"} /\ Home(lock[p]) = p
  <2>1. lock[p] \in Calls
    BY <1>2 DEF StoresTypeOK
  <2> QED BY <1>1, <1>2, <2>1 DEF LockInv
<1>3. ASSUME NEW d \in Calls, call'[d].at \in {"look", "create"} PROVE lock[Home(d)] = d
  BY <1>1, <1>3 DEF LockInv
<1> QED BY <1>2, <1>3 DEF LockInv

(* The process knows the collection, which is there. *)
LEMMA StoreEnsured ==
    ASSUME StoresInv, NEW c \in Calls, call[c].at \in {"look", "create"}, adapter \in Store!Servers,
           server' = (IF server.made = 0 THEN Store!Made ELSE server),
           Store!Ensured(c, server'.made), UNCHANGED <<adapter, local, acked, doubtful, wiped, restarted>>
    PROVE  StoresInv'
<1> USE DEF StoresInv
<1> DEFINE x == [call[c] EXCEPT !.at = "send"]
<1>1. /\ server' \in [made : Nat, holds : SUBSET Keys] /\ server'.made # 0 /\ server'.holds = server.holds
      /\ server.made # 0 => server' = server
  <2>1. server \in [made : Nat, holds : SUBSET Keys] /\ wiped \in Nat
        /\ (server.made = 0 => server.holds = {})
    BY DEF StoresTypeOK, KnownInv
  <2>2. /\ Store!Made \in [made : Nat, holds : SUBSET Keys] /\ Store!Made.made # 0
        /\ Store!Made.holds = {}
    BY <2>1 DEF Store!Made
  <2>3. CASE server.made = 0
    BY <2>1, <2>2, <2>3
  <2>4. CASE server.made # 0
    BY <2>1, <2>4
  <2> QED BY <2>3, <2>4
<1>2. call[c] \in Called /\ Home(c) \in Processes /\ "send" \in CallPlaces
  BY HomeIsOne DEF StoresTypeOK, CallPlaces
<1>3. /\ call' = [call EXCEPT ![c] = x]
      /\ lock' = [lock EXCEPT ![Home(c)] = Store!NoCall]
      /\ known' = [known EXCEPT ![Home(c)] = server'.made]
  BY DEF Store!Ensured, Store!Goto, StoresTypeOK
<1>4. x \in Called /\ x.at = "send" /\ x.op = call[c].op /\ x.key = call[c].key /\ x.error = call[c].error
  BY <1>2, CallFields
<1> HIDE DEF x
<1>5. call' \in [Calls -> Called] /\ call'[c] = x /\ \A d \in Calls : d # c => call'[d] = call[d]
  BY <1>3, <1>4, StoreMoved
<1>6. known' \in [Processes -> Nat] /\ known'[Home(c)] = server'.made
      /\ \A p \in Processes : p # Home(c) => known'[p] = known[p]
  BY <1>1, <1>2, <1>3 DEF StoresTypeOK
<1>7. StoresTypeOK'
  BY <1>1, <1>2, <1>3, <1>5, <1>6 DEF StoresTypeOK
<1>8. LockInv'
  BY <1>3, <1>4, LockReturned
<1>9. KnownInv'
  <2>1. ASSUME wiped = 0, NEW p \in Processes, known'[p] # 0 PROVE known'[p] = server'.made
    BY <1>1, <1>6, <2>1 DEF KnownInv
  <2>2. ASSUME NEW d \in Calls, call'[d].at = "send" PROVE known'[Home(d)] # 0
    BY <1>1, <1>5, <1>6, <2>2, HomeIsOne DEF KnownInv
  <2>3. \A d \in Calls : call'[d].error = call[d].error
    BY <1>4, <1>5
  <2> QED BY <1>1, <2>1, <2>2, <2>3 DEF KnownInv
<1>10. ConflictInv'
  <2>1. ASSUME NEW d \in Calls, call'[d].at = "create" PROVE adapter = "qdrant" /\ \E p, q \in Processes : p # q
    <3>1. d # c /\ call[d].at = "create" /\ lock[Home(d)] = d /\ lock[Home(c)] = c
      BY <1>4, <1>5, <2>1 DEF LockInv
    <3> QED BY <3>1, HomeIsOne DEF ConflictInv
  <2>2. \A d \in Calls : call'[d].error = call[d].error
    BY <1>4, <1>5
  <2> QED BY <2>1, <2>2 DEF ConflictInv
<1>11. KeptInv'
  BY <1>1, <1>3, <1>4, KeptAsItWas
<1> QED BY <1>7, <1>8, <1>9, <1>10, <1>11

(* Qdrant's adapter finds no collection. *)
LEMMA StoreLooks == ASSUME StoresInv, NEW c \in Calls, Store!Look(c) PROVE StoresInv'
<1> USE DEF StoresInv
<1>1. CASE server.made # 0
  <2>1. adapter \in Store!Servers /\ server' = (IF server.made = 0 THEN Store!Made ELSE server)
    BY <1>1 DEF Store!Look, Store!Servers
  <2> QED BY <1>1, <2>1, StoreEnsured DEF Store!Look
<1>2. CASE server.made = 0
  <2> DEFINE x == [call[c] EXCEPT !.at = "create"]
  <2>1. call[c] \in Called /\ "create" \in CallPlaces
    BY DEF StoresTypeOK, CallPlaces
  <2>2. /\ call[c].at = "look" /\ adapter = "qdrant" /\ call' = [call EXCEPT ![c] = x]
        /\ UNCHANGED <<adapter, server, local, known, lock, acked, doubtful, wiped, restarted>>
    BY <1>2 DEF Store!Look, Store!Goto, StoresTypeOK
  <2>3. x \in Called /\ x.at = "create" /\ x.op = call[c].op /\ x.key = call[c].key /\ x.error = call[c].error
    BY <2>1, CallFields
  <2> HIDE DEF x
  <2>4. call' \in [Calls -> Called] /\ call'[c] = x /\ \A d \in Calls : d # c => call'[d] = call[d]
    BY <2>2, <2>3, StoreMoved
  <2>5. StoresTypeOK'
    BY <2>2, <2>4 DEF StoresTypeOK
  <2>6. LockInv'
    BY <2>2, <2>3, LockStays
  <2>7. KnownInv' /\ ConflictInv'
    BY <1>2, <2>2, <2>3, <2>4 DEF KnownInv, ConflictInv
  <2>8. KeptInv'
    BY <2>2, <2>3, KeptAsItWas
  <2> QED BY <2>5, <2>6, <2>7, <2>8
<1> QED BY <1>1, <1>2 DEF StoresTypeOK

(* A call fails, and what it was to change is in doubt. *)
LEMMA StoreFails ==
    ASSUME StoresInv, NEW c \in Calls, NEW error \in Errors, Store!Failed(c, error),
           call[c].at \in {"look", "create", "send", "reply"},
           \/ call[c].at \in {"look", "create"} /\ lock' = [lock EXCEPT ![Home(c)] = Store!NoCall]
           \/ call[c].at \in {"send", "reply"} /\ lock' = lock,
           error = "no collection" => wiped > 0,
           error = "conflict" => adapter = "qdrant" /\ \E p, q \in Processes : p # q,
           UNCHANGED <<adapter, server, local, known, acked, wiped, restarted>>
    PROVE  StoresInv'
<1> USE DEF StoresInv
<1> DEFINE x == [call[c] EXCEPT !.at = "done", !.error = error]
<1>1. call[c] \in Called /\ "done" \in CallPlaces /\ Home(c) \in Processes
  BY HomeIsOne DEF StoresTypeOK, CallPlaces
<1>2. /\ call' = [call EXCEPT ![c] = x]
      /\ doubtful' = IF call[c].op # "get" THEN doubtful \cup {call[c].key} ELSE doubtful
  BY DEF Store!Failed, Store!Changes, StoresTypeOK
<1>3. x \in Called /\ x.at = "done" /\ x.op = call[c].op /\ x.key = call[c].key /\ x.error = error
  BY <1>1, EndedFields
<1> HIDE DEF x
<1>4. call' \in [Calls -> Called] /\ call'[c] = x /\ \A d \in Calls : d # c => call'[d] = call[d]
  BY <1>2, <1>3, StoreMoved
<1>5. StoresTypeOK'
  BY <1>1, <1>4 DEF StoresTypeOK
<1>6. LockInv'
  BY <1>2, <1>3, LockStays, LockReturned
<1>7. KnownInv'
  BY <1>3, <1>4 DEF KnownInv
<1>8. ConflictInv'
  BY <1>3, <1>4 DEF ConflictInv
<1>9. KeptInv'
  BY <1>2, <1>3, KeptAsItWas
<1> QED BY <1>5, <1>6, <1>7, <1>8, <1>9

LEMMA StoreCreates == ASSUME StoresInv, NEW c \in Calls, Store!Create(c) PROVE StoresInv'
<1> USE DEF StoresInv
<1>1. call[c].at = "create" /\ adapter = "qdrant"
  BY DEF Store!Create, ConflictInv
<1>2. CASE server.made = 0
  <2>1. adapter \in Store!Servers /\ server' = (IF server.made = 0 THEN Store!Made ELSE server)
        /\ server'.made = Store!Made.made
    BY <1>1, <1>2 DEF Store!Create, Store!Servers
  <2> QED BY <1>1, <1>2, <2>1, StoreEnsured DEF Store!Create
<1>3. CASE server.made # 0
  <2>1. \E p, q \in Processes : p # q
    BY <1>1, <1>3 DEF ConflictInv
  <2> QED BY <1>1, <1>3, <2>1, StoreFails DEF Store!Create, Errors
<1> QED BY <1>2, <1>3

LEMMA StoreTimesOut == ASSUME StoresInv, NEW c \in Calls, Store!TimeOut(c) PROVE StoresInv'
<1> USE DEF StoresInv
<1>1. CASE call[c].at \in {"look", "create"}
  <2>1. lock[Home(c)] = c
    BY <1>1 DEF LockInv
  <2> QED BY <1>1, <2>1, StoreFails DEF Store!TimeOut, Errors
<1>2. CASE call[c].at \in {"send", "reply"}
  <2>1. lock[Home(c)] # c
    BY <1>2, NoCallIsNone, HomeIsOne DEF LockInv
  <2> QED BY <1>2, <2>1, StoreFails DEF Store!TimeOut, Errors
<1> QED BY <1>1, <1>2 DEF Store!TimeOut

(* A request reaches the store and is answered. *)
LEMMA StoreServes ==
    ASSUME StoresInv, NEW c \in Calls, call[c].at = "send", NEW old \in SUBSET Keys, Store!Answered(c, old),
           \/ /\ adapter \in Store!Remote /\ local' = local
              /\ server' = [server EXCEPT !.holds = Store!Applied(c, server.holds)]
           \/ /\ adapter \notin Store!Remote /\ server' = server
              /\ local' = [local EXCEPT ![Home(c)] = Store!Applied(c, local[Home(c)])],
           adapter \in Store!Servers => server.made # 0,
           UNCHANGED <<adapter, known, lock, acked, doubtful, wiped, restarted>>
    PROVE  StoresInv'
<1> USE DEF StoresInv
<1> DEFINE found == call[c].op = "get" /\ call[c].key \in old
           x == [call[c] EXCEPT !.at = "reply", !.found = found]
<1>1. call[c] \in Called /\ Home(c) \in Processes /\ "reply" \in CallPlaces /\ found \in BOOLEAN
  BY HomeIsOne DEF StoresTypeOK, CallPlaces
<1>2. call' = [call EXCEPT ![c] = x]
  BY DEF Store!Answered, StoresTypeOK
<1> HIDE DEF found
<1>3. x \in Called /\ x.at = "reply" /\ x.op = call[c].op /\ x.key = call[c].key /\ x.error = call[c].error
  BY <1>1, AnsweredFields
<1> HIDE DEF x
<1>4. call' \in [Calls -> Called] /\ call'[c] = x /\ \A d \in Calls : d # c => call'[d] = call[d]
  BY <1>2, <1>3, StoreMoved
<1>5. \A keys \in SUBSET Keys :
         /\ \A k \in Keys : k # call[c].key \/ call[c].op = "get" => (k \in Store!Applied(c, keys) <=> k \in keys)
         /\ call[c].op # "get" => (call[c].key \in Store!Applied(c, keys) <=> call[c].op = "put")
  BY <1>1 DEF Store!Applied, Called, Operations
<1>6. server \in [made : Nat, holds : SUBSET Keys] /\ local \in [Processes -> SUBSET Keys]
  BY DEF StoresTypeOK

<1>7. Store!Applied(c, server.holds) \in SUBSET Keys /\ Store!Applied(c, local[Home(c)]) \in SUBSET Keys
  BY <1>1, <1>6 DEF Store!Applied, Called
<1>8. /\ server' \in [made : Nat, holds : SUBSET Keys] /\ local' \in [Processes -> SUBSET Keys]
      /\ server'.made = server.made /\ adapter \in Store!Servers => server' = [server EXCEPT !.holds = server'.holds]
      /\ adapter \in Store!Remote => server'.holds = Store!Applied(c, server.holds)
      /\ adapter \notin Store!Remote => local'[Home(c)] = Store!Applied(c, local[Home(c)])
                                        /\ \A p \in Processes : p # Home(c) => local'[p] = local[p]
  BY <1>1, <1>6, <1>7
<1>9. StoresTypeOK'
  BY <1>4, <1>8 DEF StoresTypeOK
<1>10. LockInv'
  BY <1>2, <1>3, LockStays
<1>11. \A d \in Calls : call'[d].error = call[d].error /\ call'[d].op = call[d].op
  BY <1>3, <1>4
<1>12. server'.made = server.made
  BY <1>6
<1>13. KnownInv'
  BY <1>3, <1>4, <1>11, <1>12, ZenonT(40) DEF KnownInv
<1>14. ConflictInv'
  BY <1>3, <1>4, <1>11, <1>12 DEF ConflictInv
<1>15. KeptInv'
  <2>1. \A k : \A d : d \in Pending(k)' <=> d \in Pending(k)
    BY <1>3, <1>4 DEF Pending
  <2>2. \A k : \A d : d \in Replying(k)' <=> d \in Replying(k) \/ (d = c /\ c \in Pending(k))
    BY <1>3, <1>4 DEF Replying, Pending
  <2>3. \A d, p : Reaches(d, p)' <=> Reaches(d, p)
    BY DEF Reaches
  <2>4. \A p \in Processes :
           /\ Reaches(c, p) => Store!Holds(p)' = Store!Applied(c, Store!Holds(p))
           /\ ~Reaches(c, p) => Store!Holds(p)' = Store!Holds(p)
           /\ Store!Holds(p) \in SUBSET Keys
    BY <1>6, <1>8 DEF Reaches, Store!Holds
  <2>5. \A k : c \in Pending(k) <=> (call[c].op # "get" /\ call[c].key = k)
    BY DEF Pending
  <2> SUFFICES ASSUME NEW k \in Keys \ doubtful
               PROVE  /\ \A d, e \in Pending(k)' : d = e
                      /\ \A p \in Processes :
                            /\ (\A d \in Replying(k)' : ~Reaches(d, p)') => (k \in Store!Holds(p)' <=> k \in acked'[p])
                            /\ \A d \in Replying(k)' : Reaches(d, p)' => (k \in Store!Holds(p)' <=> call'[d].op = "put")
    BY DEF KeptInv
  <2>6. /\ \A d, e \in Pending(k) : d = e
        /\ \A p \in Processes :
              /\ (\A d \in Replying(k) : ~Reaches(d, p)) => (k \in Store!Holds(p) <=> k \in acked[p])
              /\ \A d \in Replying(k) : Reaches(d, p) => (k \in Store!Holds(p) <=> call[d].op = "put")
    BY DEF KeptInv
  <2>7. CASE c \in Pending(k)
    <3>1. c \notin Replying(k) /\ \A d \in Replying(k) : d = c
      BY <2>6, <2>7 DEF Replying
    <3>2. \A d : d \in Replying(k)' <=> d = c
      BY <2>2, <2>7, <3>1
    <3>3. ASSUME NEW p \in Processes, Reaches(c, p) PROVE k \in Store!Holds(p)' <=> call[c].op = "put"
      BY <1>5, <2>4, <2>5, <2>7, <3>3
    <3>4. ASSUME NEW p \in Processes, ~Reaches(c, p) PROVE k \in Store!Holds(p)' <=> k \in acked[p]
      BY <2>4, <2>6, <3>1, <3>4
    <3> QED BY <1>11, <2>1, <2>3, <2>6, <3>2, <3>3, <3>4
  <2>8. CASE c \notin Pending(k)
    <3>1. \A p \in Processes : k \in Store!Holds(p)' <=> k \in Store!Holds(p)
      BY <1>5, <2>4, <2>5, <2>8
    <3>2. \A d : d \in Replying(k)' <=> d \in Replying(k)
      BY <2>2, <2>8
    <3>3. \A d \in Replying(k) : d \in Calls
      BY DEF Replying, Pending
    <3> QED BY <1>11, <2>1, <2>3, <2>6, <3>1, <3>2, <3>3
  <2> QED BY <2>7, <2>8
<1> QED BY <1>9, <1>10, <1>13, <1>14, <1>15

LEMMA StoreSends ==
    ASSUME StoresInv, NEW c \in Calls,
           \/ Store!SendToQdrant(c) \/ Store!SendToChroma(c) \/ Store!SendToBucket(c)
           \/ Store!KeepInMemory(c) \/ Store!KeepOnDisk(c)
    PROVE  StoresInv'
<1> USE DEF StoresInv
<1>1. /\ server \in [made : Nat, holds : SUBSET Keys] /\ local \in [Processes -> SUBSET Keys]
      /\ Home(c) \in Processes /\ known[Home(c)] \in Nat /\ call[c].at = "send"
  BY HomeIsOne DEF StoresTypeOK, Store!SendToQdrant, Store!SendToChroma, Store!SendToBucket,
                   Store!KeepInMemory, Store!KeepOnDisk, Store!Keep
<1>2. adapter \in Store!Servers => known[Home(c)] # 0
  BY <1>1 DEF KnownInv
<1>3. ASSUME Store!Sent(c), adapter \in Store!Remote, adapter \in Store!Servers => server.made # 0,
             UNCHANGED <<adapter, local, known, lock, acked, wiped, restarted>>
      PROVE  StoresInv'
  BY <1>1, <1>3, StoreServes DEF Store!Sent
<1>4. ASSUME Store!Missed(c), wiped > 0, UNCHANGED <<adapter, local, known, lock, acked, wiped, restarted>>
      PROVE  StoresInv'
  BY <1>1, <1>4, StoreFails DEF Store!Missed, Errors
<1>5. CASE Store!SendToQdrant(c)
  <2>1. adapter \in Store!Servers /\ adapter \in Store!Remote
    BY <1>5 DEF Store!SendToQdrant, Store!Remote, Store!Servers
  <2>2. server.made = 0 => wiped > 0
    <3>1. wiped = 0 => known[Home(c)] = server.made
      BY <1>1, <1>2, <2>1 DEF KnownInv
    <3>2. wiped \in Nat
      BY DEF StoresTypeOK
    <3> QED BY <1>2, <2>1, <3>1, <3>2
  <2> QED BY <1>3, <1>4, <1>5, <2>1, <2>2 DEF Store!SendToQdrant
<1>6. CASE Store!SendToChroma(c)
  <2>1. adapter \in Store!Servers /\ adapter \in Store!Remote
    BY <1>6 DEF Store!SendToChroma, Store!Remote, Store!Servers
  <2>2. server.made # known[Home(c)] => wiped > 0
    <3>1. wiped = 0 => known[Home(c)] = server.made
      BY <1>1, <1>2, <2>1 DEF KnownInv
    <3>2. wiped \in Nat
      BY DEF StoresTypeOK
    <3> QED BY <1>2, <2>1, <3>1, <3>2
  <2> QED BY <1>2, <1>3, <1>4, <1>6, <2>1, <2>2 DEF Store!SendToChroma
<1>7. CASE Store!SendToBucket(c)
  BY <1>3, <1>7 DEF Store!SendToBucket, Store!Remote, Store!Servers
<1>8. CASE Store!KeepInMemory(c) \/ Store!KeepOnDisk(c)
  <2>1. adapter \notin Store!Remote /\ adapter \notin Store!Servers /\ Store!Keep(c)
    BY <1>8 DEF Store!KeepInMemory, Store!KeepOnDisk, Store!Remote, Store!Servers
  <2>2. local' = [local EXCEPT ![Home(c)] = Store!Applied(c, local[Home(c)])]
    BY <1>1, <2>1 DEF Store!Keep
  <2> QED BY <1>1, <2>1, <2>2, StoreServes DEF Store!Keep
<1> QED BY <1>5, <1>6, <1>7, <1>8

(* The answer arrives: what is acknowledged is what is held. *)
LEMMA StoreReplies == ASSUME StoresInv, NEW c \in Calls, Store!Reply(c) PROVE StoresInv'
<1> USE DEF StoresInv
<1> DEFINE error == IF call[c].op = "get" /\ adapter \in {"local", "s3"} /\ ~call[c].found
                    THEN "not found" ELSE "none"
           x == [call[c] EXCEPT !.at = "done", !.error = error]
<1>1. call[c] \in Called /\ "done" \in CallPlaces /\ error \in {"not found", "none"} /\ error \in Errors
  BY DEF StoresTypeOK, CallPlaces, Errors
<1>2. /\ call[c].at = "reply" /\ call' = [call EXCEPT ![c] = x]
      /\ acked' = [p \in Processes |-> IF Reaches(c, p) THEN Store!Applied(c, acked[p]) ELSE acked[p]]
      /\ UNCHANGED <<adapter, server, local, known, lock, doubtful, wiped, restarted>>
  BY DEF Store!Reply, StoresTypeOK, Reaches
<1> HIDE DEF error
<1>3. x \in Called /\ x.at = "done" /\ x.op = call[c].op /\ x.key = call[c].key /\ x.error = error
  BY <1>1, EndedFields
<1> HIDE DEF x
<1>4. call' \in [Calls -> Called] /\ call'[c] = x /\ \A d \in Calls : d # c => call'[d] = call[d]
  BY <1>2, <1>3, StoreMoved
<1>5. \A keys \in SUBSET Keys :
         /\ Store!Applied(c, keys) \in SUBSET Keys
         /\ \A k \in Keys : k # call[c].key \/ call[c].op = "get" => (k \in Store!Applied(c, keys) <=> k \in keys)
         /\ call[c].op # "get" => (call[c].key \in Store!Applied(c, keys) <=> call[c].op = "put")
  BY <1>1 DEF Store!Applied, Called, Operations
<1>6. \A p \in Processes : acked[p] \in SUBSET Keys
  BY DEF StoresTypeOK
<1>7. StoresTypeOK'
  BY <1>2, <1>4, <1>5, <1>6 DEF StoresTypeOK
<1>8. LockInv'
  BY <1>2, <1>3, LockStays
<1>9. KnownInv'
  BY <1>1, <1>2, <1>3, <1>4 DEF KnownInv
<1>10. ConflictInv'
  BY <1>1, <1>2, <1>3, <1>4 DEF ConflictInv
<1>11. KeptInv'
  <2>1. \A k : \A d : d \in Pending(k)' <=> d \in Pending(k) /\ d # c
    BY <1>2, <1>3, <1>4 DEF Pending
  <2>2. \A k : \A d : d \in Replying(k)' <=> d \in Replying(k) /\ d # c
    BY <1>2, <1>3, <1>4 DEF Replying, Pending
  <2>3. \A d, p : Reaches(d, p)' <=> Reaches(d, p)
    BY <1>2 DEF Reaches
  <2>4. \A p : Store!Holds(p)' = Store!Holds(p)
    BY <1>2 DEF Store!Holds
  <2>5. \A k : c \in Replying(k) <=> (call[c].op # "get" /\ call[c].key = k)
    BY <1>2 DEF Pending, Replying
  <2>6. \A p \in Processes : acked'[p] = IF Reaches(c, p) THEN Store!Applied(c, acked[p]) ELSE acked[p]
    BY <1>2
  <2>7. \A k : Replying(k) \subseteq Pending(k) /\ Pending(k) \subseteq Calls
    BY DEF Replying, Pending
  <2> SUFFICES ASSUME NEW k \in Keys \ doubtful
               PROVE  /\ \A d, e \in Pending(k)' : d = e
                      /\ \A p \in Processes :
                            /\ (\A d \in Replying(k)' : ~Reaches(d, p)') => (k \in Store!Holds(p)' <=> k \in acked'[p])
                            /\ \A d \in Replying(k)' : Reaches(d, p)' => (k \in Store!Holds(p)' <=> call'[d].op = "put")
    BY <1>2 DEF KeptInv
  <2>8. /\ \A d, e \in Pending(k) : d = e
        /\ \A p \in Processes :
              /\ (\A d \in Replying(k) : ~Reaches(d, p)) => (k \in Store!Holds(p) <=> k \in acked[p])
              /\ \A d \in Replying(k) : Reaches(d, p) => (k \in Store!Holds(p) <=> call[d].op = "put")
    BY DEF KeptInv
  <2>9. CASE c \in Replying(k)
    <3>1. \A d : d \notin Replying(k)'
      BY <2>2, <2>7, <2>8, <2>9
    <3>2. ASSUME NEW p \in Processes, Reaches(c, p) PROVE k \in Store!Holds(p)' <=> k \in acked'[p]
      BY <1>5, <1>6, <2>4, <2>5, <2>6, <2>8, <2>9, <3>2
    <3>3. ASSUME NEW p \in Processes, ~Reaches(c, p) PROVE k \in Store!Holds(p)' <=> k \in acked'[p]
      BY <2>2, <2>4, <2>6, <2>7, <2>8, <2>9, <3>3
    <3> QED BY <2>1, <2>8, <3>1, <3>2, <3>3
  <2>10. CASE c \notin Replying(k)
    <3>1. \A p \in Processes : k \in acked'[p] <=> k \in acked[p]
      BY <1>5, <1>6, <2>5, <2>6, <2>10
    <3>2. \A d : d \in Replying(k)' <=> d \in Replying(k)
      BY <2>2, <2>10
    <3>3. \A d \in Replying(k) : d \in Calls /\ call'[d].op = call[d].op
      BY <1>3, <1>4, <2>7
    <3> QED BY <2>1, <2>3, <2>4, <2>8, <3>1, <3>2, <3>3
  <2> QED BY <2>9, <2>10
<1> QED BY <1>7, <1>8, <1>9, <1>10, <1>11

(* The server loses its data: what is under way is in doubt. *)
LEMMA StoreWiped == ASSUME StoresInv, Store!Wipe PROVE StoresInv'
<1> USE DEF StoresInv
<1>1. /\ adapter \in Store!Servers /\ wiped' = wiped + 1 /\ server' = [made |-> 0, holds |-> {}]
      /\ acked' = [p \in Processes |-> {}]
      /\ doubtful' = doubtful \cup {call[c].key : c \in {d \in Store!InFlight : Store!Changes(d)}}
      /\ UNCHANGED <<adapter, local, known, lock, call, restarted>>
  BY DEF Store!Wipe
<1>2. wiped \in Nat /\ wiped' \in Nat /\ wiped' > 0
  BY <1>1 DEF StoresTypeOK
<1>3. StoresTypeOK'
  BY <1>1, <1>2 DEF StoresTypeOK
<1>4. LockInv'
  BY <1>1 DEF LockInv
<1>5. KnownInv'
  <2>1. wiped' # 0 /\ server'.holds = {}
    BY <1>1, <1>2
  <2>2. \A c \in Calls : call'[c].at = "send" /\ adapter' \in Store!Servers => known'[Home(c)] # 0
    BY <1>1 DEF KnownInv
  <2> QED BY <1>2, <2>1, <2>2 DEF KnownInv
<1>6. ConflictInv'
  BY <1>1 DEF ConflictInv
<1>7. \A k \in Keys \ doubtful' : Pending(k)' = {} /\ Replying(k)' = {}
  BY <1>1 DEF Pending, Replying, Store!InFlight, Store!Changes
<1>8. \A p \in Processes : Store!Holds(p)' = {} /\ acked'[p] = {}
  BY <1>1 DEF Store!Holds, Store!Remote
<1>9. KeptInv'
  BY <1>7, <1>8 DEF KeptInv
<1> QED BY <1>3, <1>4, <1>5, <1>6, <1>9

(* A process restarts, and its calls are in doubt. *)
LEMMA StoreRestarts == ASSUME StoresInv, NEW p \in Processes, Store!Restart(p) PROVE StoresInv'
<1> USE DEF StoresInv
<1> DEFINE lost == {c \in Calls : Home(c) = p /\ call[c].at \notin {"idle", "done"}}
<1>1. /\ known' = [known EXCEPT ![p] = 0] /\ lock' = [lock EXCEPT ![p] = Store!NoCall]
      /\ IF adapter = "memory"
         THEN local' = [local EXCEPT ![p] = {}] /\ acked' = [acked EXCEPT ![p] = {}]
         ELSE UNCHANGED <<local, acked>>
      /\ call' = [c \in Calls |-> IF c \in lost THEN [call[c] EXCEPT !.at = "done", !.error = "upstream"]
                                  ELSE call[c]]
      /\ doubtful' = doubtful \cup {call[c].key : c \in {d \in lost : call[d].op # "get"}}
      /\ UNCHANGED <<adapter, server, wiped>>
  BY DEF Store!Restart, Store!InFlight, Store!Changes
<1>2. \A c \in Calls : call[c] \in Called
  BY SMTT(30) DEF StoresTypeOK
<1>3. \A c \in lost : LET x == [call[c] EXCEPT !.at = "done", !.error = "upstream"] IN
         x \in Called /\ x.at = "done" /\ x.op = call[c].op /\ x.key = call[c].key /\ x.error = "upstream"
  BY <1>2, EndedFields, ZenonT(40) DEF Errors, lost
<1> HIDE DEF lost
<1>4. /\ call' \in [Calls -> Called]
      /\ \A c \in Calls : /\ c \in lost => call'[c].at = "done" /\ call'[c].error = "upstream"
                                           /\ call'[c].op = call[c].op /\ call'[c].key = call[c].key
                          /\ c \notin lost => call'[c] = call[c]
  BY <1>1, <1>2, <1>3
<1>5. /\ known' \in [Processes -> Nat] /\ lock' \in [Processes -> Calls \cup {Store!NoCall}]
      /\ known'[p] = 0 /\ lock'[p] = Store!NoCall
      /\ \A q \in Processes : q # p => known'[q] = known[q] /\ lock'[q] = lock[q]
  BY <1>1 DEF StoresTypeOK
<1>6. local' \in [Processes -> SUBSET Keys] /\ acked' \in [Processes -> SUBSET Keys]
  BY <1>1, ZenonT(40) DEF StoresTypeOK
<1>7. StoresTypeOK'
  BY <1>1, <1>4, <1>5, <1>6 DEF StoresTypeOK
<1>8. \A c \in Calls : c \in lost <=> Home(c) = p /\ call[c].at \notin {"idle", "done"}
  BY DEF lost
<1>9. LockInv'
  <2>1. ASSUME NEW q \in Processes, lock'[q] # Store!NoCall
        PROVE  call'[lock'[q]].at \in {"look", "create"} /\ Home(lock'[q]) = q
    <3>1. q # p /\ lock'[q] = lock[q] /\ lock[q] \in Calls
      BY <1>5, <2>1 DEF StoresTypeOK
    <3>2. call[lock[q]].at \in {"look", "create"} /\ Home(lock[q]) = q
      BY <2>1, <3>1 DEF LockInv
    <3> QED BY <1>4, <1>8, <3>1, <3>2
  <2>2. ASSUME NEW c \in Calls, call'[c].at \in {"look", "create"} PROVE lock'[Home(c)] = c
    <3>1. c \notin lost /\ call[c].at \in {"look", "create"}
      BY <1>4, <2>2
    <3>2. Home(c) # p
      BY <1>8, <3>1
    <3> QED BY <1>5, <3>1, <3>2, HomeIsOne DEF LockInv
  <2> QED BY <2>1, <2>2 DEF LockInv
<1>10. KnownInv'
  <2>1. ASSUME wiped = 0, NEW q \in Processes, known'[q] # 0 PROVE known'[q] = server.made
    BY <1>5, <2>1 DEF KnownInv
  <2>2. ASSUME NEW c \in Calls, call'[c].at = "send", adapter \in Store!Servers PROVE known'[Home(c)] # 0
    <3>1. c \notin lost /\ call[c].at = "send"
      BY <1>4, <2>2
    <3>2. Home(c) # p
      BY <1>8, <3>1
    <3> QED BY <1>5, <2>2, <3>1, <3>2, HomeIsOne DEF KnownInv
  <2>3. \A c \in Calls : call'[c].error = "no collection" => wiped > 0
    BY <1>4, ZenonT(40) DEF KnownInv
  <2> QED BY <1>1, <2>1, <2>2, <2>3 DEF KnownInv
<1>11. ConflictInv'
  BY <1>1, <1>4 DEF ConflictInv
<1>12. KeptInv'
  <2>0. \A k \in Keys \ doubtful' : \A c \in lost : call[c].op # "get" => call[c].key # k
    BY <1>1
  <2>1. \A k \in Keys \ doubtful' : \A c : c \in Pending(k)' <=> c \in Pending(k)
    BY <1>4, <1>8, <2>0 DEF Pending
  <2>2. \A k \in Keys \ doubtful' : \A c : c \in Replying(k)' <=> c \in Replying(k)
    BY <1>4, <1>8, <2>0 DEF Pending, Replying
  <2>3. \A k \in Keys \ doubtful' : \A c \in Replying(k) : c \in Calls /\ Home(c) # p /\ call'[c].op = call[c].op
    BY <1>4, <1>8, <2>0 DEF Pending, Replying
  <2>4. \A c, q : Reaches(c, q)' <=> Reaches(c, q)
    BY <1>1 DEF Reaches
  <2>5. \A q \in Processes : \/ Store!Holds(q)' = Store!Holds(q) /\ acked'[q] = acked[q]
                             \/ q = p /\ adapter = "memory" /\ Store!Holds(q)' = {} /\ acked'[q] = {}
    <3>1. local \in [Processes -> SUBSET Keys] /\ acked \in [Processes -> SUBSET Keys]
      BY DEF StoresTypeOK
    <3> QED BY <1>1, <3>1 DEF Store!Holds, Store!Remote, Store!Servers
  <2> SUFFICES ASSUME NEW k \in Keys \ doubtful'
               PROVE  /\ \A d, e \in Pending(k)' : d = e
                      /\ \A q \in Processes :
                            /\ (\A d \in Replying(k)' : ~Reaches(d, q)') => (k \in Store!Holds(q)' <=> k \in acked'[q])
                            /\ \A d \in Replying(k)' : Reaches(d, q)' => (k \in Store!Holds(q)' <=> call'[d].op = "put")
    BY DEF KeptInv
  <2>6. k \in Keys \ doubtful
    BY <1>1
  <2>7. /\ \A d, e \in Pending(k) : d = e
        /\ \A q \in Processes :
              /\ (\A d \in Replying(k) : ~Reaches(d, q)) => (k \in Store!Holds(q) <=> k \in acked[q])
              /\ \A d \in Replying(k) : Reaches(d, q) => (k \in Store!Holds(q) <=> call[d].op = "put")
    BY <2>6 DEF KeptInv
  <2>8. adapter = "memory" => \A d \in Replying(k) : ~Reaches(d, p)
    BY <2>3 DEF Reaches, Store!Remote, Store!Servers
  <2>9. \A d, e \in Pending(k)' : d = e
    BY <2>1, <2>7
  <2>10. ASSUME NEW q \in Processes
         PROVE  /\ (\A d \in Replying(k)' : ~Reaches(d, q)') => (k \in Store!Holds(q)' <=> k \in acked'[q])
                /\ \A d \in Replying(k)' : Reaches(d, q)' => (k \in Store!Holds(q)' <=> call'[d].op = "put")
    <3>1. CASE Store!Holds(q)' = Store!Holds(q) /\ acked'[q] = acked[q]
      BY <2>2, <2>3, <2>4, <2>7, <3>1
    <3>2. CASE q = p /\ adapter = "memory" /\ Store!Holds(q)' = {} /\ acked'[q] = {}
      BY <2>2, <2>4, <2>8, <3>2
    <3> QED BY <2>5, <3>1, <3>2
  <2> QED BY <2>9, <2>10
<1> QED BY <1>7, <1>9, <1>10, <1>11, <1>12

----------------------------------------------------------------------------
LEMMA StoreStep == ASSUME StoresInv, Store!Next PROVE StoresInv'
<1>1. ASSUME NEW c \in Calls, NEW op \in {"put", "get", "remove"}, NEW k \in Keys, Store!Begin(c, op, k)
      PROVE  StoresInv'
  BY <1>1, StoreBegins DEF Operations
<1>2. ASSUME NEW c \in Calls, Store!GetOrCreate(c) PROVE StoresInv'
  <2>1. adapter \in Store!Servers
    BY <1>2 DEF Store!GetOrCreate, Store!Servers
  <2> QED BY <1>2, <2>1, StoreEnsured DEF Store!GetOrCreate
<1> QED BY <1>1, <1>2, StoreLocks, StoreLooks, StoreCreates, StoreSends, StoreReplies, StoreTimesOut,
           StoreWiped, StoreRestarts DEF Store!Next

LEMMA StoreCounts == \A S : Store!Cardinality(S) = Cardinality(S)
  BY DEF Store!Cardinality, Cardinality

LEMMA TwoOrMore == (\E p, q \in Processes : p # q) => Store!Cardinality(Processes) > 1
<1> SUFFICES ASSUME NEW p \in Processes, NEW q \in Processes, p # q PROVE Cardinality(Processes) > 1
  BY StoreCounts
<1>1. IsFiniteSet({p}) /\ Cardinality({p}) = 1
  BY FS_Singleton
<1>2. IsFiniteSet({p} \cup {q}) /\ Cardinality({p} \cup {q}) = 2
  BY <1>1, FS_AddElement
<1>3. Cardinality({p} \cup {q}) <= Cardinality(Processes) /\ Cardinality(Processes) \in Nat
  BY CallsAssumption, FS_Subset, FS_CardinalityType
<1> QED BY <1>2, <1>3

(* What was acknowledged as stored or removed is so, in every process, for *)
(* a key no change in flight is about and none failed or overlapped on; a  *)
(* refusal for want of a collection has lost data behind it, a conflict    *)
(* two processes; and the lock of a collection is held only by the call    *)
(* that makes it (the vector stores and file storages).                    *)
THEOREM StoresKeepTheirPromise == PlatformSpec => []AcknowledgedIsKept
<1>1. StoresInv /\ [PlatformNext]_allVars => StoresInv'
  <2> SUFFICES ASSUME StoresInv, [PlatformNext]_allVars PROVE StoresInv'
    OBVIOUS
  <2>1. CASE Store!Next
    BY <2>1, StoreStep
  <2>2. CASE UNCHANGED storeVars
    <3> USE DEF storeVars
    <3>1. StoresTypeOK' /\ LockInv' /\ KnownInv' /\ ConflictInv'
      BY <2>2 DEF StoresInv, StoresTypeOK, LockInv, KnownInv, ConflictInv
    <3>2. KeptInv'
      BY <2>2 DEF StoresInv, KeptInv, Pending, Replying, Reaches, Store!Holds
    <3> QED BY <3>1, <3>2 DEF StoresInv
  <2> QED BY <2>1, <2>2 DEF PlatformNext, allVars
<1>2. StoresInv => Store!AcknowledgedIsKept
  <2> SUFFICES ASSUME StoresInv PROVE Store!AcknowledgedIsKept
    OBVIOUS
  <2>1. ASSUME NEW k \in Keys \ doubtful, \A c \in Store!InFlight : call[c].key = k => ~Store!Changes(c),
               NEW p \in Processes
        PROVE  k \in Store!Holds(p) <=> k \in acked[p]
    <3>1. Replying(k) = {}
      BY <2>1 DEF Replying, Pending, Store!InFlight, Store!Changes
    <3> QED BY <3>1 DEF StoresInv, KeptInv
  <2>2. \A c \in Calls : /\ call[c].error = "no collection" => wiped > 0
                         /\ call[c].error = "conflict" => adapter = "qdrant" /\ Store!Cardinality(Processes) > 1
    BY TwoOrMore DEF StoresInv, KnownInv, ConflictInv
  <2>3. \A p \in Processes : lock[p] # Store!NoCall => call[lock[p]].at \in {"look", "create"}
    BY DEF StoresInv, LockInv
  <2> QED BY <2>1, <2>2, <2>3 DEF Store!AcknowledgedIsKept
<1> QED BY <1>1, <1>2, StoreInitial, PTL DEF PlatformSpec, AcknowledgedIsKept

----------------------------------------------------------------------------
(* The schema: Migrations. *)

(* The objects there are, those that a revision removed, and when each is   *)
(* made and removed: ten times the revision, plus the statement.           *)
Objects == DOMAIN Schema!Needs \cup Schema!Types
Auth == {"refresh_tokens", "password_hash", "role", "user_role"}
Born == [users |-> 12, role |-> 12, password_hash |-> 12, user_role |-> 11, refresh_tokens |-> 21,
         document_status |-> 31, documents |-> 32, document_chunks |-> 41, ai_executions |-> 51,
         conversations |-> 61, messages |-> 62,
         workflow_run_status |-> 71, workflow_runs |-> 72, workflow_steps |-> 73,
         approval_status |-> 81, approvals |-> 82, notifications |-> 91,
         task_priority |-> 101, task_status |-> 102, tasks |-> 103,
         prompt_key |-> 121, prompt_version |-> 122, workspace_preferences |-> 131,
         email_intent |-> 141, email_status |-> 142, emails |-> 143, memory_entries |-> 151,
         content |-> 161, workflow_definitions |-> 171, workflow_versions |-> 172,
         workflow_version_id |-> 173, calendar_events |-> 181]
Gone == [refresh_tokens |-> 112, password_hash |-> 113, role |-> 113, user_role |-> 114]

Up(v) == Schema!Revisions[v].up
Back(v) == Schema!Revisions[v].down

(* A revision's upgrade creates its objects statement by statement, after  *)
(* what they need, and its downgrade drops them before what they need.     *)
Creates(v) ==
    /\ Len(Up(v)) \in 1..9
    /\ \A k \in DOMAIN Up(v) :
          /\ Up(v)[k].does = "create" /\ ~Up(v)[k].checked
          /\ \A o \in Up(v)[k].names :
                /\ o \in Objects /\ Born[o] = 10 * v + k
                /\ \A n \in Schema!NeededBy(o) : n \in Objects /\ Born[n] <= Born[o] /\ (n \in Auth => o = "role")
Drops(v) ==
    /\ Len(Back(v)) \in 1..9
    /\ \A k \in DOMAIN Back(v) :
          /\ Back(v)[k].does = "drop"
          /\ \A o \in Back(v)[k].names :
                /\ o \in Objects /\ 10 * v < Born[o] /\ Born[o] <= 10 * v + 9
                /\ Back(v)[k].checked \/ \A j \in DOMAIN Back(v) : j < k => o \notin Back(v)[j].names
    /\ \A i \in DOMAIN Up(v) : \A o \in Up(v)[i].names :
          /\ o \in Schema!Types \/ \E k \in DOMAIN Back(v) : o \in Back(v)[k].names
          /\ \A k \in DOMAIN Back(v) :
                \/ \E j \in 1..k : o \in Back(v)[j].names
                \/ \A n \in Schema!NeededBy(o) : n \notin Back(v)[k].names

(* A revision's statements are numbered. *)
Sized(v) == DOMAIN Up(v) = 1..Len(Up(v)) /\ DOMAIN Back(v) = 1..Len(Back(v))

(* What the statements say. *)
LEMMA Counting ==
    /\ \A k \in 1..1 : k = 1
    /\ \A k \in 1..2 : k = 1 \/ k = 2
    /\ \A k \in 1..3 : k = 1 \/ k = 2 \/ k = 3
    /\ \A k \in 1..5 : k = 1 \/ k = 2 \/ k = 3 \/ k = 4 \/ k = 5
  OBVIOUS

LEMMA EachCreatesAndDrops == \A v \in 1..18 : v # 11 => Creates(v) /\ Drops(v) /\ Sized(v)
<1> USE DEF Schema!CreateType, Schema!Create, Schema!AddKey, Schema!Drop, Schema!DropColumns, Schema!DropTypes,
            Schema!Statement, Schema!NeededBy, Schema!Needs, Schema!Types, Objects, Auth, Born
<1>1. Creates(1) /\ Drops(1) /\ Sized(1)
  <2>1. Up(1) = Schema!Initial_users_table.up /\ Back(1) = Schema!Initial_users_table.down
    BY DEF Up, Back, Schema!Revisions
  <2>2. DOMAIN Up(1) = 1..2 /\ Len(Up(1)) = 2 /\ DOMAIN Back(1) = 1..1 /\ Len(Back(1)) = 1
    BY <2>1 DEF Schema!Initial_users_table
  <2>3. Creates(1)
    BY <2>1, <2>2, Counting DEF Creates, Schema!Initial_users_table
  <2>4. Drops(1)
    BY <2>1, <2>2, Counting DEF Drops, Schema!Initial_users_table
  <2>5. Sized(1)
    BY <2>2 DEF Sized
  <2> QED BY <2>3, <2>4, <2>5
<1>2. Creates(2) /\ Drops(2) /\ Sized(2)
  <2>1. Up(2) = Schema!Add_refresh_tokens.up /\ Back(2) = Schema!Add_refresh_tokens.down
    BY DEF Up, Back, Schema!Revisions
  <2>2. DOMAIN Up(2) = 1..1 /\ Len(Up(2)) = 1 /\ DOMAIN Back(2) = 1..1 /\ Len(Back(2)) = 1
    BY <2>1 DEF Schema!Add_refresh_tokens
  <2>3. Creates(2)
    BY <2>1, <2>2, Counting DEF Creates, Schema!Add_refresh_tokens
  <2>4. Drops(2)
    BY <2>1, <2>2, Counting DEF Drops, Schema!Add_refresh_tokens
  <2>5. Sized(2)
    BY <2>2 DEF Sized
  <2> QED BY <2>3, <2>4, <2>5
<1>3. Creates(3) /\ Drops(3) /\ Sized(3)
  <2>1. Up(3) = Schema!Add_documents_table.up /\ Back(3) = Schema!Add_documents_table.down
    BY DEF Up, Back, Schema!Revisions
  <2>2. DOMAIN Up(3) = 1..2 /\ Len(Up(3)) = 2 /\ DOMAIN Back(3) = 1..1 /\ Len(Back(3)) = 1
    BY <2>1 DEF Schema!Add_documents_table
  <2>3. Creates(3)
    BY <2>1, <2>2, Counting DEF Creates, Schema!Add_documents_table
  <2>4. Drops(3)
    BY <2>1, <2>2, Counting DEF Drops, Schema!Add_documents_table
  <2>5. Sized(3)
    BY <2>2 DEF Sized
  <2> QED BY <2>3, <2>4, <2>5
<1>4. Creates(4) /\ Drops(4) /\ Sized(4)
  <2>1. Up(4) = Schema!Add_document_chunks_table.up /\ Back(4) = Schema!Add_document_chunks_table.down
    BY DEF Up, Back, Schema!Revisions
  <2>2. DOMAIN Up(4) = 1..1 /\ Len(Up(4)) = 1 /\ DOMAIN Back(4) = 1..1 /\ Len(Back(4)) = 1
    BY <2>1 DEF Schema!Add_document_chunks_table
  <2>3. Creates(4)
    BY <2>1, <2>2, Counting DEF Creates, Schema!Add_document_chunks_table
  <2>4. Drops(4)
    BY <2>1, <2>2, Counting DEF Drops, Schema!Add_document_chunks_table
  <2>5. Sized(4)
    BY <2>2 DEF Sized
  <2> QED BY <2>3, <2>4, <2>5
<1>5. Creates(5) /\ Drops(5) /\ Sized(5)
  <2>1. Up(5) = Schema!Add_ai_executions_table.up /\ Back(5) = Schema!Add_ai_executions_table.down
    BY DEF Up, Back, Schema!Revisions
  <2>2. DOMAIN Up(5) = 1..1 /\ Len(Up(5)) = 1 /\ DOMAIN Back(5) = 1..1 /\ Len(Back(5)) = 1
    BY <2>1 DEF Schema!Add_ai_executions_table
  <2>3. Creates(5)
    BY <2>1, <2>2, Counting DEF Creates, Schema!Add_ai_executions_table
  <2>4. Drops(5)
    BY <2>1, <2>2, Counting DEF Drops, Schema!Add_ai_executions_table
  <2>5. Sized(5)
    BY <2>2 DEF Sized
  <2> QED BY <2>3, <2>4, <2>5
<1>6. Creates(6) /\ Drops(6) /\ Sized(6)
  <2>1. Up(6) = Schema!Add_conversations_and_messages.up /\ Back(6) = Schema!Add_conversations_and_messages.down
    BY DEF Up, Back, Schema!Revisions
  <2>2. DOMAIN Up(6) = 1..2 /\ Len(Up(6)) = 2 /\ DOMAIN Back(6) = 1..2 /\ Len(Back(6)) = 2
    BY <2>1 DEF Schema!Add_conversations_and_messages
  <2>3. Creates(6)
    BY <2>1, <2>2, Counting DEF Creates, Schema!Add_conversations_and_messages
  <2>4. Drops(6)
    BY <2>1, <2>2, Counting DEF Drops, Schema!Add_conversations_and_messages
  <2>5. Sized(6)
    BY <2>2 DEF Sized
  <2> QED BY <2>3, <2>4, <2>5
<1>7. Creates(7) /\ Drops(7) /\ Sized(7)
  <2>1. Up(7) = Schema!Add_workflow_runs_and_steps.up /\ Back(7) = Schema!Add_workflow_runs_and_steps.down
    BY DEF Up, Back, Schema!Revisions
  <2>2. DOMAIN Up(7) = 1..3 /\ Len(Up(7)) = 3 /\ DOMAIN Back(7) = 1..2 /\ Len(Back(7)) = 2
    BY <2>1 DEF Schema!Add_workflow_runs_and_steps
  <2>3. Creates(7)
    BY <2>1, <2>2, Counting DEF Creates, Schema!Add_workflow_runs_and_steps
  <2>4. Drops(7)
    BY <2>1, <2>2, Counting DEF Drops, Schema!Add_workflow_runs_and_steps
  <2>5. Sized(7)
    BY <2>2 DEF Sized
  <2> QED BY <2>3, <2>4, <2>5
<1>8. Creates(8) /\ Drops(8) /\ Sized(8)
  <2>1. Up(8) = Schema!Add_approvals.up /\ Back(8) = Schema!Add_approvals.down
    BY DEF Up, Back, Schema!Revisions
  <2>2. DOMAIN Up(8) = 1..2 /\ Len(Up(8)) = 2 /\ DOMAIN Back(8) = 1..1 /\ Len(Back(8)) = 1
    BY <2>1 DEF Schema!Add_approvals
  <2>3. Creates(8)
    BY <2>1, <2>2, Counting DEF Creates, Schema!Add_approvals
  <2>4. Drops(8)
    BY <2>1, <2>2, Counting DEF Drops, Schema!Add_approvals
  <2>5. Sized(8)
    BY <2>2 DEF Sized
  <2> QED BY <2>3, <2>4, <2>5
<1>9. Creates(9) /\ Drops(9) /\ Sized(9)
  <2>1. Up(9) = Schema!Add_notifications.up /\ Back(9) = Schema!Add_notifications.down
    BY DEF Up, Back, Schema!Revisions
  <2>2. DOMAIN Up(9) = 1..1 /\ Len(Up(9)) = 1 /\ DOMAIN Back(9) = 1..1 /\ Len(Back(9)) = 1
    BY <2>1 DEF Schema!Add_notifications
  <2>3. Creates(9)
    BY <2>1, <2>2, Counting DEF Creates, Schema!Add_notifications
  <2>4. Drops(9)
    BY <2>1, <2>2, Counting DEF Drops, Schema!Add_notifications
  <2>5. Sized(9)
    BY <2>2 DEF Sized
  <2> QED BY <2>3, <2>4, <2>5
<1>10. Creates(10) /\ Drops(10) /\ Sized(10)
  <2>1. Up(10) = Schema!Add_tasks.up /\ Back(10) = Schema!Add_tasks.down
    BY DEF Up, Back, Schema!Revisions
  <2>2. DOMAIN Up(10) = 1..3 /\ Len(Up(10)) = 3 /\ DOMAIN Back(10) = 1..1 /\ Len(Back(10)) = 1
    BY <2>1 DEF Schema!Add_tasks
  <2>3. Creates(10)
    BY <2>1, <2>2, Counting DEF Creates, Schema!Add_tasks
  <2>4. Drops(10)
    BY <2>1, <2>2, Counting DEF Drops, Schema!Add_tasks
  <2>5. Sized(10)
    BY <2>2 DEF Sized
  <2> QED BY <2>3, <2>4, <2>5
<1>12. Creates(12) /\ Drops(12) /\ Sized(12)
  <2>1. Up(12) = Schema!Add_prompt_provenance.up /\ Back(12) = Schema!Add_prompt_provenance.down
    BY DEF Up, Back, Schema!Revisions
  <2>2. DOMAIN Up(12) = 1..2 /\ Len(Up(12)) = 2 /\ DOMAIN Back(12) = 1..1 /\ Len(Back(12)) = 1
    BY <2>1 DEF Schema!Add_prompt_provenance
  <2>3. Creates(12)
    BY <2>1, <2>2, Counting DEF Creates, Schema!Add_prompt_provenance
  <2>4. Drops(12)
    BY <2>1, <2>2, Counting DEF Drops, Schema!Add_prompt_provenance
  <2>5. Sized(12)
    BY <2>2 DEF Sized
  <2> QED BY <2>3, <2>4, <2>5
<1>13. Creates(13) /\ Drops(13) /\ Sized(13)
  <2>1. Up(13) = Schema!Add_workspace_preferences.up /\ Back(13) = Schema!Add_workspace_preferences.down
    BY DEF Up, Back, Schema!Revisions
  <2>2. DOMAIN Up(13) = 1..1 /\ Len(Up(13)) = 1 /\ DOMAIN Back(13) = 1..1 /\ Len(Back(13)) = 1
    BY <2>1 DEF Schema!Add_workspace_preferences
  <2>3. Creates(13)
    BY <2>1, <2>2, Counting DEF Creates, Schema!Add_workspace_preferences
  <2>4. Drops(13)
    BY <2>1, <2>2, Counting DEF Drops, Schema!Add_workspace_preferences
  <2>5. Sized(13)
    BY <2>2 DEF Sized
  <2> QED BY <2>3, <2>4, <2>5
<1>14. Creates(14) /\ Drops(14) /\ Sized(14)
  <2>1. Up(14) = Schema!Add_emails.up /\ Back(14) = Schema!Add_emails.down
    BY DEF Up, Back, Schema!Revisions
  <2>2. DOMAIN Up(14) = 1..3 /\ Len(Up(14)) = 3 /\ DOMAIN Back(14) = 1..3 /\ Len(Back(14)) = 3
    BY <2>1 DEF Schema!Add_emails
  <2>3. Creates(14)
    BY <2>1, <2>2, Counting DEF Creates, Schema!Add_emails
  <2>4. Drops(14)
    BY <2>1, <2>2, Counting DEF Drops, Schema!Add_emails
  <2>5. Sized(14)
    BY <2>2 DEF Sized
  <2> QED BY <2>3, <2>4, <2>5
<1>15. Creates(15) /\ Drops(15) /\ Sized(15)
  <2>1. Up(15) = Schema!Add_long_term_memory.up /\ Back(15) = Schema!Add_long_term_memory.down
    BY DEF Up, Back, Schema!Revisions
  <2>2. DOMAIN Up(15) = 1..1 /\ Len(Up(15)) = 1 /\ DOMAIN Back(15) = 1..1 /\ Len(Back(15)) = 1
    BY <2>1 DEF Schema!Add_long_term_memory
  <2>3. Creates(15)
    BY <2>1, <2>2, Counting DEF Creates, Schema!Add_long_term_memory
  <2>4. Drops(15)
    BY <2>1, <2>2, Counting DEF Drops, Schema!Add_long_term_memory
  <2>5. Sized(15)
    BY <2>2 DEF Sized
  <2> QED BY <2>3, <2>4, <2>5
<1>16. Creates(16) /\ Drops(16) /\ Sized(16)
  <2>1. Up(16) = Schema!Add_chunk_full_text.up /\ Back(16) = Schema!Add_chunk_full_text.down
    BY DEF Up, Back, Schema!Revisions
  <2>2. DOMAIN Up(16) = 1..1 /\ Len(Up(16)) = 1 /\ DOMAIN Back(16) = 1..1 /\ Len(Back(16)) = 1
    BY <2>1 DEF Schema!Add_chunk_full_text
  <2>3. Creates(16)
    BY <2>1, <2>2, Counting DEF Creates, Schema!Add_chunk_full_text
  <2>4. Drops(16)
    BY <2>1, <2>2, Counting DEF Drops, Schema!Add_chunk_full_text
  <2>5. Sized(16)
    BY <2>2 DEF Sized
  <2> QED BY <2>3, <2>4, <2>5
<1>17. Creates(17) /\ Drops(17) /\ Sized(17)
  <2>1. Up(17) = Schema!Add_workflow_versioning.up /\ Back(17) = Schema!Add_workflow_versioning.down
    BY DEF Up, Back, Schema!Revisions
  <2>2. DOMAIN Up(17) = 1..3 /\ Len(Up(17)) = 3 /\ DOMAIN Back(17) = 1..3 /\ Len(Back(17)) = 3
    BY <2>1 DEF Schema!Add_workflow_versioning
  <2>3. Creates(17)
    BY <2>1, <2>2, Counting DEF Creates, Schema!Add_workflow_versioning
  <2>4. Drops(17)
    BY <2>1, <2>2, Counting DEF Drops, Schema!Add_workflow_versioning
  <2>5. Sized(17)
    BY <2>2 DEF Sized
  <2> QED BY <2>3, <2>4, <2>5
<1>18. Creates(18) /\ Drops(18) /\ Sized(18)
  <2>1. Up(18) = Schema!Add_calendar_events.up /\ Back(18) = Schema!Add_calendar_events.down
    BY DEF Up, Back, Schema!Revisions
  <2>2. DOMAIN Up(18) = 1..1 /\ Len(Up(18)) = 1 /\ DOMAIN Back(18) = 1..1 /\ Len(Back(18)) = 1
    BY <2>1 DEF Schema!Add_calendar_events
  <2>3. Creates(18)
    BY <2>1, <2>2, Counting DEF Creates, Schema!Add_calendar_events
  <2>4. Drops(18)
    BY <2>1, <2>2, Counting DEF Drops, Schema!Add_calendar_events
  <2>5. Sized(18)
    BY <2>2 DEF Sized
  <2> QED BY <2>3, <2>4, <2>5
<1>19. \A v \in 1..18 : \/ v = 1 \/ v = 2 \/ v = 3 \/ v = 4 \/ v = 5 \/ v = 6 \/ v = 7 \/ v = 8 \/ v = 9
                        \/ v = 10 \/ v = 11 \/ v = 12 \/ v = 13 \/ v = 14 \/ v = 15 \/ v = 16 \/ v = 17 \/ v = 18
  OBVIOUS
<1> HIDE DEF Schema!CreateType, Schema!Create, Schema!AddKey, Schema!Drop, Schema!DropColumns, Schema!DropTypes,
             Schema!Statement, Schema!NeededBy, Schema!Needs, Schema!Types, Objects, Auth, Born
<1> QED BY <1>1, <1>2, <1>3, <1>4, <1>5, <1>6, <1>7, <1>8, <1>9, <1>10, <1>12, <1>13, <1>14, <1>15, <1>16,
           <1>17, <1>18, <1>19

(* Every object is created by one of them. *)
LEMMA EachIsCreated == \A o \in Objects : \E v \in 1..18 : v # 11 /\ \E k \in DOMAIN Up(v) : o \in Up(v)[k].names
<1> USE DEF Schema!CreateType, Schema!Create, Schema!AddKey, Schema!Statement
<1>1. \A o \in {"user_role", "users", "role", "password_hash"} : \E k \in DOMAIN Up(1) : o \in Up(1)[k].names
  <2>1. Up(1) = Schema!Initial_users_table.up
    BY DEF Up, Schema!Revisions
  <2>2. DOMAIN Up(1) = 1..2 /\ \A k \in 1..2 : k \in DOMAIN Up(1)
    BY <2>1 DEF Schema!Initial_users_table
  <2> QED BY <2>1, <2>2 DEF Schema!Initial_users_table
<1>2. \A o \in {"refresh_tokens"} : \E k \in DOMAIN Up(2) : o \in Up(2)[k].names
  <2>1. Up(2) = Schema!Add_refresh_tokens.up
    BY DEF Up, Schema!Revisions
  <2>2. DOMAIN Up(2) = 1..1 /\ \A k \in 1..1 : k \in DOMAIN Up(2)
    BY <2>1 DEF Schema!Add_refresh_tokens
  <2> QED BY <2>1, <2>2 DEF Schema!Add_refresh_tokens
<1>3. \A o \in {"document_status", "documents"} : \E k \in DOMAIN Up(3) : o \in Up(3)[k].names
  <2>1. Up(3) = Schema!Add_documents_table.up
    BY DEF Up, Schema!Revisions
  <2>2. DOMAIN Up(3) = 1..2 /\ \A k \in 1..2 : k \in DOMAIN Up(3)
    BY <2>1 DEF Schema!Add_documents_table
  <2> QED BY <2>1, <2>2 DEF Schema!Add_documents_table
<1>4. \A o \in {"document_chunks"} : \E k \in DOMAIN Up(4) : o \in Up(4)[k].names
  <2>1. Up(4) = Schema!Add_document_chunks_table.up
    BY DEF Up, Schema!Revisions
  <2>2. DOMAIN Up(4) = 1..1 /\ \A k \in 1..1 : k \in DOMAIN Up(4)
    BY <2>1 DEF Schema!Add_document_chunks_table
  <2> QED BY <2>1, <2>2 DEF Schema!Add_document_chunks_table
<1>5. \A o \in {"ai_executions"} : \E k \in DOMAIN Up(5) : o \in Up(5)[k].names
  <2>1. Up(5) = Schema!Add_ai_executions_table.up
    BY DEF Up, Schema!Revisions
  <2>2. DOMAIN Up(5) = 1..1 /\ \A k \in 1..1 : k \in DOMAIN Up(5)
    BY <2>1 DEF Schema!Add_ai_executions_table
  <2> QED BY <2>1, <2>2 DEF Schema!Add_ai_executions_table
<1>6. \A o \in {"conversations", "messages"} : \E k \in DOMAIN Up(6) : o \in Up(6)[k].names
  <2>1. Up(6) = Schema!Add_conversations_and_messages.up
    BY DEF Up, Schema!Revisions
  <2>2. DOMAIN Up(6) = 1..2 /\ \A k \in 1..2 : k \in DOMAIN Up(6)
    BY <2>1 DEF Schema!Add_conversations_and_messages
  <2> QED BY <2>1, <2>2 DEF Schema!Add_conversations_and_messages
<1>7. \A o \in {"workflow_run_status", "workflow_runs", "workflow_steps"} : \E k \in DOMAIN Up(7) : o \in Up(7)[k].names
  <2>1. Up(7) = Schema!Add_workflow_runs_and_steps.up
    BY DEF Up, Schema!Revisions
  <2>2. DOMAIN Up(7) = 1..3 /\ \A k \in 1..3 : k \in DOMAIN Up(7)
    BY <2>1 DEF Schema!Add_workflow_runs_and_steps
  <2> QED BY <2>1, <2>2 DEF Schema!Add_workflow_runs_and_steps
<1>8. \A o \in {"approval_status", "approvals"} : \E k \in DOMAIN Up(8) : o \in Up(8)[k].names
  <2>1. Up(8) = Schema!Add_approvals.up
    BY DEF Up, Schema!Revisions
  <2>2. DOMAIN Up(8) = 1..2 /\ \A k \in 1..2 : k \in DOMAIN Up(8)
    BY <2>1 DEF Schema!Add_approvals
  <2> QED BY <2>1, <2>2 DEF Schema!Add_approvals
<1>9. \A o \in {"notifications"} : \E k \in DOMAIN Up(9) : o \in Up(9)[k].names
  <2>1. Up(9) = Schema!Add_notifications.up
    BY DEF Up, Schema!Revisions
  <2>2. DOMAIN Up(9) = 1..1 /\ \A k \in 1..1 : k \in DOMAIN Up(9)
    BY <2>1 DEF Schema!Add_notifications
  <2> QED BY <2>1, <2>2 DEF Schema!Add_notifications
<1>10. \A o \in {"task_priority", "task_status", "tasks"} : \E k \in DOMAIN Up(10) : o \in Up(10)[k].names
  <2>1. Up(10) = Schema!Add_tasks.up
    BY DEF Up, Schema!Revisions
  <2>2. DOMAIN Up(10) = 1..3 /\ \A k \in 1..3 : k \in DOMAIN Up(10)
    BY <2>1 DEF Schema!Add_tasks
  <2> QED BY <2>1, <2>2 DEF Schema!Add_tasks
<1>12. \A o \in {"prompt_key", "prompt_version"} : \E k \in DOMAIN Up(12) : o \in Up(12)[k].names
  <2>1. Up(12) = Schema!Add_prompt_provenance.up
    BY DEF Up, Schema!Revisions
  <2>2. DOMAIN Up(12) = 1..2 /\ \A k \in 1..2 : k \in DOMAIN Up(12)
    BY <2>1 DEF Schema!Add_prompt_provenance
  <2> QED BY <2>1, <2>2 DEF Schema!Add_prompt_provenance
<1>13. \A o \in {"workspace_preferences"} : \E k \in DOMAIN Up(13) : o \in Up(13)[k].names
  <2>1. Up(13) = Schema!Add_workspace_preferences.up
    BY DEF Up, Schema!Revisions
  <2>2. DOMAIN Up(13) = 1..1 /\ \A k \in 1..1 : k \in DOMAIN Up(13)
    BY <2>1 DEF Schema!Add_workspace_preferences
  <2> QED BY <2>1, <2>2 DEF Schema!Add_workspace_preferences
<1>14. \A o \in {"email_intent", "email_status", "emails"} : \E k \in DOMAIN Up(14) : o \in Up(14)[k].names
  <2>1. Up(14) = Schema!Add_emails.up
    BY DEF Up, Schema!Revisions
  <2>2. DOMAIN Up(14) = 1..3 /\ \A k \in 1..3 : k \in DOMAIN Up(14)
    BY <2>1 DEF Schema!Add_emails
  <2> QED BY <2>1, <2>2 DEF Schema!Add_emails
<1>15. \A o \in {"memory_entries"} : \E k \in DOMAIN Up(15) : o \in Up(15)[k].names
  <2>1. Up(15) = Schema!Add_long_term_memory.up
    BY DEF Up, Schema!Revisions
  <2>2. DOMAIN Up(15) = 1..1 /\ \A k \in 1..1 : k \in DOMAIN Up(15)
    BY <2>1 DEF Schema!Add_long_term_memory
  <2> QED BY <2>1, <2>2 DEF Schema!Add_long_term_memory
<1>16. \A o \in {"content"} : \E k \in DOMAIN Up(16) : o \in Up(16)[k].names
  <2>1. Up(16) = Schema!Add_chunk_full_text.up
    BY DEF Up, Schema!Revisions
  <2>2. DOMAIN Up(16) = 1..1 /\ \A k \in 1..1 : k \in DOMAIN Up(16)
    BY <2>1 DEF Schema!Add_chunk_full_text
  <2> QED BY <2>1, <2>2 DEF Schema!Add_chunk_full_text
<1>17. \A o \in {"workflow_definitions", "workflow_versions", "workflow_version_id"} : \E k \in DOMAIN Up(17) : o \in Up(17)[k].names
  <2>1. Up(17) = Schema!Add_workflow_versioning.up
    BY DEF Up, Schema!Revisions
  <2>2. DOMAIN Up(17) = 1..3 /\ \A k \in 1..3 : k \in DOMAIN Up(17)
    BY <2>1 DEF Schema!Add_workflow_versioning
  <2> QED BY <2>1, <2>2 DEF Schema!Add_workflow_versioning
<1>18. \A o \in {"calendar_events"} : \E k \in DOMAIN Up(18) : o \in Up(18)[k].names
  <2>1. Up(18) = Schema!Add_calendar_events.up
    BY DEF Up, Schema!Revisions
  <2>2. DOMAIN Up(18) = 1..1 /\ \A k \in 1..1 : k \in DOMAIN Up(18)
    BY <2>1 DEF Schema!Add_calendar_events
  <2> QED BY <2>1, <2>2 DEF Schema!Add_calendar_events
<1> HIDE DEF Schema!CreateType, Schema!Create, Schema!AddKey, Schema!Statement
<1>19. \A v \in {1, 2, 3, 4, 5, 6, 7, 8, 9, 10, 12, 13, 14, 15, 16, 17, 18} : v \in 1..18 /\ v # 11
  OBVIOUS
<1> QED BY <1>1, <1>2, <1>3, <1>4, <1>5, <1>6, <1>7, <1>8, <1>9, <1>10, <1>12, <1>13, <1>14, <1>15, <1>16,
           <1>17, <1>18, <1>19 DEF Objects, Schema!Needs, Schema!Types

(* The revision that removed authentication. *)
LEMMA Removes ==
    /\ Len(Up(11)) = 4 /\ DOMAIN Up(11) = 1..4 /\ Up(11)[1].does = "new" /\ Up(11)[1].names = {} /\ Up(11)[1].rows
    /\ \A k \in 2..4 : /\ Up(11)[k].does = "drop"
                       /\ \A o : o \in Up(11)[k].names <=> o \in Auth /\ Gone[o] = 110 + k
    /\ Len(Back(11)) = 5 /\ DOMAIN Back(11) = 1..5
    /\ Back(11)[5].does = "old" /\ Back(11)[5].names = {} /\ Back(11)[5].rows
    /\ \A k \in 1..4 : Back(11)[k].does = "create"
    /\ Back(11)[1].checked
    /\ Back(11)[1].names = {"user_role"} /\ Back(11)[2].names = {"password_hash"}
    /\ Back(11)[3].names = {"role"} /\ Back(11)[4].names = {"refresh_tokens"}
<1> USE DEF Schema!Rename, Schema!CreateMissingType, Schema!Create, Schema!Drop, Schema!DropColumns,
            Schema!DropTypes, Schema!Statement
<1>1. Up(11) = Schema!Remove_authentication.up /\ Back(11) = Schema!Remove_authentication.down
  BY DEF Up, Back, Schema!Revisions
<1>2. Len(Up(11)) = 4 /\ DOMAIN Up(11) = 1..4 /\ Up(11)[1].does = "new" /\ Up(11)[1].names = {} /\ Up(11)[1].rows
  BY <1>1 DEF Schema!Remove_authentication
<1>3. ASSUME NEW k \in 2..4
      PROVE  /\ Up(11)[k].does = "drop"
             /\ \A o : o \in Up(11)[k].names <=> o \in Auth /\ Gone[o] = 110 + k
  <2>1. k = 2 \/ k = 3 \/ k = 4
    OBVIOUS
  <2> QED BY <1>1, <2>1 DEF Schema!Remove_authentication, Auth, Gone
<1>4. /\ Len(Back(11)) = 5 /\ DOMAIN Back(11) = 1..5
      /\ Back(11)[5].does = "old" /\ Back(11)[5].names = {} /\ Back(11)[5].rows
  BY <1>1 DEF Schema!Remove_authentication
<1>5. ASSUME NEW k \in 1..4 PROVE Back(11)[k].does = "create"
  <2>1. k = 1 \/ k = 2 \/ k = 3 \/ k = 4
    OBVIOUS
  <2> QED BY <1>1, <2>1 DEF Schema!Remove_authentication
<1>6. /\ Back(11)[1].checked
      /\ Back(11)[1].names = {"user_role"} /\ Back(11)[2].names = {"password_hash"}
      /\ Back(11)[3].names = {"role"} /\ Back(11)[4].names = {"refresh_tokens"}
  BY <1>1 DEF Schema!Remove_authentication
<1> QED BY <1>2, <1>3, <1>4, <1>5, <1>6

----------------------------------------------------------------------------
(* What there is at a time; after a revision; what the downgrade of one has *)
(* undone and left by a statement of it; and what of it a database has.    *)
Stage(t) == {o \in Objects : Born[o] <= t /\ (o \in Auth => t < Gone[o])}
Full(v) == Stage(10 * v + 9)
Undone(v, k) == UNION {Back(v)[j].names : j \in 1..k}
Restored(v, k) == IF v = 11 THEN Full(11) \cup Undone(11, k) ELSE Full(v) \ Undone(v, k)
On(base, names) == IF base = "sqlite" THEN names \ Schema!Types ELSE names

(* The numbers of a revision's statements. *)
Numbers(statements) ==
    /\ Len(statements) \in 1..9
    /\ \A k \in DOMAIN statements : k \in 1..9 /\ k \in 1..Len(statements) /\ k <= Len(statements)
    /\ \A k \in 1..Len(statements) : k \in DOMAIN statements /\ k \in 1..9
    /\ \A k \in 1..9 : k <= Len(statements) => k \in DOMAIN statements

LEMMA Revised == \A v \in 1..18 : Numbers(Up(v)) /\ Numbers(Back(v))
<1>1. ASSUME NEW s, Len(s) \in 1..9, DOMAIN s = 1..Len(s) PROVE Numbers(s)
  <2>1. \A n \in 1..9 : /\ \A k \in 1..n : k \in 1..9 /\ k <= n
                        /\ \A k \in 1..9 : k <= n => k \in 1..n
    OBVIOUS
  <2>2. \A k \in 1..Len(s) : k \in 1..9 /\ k <= Len(s)
    BY <1>1, <2>1
  <2>3. \A k \in 1..9 : k <= Len(s) => k \in 1..Len(s)
    BY <1>1, <2>1
  <2> QED BY <1>1, <2>2, <2>3, Zenon DEF Numbers
<1>2. \A v \in 1..18 : v # 11 =>
         /\ Len(Up(v)) \in 1..9 /\ DOMAIN Up(v) = 1..Len(Up(v))
         /\ Len(Back(v)) \in 1..9 /\ DOMAIN Back(v) = 1..Len(Back(v))
  BY EachCreatesAndDrops DEF Creates, Drops, Sized
<1>3. /\ Len(Up(11)) \in 1..9 /\ DOMAIN Up(11) = 1..Len(Up(11))
      /\ Len(Back(11)) \in 1..9 /\ DOMAIN Back(11) = 1..Len(Back(11))
  BY Removes
<1> QED BY <1>1, <1>2, <1>3, Zenon

(* An object's place in the chain. *)
LEMMA Placed ==
    /\ \A o \in Objects : \E v \in 1..18, k \in 1..9 :
          v # 11 /\ k <= Len(Up(v)) /\ o \in Up(v)[k].names /\ Born[o] = 10 * v + k
    /\ \A o \in Objects : Born[o] \in Nat
    /\ \A o \in Objects, v \in 1..18, k \in 1..9 :
          Born[o] = 10 * v + k => v # 11 /\ k \in DOMAIN Up(v) /\ o \in Up(v)[k].names
<1>1. \A o \in Objects : \E v \in 1..18, k \in 1..9 :
          v # 11 /\ k <= Len(Up(v)) /\ o \in Up(v)[k].names /\ Born[o] = 10 * v + k
  <2> SUFFICES ASSUME NEW o \in Objects
               PROVE  \E v \in 1..18, k \in 1..9 :
                         v # 11 /\ k <= Len(Up(v)) /\ o \in Up(v)[k].names /\ Born[o] = 10 * v + k
    OBVIOUS
  <2>1. PICK v \in 1..18 : v # 11 /\ \E k \in DOMAIN Up(v) : o \in Up(v)[k].names
    BY EachIsCreated
  <2>2. PICK k \in DOMAIN Up(v) : o \in Up(v)[k].names
    BY <2>1
  <2>3. k \in 1..9 /\ k <= Len(Up(v))
    BY <2>2, Revised DEF Numbers
  <2>4. Born[o] = 10 * v + k
    BY <2>1, <2>2, EachCreatesAndDrops DEF Creates
  <2> QED BY <2>1, <2>2, <2>3, <2>4
<1>2. \A o \in Objects : Born[o] \in Nat
  <2> SUFFICES ASSUME NEW o \in Objects PROVE Born[o] \in Nat
    OBVIOUS
  <2>1. PICK v \in 1..18, k \in 1..9 : Born[o] = 10 * v + k
    BY <1>1
  <2> QED BY <2>1
<1>3. ASSUME NEW o \in Objects, NEW v \in 1..18, NEW k \in 1..9, Born[o] = 10 * v + k
      PROVE  v # 11 /\ k \in DOMAIN Up(v) /\ o \in Up(v)[k].names
  <2>1. PICK u \in 1..18, j \in 1..9 : u # 11 /\ j <= Len(Up(u)) /\ o \in Up(u)[j].names /\ Born[o] = 10 * u + j
    BY <1>1
  <2>2. u = v /\ j = k
    BY <1>3, <2>1
  <2>3. j \in DOMAIN Up(u)
    BY <2>1, Revised DEF Numbers
  <2> QED BY <2>1, <2>2, <2>3
<1> QED BY <1>1, <1>2, <1>3

LEMMA Removal == \A o \in Auth : o \in Objects /\ Gone[o] \in 112..114 /\ Born[o] <= 21
<1>1. \A o \in Auth : Gone[o] \in 112..114 /\ Born[o] <= 21
  BY DEF Auth, Gone, Born
<1>2. Auth \subseteq Objects
  BY DEF Auth, Objects, Schema!Needs, Schema!Types
<1> QED BY <1>1, <1>2

(* Nothing is made or removed between two revisions. *)
LEMMA Between ==
    /\ \A v \in 1..18 : Stage(10 * v + Len(Up(v))) = Full(v)
    /\ \A v \in 1..18 : Stage(10 * v) = Full(v - 1)
    /\ Full(0) = {}
<1>1. ASSUME NEW v \in 1..18 PROVE Stage(10 * v + Len(Up(v))) = Full(v)
  <2> DEFINE n == Len(Up(v))
  <2>1. n \in 1..9
    BY Revised DEF Numbers
  <2>2. ASSUME NEW o \in Objects PROVE Born[o] <= 10 * v + 9 <=> Born[o] <= 10 * v + n
    <3>1. PICK u \in 1..18, k \in 1..9 : k <= Len(Up(u)) /\ Born[o] = 10 * u + k
      BY Placed
    <3>2. u = v => k <= n
      BY <3>1
    <3> HIDE DEF n
    <3> QED BY <2>1, <3>1, <3>2
  <2>3. ASSUME NEW o \in Auth PROVE 10 * v + 9 < Gone[o] <=> 10 * v + n < Gone[o]
    <3>1. v = 11 => n = 4
      BY Removes
    <3> HIDE DEF n
    <3> QED BY <2>1, <3>1, Removal
  <2> QED BY <2>2, <2>3 DEF Stage, Full
<1>2. ASSUME NEW v \in 1..18 PROVE Stage(10 * v) = Full(v - 1)
  <2>1. 10 * (v - 1) + 9 = 10 * v - 1
    OBVIOUS
  <2>2. ASSUME NEW o \in Objects PROVE Born[o] <= 10 * v <=> Born[o] <= 10 * v - 1
    <3>1. PICK u \in 1..18, k \in 1..9 : Born[o] = 10 * u + k
      BY Placed
    <3> QED BY <3>1
  <2>3. ASSUME NEW o \in Auth PROVE 10 * v < Gone[o] <=> 10 * v - 1 < Gone[o]
    BY Removal
  <2> QED BY <2>1, <2>2, <2>3 DEF Stage, Full
<1>3. Full(0) = {}
  <2>1. \A o \in Objects : Born[o] > 9
    <3> SUFFICES ASSUME NEW o \in Objects PROVE Born[o] > 9
      OBVIOUS
    <3>1. PICK u \in 1..18, k \in 1..9 : Born[o] = 10 * u + k
      BY Placed
    <3> QED BY <3>1
  <2>2. \A o \in Objects : ~(Born[o] <= 10 * 0 + 9)
    BY <2>1, Placed
  <2> QED BY <2>2 DEF Stage, Full
<1> QED BY <1>1, <1>2, <1>3

(* A statement of an upgrade leads to the next stage. *)
LEMMA StageAfter ==
    ASSUME NEW v \in 1..18, NEW k \in 1..Len(Up(v))
    PROVE  /\ v # 11 => Stage(10 * v + k) = Stage(10 * v + k - 1) \cup Up(v)[k].names
           /\ v = 11 => Stage(10 * v + k) = Stage(10 * v + k - 1) \ Up(v)[k].names
<1>0. Len(Up(v)) \in 1..9 /\ k \in DOMAIN Up(v) /\ k \in 1..9
  BY Revised DEF Numbers
<1> DEFINE t == 10 * v + k
<1>1. t \in Nat
  BY <1>0
<1>2. ASSUME v # 11 PROVE Stage(t) = Stage(t - 1) \cup Up(v)[k].names
  <2>1. ASSUME NEW o \in Objects PROVE Born[o] <= t <=> Born[o] <= t - 1 \/ o \in Up(v)[k].names
    <3>1. o \in Up(v)[k].names => Born[o] = t
      BY <1>0, <1>2, EachCreatesAndDrops DEF Creates
    <3>2. Born[o] = t => o \in Up(v)[k].names
      BY <1>0, Placed
    <3> QED BY <1>1, <3>1, <3>2, Placed, SMTT(30)
  <2>2. ASSUME NEW o \in Auth PROVE (t < Gone[o] <=> t - 1 < Gone[o]) /\ (o \in Up(v)[k].names => t < Gone[o])
    <3>1. o \in Up(v)[k].names => Born[o] = t
      BY <1>0, <1>2, EachCreatesAndDrops DEF Creates
    <3>2. t < 112 \/ t > 114
      BY <1>0, <1>2
    <3>3. Gone[o] \in 112..114 /\ Born[o] <= 21
      BY Removal
    <3> HIDE DEF t
    <3>4. t < Gone[o] <=> t - 1 < Gone[o]
      BY <1>1, <3>2, <3>3
    <3>5. o \in Up(v)[k].names => t <= 21
      BY <3>1, <3>3
    <3> QED BY <1>1, <3>3, <3>4, <3>5
  <2>3. Up(v)[k].names \subseteq Objects
    BY <1>0, <1>2, EachCreatesAndDrops DEF Creates
  <2> HIDE DEF t
  <2> QED BY <2>1, <2>2, <2>3 DEF Stage
<1>3. ASSUME v = 11 PROVE Stage(t) = Stage(t - 1) \ Up(v)[k].names
  <2>1. ASSUME NEW o \in Objects PROVE Born[o] <= t <=> Born[o] <= t - 1
    BY <1>0, <1>1, <1>3, Placed, SMTT(30)
  <2>2. ASSUME NEW o \in Objects, k # 1 PROVE o \in Up(v)[k].names <=> o \in Auth /\ Gone[o] = t
    BY <1>3, <2>2, Removes, SMTT(30)
  <2>3. ASSUME NEW o \in Objects, k = 1 PROVE o \notin Up(v)[k].names /\ (o \in Auth => Gone[o] # t)
    BY <1>3, <2>3, Removes, Removal
  <2>4. \A o \in Auth : Gone[o] \in Nat
    BY Removal
  <2> HIDE DEF t
  <2> QED BY <1>1, <2>1, <2>2, <2>3, <2>4 DEF Stage
<1> QED BY <1>2, <1>3

(* ... and on either database that is what it writes. *)
LEMMA UpWrites ==
    ASSUME database \in {"sqlite", "postgres"}, NEW v \in 1..18, NEW k \in 1..Len(Up(v))
    PROVE  Schema!Written(On(database, Stage(10 * v + k - 1)), Up(v)[k]) = On(database, Stage(10 * v + k))
<1>0. k \in DOMAIN Up(v) /\ k \in 1..9
  BY Revised DEF Numbers
<1> DEFINE X == Stage(10 * v + k - 1)
           Y == Stage(10 * v + k)
           s == Up(v)[k]
<1>1. CASE v # 11
  <2>1. s.does = "create"
    BY <1>0, <1>1, EachCreatesAndDrops DEF Creates
  <2>2. Y = X \cup s.names
    BY <1>1, StageAfter
  <2> HIDE DEF X, Y, s
  <2>3. Schema!Written(On(database, X), s) = On(database, X) \cup On(database, s.names)
    BY <2>1 DEF Schema!Written, Schema!Existing, On
  <2>4. \A names, more : On(database, names) \cup On(database, more) = On(database, names \cup more)
    BY DEF On
  <2>5. Schema!Written(On(database, X), s) = On(database, Y)
    BY <2>2, <2>3, <2>4
  <2> QED BY <2>5 DEF X, Y, s
<1>2. CASE v = 11 /\ k # 1
  <2>1. s.does = "drop"
    <3>1. k \in 1..4
      BY <1>2, Removes
    <3>2. k \in 2..4
      BY <1>2, <3>1
    <3> QED BY <1>2, <3>2, Removes
  <2>2. Y = X \ s.names
    BY <1>2, StageAfter
  <2> HIDE DEF X, Y, s
  <2>3. Schema!Written(On(database, X), s) = On(database, X) \ s.names
    BY <2>1 DEF Schema!Written
  <2> QED BY <2>2, <2>3 DEF On, X, Y, s
<1>3. CASE v = 11 /\ k = 1
  <2>1. s.does = "new" /\ s.names = {}
    BY <1>3, Removes
  <2>2. Y = X \ s.names
    BY <1>3, StageAfter
  <2> HIDE DEF X, Y, s
  <2>3. Schema!Written(On(database, X), s) = On(database, X)
    BY <2>1 DEF Schema!Written
  <2> QED BY <2>1, <2>2, <2>3 DEF On, X, Y, s
<1> QED BY <1>1, <1>2, <1>3

(* What an object needs is made before it, and only the role is of a kind  *)
(* that the removal takes.                                                 *)
LEMMA Needed ==
    ASSUME NEW o \in Objects, NEW n \in Schema!NeededBy(o)
    PROVE  n \in Objects /\ Born[n] <= Born[o] /\ (n \in Auth => o = "role" /\ n = "user_role")
<1>1. PICK v \in 1..18 : v # 11 /\ \E k \in DOMAIN Up(v) : o \in Up(v)[k].names
  BY EachIsCreated
<1>2. n \in Objects /\ Born[n] <= Born[o] /\ (n \in Auth => o = "role")
  BY <1>1, EachCreatesAndDrops DEF Creates
<1>3. o = "role" => n \in {"users", "user_role"}
  BY DEF Schema!NeededBy, Schema!Needs, Schema!Types
<1>4. "users" \notin Auth
  BY DEF Auth
<1> QED BY <1>2, <1>3, <1>4

(* users is there from the first revision on. *)
LEMMA UsersStay ==
    /\ "users" \in Objects /\ "users" \notin Auth /\ "users" \notin Schema!Types /\ Born["users"] = 12
    /\ \A t \in Nat : t >= 12 => "users" \in Stage(t)
<1>1. "users" \in Objects /\ "users" \notin Auth /\ "users" \notin Schema!Types /\ Born["users"] = 12
  BY DEF Objects, Auth, Born, Schema!Needs, Schema!Types
<1> QED BY <1>1 DEF Stage

(* Every statement of an upgrade finds what it needs, and nothing of what  *)
(* it makes.                                                               *)
LEMMA UpPossible ==
    ASSUME database \in {"sqlite", "postgres"}, NEW v \in 1..18, NEW k \in 1..Len(Up(v))
    PROVE  Schema!Possible(Up(v)[k], On(database, Stage(10 * v + k - 1)))
<1>0. k \in DOMAIN Up(v) /\ k \in 1..9
  BY Revised DEF Numbers
<1> DEFINE t == 10 * v + k
           X == Stage(t - 1)
           s == Up(v)[k]
<1>1. t \in Nat
  BY <1>0
<1>2. CASE v # 11
  <2>1. s.does = "create" /\ \A o \in s.names : o \in Objects /\ Born[o] = t
    BY <1>0, <1>2, EachCreatesAndDrops, ZenonT(40) DEF Creates
  <2>2. \A o \in X : Born[o] <= t - 1
    BY DEF Stage
  <2>3. s.names \cap X = {}
    <3> HIDE DEF X, s, t
    <3> QED BY <1>1, <2>1, <2>2
  <2>4. ASSUME NEW o \in s.names, NEW n \in Schema!NeededBy(o) PROVE n \in X \cup s.names
    <3>1. n \in Objects /\ Born[n] <= t /\ (n \in Auth => o = "role")
      BY <2>1, Needed
    <3>2. Born[n] = t => n \in s.names
      BY <1>0, <3>1, Placed
    <3>3. n \in Auth => t - 1 < Gone[n]
      <4>0. Born["role"] = 12
        BY DEF Born
      <4>1. n \in Auth => t = 12
        <5> HIDE DEF t, s
        <5> QED BY <2>1, <3>1, <4>0
      <4> HIDE DEF t
      <4> QED BY <4>1, Removal
    <3>4. Born[n] \in Nat
      BY <3>1, Placed
    <3>5. Born[n] <= t - 1 \/ Born[n] = t
      <4> HIDE DEF t
      <4> QED BY <1>1, <3>1, <3>4
    <3> HIDE DEF t, s
    <3> QED BY <3>1, <3>2, <3>3, <3>5 DEF Stage
  <2> HIDE DEF X, s, t
  <2>5. On(database, s.names) \cap On(database, X) = {}
    BY <2>3 DEF On
  <2>6. \A o \in s.names : On(database, Schema!NeededBy(o)) \subseteq On(database, X) \cup On(database, s.names)
    BY <2>4 DEF On
  <2>7. On(database, s.names) \subseteq s.names
    BY DEF On
  <2>8. Schema!Possible(s, On(database, X))
    BY <2>1, <2>5, <2>6, <2>7 DEF Schema!Possible, Schema!Existing, On
  <2> QED BY <2>8 DEF X, s, t
<1>3. CASE v = 11 /\ k # 1
  <2>0. k \in 2..4
    <3>1. k \in 1..4
      BY <1>3, Removes
    <3> QED BY <1>3, <3>1
  <2>1. s.does = "drop" /\ \A o \in s.names : o \in Auth /\ Gone[o] = t
    BY <1>3, <2>0, Removes
  <2>2. ASSUME NEW o \in s.names PROVE o \in X
    <3>1. o \in Objects /\ Born[o] <= 21 /\ Gone[o] = t /\ t > 110 /\ Born[o] \in Nat
      BY <1>3, <2>0, <2>1, Removal, Placed
    <3>2. Born[o] <= t - 1 /\ t - 1 < Gone[o]
      <4> HIDE DEF t
      <4> QED BY <1>1, <3>1
    <3> HIDE DEF t
    <3> QED BY <3>1, <3>2 DEF Stage
  <2>3. ASSUME NEW o \in X, NEW n \in s.names, n \in Schema!NeededBy(o) PROVE FALSE
    <3>1. o = "role" /\ n = "user_role"
      BY <2>1, <2>3, Needed DEF Stage
    <3>2. "role" \in Auth /\ Gone["role"] = 113 /\ Gone["user_role"] = 114
      BY DEF Auth, Gone
    <3>3. t = 114 /\ t - 1 < 113
      BY <2>1, <3>1, <3>2 DEF Stage
    <3> QED BY <3>3
  <2> HIDE DEF X, s, t
  <2>4. On(database, s.names) \subseteq On(database, X)
    BY <2>2 DEF On
  <2>5. \A o \in On(database, X) : Schema!NeededBy(o) \cap On(database, s.names) = {}
    BY <2>3 DEF On
  <2>6. Schema!Possible(s, On(database, X))
    BY <2>1, <2>4, <2>5 DEF Schema!Possible, Schema!Existing, On
  <2> QED BY <2>6 DEF X, s, t
<1>4. CASE v = 11 /\ k = 1
  <2>1. s.does = "new"
    BY <1>4, Removes
  <2>2. "users" \in On(database, X)
    BY <1>4, UsersStay DEF On
  <2> HIDE DEF X, s, t
  <2>3. Schema!Possible(s, On(database, X))
    BY <2>1, <2>2 DEF Schema!Possible
  <2> QED BY <2>3 DEF X, s, t
<1> QED BY <1>2, <1>3, <1>4

----------------------------------------------------------------------------
(* Downgrades. *)

LEMMA UndoneNext ==
    /\ \A v \in 1..18 : Undone(v, 0) = {}
    /\ \A v \in 1..18, k \in 1..9 : Undone(v, k) = Undone(v, k - 1) \cup Back(v)[k].names
<1>1. \A v \in 1..18 : Undone(v, 0) = {}
  <2>1. 1..0 = {}
    OBVIOUS
  <2> QED BY <2>1 DEF Undone
<1>2. \A k \in 1..9 : 1..k = 1..(k - 1) \cup {k}
  OBVIOUS
<1>3. ASSUME NEW v \in 1..18, NEW k \in 1..9 PROVE Undone(v, k) = Undone(v, k - 1) \cup Back(v)[k].names
  BY <1>2 DEF Undone
<1> QED BY <1>1, <1>3

(* A statement of a downgrade undoes one more. *)
LEMMA DownWrites ==
    ASSUME database \in {"sqlite", "postgres"}, NEW v \in 1..18, NEW k \in 1..Len(Back(v))
    PROVE  Schema!Written(On(database, Restored(v, k - 1)), Back(v)[k]) = On(database, Restored(v, k))
<1>0. k \in DOMAIN Back(v) /\ k \in 1..9
  BY Revised DEF Numbers
<1> DEFINE X == Restored(v, k - 1)
           Y == Restored(v, k)
           s == Back(v)[k]
<1>1. Undone(v, k) = Undone(v, k - 1) \cup s.names
  BY <1>0, UndoneNext
<1>2. CASE v # 11
  <2>1. s.does = "drop"
    BY <1>0, <1>2, EachCreatesAndDrops DEF Drops
  <2>2. Y = X \ s.names
    <3> HIDE DEF s
    <3> QED BY <1>1, <1>2 DEF Restored
  <2> HIDE DEF X, Y, s
  <2>3. Schema!Written(On(database, X), s) = On(database, X) \ s.names
    BY <2>1 DEF Schema!Written
  <2>4. Schema!Written(On(database, X), s) = On(database, Y)
    BY <2>2, <2>3 DEF On
  <2> QED BY <2>4 DEF X, Y, s
<1>3. CASE v = 11
  <2>1. Y = X \cup s.names
    <3> HIDE DEF s
    <3> QED BY <1>1, <1>3 DEF Restored
  <2>2. k = 5 \/ k \in 1..4
    <3>1. k \in 1..5
      BY <1>3, Removes
    <3> QED BY <3>1
  <2>3. CASE k = 5
    <3>1. s.does = "old" /\ s.names = {}
      BY <1>3, <2>3, Removes
    <3> HIDE DEF X, Y, s
    <3>2. Schema!Written(On(database, X), s) = On(database, Y)
      BY <2>1, <3>1 DEF Schema!Written
    <3> QED BY <3>2 DEF X, Y, s
  <2>4. CASE k \in 1..4
    <3>1. s.does = "create"
      BY <1>3, <2>4, Removes
    <3> HIDE DEF X, Y, s
    <3>2. Schema!Written(On(database, X), s) = On(database, X) \cup On(database, s.names)
      BY <3>1 DEF Schema!Written, Schema!Existing, On
    <3>3. \A names, more : On(database, names) \cup On(database, more) = On(database, names \cup more)
      BY DEF On
    <3>4. Schema!Written(On(database, X), s) = On(database, Y)
      BY <2>1, <3>2, <3>3
    <3> QED BY <3>4 DEF X, Y, s
  <2> QED BY <2>2, <2>3, <2>4
<1> QED BY <1>2, <1>3

(* Types make no difference to the rest. *)
LEMMA WrittenLike ==
    ASSUME NEW X, NEW Y, NEW s, X \ Schema!Types = Y \ Schema!Types
    PROVE  Schema!Written(X, s) \ Schema!Types = Schema!Written(Y, s) \ Schema!Types
<1>1. CASE s.does = "create"
  BY <1>1 DEF Schema!Written
<1>2. CASE s.does = "drop"
  BY <1>2 DEF Schema!Written
<1>3. CASE s.does # "create" /\ s.does # "drop"
  BY <1>3 DEF Schema!Written
<1> QED BY <1>1, <1>2, <1>3

LEMMA BeforeFirst == \A v \in 1..18 : Restored(v, 0) = Full(v)
  BY UndoneNext DEF Restored

(* What a downgrade leaves: the schema before, and types it did not drop. *)
LEMMA DownEnds ==
    ASSUME NEW v \in 1..18
    PROVE  /\ Full(v - 1) \subseteq Restored(v, Len(Back(v)))
           /\ Restored(v, Len(Back(v))) \ Schema!Types = Full(v - 1) \ Schema!Types
<1>0. 10 * (v - 1) + 9 = 10 * v - 1
  OBVIOUS
<1>1. CASE v # 11
  <2> DEFINE U == Undone(v, Len(Back(v)))
  <2>1. \A o \in U : o \in Objects /\ Born[o] > 10 * v
    <3> SUFFICES ASSUME NEW o \in U PROVE o \in Objects /\ Born[o] > 10 * v
      OBVIOUS
    <3>1. PICK j \in 1..Len(Back(v)) : o \in Back(v)[j].names
      BY DEF Undone
    <3>2. j \in DOMAIN Back(v)
      BY Revised DEF Numbers
    <3>3. o \in Objects /\ 10 * v < Born[o]
      BY <1>1, <3>1, <3>2, EachCreatesAndDrops DEF Drops
    <3> QED BY <3>3
  <2>2. \A o \in Full(v - 1) : o \in Objects /\ Born[o] <= 10 * v - 1 /\ (o \in Auth => 10 * v - 1 < Gone[o])
    BY <1>0 DEF Full, Stage
  <2>3. Full(v - 1) \cap U = {}
    <3> SUFFICES ASSUME NEW o \in Full(v - 1), o \in U PROVE FALSE
      OBVIOUS
    <3>1. Born[o] > 10 * v /\ Born[o] <= 10 * v - 1 /\ Born[o] \in Nat
      BY <2>1, <2>2, Placed
    <3> QED BY <3>1
  <2>4. Full(v - 1) \subseteq Full(v)
    <3> SUFFICES ASSUME NEW o \in Full(v - 1) PROVE o \in Full(v)
      OBVIOUS
    <3>1. o \in Objects /\ Born[o] <= 10 * v - 1 /\ Born[o] \in Nat
      BY <2>2, Placed
    <3>2. Born[o] <= 10 * v + 9
      BY <3>1
    <3>3. o \in Auth => 10 * v + 9 < Gone[o]
      BY <1>1, <2>2, Removal
    <3> QED BY <3>1, <3>2, <3>3 DEF Full, Stage
  <2>5. ASSUME NEW o \in Full(v), o \notin Full(v - 1), o \notin Schema!Types PROVE o \in U
    <3>1. o \in Objects /\ Born[o] <= 10 * v + 9 /\ (o \in Auth => 10 * v + 9 < Gone[o])
      BY DEF Full, Stage
    <3>2. o \in Auth => 10 * v - 1 < Gone[o]
      BY <3>1, Removal
    <3>3. ~(Born[o] <= 10 * v - 1)
      BY <1>0, <2>5, <3>1, <3>2 DEF Full, Stage
    <3>4. PICK u \in 1..18, k \in 1..9 : k <= Len(Up(u)) /\ o \in Up(u)[k].names /\ Born[o] = 10 * u + k
      BY <3>1, Placed
    <3>5. u = v
      BY <3>1, <3>3, <3>4
    <3>6. k \in DOMAIN Up(v) /\ o \in Up(v)[k].names
      BY <3>4, <3>5, Revised DEF Numbers
    <3>7. PICK j \in DOMAIN Back(v) : o \in Back(v)[j].names
      BY <1>1, <2>5, <3>6, EachCreatesAndDrops DEF Drops
    <3>8. j \in 1..Len(Back(v))
      BY <3>7, Revised DEF Numbers
    <3> QED BY <3>7, <3>8 DEF Undone
  <2>6. Restored(v, Len(Back(v))) = Full(v) \ U
    BY <1>1 DEF Restored
  <2> HIDE DEF U
  <2> QED BY <2>2, <2>3, <2>4, <2>5, <2>6
<1>2. CASE v = 11
  <2>1. Len(Back(11)) = 5
    BY Removes
  <2>2. Undone(11, 5) = Auth
    <3>1. Undone(11, 5) = Back(11)[1].names \cup Back(11)[2].names \cup Back(11)[3].names
                            \cup Back(11)[4].names \cup Back(11)[5].names
      <4>1. 1..5 = {1, 2, 3, 4, 5}
        OBVIOUS
      <4> QED BY <4>1 DEF Undone
    <3> QED BY <3>1, Removes DEF Auth
  <2>3. ASSUME NEW o \in Objects PROVE o \in Full(10) <=> o \in Full(11) \cup Auth
    <3>1. PICK u \in 1..18, k \in 1..9 : u # 11 /\ Born[o] = 10 * u + k
      BY Placed
    <3>2. Born[o] <= 109 <=> Born[o] <= 119
      BY <3>1
    <3>3. o \in Auth => Born[o] <= 109 /\ 109 < Gone[o] /\ ~(119 < Gone[o])
      BY <3>1, Removal
    <3> QED BY <3>2, <3>3 DEF Full, Stage
  <2>4. Full(10) \subseteq Objects /\ Full(11) \subseteq Objects /\ Auth \subseteq Objects
    BY Removal DEF Full, Stage
  <2>5. Full(10) = Full(11) \cup Auth
    BY <2>3, <2>4
  <2>6. Restored(11, 5) = Full(10)
    BY <2>2, <2>5 DEF Restored
  <2>7. v - 1 = 10
    BY <1>2
  <2> QED BY <1>2, <2>1, <2>6, <2>7
<1> QED BY <1>1, <1>2

(* A revision that follows something made by the second one is over before *)
(* anything is removed.                                                    *)
LEMMA EarlyAndLate ==
    \A v \in 1..18, b, g \in Nat : 10 * v < b /\ b <= 21 /\ g >= 112 => 10 * v + 9 < g
  OBVIOUS

(* So does every statement of a downgrade. *)
LEMMA DownPossible ==
    ASSUME database \in {"sqlite", "postgres"}, NEW v \in 1..18, NEW k \in 1..Len(Back(v))
    PROVE  Schema!Possible(Back(v)[k], On(database, Restored(v, k - 1)))
<1>0. k \in DOMAIN Back(v) /\ k \in 1..9
  BY Revised DEF Numbers
<1> DEFINE X == Restored(v, k - 1)
           s == Back(v)[k]
<1>1. CASE v # 11
  <2>0. X = Full(v) \ Undone(v, k - 1)
    BY <1>1 DEF Restored
  <2>1. s.does = "drop" /\ \A o \in s.names : o \in Objects /\ 10 * v < Born[o] /\ Born[o] <= 10 * v + 9
    BY <1>0, <1>1, EachCreatesAndDrops DEF Drops
  <2>2. ASSUME ~s.checked, NEW o \in s.names PROVE o \in X
    <3>1. \A j \in DOMAIN Back(v) : j < k => o \notin Back(v)[j].names
      BY <1>0, <1>1, <2>2, EachCreatesAndDrops DEF Drops
    <3>2. \A j \in 1..(k - 1) : j \in 1..Len(Back(v)) /\ j < k
      <4> DEFINE n == Len(Back(v))
      <4>1. n \in 1..9 /\ k \in 1..n
        BY Revised DEF Numbers
      <4> HIDE DEF n
      <4>2. \A j \in 1..(k - 1) : j \in 1..n /\ j < k
        BY <4>1
      <4> QED BY <4>2 DEF n
    <3>3. o \notin Undone(v, k - 1)
      BY <3>1, <3>2, Revised DEF Undone, Numbers
    <3>4. o \in Auth => 10 * v + 9 < Gone[o]
      <4>1. 10 * v < Born[o] /\ Born[o] \in Nat
        BY <2>1, <2>2, Placed
      <4>2. o \in Auth => Born[o] <= 21 /\ Gone[o] \in 112..114
        BY Removal
      <4>3. o \in Auth => Gone[o] \in Nat /\ Gone[o] >= 112
        <5> HIDE DEF s
        <5> QED BY <4>2
      <4> HIDE DEF s
      <4> QED BY <4>1, <4>2, <4>3, EarlyAndLate
    <3>5. o \in Full(v)
      BY <2>1, <3>4 DEF Full, Stage
    <3> QED BY <2>0, <3>3, <3>5
  <2>3. ASSUME NEW o \in X, o \notin s.names, NEW n \in s.names, n \in Schema!NeededBy(o) PROVE FALSE
    <3>1. o \in Objects /\ Born[o] <= 10 * v + 9 /\ Born[o] \in Nat
      BY <2>0, Placed DEF Full, Stage
    <3>2. Born[n] <= Born[o] /\ Born[n] > 10 * v /\ Born[n] \in Nat
      BY <2>1, <2>3, <3>1, Needed, Placed
    <3>3. PICK u \in 1..18, i \in 1..9 : i <= Len(Up(u)) /\ o \in Up(u)[i].names /\ Born[o] = 10 * u + i
      BY <3>1, Placed
    <3>4. u = v
      <4> HIDE DEF s
      <4> QED BY <3>1, <3>2, <3>3
    <3>5. i \in DOMAIN Up(v) /\ o \in Up(v)[i].names
      BY <3>3, <3>4, Revised DEF Numbers
    <3>6. \/ \E j \in 1..k : o \in Back(v)[j].names
          \/ n \notin s.names
      BY <1>0, <1>1, <2>3, <3>5, EachCreatesAndDrops DEF Drops
    <3>7. o \in Undone(v, k)
      BY <2>3, <3>6 DEF Undone
    <3>8. o \in Undone(v, k - 1)
      <4>1. Undone(v, k) = Undone(v, k - 1) \cup s.names
        BY <1>0, UndoneNext
      <4> HIDE DEF s
      <4> QED BY <2>3, <3>7, <4>1
    <3> QED BY <2>0, <3>8
  <2> HIDE DEF X, s
  <2>4. s.checked \/ On(database, s.names) \subseteq On(database, X)
    BY <2>2 DEF On
  <2>5. \A o \in On(database, X) \ On(database, s.names) : o \in X /\ o \notin s.names
    BY DEF On
  <2>6. \A o \in On(database, X) \ On(database, s.names) : Schema!NeededBy(o) \cap On(database, s.names) = {}
    BY <2>3, <2>5 DEF On
  <2>7. Schema!Possible(s, On(database, X))
    BY <2>1, <2>4, <2>6 DEF Schema!Possible, Schema!Existing, On
  <2> QED BY <2>7 DEF X, s
<1>2. CASE v = 11
  <2>0. X = Full(11) \cup Undone(11, k - 1)
    BY <1>2 DEF Restored
  <2>1. "users" \in On(database, X)
    <3>1. "users" \in Full(11)
      BY UsersStay DEF Full
    <3> HIDE DEF X
    <3> QED BY <2>0, <3>1, UsersStay DEF On
  <2>2. Full(11) \cap Auth = {}
    BY Removal DEF Full, Stage
  <2>3. 1..0 = {} /\ 1..1 = {1} /\ 1..2 = {1, 2} /\ 1..3 = {1, 2, 3}
    OBVIOUS
  <2>4. k = 1 \/ k = 2 \/ k = 3 \/ k = 4 \/ k = 5
    <3>1. k \in 1..5
      BY <1>2, Removes
    <3> QED BY <3>1
  <2>5. CASE k = 1
    <3>1. s.does = "create" /\ s.checked /\ s.names = {"user_role"}
      BY <1>2, <2>5, Removes
    <3>2. Schema!NeededBy("user_role") = {}
      BY DEF Schema!NeededBy, Schema!Types
    <3> HIDE DEF X, s
    <3>3. Schema!Possible(s, On(database, X))
      BY <3>1, <3>2 DEF Schema!Possible, Schema!Existing
    <3> QED BY <3>3 DEF X, s
  <2>6. CASE k = 2
    <3>1. s.does = "create" /\ s.names = {"password_hash"}
      BY <1>2, <2>6, Removes
    <3>2. Schema!NeededBy("password_hash") = {"users"}
      BY DEF Schema!NeededBy, Schema!Types, Schema!Needs
    <3>3. "password_hash" \notin X
      BY <2>0, <2>2, <2>3, <2>6, Removes DEF Undone, Auth
    <3> HIDE DEF X, s
    <3>4. Schema!Possible(s, On(database, X))
      BY <2>1, <3>1, <3>2, <3>3 DEF Schema!Possible, Schema!Existing, On
    <3> QED BY <3>4 DEF X, s
  <2>7. CASE k = 3
    <3>1. s.does = "create" /\ s.names = {"role"}
      BY <1>2, <2>7, Removes
    <3>2. Schema!NeededBy("role") = {"users", "user_role"}
      BY DEF Schema!NeededBy, Schema!Types, Schema!Needs
    <3>3. "role" \notin X /\ "user_role" \in X
      BY <2>0, <2>2, <2>3, <2>7, Removes DEF Undone, Auth
    <3> HIDE DEF X, s
    <3>4. Schema!Possible(s, On(database, X))
      BY <2>1, <3>1, <3>2, <3>3 DEF Schema!Possible, Schema!Existing, On
    <3> QED BY <3>4 DEF X, s
  <2>8. CASE k = 4
    <3>1. s.does = "create" /\ s.names = {"refresh_tokens"}
      BY <1>2, <2>8, Removes
    <3>2. Schema!NeededBy("refresh_tokens") = {"users"}
      BY DEF Schema!NeededBy, Schema!Types, Schema!Needs
    <3>3. "refresh_tokens" \notin X
      BY <2>0, <2>2, <2>3, <2>8, Removes DEF Undone, Auth
    <3> HIDE DEF X, s
    <3>4. Schema!Possible(s, On(database, X))
      BY <2>1, <3>1, <3>2, <3>3 DEF Schema!Possible, Schema!Existing, On
    <3> QED BY <3>4 DEF X, s
  <2>9. CASE k = 5
    <3>1. s.does = "old"
      BY <1>2, <2>9, Removes
    <3> HIDE DEF X, s
    <3>2. Schema!Possible(s, On(database, X))
      BY <2>1, <3>1 DEF Schema!Possible
    <3> QED BY <3>2 DEF X, s
  <2> QED BY <2>4, <2>5, <2>6, <2>7, <2>8, <2>9
<1> QED BY <1>1, <1>2

LEMMA Least == ASSUME NEW T, T \subseteq Nat, T # {} PROVE \E x \in T : \A y \in T : x <= y
<1>1. IsWellFoundedOn(OpToRel(<, Nat), Nat)
  BY NatLessThanWellFounded
<1>2. PICK x \in T : \A y \in T : ~(<<y, x>> \in OpToRel(<, Nat))
  BY <1>1, WFMin
<1>3. \A y \in T : ~(y < x)
  BY <1>2 DEF OpToRel
<1> QED BY <1>3

(* Induction, over a set of numbers. *)
LEMMA ByInduction == ASSUME NEW S, 0 \in S, \A n \in Nat : n \in S => n + 1 \in S PROVE Nat \subseteq S
<1> DEFINE Out == {n \in Nat : n \notin S}
<1>1. CASE Out = {}
  BY <1>1
<1>2. CASE Out # {}
  <2>1. PICK x \in Out : \A y \in Out : x <= y
    <3>1. Out \subseteq Nat
      OBVIOUS
    <3> HIDE DEF Out
    <3> QED BY <1>2, <3>1, Least
  <2>2. x \in Nat /\ x # 0 /\ x - 1 \notin Out
    BY <2>1
  <2>3. x - 1 \in Nat /\ x - 1 \in S
    BY <2>2
  <2>4. (x - 1) + 1 \in S
    BY <2>3
  <2>5. (x - 1) + 1 = x
    BY <2>2
  <2> QED BY <2>1, <2>4, <2>5
<1> QED BY <1>1, <1>2

(* What a revision leaves is the last of the schemas its statements lead   *)
(* through.                                                                *)
LEMMA AfterIs ==
    ASSUME NEW schema, NEW s, NEW m, Len(s) \in Nat, m[0] = schema,
           \A k \in 1..Len(s) : m[k] = Schema!Written(m[k - 1], s[k])
    PROVE  Schema!After(schema, s) = m[Len(s)]
<1> DEFINE n == Len(s)
           Loop(g) == g = [k \in 0..n |-> IF k = 0 THEN schema ELSE Schema!Written(g[k - 1], s[k])]
           f == [k \in 0..n |-> m[k]]
<1>1. Schema!After(schema, s) = (CHOOSE g : Loop(g))[n]
  BY DEF Schema!After
<1>2. n \in Nat
  OBVIOUS
<1>3. Loop(f)
  <2>1. ASSUME NEW k \in 0..n PROVE m[k] = IF k = 0 THEN schema ELSE Schema!Written(f[k - 1], s[k])
    <3>1. CASE k = 0
      BY <3>1
    <3>2. CASE k # 0
      <4>1. k \in 1..n /\ k - 1 \in 0..n
        BY <1>2, <3>2
      <4>2. f[k - 1] = m[k - 1]
        BY <4>1
      <4> QED BY <3>2, <4>1, <4>2
    <3> QED BY <3>1, <3>2
  <2> QED BY <2>1
<1> DEFINE g == CHOOSE g : Loop(g)
<1>4. Loop(g)
  <2>1. \E h : Loop(h)
    BY <1>3
  <2> HIDE DEF Loop
  <2> QED BY <2>1
<1>5. \A k \in 0..n : g[k] = IF k = 0 THEN schema ELSE Schema!Written(g[k - 1], s[k])
  <2> HIDE DEF g
  <2> QED BY <1>4
<1> HIDE DEF g, n
<1> DEFINE Same == {k \in Nat : k <= n => g[k] = m[k]}
<1>6. 0 \in Same
  BY <1>2, <1>5
<1>7. ASSUME NEW k \in Nat, k \in Same PROVE k + 1 \in Same
  <2> SUFFICES ASSUME k + 1 <= n PROVE g[k + 1] = m[k + 1]
    OBVIOUS
  <2>1. g[k] = m[k]
    BY <1>2, <1>7
  <2>2. k + 1 \in 0..n /\ k + 1 # 0 /\ (k + 1) - 1 = k /\ k + 1 \in 1..n
    BY <1>2
  <2>3. g[k + 1] = Schema!Written(g[k], s[k + 1])
    BY <1>5, <2>2
  <2>4. m[k + 1] = Schema!Written(m[k], s[k + 1])
    BY <2>2 DEF n
  <2> QED BY <2>1, <2>3, <2>4
<1>8. Nat \subseteq Same
  <2> HIDE DEF Same
  <2> QED BY <1>6, <1>7, ByInduction
<1>9. g[n] = m[n]
  BY <1>2, <1>8
<1> QED BY <1>1, <1>9 DEF g, n

(* The schema of a version is what has been made by then and not removed.  *)
LEMMA SchemaAtIs ==
    ASSUME database \in {"sqlite", "postgres"}
    PROVE  \A v \in 0..18 : Schema!SchemaAt[v] = On(database, Full(v))
<1> DEFINE Loop(g) == g = [v \in 0..Len(Schema!Revisions) |->
                              IF v = 0 THEN {} ELSE Schema!After(g[v - 1], Schema!Revisions[v].up)]
           f == [v \in 0..18 |-> On(database, Full(v))]
<1>1. Schema!SchemaAt = CHOOSE g : Loop(g)
  BY DEF Schema!SchemaAt
<1>2. Len(Schema!Revisions) = 18
  BY DEF Schema!Revisions
<1>3. ASSUME NEW v \in 1..18 PROVE Schema!After(On(database, Full(v - 1)), Up(v)) = On(database, Full(v))
  <2> DEFINE m == [k \in 0..Len(Up(v)) |-> On(database, Stage(10 * v + k))]
             n == Len(Up(v))
  <2>1. n \in 1..9
    BY Revised DEF Numbers
  <2>2. m[0] = On(database, Full(v - 1))
    <3>1. 0 \in 0..n /\ 10 * v + 0 = 10 * v
      BY <2>1
    <3> QED BY <3>1, Between
  <2>3. m[n] = On(database, Full(v))
    <3>1. n \in 0..n
      <4> HIDE DEF n
      <4> QED BY <2>1
    <3> QED BY <3>1, Between
  <2>4. ASSUME NEW k \in 1..n PROVE m[k] = Schema!Written(m[k - 1], Up(v)[k])
    <3>1. k \in 0..n /\ k - 1 \in 0..n /\ 10 * v + (k - 1) = 10 * v + k - 1
      <4> HIDE DEF n
      <4> QED BY <2>1
    <3>2. m[k] = On(database, Stage(10 * v + k)) /\ m[k - 1] = On(database, Stage(10 * v + k - 1))
      BY <3>1
    <3> QED BY <3>2, UpWrites
  <2> HIDE DEF m
  <2> QED BY <2>1, <2>2, <2>3, <2>4, AfterIs
<1>4. Loop(f)
  <2>1. ASSUME NEW v \in 0..18
        PROVE  f[v] = IF v = 0 THEN {} ELSE Schema!After(f[v - 1], Schema!Revisions[v].up)
    <3>1. CASE v = 0
      BY <3>1, Between DEF On
    <3>2. CASE v # 0
      <4>1. v \in 1..18 /\ v - 1 \in 0..18
        BY <3>2
      <4>2. f[v] = On(database, Full(v)) /\ f[v - 1] = On(database, Full(v - 1))
        BY <4>1
      <4>3. Schema!Revisions[v].up = Up(v)
        BY DEF Up
      <4> QED BY <1>3, <3>2, <4>1, <4>2, <4>3
    <3> QED BY <3>1, <3>2
  <2>2. f = [v \in 0..18 |-> f[v]]
    OBVIOUS
  <2> QED BY <1>2, <2>1, <2>2
<1> DEFINE g == CHOOSE g : Loop(g)
<1>5. Loop(g)
  <2>1. \E h : Loop(h)
    BY <1>4
  <2> HIDE DEF Loop
  <2> QED BY <2>1
<1>6. \A v \in 0..18 : g[v] = IF v = 0 THEN {} ELSE Schema!After(g[v - 1], Up(v))
  <2> HIDE DEF g
  <2> QED BY <1>2, <1>5 DEF Up
<1> HIDE DEF g
<1> DEFINE Same == {v \in Nat : v <= 18 => g[v] = On(database, Full(v))}
<1>7. 0 \in Same
  <2>1. g[0] = {}
    BY <1>6
  <2> QED BY <2>1, Between DEF On
<1>8. ASSUME NEW v \in Nat, v \in Same PROVE v + 1 \in Same
  <2> SUFFICES ASSUME v + 1 <= 18 PROVE g[v + 1] = On(database, Full(v + 1))
    OBVIOUS
  <2>1. g[v] = On(database, Full(v))
    BY <1>8
  <2>2. v + 1 \in 1..18 /\ v + 1 \in 0..18 /\ v + 1 # 0 /\ (v + 1) - 1 = v
    OBVIOUS
  <2>3. g[v + 1] = Schema!After(g[v], Up(v + 1))
    BY <1>6, <2>2
  <2>4. Schema!After(On(database, Full(v)), Up(v + 1)) = On(database, Full(v + 1))
    BY <1>3, <2>2
  <2> QED BY <2>1, <2>3, <2>4
<1>9. Nat \subseteq Same
  <2> HIDE DEF Same
  <2> QED BY <1>7, <1>8, ByInduction
<1>10. ASSUME NEW v \in 0..18 PROVE g[v] = On(database, Full(v))
  BY <1>9
<1> QED BY <1>1, <1>10 DEF g

(* The last one is what the models name.                                   *)
LEMMA LastIs == Full(18) = Schema!Models
<1>1. ASSUME NEW o \in Objects PROVE o \in Full(18) <=> o \notin Auth
  <2>1. Born[o] <= 189
    <3>1. PICK u \in 1..18, k \in 1..9 : Born[o] = 10 * u + k
      BY Placed
    <3> QED BY <3>1
  <2>2. o \in Auth => ~(189 < Gone[o])
    BY Removal
  <2> QED BY <2>1, <2>2 DEF Full, Stage
<1>2. Schema!Models = Objects \ Auth
  BY DEF Schema!Models, Objects, Auth
<1>3. Full(18) \subseteq Objects
  BY DEF Full, Stage
<1> QED BY <1>1, <1>2, <1>3

(* The inductive invariant: what each container and the operator may be    *)
(* doing, the user's email, and the schema at every statement, exactly or, *)
(* on Postgres, but for types a downgrade left, or, on SQLite, with        *)
(* something in it of half a revision that shows in each later attempt.    *)
Emails == {"none", "old", "new"}
Data == [schema : SUBSET Objects, version : 0..18, email : Emails]
Stopped == {"down", "failed"}
Steps == IF place.direction = "up" THEN Up(place.revision) ELSE Back(place.revision)
Container == [at : Stopped \cup {"waiting", "migrating", "serving"}, from : 0..18,
              excuse : {"none", "older image", "raced", "broken", "types left"}]
SchemaTypeOK ==
    /\ database \in {"sqlite", "postgres"}
    /\ db \in Data /\ work \in Data
    /\ holder \in Replicas \cup {"operator", "nobody"}
    /\ replica \in [Replicas -> Container]
    /\ place \in [direction : {"up", "down"}, revision : 0..18, statement : Nat, rows : BOOLEAN]
    /\ broken \in BOOLEAN
    /\ holder # "nobody" => place.revision \in 1..18 /\ place.statement \in 1..(Len(Steps) + 1)
MovingInv ==
    /\ holder = "nobody" => work = db
    /\ holder \in Replicas =>
          /\ replica[holder].at = "migrating"
          /\ place.direction = "up" /\ place.revision <= Image(holder)
    /\ holder = "operator" =>
          /\ \A r \in Replicas : replica[r].at \in Stopped
          /\ place.direction = "down"
          /\ place.revision = db.version /\ work.version = db.version
    /\ \A r \in Replicas :
          /\ replica[r].at = "migrating" => holder = r
          /\ replica[r].at = "waiting" => replica[r].from < Image(r)
          /\ replica[r].at = "serving" => db.version >= Image(r)
          /\ replica[r].at = "failed" => replica[r].excuse # "none"
EmailInv ==
    /\ db.version >= 11 => db.email # "old"
    /\ work.version >= 11 /\ work.email = "old" =>
          holder = "operator" /\ place.revision = 11 /\ place.statement > 5
    /\ holder \in Replicas /\ place.revision = 11 /\ place.statement > 1 =>
          work.email # "old" /\ place.rows
Like(schema, names) == /\ schema \ Schema!Types = names \ Schema!Types
                       /\ types_left = {} => schema = names
Stands == 10 * place.revision + place.statement - 1
PostgresInv ==
    /\ Like(db.schema, Full(db.version))
    /\ holder \in Replicas =>
          /\ work.version >= db.version
          /\ work.version = place.revision - 1 => Like(work.schema, Stage(Stands))
          /\ work.version # place.revision - 1 => db.version # replica[holder].from
    /\ holder = "operator" => Like(work.schema, Restored(place.revision, place.statement - 1))
Later(schema, t) == \E o \in schema : o \in Objects \ Schema!Types /\ Born[o] > t
SqliteInv ==
    /\ \A r, q \in Replicas : replica[r].at \notin Stopped /\ replica[q].at \notin Stopped => r = q
    /\ \A r \in Replicas : replica[r].at = "waiting" => replica[r].from = db.version
    /\ holder = "nobody" =>
          \/ db.schema = On("sqlite", Full(db.version))
          \/ broken /\ Later(db.schema, 10 * db.version + 9)
    /\ holder \in Replicas =>
          /\ db.version = place.revision - 1 /\ work.version = place.revision - 1
          /\ \/ /\ work.schema = On("sqlite", Stage(Stands))
                /\ \E j \in 0..(place.statement - 1) :
                      /\ db.schema = On("sqlite", Stage(10 * place.revision + j))
                      /\ place.revision = 11 => j = 0
             \/ broken /\ Later(db.schema \cap work.schema, Stands)
    /\ holder = "operator" =>
          \/ work.schema = On("sqlite", Restored(place.revision, place.statement - 1))
          \/ broken /\ Later(db.schema \cap work.schema, 10 * place.revision + 9)
SchemaInv == /\ SchemaTypeOK /\ MovingInv /\ EmailInv
             /\ database = "postgres" => PostgresInv
             /\ database = "sqlite" => SqliteInv

LEMMA ImageIs == \A r : Image(r) \in 17..18
  BY DEF Image

LEMMA WithinObjects == /\ \A t : Stage(t) \subseteq Objects
                       /\ \A v : Full(v) \subseteq Objects
                       /\ \A names : On("postgres", names) = names
                       /\ \A base, names : On(base, names) \subseteq names
  BY DEF Stage, Full, On

LEMMA SchemaInitial == PlatformInit => SchemaInv
<1> SUFFICES ASSUME PlatformInit PROVE SchemaInv
  OBVIOUS
<1>1. database \in {"sqlite", "postgres"} /\ work = db /\ holder = "nobody" /\ replica = [r \in Replicas |-> Schema!Down]
      /\ place = Schema!NoPlace /\ broken = FALSE /\ types_left = {}
  BY DEF PlatformInit, Schema!Init
<1>2. PICK v \in Versions : \E email \in {"none", IF v < 11 THEN "old" ELSE "new"} :
         db = [schema |-> Schema!SchemaAt[v], version |-> v, email |-> IF v = 0 THEN "none" ELSE email]
  BY DEF PlatformInit, Schema!Init, Schema!Removed
<1>3. v \in 0..18
  BY VersionsAssumption DEF Schema!Revisions
<1>4. db.schema = On(database, Full(v)) /\ db.version = v /\ db.schema \subseteq Objects
  BY <1>1, <1>2, <1>3, SchemaAtIs, WithinObjects
<1>5. db.email \in Emails /\ (v >= 11 => db.email # "old")
  <2>1. PICK email \in {"none", IF v < 11 THEN "old" ELSE "new"} :
           db = [schema |-> Schema!SchemaAt[v], version |-> v, email |-> IF v = 0 THEN "none" ELSE email]
    BY <1>2
  <2>2. db.email = "none" \/ db.email = IF v < 11 THEN "old" ELSE "new"
    BY <2>1
  <2> QED BY <1>3, <2>2 DEF Emails
<1>6. db \in Data
  BY <1>2, <1>3, <1>4, <1>5 DEF Data
<1>7. SchemaTypeOK
  <2>1. Schema!Down \in Container
    BY DEF Schema!Down, Container, Stopped
  <2>2. place \in [direction : {"up", "down"}, revision : 0..18, statement : Nat, rows : BOOLEAN]
    BY <1>1 DEF Schema!NoPlace
  <2> QED BY <1>1, <1>6, <2>1, <2>2 DEF SchemaTypeOK
<1>8. MovingInv /\ EmailInv
  <2>1. \A r \in Replicas : replica[r].at = "down"
    BY <1>1 DEF Schema!Down
  <2>2. holder \notin Replicas
    BY <1>1, ReplicasAssumption
  <2> QED BY <1>1, <1>4, <1>5, <2>1, <2>2 DEF MovingInv, EmailInv
<1>9. database = "postgres" => PostgresInv
  <2>1. holder \notin Replicas /\ holder # "operator"
    BY <1>1, ReplicasAssumption
  <2> QED BY <1>4, <2>1, WithinObjects DEF PostgresInv, Like
<1>10. database = "sqlite" => SqliteInv
  <2>1. holder \notin Replicas /\ holder # "operator"
    BY <1>1, ReplicasAssumption
  <2>2. \A r \in Replicas : replica[r].at = "down"
    BY <1>1 DEF Schema!Down
  <2> QED BY <1>4, <2>1, <2>2 DEF SqliteInv, Stopped
<1> QED BY <1>7, <1>8, <1>9, <1>10 DEF SchemaInv

(* A container that holds nothing moves. *)
LEMMA ContainerMoves ==
    ASSUME SchemaInv, NEW r \in Replicas, NEW c \in Container, replica' = [replica EXCEPT ![r] = c],
           UNCHANGED <<database, db, work, holder, place, broken, types_left>>,
           holder # r, c.at # "migrating",
           holder = "operator" => c.at \in Stopped,
           c.at = "waiting" => c.from < Image(r),
           c.at = "serving" => db.version >= Image(r),
           c.at = "failed" => c.excuse # "none",
           database = "sqlite" /\ c.at \notin Stopped => \A q \in Replicas : q # r => replica[q].at \in Stopped,
           database = "sqlite" /\ c.at = "waiting" => c.from = db.version
    PROVE  SchemaInv'
<1>1. /\ replica \in [Replicas -> Container] /\ replica' \in [Replicas -> Container]
      /\ replica'[r] = c /\ \A q \in Replicas : q # r => replica'[q] = replica[q]
  BY DEF SchemaInv, SchemaTypeOK
<1>2. SchemaTypeOK'
  BY <1>1 DEF SchemaInv, SchemaTypeOK, Steps
<1>3. MovingInv'
  BY <1>1 DEF SchemaInv, MovingInv
<1>4. EmailInv'
  BY DEF SchemaInv, EmailInv
<1>5. (database = "postgres" => PostgresInv)'
  BY <1>1 DEF SchemaInv, PostgresInv, Like, Stands
<1>6. (database = "sqlite" => SqliteInv)'
  <2> SUFFICES ASSUME database = "sqlite" PROVE SqliteInv'
    OBVIOUS
  <2>1. SqliteInv
    BY DEF SchemaInv
  <2>2. \A p, q \in Replicas : replica'[p].at \notin Stopped /\ replica'[q].at \notin Stopped => p = q
    BY <1>1, <2>1 DEF SqliteInv
  <2>3. \A q \in Replicas : replica'[q].at = "waiting" => replica'[q].from = db.version
    BY <1>1, <2>1 DEF SqliteInv
  <2> QED BY <2>1, <2>2, <2>3 DEF SqliteInv, Stands
<1> QED BY <1>2, <1>3, <1>4, <1>5, <1>6 DEF SchemaInv

LEMMA SchemaBoots == ASSUME SchemaInv, NEW r \in Replicas, Schema!Boot(r) PROVE SchemaInv'
<1>1. db.version \in 0..18 /\ Image(r) \in 17..18
  BY ImageIs DEF SchemaInv, SchemaTypeOK, Data
<1>2. PICK c : /\ replica' = [replica EXCEPT ![r] = c]
               /\ c = IF db.version > Image(r) THEN [at |-> "failed", from |-> db.version, excuse |-> "older image"]
                      ELSE IF db.version = Image(r) THEN [Schema!Down EXCEPT !.at = "serving", !.from = db.version]
                      ELSE [Schema!Down EXCEPT !.at = "waiting", !.from = db.version]
  BY DEF Schema!Boot
<1>3. /\ c \in Container /\ c.at # "migrating" /\ (c.at = "waiting" => c.from < Image(r))
      /\ (c.at = "serving" => db.version >= Image(r))
      /\ (c.at = "failed" => c.excuse # "none") /\ (c.at = "waiting" => c.from = db.version)
  <2>1. db.version > Image(r) \/ db.version = Image(r) \/ db.version < Image(r)
    BY <1>1
  <2>2. CASE db.version > Image(r)
    <3>1. c = [at |-> "failed", from |-> db.version, excuse |-> "older image"]
      BY <1>2, <2>2
    <3>2. c \in Container
      BY <1>1, <3>1 DEF Container, Stopped
    <3> QED BY <3>1, <3>2
  <2>3. CASE db.version = Image(r)
    <3>0. ~(db.version > Image(r)) /\ db.version = Image(r)
      BY <1>1, <2>3
    <3>1. c = [at |-> "serving", from |-> db.version, excuse |-> "none"]
      BY <1>2, <3>0 DEF Schema!Down
    <3>2. c \in Container
      BY <1>1, <3>1 DEF Container, Stopped
    <3>3. db.version >= Image(r)
      BY <1>1, <2>3
    <3> QED BY <3>1, <3>2, <3>3
  <2>4. CASE db.version < Image(r)
    <3>0. ~(db.version > Image(r)) /\ db.version # Image(r)
      BY <1>1, <2>4
    <3>1. c = [at |-> "waiting", from |-> db.version, excuse |-> "none"]
      BY <1>2, <3>0 DEF Schema!Down
    <3>2. c \in Container
      BY <1>1, <3>1 DEF Container, Stopped
    <3> QED BY <2>4, <3>1, <3>2
  <2> QED BY <2>1, <2>2, <2>3, <2>4
<1>6. holder # r /\ holder # "operator"
  BY DEF Schema!Boot, SchemaInv, MovingInv, Schema!Operator
<1>7. database = "sqlite" => \A q \in Replicas : replica[q].at \in Stopped
  BY DEF Schema!Boot, Stopped
<1>8. UNCHANGED <<database, db, work, holder, place, broken, types_left>>
  BY DEF Schema!Boot
<1> HIDE DEF SchemaInv
<1> QED BY <1>2, <1>3, <1>6, <1>7, <1>8, ContainerMoves

LEMMA SchemaAcquired == ASSUME SchemaInv, NEW r \in Replicas, Schema!Acquire(r) PROVE SchemaInv'
<1> DEFINE rev == replica[r].from + 1
           p == [direction |-> "up", revision |-> rev, statement |-> 1, rows |-> FALSE]
<1>1. /\ replica[r].at = "waiting" /\ holder = "nobody" /\ holder' = r /\ work' = db /\ place' = p
      /\ replica' = [replica EXCEPT ![r].at = "migrating"]
      /\ UNCHANGED <<database, db, broken, types_left>>
  BY DEF Schema!Acquire
<1>2. /\ replica \in [Replicas -> Container] /\ replica' \in [Replicas -> Container]
      /\ replica'[r].at = "migrating" /\ replica'[r].from = replica[r].from
      /\ \A q \in Replicas : q # r => replica'[q] = replica[q]
  BY <1>1, ZenonT(40) DEF SchemaInv, SchemaTypeOK, Container
<1>3. rev \in 1..18 /\ rev - 1 = replica[r].from /\ rev <= Image(r)
  <2>1. replica[r].from \in 0..18 /\ replica[r].from < Image(r) /\ Image(r) \in 17..18
    BY <1>1, <1>2, ImageIs DEF SchemaInv, MovingInv, Container
  <2> QED BY <2>1
<1> HIDE DEF rev
<1>4. place'.direction = "up" /\ place'.revision = rev /\ place'.statement = 1
  BY <1>1
<1>5. SchemaTypeOK'
  <2>1. p \in [direction : {"up", "down"}, revision : 0..18, statement : Nat, rows : BOOLEAN]
    BY <1>3
  <2>2. 1 \in 1..(Len(Up(rev)) + 1)
    <3>1. Len(Up(rev)) \in 1..9
      BY <1>3, Revised DEF Numbers
    <3> QED BY <3>1
  <2>3. Steps' = Up(rev)
    BY <1>4 DEF Steps
  <2> QED BY <1>1, <1>2, <1>3, <1>4, <2>1, <2>2, <2>3 DEF SchemaInv, SchemaTypeOK
<1>6. MovingInv'
  <2>1. holder' # "nobody" /\ holder' # "operator"
    BY <1>1, ReplicasAssumption DEF Schema!Operator
  <2>2. ASSUME NEW q \in Replicas
        PROVE  /\ replica'[q].at = "migrating" => r = q
               /\ replica'[q].at = "waiting" => replica'[q].from < Image(q)
               /\ replica'[q].at = "serving" => db.version >= Image(q)
               /\ replica'[q].at = "failed" => replica'[q].excuse # "none"
    <3>1. CASE q = r
      BY <1>2, <3>1
    <3>2. CASE q # r
      BY <1>1, <1>2, <3>2, ReplicasAssumption DEF SchemaInv, MovingInv
    <3> QED BY <3>1, <3>2
  <2> QED BY <1>1, <1>2, <1>3, <1>4, <2>1, <2>2 DEF MovingInv
<1>7. EmailInv'
  BY <1>1, <1>4 DEF SchemaInv, EmailInv
<1>8. Stands' = 10 * rev
  BY <1>3, <1>4 DEF Stands
<1>9. (database = "postgres" => PostgresInv)'
  <2> SUFFICES ASSUME database = "postgres" PROVE PostgresInv'
    BY <1>1
  <2>1. Like(db.schema, Full(db.version))
    BY DEF SchemaInv, PostgresInv
  <2>2. db.version = rev - 1 => Like(db.schema, Stage(10 * rev))
    BY <1>3, <2>1, Between
  <2>3. holder' # "operator"
    BY <1>1, ReplicasAssumption DEF Schema!Operator
  <2>4. db.version \in 0..18
    BY DEF SchemaInv, SchemaTypeOK, Data
  <2> QED BY <1>1, <1>2, <1>3, <1>4, <1>8, <2>1, <2>2, <2>3, <2>4 DEF PostgresInv, Like
<1>10. (database = "sqlite" => SqliteInv)'
  <2> SUFFICES ASSUME database = "sqlite" PROVE SqliteInv'
    BY <1>1
  <2>0. SqliteInv
    BY DEF SchemaInv
  <2>1. db.version = rev - 1
    BY <1>1, <1>3, <2>0 DEF SqliteInv
  <2>2. \/ db.schema = On("sqlite", Stage(10 * rev))
        \/ broken /\ Later(db.schema, 10 * rev)
    <3>1. CASE db.schema = On("sqlite", Full(db.version))
      BY <1>3, <2>1, <3>1, Between
    <3>2. CASE broken /\ Later(db.schema, 10 * db.version + 9)
      <4>1. PICK o \in db.schema : o \in Objects \ Schema!Types /\ Born[o] > 10 * (rev - 1) + 9
        BY <2>1, <3>2 DEF Later
      <4>2. Born[o] > 10 * rev
        <5>1. PICK u \in 1..18, k \in 1..9 : Born[o] = 10 * u + k
          BY <4>1, Placed
        <5> QED BY <1>3, <4>1, <5>1
      <4> QED BY <3>2, <4>1, <4>2 DEF Later
    <3> QED BY <1>1, <2>0, <3>1, <3>2 DEF SqliteInv
  <2>3. holder' # "nobody" /\ holder' # "operator"
    BY <1>1, ReplicasAssumption DEF Schema!Operator
  <2>4. 0 \in 0..(1 - 1) /\ 10 * rev + 0 = 10 * rev
    BY <1>3
  <2>5. \/ /\ db.schema = On("sqlite", Stage(10 * rev))
           /\ \E j \in 0..(1 - 1) : /\ db.schema = On("sqlite", Stage(10 * rev + j))
                                    /\ rev = 11 => j = 0
        \/ broken /\ Later(db.schema \cap db.schema, 10 * rev)
    <3>1. db.schema \cap db.schema = db.schema
      OBVIOUS
    <3> QED BY <2>2, <2>4, <3>1
  <2>6. \A q, s \in Replicas : replica'[q].at \notin Stopped /\ replica'[s].at \notin Stopped => q = s
    BY <1>1, <1>2, <2>0 DEF SqliteInv, Stopped
  <2>7. \A q \in Replicas : replica'[q].at = "waiting" => replica'[q].from = db.version
    BY <1>1, <1>2, <2>0 DEF SqliteInv
  <2> QED BY <1>1, <1>4, <1>8, <2>1, <2>3, <2>5, <2>6, <2>7 DEF SqliteInv
<1> QED BY <1>5, <1>6, <1>7, <1>9, <1>10 DEF SchemaInv

LEMMA SchemaDowngraded == ASSUME SchemaInv, Schema!Downgrade PROVE SchemaInv'
<1> DEFINE rev == db.version
           p == [direction |-> "down", revision |-> rev, statement |-> 1, rows |-> FALSE]
<1>1. /\ holder = "nobody" /\ holder' = "operator" /\ work' = db /\ place' = p
      /\ \A r \in Replicas : replica[r].at \in Stopped
      /\ UNCHANGED <<database, db, replica, broken, types_left>>
  BY DEF Schema!Downgrade, Schema!Operator, Stopped
<1>2. rev \in 1..18 /\ rev \in 0..18
  BY DEF SchemaInv, SchemaTypeOK, Data, Schema!Downgrade
<1> HIDE DEF rev
<1>3. place'.direction = "down" /\ place'.revision = rev /\ place'.statement = 1
  BY <1>1
<1>4. holder' # "nobody" /\ holder' \notin Replicas
  BY <1>1, ReplicasAssumption DEF Schema!Operator
<1>5. SchemaTypeOK'
  <2>1. p \in [direction : {"up", "down"}, revision : 0..18, statement : Nat, rows : BOOLEAN]
    BY <1>2
  <2>2. 1 \in 1..(Len(Back(rev)) + 1)
    <3>1. Len(Back(rev)) \in 1..9
      BY <1>2, Revised DEF Numbers
    <3> QED BY <3>1
  <2>3. Steps' = Back(rev)
    BY <1>3 DEF Steps
  <2> QED BY <1>1, <1>2, <1>3, <2>1, <2>2, <2>3 DEF SchemaInv, SchemaTypeOK
<1>6. MovingInv'
  BY <1>1, <1>3, <1>4 DEF SchemaInv, MovingInv, Stopped, rev
<1>7. EmailInv'
  BY <1>1, <1>3, <1>4 DEF SchemaInv, EmailInv
<1>8. Restored(rev, 1 - 1) = Full(rev)
  BY <1>2, BeforeFirst
<1>9. (database = "postgres" => PostgresInv)'
  BY <1>1, <1>3, <1>4, <1>8 DEF SchemaInv, PostgresInv, Like, rev
<1>10. (database = "sqlite" => SqliteInv)'
  <2> SUFFICES ASSUME database = "sqlite" PROVE SqliteInv'
    BY <1>1
  <2>0. SqliteInv
    BY DEF SchemaInv
  <2>1. db.schema \cap db.schema = db.schema
    OBVIOUS
  <2>2. \/ db.schema = On("sqlite", Restored(rev, 1 - 1))
        \/ broken /\ Later(db.schema \cap db.schema, 10 * rev + 9)
    BY <1>1, <1>8, <2>0, <2>1 DEF SqliteInv, rev
  <2> QED BY <1>1, <1>3, <1>4, <2>0, <2>2 DEF SqliteInv
<1> QED BY <1>5, <1>6, <1>7, <1>9, <1>10 DEF SchemaInv

LEMMA SchemaRequested == ASSUME SchemaInv, NEW r \in Replicas, Schema!FirstRequest(r) PROVE SchemaInv'
<1>1. /\ holder = "nobody" /\ holder' = "nobody" /\ db' = [db EXCEPT !.email = "new"] /\ work' = db'
      /\ UNCHANGED <<database, replica, place, broken, types_left>>
  BY DEF Schema!FirstRequest
<1>2. db \in Data /\ db' \in Data /\ db'.schema = db.schema /\ db'.version = db.version /\ db'.email = "new"
  BY <1>1 DEF SchemaInv, SchemaTypeOK, Data, Emails
<1>3. "nobody" \notin Replicas
  BY ReplicasAssumption
<1>4. SchemaTypeOK'
  BY <1>1, <1>2 DEF SchemaInv, SchemaTypeOK
<1>5. MovingInv'
  BY <1>1, <1>2, <1>3 DEF SchemaInv, MovingInv
<1>6. EmailInv'
  BY <1>1, <1>2, <1>3 DEF SchemaInv, EmailInv
<1>7. (database = "postgres" => PostgresInv)'
  BY <1>1, <1>2, <1>3 DEF SchemaInv, PostgresInv, Like
<1>8. (database = "sqlite" => SqliteInv)'
  BY <1>1, <1>2, <1>3 DEF SchemaInv, SqliteInv
<1> QED BY <1>4, <1>5, <1>6, <1>7, <1>8 DEF SchemaInv

----------------------------------------------------------------------------
(* An upgrade that ends early. *)

(* What SQLite has kept of a revision is nothing, or shows. *)
LEMMA HalfWay ==
    ASSUME NEW v \in 1..18, NEW j \in 0..Len(Up(v)), v = 11 => j = 0
    PROVE  \/ On("sqlite", Stage(10 * v + j)) = On("sqlite", Full(v - 1))
           \/ Later(On("sqlite", Stage(10 * v + j)), 10 * (v - 1) + 9)
<1>1. j \in 0..9 /\ 10 * (v - 1) + 9 = 10 * v - 1
  <2> DEFINE n == Len(Up(v))
  <2>1. n \in 1..9 /\ j \in 0..n
    BY Revised DEF Numbers
  <2> HIDE DEF n
  <2> QED BY <2>1
<1>2. ASSUME NEW o \in Auth PROVE 10 * v + j < Gone[o] <=> 10 * v - 1 < Gone[o]
  BY <1>1, Removal
<1>3. ASSUME NEW o \in Objects PROVE Born[o] <= 10 * v - 1 => Born[o] <= 10 * v + j
  BY <1>1, Placed
<1>4. Full(v - 1) \subseteq Stage(10 * v + j)
  BY <1>1, <1>2, <1>3 DEF Full, Stage
<1>5. ASSUME NEW o \in Stage(10 * v + j) PROVE o \in Objects /\ (o \in Full(v - 1) \/ Born[o] > 10 * v - 1)
  <2>1. o \in Objects /\ Born[o] \in Nat
    BY Placed DEF Stage
  <2>2. Born[o] <= 10 * v - 1 \/ Born[o] > 10 * v - 1
    BY <2>1
  <2>3. o \in Auth => 10 * v - 1 < Gone[o]
    BY <1>2 DEF Stage
  <2> QED BY <1>1, <2>1, <2>2, <2>3 DEF Full, Stage
<1>6. CASE \E o \in On("sqlite", Stage(10 * v + j)) : Born[o] > 10 * v - 1
  BY <1>1, <1>5, <1>6 DEF Later, On
<1>7. CASE \A o \in On("sqlite", Stage(10 * v + j)) : ~(Born[o] > 10 * v - 1)
  BY <1>4, <1>5, <1>7 DEF On
<1> QED BY <1>6, <1>7

LEMMA LaterEarlier ==
    ASSUME NEW S, NEW T, T \subseteq S, NEW t \in Nat, NEW u \in Nat, u <= t, Later(T, t)
    PROVE  Later(S, u)
<1>1. PICK o \in T : o \in Objects \ Schema!Types /\ Born[o] > t
  BY DEF Later
<1>2. Born[o] > u
  BY <1>1, Placed
<1> QED BY <1>1, <1>2 DEF Later

(* Where nobody holds any more, what was committed stands. *)
LEMMA Abandoned ==
    ASSUME SchemaInv, holder # "nobody", holder' = "nobody", work' = db, place' = Schema!NoPlace,
           UNCHANGED <<database, db, types_left>>, broken' \in BOOLEAN,
           replica' \in [Replicas -> Container],
           \A r \in Replicas : r # holder => replica'[r] = replica[r],
           holder \in Replicas => \/ replica'[holder].at = "down"
                                  \/ replica'[holder].at = "failed" /\ replica'[holder].excuse # "none",
           database = "sqlite" => \/ db.schema = On("sqlite", Full(db.version))
                                  \/ broken' /\ Later(db.schema, 10 * db.version + 9)
    PROVE  SchemaInv'
<1>1. "nobody" \notin Replicas /\ "operator" \notin Replicas
  BY ReplicasAssumption DEF Schema!Operator
<1>2. SchemaTypeOK'
  BY DEF SchemaInv, SchemaTypeOK, Schema!NoPlace
<1>3. ASSUME NEW q \in Replicas
      PROVE  /\ replica'[q].at # "migrating"
             /\ replica'[q].at = "waiting" => replica'[q].from < Image(q)
             /\ replica'[q].at = "serving" => db.version >= Image(q)
             /\ replica'[q].at = "failed" => replica'[q].excuse # "none"
  <2>1. CASE q = holder
    BY <2>1
  <2>2. CASE q # holder
    BY <2>2 DEF SchemaInv, MovingInv
  <2> QED BY <2>1, <2>2
<1>4. MovingInv'
  BY <1>1, <1>3 DEF MovingInv
<1>5. EmailInv'
  BY <1>1 DEF SchemaInv, EmailInv
<1>6. (database = "postgres" => PostgresInv)'
  BY <1>1 DEF SchemaInv, PostgresInv, Like
<1>7. (database = "sqlite" => SqliteInv)'
  <2> SUFFICES ASSUME database = "sqlite" PROVE SqliteInv'
    OBVIOUS
  <2>0. SqliteInv
    BY DEF SchemaInv
  <2>1. \A q \in Replicas : replica'[q].at \notin Stopped => q # holder /\ replica'[q] = replica[q]
    BY DEF Stopped
  <2>2. \A q, s \in Replicas : replica'[q].at \notin Stopped /\ replica'[s].at \notin Stopped => q = s
    BY <2>0, <2>1 DEF SqliteInv
  <2>3. \A q \in Replicas : replica'[q].at = "waiting" => replica'[q].from = db.version
    BY <2>0, <2>1 DEF SqliteInv, Stopped
  <2> QED BY <1>1, <2>2, <2>3 DEF SqliteInv
<1> QED BY <1>2, <1>4, <1>5, <1>6, <1>7 DEF SchemaInv

(* Where the holder stands. *)
LEMMA Holding ==
    ASSUME SchemaInv, holder # "nobody"
    PROVE  /\ place.revision \in 1..18 /\ place.statement \in 1..(Len(Steps) + 1) /\ Len(Steps) \in 1..9
           /\ place.statement \in 1..10 /\ Schema!Statements = Steps
           /\ holder \in Replicas => Steps = Up(place.revision) /\ place.direction = "up"
           /\ holder \notin Replicas => /\ holder = "operator" /\ Steps = Back(place.revision)
                                        /\ place.direction = "down"
           /\ Stands = 10 * place.revision + place.statement - 1 /\ Stands \in Nat
           /\ 10 * (place.revision - 1) + 9 \in Nat /\ 10 * (place.revision - 1) + 9 <= Stands
<1>1. place.revision \in 1..18 /\ place.statement \in 1..(Len(Steps) + 1) /\ place.direction \in {"up", "down"}
  BY DEF SchemaInv, SchemaTypeOK
<1>2. Len(Steps) \in 1..9
  BY <1>1, Revised DEF Steps, Numbers
<1>3. place.statement \in 1..10
  <2> DEFINE n == Len(Steps)
  <2>1. n \in 1..9 /\ place.statement \in 1..(n + 1)
    BY <1>1, <1>2
  <2> HIDE DEF n
  <2> QED BY <2>1
<1>4. Schema!Statements = Steps
  BY <1>1 DEF Schema!Statements, Steps, Up, Back
<1>5. holder \in Replicas => Steps = Up(place.revision) /\ place.direction = "up"
  BY DEF SchemaInv, MovingInv, Steps
<1>6. holder \notin Replicas => holder = "operator"
  BY DEF SchemaInv, SchemaTypeOK
<1>7. holder \notin Replicas => Steps = Back(place.revision) /\ place.direction = "down"
  BY <1>6 DEF SchemaInv, MovingInv, Steps
<1>8. /\ Stands = 10 * place.revision + place.statement - 1 /\ Stands \in Nat
      /\ 10 * (place.revision - 1) + 9 \in Nat /\ 10 * (place.revision - 1) + 9 <= Stands
  <2>1. \A v \in 1..18, k \in 1..10 : /\ 10 * v + k - 1 \in Nat
                                     /\ 10 * (v - 1) + 9 \in Nat /\ 10 * (v - 1) + 9 <= 10 * v + k - 1
    OBVIOUS
  <2> QED BY <1>1, <1>3, <2>1 DEF Stands
<1> QED BY <1>1, <1>2, <1>3, <1>4, <1>5, <1>6, <1>7, <1>8

LEMMA SchemaStops == ASSUME SchemaInv, NEW r \in Replicas, Schema!Stop(r) PROVE SchemaInv'
<1>1. /\ replica' = [replica EXCEPT ![r] = Schema!Down] /\ UNCHANGED <<database, db, types_left>>
      /\ Schema!Down \in Container /\ Schema!Down.at = "down" /\ replica \in [Replicas -> Container]
  <2>1. Schema!Down \in Container /\ Schema!Down.at = "down"
    BY DEF Schema!Down, Container, Stopped
  <2>2. replica \in [Replicas -> Container]
    BY DEF SchemaInv, SchemaTypeOK
  <2> QED BY <2>1, <2>2 DEF Schema!Stop
<1>2. CASE holder # r
  <2>1. UNCHANGED <<holder, work, place, broken>>
    BY <1>2 DEF Schema!Stop
  <2> HIDE DEF SchemaInv
  <2> QED BY <1>1, <1>2, <2>1, ContainerMoves DEF Stopped
<1>3. CASE holder = r
  <2>1. /\ holder' = "nobody" /\ work' = db /\ place' = Schema!NoPlace
        /\ broken' = (broken \/ (database = "sqlite" /\ place.statement > 1))
    BY <1>3 DEF Schema!Stop
  <2>2. holder # "nobody"
    BY <1>3, ReplicasAssumption
  <2>3. broken' \in BOOLEAN
    BY <2>1 DEF SchemaInv, SchemaTypeOK
  <2>4. replica' \in [Replicas -> Container] /\ replica'[r].at = "down" /\ \A q \in Replicas : q # r => replica'[q] = replica[q]
    BY <1>1
  <2>5. ASSUME database = "sqlite"
        PROVE  \/ db.schema = On("sqlite", Full(db.version))
               \/ broken' /\ Later(db.schema, 10 * db.version + 9)
    <3>1. SqliteInv
      BY <2>5 DEF SchemaInv
    <3>2. db.version = place.revision - 1
      BY <1>3, <3>1 DEF SqliteInv
    <3>3. CASE broken /\ Later(db.schema \cap work.schema, Stands)
      <4>1. Later(db.schema, 10 * (place.revision - 1) + 9)
        BY <2>2, <3>3, Holding, LaterEarlier
      <4> QED BY <2>1, <3>2, <3>3, <4>1
    <3>4. CASE \E j \in 0..(place.statement - 1) :
                  /\ db.schema = On("sqlite", Stage(10 * place.revision + j))
                  /\ place.revision = 11 => j = 0
      <4>1. PICK j \in 0..(place.statement - 1) :
                  /\ db.schema = On("sqlite", Stage(10 * place.revision + j))
                  /\ place.revision = 11 => j = 0
        BY <3>4
      <4>2. j \in 0..Len(Up(place.revision))
        BY <1>3, <2>2, Holding
      <4>3. \/ db.schema = On("sqlite", Full(place.revision - 1))
            \/ Later(db.schema, 10 * (place.revision - 1) + 9)
        BY <2>2, <4>1, <4>2, Holding, HalfWay
      <4>4. CASE place.statement > 1
        BY <2>1, <2>5, <3>2, <4>3, <4>4
      <4>5. CASE ~(place.statement > 1)
        <5>1. j = 0
          BY <2>2, <4>5, Holding
        <5>2. db.schema = On("sqlite", Full(place.revision - 1))
          <6>1. place.revision \in 1..18 /\ 10 * place.revision + 0 = 10 * place.revision
            <7>1. \A v \in 1..18 : 10 * v + 0 = 10 * v
              OBVIOUS
            <7> QED BY <2>2, <7>1, Holding
          <6> QED BY <4>1, <5>1, <6>1, Between
        <5> QED BY <3>2, <5>2
      <4> QED BY <4>4, <4>5
    <3> QED BY <1>3, <3>1, <3>3, <3>4 DEF SqliteInv
  <2> HIDE DEF SchemaInv
  <2> QED BY <1>1, <1>3, <2>1, <2>2, <2>3, <2>4, <2>5, Abandoned
<1> QED BY <1>2, <1>3

(* Where the holder is at a statement: the revision's schema up to it. *)
LEMMA AtAStatement ==
    ASSUME SchemaInv, holder # "nobody", place.statement <= Len(Steps)
    PROVE  /\ place.statement \in 1..Len(Steps) /\ place.statement \in DOMAIN Steps
           /\ holder \in Replicas => place.statement \in 1..Len(Up(place.revision))
           /\ holder \notin Replicas => place.statement \in 1..Len(Back(place.revision))
<1>1. /\ Len(Steps) \in 1..9 /\ place.statement \in 1..10
      /\ holder \in Replicas => Steps = Up(place.revision)
      /\ holder \notin Replicas => Steps = Back(place.revision)
      /\ place.revision \in 1..18
  BY Holding
<1>2. \A n \in 1..9, k \in 1..10 : k <= n => k \in 1..n
  OBVIOUS
<1>3. place.statement \in 1..Len(Steps)
  BY <1>1, <1>2
<1>4. place.statement \in DOMAIN Steps
  BY <1>1, <1>3, Revised DEF Numbers
<1> QED BY <1>1, <1>3, <1>4

(* The one thing that keeps a step from what the schema allows is what was *)
(* there before: another's work, half a revision, or types.                *)
LEMMA RefusedOnlyFor ==
    ASSUME SchemaInv, Schema!Refused
    PROVE  /\ database = "postgres" /\ holder \in Replicas => db.version # replica[holder].from \/ types_left # {}
           /\ database = "sqlite" => broken /\ Later(db.schema, 10 * db.version + 9)
<1>1. holder # "nobody"
  BY DEF Schema!Refused
<1>2. \/ place.statement <= Len(Steps) /\ ~Schema!Possible(Steps[place.statement], work.schema)
      \/ place.statement > Len(Steps) /\ place.direction = "up" /\ work.version # place.revision - 1
  <2>1. Schema!Statements = Steps
    BY <1>1, Holding
  <2> QED BY <2>1 DEF Schema!Refused
<1>3. database \in {"sqlite", "postgres"} /\ place.revision \in 1..18
  BY <1>1, Holding DEF SchemaInv, SchemaTypeOK
<1>4. ASSUME place.statement <= Len(Steps), holder \in Replicas
      PROVE  Schema!Possible(Steps[place.statement], On(database, Stage(Stands)))
  BY <1>1, <1>3, <1>4, UpPossible, AtAStatement, Holding
<1>5. ASSUME place.statement <= Len(Steps), holder \notin Replicas
      PROVE  Schema!Possible(Steps[place.statement], On(database, Restored(place.revision, place.statement - 1)))
  BY <1>1, <1>3, <1>5, DownPossible, AtAStatement, Holding
<1>6. ASSUME database = "postgres", holder \in Replicas
      PROVE  db.version # replica[holder].from \/ types_left # {}
  <2> SUFFICES ASSUME db.version = replica[holder].from, types_left = {} PROVE FALSE
    OBVIOUS
  <2>1. work.version = place.revision - 1 /\ work.schema = Stage(Stands)
    BY <1>6 DEF SchemaInv, PostgresInv, Like
  <2>2. ~Schema!Possible(Steps[place.statement], On(database, Stage(Stands))) /\ place.statement <= Len(Steps)
    BY <1>2, <1>6, <2>1, WithinObjects
  <2> QED BY <1>4, <1>6, <2>2
<1>7. ASSUME database = "sqlite", holder \in Replicas
      PROVE  broken /\ Later(db.schema, 10 * db.version + 9)
  <2>1. db.version = place.revision - 1 /\ work.version = place.revision - 1
    BY <1>7 DEF SchemaInv, SqliteInv
  <2>2. work.schema # On("sqlite", Stage(Stands))
    BY <1>2, <1>4, <1>7, <2>1
  <2>3. broken /\ Later(db.schema \cap work.schema, Stands)
    BY <1>7, <2>2 DEF SchemaInv, SqliteInv
  <2> QED BY <1>1, <2>1, <2>3, Holding, LaterEarlier
<1>8. ASSUME database = "sqlite", holder \notin Replicas
      PROVE  broken /\ Later(db.schema, 10 * db.version + 9)
  <2>1. holder = "operator" /\ db.version = place.revision /\ place.direction = "down"
    BY <1>1, <1>8, Holding DEF SchemaInv, MovingInv
  <2>2. work.schema # On("sqlite", Restored(place.revision, place.statement - 1))
    BY <1>2, <1>5, <1>8, <2>1
  <2>3. broken /\ Later(db.schema \cap work.schema, 10 * place.revision + 9)
    BY <1>8, <2>1, <2>2 DEF SchemaInv, SqliteInv
  <2>4. \A v \in 1..18 : 10 * v + 9 \in Nat /\ 10 * v + 9 <= 10 * v + 9
    OBVIOUS
  <2> QED BY <1>3, <2>1, <2>3, <2>4, LaterEarlier
<1> QED BY <1>6, <1>7, <1>8

LEMMA SchemaRefused == ASSUME SchemaInv, Schema!Refused PROVE SchemaInv'
<1>1. /\ holder # "nobody" /\ holder' = "nobody" /\ work' = db /\ place' = Schema!NoPlace
      /\ broken' = (broken \/ (database = "sqlite" /\ db # work))
      /\ UNCHANGED <<database, db, types_left>>
  BY DEF Schema!Refused
<1>2. replica \in [Replicas -> Container] /\ broken \in BOOLEAN /\ database \in {"sqlite", "postgres"}
  BY DEF SchemaInv, SchemaTypeOK
<1>3. ASSUME holder \notin Replicas PROVE replica' = replica
  BY <1>1, <1>3, Holding DEF Schema!Refused, Schema!Operator
<1>4. ASSUME holder \in Replicas
      PROVE  /\ replica' \in [Replicas -> Container]
             /\ \A r \in Replicas : r # holder => replica'[r] = replica[r]
             /\ replica'[holder].at = "failed" /\ replica'[holder].excuse # "none"
  <2>1. replica' = [replica EXCEPT ![holder].at = "failed", ![holder].excuse = Schema!Excuse(holder)]
    BY <1>4, ReplicasAssumption DEF Schema!Refused
  <2>2. Schema!Excuse(holder) \in {"raced", "broken", "types left", "none"}
    BY DEF Schema!Excuse
  <2>3. Schema!Excuse(holder) # "none"
    BY <1>2, <1>4, RefusedOnlyFor DEF Schema!Excuse
  <2>4. replica[holder] \in Container
    BY <1>2, <1>4
  <2>5. replica' = [replica EXCEPT ![holder] = [@ EXCEPT !.at = "failed", !.excuse = Schema!Excuse(holder)]]
    BY <2>1
  <2>6. [replica[holder] EXCEPT !.at = "failed", !.excuse = Schema!Excuse(holder)] \in Container
    BY <2>2, <2>4 DEF Container, Stopped
  <2> QED BY <1>2, <1>4, <2>3, <2>4, <2>5, <2>6 DEF Container
<1>5. replica' \in [Replicas -> Container] /\ \A r \in Replicas : r # holder => replica'[r] = replica[r]
  BY <1>2, <1>3, <1>4
<1>6. database = "sqlite" => broken' /\ Later(db.schema, 10 * db.version + 9)
  BY <1>1, RefusedOnlyFor
<1>7. broken' \in BOOLEAN
  BY <1>1, <1>2
<1> HIDE DEF SchemaInv
<1> QED BY <1>1, <1>4, <1>5, <1>6, <1>7, Abandoned

----------------------------------------------------------------------------
(* A statement. *)

UpIs(v, k) ==
    /\ Up(v)[k].does \in {"create", "drop", "new"}
    /\ Up(v)[k].does = "create" => Up(v)[k].names \subseteq Objects
    /\ v = 11 => Up(v)[k].does # "create"
    /\ v # 11 => Up(v)[k].does = "create"
BackIs(v, k) ==
    /\ Back(v)[k].does \in {"create", "drop", "old"}
    /\ Back(v)[k].does = "create" => Back(v)[k].names \subseteq Objects
    /\ Back(v)[k].does = "old" => v = 11 /\ k = 5 /\ Back(v)[k].rows
    /\ v = 11 => Back(v)[k].does # "drop"
    /\ v # 11 => Back(v)[k].does = "drop"

LEMMA StatementIs ==
    /\ \A v \in 1..18, k \in 1..9 : k <= Len(Up(v)) => UpIs(v, k)
    /\ \A v \in 1..18, k \in 1..9 : k <= Len(Back(v)) => BackIs(v, k)
<1>1. ASSUME NEW v \in 1..18, v # 11, NEW k \in 1..9
      PROVE  /\ k <= Len(Up(v)) => Up(v)[k].does = "create" /\ Up(v)[k].names \subseteq Objects
             /\ k <= Len(Back(v)) => Back(v)[k].does = "drop"
  BY <1>1, EachCreatesAndDrops, Revised DEF Creates, Drops, Numbers
<1>2. ASSUME NEW k \in 1..9, k <= Len(Up(11)) PROVE Up(11)[k].does \in {"drop", "new"}
  <2>0. k <= 4
    <3>1. Len(Up(11)) = 4
      BY Removes
    <3> QED BY <1>2, <3>1
  <2>1. k = 1 \/ k \in 2..4
    BY <2>0
  <2> QED BY <2>1, Removes
<1>3. ASSUME NEW k \in 1..9, k <= Len(Back(11))
      PROVE  \/ Back(11)[k].does = "create" /\ Back(11)[k].names \subseteq Objects
             \/ Back(11)[k].does = "old" /\ k = 5 /\ Back(11)[k].rows
  <2>0. k <= 5
    <3>1. Len(Back(11)) = 5
      BY Removes
    <3> QED BY <1>3, <3>1
  <2>1. k = 1 \/ k = 2 \/ k = 3 \/ k = 4 \/ k = 5
    BY <2>0
  <2>2. k \in 1..4 => Back(11)[k].does = "create"
    BY Removes
  <2>3. Auth \subseteq Objects
    BY Removal
  <2>4. k \in 1..4 => Back(11)[k].names \subseteq Auth
    BY <2>1, Removes DEF Auth
  <2> QED BY <2>1, <2>2, <2>3, <2>4, Removes
<1>4. ASSUME NEW v \in 1..18, NEW k \in 1..9, k <= Len(Up(v)) PROVE UpIs(v, k)
  <2>1. CASE v = 11
    BY <1>2, <1>4, <2>1 DEF UpIs
  <2>2. CASE v # 11
    BY <1>1, <1>4, <2>2 DEF UpIs
  <2> QED BY <2>1, <2>2
<1>5. ASSUME NEW v \in 1..18, NEW k \in 1..9, k <= Len(Back(v)) PROVE BackIs(v, k)
  <2>1. CASE v = 11
    BY <1>3, <1>5, <2>1 DEF BackIs
  <2>2. CASE v # 11
    BY <1>1, <1>5, <2>2 DEF BackIs
  <2> QED BY <2>1, <2>2
<1> QED BY <1>4, <1>5

(* What no statement of the revision makes or removes is still there.      *)
LEMMA LaterStays ==
    ASSUME database = "sqlite", NEW X, NEW Y, NEW v \in 1..18, NEW k \in 1..Len(Up(v)),
           Schema!Possible(Up(v)[k], X), Later(Y \cap X, 10 * v + k - 1)
    PROVE  Later(Y \cap Schema!Written(X, Up(v)[k]), 10 * v + k) /\ Later(Schema!Written(X, Up(v)[k]), 10 * v + k)
<1> DEFINE s == Up(v)[k]
<1>0. k \in DOMAIN Up(v) /\ k \in 1..9 /\ k <= Len(Up(v))
  BY Revised DEF Numbers
<1>1. PICK o \in Y \cap X : o \in Objects \ Schema!Types /\ Born[o] > 10 * v + k - 1
  BY DEF Later
<1>2. Born[o] # 10 * v + k
  <2> SUFFICES ASSUME Born[o] = 10 * v + k PROVE FALSE
    OBVIOUS
  <2>1. v # 11 /\ o \in s.names
    BY <1>0, <1>1, Placed
  <2>2. s.does = "create" /\ ~s.checked
    BY <1>0, <2>1, EachCreatesAndDrops DEF Creates
  <2> HIDE DEF s
  <2>3. Schema!Existing(s.names) \cap X = {}
    BY <2>2 DEF Schema!Possible, s
  <2> QED BY <1>1, <2>1, <2>3 DEF Schema!Existing
<1>3. Born[o] > 10 * v + k
  <2>1. Born[o] \in Nat
    BY <1>1, Placed
  <2> QED BY <1>0, <1>1, <1>2, <2>1
<1>4. o \in Schema!Written(X, s)
  <2>1. s.does = "create" \/ s.does = "new" \/ (s.does = "drop" /\ v = 11)
    <3> HIDE DEF s
    <3>1. UpIs(v, k)
      BY <1>0, StatementIs
    <3> QED BY <3>1 DEF UpIs, s
  <2>2. ASSUME s.does = "drop", v = 11 PROVE o \notin s.names
    <3>1. k = 1 \/ k \in 2..4
      BY <1>0, <2>2, Removes
    <3>2. k \in 2..4
      BY <2>2, <3>1, Removes
    <3>3. o \in s.names => o \in Auth
      BY <2>2, <3>2, Removes
    <3>4. o \in Auth => Born[o] <= 21
      BY Removal
    <3>5. 10 * v + k > 21
      BY <1>0, <2>2
    <3>6. Born[o] \in Nat
      BY <1>1, Placed
    <3>7. ~(Born[o] <= 21)
      BY <1>0, <1>3, <3>5, <3>6
    <3> QED BY <3>3, <3>4, <3>7
  <2> HIDE DEF s
  <2> QED BY <1>1, <2>1, <2>2 DEF Schema!Written
<1> QED BY <1>1, <1>3, <1>4 DEF Later

LEMMA LaterKept ==
    ASSUME NEW X, NEW Y, NEW v \in 1..18, NEW k \in 1..Len(Back(v)), Later(Y \cap X, 10 * v + 9)
    PROVE  /\ Later(Y \cap Schema!Written(X, Back(v)[k]), 10 * v + 9)
           /\ Later(Schema!Written(X, Back(v)[k]), 10 * v + 9)
<1> DEFINE s == Back(v)[k]
<1>0. k \in DOMAIN Back(v) /\ k \in 1..9 /\ k <= Len(Back(v))
  BY Revised DEF Numbers
<1>1. PICK o \in Y \cap X : o \in Objects \ Schema!Types /\ Born[o] > 10 * v + 9
  BY DEF Later
<1>2. s.does = "create" \/ s.does = "old" \/ (s.does = "drop" /\ v # 11)
  <2>1. BackIs(v, k)
    BY <1>0, StatementIs
  <2> QED BY <2>1 DEF BackIs
<1>3. ASSUME v # 11, o \in s.names PROVE FALSE
  <2>1. Born[o] <= 10 * v + 9
    BY <1>0, <1>3, EachCreatesAndDrops DEF Drops
  <2>2. Born[o] \in Nat
    BY <1>1, Placed
  <2> QED BY <1>1, <2>1, <2>2
<1> HIDE DEF s
<1>4. o \in Schema!Written(X, s)
  BY <1>1, <1>2, <1>3 DEF Schema!Written
<1> QED BY <1>1, <1>4 DEF Later, s

(* What a statement is, and what it changes. *)
LEMMA Executes ==
    ASSUME SchemaInv, Schema!Execute
    PROVE  LET s == Steps[place.statement] IN
           /\ holder # "nobody" /\ place.statement <= Len(Steps) /\ holder' = holder
           /\ Schema!Possible(s, work.schema)
           /\ work' = Schema!Changed(s, work)
           /\ work'.schema = Schema!Written(work.schema, s) /\ work'.version = work.version
           /\ work'.email = IF s.does \in {"create", "drop"} \/ work.email = "none" THEN work.email ELSE s.does
           /\ \/ work'.email = work.email
              \/ work.email # "none" /\ work'.email = s.does /\ s.does \in {"old", "new"}
           /\ work' \in Data
           /\ place'.revision = place.revision /\ place'.direction = place.direction
           /\ place'.statement = place.statement + 1 /\ place'.rows = (place.rows \/ s.rows)
           /\ place' \in [direction : {"up", "down"}, revision : 0..18, statement : Nat, rows : BOOLEAN]
           /\ db' = IF database = "sqlite" /\ ~place'.rows THEN work' ELSE db
           /\ UNCHANGED <<database, replica, broken, types_left>>
<1> DEFINE s == Steps[place.statement]
<1>1. holder # "nobody"
  BY DEF Schema!Execute
<1>2. Schema!Statements = Steps
  BY <1>1, Holding
<1>3. /\ place.statement <= Len(Steps) /\ holder' = holder /\ Schema!Possible(s, work.schema)
      /\ work' = Schema!Changed(s, work)
      /\ place' = [place EXCEPT !.statement = @ + 1, !.rows = place.rows \/ s.rows]
      /\ db' = IF database = "sqlite" /\ ~(place.rows \/ s.rows) THEN work' ELSE db
      /\ UNCHANGED <<database, replica, broken, types_left>>
  BY <1>2 DEF Schema!Execute
<1>4. place \in [direction : {"up", "down"}, revision : 0..18, statement : Nat, rows : BOOLEAN] /\ work \in Data
  BY DEF SchemaInv, SchemaTypeOK
<1>5. place.revision \in 1..18 /\ place.statement \in 1..9
  <2>1. \A n \in 1..9 : \A k \in 1..n : k \in 1..9
    OBVIOUS
  <2> QED BY <1>1, <1>3, <2>1, Holding, AtAStatement
<1>6. /\ s.does \in {"create", "drop", "new", "old"}
      /\ s.does = "create" => s.names \subseteq Objects
  <2>1. CASE holder \in Replicas
    <3>1. Steps = Up(place.revision) /\ place.statement <= Len(Up(place.revision))
      BY <1>1, <1>3, <2>1, Holding
    <3>2. UpIs(place.revision, place.statement)
      BY <1>5, <3>1, StatementIs
    <3> QED BY <3>1, <3>2 DEF UpIs
  <2>2. CASE holder \notin Replicas
    <3>1. Steps = Back(place.revision) /\ place.statement <= Len(Back(place.revision))
      BY <1>1, <1>3, <2>2, Holding
    <3>2. BackIs(place.revision, place.statement)
      BY <1>5, <3>1, StatementIs
    <3> QED BY <3>1, <3>2 DEF BackIs
  <2> QED BY <2>1, <2>2
<1> HIDE DEF s
<1>7. Schema!Written(work.schema, s) \subseteq Objects
  <2>1. work.schema \subseteq Objects
    BY <1>4 DEF Data
  <2> QED BY <1>6, <2>1 DEF Schema!Written, Schema!Existing
<1>8. /\ work'.schema = Schema!Written(work.schema, s) /\ work'.version = work.version
      /\ work'.email = IF s.does \in {"create", "drop"} \/ work.email = "none" THEN work.email ELSE s.does
      /\ DOMAIN work' = {"schema", "version", "email"}
      /\ work' = [schema |-> work'.schema, version |-> work'.version, email |-> work'.email]
  <2>1. work = [schema |-> work.schema, version |-> work.version, email |-> work.email]
    BY <1>4 DEF Data
  <2>2. work' = [work EXCEPT !.schema = Schema!Written(work.schema, s),
                             !.email = IF s.does \in {"create", "drop"} \/ work.email = "none" THEN work.email ELSE s.does]
    BY <1>3 DEF Schema!Changed
  <2>3. work' = [schema |-> Schema!Written(work.schema, s), version |-> work.version,
                 email |-> IF s.does \in {"create", "drop"} \/ work.email = "none" THEN work.email ELSE s.does]
    BY <1>4, <2>2 DEF Data
  <2> QED BY <2>3
<1>9. \/ work'.email = work.email
      \/ work.email # "none" /\ work'.email = s.does /\ s.does \in {"old", "new"}
  BY <1>6, <1>8
<1>10. work' \in Data
  <2>1. work'.email \in Emails
    BY <1>4, <1>9 DEF Data, Emails
  <2>2. work'.schema \in SUBSET Objects /\ work'.version \in 0..18
    BY <1>4, <1>7, <1>8 DEF Data
  <2> QED BY <1>8, <2>1, <2>2 DEF Data
<1>11. (place.rows \/ s.rows) \in BOOLEAN
  OBVIOUS
<1>12. /\ place'.revision = place.revision /\ place'.direction = place.direction
       /\ place'.statement = place.statement + 1 /\ place'.rows = (place.rows \/ s.rows)
  BY <1>3, <1>4
<1>13. place' \in [direction : {"up", "down"}, revision : 0..18, statement : Nat, rows : BOOLEAN]
  <2>1. place.statement + 1 \in Nat
    BY <1>4
  <2>2. PICK b \in BOOLEAN : b = (place.rows \/ s.rows)
    BY <1>11
  <2>3. place' = [direction |-> place.direction, revision |-> place.revision,
                  statement |-> place.statement + 1, rows |-> b]
    BY <1>3, <1>4, <2>2
  <2> QED BY <1>4, <2>1, <2>2, <2>3
<1>14. db' = IF database = "sqlite" /\ ~place'.rows THEN work' ELSE db
  BY <1>3, <1>12
<1> QED BY <1>1, <1>3, <1>8, <1>9, <1>10, <1>12, <1>13, <1>14 DEF s

LEMMA SchemaExecutes == ASSUME SchemaInv, Schema!Execute PROVE SchemaInv'
<1> DEFINE s == Steps[place.statement]
           rev == place.revision
           k == place.statement
<1>1. /\ holder # "nobody" /\ k <= Len(Steps) /\ holder' = holder
      /\ Schema!Possible(s, work.schema)
      /\ work'.schema = Schema!Written(work.schema, s) /\ work'.version = work.version
      /\ \/ work'.email = work.email
         \/ work.email # "none" /\ work'.email = s.does /\ s.does \in {"old", "new"}
      /\ work' \in Data
      /\ place'.revision = rev /\ place'.direction = place.direction
      /\ place'.statement = k + 1 /\ place'.rows = (place.rows \/ s.rows)
      /\ place' \in [direction : {"up", "down"}, revision : 0..18, statement : Nat, rows : BOOLEAN]
      /\ db' = IF database = "sqlite" /\ ~place'.rows THEN work' ELSE db
      /\ UNCHANGED <<database, replica, broken, types_left>>
  BY Executes
<1>2. rev \in 1..18 /\ k \in 1..Len(Steps) /\ Len(Steps) \in 1..9 /\ Stands = 10 * rev + k - 1
  BY <1>1, Holding, AtAStatement
<1>3. k \in 1..9 /\ k + 1 \in 1..(Len(Steps) + 1) /\ 10 * rev + (k + 1) - 1 = 10 * rev + k /\ (k + 1) - 1 = k
  <2>1. \A n \in 1..9 : \A i \in 1..n : i \in 1..9 /\ i + 1 \in 1..(n + 1)
    OBVIOUS
  <2>2. \A v \in 1..18, i \in 1..9 : 10 * v + (i + 1) - 1 = 10 * v + i /\ (i + 1) - 1 = i
    OBVIOUS
  <2> QED BY <1>2, <2>1, <2>2
<1>4. holder \in Replicas => Steps = Up(rev) /\ k \in 1..Len(Up(rev)) /\ s = Up(rev)[k] /\ k <= Len(Up(rev))
  BY <1>1, Holding, AtAStatement
<1>5. holder \notin Replicas =>
         /\ holder = "operator" /\ Steps = Back(rev) /\ k \in 1..Len(Back(rev)) /\ s = Back(rev)[k]
         /\ k <= Len(Back(rev))
  BY <1>1, Holding, AtAStatement
<1>6. "operator" \notin Replicas /\ "nobody" \notin Replicas
  BY ReplicasAssumption DEF Schema!Operator
<1>7. Stands' = 10 * rev + k /\ Steps' = Steps
  BY <1>1, <1>3 DEF Stands, Steps
<1>8. database \in {"sqlite", "postgres"} /\ db \in Data
  BY DEF SchemaInv, SchemaTypeOK
<1>9. holder \in Replicas => s.does # "old" /\ (rev = 11 => s.does # "create")
  <2>1. holder \in Replicas => UpIs(rev, k)
    BY <1>2, <1>3, <1>4, StatementIs
  <2> HIDE DEF rev, k
  <2> QED BY <1>4, <2>1 DEF UpIs
<1>10. holder \notin Replicas => s.does # "new" /\ (s.does = "old" => rev = 11 /\ k = 5 /\ s.rows)
  <2>1. holder \notin Replicas => BackIs(rev, k)
    BY <1>2, <1>3, <1>5, StatementIs
  <2> HIDE DEF rev, k
  <2> QED BY <1>5, <2>1 DEF BackIs
<1>11. db' \in Data /\ db'.version \in 0..18
  BY <1>1, <1>8 DEF Data
<1> HIDE DEF s, rev, k
<1>12. SchemaTypeOK'
  <2>1. place'.revision \in 1..18 /\ place'.statement \in 1..(Len(Steps') + 1)
    BY <1>1, <1>2, <1>3, <1>7
  <2> QED BY <1>1, <1>11, <2>1 DEF SchemaInv, SchemaTypeOK
<1>13. database = "sqlite" => db.version = work.version
  <2> SUFFICES ASSUME database = "sqlite" PROVE db.version = work.version
    OBVIOUS
  <2>1. CASE holder \in Replicas
    BY <2>1 DEF SchemaInv, SqliteInv
  <2>2. CASE holder \notin Replicas
    BY <1>5, <2>2 DEF SchemaInv, MovingInv
  <2> QED BY <2>1, <2>2
<1>14. db'.version = db.version
  BY <1>1, <1>13
<1>15. MovingInv'
  BY <1>1, <1>6, <1>14 DEF SchemaInv, MovingInv, rev
<1>16. EmailInv'
  <2>1. holder' \in Replicas /\ place'.revision = 11 => work'.email # "old" /\ place'.rows
    <3> SUFFICES ASSUME holder \in Replicas, rev = 11 PROVE work'.email # "old" /\ place'.rows
      BY <1>1
    <3>1. CASE k = 1
      <4>1. s.does = "new" /\ s.rows
        BY <1>4, <3>1, Removes
      <4>2. work'.email = work.email => work.email # "old"
        <5>1. work'.email = IF s.does \in {"create", "drop"} \/ work.email = "none" THEN work.email ELSE s.does
          BY Executes DEF s
        <5> QED BY <4>1, <5>1
      <4> QED BY <1>1, <4>1, <4>2
    <3>2. CASE k # 1
      <4>1. k > 1
        BY <1>3, <3>2
      <4>2. work.email # "old" /\ place.rows
        BY <4>1 DEF SchemaInv, EmailInv, rev, k
      <4> QED BY <1>1, <1>9, <4>2
    <3> QED BY <3>1, <3>2
  <2>2. ASSUME work'.version >= 11, work'.email = "old"
        PROVE  holder' = "operator" /\ place'.revision = 11 /\ place'.statement > 5 /\ place'.rows
    <3>1. CASE work.email = "old"
      <4>1. holder = "operator" /\ rev = 11 /\ k > 5
        BY <1>1, <2>2, <3>1 DEF SchemaInv, EmailInv, rev, k
      <4>2. Len(Steps) = 5
        BY <1>5, <1>6, <4>1, Removes
      <4> QED BY <1>1, <1>3, <4>1, <4>2
    <3>2. CASE work.email # "old"
      <4>1. s.does = "old"
        BY <1>1, <2>2, <3>2
      <4>2. holder \notin Replicas /\ rev = 11 /\ k = 5 /\ s.rows
        BY <1>9, <1>10, <4>1
      <4> QED BY <1>1, <1>5, <4>2
    <3> QED BY <3>1, <3>2
  <2>3. db'.version >= 11 => db'.email # "old"
    BY <1>1, <2>2 DEF SchemaInv, EmailInv
  <2> QED BY <2>1, <2>2, <2>3 DEF EmailInv
<1>17. ASSUME holder \in Replicas
       PROVE  Schema!Written(On(database, Stage(10 * rev + k - 1)), s) = On(database, Stage(10 * rev + k))
  BY <1>2, <1>4, <1>8, <1>17, UpWrites
<1>18. ASSUME holder \notin Replicas
       PROVE  Schema!Written(On(database, Restored(rev, k - 1)), s) = On(database, Restored(rev, k))
  BY <1>2, <1>5, <1>8, <1>18, DownWrites
<1>19. (database = "postgres" => PostgresInv)'
  <2> SUFFICES ASSUME database = "postgres" PROVE PostgresInv'
    BY <1>1
  <2>0. PostgresInv /\ db' = db
    BY <1>1 DEF SchemaInv
  <2>1. ASSUME NEW X, NEW Y, Like(work.schema, X), Schema!Written(X, s) = Y PROVE Like(work'.schema, Y)
    <3>1. work'.schema \ Schema!Types = Y \ Schema!Types
      BY <1>1, <2>1, WrittenLike DEF Like
    <3>2. types_left = {} => work'.schema = Y
      BY <1>1, <2>1 DEF Like
    <3> QED BY <1>1, <3>1, <3>2 DEF Like
  <2>2. ASSUME holder \in Replicas, work.version = rev - 1 PROVE Like(work'.schema, Stage(10 * rev + k))
    <3>1. Like(work.schema, Stage(10 * rev + k - 1))
      BY <1>2, <2>0, <2>2 DEF PostgresInv, rev
    <3> QED BY <1>17, <2>1, <2>2, <3>1, WithinObjects
  <2>3. ASSUME holder \notin Replicas PROVE Like(work'.schema, Restored(rev, k))
    <3>1. Like(work.schema, Restored(rev, k - 1))
      BY <1>5, <2>0, <2>3 DEF PostgresInv, rev, k
    <3> QED BY <1>18, <2>1, <2>3, <3>1, WithinObjects
  <2>4. Like(db'.schema, Full(db'.version))
    BY <1>1, <2>0 DEF PostgresInv, Like
  <2> QED BY <1>1, <1>3, <1>6, <1>7, <2>0, <2>2, <2>3, <2>4 DEF PostgresInv, Like, rev
<1>20. (database = "sqlite" => SqliteInv)'
  <2> SUFFICES ASSUME database = "sqlite" PROVE SqliteInv'
    BY <1>1
  <2>0. SqliteInv
    BY DEF SchemaInv
  <2>1. ASSUME holder \in Replicas
        PROVE  \/ /\ work'.schema = On("sqlite", Stage(10 * rev + k))
                  /\ \E j \in 0..k : /\ db'.schema = On("sqlite", Stage(10 * rev + j))
                                     /\ rev = 11 => j = 0
               \/ broken /\ Later(db'.schema \cap work'.schema, 10 * rev + k)
    <3>1. CASE work.schema = On("sqlite", Stage(Stands)) /\ \E j \in 0..(k - 1) :
                  /\ db.schema = On("sqlite", Stage(10 * rev + j))
                  /\ rev = 11 => j = 0
      <4>1. work'.schema = On("sqlite", Stage(10 * rev + k))
        BY <1>1, <1>2, <1>17, <2>1, <3>1
      <4>2. CASE db' = db
        <5>1. PICK j \in 0..(k - 1) : db.schema = On("sqlite", Stage(10 * rev + j)) /\ (rev = 11 => j = 0)
          BY <3>1
        <5>2. j \in 0..k
          BY <1>3, <5>1
        <5> QED BY <4>1, <4>2, <5>1, <5>2
      <4>3. CASE db' = work' /\ ~place'.rows
        <5>1. rev # 11
          <6> SUFFICES ASSUME rev = 11 PROVE FALSE
            OBVIOUS
          <6>1. CASE k = 1
            BY <1>1, <1>4, <2>1, <4>3, <6>1, Removes
          <6>2. CASE k # 1
            <7>1. k > 1
              BY <1>3, <6>2
            <7>2. place.rows
              BY <2>1, <7>1 DEF SchemaInv, EmailInv, rev, k
            <7> QED BY <1>1, <4>3, <7>2
          <6> QED BY <6>1, <6>2
        <5>2. k \in 0..k
          BY <1>3
        <5> QED BY <4>1, <4>3, <5>1, <5>2
      <4> QED BY <1>1, <4>2, <4>3
    <3>2. CASE broken /\ Later(db.schema \cap work.schema, Stands)
      <4>1. /\ Later(db.schema \cap work'.schema, 10 * rev + k)
            /\ Later(work'.schema, 10 * rev + k)
        <5>1. Later(db.schema \cap work.schema, 10 * rev + k - 1)
          BY <1>2, <3>2
        <5>2. Schema!Possible(Up(rev)[k], work.schema) /\ k \in 1..Len(Up(rev)) /\ work'.schema = Schema!Written(work.schema, Up(rev)[k])
          BY <1>1, <1>4, <2>1
        <5> QED BY <1>2, <5>1, <5>2, LaterStays
      <4>2. work'.schema \cap work'.schema = work'.schema
        OBVIOUS
      <4> QED BY <1>1, <3>2, <4>1, <4>2
    <3> QED BY <2>0, <2>1, <3>1, <3>2 DEF SqliteInv, rev, k
  <2>2. ASSUME holder \notin Replicas
        PROVE  \/ work'.schema = On("sqlite", Restored(rev, k))
               \/ broken /\ Later(db'.schema \cap work'.schema, 10 * rev + 9)
    <3>1. CASE work.schema = On("sqlite", Restored(rev, k - 1))
      BY <1>1, <1>18, <2>2, <3>1
    <3>2. CASE broken /\ Later(db.schema \cap work.schema, 10 * rev + 9)
      <4>1. /\ Later(db.schema \cap work'.schema, 10 * rev + 9)
            /\ Later(work'.schema, 10 * rev + 9)
        <5>1. k \in 1..Len(Back(rev)) /\ work'.schema = Schema!Written(work.schema, Back(rev)[k])
          BY <1>1, <1>5, <2>2
        <5> QED BY <1>2, <3>2, <5>1, LaterKept
      <4>2. work'.schema \cap work'.schema = work'.schema
        OBVIOUS
      <4> QED BY <1>1, <3>2, <4>1, <4>2
    <3> QED BY <1>5, <2>0, <2>2, <3>1, <3>2 DEF SqliteInv, rev, k
  <2>3. holder \in Replicas => db'.version = rev - 1 /\ work'.version = rev - 1
    BY <1>1, <1>14, <2>0 DEF SqliteInv, rev
  <2>4. \A r \in Replicas : replica[r].at = "waiting" => replica[r].from = db'.version
    BY <1>14, <2>0 DEF SqliteInv
  <2>5. \A r, q \in Replicas : replica[r].at \notin Stopped /\ replica[q].at \notin Stopped => r = q
    BY <2>0 DEF SqliteInv
  <2> QED BY <1>1, <1>3, <1>6, <1>7, <2>1, <2>2, <2>3, <2>4, <2>5 DEF SqliteInv
<1> QED BY <1>12, <1>15, <1>16, <1>19, <1>20 DEF SchemaInv

----------------------------------------------------------------------------
(* A revision that is done. *)

(* Nothing is made between a revision's last statement and the next. *)
LEMMA NoneBetween ==
    ASSUME NEW S, NEW v \in 1..18, Later(S, 10 * v + Len(Up(v)))
    PROVE  Later(S, 10 * v + 9)
<1> DEFINE n == Len(Up(v))
<1>1. PICK o \in S : o \in Objects \ Schema!Types /\ Born[o] > 10 * v + n
  BY DEF Later
<1>2. PICK u \in 1..18, k \in 1..9 : k <= Len(Up(u)) /\ Born[o] = 10 * u + k
  BY <1>1, Placed
<1>3. u = v => k <= n
  BY <1>2
<1>4. n \in 1..9
  BY Revised DEF Numbers
<1> HIDE DEF n
<1>5. Born[o] > 10 * v + 9
  BY <1>1, <1>2, <1>3, <1>4
<1> QED BY <1>1, <1>5 DEF Later

(* The schema the holder stamps. *)
LEMMA AtTheEnd ==
    ASSUME SchemaInv, holder # "nobody", place.statement > Len(Steps)
    PROVE  /\ place.statement = Len(Steps) + 1 /\ place.statement > 1 /\ place.statement - 1 = Len(Steps)
           /\ holder \in Replicas => /\ Stands = 10 * place.revision + Len(Up(place.revision))
                                     /\ Stage(Stands) = Full(place.revision)
           /\ place.revision = 11 /\ holder \in Replicas => work.email # "old"
<1>0. holder \in Replicas => Steps = Up(place.revision)
  BY Holding
<1>1. /\ Len(Steps) \in 1..9 /\ place.statement \in 1..(Len(Steps) + 1) /\ place.revision \in 1..18
      /\ Stands = 10 * place.revision + place.statement - 1
  BY Holding
<1> DEFINE n == Len(Steps)
           k == place.statement
           v == place.revision
<1>2. n \in 1..9 /\ k \in 1..(n + 1) /\ k > n /\ v \in 1..18 /\ Stands = 10 * v + k - 1
  BY <1>1
<1> HIDE DEF n, k, v
<1>3. k = n + 1 /\ k > 1 /\ k - 1 = n /\ Stands = 10 * v + n
  BY <1>2
<1>4. place.statement = Len(Steps) + 1 /\ place.statement > 1 /\ place.statement - 1 = Len(Steps)
  BY <1>3 DEF n, k
<1>5. holder \in Replicas => Stands = 10 * place.revision + Len(Up(place.revision))
  BY <1>0, <1>3 DEF n, v
<1>6. holder \in Replicas => Stage(Stands) = Full(place.revision)
  BY <1>1, <1>5, Between
<1>7. place.revision = 11 /\ holder \in Replicas => work.email # "old"
  BY <1>4 DEF SchemaInv, EmailInv
<1> QED BY <1>4, <1>5, <1>6, <1>7

(* What a stamp changes. *)
LEMMA Stamps ==
    ASSUME SchemaInv, Schema!Stamp
    PROVE  /\ holder # "nobody" /\ place.statement > Len(Steps)
           /\ UNCHANGED <<database, broken>>
           /\ work'.schema = work.schema /\ work'.email = work.email /\ work' \in Data
           /\ holder \in Replicas =>
                 /\ work.version = place.revision - 1 /\ work'.version = place.revision
                 /\ types_left' = types_left
                 /\ db' = IF place.revision = Image(holder) \/ database = "sqlite" THEN work' ELSE db
                 /\ IF place.revision = Image(holder)
                    THEN /\ holder' = "nobody" /\ place' = Schema!NoPlace
                         /\ replica' = [replica EXCEPT ![holder].at = "serving"]
                    ELSE /\ place'.direction = "up" /\ place'.revision = place.revision + 1 /\ place'.statement = 1
                         /\ place'.rows = FALSE /\ holder' = holder /\ replica' = replica
           /\ holder \notin Replicas =>
                 /\ work'.version = place.revision - 1 /\ db' = work'
                 /\ types_left' = types_left \cup ((work.schema \cap Schema!Types) \ Schema!SchemaAt[place.revision - 1])
                 /\ holder' = "nobody" /\ place' = Schema!NoPlace /\ replica' = replica
<1>1. holder # "nobody"
  BY DEF Schema!Stamp
<1>2. Schema!Statements = Steps /\ place.revision \in 1..18 /\ (place.direction = "up" <=> holder \in Replicas)
  BY <1>1, Holding
<1>3. work = [schema |-> work.schema, version |-> work.version, email |-> work.email] /\ work \in Data
  BY DEF SchemaInv, SchemaTypeOK, Data
<1>4. work' = [work EXCEPT !.version = IF place.direction = "up" THEN place.revision ELSE place.revision - 1]
  BY DEF Schema!Stamp
<1>5. work'.schema = work.schema /\ work'.email = work.email
      /\ work'.version = IF place.direction = "up" THEN place.revision ELSE place.revision - 1
  BY <1>3, <1>4 DEF Data
<1>6. (IF place.direction = "up" THEN place.revision ELSE place.revision - 1) \in 0..18
  BY <1>2
<1>7. work' \in Data
  BY <1>3, <1>4, <1>6 DEF Data
<1>8. place \in [direction : {"up", "down"}, revision : 0..18, statement : Nat, rows : BOOLEAN]
  BY DEF SchemaInv, SchemaTypeOK
<1>9. ASSUME holder \in Replicas
      PROVE  /\ work.version = place.revision - 1 /\ types_left' = types_left
             /\ db' = IF place.revision = Image(holder) \/ database = "sqlite" THEN work' ELSE db
             /\ IF place.revision = Image(holder)
                THEN /\ holder' = "nobody" /\ place' = Schema!NoPlace
                     /\ replica' = [replica EXCEPT ![holder].at = "serving"]
                ELSE /\ place'.direction = "up" /\ place'.revision = place.revision + 1 /\ place'.statement = 1
                     /\ place'.rows = FALSE /\ holder' = holder /\ replica' = replica
  <2>1. place.direction = "up"
    BY <1>2, <1>9
  <2>2. /\ work.version = place.revision - 1 /\ types_left' = types_left
        /\ db' = IF place.revision = Image(holder) \/ database = "sqlite" THEN work' ELSE db
    BY <1>4, <2>1 DEF Schema!Stamp
  <2>3. CASE place.revision = Image(holder)
    BY <2>1, <2>2, <2>3 DEF Schema!Stamp
  <2>4. CASE place.revision # Image(holder)
    <3>1. place' = [place EXCEPT !.revision = @ + 1, !.statement = 1, !.rows = FALSE] /\ holder' = holder /\ replica' = replica
      BY <2>1, <2>4 DEF Schema!Stamp
    <3>2. /\ place'.direction = "up" /\ place'.revision = place.revision + 1 /\ place'.statement = 1
          /\ place'.rows = FALSE
      BY <1>8, <2>1, <3>1
    <3> QED BY <2>2, <2>4, <3>1, <3>2
  <2> QED BY <2>3, <2>4
<1>10. ASSUME holder \notin Replicas
       PROVE  /\ db' = work'
              /\ types_left' = types_left \cup ((work.schema \cap Schema!Types) \ Schema!SchemaAt[place.revision - 1])
              /\ holder' = "nobody" /\ place' = Schema!NoPlace /\ replica' = replica
  <2>1. place.direction # "up"
    BY <1>2, <1>10
  <2>2. db' = work' /\ holder' = "nobody" /\ place' = Schema!NoPlace /\ replica' = replica
    BY <1>4, <2>1 DEF Schema!Stamp
  <2>3. types_left' = types_left \cup ((work'.schema \cap Schema!Types) \ Schema!SchemaAt[work'.version])
    BY <1>4, <2>1 DEF Schema!Stamp
  <2> QED BY <1>5, <2>1, <2>2, <2>3
<1>11. place.statement > Len(Steps) /\ UNCHANGED <<database, broken>>
  BY <1>2 DEF Schema!Stamp
<1> QED BY <1>1, <1>2, <1>5, <1>7, <1>9, <1>10, <1>11

(* The last revision of the image: the container serves. *)
LEMMA SchemaServed ==
    ASSUME SchemaInv, Schema!Stamp, holder \in Replicas, place.revision = Image(holder)
    PROVE  SchemaInv'
<1>1. /\ holder # "nobody" /\ place.statement > Len(Steps)
      /\ UNCHANGED <<database, broken, types_left>>
      /\ work'.schema = work.schema /\ work'.email = work.email /\ work' \in Data
      /\ work.version = place.revision - 1 /\ work'.version = place.revision /\ db' = work'
      /\ holder' = "nobody" /\ place' = Schema!NoPlace
      /\ replica' = [replica EXCEPT ![holder].at = "serving"]
  BY Stamps
<1>2. /\ replica \in [Replicas -> Container] /\ replica' \in [Replicas -> Container]
      /\ replica'[holder].at = "serving"
      /\ \A q \in Replicas : q # holder => replica'[q] = replica[q]
  BY <1>1, ZenonT(40) DEF SchemaInv, SchemaTypeOK, Container
<1>3. "nobody" \notin Replicas /\ "operator" \notin Replicas /\ place.revision \in 1..18
  BY <1>1, Holding, ReplicasAssumption DEF Schema!Operator
<1>4. SchemaTypeOK'
  BY <1>1, <1>2 DEF SchemaInv, SchemaTypeOK, Schema!NoPlace
<1>5. ASSUME NEW q \in Replicas
      PROVE  /\ replica'[q].at # "migrating"
             /\ replica'[q].at = "waiting" => replica'[q].from < Image(q)
             /\ replica'[q].at = "serving" => db'.version >= Image(q)
             /\ replica'[q].at = "failed" => replica'[q].excuse # "none"
  <2>1. CASE q = holder
    BY <1>1, <1>2, <1>3, <2>1
  <2>2. CASE q # holder
    <3>1. replica'[q] = replica[q] /\ replica[q].at # "migrating"
          /\ (replica[q].at = "waiting" => replica[q].from < Image(q))
          /\ (replica[q].at = "failed" => replica[q].excuse # "none")
      BY <1>2, <2>2 DEF SchemaInv, MovingInv
    <3>2. ASSUME replica[q].at = "serving" PROVE db'.version >= Image(q)
      <4>1. db.version >= Image(q) /\ db.version \in 0..18 /\ Image(q) \in 17..18
        BY <3>2, ImageIs DEF SchemaInv, SchemaTypeOK, MovingInv, Data
      <4>2. CASE database = "sqlite"
        BY <2>2, <3>2, <4>2 DEF SchemaInv, SqliteInv, MovingInv, Stopped
      <4>3. CASE database = "postgres"
        <5>1. place.revision - 1 >= db.version
          BY <1>1, <4>3 DEF SchemaInv, PostgresInv
        <5>2. db'.version = place.revision
          BY <1>1
        <5> QED BY <1>3, <4>1, <5>1, <5>2
      <4> QED BY <4>2, <4>3 DEF SchemaInv, SchemaTypeOK
    <3> QED BY <3>1, <3>2
  <2> QED BY <2>1, <2>2
<1>6. MovingInv'
  BY <1>1, <1>3, <1>5 DEF MovingInv
<1>7. EmailInv'
  <2>1. ASSUME place.revision >= 11 PROVE work.email # "old"
    <3>1. CASE place.revision = 11
      BY <1>1, <3>1, AtTheEnd
    <3>2. CASE place.revision # 11
      <4>1. work.version >= 11
        BY <1>1, <1>3, <2>1, <3>2
      <4> QED BY <1>3, <4>1 DEF SchemaInv, EmailInv
    <3> QED BY <3>1, <3>2
  <2> QED BY <1>1, <1>3, <2>1 DEF EmailInv
<1>8. (database = "postgres" => PostgresInv)'
  <2> SUFFICES ASSUME database = "postgres" PROVE PostgresInv'
    BY <1>1
  <2>1. Like(work.schema, Full(place.revision))
    BY <1>1, AtTheEnd DEF SchemaInv, PostgresInv
  <2> QED BY <1>1, <1>3, <2>1 DEF PostgresInv, Like
<1>9. (database = "sqlite" => SqliteInv)'
  <2> SUFFICES ASSUME database = "sqlite" PROVE SqliteInv'
    BY <1>1
  <2>0. SqliteInv
    BY DEF SchemaInv
  <2>1. \/ work.schema = On("sqlite", Full(place.revision))
        \/ broken /\ Later(work.schema, 10 * place.revision + 9)
    <3>1. CASE work.schema = On("sqlite", Stage(Stands))
      BY <1>1, <3>1, AtTheEnd
    <3>2. CASE broken /\ Later(db.schema \cap work.schema, Stands)
      <4>1. Later(work.schema, Stands)
        BY <3>2 DEF Later
      <4>2. Later(work.schema, 10 * place.revision + Len(Up(place.revision)))
        BY <1>1, <4>1, AtTheEnd
      <4> QED BY <1>3, <3>2, <4>2, NoneBetween
    <3> QED BY <2>0, <3>1, <3>2 DEF SqliteInv
  <2>2. \A p, q \in Replicas : replica'[p].at \notin Stopped /\ replica'[q].at \notin Stopped => p = q
    <3>1. replica[holder].at \notin Stopped
      BY <1>1 DEF SchemaInv, MovingInv, Stopped
    <3>2. \A q \in Replicas : replica'[q].at \notin Stopped => replica[q].at \notin Stopped
      BY <1>2, <3>1
    <3> QED BY <2>0, <3>2 DEF SqliteInv
  <2>3. \A q \in Replicas : replica'[q].at # "waiting"
    <3>1. replica[holder].at \notin Stopped
      BY <1>1 DEF SchemaInv, MovingInv, Stopped
    <3>2. \A q \in Replicas : q # holder => replica[q].at \in Stopped
      BY <2>0, <3>1 DEF SqliteInv
    <3> QED BY <1>2, <3>2 DEF Stopped
  <2> QED BY <1>1, <1>3, <2>1, <2>2, <2>3 DEF SqliteInv
<1> QED BY <1>4, <1>6, <1>7, <1>8, <1>9 DEF SchemaInv

(* Another revision is next. *)
LEMMA SchemaAdvances ==
    ASSUME SchemaInv, Schema!Stamp, holder \in Replicas, place.revision # Image(holder)
    PROVE  SchemaInv'
<1>1. /\ holder # "nobody" /\ place.statement > Len(Steps)
      /\ UNCHANGED <<database, broken, types_left, holder, replica>>
      /\ work'.schema = work.schema /\ work'.email = work.email /\ work' \in Data
      /\ work.version = place.revision - 1 /\ work'.version = place.revision
      /\ db' = IF database = "sqlite" THEN work' ELSE db
      /\ place'.direction = "up" /\ place'.revision = place.revision + 1 /\ place'.statement = 1
      /\ place'.rows = FALSE
  BY Stamps
<1> DEFINE rev == place.revision
<1>2. rev \in 1..17 /\ rev + 1 \in 1..18 /\ rev + 1 <= Image(holder)
  <2>1. rev \in 1..18 /\ rev <= Image(holder) /\ Image(holder) \in 17..18
    BY <1>1, Holding, ImageIs DEF SchemaInv, MovingInv
  <2> QED BY <2>1
<1>3. "nobody" \notin Replicas /\ "operator" \notin Replicas
  BY ReplicasAssumption DEF Schema!Operator
<1>4. db \in Data /\ db' \in Data /\ database \in {"sqlite", "postgres"}
  BY <1>1 DEF SchemaInv, SchemaTypeOK
<1>5. place' \in [direction : {"up", "down"}, revision : 0..18, statement : Nat, rows : BOOLEAN]
  <2>1. place' = [place EXCEPT !.revision = @ + 1, !.statement = 1, !.rows = FALSE]
    <3>1. place.direction = "up"
      BY <1>1, Holding
    <3> QED BY <3>1 DEF Schema!Stamp
  <2>2. place \in [direction : {"up", "down"}, revision : 0..18, statement : Nat, rows : BOOLEAN]
    BY DEF SchemaInv, SchemaTypeOK
  <2>3. rev + 1 \in 0..18
    BY <1>2
  <2> QED BY <2>1, <2>2, <2>3
<1> HIDE DEF rev
<1>6. SchemaTypeOK'
  <2>1. Steps' = Up(rev + 1)
    BY <1>1 DEF Steps, rev
  <2>2. 1 \in 1..(Len(Up(rev + 1)) + 1)
    <3>1. Len(Up(rev + 1)) \in 1..9
      BY <1>2, Revised DEF Numbers
    <3> QED BY <3>1
  <2> QED BY <1>1, <1>2, <1>4, <1>5, <2>1, <2>2 DEF SchemaInv, SchemaTypeOK, rev
<1>7. database = "sqlite" => \A q \in Replicas : replica[q].at = "migrating" \/ replica[q].at \in Stopped
  BY <1>1 DEF SchemaInv, SqliteInv, MovingInv, Stopped
<1>8. MovingInv'
  <2>1. \A q \in Replicas : replica[q].at = "serving" => db'.version >= Image(q)
    BY <1>1, <1>7 DEF SchemaInv, MovingInv, Stopped
  <2> QED BY <1>1, <1>2, <1>3, <2>1 DEF SchemaInv, MovingInv, rev
<1>9. EmailInv'
  <2>1. ASSUME rev >= 11 PROVE work.email # "old"
    <3>1. CASE rev = 11
      BY <1>1, <3>1, AtTheEnd DEF rev
    <3>2. CASE rev # 11
      <4>1. work.version >= 11
        BY <1>1, <1>2, <2>1, <3>2 DEF rev
      <4> QED BY <1>3, <4>1 DEF SchemaInv, EmailInv
    <3> QED BY <3>1, <3>2
  <2>2. ~(1 > 1)
    OBVIOUS
  <2> QED BY <1>1, <1>4, <2>1, <2>2 DEF SchemaInv, EmailInv, rev
<1>10. Stands' = 10 * (rev + 1) /\ (rev + 1) - 1 = rev
  BY <1>1, <1>2, SMTT(30) DEF Stands, rev
<1>11. Stage(Stands) = Full(rev) /\ Stage(10 * (rev + 1)) = Full(rev)
  BY <1>1, <1>2, <1>10, AtTheEnd, Between DEF rev
<1>12. (database = "postgres" => PostgresInv)'
  <2> SUFFICES ASSUME database = "postgres" PROVE PostgresInv'
    BY <1>1
  <2>0. PostgresInv /\ db' = db
    BY <1>1 DEF SchemaInv
  <2>1. Like(work.schema, Full(rev))
    BY <1>1, <1>11, <2>0 DEF PostgresInv
  <2>2. rev >= db.version
    <3>1. rev - 1 >= db.version /\ db.version \in 0..18
      BY <1>1, <1>4, <2>0 DEF PostgresInv, rev, Data
    <3> QED BY <1>2, <3>1
  <2> QED BY <1>1, <1>3, <1>10, <1>11, <2>0, <2>1, <2>2 DEF PostgresInv, Like, rev
<1>13. (database = "sqlite" => SqliteInv)'
  <2> SUFFICES ASSUME database = "sqlite" PROVE SqliteInv'
    BY <1>1
  <2>0. SqliteInv
    BY DEF SchemaInv
  <2>1. \/ work.schema = On("sqlite", Stage(10 * (rev + 1)))
        \/ broken /\ Later(work.schema, 10 * (rev + 1))
    <3>1. CASE work.schema = On("sqlite", Stage(Stands))
      BY <1>11, <3>1
    <3>2. CASE broken /\ Later(db.schema \cap work.schema, Stands)
      <4>1. Later(work.schema, Stands)
        BY <3>2 DEF Later
      <4>2. Later(work.schema, 10 * rev + Len(Up(rev)))
        BY <1>1, <4>1, AtTheEnd DEF rev
      <4>3. Later(work.schema, 10 * rev + 9)
        <5>1. rev \in 1..18
          BY <1>2
        <5> QED BY <4>2, <5>1, NoneBetween
      <4>4. PICK o \in work.schema : o \in Objects \ Schema!Types /\ Born[o] > 10 * rev + 9
        BY <4>3 DEF Later
      <4>5. Born[o] > 10 * (rev + 1)
        <5>1. PICK u \in 1..18, k \in 1..9 : Born[o] = 10 * u + k
          BY <4>4, Placed
        <5> QED BY <1>2, <4>4, <5>1
      <4> QED BY <3>2, <4>4, <4>5 DEF Later
    <3> QED BY <2>0, <3>1, <3>2 DEF SqliteInv
  <2>2. 0 \in 0..(1 - 1) /\ 10 * (rev + 1) + 0 = 10 * (rev + 1)
    BY <1>2
  <2>3. work.schema \cap work.schema = work.schema
    OBVIOUS
  <2>4. \/ /\ work.schema = On("sqlite", Stage(10 * (rev + 1)))
           /\ \E j \in 0..(1 - 1) : /\ work.schema = On("sqlite", Stage(10 * (rev + 1) + j))
                                    /\ rev + 1 = 11 => j = 0
        \/ broken /\ Later(work.schema \cap work.schema, 10 * (rev + 1))
    BY <2>1, <2>2, <2>3
  <2>5. \A q \in Replicas : replica[q].at # "waiting"
    BY <1>7 DEF Stopped
  <2>6. \A p, q \in Replicas : replica[p].at \notin Stopped /\ replica[q].at \notin Stopped => p = q
    BY <2>0 DEF SqliteInv
  <2> QED BY <1>1, <1>3, <1>10, <2>4, <2>5, <2>6 DEF SqliteInv, rev
<1> QED BY <1>6, <1>8, <1>9, <1>12, <1>13 DEF SchemaInv

(* A downgrade's stamp. *)
LEMMA SchemaReturned ==
    ASSUME SchemaInv, Schema!Stamp, holder \notin Replicas
    PROVE  SchemaInv'
<1> DEFINE rev == place.revision
<1>1. /\ holder # "nobody" /\ place.statement > Len(Steps)
      /\ UNCHANGED <<database, broken>>
      /\ work'.schema = work.schema /\ work'.email = work.email /\ work' \in Data
      /\ work'.version = rev - 1 /\ db' = work'
      /\ types_left' = types_left \cup ((work.schema \cap Schema!Types) \ Schema!SchemaAt[rev - 1])
      /\ holder' = "nobody" /\ place' = Schema!NoPlace /\ replica' = replica
  BY Stamps
<1>2. rev \in 1..18 /\ rev - 1 \in 0..18 /\ holder = "operator" /\ Steps = Back(rev)
      /\ work.version = rev /\ \A r \in Replicas : replica[r].at \in Stopped
  <2>1. rev \in 1..18 /\ holder = "operator" /\ Steps = Back(rev)
    BY <1>1, Holding
  <2> QED BY <2>1 DEF SchemaInv, MovingInv
<1>3. place.statement - 1 = Len(Back(rev))
  BY <1>1, <1>2, AtTheEnd
<1>4. "nobody" \notin Replicas /\ "operator" \notin Replicas /\ database \in {"sqlite", "postgres"}
  BY ReplicasAssumption DEF Schema!Operator, SchemaInv, SchemaTypeOK
<1> HIDE DEF rev
<1>5. SchemaTypeOK'
  BY <1>1 DEF SchemaInv, SchemaTypeOK, Schema!NoPlace
<1>6. MovingInv'
  BY <1>1, <1>2, <1>4 DEF SchemaInv, MovingInv, Stopped
<1>7. EmailInv'
  <2>1. ASSUME rev - 1 >= 11 PROVE work.email # "old"
    <3>1. work.version >= 11 /\ rev # 11
      BY <1>2, <2>1
    <3> QED BY <3>1 DEF SchemaInv, EmailInv, rev
  <2> QED BY <1>1, <1>4, <2>1 DEF EmailInv
<1> DEFINE R == Restored(rev, Len(Back(rev)))
           F == Full(rev - 1)
<1>8. F \subseteq R /\ R \ Schema!Types = F \ Schema!Types
  BY <1>2, DownEnds
<1>9. (database = "postgres" => PostgresInv)'
  <2> SUFFICES ASSUME database = "postgres" PROVE PostgresInv'
    BY <1>1
  <2>1. Like(work.schema, R)
    BY <1>2, <1>3 DEF SchemaInv, PostgresInv, rev
  <2>2. Schema!SchemaAt[rev - 1] = F
    BY <1>2, <1>4, SchemaAtIs, WithinObjects
  <2> HIDE DEF R, F
  <2>3. work.schema \ Schema!Types = F \ Schema!Types
    BY <1>8, <2>1 DEF Like
  <2>4. ASSUME types_left' = {} PROVE work.schema = F
    <3>1. work.schema = R
      BY <1>1, <2>1, <2>4 DEF Like
    <3>2. (work.schema \cap Schema!Types) \ F = {}
      BY <1>1, <2>2, <2>4
    <3> QED BY <1>8, <3>1, <3>2
  <2> QED BY <1>1, <1>4, <2>3, <2>4 DEF PostgresInv, Like, F
<1>10. (database = "sqlite" => SqliteInv)'
  <2> SUFFICES ASSUME database = "sqlite" PROVE SqliteInv'
    BY <1>1
  <2>0. SqliteInv
    BY DEF SchemaInv
  <2>1. \/ work.schema = On("sqlite", F)
        \/ broken /\ Later(work.schema, 10 * (rev - 1) + 9)
    <3>1. CASE work.schema = On("sqlite", R)
      <4> HIDE DEF R, F
      <4> QED BY <1>8, <3>1 DEF On
    <3>2. CASE broken /\ Later(db.schema \cap work.schema, 10 * rev + 9)
      <4>1. 10 * rev + 9 \in Nat /\ 10 * (rev - 1) + 9 \in Nat /\ 10 * (rev - 1) + 9 <= 10 * rev + 9
        BY <1>2
      <4>2. db.schema \cap work.schema \subseteq work.schema
        OBVIOUS
      <4> QED BY <3>2, <4>1, <4>2, LaterEarlier
    <3> QED BY <1>2, <1>3, <2>0, <3>1, <3>2 DEF SqliteInv, rev
  <2> QED BY <1>1, <1>2, <1>4, <2>1 DEF SqliteInv, Stopped
<1> QED BY <1>5, <1>6, <1>7, <1>9, <1>10 DEF SchemaInv

LEMMA SchemaStep == ASSUME SchemaInv, Schema!Next PROVE SchemaInv'
  BY SchemaBoots, SchemaAcquired, SchemaStops, SchemaRequested, SchemaDowngraded, SchemaExecutes, SchemaRefused,
     SchemaServed, SchemaAdvances, SchemaReturned DEF Schema!Next

LEMMA SchemaServes == SchemaInv => Schema!ServedOnItsSchema
<1> SUFFICES ASSUME SchemaInv PROVE Schema!ServedOnItsSchema
  OBVIOUS
<1>1. database \in {"sqlite", "postgres"} /\ db.version \in 0..18 /\ Schema!SchemaAt[db.version] = On(database, Full(db.version))
  BY SchemaAtIs DEF SchemaInv, SchemaTypeOK, Data
<1>2. ASSUME ~broken, database = "postgres" \/ holder = "nobody"
      PROVE  /\ db.schema \ Schema!Types = Schema!SchemaAt[db.version] \ Schema!Types
             /\ types_left = {} => db.schema = Schema!SchemaAt[db.version]
  <2>1. CASE database = "postgres"
    BY <1>1, <2>1, WithinObjects DEF SchemaInv, PostgresInv, Like
  <2>2. CASE database = "sqlite"
    <3>1. db.schema = On("sqlite", Full(db.version))
      BY <1>2, <2>2 DEF SchemaInv, SqliteInv
    <3> QED BY <1>1, <2>2, <3>1
  <2> QED BY <1>1, <2>1, <2>2
<1>3. ASSUME NEW r \in Replicas, replica[r].at = "serving"
      PROVE  /\ db.version >= Image(r)
             /\ Image(r) = Len(Schema!Revisions) /\ types_left = {} => db.schema = Schema!Existing(Schema!Models)
  <2>1. db.version >= Image(r)
    BY <1>3 DEF SchemaInv, MovingInv
  <2>2. ASSUME Image(r) = Len(Schema!Revisions), types_left = {} PROVE db.schema = Schema!Existing(Schema!Models)
    <3>1. Len(Schema!Revisions) = 18
      BY DEF Schema!Revisions
    <3>2. db.version = 18
      BY <1>1, <2>1, <2>2, <3>1
    <3>3. CASE database = "postgres"
      BY <2>2, <3>2, <3>3, LastIs DEF SchemaInv, PostgresInv, Like, Schema!Existing
    <3>4. CASE database = "sqlite"
      <4>1. SqliteInv
        BY <3>4 DEF SchemaInv
      <4>2. holder = "nobody"
        <5>1. holder \notin Replicas
          BY <1>3, <4>1 DEF SchemaInv, MovingInv, SqliteInv, Stopped
        <5>2. holder # "operator"
          BY <1>3 DEF SchemaInv, MovingInv, Stopped
        <5> QED BY <5>1, <5>2 DEF SchemaInv, SchemaTypeOK
      <4>3. ~Later(db.schema, 10 * 18 + 9)
        <5> SUFFICES ASSUME NEW o \in Objects PROVE ~(Born[o] > 10 * 18 + 9)
          BY DEF Later
        <5>1. PICK u \in 1..18, k \in 1..9 : Born[o] = 10 * u + k
          BY Placed
        <5> QED BY <5>1
      <4>4. db.schema = On("sqlite", Full(18))
        BY <3>2, <4>1, <4>2, <4>3 DEF SqliteInv
      <4> QED BY <3>4, <4>4, LastIs DEF On, Schema!Existing
    <3> QED BY <1>1, <3>3, <3>4
  <2> QED BY <2>1, <2>2
<1>4. \A r \in Replicas : replica[r].at = "failed" => replica[r].excuse # "none"
  BY DEF SchemaInv, MovingInv
<1>5. db.version >= 11 => db.email # "old"
  BY DEF SchemaInv, EmailInv
<1> QED BY <1>2, <1>3, <1>4, <1>5 DEF Schema!ServedOnItsSchema, Schema!Removed

(* Whatever containers boot at once, stop midway or are downgraded under,  *)
(* the committed schema is its version's and no container serves on less   *)
(* than its image's, the reserved email is healed, and a boot fails only   *)
(* for a reason (alembic/versions, docker-entrypoint.sh): of any number of *)
(* containers and downgrades.                                              *)
THEOREM ServedSchemaIsTheVersions == PlatformSpec => []ServedOnItsSchema
<1>1. SchemaInv /\ [PlatformNext]_allVars => SchemaInv'
  <2> SUFFICES ASSUME SchemaInv, [PlatformNext]_allVars PROVE SchemaInv'
    OBVIOUS
  <2>1. CASE Schema!Next
    BY <2>1, SchemaStep
  <2>2. CASE UNCHANGED schemaVars
    <3>1. SchemaTypeOK' /\ MovingInv' /\ EmailInv'
      BY <2>2 DEF schemaVars, SchemaInv, SchemaTypeOK, MovingInv, EmailInv, Steps
    <3>2. (database = "postgres" => PostgresInv)'
      BY <2>2 DEF schemaVars, SchemaInv, PostgresInv, Like, Stands
    <3>3. (database = "sqlite" => SqliteInv)'
      BY <2>2 DEF schemaVars, SchemaInv, SqliteInv, Stands
    <3> QED BY <3>1, <3>2, <3>3 DEF SchemaInv
  <2> QED BY <2>1, <2>2 DEF PlatformNext, allVars
<1>2. SchemaInv => Schema!ServedOnItsSchema
  BY SchemaServes
<1> QED BY <1>1, <1>2, SchemaInitial, PTL DEF PlatformSpec, ServedOnItsSchema
====
