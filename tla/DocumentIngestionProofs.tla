---- MODULE DocumentIngestionProofs ----
(***************************************************************************)
(* Proofs about DocumentIngestion, for every set of documents and of       *)
(* requests, every combination of faults, every bound, and databases that  *)
(* enforce foreign keys or not.                                            *)
(***************************************************************************)
EXTENDS DocumentIngestion, TLAPS

Statuses == {"none", "uploaded", "processing", "indexed", "failed", "deleted"}
Places == {"idle", "insert", "ingest", "claim", "extract", "flush", "upsert", "finish", "failed",
           "read_ids", "reindex", "delete", "remove_file", "forget"}
InHand == {"upsert", "finish"}

Work == [at: Places, op: {"upload", "reindex", "delete"}, doc: Documents \cup {Idle.doc},
         loaded: Statuses, batch: Nat, ids: Nat]

WorkTyped == /\ work \in [Workers -> Work]
             /\ \A w \in Workers : work[w].at # "idle" => work[w].doc \in Documents

(* Documents, rows and requests are well formed. *)
TypeOK ==
    /\ document \in [Documents -> Statuses]
    /\ rows \in [Documents -> Nat]
    /\ file \subseteq Documents
    /\ vectors \subseteq Documents \X (Nat \ {None})
    /\ WorkTyped
    /\ batches \in Nat
    /\ overlapped \cup contested \subseteq Documents
    /\ faults \subseteq Faults

(* A batch that was made and is in no request's hands: committed or lost,  *)
(* and never to be committed again.                                        *)
Spent(b) == b \in 1..batches /\ \A w \in Workers : work[w].at \in InHand => work[w].batch # b

(* What a request may rely on, whatever the others do meanwhile.           *)
WorkInv(w) ==
    LET d == work[w].doc
        at == work[w].at
        ids == work[w].ids IN
    /\ at = "insert" => document[d] = "none" /\ d \in file
    /\ at \notin {"idle", "insert"} => document[d] # "none"
    /\ at = "read_ids" => work[w].op # "upload"
    /\ at = "remove_file" => document[d] = "deleted"
    /\ at \in InHand => work[w].batch \in 1..batches
    /\ at = "finish" => <<d, work[w].batch>> \in vectors
    /\ ids # None => Spent(ids)
    /\ at \in {"remove_file", "forget"} /\ ids # None => rows[d] # ids

(* Nobody inserts the same document, nor holds the same batch.             *)
Apart ==
    \A v, w \in Workers :
        /\ work[v].at = "insert" /\ work[w].at = "insert" /\ work[v].doc = work[w].doc => v = w
        /\ work[v].at \in InHand /\ work[w].at \in InHand /\ work[v].batch = work[w].batch => v = w

DocInv(d) ==
    /\ Exists(d) => d \in file
    /\ rows[d] # None => Exists(d) /\ <<d, rows[d]>> \in vectors /\ Spent(rows[d])

IInv == /\ TypeOK
        /\ \A w \in Workers : WorkInv(w)
        /\ Apart
        /\ \A d \in Documents : DocInv(d)

(* A document that was never raced for has one request at a time.          *)
AtWork(w, d) == work[w].at # "idle" /\ work[w].doc = d

AloneWork(w) ==
    LET d == work[w].doc
        at == work[w].at IN
    /\ at \in {"claim", "extract", "flush", "upsert", "finish", "read_ids", "reindex", "delete"} => Exists(d)
    /\ at \in {"reindex", "delete"} => work[w].ids = rows[d]
    /\ at \in {"upsert", "finish", "remove_file", "forget"} => rows[d] = None

AloneInv(d) ==
    d \notin overlapped =>
        \A w \in Workers : AtWork(w, d) =>
            AloneWork(w) /\ \A v \in Workers : AtWork(v, d) => v = w

(* A vector is of the rows' batch, or of the one in a request's hands on   *)
(* its way in or out.                                                      *)
InHandsOf(w, b) ==
    \/ work[w].at = "finish" /\ work[w].batch = b
    \/ work[w].at \in {"remove_file", "forget"} /\ work[w].ids = b

Claimed(d, b) == rows[d] = b \/ \E w \in Workers : AtWork(w, d) /\ InHandsOf(w, b)

VectorsInv(d) ==
    faults \subseteq {"file"} /\ d \notin overlapped => \A v \in vectors : v[1] = d => Claimed(d, v[2])

AloneInvs == \A d \in Documents : AloneInv(d) /\ VectorsInv(d)

IInvAlone == IInv /\ AloneInvs

(* A document that was never contested has one ingestion at a time, which  *)
(* finds the status where it left it, or the document deleted.             *)
Claimers == {"extract", "flush", "upsert", "finish", "failed"}
Ingests == {"insert", "ingest", "claim"} \cup Claimers

OpInv(w) == /\ work[w].at \in Ingests => work[w].op # "delete"
            /\ work[w].at = "reindex" => work[w].op = "reindex"

StatusInv(w) ==
    LET d == work[w].doc
        at == work[w].at IN
    /\ at \in {"read_ids", "reindex"} => document[d] \in {work[w].loaded, "deleted"}
    /\ at = "claim" => document[d] \in {"uploaded", "deleted"}
    /\ at \in Claimers => document[d] \in {"processing", "deleted"}

Indexed(d) == rows[d] # None <=> document[d] = "indexed"

IngestsAt(w, d) == AtWork(w, d) /\ work[w].op # "delete"

SoleInv(d) ==
    d \notin contested =>
        /\ Indexed(d)
        /\ \A w \in Workers : IngestsAt(w, d) =>
              StatusInv(w) /\ \A v \in Workers : IngestsAt(v, d) => v = w

IngestInvs == /\ \A w \in Workers : OpInv(w)
              /\ \A d \in Documents : SoleInv(d)

IInvOne == IInv /\ IngestInvs

----------------------------------------------------------------------------
(* What a request's moves do to "work".                                    *)
LEMMA Moved ==
    ASSUME TypeOK, NEW w \in Workers, NEW a \in Places \ {"idle"}, work[w].at # "idle", Goto(w, a)
    PROVE  /\ WorkTyped' /\ work'[w].at = a
           /\ work'[w].op = work[w].op /\ work'[w].doc = work[w].doc /\ work'[w].loaded = work[w].loaded
           /\ work'[w].batch = work[w].batch /\ work'[w].ids = work[w].ids
           /\ \A v \in Workers : v # w => work'[v] = work[v]
<1> DEFINE new == [work[w] EXCEPT !.at = a]
<1>1. work[w] \in Work /\ work[w].doc \in Documents
  BY DEF TypeOK, WorkTyped
<1>2. /\ new \in Work /\ new.at = a /\ new.op = work[w].op /\ new.doc = work[w].doc
      /\ new.loaded = work[w].loaded /\ new.batch = work[w].batch /\ new.ids = work[w].ids
  BY <1>1, SMT DEF Work
<1>3. work' = [work EXCEPT ![w] = new]
  BY DEF Goto
<1> HIDE DEF new
<1>4. work' \in [Workers -> Work] /\ work'[w] = new /\ \A v \in Workers : v # w => work'[v] = work[v]
  BY <1>2, <1>3 DEF TypeOK, WorkTyped
<1> QED BY <1>1, <1>2, <1>4 DEF TypeOK, WorkTyped

LEMMA IdleIsIdle == Idle \in Work /\ Idle.at = "idle" /\ Idle.ids = None
  BY SMT DEF Idle, Work, Places, Statuses, None

LEMMA Ended ==
    ASSUME TypeOK, NEW w \in Workers, Done(w)
    PROVE  /\ WorkTyped' /\ work'[w].at = "idle" /\ work'[w].ids = None
           /\ \A v \in Workers : v # w => work'[v] = work[v]
  BY IdleIsIdle DEF Done, TypeOK, WorkTyped

LEMMA BatchTaken ==
    ASSUME TypeOK, NEW w \in Workers, work[w].at # "idle", NEW b \in Nat,
           work' = [work EXCEPT ![w].at = "upsert", ![w].batch = b]
    PROVE  /\ WorkTyped' /\ work'[w].at = "upsert" /\ work'[w].batch = b
           /\ work'[w].op = work[w].op /\ work'[w].doc = work[w].doc /\ work'[w].ids = work[w].ids
           /\ \A v \in Workers : v # w => work'[v] = work[v]
<1> DEFINE y == [work[w] EXCEPT !.at = "upsert"]
           new == [y EXCEPT !.batch = b]
<1>1. work[w] \in Work /\ work[w].doc \in Documents
  BY DEF TypeOK, WorkTyped
<1>2. y \in Work /\ y.at = "upsert" /\ y.op = work[w].op /\ y.doc = work[w].doc /\ y.ids = work[w].ids
  BY <1>1, SMT DEF Work, Places
<1>3. work' = [work EXCEPT ![w] = new]
  BY Zenon
<1> HIDE DEF y
<1>4. /\ new \in Work /\ new.at = "upsert" /\ new.batch = b /\ new.op = work[w].op
      /\ new.doc = work[w].doc /\ new.ids = work[w].ids
  BY <1>2, SMT DEF Work
<1> HIDE DEF new
<1>5. work' \in [Workers -> Work] /\ work'[w] = new /\ \A v \in Workers : v # w => work'[v] = work[v]
  BY <1>3, <1>4 DEF TypeOK, WorkTyped
<1> QED BY <1>1, <1>4, <1>5 DEF TypeOK, WorkTyped

LEMMA IdsRead ==
    ASSUME TypeOK, NEW w \in Workers, work[w].at # "idle", NEW a \in Places \ {"idle"}, NEW i \in Nat,
           work' = [work EXCEPT ![w].at = a, ![w].ids = i]
    PROVE  /\ WorkTyped' /\ work'[w].at = a /\ work'[w].ids = i
           /\ work'[w].op = work[w].op /\ work'[w].doc = work[w].doc /\ work'[w].loaded = work[w].loaded
           /\ \A v \in Workers : v # w => work'[v] = work[v]
<1> DEFINE y == [work[w] EXCEPT !.at = a]
           new == [y EXCEPT !.ids = i]
<1>1. work[w] \in Work /\ work[w].doc \in Documents
  BY DEF TypeOK, WorkTyped
<1>2. y \in Work /\ y.at = a /\ y.op = work[w].op /\ y.doc = work[w].doc /\ y.loaded = work[w].loaded
  BY <1>1, SMT DEF Work
<1>3. work' = [work EXCEPT ![w] = new]
  BY Zenon
<1> HIDE DEF y
<1>4. /\ new \in Work /\ new.at = a /\ new.ids = i /\ new.op = work[w].op
      /\ new.doc = work[w].doc /\ new.loaded = work[w].loaded
  BY <1>2, SMT DEF Work
<1> HIDE DEF new
<1>5. work' \in [Workers -> Work] /\ work'[w] = new /\ \A v \in Workers : v # w => work'[v] = work[v]
  BY <1>3, <1>4 DEF TypeOK, WorkTyped
<1> QED BY <1>1, <1>4, <1>5 DEF TypeOK, WorkTyped

LEMMA Saves ==
    ASSUME TypeOK, NEW w \in Workers, NEW d \in Documents, SaveFile(w, d)
    PROVE  /\ WorkTyped' /\ work'[w].at = "insert" /\ work'[w].doc = d /\ work'[w].ids = None
           /\ work'[w].op = "upload"
           /\ \A v \in Workers : v # w => work'[v] = work[v]
<1> DEFINE y == [Idle EXCEPT !.at = "insert"]
           new == [y EXCEPT !.doc = d]
<1>0. Idle.op = "upload"
  BY DEF Idle
<1>1. y \in Work /\ y.at = "insert" /\ y.ids = None /\ y.op = "upload"
  BY <1>0, IdleIsIdle, SMT DEF Work, Places
<1>2. work' = [work EXCEPT ![w] = new]
  BY Zenon DEF SaveFile
<1> HIDE DEF y
<1>3. new \in Work /\ new.at = "insert" /\ new.doc = d /\ new.ids = None /\ new.op = "upload"
  BY <1>1, SMT DEF Work
<1> HIDE DEF new
<1>4. work' \in [Workers -> Work] /\ work'[w] = new /\ \A v \in Workers : v # w => work'[v] = work[v]
  BY <1>2, <1>3 DEF TypeOK, WorkTyped
<1> QED BY <1>3, <1>4 DEF TypeOK, WorkTyped

LEMMA Loads ==
    ASSUME TypeOK, NEW w \in Workers, NEW d \in Documents, NEW o \in {"reindex", "delete"}, Load(w, d, o)
    PROVE  /\ WorkTyped' /\ work'[w].at = "read_ids" /\ work'[w].op = o /\ work'[w].doc = d
           /\ work'[w].loaded = document[d] /\ work'[w].ids = None
           /\ \A v \in Workers : v # w => work'[v] = work[v]
<1> DEFINE x == [Idle EXCEPT !.at = "read_ids"]
           y == [x EXCEPT !.op = o]
           z == [y EXCEPT !.doc = d]
           new == [z EXCEPT !.loaded = document[d]]
<1>1. x \in Work /\ x.at = "read_ids" /\ x.ids = None
  BY IdleIsIdle, SMT DEF Work, Places
<1>2. work' = [work EXCEPT ![w] = new]
  BY Zenon DEF Load
<1> HIDE DEF x
<1>3. y \in Work /\ y.at = "read_ids" /\ y.ids = None /\ y.op = o
  BY <1>1, SMT DEF Work
<1> HIDE DEF y
<1>4. z \in Work /\ z.at = "read_ids" /\ z.ids = None /\ z.op = o /\ z.doc = d
  BY <1>3, SMT DEF Work
<1> HIDE DEF z
<1>5. document[d] \in Statuses
  BY DEF TypeOK
<1>6. /\ new \in Work /\ new.at = "read_ids" /\ new.ids = None /\ new.op = o /\ new.doc = d
      /\ new.loaded = document[d]
  BY <1>4, <1>5, SMT DEF Work
<1> HIDE DEF new
<1>7. work' \in [Workers -> Work] /\ work'[w] = new /\ \A v \in Workers : v # w => work'[v] = work[v]
  BY <1>2, <1>6 DEF TypeOK, WorkTyped
<1> QED BY <1>6, <1>7 DEF TypeOK, WorkTyped
----------------------------------------------------------------------------
(* A step of one request at one document, as the others see it.            *)
StoresKept(w, d) ==
    /\ document' \in [Documents -> Statuses] /\ rows' \in [Documents -> Nat]
    /\ file' \subseteq Documents /\ vectors' \subseteq Documents \X (Nat \ {None})
    /\ overlapped' \cup contested' \subseteq Documents /\ faults' \subseteq Faults
    /\ \A c \in Documents : c # d =>
          document'[c] = document[c] /\ rows'[c] = rows[c] /\ (c \in file => c \in file')
    /\ document[d] # "none" => document'[d] # "none"
    /\ document[d] = "none" /\ document'[d] # "none" => work[w].at = "insert"
    /\ document[d] = "deleted" => document'[d] = "deleted"
    /\ d \in file /\ d \notin file' =>
          document[d] = "deleted" \/ (document[d] = "none" /\ work[w].at = "insert")
    /\ \A v \in vectors : v \notin vectors' =>
          v = <<d, work[w].ids>> /\ work[w].ids # None /\ rows[d] # work[w].ids
    /\ rows'[d] \in {rows[d], None} \/ (work[w].at = "finish" /\ rows'[d] = work[w].batch)

WorkKept(w, d) ==
    /\ WorkTyped' /\ batches' \in Nat /\ batches' >= batches
    /\ \A v \in Workers : v # w => work'[v] = work[v]
    /\ work[w].at # "idle" => work[w].doc = d
    /\ work'[w].at # "idle" => work'[w].doc = d
    /\ work'[w].at = "insert" => d \notin file
    /\ work'[w].at \in InHand =>
          /\ work'[w].batch \in 1..batches'
          /\ \/ work'[w].batch > batches
             \/ work[w].at \in InHand /\ work'[w].batch = work[w].batch

(* A batch once spent stays spent.                                         *)
LEMMA StaysSpent ==
    ASSUME TypeOK, NEW w \in Workers, NEW d \in Documents, WorkKept(w, d), NEW b, Spent(b)
    PROVE  Spent(b)'
<1>1. b \in Nat /\ b >= 1 /\ b <= batches /\ b \in 1..batches'
  BY DEF Spent, WorkKept, TypeOK
<1>2. ASSUME NEW v \in Workers, work'[v].at \in InHand, work'[v].batch = b PROVE FALSE
  <2>1. CASE v = w
    <3>1. ~(work'[w].batch > batches)
      BY <1>1, <1>2, <2>1 DEF TypeOK
    <3>2. work[w].at \in InHand /\ work'[w].batch = work[w].batch
      BY <1>2, <2>1, <3>1 DEF WorkKept
    <3> QED BY <1>2, <2>1, <3>2 DEF Spent
  <2>2. CASE v # w
    BY <1>2, <2>2 DEF WorkKept, Spent
  <2> QED BY <2>1, <2>2
<1> QED BY <1>1, <1>2 DEF Spent

LEMMA StaysApart ==
    ASSUME IInv, NEW w \in Workers, NEW d \in Documents, WorkKept(w, d)
    PROVE  Apart'
<1>1. ASSUME NEW v \in Workers, v # w, work'[w].at = "insert", work'[v].at = "insert",
             work'[v].doc = work'[w].doc
      PROVE FALSE
  <2>1. work[v].at = "insert" /\ work[v].doc = d /\ d \notin file
    BY <1>1 DEF WorkKept
  <2> QED BY <2>1 DEF IInv, WorkInv
<1>2. ASSUME NEW v \in Workers, v # w, work'[w].at \in InHand, work'[v].at \in InHand,
             work'[v].batch = work'[w].batch
      PROVE FALSE
  <2>1. work[v].at \in InHand /\ work[v].batch = work'[w].batch
    BY <1>2 DEF WorkKept
  <2>2. work[v].batch \in 1..batches
    BY <2>1 DEF IInv, WorkInv
  <2>3. work[w].at \in InHand /\ work'[w].batch = work[w].batch
    BY <1>2, <2>1, <2>2 DEF WorkKept, IInv, TypeOK
  <2> QED BY <1>2, <2>1, <2>3 DEF IInv, Apart
<1>3. ASSUME NEW u \in Workers, NEW v \in Workers, u # w, v # w
      PROVE  /\ work'[u].at = "insert" /\ work'[v].at = "insert" /\ work'[u].doc = work'[v].doc => u = v
             /\ work'[u].at \in InHand /\ work'[v].at \in InHand /\ work'[u].batch = work'[v].batch => u = v
  BY <1>3 DEF WorkKept, IInv, Apart
<1> QED BY <1>1, <1>2, <1>3 DEF Apart

(* What another request relies on is still so.                             *)
LEMMA OtherRequests ==
    ASSUME IInv, NEW w \in Workers, NEW d \in Documents, StoresKept(w, d), WorkKept(w, d),
           NEW v \in Workers, v # w
    PROVE  WorkInv(v)'
<1> DEFINE c == work[v].doc
<1>0. work'[v] = work[v] /\ WorkInv(v) /\ WorkInv(w) /\ TypeOK
  BY DEF WorkKept, IInv, TypeOK
<1>1. work[v].at # "idle" => c \in Documents
  BY <1>0 DEF TypeOK, WorkTyped
<1>2. work[v].at = "insert" => document'[c] = "none" /\ c \in file'
  <2> SUFFICES ASSUME work[v].at = "insert" PROVE document'[c] = "none" /\ c \in file'
    OBVIOUS
  <2>1. document[c] = "none" /\ c \in file /\ c \in Documents
    BY <1>0, <1>1 DEF WorkInv
  <2>2. CASE c # d
    BY <2>1, <2>2 DEF StoresKept
  <2>3. CASE c = d
    <3>1. work[w].at # "insert"
      BY <2>3 DEF IInv, Apart, WorkKept
    <3> QED BY <2>1, <2>3, <3>1 DEF StoresKept
  <2> QED BY <2>2, <2>3
<1>3. work[v].at \notin {"idle", "insert"} => document'[c] # "none"
  BY <1>0, <1>1 DEF WorkInv, StoresKept
<1>4. work[v].at = "remove_file" => document'[c] = "deleted"
  BY <1>0, <1>1 DEF WorkInv, StoresKept
<1>5. work[v].at \in InHand => work[v].batch \in 1..batches'
  BY <1>0 DEF WorkInv, WorkKept, TypeOK
<1>6. work[v].at = "finish" => <<c, work[v].batch>> \in vectors'
  <2> SUFFICES ASSUME work[v].at = "finish", <<c, work[v].batch>> \notin vectors' PROVE FALSE
    OBVIOUS
  <2>1. <<c, work[v].batch>> \in vectors
    BY <1>0 DEF WorkInv
  <2>2. <<c, work[v].batch>> = <<d, work[w].ids>> /\ work[w].ids # None
    BY <2>1 DEF StoresKept
  <2>3. Spent(work[w].ids)
    BY <1>0, <2>2 DEF WorkInv
  <2> QED BY <2>2, <2>3 DEF Spent, InHand
<1>7. work[v].ids # None => Spent(work[v].ids)'
  BY <1>0, StaysSpent DEF WorkInv
<1>8. work[v].at \in {"remove_file", "forget"} /\ work[v].ids # None => rows'[c] # work[v].ids
  <2> SUFFICES ASSUME work[v].at \in {"remove_file", "forget"}, work[v].ids # None, rows'[c] = work[v].ids
               PROVE FALSE
    OBVIOUS
  <2>1. rows[c] # work[v].ids /\ Spent(work[v].ids) /\ c \in Documents
    BY <1>0, <1>1 DEF WorkInv
  <2>2. c = d /\ work[w].at = "finish" /\ rows'[d] = work[w].batch
    BY <2>1 DEF StoresKept
  <2> QED BY <2>1, <2>2 DEF Spent, InHand
<1> QED BY <1>0, <1>2, <1>3, <1>4, <1>5, <1>6, <1>7, <1>8 DEF WorkInv

LEMMA OtherDocuments ==
    ASSUME IInv, NEW w \in Workers, NEW d \in Documents, StoresKept(w, d), WorkKept(w, d),
           NEW c \in Documents, c # d
    PROVE  DocInv(c)'
<1>1. document'[c] = document[c] /\ rows'[c] = rows[c] /\ (c \in file => c \in file')
  BY DEF StoresKept
<1>2. <<c, rows[c]>> \in vectors => <<c, rows[c]>> \in vectors'
  BY DEF StoresKept
<1>3. ASSUME NEW b, Spent(b) PROVE Spent(b)'
  BY <1>3, StaysSpent DEF IInv
<1>4. Spent(rows[c]) => Spent(rows[c])'
  BY <1>1, <1>3 DEF Spent
<1> QED BY <1>1, <1>2, <1>4, Zenon DEF IInv, DocInv, Exists

(* What is left to show of a step: its own request and its own document.   *)
LEMMA Kept ==
    ASSUME IInv, NEW w \in Workers, NEW d \in Documents, StoresKept(w, d), WorkKept(w, d),
           WorkInv(w)', DocInv(d)'
    PROVE  IInv'
<1>1. TypeOK'
  BY DEF StoresKept, WorkKept, TypeOK
<1>2. \A v \in Workers : WorkInv(v)'
  BY OtherRequests
<1>3. \A c \in Documents : DocInv(c)'
  BY OtherDocuments
<1> QED BY <1>1, <1>2, <1>3, StaysApart DEF IInv

LEMMA SpentKept ==
    ASSUME IInv, NEW w \in Workers, NEW d \in Documents, WorkKept(w, d), NEW b, NEW c, c = b, Spent(b)
    PROVE  Spent(c)'
  BY StaysSpent DEF IInv

(* Requests that end, and requests that go on to their next place.         *)
LEMMA Ends ==
    ASSUME IInv, NEW w \in Workers, work[w].at # "idle", Done(w), UNCHANGED batches
    PROVE  /\ WorkKept(w, Doc(w)) /\ Doc(w) \in Documents /\ WorkInv(w)' /\ work'[w].at = "idle"
           /\ \A v \in Workers : v # w => work'[v] = work[v]
<1>1. TypeOK /\ WorkTyped' /\ work'[w].at = "idle" /\ work'[w].ids = None
      /\ \A v \in Workers : v # w => work'[v] = work[v]
  BY Ended DEF IInv
<1>2. WorkInv(w)'
  BY <1>1 DEF WorkInv, InHand
<1> QED BY <1>1, <1>2 DEF WorkKept, InHand, TypeOK, WorkTyped, Doc

LEMMA GoesOn ==
    ASSUME IInv, NEW w \in Workers, work[w].at # "idle", NEW a \in Places \ {"idle", "insert"}, Goto(w, a),
           a \in InHand => work[w].at \in InHand, UNCHANGED batches
    PROVE  /\ WorkKept(w, Doc(w)) /\ Doc(w) \in Documents /\ WorkInv(w) /\ work'[w].at = a
           /\ work'[w].op = work[w].op /\ work'[w].doc = Doc(w) /\ work'[w].loaded = work[w].loaded
           /\ work'[w].batch = work[w].batch /\ work'[w].ids = work[w].ids
           /\ \A v \in Workers : v # w => work'[v] = work[v]
<1>1. TypeOK /\ WorkInv(w)
  BY DEF IInv
<1>2. /\ WorkTyped' /\ work'[w].at = a
      /\ work'[w].op = work[w].op /\ work'[w].doc = work[w].doc /\ work'[w].loaded = work[w].loaded
      /\ work'[w].batch = work[w].batch /\ work'[w].ids = work[w].ids
      /\ \A v \in Workers : v # w => work'[v] = work[v]
  BY <1>1, Moved
<1>3. batches \in Nat /\ batches' = batches /\ work[w].doc \in Documents
  BY <1>1 DEF TypeOK, WorkTyped
<1>4. work'[w].at \in InHand =>
          /\ work'[w].batch \in 1..batches'
          /\ work[w].at \in InHand /\ work'[w].batch = work[w].batch
  BY <1>1, <1>2, <1>3 DEF WorkInv
<1>5. WorkKept(w, Doc(w))
  BY <1>2, <1>3, <1>4 DEF WorkKept, Doc
<1> QED BY <1>1, <1>2, <1>3, <1>5 DEF Doc

(* The stores are left alone.                                              *)
LEMMA Untouched ==
    ASSUME IInv, NEW w \in Workers, NEW d \in Documents, WorkKept(w, d), WorkInv(w)',
           UNCHANGED <<document, rows, file, vectors>>,
           overlapped' \cup contested' \subseteq Documents, faults' \subseteq Faults
    PROVE  IInv'
<1>1. StoresKept(w, d)
  BY DEF StoresKept, IInv, TypeOK
<1>2. rows[d] # None => Spent(rows[d])'
  BY SpentKept DEF IInv, DocInv
<1>3. DocInv(d)'
  BY <1>2, Zenon DEF IInv, DocInv, Exists
<1> QED BY <1>1, <1>3, Kept

----------------------------------------------------------------------------
(* Uploading and ingesting.                                                *)
LEMMA InvSaveFile ==
    ASSUME IInv, NEW w \in Workers, NEW d \in Documents, SaveFile(w, d)
    PROVE  IInv'
<1>1. /\ WorkTyped' /\ work'[w].at = "insert" /\ work'[w].doc = d /\ work'[w].ids = None
      /\ \A v \in Workers : v # w => work'[v] = work[v]
  BY Saves DEF IInv
<1>2. /\ work[w].at = "idle" /\ document[d] = "none" /\ d \notin file /\ file' = file \cup {d}
      /\ UNCHANGED <<document, rows, vectors, batches, overlapped, contested, faults>>
  BY DEF SaveFile, At
<1>3. WorkKept(w, d)
  BY <1>1, <1>2 DEF WorkKept, InHand, IInv, TypeOK
<1>4. StoresKept(w, d)
  BY <1>2 DEF StoresKept, IInv, TypeOK
<1>5. WorkInv(w)'
  BY <1>1, <1>2 DEF WorkInv, InHand
<1>6. DocInv(d)'
  BY <1>2 DEF DocInv, IInv, Exists
<1> QED BY <1>3, <1>4, <1>5, <1>6, Kept

LEMMA InvInsert ==
    ASSUME IInv, NEW w \in Workers, NEW d \in Documents, d = Doc(w), InsertDocument(w)
    PROVE  IInv'
<1>1. /\ work[w].at = "insert" /\ Goto(w, "ingest") /\ document' = [document EXCEPT ![d] = "uploaded"]
      /\ UNCHANGED <<rows, file, vectors, batches, overlapped, contested, faults>>
  BY DEF InsertDocument, At, SetStatus
<1>2. /\ WorkKept(w, d) /\ WorkInv(w) /\ work'[w].at = "ingest"
      /\ work'[w].doc = d /\ work'[w].ids = work[w].ids
  BY <1>1, GoesOn DEF Places, InHand
<1>3. document[d] = "none" /\ d \in file
  BY <1>1, <1>2 DEF WorkInv, Doc
<1>4. /\ document' \in [Documents -> Statuses] /\ document'[d] = "uploaded"
      /\ \A c \in Documents : c # d => document'[c] = document[c]
  BY <1>1, <1>2 DEF IInv, TypeOK, Statuses
<1>5. StoresKept(w, d)
  BY <1>1, <1>3, <1>4 DEF StoresKept, IInv, TypeOK
<1>6. work[w].ids # None => Spent(work[w].ids)'
  BY <1>2, SpentKept DEF WorkInv
<1>7. WorkInv(w)'
  BY <1>2, <1>4, <1>6 DEF WorkInv, InHand
<1>8. rows[d] = None
  BY <1>3 DEF IInv, DocInv, Exists
<1>9. DocInv(d)'
  BY <1>1, <1>3, <1>8 DEF DocInv
<1> QED BY <1>2, <1>5, <1>7, <1>9, Kept

(* A request goes on, and the stores are left alone.                       *)
LEMMA InvGoto ==
    ASSUME IInv, NEW w \in Workers, work[w].at \notin {"idle", "insert"},
           NEW a \in Places \ {"idle", "insert", "read_ids", "remove_file", "upsert", "finish"}, Goto(w, a),
           a = "forget" /\ work[w].ids # None => rows[Doc(w)] # work[w].ids,
           UNCHANGED <<document, rows, file, vectors, batches>>,
           overlapped' \cup contested' \subseteq Documents, faults' \subseteq Faults
    PROVE  IInv'
<1>1. /\ WorkKept(w, Doc(w)) /\ Doc(w) \in Documents /\ WorkInv(w) /\ work'[w].at = a
      /\ work'[w].doc = Doc(w) /\ work'[w].ids = work[w].ids
  BY GoesOn DEF InHand
<1>2. work[w].ids # None => Spent(work[w].ids)'
  BY <1>1, SpentKept DEF WorkInv
<1>3. WorkInv(w)'
  BY <1>1, <1>2 DEF WorkInv, InHand, Doc
<1> QED BY <1>1, <1>3, Untouched

LEMMA InvDone ==
    ASSUME IInv, NEW w \in Workers, work[w].at # "idle", Done(w),
           UNCHANGED <<document, rows, file, vectors, batches>>,
           overlapped' \cup contested' \subseteq Documents, faults' \subseteq Faults
    PROVE  IInv'
  BY Ends, Untouched

LEMMA InvAdmit ==
    ASSUME IInv, NEW w \in Workers, Admit(w)
    PROVE  IInv'
<1>1. /\ work[w].at = "ingest" /\ (Goto(w, "claim") \/ Done(w))
      /\ UNCHANGED <<document, rows, file, vectors, batches, overlapped, contested, faults>>
  BY DEF Admit, At
<1>2. overlapped' \cup contested' \subseteq Documents /\ faults' \subseteq Faults /\ work[w].at = "ingest"
  BY <1>1 DEF IInv, TypeOK, Admit, At
<1> QED BY <1>1, <1>2, InvGoto, InvDone DEF Places

LEMMA InvExtract ==
    ASSUME IInv, NEW w \in Workers, Extract(w)
    PROVE  IInv'
<1>1. /\ work[w].at = "extract" /\ UNCHANGED <<document, rows, file, vectors, batches, overlapped, contested, faults>>
      /\ \E a \in {"flush", "failed"} : Goto(w, a)
  BY DEF Extract, At
<1>2. overlapped' \cup contested' \subseteq Documents /\ faults' \subseteq Faults
  BY <1>1 DEF IInv, TypeOK
<1> QED BY <1>1, <1>2, InvGoto DEF Places

LEMMA InvFlushRefused ==
    ASSUME IInv, NEW w \in Workers, FlushRefused(w)
    PROVE  IInv'
<1>1. /\ work[w].at = "flush" /\ UNCHANGED <<document, rows, file, vectors, batches, overlapped, contested, faults>>
      /\ Goto(w, "failed")
  BY DEF FlushRefused, At
<1>2. overlapped' \cup contested' \subseteq Documents /\ faults' \subseteq Faults
  BY <1>1 DEF IInv, TypeOK
<1> QED BY <1>1, <1>2, InvGoto DEF Places

LEMMA InvMarkFailed ==
    ASSUME IInv, NEW w \in Workers, NEW d \in Documents, d = Doc(w), MarkFailed(w)
    PROVE  IInv'
<1>1. /\ work[w].at = "failed" /\ Done(w) /\ UNCHANGED <<rows, file, vectors, batches, overlapped, contested, faults>>
      /\ IF Exists(d) THEN document' = [document EXCEPT ![d] = "failed"] ELSE UNCHANGED document
  BY DEF MarkFailed, At, SetStatus
<1>2. WorkKept(w, d) /\ WorkInv(w)'
  BY <1>1, Ends
<1>3. CASE Exists(d)
  <2>1. /\ document' \in [Documents -> Statuses] /\ document'[d] = "failed"
        /\ \A c \in Documents : c # d => document'[c] = document[c]
        /\ document[d] \notin {"none", "deleted"}
    BY <1>1, <1>3 DEF IInv, TypeOK, Statuses, Exists
  <2>2. StoresKept(w, d)
    BY <1>1, <2>1 DEF StoresKept, IInv, TypeOK
  <2>3. rows[d] # None => Spent(rows[d])'
    BY <1>1, <1>2, SpentKept DEF IInv, DocInv
  <2>4. DocInv(d)'
    BY <1>1, <1>3, <2>1, <2>3, Zenon DEF IInv, DocInv, Exists
  <2> QED BY <1>2, <2>2, <2>4, Kept
<1>4. CASE ~Exists(d)
  BY <1>1, <1>4, InvDone DEF IInv, TypeOK
<1> QED BY <1>3, <1>4

LEMMA InvClaim ==
    ASSUME IInv, NEW w \in Workers, NEW d \in Documents, d = Doc(w), Claim(w)
    PROVE  IInv'
<1>1. /\ work[w].at = "claim" /\ UNCHANGED <<rows, file, vectors, batches, overlapped, contested, faults>>
      /\ IF Exists(d) THEN document' = [document EXCEPT ![d] = "processing"] /\ Goto(w, "extract")
                      ELSE Done(w) /\ UNCHANGED document
  BY DEF Claim, At, SetStatus
<1>2. CASE Exists(d)
  <2>1. /\ WorkKept(w, d) /\ WorkInv(w) /\ work'[w].at = "extract"
        /\ work'[w].doc = d /\ work'[w].ids = work[w].ids
    BY <1>1, <1>2, GoesOn DEF Places, InHand
  <2>2. /\ document' \in [Documents -> Statuses] /\ document'[d] = "processing"
        /\ \A c \in Documents : c # d => document'[c] = document[c]
        /\ document[d] \notin {"none", "deleted"}
    BY <1>1, <1>2 DEF IInv, TypeOK, Statuses, Exists
  <2>3. StoresKept(w, d)
    BY <1>1, <2>2 DEF StoresKept, IInv, TypeOK
  <2>4. work[w].ids # None => Spent(work[w].ids)'
    BY <2>1, SpentKept DEF WorkInv
  <2>5. WorkInv(w)'
    BY <2>1, <2>2, <2>4 DEF WorkInv, InHand
  <2>6. rows[d] # None => Spent(rows[d])'
    BY <1>1, <2>1, SpentKept DEF IInv, DocInv
  <2>7. DocInv(d)'
    BY <1>1, <1>2, <2>2, <2>6, Zenon DEF IInv, DocInv, Exists
  <2> QED BY <2>1, <2>3, <2>5, <2>7, Kept
<1>3. CASE ~Exists(d)
  BY <1>1, <1>3, InvDone DEF IInv, TypeOK
<1> QED BY <1>2, <1>3

LEMMA Flushes ==
    ASSUME IInv, NEW w \in Workers, NEW d \in Documents, d = Doc(w), FlushChunks(w)
    PROVE  /\ WorkKept(w, d) /\ work'[w].at = "upsert" /\ work'[w].batch = batches + 1
           /\ work'[w].doc = d /\ work'[w].ids = work[w].ids /\ work'[w].op = work[w].op
<1> DEFINE b == batches + 1
<1>1. /\ work[w].at = "flush" /\ batches' = b
      /\ work' = [work EXCEPT ![w].at = "upsert", ![w].batch = b]
      /\ UNCHANGED <<document, rows, file, vectors, overlapped, contested, faults>>
  BY DEF FlushChunks, At
<1>2. b \in Nat /\ b > batches /\ b \in 1..b /\ batches \in Nat /\ TypeOK /\ WorkInv(w)
  BY DEF IInv, TypeOK
<1>3. /\ WorkTyped' /\ work'[w].at = "upsert" /\ work'[w].batch = b
      /\ work'[w].doc = d /\ work'[w].ids = work[w].ids /\ work'[w].op = work[w].op
      /\ \A v \in Workers : v # w => work'[v] = work[v]
  BY <1>1, <1>2, BatchTaken DEF Doc
<1>a. work'[w].batch \in 1..batches' /\ work'[w].batch > batches /\ batches' \in Nat /\ batches' >= batches
  BY <1>1, <1>2, <1>3
<1>4. WorkKept(w, d)
  BY <1>1, <1>3, <1>a DEF WorkKept, Doc
<1> QED BY <1>3, <1>4

LEMMA InvFlushChunks ==
    ASSUME IInv, NEW w \in Workers, NEW d \in Documents, d = Doc(w), FlushChunks(w)
    PROVE  IInv'
<1>1. /\ work[w].at = "flush" /\ UNCHANGED <<document, rows, file, vectors, overlapped, contested, faults>>
  BY DEF FlushChunks, At
<1>2. TypeOK /\ WorkInv(w)
  BY DEF IInv
<1>3. /\ WorkKept(w, d) /\ work'[w].at = "upsert"
      /\ work'[w].doc = d /\ work'[w].ids = work[w].ids
  BY Flushes
<1>4. work'[w].batch \in 1..batches'
  BY <1>3 DEF WorkKept, InHand
<1>5. work[w].ids # None => Spent(work[w].ids)'
  BY <1>2, <1>3, SpentKept DEF WorkInv
<1>6. document[d] # "none"
  BY <1>1, <1>2 DEF WorkInv, Doc
<1>7. WorkInv(w)'
  BY <1>1, <1>3, <1>4, <1>5, <1>6 DEF WorkInv, InHand
<1> QED BY <1>1, <1>2, <1>3, <1>7, Untouched DEF TypeOK

LEMMA InvUpsert ==
    ASSUME IInv, NEW w \in Workers, NEW d \in Documents, d = Doc(w), Upsert(w)
    PROVE  IInv'
<1>1. /\ work[w].at = "upsert" /\ Goto(w, "finish") /\ vectors' = vectors \cup {<<d, work[w].batch>>}
      /\ UNCHANGED <<document, rows, file, batches, overlapped, contested, faults>>
  BY DEF Upsert, At
<1>2. /\ WorkKept(w, d) /\ WorkInv(w) /\ work'[w].at = "finish" /\ work'[w].batch = work[w].batch
      /\ work'[w].doc = d /\ work'[w].ids = work[w].ids
  BY <1>1, GoesOn DEF Places, InHand
<1>3. work[w].batch \in Nat \ {None} /\ document[d] # "none"
  BY <1>1, <1>2 DEF WorkInv, InHand, Doc, IInv, TypeOK, None
<1>4. StoresKept(w, d)
  BY <1>1, <1>3 DEF StoresKept, IInv, TypeOK
<1>5. work[w].ids # None => Spent(work[w].ids)'
  BY <1>2, SpentKept DEF WorkInv
<1>6. work'[w].batch \in 1..batches'
  BY <1>2 DEF WorkKept, InHand
<1>7. WorkInv(w)'
  BY <1>1, <1>2, <1>3, <1>5, <1>6 DEF WorkInv, InHand
<1>8. rows[d] # None => Spent(rows[d])'
  BY <1>1, <1>2, SpentKept DEF IInv, DocInv
<1>9. DocInv(d)'
  BY <1>1, <1>8, Zenon DEF IInv, DocInv, Exists
<1> QED BY <1>2, <1>4, <1>7, <1>9, Kept

LEMMA InvFinish ==
    ASSUME IInv, NEW w \in Workers, NEW d \in Documents, d = Doc(w), Finish(w)
    PROVE  IInv'
<1>1. /\ work[w].at = "finish" /\ Done(w) /\ UNCHANGED <<file, vectors, batches, overlapped, contested, faults>>
      /\ IF Exists(d) THEN /\ document' = [document EXCEPT ![d] = "indexed"]
                           /\ rows' = [rows EXCEPT ![d] = work[w].batch]
                      ELSE UNCHANGED <<document, rows>>
  BY DEF Finish, At, SetStatus
<1>2. /\ WorkKept(w, d) /\ WorkInv(w)' /\ work'[w].at = "idle" /\ WorkInv(w) /\ TypeOK
      /\ \A v \in Workers : v # w => work'[v] = work[v]
  BY <1>1, Ends DEF IInv
<1>3. CASE Exists(d)
  <2> DEFINE b == work[w].batch
  <2>1. b \in Nat /\ b \in 1..batches /\ b # None /\ <<d, b>> \in vectors
    BY <1>1, <1>2 DEF WorkInv, InHand, Doc, TypeOK, None
  <2>2. /\ document' \in [Documents -> Statuses] /\ document'[d] = "indexed"
        /\ \A c \in Documents : c # d => document'[c] = document[c]
        /\ document[d] \notin {"none", "deleted"}
        /\ rows' \in [Documents -> Nat] /\ rows'[d] = b
        /\ \A c \in Documents : c # d => rows'[c] = rows[c]
    BY <1>1, <1>2, <1>3, <2>1 DEF TypeOK, Statuses, Exists
  <2>3. StoresKept(w, d)
    BY <1>1, <1>2, <2>2 DEF StoresKept, TypeOK
  <2>4. ASSUME NEW v \in Workers, work'[v].at \in InHand PROVE work'[v].batch # b
    <3>1. v # w /\ work[v].at \in InHand /\ work'[v].batch = work[v].batch
      BY <1>2, <2>4 DEF InHand
    <3> QED BY <1>1, <3>1 DEF IInv, Apart, InHand
  <2>5. Spent(rows[d])'
    BY <1>1, <2>1, <2>2, <2>4 DEF Spent
  <2>6. d \in file
    BY <1>3 DEF IInv, DocInv
  <2>7. DocInv(d)'
    BY <1>1, <2>1, <2>2, <2>5, <2>6 DEF DocInv, Exists
  <2> QED BY <1>2, <2>3, <2>7, Kept
<1>4. CASE ~Exists(d)
  BY <1>1, <1>4, InvDone DEF IInv, TypeOK
<1> QED BY <1>3, <1>4

LEMMA InvPipelineFails ==
    ASSUME IInv, NEW w \in Workers, NEW d \in Documents, d = Doc(w), PipelineFails(w)
    PROVE  IInv'
<1>1. /\ work[w].at \in {"extract", "upsert"} /\ Goto(w, "failed")
      /\ \/ vectors' = vectors
         \/ work[w].at = "upsert" /\ vectors' = vectors \cup {<<d, work[w].batch>>}
      /\ UNCHANGED <<document, rows, file, batches, overlapped, contested>>
      /\ faults' \subseteq Faults
  BY DEF PipelineFails, Fault, At, IInv, TypeOK
<1>2. /\ WorkKept(w, d) /\ WorkInv(w) /\ work'[w].at = "failed"
      /\ work'[w].doc = d /\ work'[w].ids = work[w].ids /\ TypeOK
  BY <1>1, GoesOn DEF Places, InHand, IInv
<1>3. document[d] # "none" /\ (work[w].at = "upsert" => work[w].batch \in Nat \ {None})
  BY <1>1, <1>2 DEF WorkInv, InHand, Doc, TypeOK, None
<1>4. vectors' \subseteq Documents \X (Nat \ {None}) /\ vectors \subseteq vectors'
  BY <1>1, <1>2, <1>3 DEF TypeOK
<1>5. StoresKept(w, d)
  BY <1>1, <1>2, <1>4 DEF StoresKept, TypeOK
<1>6. work[w].ids # None => Spent(work[w].ids)'
  BY <1>2, SpentKept DEF WorkInv
<1>7. WorkInv(w)'
  BY <1>1, <1>2, <1>3, <1>6 DEF WorkInv, InHand
<1>8. rows[d] # None => Spent(rows[d])'
  BY <1>1, <1>2, SpentKept DEF IInv, DocInv
<1>9. DocInv(d)'
  BY <1>1, <1>4, <1>8, Zenon DEF IInv, DocInv, Exists
<1> QED BY <1>2, <1>5, <1>7, <1>9, Kept

----------------------------------------------------------------------------
(* Re-indexing and deleting.                                               *)
LEMMA InvLoad ==
    ASSUME IInv, NEW w \in Workers, NEW d \in Documents, NEW o \in {"reindex", "delete"}, Load(w, d, o)
    PROVE  IInv'
<1>1. /\ work[w].at = "idle" /\ Exists(d) /\ overlapped' \cup contested' \subseteq Documents
      /\ UNCHANGED <<document, rows, file, vectors, batches, faults>>
  BY DEF Load, At, NoteOverlap, NoteContest, IInv, TypeOK
<1>2. /\ WorkTyped' /\ work'[w].at = "read_ids" /\ work'[w].doc = d /\ work'[w].ids = None
      /\ work'[w].op # "upload"
      /\ \A v \in Workers : v # w => work'[v] = work[v]
  BY Loads DEF IInv
<1>3. WorkKept(w, d)
  BY <1>1, <1>2 DEF WorkKept, InHand, IInv, TypeOK
<1>4. WorkInv(w)'
  BY <1>1, <1>2 DEF WorkInv, InHand, Exists
<1> QED BY <1>1, <1>3, <1>4, Untouched DEF IInv, TypeOK


LEMMA Reads ==
    ASSUME IInv, NEW w \in Workers, NEW d \in Documents, d = Doc(w), ReadIds(w)
    PROVE  /\ WorkKept(w, d) /\ work'[w].at \in {"reindex", "delete"} /\ work'[w].at = work[w].op
           /\ work'[w].op = work[w].op /\ work'[w].loaded = work[w].loaded
           /\ work'[w].doc = d /\ work'[w].ids = rows[d]
<1>1. /\ work[w].at = "read_ids"
      /\ work' = [work EXCEPT ![w].at = work[w].op, ![w].ids = rows[d]]
      /\ UNCHANGED <<document, rows, file, vectors, batches, overlapped, contested, faults>>
  BY DEF ReadIds, At
<1>2. TypeOK /\ WorkInv(w) /\ rows[d] \in Nat
  BY DEF IInv, TypeOK
<1>3. work[w].op \in {"reindex", "delete"}
  BY <1>1, <1>2 DEF TypeOK, WorkTyped, Work, WorkInv
<1>4. /\ WorkTyped' /\ work'[w].at = work[w].op /\ work'[w].doc = d /\ work'[w].ids = rows[d]
      /\ work'[w].op = work[w].op /\ work'[w].loaded = work[w].loaded
      /\ \A v \in Workers : v # w => work'[v] = work[v]
  <2>1. ASSUME NEW o \in {"reindex", "delete"}, o = work[w].op, NEW i \in Nat, i = rows[d]
        PROVE  /\ WorkTyped' /\ work'[w].at = o /\ work'[w].ids = i
               /\ work'[w].op = work[w].op /\ work'[w].doc = work[w].doc /\ work'[w].loaded = work[w].loaded
               /\ \A v \in Workers : v # w => work'[v] = work[v]
    <3>1. work' = [work EXCEPT ![w].at = o, ![w].ids = i]
      BY <1>1, <2>1, Zenon
    <3>2. TypeOK /\ o \in Places \ {"idle"} /\ work[w].at # "idle"
      BY <1>1, <1>2 DEF Places
    <3> QED BY <3>1, <3>2, IdsRead, Zenon
  <2> QED BY <1>2, <1>3, <2>1, Zenon DEF Doc
<1>5. WorkKept(w, d)
  <2>1. work'[w].at \notin InHand \cup {"insert"} /\ work[w].doc = d
    BY <1>3, <1>4 DEF InHand, Doc
  <2>2. batches' \in Nat /\ batches' >= batches
    BY <1>1, <1>2 DEF TypeOK
  <2> QED BY <1>4, <2>1, <2>2 DEF WorkKept
<1> QED BY <1>3, <1>4, <1>5

LEMMA InvReadIds ==
    ASSUME IInv, NEW w \in Workers, NEW d \in Documents, d = Doc(w), ReadIds(w)
    PROVE  IInv'
<1>1. /\ work[w].at = "read_ids"
      /\ UNCHANGED <<document, rows, file, vectors, batches, overlapped, contested, faults>>
  BY DEF ReadIds, At
<1>2. TypeOK /\ WorkInv(w)
  BY DEF IInv
<1>3. /\ WorkKept(w, d) /\ work'[w].at \in {"reindex", "delete"}
      /\ work'[w].doc = d /\ work'[w].ids = rows[d]
  BY Reads
<1>4. rows[d] # None => Spent(work[w].ids)'
  BY <1>3, SpentKept DEF IInv, DocInv
<1>5. document[d] # "none"
  BY <1>1, <1>2 DEF WorkInv, Doc
<1>6. WorkInv(w)'
  BY <1>1, <1>3, <1>4, <1>5 DEF WorkInv, InHand
<1> QED BY <1>1, <1>2, <1>3, <1>6, Untouched DEF TypeOK

LEMMA InvTearDown ==
    ASSUME IInv, NEW w \in Workers, NEW d \in Documents, d = Doc(w), TearDown(w)
    PROVE  IInv'
<1>1. /\ work[w].at = "reindex" /\ rows' = [rows EXCEPT ![d] = None]
      /\ UNCHANGED <<file, vectors, batches, overlapped, contested, faults>>
      /\ \/ document' = [document EXCEPT ![d] = "uploaded"] /\ Exists(d)
         \/ UNCHANGED document
      /\ \/ Done(w)
         \/ Goto(w, "ingest")
         \/ Goto(w, "forget")
  BY Zenon DEF TearDown, At, SetStatus
<1>2. TypeOK /\ WorkInv(w) /\ document[d] # "none"
  BY <1>1 DEF IInv, WorkInv, Doc
<1>3. /\ document' \in [Documents -> Statuses] /\ (Exists(d) => Exists(d)')
      /\ \A c \in Documents : c # d => document'[c] = document[c]
      /\ document[d] = "deleted" => document'[d] = "deleted"
      /\ document'[d] # "none"
      /\ rows' \in [Documents -> Nat] /\ rows'[d] = None
      /\ \A c \in Documents : c # d => rows'[c] = rows[c]
  BY <1>1, <1>2 DEF TypeOK, Statuses, Exists, None
<1>4. StoresKept(w, d)
  BY <1>1, <1>2, <1>3 DEF StoresKept, TypeOK
<1>5. Exists(d)' => d \in file'
  BY <1>1, <1>2, <1>3 DEF IInv, DocInv, Exists
<1>6. DocInv(d)'
  BY <1>3, <1>5 DEF DocInv
<1>7. CASE Done(w)
  BY <1>1, <1>4, <1>6, <1>7, Ends, Kept
<1>8. ASSUME NEW a \in {"ingest", "forget"}, Goto(w, a) PROVE IInv'
  <2>1. /\ WorkKept(w, d) /\ work'[w].at = a /\ work'[w].doc = d /\ work'[w].ids = work[w].ids
    BY <1>1, <1>8, GoesOn DEF Places, InHand
  <2>2. work[w].ids # None => Spent(work[w].ids)'
    BY <1>2, <2>1, SpentKept DEF WorkInv
  <2>3. WorkInv(w)'
    BY <1>3, <1>8, <2>1, <2>2 DEF WorkInv, InHand
  <2> QED BY <1>4, <1>6, <2>1, <2>3, Kept
<1> QED BY <1>1, <1>7, <1>8

LEMMA InvDeleteRows ==
    ASSUME IInv, NEW w \in Workers, NEW d \in Documents, d = Doc(w), DeleteRows(w)
    PROVE  IInv'
<1>1. /\ work[w].at = "delete" /\ rows' = [rows EXCEPT ![d] = None] /\ Goto(w, "remove_file")
      /\ document' = [document EXCEPT ![d] = "deleted"]
      /\ UNCHANGED <<file, vectors, batches, overlapped, contested, faults>>
  BY DEF DeleteRows, At, SetStatus
<1>2. /\ WorkKept(w, d) /\ WorkInv(w) /\ work'[w].at = "remove_file"
      /\ work'[w].doc = d /\ work'[w].ids = work[w].ids /\ TypeOK
  BY <1>1, GoesOn DEF Places, InHand, IInv
<1>3. /\ document' \in [Documents -> Statuses] /\ document'[d] = "deleted" /\ document[d] # "none"
      /\ \A c \in Documents : c # d => document'[c] = document[c]
      /\ rows' \in [Documents -> Nat] /\ rows'[d] = None
      /\ \A c \in Documents : c # d => rows'[c] = rows[c]
  BY <1>1, <1>2 DEF TypeOK, Statuses, None, WorkInv, Doc
<1>4. StoresKept(w, d)
  BY <1>1, <1>2, <1>3 DEF StoresKept, TypeOK
<1>5. work[w].ids # None => Spent(work[w].ids)'
  BY <1>2, SpentKept DEF WorkInv
<1>6. WorkInv(w)'
  BY <1>2, <1>3, <1>5 DEF WorkInv, InHand
<1>7. DocInv(d)'
  BY <1>3 DEF DocInv, Exists
<1> QED BY <1>2, <1>4, <1>6, <1>7, Kept

LEMMA InvRemoveFileFails ==
    ASSUME IInv, NEW w \in Workers, NEW d \in Documents, d = Doc(w), RemoveFileFails(w)
    PROVE  IInv'
<1>1. Done(w) \/ Goto(w, "forget")
  BY DEF RemoveFileFails, AfterFile
<1>2. /\ work[w].at = "remove_file" /\ UNCHANGED <<document, rows, file, vectors, batches, overlapped, contested>>
      /\ faults' \subseteq Faults /\ overlapped' \cup contested' \subseteq Documents
  BY DEF RemoveFileFails, Fault, At, IInv, TypeOK
<1>3. work[w].ids # None => rows[Doc(w)] # work[w].ids
  BY <1>2 DEF IInv, WorkInv, Doc
<1> QED BY <1>1, <1>2, <1>3, InvGoto, InvDone DEF Places

LEMMA InvRemoveFile ==
    ASSUME IInv, NEW w \in Workers, NEW d \in Documents, d = Doc(w), RemoveFile(w)
    PROVE  IInv'
<1>1. /\ work[w].at = "remove_file" /\ file' = file \ {d}
      /\ UNCHANGED <<document, rows, vectors, batches, overlapped, contested, faults>>
      /\ Done(w) \/ Goto(w, "forget")
  BY DEF RemoveFile, AfterFile, At
<1>2. TypeOK /\ WorkInv(w)
  BY DEF IInv
<1>3. document[d] = "deleted" /\ rows[d] = None
  BY <1>1, <1>2 DEF WorkInv, Doc, IInv, DocInv, Exists
<1>4. StoresKept(w, d)
  BY <1>1, <1>2, <1>3 DEF StoresKept, TypeOK
<1>5. DocInv(d)'
  BY <1>1, <1>3 DEF DocInv, Exists
<1>6. CASE Done(w)
  BY <1>1, <1>4, <1>5, <1>6, Ends, Kept
<1>7. CASE Goto(w, "forget")
  <2>1. /\ WorkKept(w, d) /\ work'[w].at = "forget" /\ work'[w].doc = d /\ work'[w].ids = work[w].ids
    BY <1>1, <1>7, GoesOn DEF Places, InHand
  <2>2. work[w].ids # None => Spent(work[w].ids)'
    BY <1>2, <2>1, SpentKept DEF WorkInv
  <2>3. WorkInv(w)'
    BY <1>1, <1>3, <2>1, <2>2 DEF WorkInv, InHand
  <2> QED BY <1>4, <1>5, <2>1, <2>3, Kept
<1> QED BY <1>1, <1>6, <1>7

(* An upload or a deletion ends, its file there or not: a file without a   *)
(* row, or of a row that is gone.                                          *)
LEMMA InvStorageRefuses ==
    ASSUME IInv, NEW w \in Workers, NEW d \in Documents, d = Doc(w), StorageRefuses(w)
    PROVE  IInv'
<1>1. /\ work[w].at \in {"insert", "remove_file"} /\ file' \in {file, file \ {d}} /\ Done(w)
      /\ UNCHANGED <<document, rows, vectors, batches, overlapped, contested>> /\ faults' \subseteq Faults
  BY DEF StorageRefuses, Fault, IInv, TypeOK
<1>2. TypeOK /\ WorkInv(w)
  BY DEF IInv
<1>3. (work[w].at = "insert" /\ document[d] = "none") \/ document[d] = "deleted"
  BY <1>1, <1>2 DEF WorkInv, Doc
<1>4. rows[d] = None /\ ~Exists(d)
  BY <1>3 DEF IInv, DocInv, Exists
<1>5. StoresKept(w, d)
  BY <1>1, <1>2, <1>3 DEF StoresKept, TypeOK
<1>6. DocInv(d)'
  BY <1>1, <1>4 DEF DocInv, Exists
<1> QED BY <1>1, <1>5, <1>6, Ends, Kept

(* Vectors are forgotten, or stay for a vector store that raised.          *)
LEMMA InvForget ==
    ASSUME IInv, NEW w \in Workers, NEW d \in Documents, d = Doc(w),
           ForgetVectors(w) \/ ForgetVectorsFails(w)
    PROVE  IInv'
<1>1. /\ work[w].at = "forget" /\ vectors' \in {vectors, vectors \ {<<d, work[w].ids>>}}
      /\ UNCHANGED <<document, rows, file, batches, overlapped, contested>> /\ faults' \subseteq Faults
      /\ Done(w) \/ Goto(w, "ingest")
  BY DEF ForgetVectors, ForgetVectorsFails, AfterVectors, Fault, At, IInv, TypeOK
<1>2. TypeOK /\ WorkInv(w) /\ document[d] # "none"
  BY <1>1 DEF IInv, WorkInv, Doc
<1>3. rows[d] # work[w].ids \/ work[w].ids = None
  BY <1>1, <1>2 DEF WorkInv, Doc
<1>4. \A v \in vectors : v \notin vectors' =>
          v = <<d, work[w].ids>> /\ work[w].ids # None /\ rows[d] # work[w].ids
  BY <1>1, <1>2, <1>3 DEF TypeOK
<1>5. StoresKept(w, d)
  BY <1>1, <1>2, <1>4 DEF StoresKept, TypeOK
<1>6. rows[d] # None => <<d, rows[d]>> \in vectors'
  BY <1>4 DEF IInv, DocInv
<1>7. CASE Done(w)
  <2>1. WorkKept(w, d) /\ WorkInv(w)'
    BY <1>1, <1>7, Ends
  <2>2. rows[d] # None => Spent(rows[d])'
    BY <1>1, <2>1, SpentKept DEF IInv, DocInv
  <2>3. DocInv(d)'
    BY <1>1, <1>6, <2>2, Zenon DEF IInv, DocInv, Exists
  <2> QED BY <1>5, <2>1, <2>3, Kept
<1>8. CASE Goto(w, "ingest")
  <2>1. /\ WorkKept(w, d) /\ work'[w].at = "ingest" /\ work'[w].doc = d /\ work'[w].ids = work[w].ids
    BY <1>1, <1>8, GoesOn DEF Places, InHand
  <2>2. work[w].ids # None => Spent(work[w].ids)'
    BY <1>2, <2>1, SpentKept DEF WorkInv
  <2>3. WorkInv(w)'
    BY <1>1, <1>2, <2>1, <2>2 DEF WorkInv, InHand
  <2>4. rows[d] # None => Spent(rows[d])'
    BY <1>1, <2>1, SpentKept DEF IInv, DocInv
  <2>5. DocInv(d)'
    BY <1>1, <1>6, <2>4, Zenon DEF IInv, DocInv, Exists
  <2> QED BY <1>5, <2>1, <2>3, <2>5, Kept
<1> QED BY <1>1, <1>7, <1>8

LEMMA InvCrash ==
    ASSUME IInv, NEW w \in Workers, Crash(w)
    PROVE  IInv'
  BY InvDone DEF Crash, Fault, At, IInv, TypeOK

----------------------------------------------------------------------------
LEMMA InvInit == Init => IInv
<1> SUFFICES ASSUME Init PROVE IInv
  OBVIOUS
<1>1. /\ \A w \in Workers : work[w] = Idle /\ work[w].at = "idle" /\ work[w].ids = None
      /\ \A d \in Documents : document[d] = "none" /\ rows[d] = None
  BY IdleIsIdle DEF Init
<1>2. WorkTyped
  BY <1>1, IdleIsIdle DEF WorkTyped, Init
<1>3. TypeOK
  BY <1>2 DEF TypeOK, Init, Statuses, None
<1>4. \A w \in Workers : WorkInv(w)
  BY <1>1 DEF WorkInv, InHand
<1>5. \A d \in Documents : DocInv(d)
  BY <1>1 DEF DocInv, Exists
<1> QED BY <1>1, <1>3, <1>4, <1>5 DEF IInv, Apart, InHand

LEMMA InvNext == IInv /\ [Next]_vars => IInv'
<1> SUFFICES ASSUME IInv, [Next]_vars PROVE IInv'
  OBVIOUS
<1>1. ASSUME NEW w \in Workers, IngestStep(w) \/ ChangeStep(w) \/ FaultStep(w) PROVE IInv'
  <2>1. work[w].at # "idle"
    BY <1>1 DEF IngestStep, ChangeStep, FaultStep, InsertDocument, Admit, Claim, Extract, FlushChunks,
       FlushRefused, Upsert, Finish, MarkFailed, ReadIds, TearDown, DeleteRows, RemoveFile, ForgetVectors,
       PipelineFails, RemoveFileFails, StorageRefuses, ForgetVectorsFails, Crash, At
  <2>2. Doc(w) \in Documents
    BY <2>1 DEF IInv, TypeOK, WorkTyped, Doc
  <2>3. CASE IngestStep(w)
    BY <2>2, <2>3, InvInsert, InvAdmit, InvClaim, InvExtract, InvFlushChunks, InvFlushRefused, InvUpsert,
       InvFinish, InvMarkFailed DEF IngestStep
  <2>4. CASE ChangeStep(w)
    BY <2>2, <2>4, InvReadIds, InvTearDown, InvDeleteRows, InvRemoveFile, InvForget DEF ChangeStep
  <2>5. CASE FaultStep(w)
    BY <2>2, <2>5, InvPipelineFails, InvRemoveFileFails, InvStorageRefuses, InvForget, InvCrash DEF FaultStep
  <2> QED BY <1>1, <2>3, <2>4, <2>5
<1>2. ASSUME NEW w \in Workers, NEW d \in Documents, SaveFile(w, d) \/ StartReindex(w, d) \/ StartDelete(w, d)
      PROVE IInv'
  BY <1>2, InvSaveFile, InvLoad DEF StartReindex, StartDelete
<1>3. CASE UNCHANGED vars
  BY <1>3 DEF vars, IInv, TypeOK, WorkTyped, WorkInv, Apart, DocInv, Exists, Spent
<1> QED BY <1>1, <1>2, <1>3 DEF Next

(* Concurrent ingestions, re-indexings and deletions, failures and lost    *)
(* requests never leave the database naming what is not there: a document  *)
(* has its file, and committed chunks their document and their vectors.    *)
THEOREM ContentIsThere == Spec => []RowsHaveContent
<1>1. IInv => RowsHaveContent
  BY DEF IInv, DocInv, RowsHaveContent
<1> QED BY <1>1, InvInit, InvNext, PTL DEF Spec

----------------------------------------------------------------------------
(* Documents nobody raced for: what their request knows, and their vectors.*)
OwnVectors(w, d) ==
    faults \subseteq {"file"} => \A v \in vectors : v[1] = d => rows[d] = v[2] \/ InHandsOf(w, v[2])

Sole(w, d) == \A v \in Workers : v # w => ~AtWork(v, d)

LEMMA FromAlone ==
    ASSUME IInvAlone, NEW w \in Workers, NEW d \in Documents, d \notin overlapped, AtWork(w, d)
    PROVE  AloneWork(w) /\ Sole(w, d) /\ OwnVectors(w, d)
<1>1. AloneWork(w) /\ Sole(w, d)
  BY DEF IInvAlone, AloneInvs, AloneInv, Sole
<1>2. OwnVectors(w, d)
  BY <1>1 DEF IInvAlone, AloneInvs, VectorsInv, Claimed, OwnVectors, Sole
<1> QED BY <1>1, <1>2

(* A step at one document is a step at no other.                           *)
Aside(d) ==
    /\ \A c \in Documents : c # d => document'[c] = document[c] /\ rows'[c] = rows[c]
    /\ \A v \in vectors' : v[1] # d => v \in vectors
    /\ overlapped \subseteq overlapped' /\ faults \subseteq faults'

LEMMA ToAlone ==
    ASSUME IInvAlone, NEW w \in Workers, NEW d \in Documents, WorkKept(w, d), Aside(d),
           d \notin overlapped' => Sole(w, d) /\ AloneWork(w)' /\ OwnVectors(w, d)'
    PROVE  AloneInvs'
<1>1. ASSUME NEW v \in Workers, NEW c \in Documents, v # w
      PROVE  /\ AtWork(v, c)' <=> AtWork(v, c)
             /\ \A b : InHandsOf(v, b)' <=> InHandsOf(v, b)
  BY <1>1 DEF WorkKept, AtWork, InHandsOf
<1>2. ASSUME NEW c \in Documents, c # d PROVE ~AtWork(w, c) /\ ~AtWork(w, c)'
  BY <1>2 DEF WorkKept, AtWork
<1>3. ASSUME NEW c \in Documents, c # d, c \notin overlapped' PROVE AloneInv(c)'
  <2>1. AloneInv(c) /\ c \notin overlapped
    BY <1>3 DEF IInvAlone, AloneInvs, Aside
  <2>2. ASSUME NEW v \in Workers, AtWork(v, c)' PROVE AloneWork(v)'
    <3>1. v # w /\ AtWork(v, c) /\ work'[v] = work[v] /\ work[v].doc = c
      BY <1>1, <1>2, <1>3, <2>2 DEF WorkKept, AtWork
    <3>2. AloneWork(v) /\ document'[c] = document[c] /\ rows'[c] = rows[c]
      BY <1>3, <2>1, <3>1 DEF AloneInv, Aside
    <3> QED BY <3>1, <3>2 DEF AloneWork, Exists
  <2> QED BY <1>1, <1>2, <1>3, <2>1, <2>2 DEF AloneInv
<1>4. ASSUME NEW c \in Documents, c # d, faults' \subseteq {"file"}, c \notin overlapped',
             NEW v \in vectors', v[1] = c
      PROVE  Claimed(c, v[2])'
  <2>1. Claimed(c, v[2]) /\ rows'[c] = rows[c]
    BY <1>4 DEF IInvAlone, AloneInvs, VectorsInv, Aside
  <2> QED BY <1>1, <1>2, <1>4, <2>1 DEF Claimed
<1>5. AloneInv(d)'
  BY <1>1 DEF AloneInv, Sole
<1>6. ASSUME faults' \subseteq {"file"}, d \notin overlapped', NEW v \in vectors', v[1] = d
      PROVE  Claimed(d, v[2])'
  <2>1. rows'[d] = v[2] \/ InHandsOf(w, v[2])'
    BY <1>6 DEF OwnVectors
  <2>2. InHandsOf(w, v[2])' => AtWork(w, d)'
    BY DEF InHandsOf, WorkKept, AtWork
  <2> QED BY <2>1, <2>2 DEF Claimed
<1> QED BY <1>3, <1>4, <1>5, <1>6 DEF AloneInvs, AloneInv, VectorsInv

(* The same, for a step that a request at the document takes.              *)
LEMMA AloneStep ==
    ASSUME IInvAlone, NEW w \in Workers, NEW d \in Documents, AtWork(w, d), WorkKept(w, d), Aside(d),
           (d \notin overlapped /\ AloneWork(w) /\ OwnVectors(w, d)) => AloneWork(w)' /\ OwnVectors(w, d)'
    PROVE  AloneInvs'
<1>1. d \notin overlapped' => d \notin overlapped
  BY DEF Aside
<1> QED BY <1>1, FromAlone, ToAlone

(* The stores are left alone.                                              *)
LEMMA AloneUntouched ==
    ASSUME IInvAlone, NEW w \in Workers, NEW d \in Documents, AtWork(w, d), WorkKept(w, d),
           UNCHANGED <<document, rows, vectors, overlapped, contested>>, faults \subseteq faults',
           d \notin overlapped /\ AloneWork(w) => AloneWork(w)',
           ~(faults' \subseteq {"file"}) \/ ~\E b \in Nat \ {None} : InHandsOf(w, b) /\ ~InHandsOf(w, b)'
    PROVE  AloneInvs'
<1>1. Aside(d)
  BY DEF Aside
<1>2. OwnVectors(w, d) => OwnVectors(w, d)'
  <2>1. \A v \in vectors : v[2] \in Nat \ {None}
    BY DEF IInvAlone, IInv, TypeOK
  <2> QED BY <2>1 DEF OwnVectors
<1> QED BY <1>1, <1>2, AloneStep

(* A request that ends, or goes on to a place that claims nothing of the   *)
(* rows, the stores left alone.                                            *)
LEMMA AloneDone ==
    ASSUME IInvAlone, NEW w \in Workers, work[w].at \notin {"idle", "finish", "remove_file", "forget"}, Done(w),
           UNCHANGED <<document, rows, vectors, batches, overlapped, contested, faults>>
    PROVE  AloneInvs'
<1>1. WorkKept(w, Doc(w)) /\ Doc(w) \in Documents /\ work'[w].at = "idle"
  BY Ends DEF IInvAlone
<1>2. AtWork(w, Doc(w))
  BY DEF AtWork, Doc
<1> QED BY <1>1, <1>2, AloneUntouched DEF AloneWork, InHandsOf

LEMMA AloneGoto ==
    ASSUME IInvAlone, NEW w \in Workers, work[w].at \notin {"idle", "finish", "remove_file", "forget"},
           NEW a \in {"claim", "flush", "failed"}, Goto(w, a), a # "failed" /\ AloneWork(w) => Exists(Doc(w)),
           UNCHANGED <<document, rows, vectors, batches, overlapped, contested, faults>>
    PROVE  AloneInvs'
<1>1. WorkKept(w, Doc(w)) /\ Doc(w) \in Documents /\ work'[w].at = a /\ work'[w].doc = Doc(w)
  BY GoesOn DEF IInvAlone, InHand, Places
<1>2. AtWork(w, Doc(w))
  BY DEF AtWork, Doc
<1>3. AloneWork(w) => AloneWork(w)'
  BY <1>1 DEF AloneWork, Exists
<1> QED BY <1>1, <1>2, <1>3, AloneUntouched DEF InHandsOf

LEMMA AloneSaveFile ==
    ASSUME IInvAlone, NEW w \in Workers, NEW d \in Documents, SaveFile(w, d)
    PROVE  AloneInvs'
<1>1. /\ work'[w].at = "insert" /\ work'[w].doc = d /\ WorkTyped' /\ \A v \in Workers : v # w => work'[v] = work[v]
  BY Saves DEF IInvAlone, IInv
<1>2. /\ work[w].at = "idle" /\ document[d] = "none" /\ d \notin file
      /\ UNCHANGED <<document, rows, vectors, batches, overlapped, contested, faults>>
  BY DEF SaveFile, At
<1>3. WorkKept(w, d)
  BY <1>1, <1>2 DEF WorkKept, InHand, IInvAlone, IInv, TypeOK
<1>4. \A v \in Workers : ~AtWork(v, d)
  BY <1>2 DEF AtWork, IInvAlone, IInv, WorkInv
<1>5. AloneWork(w)'
  BY <1>1 DEF AloneWork
<1>6. d \notin overlapped' => OwnVectors(w, d)'
  BY <1>2, <1>4 DEF IInvAlone, AloneInvs, VectorsInv, Claimed, OwnVectors
<1>7. Aside(d) /\ Sole(w, d)
  BY <1>2, <1>4 DEF Aside, Sole
<1> QED BY <1>3, <1>5, <1>6, <1>7, ToAlone

LEMMA AloneLoad ==
    ASSUME IInvAlone, NEW w \in Workers, NEW d \in Documents, NEW o \in {"reindex", "delete"}, Load(w, d, o)
    PROVE  AloneInvs'
<1>1. /\ work'[w].at = "read_ids" /\ work'[w].doc = d /\ WorkTyped'
      /\ \A v \in Workers : v # w => work'[v] = work[v]
  BY Loads DEF IInvAlone, IInv
<1>2. /\ work[w].at = "idle" /\ Exists(d) /\ overlapped \subseteq overlapped'
      /\ d \notin overlapped' => ~Busy(d)
      /\ UNCHANGED <<document, rows, vectors, batches, faults>>
  BY DEF Load, At, NoteOverlap
<1>3. WorkKept(w, d)
  BY <1>1, <1>2 DEF WorkKept, InHand, IInvAlone, IInv, TypeOK
<1>4. d \notin overlapped' => \A v \in Workers : ~AtWork(v, d)
  BY <1>2 DEF AtWork, Busy, At, Doc
<1>5. AloneWork(w)'
  BY <1>1, <1>2 DEF AloneWork, Exists
<1>6. d \notin overlapped' => OwnVectors(w, d)'
  BY <1>2, <1>4 DEF IInvAlone, AloneInvs, VectorsInv, Claimed, OwnVectors
<1>7. Aside(d) /\ (d \notin overlapped' => Sole(w, d))
  BY <1>2, <1>4 DEF Aside, Sole
<1> QED BY <1>3, <1>5, <1>6, <1>7, ToAlone

LEMMA AloneInsert ==
    ASSUME IInvAlone, NEW w \in Workers, NEW d \in Documents, d = Doc(w), AtWork(w, d), InsertDocument(w)
    PROVE  AloneInvs'
<1>1. /\ work[w].at = "insert" /\ Goto(w, "ingest") /\ document' = [document EXCEPT ![d] = "uploaded"]
      /\ UNCHANGED <<rows, vectors, batches, overlapped, contested, faults>>
  BY DEF InsertDocument, At, SetStatus
<1>2. WorkKept(w, d) /\ work'[w].at = "ingest"
  BY <1>1, GoesOn DEF Places, InHand, IInvAlone
<1>3. Aside(d)
  BY <1>1 DEF Aside, IInvAlone, IInv, TypeOK
<1>4. AloneWork(w)' /\ (OwnVectors(w, d) => OwnVectors(w, d)')
  BY <1>1, <1>2 DEF AloneWork, OwnVectors, InHandsOf
<1> QED BY <1>2, <1>3, <1>4, AloneStep

LEMMA AloneClaim ==
    ASSUME IInvAlone, NEW w \in Workers, NEW d \in Documents, d = Doc(w), AtWork(w, d), Claim(w)
    PROVE  AloneInvs'
<1>1. /\ work[w].at = "claim" /\ UNCHANGED <<rows, vectors, batches, overlapped, contested, faults>>
      /\ \/ Exists(d) /\ document' = [document EXCEPT ![d] = "processing"] /\ Goto(w, "extract")
         \/ Done(w) /\ UNCHANGED document
  BY DEF Claim, At, SetStatus
<1>2. CASE Exists(d) /\ document' = [document EXCEPT ![d] = "processing"] /\ Goto(w, "extract")
  <2>1. WorkKept(w, d) /\ work'[w].at = "extract" /\ work'[w].doc = d
    BY <1>1, <1>2, GoesOn DEF Places, InHand, IInvAlone
  <2>2. Aside(d) /\ Exists(d)'
    BY <1>1, <1>2 DEF Aside, IInvAlone, IInv, TypeOK, Exists
  <2>3. AloneWork(w)' /\ (OwnVectors(w, d) => OwnVectors(w, d)')
    BY <1>1, <2>1, <2>2 DEF AloneWork, OwnVectors, InHandsOf, Exists
  <2> QED BY <2>1, <2>2, <2>3, AloneStep
<1>3. CASE Done(w) /\ UNCHANGED document
  BY <1>1, <1>3, AloneDone
<1> QED BY <1>1, <1>2, <1>3

LEMMA AloneFlushChunks ==
    ASSUME IInvAlone, NEW w \in Workers, NEW d \in Documents, d = Doc(w), AtWork(w, d), FlushChunks(w)
    PROVE  AloneInvs'
<1>1. /\ work[w].at = "flush" /\ rows[d] = None /\ UNCHANGED <<document, rows, vectors, overlapped, contested, faults>>
  BY DEF FlushChunks, At
<1>2. WorkKept(w, d) /\ work'[w].at = "upsert" /\ work'[w].doc = d
  BY Flushes DEF IInvAlone
<1>3. AloneWork(w) => AloneWork(w)'
  BY <1>1, <1>2 DEF AloneWork, Exists, AtWork
<1>4. ~InHandsOf(w, 1) /\ \A b : ~InHandsOf(w, b)
  BY <1>1 DEF InHandsOf
<1> QED BY <1>1, <1>2, <1>3, <1>4, AloneUntouched

LEMMA AloneUpsert ==
    ASSUME IInvAlone, NEW w \in Workers, NEW d \in Documents, d = Doc(w), AtWork(w, d), Upsert(w)
    PROVE  AloneInvs'
<1>1. /\ work[w].at = "upsert" /\ Goto(w, "finish") /\ vectors' = vectors \cup {<<d, work[w].batch>>}
      /\ UNCHANGED <<document, rows, batches, overlapped, contested, faults>>
  BY DEF Upsert, At
<1>2. /\ WorkKept(w, d) /\ work'[w].at = "finish" /\ work'[w].batch = work[w].batch /\ work'[w].doc = d
  BY <1>1, GoesOn DEF Places, InHand, IInvAlone
<1>3. Aside(d)
  BY <1>1 DEF Aside, IInvAlone, IInv, TypeOK
<1>4. AloneWork(w) => AloneWork(w)'
  BY <1>1, <1>2 DEF AloneWork, Exists, AtWork
<1>5. OwnVectors(w, d) => OwnVectors(w, d)'
  BY <1>1, <1>2 DEF OwnVectors, InHandsOf
<1> QED BY <1>2, <1>3, <1>4, <1>5, AloneStep

LEMMA AloneFinish ==
    ASSUME IInvAlone, NEW w \in Workers, NEW d \in Documents, d = Doc(w), AtWork(w, d), Finish(w)
    PROVE  AloneInvs'
<1>1. /\ work[w].at = "finish" /\ Done(w) /\ UNCHANGED <<vectors, batches, overlapped, contested, faults>>
      /\ IF Exists(d) THEN /\ document' = [document EXCEPT ![d] = "indexed"]
                           /\ rows' = [rows EXCEPT ![d] = work[w].batch]
                      ELSE UNCHANGED <<document, rows>>
  BY DEF Finish, At, SetStatus
<1>2. /\ WorkKept(w, d) /\ work'[w].at = "idle"
  BY <1>1, Ends DEF IInvAlone
<1>3. Aside(d)
  BY <1>1 DEF Aside, IInvAlone, IInv, TypeOK
<1>4. AloneWork(w)'
  BY <1>2 DEF AloneWork
<1>5. AloneWork(w) => Exists(d) /\ rows[d] = None /\ rows'[d] = work[w].batch
  BY <1>1 DEF AloneWork, Doc, IInvAlone, IInv, TypeOK
<1>6. \A v \in vectors : v[2] # None
  BY DEF IInvAlone, IInv, TypeOK
<1>7. AloneWork(w) /\ OwnVectors(w, d) => OwnVectors(w, d)'
  BY <1>1, <1>5, <1>6 DEF OwnVectors, InHandsOf
<1> QED BY <1>2, <1>3, <1>4, <1>7, AloneStep

LEMMA AlonePipelineFails ==
    ASSUME IInvAlone, NEW w \in Workers, NEW d \in Documents, d = Doc(w), AtWork(w, d), PipelineFails(w)
    PROVE  AloneInvs'
<1>1. /\ work[w].at \in {"extract", "upsert"} /\ Goto(w, "failed")
      /\ vectors' \in {vectors, vectors \cup {<<d, work[w].batch>>}}
      /\ UNCHANGED <<document, rows, batches, overlapped, contested>> /\ "pipeline" \in faults' /\ faults \subseteq faults'
  BY DEF PipelineFails, Fault, At
<1>2. WorkKept(w, d) /\ work'[w].at = "failed"
  BY <1>1, GoesOn DEF Places, InHand, IInvAlone
<1>3. Aside(d)
  BY <1>1 DEF Aside, IInvAlone, IInv, TypeOK
<1>4. AloneWork(w)' /\ OwnVectors(w, d)'
  BY <1>1, <1>2 DEF AloneWork, OwnVectors
<1> QED BY <1>2, <1>3, <1>4, AloneStep

LEMMA AloneMarkFailed ==
    ASSUME IInvAlone, NEW w \in Workers, NEW d \in Documents, d = Doc(w), AtWork(w, d), MarkFailed(w)
    PROVE  AloneInvs'
<1>1. /\ work[w].at = "failed" /\ Done(w) /\ UNCHANGED <<rows, vectors, batches, overlapped, contested, faults>>
      /\ document' = [document EXCEPT ![d] = "failed"] \/ UNCHANGED document
  BY DEF MarkFailed, At, SetStatus
<1>2. WorkKept(w, d) /\ work'[w].at = "idle"
  BY <1>1, Ends DEF IInvAlone
<1>3. Aside(d)
  BY <1>1 DEF Aside, IInvAlone, IInv, TypeOK
<1>4. AloneWork(w)' /\ (OwnVectors(w, d) => OwnVectors(w, d)')
  BY <1>1, <1>2 DEF AloneWork, OwnVectors, InHandsOf
<1> QED BY <1>2, <1>3, <1>4, AloneStep

----------------------------------------------------------------------------
LEMMA AloneReadIds ==
    ASSUME IInvAlone, NEW w \in Workers, NEW d \in Documents, d = Doc(w), AtWork(w, d), ReadIds(w)
    PROVE  AloneInvs'
<1>1. /\ work[w].at = "read_ids" /\ UNCHANGED <<document, rows, vectors, overlapped, contested, faults>>
  BY DEF ReadIds, At
<1>2. WorkKept(w, d) /\ work'[w].at \in {"reindex", "delete"} /\ work'[w].doc = d /\ work'[w].ids = rows[d]
  BY Reads DEF IInvAlone
<1>3. AloneWork(w) => AloneWork(w)'
  BY <1>1, <1>2 DEF AloneWork, Exists, AtWork
<1>4. \A b : ~InHandsOf(w, b)
  BY <1>1 DEF InHandsOf
<1> QED BY <1>1, <1>2, <1>3, <1>4, AloneUntouched

(* The rows go, and their vectors' ids are in the request's hands.         *)
LEMMA AloneRowsGo ==
    ASSUME IInvAlone, NEW w \in Workers, NEW d \in Documents, d = Doc(w), AtWork(w, d),
           work[w].at \in {"reindex", "delete"},
           NEW a \in {"ingest", "forget", "remove_file"}, Goto(w, a), a = "ingest" => work[w].ids = None,
           rows' = [rows EXCEPT ![d] = None],
           \A c \in Documents : c # d => document'[c] = document[c],
           UNCHANGED <<vectors, batches, overlapped, contested, faults>>
    PROVE  AloneInvs'
<1>1. WorkKept(w, d) /\ work'[w].at = a /\ work'[w].doc = d /\ work'[w].ids = work[w].ids
  BY GoesOn DEF Places, InHand, IInvAlone
<1>2. rows'[d] = None /\ \A c \in Documents : c # d => rows'[c] = rows[c]
  BY DEF IInvAlone, IInv, TypeOK, None
<1>3. Aside(d)
  BY <1>2 DEF Aside
<1>4. AloneWork(w)'
  BY <1>1, <1>2 DEF AloneWork
<1>5. AloneWork(w) => rows[d] = work[w].ids
  BY DEF AloneWork, AtWork
<1>6. \A v \in vectors : v[2] # None
  BY DEF IInvAlone, IInv, TypeOK
<1>7. AloneWork(w) /\ OwnVectors(w, d) => OwnVectors(w, d)'
  BY <1>1, <1>2, <1>5, <1>6 DEF OwnVectors, InHandsOf
<1> QED BY <1>1, <1>3, <1>4, <1>7, AloneStep

LEMMA AloneTearDown ==
    ASSUME IInvAlone, NEW w \in Workers, NEW d \in Documents, d = Doc(w), AtWork(w, d), TearDown(w)
    PROVE  AloneInvs'
<1>1. /\ work[w].at = "reindex" /\ rows' = [rows EXCEPT ![d] = None]
      /\ UNCHANGED <<vectors, batches, overlapped, contested, faults>>
      /\ document' = [document EXCEPT ![d] = "uploaded"] \/ UNCHANGED document
      /\ \/ Done(w) /\ ~Exists(d)
         \/ work[w].ids = None /\ Goto(w, "ingest")
         \/ Goto(w, "forget")
  BY Zenon DEF TearDown, At, SetStatus
<1>2. \A c \in Documents : c # d => document'[c] = document[c]
  BY <1>1 DEF IInvAlone, IInv, TypeOK
<1>3. CASE Done(w) /\ ~Exists(d)
  <2>1. WorkKept(w, d)
    BY <1>1, <1>3, Ends DEF IInvAlone
  <2>2. Aside(d)
    BY <1>1, <1>2 DEF Aside, IInvAlone, IInv, TypeOK
  <2>3. ~AloneWork(w)
    BY <1>1, <1>3 DEF AloneWork, Doc
  <2> QED BY <2>1, <2>2, <2>3, AloneStep
<1>4. CASE work[w].ids = None /\ Goto(w, "ingest")
  BY <1>1, <1>2, <1>4, AloneRowsGo
<1>5. CASE Goto(w, "forget")
  BY <1>1, <1>2, <1>5, AloneRowsGo
<1> QED BY <1>1, <1>3, <1>4, <1>5

LEMMA AloneDeleteRows ==
    ASSUME IInvAlone, NEW w \in Workers, NEW d \in Documents, d = Doc(w), AtWork(w, d), DeleteRows(w)
    PROVE  AloneInvs'
<1>1. /\ work[w].at = "delete" /\ rows' = [rows EXCEPT ![d] = None] /\ Goto(w, "remove_file")
      /\ \A c \in Documents : c # d => document'[c] = document[c]
      /\ UNCHANGED <<vectors, batches, overlapped, contested, faults>>
  BY DEF DeleteRows, At, SetStatus, IInvAlone, IInv, TypeOK
<1> QED BY <1>1, AloneRowsGo

LEMMA AloneAfterFile ==
    ASSUME IInvAlone, NEW w \in Workers, NEW d \in Documents, d = Doc(w), AtWork(w, d),
           RemoveFile(w) \/ RemoveFileFails(w)
    PROVE  AloneInvs'
<1>1. /\ work[w].at = "remove_file" /\ faults \subseteq faults'
      /\ UNCHANGED <<document, rows, vectors, batches, overlapped, contested>>
      /\ \/ work[w].ids = None /\ Done(w)
         \/ Goto(w, "forget")
  BY DEF RemoveFile, RemoveFileFails, AfterFile, At, Fault
<1>2. CASE work[w].ids = None /\ Done(w)
  <2>1. WorkKept(w, d) /\ work'[w].at = "idle"
    BY <1>1, <1>2, Ends DEF IInvAlone
  <2> QED BY <1>1, <1>2, <2>1, AloneUntouched DEF AloneWork, InHandsOf
<1>3. CASE Goto(w, "forget")
  <2>1. WorkKept(w, d) /\ work'[w].at = "forget" /\ work'[w].doc = d /\ work'[w].ids = work[w].ids
    BY <1>1, <1>3, GoesOn DEF Places, InHand, IInvAlone
  <2>2. AloneWork(w) => AloneWork(w)'
    BY <1>1, <2>1 DEF AloneWork, AtWork
  <2> QED BY <1>1, <2>1, <2>2, AloneUntouched DEF InHandsOf
<1> QED BY <1>1, <1>2, <1>3

LEMMA AloneStorageRefuses ==
    ASSUME IInvAlone, NEW w \in Workers, NEW d \in Documents, d = Doc(w), AtWork(w, d), StorageRefuses(w)
    PROVE  AloneInvs'
<1>1. /\ Done(w) /\ "object" \in faults' /\ faults \subseteq faults'
      /\ UNCHANGED <<document, rows, vectors, batches, overlapped, contested>>
  BY DEF StorageRefuses, Fault
<1>2. WorkKept(w, d) /\ work'[w].at = "idle"
  BY <1>1, Ends DEF IInvAlone, AtWork
<1>3. AloneWork(w)'
  BY <1>2 DEF AloneWork
<1> QED BY <1>1, <1>2, <1>3, AloneUntouched

LEMMA AloneForget ==
    ASSUME IInvAlone, NEW w \in Workers, NEW d \in Documents, d = Doc(w), AtWork(w, d),
           ForgetVectors(w) \/ ForgetVectorsFails(w)
    PROVE  AloneInvs'
<1>1. /\ work[w].at = "forget" /\ faults \subseteq faults'
      /\ UNCHANGED <<document, rows, batches, overlapped, contested>>
      /\ \/ vectors' = vectors \ {<<d, work[w].ids>>}
         \/ vectors' = vectors /\ "vectors" \in faults'
      /\ Done(w) \/ Goto(w, "ingest")
  BY DEF ForgetVectors, ForgetVectorsFails, AfterVectors, At, Fault
<1>2. WorkKept(w, d) /\ work'[w].at \in {"idle", "ingest"}
  BY <1>1, Ends, GoesOn DEF Places, InHand, IInvAlone
<1>3. Aside(d)
  BY <1>1 DEF Aside
<1>4. AloneWork(w)'
  BY <1>2 DEF AloneWork
<1>5. \A v \in vectors : v = <<v[1], v[2]>>
  BY DEF IInvAlone, IInv, TypeOK
<1>6. OwnVectors(w, d) => OwnVectors(w, d)'
  BY <1>1, <1>5 DEF OwnVectors, InHandsOf
<1> QED BY <1>2, <1>3, <1>4, <1>6, AloneStep

LEMMA AloneCrash ==
    ASSUME IInvAlone, NEW w \in Workers, NEW d \in Documents, d = Doc(w), AtWork(w, d), Crash(w)
    PROVE  AloneInvs'
<1>1. /\ Done(w) /\ "crash" \in faults' /\ faults \subseteq faults'
      /\ UNCHANGED <<document, rows, vectors, batches, overlapped, contested>>
  BY DEF Crash, Fault
<1>2. WorkKept(w, d) /\ work'[w].at = "idle"
  BY <1>1, Ends DEF IInvAlone, AtWork
<1>3. AloneWork(w)'
  BY <1>2 DEF AloneWork
<1> QED BY <1>1, <1>2, <1>3, AloneUntouched

LEMMA AloneNext == IInvAlone /\ [Next]_vars => IInvAlone'
<1> SUFFICES ASSUME IInvAlone, [Next]_vars PROVE AloneInvs'
  BY InvNext DEF IInvAlone
<1>1. ASSUME NEW w \in Workers, IngestStep(w) \/ ChangeStep(w) \/ FaultStep(w) PROVE AloneInvs'
  <2>1. work[w].at # "idle"
    BY <1>1 DEF IngestStep, ChangeStep, FaultStep, InsertDocument, Admit, Claim, Extract, FlushChunks,
       FlushRefused, Upsert, Finish, MarkFailed, ReadIds, TearDown, DeleteRows, RemoveFile, ForgetVectors,
       PipelineFails, RemoveFileFails, StorageRefuses, ForgetVectorsFails, Crash, At
  <2>2. Doc(w) \in Documents /\ AtWork(w, Doc(w))
    BY <2>1 DEF IInvAlone, IInv, TypeOK, WorkTyped, Doc, AtWork
  <2>3. Admit(w) => AloneInvs'
    BY AloneGoto, AloneDone DEF Admit, At, Exists
  <2>4. Extract(w) => AloneInvs'
    BY AloneGoto DEF Extract, At, AloneWork, Doc
  <2>5. FlushRefused(w) => AloneInvs'
    BY AloneGoto DEF FlushRefused, At
  <2>6. CASE IngestStep(w)
    BY <2>2, <2>3, <2>4, <2>5, <2>6, AloneInsert, AloneClaim, AloneFlushChunks, AloneUpsert,
       AloneFinish, AloneMarkFailed DEF IngestStep
  <2>7. CASE ChangeStep(w)
    BY <2>2, <2>7, AloneReadIds, AloneTearDown, AloneDeleteRows, AloneAfterFile, AloneForget DEF ChangeStep
  <2>8. CASE FaultStep(w)
    BY <2>2, <2>8, AlonePipelineFails, AloneAfterFile, AloneStorageRefuses, AloneForget, AloneCrash DEF FaultStep
  <2> QED BY <1>1, <2>6, <2>7, <2>8
<1>2. ASSUME NEW w \in Workers, NEW d \in Documents, SaveFile(w, d) \/ StartReindex(w, d) \/ StartDelete(w, d)
      PROVE AloneInvs'
  BY <1>2, AloneSaveFile, AloneLoad DEF StartReindex, StartDelete
<1>3. CASE UNCHANGED vars
  BY <1>3 DEF vars, IInvAlone, AloneInvs, AloneInv, VectorsInv, AtWork, AloneWork, Exists, Claimed, InHandsOf
<1> QED BY <1>1, <1>2, <1>3 DEF Next

LEMMA AloneInit == Init => IInvAlone
<1> SUFFICES ASSUME Init PROVE AloneInvs
  BY InvInit DEF IInvAlone
<1>1. \A w \in Workers, d \in Documents : ~AtWork(w, d)
  BY IdleIsIdle DEF Init, AtWork
<1> QED BY <1>1 DEF AloneInvs, AloneInv, VectorsInv, Init

(* Once nobody works on a document that no two requests were ever at, the  *)
(* vector store holds the vectors of its committed chunks and no others,   *)
(* if nothing failed but the removal of a file on a local disk: the ids a  *)
(* request reads before it takes the rows down are those of every vector   *)
(* there is.  (An object store that refuses ends the deletion before its   *)
(* vectors, which all stay.)                                               *)
THEOREM VectorsAreAccountedFor == Spec => []NoStaleVectors
<1>1. IInvAlone => NoStaleVectors
  <2> SUFFICES ASSUME IInvAlone, faults \subseteq {"file"}, NEW v \in vectors,
                      Resting(v[1]), v[1] \notin overlapped
               PROVE  rows[v[1]] = v[2]
    BY DEF NoStaleVectors
  <2>1. v[1] \in Documents
    BY DEF IInvAlone, IInv, TypeOK
  <2>2. Claimed(v[1], v[2])
    BY <2>1 DEF IInvAlone, AloneInvs, VectorsInv
  <2>3. \A w \in Workers : ~AtWork(w, v[1])
    BY DEF Resting, AtWork, Doc, At
  <2> QED BY <2>2, <2>3 DEF Claimed
<1> QED BY <1>1, AloneInit, AloneNext, PTL DEF Spec

----------------------------------------------------------------------------
(* One ingestion of a document at a time, deletions at any time.           *)
Beside(d) == /\ \A c \in Documents : c # d => document'[c] = document[c] /\ rows'[c] = rows[c]
             /\ contested \subseteq contested'

LEMMA OneStep ==
    ASSUME IInvOne, NEW w \in Workers, NEW d \in Documents, WorkKept(w, d), Beside(d), OpInv(w)',
           d \notin contested' =>
              /\ Indexed(d)'
              /\ IngestsAt(w, d)' => StatusInv(w)' /\ \A v \in Workers : v # w => ~IngestsAt(v, d)
              /\ \A v \in Workers : v # w /\ IngestsAt(v, d) => document'[d] \in {document[d], "deleted"}
    PROVE  IngestInvs'
<1>1. ASSUME NEW v \in Workers, v # w
      PROVE  work'[v] = work[v] /\ OpInv(v)' /\ \A c \in Documents : IngestsAt(v, c)' <=> IngestsAt(v, c)
  BY <1>1 DEF WorkKept, IInvOne, IngestInvs, OpInv, IngestsAt, AtWork
<1>2. ASSUME NEW c \in Documents, c # d, c \notin contested' PROVE SoleInv(c)'
  <2>1. SoleInv(c) /\ c \notin contested /\ document'[c] = document[c] /\ rows'[c] = rows[c]
    BY <1>2 DEF IInvOne, IngestInvs, Beside
  <2>2. ~IngestsAt(w, c) /\ ~IngestsAt(w, c)'
    BY <1>2 DEF WorkKept, IngestsAt, AtWork
  <2>3. ASSUME NEW v \in Workers, IngestsAt(v, c)' PROVE StatusInv(v)' /\ IngestsAt(v, c)
    <3>1. v # w /\ IngestsAt(v, c) /\ work'[v] = work[v] /\ work[v].doc = c
      BY <1>1, <2>2, <2>3 DEF IngestsAt, AtWork
    <3>2. StatusInv(v)
      BY <2>1, <3>1 DEF SoleInv
    <3> QED BY <2>1, <3>1, <3>2 DEF StatusInv, Claimers
  <2> QED BY <2>1, <2>3 DEF SoleInv, Indexed
<1>3. ASSUME d \notin contested' PROVE SoleInv(d)'
  <2>1. SoleInv(d) /\ d \notin contested
    BY <1>3 DEF IInvOne, IngestInvs, Beside
  <2>2. ASSUME NEW v \in Workers, v # w, IngestsAt(v, d)' PROVE StatusInv(v)'
    <3>1. IngestsAt(v, d) /\ work'[v] = work[v] /\ work[v].doc = d /\ document'[d] \in {document[d], "deleted"}
      BY <1>1, <1>3, <2>2 DEF IngestsAt, AtWork
    <3>2. StatusInv(v)
      BY <2>1, <3>1 DEF SoleInv
    <3> QED BY <3>1, <3>2 DEF StatusInv, Claimers
  <2>3. ASSUME NEW u \in Workers, NEW v \in Workers, IngestsAt(u, d)', IngestsAt(v, d)' PROVE u = v
    BY <1>1, <1>3, <2>1, <2>3 DEF SoleInv
  <2> QED BY <1>3, <2>2, <2>3 DEF SoleInv
<1>4. ASSUME NEW c \in Documents PROVE SoleInv(c)'
  BY <1>2, <1>3 DEF SoleInv
<1> QED BY <1>1, <1>4 DEF IngestInvs

(* A step of a request at the document: one that ingests is the only one   *)
(* that does, one that deletes leaves the status or the document deleted.  *)
LEMMA OneMove ==
    ASSUME IInvOne, NEW w \in Workers, NEW d \in Documents, AtWork(w, d), WorkKept(w, d), Beside(d), OpInv(w)',
           work'[w].at = "idle" \/ work'[w].op = work[w].op,
           work[w].op = "delete" => document'[d] \in {document[d], "deleted"},
           d \notin contested /\ Indexed(d) /\ (work[w].op # "delete" => StatusInv(w)) =>
              Indexed(d)' /\ (work'[w].at # "idle" /\ work[w].op # "delete" => StatusInv(w)')
    PROVE  IngestInvs'
<1>1. ASSUME d \notin contested'
      PROVE  d \notin contested /\ Indexed(d) /\ (work[w].op # "delete" => StatusInv(w))
  BY <1>1 DEF Beside, IInvOne, IngestInvs, SoleInv, IngestsAt
<1>2. ASSUME d \notin contested', IngestsAt(w, d)'
      PROVE  StatusInv(w)' /\ \A v \in Workers : v # w => ~IngestsAt(v, d)
  <2>1. work[w].op # "delete" /\ work'[w].at # "idle"
    BY <1>2 DEF IngestsAt, AtWork
  <2> QED BY <1>1, <1>2, <2>1 DEF IInvOne, IngestInvs, SoleInv, IngestsAt
<1>3. ASSUME d \notin contested', NEW v \in Workers, v # w, IngestsAt(v, d)
      PROVE  document'[d] \in {document[d], "deleted"}
  BY <1>1, <1>3 DEF IInvOne, IngestInvs, SoleInv, IngestsAt
<1> QED BY <1>1, <1>2, <1>3, OneStep

LEMMA OneDone ==
    ASSUME IInvOne, NEW w \in Workers, work[w].at # "idle", Done(w),
           UNCHANGED <<document, rows, batches, contested>>
    PROVE  IngestInvs'
<1>1. WorkKept(w, Doc(w)) /\ Doc(w) \in Documents /\ work'[w].at = "idle"
  BY Ends DEF IInvOne
<1>2. PICK d \in Documents : d = Doc(w)
  BY <1>1
<1>3. AtWork(w, d) /\ OpInv(w)' /\ Beside(d) /\ (Indexed(d) => Indexed(d)')
  BY <1>1, <1>2 DEF OpInv, Ingests, Claimers, Beside, Indexed, AtWork, Doc
<1> QED BY <1>1, <1>2, <1>3, OneMove

LEMMA OneGoto ==
    ASSUME IInvOne, NEW w \in Workers, work[w].at # "idle",
           NEW a \in (Claimers \ {"upsert"}) \cup {"claim", "ingest", "remove_file", "forget"}, Goto(w, a),
           a = "finish" => work[w].at = "upsert",
           a \in Ingests => work[w].op # "delete",
           a = "claim" => document[Doc(w)] = "uploaded",
           a \in Claimers => work[w].at \in Claimers,
           UNCHANGED <<document, rows, batches, contested>>
    PROVE  IngestInvs'
<1>1. /\ WorkKept(w, Doc(w)) /\ Doc(w) \in Documents /\ work'[w].at = a /\ work'[w].doc = Doc(w)
      /\ work'[w].op = work[w].op
  BY GoesOn DEF InHand, Places, IInvOne, Claimers
<1>2. PICK d \in Documents : d = Doc(w)
  BY <1>1
<1>3. OpInv(w)' /\ Beside(d) /\ AtWork(w, d) /\ (Indexed(d) => Indexed(d)')
  BY <1>1, <1>2 DEF OpInv, Beside, Indexed, AtWork, Doc, Claimers
<1>4. StatusInv(w) => StatusInv(w)'
  BY <1>1 DEF StatusInv, Claimers, Doc
<1> QED BY <1>1, <1>2, <1>3, <1>4, OneMove

LEMMA OneSaveFile ==
    ASSUME IInvOne, NEW w \in Workers, NEW d \in Documents, SaveFile(w, d)
    PROVE  IngestInvs'
<1>1. /\ work'[w].at = "insert" /\ work'[w].doc = d /\ work'[w].op = "upload"
      /\ WorkTyped' /\ \A v \in Workers : v # w => work'[v] = work[v]
  BY Saves DEF IInvOne, IInv
<1>2. /\ work[w].at = "idle" /\ d \notin file /\ document[d] = "none"
      /\ UNCHANGED <<document, rows, batches, contested>>
  BY DEF SaveFile, At
<1>3. WorkKept(w, d)
  BY <1>1, <1>2 DEF WorkKept, InHand, IInvOne, IInv, TypeOK
<1>4. \A v \in Workers : ~IngestsAt(v, d)
  BY <1>2 DEF IngestsAt, AtWork, IInvOne, IInv, WorkInv
<1>5. OpInv(w)' /\ StatusInv(w)' /\ Beside(d)
  BY <1>1, <1>2 DEF OpInv, StatusInv, Claimers, Beside
<1>6. d \notin contested' => Indexed(d)'
  BY <1>2 DEF IInvOne, IngestInvs, SoleInv, Indexed
<1> QED BY <1>3, <1>4, <1>5, <1>6, OneStep

LEMMA OneLoad ==
    ASSUME IInvOne, NEW w \in Workers, NEW d \in Documents, NEW o \in {"reindex", "delete"}, Load(w, d, o)
    PROVE  IngestInvs'
<1>1. /\ work'[w].at = "read_ids" /\ work'[w].doc = d /\ work'[w].op = o /\ work'[w].loaded = document[d]
      /\ WorkTyped' /\ \A v \in Workers : v # w => work'[v] = work[v]
  BY Loads DEF IInvOne, IInv
<1>2. /\ work[w].at = "idle" /\ UNCHANGED <<document, rows, batches>> /\ contested \subseteq contested'
      /\ o # "delete" /\ d \notin contested' => ~Ingested(d)
  BY DEF Load, At, NoteContest
<1>3. WorkKept(w, d)
  BY <1>1, <1>2 DEF WorkKept, InHand, IInvOne, IInv, TypeOK
<1>4. o # "delete" /\ d \notin contested' => \A v \in Workers : ~IngestsAt(v, d)
  BY <1>2 DEF Ingested, Ingesting, IngestsAt, AtWork, At, Doc
<1>5. OpInv(w)' /\ StatusInv(w)' /\ Beside(d)
  BY <1>1, <1>2 DEF OpInv, StatusInv, Ingests, Claimers, Beside
<1>6. d \notin contested' => Indexed(d)'
  BY <1>2 DEF IInvOne, IngestInvs, SoleInv, Indexed
<1>7. IngestsAt(w, d)' => o # "delete"
  BY <1>1 DEF IngestsAt
<1> QED BY <1>2, <1>3, <1>4, <1>5, <1>6, <1>7, OneStep

LEMMA OneInsert ==
    ASSUME IInvOne, NEW w \in Workers, NEW d \in Documents, d = Doc(w), InsertDocument(w)
    PROVE  IngestInvs'
<1>1. /\ work[w].at = "insert" /\ Goto(w, "ingest") /\ document' = [document EXCEPT ![d] = "uploaded"]
      /\ UNCHANGED <<rows, batches, contested>>
  BY DEF InsertDocument, At, SetStatus
<1>2. /\ WorkKept(w, d) /\ work'[w].at = "ingest" /\ work'[w].op = work[w].op /\ WorkInv(w)
  BY <1>1, GoesOn DEF Places, InHand, IInvOne
<1>3. OpInv(w) /\ DocInv(d) /\ document[d] = "none"
  BY <1>1, <1>2 DEF IInvOne, IngestInvs, IInv, WorkInv, Doc
<1>4. work[w].op # "delete" /\ OpInv(w)' /\ StatusInv(w)' /\ AtWork(w, d)
  BY <1>1, <1>2, <1>3 DEF OpInv, StatusInv, Ingests, Claimers, AtWork, Doc
<1>5. document'[d] = "uploaded" /\ Beside(d)
  BY <1>1 DEF IInvOne, IInv, TypeOK, Beside
<1>6. Indexed(d)'
  BY <1>1, <1>3, <1>5 DEF DocInv, Exists, Indexed
<1> QED BY <1>2, <1>4, <1>5, <1>6, OneMove

LEMMA OneClaim ==
    ASSUME IInvOne, NEW w \in Workers, NEW d \in Documents, d = Doc(w), Claim(w)
    PROVE  IngestInvs'
<1>1. /\ work[w].at = "claim" /\ UNCHANGED <<rows, batches, contested>>
      /\ \/ Exists(d) /\ document' = [document EXCEPT ![d] = "processing"] /\ Goto(w, "extract")
         \/ Done(w) /\ UNCHANGED document
  BY DEF Claim, At, SetStatus
<1>2. CASE Exists(d) /\ document' = [document EXCEPT ![d] = "processing"] /\ Goto(w, "extract")
  <2>1. /\ WorkKept(w, d) /\ work'[w].at = "extract" /\ work'[w].op = work[w].op /\ work'[w].doc = d
    BY <1>1, <1>2, GoesOn DEF Places, InHand, IInvOne
  <2>2. OpInv(w)
    BY DEF IInvOne, IngestInvs
  <2>3. document'[d] = "processing" /\ Beside(d)
    BY <1>1, <1>2 DEF IInvOne, IInv, TypeOK, Beside
  <2>4. work[w].op # "delete" /\ OpInv(w)' /\ StatusInv(w)' /\ AtWork(w, d)
    BY <1>1, <2>1, <2>2, <2>3 DEF OpInv, StatusInv, Ingests, Claimers, AtWork, Doc
  <2>5. StatusInv(w) => document[d] = "uploaded"
    BY <1>1, <1>2 DEF StatusInv, Exists, Doc
  <2>6. StatusInv(w) /\ Indexed(d) => Indexed(d)'
    BY <1>1, <2>3, <2>5 DEF Indexed
  <2> QED BY <2>1, <2>3, <2>4, <2>6, OneMove
<1>3. CASE Done(w) /\ UNCHANGED document
  BY <1>1, <1>3, OneDone
<1> QED BY <1>1, <1>2, <1>3

LEMMA OneFlushChunks ==
    ASSUME IInvOne, NEW w \in Workers, NEW d \in Documents, d = Doc(w), FlushChunks(w)
    PROVE  IngestInvs'
<1>1. work[w].at = "flush" /\ UNCHANGED <<document, rows, contested>>
  BY DEF FlushChunks, At
<1>2. WorkKept(w, d) /\ work'[w].at = "upsert" /\ work'[w].doc = d /\ work'[w].op = work[w].op
  BY Flushes DEF IInvOne
<1>3. OpInv(w)
  BY DEF IInvOne, IngestInvs
<1>4. OpInv(w)' /\ Beside(d) /\ AtWork(w, d) /\ (Indexed(d) => Indexed(d)')
  BY <1>1, <1>2, <1>3 DEF OpInv, Ingests, Claimers, Beside, AtWork, Doc, Indexed
<1>5. StatusInv(w) => StatusInv(w)'
  BY <1>1, <1>2 DEF StatusInv, Claimers, Doc
<1> QED BY <1>1, <1>2, <1>4, <1>5, OneMove

LEMMA OneFinish ==
    ASSUME IInvOne, NEW w \in Workers, NEW d \in Documents, d = Doc(w), Finish(w) \/ MarkFailed(w)
    PROVE  IngestInvs'
<1>1. /\ work[w].at \in {"finish", "failed"} /\ Done(w) /\ UNCHANGED <<batches, contested>>
      /\ \/ UNCHANGED <<document, rows>>
         \/ /\ Exists(d) /\ work[w].at = "finish"
            /\ document' = [document EXCEPT ![d] = "indexed"] /\ rows' = [rows EXCEPT ![d] = work[w].batch]
         \/ Exists(d) /\ document' = [document EXCEPT ![d] = "failed"] /\ UNCHANGED rows
  BY DEF Finish, MarkFailed, At, SetStatus
<1>2. WorkKept(w, d) /\ work'[w].at = "idle"
  BY <1>1, Ends DEF IInvOne
<1>3. OpInv(w) /\ WorkInv(w) /\ batches \in Nat
  BY DEF IInvOne, IngestInvs, IInv, TypeOK
<1>4. work[w].op # "delete" /\ OpInv(w)' /\ AtWork(w, d)
  BY <1>1, <1>2, <1>3 DEF OpInv, Ingests, Claimers, AtWork, Doc
<1>5. StatusInv(w) => document[d] \in {"processing", "deleted"}
  BY <1>1 DEF StatusInv, Claimers, Doc
<1>6. work[w].at = "finish" => work[w].batch # None
  BY <1>3 DEF WorkInv, InHand, None
<1>7. Beside(d)
  BY <1>1 DEF IInvOne, IInv, TypeOK, Beside
<1>8. StatusInv(w) /\ Indexed(d) => Indexed(d)'
  BY <1>1, <1>5, <1>6 DEF Indexed, IInvOne, IInv, TypeOK
<1> QED BY <1>2, <1>4, <1>7, <1>8, OneMove

LEMMA OneReadIds ==
    ASSUME IInvOne, NEW w \in Workers, NEW d \in Documents, d = Doc(w), ReadIds(w)
    PROVE  IngestInvs'
<1>1. work[w].at = "read_ids" /\ UNCHANGED <<document, rows, contested>>
  BY DEF ReadIds, At
<1>2. /\ WorkKept(w, d) /\ work'[w].at \in {"reindex", "delete"} /\ work'[w].at = work[w].op
      /\ work'[w].op = work[w].op /\ work'[w].loaded = work[w].loaded /\ work'[w].doc = d
  BY Reads DEF IInvOne
<1>3. OpInv(w)' /\ Beside(d) /\ AtWork(w, d) /\ (Indexed(d) => Indexed(d)')
  BY <1>1, <1>2 DEF OpInv, Ingests, Claimers, Beside, AtWork, Doc, Indexed
<1>4. StatusInv(w) => StatusInv(w)'
  BY <1>1, <1>2 DEF StatusInv, Claimers, Doc
<1> QED BY <1>1, <1>2, <1>3, <1>4, OneMove

LEMMA OneTearDown ==
    ASSUME IInvOne, NEW w \in Workers, NEW d \in Documents, d = Doc(w), TearDown(w)
    PROVE  IngestInvs'
<1>1. /\ work[w].at = "reindex" /\ rows' = [rows EXCEPT ![d] = None] /\ UNCHANGED <<batches, contested>>
      /\ \/ work[w].loaded # "uploaded" /\ Exists(d) /\ document' = [document EXCEPT ![d] = "uploaded"]
         \/ (work[w].loaded = "uploaded" \/ ~Exists(d)) /\ UNCHANGED document
      /\ Done(w) \/ Goto(w, "ingest") \/ Goto(w, "forget")
  BY Zenon DEF TearDown, At, SetStatus
<1>2. OpInv(w) /\ work[w].op = "reindex"
  BY <1>1 DEF IInvOne, IngestInvs, OpInv
<1>3. StatusInv(w) => document[d] \in {work[w].loaded, "deleted"}
  BY <1>1 DEF StatusInv, Doc
<1>4. rows'[d] = None /\ Beside(d) /\ (StatusInv(w) => document'[d] \in {"uploaded", "deleted", "none"})
  BY <1>1, <1>3 DEF IInvOne, IInv, TypeOK, Exists, None, Beside
<1>5. WorkKept(w, d) /\ (work'[w].at = "idle" \/ (work'[w].at \in {"ingest", "forget"} /\ work'[w].op = work[w].op))
  <2>1. CASE Done(w)
    BY <1>1, <2>1, Ends DEF IInvOne
  <2>2. CASE Goto(w, "ingest")
    BY <1>1, <2>2, GoesOn DEF Places, InHand, IInvOne
  <2>3. CASE Goto(w, "forget")
    BY <1>1, <2>3, GoesOn DEF Places, InHand, IInvOne
  <2> QED BY <1>1, <2>1, <2>2, <2>3
<1>6. OpInv(w)' /\ StatusInv(w)' /\ AtWork(w, d)
  BY <1>1, <1>2, <1>5 DEF OpInv, StatusInv, Ingests, Claimers, AtWork, Doc
<1>7. StatusInv(w) => Indexed(d)'
  BY <1>4 DEF Indexed
<1> QED BY <1>2, <1>4, <1>5, <1>6, <1>7, OneMove

LEMMA OneDeleteRows ==
    ASSUME IInvOne, NEW w \in Workers, NEW d \in Documents, d = Doc(w), DeleteRows(w)
    PROVE  IngestInvs'
<1>1. /\ work[w].at = "delete" /\ rows' = [rows EXCEPT ![d] = None] /\ Goto(w, "remove_file")
      /\ document' = [document EXCEPT ![d] = "deleted"] /\ UNCHANGED <<batches, contested>>
  BY DEF DeleteRows, At, SetStatus
<1>2. WorkKept(w, d) /\ work'[w].at = "remove_file" /\ work'[w].op = work[w].op
  BY <1>1, GoesOn DEF Places, InHand, IInvOne
<1>3. OpInv(w)' /\ StatusInv(w)' /\ AtWork(w, d)
  BY <1>1, <1>2 DEF OpInv, StatusInv, Ingests, Claimers, AtWork, Doc
<1>4. document'[d] = "deleted" /\ rows'[d] = None /\ Beside(d)
  BY <1>1 DEF IInvOne, IInv, TypeOK, None, Beside
<1>5. Indexed(d)'
  BY <1>4 DEF Indexed
<1> QED BY <1>2, <1>3, <1>4, <1>5, OneMove

LEMMA OneNext == IInvOne /\ [Next]_vars => IInvOne'
<1> SUFFICES ASSUME IInvOne, [Next]_vars PROVE IngestInvs'
  BY InvNext DEF IInvOne
<1>1. ASSUME NEW w \in Workers, IngestStep(w) \/ ChangeStep(w) \/ FaultStep(w) PROVE IngestInvs'
  <2>1. work[w].at # "idle"
    BY <1>1 DEF IngestStep, ChangeStep, FaultStep, InsertDocument, Admit, Claim, Extract, FlushChunks,
       FlushRefused, Upsert, Finish, MarkFailed, ReadIds, TearDown, DeleteRows, RemoveFile, ForgetVectors,
       PipelineFails, RemoveFileFails, StorageRefuses, ForgetVectorsFails, Crash, At
  <2>2. Doc(w) \in Documents /\ (work[w].at \in Ingests => work[w].op # "delete")
    BY <2>1 DEF IInvOne, IngestInvs, OpInv, IInv, TypeOK, WorkTyped, Doc
  <2>3. Admit(w) => IngestInvs'
    BY <2>2, OneGoto, OneDone DEF Admit, At, Ingests, Claimers
  <2>4. Extract(w) \/ FlushRefused(w) \/ PipelineFails(w) \/ Upsert(w) => IngestInvs'
    BY <2>2, OneGoto DEF Extract, FlushRefused, PipelineFails, Upsert, At, Ingests, Claimers
  <2>5. RemoveFile(w) \/ RemoveFileFails(w) => IngestInvs'
    BY <2>1, OneGoto, OneDone DEF RemoveFile, RemoveFileFails, AfterFile, At, Ingests, Claimers
  <2>6. ForgetVectors(w) \/ ForgetVectorsFails(w) => IngestInvs'
    BY <2>1, OneGoto, OneDone DEF ForgetVectors, ForgetVectorsFails, AfterVectors, At, Ingests, Claimers
  <2>7. Crash(w) \/ StorageRefuses(w) => IngestInvs'
    BY <2>1, OneDone DEF Crash, StorageRefuses
  <2>8. CASE IngestStep(w)
    BY <2>2, <2>3, <2>4, <2>8, OneInsert, OneClaim, OneFlushChunks, OneFinish DEF IngestStep
  <2>9. CASE ChangeStep(w)
    BY <2>2, <2>5, <2>6, <2>9, OneReadIds, OneTearDown, OneDeleteRows DEF ChangeStep
  <2> QED BY <1>1, <2>4, <2>5, <2>6, <2>7, <2>8, <2>9 DEF FaultStep
<1>2. ASSUME NEW w \in Workers, NEW d \in Documents, SaveFile(w, d) \/ StartReindex(w, d) \/ StartDelete(w, d)
      PROVE IngestInvs'
  BY <1>2, OneSaveFile, OneLoad DEF StartReindex, StartDelete
<1>3. CASE UNCHANGED vars
  BY <1>3 DEF vars, IInvOne, IngestInvs, OpInv, SoleInv, StatusInv, IngestsAt, AtWork, Indexed
<1> QED BY <1>1, <1>2, <1>3 DEF Next

LEMMA OneInit == Init => IInvOne
<1> SUFFICES ASSUME Init PROVE IngestInvs
  BY InvInit DEF IInvOne
<1>1. \A w \in Workers : work[w].at = "idle"
  BY IdleIsIdle DEF Init
<1>2. \A d \in Documents : Indexed(d)
  BY DEF Init, Indexed
<1> QED BY <1>1, <1>2 DEF IngestInvs, OpInv, SoleInv, IngestsAt, AtWork, Ingests, Claimers

(* Whatever is deleted, fails or is lost meanwhile, and whatever happens   *)
(* to other documents, an INDEXED document has its chunks and a FAILED one *)
(* has none, as long as no two ingestions were at it: the claim a request  *)
(* wrote is still there when it settles it.                                *)
THEOREM StatusTellsWhatIsFound == Spec => []StatusMatchesChunks
<1>1. IInvOne => StatusMatchesChunks
  BY DEF IInvOne, IngestInvs, SoleInv, Indexed, StatusMatchesChunks
<1> QED BY <1>1, OneInit, OneNext, PTL DEF Spec
====
