---- MODULE DeliveriesProofs ----
(***************************************************************************)
(* Proofs about the parts of MCDeliveries: the review of mail, the stream  *)
(* of run events and the mailbox; for every set of mails, reviewers,       *)
(* connections, runs, messages, syncs and faults, every queue size, limit  *)
(* and bound, and any number of events.                                    *)
(***************************************************************************)
EXTENDS MCDeliveries, FiniteSetTheorems, SequenceTheorems, TLAPS

----------------------------------------------------------------------------
(* The review of mail. *)

Rows == [status: {"none"} \cup Statuses, draft: BOOLEAN]

Request == [at: {"idle", "retriage", "discard", "send", "record"}, mail: Mails \cup {NoRequest.mail},
            loaded: Rows, edited: BOOLEAN]
RequestsTyped == /\ request \in [Requests -> Request]
                 /\ \A q \in Requests : request[q].at # "idle" => request[q].mail \in Mails

(* Rows, requests and deliveries are well formed. *)
TypeOK ==
    /\ row \in [Mails -> Rows]
    /\ triaging \subseteq Mails
    /\ RequestsTyped
    /\ sent \in [Mails -> Nat]
    /\ raced \subseteq Mails
    /\ faults \subseteq Faults

HandledBy(q, m) == request[q].at # "idle" /\ request[q].mail = m

(* Nobody is at a mail without a row, and it has no reply. *)
OnlyRows ==
    \A m \in Mails : row[m].status = "none" =>
        /\ row[m] = NoRow
        /\ sent[m] = 0
        /\ m \notin triaging
        /\ \A q \in Requests : ~HandledBy(q, m)

(* What a request has loaded let it in, and a reply on record has left.    *)
Admitted ==
    \A q \in Requests :
        /\ request[q].at \in {"retriage", "discard"} => request[q].loaded.status # "sent"
        /\ request[q].at \in {"send", "record"} => request[q].loaded.status \in Decidable
        /\ request[q].at = "record" => sent[request[q].mail] > 0

(* At a mail that was never raced for there is one handler at most, and    *)
(* the row is still the one it loaded.                                     *)
Alone ==
    \A m \in Mails \ raced :
        /\ m \in triaging => row[m].status = "processing" /\ \A q \in Requests : ~HandledBy(q, m)
        /\ \A q \in Requests : HandledBy(q, m) =>
              /\ row[m].status = request[q].loaded.status
              /\ \A p \in Requests : HandledBy(p, m) => p = q

(* Without faults the one reply is on record, or about to be.              *)
Accounted ==
    \A m \in Mails : faults = {} /\ m \notin raced =>
        /\ sent[m] \in {0, 1}
        /\ sent[m] = 1 => \/ row[m].status = "sent"
                          \/ \E q \in Requests : request[q].at = "record" /\ request[q].mail = m

Claimed == \A m \in Mails : row[m].status = "sent" => sent[m] > 0

IInv == TypeOK /\ OnlyRows /\ Admitted /\ Alone /\ Accounted /\ Claimed

----------------------------------------------------------------------------
(* What the updates of a row and of a request do.                          *)
LEMMA StatusWritten ==
    ASSUME TypeOK, NEW m \in Mails, NEW s \in Statuses,
           row' = [row EXCEPT ![m].status = s]
    PROVE  /\ row' \in [Mails -> Rows]
           /\ row'[m].status = s
           /\ \A k \in Mails : k # m => row'[k] = row[k]
<1>1. row[m] \in Rows /\ [row[m] EXCEPT !.status = s] \in Rows
  BY SMT DEF TypeOK, Rows
<1>2. row' = [row EXCEPT ![m] = [row[m] EXCEPT !.status = s]]
  OBVIOUS
<1>3. [row[m] EXCEPT !.status = s].status = s
  BY <1>1, SMT DEF Rows
<1> QED BY <1>1, <1>2, <1>3, SMT DEF TypeOK

LEMMA RowWritten ==
    ASSUME TypeOK, NEW m \in Mails, NEW s \in Statuses, NEW d \in BOOLEAN,
           row' = [row EXCEPT ![m].status = s, ![m].draft = d]
    PROVE  /\ row' \in [Mails -> Rows]
           /\ row'[m].status = s
           /\ \A k \in Mails : k # m => row'[k] = row[k]
<1> DEFINE new == [row[m] EXCEPT !.status = s]
           newer == [new EXCEPT !.draft = d]
           first == [row EXCEPT ![m] = new]
<1>1. row \in [Mails -> Rows] /\ row[m] \in Rows
  BY SMT DEF TypeOK
<1>2. new \in Rows /\ new.status = s
  BY <1>1, SMT DEF Rows
<1>3. newer \in Rows /\ newer.status = s
  <2> HIDE DEF new
  <2> QED BY <1>2, SMT DEF Rows
<1>4. row' = [first EXCEPT ![m].draft = d]
  OBVIOUS
<1> HIDE DEF new
<1>5. first \in [Mails -> Rows] /\ first[m] = new /\ \A k \in Mails : k # m => first[k] = row[k]
  BY <1>1, <1>2, SMT
<1> HIDE DEF first
<1>6. row' = [first EXCEPT ![m] = [first[m] EXCEPT !.draft = d]]
  BY <1>4
<1>7. row' = [first EXCEPT ![m] = newer]
  BY <1>5, <1>6
<1> HIDE DEF newer
<1>8. \A k \in Mails : row'[k] = IF k = m THEN newer ELSE first[k]
  BY <1>5, <1>7
<1>9. row' \in [Mails -> Rows]
  BY <1>3, <1>5, <1>7
<1> QED BY <1>3, <1>5, <1>8, <1>9

LEMMA OtherRows ==
    ASSUME TypeOK, NEW k, NEW m \in Mails, k # m, NEW s, NEW d,
           \/ row' = [row EXCEPT ![k].status = s]
           \/ row' = [row EXCEPT ![k].status = s, ![k].draft = d]
    PROVE  row'[m] = row[m]
<1> DEFINE first == [row EXCEPT ![k].status = s]
<1>1. first[m] = row[m] /\ DOMAIN first = Mails
  BY DEF TypeOK
<1>2. row' = first \/ row' = [first EXCEPT ![k].draft = d]
  OBVIOUS
<1> HIDE DEF first
<1> QED BY <1>1, <1>2

LEMMA NoRequestIsIdle == NoRequest \in Request /\ NoRequest.at = "idle"
  BY SMT DEF Request, NoRequest, NoRow, Rows

LEMMA RequestFinished ==
    ASSUME TypeOK, NEW q \in Requests, Finish(q)
    PROVE  /\ RequestsTyped'
           /\ request'[q].at = "idle"
           /\ \A p \in Requests : p # q => request'[p] = request[p]
  BY NoRequestIsIdle, SMT DEF TypeOK, RequestsTyped, Finish

LEMMA InitIInv == Init => IInv
<1> SUFFICES ASSUME Init PROVE IInv
  OBVIOUS
<1>1. row \in [Mails -> Rows] /\ \A m \in Mails : row[m].status # "sent"
  <2> DEFINE S == {NoRow, [status |-> "awaiting_approval", draft |-> TRUE],
                   [status |-> "discarded", draft |-> FALSE], [status |-> "failed", draft |-> FALSE]}
  <2> DEFINE Good(r) == r \in Rows /\ r.status # "sent"
  <2>a. Good(NoRow)
    BY SMT DEF NoRow, Rows
  <2>b. Good([status |-> "awaiting_approval", draft |-> TRUE])
    BY SMT DEF Rows, Statuses
  <2>c. Good([status |-> "discarded", draft |-> FALSE]) /\ Good([status |-> "failed", draft |-> FALSE])
    BY SMT DEF Rows, Statuses
  <2>1. \A r \in S : Good(r)
    BY <2>a, <2>b, <2>c
  <2>2. row \in [Mails -> S]
    BY DEF Init
  <2> HIDE DEF S
  <2> QED BY <2>1, <2>2, SMT
<1>2. NoRequest \in Request /\ \A q \in Requests : request[q] = NoRequest /\ request[q].at = "idle"
  BY NoRequestIsIdle DEF Init
<1>3. TypeOK
  BY <1>1, <1>2, SMT DEF Init, TypeOK, RequestsTyped
<1>5. \A m \in Mails : row[m].status = "none" => row[m] = NoRow
  BY SMT DEF Init, NoRow
<1>4. OnlyRows /\ Admitted /\ Alone /\ Accounted /\ Claimed
  BY <1>1, <1>2, <1>5, SMT DEF Init, OnlyRows, Admitted, Alone, Accounted, Claimed, HandledBy
<1> QED BY <1>3, <1>4 DEF IInv

(* One lemma for each action, or for each group that differ little.        *)
LEMMA IngestIInv ==
    ASSUME IInv, NEW m \in Mails, Ingest(m)
    PROVE  IInv'
<1> USE DEF IInv, HandledBy
<1>1. /\ row' \in [Mails -> Rows] /\ row'[m].status = "processing"
      /\ \A k \in Mails : k # m => row'[k] = row[k]
  BY StatusWritten DEF Ingest, Statuses
<1>2. /\ row[m].status = "none" /\ triaging' = triaging \cup {m}
      /\ request' = request /\ sent' = sent /\ raced' = raced /\ faults' = faults
  BY DEF Ingest, NoRow
<1>3. TypeOK'
  BY <1>1, <1>2, SMT DEF TypeOK, RequestsTyped
<1>4. OnlyRows' /\ Admitted' /\ Claimed'
  BY <1>1, <1>2, SMT DEF TypeOK, OnlyRows, Admitted, Claimed
<1>5. Alone'
  BY <1>1, <1>2, SMT DEF TypeOK, OnlyRows, Alone
<1>6. Accounted'
  BY <1>1, <1>2, SMT DEF TypeOK, OnlyRows, Accounted
<1> QED BY <1>3, <1>4, <1>5, <1>6

(* The sync's triage, whatever it makes of the mail.                       *)
LEMMA SyncStepIInv ==
    ASSUME IInv, NEW m \in Mails, SyncStep(m)
    PROVE  IInv'
<1> USE DEF IInv, HandledBy
<1>1. m \in triaging /\ triaging' = triaging \ {m}
      /\ request' = request /\ sent' = sent /\ raced' = raced /\ faults' = faults
  BY DEF SyncStep, SyncTriages, SyncTriageFails
<1>2. /\ row' \in [Mails -> Rows] /\ \A k \in Mails : k # m => row'[k] = row[k]
      /\ row'[m].status \in Statuses
      /\ row'[m].status = "sent" => row[m].status = "sent"
  <2>1. CASE SyncTriageFails(m)
    BY <2>1, StatusWritten DEF SyncTriageFails, Statuses
  <2>2. ASSUME NEW drafted \in BOOLEAN, SyncTriages(m, drafted) PROVE <1>2
    <3> DEFINE new == IF drafted THEN "awaiting_approval" ELSE "discarded"
               s == NewStatus(row[m].status, "processing", new)
               d == IF drafted \/ FALSE THEN drafted ELSE row[m].draft
    <3>1. row' = [row EXCEPT ![m].status = s, ![m].draft = d]
      BY <2>2 DEF SyncTriages, Triaged
    <3>2. s \in Statuses /\ s # "sent"
      BY SMT DEF NewStatus, Statuses
    <3>3. d \in BOOLEAN
      BY DEF TypeOK, Rows
    <3> HIDE DEF s, d
    <3> QED BY <3>1, <3>2, <3>3, RowWritten
  <2> QED BY <2>1, <2>2 DEF SyncStep
<1>3. TypeOK'
  BY <1>1, <1>2, SMT DEF TypeOK, RequestsTyped
<1>4. OnlyRows' /\ Admitted' /\ Claimed'
  BY <1>1, <1>2, SMT DEF TypeOK, OnlyRows, Admitted, Claimed, Statuses
<1>5. Alone'
  BY <1>1, <1>2, SMT DEF TypeOK, Alone
<1>6. Accounted'
  BY <1>1, <1>2, SMT DEF TypeOK, Alone, Accounted
<1> QED BY <1>3, <1>4, <1>5, <1>6

(* A request is let in: what it loads is the row as it is.                 *)
LEMMA LoadIInv ==
    ASSUME IInv, NEW q \in Requests, NEW m \in Mails, NEW edited \in BOOLEAN,
           NEW at \in {"retriage", "discard", "send"}, Load(q, m, at, edited),
           at # "send" => row[m].status # "sent",
           at = "send" => row[m].status \in Decidable
    PROVE  IInv'
<1> USE DEF IInv, HandledBy
<1> DEFINE new == [at |-> at, mail |-> m, loaded |-> row[m], edited |-> edited]
<1>1. new \in Request /\ new.at = at /\ new.mail = m /\ new.loaded = row[m]
  BY SMT DEF TypeOK, Request
<1>2. /\ request[q].at = "idle" /\ row[m] # NoRow /\ request' = [request EXCEPT ![q] = new]
      /\ raced' = IF Busy(m) THEN raced \cup {m} ELSE raced
      /\ row' = row /\ triaging' = triaging /\ sent' = sent /\ faults' = faults
  BY DEF Load
<1> HIDE DEF new
<1>3. /\ request' \in [Requests -> Request] /\ request'[q] = new
      /\ \A p \in Requests : p # q => request'[p] = request[p]
  BY <1>1, <1>2, SMT DEF TypeOK, RequestsTyped
<1>4. row[m].status # "none"
  BY <1>2 DEF OnlyRows
<1>5. TypeOK'
  BY <1>1, <1>2, <1>3, SMT DEF TypeOK, RequestsTyped
<1>6. OnlyRows' /\ Admitted' /\ Claimed'
  BY <1>1, <1>2, <1>3, <1>4, SMT DEF TypeOK, OnlyRows, Admitted, Claimed
<1>7. Alone'
  BY <1>1, <1>2, <1>3, SMT DEF TypeOK, Alone, Busy
<1>8. Accounted'
  BY <1>1, <1>2, <1>3, SMT DEF TypeOK, Accounted
<1> QED BY <1>5, <1>6, <1>7, <1>8

(* A request ends, having written the row or not: it claims a reply only   *)
(* if one has left, and takes none back that nobody else is at.            *)
LEMMA SettledIInv ==
    ASSUME IInv, NEW q \in Requests, request[q].at # "idle", Finish(q),
           NEW m, m = request[q].mail,
           row' \in [Mails -> Rows], \A k \in Mails : k # m => row'[k] = row[k],
           row'[m].status \in Statuses,
           row'[m].status = "sent" => sent[m] > 0,
           m \notin raced /\ row[m].status = "sent" => row'[m].status = "sent",
           m \notin raced /\ request[q].at = "record" => row'[m].status = "sent",
           UNCHANGED <<triaging, sent, raced, faults>>
    PROVE  IInv'
<1> USE DEF IInv, HandledBy
<1>1. /\ RequestsTyped' /\ request'[q].at = "idle"
      /\ \A p \in Requests : p # q => request'[p] = request[p]
  BY RequestFinished
<1>2. m \in Mails
  BY DEF TypeOK, RequestsTyped
<1>3. triaging' = triaging /\ sent' = sent /\ raced' = raced /\ faults' = faults
  OBVIOUS
<1>4. TypeOK'
  BY <1>1, <1>3, SMT DEF TypeOK
<1>5. OnlyRows' /\ Admitted' /\ Claimed'
  BY <1>1, <1>2, <1>3, SMT DEF TypeOK, OnlyRows, Admitted, Claimed, Statuses
<1>6. Alone'
  BY <1>1, <1>2, <1>3, SMT DEF TypeOK, Alone
<1>7. Accounted'
  BY <1>1, <1>2, <1>3, SMT DEF TypeOK, Alone, Accounted
<1> QED BY <1>4, <1>5, <1>6, <1>7

(* What is known of the mail a request is at.                              *)
LEMMA AtMail ==
    ASSUME IInv, NEW q \in Requests, request[q].at # "idle"
    PROVE  LET m == request[q].mail IN
           /\ m \in Mails
           /\ row[m] \in Rows /\ row[m].status \in Statuses
           /\ request[q].loaded \in Rows
           /\ m \notin raced => row[m].status = request[q].loaded.status
  BY SMT DEF IInv, TypeOK, RequestsTyped, Request, OnlyRows, Alone, HandledBy, Rows

LEMMA DecideIInv ==
    ASSUME IInv, NEW q \in Requests, Decide(q)
    PROVE  IInv'
<1> DEFINE m == request[q].mail
           loaded == request[q].loaded
<1>1. ASSUME NEW drafted \in BOOLEAN, Retriage(q, drafted) PROVE IInv'
  <2> DEFINE s == NewStatus(row[m].status, loaded.status,
                            IF drafted THEN "awaiting_approval" ELSE "discarded")
             d == IF drafted \/ loaded.draft THEN drafted ELSE row[m].draft
  <2>1. /\ request[q].at = "retriage" /\ Finish(q) /\ UNCHANGED <<triaging, sent, raced, faults>>
        /\ row' = [row EXCEPT ![m].status = s, ![m].draft = d]
    BY <1>1 DEF Retriage, Triaged
  <2>2. /\ m \in Mails /\ row[m] \in Rows /\ row[m].status \in Statuses /\ loaded.status # "sent"
        /\ m \notin raced => row[m].status = loaded.status
    BY <2>1, AtMail DEF IInv, Admitted
  <2>3. s \in Statuses /\ d \in BOOLEAN /\ (s = "sent" => row[m].status = "sent")
    BY <2>2, SMT DEF NewStatus, Statuses, Rows
  <2> HIDE DEF s, d
  <2>4. /\ row' \in [Mails -> Rows] /\ row'[m].status = s
        /\ \A k \in Mails : k # m => row'[k] = row[k]
    BY <2>1, <2>2, <2>3, RowWritten DEF IInv
  <2> QED BY <2>1, <2>2, <2>3, <2>4, SettledIInv DEF IInv, Claimed
<1>2. CASE RetriageFails(q)
  <2>1. /\ request[q].at = "retriage" /\ Finish(q) /\ row' = row
        /\ UNCHANGED <<triaging, sent, raced, faults>>
    BY <1>2 DEF RetriageFails
  <2>2. m \in Mails /\ row[m].status \in Statuses
    BY <2>1, AtMail
  <2> QED BY <2>1, <2>2, SettledIInv DEF IInv, Claimed, TypeOK
<1>3. CASE Discard(q)
  <2> DEFINE s == NewStatus(row[m].status, loaded.status, "discarded")
  <2>1. /\ request[q].at = "discard" /\ Finish(q) /\ UNCHANGED <<triaging, sent, raced, faults>>
        /\ row' = [row EXCEPT ![m].status = s]
    BY <1>3 DEF Discard
  <2>2. /\ m \in Mails /\ row[m] \in Rows /\ row[m].status \in Statuses /\ loaded.status # "sent"
        /\ m \notin raced => row[m].status = loaded.status
    BY <2>1, AtMail DEF IInv, Admitted
  <2>3. s \in Statuses /\ (s = "sent" => row[m].status = "sent")
    BY <2>2, SMT DEF NewStatus, Statuses
  <2> HIDE DEF s
  <2>4. /\ row' \in [Mails -> Rows] /\ row'[m].status = s
        /\ \A k \in Mails : k # m => row'[k] = row[k]
    BY <2>1, <2>2, <2>3, StatusWritten DEF IInv
  <2> QED BY <2>1, <2>2, <2>3, <2>4, SettledIInv DEF IInv, Claimed
<1>4. CASE Deliver(q)
  <2> USE DEF IInv, HandledBy
  <2>1. /\ request[q].at = "send" /\ sent' = [sent EXCEPT ![m] = sent[m] + 1]
        /\ request' = [request EXCEPT ![q].at = "record"]
        /\ row' = row /\ triaging' = triaging /\ raced' = raced /\ faults' = faults
    BY <1>4 DEF Deliver, Goto
  <2>2. /\ request[q] \in Request /\ request[q].loaded.status \in Decidable /\ m \in Mails
        /\ m \notin raced => row[m].status = loaded.status
    BY <2>1, AtMail DEF TypeOK, RequestsTyped, Admitted
  <2>3. /\ request' \in [Requests -> Request] /\ request'[q].at = "record"
        /\ request'[q].mail = m /\ request'[q].loaded = loaded
        /\ \A p \in Requests : p # q => request'[p] = request[p]
    BY <2>1, <2>2, SMT DEF TypeOK, RequestsTyped, Request
  <2>4. /\ sent' \in [Mails -> Nat] /\ sent'[m] = sent[m] + 1
        /\ \A k \in Mails : k # m => sent'[k] = sent[k]
    BY <2>1, <2>2, SMT DEF TypeOK
  <2> HIDE DEF m, loaded
  <2>5. TypeOK'
    BY <2>1, <2>2, <2>3, <2>4, SMT DEF TypeOK, RequestsTyped
  <2>6. OnlyRows' /\ Admitted' /\ Claimed'
    BY <2>1, <2>2, <2>3, <2>4, SMT DEF TypeOK, OnlyRows, Admitted, Claimed, m, loaded
  <2>7. Alone'
    BY <2>1, <2>2, <2>3, <2>4, SMT DEF TypeOK, Alone, m, loaded
  <2>8. Accounted'
    BY <2>1, <2>2, <2>3, <2>4, SMT DEF TypeOK, Alone, Accounted, Decidable, m, loaded
  <2> QED BY <2>5, <2>6, <2>7, <2>8
<1>5. CASE RecordSent(q)
  <2> DEFINE s == NewStatus(row[m].status, loaded.status, "sent")
             d == row[m].draft \/ request[q].edited
  <2>1. /\ request[q].at = "record" /\ Finish(q) /\ UNCHANGED <<triaging, sent, raced, faults>>
        /\ row' = [row EXCEPT ![m].status = s, ![m].draft = d]
    BY <1>5 DEF RecordSent
  <2>2. /\ m \in Mails /\ row[m] \in Rows /\ row[m].status \in Statuses
        /\ loaded.status \in Decidable /\ sent[m] > 0
    BY <2>1, AtMail DEF IInv, Admitted
  <2>3. s = "sent" /\ d \in BOOLEAN
    BY <2>2, SMT DEF NewStatus, Decidable
  <2> HIDE DEF s, d
  <2>4. /\ row' \in [Mails -> Rows] /\ row'[m].status = s
        /\ \A k \in Mails : k # m => row'[k] = row[k]
    BY <2>1, <2>2, <2>3, RowWritten DEF IInv, Statuses
  <2> QED BY <2>1, <2>2, <2>3, <2>4, SettledIInv DEF IInv, Statuses
<1> QED BY <1>1, <1>2, <1>3, <1>4, <1>5 DEF Decide

(* SMTP raises, before the message has left or after.                      *)
LEMMA DeliveryFailsIInv ==
    ASSUME IInv, NEW q \in Requests, DeliveryFails(q)
    PROVE  IInv'
<1> USE DEF IInv, HandledBy
<1>1. /\ RequestsTyped' /\ request'[q].at = "idle"
      /\ \A p \in Requests : p # q => request'[p] = request[p]
  BY RequestFinished DEF DeliveryFails
<1>2. /\ request[q].at = "send" /\ faults' \in SUBSET Faults /\ faults' # {}
      /\ row' = row /\ triaging' = triaging /\ raced' = raced
      /\ request[q].mail \in Mails /\ row[request[q].mail].status \in Statuses
  BY AtMail DEF DeliveryFails, Fault, TypeOK
<1>3. /\ sent' \in [Mails -> Nat] /\ \A k \in Mails : sent'[k] >= sent[k]
      /\ \A k \in Mails : row[k].status = "none" => sent'[k] = sent[k]
  BY <1>2, SMT DEF DeliveryFails, TypeOK, Statuses
<1>4. TypeOK'
  BY <1>1, <1>2, <1>3, SMT DEF TypeOK
<1>5. OnlyRows' /\ Admitted' /\ Claimed'
  BY <1>1, <1>2, <1>3, SMT DEF TypeOK, RequestsTyped, OnlyRows, Admitted, Claimed
<1>6. Alone' /\ Accounted'
  BY <1>1, <1>2, SMT DEF TypeOK, Alone, Accounted
<1> QED BY <1>4, <1>5, <1>6

LEMMA CrashIInv ==
    ASSUME IInv, Crash
    PROVE  IInv'
<1> USE DEF IInv, HandledBy
<1>1. /\ NoRequest \in Request /\ \A q \in Requests : request'[q] = NoRequest /\ request'[q].at = "idle"
      /\ request' \in [Requests -> Request]
  BY NoRequestIsIdle DEF Crash
<1>2. /\ faults' \in SUBSET Faults /\ faults' # {} /\ triaging' = {}
      /\ row' = row /\ sent' = sent /\ raced' = raced
  BY DEF Crash, Fault, TypeOK
<1>3. TypeOK'
  BY <1>1, <1>2, SMT DEF TypeOK, RequestsTyped
<1>4. OnlyRows' /\ Admitted' /\ Claimed' /\ Alone' /\ Accounted'
  BY <1>1, <1>2, SMT DEF TypeOK, OnlyRows, Admitted, Claimed, Alone, Accounted
<1> QED BY <1>3, <1>4

LEMMA StepIInv == IInv /\ [Next]_vars => IInv'
<1> SUFFICES ASSUME IInv, [Next]_vars PROVE IInv'
  OBVIOUS
<1>1. ASSUME NEW m \in Mails, Ingest(m) \/ SyncStep(m) PROVE IInv'
  BY <1>1, IngestIInv, SyncStepIInv
<1>2. ASSUME NEW q \in Requests, NEW m \in Mails, StartRetriage(q, m) \/ StartDiscard(q, m) PROVE IInv'
  BY <1>2, LoadIInv DEF StartRetriage, StartDiscard
<1>3. ASSUME NEW q \in Requests, NEW m \in Mails, NEW edited \in BOOLEAN, StartSend(q, m, edited)
      PROVE  IInv'
  BY <1>3, LoadIInv DEF StartSend
<1>4. ASSUME NEW q \in Requests, Decide(q) \/ DeliveryFails(q) PROVE IInv'
  BY <1>4, DecideIInv, DeliveryFailsIInv
<1>5. CASE UNCHANGED vars
  BY <1>5 DEF vars, IInv, TypeOK, RequestsTyped, OnlyRows, Admitted, Alone, Accounted, Claimed, HandledBy
<1> QED BY <1>1, <1>2, <1>3, <1>4, <1>5, CrashIInv DEF Next

LEMMA Invariant == Spec => []IInv
  BY InitIInv, StepIInv, PTL DEF Spec

----------------------------------------------------------------------------
(* A row claims a reply only if one has left; and where no two handlers    *)
(* met and nothing failed, a message is replied to at most once, and not   *)
(* at all once discarded (emails/service.py 155 to 199).                   *)
THEOREM OneReplyOnRecord == Spec => []OneOutcome
<1>1. IInv => OneOutcome
  <2> SUFFICES ASSUME IInv, NEW m \in Mails, faults = {}, m \notin raced
               PROVE  sent[m] <= (IF row[m].status = "discarded" THEN 0 ELSE 1)
    BY DEF IInv, Claimed, OneOutcome
  <2>1. sent[m] \in {0, 1}
    BY DEF IInv, Accounted
  <2>2. ASSUME sent[m] = 1 PROVE row[m].status # "discarded"
    <3>1. CASE row[m].status = "sent"
      BY <3>1
    <3>2. ASSUME NEW q \in Requests, request[q].at = "record", request[q].mail = m
          PROVE  row[m].status \in Decidable
      BY <3>2, SMT DEF IInv, Admitted, Alone, HandledBy
    <3> QED BY <2>2, <3>1, <3>2, SMT DEF IInv, Accounted, Decidable
  <2> QED BY <2>1, <2>2, SMT
<1> QED BY <1>1, Invariant, PTL

(* Nothing makes a mail that is on record as replied to decidable again,   *)
(* whatever fails, while one handler at a time is at it.                   *)
THEOREM SentStaysSent == Spec => SentIsFinal
<1> DEFINE Stays == \A m \in Mails \ raced : row[m].status = "sent" => row'[m].status = "sent"
<1>1. ASSUME IInv, Next PROVE Stays
  <2> SUFFICES ASSUME NEW m \in Mails \ raced, row[m].status = "sent", row' # row
               PROVE  row'[m].status = "sent"
    BY SMT
  <2>0. TypeOK /\ Admitted /\ Alone
    BY <1>1 DEF IInv
  <2>1. ASSUME NEW k \in Mails, Ingest(k) PROVE row'[m] = row[m]
    <3>1. row[k] = NoRow /\ row' = [row EXCEPT ![k].status = "processing"]
      BY <2>1 DEF Ingest
    <3>2. k # m
      BY <3>1 DEF NoRow
    <3> QED BY <2>0, <3>1, <3>2 DEF TypeOK
  <2>2. ASSUME NEW k \in Mails, SyncStep(k) PROVE row'[m] = row[m]
    <3>1. k \in triaging
      BY <2>2 DEF SyncStep, SyncTriages, SyncTriageFails
    <3>2. k # m
      BY <2>0, <3>1, SMT DEF Alone
    <3>3. CASE SyncTriageFails(k)
      BY <2>0, <3>2, <3>3, OtherRows DEF SyncTriageFails
    <3>4. ASSUME NEW drafted \in BOOLEAN, SyncTriages(k, drafted) PROVE row'[m] = row[m]
      <4>1. PICK s, d : row' = [row EXCEPT ![k].status = s, ![k].draft = d]
        BY <3>4 DEF SyncTriages, Triaged
      <4> QED BY <2>0, <3>2, <4>1, OtherRows
    <3> QED BY <2>2, <3>3, <3>4 DEF SyncStep
  <2>3. ASSUME NEW q \in Requests, Decide(q) PROVE row'[m].status = "sent"
    <3>1. CASE request[q].mail # m
      <4> DEFINE k == request[q].mail
      <4>1. CASE RetriageFails(q) \/ Deliver(q)
        BY <4>1 DEF RetriageFails, Deliver
      <4>2. CASE Discard(q)
        BY <2>0, <3>1, <4>2, OtherRows DEF Discard
      <4>3. ASSUME \/ \E drafted \in BOOLEAN : Retriage(q, drafted)
                   \/ RecordSent(q)
            PROVE  row'[m].status = "sent"
        <5>1. PICK s, d : row' = [row EXCEPT ![k].status = s, ![k].draft = d]
          BY <4>3 DEF Retriage, Triaged, RecordSent
        <5> QED BY <2>0, <3>1, <5>1, OtherRows
      <4> QED BY <2>3, <4>1, <4>2, <4>3 DEF Decide
    <3>2. CASE request[q].mail = m
      <4>1. request[q].at # "idle"
        BY <2>3 DEF Decide, Retriage, RetriageFails, Discard, Deliver, RecordSent
      <4>2. request[q].loaded.status = "sent"
        BY <2>0, <3>2, <4>1, SMT DEF Alone, HandledBy
      <4>3. request[q].at \notin {"retriage", "discard", "send", "record"}
        BY <2>0, <4>2, SMT DEF Admitted, Decidable
      <4> QED BY <2>3, <4>3 DEF Decide, Retriage, RetriageFails, Discard, Deliver, RecordSent
    <3> QED BY <3>1, <3>2
  <2>4. ASSUME NEW q \in Requests, NEW k \in Mails, NEW edited \in BOOLEAN,
               StartRetriage(q, k) \/ StartDiscard(q, k) \/ StartSend(q, k, edited)
        PROVE  row' = row
    BY <2>4 DEF StartRetriage, StartDiscard, StartSend, Load
  <2>5. ASSUME NEW q \in Requests, DeliveryFails(q) PROVE row' = row
    BY <2>5 DEF DeliveryFails
  <2>6. Crash => row' = row
    BY DEF Crash
  <2> QED BY <1>1, <2>1, <2>2, <2>3, <2>4, <2>5, <2>6 DEF Next
<1>2. IInv /\ [Next]_vars => [Stays]_vars
  BY <1>1
<1> QED BY <1>2, Invariant, PTL DEF Spec, SentIsFinal

----------------------------------------------------------------------------
(* The stream of run events. *)

Places == {"away", "pump", "send"}
Notice == [event : Nat, dropped : Nat]
Subscriber == [at : Places, run_id : Runs \cup {Every}, queue : Seq(Nat), dropped : Nat,
               message : Notice, since : Nat, received : Seq(Notice)]

StreamTypeOK ==
    /\ published \in Seq(Runs)
    /\ client \in [Clients -> Subscriber]

(* Stream!Followed of a list of events and what a connection follows.      *)
Follows(events, run_id, from, to) ==
    {e \in (from + 1)..to : run_id \in {events[e], Every}}

(* The event received before the i-th message, the last one received, and  *)
(* the last one that left the queue.                                       *)
Before(cl, i) == IF i = 1 THEN cl.since ELSE cl.received[i - 1].event
LastReceived(cl) == Before(cl, Len(cl.received) + 1)
LastTaken(cl) == IF cl.at = "send" THEN cl.message.event ELSE LastReceived(cl)

(* The event m.event comes after "mark", and m.dropped followed events are *)
(* missing between the two.                                                *)
Exact(events, run_id, mark, m) ==
    /\ m.event \in (mark + 1)..Len(events)
    /\ Cardinality(Follows(events, run_id, mark, m.event)) = m.dropped + 1

Received(events, cl) ==
    /\ cl.since <= Len(events)
    /\ \A i \in 1..Len(cl.received) :
          Exact(events, cl.run_id, Before(cl, i), cl.received[i])

InTheSocket(events, cl) ==
    cl.at = "send" => Exact(events, cl.run_id, LastReceived(cl), cl.message)

Waiting(events, cl) == Follows(events, cl.run_id, LastTaken(cl), Len(events))

(* The queue holds the newest events that wait, in order; those that wait  *)
(* no more are the ones counted, and who has lost some has others left.    *)
Queued(events, cl) ==
    /\ Len(cl.queue) <= QUEUE_SIZE
    /\ \A i \in 1..Len(cl.queue) : cl.queue[i] \in Waiting(events, cl)
    /\ \A i, j \in 1..Len(cl.queue) : i < j => cl.queue[i] < cl.queue[j]
    /\ cl.queue = <<>> => cl.dropped = 0 /\ Waiting(events, cl) = {}
    /\ cl.queue # <<>> =>
          /\ \A e \in Waiting(events, cl) :
                e < cl.queue[1] \/ \E i \in 1..Len(cl.queue) : cl.queue[i] = e
          /\ Exact(events, cl.run_id, LastTaken(cl),
                   [event |-> cl.queue[1], dropped |-> cl.dropped])

ClientInv(events, cl) ==
    IF cl.at = "away" THEN cl = Stream!Away
    ELSE Received(events, cl) /\ InTheSocket(events, cl) /\ Queued(events, cl)

StreamInv == StreamTypeOK /\ \A c \in Clients : ClientInv(published, client[c])

----------------------------------------------------------------------------
LEMMA FollowsIsFinite ==
    ASSUME NEW events, NEW run_id, NEW from \in Nat, NEW to \in Nat
    PROVE  /\ IsFiniteSet(Follows(events, run_id, from, to))
           /\ Cardinality(Follows(events, run_id, from, to)) \in Nat
  <1>1. IsFiniteSet((from + 1)..to)
    BY FS_Interval
  <1>2. Follows(events, run_id, from, to) \in SUBSET ((from + 1)..to)
    BY DEF Follows
  <1> QED
    BY <1>1, <1>2, FS_Subset, FS_CardinalityType

(* Publishing changes nothing that was followed, and adds the new event.   *)
LEMMA FollowsAppended ==
    ASSUME NEW events \in Seq(Runs), NEW run \in Runs, NEW run_id, NEW from \in Nat
    PROVE  /\ Append(events, run) \in Seq(Runs)
           /\ Len(Append(events, run)) = Len(events) + 1
           /\ \A to \in 0..Len(events) :
                 Follows(Append(events, run), run_id, from, to) = Follows(events, run_id, from, to)
           /\ run_id \notin {run, Every} =>
                 Follows(Append(events, run), run_id, from, Len(events) + 1)
                   = Follows(events, run_id, from, Len(events))
  <1> DEFINE n == Len(events) + 1
             now == Append(events, run)
  <1>1. /\ Len(events) \in Nat
        /\ now \in Seq(Runs)
        /\ Len(now) = n
        /\ \A e \in 1..Len(events) : now[e] = events[e]
        /\ now[n] = run
    BY LenProperties, AppendProperties
  <1> HIDE DEF now
  <1> QED
    BY <1>1 DEF Follows

LEMMA FollowsNewest ==
    ASSUME NEW events \in Seq(Runs), NEW run \in Runs,
           NEW run_id \in {run, Every}, NEW from \in 0..Len(events)
    PROVE  Follows(Append(events, run), run_id, from, Len(events) + 1)
             = Follows(events, run_id, from, Len(events)) \cup {Len(events) + 1}
  <1> DEFINE now == Append(events, run)
  <1>1. /\ Len(events) \in Nat
        /\ \A e \in 1..Len(events) : now[e] = events[e]
        /\ now[Len(events) + 1] = run
    BY LenProperties, AppendProperties
  <1> HIDE DEF now
  <1> QED
    BY <1>1 DEF Follows

LEMMA ExactAppended ==
    ASSUME NEW events \in Seq(Runs), NEW run \in Runs, NEW run_id, NEW mark \in Nat,
           NEW m, m.event \in Nat, Exact(events, run_id, mark, m)
    PROVE  Exact(Append(events, run), run_id, mark, m)
  <1>1. Len(events) \in Nat
    BY LenProperties
  <1>2. m.event \in 0..Len(events)
    BY <1>1 DEF Exact
  <1>3. /\ Len(Append(events, run)) = Len(events) + 1
        /\ Follows(Append(events, run), run_id, mark, m.event) = Follows(events, run_id, mark, m.event)
    BY <1>2, FollowsAppended
  <1> QED
    BY <1>1, <1>2, <1>3 DEF Exact

(* The marks of a client are among the events.                             *)
LEMMA Marks ==
    ASSUME NEW events \in Seq(Runs), NEW cl \in Subscriber,
           Received(events, cl), InTheSocket(events, cl)
    PROVE  /\ \A i \in 1..(Len(cl.received) + 1) : Before(cl, i) \in 0..Len(events)
           /\ LastReceived(cl) \in 0..Len(events)
           /\ LastTaken(cl) \in 0..Len(events)
  <1>1. /\ Len(events) \in Nat
        /\ Len(cl.received) \in Nat
        /\ \A i \in 1..Len(cl.received) : cl.received[i] \in Notice
    BY LenProperties, ElementOfSeq DEF Subscriber
  <1>2. cl.since \in 0..Len(events)
    BY <1>1 DEF Received, Subscriber
  <1>3. \A i \in 1..Len(cl.received) : cl.received[i].event \in 0..Len(events)
    BY <1>1 DEF Received, Exact, Notice
  <1>4. \A i \in 1..(Len(cl.received) + 1) : Before(cl, i) \in 0..Len(events)
    BY <1>1, <1>2, <1>3 DEF Before
  <1>5. LastReceived(cl) \in 0..Len(events)
    BY <1>1, <1>4 DEF LastReceived
  <1>6. cl.at = "send" => cl.message.event \in 0..Len(events)
    BY <1>1 DEF InTheSocket, Exact, Notice, Subscriber
  <1> QED
    BY <1>4, <1>5, <1>6 DEF LastTaken

(* What a client was sent and is being sent stays exact when events follow. *)
LEMMA SentStaysExact ==
    ASSUME NEW events \in Seq(Runs), NEW run \in Runs, NEW cl \in Subscriber,
           Received(events, cl), InTheSocket(events, cl)
    PROVE  Received(Append(events, run), cl) /\ InTheSocket(Append(events, run), cl)
  <1>1. /\ Len(events) \in Nat
        /\ Len(Append(events, run)) = Len(events) + 1
        /\ Len(cl.received) \in Nat
        /\ \A i \in 1..Len(cl.received) : cl.received[i] \in Notice
    BY LenProperties, ElementOfSeq, AppendProperties DEF Subscriber
  <1>2. ASSUME NEW i \in 1..Len(cl.received)
        PROVE  Exact(Append(events, run), cl.run_id, Before(cl, i), cl.received[i])
    <2>1. Before(cl, i) \in Nat
      BY <1>1, Marks
    <2>2. cl.received[i].event \in Nat
      BY <1>1 DEF Notice
    <2> QED
      BY <2>1, <2>2, ExactAppended DEF Received
  <1>3. Received(Append(events, run), cl)
    BY <1>1, <1>2 DEF Received, Subscriber
  <1>4. LastReceived(cl) \in Nat /\ cl.message.event \in Nat
    BY <1>1, Marks DEF Subscriber, Notice
  <1>5. InTheSocket(Append(events, run), cl)
    BY <1>4, ExactAppended DEF InTheSocket
  <1> QED
    BY <1>3, <1>5

(* A connection that does not follow the run has nothing new to wait for.  *)
LEMMA OthersKeepWaiting ==
    ASSUME NEW events \in Seq(Runs), NEW run \in Runs, NEW cl \in Subscriber,
           ClientInv(events, cl), cl.at = "away" \/ cl.run_id \notin {run, Every}
    PROVE  ClientInv(Append(events, run), cl)
  <1>1. CASE cl.at = "away"
    BY <1>1 DEF ClientInv
  <1>2. CASE cl.at # "away"
    <2>1. Received(events, cl) /\ InTheSocket(events, cl) /\ Queued(events, cl)
      BY <1>2 DEF ClientInv
    <2>2. LastTaken(cl) \in Nat
      BY <2>1, Marks, LenProperties
    <2>3. Waiting(Append(events, run), cl) = Waiting(events, cl)
      BY <1>2, <2>2, FollowsAppended DEF Waiting
    <2>4. cl.queue # <<>> => cl.queue[1] \in Nat
      BY ElementOfSeq, EmptySeq, LenProperties DEF Subscriber
    <2>5. cl.queue # <<>> =>
             Exact(Append(events, run), cl.run_id, LastTaken(cl),
                   [event |-> cl.queue[1], dropped |-> cl.dropped])
      BY <2>1, <2>2, <2>4, ExactAppended DEF Queued
    <2>6. Queued(Append(events, run), cl)
      BY <2>1, <2>3, <2>5 DEF Queued
    <2> QED
      BY <1>2, <2>1, <2>6, SentStaysExact DEF ClientInv
  <1> QED
    BY <1>1, <1>2

(* The queue after put_nowait, and after get_nowait.                       *)
LEMMA PutFacts ==
    ASSUME NEW q \in Seq(Nat), NEW n \in Nat
    PROVE  /\ Append(q, n) \in Seq(Nat)
           /\ Append(q, n) # <<>>
           /\ Len(q) \in Nat
           /\ Len(Append(q, n)) = Len(q) + 1
           /\ \A i \in 1..Len(q) : Append(q, n)[i] = q[i] /\ q[i] \in Nat
           /\ Append(q, n)[Len(q) + 1] = n
           /\ q = <<>> <=> Len(q) = 0
  <1>1. /\ Append(q, n) \in Seq(Nat)
        /\ Append(q, n) # <<>>
        /\ Len(Append(q, n)) = Len(q) + 1
        /\ \A i \in 1..Len(q) : Append(q, n)[i] = q[i]
        /\ Append(q, n)[Len(q) + 1] = n
    BY AppendProperties
  <1>2. /\ Len(q) \in Nat
        /\ \A i \in 1..Len(q) : q[i] \in Nat
    BY LenProperties, ElementOfSeq
  <1>3. q = <<>> <=> Len(q) = 0
    BY EmptySeq
  <1> QED
    BY <1>1, <1>2, <1>3

LEMMA GetFacts ==
    ASSUME NEW S, NEW q \in Seq(S), q # <<>>
    PROVE  /\ Len(q) \in Nat \ {0}
           /\ Head(q) = q[1]
           /\ Tail(q) \in Seq(S)
           /\ Len(Tail(q)) = Len(q) - 1
           /\ \A i \in 1..(Len(q) - 1) : Tail(q)[i] = q[i + 1]
           /\ \A i \in 1..Len(q) : q[i] \in S
           /\ Tail(q) = <<>> <=> Len(q) = 1
  <1>1. /\ Len(q) \in Nat \ {0}
        /\ Tail(q) \in Seq(S)
        /\ Len(Tail(q)) = Len(q) - 1
        /\ \A i \in 1..(Len(q) - 1) : Tail(q)[i] = q[i + 1]
    BY HeadTailProperties, LenProperties, EmptySeq
  <1>2. /\ Head(q) = q[1]
        /\ \A i \in 1..Len(q) : q[i] \in S
    BY <1>1, ElementOfSeq
  <1>3. Tail(q) = <<>> <=> Len(Tail(q)) = 0
    BY <1>1, EmptySeq
  <1> QED
    BY <1>1, <1>2, <1>3

(* A sequence of events in order, which ends with the newest.              *)
LEMMA OrderedAppend ==
    ASSUME NEW q \in Seq(Nat), NEW n \in Nat,
           \A i \in 1..Len(q) : q[i] < n,
           \A i, j \in 1..Len(q) : i < j => q[i] < q[j]
    PROVE  \A i, j \in 1..(Len(q) + 1) : i < j => Append(q, n)[i] < Append(q, n)[j]
  BY PutFacts

(* Offering a followed event: it waits last, and when the queue is full    *)
(* the oldest is counted, with none between it and the next in the queue.  *)
LEMMA OfferKeepsCount ==
    ASSUME QUEUE_SIZE \in Nat \ {0},
           NEW events \in Seq(Runs), NEW run \in Runs, NEW cl \in Subscriber,
           cl.at # "away", cl.run_id \in {run, Every}, ClientInv(events, cl)
    PROVE  /\ Stream!Offer(cl, Len(events) + 1) \in Subscriber
           /\ ClientInv(Append(events, run), Stream!Offer(cl, Len(events) + 1))
  <1> DEFINE n == Len(events) + 1
             now == Append(events, run)
             cl2 == Stream!Offer(cl, n)
             id == cl.run_id
             mark == LastTaken(cl)
             w == Waiting(events, cl)
  <1>1. Received(events, cl) /\ InTheSocket(events, cl) /\ Queued(events, cl)
    BY DEF ClientInv
  <1>2. /\ Len(events) \in Nat /\ n \in Nat
        /\ Len(now) = n
        /\ cl.queue \in Seq(Nat)
        /\ cl.dropped \in Nat
    BY LenProperties, AppendProperties DEF Subscriber
  <1>3. mark \in 0..Len(events)
    BY <1>1, Marks
  <1>4. /\ Follows(now, id, mark, n) = w \cup {n}
        /\ \A e \in w : e \in Nat /\ e < n
    <2>1. Follows(now, id, mark, n) = w \cup {n}
      BY <1>3, FollowsNewest DEF Waiting
    <2> QED
      BY <2>1, <1>2, <1>3 DEF Waiting, Follows
  <1>5. ASSUME NEW q \in Seq(Nat), NEW d \in Nat,
               cl2 = [cl EXCEPT !.queue = q, !.dropped = d]
        PROVE  /\ cl2 \in Subscriber
               /\ cl2.at # "away"
               /\ cl2.queue = q /\ cl2.dropped = d /\ cl2.run_id = id
               /\ LastTaken(cl2) = mark
               /\ Received(now, cl2) /\ InTheSocket(now, cl2)
               /\ Waiting(now, cl2) = w \cup {n}
    <2> HIDE DEF cl2
    <2>1. /\ cl2 \in Subscriber
          /\ cl2.at = cl.at /\ cl2.run_id = id /\ cl2.message = cl.message
          /\ cl2.since = cl.since /\ cl2.received = cl.received
          /\ cl2.queue = q /\ cl2.dropped = d
      BY <1>5 DEF Subscriber
    <2>2. Received(now, cl) /\ InTheSocket(now, cl)
      BY <1>1, SentStaysExact
    <2>3. /\ LastTaken(cl2) = mark
          /\ Received(now, cl2) /\ InTheSocket(now, cl2)
      BY <2>1, <2>2 DEF LastTaken, LastReceived, Before, Received, InTheSocket
    <2> QED
      BY <1>2, <1>4, <2>1, <2>3 DEF Waiting
  <1>6. CASE Len(cl.queue) < QUEUE_SIZE
    <2> DEFINE q == Append(cl.queue, n)
    <2>1. cl2 = [cl EXCEPT !.queue = q, !.dropped = cl.dropped]
      BY <1>6 DEF Stream!Offer, Subscriber
    <2>2. /\ q \in Seq(Nat) /\ q # <<>>
          /\ Len(cl.queue) \in Nat
          /\ Len(q) = Len(cl.queue) + 1
          /\ \A i \in 1..Len(cl.queue) : q[i] = cl.queue[i] /\ cl.queue[i] \in w
          /\ q[Len(q)] = n
          /\ cl.queue = <<>> <=> Len(cl.queue) = 0
      <3>1. /\ q \in Seq(Nat) /\ q # <<>>
            /\ Len(cl.queue) \in Nat
            /\ Len(q) = Len(cl.queue) + 1
            /\ \A i \in 1..Len(cl.queue) : q[i] = cl.queue[i]
            /\ q[Len(cl.queue) + 1] = n
            /\ cl.queue = <<>> <=> Len(cl.queue) = 0
        BY <1>2, PutFacts
      <3> HIDE DEF q
      <3>2. \A i \in 1..Len(cl.queue) : cl.queue[i] \in w
        BY <1>1 DEF Queued
      <3> QED
        BY <3>1, <3>2
    <2>3. /\ cl2 \in Subscriber
          /\ cl2.at # "away"
          /\ cl2.queue = q /\ cl2.dropped = cl.dropped /\ cl2.run_id = id
          /\ LastTaken(cl2) = mark
          /\ Received(now, cl2) /\ InTheSocket(now, cl2)
          /\ Waiting(now, cl2) = w \cup {n}
      <3> HIDE DEF q, cl2, w, n, now
      <3> QED
        BY <1>2, <1>5, <2>1, <2>2
    <2>4. \A i, j \in 1..Len(q) : i < j => q[i] < q[j]
      <3>1. \A i \in 1..Len(cl.queue) : cl.queue[i] < n
        BY <1>4, <2>2
      <3>2. \A i, j \in 1..Len(cl.queue) : i < j => cl.queue[i] < cl.queue[j]
        BY <1>1 DEF Queued
      <3> QED
        BY <3>1, <3>2, <2>2, <1>2, OrderedAppend
    <2> HIDE DEF q, w, mark, id, n, now, cl2
    <2>5. ASSUME NEW i \in 1..Len(q)
          PROVE  q[i] \in w \cup {n}
      <3>1. i = Len(q) \/ i \in 1..Len(cl.queue)
        BY <2>2
      <3> QED
        BY <3>1, <2>2
    <2>6. ASSUME NEW e \in w \cup {n}
          PROVE  e < q[1] \/ \E i \in 1..Len(q) : q[i] = e
      <3>1. CASE e = n
        BY <3>1, <2>2
      <3>2. CASE e \in w
        <4>1. /\ cl.queue # <<>>
              /\ e < cl.queue[1] \/ \E i \in 1..Len(cl.queue) : cl.queue[i] = e
          BY <1>1, <3>2 DEF Queued, w
        <4> QED
          BY <4>1, <2>2
      <3> QED
        BY <3>1, <3>2
    <2>7. Exact(now, id, mark, [event |-> q[1], dropped |-> cl.dropped])
      <3>1. CASE cl.queue = <<>>
        <4>1. cl.dropped = 0 /\ w = {} /\ q[1] = n
          BY <1>1, <3>1, <2>2 DEF Queued, w
        <4>2. Follows(now, id, mark, n) = {n}
          BY <1>4, <4>1
        <4>3. Cardinality({n}) = 1
          BY FS_Singleton
        <4>4. n \in (mark + 1)..Len(now)
          BY <1>2, <1>3 DEF n
        <4>5. Cardinality(Follows(now, id, mark, q[1])) = cl.dropped + 1
          BY <4>1, <4>2, <4>3
        <4> QED
          BY <4>1, <4>4, <4>5 DEF Exact
      <3>2. CASE cl.queue # <<>>
        <4>1. /\ q[1] = cl.queue[1] /\ cl.queue[1] \in Nat
              /\ Exact(events, id, mark, [event |-> cl.queue[1], dropped |-> cl.dropped])
          BY <1>1, <1>4, <3>2, <2>2 DEF Queued, id, mark
        <4> QED
          BY <4>1, <1>2, <1>3, ExactAppended DEF now
      <3> QED
        BY <3>1, <3>2
    <2>8. Queued(now, cl2)
      BY <1>6, <2>2, <2>3, <2>4, <2>5, <2>6, <2>7 DEF Queued
    <2> QED
      BY <2>3, <2>8 DEF ClientInv, cl2, now, n
  <1>7. CASE Len(cl.queue) >= QUEUE_SIZE
    <2> DEFINE rest == Tail(cl.queue)
               q == Append(rest, n)
    <2>1. cl2 = [cl EXCEPT !.queue = q, !.dropped = cl.dropped + 1]
      BY <1>7, <1>2, PutFacts DEF Stream!Offer
    <2>2. cl.queue # <<>>
      BY <1>7, EmptySeq
    <2>3. /\ Len(cl.queue) \in Nat \ {0}
          /\ Len(cl.queue) = QUEUE_SIZE
          /\ rest \in Seq(Nat)
          /\ Len(rest) = Len(cl.queue) - 1
          /\ \A i \in 1..(Len(cl.queue) - 1) : rest[i] = cl.queue[i + 1]
      BY <1>1, <1>2, <1>7, <2>2, GetFacts DEF Queued
    <2>4. /\ q \in Seq(Nat) /\ q # <<>>
          /\ Len(q) = Len(cl.queue)
          /\ \A i \in 1..(Len(cl.queue) - 1) : q[i] = cl.queue[i + 1]
          /\ q[Len(cl.queue)] = n
      <3> HIDE DEF rest, n
      <3>1. /\ q \in Seq(Nat) /\ q # <<>>
            /\ Len(q) = Len(rest) + 1
            /\ \A i \in 1..Len(rest) : q[i] = rest[i]
            /\ q[Len(rest) + 1] = n
        BY <1>2, <2>3, PutFacts
      <3> HIDE DEF q
      <3> QED
        BY <2>3, <3>1
    <2>5. /\ cl2 \in Subscriber
          /\ cl2.at # "away"
          /\ cl2.queue = q /\ cl2.dropped = cl.dropped + 1 /\ cl2.run_id = id
          /\ LastTaken(cl2) = mark
          /\ Received(now, cl2) /\ InTheSocket(now, cl2)
          /\ Waiting(now, cl2) = w \cup {n}
      <3>1. cl.dropped + 1 \in Nat
        BY <1>2
      <3> HIDE DEF q, rest, cl2, w, n, now
      <3> QED
        BY <1>5, <2>1, <2>4, <3>1
    <2> HIDE DEF q, rest, w, mark, id, n, now, cl2
    <2>6. /\ \A i \in 1..Len(cl.queue) : cl.queue[i] \in w
          /\ \A i, j \in 1..Len(cl.queue) : i < j => cl.queue[i] < cl.queue[j]
          /\ \A e \in w : e < cl.queue[1] \/ \E i \in 1..Len(cl.queue) : cl.queue[i] = e
          /\ Exact(events, id, mark, [event |-> cl.queue[1], dropped |-> cl.dropped])
      BY <1>1, <2>2 DEF Queued, w, mark, id
    <2>7. \A i \in 1..Len(cl.queue) : cl.queue[i] \in Nat /\ cl.queue[i] < n
      BY <1>4, <2>6
    <2>8. ASSUME NEW i \in 1..Len(q)
          PROVE  q[i] \in w \cup {n}
      <3>1. i = Len(cl.queue) \/ (i \in 1..(Len(cl.queue) - 1) /\ i + 1 \in 1..Len(cl.queue))
        BY <2>3, <2>4
      <3>2. CASE i = Len(cl.queue)
        BY <3>2, <2>4
      <3>3. CASE i \in 1..(Len(cl.queue) - 1) /\ i + 1 \in 1..Len(cl.queue)
        <4>1. q[i] = cl.queue[i + 1] /\ cl.queue[i + 1] \in w
          BY <3>3, <2>4, <2>6
        <4> QED
          BY <4>1
      <3> QED
        BY <3>1, <3>2, <3>3
    <2>9. \A i, j \in 1..Len(q) : i < j => q[i] < q[j]
      <3> SUFFICES ASSUME NEW i \in 1..Len(q), NEW j \in 1..Len(q), i < j
                   PROVE  q[i] < q[j]
        OBVIOUS
      <3>1. i \in 1..(Len(cl.queue) - 1) /\ i + 1 \in 1..Len(cl.queue)
        BY <2>3, <2>4
      <3>2. j = Len(cl.queue) \/ (j \in 1..(Len(cl.queue) - 1) /\ j + 1 \in 1..Len(cl.queue))
        BY <2>3, <2>4
      <3> QED
        BY <3>1, <3>2, <2>4, <2>6, <2>7
    <2>10. q[1] \in Nat /\ cl.queue[1] < q[1] /\ q[1] <= n
      <3>1. CASE Len(cl.queue) = 1
        BY <3>1, <1>2, <2>4, <2>7
      <3>2. CASE Len(cl.queue) > 1
        <4>1. 1 \in 1..(Len(cl.queue) - 1) /\ 2 \in 1..Len(cl.queue) /\ 1 \in 1..Len(cl.queue)
          BY <3>2, <2>3
        <4>2. q[1] = cl.queue[1 + 1]
          BY <4>1, <2>4
        <4>3. cl.queue[1] < cl.queue[2]
          BY <4>1, <2>6
        <4> QED
          BY <4>1, <4>2, <4>3, <2>7, <1>2
      <3> QED
        BY <2>3, <3>1, <3>2
    <2>11. ASSUME NEW e \in w \cup {n}
           PROVE  e < q[1] \/ \E i \in 1..Len(q) : q[i] = e
      <3>1. CASE e = n
        BY <3>1, <2>3, <2>4
      <3>2. CASE e \in w /\ e < cl.queue[1]
        BY <3>2, <1>4, <2>7, <2>3, <2>10
      <3>3. ASSUME NEW i \in 1..Len(cl.queue), cl.queue[i] = e
            PROVE  e < q[1] \/ \E j \in 1..Len(q) : q[j] = e
        <4>1. CASE i = 1
          BY <3>3, <4>1, <2>10
        <4>2. CASE i # 1
          <5>1. i - 1 \in 1..(Len(cl.queue) - 1) /\ i - 1 \in 1..Len(q) /\ (i - 1) + 1 = i
            BY <4>2, <2>3, <2>4
          <5> QED
            BY <3>3, <5>1, <2>4
        <4> QED
          BY <4>1, <4>2
      <3> QED
        BY <3>1, <3>2, <3>3, <2>6
    <2>12. /\ cl.queue[1] \in Nat /\ mark < cl.queue[1] /\ cl.queue[1] <= Len(events)
           /\ Cardinality(Follows(events, id, mark, cl.queue[1])) = cl.dropped + 1
      BY <1>3, <2>3, <2>6, <2>7 DEF Exact
    <2>13. Follows(now, id, mark, q[1]) = Follows(events, id, mark, cl.queue[1]) \cup {q[1]}
      <3>1. Follows(now, id, mark, q[1]) = {e \in Follows(now, id, mark, n) : e <= q[1]}
        BY <1>2, <1>3, <2>10 DEF Follows
      <3>2. Follows(events, id, mark, cl.queue[1]) = {e \in w : e <= cl.queue[1]}
        BY <1>2, <1>3, <2>12 DEF Follows, Waiting, w, id, mark
      <3>3. \A e \in w : e < q[1] => e <= cl.queue[1]
        <4> SUFFICES ASSUME NEW e \in w, e < q[1], cl.queue[1] < e
                     PROVE  FALSE
          BY <1>4, <2>12
        <4>1. PICK i \in 1..Len(cl.queue) : cl.queue[i] = e
          BY <1>4, <2>6, <2>12
        <4>2. i # 1 /\ i \in Nat
          BY <4>1, <2>12
        <4>3. i - 1 \in 1..(Len(cl.queue) - 1) /\ (i - 1) + 1 = i /\ 1 \in 1..Len(q) /\ i - 1 \in 1..Len(q)
          BY <4>2, <2>3, <2>4
        <4>4. q[i - 1] = e
          BY <4>1, <4>3, <2>4
        <4>5. i - 1 = 1 \/ 1 < i - 1
          BY <4>2, <4>3, <2>3
        <4>6. i - 1 = 1 \/ q[1] < q[i - 1]
          BY <4>3, <4>5, <2>9
        <4> QED
          BY <4>4, <4>6, <2>10, <1>4
      <3>4. q[1] \in w \cup {n}
        BY <2>3, <2>4, <2>8
      <3>5. q[1] \in Follows(now, id, mark, q[1])
        BY <1>4, <2>10, <3>1, <3>4
      <3>6. ASSUME NEW e \in Follows(now, id, mark, q[1])
            PROVE  e \in Follows(events, id, mark, cl.queue[1]) \cup {q[1]}
        <4>1. e \in w \cup {n} /\ e <= q[1]
          BY <1>4, <3>1
        <4>2. e = q[1] \/ (e \in w /\ e < q[1])
          BY <4>1, <1>2, <1>4, <2>10
        <4> QED
          BY <4>2, <3>2, <3>3
      <3>7. ASSUME NEW e \in Follows(events, id, mark, cl.queue[1])
            PROVE  e \in Follows(now, id, mark, q[1])
        <4>1. e \in w /\ e <= cl.queue[1]
          BY <3>2
        <4> QED
          BY <4>1, <1>4, <2>10, <2>12, <3>1
      <3> QED
        BY <3>5, <3>6, <3>7
    <2>14. q[1] \notin Follows(events, id, mark, cl.queue[1])
      BY <2>10, <2>12 DEF Follows
    <2>15. Cardinality(Follows(now, id, mark, q[1])) = (cl.dropped + 1) + 1
      <3>1. IsFiniteSet(Follows(events, id, mark, cl.queue[1]))
        BY <1>3, <2>12, FollowsIsFinite
      <3>2. Cardinality(Follows(events, id, mark, cl.queue[1]) \cup {q[1]})
              = Cardinality(Follows(events, id, mark, cl.queue[1])) + 1
        BY <2>14, <3>1, FS_AddElement
      <3> QED
        BY <2>12, <2>13, <3>2
    <2>16. Exact(now, id, mark, [event |-> q[1], dropped |-> cl.dropped + 1])
      <3>1. q[1] \in (mark + 1)..Len(now)
        BY <1>2, <1>3, <2>10, <2>12
      <3> QED
        BY <2>15, <3>1 DEF Exact
    <2>17. Queued(now, cl2)
      BY <1>2, <2>3, <2>4, <2>5, <2>8, <2>9, <2>11, <2>16 DEF Queued
    <2> QED
      BY <2>5, <2>17 DEF ClientInv, cl2, now, n
  <1> QED
    BY <1>2, <1>6, <1>7, PutFacts

Taken(cl) == [cl EXCEPT !.at = "send", !.queue = Tail(@), !.dropped = 0,
                        !.message = [event |-> Head(cl.queue), dropped |-> cl.dropped]]

(* Taking the oldest event: those that are left wait for it.               *)
LEMMA TakeKeepsCount ==
    ASSUME NEW events \in Seq(Runs), NEW cl \in Subscriber,
           cl.at = "pump", cl.queue # <<>>, ClientInv(events, cl)
    PROVE  Taken(cl) \in Subscriber /\ ClientInv(events, Taken(cl))
  <1> DEFINE cl2 == Taken(cl)
             id == cl.run_id
             mark == LastTaken(cl)
             q == Tail(cl.queue)
             first == cl.queue[1]
             w == Waiting(events, cl)
  <1>1. Received(events, cl) /\ Queued(events, cl)
    BY DEF ClientInv
  <1>2. /\ cl.queue \in Seq(Nat)
        /\ cl.dropped \in Nat
        /\ Len(events) \in Nat
    BY LenProperties DEF Subscriber
  <1>3. /\ Len(cl.queue) \in Nat \ {0}
        /\ Head(cl.queue) = first
        /\ q \in Seq(Nat)
        /\ Len(q) = Len(cl.queue) - 1
        /\ \A i \in 1..(Len(cl.queue) - 1) : q[i] = cl.queue[i + 1]
        /\ \A i \in 1..Len(cl.queue) : cl.queue[i] \in Nat
        /\ q = <<>> <=> Len(cl.queue) = 1
    BY <1>2, GetFacts
  <1>4. first \in Nat
    BY <1>3
  <1>5. /\ cl2 \in Subscriber
        /\ cl2.at = "send" /\ cl2.queue = q /\ cl2.dropped = 0 /\ cl2.run_id = id
        /\ cl2.message = [event |-> first, dropped |-> cl.dropped]
        /\ cl2.since = cl.since /\ cl2.received = cl.received
    <2> HIDE DEF q, first
    <2>1. [event |-> first, dropped |-> cl.dropped] \in Notice
      BY <1>2, <1>4 DEF Notice
    <2>2. cl2 = [cl EXCEPT !.at = "send", !.queue = q, !.dropped = 0,
                           !.message = [event |-> first, dropped |-> cl.dropped]]
      BY <1>3 DEF Taken, q
    <2> HIDE DEF cl2
    <2> QED
      BY <1>3, <2>1, <2>2 DEF Subscriber, Places
  <1> HIDE DEF cl2, q
  <1>6. mark = LastReceived(cl) /\ LastReceived(cl2) = mark /\ LastTaken(cl2) = first
    BY <1>5 DEF LastTaken, LastReceived, Before
  <1>7. mark \in 0..Len(events)
    BY <1>1, Marks DEF InTheSocket
  <1>8. /\ Len(cl.queue) <= QUEUE_SIZE
        /\ \A i \in 1..Len(cl.queue) : cl.queue[i] \in w
        /\ \A i, j \in 1..Len(cl.queue) : i < j => cl.queue[i] < cl.queue[j]
        /\ \A e \in w : e < first \/ \E i \in 1..Len(cl.queue) : cl.queue[i] = e
        /\ Exact(events, id, mark, [event |-> first, dropped |-> cl.dropped])
    BY <1>1 DEF Queued
  <1>9. first \in (mark + 1)..Len(events)
    BY <1>8 DEF Exact
  <1>10. Received(events, cl2) /\ InTheSocket(events, cl2)
    BY <1>1, <1>5, <1>6, <1>8 DEF Received, Before, InTheSocket
  <1>11. Waiting(events, cl2) = {e \in w : first < e}
    BY <1>2, <1>5, <1>6, <1>7, <1>9 DEF Waiting, Follows
  <1> HIDE DEF w, mark, first, id
  <1>12. ASSUME NEW i \in 1..Len(q)
         PROVE  /\ i \in 1..(Len(cl.queue) - 1) /\ i + 1 \in 1..Len(cl.queue)
                /\ q[i] = cl.queue[i + 1] /\ q[i] \in w /\ first < q[i]
    <2>1. /\ i \in 1..(Len(cl.queue) - 1) /\ i + 1 \in 1..Len(cl.queue)
          /\ 1 \in 1..Len(cl.queue) /\ 1 < i + 1
      BY <1>3
    <2>2. q[i] = cl.queue[i + 1]
      BY <2>1, <1>3
    <2>3. cl.queue[i + 1] \in w /\ cl.queue[1] < cl.queue[i + 1]
      BY <2>1, <1>8
    <2> QED
      BY <2>1, <2>2, <2>3 DEF first
  <1>13. ASSUME NEW e \in Waiting(events, cl2)
         PROVE  \E i \in 1..Len(q) : q[i] = e
    <2>1. PICK i \in 1..Len(cl.queue) : cl.queue[i] = e
      BY <1>2, <1>4, <1>8, <1>11 DEF w, Waiting, Follows
    <2>2. i # 1
      BY <1>4, <1>11, <2>1 DEF first
    <2>3. i - 1 \in 1..Len(q) /\ (i - 1) + 1 = i /\ i - 1 \in 1..(Len(cl.queue) - 1)
      BY <1>3, <2>2
    <2> QED
      BY <1>3, <2>1, <2>3
  <1>14. \A i, j \in 1..Len(q) : i < j => q[i] < q[j]
    <2> SUFFICES ASSUME NEW i \in 1..Len(q), NEW j \in 1..Len(q), i < j
                 PROVE  q[i] < q[j]
      OBVIOUS
    <2>1. q[i] = cl.queue[i + 1] /\ q[j] = cl.queue[j + 1]
      BY <1>12
    <2>2. i + 1 \in 1..Len(cl.queue) /\ j + 1 \in 1..Len(cl.queue) /\ i + 1 < j + 1
      BY <1>12, <1>3
    <2> QED
      BY <2>1, <2>2, <1>8
  <1>15. ASSUME q # <<>>
         PROVE  Exact(events, id, first, [event |-> q[1], dropped |-> 0])
    <2>1. 1 \in 1..Len(q)
      BY <1>3, <1>15
    <2>2. q[1] \in w /\ first < q[1] /\ q[1] \in Nat
      BY <1>12, <2>1, <1>3, ElementOfSeq
    <2>3. q[1] \in (first + 1)..Len(events)
      BY <1>2, <1>4, <2>2 DEF w, Waiting, Follows
    <2>4. \A e \in Follows(events, id, first, q[1]) : e \in Waiting(events, cl2) /\ e <= q[1]
      BY <1>2, <1>4, <1>5, <1>6, <2>3 DEF Waiting, Follows
    <2>5. \A i \in 1..Len(q) : q[1] <= q[i]
      <3> SUFFICES ASSUME NEW i \in 1..Len(q)
                   PROVE  q[1] <= q[i]
        OBVIOUS
      <3>1. i = 1 \/ 1 < i
        OBVIOUS
      <3>2. i = 1 \/ q[1] < q[i]
        BY <2>1, <3>1, <1>14
      <3> QED
        BY <2>2, <3>2, <1>3, <1>12
    <2>6. \A e \in Follows(events, id, first, q[1]) : e = q[1]
      <3> SUFFICES ASSUME NEW e \in Follows(events, id, first, q[1])
                   PROVE  e = q[1]
        OBVIOUS
      <3>1. PICK i \in 1..Len(q) : q[i] = e
        BY <1>13, <2>4
      <3>2. e <= q[1] /\ q[1] <= e /\ e \in Nat
        BY <3>1, <2>4, <2>5, <1>4 DEF Follows
      <3> QED
        BY <3>2, <2>2
    <2>7. q[1] \in Follows(events, id, first, q[1])
      BY <2>2, <2>3, <1>4 DEF w, Waiting, Follows, id
    <2>8. Follows(events, id, first, q[1]) = {q[1]}
      BY <2>6, <2>7
    <2>9. Cardinality({q[1]}) = 1
      BY FS_Singleton
    <2>10. Cardinality(Follows(events, id, first, q[1])) = 0 + 1
      BY <2>8, <2>9
    <2> QED
      BY <2>3, <2>10 DEF Exact
  <1>16. Len(q) <= QUEUE_SIZE
    BY <1>3, <1>8, QueueAssumption
  <1>17. ASSUME q = <<>>
         PROVE  Waiting(events, cl2) = {}
    <2>1. Len(q) = 0
      BY <1>17, EmptySeq
    <2> QED
      BY <2>1, <1>13
  <1>18. Queued(events, cl2)
    <2>1. /\ \A i \in 1..Len(q) : q[i] \in Waiting(events, cl2)
          /\ \A e \in Waiting(events, cl2) :
                e < q[1] \/ \E i \in 1..Len(q) : q[i] = e
      BY <1>11, <1>12, <1>13
    <2> QED
      BY <2>1, <1>5, <1>6, <1>14, <1>15, <1>16, <1>17 DEF Queued
  <1> QED
    BY <1>5, <1>10, <1>18 DEF ClientInv, cl2

Sent(cl) == [cl EXCEPT !.at = "pump", !.received = Append(@, cl.message)]

(* Sending what was taken: it becomes the last event received.             *)
LEMMA SendKeepsCount ==
    ASSUME NEW events \in Seq(Runs), NEW cl \in Subscriber,
           cl.at = "send", ClientInv(events, cl)
    PROVE  Sent(cl) \in Subscriber /\ ClientInv(events, Sent(cl))
  <1> DEFINE cl2 == Sent(cl)
             got == Append(cl.received, cl.message)
             k == Len(cl.received)
  <1>1. Received(events, cl) /\ InTheSocket(events, cl) /\ Queued(events, cl)
    BY DEF ClientInv
  <1>2. /\ cl.received \in Seq(Notice)
        /\ cl.message \in Notice
        /\ k \in Nat
    BY LenProperties DEF Subscriber
  <1>3. /\ got \in Seq(Notice)
        /\ Len(got) = k + 1
        /\ \A i \in 1..k : got[i] = cl.received[i]
        /\ got[k + 1] = cl.message
    BY <1>2, AppendProperties
  <1> HIDE DEF got
  <1>4. /\ cl2 \in Subscriber
        /\ cl2.at = "pump" /\ cl2.received = got /\ cl2.run_id = cl.run_id
        /\ cl2.since = cl.since /\ cl2.queue = cl.queue /\ cl2.dropped = cl.dropped
    BY <1>3 DEF Sent, got, Subscriber, Places
  <1> HIDE DEF cl2
  <1>5. \A i \in 1..(k + 1) : Before(cl2, i) = Before(cl, i)
    BY <1>2, <1>3, <1>4 DEF Before
  <1>6. LastTaken(cl2) = LastTaken(cl)
    <2>1. LastReceived(cl2) = got[k + 1].event
      BY <1>2, <1>3, <1>4 DEF LastReceived, Before
    <2> QED
      BY <2>1, <1>3, <1>4 DEF LastTaken
  <1>7. Received(events, cl2)
    <2>1. ASSUME NEW i \in 1..(k + 1)
          PROVE  Exact(events, cl.run_id, Before(cl2, i), got[i])
      <3>1. CASE i = k + 1
        BY <3>1, <1>1, <1>3, <1>5 DEF InTheSocket, LastReceived
      <3>2. CASE i \in 1..k
        BY <3>2, <1>1, <1>3, <1>5 DEF Received
      <3> QED
        BY <3>1, <3>2, <1>2
    <2> QED
      BY <2>1, <1>1, <1>3, <1>4 DEF Received
  <1>8. InTheSocket(events, cl2) /\ Queued(events, cl2)
    BY <1>1, <1>4, <1>6 DEF InTheSocket, Queued, Waiting
  <1> QED
    BY <1>4, <1>7, <1>8 DEF ClientInv, cl2

(* A connection begins at the newest event, with nothing to wait for.      *)
LEMMA ConnectStartsCount ==
    ASSUME QUEUE_SIZE \in Nat \ {0},
           NEW events \in Seq(Runs), NEW id \in Runs \cup {Every}
    PROVE  LET cl == [Stream!Away EXCEPT !.at = "pump", !.run_id = id, !.since = Len(events)]
           IN  cl \in Subscriber /\ ClientInv(events, cl)
  <1> DEFINE cl == [Stream!Away EXCEPT !.at = "pump", !.run_id = id, !.since = Len(events)]
  <1>1. Len(events) \in Nat /\ Len(<<>>) = 0 /\ <<>> \in Seq(Nat) /\ <<>> \in Seq(Notice)
    BY LenProperties, EmptySeq
  <1>2. /\ cl.at = "pump" /\ cl.run_id = id /\ cl.since = Len(events) /\ cl.queue = <<>>
        /\ cl.dropped = 0 /\ cl.received = <<>>
        /\ cl \in Subscriber
    BY <1>1 DEF Stream!Away, Subscriber, Places, Notice
  <1> HIDE DEF cl
  <1>3. LastTaken(cl) = Len(events)
    BY <1>1, <1>2 DEF LastTaken, LastReceived, Before
  <1>4. Waiting(events, cl) = {}
    BY <1>1, <1>3 DEF Waiting, Follows
  <1>5. Received(events, cl) /\ InTheSocket(events, cl) /\ Queued(events, cl)
    BY <1>1, <1>2, <1>4 DEF Received, InTheSocket, Queued
  <1> QED
    BY <1>2, <1>5 DEF ClientInv, cl

----------------------------------------------------------------------------
LEMMA StreamInitial == DeliveriesInit => StreamInv
  <1> SUFFICES ASSUME DeliveriesInit
               PROVE  StreamInv
    OBVIOUS
  <1>1. published = <<>> /\ client = [c \in Clients |-> Stream!Away]
    BY DEF DeliveriesInit, Stream!Init
  <1>2. published \in Seq(Runs)
    BY <1>1, EmptySeq
  <1>3. Stream!Away \in Subscriber
    <2>1. <<>> \in Seq(Nat) /\ <<>> \in Seq(Notice)
      BY EmptySeq
    <2> QED
      BY <2>1 DEF Stream!Away, Subscriber, Places, Notice
  <1> QED
    BY <1>1, <1>2, <1>3 DEF StreamInv, StreamTypeOK, ClientInv, Stream!Away

LEMMA PublishInv ==
    ASSUME StreamInv, NEW run \in Runs, Stream!Publish(run)
    PROVE  StreamInv'
  <1> DEFINE n == Len(published) + 1
             now == Append(published, run)
  <1>1. /\ published \in Seq(Runs)
        /\ client \in [Clients -> Subscriber]
        /\ \A c \in Clients : ClientInv(published, client[c])
    BY DEF StreamInv, StreamTypeOK
  <1>2. published' = now /\ now \in Seq(Runs)
    BY <1>1, AppendProperties DEF Stream!Publish
  <1>3. client' = [c \in Clients |->
            IF client[c].at # "away" /\ client[c].run_id \in {run, Every}
            THEN Stream!Offer(client[c], n) ELSE client[c]]
    BY DEF Stream!Publish, Stream!Wants
  <1>4. ASSUME NEW c \in Clients
        PROVE  client'[c] \in Subscriber /\ ClientInv(now, client'[c])
    <2>1. CASE client[c].at # "away" /\ client[c].run_id \in {run, Every}
      <3>1. client'[c] = Stream!Offer(client[c], n)
        BY <1>3, <2>1
      <3> QED
        BY <1>1, <2>1, <3>1, OfferKeepsCount, QueueAssumption
    <2>2. CASE ~(client[c].at # "away" /\ client[c].run_id \in {run, Every})
      <3>1. client'[c] = client[c]
        BY <1>3, <2>2
      <3>2. client[c].at = "away" \/ client[c].run_id \notin {run, Every}
        BY <2>2
      <3> QED
        BY <1>1, <3>1, <3>2, OthersKeepWaiting
    <2> QED
      BY <2>1, <2>2
  <1>5. client' \in [Clients -> Subscriber]
    BY <1>3, <1>4
  <1> QED
    BY <1>2, <1>4, <1>5 DEF StreamInv, StreamTypeOK

(* The other steps are of one connection, and publish nothing.             *)
LEMMA OneConnection ==
    ASSUME StreamInv, NEW c \in Clients, NEW cl \in Subscriber, ClientInv(published, cl),
           client' = [client EXCEPT ![c] = cl], published' = published
    PROVE  StreamInv'
  BY DEF StreamInv, StreamTypeOK

LEMMA ConnectInv ==
    ASSUME StreamInv, NEW c \in Clients, NEW id \in Runs \cup {Every}, Stream!Connect(c, id)
    PROVE  StreamInv'
  BY ConnectStartsCount, OneConnection, QueueAssumption DEF Stream!Connect, StreamInv, StreamTypeOK

LEMMA TakeInv ==
    ASSUME StreamInv, NEW c \in Clients, Stream!Take(c)
    PROVE  StreamInv'
  <1>1. /\ published \in Seq(Runs)
        /\ client[c] \in Subscriber
        /\ ClientInv(published, client[c])
    BY DEF StreamInv, StreamTypeOK
  <1>2. /\ client[c].at = "pump" /\ client[c].queue # <<>>
        /\ client' = [client EXCEPT ![c] = Taken(client[c])]
        /\ published' = published
    BY DEF Stream!Take, Taken
  <1> QED
    BY <1>1, <1>2, TakeKeepsCount, OneConnection

LEMMA SendInv ==
    ASSUME StreamInv, NEW c \in Clients, Stream!Send(c)
    PROVE  StreamInv'
  <1>1. /\ published \in Seq(Runs)
        /\ client \in [Clients -> Subscriber]
        /\ ClientInv(published, client[c])
    BY DEF StreamInv, StreamTypeOK
  <1>2. /\ client[c].at = "send"
        /\ client' = [client EXCEPT ![c] = Sent(client[c])]
        /\ published' = published
    BY <1>1 DEF Stream!Send, Sent
  <1> QED
    BY <1>1, <1>2, SendKeepsCount, OneConnection

LEMMA DisconnectInv ==
    ASSUME StreamInv, NEW c \in Clients, Stream!Disconnect(c)
    PROVE  StreamInv'
  <1>1. Stream!Away \in Subscriber
    <2>1. <<>> \in Seq(Nat) /\ <<>> \in Seq(Notice)
      BY EmptySeq
    <2> QED
      BY <2>1 DEF Stream!Away, Subscriber, Places, Notice
  <1>2. ClientInv(published, Stream!Away)
    BY DEF ClientInv, Stream!Away
  <1> QED
    BY <1>1, <1>2, OneConnection DEF Stream!Disconnect

LEMMA StreamStep == StreamInv /\ [DeliveriesNext]_allVars => StreamInv'
  <1> SUFFICES ASSUME StreamInv, [DeliveriesNext]_allVars
               PROVE  StreamInv'
    OBVIOUS
  <1>1. CASE Stream!Next
    <2>1. CASE \E run \in Runs : Stream!Publish(run)
      BY <2>1, PublishInv
    <2>2. ASSUME NEW c \in Clients,
                 \/ \E id \in Runs \cup {Every} : Stream!Connect(c, id)
                 \/ Stream!Pump(c)
                 \/ Stream!Disconnect(c)
          PROVE  StreamInv'
      BY <2>2, ConnectInv, TakeInv, SendInv, DisconnectInv DEF Stream!Pump
    <2> QED
      BY <1>1, <2>1, <2>2 DEF Stream!Next
  <1>2. CASE UNCHANGED streamVars
    BY <1>2 DEF streamVars, StreamInv, StreamTypeOK
  <1> QED
    BY <1>1, <1>2 DEF DeliveriesNext, allVars, streamVars

(* The instance counts with a copy of Cardinality of its own.              *)
LEMMA SameCardinality == \A S : Stream!Cardinality(S) = Cardinality(S)
  BY DEF Stream!Cardinality, Cardinality

LEMMA CountedIsReported == StreamInv => GapsReported
  <1> SUFFICES ASSUME StreamInv, NEW c \in Clients
               PROVE  /\ Len(client[c].queue) <= QUEUE_SIZE
                      /\ \A i \in DOMAIN client[c].received :
                            /\ client[c].received[i].event > Stream!LastBefore(c, i)
                            /\ Cardinality(Stream!Followed(c, Stream!LastBefore(c, i), client[c].received[i].event))
                                 = client[c].received[i].dropped + 1
    BY SameCardinality DEF GapsReported, Stream!GapsReported
  <1> DEFINE cl == client[c]
  <1>1. cl \in Subscriber /\ ClientInv(published, cl) /\ published \in Seq(Runs)
    BY DEF StreamInv, StreamTypeOK
  <1>2. CASE cl.at = "away"
    <2>1. cl.queue = <<>> /\ cl.received = <<>> /\ Len(<<>>) = 0
      BY <1>1, <1>2, EmptySeq DEF ClientInv, Stream!Away
    <2>2. DOMAIN cl.received = {}
      BY <2>1
    <2> QED
      BY <2>1, <2>2, QueueAssumption
  <1>3. CASE cl.at # "away"
    <2>1. Received(published, cl) /\ InTheSocket(published, cl) /\ Queued(published, cl)
      BY <1>1, <1>3 DEF ClientInv
    <2>2. DOMAIN cl.received = 1..Len(cl.received) /\ Len(cl.received) \in Nat /\ Len(published) \in Nat
      BY <1>1, LenProperties DEF Subscriber
    <2>3. ASSUME NEW i \in 1..Len(cl.received)
          PROVE  /\ cl.received[i].event > Stream!LastBefore(c, i)
                 /\ Cardinality(Stream!Followed(c, Stream!LastBefore(c, i), cl.received[i].event))
                      = cl.received[i].dropped + 1
      <3>1. Before(cl, i) = Stream!LastBefore(c, i)
        BY DEF Before, Stream!LastBefore
      <3>2. Exact(published, cl.run_id, Before(cl, i), cl.received[i])
        BY <2>1 DEF Received
      <3>3. Before(cl, i) \in Nat
        BY <1>1, <2>1, <2>2, Marks
      <3>4. Follows(published, cl.run_id, Before(cl, i), cl.received[i].event)
              = Stream!Followed(c, Before(cl, i), cl.received[i].event)
        BY DEF Follows, Stream!Followed, Stream!Wants
      <3> QED
        BY <2>2, <3>1, <3>2, <3>3, <3>4 DEF Exact
    <2> QED
      BY <2>1, <2>2, <2>3 DEF Queued
  <1> QED
    BY <1>2, <1>3

(* However publishing, a slow socket and a full queue interleave, for any  *)
(* connections, runs and events and any size of the queue: the count sent  *)
(* with a message is exactly the number of followed events lost before it, *)
(* and no queue grows beyond its bound (Subscriber.offer, _pump).          *)
THEOREM EveryGapIsReported == DeliveriesSpec => []GapsReported
  BY StreamInitial, StreamStep, CountedIsReported, PTL DEF DeliveriesSpec

----------------------------------------------------------------------------
(* The mailbox. *)

Entry == [number : Nat, mail : Messages]
Session == [at : {"idle", "check", "insert", "flag"}, batch : Seq(Entry)]

MailboxTypeOK ==
    /\ mailbox \in Seq(Messages)
    /\ rows \in [Messages -> Nat]
    /\ sync \in [Syncs -> Session]
    /\ \A s \in Syncs : sync[s].at # "idle" => sync[s].batch # <<>>

(* A message that names itself is stored under its name.                   *)
NamedOnce ==
    \A m \in Messages \ Anonymous : rows[m] <= 1 /\ (rows[m] > 0 => [mail |-> m] \in ids)

(* While nothing is expunged numbers do not move: what was fetched is where *)
(* it was, a message without a name is stored under its number, and what   *)
(* was stored is what is flagged.                                          *)
Arrived ==
    /\ \A i \in 1..Len(mailbox) : mailbox[i] \in arrived
    /\ \A i, j \in 1..Len(mailbox) : mailbox[i] = mailbox[j] => i = j
InPlace(listing, batch) ==
    \A k \in 1..Len(batch) :
        batch[k].number \in 1..Len(listing) /\ listing[batch[k].number] = batch[k].mail
NumberedOnce ==
    \A m \in Messages \cap Anonymous :
        /\ rows[m] <= 1
        /\ rows[m] > 0 => \E i \in 1..Len(mailbox) : mailbox[i] = m /\ [number |-> i] \in ids
FlagsWhatIsStored ==
    /\ \A m \in seen \ opened : m \in Messages /\ rows[m] > 0
    /\ \A s \in Syncs : sync[s].at = "flag" => rows[sync[s].batch[1].mail] > 0

Unmoved == /\ Arrived
           /\ \A s \in Syncs : InPlace(mailbox, sync[s].batch)
           /\ NumberedOnce
           /\ FlagsWhatIsStored

MailboxInv == MailboxTypeOK /\ NamedOnce /\ ("expunge" \notin lost => Unmoved)

LEMMA MailboxInitial == DeliveriesInit => MailboxInv
  <1> SUFFICES ASSUME DeliveriesInit
               PROVE  MailboxInv
    OBVIOUS
  <1>1. Sync!Init
    BY DEF DeliveriesInit
  <1>2. <<>> \in Seq(Messages) /\ <<>> \in Seq(Entry) /\ Len(<<>>) = 0
    BY EmptySeq
  <1>3. /\ mailbox = <<>> /\ seen = {} /\ opened = {} /\ rows = [m \in Messages |-> 0]
        /\ sync = [s \in Syncs |-> [at |-> "idle", batch |-> <<>>]]
    BY <1>1 DEF Sync!Init, Sync!Idle
  <1>4. MailboxTypeOK
    BY <1>2, <1>3 DEF MailboxTypeOK, Session
  <1>5. NamedOnce /\ Unmoved
    BY <1>2, <1>3 DEF NamedOnce, Unmoved, Arrived, InPlace, NumberedOnce, FlagsWhatIsStored
  <1> QED
    BY <1>4, <1>5 DEF MailboxInv

(* What a session holds, and what is left when it advances.                *)
LEMMA AtWork ==
    ASSUME MailboxTypeOK, NEW s \in Syncs, sync[s].at # "idle"
    PROVE  /\ Sync!Current(s) = sync[s].batch[1]
           /\ Sync!Current(s) \in Entry
           /\ 1 \in 1..Len(sync[s].batch)
  <1>1. sync[s].batch \in Seq(Entry) /\ sync[s].batch # <<>>
    BY DEF MailboxTypeOK, Session
  <1>2. /\ Len(sync[s].batch) \in Nat \ {0}
        /\ Head(sync[s].batch) = sync[s].batch[1]
        /\ \A i \in 1..Len(sync[s].batch) : sync[s].batch[i] \in Entry
    BY <1>1, GetFacts
  <1>3. 1 \in 1..Len(sync[s].batch)
    BY <1>2
  <1> QED
    BY <1>2, <1>3 DEF Sync!Current

(* A step of one session: it stays well formed, and what it holds in place. *)
LEMMA OneSession ==
    ASSUME MailboxTypeOK, NEW s \in Syncs, NEW new \in Session,
           new.at # "idle" => new.batch # <<>>,
           sync' = [sync EXCEPT ![s] = new]
    PROVE  /\ sync' \in [Syncs -> Session]
           /\ \A t \in Syncs : sync'[t].at # "idle" => sync'[t].batch # <<>>
           /\ sync'[s] = new
           /\ \A t \in Syncs \ {s} : sync'[t] = sync[t]
  BY DEF MailboxTypeOK

LEMMA Advances ==
    ASSUME MailboxTypeOK, NEW s \in Syncs, sync[s].at # "idle", Sync!Advance(s)
    PROVE  \E new \in Session :
              /\ sync' = [sync EXCEPT ![s] = new]
              /\ new.at \in {"idle", "check"}
              /\ new.at # "idle" => new.batch # <<>>
              /\ InPlace(mailbox, sync[s].batch) => InPlace(mailbox, new.batch)
  <1> DEFINE batch == sync[s].batch
             new == IF Len(batch) = 1 THEN Sync!Idle ELSE [at |-> "check", batch |-> Tail(batch)]
  <1>1. batch \in Seq(Entry) /\ batch # <<>> /\ sync \in [Syncs -> Session]
    BY DEF MailboxTypeOK, Session
  <1>2. /\ Len(batch) \in Nat \ {0}
        /\ Tail(batch) \in Seq(Entry)
        /\ Len(Tail(batch)) = Len(batch) - 1
        /\ \A i \in 1..(Len(batch) - 1) : Tail(batch)[i] = batch[i + 1]
        /\ Tail(batch) = <<>> <=> Len(batch) = 1
    BY <1>1, GetFacts
  <1>3. sync' = [sync EXCEPT ![s] = new]
    BY <1>1 DEF Sync!Advance
  <1>4. <<>> \in Seq(Entry) /\ Len(<<>>) = 0
    BY EmptySeq
  <1>5. /\ new \in Session /\ new.at \in {"idle", "check"}
        /\ new.at # "idle" => new.batch # <<>>
    BY <1>2, <1>4 DEF Session, Sync!Idle
  <1>6. ASSUME InPlace(mailbox, batch)
        PROVE  InPlace(mailbox, new.batch)
    <2>1. CASE Len(batch) = 1
      <3>1. new.batch = <<>>
        BY <2>1 DEF Sync!Idle
      <3> QED
        BY <3>1, <1>4 DEF InPlace
    <2>2. CASE Len(batch) # 1
      <3>1. new.batch = Tail(batch)
        BY <2>2
      <3>2. \A k \in 1..Len(Tail(batch)) :
               k \in 1..(Len(batch) - 1) /\ k + 1 \in 1..Len(batch) /\ Tail(batch)[k] = batch[k + 1]
        BY <1>2
      <3> HIDE DEF batch, new
      <3> QED
        BY <3>1, <3>2, <1>6 DEF InPlace
    <2> QED
      BY <2>1, <2>2
  <1> QED
    BY <1>3, <1>5, <1>6

(* Steps of a session that store nothing.                                  *)
LEMMA SessionInv ==
    ASSUME MailboxInv, NEW s \in Syncs, NEW new \in Session,
           sync' = [sync EXCEPT ![s] = new],
           new.at # "idle" => new.batch # <<>>,
           InPlace(mailbox, sync[s].batch) => InPlace(mailbox, new.batch),
           new.at = "flag" => rows[new.batch[1].mail] > 0,
           UNCHANGED <<arrived, mailbox, rows, ids>>, lost \subseteq lost',
           "expunge" \notin lost => \A m \in seen' \ opened' : m \in Messages /\ rows[m] > 0
    PROVE  MailboxInv'
  <1>1. MailboxTypeOK
    BY DEF MailboxInv
  <1>2. /\ sync' \in [Syncs -> Session]
        /\ \A t \in Syncs : sync'[t].at # "idle" => sync'[t].batch # <<>>
        /\ sync'[s] = new
        /\ \A t \in Syncs \ {s} : sync'[t] = sync[t]
    BY <1>1, OneSession
  <1>3. MailboxTypeOK' /\ NamedOnce'
    BY <1>2 DEF MailboxInv, MailboxTypeOK, NamedOnce
  <1>4. ASSUME "expunge" \notin lost'
        PROVE  Unmoved'
    <2>1. "expunge" \notin lost /\ Unmoved
      BY <1>4 DEF MailboxInv
    <2>2. Arrived' /\ NumberedOnce'
      BY <2>1 DEF Unmoved, Arrived, NumberedOnce
    <2>3. ASSUME NEW t \in Syncs
          PROVE  InPlace(mailbox, sync'[t].batch)
      <3>1. \A u \in Syncs : InPlace(mailbox, sync[u].batch)
        BY <2>1 DEF Unmoved
      <3>2. CASE t = s
        BY <3>1, <3>2, <1>2
      <3>3. CASE t # s
        BY <3>1, <3>3, <1>2
      <3> QED
        BY <3>2, <3>3
    <2>4. FlagsWhatIsStored'
      BY <1>2, <2>1 DEF Unmoved, FlagsWhatIsStored
    <2> QED
      BY <2>2, <2>3, <2>4 DEF Unmoved
  <1> QED
    BY <1>3, <1>4 DEF MailboxInv

LEMMA SyncCounts == \A S : Sync!Cardinality(S) = Cardinality(S)
  BY DEF Sync!Cardinality, Cardinality

(* What is fetched is in place, whatever the listing.                      *)
LEMMA FetchedInPlace ==
    ASSUME MailboxTypeOK, NEW order \in Sync!Listings, Sync!Wanted # {}
    PROVE  /\ Sync!Fetched(order) \in Seq(Entry)
           /\ Sync!Fetched(order) # <<>>
           /\ InPlace(mailbox, Sync!Fetched(order))
  <1> DEFINE n == Cardinality(Sync!Wanted)
             batch == Sync!Fetched(order)
  <1>1. /\ mailbox \in Seq(Messages)
        /\ DOMAIN mailbox = 1..Len(mailbox)
        /\ Len(mailbox) \in Nat
        /\ \A i \in 1..Len(mailbox) : mailbox[i] \in Messages
    BY LenProperties, ElementOfSeq DEF MailboxTypeOK
  <1>2. Sync!Wanted \subseteq 1..Len(mailbox)
    BY <1>1 DEF Sync!Wanted, Sync!Unseen
  <1>3. n \in Nat /\ n # 0
    <2>1. IsFiniteSet(1..Len(mailbox))
      BY <1>1, FS_Interval
    <2>2. IsFiniteSet(Sync!Wanted)
      BY <1>2, <2>1, FS_Subset
    <2> QED
      BY <1>2, <2>2, FS_CardinalityType, FS_EmptySet
  <1>4. order \in [1..n -> Sync!Wanted]
    BY SyncCounts DEF Sync!Listings
  <1> HIDE DEF n
  <1>5. /\ batch \in [1..n -> Entry]
        /\ \A k \in 1..n : batch[k] = [number |-> order[k], mail |-> mailbox[order[k]]]
    <2>1. batch = [k \in 1..n |-> [number |-> order[k], mail |-> mailbox[order[k]]]]
      BY <1>4 DEF Sync!Fetched
    <2>2. \A k \in 1..n : order[k] \in 1..Len(mailbox)
      BY <1>2, <1>4
    <2>3. \A k \in 1..n : [number |-> order[k], mail |-> mailbox[order[k]]] \in Entry
      BY <1>1, <2>2 DEF Entry
    <2> HIDE DEF batch
    <2> QED
      BY <2>1, <2>3
  <1> HIDE DEF batch
  <1>6. batch \in Seq(Entry)
    BY <1>3, <1>5, SeqDef
  <1>7. Len(batch) = n
    <2>1. Len(batch) \in Nat /\ DOMAIN batch = 1..Len(batch)
      BY <1>6, LenProperties
    <2>2. DOMAIN batch = 1..n
      BY <1>5
    <2>3. 1 \in 1..Len(batch) /\ n \in 1..Len(batch) /\ Len(batch) \in 1..n
      <3>1. 1 \in 1..n /\ n \in 1..n
        BY <1>3
      <3>2. 1..n = 1..Len(batch)
        BY <2>1, <2>2
      <3>3. 1 \in 1..Len(batch)
        BY <3>1, <3>2
      <3>4. Len(batch) \in 1..Len(batch)
        BY <2>1, <3>3
      <3> QED
        BY <3>1, <3>2, <3>3, <3>4
    <2>4. Len(batch) <= n /\ n <= Len(batch)
      BY <2>1, <2>3, <1>3
    <2>5. Len(batch) \in Nat /\ n \in Nat
      BY <2>1, <1>3
    <2>6. \A a, b \in Nat : a <= b /\ b <= a => a = b
      OBVIOUS
    <2> QED
      BY <2>4, <2>5, <2>6, Zenon
  <1>8. batch # <<>>
    BY <1>3, <1>6, <1>7, EmptySeq
  <1>9. InPlace(mailbox, batch)
    <2>1. ASSUME NEW k \in 1..n
          PROVE  batch[k].number \in 1..Len(mailbox) /\ mailbox[batch[k].number] = batch[k].mail
      <3>1. order[k] \in 1..Len(mailbox)
        BY <1>2, <1>4
      <3>2. batch[k].number = order[k] /\ batch[k].mail = mailbox[order[k]]
        BY <1>5
      <3> QED
        BY <3>1, <3>2
    <2> QED
      BY <1>7, <2>1 DEF InPlace
  <1> QED
    BY <1>6, <1>8, <1>9 DEF batch

LEMMA FlagsSafe ==
    ASSUME MailboxInv, "expunge" \notin lost, NEW m \in seen \ opened
    PROVE  m \in Messages /\ rows[m] > 0
  BY DEF MailboxInv, Unmoved, FlagsWhatIsStored

LEMMA FetchInv ==
    ASSUME MailboxInv, NEW s \in Syncs, Sync!Fetch(s)
    PROVE  MailboxInv'
  <1>1. PICK order \in Sync!Listings :
           sync' = [sync EXCEPT ![s] = [at |-> "check", batch |-> Sync!Fetched(order)]]
    BY DEF Sync!Fetch
  <1> DEFINE new == [at |-> "check", batch |-> Sync!Fetched(order)]
  <1>2. MailboxTypeOK /\ Sync!Wanted # {} /\ UNCHANGED <<arrived, mailbox, seen, opened, rows, ids, lost>>
    BY DEF MailboxInv, Sync!Fetch
  <1>3. /\ Sync!Fetched(order) \in Seq(Entry)
        /\ Sync!Fetched(order) # <<>>
        /\ InPlace(mailbox, Sync!Fetched(order))
    BY <1>2, FetchedInPlace
  <1>4. /\ new \in Session /\ new.at = "check"
        /\ new.batch # <<>> /\ InPlace(mailbox, new.batch)
    BY <1>3 DEF Session
  <1>5. "expunge" \notin lost => \A m \in seen' \ opened' : m \in Messages /\ rows[m] > 0
    BY <1>2, FlagsSafe
  <1> QED
    BY <1>1, <1>2, <1>4, <1>5, SessionInv

LEMMA SkipInv ==
    ASSUME MailboxInv, NEW s \in Syncs, Sync!Skip(s) \/ Sync!MarkSeenFails(s)
    PROVE  MailboxInv'
  <1>1. /\ MailboxTypeOK /\ sync[s].at # "idle" /\ Sync!Advance(s)
        /\ UNCHANGED <<arrived, mailbox, seen, opened, rows, ids>> /\ lost \subseteq lost'
    BY DEF MailboxInv, Sync!Skip, Sync!MarkSeenFails, Sync!Fault
  <1>2. PICK new \in Session :
           /\ sync' = [sync EXCEPT ![s] = new]
           /\ new.at \in {"idle", "check"}
           /\ new.at # "idle" => new.batch # <<>>
           /\ InPlace(mailbox, sync[s].batch) => InPlace(mailbox, new.batch)
    BY <1>1, Advances
  <1>3. "expunge" \notin lost => \A m \in seen' \ opened' : m \in Messages /\ rows[m] > 0
    BY <1>1, FlagsSafe
  <1> QED
    BY <1>1, <1>2, <1>3, SessionInv

LEMMA NotStoredInv ==
    ASSUME MailboxInv, NEW s \in Syncs, Sync!NotStored(s)
    PROVE  MailboxInv'
  <1> DEFINE new == [sync[s] EXCEPT !.at = "insert"]
  <1>1. /\ MailboxTypeOK /\ sync[s].at = "check"
        /\ UNCHANGED <<arrived, mailbox, seen, opened, rows, ids, lost>>
    BY DEF MailboxInv, Sync!NotStored
  <1>2. sync \in [Syncs -> Session] /\ sync[s].batch # <<>>
    BY <1>1 DEF MailboxTypeOK
  <1>3. sync' = [sync EXCEPT ![s] = new]
    BY <1>2 DEF Sync!NotStored, Sync!Goto
  <1>4. new \in Session /\ new.at = "insert" /\ new.batch = sync[s].batch
    BY <1>2 DEF Session
  <1>5. "expunge" \notin lost => \A m \in seen' \ opened' : m \in Messages /\ rows[m] > 0
    BY <1>1, FlagsSafe
  <1> QED
    BY <1>1, <1>2, <1>3, <1>4, <1>5, SessionInv

(* The insert is refused, or the request is lost.                          *)
LEMMA GivesUpInv ==
    ASSUME MailboxInv, NEW s \in Syncs, Sync!InsertConflicts(s) \/ Sync!Abort(s)
    PROVE  MailboxInv'
  <1>1. /\ sync' = [sync EXCEPT ![s] = Sync!Idle]
        /\ UNCHANGED <<arrived, mailbox, seen, opened, rows, ids>> /\ lost \subseteq lost'
    BY DEF Sync!InsertConflicts, Sync!Abort, Sync!Fault
  <1>2. <<>> \in Seq(Entry) /\ Len(<<>>) = 0
    BY EmptySeq
  <1>3. Sync!Idle \in Session /\ Sync!Idle.at = "idle" /\ InPlace(mailbox, Sync!Idle.batch)
    BY <1>2 DEF Sync!Idle, Session, InPlace
  <1>4. "expunge" \notin lost => \A m \in seen' \ opened' : m \in Messages /\ rows[m] > 0
    BY <1>1, FlagsSafe
  <1> QED
    BY <1>1, <1>3, <1>4, SessionInv

(* What is flagged by its number is what was stored.                       *)
LEMMA MarkSeenInv ==
    ASSUME MailboxInv, NEW s \in Syncs, Sync!MarkSeen(s)
    PROVE  MailboxInv'
  <1> DEFINE number == Sync!Current(s).number
  <1>1. /\ MailboxTypeOK /\ sync[s].at = "flag" /\ Sync!Advance(s)
        /\ seen' = IF number \in DOMAIN mailbox THEN seen \cup {mailbox[number]} ELSE seen
        /\ UNCHANGED <<arrived, mailbox, opened, rows, ids, lost>>
    BY DEF MailboxInv, Sync!MarkSeen
  <1>2. PICK new \in Session :
           /\ sync' = [sync EXCEPT ![s] = new]
           /\ new.at \in {"idle", "check"}
           /\ new.at # "idle" => new.batch # <<>>
           /\ InPlace(mailbox, sync[s].batch) => InPlace(mailbox, new.batch)
    BY <1>1, Advances
  <1>3. ASSUME "expunge" \notin lost
        PROVE  \A m \in seen' \ opened' : m \in Messages /\ rows[m] > 0
    <2> DEFINE e == sync[s].batch[1]
    <2>1. /\ Sync!Current(s) = e /\ e \in Entry
          /\ 1 \in 1..Len(sync[s].batch)
      BY <1>1, AtWork
    <2>2. InPlace(mailbox, sync[s].batch) /\ FlagsWhatIsStored
      BY <1>3 DEF MailboxInv, Unmoved
    <2>3. mailbox[number] = e.mail /\ rows[e.mail] > 0 /\ e.mail \in Messages
      BY <1>1, <2>1, <2>2 DEF InPlace, FlagsWhatIsStored, Entry
    <2> QED
      BY <1>1, <1>3, <2>3, FlagsSafe
  <1> QED
    BY <1>1, <1>2, <1>3, SessionInv


(* An insert that the unique message_id lets through is the message's first. *)
LEMMA InsertInv ==
    ASSUME MailboxInv, NEW s \in Syncs, Sync!Insert(s)
    PROVE  MailboxInv'
  <1> DEFINE e == sync[s].batch[1]
             m == e.mail
             new == [sync[s] EXCEPT !.at = "flag"]
  <1>1. /\ MailboxTypeOK /\ NamedOnce /\ sync[s].at = "insert"
        /\ rows \in [Messages -> Nat] /\ sync \in [Syncs -> Session]
        /\ sync[s].batch # <<>>
        /\ UNCHANGED <<arrived, mailbox, seen, opened, lost>>
    BY DEF MailboxInv, MailboxTypeOK, Sync!Insert
  <1>2. /\ Sync!Current(s) = e /\ e \in Entry /\ m \in Messages
        /\ 1 \in 1..Len(sync[s].batch)
    BY <1>1, AtWork DEF Entry
  <1>3. /\ Sync!MessageId(e) \notin ids
        /\ rows' = [rows EXCEPT ![m] = @ + 1]
        /\ ids' = ids \cup {Sync!MessageId(e)}
        /\ sync' = [sync EXCEPT ![s] = new]
    BY <1>1, <1>2 DEF Sync!Insert, Sync!Goto
  <1>4. new \in Session /\ new.at = "flag" /\ new.batch = sync[s].batch
    BY <1>1 DEF Session
  <1> HIDE DEF new
  <1>5. /\ sync' \in [Syncs -> Session]
        /\ \A t \in Syncs : sync'[t].at # "idle" => sync'[t].batch # <<>>
        /\ sync'[s] = new
        /\ \A t \in Syncs \ {s} : sync'[t] = sync[t]
    BY <1>1, <1>3, <1>4, OneSession
  <1>6. /\ rows' \in [Messages -> Nat]
        /\ rows'[m] = rows[m] + 1
        /\ \A x \in Messages \ {m} : rows'[x] = rows[x]
        /\ \A x \in Messages : rows[x] > 0 => rows'[x] > 0
    BY <1>1, <1>2, <1>3
  <1>7. MailboxTypeOK'
    BY <1>1, <1>5, <1>6 DEF MailboxTypeOK
  <1>8. NamedOnce'
    <2> SUFFICES ASSUME NEW x \in Messages \ Anonymous
                 PROVE  rows'[x] <= 1 /\ (rows'[x] > 0 => [mail |-> x] \in ids')
      BY DEF NamedOnce
    <2>1. CASE x # m
      BY <2>1, <1>1, <1>3, <1>6 DEF NamedOnce
    <2>2. CASE x = m
      <3>1. Sync!MessageId(e) = [mail |-> x]
        BY <2>2 DEF Sync!MessageId
      <3>2. rows[x] = 0
        BY <3>1, <1>1, <1>3 DEF NamedOnce
      <3> QED
        BY <3>1, <3>2, <2>2, <1>3, <1>6
    <2> QED
      BY <2>1, <2>2
  <1>9. ASSUME "expunge" \notin lost
        PROVE  Unmoved'
    <2>1. /\ Arrived /\ NumberedOnce /\ FlagsWhatIsStored
          /\ \A t \in Syncs : InPlace(mailbox, sync[t].batch)
      BY <1>9 DEF MailboxInv, Unmoved
    <2>2. Arrived'
      BY <2>1, <1>1 DEF Arrived
    <2>3. \A t \in Syncs : InPlace(mailbox', sync'[t].batch)
      <3> SUFFICES ASSUME NEW t \in Syncs
                   PROVE  InPlace(mailbox, sync'[t].batch)
        BY <1>1
      <3>1. sync'[t].batch = sync[t].batch
        BY <1>4, <1>5
      <3> QED
        BY <2>1, <3>1
    <2>4. NumberedOnce'
      <3> SUFFICES ASSUME NEW x \in Messages \cap Anonymous
                   PROVE  /\ rows'[x] <= 1
                          /\ rows'[x] > 0 => \E i \in 1..Len(mailbox) :
                                                 mailbox[i] = x /\ [number |-> i] \in ids'
        BY <1>1 DEF NumberedOnce
      <3>1. CASE x # m
        BY <3>1, <2>1, <1>3, <1>6 DEF NumberedOnce
      <3>2. CASE x = m
        <4>1. Sync!MessageId(e) = [number |-> e.number]
          BY <3>2 DEF Sync!MessageId
        <4>2. e.number \in 1..Len(mailbox) /\ mailbox[e.number] = x
          BY <2>1, <3>2, <1>2 DEF InPlace
        <4>3. \A i \in 1..Len(mailbox) : mailbox[i] = x => i = e.number
          BY <4>2, <2>1 DEF Arrived
        <4>4. rows[x] = 0
          <5>1. rows[x] > 0 => [number |-> e.number] \in ids
            BY <4>3, <2>1 DEF NumberedOnce
          <5> QED
            BY <5>1, <4>1, <1>1, <1>3
        <4> QED
          BY <4>1, <4>2, <4>4, <3>2, <1>3, <1>6
      <3> QED
        BY <3>1, <3>2
    <2>5. FlagsWhatIsStored'
      <3>1. \A x \in seen' \ opened' : x \in Messages /\ rows'[x] > 0
        BY <2>1, <1>1, <1>6 DEF FlagsWhatIsStored
      <3>2. ASSUME NEW t \in Syncs, sync'[t].at = "flag"
            PROVE  rows'[sync'[t].batch[1].mail] > 0
        <4>1. CASE t = s
          <5>1. sync'[t].batch[1].mail = m
            BY <4>1, <1>4, <1>5
          <5> QED
            BY <5>1, <1>1, <1>2, <1>6
        <4>2. CASE t # s
          <5>1. sync'[t] = sync[t] /\ sync[t].at = "flag"
            BY <4>2, <3>2, <1>5
          <5>2. sync[t].batch[1].mail \in Messages
            BY <5>1, <1>1, AtWork DEF Entry
          <5>3. rows[sync[t].batch[1].mail] > 0
            BY <5>1, <2>1 DEF FlagsWhatIsStored
          <5> QED
            BY <5>1, <5>2, <5>3, <1>6
        <4> QED
          BY <4>1, <4>2
      <3> QED
        BY <3>1, <3>2 DEF FlagsWhatIsStored
    <2> QED
      BY <2>2, <2>3, <2>4, <2>5 DEF Unmoved
  <1> QED
    BY <1>1, <1>7, <1>8, <1>9 DEF MailboxInv

(* Mail that arrives takes a new number, and the others keep theirs.       *)
LEMMA ArriveInv ==
    ASSUME MailboxInv, NEW m \in Messages, Sync!Arrive(m)
    PROVE  MailboxInv'
  <1>1. /\ mailbox \in Seq(Messages) /\ m \notin arrived
        /\ arrived' = arrived \cup {m}
        /\ mailbox' = Append(mailbox, m)
        /\ UNCHANGED <<seen, opened, rows, ids, sync, lost>>
    BY DEF MailboxInv, MailboxTypeOK, Sync!Arrive
  <1>2. /\ mailbox' \in Seq(Messages)
        /\ Len(mailbox) \in Nat
        /\ Len(mailbox') = Len(mailbox) + 1
        /\ \A i \in 1..Len(mailbox) : mailbox'[i] = mailbox[i]
        /\ mailbox'[Len(mailbox) + 1] = m
    BY <1>1, LenProperties, AppendProperties
  <1>3. MailboxTypeOK' /\ NamedOnce'
    BY <1>1, <1>2 DEF MailboxInv, MailboxTypeOK, NamedOnce
  <1>4. ASSUME "expunge" \notin lost
        PROVE  Unmoved'
    <2>1. /\ Arrived /\ NumberedOnce /\ FlagsWhatIsStored
          /\ \A t \in Syncs : InPlace(mailbox, sync[t].batch)
      BY <1>4 DEF MailboxInv, Unmoved
    <2>2. \A i \in 1..Len(mailbox') : i \in 1..Len(mailbox) \/ i = Len(mailbox) + 1
      BY <1>2
    <2>3. 1..Len(mailbox) \subseteq 1..Len(mailbox')
      BY <1>2
    <2>4. Arrived'
      BY <2>1, <2>2, <1>1, <1>2 DEF Arrived
    <2>5. NumberedOnce'
      BY <2>1, <2>3, <1>1, <1>2 DEF NumberedOnce
    <2>6. \A t \in Syncs : InPlace(mailbox', sync'[t].batch)
      BY <2>1, <2>3, <1>1, <1>2 DEF InPlace
    <2>7. FlagsWhatIsStored'
      BY <2>1, <1>1 DEF FlagsWhatIsStored
    <2> QED
      BY <2>4, <2>5, <2>6, <2>7 DEF Unmoved
  <1> QED
    BY <1>1, <1>3, <1>4 DEF MailboxInv

(* What another client flags was opened by it.                             *)
LEMMA ReadInv ==
    ASSUME MailboxInv, NEW i \in DOMAIN mailbox, Sync!Read(i)
    PROVE  MailboxInv'
  <1>1. /\ seen' = seen \cup {mailbox[i]} /\ opened' = opened \cup {mailbox[i]}
        /\ UNCHANGED <<arrived, mailbox, rows, ids, sync, lost>>
    BY DEF Sync!Read
  <1>2. MailboxTypeOK' /\ NamedOnce'
    BY <1>1 DEF MailboxInv, MailboxTypeOK, NamedOnce
  <1>3. ASSUME "expunge" \notin lost
        PROVE  Unmoved'
    <2>1. seen' \ opened' \subseteq seen \ opened
      BY <1>1
    <2>2. FlagsWhatIsStored'
      BY <1>1, <1>3, <2>1 DEF MailboxInv, Unmoved, FlagsWhatIsStored
    <2> QED
      BY <1>1, <1>3, <2>2 DEF MailboxInv, Unmoved, Arrived, NumberedOnce, InPlace
  <1> QED
    BY <1>1, <1>2, <1>3 DEF MailboxInv

(* Once something was expunged only names tell messages apart.             *)
LEMMA ExpungeInv ==
    ASSUME MailboxInv, NEW i \in DOMAIN mailbox, Sync!Expunge(i)
    PROVE  MailboxInv'
  <1>1. /\ mailbox \in Seq(Messages) /\ "expunge" \in lost'
        /\ mailbox' = SubSeq(mailbox, 1, i - 1) \o SubSeq(mailbox, i + 1, Len(mailbox))
        /\ UNCHANGED <<arrived, seen, opened, rows, ids, sync>>
    BY DEF MailboxInv, MailboxTypeOK, Sync!Expunge, Sync!Fault, Sync!RemoveAt
  <1>2. /\ Len(mailbox) \in Nat /\ i \in 1..Len(mailbox)
        /\ \A j \in 1..Len(mailbox) : mailbox[j] \in Messages
    BY <1>1, LenProperties, ElementOfSeq
  <1>3. SubSeq(mailbox, 1, i - 1) \in Seq(Messages)
    <2>1. i - 1 \in Int /\ \A j \in 1..(i - 1) : mailbox[j] \in Messages
      BY <1>2
    <2> QED
      BY <2>1, SubSeqProperties
  <1>4. SubSeq(mailbox, i + 1, Len(mailbox)) \in Seq(Messages)
    <2>1. i + 1 \in Int /\ Len(mailbox) \in Int /\ \A j \in (i + 1)..Len(mailbox) : mailbox[j] \in Messages
      BY <1>2
    <2> QED
      BY <2>1, SubSeqProperties
  <1>5. mailbox' \in Seq(Messages)
    BY <1>1, <1>3, <1>4, ConcatProperties
  <1> QED
    BY <1>1, <1>5 DEF MailboxInv, MailboxTypeOK, NamedOnce

LEMMA MailboxStep == MailboxInv /\ [DeliveriesNext]_allVars => MailboxInv'
  <1> SUFFICES ASSUME MailboxInv, [DeliveriesNext]_allVars
               PROVE  MailboxInv'
    OBVIOUS
  <1>1. CASE Sync!Next
    <2>1. ASSUME NEW m \in Messages, Sync!Arrive(m)
          PROVE  MailboxInv'
      BY <2>1, ArriveInv
    <2>2. ASSUME NEW i \in DOMAIN mailbox, Sync!Read(i) \/ Sync!Expunge(i)
          PROVE  MailboxInv'
      BY <2>2, ReadInv, ExpungeInv
    <2>3. ASSUME NEW s \in Syncs, Sync!SyncStep(s)
          PROVE  MailboxInv'
      BY <2>3, FetchInv, SkipInv, NotStoredInv, InsertInv, GivesUpInv, MarkSeenInv DEF Sync!SyncStep
    <2>4. ASSUME NEW s \in Syncs, Sync!MarkSeenFails(s) \/ Sync!Abort(s)
          PROVE  MailboxInv'
      BY <2>4, SkipInv, GivesUpInv
    <2> QED
      BY <1>1, <2>1, <2>2, <2>3, <2>4 DEF Sync!Next
  <1>2. CASE UNCHANGED syncVars
    BY <1>2 DEF syncVars, MailboxInv, MailboxTypeOK, NamedOnce, Unmoved, Arrived,
                NumberedOnce, FlagsWhatIsStored
  <1> QED
    BY <1>1, <1>2 DEF DeliveriesNext, allVars, syncVars

LEMMA NumberedIsStoredOnce == MailboxInv => SeenIsStoredOnce
  <1> SUFFICES ASSUME MailboxInv
               PROVE  SeenIsStoredOnce
    OBVIOUS
  <1>1. \A m \in Messages : m \notin Anonymous \/ "expunge" \notin lost => rows[m] <= 1
    BY DEF MailboxInv, NamedOnce, Unmoved, NumberedOnce
  <1>2. "expunge" \notin lost => \A m \in seen \ opened : rows[m] > 0
    BY FlagsSafe
  <1> QED
    BY <1>1, <1>2 DEF SeenIsStoredOnce, Sync!SeenIsStoredOnce

(* For any messages, syncs, limit and faults: overlapping syncs store a    *)
(* message with a Message-ID once, and until something is expunged each of *)
(* the others too, and flag nothing they have not stored (sync, mark_seen).*)
THEOREM WhatIsSeenIsStoredOnce == DeliveriesSpec => []SeenIsStoredOnce
  BY MailboxInitial, MailboxStep, NumberedIsStoredOnce, PTL DEF DeliveriesSpec
====
