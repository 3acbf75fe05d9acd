---- MODULE EmailReview ----
(***************************************************************************)
(* The life of one ingested email: triage by the sync that stored it,      *)
(* triage again on request, and the human decision to send or discard      *)
(* (features/emails/service.py).                                           *)
(*                                                                         *)
(* Every request loads the row into its own session, awaits a language     *)
(* model or an SMTP server, and then commits the columns whose value       *)
(* differs from the one it LOADED.  The row is not read again in between.  *)
(***************************************************************************)
EXTENDS Naturals

CONSTANTS Mails,          \* messages
          Requests,       \* concurrent requests of human reviewers
          Faults,         \* what may go wrong: "smtp", "crash"
          MaxSent         \* bound: deliveries of one reply

ASSUME FaultsAssumption == Faults \subseteq {"smtp", "crash"}
ASSUME BoundAssumption == MaxSent \in Nat

Statuses == {"processing", "awaiting_approval", "sent", "discarded", "failed"}
Decidable == {"awaiting_approval", "failed"}

VARIABLES row,            \* emails.status and whether there is a draft
          triaging,       \* mails whose sync awaits the agent
          request,        \* what each reviewer's request has loaded
          sent,           \* replies the SMTP server accepted, by mail
          raced,          \* history: mails two handlers were at, at one time
          faults          \* history: the kinds of fault met so far

vars == <<row, triaging, request, sent, raced, faults>>

NoRow == [status |-> "none", draft |-> FALSE]

NoRequest == [at |-> "idle", mail |-> CHOOSE m \in Mails : TRUE, loaded |-> NoRow,
              edited |-> FALSE]

(* A mail is new to the sync, or in any state a finished triage leaves.    *)
Init == /\ row \in [Mails -> {NoRow,
                              [status |-> "awaiting_approval", draft |-> TRUE],
                              [status |-> "discarded", draft |-> FALSE],
                              [status |-> "failed", draft |-> FALSE]}]
        /\ triaging = {}
        /\ request = [q \in Requests |-> NoRequest]
        /\ sent = [m \in Mails |-> 0]
        /\ raced = {}
        /\ faults = {}

----------------------------------------------------------------------------
(* A unit of work flushes the columns that differ from what it loaded.     *)
NewStatus(current, loaded, status) == IF status = loaded THEN current ELSE status

(* _triage: no draft (spam) leaves nothing to approve.  A new draft is a   *)
(* new text, so it is always written; no draft over no draft is not.       *)
Triaged(m, loaded, drafted) ==
    row' = [row EXCEPT
        ![m].status = NewStatus(@, loaded.status,
                          IF drafted THEN "awaiting_approval" ELSE "discarded"),
        ![m].draft = IF drafted \/ loaded.draft THEN drafted ELSE @]

Goto(q, at) == request' = [request EXCEPT ![q].at = at]
Finish(q) == request' = [request EXCEPT ![q] = NoRequest]

(* A fault of any kind may happen any number of times. *)
Fault(kind) == kind \in Faults /\ faults' = faults \cup {kind}

(* Somebody else is at the mail. *)
Busy(m) == m \in triaging \/ \E q \in Requests : request[q].at # "idle" /\ request[q].mail = m

----------------------------------------------------------------------------
(* sync: the row is committed, then triaged. *)

Ingest(m) ==
    /\ row[m] = NoRow
    /\ row' = [row EXCEPT ![m].status = "processing"]
    /\ triaging' = triaging \cup {m}
    /\ UNCHANGED <<request, sent, raced, faults>>

SyncTriages(m, drafted) ==
    /\ m \in triaging
    /\ Triaged(m, [status |-> "processing", draft |-> FALSE], drafted)
    /\ triaging' = triaging \ {m}
    /\ UNCHANGED <<request, sent, raced, faults>>

(* Mutant: rolled back and no more. *)
SyncTriageFailsUnmarked(m) ==
    /\ m \in triaging
    /\ triaging' = triaging \ {m}
    /\ UNCHANGED <<row, request, sent, raced, faults>>

(* The agent raised: rolled back, refreshed, marked failed. *)
SyncTriageFails(m) ==
    /\ m \in triaging
    /\ row' = [row EXCEPT ![m].status = "failed"]
    /\ triaging' = triaging \ {m}
    /\ UNCHANGED <<request, sent, raced, faults>>

----------------------------------------------------------------------------
(* Requests.  The row is loaded and its status tested ... *)

Load(q, m, at, edited) ==
    /\ request[q].at = "idle"
    /\ row[m] # NoRow
    /\ request' = [request EXCEPT ![q] = 
            [at |-> at, mail |-> m, loaded |-> row[m], edited |-> edited]]
    /\ raced' = IF Busy(m) THEN raced \cup {m} ELSE raced
    /\ UNCHANGED <<row, triaging, sent, faults>>

(* Mutants: what has been replied to can be triaged or sent again. *)
StartRetriageAny(q, m) == Load(q, m, "retriage", FALSE)
StartSendAny(q, m, edited) ==
    /\ edited \/ row[m].draft
    /\ sent[m] < MaxSent
    /\ Load(q, m, "send", edited)

StartRetriage(q, m) == row[m].status # "sent" /\ Load(q, m, "retriage", FALSE)

StartDiscard(q, m) == row[m].status # "sent" /\ Load(q, m, "discard", FALSE)

(* The reviewer may replace the draft; without either there is no reply. *)
StartSend(q, m, edited) ==
    /\ row[m].status \in Decidable
    /\ edited \/ row[m].draft
    /\ sent[m] < MaxSent
    /\ Load(q, m, "send", edited)

(* ... and acted upon after the await. *)

Retriage(q, drafted) ==
    /\ request[q].at = "retriage"
    /\ Triaged(request[q].mail, request[q].loaded, drafted)
    /\ Finish(q)
    /\ UNCHANGED <<triaging, sent, raced, faults>>

(* The agent raised: nothing was changed, the error is the answer. *)
RetriageFails(q) ==
    /\ request[q].at = "retriage"
    /\ Finish(q)
    /\ UNCHANGED <<row, triaging, sent, raced, faults>>

Discard(q) ==
    LET r == request[q] IN
    /\ r.at = "discard"
    /\ row' = [row EXCEPT ![r.mail].status = NewStatus(@, r.loaded.status, "discarded")]
    /\ Finish(q)
    /\ UNCHANGED <<triaging, sent, raced, faults>>

(* "Send first, then record". *)
Deliver(q) ==
    /\ request[q].at = "send"
    /\ sent' = [sent EXCEPT ![request[q].mail] = @ + 1]
    /\ Goto(q, "record")
    /\ UNCHANGED <<row, triaging, raced, faults>>

RecordSent(q) ==
    LET r == request[q] IN
    /\ r.at = "record"
    /\ row' = [row EXCEPT ![r.mail].status = NewStatus(@, r.loaded.status, "sent"),
                          ![r.mail].draft = @ \/ r.edited]
    /\ Finish(q)
    /\ UNCHANGED <<triaging, sent, raced, faults>>

(* Mutant: the SMTP error is swallowed. *)
DeliveryFailsSilently(q) ==
    /\ request[q].at = "send"
    /\ Fault("smtp")
    /\ Goto(q, "record")
    /\ UNCHANGED <<row, triaging, sent, raced>>

(* SMTP raises; the server may have accepted the message before it did. *)
DeliveryFails(q) ==
    /\ request[q].at = "send"
    /\ Fault("smtp")
    /\ \/ UNCHANGED sent
       \/ sent' = [sent EXCEPT ![request[q].mail] = @ + 1]
    /\ Finish(q)
    /\ UNCHANGED <<row, triaging, raced>>

(* The process dies; no later sync triages a row that exists. *)
Crash ==
    /\ Fault("crash")
    /\ triaging' = {}
    /\ request' = [q \in Requests |-> NoRequest]
    /\ UNCHANGED <<row, sent, raced>>

SyncStep(m) == \/ \E drafted \in BOOLEAN : SyncTriages(m, drafted)
               \/ SyncTriageFails(m)

Decide(q) == \/ \E drafted \in BOOLEAN : Retriage(q, drafted)
             \/ RetriageFails(q)
             \/ Discard(q) \/ Deliver(q) \/ RecordSent(q)

Next == \/ \E m \in Mails : Ingest(m) \/ SyncStep(m)
        \/ \E q \in Requests, m \in Mails :
               \/ StartRetriage(q, m) \/ StartDiscard(q, m)
               \/ \E edited \in BOOLEAN : StartSend(q, m, edited)
        \/ \E q \in Requests : Decide(q) \/ DeliveryFails(q)
        \/ Crash

Spec == Init /\ [][Next]_vars

(* The event loop runs the sync and every accepted request to their end;   *)
(* the agent and SMTP clients have timeouts.                               *)
FairSpec == /\ Spec
            /\ \A m \in Mails : WF_vars(SyncStep(m))
            /\ \A q \in Requests : WF_vars(Decide(q))

----------------------------------------------------------------------------
(* Properties. *)

(* A row never claims a reply that never left, however sends, retriages,   *)
(* discards, failures and crashes interleave.  And a message is replied to *)
(* at most once ("sending twice is a conflict"), not at all once its draft *)
(* is discarded, unless two handlers were at it at one time, or SMTP or    *)
(* the process failed when the reply may have left already.                *)
OneOutcome ==
    \A m \in Mails :
        /\ row[m].status = "sent" => sent[m] > 0
        /\ faults = {} /\ m \notin raced =>
                sent[m] <= (IF row[m].status = "discarded" THEN 0 ELSE 1)

(* Once recorded as replied to, a message never becomes decidable again:   *)
(* retriage and discard answer "already been replied to".  Faults do not   *)
(* matter here, another handler at the same mail does.                     *)
SentIsFinal ==
    [][\A m \in Mails \ raced :
          row[m].status = "sent" => row'[m].status = "sent"]_vars

(* A message that is being processed reaches a state a human can act on,   *)
(* or has been dealt with, unless the process died.                        *)
ProcessingEnds ==
    \A m \in Mails : row[m].status = "processing" ~>
        row[m].status # "processing" \/ "crash" \in faults
====
