---- MODULE MailboxSync ----
(***************************************************************************)
(* Fetching unseen mail, storing each message once and flagging it seen    *)
(* (features/emails/service.py sync, infrastructure/email/imap.py).        *)
(*                                                                         *)
(* The mailbox is a server's, shared with other mail clients.  Every call  *)
(* opens its own connection; a message is named by its SEQUENCE NUMBER in  *)
(* the listing of the connection that searched, and flagged later by that  *)
(* number on another connection.  What triage does to a stored message is  *)
(* EmailReview's; here it is the await between the insert and the flag.    *)
(***************************************************************************)
EXTENDS Naturals, Sequences, SequencesExt, FiniteSets

CONSTANTS Mails,          \* messages that may arrive
          Anonymous,      \* those without a Message-ID header
          Syncs,          \* concurrent sync requests
          Shared,         \* those that other clients read too
          Limit,          \* sync's limit parameter, 20 by default
          Faults          \* what may go wrong: "flag", "expunge", "abort"

VARIABLES arrived,        \* messages delivered so far
          mailbox,        \* the server's listing, oldest first
          seen,           \* messages flagged \Seen
          opened,         \* history: those another client was the first to read
          rows,           \* rows[m]: rows of the emails table that hold m
          ids,            \* their message_ids
          sync,           \* each request: its place and the fetched messages left
          faults          \* history: the kinds of fault met so far

vars == <<arrived, mailbox, seen, opened, rows, ids, sync, faults>>

Idle == [at |-> "idle", batch |-> <<>>]

Init == /\ arrived = {}
        /\ mailbox = <<>>
        /\ seen = {}
        /\ opened = {}
        /\ rows = [m \in Mails |-> 0]
        /\ ids = {}
        /\ sync = [s \in Syncs |-> Idle]
        /\ faults = {}

(* A fault of any kind may happen any number of times. *)
Fault(kind) == kind \in Faults /\ faults' = faults \cup {kind}

----------------------------------------------------------------------------
(* The mail server and other clients of the mailbox. *)

Arrive(m) ==
    /\ m \notin arrived
    /\ arrived' = arrived \cup {m}
    /\ mailbox' = Append(mailbox, m)
    /\ UNCHANGED <<seen, opened, rows, ids, sync, faults>>

(* Another client reads a message, which flags it. *)
Read(i) ==
    /\ mailbox[i] \in Shared \ seen
    /\ seen' = seen \cup {mailbox[i]}
    /\ opened' = opened \cup {mailbox[i]}
    /\ UNCHANGED <<arrived, mailbox, rows, ids, sync, faults>>

(* Another client deletes a message that was read; later numbers move down. *)
Expunge(i) ==
    /\ Fault("expunge")
    /\ mailbox[i] \in seen
    /\ mailbox' = RemoveAt(mailbox, i)
    /\ UNCHANGED <<arrived, seen, opened, rows, ids, sync>>

----------------------------------------------------------------------------
(* Sync. *)

(* SEARCH UNSEEN: the sequence numbers of the unseen messages, of which    *)
(* the first Limit are fetched, in their order.                            *)
Unseen == {i \in DOMAIN mailbox : mailbox[i] \notin seen}
Wanted == {i \in Unseen : Cardinality({j \in Unseen : j < i}) < Limit}
Listings == {order \in [1..Cardinality(Wanted) -> Wanted] :
               \A i, j \in DOMAIN order : i < j => order[i] < order[j]}
Fetched(order) == [k \in DOMAIN order |-> [number |-> order[k], mail |-> mailbox[order[k]]]]

Current(s) == Head(sync[s].batch)
Goto(s, at) == sync' = [sync EXCEPT ![s].at = at]

(* Mutant: nothing stands in for a missing Message-ID. *)
MessageIdOrBlank(e) == IF e.mail \in Anonymous THEN [number |-> 0] ELSE [mail |-> e.mail]

(* message_id: the header's, or the sequence number of the moment. *)
MessageId(e) == IF e.mail \in Anonymous THEN [number |-> e.number] ELSE [mail |-> e.mail]

(* On to the next fetched message, or the summary is returned. *)
Advance(s) ==
    sync' = [sync EXCEPT ![s] = IF Len(@.batch) = 1 THEN Idle
                                ELSE [at |-> "check", batch |-> Tail(@.batch)]]

(* Mutant: fetching without PEEK, which flags what it fetches. *)
FetchFlagging(s) ==
    /\ sync[s].at = "idle"
    /\ Wanted # {}
    /\ \E order \in Listings :
          sync' = [sync EXCEPT ![s] = [at |-> "check", batch |-> Fetched(order)]]
    /\ seen' = seen \cup {mailbox[i] : i \in Wanted}
    /\ UNCHANGED <<arrived, mailbox, opened, rows, ids, faults>>

Fetch(s) ==
    /\ sync[s].at = "idle"
    /\ Wanted # {}
    /\ \E order \in Listings :
          sync' = [sync EXCEPT ![s] = [at |-> "check", batch |-> Fetched(order)]]
    /\ UNCHANGED <<arrived, mailbox, seen, opened, rows, ids, faults>>

(* message_id_exists: a message that is stored already is passed over. *)
Skip(s) ==
    /\ sync[s].at = "check"
    /\ MessageId(Current(s)) \in ids
    /\ Advance(s)
    /\ UNCHANGED <<arrived, mailbox, seen, opened, rows, ids, faults>>

NotStored(s) ==
    /\ sync[s].at = "check"
    /\ MessageId(Current(s)) \notin ids
    /\ Goto(s, "insert")
    /\ UNCHANGED <<arrived, mailbox, seen, opened, rows, ids, faults>>

(* Mutant: message_id is not unique. *)
InsertAnyway(s) ==
    /\ sync[s].at = "insert"
    /\ rows' = [rows EXCEPT ![Current(s).mail] = @ + 1]
    /\ ids' = ids \cup {MessageId(Current(s))}
    /\ Goto(s, "flag")
    /\ UNCHANGED <<arrived, mailbox, seen, opened, faults>>

Insert(s) ==
    /\ sync[s].at = "insert"
    /\ MessageId(Current(s)) \notin ids
    /\ rows' = [rows EXCEPT ![Current(s).mail] = @ + 1]
    /\ ids' = ids \cup {MessageId(Current(s))}
    /\ Goto(s, "flag")
    /\ UNCHANGED <<arrived, mailbox, seen, opened, faults>>

(* message_id is unique: the insert raises outside the loop's try block,   *)
(* and the rest of the batch is left for another sync.                     *)
InsertConflicts(s) ==
    /\ sync[s].at = "insert"
    /\ MessageId(Current(s)) \in ids
    /\ sync' = [sync EXCEPT ![s] = Idle]
    /\ UNCHANGED <<arrived, mailbox, seen, opened, rows, ids, faults>>

(* STORE on a new connection, by the number of the old one. *)
MarkSeen(s) ==
    LET number == Current(s).number IN
    /\ sync[s].at = "flag"
    /\ seen' = IF number \in DOMAIN mailbox THEN seen \cup {mailbox[number]} ELSE seen
    /\ Advance(s)
    /\ UNCHANGED <<arrived, mailbox, opened, rows, ids, faults>>

(* Flagging is best-effort. *)
MarkSeenFails(s) ==
    /\ sync[s].at = "flag"
    /\ Fault("flag")
    /\ Advance(s)
    /\ UNCHANGED <<arrived, mailbox, seen, opened, rows, ids>>

(* The request or the process is lost. *)
Abort(s) ==
    /\ sync[s].at # "idle"
    /\ Fault("abort")
    /\ sync' = [sync EXCEPT ![s] = Idle]
    /\ UNCHANGED <<arrived, mailbox, seen, opened, rows, ids>>

SyncStep(s) == \/ Fetch(s) \/ Skip(s) \/ NotStored(s) \/ Insert(s)
               \/ InsertConflicts(s) \/ MarkSeen(s)

Next == \/ \E m \in Mails : Arrive(m)
        \/ \E i \in DOMAIN mailbox : Read(i) \/ Expunge(i)
        \/ \E s \in Syncs : SyncStep(s) \/ MarkSeenFails(s) \/ Abort(s)

Spec == Init /\ [][Next]_vars

(* Each sync request runs to its end, and the client starts another. *)
FairSpec == Spec /\ \A s \in Syncs : WF_vars(SyncStep(s))

----------------------------------------------------------------------------
(* Properties. *)

(* A message is stored once, although overlapping syncs fetch it and check *)
(* for it before either inserts it, and syncs are cut short and repeated;  *)
(* one without a Message-ID as long as its number does not move.  And what *)
(* the sync never stored is not flagged seen, or the next SEARCH UNSEEN    *)
(* would pass it over for good: that too takes numbers that do not move    *)
(* between the fetch and the flag.                                         *)
SeenIsStoredOnce ==
    /\ \A m \in Mails : m \notin Anonymous \/ "expunge" \notin faults => rows[m] <= 1
    /\ "expunge" \notin faults => \A m \in seen \ opened : rows[m] > 0

(* Stored, unseen and flagged by nobody any more: a later sync fetches     *)
(* such a message and skips it before it would flag it.                    *)
Stuck == {m \in arrived \ seen : /\ rows[m] > 0
                                 /\ \A s \in Syncs : sync[s].at = "flag" => Current(s).mail # m}

(* Every message that arrives is stored by some sync, although each takes  *)
(* the Limit oldest unseen ones, as long as fewer than Limit have lost     *)
(* their flag (and no sync is cut short, no message expunged: a message    *)
(* without a Message-ID passes for the one stored under its number).       *)
MailIsStored ==
    \A m \in Mails : m \in arrived ~>
        \/ rows[m] > 0
        \/ m \in opened
        \/ Cardinality(Stuck) >= Limit
        \/ faults \cap {"abort", "expunge"} # {}
====
