---- MODULE MCDeliveries ----
(***************************************************************************)
(* Small instances of what the outside world delivers: mail under review,  *)
(* the mailbox it came from, and a run's events on their way to a browser. *)
(* They share no state: "focus" is the one that runs, the others stay as   *)
(* they are.  Email review is extended, the others are instances.          *)
(***************************************************************************)
EXTENDS EmailReview

CONSTANTS Messages, Anonymous, Syncs, Shared, Limit, SyncFaults,  \* of MailboxSync
          Clients, Runs, Every, QUEUE_SIZE, MaxEvents              \* of RunEventStream

(* asyncio takes a maxsize of 0 for no bound at all; the queue has one.    *)
ASSUME QueueAssumption == QUEUE_SIZE \in Nat \ {0}

VARIABLES focus,
          arrived, mailbox, seen, opened, rows, ids, sync, lost,
          published, client

Sync == INSTANCE MailboxSync WITH
          Mails <- Messages, Faults <- SyncFaults, faults <- lost
Stream == INSTANCE RunEventStream

syncVars == <<arrived, mailbox, seen, opened, rows, ids, sync, lost>>
streamVars == <<published, client>>
allVars == <<focus, vars, syncVars, streamVars>>

DeliveriesInit ==
    /\ focus \in {"review", "sync", "stream"}
    /\ Init
    /\ focus # "review" => \A m \in Mails : row[m] = NoRow
    /\ Sync!Init
    /\ Stream!Init

DeliveriesNext ==
    /\ UNCHANGED focus
    /\ \/ /\ focus = "review"
          /\ Next
          /\ UNCHANGED <<syncVars, streamVars>>
       \/ /\ focus = "sync"
          /\ Sync!Next
          /\ UNCHANGED <<vars, streamVars>>
       \/ /\ focus = "stream"
          /\ Stream!Next
          /\ UNCHANGED <<vars, syncVars>>

(* The fairness of each, for the one that runs. *)
DeliveriesSpec ==
    /\ DeliveriesInit /\ [][DeliveriesNext]_allVars
    /\ \A m \in Mails : WF_vars(focus = "review" /\ SyncStep(m))
    /\ \A q \in Requests : WF_vars(focus = "review" /\ Decide(q))
    /\ \A s \in Syncs : WF_syncVars(focus = "sync" /\ Sync!SyncStep(s))
    /\ \A c \in Clients : WF_streamVars(focus = "stream" /\ Stream!Pump(c))

(* What the sync stored it stored once, and what it flags is stored. *)
SeenIsStoredOnce == Sync!SeenIsStoredOnce
(* Mail that arrives is stored in the end. *)
MailIsStored == Sync!MailIsStored

(* A client is told exactly how many events it missed. *)
GapsReported == Stream!GapsReported
(* A slow client gets the last event it follows in the end. *)
CatchesUp == Stream!CatchesUp
====
