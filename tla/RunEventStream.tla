---- MODULE RunEventStream ----
(***************************************************************************)
(* Live run status over WebSockets (ws/manager.py, ws/router.py).          *)
(*                                                                         *)
(* The executor publishes a run's events and awaits their handlers, so the *)
(* handler only puts into each connection's bounded queue and never waits. *)
(* A queue that is full loses its OLDEST event; how many were lost goes    *)
(* out with the next message.  A pump per connection takes from the queue  *)
(* and awaits the socket, which may be slow or broken.                     *)
(***************************************************************************)
EXTENDS Naturals, Sequences, FiniteSets

CONSTANTS Clients,        \* WebSocket connections
          Runs,           \* workflow runs
          Every,          \* run_id of a connection that follows every run
          QUEUE_SIZE,
          MaxEvents       \* bound: events published

VARIABLES published,      \* the run of each event, in the order of publishing
          client          \* the Subscriber and the pump of each connection

vars == <<published, client>>

(* Events are named by their place in "published".  "since" and "received" *)
(* are history fields: where the connection began and what it was sent.    *)
Away == [at |-> "away", run_id |-> Every, queue |-> <<>>, dropped |-> 0,
         message |-> [event |-> 0, dropped |-> 0], since |-> 0, received |-> <<>>]

Init == /\ published = <<>>
        /\ client = [c \in Clients |-> Away]

----------------------------------------------------------------------------
(* wants: a connection follows one run or every run. *)
Wants(c, run) == client[c].run_id \in {run, Every}

(* Mutants of offer: no bound; the newest event is the one that is lost. *)
OfferUnbounded(cl, event) == [cl EXCEPT !.queue = Append(@, event)]
OfferDroppingNewest(cl, event) ==
    IF Len(cl.queue) < QUEUE_SIZE
    THEN [cl EXCEPT !.queue = Append(@, event)]
    ELSE [cl EXCEPT !.dropped = @ + 1]

(* offer: put without waiting, at the price of the oldest event. *)
Offer(cl, event) ==
    IF Len(cl.queue) < QUEUE_SIZE
    THEN [cl EXCEPT !.queue = Append(@, event)]
    ELSE [cl EXCEPT !.queue = Append(Tail(@), event), !.dropped = @ + 1]

(* broadcast, for an event of a run. *)
Publish(run) ==
    /\ Len(published) < MaxEvents
    /\ published' = Append(published, run)
    /\ client' = [c \in Clients |->
            IF client[c].at # "away" /\ Wants(c, run)
            THEN Offer(client[c], Len(published) + 1)
            ELSE client[c]]

(* register. *)
Connect(c, run_id) ==
    /\ client[c].at = "away"
    /\ client' = [client EXCEPT ![c] = [Away EXCEPT !.at = "pump", !.run_id = run_id,
                                                    !.since = Len(published)]]
    /\ UNCHANGED published

(* Mutant: the counter is not reset. *)
TakeCountingOn(c) ==
    LET cl == client[c]
    IN  /\ cl.at = "pump"
        /\ cl.queue # <<>>
        /\ client' = [client EXCEPT ![c] =
                [cl EXCEPT !.at = "send", !.queue = Tail(@),
                           !.message = [event |-> Head(cl.queue), dropped |-> cl.dropped]]]
        /\ UNCHANGED published

(* _pump: take the oldest event and the count of those lost before it ... *)
Take(c) ==
    LET cl == client[c]
    IN  /\ cl.at = "pump"
        /\ cl.queue # <<>>
        /\ client' = [client EXCEPT ![c] =
                [cl EXCEPT !.at = "send", !.queue = Tail(@), !.dropped = 0,
                           !.message = [event |-> Head(cl.queue), dropped |-> cl.dropped]]]
        /\ UNCHANGED published

(* ... and await the socket. *)
Send(c) ==
    /\ client[c].at = "send"
    /\ client' = [client EXCEPT ![c].at = "pump",
                                ![c].received = Append(@, client[c].message)]
    /\ UNCHANGED published

(* The socket closes, or a send raises: unregister. *)
Disconnect(c) ==
    /\ client[c].at # "away"
    /\ client' = [client EXCEPT ![c] = Away]
    /\ UNCHANGED published

Pump(c) == Take(c) \/ Send(c)

Next == \/ \E run \in Runs : Publish(run)
        \/ \E c \in Clients :
              \/ \E run_id \in Runs \cup {Every} : Connect(c, run_id)
              \/ Pump(c)
              \/ Disconnect(c)

Spec == Init /\ [][Next]_vars

(* The event loop runs every pump; a stuck socket is closed in the end.    *)
FairSpec == Spec /\ \A c \in Clients : WF_vars(Pump(c))

----------------------------------------------------------------------------
(* Properties. *)

(* The events c follows after event "from" and up to event "to". *)
Followed(c, from, to) == {e \in (from + 1)..to : Wants(c, published[e])}

(* What the client knows it has: the last message, or the start. *)
LastBefore(c, i) == IF i = 1 THEN client[c].since ELSE client[c].received[i - 1].event

(* "Report drops rather than hiding them" (_pump): the count sent with a   *)
(* message is exactly the number of followed events missing between it and *)
(* the one received before, however publishing and sending interleave.     *)
(* Order and absence of duplicates follow.  And no client, however slow,    *)
(* makes the server hold more than its queue.                              *)
GapsReported ==
    \A c \in Clients :
      /\ Len(client[c].queue) <= QUEUE_SIZE
      /\ \A i \in DOMAIN client[c].received :
            LET m == client[c].received[i] IN
            /\ m.event > LastBefore(c, i)
            /\ Cardinality(Followed(c, LastBefore(c, i), m.event)) = m.dropped + 1

(* A slow client still learns how a run ended: once publishing stops, the  *)
(* last event it follows reaches it, unless it disconnects.                *)
Caught(c) ==
    \A e \in Followed(c, client[c].since, Len(published)) :
        \E i \in DOMAIN client[c].received : client[c].received[i].event >= e
CatchesUp ==
    \A c \in Clients : client[c].at = "pump" ~> client[c].at = "away" \/ Caught(c)
====
