---- MODULE EventFanout ----
(***************************************************************************)
(* The event bus of several replicas (platform/events/bus.py and           *)
(* redis_bus.py).  A request publishes its events one after the other and  *)
(* awaits each: the handlers of its own replica run first, one by one;     *)
(* then the event is mirrored to the channel every replica listens on.  A  *)
(* replica's consumer hands what others published to its own handlers.     *)
(*                                                                         *)
(* Redis pub/sub keeps nothing: what no connection is there to take, or is *)
(* in a connection's buffer when that is lost, is gone.                    *)
(***************************************************************************)
EXTENDS Naturals, Sequences

CONSTANTS Replicas,
          Requests,       \* requests that publish
          HomeOf(_),      \* the replica a request runs on
          HANDLERS,       \* handlers subscribed to the event, on each replica
          MaxEvents       \* bound: events of a request

VARIABLES publisher,      \* where each request is in publish
          listening,      \* replicas that are connected to the channel
          buffer,         \* what each replica's connection holds
          consumer,       \* what each replica's _consume is dispatching
          handled         \* history: the calls of each replica's handlers

vars == <<publisher, listening, buffer, consumer, handled>>

(* An event is named by its request and its place in it. *)
Event(q, n) == [of |-> q, number |-> n]
Origin(event) == HomeOf(event.of)
Nothing == <<>>

(* start: a replica that cannot subscribe has no consumer and stays alone. *)
Init == \E started \in SUBSET Replicas :
        /\ publisher = [q \in Requests |-> [at |-> "away", number |-> 0, handler |-> 0]]
        /\ listening = started
        /\ buffer = [r \in Replicas |-> <<>>]
        /\ consumer = [r \in Replicas |-> [running |-> r \in started, event |-> Nothing, handler |-> 0]]
        /\ handled = [r \in Replicas |-> <<>>]

----------------------------------------------------------------------------
Call(r, handler, event) ==
    handled' = [handled EXCEPT ![r] = Append(@, [handler |-> handler, event |-> event])]

(* A request begins to publish its next event. *)
Publish(q) ==
    /\ publisher[q].at = "away"
    /\ publisher[q].number < MaxEvents
    /\ publisher' = [publisher EXCEPT ![q] =
            [at |-> "local", number |-> @.number + 1, handler |-> 1]]
    /\ UNCHANGED <<listening, buffer, consumer, handled>>

(* Mutant: a handler that raises ends the loop over the handlers. *)
DispatchUntilError(q, raises) ==
    /\ publisher[q].at = "local"
    /\ Call(HomeOf(q), publisher[q].handler, Event(q, publisher[q].number))
    /\ publisher' = IF raises \/ publisher[q].handler = HANDLERS
                    THEN [publisher EXCEPT ![q].at = "mirror"]
                    ELSE [publisher EXCEPT ![q].handler = @ + 1]
    /\ UNCHANGED <<listening, buffer, consumer>>

(* Its replica's handlers, one by one; one that raises is logged. *)
Dispatch(q, raises) ==
    /\ publisher[q].at = "local"
    /\ Call(HomeOf(q), publisher[q].handler, Event(q, publisher[q].number))
    /\ publisher' = IF publisher[q].handler = HANDLERS
                    THEN [publisher EXCEPT ![q].at = "mirror"]
                    ELSE [publisher EXCEPT ![q].handler = @ + 1]
    /\ UNCHANGED <<listening, buffer, consumer>>

Returned(q) == publisher' = [publisher EXCEPT ![q].at = "away"]

(* _mirror: to every connection, the publisher's own included ... *)
Mirror(q) ==
    /\ publisher[q].at = "mirror"
    /\ buffer' = [r \in Replicas |->
            IF r \in listening THEN Append(buffer[r], Event(q, publisher[q].number))
                               ELSE buffer[r]]
    /\ Returned(q)
    /\ UNCHANGED <<listening, consumer, handled>>

(* ... or to none, when Redis does not answer: the request goes on. *)
MirrorFails(q) ==
    /\ publisher[q].at = "mirror"
    /\ Returned(q)
    /\ UNCHANGED <<listening, buffer, consumer, handled>>

(* Mutant: the replica's own events are not told from the others'. *)
ReceiveAny(r, decodes) ==
    /\ consumer[r].event = Nothing
    /\ buffer[r] # <<>>
    /\ buffer' = [buffer EXCEPT ![r] = Tail(@)]
    /\ consumer' = IF decodes
                   THEN [consumer EXCEPT ![r].event = Head(buffer[r]), ![r].handler = 1]
                   ELSE consumer
    /\ UNCHANGED <<publisher, listening, handled>>

(* _consume takes a message.  Its own replica's is dropped, and so may be  *)
(* one that does not decode: a type this version does not know.            *)
Receive(r, decodes) ==
    /\ consumer[r].event = Nothing
    /\ buffer[r] # <<>>
    /\ buffer' = [buffer EXCEPT ![r] = Tail(@)]
    /\ consumer' = IF decodes /\ Origin(Head(buffer[r])) # r
                   THEN [consumer EXCEPT ![r].event = Head(buffer[r]), ![r].handler = 1]
                   ELSE consumer
    /\ UNCHANGED <<publisher, listening, handled>>

(* "Local handlers only", one by one; the event is not mirrored again. *)
Deliver(r) ==
    /\ consumer[r].event # Nothing
    /\ Call(r, consumer[r].handler, consumer[r].event)
    /\ consumer' = IF consumer[r].handler = HANDLERS
                   THEN [consumer EXCEPT ![r].event = Nothing, ![r].handler = 0]
                   ELSE [consumer EXCEPT ![r].handler = @ + 1]
    /\ UNCHANGED <<publisher, listening, buffer>>

(* The connection breaks: its buffer is lost, and until the next attempt   *)
(* to receive so is what is published.                                     *)
Disconnect(r) ==
    /\ r \in listening
    /\ listening' = listening \ {r}
    /\ buffer' = [buffer EXCEPT ![r] = <<>>]
    /\ UNCHANGED <<publisher, consumer, handled>>

Reconnect(r) ==
    /\ consumer[r].running
    /\ r \notin listening
    /\ listening' = listening \cup {r}
    /\ UNCHANGED <<publisher, buffer, consumer, handled>>

Next == \/ \E q \in Requests :
              \/ Publish(q)
              \/ \E raises \in BOOLEAN : Dispatch(q, raises)
              \/ Mirror(q)
              \/ MirrorFails(q)
        \/ \E r \in Replicas :
              \/ \E decodes \in BOOLEAN : Receive(r, decodes)
              \/ Deliver(r)
              \/ Disconnect(r)
              \/ Reconnect(r)

Spec == Init /\ [][Next]_vars

----------------------------------------------------------------------------
(* Properties. *)

Returns(q, n) == n < publisher[q].number \/ (n = publisher[q].number /\ publisher[q].at = "away")
Reached(r, event) == \E i \in DOMAIN handled[r] : handled[r][i].event = event

(* "A publisher does not handle its own event twice", and no other replica *)
(* does: on every replica a handler sees the events of a request in the    *)
(* order they were published, none twice, whatever is lost on the way.     *)
(* "Local delivery stays synchronous and comes first": when publish has    *)
(* returned, or another replica handles the event, every handler of the    *)
(* publisher's replica has run, those behind one that raised included.     *)
LocalFirstInOrder ==
    /\ \A r \in Replicas : \A i, j \in DOMAIN handled[r] :
          LET first == handled[r][i]
              later == handled[r][j]
          IN  i < j /\ first.handler = later.handler /\ first.event.of = later.event.of =>
                  first.event.number < later.event.number
    /\ \A q \in Requests, n \in 1..MaxEvents :
          Returns(q, n) \/ (\E r \in Replicas \ {HomeOf(q)} : Reached(r, Event(q, n))) =>
              \A h \in 1..HANDLERS : \E i \in DOMAIN handled[HomeOf(q)] :
                  handled[HomeOf(q)][i] = [handler |-> h, event |-> Event(q, n)]
====
