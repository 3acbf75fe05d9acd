---- MODULE Stores ----
(***************************************************************************)
(* Where vectors and files are kept: the adapters behind the ports         *)
(* VectorStoreProvider and StorageProvider (infrastructure/vectorstore,    *)
(* infrastructure/storage).                                                *)
(*                                                                         *)
(* A vector server keeps its points in a collection, which each process    *)
(* makes sure of on first use and remembers: Qdrant's by name, Chroma's by *)
(* the id it was given.  The other adapters need none.  Requests may be    *)
(* lost, or applied and their reply lost; a process may restart and the    *)
(* server's data may be wiped while processes run.                         *)
(***************************************************************************)
EXTENDS Naturals, FiniteSets

CONSTANTS Calls,          \* calls of an adapter
          Processes,
          HomeOf(_),      \* the process a call is made in
          Keys,           \* vector ids or object keys
          MaxFaults       \* bound: wipes of the server's data and restarts of a process

VARIABLES adapter,        \* the configured adapter
          server,         \* [made: the collection's id or 0, holds: keys]
          local,          \* local[p]: keys in a process's memory or on its disk
          known,          \* known[p]: the collection it has made sure of, or 0
          lock,           \* lock[p]: the call that holds the adapter's lock
          call,           \* each call: its place and what it does
          acked,          \* history: acked[p]: keys p should find by what was acknowledged
          doubtful,       \* history: keys two calls changed at once, or one failed to
          wiped, restarted

vars == <<adapter, server, local, known, lock, call, acked, doubtful, wiped, restarted>>

NoCall == "no call"
Idle == [at |-> "idle", op |-> "get", key |-> CHOOSE k \in Keys : TRUE, found |-> FALSE, error |-> "none"]

Servers == {"chroma", "qdrant"}                   \* with a collection
Remote == Servers \cup {"s3"}

Init == /\ adapter \in Remote \cup {"memory", "local"}
        /\ server = [made |-> 0, holds |-> {}]
        /\ local = [p \in Processes |-> {}]
        /\ known = [p \in Processes |-> 0]
        /\ lock = [p \in Processes |-> NoCall]
        /\ call = [c \in Calls |-> Idle]
        /\ acked = [p \in Processes |-> {}]
        /\ doubtful = {}
        /\ wiped = 0
        /\ restarted = 0

Goto(c, at) == call' = [call EXCEPT ![c].at = at]
InFlight == {c \in Calls : call[c].at \notin {"idle", "done"}}
Changes(c) == call[c].op # "get"

----------------------------------------------------------------------------
(* A call begins; save's key is new and random, a vector's id is the       *)
(* chunk's and may be written again.                                       *)

Begin(c, op, key) ==
    /\ call[c].at = "idle"
    /\ op = "put" /\ adapter \in {"local", "s3"} =>
          \A d \in Calls : call[d].at # "idle" /\ call[d].op = "put" => call[d].key # key
    /\ call' = [call EXCEPT ![c] = [Idle EXCEPT !.op = op, !.key = key,
                   !.at = IF adapter \in Servers /\ known[HomeOf(c)] = 0 THEN "ensure" ELSE "send"]]
    /\ doubtful' = IF op # "get" /\ \E d \in InFlight : call[d].key = key /\ Changes(d)
                   THEN doubtful \cup {key} ELSE doubtful
    /\ UNCHANGED <<adapter, server, local, known, lock, acked, wiped, restarted>>

(* One call of a process at a time makes sure of the collection; those     *)
(* that waited find it known.                                              *)
Lock(c) ==
    /\ call[c].at = "ensure"
    /\ lock[HomeOf(c)] = NoCall
    /\ IF known[HomeOf(c)] # 0 THEN Goto(c, "send") /\ UNCHANGED lock
       ELSE Goto(c, "look") /\ lock' = [lock EXCEPT ![HomeOf(c)] = c]
    /\ UNCHANGED <<adapter, server, local, known, acked, doubtful, wiped, restarted>>

Ensured(c, made) ==
    /\ known' = [known EXCEPT ![HomeOf(c)] = made]
    /\ lock' = [lock EXCEPT ![HomeOf(c)] = NoCall]
    /\ Goto(c, "send")

Made == [made |-> wiped + 1, holds |-> {}]

(* Chroma gets or creates in one request. *)
GetOrCreate(c) ==
    /\ call[c].at = "look"
    /\ adapter = "chroma"
    /\ server' = IF server.made = 0 THEN Made ELSE server
    /\ Ensured(c, server'.made)
    /\ UNCHANGED <<adapter, local, acked, doubtful, wiped, restarted>>

(* Qdrant's adapter looks first, and creates what it has not found. *)
Look(c) ==
    /\ call[c].at = "look"
    /\ adapter = "qdrant"
    /\ IF server.made # 0 THEN Ensured(c, server.made) ELSE Goto(c, "create") /\ UNCHANGED <<known, lock>>
    /\ UNCHANGED <<adapter, server, local, acked, doubtful, wiped, restarted>>

Failed(c, error) ==
    /\ call' = [call EXCEPT ![c].at = "done", ![c].error = error]
    /\ doubtful' = IF Changes(c) THEN doubtful \cup {call[c].key} ELSE doubtful

(* Mutant: creating replaces a collection that is there. *)
CreateOver(c) ==
    /\ call[c].at = "create"
    /\ server' = Made
    /\ Ensured(c, Made.made)
    /\ UNCHANGED <<adapter, local, acked, doubtful, wiped, restarted>>

(* The server refuses a collection that another process made meanwhile,    *)
(* and the call fails for it.                                              *)
Create(c) ==
    /\ call[c].at = "create"
    /\ IF server.made = 0
       THEN server' = Made /\ Ensured(c, Made.made) /\ UNCHANGED doubtful
       ELSE /\ Failed(c, "conflict")
            /\ lock' = [lock EXCEPT ![HomeOf(c)] = NoCall]
            /\ UNCHANGED <<server, known>>
    /\ UNCHANGED <<adapter, local, acked, wiped, restarted>>

----------------------------------------------------------------------------
(* The request itself. *)

Applied(c, keys) == IF call[c].op = "put" THEN keys \cup {call[c].key}
                    ELSE IF call[c].op = "remove" THEN keys \ {call[c].key} ELSE keys
Answered(c, keys) == call' = [call EXCEPT ![c].at = "reply",
                                          ![c].found = call[c].op = "get" /\ call[c].key \in keys]

Sent(c) == /\ server' = [server EXCEPT !.holds = Applied(c, @)]
           /\ Answered(c, server.holds)
           /\ UNCHANGED doubtful
Missed(c) == Failed(c, "no collection") /\ UNCHANGED server

(* Qdrant's collection is addressed by its name. *)
SendToQdrant(c) ==
    /\ call[c].at = "send"
    /\ adapter = "qdrant"
    /\ IF server.made # 0 THEN Sent(c) ELSE Missed(c)
    /\ UNCHANGED <<adapter, local, known, lock, acked, wiped, restarted>>

(* Chroma's is addressed by the id this process was given. *)
SendToChroma(c) ==
    /\ call[c].at = "send"
    /\ adapter = "chroma"
    /\ IF server.made = known[HomeOf(c)] THEN Sent(c) ELSE Missed(c)
    /\ UNCHANGED <<adapter, local, known, lock, acked, wiped, restarted>>

(* A bucket is there before the deployment is. *)
SendToBucket(c) ==
    /\ call[c].at = "send"
    /\ adapter = "s3"
    /\ Sent(c)
    /\ UNCHANGED <<adapter, local, known, lock, acked, wiped, restarted>>

Keep(c) ==
    /\ call[c].at = "send"
    /\ local' = [local EXCEPT ![HomeOf(c)] = Applied(c, @)]
    /\ Answered(c, local[HomeOf(c)])
    /\ UNCHANGED <<adapter, server, known, lock, acked, doubtful, wiped, restarted>>
KeepInMemory(c) == adapter = "memory" /\ Keep(c)
KeepOnDisk(c) == adapter = "local" /\ Keep(c)

(* What is missing may be removed; an object that is missing is an error   *)
(* to read, FileNotFoundError of both storages.                            *)
Reply(c) ==
    /\ call[c].at = "reply"
    /\ acked' = [p \in Processes |-> IF adapter \in Remote \/ p = HomeOf(c)
                                     THEN Applied(c, acked[p]) ELSE acked[p]]
    /\ call' = [call EXCEPT ![c].at = "done",
                   ![c].error = IF call[c].op = "get" /\ adapter \in {"local", "s3"} /\ ~call[c].found
                                THEN "not found" ELSE "none"]
    /\ UNCHANGED <<adapter, server, local, known, lock, doubtful, wiped, restarted>>

(* A timeout, before or after the server acted. *)
TimeOut(c) ==
    /\ call[c].at \in {"look", "create", "send", "reply"}
    /\ adapter \in Remote
    /\ Failed(c, "upstream")
    /\ lock' = IF lock[HomeOf(c)] = c THEN [lock EXCEPT ![HomeOf(c)] = NoCall] ELSE lock
    /\ UNCHANGED <<adapter, server, local, known, acked, wiped, restarted>>

----------------------------------------------------------------------------
(* Operations. *)

Wipe == /\ adapter \in Servers
        /\ wiped + restarted < MaxFaults
        /\ wiped' = wiped + 1
        /\ server' = [made |-> 0, holds |-> {}]
        /\ acked' = [p \in Processes |-> {}]
        /\ doubtful' = doubtful \cup {call[c].key : c \in {d \in InFlight : Changes(d)}}
        /\ UNCHANGED <<adapter, local, known, lock, call, restarted>>

(* What a process held in memory, and its calls, go with it. *)
Restart(p) ==
    /\ wiped + restarted < MaxFaults
    /\ restarted' = restarted + 1
    /\ known' = [known EXCEPT ![p] = 0]
    /\ lock' = [lock EXCEPT ![p] = NoCall]
    /\ IF adapter = "memory"
       THEN local' = [local EXCEPT ![p] = {}] /\ acked' = [acked EXCEPT ![p] = {}]
       ELSE UNCHANGED <<local, acked>>
    /\ call' = [c \in Calls |-> IF HomeOf(c) = p /\ c \in InFlight
                                THEN [call[c] EXCEPT !.at = "done", !.error = "upstream"] ELSE call[c]]
    /\ doubtful' = doubtful \cup {call[c].key : c \in {d \in InFlight : HomeOf(d) = p /\ Changes(d)}}
    /\ UNCHANGED <<adapter, server, wiped>>

Next == \/ \E c \in Calls : \/ \E op \in {"put", "get", "remove"}, key \in Keys : Begin(c, op, key)
                            \/ Lock(c) \/ GetOrCreate(c) \/ Look(c) \/ Create(c)
                            \/ SendToQdrant(c) \/ SendToChroma(c) \/ SendToBucket(c)
                            \/ KeepInMemory(c) \/ KeepOnDisk(c) \/ Reply(c) \/ TimeOut(c)
        \/ Wipe
        \/ \E p \in Processes : Restart(p)

Spec == Init /\ [][Next]_vars

----------------------------------------------------------------------------
(* Properties. *)

(* The adapters keep one promise: what was acknowledged is there, and what *)
(* was acknowledged as removed is not, unless calls overlapped on it or    *)
(* one failed; on a server for every process and across restarts, in       *)
(* memory and on disk in the process that wrote it ("interchangeable").    *)
(* A collection is never made twice over its points, its lock is never     *)
(* left behind, and a call is refused for want of a collection only after  *)
(* the server's data was lost.                                             *)
Holds(p) == IF adapter \in Remote THEN server.holds ELSE local[p]
AcknowledgedIsKept ==
    /\ \A key \in Keys \ doubtful :
          (\A c \in InFlight : call[c].key = key => ~Changes(c)) =>
             \A p \in Processes : key \in Holds(p) <=> key \in acked[p]
    /\ \A c \in Calls : /\ call[c].error = "no collection" => wiped > 0
                        /\ call[c].error = "conflict" => adapter = "qdrant" /\ Cardinality(Processes) > 1
    /\ \A p \in Processes : lock[p] # NoCall => call[lock[p]].at \in {"look", "create"}
====
