---- MODULE ConnectionPool ----
(***************************************************************************)
(* The database connections that concurrent asks share.  The engine is     *)
(* built with the default pool: so many connections, and a caller who      *)
(* finds none waits until its timeout.                                     *)
(*                                                                         *)
(* The request's session takes a connection at its first SELECT and keeps  *)
(* it until it commits or is closed, through every model call in between;  *)
(* the executor and the recorder write in sessions of their own            *)
(* meanwhile, each of which needs a second connection.  Asks that hold     *)
(* every connection of the pool therefore wait for one another until a     *)
(* timeout, and whoever is timed out loses what it was about to write.     *)
(* Here the database itself fails nobody, and no client leaves.            *)
(***************************************************************************)
EXTENDS Naturals, Sequences, FiniteSets

CONSTANTS Requests,
          AgentAsks,      \* those that run the agents; the others ask the documents
          Nodes,          \* of a graph, at most: two, or three with the gate
          POOL            \* connections at most: pool_size + max_overflow

VARIABLES request,        \* each request: its place and kind, its connections, what it
                          \* has used a second one for (the last use goes on while
                          \* "nested"), and how it ended
          written,        \* the uses nested sessions have committed for it, in this order
          most            \* history: requests that held or awaited one at once, at most

vars == <<request, written, most>>

(* An ask of the documents is answered whole or streamed.                  *)
KindsOf(r) == IF r \in AgentAsks THEN {"agent"} ELSE {"plain", "stream"}
Arrived == [at |-> "arrived", kind |-> "plain", own |-> FALSE, nested |-> FALSE,
            uses |-> <<>>, outcome |-> "none"]

Init == /\ request = [r \in Requests |-> Arrived]
        /\ written = [r \in Requests |-> <<>>]
        /\ most = 0

Held == Cardinality({r \in Requests : request[r].own}) + Cardinality({r \in Requests : request[r].nested})
Free == POOL - Held

Step(r, from, to) ==
    /\ request[r].at = from
    /\ request' = [request EXCEPT ![r] = to]
    /\ most' = LET n == Cardinality({q \in Requests : \/ request'[q].at \notin {"arrived", "ended"}
                                                       \/ request'[q].own})
               IN IF n > most THEN n ELSE most
Silent == UNCHANGED written

(* Mutant: the request's session is closed only when the request succeeds. *)
EndLeaking(r, outcome) ==
    [request[r] EXCEPT !.at = "ended", !.outcome = outcome,
                       !.own = @ /\ (request[r].kind = "stream" \/ outcome = "refused")]

(* get_db_session closes the session whatever happened in the request.  A  *)
(* stream's is closed before its frames are made: what the frames took     *)
(* again, no code returns.                                                 *)
End(r, outcome) ==
    [request[r] EXCEPT !.at = "ended", !.outcome = outcome, !.own = @ /\ request[r].kind = "stream"]

(* The session is garbage, and the pool has its connection back.           *)
Collect(r) ==
    /\ request[r].own
    /\ Step(r, "ended", [request[r] EXCEPT !.own = FALSE])
    /\ Silent

----------------------------------------------------------------------------
(* The request's own session. *)

(* get_workspace_user: the first SELECT.                                   *)
Begin(r) ==
    /\ Free > 0
    /\ \E kind \in KindsOf(r) :
          Step(r, "arrived", [request[r] EXCEPT !.at = "resolving", !.kind = kind, !.own = TRUE])
    /\ Silent

(* A commit, of a new thread or of a first preferences row, returns the    *)
(* connection; a thread that is only looked up keeps it.  A stream's       *)
(* session is closed before its body runs.                                 *)
Resolve(r) ==
    /\ \E own \in BOOLEAN :
          /\ own => request[r].kind # "stream"
          /\ Step(r, "resolving", [request[r] EXCEPT !.at = "reading", !.own = own])
    /\ Silent

(* Refused with no call made: there is no such thread, or no version that  *)
(* can run, or the embedding or the vector store is away.                  *)
Refuse(r) ==
    /\ \/ request[r].kind = "agent" /\ Step(r, "resolving", End(r, "refused"))
       \/ Step(r, "reading", End(r, "refused"))
    /\ Silent

(* The history, the live version, the keyword search: held from here on.   *)
(* An ask of the documents may have no keywords to search, and goes on     *)
(* without those it could not.                                             *)
Read(r) ==
    /\ \E own \in BOOLEAN :
          /\ own => request[r].own \/ Free > 0
          /\ ~own => request[r].kind # "agent" /\ ~request[r].own
          /\ Step(r, "reading", [request[r] EXCEPT !.at = "running", !.own = own])
    /\ Silent

----------------------------------------------------------------------------
(* Sessions of the executor and of the recorder: "create" the run, "audit" *)
(* a model call, record a "step", "finish" the run.  A run has two nodes,  *)
(* or three with the gate; each of the first two makes a call or does      *)
(* without (a request routed by its verb, nothing found to answer from).   *)
Latest(r) == IF request[r].uses = <<>> THEN "none" ELSE request[r].uses[Len(request[r].uses)]
StepsOf(r) == Cardinality({k \in DOMAIN request[r].uses : request[r].uses[k] = "step"})
Follows(r) ==
    IF request[r].kind = "agent"
    THEN {use \in {"create", "audit", "step", "finish"} :
            \/ use = "create" /\ Latest(r) = "none"
            \/ use = "audit" /\ Latest(r) \in {"create", "step"} /\ StepsOf(r) < 2
            \/ use = "step" /\ Latest(r) \in {"create", "audit", "step"} /\ StepsOf(r) < Nodes
            \/ use = "finish" /\ Latest(r) = "step" /\ StepsOf(r) > 1}
    ELSE {use \in {"audit"} : Latest(r) = "none"}

Used(r, use) == [request[r] EXCEPT !.uses = Append(@, use)]

Open(r) ==
    /\ ~request[r].nested /\ Free > 0
    /\ \/ \E use \in Follows(r) : Step(r, "running", [Used(r, use) EXCEPT !.nested = TRUE])
       \/ Step(r, "failing", [request[r] EXCEPT !.nested = TRUE])
    /\ Silent

Failure == 0

(* Mutant: the run that failed is left as it is. *)
WrittenAsUse(r) == Len(request[r].uses)

(* The failure of a run is written in place of the step that failed. *)
Written(r) == IF request[r].at = "failing" THEN Failure ELSE Len(request[r].uses)

Commit(r) ==
    /\ request[r].nested
    /\ written' = [written EXCEPT ![r] = Append(@, Written(r))]
    /\ LET closed == [request[r] EXCEPT !.nested = FALSE] IN
       \/ Step(r, "running", closed)
       \/ Step(r, "failing", [closed EXCEPT !.at = "ended", !.outcome = "refused", !.own = FALSE])

(* The planner saves its tasks in the request's session, and the commit    *)
(* returns the connection.                                                 *)
SavePlan(r) ==
    /\ Latest(r) = "audit" /\ StepsOf(r) = 1 /\ ~request[r].nested
    /\ Step(r, "running", [request[r] EXCEPT !.own = FALSE])
    /\ Silent

(* A node raises in place of its step, its call audited or not made.       *)
NodeFails(r) ==
    /\ "step" \in Follows(r) /\ ~request[r].nested
    /\ Step(r, "running", [request[r] EXCEPT !.at = "failing"])
    /\ Silent

(* A plain ask has no run: its call's failure, audited, is its own.        *)
CallFails(r) ==
    /\ request[r].kind # "agent" /\ Latest(r) = "audit" /\ ~request[r].nested
    /\ Step(r, "running", End(r, "refused"))
    /\ Silent

(* An ask of the agents commits its exchange, or the approval, in the      *)
(* request's session; the others have nothing left to write.               *)
Reply(r) ==
    /\ request[r].kind = "agent" => Latest(r) = "finish" /\ (request[r].own \/ Free > 0)
    /\ ~request[r].nested
    /\ Step(r, "running", End(r, "answered"))
    /\ Silent

----------------------------------------------------------------------------
(* Nobody who could soon return a connection: the wait lasts its timeout.  *)
Exhausted == Free = 0 /\ \A r \in Requests : ~request[r].nested

(* What each caller makes of the timeout: the recorder logs what it cannot *)
(* save and the call goes on; a step's is the run's failure; the run's row *)
(* is created and finished outside that handler.                           *)
GiveUp(r, use) ==
    \/ use = "audit" /\ Step(r, "running", Used(r, use))
    \/ use = "step" /\ Step(r, "running", [request[r] EXCEPT !.at = "failing"])
    \/ use \in {"create", "finish"} /\ Step(r, "running", End(r, "refused"))

TimeOut(r) ==
    /\ Exhausted
    /\ \/ \E use \in Follows(r) : GiveUp(r, use)
       \/ \E at \in {"arrived", "failing"} : Step(r, at, End(r, "refused"))
       \/ /\ request[r].kind = "agent" /\ ~request[r].own
          /\ \/ Step(r, "reading", End(r, "refused"))
             \/ Latest(r) = "finish" /\ Step(r, "running", End(r, "refused"))
    /\ Silent

Next == \E r \in Requests : \/ Begin(r) \/ Resolve(r) \/ Refuse(r) \/ Read(r)
                            \/ Open(r) \/ Commit(r) \/ SavePlan(r)
                            \/ NodeFails(r) \/ CallFails(r) \/ Reply(r)
                            \/ TimeOut(r) \/ Collect(r)

Spec == Init /\ [][Next]_vars

----------------------------------------------------------------------------
(* Properties. *)

Wrote(r, use) == \E i \in DOMAIN written[r] : written[r][i] = use
InTurn(uses) == \A i, j \in DOMAIN uses : i < j => uses[i] < uses[j]

(* The pool is never overdrawn, and a request that ended holds nothing but *)
(* what the frames of a stream took.  As long as there were fewer asks at  *)
(* once than connections, nothing is lost for want of one: of a request    *)
(* that ended, every call it made is audited and every step it took is on  *)
(* record, and a run that was begun is finished or has its failure on      *)
(* record.  However crowded, an answer has its run created, finished, and  *)
(* every step on record, in order; only audits may be missing (service.py  *)
(* 88 to 127, 290 to 309, recorder.py 216 to 250, core/dependencies.py 95  *)
(* to 99).                                                                 *)
NothingLostUnlessCrowded ==
    /\ Held <= POOL
    /\ \A r \in Requests :
          /\ request[r].at = "ended" /\ request[r].own => request[r].kind = "stream"
          /\ request[r].outcome = "answered" =>
                /\ InTurn(written[r])
                /\ \A k \in DOMAIN request[r].uses :
                      request[r].uses[k] # "audit" \/ most < POOL => Wrote(r, k)
          /\ most < POOL /\ request[r].outcome = "refused" =>
                /\ \A k \in DOMAIN request[r].uses : Wrote(r, k)
                /\ request[r].kind = "agent" /\ request[r].uses # <<>> => Wrote(r, Failure)
====
