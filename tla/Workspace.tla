---- MODULE Workspace ----
(***************************************************************************)
(* The one user and the one row of preferences that requests get or create *)
(* (features/users, features/preferences).                                 *)
(*                                                                         *)
(* Both are read first and inserted when absent.  The user's email is      *)
(* unique, so of two first requests one loses and reads the other's row;   *)
(* nothing makes the preferences row unique.                               *)
(***************************************************************************)
EXTENDS Naturals, FiniteSets

CONSTANTS Requests,       \* concurrent requests
          MaxRequests     \* bound: requests started

ASSUME RequestsAssumption == IsFiniteSet(Requests)

VARIABLES users,          \* rows with the workspace email
          preferences,    \* rows: id -> notifications_enabled
          request,        \* each request: its place, user and preferences row
          first,          \* history: requests that found no preferences row
          written,        \* history: the value of the last update
          stale           \* history: an update began from a value changed since

vars == <<users, preferences, request, first, written, stale>>

NoRow == 0
Idle == [at |-> "idle", wants |-> "read", user |-> NoRow, row |-> NoRow, seen |-> TRUE]
Rows == DOMAIN preferences
Started == Cardinality({r \in Requests : request[r].at # "idle"})

Init == /\ users = {}
        /\ preferences = [id \in {} |-> TRUE]
        /\ request = [r \in Requests |-> Idle]
        /\ first = {}
        /\ written = TRUE
        /\ stale = FALSE

Step(r, from, to) == request[r].at = from /\ request' = [request EXCEPT ![r] = to]
Fresh(ids) == CHOOSE n \in 1..(MaxRequests + 1) : n \notin ids /\ \A k \in 1..(n - 1) : k \in ids

----------------------------------------------------------------------------
(* get_workspace_user, in every request. *)

FindUser(r) ==
    /\ Started < MaxRequests
    /\ \E wants \in {"read", "on", "off"} :
          Step(r, "idle", [Idle EXCEPT !.wants = wants, !.at = IF users = {} THEN "add user" ELSE "preferences",
                                       !.user = IF users = {} THEN NoRow ELSE CHOOSE u \in users : TRUE])
    /\ UNCHANGED <<users, preferences, first, written, stale>>

(* Mutant: the email is not unique. *)
AddUserAnyway(r) ==
    LET id == Fresh(users) IN
    /\ Step(r, "add user", [request[r] EXCEPT !.at = "preferences", !.user = id])
    /\ users' = users \cup {id}
    /\ UNCHANGED <<preferences, first, written, stale>>

(* The insert, or the winner's row once the unique index has refused it.   *)
AddUser(r) ==
    LET id == IF users = {} THEN 1 ELSE CHOOSE u \in users : TRUE IN
    /\ Step(r, "add user", [request[r] EXCEPT !.at = "preferences", !.user = id])
    /\ users' = users \cup {id}
    /\ UNCHANGED <<preferences, first, written, stale>>

----------------------------------------------------------------------------
(* PreferencesService. *)

(* get: any row, if there are several. *)
FindRow(r) ==
    /\ \/ \E id \in Rows : Step(r, "preferences", [request[r] EXCEPT !.at = "use", !.row = id, !.seen = preferences[id]])
       \/ Rows = {} /\ Step(r, "preferences", [request[r] EXCEPT !.at = "add row"])
    /\ first' = IF Rows = {} THEN first \cup {r} ELSE first
    /\ UNCHANGED <<users, preferences, written, stale>>

AddRow(r) ==
    LET id == Fresh(Rows) IN
    /\ Step(r, "add row", [request[r] EXCEPT !.at = "use", !.row = id])
    /\ preferences' = [k \in Rows \cup {id} |-> IF k = id THEN TRUE ELSE preferences[k]]
    /\ UNCHANGED <<users, first, written, stale>>

(* update assigns to the row that get returned; what is equal to the value *)
(* it was read with is not written.                                        *)
Update(r) ==
    LET value == request[r].wants = "on"
        row == request[r].row IN
    /\ request[r].wants # "read"
    /\ Step(r, "use", [request[r] EXCEPT !.at = "done"])
    /\ preferences' = IF value = request[r].seen THEN preferences
                      ELSE [preferences EXCEPT ![row] = value]
    /\ written' = value
    /\ stale' = (stale \/ preferences[row] # request[r].seen)
    /\ UNCHANGED <<users, first>>

Read(r) ==
    /\ request[r].wants = "read"
    /\ Step(r, "use", [request[r] EXCEPT !.at = "done"])
    /\ UNCHANGED <<users, preferences, first, written, stale>>

(* The request or the process is lost. *)
Lose(r) ==
    /\ Step(r, request[r].at, [request[r] EXCEPT !.at = "done"])
    /\ request[r].at \notin {"idle", "done"}
    /\ UNCHANGED <<users, preferences, first, written, stale>>

Next == \E r \in Requests : \/ FindUser(r) \/ AddUser(r) \/ FindRow(r) \/ AddRow(r)
                            \/ Update(r) \/ Read(r) \/ Lose(r)

Spec == Init /\ [][Next]_vars

----------------------------------------------------------------------------
(* Properties. *)

(* One workspace: every request that has a user has the same one, however  *)
(* many first requests race (get_workspace_user).  The preferences are one *)
(* row holding what was last asked for, unless two requests both found     *)
(* none, each of which adds a row (PreferencesService.get), or an update   *)
(* began from a value that another has changed since.                      *)
OneWorkspace ==
    /\ Cardinality(users) <= 1
    /\ \A r \in Requests : request[r].user \in users \cup {NoRow}
    /\ Cardinality(Rows) <= Cardinality(first)
    /\ Cardinality(first) <= 1 /\ ~stale => \A id \in Rows : preferences[id] = written
====
