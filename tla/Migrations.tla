---- MODULE Migrations ----
(***************************************************************************)
(* The chain of schema revisions, and the boots that apply it              *)
(* (alembic/versions, alembic/env.py, docker-entrypoint.sh).               *)
(*                                                                         *)
(* Every container upgrades the database to its image's last revision      *)
(* before it serves.  On Postgres an upgrade is one transaction, which     *)
(* makes the ones beside it wait; on SQLite a statement is committed by    *)
(* itself unless its revision has written rows before it.  Tables stand    *)
(* for themselves with their indexes; other columns for themselves only    *)
(* where a later revision adds or drops them.                              *)
(***************************************************************************)
EXTENDS Naturals, Sequences

CONSTANTS Replicas,       \* containers
          HeadOf(_),      \* the last revision in a container's image
          Versions,       \* revisions the database may be at to begin with
          MaxDowngrades   \* bound: downgrades by the operator

VARIABLES database,       \* "sqlite" or "postgres"
          db,             \* committed: schema, version and the workspace user's email
          work,           \* what the running upgrade or downgrade sees
          holder,         \* who runs it
          replica,        \* each container's place, and the version it started from
          place,          \* the statement the holder is at
          downgrades,
          broken,         \* history: SQLite has kept half a revision
          types_left      \* history: enum types a downgrade did not drop

vars == <<database, db, work, holder, replica, place, downgrades, broken, types_left>>

----------------------------------------------------------------------------
(* Statements. *)

Statement(does, names, checked, rows) == [does |-> does, names |-> names, checked |-> checked, rows |-> rows]
Create(names) == Statement("create", names, FALSE, FALSE)
Drop(names) == Statement("drop", names, FALSE, FALSE)
(* create_table creates its enum types without looking; the explicit calls *)
(* pass checkfirst.                                                        *)
CreateType(name) == Statement("create", {name}, FALSE, FALSE)
CreateMissingType(name) == Statement("create", {name}, TRUE, FALSE)
DropTypes(names) == Statement("drop", names, TRUE, FALSE)
(* On SQLite batch_alter_table rebuilds the table, rows and all, for any   *)
(* change but plain columns to add.                                        *)
AddKey(name) == Statement("create", {name}, FALSE, TRUE)
DropColumns(names) == Statement("drop", names, FALSE, TRUE)
(* UPDATE users SET email *)
Rename(email) == Statement(email, {}, FALSE, TRUE)

Types == {"user_role", "document_status", "workflow_run_status", "approval_status",
          "task_priority", "task_status", "email_intent", "email_status"}

(* Foreign keys, a column's table and an enum column's type. *)
Needs == [users |-> {}, role |-> {"users", "user_role"}, password_hash |-> {"users"},
          refresh_tokens |-> {"users"}, documents |-> {"users", "document_status"},
          document_chunks |-> {"documents"}, content |-> {"document_chunks"},
          ai_executions |-> {"users"}, prompt_key |-> {"ai_executions"},
          prompt_version |-> {"ai_executions"}, conversations |-> {"users"},
          messages |-> {"conversations"}, workflow_runs |-> {"users", "workflow_run_status"},
          workflow_steps |-> {"workflow_runs"},
          approvals |-> {"workflow_runs", "users", "approval_status"}, notifications |-> {"users"},
          tasks |-> {"users", "task_priority", "task_status"}, workspace_preferences |-> {},
          emails |-> {"users", "email_intent", "email_status"}, memory_entries |-> {"users"},
          workflow_definitions |-> {}, workflow_versions |-> {"workflow_definitions"},
          workflow_version_id |-> {"workflow_runs", "workflow_versions"},
          calendar_events |-> {"users"}]
NeededBy(o) == IF o \in Types THEN {} ELSE Needs[o]

----------------------------------------------------------------------------
(* The revisions. *)

Initial_users_table ==
    [up |-> <<CreateType("user_role"), Create({"users", "role", "password_hash"})>>,
     down |-> <<Drop({"users", "role", "password_hash"})>>]
Add_refresh_tokens == [up |-> <<Create({"refresh_tokens"})>>, down |-> <<Drop({"refresh_tokens"})>>]
Add_documents_table == [up |-> <<CreateType("document_status"), Create({"documents"})>>,
                        down |-> <<Drop({"documents"})>>]
Add_document_chunks_table == [up |-> <<Create({"document_chunks"})>>, down |-> <<Drop({"document_chunks"})>>]
Add_ai_executions_table == [up |-> <<Create({"ai_executions"})>>, down |-> <<Drop({"ai_executions"})>>]
Add_conversations_and_messages == [up |-> <<Create({"conversations"}), Create({"messages"})>>,
                                   down |-> <<Drop({"messages"}), Drop({"conversations"})>>]
Add_workflow_runs_and_steps ==
    [up |-> <<CreateType("workflow_run_status"), Create({"workflow_runs"}), Create({"workflow_steps"})>>,
     down |-> <<Drop({"workflow_steps"}), Drop({"workflow_runs"})>>]
Add_approvals == [up |-> <<CreateType("approval_status"), Create({"approvals"})>>,
                  down |-> <<Drop({"approvals"})>>]
Add_notifications == [up |-> <<Create({"notifications"})>>, down |-> <<Drop({"notifications"})>>]
Add_tasks == [up |-> <<CreateType("task_priority"), CreateType("task_status"), Create({"tasks"})>>,
              down |-> <<Drop({"tasks"})>>]

(* Mutant: Postgres is left with the enum type. *)
Remove_authentication_keeping_type ==
    [up |-> <<Rename("new"), Drop({"refresh_tokens"}), DropColumns({"password_hash", "role"})>>,
     down |-> <<CreateMissingType("user_role"), Create({"password_hash"}), Create({"role"}),
                Create({"refresh_tokens"}), Rename("old")>>]
Remove_authentication ==
    [up |-> <<Rename("new"), Drop({"refresh_tokens"}), DropColumns({"password_hash", "role"}),
              DropTypes({"user_role"})>>,
     down |-> <<CreateMissingType("user_role"), Create({"password_hash"}), Create({"role"}),
                Create({"refresh_tokens"}), Rename("old")>>]

Add_prompt_provenance == [up |-> <<Create({"prompt_key"}), Create({"prompt_version"})>>,
                          down |-> <<DropColumns({"prompt_version", "prompt_key"})>>]
Add_workspace_preferences == [up |-> <<Create({"workspace_preferences"})>>,
                              down |-> <<Drop({"workspace_preferences"})>>]
Add_emails == [up |-> <<CreateType("email_intent"), CreateType("email_status"), Create({"emails"})>>,
               down |-> <<Drop({"emails"}), DropTypes({"email_status"}), DropTypes({"email_intent"})>>]
Add_long_term_memory == [up |-> <<Create({"memory_entries"})>>, down |-> <<Drop({"memory_entries"})>>]
Add_chunk_full_text == [up |-> <<Create({"content"})>>, down |-> <<Drop({"content"})>>]
Add_workflow_versioning ==
    [up |-> <<Create({"workflow_definitions"}), Create({"workflow_versions"}),
              AddKey("workflow_version_id")>>,
     down |-> <<DropColumns({"workflow_version_id"}), Drop({"workflow_versions"}),
                Drop({"workflow_definitions"})>>]
Add_calendar_events == [up |-> <<Create({"calendar_events"})>>, down |-> <<Drop({"calendar_events"})>>]

Revisions == <<Initial_users_table, Add_refresh_tokens, Add_documents_table, Add_document_chunks_table,
               Add_ai_executions_table, Add_conversations_and_messages, Add_workflow_runs_and_steps,
               Add_approvals, Add_notifications, Add_tasks, Remove_authentication,
               Add_prompt_provenance, Add_workspace_preferences, Add_emails, Add_long_term_memory,
               Add_chunk_full_text, Add_workflow_versioning, Add_calendar_events>>

(* What the ORM's models name: the schema the code of the last image uses. *)
Models == (DOMAIN Needs \cup Types) \ {"role", "password_hash", "refresh_tokens", "user_role"}

----------------------------------------------------------------------------
(* What a statement does. *)

(* SQLite has no types. *)
Existing(names) == IF database = "sqlite" THEN names \ Types ELSE names

Possible(s, schema) ==
    LET names == Existing(s.names) IN
    CASE s.does = "create" -> /\ s.checked \/ names \cap schema = {}
                              /\ \A o \in names : Existing(NeededBy(o)) \subseteq schema \cup names
      [] s.does = "drop" -> /\ s.checked \/ names \subseteq schema
                            /\ \A o \in schema \ names : NeededBy(o) \cap names = {}
      [] OTHER -> "users" \in schema

(* The objects there are after it, and what else it changes. *)
Written(schema, s) ==
    CASE s.does = "create" -> schema \cup Existing(s.names)
      [] s.does = "drop" -> schema \ s.names
      [] OTHER -> schema

Changed(s, data) ==
    [data EXCEPT !.schema = Written(@, s),
                 !.email = IF s.does \in {"create", "drop"} \/ @ = "none" THEN @ ELSE s.does]

(* What a revision leaves, and the schema of each version, on an upgrade   *)
(* from nothing.                                                           *)
After(schema, statements) ==
    LET after[k \in 0..Len(statements)] ==
            IF k = 0 THEN schema ELSE Written(after[k - 1], statements[k])
    IN  after[Len(statements)]

SchemaAt[v \in 0..Len(Revisions)] ==
    IF v = 0 THEN {} ELSE After(SchemaAt[v - 1], Revisions[v].up)

Removed == 11                                     \* the revision that removed authentication
Operator == "operator"
NoPlace == [direction |-> "up", revision |-> 0, statement |-> 0, rows |-> FALSE]
Down == [at |-> "down", from |-> 0, excuse |-> "none"]

Init == /\ database \in {"sqlite", "postgres"}
        /\ \E v \in Versions :
              \E email \in {"none", IF v < Removed THEN "old" ELSE "new"} :
                 db = [schema |-> SchemaAt[v], version |-> v, email |-> IF v = 0 THEN "none" ELSE email]
        /\ work = db
        /\ holder = "nobody"
        /\ replica = [r \in Replicas |-> Down]
        /\ place = NoPlace
        /\ downgrades = 0
        /\ broken = FALSE
        /\ types_left = {}

----------------------------------------------------------------------------
(* Boots. *)

(* The entrypoint runs alembic, which reads the version.  A SQLite file is *)
(* one container's.                                                        *)
Boot(r) ==
    /\ replica[r].at = "down"
    /\ holder # Operator
    /\ database = "sqlite" => \A q \in Replicas : replica[q].at \in {"down", "failed"}
    /\ database = "sqlite" => holder = "nobody"
    /\ replica' = [replica EXCEPT ![r] =
          IF db.version > HeadOf(r) THEN [at |-> "failed", from |-> db.version, excuse |-> "older image"]
          ELSE IF db.version = HeadOf(r) THEN [Down EXCEPT !.at = "serving", !.from = db.version]
          ELSE [Down EXCEPT !.at = "waiting", !.from = db.version]]
    /\ UNCHANGED <<database, db, work, holder, place, downgrades, broken, types_left>>

(* Its first statement finds the tables free, of transactions still open.  *)
Acquire(r) ==
    /\ replica[r].at = "waiting"
    /\ holder = "nobody"
    /\ holder' = r
    /\ work' = db
    /\ place' = [direction |-> "up", revision |-> replica[r].from + 1, statement |-> 1, rows |-> FALSE]
    /\ replica' = [replica EXCEPT ![r].at = "migrating"]
    /\ UNCHANGED <<database, db, downgrades, broken, types_left>>

(* alembic downgrade -1, by hand, with the containers stopped. *)
Downgrade ==
    /\ downgrades < MaxDowngrades
    /\ holder = "nobody"
    /\ \A r \in Replicas : replica[r].at \in {"down", "failed"}
    /\ db.version > 0
    /\ downgrades' = downgrades + 1
    /\ holder' = Operator
    /\ work' = db
    /\ place' = [direction |-> "down", revision |-> db.version, statement |-> 1, rows |-> FALSE]
    /\ UNCHANGED <<database, db, replica, broken, types_left>>

Statements == Revisions[place.revision][place.direction]

(* SQLite keeps what no open transaction holds back. *)
Execute ==
    LET s == Statements[place.statement]
        rows == place.rows \/ s.rows IN
    /\ holder # "nobody"
    /\ place.statement <= Len(Statements)
    /\ Possible(s, work.schema)
    /\ work' = Changed(s, work)
    /\ place' = [place EXCEPT !.statement = @ + 1, !.rows = rows]
    /\ db' = IF database = "sqlite" /\ ~rows THEN work' ELSE db
    /\ UNCHANGED <<database, holder, replica, downgrades, broken, types_left>>

(* Why a boot may fail. *)
Excuse(r) == CASE db.version # replica[r].from -> "raced"
               [] broken -> "broken"
               [] types_left # {} -> "types left"
               [] OTHER -> "none"

Refused ==
    /\ holder # "nobody"
    /\ \/ place.statement <= Len(Statements) /\ ~Possible(Statements[place.statement], work.schema)
       \/ place.statement > Len(Statements) /\ place.direction = "up" /\ work.version # place.revision - 1
    /\ holder' = "nobody"
    /\ replica' = IF holder = Operator THEN replica
                  ELSE [replica EXCEPT ![holder].at = "failed", ![holder].excuse = Excuse(holder)]
    /\ work' = db
    /\ place' = NoPlace
    /\ broken' = (broken \/ (database = "sqlite" /\ db # work))
    /\ UNCHANGED <<database, db, downgrades, types_left>>

(* The version is stamped, where it still is the one before. *)
Stamp ==
    LET up == place.direction = "up"
        stamped == [work EXCEPT !.version = IF up THEN place.revision ELSE place.revision - 1]
        last == ~up \/ place.revision = HeadOf(holder)
    IN  /\ holder # "nobody"
        /\ place.statement > Len(Statements)
        /\ up => work.version = place.revision - 1
        /\ work' = stamped
        /\ db' = IF last \/ database = "sqlite" THEN stamped ELSE db
        /\ types_left' = IF up THEN types_left ELSE types_left \cup ((stamped.schema \cap Types) \ SchemaAt[stamped.version])
        /\ IF last
           THEN /\ holder' = "nobody"
                /\ place' = NoPlace
                /\ replica' = IF up THEN [replica EXCEPT ![holder].at = "serving"] ELSE replica
           ELSE /\ place' = [place EXCEPT !.revision = @ + 1, !.statement = 1, !.rows = FALSE]
                /\ UNCHANGED <<holder, replica>>
        /\ UNCHANGED <<database, downgrades, broken>>

(* The container is stopped or dies, and another takes its place. *)
Stop(r) ==
    /\ replica[r].at # "down"
    /\ replica' = [replica EXCEPT ![r] = Down]
    /\ IF holder = r
       THEN /\ holder' = "nobody"
            /\ work' = db
            /\ place' = NoPlace
            /\ broken' = (broken \/ (database = "sqlite" /\ place.statement > 1))
       ELSE UNCHANGED <<holder, work, place, broken>>
    /\ UNCHANGED <<database, db, downgrades, types_left>>

(* get_workspace_user, of the first request. *)
FirstRequest(r) ==
    /\ replica[r].at = "serving"
    /\ holder = "nobody"
    /\ db.email = "none"
    /\ db.version >= Removed
    /\ db' = [db EXCEPT !.email = "new"]
    /\ work' = db'
    /\ UNCHANGED <<database, holder, replica, place, downgrades, broken, types_left>>

Next == \/ \E r \in Replicas : Boot(r) \/ Acquire(r) \/ Stop(r) \/ FirstRequest(r)
        \/ Downgrade \/ Execute \/ Refused \/ Stamp

Spec == Init /\ [][Next]_vars

----------------------------------------------------------------------------
(* Properties. *)

(* The committed schema is always that of the recorded version, whatever   *)
(* containers boot at once, stop midway or are downgraded under, but for   *)
(* half a revision SQLite has kept and for types; and it is what the       *)
(* models name where the last image serves.  No container serves on an     *)
(* older schema than its own, the user's reserved email is healed, and a   *)
(* boot fails only because another has just done its work, its image is    *)
(* older, SQLite has kept half a revision, or a downgrade has left types.  *)
ServedOnItsSchema ==
    /\ ~broken /\ (database = "postgres" \/ holder = "nobody") =>
          /\ db.schema \ Types = SchemaAt[db.version] \ Types
          /\ types_left = {} => db.schema = SchemaAt[db.version]
    /\ \A r \in Replicas :
          /\ replica[r].at = "serving" =>
                /\ db.version >= HeadOf(r)
                /\ HeadOf(r) = Len(Revisions) /\ types_left = {} => db.schema = Existing(Models)
          /\ replica[r].at = "failed" => replica[r].excuse # "none"
    /\ db.version >= Removed => db.email # "old"
====
