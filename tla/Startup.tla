---- MODULE Startup ----
(***************************************************************************)
(* Starting and stopping a process, and what a restart leaves of the runs  *)
(* that wait for a reviewer (main.py, workflows/checkpointer.py,           *)
(* platform/registry/scanner.py, features/system/router.py).               *)
(*                                                                         *)
(* create_app chooses the providers and refuses a choice whose settings    *)
(* are missing; the lifespan then starts one resource after another and    *)
(* stops them in the opposite order of need.  A paused run is a row of the *)
(* database and a checkpoint of the saver, which may be different stores.  *)
(***************************************************************************)
EXTENDS Naturals, FiniteSets

CONSTANTS Configurations, \* settings a deployment may have
          Runs            \* workflow runs that pause at the approval gate

VARIABLES settings,       \* database, redis_url set or not, providers, keys given
          extra,          \* the image has langgraph-checkpoint-postgres installed
          at,             \* the statement of create_app or lifespan the process is at
          started,        \* resources this process holds open
          saver,          \* where the running process keeps checkpoints
          checkpoints,    \* checkpoints[store]: runs with a checkpoint there
          rows,           \* each run's status in the database
          pausing,        \* runs whose pause this process has not committed yet
          downgraded      \* history: some boot fell back to the local file

vars == <<settings, extra, at, started, saver, checkpoints, rows, pausing, downgraded>>

Stores == {"sqlite", "postgres"}

(* What a choice of provider needs; the choices left out need nothing.     *)
Requires == [groq |-> {"groq_api_key"}, jina |-> {"jina_api_key"}, qdrant |-> {"qdrant_url"},
             s3 |-> {"s3_bucket", "s3_endpoint_url", "s3_access_key_id",
                     "s3_secret_access_key"}]
Complete(s) == \A choice \in s.providers \cap DOMAIN Requires : Requires[choice] \subseteq s.given

Init == /\ settings \in Configurations
        /\ extra \in BOOLEAN
        /\ at = "down"
        /\ started = {}
        /\ saver = "none"
        /\ checkpoints = [store \in Stores |-> {}]
        /\ rows = [run \in Runs |-> "none"]
        /\ pausing = {}
        /\ downgraded = FALSE

durable == <<checkpoints, rows>>

----------------------------------------------------------------------------
(* Boot. *)

(* create_app: every provider is built, or the process ends with the error *)
(* before anything is started.                                             *)
CreateApp ==
    /\ at = "down"
    /\ Complete(settings)
    /\ at' = "discover"
    /\ started' = {"database"}
    /\ UNCHANGED <<settings, extra, saver, durable, pausing, downgraded>>

(* discover_plugins: an import error inside a plugin is not hidden.        *)
(* discover_mcp_tools (see McpTools) never raises.                         *)
Discover ==
    /\ at = "discover"
    /\ at' = IF settings.redis THEN "bus" ELSE "checkpointer"
    /\ UNCHANGED <<settings, extra, started, saver, durable, pausing, downgraded>>

(* RedisEventBus.start: without Redis the process runs as a single replica. *)
StartBus ==
    /\ at = "bus"
    /\ \E reachable \in BOOLEAN : started' = IF reachable THEN started \cup {"bus"} ELSE started
    /\ at' = "checkpointer"
    /\ UNCHANGED <<settings, extra, saver, durable, pausing, downgraded>>

(* The backend follows the database, and is what the readiness probe says. *)
Backend == settings.database
Reported == Backend

(* Mutant: checkpoints always go to the local file. *)
StartCheckpointerLocally ==
    /\ at = "checkpointer"
    /\ saver' = "sqlite"
    /\ started' = started \cup {"checkpointer"}
    /\ at' = "scheduler"
    /\ UNCHANGED <<settings, extra, durable, pausing, downgraded>>

(* The saver of the backend, or the local file if its package is missing. *)
StartCheckpointer ==
    /\ at = "checkpointer"
    /\ saver' = IF Backend = "postgres" /\ extra THEN "postgres" ELSE "sqlite"
    /\ downgraded' = (downgraded \/ saver' # Backend)
    /\ started' = started \cup {"checkpointer"}
    /\ at' = "scheduler"
    /\ UNCHANGED <<settings, extra, durable, pausing>>

StartScheduler ==
    /\ at = "scheduler"
    /\ started' = started \cup {"scheduler"}
    /\ at' = "serving"
    /\ UNCHANGED <<settings, extra, saver, durable, pausing, downgraded>>

(* The process ends: a plugin does not import, Postgres refuses the saver, *)
(* or it is killed.  What it held open goes with it.                       *)
Crash ==
    /\ at # "down"
    /\ at' = "down"
    /\ started' = {}
    /\ saver' = "none"
    /\ pausing' = {}
    /\ UNCHANGED <<settings, extra, durable, downgraded>>

----------------------------------------------------------------------------
(* Serving. *)

(* An ask is created and its graph reaches the gate, which checkpoints; the *)
(* executor then commits that the run is paused.                           *)
Interrupt(run) ==
    /\ at = "serving"
    /\ rows[run] = "none"
    /\ rows' = [rows EXCEPT ![run] = "running"]
    /\ checkpoints' = [checkpoints EXCEPT ![saver] = @ \cup {run}]
    /\ pausing' = pausing \cup {run}
    /\ UNCHANGED <<settings, extra, at, started, saver, downgraded>>

CommitPause(run) ==
    /\ run \in pausing
    /\ rows' = [rows EXCEPT ![run] = "paused"]
    /\ pausing' = pausing \ {run}
    /\ UNCHANGED <<settings, extra, at, started, saver, checkpoints, downgraded>>

(* The reviewer decides: the graph goes on from its checkpoint, or the     *)
(* resume raises because there is none.                                    *)
Resume(run) ==
    /\ at = "serving"
    /\ rows[run] = "paused"
    /\ rows' = [rows EXCEPT ![run] = IF run \in checkpoints[saver] THEN "completed" ELSE "failed"]
    /\ UNCHANGED <<settings, extra, at, started, saver, checkpoints, pausing, downgraded>>

----------------------------------------------------------------------------
(* Shutdown, once no request is in flight. *)

Close(from, resource, to) ==
    /\ at = from
    /\ started' = started \ {resource}
    /\ at' = to
    /\ UNCHANGED <<settings, extra, durable, pausing, downgraded>>

StopScheduler ==
    /\ pausing = {}
    /\ Close("serving", "scheduler", "stop_bus")
    /\ UNCHANGED saver
StopBus == Close("stop_bus", "bus", "stop_checkpointer") /\ UNCHANGED saver
StopCheckpointer == Close("stop_checkpointer", "checkpointer", "dispose") /\ saver' = "none"
Dispose == Close("dispose", "database", "down") /\ UNCHANGED saver

(* The host is replaced: another image, and an empty local disk. *)
Redeploy ==
    /\ at = "down"
    /\ extra' \in BOOLEAN
    /\ checkpoints' = [checkpoints EXCEPT !["sqlite"] = {}]
    /\ rows' = IF settings.database = "sqlite" THEN [run \in Runs |-> "none"] ELSE rows
    /\ UNCHANGED <<settings, at, started, saver, pausing, downgraded>>

Next == \/ CreateApp \/ Discover \/ StartBus \/ StartCheckpointer \/ StartScheduler
        \/ Crash \/ StopScheduler \/ StopBus \/ StopCheckpointer \/ Dispose \/ Redeploy
        \/ \E run \in Runs : Interrupt(run) \/ CommitPause(run) \/ Resume(run)

Spec == Init /\ [][Next]_vars

----------------------------------------------------------------------------
(* Properties. *)

(* A paused run outlives restarts, crashes and new hosts: whatever process *)
(* serves, every run the database calls paused has a checkpoint in the     *)
(* saver in use, so the reviewer's decision can be carried out, as long as *)
(* no boot fell back to the local file (checkpointer.py: the two stores    *)
(* "cannot drift").  And what runs by itself, the scheduler's jobs and the *)
(* bus's consumer, is stopped before the resources it works with.          *)
PausedRunsSurvive ==
    /\ at = "serving" /\ ~downgraded =>
          \A run \in Runs : rows[run] = "paused" => run \in checkpoints[saver]
    /\ started \cap {"scheduler", "bus"} # {} => "database" \in started
    /\ "scheduler" \in started => "checkpointer" \in started

(* The readiness probe names "which store checkpoints land in"             *)
(* (WorkflowCheckpointer.backend).                                         *)
ProbeNamesTheStore == at = "serving" => Reported = saver
====
