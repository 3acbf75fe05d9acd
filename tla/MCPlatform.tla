---- MODULE MCPlatform ----
(***************************************************************************)
(* Small instances of the parts of the platform that share nothing, from   *)
(* the schema a container boots on to the agents of a request: "focus" is  *)
(* the one that runs, the others stay as they are, so the state space is   *)
(* the sum of theirs.  The workspace's two rows are extended, the others   *)
(* are instances.                                                          *)
(***************************************************************************)
EXTENDS Workspace, Sequences

CONSTANTS Parts,                             \* what runs
          Configurations, Runs,              \* of Startup
          Native, Config,                    \* of McpTools
          Tasks, Active, Channels,           \* of Notifications
          HISTORY_LIMIT,                     \* of Conversations, between the requests
          Asks, Drafts, MAX_TASKS,           \* of Agents
          Calls, Processes, Keys,            \* of Stores
          Placement,                         \* pairs {call, the process it is made in}
          Uploads, MAX_BYTES, MAX_PAGES,     \* of Intake
          AgentAsks, Nodes, POOL,            \* of ConnectionPool, for the requests
          Replicas, Versions, older,         \* of Migrations; a container of an older image
          MaxLines, MaxCalls, MaxTasks, MaxFaults, MaxChanges, MaxDowngrades   \* bounds

(* The stores there are. *)
ASSUME ConfigurationsAssumption == \A c \in Configurations : c.database \in {"sqlite", "postgres"}

ASSUME SizesAssumption == MAX_PAGES \in Nat /\ POOL \in Nat /\ MAX_TASKS \in Nat

(* MCP_SERVERS is a list. *)
ASSUME ServersAssumption ==
    Config \in Seq([transport : STRING, complete : BOOLEAN, orderly : BOOLEAN,
                    tools : Seq([name : STRING, buildable : BOOLEAN])])

(* Messages are read back in pairs. *)
ASSUME HistoryAssumption == HISTORY_LIMIT \in Nat /\ HISTORY_LIMIT % 2 = 0

(* A task that no ask planned is nobody's. *)
ASSUME AsksAssumption == "nobody" \notin Asks

(* Users are counted, and each channel is configured once. *)
ASSUME ActiveAssumption == Active \in Nat
ASSUME ChannelsAssumption ==
    /\ Channels \in Seq({"in_app", "telegram", "smtp"})
    /\ Channels # <<>>
    /\ \A c, d \in DOMAIN Channels : Channels[c] = Channels[d] => c = d

(* A call is made in one of the processes, which are counted. *)
ASSUME CallsAssumption == /\ IsFiniteSet(Processes)
                          /\ \A c \in Calls : \E p \in Processes : {c, p} \in Placement
                          /\ "no call" \notin Calls
ASSUME KeysAssumption == Keys # {}

VARIABLES focus,
          settings, extra, at, started, saver, checkpoints, status, pausing, downgraded,
          todo, tool_registry, summary, joined, session, outcome, calls,
          enabled, paused, task, inbox,
          created, thread, turn, overlapped,
          spec, ask, tasks, planned, read,
          adapter, server, local, known, lock, call, acked, doubtful, wiped, restarted,
          ocr_enabled, engine, document, changes,
          asking, committed, most,
          database, db, work, holder, replica, place, downgrades, broken, types_left

----------------------------------------------------------------------------
(* Boot: on SQLite alone, on Postgres with Redis, and without a key the    *)
(* chosen model needs.                                                     *)
Deployment(store, redis, keys) ==
    [database |-> store, redis |-> redis, providers |-> {"groq", "local"}, given |-> keys]
Deployments == {Deployment("sqlite", FALSE, {"groq_api_key"}),
                Deployment("postgres", TRUE, {"groq_api_key"}), Deployment("sqlite", TRUE, {})}
Boot == INSTANCE Startup WITH rows <- status

(* Tool servers: one whose tool has a name of ours, one of an unknown      *)
(* transport, one that answers out of order, one over HTTP.                *)
Tool(name, buildable) == [name |-> name, buildable |-> buildable]
Servers == <<[transport |-> "stdio", complete |-> TRUE, orderly |-> TRUE,
              tools |-> <<Tool("search", TRUE), Tool("files", TRUE)>>],
             [transport |-> "ftp", complete |-> TRUE, orderly |-> TRUE, tools |-> <<>>],
             [transport |-> "stdio", complete |-> TRUE, orderly |-> FALSE,
              tools |-> <<Tool("files", TRUE), Tool("x", FALSE), Tool("y", TRUE)>>],
             [transport |-> "http", complete |-> TRUE, orderly |-> TRUE,
              tools |-> <<Tool("files", TRUE)>>]>>
Tools == INSTANCE McpTools

AllChannels == <<"in_app", "telegram", "smtp">>
Notify == INSTANCE Notifications

Thread == INSTANCE Conversations WITH Asks <- Requests, ask <- turn

(* Graphs a validator accepts and refuses. *)
Graph(agents, fallback, gate) == [agents |-> agents, fallback |-> fallback, gate |-> gate]
Graphs == {Graph(<<"calendar", "general", "knowledge", "planner", "research">>, "general", TRUE),
           Graph(<<"knowledge">>, "knowledge", TRUE), Graph(<<"planner", "research">>, "planner", FALSE),
           Graph(<<"general", "general">>, "general", TRUE), Graph(<<"email">>, "email", TRUE),
           Graph(<<"general">>, "planner", TRUE)}
Work == INSTANCE Agents

Home(c) == CHOOSE p \in Processes : {c, p} \in Placement
Store == INSTANCE Stores WITH HomeOf <- Home

Files == INSTANCE Intake

Image(r) == IF r = older THEN 17 ELSE 18
Schema == INSTANCE Migrations WITH HeadOf <- Image

(* The database is at one of the revisions, and who runs a downgrade is no *)
(* container.                                                              *)
ASSUME VersionsAssumption == Versions \subseteq 0..Len(Schema!Revisions)
ASSUME ReplicasAssumption == Replicas \cap {"nobody", Schema!Operator} = {}

Pool == INSTANCE ConnectionPool WITH request <- asking, written <- committed

----------------------------------------------------------------------------
(* The variables of each. *)
bootVars == <<settings, extra, at, started, saver, checkpoints, status, pausing, downgraded>>
toolsVars == <<todo, tool_registry, summary, joined, session, outcome, calls>>
notifyVars == <<enabled, paused, task, inbox>>
threadVars == <<created, thread, turn, overlapped>>
workVars == <<spec, ask, tasks, planned, read>>
storeVars == <<adapter, server, local, known, lock, call, acked, doubtful, wiped, restarted>>
filesVars == <<ocr_enabled, engine, document, changes>>
poolVars == <<asking, committed, most>>
schemaVars == <<database, db, work, holder, replica, place, downgrades, broken, types_left>>
allVars == <<focus, vars, bootVars, toolsVars, notifyVars, threadVars, workVars, storeVars,
             filesVars, poolVars, schemaVars>>

PlatformInit ==
    /\ focus \in Parts
    /\ Init
    /\ Boot!Init
    /\ focus # "boot" => ~extra /\ settings = CHOOSE d \in Configurations : TRUE
    /\ Tools!Init
    /\ Notify!Init
    /\ Thread!Init
    /\ Work!Init
    /\ focus # "work" => spec = CHOOSE g \in Work!Accepted : TRUE
    /\ Store!Init
    /\ focus # "store" => adapter = "memory"
    /\ Files!Init
    /\ focus # "files" => ~ocr_enabled /\ ~engine
    /\ Pool!Init
    /\ Schema!Init
    /\ focus # "schema" => database = "sqlite" /\ db.version = 0

PlatformNext ==
    /\ UNCHANGED focus
    /\ focus # "workspace" => UNCHANGED vars
    /\ focus # "boot" => UNCHANGED bootVars
    /\ focus # "tools" => UNCHANGED toolsVars
    /\ focus # "notify" => UNCHANGED notifyVars
    /\ focus # "thread" => UNCHANGED threadVars
    /\ focus # "work" => UNCHANGED workVars
    /\ focus # "store" => UNCHANGED storeVars
    /\ focus # "files" => UNCHANGED filesVars
    /\ focus # "pool" => UNCHANGED poolVars
    /\ focus # "schema" => UNCHANGED schemaVars
    /\ \/ focus = "workspace" /\ Next
       \/ focus = "boot" /\ Boot!Next
       \/ focus = "tools" /\ Tools!Next
       \/ focus = "notify" /\ Notify!Next
       \/ focus = "thread" /\ Thread!Next
       \/ focus = "work" /\ Work!Next
       \/ focus = "store" /\ Store!Next
       \/ focus = "files" /\ Files!Next
       \/ focus = "pool" /\ Pool!Next
       \/ focus = "schema" /\ Schema!Next

PlatformSpec == PlatformInit /\ [][PlatformNext]_allVars

----------------------------------------------------------------------------
(* A paused run's checkpoint is where the process that resumes it looks,   *)
(* and what the scheduler and the bus use outlives them.                   *)
PausedRunsSurvive == focus = "boot" => Boot!PausedRunsSurvive
(* The readiness probe names the store checkpoints land in. *)
ProbeNamesTheStore == focus = "boot" => Boot!ProbeNamesTheStore
(* A tool's answer is that tool's own, from the server it came from. *)
ToolsAnswerForThemselves == focus = "tools" => Tools!ToolsAnswerForThemselves
(* Each recipient is told once on every channel that works. *)
EachChannelOnce == focus = "notify" => Notify!EachChannelOnce
(* The history an ask is given is a conversation. *)
HistoryIsAConversation == focus = "thread" => Thread!HistoryIsAConversation
(* What an answer says was done has been done, and the reverse. *)
AnswersClaimWhatWasDone == focus = "work" => Work!AnswersClaimWhatWasDone
(* What a store acknowledged it keeps. *)
AcknowledgedIsKept == focus = "store" => Store!AcknowledgedIsKept
(* An admitted file can be read. *)
AdmittedIsReadable == focus = "files" => Files!AdmittedIsReadable
(* Nothing is lost for want of a connection while there are enough. *)
NothingLostUnlessCrowded == focus = "pool" => Pool!NothingLostUnlessCrowded
(* Containers serve on the schema their models name. *)
ServedOnItsSchema == focus = "schema" => Schema!ServedOnItsSchema
====
