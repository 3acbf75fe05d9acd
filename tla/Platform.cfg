SPECIFICATION PlatformSpec
CONSTANTS
    Parts = {"workspace", "boot", "tools", "notify", "thread", "work", "store", "files", "pool", "schema"}
    Requests = {"q1", "q2", "q3"}
    MaxRequests = 3
    Configurations <- Deployments
    Runs = {"r1", "r2"}
    Native = {"search", "task"}
    Config <- Servers
    MaxLines = 3
    MaxCalls = 1
    Tasks = {"t1", "t2"}
    Active = 2
    Channels <- AllChannels
    HISTORY_LIMIT = 4
    Asks = {"r1"}
    Drafts <- Graphs
    MAX_TASKS = 2
    MaxTasks = 3
    Calls = {"c1", "c2", "c3"}
    Processes = {"p1", "p2"}
    Keys = {"k1"}
    Placement = {{"c1", "p1"}, {"c2", "p1"}, {"c3", "p2"}}
    MaxFaults = 1
    Uploads = {1}
    MAX_BYTES = 2
    MAX_PAGES = 1
    MaxChanges = 2
    AgentAsks = {"q1", "q2"}
    Nodes = 2
    POOL = 3
    Replicas = {"s1", "s2", "s3"}
    Versions = {0, 10, 16}
    older = "s2"
    MaxDowngrades = 2
CHECK_DEADLOCK FALSE
INVARIANT OneWorkspace
INVARIANT PausedRunsSurvive
INVARIANT ToolsAnswerForThemselves
INVARIANT EachChannelOnce
INVARIANT HistoryIsAConversation
INVARIANT AnswersClaimWhatWasDone
INVARIANT AcknowledgedIsKept
INVARIANT AdmittedIsReadable
INVARIANT ServedOnItsSchema
INVARIANT NothingLostUnlessCrowded
