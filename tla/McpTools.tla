---- MODULE McpTools ----
(***************************************************************************)
(* Tools of this platform and of other MCP servers in one registry         *)
(* (platform/registry/base.py, mcp/registry.py, mcp/client.py,             *)
(* mcp/protocol.py, mcp/adapter.py, mcp/server.py, features/tools).        *)
(*                                                                         *)
(* At boot each configured server is asked for its tools, over HTTP or by  *)
(* a child process that reads requests line by line; what it lists joins   *)
(* the native tools under a prefixed name.  A call of such a tool opens a  *)
(* session of its own.  The server of a session is external: it may answer *)
(* late, in another order, partly, with log lines between, or not at all.  *)
(***************************************************************************)
EXTENDS Naturals, Sequences, SequencesExt, FiniteSets

CONSTANTS Native,         \* names of the tools of this code
          Config,         \* MCP_SERVERS: the definitions in their order
          MaxLines,       \* bound: lines a child process prints
          MaxCalls        \* bound: calls of registered tools

VARIABLES todo,           \* definitions discovery has not reached
          tool_registry,  \* name -> [origin, server]
          summary,        \* what discover_mcp_tools returns
          joined,         \* history: the servers that did not fail, in order, what was
                          \* read of each and whether it had answered all it was asked
          session,        \* the open session with a server
          outcome,        \* how the last call of a tool ended
          calls           \* calls made

vars == <<todo, tool_registry, summary, joined, session, outcome, calls>>

(* Names are namespaced by NAME_PREFIX. *)
NativeName(n) == [prefixed |-> FALSE, tool |-> n]
RemoteName(n) == [prefixed |-> TRUE, tool |-> n]

NoSession == [at |-> "none", goal |-> "list", server |-> 0, tool |-> "", asked |-> <<>>,
              lines |-> <<>>]
Descriptors(i) == Config[i].tools

Init == /\ todo = [i \in DOMAIN Config |-> i]
        /\ tool_registry = [n \in {NativeName(x) : x \in Native} |-> [origin |-> "native", server |-> 0]]
        /\ summary = [servers |-> 0, tools |-> 0, failed |-> 0]
        /\ joined = <<>>
        /\ session = NoSession
        /\ outcome = [kind |-> "none", server |-> 0, tool |-> "", unanswered |-> FALSE]
        /\ calls = 0

----------------------------------------------------------------------------
(* A session: its two requests are written at once, the child answers. *)

Opened(goal, i, tool) ==
    [at |-> Config[i].transport, goal |-> goal, server |-> i, tool |-> tool,
     asked |-> IF Config[i].transport = "http" /\ goal = "call" THEN <<2>> ELSE <<1, 2>>,
     lines |-> <<>>]

(* A definition without its url or command, or of an unknown transport.    *)
Buildable(i) == Config[i].transport \in {"http", "stdio"} /\ Config[i].complete

PrintLine(line) ==
    /\ session.at = "stdio"
    /\ Len(session.lines) < MaxLines
    /\ session' = [session EXCEPT !.lines = Append(@, line)]

(* A log line, or a message without an id. *)
Log == /\ PrintLine([id |-> 0, is |-> "log"])
       /\ UNCHANGED <<todo, tool_registry, summary, joined, outcome, calls>>

(* A request of the server's own carries an id and no result. *)
OwnRequest == /\ PrintLine([id |-> 7, is |-> "request"])
              /\ ~Config[session.server].orderly
              /\ UNCHANGED <<todo, tool_registry, summary, joined, outcome, calls>>

(* The child answers the oldest request, a disorderly one any of them. *)
Answer(k, is) ==
    /\ session.at = "stdio"
    /\ Len(session.lines) < MaxLines
    /\ k \in DOMAIN session.asked
    /\ Config[session.server].orderly => k = 1
    /\ session' = [session EXCEPT !.lines = Append(@, [id |-> session.asked[k], is |-> is]),
                                  !.asked = RemoveAt(@, k)]
    /\ UNCHANGED <<todo, tool_registry, summary, joined, outcome, calls>>

(* The child exits: communicate returns what it printed. *)
Exit ==
    /\ session.at = "stdio"
    /\ session' = [session EXCEPT !.at = "read"]
    /\ UNCHANGED <<todo, tool_registry, summary, joined, outcome, calls>>

(* One POST per request; each may fail, and is answered by its own reply.  *)
Post(is) ==
    /\ session.at = "http"
    /\ session' = [session EXCEPT !.lines = Append(@, [id |-> Head(session.asked), is |-> is]),
                                  !.asked = Tail(@),
                                  !.at = IF Len(session.asked) = 1 \/ is = "error" THEN "read" ELSE "http"]
    /\ UNCHANGED <<todo, tool_registry, summary, joined, outcome, calls>>

----------------------------------------------------------------------------
(* What a session returns. *)

(* Where the lines are that are objects with an id. *)
Responses == {k \in DOMAIN session.lines : session.lines[k].id # 0}

(* Mutant: the first response is read. *)
TakenFirst == IF Responses = {} THEN [id |-> 0, is |-> "error"] ELSE session.lines[Min(Responses)]

(* The LAST response, whichever request it carries the id of. *)
Taken == IF Responses = {} THEN [id |-> 0, is |-> "error"] ELSE session.lines[Max(Responses)]

(* result_of raises for an error and for a line without a result; the      *)
(* result of "initialize" has neither tools nor content.                   *)
Reading == IF Taken.is # "result" THEN "raise" ELSE IF Taken.id = 2 THEN "own" ELSE "empty"

(* The process could not start, or 30 seconds passed: it is killed.        *)
Unreachable ==
    /\ session.at \in {"stdio", "http"}
    /\ session' = [session EXCEPT !.at = "read", !.lines = <<>>]
    /\ UNCHANGED <<todo, tool_registry, summary, joined, outcome, calls>>

----------------------------------------------------------------------------
(* Discovery. *)

Fail == summary' = [summary EXCEPT !.failed = @ + 1]

(* discover_mcp_tools: on to the next definition; a bad one is skipped. *)
Connect ==
    /\ session = NoSession
    /\ todo # <<>>
    /\ todo' = Tail(todo)
    /\ IF Buildable(Head(todo))
       THEN session' = Opened("list", Head(todo), "") /\ UNCHANGED summary
       ELSE Fail /\ UNCHANGED session
    /\ UNCHANGED <<tool_registry, joined, outcome, calls>>

(* The adapters up to the first whose input model cannot be built. *)
Adapted(i) ==
    LET bad == SelectInSeq(Descriptors(i), LAMBDA d : ~d.buildable)
    IN  SubSeq(Descriptors(i), 1, IF bad = 0 THEN Len(Descriptors(i)) ELSE bad - 1)

(* Registry.register raises for a taken name, which is passed over: the    *)
(* first server that lists it keeps it.                                    *)
Registered(i) ==
    LET new == {RemoteName(Adapted(i)[k].name) : k \in DOMAIN Adapted(i)} \ DOMAIN tool_registry
    IN  [n \in DOMAIN tool_registry \cup new |->
            IF n \in new THEN [origin |-> "mcp", server |-> i] ELSE tool_registry[n]]

(* register_server_tools: the tools are read, then registered without a    *)
(* break; an adapter that cannot be built leaves the ones before it.       *)
Join ==
    LET i == session.server IN
    /\ session.at = "read"
    /\ session.goal = "list"
    /\ session' = NoSession
    /\ IF Reading = "own"
       THEN /\ tool_registry' = Registered(i)
            /\ IF Len(Adapted(i)) < Len(Descriptors(i)) THEN Fail
               ELSE summary' = [summary EXCEPT !.servers = @ + 1,
                        !.tools = @ + Cardinality(DOMAIN Registered(i)) - Cardinality(DOMAIN tool_registry)]
       ELSE /\ IF Reading = "empty" THEN summary' = [summary EXCEPT !.servers = @ + 1] ELSE Fail
            /\ UNCHANGED tool_registry
    /\ joined' = IF Reading = "raise" THEN joined
                 ELSE Append(joined, [server |-> i, read |-> Reading, answered |-> session.asked = <<>>])
    /\ UNCHANGED <<todo, outcome, calls>>

----------------------------------------------------------------------------
(* Calls. *)

Ended(kind, server, tool, unanswered) ==
    outcome' = [kind |-> kind, server |-> server, tool |-> tool, unanswered |-> unanswered]

(* ToolService.invoke: 404 for an unknown name, 422 for arguments that do  *)
(* not validate; a native tool returns or raises.                          *)
Invoke(n) ==
    /\ todo = <<>>
    /\ session = NoSession
    /\ calls < MaxCalls
    /\ calls' = calls + 1
    /\ \/ Ended("refused", 0, n.tool, FALSE) /\ UNCHANGED session
       \/ /\ n \in DOMAIN tool_registry
          /\ LET i == tool_registry[n].server IN
             IF tool_registry[n].origin = "mcp"
             THEN session' = Opened("call", i, n.tool) /\ UNCHANGED outcome
             ELSE Ended("own", 0, n.tool, FALSE) /\ UNCHANGED session
    /\ UNCHANGED <<todo, tool_registry, summary, joined>>

(* MCPToolAdapter.run: the payload, or an exception. *)
Return ==
    /\ session.at = "read"
    /\ session.goal = "call"
    /\ session' = NoSession
    /\ Ended(Reading, session.server, session.tool, session.asked # <<>>)
    /\ UNCHANGED <<todo, tool_registry, summary, joined, calls>>

(* handle_rpc, as the server of somebody else: it lists and calls native   *)
(* tools only, and a tool's failure is an answer.                          *)
Served == {n \in DOMAIN tool_registry : tool_registry[n].origin = "native"}
Serve(n) ==
    /\ calls < MaxCalls
    /\ session = NoSession
    /\ calls' = calls + 1
    /\ \E kind \in IF n \in Served THEN {"own", "isError", "INVALID_PARAMS"} ELSE {"METHOD_NOT_FOUND"} :
          Ended(kind, 0, n.tool, FALSE)
    /\ UNCHANGED <<todo, tool_registry, summary, joined, session>>

Names == {NativeName(x) : x \in Native}
         \cup UNION {{RemoteName(Descriptors(i)[k].name) : k \in DOMAIN Descriptors(i)} : i \in DOMAIN Config}

Next == \/ Connect \/ Log \/ OwnRequest \/ Exit \/ Unreachable \/ Join \/ Return
        \/ \E is \in {"result", "error"} : Post(is) \/ \E k \in {1, 2} : Answer(k, is)
        \/ \E n \in Names : Invoke(n) \/ Serve(n)

Spec == Init /\ [][Next]_vars

----------------------------------------------------------------------------
(* Properties. *)

(* A name keeps meaning one tool: native names stay native whatever other  *)
(* servers list, a remote name belongs to the first server it was read     *)
(* from, nothing is registered of a server that was not read, and what is  *)
(* served on is native ("they can never shadow a native tool").  What a    *)
(* session returns is the answer to what it asked last: a server that      *)
(* answers in order and to the end has its tools registered, and a call    *)
(* returns its tool's own payload; one that returns nothing has exited     *)
(* before it answered.  Every definition joins, fails or is still to do.   *)
ReadOf(i) == {k \in DOMAIN joined : joined[k].server = i /\ joined[k].read = "own"}
Offers(k, name) == joined[k].read = "own" /\ \E d \in DOMAIN Adapted(joined[k].server) :
                                                  Adapted(joined[k].server)[d].name = name
ToolsAnswerForThemselves ==
    /\ \A x \in Native : tool_registry[NativeName(x)].origin = "native"
    /\ \A n \in DOMAIN tool_registry \ {NativeName(x) : x \in Native} :
          \E k \in ReadOf(tool_registry[n].server) : \A j \in 1..(k - 1) : ~Offers(j, n.tool)
    /\ \A k \in DOMAIN joined : LET i == joined[k].server IN
          Config[i].orderly /\ joined[k].answered =>
              \A d \in DOMAIN Adapted(i) : RemoteName(Adapted(i)[d].name) \in DOMAIN tool_registry
    /\ outcome.kind = "empty" /\ Config[outcome.server].orderly => outcome.unanswered
    /\ outcome.kind = "own" /\ outcome.server # 0 /\ Config[outcome.server].orderly => ~outcome.unanswered
    /\ summary.servers + summary.failed + Len(todo) + (IF session.at # "none" /\ session.goal = "list" THEN 1 ELSE 0)
          = Len(Config)
====
