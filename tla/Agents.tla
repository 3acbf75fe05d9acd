---- MODULE Agents ----
(***************************************************************************)
(* The agents of the supervisor graph, and the task list one of them       *)
(* writes (agents/, workflows/graph.py, workflows/spec.py, features/tasks, *)
(* platform/memory/manager.py).                                            *)
(*                                                                         *)
(* The supervisor names a route, the graph of the live version maps it to  *)
(* a worker it has, and the worker drafts an answer; a reviewer may reject *)
(* it afterwards.  Drafting has one lasting effect: the planner commits    *)
(* tasks, which the user edits and deletes meanwhile.                      *)
(***************************************************************************)
EXTENDS Naturals, Sequences, SequencesExt, FiniteSets, FiniteSetsExt

CONSTANTS Asks,           \* requests
          Drafts,         \* graph specifications somebody submits
          MAX_TASKS,      \* entries of a plan that are looked at
          MaxTasks        \* bound: number of the last task the user creates

VARIABLES spec,           \* the specification of the live version
          ask,            \* each ask: its place, route and answer
          tasks,          \* committed tasks: id -> [ask, status]
          planned,        \* history: the tasks each ask's planner committed
          read            \* history: what each ask's worker has read

vars == <<spec, ask, tasks, planned, read>>

AgentNames == {"knowledge", "general", "research", "planner", "calendar"}
Nobody == "nobody"

(* GraphSpec's validators, and the agents this deployment runs: the email  *)
(* agent is registered, but not routable.                                  *)
Accepted == {d \in Drafts : /\ d.agents # <<>>
                            /\ IsInjective(d.agents)
                            /\ Range(d.agents) \subseteq AgentNames
                            /\ d.fallback \in Range(d.agents)}
Enabled == Range(spec.agents)

(* "claims": the tasks the answer lists as created. *)
NoAnswer == [agent |-> Nobody, text |-> "none", grounded |-> FALSE, sources |-> FALSE,
             web |-> FALSE, claims |-> {}]
Idle == [at |-> "idle", route |-> Nobody, reviewed |-> FALSE, decision |-> "none",
         answer |-> NoAnswer, recorded |-> NoAnswer]

Init == /\ spec \in Accepted
        /\ ask = [r \in Asks |-> Idle]
        /\ tasks = [id \in {} |-> 0]
        /\ planned = [r \in Asks |-> {}]
        /\ read = [r \in Asks |-> {}]

----------------------------------------------------------------------------
(* Routing. *)

(* parse_route: what the classifier's reply mentions, in this order of     *)
(* preference.                                                             *)
Mentions == {"calendar", "research", "planner", "general"}
ParseRoute(mentioned) ==
    CASE "calendar" \in mentioned -> "calendar"
      [] "research" \in mentioned -> "research"
      [] "planner" \in mentioned -> "planner"
      [] "general" \in mentioned -> "general"
      [] OTHER -> "knowledge"

(* The conditional edge: a route the version does not enable falls back.   *)
Routed(route) == IF route \in Enabled THEN route ELSE spec.fallback

(* fast_route decides explicit commands, the model the others. *)
Supervise(r) ==
    /\ ask[r].at = "idle"
    /\ \E reviewed \in BOOLEAN :
       \E route \in {"research", "planner"} \cup {ParseRoute(words) : words \in SUBSET Mentions} :
          ask' = [ask EXCEPT ![r].at = "work", ![r].route = Routed(route), ![r].reviewed = reviewed]
    /\ UNCHANGED <<spec, tasks, planned, read>>

----------------------------------------------------------------------------
(* Workers. *)

Drafted(r, answer) ==
    ask' = [ask EXCEPT ![r].at = "drafted", ![r].answer = [answer EXCEPT !.agent = ask[r].route]]
Worker(r, name) == ask[r].at = "work" /\ ask[r].route = name

(* recall_or_empty: a memory that cannot be searched is an empty one.      *)
Recalled == {{"memory"}, {}}

(* The model answers from what it knows and what is recalled. *)
General(r) ==
    /\ Worker(r, "general")
    /\ Drafted(r, [NoAnswer EXCEPT !.text = "model"])
    /\ \E recalled \in Recalled : read' = [read EXCEPT ![r] = recalled]
    /\ UNCHANGED <<spec, tasks, planned>>

(* RagAskService.ask: grounded in the matches, or the fixed answer. *)
Knowledge(r) ==
    /\ Worker(r, "knowledge")
    /\ \E found \in BOOLEAN :
          /\ Drafted(r, [NoAnswer EXCEPT !.text = IF found THEN "model" ELSE "fixed",
                                         !.grounded = found, !.sources = found])
          /\ read' = [read EXCEPT ![r] = IF found THEN {"documents"} ELSE {}]
    /\ UNCHANGED <<spec, tasks, planned>>

(* A page that cannot be fetched leaves its snippet; results there are.    *)
Research(r) ==
    /\ Worker(r, "research")
    /\ \E found \in BOOLEAN :
          /\ Drafted(r, [NoAnswer EXCEPT !.text = IF found THEN "model" ELSE "fixed", !.web = found])
          /\ read' = [read EXCEPT ![r] = IF found THEN {"web"} ELSE {}]
    /\ UNCHANGED <<spec, tasks, planned>>

(* A calendar that cannot be read gives a clear answer, without a model.   *)
Calendar(r) ==
    /\ Worker(r, "calendar")
    /\ \E readable \in BOOLEAN :
          /\ Drafted(r, [NoAnswer EXCEPT !.text = IF readable THEN "model" ELSE "fixed", !.grounded = readable])
          /\ read' = [read EXCEPT ![r] = IF readable THEN {"calendar"} ELSE {}]
    /\ UNCHANGED <<spec, tasks, planned>>

(* parse_plan: the valid ones among the first entries of the reply, which  *)
(* holds no array at all, or one of valid and invalid entries.             *)
Replies == UNION {[1..n -> BOOLEAN] : n \in 0..(MAX_TASKS + 1)}
Valid(reply) == {k \in DOMAIN reply : k <= MAX_TASKS /\ reply[k]}

Planned == UNION {planned[r] : r \in Asks}
Numbered == {0} \cup DOMAIN tasks \cup Planned
LastId == Max(Numbered)
Fresh(n) == (LastId + 1)..(LastId + n)
WithTasks(ids, task) == [id \in DOMAIN tasks \cup ids |-> IF id \in ids THEN task ELSE tasks[id]]

(* Nothing is saved of a plan that cannot be read. *)
PlanUnreadable(r) ==
    /\ Worker(r, "planner")
    /\ Drafted(r, [NoAnswer EXCEPT !.text = "unparseable"])
    /\ UNCHANGED <<spec, tasks, planned, read>>

(* Mutant: every entry that was looked at is told of. *)
CommitPlanClaimingAll(r) ==
    /\ Worker(r, "planner")
    /\ \E reply \in Replies :
          LET ids == Fresh(Cardinality(Valid(reply))) IN
          /\ ids # {}
          /\ tasks' = WithTasks(ids, [ask |-> r, status |-> "todo"])
          /\ planned' = [planned EXCEPT ![r] = ids]
          /\ ask' = [ask EXCEPT ![r].at = "planned", ![r].answer.claims = Fresh(Len(reply))]
    /\ UNCHANGED <<spec, read>>

(* create_planned: all of them in one transaction, before the gate. *)
CommitPlan(r) ==
    /\ Worker(r, "planner")
    /\ \E reply \in Replies :
          LET ids == Fresh(Cardinality(Valid(reply))) IN
          /\ ids # {}
          /\ tasks' = WithTasks(ids, [ask |-> r, status |-> "todo"])
          /\ planned' = [planned EXCEPT ![r] = ids]
          /\ ask' = [ask EXCEPT ![r].at = "planned", ![r].answer.claims = ids]
    /\ UNCHANGED <<spec, read>>

ListPlan(r) ==
    /\ ask[r].at = "planned"
    /\ Drafted(r, [NoAnswer EXCEPT !.text = "list", !.claims = ask[r].answer.claims])
    /\ UNCHANGED <<spec, tasks, planned, read>>

(* The model, the search or the retrieval fails, or the process is lost.   *)
Fail(r) ==
    /\ ask[r].at \in {"work", "planned", "drafted", "review", "finished"}
    /\ ask' = [ask EXCEPT ![r].at = "failed"]
    /\ UNCHANGED <<spec, tasks, planned, read>>

----------------------------------------------------------------------------
(* The gate, and what the thread is told. *)

Gate(r) ==
    /\ ask[r].at = "drafted"
    /\ ask' = [ask EXCEPT ![r].at = IF spec.gate /\ ask[r].reviewed THEN "review" ELSE "finished"]
    /\ UNCHANGED <<spec, tasks, planned, read>>

(* approval_gate replaces a rejected answer and drops its sources, the     *)
(* documents' ones: the key web_sources is left as it is.                  *)
Approve(r) ==
    /\ ask[r].at = "review"
    /\ ask' = [ask EXCEPT ![r].at = "finished", ![r].decision = "approved"]
    /\ UNCHANGED <<spec, tasks, planned, read>>
Reject(r) ==
    /\ ask[r].at = "review"
    /\ ask' = [ask EXCEPT ![r].at = "finished", ![r].decision = "rejected",
                          ![r].answer = [ask[r].answer EXCEPT !.text = "rejected", !.grounded = FALSE,
                                                              !.sources = FALSE, !.claims = {}]]
    /\ UNCHANGED <<spec, tasks, planned, read>>

(* record_exchange: a decided exchange is recorded without web_sources. *)
Record(r) ==
    /\ ask[r].at = "finished"
    /\ ask' = [ask EXCEPT ![r].at = "recorded",
                          ![r].recorded = [ask[r].answer EXCEPT !.web = ask[r].answer.web /\ ask[r].decision = "none"]]
    /\ UNCHANGED <<spec, tasks, planned, read>>

----------------------------------------------------------------------------
(* The task list. *)

(* By the user, or by the create_task tool. *)
Create ==
    /\ LastId < MaxTasks
    /\ tasks' = WithTasks(Fresh(1), [ask |-> Nobody, status |-> "todo"])
    /\ UNCHANGED <<spec, ask, planned, read>>

(* What is set is assigned; a status set to null is refused by the column. *)
Update(id) ==
    /\ id \in DOMAIN tasks
    /\ \E status \in {"todo", "done"} \ {tasks[id].status} : tasks' = [tasks EXCEPT ![id].status = status]
    /\ UNCHANGED <<spec, ask, planned, read>>

Delete(id) ==
    /\ id \in DOMAIN tasks
    /\ tasks' = [k \in DOMAIN tasks \ {id} |-> tasks[k]]
    /\ UNCHANGED <<spec, ask, planned, read>>

AskStep(r) == \/ Supervise(r) \/ General(r) \/ Knowledge(r) \/ Research(r) \/ Calendar(r)
              \/ PlanUnreadable(r) \/ CommitPlan(r) \/ ListPlan(r) \/ Fail(r)
              \/ Gate(r) \/ Approve(r) \/ Reject(r) \/ Record(r)

Next == \/ \E r \in Asks : AskStep(r)
        \/ Create
        \/ \E id \in DOMAIN tasks : Update(id) \/ Delete(id)

Spec == Init /\ [][Next]_vars

----------------------------------------------------------------------------
(* Properties. *)

(* An answer claims what was done and read, no more: it lists exactly the  *)
(* tasks its planner has committed, at most MAX_TASKS of them, whatever    *)
(* the model replied; it is called grounded, or cites, only what its       *)
(* worker read; and its worker is one the version enables.  Tasks that no  *)
(* answer tells of are left only where a reviewer rejected the plan or the *)
(* request failed after its commit (PlannerAgent, "Honest failure").       *)
AnswersClaimWhatWasDone ==
    \A r \in Asks :
       LET shown == ask[r].answer IN
       /\ ask[r].at # "idle" => ask[r].route \in Enabled
       /\ shown.claims \subseteq planned[r]
       /\ shown.claims # planned[r] => ask[r].decision = "rejected" \/ ask[r].at = "failed"
       /\ Cardinality(planned[r]) <= MAX_TASKS
       /\ shown.text = "unparseable" => planned[r] = {}
       /\ shown.grounded => read[r] \cap {"documents", "calendar"} # {}
       /\ shown.sources => "documents" \in read[r]
       /\ shown.web => "web" \in read[r]
       /\ \A id \in DOMAIN tasks : tasks[id].ask = r => id \in planned[r]
====
