---- MODULE AgentRuns ----
(***************************************************************************)
(* An ask executed as a workflow run, the approval gate that pauses it and *)
(* the decision that resumes it (features/agents, features/workflows/      *)
(* service.py, features/approvals, workflows/graph.py and nodes.py).       *)
(*                                                                         *)
(* The executor opens a database session per write and awaits the graph    *)
(* between them, so a run is a row that changes in several commits; the    *)
(* approval row is committed by another service after the run is paused;   *)
(* and LangGraph keeps the graph's state in a checkpoint of its own.  Any  *)
(* two of those stores can be seen, or left by a crash, out of step.       *)
(* A publish on the event bus follows its commit at once and is folded     *)
(* into it.                                                                *)
(***************************************************************************)
EXTENDS Naturals, Sequences

CONSTANTS Runs,           \* asks, each one creates one run
          Deciders,       \* concurrent requests that decide an approval
          Versions,       \* versions of the workflow "agents.ask"
          Gated,          \* those whose spec has approval_gate = TRUE
          Faults          \* what may go wrong: "agent", "resume", "crash"

ASSUME VersionsAssumption == Gated \subseteq Versions
ASSUME FaultsAssumption == Faults \subseteq {"agent", "resume", "crash"}

Decisions == {"approved", "rejected"}

VARIABLES active,         \* the live version of the workflow
          run,            \* workflow_runs and workflow_steps
          thread,         \* LangGraph checkpoint of each run
          approval,       \* approvals.status of each run's approval
          transcript,     \* exchanges recorded to the conversation, by run
          ask,            \* the ask request of each run
          decide,         \* the decision requests
          faults          \* the kinds of fault met so far

vars == <<active, run, thread, approval, transcript, ask, decide, faults>>

NoRun == [status |-> "none", version |-> CHOOSE v \in Versions : TRUE, steps |-> <<>>]
NoDecide == [at |-> "idle", run |-> CHOOSE r \in Runs : TRUE, decision |-> "approved",
             version |-> CHOOSE v \in Versions : TRUE, position |-> 0, answer |-> "none"]

Init == /\ active \in Versions
        /\ run = [r \in Runs |-> NoRun]
        /\ thread = [r \in Runs |-> "none"]
        /\ approval = [r \in Runs |-> "none"]
        /\ transcript = [r \in Runs |-> <<>>]
        /\ ask = [r \in Runs |-> [at |-> "idle", needs |-> FALSE,
                                  version |-> NoRun.version]]
        /\ decide = [d \in Deciders |-> NoDecide]
        /\ faults = {}

----------------------------------------------------------------------------
(* Writes of the executor, each one a session of its own. *)

SetStatus(r, status) == run' = [run EXCEPT ![r].status = status]

(* _record_step: position is counted by the request, not by the table. *)
RecordStep(r, position, node) ==
    run' = [run EXCEPT ![r].steps = Append(@, [position |-> position, node |-> node])]

AskAt(r, at) == ask' = [ask EXCEPT ![r].at = at]
DecideAt(d, at) == decide' = [decide EXCEPT ![d].at = at]

(* The state the checkpoint holds: a rejected draft's answer is replaced. *)
Answer(checkpoint) == IF checkpoint = "rejected" THEN "discarded" ELSE "draft"

(* A fault of any kind may happen any number of times. *)
Fault(kind) == kind \in Faults /\ faults' = faults \cup {kind}

----------------------------------------------------------------------------
(* The ask: ask_agents, AgentRunService.run, WorkflowExecutor.execute. *)

(* The live version is resolved and its graph compiled before the run exists. *)
StartAsk(r, needs) ==
    /\ ask[r].at = "idle"
    /\ ask' = [ask EXCEPT ![r] = [at |-> "create", needs |-> needs, version |-> active]]
    /\ UNCHANGED <<active, run, thread, approval, transcript, decide, faults>>

CreateRun(r) ==
    /\ ask[r].at = "create"
    /\ run' = [run EXCEPT ![r] =
            [status |-> "running", version |-> ask[r].version, steps |-> <<>>]]
    /\ AskAt(r, "supervisor")
    /\ UNCHANGED <<active, thread, approval, transcript, decide, faults>>

SupervisorNode(r) ==
    /\ ask[r].at = "supervisor"
    /\ RecordStep(r, 0, "supervisor")
    /\ AskAt(r, "worker")
    /\ UNCHANGED <<active, thread, approval, transcript, decide, faults>>

WorkerNode(r) ==
    /\ ask[r].at = "worker"
    /\ RecordStep(r, 1, "worker")
    /\ AskAt(r, IF ask[r].version \in Gated THEN "gate" ELSE "finish")
    /\ UNCHANGED <<active, thread, approval, transcript, decide, faults>>

(* Mutant: the gate lets through what needs approval. *)
GatePassesAll(r) ==
    /\ ask[r].at = "gate"
    /\ RecordStep(r, 2, "approval_gate")
    /\ AskAt(r, "finish")
    /\ UNCHANGED <<active, thread, approval, transcript, decide, faults>>

(* approval_gate passes through and is recorded as a step ... *)
GatePasses(r) ==
    /\ ask[r].at = "gate"
    /\ ~ask[r].needs
    /\ RecordStep(r, 2, "approval_gate")
    /\ AskAt(r, "finish")
    /\ UNCHANGED <<active, thread, approval, transcript, decide, faults>>

(* ... or interrupts: LangGraph checkpoints the paused graph. *)
GateInterrupts(r) ==
    /\ ask[r].at = "gate"
    /\ ask[r].needs
    /\ thread' = [thread EXCEPT ![r] = "paused"]
    /\ AskAt(r, "pause")
    /\ UNCHANGED <<active, run, approval, transcript, decide, faults>>

(* Mutant: no approval is asked for. *)
AwaitApprovalUnasked(r) ==
    /\ ask[r].at = "pause"
    /\ SetStatus(r, "awaiting_approval")
    /\ AskAt(r, "done")
    /\ UNCHANGED <<active, thread, approval, transcript, decide, faults>>

AwaitApproval(r) ==
    /\ ask[r].at = "pause"
    /\ SetStatus(r, "awaiting_approval")
    /\ AskAt(r, "request")
    /\ UNCHANGED <<active, thread, approval, transcript, decide, faults>>

(* create_for_run, in the request's own session. *)
RequestApproval(r) ==
    /\ ask[r].at = "request"
    /\ approval' = [approval EXCEPT ![r] = "pending"]
    /\ AskAt(r, "done")
    /\ UNCHANGED <<active, run, thread, transcript, decide, faults>>

CompleteRun(r) ==
    /\ ask[r].at = "finish"
    /\ SetStatus(r, "completed")
    /\ AskAt(r, "record")
    /\ UNCHANGED <<active, thread, approval, transcript, decide, faults>>

RecordAnswer(r) ==
    /\ ask[r].at = "record"
    /\ transcript' = [transcript EXCEPT ![r] =
            Append(@, [answer |-> "draft", decision |-> "none"])]
    /\ AskAt(r, "done")
    /\ UNCHANGED <<active, run, thread, approval, decide, faults>>

(* A node raises, or its step or checkpoint cannot be written: the run is  *)
(* marked failed and the error is re-raised.                               *)
AgentFails(r) ==
    /\ ask[r].at \in {"supervisor", "worker", "gate"}
    /\ Fault("agent")
    /\ SetStatus(r, "failed")
    /\ AskAt(r, "done")
    /\ UNCHANGED <<active, thread, approval, transcript, decide>>

----------------------------------------------------------------------------
(* The decision: ApprovalService.decide, AgentRunService.resume,           *)
(* WorkflowExecutor.resume.                                                *)

(* Mutant: an approval can be decided again. *)
StartDecideAgain(d, r, decision) ==
    /\ decide[d].at = "idle"
    /\ approval[r] # "none"
    /\ decide' = [decide EXCEPT ![d] = [NoDecide EXCEPT !.at = "locate",
                                            !.run = r, !.decision = decision]]
    /\ UNCHANGED <<active, run, thread, approval, transcript, ask, faults>>

(* Only a pending approval is decided; any other answers ConflictError. *)
StartDecide(d, r, decision) ==
    /\ decide[d].at = "idle"
    /\ approval[r] = "pending"
    /\ decide' = [decide EXCEPT ![d] = [NoDecide EXCEPT !.at = "locate",
                                            !.run = r, !.decision = decision]]
    /\ UNCHANGED <<active, run, thread, approval, transcript, ask, faults>>

(* _run_progress: the position of the next step is the number of rows. *)
NextPosition(r) == Len(run[r].steps)

(* Mutants: the live version's graph is resumed; steps count from zero. *)
LocateRunByName(d) ==
    /\ decide[d].at = "locate"
    /\ decide' = [decide EXCEPT ![d].at = "resume", ![d].version = active,
                                ![d].position = NextPosition(decide[d].run)]
    /\ UNCHANGED <<active, run, thread, approval, transcript, ask, faults>>
LocateRunFromZero(d) ==
    /\ decide[d].at = "locate"
    /\ decide' = [decide EXCEPT ![d].at = "resume",
                                ![d].version = run[decide[d].run].version]
    /\ UNCHANGED <<active, run, thread, approval, transcript, ask, faults>>

(* _spec_for_run and _run_progress: the pinned version, the next position. *)
LocateRun(d) ==
    LET r == decide[d].run IN
    /\ decide[d].at = "locate"
    /\ decide' = [decide EXCEPT ![d].at = "resume", ![d].version = run[r].version,
                                ![d].position = NextPosition(r)]
    /\ UNCHANGED <<active, run, thread, approval, transcript, ask, faults>>

(* A thread that is still paused runs its gate; a thread that has finished *)
(* has nothing left to run and streams no update.                          *)
LoadCheckpoint(d) ==
    LET r == decide[d].run IN
    /\ decide[d].at = "resume"
    /\ DecideAt(d, IF thread[r] = "paused" THEN "gate" ELSE "snapshot")
    /\ UNCHANGED <<active, run, thread, approval, transcript, ask, faults>>

(* Mutant: the graph is resumed as if every decision were an approval. *)
GateApproves(d) ==
    LET r == decide[d].run IN
    /\ decide[d].at = "gate"
    /\ thread' = [thread EXCEPT ![r] = "approved"]
    /\ RecordStep(r, decide[d].position, "approval_gate")
    /\ DecideAt(d, "snapshot")
    /\ UNCHANGED <<active, approval, transcript, ask, faults>>

GateDecides(d) ==
    LET r == decide[d].run IN
    /\ decide[d].at = "gate"
    /\ thread' = [thread EXCEPT ![r] = decide[d].decision]
    /\ RecordStep(r, decide[d].position, "approval_gate")
    /\ DecideAt(d, "snapshot")
    /\ UNCHANGED <<active, approval, transcript, ask, faults>>

(* aget_state: the answer is the checkpoint's, whoever's decision it holds. *)
ReadState(d) ==
    /\ decide[d].at = "snapshot"
    /\ decide' = [decide EXCEPT ![d].at = "finish",
                                ![d].answer = Answer(thread[decide[d].run])]
    /\ UNCHANGED <<active, run, thread, approval, transcript, ask, faults>>

FinishResumed(d) ==
    /\ decide[d].at = "finish"
    /\ SetStatus(decide[d].run, "completed")
    /\ DecideAt(d, "mark")
    /\ UNCHANGED <<active, thread, approval, transcript, ask, faults>>

(* Mutant: the decision is not saved. *)
MarkDecidedUnsaved(d) ==
    /\ decide[d].at = "mark"
    /\ DecideAt(d, "record")
    /\ UNCHANGED <<active, run, thread, approval, transcript, ask, faults>>

(* The approval loaded at the start of the request is written back. *)
MarkDecided(d) ==
    /\ decide[d].at = "mark"
    /\ approval' = [approval EXCEPT ![decide[d].run] = decide[d].decision]
    /\ DecideAt(d, "record")
    /\ UNCHANGED <<active, run, thread, transcript, ask, faults>>

RecordDecided(d) ==
    LET r == decide[d].run IN
    /\ decide[d].at = "record"
    /\ transcript' = [transcript EXCEPT ![r] =
            Append(@, [answer |-> decide[d].answer, decision |-> decide[d].decision])]
    /\ decide' = [decide EXCEPT ![d] = NoDecide]
    /\ UNCHANGED <<active, run, thread, approval, ask, faults>>

(* Resuming raises: the run is marked failed, the approval stays pending.  *)
(* Whether the gate's decision reached the checkpoint first is LangGraph's. *)
ResumeFails(d) ==
    LET r == decide[d].run IN
    /\ decide[d].at \in {"resume", "gate"}
    /\ Fault("resume")
    /\ SetStatus(r, "failed")
    /\ \/ UNCHANGED thread
       \/ /\ decide[d].at = "gate"
          /\ thread' = [thread EXCEPT ![r] = decide[d].decision]
    /\ decide' = [decide EXCEPT ![d] = NoDecide]
    /\ UNCHANGED <<active, approval, transcript, ask>>

----------------------------------------------------------------------------
(* Another version is activated (see WorkflowVersions). *)
Activate(v) ==
    /\ active' = v
    /\ UNCHANGED <<run, thread, approval, transcript, ask, decide, faults>>

(* Requests are cut short: all of them when the process dies, one when the *)
(* database fails it where no handler is (creating or finishing the run,   *)
(* the final checkpoint read, the approval, the exchange).  Rows and       *)
(* checkpoints remain, and nothing looks for interrupted work again.       *)
Crash(asks, decisions) ==
    /\ Fault("crash")
    /\ ask' = [r \in Runs |-> IF r \in asks /\ ask[r].at # "idle"
                              THEN [ask[r] EXCEPT !.at = "done"] ELSE ask[r]]
    /\ decide' = [d \in Deciders |-> IF d \in decisions THEN NoDecide ELSE decide[d]]
    /\ UNCHANGED <<active, run, thread, approval, transcript>>

AskStep(r) ==
    \/ CreateRun(r) \/ SupervisorNode(r) \/ WorkerNode(r)
    \/ GatePasses(r) \/ GateInterrupts(r) \/ AwaitApproval(r) \/ RequestApproval(r)
    \/ CompleteRun(r) \/ RecordAnswer(r)

DecideStep(d) ==
    \/ LocateRun(d) \/ LoadCheckpoint(d) \/ GateDecides(d) \/ ReadState(d)
    \/ FinishResumed(d) \/ MarkDecided(d) \/ RecordDecided(d)

Next == \/ \E r \in Runs : AskStep(r) \/ AgentFails(r)
                           \/ \E needs \in BOOLEAN : StartAsk(r, needs)
        \/ \E d \in Deciders : DecideStep(d) \/ ResumeFails(d)
        \/ \E d \in Deciders, r \in Runs, decision \in Decisions :
                StartDecide(d, r, decision)
        \/ \E v \in Versions : Activate(v)
        \/ \E asks \in SUBSET Runs, decisions \in SUBSET Deciders : Crash(asks, decisions)

Spec == Init /\ [][Next]_vars

(* The event loop keeps running every request it has accepted. *)
FairSpec == /\ Spec
            /\ \A r \in Runs : WF_vars(AskStep(r))
            /\ \A d \in Deciders : WF_vars(DecideStep(d))

----------------------------------------------------------------------------
(* Properties. *)

Reviewed(r) == ask[r].needs /\ run[r].version \in Gated

(* A draft under review stays out of the conversation, and its run out of  *)
(* COMPLETED, until a decision has reached the graph and, for the          *)
(* conversation, the approval row, whatever fails or is activated between. *)
DraftHeld ==
    \A r \in Runs : Reviewed(r) =>
        /\ run[r].status = "completed" => thread[r] \in Decisions
        /\ transcript[r] # <<>> => approval[r] \in Decisions

(* A run is resumed in a graph that has the node it paused on, although    *)
(* other versions are activated between the pause and the decision.        *)
ResumeFindsItsGate ==
    \A d \in Deciders :
        decide[d].at = "resume" /\ thread[decide[d].run] = "paused"
            => decide[d].version \in Gated

(* What an ask leaves behind adds up, over the pause, overlapping and      *)
(* failed resumes and restarts: its exchange is recorded to its            *)
(* conversation at most once, and its run's steps are numbered in the      *)
(* order they ran, although each executor counts from the rows it read.    *)
RecordedOnceInOrder ==
    \A r \in Runs :
        /\ Len(transcript[r]) <= 1
        /\ \A i \in DOMAIN run[r].steps : run[r].steps[i].position = i - 1

(* The decision an approval shows is the one its graph was resumed with,   *)
(* and so the one that chose between the draft and its replacement, as     *)
(* long as no decision was cut short after the graph had taken it.         *)
DecisionTakesEffect ==
    faults \cap {"resume", "crash"} = {} =>
        \A r \in Runs : approval[r] \in Decisions => thread[r] = approval[r]

(* A paused run has an approval a reviewer can find, or the request that   *)
(* paused it is about to create one, unless it was cut short in between.   *)
PausedIsReviewable ==
    "crash" \notin faults =>
        \A r \in Runs : run[r].status = "awaiting_approval" =>
            approval[r] = "pending" \/ ask[r].at = "request"

(* A run, once created, ends or waits for a reviewer, agents failing or    *)
(* not, and a decision that was accepted is carried out or its run says it *)
(* failed; only a request cut short (by the death of the process, or by a  *)
(* database error outside the executor's handler) strands either.          *)
EverythingSettles ==
    \A r \in Runs :
        /\ run[r].status = "running" ~>
              \/ run[r].status \in {"awaiting_approval", "completed", "failed"}
              \/ "crash" \in faults
        /\ \A d \in Deciders :
              decide[d].at = "locate" /\ decide[d].run = r ~>
                  \/ approval[r] \in Decisions \/ run[r].status = "failed"
                  \/ "crash" \in faults
====
