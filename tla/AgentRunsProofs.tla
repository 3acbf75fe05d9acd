---- MODULE AgentRunsProofs ----
(***************************************************************************)
(* Proofs about AgentRuns, for every set of runs, deciders and versions    *)
(* and every combination of faults.                                        *)
(***************************************************************************)
EXTENDS AgentRuns, TLAPS

Step == [position: Nat, node: {"supervisor", "worker", "approval_gate"}]
RunRow == [status: {"none", "running", "awaiting_approval", "completed", "failed"},
           version: Versions, steps: Seq(Step)]
Answers == {"none", "draft", "discarded"}
Exchange == [answer: Answers, decision: {"none"} \cup Decisions]

AskPlaces == {"idle", "create", "supervisor", "worker", "gate", "pause", "request",
              "finish", "record", "done"}
Ask == [at: AskPlaces, needs: BOOLEAN, version: Versions]

DecidePlaces == {"idle", "locate", "resume", "gate", "snapshot", "finish", "mark", "record"}
Decide == [at: DecidePlaces, run: Runs \cup {NoDecide.run}, decision: Decisions,
           version: Versions, position: Nat, answer: Answers]

DecideTyped == /\ decide \in [Deciders -> Decide]
               /\ \A d \in Deciders : decide[d].at # "idle" => decide[d].run \in Runs

(* Rows, checkpoints and requests are well formed. *)
TypeOK ==
    /\ active \in Versions
    /\ run \in [Runs -> RunRow]
    /\ thread \in [Runs -> {"none", "paused"} \cup Decisions]
    /\ approval \in [Runs -> {"none", "pending"} \cup Decisions]
    /\ transcript \in [Runs -> Seq(Exchange)]
    /\ ask \in [Runs -> Ask]
    /\ DecideTyped
    /\ faults \subseteq Faults

(* The graph pauses at its gate, and only then is an approval requested.   *)
RunInv(r) ==
    /\ thread[r] # "none" => run[r].version \in Gated
    /\ approval[r] # "none" => thread[r] # "none"

(* How far an ask has come, and that nobody decides before it is done.     *)
AskInv(r) ==
    LET at == ask[r].at IN
    /\ at \in {"idle", "create"} => run[r].status = "none" /\ run[r].steps = <<>>
    /\ at \notin {"idle", "create", "done"} => run[r].version = ask[r].version
    /\ at \in {"gate", "pause", "request"} => ask[r].version \in Gated
    /\ at \in {"pause", "request"} => thread[r] = "paused" /\ ask[r].needs
    /\ at \in {"finish", "record"} => ~ask[r].needs \/ ask[r].version \notin Gated
    /\ at \notin {"pause", "request", "done"} => thread[r] = "none"
    /\ at # "done" => approval[r] = "none" /\ transcript[r] = <<>>

(* What a decision may rely on, whatever others decide meanwhile.          *)
DecideInv(d) ==
    LET r == decide[d].run
        at == decide[d].at IN
    /\ at # "idle" => approval[r] # "none"
    /\ at \in {"resume", "gate"} => decide[d].version = run[r].version
    /\ at \in {"snapshot", "finish", "mark"} => thread[r] \in Decisions
    /\ at = "mark" => run[r].status \in {"completed", "failed"}
    /\ at = "record" => approval[r] \in Decisions

(* DraftHeld and PausedIsReviewable, of one run.                           *)
Held(r) ==
    Reviewed(r) => /\ run[r].status = "completed" => thread[r] \in Decisions
                   /\ transcript[r] # <<>> => approval[r] \in Decisions
Findable(r) ==
    "crash" \notin faults /\ run[r].status = "awaiting_approval" =>
        approval[r] = "pending" \/ ask[r].at = "request"

RunInvs(r) == RunInv(r) /\ AskInv(r) /\ Held(r) /\ Findable(r)

IInv == TypeOK /\ (\A r \in Runs : RunInvs(r)) /\ (\A d \in Deciders : DecideInv(d))

(* With one decider: what it read is still so when it writes.              *)
OneDecider == \A d, e \in Deciders : d = e

DecideAloneInv(d) ==
    LET r == decide[d].run
        at == decide[d].at IN
    /\ at \notin {"idle", "record"} => approval[r] = "pending"
    /\ at # "idle" => transcript[r] = <<>>
    /\ at \in {"resume", "gate"} => decide[d].position = Len(run[r].steps)

RecordsInv(r) ==
    /\ Len(transcript[r]) <= 1
    /\ transcript[r] # <<>> => approval[r] # "pending"
    /\ ask[r].at = "supervisor" => Len(run[r].steps) = 0
    /\ ask[r].at = "worker" => Len(run[r].steps) = 1
    /\ ask[r].at = "gate" => Len(run[r].steps) = 2
    /\ \A i \in DOMAIN run[r].steps : run[r].steps[i].position = i - 1

Uncut == faults \cap {"resume", "crash"} = {}

BeingDecided(r) == \E d \in Deciders : decide[d].at # "idle" /\ decide[d].run = r

(* As long as no decision was cut short, graph and approval agree, but for *)
(* a run whose decision is under way.                                      *)
EffectRunInv(r) ==
    Uncut => /\ approval[r] \in Decisions => thread[r] = approval[r]
             /\ approval[r] = "pending" => thread[r] = "paused" \/ BeingDecided(r)
EffectDecideInv(d) ==
    Uncut => /\ decide[d].at \in {"locate", "resume", "gate"} => thread[decide[d].run] = "paused"
             /\ decide[d].at \in {"snapshot", "finish", "mark", "record"} =>
                    thread[decide[d].run] = decide[d].decision

IInvOne == /\ IInv
           /\ \A d \in Deciders : DecideAloneInv(d) /\ EffectDecideInv(d)
           /\ \A r \in Runs : RecordsInv(r) /\ EffectRunInv(r)

----------------------------------------------------------------------------
(* What the updates of a run, an ask and a decision do.                    *)
LEMMA StatusWritten ==
    ASSUME TypeOK, NEW r \in Runs, NEW s, SetStatus(r, s),
           s \in {"running", "awaiting_approval", "completed", "failed"}
    PROVE  /\ run' \in [Runs -> RunRow]
           /\ run'[r].status = s /\ run'[r].version = run[r].version /\ run'[r].steps = run[r].steps
           /\ \A q \in Runs : q # r => run'[q] = run[q]
<1> DEFINE new == [run[r] EXCEPT !.status = s]
<1>1. run[r] \in RunRow
  BY DEF TypeOK
<1>2. new \in RunRow /\ new.status = s /\ new.version = run[r].version /\ new.steps = run[r].steps
  BY <1>1, SMT DEF RunRow
<1>3. run' = [run EXCEPT ![r] = new]
  BY DEF SetStatus
<1> HIDE DEF new
<1> QED BY <1>2, <1>3 DEF TypeOK

LEMMA StepRecorded ==
    ASSUME TypeOK, NEW r \in Runs, NEW p \in Nat, NEW n \in {"supervisor", "worker", "approval_gate"},
           RecordStep(r, p, n)
    PROVE  /\ run' \in [Runs -> RunRow]
           /\ run'[r].status = run[r].status /\ run'[r].version = run[r].version
           /\ run'[r].steps = Append(run[r].steps, [position |-> p, node |-> n])
           /\ \A q \in Runs : q # r => run'[q] = run[q]
<1> DEFINE step == [position |-> p, node |-> n]
           steps == Append(run[r].steps, step)
           new == [run[r] EXCEPT !.steps = steps]
<1>1. run[r] \in RunRow /\ run[r].steps \in Seq(Step)
  <2>1. run[r] \in RunRow
    BY DEF TypeOK
  <2> QED BY <2>1, SMT DEF RunRow
<1>2. step \in Step
  BY DEF Step
<1> HIDE DEF step
<1>3. steps \in Seq(Step)
  BY <1>1, <1>2
<1>4. run' = [run EXCEPT ![r] = new]
  BY DEF RecordStep, step
<1> HIDE DEF steps
<1>5. new \in RunRow /\ new.steps = steps /\ new.version = run[r].version /\ new.status = run[r].status
  BY <1>1, <1>3, SMT DEF RunRow
<1> HIDE DEF new
<1>6. run' \in [Runs -> RunRow] /\ run'[r] = new /\ \A q \in Runs : q # r => run'[q] = run[q]
  BY <1>4, <1>5 DEF TypeOK
<1> QED BY <1>5, <1>6 DEF steps, step

LEMMA AskMoved ==
    ASSUME TypeOK, NEW r \in Runs, NEW a \in AskPlaces, AskAt(r, a)
    PROVE  /\ ask' \in [Runs -> Ask]
           /\ ask'[r].at = a /\ ask'[r].needs = ask[r].needs /\ ask'[r].version = ask[r].version
           /\ \A q \in Runs : q # r => ask'[q] = ask[q]
<1> DEFINE new == [ask[r] EXCEPT !.at = a]
<1>1. ask[r] \in Ask
  BY DEF TypeOK
<1>2. new \in Ask /\ new.at = a /\ new.needs = ask[r].needs /\ new.version = ask[r].version
  BY <1>1, SMT DEF Ask
<1>3. ask' = [ask EXCEPT ![r] = new]
  BY DEF AskAt
<1> HIDE DEF new
<1> QED BY <1>2, <1>3 DEF TypeOK

LEMMA DecideMoved ==
    ASSUME TypeOK, NEW d \in Deciders, NEW a \in DecidePlaces, DecideAt(d, a), decide[d].at # "idle"
    PROVE  /\ DecideTyped'
           /\ decide'[d].at = a /\ decide'[d].run = decide[d].run
           /\ decide'[d].decision = decide[d].decision /\ decide'[d].version = decide[d].version
           /\ decide'[d].position = decide[d].position
           /\ \A e \in Deciders : e # d => decide'[e] = decide[e]
<1> DEFINE new == [decide[d] EXCEPT !.at = a]
<1>1. decide[d] \in Decide /\ decide[d].run \in Runs
  BY DEF TypeOK, DecideTyped
<1>2. /\ new \in Decide /\ new.at = a /\ new.run = decide[d].run /\ new.decision = decide[d].decision
      /\ new.version = decide[d].version /\ new.position = decide[d].position
  BY <1>1, SMT DEF Decide
<1>3. decide' = [decide EXCEPT ![d] = new]
  BY DEF DecideAt
<1> HIDE DEF new
<1>4. decide' \in [Deciders -> Decide] /\ decide'[d] = new /\ \A e \in Deciders : e # d => decide'[e] = decide[e]
  BY <1>2, <1>3 DEF TypeOK, DecideTyped
<1> QED BY <1>1, <1>2, <1>4 DEF TypeOK, DecideTyped

LEMMA NoDecideIsIdle ==
    ASSUME NEW v \in Versions
    PROVE  NoDecide \in Decide /\ NoDecide.at = "idle"
  BY SMT DEF Decide, NoDecide, DecidePlaces, Decisions, Answers

LEMMA DecideEnded ==
    ASSUME TypeOK, NEW d \in Deciders, decide' = [decide EXCEPT ![d] = NoDecide]
    PROVE  /\ DecideTyped'
           /\ decide'[d].at = "idle"
           /\ \A e \in Deciders : e # d => decide'[e] = decide[e]
<1>1. NoDecide \in Decide /\ NoDecide.at = "idle"
  BY NoDecideIsIdle DEF TypeOK
<1> QED BY <1>1 DEF TypeOK, DecideTyped

----------------------------------------------------------------------------
(* The steps of an ask.  Nobody decides about a run whose ask is not done, *)
(* so only the run itself is to be looked at.                              *)
LEMMA AskSide ==
    ASSUME IInv, NEW r \in Runs, ask[r].at # "done",
           TypeOK', RunInvs(r)', UNCHANGED decide, faults \subseteq faults',
           \A q \in Runs : q # r => /\ run'[q] = run[q] /\ thread'[q] = thread[q]
                                    /\ approval'[q] = approval[q] /\ transcript'[q] = transcript[q]
                                    /\ ask'[q] = ask[q]
    PROVE  IInv'
<1>1. approval[r] = "none"
  BY DEF IInv, RunInvs, AskInv
<1>2. ASSUME NEW q \in Runs PROVE RunInvs(q)'
  <2>1. CASE q = r
    BY <2>1
  <2>2. CASE q # r
    BY <2>2 DEF IInv, RunInvs, RunInv, AskInv, Held, Reviewed, Findable
  <2> QED BY <2>1, <2>2
<1>3. ASSUME NEW d \in Deciders PROVE DecideInv(d)'
  <2>1. decide[d].at # "idle" => decide[d].run \in Runs /\ decide[d].run # r
    BY <1>1 DEF IInv, TypeOK, DecideTyped, DecideInv
  <2> QED BY <2>1 DEF IInv, DecideInv
<1> QED BY <1>2, <1>3 DEF IInv

LEMMA StartAskIInv ==
    ASSUME IInv, NEW r \in Runs, NEW needs \in BOOLEAN, StartAsk(r, needs)
    PROVE  IInv'
<1> DEFINE new == [at |-> "create", needs |-> needs, version |-> active]
<1>1. new \in Ask /\ new.at = "create"
  BY SMT DEF IInv, TypeOK, Ask, AskPlaces
<1>2. /\ ask[r].at = "idle" /\ ask' = [ask EXCEPT ![r] = new]
      /\ UNCHANGED <<active, run, thread, approval, transcript, decide, faults>>
  BY DEF StartAsk
<1> HIDE DEF new
<1>3. /\ ask' \in [Runs -> Ask] /\ ask'[r] = new
      /\ \A q \in Runs : q # r => ask'[q] = ask[q]
  BY <1>1, <1>2 DEF IInv, TypeOK
<1>4. TypeOK'
  BY <1>2, <1>3 DEF IInv, TypeOK, DecideTyped
<1>5. RunInvs(r)'
  BY <1>1, <1>2, <1>3 DEF IInv, RunInvs, RunInv, AskInv, Held, Reviewed, Findable
<1> QED BY <1>2, <1>3, <1>4, <1>5, AskSide

LEMMA CreateRunIInv ==
    ASSUME IInv, NEW r \in Runs, CreateRun(r)
    PROVE  IInv'
<1> DEFINE new == [status |-> "running", version |-> ask[r].version, steps |-> <<>>]
<1>1. new \in RunRow /\ new.status = "running" /\ new.version = ask[r].version
  <2>1. ask[r].version \in Versions
    BY SMT DEF IInv, TypeOK, Ask
  <2>2. <<>> \in Seq(Step)
    OBVIOUS
  <2> QED BY <2>1, <2>2, SMT DEF RunRow
<1>2. /\ ask[r].at = "create" /\ run' = [run EXCEPT ![r] = new] /\ AskAt(r, "supervisor")
      /\ UNCHANGED <<active, thread, approval, transcript, decide, faults>>
  BY DEF CreateRun
<1> HIDE DEF new
<1>3. /\ run' \in [Runs -> RunRow] /\ run'[r] = new
      /\ \A q \in Runs : q # r => run'[q] = run[q]
  BY <1>1, <1>2 DEF IInv, TypeOK
<1>4. /\ ask' \in [Runs -> Ask] /\ ask'[r].at = "supervisor"
      /\ ask'[r].needs = ask[r].needs /\ ask'[r].version = ask[r].version
      /\ \A q \in Runs : q # r => ask'[q] = ask[q]
  BY <1>2, AskMoved DEF IInv, AskPlaces
<1>5. TypeOK'
  BY <1>2, <1>3, <1>4 DEF IInv, TypeOK, DecideTyped
<1>6. RunInvs(r)'
  BY <1>1, <1>2, <1>3, <1>4 DEF IInv, RunInvs, RunInv, AskInv, Held, Reviewed, Findable
<1> QED BY <1>2, <1>3, <1>4, <1>5, <1>6, AskSide

(* The nodes, and the gate that lets through.                              *)
LEMMA NodeIInv ==
    ASSUME IInv, NEW r \in Runs, SupervisorNode(r) \/ WorkerNode(r) \/ GatePasses(r)
    PROVE  IInv'
<1>1. PICK p \in Nat, n \in {"supervisor", "worker", "approval_gate"}, a \in {"worker", "gate", "finish"} :
         /\ ask[r].at \in {"supervisor", "worker", "gate"}
         /\ RecordStep(r, p, n) /\ AskAt(r, a)
         /\ a = "gate" => ask[r].version \in Gated
         /\ a = "finish" => ~ask[r].needs \/ ask[r].version \notin Gated
         /\ UNCHANGED <<active, thread, approval, transcript, decide, faults>>
  <2>1. CASE SupervisorNode(r)
    BY <2>1 DEF SupervisorNode
  <2>2. CASE WorkerNode(r)
    BY <2>2 DEF WorkerNode
  <2>3. CASE GatePasses(r)
    BY <2>3 DEF GatePasses
  <2> QED BY <2>1, <2>2, <2>3
<1>2. /\ run' \in [Runs -> RunRow]
      /\ run'[r].status = run[r].status /\ run'[r].version = run[r].version
      /\ \A q \in Runs : q # r => run'[q] = run[q]
  BY <1>1, StepRecorded DEF IInv
<1>3. /\ ask' \in [Runs -> Ask] /\ ask'[r].at = a
      /\ ask'[r].needs = ask[r].needs /\ ask'[r].version = ask[r].version
      /\ \A q \in Runs : q # r => ask'[q] = ask[q]
  BY <1>1, AskMoved DEF IInv, AskPlaces
<1>4. TypeOK'
  BY <1>1, <1>2, <1>3 DEF IInv, TypeOK, DecideTyped
<1>5. RunInvs(r)'
  BY <1>1, <1>2, <1>3 DEF IInv, RunInvs, RunInv, AskInv, Held, Reviewed, Findable
<1> QED BY <1>1, <1>2, <1>3, <1>4, <1>5, AskSide

LEMMA GateInterruptsIInv ==
    ASSUME IInv, NEW r \in Runs, GateInterrupts(r)
    PROVE  IInv'
<1>1. /\ ask[r].at = "gate" /\ ask[r].needs /\ AskAt(r, "pause")
      /\ thread' = [thread EXCEPT ![r] = "paused"]
      /\ UNCHANGED <<active, run, approval, transcript, decide, faults>>
  BY DEF GateInterrupts
<1>2. /\ ask' \in [Runs -> Ask] /\ ask'[r].at = "pause"
      /\ ask'[r].needs = ask[r].needs /\ ask'[r].version = ask[r].version
      /\ \A q \in Runs : q # r => ask'[q] = ask[q]
  BY <1>1, AskMoved DEF IInv, AskPlaces
<1>3. /\ thread' \in [Runs -> {"none", "paused"} \cup Decisions] /\ thread'[r] = "paused"
      /\ \A q \in Runs : q # r => thread'[q] = thread[q]
  BY <1>1 DEF IInv, TypeOK
<1>4. TypeOK'
  BY <1>1, <1>2, <1>3 DEF IInv, TypeOK, DecideTyped
<1>5. RunInvs(r)'
  BY <1>1, <1>2, <1>3 DEF IInv, RunInvs, RunInv, AskInv, Held, Reviewed, Findable, Decisions
<1> QED BY <1>1, <1>2, <1>3, <1>4, <1>5, AskSide

(* The status is written; a draft under review has no ask at "finish".     *)
LEMMA AskStatusIInv ==
    ASSUME IInv, NEW r \in Runs, AwaitApproval(r) \/ CompleteRun(r) \/ AgentFails(r)
    PROVE  IInv'
<1>1. PICK s \in {"awaiting_approval", "completed", "failed"}, a \in {"request", "record", "done"} :
         /\ SetStatus(r, s) /\ AskAt(r, a)
         /\ \/ ask[r].at = "pause" /\ s = "awaiting_approval" /\ a = "request"
            \/ ask[r].at = "finish" /\ s = "completed" /\ a = "record"
            \/ ask[r].at \in {"supervisor", "worker", "gate"} /\ s = "failed" /\ a = "done"
         /\ faults \subseteq faults' /\ faults' \subseteq Faults
         /\ UNCHANGED <<active, thread, approval, transcript, decide>>
  <2>1. CASE AwaitApproval(r)
    BY <2>1 DEF AwaitApproval, IInv, TypeOK
  <2>2. CASE CompleteRun(r)
    BY <2>2 DEF CompleteRun, IInv, TypeOK
  <2>3. CASE AgentFails(r)
    BY <2>3 DEF AgentFails, Fault, IInv, TypeOK
  <2> QED BY <2>1, <2>2, <2>3
<1>2. /\ run' \in [Runs -> RunRow] /\ run'[r].status = s /\ run'[r].version = run[r].version
      /\ \A q \in Runs : q # r => run'[q] = run[q]
  BY <1>1, StatusWritten DEF IInv
<1>3. /\ ask' \in [Runs -> Ask] /\ ask'[r].at = a
      /\ ask'[r].needs = ask[r].needs /\ ask'[r].version = ask[r].version
      /\ \A q \in Runs : q # r => ask'[q] = ask[q]
  BY <1>1, AskMoved DEF IInv, AskPlaces
<1>4. TypeOK'
  BY <1>1, <1>2, <1>3 DEF IInv, TypeOK, DecideTyped
<1>5. RunInvs(r)'
  BY <1>1, <1>2, <1>3 DEF IInv, RunInvs, RunInv, AskInv, Held, Reviewed, Findable
<1> QED BY <1>1, <1>2, <1>3, <1>4, <1>5, AskSide

LEMMA RequestApprovalIInv ==
    ASSUME IInv, NEW r \in Runs, RequestApproval(r)
    PROVE  IInv'
<1>1. /\ ask[r].at = "request" /\ AskAt(r, "done")
      /\ approval' = [approval EXCEPT ![r] = "pending"]
      /\ UNCHANGED <<active, run, thread, transcript, decide, faults>>
  BY DEF RequestApproval
<1>2. /\ ask' \in [Runs -> Ask] /\ ask'[r].at = "done"
      /\ ask'[r].needs = ask[r].needs /\ ask'[r].version = ask[r].version
      /\ \A q \in Runs : q # r => ask'[q] = ask[q]
  BY <1>1, AskMoved DEF IInv, AskPlaces
<1>3. /\ approval' \in [Runs -> {"none", "pending"} \cup Decisions] /\ approval'[r] = "pending"
      /\ \A q \in Runs : q # r => approval'[q] = approval[q]
  BY <1>1 DEF IInv, TypeOK
<1>4. TypeOK'
  BY <1>1, <1>2, <1>3 DEF IInv, TypeOK, DecideTyped
<1>5. RunInvs(r)'
  BY <1>1, <1>2, <1>3 DEF IInv, RunInvs, RunInv, AskInv, Held, Reviewed, Findable, Decisions
<1> QED BY <1>1, <1>2, <1>3, <1>4, <1>5, AskSide

LEMMA ExchangeRecorded ==
    ASSUME TypeOK, NEW r \in Runs, NEW answer \in Answers, NEW decision \in {"none"} \cup Decisions,
           transcript' = [transcript EXCEPT ![r] =
                Append(@, [answer |-> answer, decision |-> decision])]
    PROVE  /\ transcript' \in [Runs -> Seq(Exchange)]
           /\ Len(transcript'[r]) = Len(transcript[r]) + 1
           /\ transcript'[r] # <<>>
           /\ \A q \in Runs : q # r => transcript'[q] = transcript[q]
<1> DEFINE e == [answer |-> answer, decision |-> decision]
           new == Append(transcript[r], e)
<1>1. e \in Exchange /\ transcript[r] \in Seq(Exchange)
  BY DEF TypeOK, Exchange
<1> HIDE DEF e
<1>2. new \in Seq(Exchange) /\ Len(new) = Len(transcript[r]) + 1 /\ new # <<>>
  BY <1>1
<1>3. transcript' = [transcript EXCEPT ![r] = new]
  BY DEF e
<1> HIDE DEF new
<1> QED BY <1>2, <1>3 DEF TypeOK

LEMMA RecordAnswerIInv ==
    ASSUME IInv, NEW r \in Runs, RecordAnswer(r)
    PROVE  IInv'
<1>1. /\ ask[r].at = "record" /\ AskAt(r, "done")
      /\ transcript' = [transcript EXCEPT ![r] =
            Append(@, [answer |-> "draft", decision |-> "none"])]
      /\ UNCHANGED <<active, run, thread, approval, decide, faults>>
  BY DEF RecordAnswer
<1>2. /\ ask' \in [Runs -> Ask] /\ ask'[r].at = "done"
      /\ ask'[r].needs = ask[r].needs /\ ask'[r].version = ask[r].version
      /\ \A q \in Runs : q # r => ask'[q] = ask[q]
  BY <1>1, AskMoved DEF IInv, AskPlaces
<1>3. /\ transcript' \in [Runs -> Seq(Exchange)]
      /\ \A q \in Runs : q # r => transcript'[q] = transcript[q]
  BY <1>1, ExchangeRecorded DEF IInv, Answers
<1>4. TypeOK'
  BY <1>1, <1>2, <1>3 DEF IInv, TypeOK, DecideTyped
<1>5. RunInvs(r)'
  BY <1>1, <1>2, <1>3 DEF IInv, RunInvs, RunInv, AskInv, Held, Reviewed, Findable
<1> QED BY <1>1, <1>2, <1>3, <1>4, <1>5, AskSide

----------------------------------------------------------------------------
(* The steps of a decision.  The ask of the run is done, and whoever else  *)
(* decides relies only on what no decision takes back.                     *)
LEMMA DecideSide ==
    ASSUME IInv, NEW d \in Deciders, NEW r \in Runs, approval[r] # "none",
           TypeOK', DecideInv(d)', RunInv(r)', Held(r)', Findable(r)',
           UNCHANGED ask, faults \subseteq faults', approval'[r] # "none",
           run'[r].version = run[r].version,
           run[r].status \in {"completed", "failed"} => run'[r].status \in {"completed", "failed"},
           thread[r] \in Decisions => thread'[r] \in Decisions,
           approval[r] \in Decisions => approval'[r] \in Decisions,
           \A q \in Runs : q # r => /\ run'[q] = run[q] /\ thread'[q] = thread[q]
                                    /\ approval'[q] = approval[q] /\ transcript'[q] = transcript[q],
           \A e \in Deciders : e # d => decide'[e] = decide[e]
    PROVE  IInv'
<1>1. ASSUME NEW q \in Runs PROVE RunInvs(q)'
  <2>1. CASE q = r
    BY <2>1 DEF IInv, RunInvs, AskInv
  <2>2. CASE q # r
    BY <2>2 DEF IInv, RunInvs, RunInv, AskInv, Held, Reviewed, Findable
  <2> QED BY <2>1, <2>2
<1>2. ASSUME NEW e \in Deciders PROVE DecideInv(e)'
  <2>1. CASE e = d
    BY <2>1
  <2>2. CASE decide[e].at = "idle" /\ e # d
    BY <2>2 DEF DecideInv
  <2>3. CASE decide[e].at # "idle" /\ e # d
    <3>1. decide'[e] = decide[e] /\ decide[e].run \in Runs /\ DecideInv(e)
      BY <2>3 DEF IInv, TypeOK, DecideTyped
    <3>2. CASE decide[e].run = r
      BY <3>1, <3>2 DEF DecideInv
    <3>3. CASE decide[e].run # r
      BY <3>1, <3>3 DEF DecideInv
    <3> QED BY <3>2, <3>3
  <2> QED BY <2>1, <2>2, <2>3
<1> QED BY <1>1, <1>2 DEF IInv

(* What a decision under way knows of its run.                             *)
LEMMA Deciding ==
    ASSUME IInv, NEW d \in Deciders, decide[d].at # "idle"
    PROVE  /\ decide[d] \in Decide /\ decide[d].run \in Runs
           /\ decide[d].decision \in Decisions /\ decide[d].position \in Nat
           /\ decide[d].answer \in Answers
           /\ approval[decide[d].run] # "none" /\ thread[decide[d].run] # "none"
           /\ ask[decide[d].run].at = "done"
<1>1. decide[d] \in Decide /\ decide[d].run \in Runs
  BY DEF IInv, TypeOK, DecideTyped
<1>2. decide[d].decision \in Decisions /\ decide[d].position \in Nat /\ decide[d].answer \in Answers
  BY <1>1, SMT DEF Decide
<1>3. approval[decide[d].run] # "none"
  BY DEF IInv, DecideInv
<1> QED BY <1>1, <1>2, <1>3 DEF IInv, RunInvs, RunInv, AskInv

LEMMA StartDecideIInv ==
    ASSUME IInv, NEW d \in Deciders, NEW r \in Runs, NEW decision \in Decisions,
           StartDecide(d, r, decision)
    PROVE  IInv'
<1> DEFINE new == [NoDecide EXCEPT !.at = "locate", !.run = r, !.decision = decision]
<1>1. new \in Decide /\ new.at = "locate" /\ new.run = r
  <2>1. NoDecide \in Decide
    BY NoDecideIsIdle DEF IInv, TypeOK
  <2> DEFINE x == [NoDecide EXCEPT !.at = "locate"]
             y == [x EXCEPT !.run = r]
  <2>2. x \in Decide /\ x.at = "locate"
    BY <2>1, SMT DEF Decide, DecidePlaces
  <2>3. new = [y EXCEPT !.decision = decision]
    BY Zenon
  <2> HIDE DEF x
  <2>4. y \in Decide /\ y.at = "locate" /\ y.run = r
    BY <2>2, SMT DEF Decide
  <2> HIDE DEF y
  <2>5. /\ [y EXCEPT !.decision = decision] \in Decide /\ [y EXCEPT !.decision = decision].at = "locate"
        /\ [y EXCEPT !.decision = decision].run = r
    BY <2>4, SMT DEF Decide
  <2> QED BY <2>3, <2>5
<1>2. /\ decide[d].at = "idle" /\ approval[r] = "pending" /\ decide' = [decide EXCEPT ![d] = new]
      /\ UNCHANGED <<active, run, thread, approval, transcript, ask, faults>>
  BY DEF StartDecide
<1> HIDE DEF new
<1>3. /\ decide' \in [Deciders -> Decide] /\ decide'[d] = new
      /\ \A e \in Deciders : e # d => decide'[e] = decide[e]
  BY <1>1, <1>2 DEF IInv, TypeOK, DecideTyped
<1>4. TypeOK'
  BY <1>1, <1>2, <1>3 DEF IInv, TypeOK, DecideTyped
<1>5. DecideInv(d)'
  BY <1>1, <1>2, <1>3 DEF DecideInv
<1>6. RunInv(r)' /\ Held(r)' /\ Findable(r)'
  BY <1>2 DEF IInv, RunInvs, RunInv, Held, Reviewed, Findable
<1> QED BY <1>2, <1>3, <1>4, <1>5, <1>6, DecideSide

LEMMA DecideRead ==
    ASSUME NEW x \in Decide, NEW w \in Answers
    PROVE  LET new == [x EXCEPT !.at = "finish", !.answer = w] IN
           new \in Decide /\ new.at = "finish" /\ new.run = x.run /\ new.decision = x.decision
<1> DEFINE y == [x EXCEPT !.at = "finish"]
<1>1. y \in Decide /\ y.at = "finish" /\ y.run = x.run /\ y.decision = x.decision
  BY SMT DEF Decide, DecidePlaces
<1>2. [x EXCEPT !.at = "finish", !.answer = w] = [y EXCEPT !.answer = w]
  BY Zenon
<1> HIDE DEF y
<1>3. LET new == [y EXCEPT !.answer = w] IN
      new \in Decide /\ new.at = "finish" /\ new.run = x.run /\ new.decision = x.decision
  BY <1>1, SMT DEF Decide
<1> QED BY <1>2, <1>3

(* The steps that read.                                                    *)
LEMMA LocateRunIInv ==
    ASSUME IInv, NEW d \in Deciders, NEW r \in Runs, decide[d].run = r, LocateRun(d)
    PROVE  IInv'
<1> DEFINE new == [decide[d] EXCEPT !.at = "resume", !.version = run[r].version, !.position = NextPosition(r)]
<1>1. /\ decide[d].at = "locate" /\ decide' = [decide EXCEPT ![d] = new]
      /\ UNCHANGED <<active, run, thread, approval, transcript, ask, faults>>
  BY DEF LocateRun
<1>2. decide[d] \in Decide /\ r \in Runs /\ approval[r] # "none"
  BY <1>1, Deciding
<1>3. run[r].version \in Versions /\ NextPosition(r) \in Nat
  <2>1. run[r] \in RunRow
    BY <1>2 DEF IInv, TypeOK
  <2>2. run[r].version \in Versions /\ run[r].steps \in Seq(Step)
    BY <2>1, SMT DEF RunRow
  <2> QED BY <2>2 DEF NextPosition
<1>4. new \in Decide /\ new.at = "resume" /\ new.run = r /\ new.version = run[r].version
  <2> DEFINE y == [decide[d] EXCEPT !.at = "resume"]
             z == [y EXCEPT !.version = run[r].version]
  <2>1. y \in Decide /\ y.at = "resume" /\ y.run = r
    BY <1>2, SMT DEF Decide, DecidePlaces
  <2>2. new = [z EXCEPT !.position = NextPosition(r)]
    BY Zenon
  <2> HIDE DEF y
  <2>3. z \in Decide /\ z.at = "resume" /\ z.version = run[r].version /\ z.run = r
    BY <1>3, <2>1, SMT DEF Decide
  <2> HIDE DEF z, new
  <2> QED BY <1>3, <2>2, <2>3, SMT DEF Decide
<1> HIDE DEF new
<1>5. /\ decide' \in [Deciders -> Decide] /\ decide'[d] = new
      /\ \A e \in Deciders : e # d => decide'[e] = decide[e]
  BY <1>1, <1>4 DEF IInv, TypeOK, DecideTyped
<1>6. TypeOK'
  BY <1>1, <1>2, <1>4, <1>5 DEF IInv, TypeOK, DecideTyped
<1>7. DecideInv(d)'
  BY <1>1, <1>2, <1>4, <1>5 DEF DecideInv
<1>8. RunInv(r)' /\ Held(r)' /\ Findable(r)'
  BY <1>1, <1>2 DEF IInv, RunInvs, RunInv, Held, Reviewed, Findable
<1> QED BY <1>1, <1>2, <1>5, <1>6, <1>7, <1>8, DecideSide

LEMMA LoadCheckpointIInv ==
    ASSUME IInv, NEW d \in Deciders, NEW r \in Runs, decide[d].run = r, LoadCheckpoint(d)
    PROVE  IInv'
<1> DEFINE a == IF thread[r] = "paused" THEN "gate" ELSE "snapshot"
<1>1. /\ decide[d].at = "resume" /\ DecideAt(d, a)
      /\ UNCHANGED <<active, run, thread, approval, transcript, ask, faults>>
  BY DEF LoadCheckpoint
<1>2. r \in Runs /\ approval[r] # "none" /\ thread[r] # "none" /\ a \in {"gate", "snapshot"}
  BY <1>1, Deciding
<1>3. a = "snapshot" => thread[r] \in Decisions
  BY <1>2 DEF IInv, TypeOK
<1> HIDE DEF a
<1>4. /\ DecideTyped' /\ decide'[d].at = a /\ decide'[d].run = r
      /\ decide'[d].version = decide[d].version
      /\ \A e \in Deciders : e # d => decide'[e] = decide[e]
  BY <1>1, <1>2, DecideMoved DEF IInv, DecidePlaces
<1>5. TypeOK'
  BY <1>1, <1>4 DEF IInv, TypeOK
<1>6. DecideInv(d)'
  BY <1>1, <1>2, <1>3, <1>4 DEF IInv, DecideInv
<1>7. RunInv(r)' /\ Held(r)' /\ Findable(r)'
  BY <1>1, <1>2 DEF IInv, RunInvs, RunInv, Held, Reviewed, Findable
<1> QED BY <1>1, <1>2, <1>4, <1>5, <1>6, <1>7, DecideSide

LEMMA ReadStateIInv ==
    ASSUME IInv, NEW d \in Deciders, NEW r \in Runs, decide[d].run = r, ReadState(d)
    PROVE  IInv'
<1> DEFINE new == [decide[d] EXCEPT !.at = "finish", !.answer = Answer(thread[r])]
<1>1. /\ decide[d].at = "snapshot" /\ decide' = [decide EXCEPT ![d] = new]
      /\ UNCHANGED <<active, run, thread, approval, transcript, ask, faults>>
  BY DEF ReadState
<1>2. decide[d] \in Decide /\ r \in Runs /\ approval[r] # "none"
  BY <1>1, Deciding
<1>3. Answer(thread[r]) \in Answers
  BY DEF Answer, Answers
<1>4. new \in Decide /\ new.at = "finish" /\ new.run = r
  BY <1>2, <1>3, DecideRead
<1> HIDE DEF new
<1>5. /\ decide' \in [Deciders -> Decide] /\ decide'[d] = new
      /\ \A e \in Deciders : e # d => decide'[e] = decide[e]
  BY <1>1, <1>4 DEF IInv, TypeOK, DecideTyped
<1>6. TypeOK'
  BY <1>1, <1>2, <1>4, <1>5 DEF IInv, TypeOK, DecideTyped
<1>7. DecideInv(d)'
  BY <1>1, <1>2, <1>4, <1>5 DEF IInv, DecideInv
<1>8. RunInv(r)' /\ Held(r)' /\ Findable(r)'
  BY <1>1, <1>2 DEF IInv, RunInvs, RunInv, Held, Reviewed, Findable
<1> QED BY <1>1, <1>2, <1>5, <1>6, <1>7, <1>8, DecideSide

(* The steps that write.                                                   *)
LEMMA GateDecidesIInv ==
    ASSUME IInv, NEW d \in Deciders, NEW r \in Runs, decide[d].run = r, GateDecides(d)
    PROVE  IInv'
<1>1. /\ decide[d].at = "gate" /\ DecideAt(d, "snapshot")
      /\ thread' = [thread EXCEPT ![r] = decide[d].decision]
      /\ RecordStep(r, decide[d].position, "approval_gate")
      /\ UNCHANGED <<active, approval, transcript, ask, faults>>
  BY DEF GateDecides
<1>2. /\ r \in Runs /\ approval[r] # "none" /\ thread[r] # "none" /\ decide[d].position \in Nat
      /\ decide[d].decision \in Decisions
  BY <1>1, Deciding
<1>3. /\ DecideTyped' /\ decide'[d].at = "snapshot" /\ decide'[d].run = r
      /\ \A e \in Deciders : e # d => decide'[e] = decide[e]
  BY <1>1, DecideMoved DEF IInv, DecidePlaces
<1>4. /\ run' \in [Runs -> RunRow]
      /\ run'[r].status = run[r].status /\ run'[r].version = run[r].version
      /\ \A q \in Runs : q # r => run'[q] = run[q]
  BY <1>1, <1>2, StepRecorded DEF IInv
<1>5. /\ thread' \in [Runs -> {"none", "paused"} \cup Decisions] /\ thread'[r] = decide[d].decision
      /\ \A q \in Runs : q # r => thread'[q] = thread[q]
  BY <1>1, <1>2 DEF IInv, TypeOK
<1>6. TypeOK'
  BY <1>1, <1>3, <1>4, <1>5 DEF IInv, TypeOK
<1>7. DecideInv(d)'
  BY <1>1, <1>2, <1>3, <1>5 DEF DecideInv
<1>8. RunInv(r)' /\ Held(r)' /\ Findable(r)'
  BY <1>1, <1>2, <1>4, <1>5 DEF IInv, RunInvs, RunInv, Held, Reviewed, Findable, Decisions
<1> QED BY <1>1, <1>2, <1>3, <1>4, <1>5, <1>6, <1>7, <1>8, DecideSide

LEMMA FinishResumedIInv ==
    ASSUME IInv, NEW d \in Deciders, NEW r \in Runs, decide[d].run = r, FinishResumed(d)
    PROVE  IInv'
<1>1. /\ decide[d].at = "finish" /\ DecideAt(d, "mark") /\ SetStatus(r, "completed")
      /\ UNCHANGED <<active, thread, approval, transcript, ask, faults>>
  BY DEF FinishResumed
<1>2. r \in Runs /\ approval[r] # "none" /\ thread[r] \in Decisions
  BY <1>1, Deciding DEF IInv, DecideInv
<1>3. /\ DecideTyped' /\ decide'[d].at = "mark" /\ decide'[d].run = r
      /\ \A e \in Deciders : e # d => decide'[e] = decide[e]
  BY <1>1, DecideMoved DEF IInv, DecidePlaces
<1>4. /\ run' \in [Runs -> RunRow]
      /\ run'[r].status = "completed" /\ run'[r].version = run[r].version
      /\ \A q \in Runs : q # r => run'[q] = run[q]
  BY <1>1, <1>2, StatusWritten DEF IInv
<1>6. TypeOK'
  BY <1>1, <1>3, <1>4 DEF IInv, TypeOK
<1>7. DecideInv(d)'
  BY <1>1, <1>2, <1>3, <1>4 DEF DecideInv
<1>8. RunInv(r)' /\ Held(r)' /\ Findable(r)'
  BY <1>1, <1>2, <1>4 DEF IInv, RunInvs, RunInv, Held, Reviewed, Findable
<1> QED BY <1>1, <1>2, <1>3, <1>4, <1>6, <1>7, <1>8, DecideSide

LEMMA MarkDecidedIInv ==
    ASSUME IInv, NEW d \in Deciders, NEW r \in Runs, decide[d].run = r, MarkDecided(d)
    PROVE  IInv'
<1>1. /\ decide[d].at = "mark" /\ DecideAt(d, "record")
      /\ approval' = [approval EXCEPT ![r] = decide[d].decision]
      /\ UNCHANGED <<active, run, thread, transcript, ask, faults>>
  BY DEF MarkDecided
<1>2. /\ r \in Runs /\ approval[r] # "none" /\ thread[r] # "none" /\ decide[d].decision \in Decisions
      /\ run[r].status \in {"completed", "failed"}
  BY <1>1, Deciding DEF IInv, DecideInv
<1>3. /\ DecideTyped' /\ decide'[d].at = "record" /\ decide'[d].run = r
      /\ \A e \in Deciders : e # d => decide'[e] = decide[e]
  BY <1>1, DecideMoved DEF IInv, DecidePlaces
<1>4. /\ approval' \in [Runs -> {"none", "pending"} \cup Decisions] /\ approval'[r] = decide[d].decision
      /\ \A q \in Runs : q # r => approval'[q] = approval[q]
  BY <1>1, <1>2 DEF IInv, TypeOK
<1>6. TypeOK'
  BY <1>1, <1>3, <1>4 DEF IInv, TypeOK
<1>7. DecideInv(d)' /\ approval'[r] # "none"
  BY <1>1, <1>2, <1>3, <1>4 DEF DecideInv, Decisions
<1>8. RunInv(r)' /\ Held(r)' /\ Findable(r)'
  BY <1>1, <1>2, <1>4 DEF IInv, RunInvs, RunInv, Held, Reviewed, Findable
<1> QED BY <1>1, <1>2, <1>3, <1>4, <1>6, <1>7, <1>8, DecideSide

LEMMA RecordDecidedIInv ==
    ASSUME IInv, NEW d \in Deciders, NEW r \in Runs, decide[d].run = r, RecordDecided(d)
    PROVE  IInv'
<1>1. /\ decide[d].at = "record" /\ decide' = [decide EXCEPT ![d] = NoDecide]
      /\ transcript' = [transcript EXCEPT ![r] =
            Append(@, [answer |-> decide[d].answer, decision |-> decide[d].decision])]
      /\ UNCHANGED <<active, run, thread, approval, ask, faults>>
  BY DEF RecordDecided
<1>2. /\ r \in Runs /\ approval[r] \in Decisions /\ approval[r] # "none"
      /\ decide[d].decision \in Decisions /\ decide[d].answer \in Answers
  BY <1>1, Deciding DEF IInv, DecideInv
<1>3. /\ DecideTyped' /\ decide'[d].at = "idle"
      /\ \A e \in Deciders : e # d => decide'[e] = decide[e]
  BY <1>1, DecideEnded DEF IInv
<1>4. /\ transcript' \in [Runs -> Seq(Exchange)]
      /\ \A q \in Runs : q # r => transcript'[q] = transcript[q]
  BY <1>1, <1>2, ExchangeRecorded DEF IInv
<1>6. TypeOK'
  BY <1>1, <1>3, <1>4 DEF IInv, TypeOK
<1>7. DecideInv(d)'
  BY <1>3 DEF DecideInv
<1>8. RunInv(r)' /\ Held(r)' /\ Findable(r)'
  BY <1>1, <1>2, <1>4 DEF IInv, RunInvs, RunInv, Held, Reviewed, Findable
<1> QED BY <1>1, <1>2, <1>3, <1>4, <1>6, <1>7, <1>8, DecideSide

LEMMA ResumeFailsIInv ==
    ASSUME IInv, NEW d \in Deciders, NEW r \in Runs, decide[d].run = r, ResumeFails(d)
    PROVE  IInv'
<1>1. /\ decide[d].at # "idle" /\ decide' = [decide EXCEPT ![d] = NoDecide] /\ SetStatus(r, "failed")
      /\ UNCHANGED thread \/ thread' = [thread EXCEPT ![r] = decide[d].decision]
      /\ faults \subseteq faults' /\ faults' \subseteq Faults
      /\ UNCHANGED <<active, approval, transcript, ask>>
  BY DEF ResumeFails, Fault, IInv, TypeOK
<1>2. /\ r \in Runs /\ approval[r] # "none" /\ thread[r] # "none"
      /\ decide[d].decision \in Decisions
  BY <1>1, Deciding
<1>3. /\ DecideTyped' /\ decide'[d].at = "idle"
      /\ \A e \in Deciders : e # d => decide'[e] = decide[e]
  BY <1>1, DecideEnded DEF IInv
<1>4. /\ run' \in [Runs -> RunRow]
      /\ run'[r].status = "failed" /\ run'[r].version = run[r].version
      /\ \A q \in Runs : q # r => run'[q] = run[q]
  BY <1>1, <1>2, StatusWritten DEF IInv
<1>5. /\ thread' \in [Runs -> {"none", "paused"} \cup Decisions] /\ thread'[r] # "none"
      /\ thread[r] \in Decisions => thread'[r] \in Decisions
      /\ \A q \in Runs : q # r => thread'[q] = thread[q]
  BY <1>1, <1>2 DEF IInv, TypeOK, Decisions
<1>6. TypeOK'
  BY <1>1, <1>3, <1>4, <1>5 DEF IInv, TypeOK
<1>7. DecideInv(d)'
  BY <1>3 DEF DecideInv
<1>8. RunInv(r)' /\ Held(r)' /\ Findable(r)'
  BY <1>1, <1>2, <1>4, <1>5 DEF IInv, RunInvs, RunInv, Held, Reviewed, Findable
<1> QED BY <1>1, <1>2, <1>3, <1>4, <1>5, <1>6, <1>7, <1>8, DecideSide

----------------------------------------------------------------------------
LEMMA CrashIInv ==
    ASSUME IInv, NEW asks, NEW decisions, Crash(asks, decisions)
    PROVE  IInv'
<1>1. /\ ask' = [r \in Runs |-> IF r \in asks /\ ask[r].at # "idle"
                                 THEN [ask[r] EXCEPT !.at = "done"] ELSE ask[r]]
      /\ decide' = [d \in Deciders |-> IF d \in decisions THEN NoDecide ELSE decide[d]] /\ "crash" \in faults' /\ faults' \subseteq Faults
      /\ UNCHANGED <<active, run, thread, approval, transcript>>
  BY DEF Crash, Fault, IInv, TypeOK
<1>2. ASSUME NEW r \in Runs
      PROVE  /\ ask'[r] \in Ask /\ ask'[r].needs = ask[r].needs
             /\ ask'[r] = ask[r] \/ ask'[r].at = "done"
  <2> DEFINE new == [ask[r] EXCEPT !.at = "done"]
  <2>1. ask[r] \in Ask
    BY DEF IInv, TypeOK
  <2>2. new \in Ask /\ new.at = "done" /\ new.needs = ask[r].needs
    BY <2>1, SMT DEF Ask, AskPlaces
  <2>3. ask'[r] = ask[r] \/ ask'[r] = new
    BY <1>1
  <2> HIDE DEF new
  <2> QED BY <2>1, <2>2, <2>3
<1>3. /\ NoDecide \in Decide
      /\ \A d \in Deciders : \/ decide'[d] = decide[d]
                             \/ decide'[d] = NoDecide /\ decide'[d].at = "idle"
  BY <1>1, NoDecideIsIdle DEF IInv, TypeOK
<1>4. TypeOK'
  <2>1. ask' \in [Runs -> Ask]
    BY <1>1, <1>2
  <2>2. DecideTyped'
    BY <1>1, <1>3 DEF IInv, TypeOK, DecideTyped
  <2> QED BY <1>1, <2>1, <2>2 DEF IInv, TypeOK
<1>5. ASSUME NEW r \in Runs PROVE RunInvs(r)'
  BY <1>1, <1>2 DEF IInv, RunInvs, RunInv, AskInv, Held, Reviewed, Findable
<1>6. \A d \in Deciders : DecideInv(d)'
  BY <1>1, <1>3 DEF IInv, DecideInv
<1> QED BY <1>4, <1>5, <1>6 DEF IInv

LEMMA InitIInv == Init => IInv
<1> SUFFICES ASSUME Init PROVE IInv
  OBVIOUS
<1>1. NoDecide \in Decide /\ \A d \in Deciders : decide[d] = NoDecide /\ decide[d].at = "idle"
  BY NoDecideIsIdle DEF Init
<1>2. NoRun \in RunRow /\ NoRun.status = "none" /\ NoRun.steps = <<>> /\ NoRun.version \in Versions
  BY SMT DEF Init, NoRun, RunRow
<1>3. \A r \in Runs : run[r] = NoRun /\ ask[r] \in Ask /\ ask[r].at = "idle"
  <2> DEFINE first == [at |-> "idle", needs |-> FALSE, version |-> NoRun.version]
  <2>1. first \in Ask /\ first.at = "idle"
    BY <1>2, SMT DEF Ask, AskPlaces
  <2>2. \A r \in Runs : run[r] = NoRun /\ ask[r] = first
    BY DEF Init
  <2> HIDE DEF first
  <2> QED BY <2>1, <2>2
<1>4. TypeOK
  <2>1. <<>> \in Seq(Exchange)
    OBVIOUS
  <2>2. ask \in [Runs -> Ask] /\ run \in [Runs -> RunRow] /\ transcript \in [Runs -> Seq(Exchange)]
    BY <1>2, <1>3, <2>1 DEF Init
  <2>3. DecideTyped
    BY <1>1 DEF Init, DecideTyped
  <2> QED BY <2>2, <2>3 DEF Init, TypeOK
<1>5. ASSUME NEW r \in Runs PROVE RunInvs(r)
  BY <1>2, <1>3 DEF Init, RunInvs, RunInv, AskInv, Held, Reviewed, Findable
<1>6. \A d \in Deciders : DecideInv(d)
  BY <1>1 DEF DecideInv
<1> QED BY <1>4, <1>5, <1>6 DEF IInv

LEMMA StepIInv == IInv /\ [Next]_vars => IInv'
<1> SUFFICES ASSUME IInv, [Next]_vars PROVE IInv'
  OBVIOUS
<1>1. ASSUME NEW r \in Runs, AskStep(r) \/ AgentFails(r) PROVE IInv'
  BY <1>1, CreateRunIInv, NodeIInv, GateInterruptsIInv, AskStatusIInv, RequestApprovalIInv,
     RecordAnswerIInv DEF AskStep
<1>2. ASSUME NEW r \in Runs, NEW needs \in BOOLEAN, StartAsk(r, needs) PROVE IInv'
  BY <1>2, StartAskIInv
<1>3. ASSUME NEW d \in Deciders, DecideStep(d) \/ ResumeFails(d) PROVE IInv'
  <2>1. decide[d].at # "idle"
    BY <1>3 DEF DecideStep, LocateRun, LoadCheckpoint, GateDecides, ReadState, FinishResumed, MarkDecided,
                RecordDecided, ResumeFails
  <2>2. decide[d].run \in Runs
    BY <2>1, Deciding
  <2> QED
    BY <1>3, <2>2, LocateRunIInv, LoadCheckpointIInv, GateDecidesIInv, ReadStateIInv, FinishResumedIInv,
       MarkDecidedIInv, RecordDecidedIInv, ResumeFailsIInv DEF DecideStep
<1>4. ASSUME NEW d \in Deciders, NEW r \in Runs, NEW decision \in Decisions, StartDecide(d, r, decision)
      PROVE  IInv'
  BY <1>4, StartDecideIInv
<1>5. CASE (\E v \in Versions : Activate(v)) \/ UNCHANGED vars
  <2>1. active' \in Versions /\ UNCHANGED <<run, thread, approval, transcript, ask, decide, faults>>
    BY <1>5 DEF Activate, vars, IInv, TypeOK
  <2> QED BY <2>1 DEF IInv, TypeOK, DecideTyped, RunInvs, RunInv, AskInv, DecideInv, Held, Reviewed, Findable
<1>6. CASE \E asks \in SUBSET Runs, decisions \in SUBSET Deciders : Crash(asks, decisions)
  BY <1>6, CrashIInv
<1> QED BY <1>1, <1>2, <1>3, <1>4, <1>5, <1>6 DEF Next

LEMMA Invariant == Spec => []IInv
  BY InitIInv, StepIInv, PTL DEF Spec

(* A draft under review stays out of the conversation, and its run out of  *)
(* COMPLETED, until it is decided (approval_gate, _record_assistant_turn). *)
THEOREM DraftIsHeld == Spec => []DraftHeld
<1>1. IInv => DraftHeld
  BY DEF IInv, RunInvs, Held, DraftHeld
<1> QED BY <1>1, Invariant, PTL

(* A paused run is resumed in a graph that has its gate (_spec_for_run).   *)
THEOREM ResumedAtItsGate == Spec => []ResumeFindsItsGate
<1>1. IInv => ResumeFindsItsGate
  BY Deciding DEF IInv, RunInvs, RunInv, DecideInv, ResumeFindsItsGate
<1> QED BY <1>1, Invariant, PTL

(* A paused run has an approval to decide, or is about to get one, unless  *)
(* the process died (execute, create_for_run).                             *)
THEOREM PausedRunsAreReviewable == Spec => []PausedIsReviewable
<1>1. IInv => PausedIsReviewable
  BY DEF IInv, RunInvs, Findable, PausedIsReviewable
<1> QED BY <1>1, Invariant, PTL

----------------------------------------------------------------------------
(* One decider.                                                            *)
LEMMA AskSideOne ==
    ASSUME IInvOne, NEW r \in Runs, ask[r].at # "done",
           RecordsInv(r)', EffectRunInv(r)', UNCHANGED decide, faults \subseteq faults',
           \A q \in Runs : q # r => /\ run'[q] = run[q] /\ thread'[q] = thread[q]
                                    /\ approval'[q] = approval[q] /\ transcript'[q] = transcript[q]
                                    /\ ask'[q] = ask[q]
    PROVE  /\ \A d \in Deciders : DecideAloneInv(d)' /\ EffectDecideInv(d)'
           /\ \A q \in Runs : RecordsInv(q)' /\ EffectRunInv(q)'
<1>1. approval[r] = "none"
  BY DEF IInvOne, IInv, RunInvs, AskInv
<1>2. ASSUME NEW q \in Runs, q # r PROVE RecordsInv(q)' /\ EffectRunInv(q)'
  BY <1>2 DEF IInvOne, RecordsInv, EffectRunInv, Uncut, BeingDecided
<1>3. ASSUME NEW d \in Deciders PROVE DecideAloneInv(d)' /\ EffectDecideInv(d)'
  <2>1. decide[d].at # "idle" => decide[d].run \in Runs /\ decide[d].run # r
    BY <1>1 DEF IInvOne, IInv, TypeOK, DecideTyped, DecideInv
  <2> QED BY <2>1 DEF IInvOne, DecideAloneInv, EffectDecideInv, Uncut
<1> QED BY <1>2, <1>3

LEMMA DecideSideOne ==
    ASSUME OneDecider, IInvOne, NEW d \in Deciders, NEW r \in Runs,
           decide[d].at # "idle" => decide[d].run = r,
           DecideAloneInv(d)', EffectDecideInv(d)', RecordsInv(r)', EffectRunInv(r)',
           UNCHANGED ask, faults \subseteq faults',
           \A q \in Runs : q # r => /\ run'[q] = run[q] /\ thread'[q] = thread[q]
                                    /\ approval'[q] = approval[q] /\ transcript'[q] = transcript[q]
    PROVE  /\ \A e \in Deciders : DecideAloneInv(e)' /\ EffectDecideInv(e)'
           /\ \A q \in Runs : RecordsInv(q)' /\ EffectRunInv(q)'
<1>1. \A e \in Deciders : e = d
  BY DEF OneDecider
<1>2. ASSUME NEW q \in Runs, q # r PROVE RecordsInv(q)' /\ EffectRunInv(q)'
  <2>1. ~BeingDecided(q)
    BY <1>1, <1>2 DEF BeingDecided
  <2> QED BY <1>2, <2>1 DEF IInvOne, RecordsInv, EffectRunInv, Uncut
<1> QED BY <1>1, <1>2

(* A step appended under the number of rows keeps the numbers in order.    *)
LEMMA AppendedInOrder ==
    ASSUME TypeOK, NEW r \in Runs, NEW n, RecordsInv(r),
           run'[r].steps = Append(run[r].steps, [position |-> Len(run[r].steps), node |-> n])
    PROVE  /\ Len(run'[r].steps) = Len(run[r].steps) + 1
           /\ \A i \in DOMAIN run'[r].steps : run'[r].steps[i].position = i - 1
<1> DEFINE steps == run[r].steps
           step == [position |-> Len(steps), node |-> n]
<1>1. steps \in Seq(Step) /\ Len(steps) \in Nat
  <2>1. run[r] \in RunRow
    BY DEF TypeOK
  <2>2. steps \in Seq(Step)
    BY <2>1, SMT DEF RunRow
  <2> QED BY <2>2
<1>2. step.position = Len(steps)
  OBVIOUS
<1>3. \A i \in DOMAIN steps : steps[i].position = i - 1
  BY DEF RecordsInv
<1>4. run'[r].steps = Append(steps, step)
  OBVIOUS
<1> HIDE DEF step, steps
<1>5. /\ Len(Append(steps, step)) = Len(steps) + 1
      /\ DOMAIN Append(steps, step) = 1..(Len(steps) + 1)
      /\ \A i \in 1..Len(steps) : i \in DOMAIN steps /\ Append(steps, step)[i] = steps[i]
      /\ Append(steps, step)[Len(steps) + 1] = step
  BY <1>1
<1>6. ASSUME NEW i \in 1..(Len(steps) + 1) PROVE Append(steps, step)[i].position = i - 1
  <2>1. i \in 1..Len(steps) \/ i = Len(steps) + 1
    BY <1>1
  <2>2. CASE i \in 1..Len(steps)
    BY <1>3, <1>5, <2>2
  <2>3. CASE i = Len(steps) + 1
    BY <1>1, <1>2, <1>5, <2>3
  <2> QED BY <2>1, <2>2, <2>3
<1> QED BY <1>4, <1>5, <1>6 DEF steps

LEMMA AskStepOne ==
    ASSUME IInvOne, NEW r \in Runs, AskStep(r) \/ AgentFails(r) \/ \E needs \in BOOLEAN : StartAsk(r, needs)
    PROVE  /\ \A d \in Deciders : DecideAloneInv(d)' /\ EffectDecideInv(d)'
           /\ \A q \in Runs : RecordsInv(q)' /\ EffectRunInv(q)'
<1>0. /\ TypeOK /\ RunInvs(r) /\ RecordsInv(r) /\ EffectRunInv(r)
      /\ ask[r] \in Ask /\ run[r] \in RunRow /\ transcript[r] \in Seq(Exchange)
  BY DEF IInvOne, IInv, TypeOK
<1>1. CASE \E needs \in BOOLEAN : StartAsk(r, needs)
  <2>1. PICK needs \in BOOLEAN : StartAsk(r, needs)
    BY <1>1
  <2> DEFINE new == [at |-> "create", needs |-> needs, version |-> active]
  <2>2. new.at = "create"
    OBVIOUS
  <2>3. /\ ask[r].at = "idle" /\ ask' = [ask EXCEPT ![r] = new]
        /\ UNCHANGED <<run, thread, approval, transcript, decide, faults>>
    BY <2>1 DEF StartAsk
  <2> HIDE DEF new
  <2>4. ask'[r].at = "create" /\ \A q \in Runs : q # r => ask'[q] = ask[q]
    BY <1>0, <2>2, <2>3 DEF TypeOK
  <2>5. RecordsInv(r)' /\ EffectRunInv(r)'
    BY <1>0, <2>3, <2>4 DEF RecordsInv, EffectRunInv, Uncut, BeingDecided
  <2> QED BY <2>3, <2>4, <2>5, AskSideOne
<1>2. CASE CreateRun(r)
  <2> DEFINE new == [status |-> "running", version |-> ask[r].version, steps |-> <<>>]
  <2>1. new.steps = <<>>
    OBVIOUS
  <2>2. /\ ask[r].at = "create" /\ run' = [run EXCEPT ![r] = new] /\ AskAt(r, "supervisor")
        /\ UNCHANGED <<active, thread, approval, transcript, decide, faults>>
    BY <1>2 DEF CreateRun
  <2> HIDE DEF new
  <2>3. run'[r].steps = <<>> /\ \A q \in Runs : q # r => run'[q] = run[q]
    BY <1>0, <2>1, <2>2 DEF TypeOK
  <2>4. ask'[r].at = "supervisor" /\ \A q \in Runs : q # r => ask'[q] = ask[q]
    BY <1>0, <2>2, AskMoved DEF AskPlaces
  <2>5. RecordsInv(r)' /\ EffectRunInv(r)'
    BY <1>0, <2>2, <2>3, <2>4 DEF RecordsInv, EffectRunInv, Uncut, BeingDecided
  <2> QED BY <2>2, <2>3, <2>4, <2>5, AskSideOne
<1>3. CASE SupervisorNode(r) \/ WorkerNode(r) \/ GatePasses(r)
  <2>1. PICK p \in Nat, n \in {"supervisor", "worker", "approval_gate"}, a \in {"worker", "gate", "finish"} :
           /\ \/ ask[r].at = "supervisor" /\ p = 0 /\ a = "worker"
              \/ ask[r].at = "worker" /\ p = 1 /\ a \in {"gate", "finish"}
              \/ ask[r].at = "gate" /\ p = 2 /\ a = "finish"
           /\ RecordStep(r, p, n) /\ AskAt(r, a)
           /\ UNCHANGED <<thread, approval, transcript, decide, faults>>
    <3>1. CASE SupervisorNode(r)
      BY <3>1 DEF SupervisorNode
    <3>2. CASE WorkerNode(r)
      BY <3>2 DEF WorkerNode
    <3>3. CASE GatePasses(r)
      BY <3>3 DEF GatePasses
    <3> QED BY <1>3, <3>1, <3>2, <3>3
  <2>7. \/ ask[r].at = "supervisor" /\ p = 0
        \/ ask[r].at = "worker" /\ p = 1
        \/ ask[r].at = "gate" /\ p = 2
    BY <2>1
  <2>2. p = Len(run[r].steps)
    BY <1>0, <2>7, Zenon DEF RecordsInv
  <2>3. /\ run'[r].steps = Append(run[r].steps, [position |-> p, node |-> n])
        /\ \A q \in Runs : q # r => run'[q] = run[q]
    BY <1>0, <2>1, StepRecorded
  <2>4. /\ Len(run'[r].steps) = p + 1
        /\ \A i \in DOMAIN run'[r].steps : run'[r].steps[i].position = i - 1
    BY <1>0, <2>2, <2>3, AppendedInOrder
  <2>5. ask'[r].at = a /\ \A q \in Runs : q # r => ask'[q] = ask[q]
    BY <1>0, <2>1, AskMoved DEF AskPlaces
  <2>6. RecordsInv(r)' /\ EffectRunInv(r)'
    BY <1>0, <2>1, <2>4, <2>5 DEF RecordsInv, EffectRunInv, Uncut, BeingDecided
  <2> QED BY <2>1, <2>3, <2>5, <2>6, AskSideOne
<1>4. CASE GateInterrupts(r)
  <2>1. /\ ask[r].at = "gate" /\ AskAt(r, "pause") /\ thread' = [thread EXCEPT ![r] = "paused"]
        /\ UNCHANGED <<run, approval, transcript, decide, faults>>
    BY <1>4 DEF GateInterrupts
  <2>2. ask'[r].at = "pause" /\ \A q \in Runs : q # r => ask'[q] = ask[q]
    BY <1>0, <2>1, AskMoved DEF AskPlaces
  <2>3. approval[r] = "none" /\ \A q \in Runs : q # r => thread'[q] = thread[q]
    BY <1>0, <2>1 DEF TypeOK, RunInvs, AskInv
  <2>4. RecordsInv(r)' /\ EffectRunInv(r)'
    BY <1>0, <2>1, <2>2, <2>3 DEF RecordsInv, EffectRunInv, Uncut, BeingDecided, Decisions
  <2> QED BY <2>1, <2>2, <2>3, <2>4, AskSideOne
<1>5. CASE AwaitApproval(r) \/ CompleteRun(r) \/ AgentFails(r)
  <2>1. PICK s \in {"awaiting_approval", "completed", "failed"}, a \in {"request", "record", "done"} :
           /\ SetStatus(r, s) /\ AskAt(r, a) /\ ask[r].at # "done" /\ faults \subseteq faults'
           /\ UNCHANGED <<thread, approval, transcript, decide>>
    BY <1>5 DEF AwaitApproval, CompleteRun, AgentFails, Fault
  <2>2. run'[r].steps = run[r].steps /\ \A q \in Runs : q # r => run'[q] = run[q]
    BY <1>0, <2>1, StatusWritten
  <2>3. ask'[r].at = a /\ \A q \in Runs : q # r => ask'[q] = ask[q]
    BY <1>0, <2>1, AskMoved DEF AskPlaces
  <2>4. RecordsInv(r)' /\ EffectRunInv(r)'
    BY <1>0, <2>1, <2>2, <2>3 DEF RecordsInv, EffectRunInv, Uncut, BeingDecided
  <2> QED BY <2>1, <2>2, <2>3, <2>4, AskSideOne
<1>6. CASE RequestApproval(r)
  <2>1. /\ ask[r].at = "request" /\ AskAt(r, "done") /\ approval' = [approval EXCEPT ![r] = "pending"]
        /\ UNCHANGED <<run, thread, transcript, decide, faults>>
    BY <1>6 DEF RequestApproval
  <2>2. ask'[r].at = "done" /\ \A q \in Runs : q # r => ask'[q] = ask[q]
    BY <1>0, <2>1, AskMoved DEF AskPlaces
  <2>3. /\ thread[r] = "paused" /\ transcript[r] = <<>> /\ approval'[r] = "pending"
        /\ \A q \in Runs : q # r => approval'[q] = approval[q]
    BY <1>0, <2>1 DEF TypeOK, RunInvs, AskInv
  <2>4. RecordsInv(r)' /\ EffectRunInv(r)'
    BY <1>0, <2>1, <2>2, <2>3 DEF RecordsInv, EffectRunInv, Uncut, BeingDecided, Decisions
  <2> QED BY <2>1, <2>2, <2>3, <2>4, AskSideOne
<1>7. CASE RecordAnswer(r)
  <2>1. /\ ask[r].at = "record" /\ AskAt(r, "done")
        /\ transcript' = [transcript EXCEPT ![r] = Append(@, [answer |-> "draft", decision |-> "none"])]
        /\ UNCHANGED <<run, thread, approval, decide, faults>>
    BY <1>7 DEF RecordAnswer
  <2>2. ask'[r].at = "done" /\ \A q \in Runs : q # r => ask'[q] = ask[q]
    BY <1>0, <2>1, AskMoved DEF AskPlaces
  <2>3. /\ Len(transcript'[r]) = Len(transcript[r]) + 1
        /\ \A q \in Runs : q # r => transcript'[q] = transcript[q]
    BY <1>0, <2>1, ExchangeRecorded DEF Answers
  <2>4. approval[r] = "none" /\ Len(transcript[r]) = 0
    BY <1>0, <2>1 DEF RunInvs, AskInv
  <2>5. RecordsInv(r)' /\ EffectRunInv(r)'
    BY <1>0, <2>1, <2>2, <2>3, <2>4 DEF RecordsInv, EffectRunInv, Uncut, BeingDecided
  <2> QED BY <2>1, <2>2, <2>3, <2>5, AskSideOne
<1> QED BY <1>1, <1>2, <1>3, <1>4, <1>5, <1>6, <1>7 DEF AskStep

LEMMA StartDecideOne ==
    ASSUME OneDecider, IInvOne, NEW d \in Deciders, NEW r \in Runs, NEW decision \in Decisions,
           StartDecide(d, r, decision)
    PROVE  /\ \A e \in Deciders : DecideAloneInv(e)' /\ EffectDecideInv(e)'
           /\ \A q \in Runs : RecordsInv(q)' /\ EffectRunInv(q)'
<1> DEFINE new == [NoDecide EXCEPT !.at = "locate", !.run = r, !.decision = decision]
<1>1. new.at = "locate" /\ new.run = r
  BY DEF NoDecide
<1>2. /\ decide[d].at = "idle" /\ approval[r] = "pending" /\ decide' = [decide EXCEPT ![d] = new]
      /\ UNCHANGED <<active, run, thread, approval, transcript, ask, faults>>
  BY DEF StartDecide
<1> HIDE DEF new
<1>3. decide'[d] = new
  BY <1>2 DEF IInvOne, IInv, TypeOK, DecideTyped
<1>4. \A q \in Runs : ~BeingDecided(q)
  BY <1>2 DEF OneDecider, BeingDecided
<1>5. DecideAloneInv(d)' /\ EffectDecideInv(d)'
  BY <1>1, <1>2, <1>3, <1>4 DEF IInvOne, RecordsInv, EffectRunInv, DecideAloneInv, EffectDecideInv, Uncut
<1>6. RecordsInv(r)' /\ EffectRunInv(r)'
  BY <1>2, <1>4 DEF IInvOne, RecordsInv, EffectRunInv, Uncut
<1> QED BY <1>2, <1>5, <1>6, DecideSideOne

LEMMA DecideStepOne ==
    ASSUME OneDecider, IInvOne, NEW d \in Deciders, NEW r \in Runs, decide[d].run = r,
           DecideStep(d) \/ ResumeFails(d)
    PROVE  /\ \A e \in Deciders : DecideAloneInv(e)' /\ EffectDecideInv(e)'
           /\ \A q \in Runs : RecordsInv(q)' /\ EffectRunInv(q)'
<1>0. /\ IInv /\ TypeOK /\ RunInvs(r) /\ RecordsInv(r) /\ EffectRunInv(r)
      /\ DecideInv(d) /\ DecideAloneInv(d) /\ EffectDecideInv(d)
      /\ run[r] \in RunRow /\ transcript[r] \in Seq(Exchange)
  BY DEF IInvOne, IInv, TypeOK
<1>d. decide[d].at # "idle" => /\ ask[r].at = "done" /\ decide[d] \in Decide
                               /\ decide[d].position \in Nat /\ decide[d].answer \in Answers
                               /\ decide[d].decision \in Decisions
  BY <1>0, Deciding
<1> USE DEF RecordsInv, EffectRunInv, DecideAloneInv, EffectDecideInv, Uncut
<1>1. CASE LocateRun(d)
  <2> DEFINE y == [decide[d] EXCEPT !.at = "resume"]
             z == [y EXCEPT !.version = run[r].version]
             new == [z EXCEPT !.position = NextPosition(r)]
  <2>1. /\ decide[d].at = "locate" /\ UNCHANGED <<run, thread, approval, transcript, ask, faults>>
        /\ decide' = [decide EXCEPT ![d].at = "resume", ![d].version = run[r].version,
                                    ![d].position = NextPosition(r)]
    BY <1>1 DEF LocateRun
  <2>2. y \in Decide /\ y.at = "resume" /\ y.run = r
    BY <1>d, <2>1, SMT DEF Decide, DecidePlaces
  <2>3. decide' = [decide EXCEPT ![d] = new]
    BY <2>1, Zenon
  <2> HIDE DEF y
  <2>4. DOMAIN z = DOMAIN y /\ DOMAIN y = {"at", "run", "decision", "version", "position", "answer"}
        /\ z.at = "resume" /\ z.run = r
    BY <2>2, SMT DEF Decide
  <2> HIDE DEF z
  <2>5. new.at = "resume" /\ new.run = r /\ new.position = NextPosition(r)
    BY <2>4, SMT
  <2> HIDE DEF new
  <2>6. decide'[d] = new
    BY <1>0, <2>3 DEF TypeOK, DecideTyped
  <2>7. DecideAloneInv(d)' /\ EffectDecideInv(d)'
    BY <1>0, <2>1, <2>5, <2>6 DEF NextPosition
  <2>8. RecordsInv(r)' /\ EffectRunInv(r)'
    BY <1>0, <2>1, <2>5, <2>6 DEF BeingDecided
  <2> QED BY <2>1, <2>7, <2>8, DecideSideOne
<1>2. CASE LoadCheckpoint(d)
  <2> DEFINE a == IF thread[r] = "paused" THEN "gate" ELSE "snapshot"
  <2>1. /\ decide[d].at = "resume" /\ DecideAt(d, a)
        /\ UNCHANGED <<run, thread, approval, transcript, ask, faults>>
    BY <1>2 DEF LoadCheckpoint
  <2>2. a \in {"gate", "snapshot"} /\ (thread[r] = "paused" => a = "gate")
    OBVIOUS
  <2> HIDE DEF a
  <2>3. /\ decide'[d].at = a /\ decide'[d].run = r /\ decide'[d].position = decide[d].position
        /\ decide'[d].decision = decide[d].decision
    BY <1>0, <2>1, <2>2, DecideMoved DEF DecidePlaces
  <2>4. DecideAloneInv(d)' /\ EffectDecideInv(d)'
    BY <1>0, <2>1, <2>2, <2>3
  <2>5. RecordsInv(r)' /\ EffectRunInv(r)'
    BY <1>0, <2>1, <2>2, <2>3 DEF BeingDecided
  <2> QED BY <2>1, <2>4, <2>5, DecideSideOne
<1>3. CASE GateDecides(d)
  <2>1. /\ decide[d].at = "gate" /\ DecideAt(d, "snapshot")
        /\ thread' = [thread EXCEPT ![r] = decide[d].decision]
        /\ RecordStep(r, decide[d].position, "approval_gate")
        /\ UNCHANGED <<approval, transcript, ask, faults>>
    BY <1>3 DEF GateDecides
  <2>2. /\ decide'[d].at = "snapshot" /\ decide'[d].run = r /\ decide'[d].decision = decide[d].decision
    BY <1>0, <2>1, DecideMoved DEF DecidePlaces
  <2>3. thread'[r] = decide[d].decision /\ \A q \in Runs : q # r => thread'[q] = thread[q]
    BY <1>0, <2>1 DEF TypeOK
  <2>4. /\ run'[r].steps = Append(run[r].steps, [position |-> decide[d].position, node |-> "approval_gate"])
        /\ \A q \in Runs : q # r => run'[q] = run[q]
    BY <1>0, <1>d, <2>1, StepRecorded
  <2>5. \A i \in DOMAIN run'[r].steps : run'[r].steps[i].position = i - 1
    <3>1. decide[d].position = Len(run[r].steps)
      BY <1>0, <2>1, Zenon
    <3> QED BY <1>0, <2>4, <3>1, AppendedInOrder
  <2>6. DecideAloneInv(d)' /\ EffectDecideInv(d)'
    BY <1>0, <2>1, <2>2, <2>3
  <2>7. RecordsInv(r)'
    BY <1>0, <1>d, <2>1, <2>5
  <2>8. EffectRunInv(r)'
    BY <1>0, <2>1, <2>2 DEF BeingDecided, Decisions
  <2> QED BY <2>1, <2>3, <2>4, <2>6, <2>7, <2>8, DecideSideOne
<1>4. CASE ReadState(d)
  <2> DEFINE new == [decide[d] EXCEPT !.at = "finish", !.answer = Answer(thread[r])]
  <2>1. /\ decide[d].at = "snapshot" /\ decide' = [decide EXCEPT ![d] = new]
        /\ UNCHANGED <<run, thread, approval, transcript, ask, faults>>
    BY <1>4 DEF ReadState
  <2>2. Answer(thread[r]) \in Answers
    BY DEF Answer, Answers
  <2>3. new.at = "finish" /\ new.run = r /\ new.decision = decide[d].decision
    BY <1>d, <2>1, <2>2, DecideRead
  <2> HIDE DEF new
  <2>4. decide'[d] = new
    BY <1>0, <2>1 DEF TypeOK, DecideTyped
  <2>5. DecideAloneInv(d)' /\ EffectDecideInv(d)'
    BY <1>0, <2>1, <2>3, <2>4
  <2>6. RecordsInv(r)' /\ EffectRunInv(r)'
    BY <1>0, <2>1, <2>3, <2>4 DEF BeingDecided
  <2> QED BY <2>1, <2>5, <2>6, DecideSideOne
<1>5. CASE FinishResumed(d)
  <2>1. /\ decide[d].at = "finish" /\ DecideAt(d, "mark") /\ SetStatus(r, "completed")
        /\ UNCHANGED <<thread, approval, transcript, ask, faults>>
    BY <1>5 DEF FinishResumed
  <2>2. decide'[d].at = "mark" /\ decide'[d].run = r /\ decide'[d].decision = decide[d].decision
    BY <1>0, <2>1, DecideMoved DEF DecidePlaces
  <2>3. run'[r].steps = run[r].steps /\ \A q \in Runs : q # r => run'[q] = run[q]
    BY <1>0, <2>1, StatusWritten
  <2>4. DecideAloneInv(d)' /\ EffectDecideInv(d)'
    BY <1>0, <2>1, <2>2
  <2>5. RecordsInv(r)' /\ EffectRunInv(r)'
    BY <1>0, <2>1, <2>2, <2>3 DEF BeingDecided
  <2> QED BY <2>1, <2>3, <2>4, <2>5, DecideSideOne
<1>6. CASE MarkDecided(d)
  <2>1. /\ decide[d].at = "mark" /\ DecideAt(d, "record")
        /\ approval' = [approval EXCEPT ![r] = decide[d].decision]
        /\ UNCHANGED <<run, thread, transcript, ask, faults>>
    BY <1>6 DEF MarkDecided
  <2>2. decide'[d].at = "record" /\ decide'[d].run = r /\ decide'[d].decision = decide[d].decision
    BY <1>0, <2>1, DecideMoved DEF DecidePlaces
  <2>3. approval'[r] = decide[d].decision /\ \A q \in Runs : q # r => approval'[q] = approval[q]
    BY <1>0, <2>1 DEF TypeOK
  <2>4. DecideAloneInv(d)' /\ EffectDecideInv(d)'
    BY <1>0, <2>1, <2>2
  <2>5. RecordsInv(r)' /\ EffectRunInv(r)'
    BY <1>0, <1>d, <2>1, <2>3 DEF Decisions
  <2> QED BY <2>1, <2>3, <2>4, <2>5, DecideSideOne
<1>7. CASE RecordDecided(d)
  <2>1. /\ decide[d].at = "record" /\ decide' = [decide EXCEPT ![d] = NoDecide]
        /\ transcript' = [transcript EXCEPT ![r] =
              Append(@, [answer |-> decide[d].answer, decision |-> decide[d].decision])]
        /\ UNCHANGED <<run, thread, approval, ask, faults>>
    BY <1>7 DEF RecordDecided
  <2>2. decide'[d].at = "idle"
    BY <1>0, <2>1, DecideEnded
  <2>3. /\ Len(transcript'[r]) = Len(transcript[r]) + 1
        /\ \A q \in Runs : q # r => transcript'[q] = transcript[q]
    BY <1>0, <1>d, <2>1, ExchangeRecorded
  <2>4. approval[r] \in Decisions /\ Len(transcript[r]) = 0
    BY <1>0, <2>1 DEF DecideInv
  <2>5. DecideAloneInv(d)' /\ EffectDecideInv(d)'
    BY <2>2
  <2>6. RecordsInv(r)' /\ EffectRunInv(r)'
    BY <1>0, <2>1, <2>3, <2>4 DEF Decisions
  <2> QED BY <2>1, <2>3, <2>5, <2>6, DecideSideOne
<1>8. CASE ResumeFails(d)
  <2>1. /\ decide[d].at # "idle" /\ decide' = [decide EXCEPT ![d] = NoDecide] /\ SetStatus(r, "failed")
        /\ UNCHANGED thread \/ thread' = [thread EXCEPT ![r] = decide[d].decision]
        /\ faults \subseteq faults' /\ "resume" \in faults'
        /\ UNCHANGED <<approval, transcript, ask>>
    BY <1>8 DEF ResumeFails, Fault
  <2>2. decide'[d].at = "idle"
    BY <1>0, <2>1, DecideEnded
  <2>3. run'[r].steps = run[r].steps /\ \A q \in Runs : q # r => run'[q] = run[q]
    BY <1>0, <2>1, StatusWritten
  <2>4. \A q \in Runs : q # r => thread'[q] = thread[q]
    BY <1>0, <2>1 DEF TypeOK
  <2>5. DecideAloneInv(d)' /\ EffectDecideInv(d)'
    BY <2>2
  <2>6. RecordsInv(r)' /\ EffectRunInv(r)'
    BY <1>0, <2>1, <2>3
  <2> QED BY <2>1, <2>3, <2>4, <2>5, <2>6, DecideSideOne
<1> QED BY <1>1, <1>2, <1>3, <1>4, <1>5, <1>6, <1>7, <1>8 DEF DecideStep

LEMMA CrashOne ==
    ASSUME IInvOne, NEW asks, NEW decisions, Crash(asks, decisions)
    PROVE  /\ \A d \in Deciders : DecideAloneInv(d)' /\ EffectDecideInv(d)'
           /\ \A r \in Runs : RecordsInv(r)' /\ EffectRunInv(r)'
<1>1. /\ ask' = [r \in Runs |-> IF r \in asks /\ ask[r].at # "idle"
                                 THEN [ask[r] EXCEPT !.at = "done"] ELSE ask[r]]
      /\ decide' = [d \in Deciders |-> IF d \in decisions THEN NoDecide ELSE decide[d]]
      /\ "crash" \in faults'
      /\ UNCHANGED <<run, thread, approval, transcript>>
  BY DEF Crash, Fault
<1>2. ASSUME NEW r \in Runs PROVE ask'[r] = ask[r] \/ ask'[r].at = "done"
  <2>1. ask[r] \in Ask
    BY DEF IInvOne, IInv, TypeOK
  <2>2. [ask[r] EXCEPT !.at = "done"].at = "done"
    BY <2>1, SMT DEF Ask
  <2> QED BY <1>1, <2>2
<1>3. \A d \in Deciders : decide'[d] = decide[d] \/ decide'[d].at = "idle"
  BY <1>1, NoDecideIsIdle DEF IInvOne, IInv, TypeOK
<1>4. ASSUME NEW r \in Runs PROVE RecordsInv(r)' /\ EffectRunInv(r)'
  BY <1>1, <1>2 DEF IInvOne, RecordsInv, EffectRunInv, Uncut
<1>5. \A d \in Deciders : DecideAloneInv(d)' /\ EffectDecideInv(d)'
  BY <1>1, <1>3 DEF IInvOne, DecideAloneInv, EffectDecideInv, Uncut
<1> QED BY <1>4, <1>5

LEMMA StepIInvOne ==
    ASSUME OneDecider
    PROVE  IInvOne /\ [Next]_vars => IInvOne'
<1> SUFFICES ASSUME IInvOne, [Next]_vars
             PROVE  /\ \A d \in Deciders : DecideAloneInv(d)' /\ EffectDecideInv(d)'
                    /\ \A r \in Runs : RecordsInv(r)' /\ EffectRunInv(r)'
  BY StepIInv DEF IInvOne
<1> DEFINE Goal == /\ \A d \in Deciders : DecideAloneInv(d)' /\ EffectDecideInv(d)'
                   /\ \A r \in Runs : RecordsInv(r)' /\ EffectRunInv(r)'
<1>1. ASSUME NEW r \in Runs, AskStep(r) \/ AgentFails(r) \/ \E needs \in BOOLEAN : StartAsk(r, needs)
      PROVE  Goal
  BY <1>1, AskStepOne
<1>2. ASSUME NEW d \in Deciders, DecideStep(d) \/ ResumeFails(d) PROVE Goal
  <2>1. decide[d].at # "idle"
    BY <1>2 DEF DecideStep, LocateRun, LoadCheckpoint, GateDecides, ReadState, FinishResumed, MarkDecided,
                RecordDecided, ResumeFails
  <2>2. decide[d].run \in Runs
    BY <2>1, Deciding DEF IInvOne
  <2> QED BY <1>2, <2>2, DecideStepOne
<1>3. ASSUME NEW d \in Deciders, NEW r \in Runs, NEW decision \in Decisions, StartDecide(d, r, decision)
      PROVE  Goal
  BY <1>3, StartDecideOne
<1>4. CASE (\E v \in Versions : Activate(v)) \/ UNCHANGED vars
  <2>1. UNCHANGED <<run, thread, approval, transcript, ask, decide, faults>>
    BY <1>4 DEF Activate, vars
  <2> QED BY <2>1 DEF IInvOne, RecordsInv, EffectRunInv, DecideAloneInv, EffectDecideInv, Uncut, BeingDecided
<1>5. CASE \E asks \in SUBSET Runs, decisions \in SUBSET Deciders : Crash(asks, decisions)
  BY <1>5, CrashOne
<1> QED BY <1>1, <1>2, <1>3, <1>4, <1>5 DEF Next

LEMMA InvariantOne ==
    ASSUME OneDecider
    PROVE  Spec => []IInvOne
<1>1. Init => IInvOne
  <2> SUFFICES ASSUME Init PROVE IInvOne
    OBVIOUS
  <2>1. \A d \in Deciders : decide[d].at = "idle"
    BY NoDecideIsIdle DEF Init
  <2>2. NoRun.steps = <<>>
    BY DEF NoRun
  <2>3. \A r \in Runs : run[r] = NoRun /\ ask[r].at = "idle" /\ approval[r] = "none" /\ transcript[r] = <<>>
    BY DEF Init
  <2>4. ASSUME NEW r \in Runs PROVE RecordsInv(r) /\ EffectRunInv(r)
    BY <2>2, <2>3 DEF RecordsInv, EffectRunInv, Decisions
  <2>5. \A d \in Deciders : DecideAloneInv(d) /\ EffectDecideInv(d)
    BY <2>1 DEF DecideAloneInv, EffectDecideInv
  <2> QED BY <2>4, <2>5, InitIInv DEF IInvOne
<1> QED BY <1>1, StepIInvOne, PTL DEF Spec

(* With one decider an exchange is recorded once, and the steps of a run   *)
(* are numbered in the order they ran (_record_step, _run_progress).       *)
THEOREM OneDeciderRecordsOnce ==
    ASSUME OneDecider
    PROVE  Spec => []RecordedOnceInOrder
<1>1. IInvOne => RecordedOnceInOrder
  BY DEF IInvOne, RecordsInv, RecordedOnceInOrder
<1> QED BY <1>1, InvariantOne, PTL

(* With one decider the decision an approval shows is the one its graph    *)
(* was resumed with, unless it was cut short (decide, resume).             *)
THEOREM OneDeciderTakesEffect ==
    ASSUME OneDecider
    PROVE  Spec => []DecisionTakesEffect
<1>1. IInvOne => DecisionTakesEffect
  BY DEF IInvOne, EffectRunInv, Uncut, DecisionTakesEffect
<1> QED BY <1>1, InvariantOne, PTL
====
