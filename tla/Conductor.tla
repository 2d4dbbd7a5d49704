----------------------------- MODULE Conductor -----------------------------
(***************************************************************************)
(* Conductor.run (agents/conductor.py) as the worker process calls it      *)
(* (workers/conductor_worker.py), and the view of it that a client polls   *)
(* (app/services/project_service.py).                                      *)
(*                                                                         *)
(* One action is one step of the run between two points where it can fail  *)
(* or die: an update of the session row, the lifecycle of one agent        *)
(* (module AgentLifecycle), the reading of the repair decision.  A job     *)
(* that failed is attempted again in the same session; the worker of the   *)
(* failed attempt may still owe the session its last update when the next  *)
(* attempt starts (module JobQueue says when a retry is made).             *)
(***************************************************************************)
EXTENDS Naturals

CONSTANTS MaxLoops,     \* conductor.py:247
          MaxAttempts,  \* bound on the attempts of the job
          MaxFaults     \* bound on the storage errors

ASSUME ConductorAssumption ==
  /\ MaxLoops \in Nat \ {0}
  /\ MaxAttempts \in Nat \ {0}
  /\ MaxFaults \in Nat

\* project_service.py:23-33, the stages in order; 0 is "init_node"
Planning == 1
Blueprint == 2
Implementation == 3
Validation == 6
Repair == 8
Learning == 9
Stages == Planning..Learning

Attempts == 1..MaxAttempts

VARIABLES attempt,    \* which attempt of the job this is
          pc,         \* where the run is
          node,       \* the stage it is at
          loop,       \* loop_count
          completed,  \* workflow_completed_nodes
          active,     \* workflow_active_nodes
          shown,      \* session.state: node_<id>_status
          decision,   \* the workspace file docs/06_repair_decision.json
          asked,      \* history: what the last repair node decided
          row,        \* the session row of the Project Brain
          sync,       \* per attempt: the FAILED update its worker still owes
          verdict,    \* what the worker made of the attempt
          faults,     \* storage errors so far
          fresh,      \* history: the stages whose latest run in this attempt
                      \* is later than that of the stage before
          ever        \* history: the stages completed in some attempt

runVars == <<pc, node, loop, completed, active, shown, verdict>>
historyVars == <<fresh, ever>>
fileVars == <<decision, asked>>
vars == <<attempt, runVars, fileVars, row, sync, faults, historyVars>>

\* "none": no file, or no JSON; "clear": retry_required is false; the others
\* ask for a retry, because parts are missing or because checks failed
Decisions == {"clear", "structural", "runtime"}
Files == Decisions \cup {"none"}
Row == [status : {"IN_PROGRESS", "COMPLETED", "FAILED"}, active : 0..Learning]
\* the worker has nothing to do, has to read the row, or has read it
Debt == [step : {"none", "read", "write"}, copy : Row]

TypeOK ==
  /\ attempt \in Attempts
  /\ pc \in {"begin", "enter", "run", "failing", "decide", "finish", "read",
             "raised", "over"}
  /\ node \in Stages
  /\ loop \in 0..(MaxLoops - 1)
  /\ completed \subseteq Stages
  /\ active \subseteq Stages
  /\ shown \in [Stages -> {"Pending", "Completed", "Stopped"}]
  /\ decision \in Files
  /\ asked \in Files
  /\ row \in Row
  /\ sync \in [Attempts -> Debt]
  /\ verdict \in {"running", "success", "failed", "crashed", "abandoned"}
  /\ faults \in 0..MaxFaults
  /\ fresh \subseteq Stages
  /\ ever \subseteq Stages

\* create_session; the workspace may hold the decision of an earlier run
Created == [status |-> "IN_PROGRESS", active |-> 0]

Init ==
  /\ attempt = 1
  /\ pc = "begin"
  /\ node = Planning
  /\ loop = 0
  /\ completed = {}
  /\ active = {Planning}
  /\ shown = [n \in Stages |-> "Pending"]
  /\ decision \in Files
  /\ asked = "none"
  /\ row = Created
  /\ sync = [a \in Attempts |-> [step |-> "none", copy |-> Created]]
  /\ verdict = "running"
  /\ faults = 0
  /\ fresh = {}
  /\ ever = {}

-----------------------------------------------------------------------------
Goto(from, to) == pc = from /\ pc' = to

\* update_session: the row is written, or the call raises before or after it
Update(new, raises) ==
  \/ ~raises /\ row' = new /\ UNCHANGED faults
  \/ /\ raises
     /\ faults < MaxFaults
     /\ faults' = faults + 1
     /\ row' \in {row, new}

\* update_session in a try whose except only warns
Try(new) == \E raises \in BOOLEAN : Update(new, raises)

(* The worker: the session is IN_PROGRESS before the conductor runs.       *)

Begin ==
  /\ Goto("begin", "enter")
  /\ Update([row EXCEPT !.status = "IN_PROGRESS"], FALSE)
  /\ UNCHANGED <<attempt, node, loop, completed, active, shown, verdict, fileVars,
                 sync, historyVars>>

\* the update is outside the try that routes failures
BeginRaises ==
  /\ Goto("begin", "over")
  /\ Update([row EXCEPT !.status = "IN_PROGRESS"], TRUE)
  /\ verdict' = "abandoned"
  /\ UNCHANGED <<attempt, node, loop, completed, active, shown, fileVars, sync,
                 historyVars>>

(* The stages.                                                             *)

\* planning is resolved before its try: the session is not marked FAILED
ResolveFails ==
  /\ Goto("enter", "raised")
  /\ node = Planning
  /\ UNCHANGED <<attempt, node, loop, completed, active, shown, verdict, fileVars,
                 row, sync, faults, historyVars>>

\* the row as the stage sets it before its agent is created
Placed ==
  [row EXCEPT !.active = node,
              !.status = IF node = Planning THEN "IN_PROGRESS" ELSE @]

Enter ==
  /\ Goto("enter", "run")
  /\ active' = {node}
  /\ Try(Placed)
  /\ UNCHANGED <<attempt, node, loop, completed, shown, verdict, fileVars, sync,
                 historyVars>>

\* mutant: a repair with nothing to do leaves the file as it is
DecidedKeepsOld ==
  IF node = Repair
  THEN asked' \in Decisions /\ decision' = (IF asked' = "clear" THEN decision ELSE asked')
       /\ UNCHANGED faults
  ELSE UNCHANGED <<fileVars, faults>>

\* repair.persist_results: a failed write of the decision is only logged
Decided ==
  IF node = Repair
  THEN /\ asked' \in Decisions
       /\ \/ decision' = asked' /\ UNCHANGED faults
          \/ faults < MaxFaults /\ faults' = faults + 1 /\ UNCHANGED decision
  ELSE UNCHANGED <<fileVars, faults>>

\* the active nodes and the next stage, once this one is complete
Following ==
  CASE node = Planning -> {Blueprint}
    [] node \in {Repair, Learning} -> {}
    [] OTHER -> active
AfterNode ==
  CASE node = Repair -> pc' = "decide" /\ node' = node
    [] node = Learning -> pc' = "finish" /\ node' = node
    [] OTHER -> pc' = "enter" /\ node' = node + 1

NodeCompletes ==
  /\ pc = "run"
  /\ AfterNode
  /\ Decided
  /\ completed' = completed \cup {node}
  /\ shown' = [shown EXCEPT ![node] = "Completed"]
  /\ active' = Following
  /\ fresh' = (fresh \ {node + 1}) \cup {node}
  /\ ever' = ever \cup {node}
  /\ UNCHANGED <<attempt, loop, verdict, row, sync>>

\* the agent cannot be created, or its lifecycle raises: before or after it
\* wrote the decision, when it is the repair agent
NodeRaises ==
  /\ Goto("run", "failing")
  /\ \/ Decided
     \/ UNCHANGED <<fileVars, faults>>
  /\ shown' \in {shown, [shown EXCEPT ![node] = "Stopped"]}
  /\ UNCHANGED <<attempt, node, loop, completed, active, verdict, row, sync, historyVars>>

MarkFailed ==
  /\ Goto("failing", "raised")
  /\ Try([row EXCEPT !.status = "FAILED"])
  /\ UNCHANGED <<attempt, node, loop, completed, active, shown, verdict, fileVars,
                 sync, historyVars>>

-----------------------------------------------------------------------------
(* After the repair stage: go back, or go on to learning.                  *)

\* a file that cannot be read or parsed is an empty decision
Seen == {decision, "none"}

\* mutant: the scaffold is not built again
TargetSkipsScaffold(d) == IF d = "structural" THEN Implementation + 1 ELSE Validation

\* where a decision sends the run
Target(d) == IF d = "structural" THEN Implementation ELSE Validation

\* mutant: nothing is reset
ResetNothing(first) == UNCHANGED <<completed, shown>>

\* nodes_to_reset; learning has not run
Reset(first) ==
  /\ completed' = completed \ (first..Repair)
  /\ shown' = [n \in Stages |-> IF n \in first..Repair THEN "Pending" ELSE shown[n]]

\* mutant: one loop too many
RerouteOffByOne ==
  /\ Goto("decide", "enter")
  /\ loop < MaxLoops
  /\ loop' = loop + 1
  /\ \E d \in Seen \cap {"structural", "runtime"} :
       node' = Target(d) /\ Reset(Target(d))
  /\ UNCHANGED <<attempt, active, verdict, fileVars, row, sync, faults, historyVars>>

\* mutant: the loop is not counted
RerouteUncounted ==
  /\ Goto("decide", "enter")
  /\ loop + 1 < MaxLoops
  /\ \E d \in Seen \cap {"structural", "runtime"} :
       node' = Target(d) /\ Reset(Target(d))
  /\ UNCHANGED <<attempt, loop, active, verdict, fileVars, row, sync, faults,
                 historyVars>>

Reroute ==
  /\ Goto("decide", "enter")
  /\ loop + 1 < MaxLoops
  /\ loop' = loop + 1
  /\ \E d \in Seen \cap {"structural", "runtime"} :
       node' = Target(d) /\ Reset(Target(d))
  /\ UNCHANGED <<attempt, active, verdict, fileVars, row, sync, faults, historyVars>>

\* mutant: a run whose loops are used up ends without the learning stage
ProceedWithoutLearning ==
  /\ Goto("decide", IF loop + 1 >= MaxLoops THEN "finish" ELSE "enter")
  /\ Seen \cap {"clear", "none"} # {} \/ loop + 1 >= MaxLoops
  /\ node' = Learning
  /\ UNCHANGED <<attempt, loop, completed, active, shown, verdict, fileVars, row,
                 sync, faults, historyVars>>

Proceed ==
  /\ Goto("decide", "enter")
  /\ Seen \cap {"clear", "none"} # {} \/ loop + 1 >= MaxLoops
  /\ node' = Learning
  /\ UNCHANGED <<attempt, loop, completed, active, shown, verdict, fileVars, row,
                 sync, faults, historyVars>>

(* The end of the run, and what the worker makes of it.                    *)

Finish ==
  /\ Goto("finish", "read")
  /\ Try([row EXCEPT !.status = "COMPLETED"])
  /\ UNCHANGED <<attempt, node, loop, completed, active, shown, verdict, fileVars,
                 sync, historyVars>>

\* listing the artifacts or the decisions, or reading the session, raises
ReadRaises ==
  /\ Goto("read", "raised")
  /\ faults < MaxFaults
  /\ faults' = faults + 1
  /\ UNCHANGED <<attempt, node, loop, completed, active, shown, verdict, fileVars,
                 row, sync, historyVars>>

Succeeds ==
  /\ Goto("read", "over")
  /\ row.status = "COMPLETED"
  /\ verdict' = "success"
  /\ UNCHANGED <<attempt, node, loop, completed, active, shown, fileVars, row, sync,
                 faults, historyVars>>

\* the run returned and the session is not COMPLETED
NotCompleted ==
  /\ Goto("read", "raised")
  /\ row.status # "COMPLETED"
  /\ UNCHANGED <<attempt, node, loop, completed, active, shown, verdict, fileVars,
                 row, sync, faults, historyVars>>

\* mutant: the session is not told
JobFailsUntold ==
  /\ Goto("raised", "over")
  /\ verdict' = "failed"
  /\ UNCHANGED <<attempt, node, loop, completed, active, shown, fileVars, row, sync,
                 faults, historyVars>>

\* handle_job_failure: from here on the job may be attempted again
JobFails ==
  /\ Goto("raised", "over")
  /\ verdict' = "failed"
  /\ sync' = [sync EXCEPT ![attempt].step = "read"]
  /\ UNCHANGED <<attempt, node, loop, completed, active, shown, fileVars, row,
                 faults, historyVars>>

ConductorStep ==
  \/ Begin \/ BeginRaises
  \/ ResolveFails \/ Enter \/ NodeCompletes \/ NodeRaises \/ MarkFailed
  \/ Reroute \/ Proceed
  \/ Finish \/ ReadRaises \/ Succeeds \/ NotCompleted \/ JobFails

(* "Sync failed status back to session registry", by the worker of attempt *)
(* a.  The JSON repository reads the row and writes it back whole.         *)

Idle == [step |-> "none", copy |-> Created]

SyncRead(a) ==
  /\ sync[a].step = "read"
  /\ sync' = [sync EXCEPT ![a] = [step |-> "write", copy |-> row]]
  /\ UNCHANGED <<attempt, runVars, fileVars, row, faults, historyVars>>

SyncWrite(a) ==
  /\ sync[a].step = "write"
  /\ row' = [sync[a].copy EXCEPT !.status = "FAILED"]
  /\ sync' = [sync EXCEPT ![a] = Idle]
  /\ UNCHANGED <<attempt, runVars, fileVars, faults, historyVars>>

\* the update raises, or the process dies before it
SyncFails(a) ==
  /\ sync[a].step # "none"
  /\ faults < MaxFaults
  /\ faults' = faults + 1
  /\ sync' = [sync EXCEPT ![a] = Idle]
  /\ UNCHANGED <<attempt, runVars, fileVars, row, historyVars>>

\* the conductor of the next attempt read the row before the write and
\* writes it back after
SyncOverwritten(a) ==
  /\ sync[a].step = "write"
  /\ pc \in {"begin", "enter", "failing", "finish"}
  /\ sync' = [sync EXCEPT ![a] = Idle]
  /\ UNCHANGED <<attempt, runVars, fileVars, row, faults, historyVars>>

Sync(a) == SyncRead(a) \/ SyncWrite(a)

\* the process that runs the conductor dies; nobody takes its job up again
Crash ==
  /\ pc # "over"
  /\ pc' = "over"
  /\ verdict' = "crashed"
  /\ UNCHANGED <<attempt, node, loop, completed, active, shown, fileVars, row, sync,
                 faults, historyVars>>

\* a worker takes up the job that was put back: a new Conductor, with a new
\* session state
NextAttempt ==
  /\ pc = "over"
  /\ verdict = "failed"
  /\ attempt < MaxAttempts
  /\ attempt' = attempt + 1
  /\ pc' = "begin"
  /\ node' = Planning
  /\ loop' = 0
  /\ completed' = {}
  /\ active' = {Planning}
  /\ shown' = [n \in Stages |-> "Pending"]
  /\ asked' = "none"
  /\ verdict' = "running"
  /\ fresh' = {}
  /\ UNCHANGED <<decision, row, sync, faults, ever>>

Next ==
  \/ ConductorStep
  \/ Crash
  \/ NextAttempt
  \/ \E a \in Attempts : Sync(a) \/ SyncFails(a) \/ SyncOverwritten(a)

Spec == Init /\ [][Next]_vars

\* the run is one thread of the worker process; every agent's lifecycle ends
\* (AgentLifecycle!RunEnds)
FairSpec == Spec /\ WF_vars(ConductorStep)

-----------------------------------------------------------------------------
(* Properties                                                              *)

\* The stages the session state lists as complete are a prefix of the
\* pipeline, each of them is shown "Completed" and no other is; what the run
\* still has to do is "Pending".
SessionStateAgrees ==
  /\ \E k \in 0..Learning : completed = 1..k
  /\ \A n \in Stages : shown[n] = "Completed" <=> n \in completed
  /\ pc \in {"enter", "decide", "finish", "read"} =>
       \A n \in Stages \ completed : shown[n] = "Pending"

\* Whatever way the run went back and forth, the latest run of a complete
\* stage is later than the latest run of the stage before it: no report
\* describes an older version of its input.
ReportsFresh == completed \subseteq fresh

\* ProjectService.get_pipeline_status: what a polling client is told
ActiveIndex == IF row.active = 0 THEN Planning ELSE row.active
View(n) ==
  CASE row.status = "COMPLETED" \/ n < ActiveIndex -> "Completed"
    [] row.status # "COMPLETED" /\ n > ActiveIndex -> "Pending"
    [] OTHER -> IF row.status = "FAILED" THEN "Failed" ELSE "Executing"

\* A stage the client is told is complete has completed in this session,
\* through lost and late updates of the row the view is computed from.
ViewSound == \A n \in Stages : View(n) = "Completed" => n \in ever

\* A failed attempt shows: unless storage failed, the session is FAILED once
\* the worker is done with it, whatever an earlier worker wrote meanwhile.
FailureShows ==
  verdict = "failed" /\ faults = 0 /\ sync[attempt].step = "none" => row.status = "FAILED"

\* The run as its caller sees it, and the promise it keeps: stages in order,
\* a bounded number of ways back, success only with all of them complete.
Workflow == INSTANCE WorkflowSpec WITH
  done <- completed, LastStage <- Learning, Decider <- Repair,
  Targets <- {Implementation, Validation}
KeepsWorkflow == Workflow!WorkflowPromise

\* Every attempt comes to an end.
AttemptEnds == (pc = "begin") ~> (pc = "over")

\* "Read docs/06_repair_decision.json to decide reroute": unless storage
\* failed, the run goes back only where the repair stage that has just
\* completed sends it, never where an older decision would.
RerouteJustified ==
  [][pc = "decide" /\ pc' = "enter" /\ node' # Learning /\ faults = 0 =>
       asked \in {"structural", "runtime"} /\ node' = Target(asked)]_vars
=============================================================================
