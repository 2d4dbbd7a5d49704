--------------------------- MODULE AgentLifecycle ---------------------------
(***************************************************************************)
(* The lifecycle every agent runs (agents/base_agent.py), with its state   *)
(* machine (agents/state_machine.py) and the tool manager it opens and     *)
(* closes (agents/tool_manager.py).                                        *)
(*                                                                         *)
(* One action is one attempt of a phase, or one write to the Project       *)
(* Brain: between two of them the process may die.  A node is run again in *)
(* the same session, by a new agent, when the conductor loops back to it   *)
(* (the session state of the run is kept) or when the job is retried (a    *)
(* new session state is built); what earlier runs wrote to the Brain       *)
(* stays.                                                                  *)
(***************************************************************************)
EXTENDS Naturals

CONSTANTS MaxRetries,     \* manifest.retry_policy.max_retries
          ArtifactCount,  \* artifacts the agent generates
          DecisionCount,  \* decisions recorded in them
          MaxRuns         \* bound on the runs of the node in one session

ASSUME AgentAssumption ==
  /\ MaxRetries \in Nat
  /\ ArtifactCount \in Nat \ {0}
  /\ DecisionCount \in Nat
  /\ MaxRuns \in Nat \ {0}

VARIABLES exhaustion, \* "escalate" or "fail": retry_policy.escalate_on_exhaustion
          run,        \* which run of the node this is
          outcome,    \* how execute_lifecycle ended, or "running"
          pc,         \* where it is
          phase,      \* the retryable phase it is in
          state,      \* the state machine, and the node status in session.state
          tools,      \* "open" or "closed": tools._is_open
          retries,    \* _retries_count
          tries,      \* history: how often each phase was attempted
          shown,      \* session.state: retry count of the node
          posted,     \* session.state: which of these keys it has
          trail       \* the Brain: what each run has stored

vars == <<exhaustion, run, outcome, pc, phase, state, tools, retries, tries,
          shown, posted, trail>>

\* AgentState values; "Retrieving" is RETRIEVING_CONTEXT
Phases == {"Retrieving", "Planning", "Executing"}
States == Phases \cup {"Pending", "Initializing", "Completed", "Review",
                       "Failed", "Cancelled"}
PersistPcs == {"artifacts", "decisions", "audit", "extra"}
Pcs == {"new", "version", "inputs", "ready", "enter", "attempt", "end"} \cup PersistPcs

\* AgentStateMachine._allowed_transitions
Allowed(from) ==
  CASE from = "Pending" -> {"Initializing", "Cancelled"}
    [] from = "Initializing" -> {"Retrieving", "Failed", "Cancelled"}
    [] from = "Retrieving" -> {"Planning", "Executing", "Cancelled"}
    [] from = "Planning" -> {"Executing", "Failed", "Cancelled"}
    [] from = "Executing" -> {"Completed", "Review", "Failed", "Cancelled"}
    [] from = "Review" -> {"Executing", "Failed", "Cancelled"}
    [] OTHER -> {}

\* transition_to does not raise
MayMove(to) == to = state \/ to \in Allowed(state)

Entry == [started : BOOLEAN, artifacts : 0..ArtifactCount,
          decisions : 0..DecisionCount, completed : BOOLEAN]
Nothing == [started |-> FALSE, artifacts |-> 0, decisions |-> 0, completed |-> FALSE]

TypeOK ==
  /\ exhaustion \in {"escalate", "fail"}
  /\ run \in 1..MaxRuns
  /\ outcome \in {"running", "success", "raised", "crashed"}
  /\ pc \in Pcs
  /\ phase \in Phases
  /\ state \in States
  /\ tools \in {"open", "closed"}
  /\ retries \in [Phases -> 0..MaxRetries]
  /\ tries \in [Phases -> Nat]
  /\ shown \in 0..MaxRetries
  /\ posted \subseteq {"pending_approval", "outputs"}
  /\ trail \in [1..MaxRuns -> Entry]

NewAgent ==
  /\ pc' = "new"
  /\ phase' = "Retrieving"
  /\ state' = "Pending"
  /\ tools' = "closed"
  /\ retries' = [p \in Phases |-> 0]
  /\ tries' = [p \in Phases |-> 0]
  /\ outcome' = "running"

Init ==
  /\ exhaustion \in {"escalate", "fail"}
  /\ run = 1
  /\ outcome = "running"
  /\ pc = "new"
  /\ phase = "Retrieving"
  /\ state = "Pending"
  /\ tools = "closed"
  /\ retries = [p \in Phases |-> 0]
  /\ tries = [p \in Phases |-> 0]
  /\ shown = 0
  /\ posted = {}
  /\ trail = [r \in 1..MaxRuns |-> Nothing]

-----------------------------------------------------------------------------
counters == <<retries, tries, shown>>
fixed == <<exhaustion, run>>

\* what the Brain has of this run
Mine == trail[run]
Store(entry) == trail' = [trail EXCEPT ![run] = entry]

At(from, to) == outcome = "running" /\ pc = from /\ pc' = to

Raise == outcome' = "raised" /\ pc' = "end"

\* transition to FAILED, cleanup, log_execution, raise; a transition the
\* table refuses raises in its place, and nothing after it runs
FailLifecycle ==
  /\ Raise
  /\ \/ MayMove("Failed") /\ state' = "Failed" /\ tools' = "closed"
     \/ ~MayMove("Failed") /\ UNCHANGED <<state, tools>>

(* Phase 1: initialize *)

BeginInitialize ==
  /\ At("new", "version")
  /\ state' = "Initializing"
  /\ UNCHANGED <<fixed, outcome, phase, tools, counters, posted, trail>>

OpenTools ==
  /\ At("version", "inputs")
  /\ tools' = "open"
  /\ UNCHANGED <<fixed, outcome, phase, state, counters, posted, trail>>

\* the inputs are present: the audit entry "lifecycle_started"
LogStarted ==
  /\ At("inputs", "ready")
  /\ Store([Mine EXCEPT !.started = TRUE])
  /\ UNCHANGED <<fixed, outcome, phase, state, tools, counters, posted>>

\* the manifest needs a newer framework; an input is missing or the Brain
\* raises; the audit entry of a subclass raises
InitializeFails ==
  /\ outcome = "running"
  /\ pc \in {"version", "inputs", "ready"}
  /\ FailLifecycle
  /\ UNCHANGED <<fixed, phase, counters, posted, trail>>

InitializeDone ==
  /\ At("ready", "enter")
  /\ UNCHANGED <<fixed, outcome, phase, state, tools, counters, posted, trail>>

(* Phases 2 to 6: _run_phase_with_retry *)

EnterPhase ==
  /\ At("enter", "attempt")
  /\ MayMove(phase)
  /\ state' = phase
  /\ UNCHANGED <<fixed, outcome, phase, tools, counters, posted, trail>>

CountTry == tries' = [tries EXCEPT ![phase] = @ + 1]

AfterPhase(p) == IF p = "Retrieving" THEN "Planning" ELSE "Executing"

PhaseDone ==
  /\ At("attempt", IF phase = "Executing" THEN "artifacts" ELSE "enter")
  /\ CountTry
  /\ phase' = AfterPhase(phase)
  /\ UNCHANGED <<fixed, outcome, state, tools, retries, shown, posted, trail>>

\* mutant: the retry is shown, as the first or as none, and not counted
PhaseRetriedUncounted ==
  /\ At("attempt", "attempt")
  /\ retries[phase] < MaxRetries
  /\ tries' = [tries EXCEPT ![phase] = 0]
  /\ shown' = IF shown = 0 THEN 1 ELSE 0
  /\ UNCHANGED <<fixed, outcome, phase, state, tools, retries, posted, trail>>

\* mutant: one retry too many
PhaseRetriedOffByOne ==
  /\ At("attempt", "attempt")
  /\ retries[phase] <= MaxRetries
  /\ CountTry
  /\ retries' = [retries EXCEPT ![phase] = @ + 1]
  /\ shown' = retries[phase] + 1
  /\ UNCHANGED <<fixed, outcome, phase, state, tools, posted, trail>>

\* a recoverable error, with retries left
PhaseRetried ==
  /\ At("attempt", "attempt")
  /\ retries[phase] < MaxRetries
  /\ CountTry
  /\ retries' = [retries EXCEPT ![phase] = @ + 1]
  /\ shown' = retries[phase] + 1
  /\ UNCHANGED <<fixed, outcome, phase, state, tools, posted, trail>>

\* an error that is not recoverable, or the last of the recoverable ones
PhaseFails ==
  /\ At("attempt", "end")
  /\ CountTry
  /\ FailLifecycle
  /\ UNCHANGED <<fixed, phase, retries, shown, posted, trail>>

\* mutant: a human is asked with one retry left
EscalateEarly ==
  /\ At("attempt", "end")
  /\ retries[phase] + 1 >= MaxRetries
  /\ exhaustion = "escalate"
  /\ CountTry
  /\ Raise
  /\ \/ MayMove("Review") /\ state' = "Review" /\ posted' = posted \cup {"pending_approval"}
     \/ ~MayMove("Review") /\ UNCHANGED <<state, posted>>
  /\ UNCHANGED <<fixed, phase, tools, retries, shown, trail>>

\* retries exhausted: request_human_review, then raise.  Only EXECUTING may
\* move to REVIEW; in the other phases the refused transition raises
Escalate ==
  /\ At("attempt", "end")
  /\ retries[phase] = MaxRetries
  /\ exhaustion = "escalate"
  /\ CountTry
  /\ Raise
  /\ \/ MayMove("Review") /\ state' = "Review" /\ posted' = posted \cup {"pending_approval"}
     \/ ~MayMove("Review") /\ UNCHANGED <<state, posted>>
  /\ UNCHANGED <<fixed, phase, tools, retries, shown, trail>>

(* Phase 7: persist_results.  Its transition to EXECUTING changes nothing. *)

\* and what it has once the next write of persist_results is done
OneMore ==
  CASE pc = "artifacts" -> [Mine EXCEPT !.artifacts = @ + 1]
    [] pc = "decisions" /\ Mine.decisions < DecisionCount ->
         [Mine EXCEPT !.decisions = @ + 1]
    [] pc = "audit" -> [Mine EXCEPT !.completed = TRUE]
    [] OTHER -> Mine

\* mutant: decisions are written as soon as one artifact is
StoreArtifactAndMoveOn ==
  /\ At("artifacts", "decisions")
  /\ Store(OneMore)
  /\ UNCHANGED <<fixed, outcome, phase, state, tools, counters, posted>>

StoreArtifact ==
  /\ At("artifacts", IF Mine.artifacts + 1 = ArtifactCount
                     THEN "decisions" ELSE "artifacts")
  /\ Store(OneMore)
  /\ UNCHANGED <<fixed, outcome, phase, state, tools, counters, posted>>

StoreDecision ==
  /\ At("decisions", "decisions")
  /\ Mine.decisions < DecisionCount
  /\ Store(OneMore)
  /\ UNCHANGED <<fixed, outcome, phase, state, tools, counters, posted>>

DecisionsDone ==
  /\ At("decisions", "audit")
  /\ Mine.decisions = DecisionCount
  /\ UNCHANGED <<fixed, outcome, phase, state, tools, counters, posted, trail>>

\* the audit entry "lifecycle_completed", then the outputs in session.state
LogCompleted ==
  /\ At("audit", "extra")
  /\ Store(OneMore)
  /\ posted' = posted \cup {"outputs"}
  /\ UNCHANGED <<fixed, outcome, phase, state, tools, counters>>

\* mutant: an error while persisting is swallowed
FinishAnyway ==
  /\ outcome = "running"
  /\ pc \in PersistPcs
  /\ pc' = "end"
  /\ state' = "Completed"
  /\ tools' = "closed"
  /\ outcome' = "success"
  /\ UNCHANGED <<fixed, phase, counters, posted, trail>>

\* a write raises, after its row is stored (the STORE_... audit entry of the
\* Brain fails) or before; a decision has no rationale; or the audit entry
\* of a subclass raises when all the rest is stored
PersistFails ==
  /\ outcome = "running"
  /\ pc \in PersistPcs
  /\ FailLifecycle
  /\ UNCHANGED trail \/ Store(OneMore)
  /\ UNCHANGED <<fixed, phase, counters, posted>>

Finish ==
  /\ At("extra", "end")
  /\ MayMove("Completed")
  /\ state' = "Completed"
  /\ tools' = "closed"
  /\ outcome' = "success"
  /\ UNCHANGED <<fixed, phase, counters, posted, trail>>

(* The node is run again. *)

Crash ==
  /\ outcome = "running"
  /\ outcome' = "crashed"
  /\ pc' = "end"
  /\ tools' = "closed"
  /\ UNCHANGED trail \/ Store(OneMore)
  /\ UNCHANGED <<fixed, phase, state, counters, posted>>

\* the conductor loops back: the same session state, a new agent
LoopBack ==
  /\ outcome = "success"
  /\ run < MaxRuns
  /\ run' = run + 1
  /\ NewAgent
  /\ UNCHANGED <<exhaustion, shown, posted, trail>>

\* the job is retried: a new session state, a new agent
JobRetried ==
  /\ outcome \in {"raised", "crashed"}
  /\ run < MaxRuns
  /\ run' = run + 1
  /\ NewAgent
  /\ shown' = 0
  /\ posted' = {}
  /\ UNCHANGED <<exhaustion, trail>>

-----------------------------------------------------------------------------
Step ==
  \/ BeginInitialize \/ OpenTools \/ LogStarted \/ InitializeFails \/ InitializeDone
  \/ EnterPhase \/ PhaseDone \/ PhaseRetried \/ PhaseFails \/ Escalate
  \/ StoreArtifact \/ StoreDecision \/ DecisionsDone \/ LogCompleted
  \/ PersistFails \/ Finish

Next == Step \/ Crash \/ LoopBack \/ JobRetried

Spec == Init /\ [][Next]_vars

\* the thread that runs the lifecycle is scheduled, and each call it makes
\* returns or raises
FairSpec == Spec /\ WF_vars(Step)

-----------------------------------------------------------------------------
(* Properties                                                              *)

\* While the agent works its tools are open: a tool call would raise
\* ConfigurationError otherwise (tool_manager.py:59-60), an error that is
\* not recoverable.
ToolsOpenDuringWork ==
  outcome = "running" /\ pc \notin {"new", "version"} => tools = "open"

\* What the Brain says of a run is true, whatever crashed or failed: work is
\* stored only for a run that is recorded as started, decisions only once
\* all artifacts of the run are stored, and "lifecycle_completed" only once
\* all of both are (base_agent.py:270-321, three loops with no transaction).
TrailTruthful ==
  \A r \in 1..MaxRuns :
    /\ trail[r].artifacts > 0 => trail[r].started
    /\ trail[r].decisions > 0 => trail[r].artifacts = ArtifactCount
    /\ trail[r].completed =>
         /\ trail[r].artifacts = ArtifactCount
         /\ trail[r].decisions = DecisionCount

\* execute_lifecycle returns success only when everything is stored, and the
\* outputs in session.state always stand for a run that is stored.
SuccessMeansPersisted ==
  /\ outcome = "success" => state = "Completed" /\ Mine.completed
  /\ "outputs" \in posted => \E r \in 1..run : trail[r].completed

\* A phase is attempted once more than it is retried, at most MaxRetries + 1
\* times, and a human is asked exactly when the node is in review, which
\* needs the retries of the phase to be used up.
RetriesExact ==
  /\ \A p \in Phases : tries[p] <= retries[p] + 1
  /\ "pending_approval" \in posted <=> state = "Review"
  /\ "pending_approval" \in posted => tries["Executing"] = MaxRetries + 1

\* Every run ends: it returns, raises or dies.
RunEnds == outcome = "running" ~> outcome # "running"

\* "Unconditional resources release": the lifecycle never ends with the
\* tools open.  The code breaks it.
CleanupUnconditional == outcome \in {"success", "raised"} => tools = "closed"
=============================================================================
