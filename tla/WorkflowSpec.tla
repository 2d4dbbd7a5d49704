---------------------------- MODULE WorkflowSpec ----------------------------
(***************************************************************************)
(* What a run of the pipeline promises, with the agents, the Project Brain *)
(* and the worker left out: stages complete one after the other, at most   *)
(* MaxLoops - 1 times the run goes back to an earlier stage and forgets    *)
(* what came after it, and it succeeds only with every stage complete.     *)
(***************************************************************************)
EXTENDS Naturals

CONSTANTS LastStage,   \* the number of stages; stage 1 is the first
          Decider,     \* the stage after which the run may go back
          Targets,     \* the stages it may go back to
          MaxLoops

VARIABLES done,        \* the stages that are complete
          loop,        \* how often the run went back
          verdict      \* how it ended, or "running"

specVars == <<done, loop, verdict>>

SpecInit == done = {} /\ loop = 0 /\ verdict = "running"

Advance ==
  /\ verdict = "running"
  /\ \E n \in 1..LastStage : done = 1..(n - 1) /\ done' = 1..n
  /\ UNCHANGED <<loop, verdict>>

GoBack ==
  /\ verdict = "running"
  /\ done = 1..Decider
  /\ loop + 1 < MaxLoops
  /\ loop' = loop + 1
  /\ \E n \in Targets : done' = 1..(n - 1)
  /\ UNCHANGED verdict

Succeed ==
  /\ verdict = "running"
  /\ done = 1..LastStage
  /\ verdict' = "success"
  /\ UNCHANGED <<done, loop>>

Stop ==
  /\ verdict = "running"
  /\ verdict' \in {"failed", "crashed", "abandoned"}
  /\ UNCHANGED <<done, loop>>

\* a failed run is made again from the first stage
Restart ==
  /\ verdict = "failed"
  /\ done' = {} /\ loop' = 0 /\ verdict' = "running"

SpecNext == Advance \/ GoBack \/ Succeed \/ Stop \/ Restart

WorkflowPromise == SpecInit /\ [][SpecNext]_specVars
=============================================================================
