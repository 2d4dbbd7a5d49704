------------------------ MODULE AgentLifecycleProofs ------------------------
(***************************************************************************)
(* Proofs about the agent lifecycle, for every retry limit, every number   *)
(* of artifacts and decisions and every number of runs.                    *)
(*                                                                         *)
(* Bookkeeping ties the position in execute_lifecycle to what the Brain    *)
(* has of the run; Attempts ties it to the attempts made so far; Reviewed  *)
(* to the node's state.  None of them mentions another run except to say   *)
(* that runs to come have stored nothing.                                  *)
(***************************************************************************)
EXTENDS AgentLifecycle, TLAPS

Early == {"new", "version", "inputs"}
Working == {"ready", "enter", "attempt"}

\* the parts of TypeOK
ControlType ==
  /\ exhaustion \in {"escalate", "fail"}
  /\ run \in 1..MaxRuns
  /\ outcome \in {"running", "success", "raised", "crashed"}
  /\ pc \in Pcs
  /\ phase \in Phases
  /\ state \in States
  /\ tools \in {"open", "closed"}
  /\ posted \subseteq {"pending_approval", "outputs"}
CountType ==
  /\ retries \in [Phases -> 0..MaxRetries]
  /\ tries \in [Phases -> Nat]
  /\ shown \in 0..MaxRetries
TrailType == trail \in [1..MaxRuns -> Entry]

\* what the Brain may have of the current run at each position
Fits(e) ==
  /\ pc \in Early => e = Nothing
  /\ pc \in Working => e = [Nothing EXCEPT !.started = TRUE]
  /\ pc = "artifacts" =>
       e.started /\ e.artifacts < ArtifactCount /\ e.decisions = 0 /\ ~e.completed
  /\ pc \in {"decisions", "audit", "extra"} => e.started /\ e.artifacts = ArtifactCount
  /\ pc = "decisions" => ~e.completed
  /\ pc \in {"audit", "extra"} => e.decisions = DecisionCount
  /\ pc = "extra" => e.completed
Progress == Fits(Mine)

\* what is true of every run, finished or not
Truthful(e) ==
  /\ e.artifacts > 0 => e.started
  /\ e.decisions > 0 => e.artifacts = ArtifactCount
  /\ e.completed => e.artifacts = ArtifactCount /\ e.decisions = DecisionCount

\* runs to come have stored nothing
Future == \A r \in 1..MaxRuns : r > run => trail[r] = Nothing

\* phases the run has not finished have no attempt beyond the retries
Attempts ==
  /\ \A p \in Phases : tries[p] <= retries[p] + 1
  /\ pc \in Early \cup {"ready"} => phase = "Retrieving"
  /\ pc \in Early \cup Working =>
       /\ tries[phase] = retries[phase]
       /\ tries["Executing"] = retries["Executing"]
       /\ phase = "Retrieving" => tries["Planning"] = retries["Planning"]

\* where the node's state stands
Standing ==
  /\ pc # "end" <=> outcome = "running"
  /\ pc = "attempt" => state = phase
  /\ pc # "end" => state # "Review"

\* the approval with it
Reviewed ==
  /\ "pending_approval" \in posted <=> state = "Review"
  /\ "pending_approval" \in posted => outcome = "raised" /\ tries["Executing"] = MaxRetries + 1

IInv ==
  /\ ControlType /\ CountType /\ TrailType /\ Standing /\ Progress /\ Future
  /\ Attempts /\ Reviewed /\ ToolsOpenDuringWork /\ TrailTruthful
  /\ SuccessMeansPersisted

-----------------------------------------------------------------------------
LEMMA TypeParts == TypeOK <=> ControlType /\ CountType /\ TrailType
  BY DEF TypeOK, ControlType, CountType, TrailType

LEMMA InitIInv == Init => IInv
<1> SUFFICES ASSUME Init PROVE IInv
  OBVIOUS
<1> USE AgentAssumption DEF Init
<1>1. ControlType /\ Standing
  BY DEF ControlType, Standing, Pcs, PersistPcs, Phases, States
<1>2. CountType /\ Attempts
  BY DEF CountType, Attempts, Phases, Early, Working
<1>3. Nothing \in Entry /\ Truthful(Nothing)
  BY DEF Nothing, Entry, Truthful
<1>4. TrailType /\ Mine = Nothing /\ Future
  BY <1>3 DEF TrailType, Mine, Future
<1>5. Progress
  BY <1>4 DEF Progress, Fits, Early, Working
<1>6. TrailTruthful
  BY <1>3 DEF TrailTruthful, Truthful
<1>7. Reviewed /\ ToolsOpenDuringWork /\ SuccessMeansPersisted
  BY DEF Reviewed, ToolsOpenDuringWork, SuccessMeansPersisted
<1> QED
  BY <1>1, <1>2, <1>4, <1>5, <1>6, <1>7 DEF IInv

-----------------------------------------------------------------------------
(* The control variables.                                                  *)

LEMMA ControlStep ==
  ControlType /\ [Next]_vars => ControlType'
<1>1. SUFFICES ASSUME ControlType, [Next]_vars PROVE ControlType'
  OBVIOUS
<1> USE AgentAssumption DEF ControlType, Pcs, PersistPcs, Phases, States, fixed, At, Raise
<1>2. CASE BeginInitialize BY <1>1, <1>2 DEF BeginInitialize
<1>3. CASE OpenTools BY <1>1, <1>3 DEF OpenTools
<1>4. CASE LogStarted BY <1>1, <1>4 DEF LogStarted
<1>5. CASE InitializeFails BY <1>1, <1>5 DEF InitializeFails, FailLifecycle
<1>6. CASE InitializeDone BY <1>1, <1>6 DEF InitializeDone
<1>7. CASE EnterPhase BY <1>1, <1>7 DEF EnterPhase
<1>8. CASE PhaseDone BY <1>1, <1>8 DEF PhaseDone, AfterPhase
<1>9. CASE PhaseRetried BY <1>1, <1>9 DEF PhaseRetried
<1>10. CASE PhaseFails BY <1>1, <1>10 DEF PhaseFails, FailLifecycle
<1>11. CASE Escalate BY <1>1, <1>11 DEF Escalate
<1>12. CASE StoreArtifact BY <1>1, <1>12 DEF StoreArtifact
<1>13. CASE StoreDecision BY <1>1, <1>13 DEF StoreDecision
<1>14. CASE DecisionsDone BY <1>1, <1>14 DEF DecisionsDone
<1>15. CASE LogCompleted BY <1>1, <1>15 DEF LogCompleted
<1>16. CASE PersistFails BY <1>1, <1>16 DEF PersistFails, FailLifecycle
<1>17. CASE Finish BY <1>1, <1>17 DEF Finish
<1>18. CASE Crash BY <1>1, <1>18 DEF Crash
<1>19. CASE LoopBack BY <1>1, <1>19 DEF LoopBack, NewAgent
<1>20. CASE JobRetried BY <1>1, <1>20 DEF JobRetried, NewAgent
<1>21. CASE UNCHANGED vars BY <1>1, <1>21 DEF vars
<1> QED
  BY <1>1, <1>2, <1>3, <1>4, <1>5, <1>6, <1>7, <1>8, <1>9, <1>10, <1>11,
     <1>12, <1>13, <1>14, <1>15, <1>16, <1>17, <1>18, <1>19, <1>20, <1>21
  DEF Next, Step

LEMMA StandingStep ==
  ControlType /\ Standing /\ [Next]_vars => Standing'
<1>1. SUFFICES ASSUME ControlType, Standing, [Next]_vars PROVE Standing'
  OBVIOUS
<1> USE DEF Standing, fixed, At, Raise
<1>2. CASE BeginInitialize BY <1>1, <1>2 DEF BeginInitialize
<1>3. CASE OpenTools BY <1>1, <1>3 DEF OpenTools
<1>4. CASE LogStarted BY <1>1, <1>4 DEF LogStarted
<1>5. CASE InitializeFails BY <1>1, <1>5 DEF InitializeFails, FailLifecycle
<1>6. CASE InitializeDone BY <1>1, <1>6 DEF InitializeDone
<1>7. CASE EnterPhase BY <1>1, <1>7 DEF EnterPhase, ControlType, Phases
<1>8. CASE PhaseDone BY <1>1, <1>8 DEF PhaseDone
<1>9. CASE PhaseRetried BY <1>1, <1>9 DEF PhaseRetried
<1>10. CASE PhaseFails BY <1>1, <1>10 DEF PhaseFails, FailLifecycle
<1>11. CASE Escalate BY <1>1, <1>11 DEF Escalate
<1>12. CASE StoreArtifact BY <1>1, <1>12 DEF StoreArtifact
<1>13. CASE StoreDecision BY <1>1, <1>13 DEF StoreDecision
<1>14. CASE DecisionsDone BY <1>1, <1>14 DEF DecisionsDone
<1>15. CASE LogCompleted BY <1>1, <1>15 DEF LogCompleted
<1>16. CASE PersistFails BY <1>1, <1>16 DEF PersistFails, FailLifecycle, PersistPcs
<1>17. CASE Finish BY <1>1, <1>17 DEF Finish
<1>18. CASE Crash BY <1>1, <1>18 DEF Crash
<1>19. CASE LoopBack BY <1>1, <1>19 DEF LoopBack, NewAgent
<1>20. CASE JobRetried BY <1>1, <1>20 DEF JobRetried, NewAgent
<1>21. CASE UNCHANGED vars BY <1>1, <1>21 DEF vars
<1> QED
  BY <1>1, <1>2, <1>3, <1>4, <1>5, <1>6, <1>7, <1>8, <1>9, <1>10, <1>11,
     <1>12, <1>13, <1>14, <1>15, <1>16, <1>17, <1>18, <1>19, <1>20, <1>21
  DEF Next, Step

LEMMA ToolsStep ==
  Standing /\ ToolsOpenDuringWork /\ [Next]_vars => ToolsOpenDuringWork'
<1>1. SUFFICES ASSUME Standing, ToolsOpenDuringWork, [Next]_vars PROVE ToolsOpenDuringWork'
  OBVIOUS
<1> USE DEF Standing, ToolsOpenDuringWork, fixed, At, Raise
<1>2. CASE BeginInitialize BY <1>1, <1>2 DEF BeginInitialize
<1>3. CASE OpenTools BY <1>1, <1>3 DEF OpenTools
<1>4. CASE LogStarted BY <1>1, <1>4 DEF LogStarted
<1>5. CASE InitializeFails BY <1>1, <1>5 DEF InitializeFails, FailLifecycle
<1>6. CASE InitializeDone BY <1>1, <1>6 DEF InitializeDone
<1>7. CASE EnterPhase BY <1>1, <1>7 DEF EnterPhase
<1>8. CASE PhaseDone BY <1>1, <1>8 DEF PhaseDone
<1>9. CASE PhaseRetried BY <1>1, <1>9 DEF PhaseRetried
<1>10. CASE PhaseFails BY <1>1, <1>10 DEF PhaseFails, FailLifecycle
<1>11. CASE Escalate BY <1>1, <1>11 DEF Escalate
<1>12. CASE StoreArtifact BY <1>1, <1>12 DEF StoreArtifact
<1>13. CASE StoreDecision BY <1>1, <1>13 DEF StoreDecision
<1>14. CASE DecisionsDone BY <1>1, <1>14 DEF DecisionsDone
<1>15. CASE LogCompleted BY <1>1, <1>15 DEF LogCompleted
<1>16. CASE PersistFails BY <1>1, <1>16 DEF PersistFails, FailLifecycle
<1>17. CASE Finish BY <1>1, <1>17 DEF Finish
<1>18. CASE Crash BY <1>1, <1>18 DEF Crash
<1>19. CASE LoopBack BY <1>1, <1>19 DEF LoopBack, NewAgent
<1>20. CASE JobRetried BY <1>1, <1>20 DEF JobRetried, NewAgent
<1>21. CASE UNCHANGED vars BY <1>1, <1>21 DEF vars
<1> QED
  BY <1>1, <1>2, <1>3, <1>4, <1>5, <1>6, <1>7, <1>8, <1>9, <1>10, <1>11,
     <1>12, <1>13, <1>14, <1>15, <1>16, <1>17, <1>18, <1>19, <1>20, <1>21
  DEF Next, Step

-----------------------------------------------------------------------------
(* The counters of attempts and retries.                                   *)

LEMMA CountTypeStep ==
  ControlType /\ CountType /\ [Next]_vars => CountType'
<1>1. SUFFICES ASSUME ControlType, CountType, [Next]_vars PROVE CountType'
  OBVIOUS
<1> USE AgentAssumption DEF CountType, Phases, counters, fixed
<1>2. CASE BeginInitialize BY <1>1, <1>2 DEF BeginInitialize
<1>3. CASE OpenTools BY <1>1, <1>3 DEF OpenTools
<1>4. CASE LogStarted BY <1>1, <1>4 DEF LogStarted
<1>5. CASE InitializeFails BY <1>1, <1>5 DEF InitializeFails, FailLifecycle
<1>6. CASE InitializeDone BY <1>1, <1>6 DEF InitializeDone
<1>7. CASE EnterPhase BY <1>1, <1>7 DEF EnterPhase
<1>8. CASE PhaseDone BY <1>1, <1>8 DEF PhaseDone, CountTry, ControlType
<1>9. CASE PhaseRetried BY <1>1, <1>9 DEF PhaseRetried, CountTry, ControlType
<1>10. CASE PhaseFails BY <1>1, <1>10 DEF PhaseFails, CountTry, FailLifecycle, ControlType
<1>11. CASE Escalate BY <1>1, <1>11 DEF Escalate, CountTry, ControlType
<1>12. CASE StoreArtifact BY <1>1, <1>12 DEF StoreArtifact
<1>13. CASE StoreDecision BY <1>1, <1>13 DEF StoreDecision
<1>14. CASE DecisionsDone BY <1>1, <1>14 DEF DecisionsDone
<1>15. CASE LogCompleted BY <1>1, <1>15 DEF LogCompleted
<1>16. CASE PersistFails BY <1>1, <1>16 DEF PersistFails, FailLifecycle
<1>17. CASE Finish BY <1>1, <1>17 DEF Finish
<1>18. CASE Crash BY <1>1, <1>18 DEF Crash
<1>19. CASE LoopBack BY <1>1, <1>19 DEF LoopBack, NewAgent
<1>20. CASE JobRetried BY <1>1, <1>20 DEF JobRetried, NewAgent
<1>21. CASE UNCHANGED vars BY <1>1, <1>21 DEF vars
<1> QED
  BY <1>1, <1>2, <1>3, <1>4, <1>5, <1>6, <1>7, <1>8, <1>9, <1>10, <1>11,
     <1>12, <1>13, <1>14, <1>15, <1>16, <1>17, <1>18, <1>19, <1>20, <1>21
  DEF Next, Step

LEMMA AttemptsStep ==
  ControlType /\ CountType /\ Attempts /\ [Next]_vars => Attempts'
<1>1. SUFFICES ASSUME ControlType, CountType, Attempts, [Next]_vars PROVE Attempts'
  OBVIOUS
<1> USE DEF CountType, Phases, Attempts, Early, Working, counters, fixed, At, Raise
<1>2. CASE BeginInitialize BY <1>1, <1>2 DEF BeginInitialize
<1>3. CASE OpenTools BY <1>1, <1>3 DEF OpenTools
<1>4. CASE LogStarted BY <1>1, <1>4 DEF LogStarted
<1>5. CASE InitializeFails BY <1>1, <1>5 DEF InitializeFails, FailLifecycle
<1>6. CASE InitializeDone BY <1>1, <1>6 DEF InitializeDone
<1>7. CASE EnterPhase BY <1>1, <1>7 DEF EnterPhase
<1>8. CASE PhaseDone BY <1>1, <1>8 DEF PhaseDone, CountTry, ControlType, AfterPhase
<1>9. CASE PhaseRetried BY <1>1, <1>9 DEF PhaseRetried, CountTry, ControlType
<1>10. CASE PhaseFails BY <1>1, <1>10 DEF PhaseFails, CountTry, FailLifecycle, ControlType
<1>11. CASE Escalate BY <1>1, <1>11 DEF Escalate, CountTry, ControlType
<1>12. CASE StoreArtifact BY <1>1, <1>12 DEF StoreArtifact
<1>13. CASE StoreDecision BY <1>1, <1>13 DEF StoreDecision
<1>14. CASE DecisionsDone BY <1>1, <1>14 DEF DecisionsDone
<1>15. CASE LogCompleted BY <1>1, <1>15 DEF LogCompleted
<1>16. CASE PersistFails BY <1>1, <1>16 DEF PersistFails, FailLifecycle, PersistPcs
<1>17. CASE Finish BY <1>1, <1>17 DEF Finish
<1>18. CASE Crash BY <1>1, <1>18 DEF Crash
<1>19. CASE LoopBack BY <1>1, <1>19 DEF LoopBack, NewAgent
<1>20. CASE JobRetried BY <1>1, <1>20 DEF JobRetried, NewAgent
<1>21. CASE UNCHANGED vars BY <1>1, <1>21 DEF vars
<1> QED
  BY <1>1, <1>2, <1>3, <1>4, <1>5, <1>6, <1>7, <1>8, <1>9, <1>10, <1>11,
     <1>12, <1>13, <1>14, <1>15, <1>16, <1>17, <1>18, <1>19, <1>20, <1>21
  DEF Next, Step

LEMMA ReviewedStep ==
  ControlType /\ CountType /\ Standing /\ Attempts /\ Reviewed /\ [Next]_vars => Reviewed'
<1>1. SUFFICES ASSUME ControlType, CountType, Standing, Attempts, Reviewed, [Next]_vars PROVE Reviewed'
  OBVIOUS
<1> USE DEF Standing, Reviewed, counters, fixed, At, Raise
<1>2. CASE BeginInitialize BY <1>1, <1>2 DEF BeginInitialize
<1>3. CASE OpenTools BY <1>1, <1>3 DEF OpenTools
<1>4. CASE LogStarted BY <1>1, <1>4 DEF LogStarted
<1>5. CASE InitializeFails BY <1>1, <1>5 DEF InitializeFails, FailLifecycle
<1>6. CASE InitializeDone BY <1>1, <1>6 DEF InitializeDone
<1>7. CASE EnterPhase BY <1>1, <1>7 DEF EnterPhase, ControlType, Phases
<1>8. CASE PhaseDone BY <1>1, <1>8 DEF PhaseDone, CountTry
<1>9. CASE PhaseRetried BY <1>1, <1>9 DEF PhaseRetried, CountTry
<1>10. CASE PhaseFails BY <1>1, <1>10 DEF PhaseFails, CountTry, FailLifecycle
<1>11. CASE Escalate BY <1>1, <1>11 DEF Escalate, CountTry, ControlType, CountType, Phases, Attempts, Early, Working, MayMove, Allowed
<1>12. CASE StoreArtifact BY <1>1, <1>12 DEF StoreArtifact
<1>13. CASE StoreDecision BY <1>1, <1>13 DEF StoreDecision
<1>14. CASE DecisionsDone BY <1>1, <1>14 DEF DecisionsDone
<1>15. CASE LogCompleted BY <1>1, <1>15 DEF LogCompleted
<1>16. CASE PersistFails BY <1>1, <1>16 DEF PersistFails, FailLifecycle
<1>17. CASE Finish BY <1>1, <1>17 DEF Finish
<1>18. CASE Crash BY <1>1, <1>18 DEF Crash
<1>19. CASE LoopBack BY <1>1, <1>19 DEF LoopBack, NewAgent
<1>20. CASE JobRetried BY <1>1, <1>20 DEF JobRetried, NewAgent
<1>21. CASE UNCHANGED vars BY <1>1, <1>21 DEF vars
<1> QED
  BY <1>1, <1>2, <1>3, <1>4, <1>5, <1>6, <1>7, <1>8, <1>9, <1>10, <1>11,
     <1>12, <1>13, <1>14, <1>15, <1>16, <1>17, <1>18, <1>19, <1>20, <1>21
  DEF Next, Step

-----------------------------------------------------------------------------
(* The Brain.                                                              *)

\* Storing one entry of the trail changes the current run and no other.
LEMMA StoreFacts ==
  ASSUME ControlType, TrailType, NEW e \in Entry, Store(e)
  PROVE  /\ TrailType'
         /\ trail'[run] = e
         /\ \A r \in 1..MaxRuns : r # run => trail'[r] = trail[r]
  BY DEF ControlType, TrailType, Store

\* The next write of persist_results fits the position, keeps what the Brain
\* says true, and does not take back that the run completed.
LEMMA OneMoreFacts ==
  ASSUME ControlType, TrailType, Progress, Truthful(Mine)
  PROVE  /\ OneMore \in Entry
         /\ Truthful(OneMore)
         /\ Mine.completed => OneMore.completed
<1>1. Mine \in Entry
  BY DEF ControlType, TrailType, Mine
<1> USE AgentAssumption, <1>1 DEF Entry, Progress, Fits, Truthful
<1>2. CASE pc = "artifacts" BY <1>2 DEF OneMore
<1>3. CASE pc = "decisions" /\ Mine.decisions < DecisionCount BY <1>3 DEF OneMore
<1>4. CASE pc = "audit" BY <1>4 DEF OneMore
<1>5. CASE /\ pc # "artifacts" /\ pc # "audit"
           /\ ~(pc = "decisions" /\ Mine.decisions < DecisionCount)
  <2>1. OneMore = Mine BY <1>5 DEF OneMore
  <2> QED BY <2>1
<1> QED BY <1>2, <1>3, <1>4, <1>5

\* a step that writes writes one entry, which is true of the run
Write(e) ==
  /\ run' = run
  /\ e \in Entry
  /\ Truthful(e)
  /\ Mine.completed => e.completed
  /\ Store(e)

LEMMA WriteStep ==
  ASSUME ControlType, TrailType, Progress, TrailTruthful, [Next]_vars
  PROVE  \/ UNCHANGED trail /\ run' \in {run, run + 1}
         \/ \E e \in Entry : Write(e)
<1>1. Mine \in Entry /\ Truthful(Mine)
  BY DEF ControlType, TrailType, Mine, TrailTruthful, Truthful
<1>2. OneMore \in Entry /\ Truthful(OneMore) /\ (Mine.completed => OneMore.completed)
  BY <1>1, OneMoreFacts
<1>3. CASE LogStarted
  <2> DEFINE e == [Mine EXCEPT !.started = TRUE]
  <2>1. e \in Entry /\ Truthful(e) /\ (Mine.completed => e.completed)
    BY <1>1 DEF Entry, Truthful
  <2>2. Store(e) /\ run' = run BY <1>3 DEF LogStarted, fixed
  <2> QED BY <2>1, <2>2 DEF Write
<1>4. CASE StoreArtifact \/ StoreDecision \/ LogCompleted
  BY <1>2, <1>4 DEF StoreArtifact, StoreDecision, LogCompleted, fixed, Write
<1>5. CASE PersistFails \/ Crash
  BY <1>2, <1>5 DEF PersistFails, Crash, fixed, Write
<1>6. CASE BeginInitialize \/ OpenTools \/ InitializeFails \/ InitializeDone \/ EnterPhase
  BY <1>6 DEF BeginInitialize, OpenTools, InitializeFails, InitializeDone, EnterPhase, fixed
<1>7. CASE PhaseDone \/ PhaseRetried \/ PhaseFails \/ Escalate \/ DecisionsDone \/ Finish
  BY <1>7 DEF PhaseDone, PhaseRetried, PhaseFails, Escalate, DecisionsDone, Finish, fixed
<1>8. CASE LoopBack \/ JobRetried
  BY <1>8 DEF LoopBack, JobRetried
<1>9. CASE UNCHANGED vars
  BY <1>9 DEF vars
<1> QED
  BY <1>3, <1>4, <1>5, <1>6, <1>7, <1>8, <1>9 DEF Next, Step

LEMMA TrailStep ==
  ASSUME ControlType, TrailType, Progress, Future, TrailTruthful, [Next]_vars
  PROVE  (TrailType /\ Future /\ TrailTruthful)'
<1>1. CASE UNCHANGED trail /\ run' \in {run, run + 1}
  BY <1>1 DEF TrailType, Future, TrailTruthful, ControlType
<1>2. CASE \E e \in Entry : Write(e)
  <2>1. PICK e \in Entry : Write(e) BY <1>2
  <2>2. /\ TrailType'
        /\ trail'[run] = e
        /\ \A r \in 1..MaxRuns : r # run => trail'[r] = trail[r]
    BY <2>1, StoreFacts DEF Write
  <2>3. Future' BY <2>1, <2>2 DEF Future, Write, ControlType
  <2>4. TrailTruthful' BY <2>1, <2>2 DEF TrailTruthful, Truthful, Write
  <2> QED BY <2>2, <2>3, <2>4
<1> QED
  BY <1>1, <1>2, WriteStep

\* A run that keeps its position and its entry keeps Progress.
LEMMA ProgressStep ==
  ASSUME ControlType, TrailType, Standing, Progress, Future, TrailTruthful, [Next]_vars,
         ControlType'
  PROVE  Progress'
<1>1. Mine \in Entry /\ run \in 1..MaxRuns
  BY DEF ControlType, TrailType, Mine
<1>2. ASSUME NEW e \in Entry, Store(e), run' = run PROVE Mine' = e
  BY <1>2, StoreFacts DEF Mine
<1>3. ASSUME UNCHANGED <<trail, run>> PROVE Mine' = Mine
  BY <1>3 DEF Mine
<1>4. ASSUME pc' = "end" PROVE Progress'
  BY <1>4 DEF Progress, Fits, Early, Working
<1>5. OneMore \in Entry
  BY OneMoreFacts DEF Mine, ControlType, TrailType, TrailTruthful, Truthful
<1> USE AgentAssumption DEF Progress, Fits, Early, Working, fixed, At, Raise
<1>6. CASE BeginInitialize BY <1>3, <1>6 DEF BeginInitialize
<1>7. CASE OpenTools BY <1>3, <1>7 DEF OpenTools
<1>8. CASE LogStarted
  <2>1. Mine = Nothing BY <1>8 DEF LogStarted
  <2>2. [Mine EXCEPT !.started = TRUE] \in Entry BY <1>1 DEF Entry
  <2>3. Mine' = [Nothing EXCEPT !.started = TRUE]
    BY <1>2, <1>8, <2>1, <2>2 DEF LogStarted
  <2> QED BY <1>8, <2>3 DEF LogStarted
<1>9. CASE InitializeDone BY <1>3, <1>9 DEF InitializeDone
<1>10. CASE EnterPhase BY <1>3, <1>10 DEF EnterPhase
<1>11. CASE PhaseDone
  <2>1. Mine' = Mine /\ Mine = [Nothing EXCEPT !.started = TRUE]
    BY <1>3, <1>11 DEF PhaseDone
  <2>2. /\ Mine.started /\ Mine.artifacts < ArtifactCount
        /\ Mine.decisions = 0 /\ ~Mine.completed
    BY <2>1 DEF Nothing
  <2> QED BY <1>11, <2>1, <2>2 DEF PhaseDone
<1>12. CASE PhaseRetried BY <1>3, <1>12 DEF PhaseRetried
<1>13. CASE StoreArtifact
  <2>1. Mine' = [Mine EXCEPT !.artifacts = @ + 1]
    BY <1>2, <1>5, <1>13 DEF StoreArtifact, OneMore
  <2> QED BY <1>1, <1>13, <2>1 DEF StoreArtifact, Entry
<1>14. CASE StoreDecision
  <2>1. Mine' = [Mine EXCEPT !.decisions = @ + 1]
    BY <1>2, <1>5, <1>14 DEF StoreDecision, OneMore
  <2> QED BY <1>1, <1>14, <2>1 DEF StoreDecision, Entry
<1>15. CASE DecisionsDone BY <1>3, <1>15 DEF DecisionsDone
<1>16. CASE LogCompleted
  <2>1. Mine' = [Mine EXCEPT !.completed = TRUE]
    BY <1>2, <1>5, <1>16 DEF LogCompleted, OneMore
  <2> QED BY <1>1, <1>16, <2>1 DEF LogCompleted, Entry
<1>17. CASE InitializeFails \/ PhaseFails \/ Escalate \/ PersistFails \/ Finish \/ Crash
  BY <1>4, <1>17 DEF InitializeFails, PhaseFails, Escalate, PersistFails, Finish, Crash,
     FailLifecycle
<1>18. CASE LoopBack \/ JobRetried
  <2>1. pc' = "new" /\ run' = run + 1 /\ UNCHANGED trail
    BY <1>18 DEF LoopBack, JobRetried, NewAgent
  <2>2. Mine' = Nothing BY <1>1, <2>1 DEF Future, Mine, ControlType
  <2> QED BY <2>1, <2>2
<1>19. CASE UNCHANGED vars
  <2>1. Mine' = Mine /\ pc' = pc BY <1>3, <1>19 DEF vars
  <2> QED BY <2>1
<1> QED
  BY <1>6, <1>7, <1>8, <1>9, <1>10, <1>11, <1>12, <1>13, <1>14, <1>15, <1>16, <1>17,
     <1>18, <1>19 DEF Next, Step

LEMMA SuccessStep ==
  ASSUME ControlType, TrailType, Standing, Progress, TrailTruthful, SuccessMeansPersisted,
         [Next]_vars
  PROVE  SuccessMeansPersisted'
<1>1. run \in 1..MaxRuns /\ run' \in {run, run + 1}
  BY WriteStep DEF ControlType, Write
<1>2. ASSUME NEW r \in 1..run, trail[r].completed PROVE trail'[r].completed
  <2>1. r \in 1..MaxRuns BY <1>1, AgentAssumption
  <2>2. CASE UNCHANGED trail BY <1>2, <2>2
  <2>3. CASE \E e \in Entry : Write(e)
    <3>1. PICK e \in Entry : Write(e) BY <2>3
    <3>2. trail'[run] = e /\ (r # run => trail'[r] = trail[r])
      BY <2>1, <3>1, StoreFacts DEF Write
    <3>3. r = run => e.completed BY <1>2, <3>1 DEF Write, Mine
    <3> QED BY <1>2, <3>2, <3>3
  <2> QED BY <2>2, <2>3, WriteStep
<1>3. ASSUME "outputs" \in posted', ~("outputs" \in posted)
      PROVE  trail'[run].completed
  <2>1. LogCompleted
    BY <1>3 DEF Next, Step, vars, BeginInitialize, OpenTools, LogStarted, InitializeFails,
       InitializeDone, EnterPhase, PhaseDone, PhaseRetried, PhaseFails, Escalate,
       StoreArtifact, StoreDecision, DecisionsDone, PersistFails, Finish, Crash, LoopBack,
       JobRetried
  <2>2. Mine \in Entry /\ Truthful(Mine)
    BY <1>1 DEF TrailType, Mine, TrailTruthful, Truthful
  <2>3. OneMore \in Entry /\ OneMore.completed
    BY <2>1, <2>2, OneMoreFacts DEF LogCompleted, At, OneMore, Entry
  <2> QED BY <2>1, <2>3, StoreFacts DEF LogCompleted
<1>4. ("outputs" \in posted => \E r \in 1..run : trail[r].completed)'
  <2> SUFFICES ASSUME "outputs" \in posted'
               PROVE  \E r \in 1..run' : trail'[r].completed
    OBVIOUS
  <2>1. CASE "outputs" \in posted
    <3>1. PICK r \in 1..run : trail[r].completed
      BY <2>1 DEF SuccessMeansPersisted
    <3> QED BY <1>1, <1>2, <3>1
  <2>2. CASE ~("outputs" \in posted)
    <3>1. trail'[run].completed BY <1>3, <2>2
    <3> QED BY <1>1, <3>1
  <2> QED BY <2>1, <2>2
<1>5. (outcome = "success" => state = "Completed" /\ Mine.completed)'
  <2>1. CASE Finish
    BY <1>1, <2>1 DEF Finish, At, Progress, Fits, Mine, fixed
  <2>2. CASE UNCHANGED vars
    BY <2>2 DEF vars, SuccessMeansPersisted, Mine
  <2>3. CASE Next /\ ~Finish
    <3>1. outcome' # "success"
      BY <2>3 DEF Next, Step, At, Raise, FailLifecycle, NewAgent, BeginInitialize, OpenTools,
         LogStarted, InitializeFails, InitializeDone, EnterPhase, PhaseDone, PhaseRetried,
         PhaseFails, Escalate, StoreArtifact, StoreDecision, DecisionsDone, LogCompleted,
         PersistFails, Crash, LoopBack, JobRetried
    <3> QED BY <3>1
  <2> QED BY <2>1, <2>2, <2>3
<1> QED
  BY <1>4, <1>5 DEF SuccessMeansPersisted

-----------------------------------------------------------------------------
LEMMA IInvStep == IInv /\ [Next]_vars => IInv'
<1> SUFFICES ASSUME IInv, [Next]_vars PROVE IInv'
  OBVIOUS
<1>1. ControlType' /\ Standing' BY ControlStep, StandingStep DEF IInv
<1>2. ToolsOpenDuringWork' BY ToolsStep DEF IInv
<1>3. CountType' /\ Attempts' BY CountTypeStep, AttemptsStep DEF IInv
<1>4. Reviewed' BY ReviewedStep DEF IInv
<1>5. TrailType' /\ Future' /\ TrailTruthful' BY TrailStep DEF IInv
<1>6. Progress' BY <1>1, ProgressStep DEF IInv
<1>7. SuccessMeansPersisted' BY SuccessStep DEF IInv
<1> QED BY <1>1, <1>2, <1>3, <1>4, <1>5, <1>6, <1>7 DEF IInv

THEOREM Invariant == Spec => []IInv
<1>1. Init => IInv BY InitIInv
<1>2. IInv /\ [Next]_vars => IInv' BY IInvStep
<1> QED BY <1>1, <1>2, PTL DEF Spec

\* Every variable keeps its type: in particular no phase is retried more than
\* MaxRetries times.
THEOREM AgentTypeCorrect == Spec => []TypeOK
<1>1. IInv => TypeOK BY TypeParts DEF IInv
<1> QED BY <1>1, Invariant, PTL

\* The tools of an agent are open whenever it works, whatever failed and was
\* retried before.
THEOREM ToolsAvailable == Spec => []ToolsOpenDuringWork
<1>1. IInv => ToolsOpenDuringWork BY DEF IInv
<1> QED BY <1>1, Invariant, PTL

\* What the Brain says of any run of a node is true, however many runs there
\* are and wherever they failed or died.
THEOREM BrainTellsTruth == Spec => []TrailTruthful
<1>1. IInv => TrailTruthful BY DEF IInv
<1> QED BY <1>1, Invariant, PTL

\* A lifecycle that returns success has stored everything.
THEOREM SuccessIsStored == Spec => []SuccessMeansPersisted
<1>1. IInv => SuccessMeansPersisted BY DEF IInv
<1> QED BY <1>1, Invariant, PTL

\* Attempts and retries agree, and a human is asked exactly when the node is
\* in review with its retries used up.
THEOREM RetriesAreExact == Spec => []RetriesExact
<1>1. IInv => RetriesExact BY DEF IInv, Attempts, Reviewed, RetriesExact
<1> QED BY <1>1, Invariant, PTL
=============================================================================
