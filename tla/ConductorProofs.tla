-------------------------- MODULE ConductorProofs --------------------------
(***************************************************************************)
(* Proofs about the conductor, for every bound on loops, attempts and      *)
(* storage errors.                                                         *)
(*                                                                         *)
(* Everything rests on Position: the completed stages are the prefix of    *)
(* the pipeline that ends where the run is.  From it follow the freshness  *)
(* of the reports (a stage runs when nothing after it counts as complete), *)
(* the promise of WorkflowSpec, and, with what the session row may say of  *)
(* the stages (RowTruthful), the soundness of the client's view.           *)
(***************************************************************************)
EXTENDS Conductor, TLAPS

Prefix == \E k \in 0..Learning : completed = 1..k

\* where the run is, and what is complete there
Position ==
  /\ pc \in {"begin", "enter", "run", "failing"} => completed = 1..(node - 1)
  /\ pc = "begin" => node = Planning
  /\ pc = "decide" => node = Repair /\ completed = 1..Repair
  /\ pc \in {"finish", "read"} => completed = Stages
  /\ Prefix
  /\ pc = "over" <=> verdict # "running"
  /\ verdict = "success" => completed = Stages

\* the node statuses
Statuses ==
  /\ \A n \in Stages : shown[n] = "Completed" <=> n \in completed
  /\ pc \in {"begin", "enter", "run", "decide", "finish", "read"} =>
       \A n \in Stages \ completed : shown[n] = "Pending"

\* what the row may say of the stages: a row that is COMPLETED or has moved
\* past a stage is backed by a completion in this session
Backed(r) ==
  /\ r.status = "COMPLETED" => ever = Stages
  /\ \A n \in Stages : n < r.active => n \in ever
RowTruthful ==
  /\ completed \subseteq ever
  /\ Backed(row)
  /\ \A a \in Attempts : Backed(sync[a].copy)

\* the parts of TypeOK
ControlType ==
  /\ attempt \in Attempts
  /\ pc \in {"begin", "enter", "run", "failing", "decide", "finish", "read",
             "raised", "over"}
  /\ node \in Stages
  /\ loop \in 0..(MaxLoops - 1)
  /\ completed \subseteq Stages
  /\ active \subseteq Stages
  /\ decision \in Files
  /\ asked \in Files
  /\ verdict \in {"running", "success", "failed", "crashed", "abandoned"}
  /\ faults \in 0..MaxFaults
  /\ fresh \subseteq Stages
  /\ ever \subseteq Stages
ShownType == shown \in [Stages -> {"Pending", "Completed", "Stopped"}]
RowType == row \in Row /\ sync \in [Attempts -> Debt]

Control == ControlType /\ Position

IInv ==
  /\ ControlType /\ ShownType /\ RowType
  /\ Position /\ Statuses /\ ReportsFresh /\ RowTruthful /\ FailureShows

-----------------------------------------------------------------------------
LEMMA TypeParts == TypeOK <=> ControlType /\ ShownType /\ RowType
  BY DEF TypeOK, ControlType, ShownType, RowType

LEMMA StageNumbers ==
  /\ Planning = 1 /\ Blueprint = 2 /\ Implementation = 3 /\ Validation = 6
  /\ Repair = 8 /\ Learning = 9 /\ Stages = 1..9
  BY DEF Planning, Blueprint, Implementation, Validation, Repair, Learning, Stages

LEMMA InitIInv == Init => IInv
<1> SUFFICES ASSUME Init PROVE IInv
  OBVIOUS
<1> USE ConductorAssumption, StageNumbers DEF Init
<1>1. ControlType
  BY DEF ControlType, Attempts, Files, Decisions
<1>2. ShownType
  BY DEF ShownType
<1>3. Created \in Row /\ RowType
  BY DEF RowType, Row, Debt, Created
<1>4. Prefix
  <2>1. completed = 1..0 BY DEF Init
  <2> QED BY <2>1 DEF Prefix
<1>5. Position
  BY <1>4 DEF Position
<1>6. Statuses /\ ReportsFresh /\ FailureShows
  BY DEF Statuses, ReportsFresh, FailureShows
<1>7. RowTruthful
  BY DEF RowTruthful, Backed, Created
<1> QED
  BY <1>1, <1>2, <1>3, <1>5, <1>6, <1>7 DEF IInv

-----------------------------------------------------------------------------
(* Types of the control variables. *)

LEMMA ControlTypeStep ==
  Control /\ [Next]_vars => ControlType'
<1>1. SUFFICES ASSUME Control, [Next]_vars PROVE ControlType'
  OBVIOUS
<1> USE ConductorAssumption DEF Goto, runVars, historyVars, fileVars, Control, ControlType, Attempts, Files, Decisions
<1>2. CASE Begin BY <1>1, <1>2 DEF Begin, Update, Try
<1>3. CASE BeginRaises BY <1>1, <1>3 DEF BeginRaises, Update, Try
<1>4. CASE ResolveFails BY <1>1, <1>4 DEF ResolveFails
<1>5. CASE Enter BY <1>1, <1>5 DEF Enter, Update, Try
<1>6. CASE NodeCompletes
  <2>1. node \in 1..9 /\ MaxFaults \in Nat BY <1>1, ConductorAssumption, StageNumbers
  <2>2. pc' \in {"enter", "decide", "finish"} /\ node' \in Stages
    BY <1>6, <2>1, StageNumbers DEF NodeCompletes, AfterNode
  <2>3. decision' \in Files /\ asked' \in Files /\ faults' \in 0..MaxFaults
    BY <1>1, <1>6, <2>1 DEF NodeCompletes, Decided
  <2>4. active' \subseteq Stages
    BY <1>1, <1>6, <2>1, StageNumbers DEF NodeCompletes, Following
  <2> QED BY <1>1, <1>6, <2>1, <2>2, <2>3, <2>4, StageNumbers DEF NodeCompletes
<1>7. CASE NodeRaises BY <1>1, <1>7 DEF NodeRaises, Decided
<1>8. CASE MarkFailed BY <1>1, <1>8 DEF MarkFailed, Update, Try
<1>9. CASE Reroute
  BY <1>1, <1>9, ConductorAssumption, StageNumbers DEF Reroute, Seen, Target, Reset
<1>10. CASE Proceed
  BY <1>1, <1>10, StageNumbers DEF Proceed
<1>11. CASE Finish BY <1>1, <1>11 DEF Finish, Update, Try
<1>12. CASE ReadRaises BY <1>1, <1>12 DEF ReadRaises
<1>13. CASE Succeeds BY <1>1, <1>13 DEF Succeeds
<1>14. CASE NotCompleted BY <1>1, <1>14 DEF NotCompleted
<1>15. CASE JobFails BY <1>1, <1>15 DEF JobFails
<1>16. CASE Crash BY <1>1, <1>16 DEF Crash
<1>17. CASE NextAttempt
  BY <1>1, <1>17, ConductorAssumption, StageNumbers DEF NextAttempt
<1>18. CASE \E a \in Attempts : SyncRead(a)
  BY <1>1, <1>18 DEF SyncRead
<1>19. CASE \E a \in Attempts : SyncWrite(a)
  BY <1>1, <1>19 DEF SyncWrite
<1>20. CASE \E a \in Attempts : SyncFails(a)
  BY <1>1, <1>20 DEF SyncFails
<1>21. CASE \E a \in Attempts : SyncOverwritten(a)
  BY <1>1, <1>21 DEF SyncOverwritten
<1>22. CASE UNCHANGED vars BY <1>1, <1>22 DEF vars
<1> QED
  BY <1>1, <1>2, <1>3, <1>4, <1>5, <1>6, <1>7, <1>8, <1>9, <1>10, <1>11, <1>12, <1>13, <1>14, <1>15, <1>16, <1>17, <1>18, <1>19, <1>20, <1>21, <1>22 DEF Next, ConductorStep, Sync

(* The position in the pipeline. *)

LEMMA PositionStep ==
  Control /\ [Next]_vars => Position'
<1>1. SUFFICES ASSUME Control, [Next]_vars PROVE Position'
  OBVIOUS
<1> USE DEF Goto, runVars, historyVars, fileVars, Control, ControlType, Position, Prefix
<1>2. CASE Begin BY <1>1, <1>2 DEF Begin
<1>3. CASE BeginRaises BY <1>1, <1>3 DEF BeginRaises
<1>4. CASE ResolveFails BY <1>1, <1>4 DEF ResolveFails
<1>5. CASE Enter BY <1>1, <1>5 DEF Enter
<1>6. CASE NodeCompletes
  <2>1. completed = 1..(node - 1) /\ node \in 1..9 BY <1>1, <1>6, StageNumbers DEF NodeCompletes
  <2>2. completed' = 1..node BY <2>1, <1>6 DEF NodeCompletes
  <2>3. Prefix'
    <3>1. node \in 0..Learning BY <2>1, StageNumbers
    <3> QED BY <2>2, <3>1
  <2>4. CASE node = Repair BY <1>1, <1>6, <2>2, <2>3, <2>4, StageNumbers DEF NodeCompletes, AfterNode
  <2>5. CASE node = Learning BY <1>1, <1>6, <2>2, <2>3, <2>5, StageNumbers DEF NodeCompletes, AfterNode
  <2>6. CASE node \notin {Repair, Learning}
    <3>1. pc' = "enter" /\ node' = node + 1 BY <1>6, <2>6 DEF NodeCompletes, AfterNode
    <3>2. completed' = 1..(node' - 1) BY <2>1, <2>2, <3>1
    <3> QED BY <1>1, <1>6, <2>3, <3>1, <3>2 DEF NodeCompletes
  <2> QED BY <2>4, <2>5, <2>6
<1>7. CASE NodeRaises BY <1>1, <1>7 DEF NodeRaises
<1>8. CASE MarkFailed BY <1>1, <1>8 DEF MarkFailed
<1>9. CASE Reroute
  <2>1. PICK d \in Seen \cap {"structural", "runtime"} : node' = Target(d) /\ Reset(Target(d))
    BY <1>9 DEF Reroute
  <2>2. Target(d) \in {3, 6} BY StageNumbers DEF Target
  <2>3. completed = 1..8 BY <1>1, <1>9, StageNumbers DEF Reroute
  <2>4. completed' = 1..(node' - 1) BY <2>1, <2>2, <2>3, StageNumbers DEF Reset
  <2>5. Prefix' BY <2>1, <2>2, <2>4, StageNumbers
  <2> QED BY <1>1, <1>9, <2>4, <2>5 DEF Reroute
<1>10. CASE Proceed
  BY <1>1, <1>10, StageNumbers DEF Proceed
<1>11. CASE Finish BY <1>1, <1>11 DEF Finish
<1>12. CASE ReadRaises BY <1>1, <1>12 DEF ReadRaises
<1>13. CASE Succeeds BY <1>1, <1>13 DEF Succeeds
<1>14. CASE NotCompleted BY <1>1, <1>14 DEF NotCompleted
<1>15. CASE JobFails BY <1>1, <1>15 DEF JobFails
<1>16. CASE Crash BY <1>1, <1>16 DEF Crash
<1>17. CASE NextAttempt
  <2>1. completed' = 1..0 BY <1>17 DEF NextAttempt
  <2> QED BY <1>1, <1>17, <2>1, StageNumbers DEF NextAttempt
<1>18. CASE \E a \in Attempts : SyncRead(a)
  BY <1>1, <1>18 DEF SyncRead
<1>19. CASE \E a \in Attempts : SyncWrite(a)
  BY <1>1, <1>19 DEF SyncWrite
<1>20. CASE \E a \in Attempts : SyncFails(a)
  BY <1>1, <1>20 DEF SyncFails
<1>21. CASE \E a \in Attempts : SyncOverwritten(a)
  BY <1>1, <1>21 DEF SyncOverwritten
<1>22. CASE UNCHANGED vars BY <1>1, <1>22 DEF vars
<1> QED
  BY <1>1, <1>2, <1>3, <1>4, <1>5, <1>6, <1>7, <1>8, <1>9, <1>10, <1>11, <1>12, <1>13, <1>14, <1>15, <1>16, <1>17, <1>18, <1>19, <1>20, <1>21, <1>22 DEF Next, ConductorStep, Sync

(* The node statuses. *)

LEMMA StatusStep ==
  Control /\ ShownType /\ Statuses /\ [Next]_vars => ShownType' /\ Statuses'
<1>1. SUFFICES ASSUME Control, ShownType, Statuses, [Next]_vars PROVE ShownType' /\ Statuses'
  OBVIOUS
<1> USE DEF Goto, runVars, historyVars, fileVars, ShownType, Statuses
<1>2. CASE Begin BY <1>1, <1>2 DEF Begin
<1>3. CASE BeginRaises BY <1>1, <1>3 DEF BeginRaises
<1>4. CASE ResolveFails BY <1>1, <1>4 DEF ResolveFails
<1>5. CASE Enter BY <1>1, <1>5 DEF Enter
<1>6. CASE NodeCompletes
  <2>1. completed = 1..(node - 1) /\ node \in Stages
    BY <1>1, <1>6 DEF NodeCompletes, Control, ControlType, Position
  <2> QED BY <1>1, <1>6, <2>1 DEF NodeCompletes, AfterNode
<1>7. CASE NodeRaises
  <2>1. node \in Stages \ completed
    BY <1>1, <1>7, StageNumbers DEF NodeRaises, Control, ControlType, Position
  <2> QED BY <1>1, <1>7, <2>1 DEF NodeRaises
<1>8. CASE MarkFailed BY <1>1, <1>8 DEF MarkFailed
<1>9. CASE Reroute
  <2>1. PICK d \in Seen \cap {"structural", "runtime"} : Reset(Target(d))
    BY <1>9 DEF Reroute
  <2> QED BY <1>1, <1>9, <2>1 DEF Reroute, Reset
<1>10. CASE Proceed BY <1>1, <1>10 DEF Proceed
<1>11. CASE Finish BY <1>1, <1>11 DEF Finish
<1>12. CASE ReadRaises BY <1>1, <1>12 DEF ReadRaises
<1>13. CASE Succeeds BY <1>1, <1>13 DEF Succeeds
<1>14. CASE NotCompleted BY <1>1, <1>14 DEF NotCompleted
<1>15. CASE JobFails BY <1>1, <1>15 DEF JobFails
<1>16. CASE Crash BY <1>1, <1>16 DEF Crash
<1>17. CASE NextAttempt BY <1>1, <1>17 DEF NextAttempt
<1>18. CASE \E a \in Attempts : SyncRead(a)
  BY <1>1, <1>18 DEF SyncRead
<1>19. CASE \E a \in Attempts : SyncWrite(a)
  BY <1>1, <1>19 DEF SyncWrite
<1>20. CASE \E a \in Attempts : SyncFails(a)
  BY <1>1, <1>20 DEF SyncFails
<1>21. CASE \E a \in Attempts : SyncOverwritten(a)
  BY <1>1, <1>21 DEF SyncOverwritten
<1>22. CASE UNCHANGED vars BY <1>1, <1>22 DEF vars
<1> QED
  BY <1>1, <1>2, <1>3, <1>4, <1>5, <1>6, <1>7, <1>8, <1>9, <1>10, <1>11, <1>12, <1>13, <1>14, <1>15, <1>16, <1>17, <1>18, <1>19, <1>20, <1>21, <1>22 DEF Next, ConductorStep, Sync

(* The latest runs of the stages. *)

LEMMA FreshStep ==
  Control /\ ReportsFresh /\ [Next]_vars => ReportsFresh'
<1>1. SUFFICES ASSUME Control, ReportsFresh, [Next]_vars PROVE ReportsFresh'
  OBVIOUS
<1> USE DEF Goto, runVars, historyVars, fileVars, ReportsFresh
<1>2. CASE Begin BY <1>1, <1>2 DEF Begin
<1>3. CASE BeginRaises BY <1>1, <1>3 DEF BeginRaises
<1>4. CASE ResolveFails BY <1>1, <1>4 DEF ResolveFails
<1>5. CASE Enter BY <1>1, <1>5 DEF Enter
<1>6. CASE NodeCompletes
  <2>1. completed = 1..(node - 1) /\ node \in 1..9
    BY <1>1, <1>6, StageNumbers DEF NodeCompletes, Control, ControlType, Position
  <2>2. node + 1 \notin completed'
    BY <1>6, <2>1 DEF NodeCompletes
  <2> QED BY <1>1, <1>6, <2>1, <2>2 DEF NodeCompletes
<1>7. CASE NodeRaises BY <1>1, <1>7 DEF NodeRaises
<1>8. CASE MarkFailed BY <1>1, <1>8 DEF MarkFailed
<1>9. CASE Reroute
  <2>1. completed' \subseteq completed /\ UNCHANGED fresh BY <1>9 DEF Reroute, Reset
  <2> QED BY <1>1, <2>1
<1>10. CASE Proceed BY <1>1, <1>10 DEF Proceed
<1>11. CASE Finish BY <1>1, <1>11 DEF Finish
<1>12. CASE ReadRaises BY <1>1, <1>12 DEF ReadRaises
<1>13. CASE Succeeds BY <1>1, <1>13 DEF Succeeds
<1>14. CASE NotCompleted BY <1>1, <1>14 DEF NotCompleted
<1>15. CASE JobFails BY <1>1, <1>15 DEF JobFails
<1>16. CASE Crash BY <1>1, <1>16 DEF Crash
<1>17. CASE NextAttempt
  <2>1. completed' = {} BY <1>17 DEF NextAttempt
  <2> QED BY <2>1
<1>18. CASE \E a \in Attempts : SyncRead(a)
  BY <1>1, <1>18 DEF SyncRead
<1>19. CASE \E a \in Attempts : SyncWrite(a)
  BY <1>1, <1>19 DEF SyncWrite
<1>20. CASE \E a \in Attempts : SyncFails(a)
  BY <1>1, <1>20 DEF SyncFails
<1>21. CASE \E a \in Attempts : SyncOverwritten(a)
  BY <1>1, <1>21 DEF SyncOverwritten
<1>22. CASE UNCHANGED vars BY <1>1, <1>22 DEF vars
<1> QED
  BY <1>1, <1>2, <1>3, <1>4, <1>5, <1>6, <1>7, <1>8, <1>9, <1>10, <1>11, <1>12, <1>13, <1>14, <1>15, <1>16, <1>17, <1>18, <1>19, <1>20, <1>21, <1>22 DEF Next, ConductorStep, Sync

LEMMA IdleFits == Idle \in Debt /\ Backed(Idle.copy)
  BY StageNumbers DEF Idle, Debt, Row, Created, Backed

(* The session row and the copies of it that workers hold. *)

LEMMA RowStep ==
  Control /\ RowType /\ RowTruthful /\ [Next]_vars => RowType' /\ RowTruthful'
<1>1. SUFFICES ASSUME Control, RowType, RowTruthful, [Next]_vars PROVE RowType' /\ RowTruthful'
  OBVIOUS
<1> USE DEF Goto, runVars, historyVars, fileVars, RowType, RowTruthful
<1>2. CASE Begin
  <2>1. UNCHANGED <<completed, ever, sync>> BY <1>2 DEF Begin
  <2>2. row' \in {row, [row EXCEPT !.status = "IN_PROGRESS"]}
    BY <1>2 DEF Begin, Update, Try
  <2>3. [row EXCEPT !.status = "IN_PROGRESS"] \in Row /\ Backed([row EXCEPT !.status = "IN_PROGRESS"])
    BY <1>1, StageNumbers DEF Row, Backed
  <2> QED BY <1>1, <2>1, <2>2, <2>3 DEF Backed
<1>3. CASE BeginRaises
  <2>1. UNCHANGED <<completed, ever, sync>> BY <1>3 DEF BeginRaises
  <2>2. row' \in {row, [row EXCEPT !.status = "IN_PROGRESS"]}
    BY <1>3 DEF BeginRaises, Update, Try
  <2>3. [row EXCEPT !.status = "IN_PROGRESS"] \in Row /\ Backed([row EXCEPT !.status = "IN_PROGRESS"])
    BY <1>1, StageNumbers DEF Row, Backed
  <2> QED BY <1>1, <2>1, <2>2, <2>3 DEF Backed
<1>4. CASE ResolveFails BY <1>1, <1>4 DEF ResolveFails, Backed
<1>5. CASE Enter
  <2>1. UNCHANGED <<completed, ever, sync>> BY <1>5 DEF Enter
  <2>2. row' \in {row, Placed} BY <1>5 DEF Enter, Update, Try
  <2>3. completed = 1..(node - 1) /\ node \in 1..9
    BY <1>1, <1>5, StageNumbers DEF Enter, Control, ControlType, Position
  <2>4. Placed \in Row
    <3> DEFINE st == IF node = Planning THEN "IN_PROGRESS" ELSE row.status
    <3>1. st \in {"IN_PROGRESS", "COMPLETED", "FAILED"} BY <1>1 DEF Row
    <3>2. Placed = [row EXCEPT !.active = node, !.status = st] BY DEF Placed
    <3> HIDE DEF st
    <3>3. Placed = [status |-> st, active |-> node]
      BY <1>1, <3>2 DEF Row
    <3>4. node \in 0..Learning BY <2>3, StageNumbers
    <3> QED BY <3>1, <3>3, <3>4 DEF Row
  <2>5. Placed.active = node /\ (Placed.status = "COMPLETED" => row.status = "COMPLETED")
    BY <1>1 DEF Placed, Row
  <2>6. Backed(Placed) BY <1>1, <2>3, <2>5, StageNumbers DEF Backed
  <2> QED BY <1>1, <2>1, <2>2, <2>4, <2>6 DEF Backed
<1>6. CASE NodeCompletes
  <2>1. node \in Stages /\ ever \subseteq Stages BY <1>1 DEF Control, ControlType
  <2> QED BY <1>1, <1>6, <2>1 DEF NodeCompletes, Backed
<1>7. CASE NodeRaises BY <1>1, <1>7 DEF NodeRaises, Backed
<1>8. CASE MarkFailed
  <2>1. UNCHANGED <<completed, ever, sync>> BY <1>8 DEF MarkFailed
  <2>2. row' \in {row, [row EXCEPT !.status = "FAILED"]}
    BY <1>8 DEF MarkFailed, Update, Try
  <2>3. [row EXCEPT !.status = "FAILED"] \in Row /\ Backed([row EXCEPT !.status = "FAILED"])
    BY <1>1, StageNumbers DEF Row, Backed
  <2> QED BY <1>1, <2>1, <2>2, <2>3 DEF Backed
<1>9. CASE Reroute
  <2>1. completed' \subseteq completed /\ UNCHANGED <<row, sync, ever>> BY <1>9 DEF Reroute, Reset
  <2> QED BY <1>1, <2>1 DEF Backed
<1>10. CASE Proceed BY <1>1, <1>10 DEF Proceed, Backed
<1>11. CASE Finish
  <2>1. UNCHANGED <<completed, ever, sync>> BY <1>11 DEF Finish
  <2>2. row' \in {row, [row EXCEPT !.status = "COMPLETED"]}
    BY <1>11 DEF Finish, Update, Try
  <2>3. [row EXCEPT !.status = "COMPLETED"] \in Row /\ Backed([row EXCEPT !.status = "COMPLETED"])
    <3>1. ever = Stages BY <1>1, <1>11 DEF Finish, Control, ControlType, Position
    <3> QED BY <1>1, <3>1, StageNumbers DEF Row, Backed
  <2> QED BY <1>1, <2>1, <2>2, <2>3 DEF Backed
<1>12. CASE ReadRaises BY <1>1, <1>12 DEF ReadRaises, Backed
<1>13. CASE Succeeds BY <1>1, <1>13 DEF Succeeds, Backed
<1>14. CASE NotCompleted BY <1>1, <1>14 DEF NotCompleted, Backed
<1>15. CASE JobFails
  BY <1>1, <1>15 DEF JobFails, Backed, Debt
<1>16. CASE Crash BY <1>1, <1>16 DEF Crash, Backed
<1>17. CASE NextAttempt
  BY <1>1, <1>17 DEF NextAttempt, Backed
<1>18. CASE \E a \in Attempts : SyncRead(a)
  <2>1. PICK a \in Attempts : SyncRead(a) BY <1>18
  <2>2. UNCHANGED <<completed, ever, row>> BY <2>1 DEF SyncRead
  <2>3. [step |-> "write", copy |-> row] \in Debt BY <1>1 DEF Debt
  <2>4. sync' = [sync EXCEPT ![a] = [step |-> "write", copy |-> row]] BY <2>1 DEF SyncRead
  <2>5. RowType' BY <1>1, <2>2, <2>3, <2>4
  <2>6. \A b \in Attempts : sync'[b].copy = row \/ sync'[b].copy = sync[b].copy BY <1>1, <2>4
  <2> QED BY <1>1, <2>2, <2>5, <2>6 DEF Backed
<1>19. CASE \E a \in Attempts : SyncWrite(a)
  <2>1. PICK a \in Attempts : SyncWrite(a) BY <1>19
  <2>2. UNCHANGED <<completed, ever>> BY <2>1 DEF SyncWrite
  <2>3. sync[a].copy \in Row /\ Backed(sync[a].copy) BY <1>1 DEF Debt
  <2>4. row' = [sync[a].copy EXCEPT !.status = "FAILED"] BY <2>1 DEF SyncWrite
  <2>5. row' \in Row /\ Backed(row') BY <2>3, <2>4 DEF Row, Backed
  <2>6. sync' = [sync EXCEPT ![a] = Idle] BY <2>1 DEF SyncWrite
  <2>7. RowType' BY <1>1, <2>5, <2>6, IdleFits
  <2>8. \A b \in Attempts : Backed(sync'[b].copy) BY <1>1, <2>6, IdleFits
  <2> QED BY <1>1, <2>2, <2>5, <2>7, <2>8 DEF Backed
<1>20. CASE \E a \in Attempts : SyncFails(a)
  <2>1. PICK a \in Attempts : SyncFails(a) BY <1>20
  <2>2. UNCHANGED <<completed, ever, row>> /\ sync' = [sync EXCEPT ![a] = Idle] BY <2>1 DEF SyncFails
  <2>3. RowType' BY <1>1, <2>2, IdleFits
  <2>4. \A b \in Attempts : Backed(sync'[b].copy) BY <1>1, <2>2, IdleFits DEF Backed
  <2> QED BY <1>1, <2>2, <2>3, <2>4 DEF Backed
<1>21. CASE \E a \in Attempts : SyncOverwritten(a)
  <2>1. PICK a \in Attempts : SyncOverwritten(a) BY <1>21
  <2>2. UNCHANGED <<completed, ever, row>> /\ sync' = [sync EXCEPT ![a] = Idle] BY <2>1 DEF SyncOverwritten
  <2>3. RowType' BY <1>1, <2>2, IdleFits
  <2>4. \A b \in Attempts : Backed(sync'[b].copy) BY <1>1, <2>2, IdleFits DEF Backed
  <2> QED BY <1>1, <2>2, <2>3, <2>4 DEF Backed
<1>22. CASE UNCHANGED vars BY <1>1, <1>22 DEF vars, Backed
<1> QED
  BY <1>1, <1>2, <1>3, <1>4, <1>5, <1>6, <1>7, <1>8, <1>9, <1>10, <1>11, <1>12, <1>13, <1>14, <1>15, <1>16, <1>17, <1>18, <1>19, <1>20, <1>21, <1>22 DEF Next, ConductorStep, Sync

(* A failed attempt shows. *)

LEMMA FailureStep ==
  Control /\ RowType /\ FailureShows /\ [Next]_vars => FailureShows'
<1>1. SUFFICES ASSUME Control, RowType, FailureShows, [Next]_vars PROVE FailureShows'
  OBVIOUS
<1> USE DEF Goto, runVars, historyVars, fileVars, FailureShows
<1>2. CASE Begin
  BY <1>1, <1>2 DEF Begin, Control, Position
<1>3. CASE BeginRaises
  BY <1>1, <1>3 DEF BeginRaises
<1>4. CASE ResolveFails
  BY <1>1, <1>4 DEF ResolveFails, Control, Position
<1>5. CASE Enter
  BY <1>1, <1>5 DEF Enter, Control, Position
<1>6. CASE NodeCompletes
  BY <1>1, <1>6 DEF NodeCompletes, Control, Position
<1>7. CASE NodeRaises
  BY <1>1, <1>7 DEF NodeRaises, Control, Position
<1>8. CASE MarkFailed
  BY <1>1, <1>8 DEF MarkFailed, Control, Position
<1>9. CASE Reroute
  BY <1>1, <1>9 DEF Reroute, Control, Position
<1>10. CASE Proceed
  BY <1>1, <1>10 DEF Proceed, Control, Position
<1>11. CASE Finish
  BY <1>1, <1>11 DEF Finish, Control, Position
<1>12. CASE ReadRaises
  BY <1>1, <1>12 DEF ReadRaises, Control, Position
<1>13. CASE Succeeds BY <1>1, <1>13 DEF Succeeds
<1>14. CASE NotCompleted
  BY <1>1, <1>14 DEF NotCompleted, Control, Position
<1>15. CASE JobFails
  BY <1>1, <1>15 DEF JobFails, Control, ControlType, RowType, Debt
<1>16. CASE Crash BY <1>1, <1>16 DEF Crash
<1>17. CASE NextAttempt BY <1>1, <1>17 DEF NextAttempt
<1>18. CASE \E a \in Attempts : SyncRead(a)
  <2>1. PICK a \in Attempts : SyncRead(a) BY <1>18
  <2>2. sync' = [sync EXCEPT ![a] = [step |-> "write", copy |-> row]] BY <2>1 DEF SyncRead
  <2>3. sync[attempt].step # "none" \/ sync'[attempt] = sync[attempt]
    BY <1>1, <2>1, <2>2 DEF SyncRead, RowType, Control, ControlType
  <2>4. attempt = a => sync'[attempt].step = "write"  BY <1>1, <2>2 DEF RowType
  <2>5. attempt # a => sync'[attempt] = sync[attempt]  BY <1>1, <2>2 DEF RowType, Control, ControlType
  <2> QED BY <1>1, <2>1, <2>4, <2>5 DEF SyncRead
<1>19. CASE \E a \in Attempts : SyncWrite(a)
  <2>1. PICK a \in Attempts : SyncWrite(a) BY <1>19
  <2>2. sync[a].copy \in Row BY <1>1 DEF RowType, Debt
  <2>3. row'.status = "FAILED" BY <2>1, <2>2 DEF SyncWrite, Row
  <2> QED BY <2>3
<1>20. CASE \E a \in Attempts : SyncFails(a)
  <2>1. faults' > 0 BY <1>1, <1>20 DEF SyncFails, Control, ControlType
  <2> QED BY <2>1
<1>21. CASE \E a \in Attempts : SyncOverwritten(a)
  <2>1. pc # "over" /\ UNCHANGED verdict BY <1>21 DEF SyncOverwritten
  <2> QED BY <1>1, <2>1 DEF Control, Position
<1>22. CASE UNCHANGED vars BY <1>1, <1>22 DEF vars
<1> QED
  BY <1>1, <1>2, <1>3, <1>4, <1>5, <1>6, <1>7, <1>8, <1>9, <1>10, <1>11, <1>12, <1>13, <1>14, <1>15, <1>16, <1>17, <1>18, <1>19, <1>20, <1>21, <1>22 DEF Next, ConductorStep, Sync

-----------------------------------------------------------------------------
LEMMA IInvStep == IInv /\ [Next]_vars => IInv'
<1> SUFFICES ASSUME IInv, [Next]_vars PROVE IInv'
  OBVIOUS
<1>1. Control BY DEF IInv, Control
<1>2. ControlType' /\ Position' BY <1>1, ControlTypeStep, PositionStep
<1>3. ShownType' /\ Statuses' BY <1>1, StatusStep DEF IInv
<1>4. ReportsFresh' BY <1>1, FreshStep DEF IInv
<1>5. RowType' /\ RowTruthful' BY <1>1, RowStep DEF IInv
<1>6. FailureShows' BY <1>1, FailureStep DEF IInv
<1> QED BY <1>2, <1>3, <1>4, <1>5, <1>6 DEF IInv

THEOREM Invariant == Spec => []IInv
<1>1. Init => IInv BY InitIInv
<1>2. IInv /\ [Next]_vars => IInv' BY IInvStep
<1> QED BY <1>1, <1>2, PTL DEF Spec

\* Every variable keeps its type: in particular the run never goes back more
\* than MaxLoops - 1 times.
THEOREM ConductorTypeCorrect == Spec => []TypeOK
<1>1. IInv => TypeOK BY TypeParts DEF IInv
<1> QED BY <1>1, Invariant, PTL

\* The completed stages are a prefix of the pipeline and the node statuses
\* say the same.
THEOREM SessionStateIsRight == Spec => []SessionStateAgrees
<1>1. IInv => SessionStateAgrees
  BY DEF IInv, Position, Prefix, Statuses, SessionStateAgrees
<1> QED BY <1>1, Invariant, PTL

\* However often the run goes back, every report is newer than the report or
\* the scaffold it is about.
THEOREM ReportsAreFresh == Spec => []ReportsFresh
<1>1. IInv => ReportsFresh BY DEF IInv
<1> QED BY <1>1, Invariant, PTL

\* A polling client is never told that a stage is complete when it never was.
THEOREM ViewIsSound == Spec => []ViewSound
<1>1. ASSUME IInv PROVE ViewSound
  <2> SUFFICES ASSUME NEW n \in Stages, View(n) = "Completed" PROVE n \in ever
    BY DEF ViewSound
  <2>1. row.active \in 0..9 /\ Backed(row) /\ n \in 1..9
    BY <1>1, StageNumbers DEF IInv, RowType, RowTruthful, Row
  <2>2. CASE row.status = "COMPLETED" BY <2>1, <2>2 DEF Backed
  <2>3. CASE row.status # "COMPLETED"
    <3>1. n < ActiveIndex BY <2>1, <2>3 DEF View
    <3>2. n < row.active BY <2>1, <3>1, StageNumbers DEF ActiveIndex
    <3> QED BY <2>1, <3>2 DEF Backed
  <2> QED BY <2>2, <2>3
<1> QED BY <1>1, Invariant, PTL

\* A failed attempt shows in the session row unless storage failed.
THEOREM FailuresShow == Spec => []FailureShows
<1>1. IInv => FailureShows BY DEF IInv
<1> QED BY <1>1, Invariant, PTL

-----------------------------------------------------------------------------
(* The run implements the workflow its caller is promised.                 *)

LEMMA WorkflowStep == Control /\ [Next]_vars => [Workflow!SpecNext]_(Workflow!specVars)
<1>1. SUFFICES ASSUME Control, [Next]_vars PROVE Workflow!SpecNext \/ UNCHANGED Workflow!specVars
  OBVIOUS
<1> USE DEF Control, Goto, runVars, historyVars, fileVars, Workflow!specVars
<1>2. CASE Begin BY <1>1, <1>2 DEF Begin
<1>3. CASE BeginRaises
  BY <1>1, <1>3 DEF BeginRaises, Position, Workflow!SpecNext, Workflow!Stop
<1>4. CASE ResolveFails BY <1>1, <1>4 DEF ResolveFails
<1>5. CASE Enter BY <1>1, <1>5 DEF Enter
<1>6. CASE NodeCompletes
  <2>1. completed = 1..(node - 1) /\ node \in 1..9 /\ verdict = "running"
    BY <1>1, <1>6, StageNumbers DEF NodeCompletes, ControlType, Position
  <2>2. completed' = 1..node /\ UNCHANGED <<loop, verdict>> BY <2>1, <1>6 DEF NodeCompletes
  <2> QED BY <2>1, <2>2, StageNumbers DEF Workflow!SpecNext, Workflow!Advance
<1>7. CASE NodeRaises BY <1>1, <1>7 DEF NodeRaises
<1>8. CASE MarkFailed BY <1>1, <1>8 DEF MarkFailed
<1>9. CASE Reroute
  <2>1. PICK d \in Seen \cap {"structural", "runtime"} : Reset(Target(d))
    BY <1>9 DEF Reroute
  <2>2. Target(d) \in {3, 6} BY StageNumbers DEF Target
  <2>3. completed = 1..8 /\ verdict = "running" BY <1>1, <1>9, StageNumbers DEF Reroute, Position
  <2>4. completed' = 1..(Target(d) - 1) BY <2>1, <2>2, <2>3, StageNumbers DEF Reset
  <2> QED BY <1>9, <2>2, <2>3, <2>4, StageNumbers DEF Reroute, Workflow!SpecNext, Workflow!GoBack
<1>10. CASE Proceed BY <1>1, <1>10 DEF Proceed
<1>11. CASE Finish BY <1>1, <1>11 DEF Finish
<1>12. CASE ReadRaises BY <1>1, <1>12 DEF ReadRaises
<1>13. CASE Succeeds
  BY <1>1, <1>13 DEF Succeeds, Position, Stages, Planning, Workflow!SpecNext, Workflow!Succeed
<1>14. CASE NotCompleted BY <1>1, <1>14 DEF NotCompleted
<1>15. CASE JobFails
  BY <1>1, <1>15 DEF JobFails, Position, Workflow!SpecNext, Workflow!Stop
<1>16. CASE Crash
  BY <1>1, <1>16 DEF Crash, Position, Workflow!SpecNext, Workflow!Stop
<1>17. CASE NextAttempt
  BY <1>1, <1>17 DEF NextAttempt, Workflow!SpecNext, Workflow!Restart
<1>18. CASE \E a \in Attempts : SyncRead(a)
  BY <1>1, <1>18 DEF SyncRead
<1>19. CASE \E a \in Attempts : SyncWrite(a)
  BY <1>1, <1>19 DEF SyncWrite
<1>20. CASE \E a \in Attempts : SyncFails(a)
  BY <1>1, <1>20 DEF SyncFails
<1>21. CASE \E a \in Attempts : SyncOverwritten(a)
  BY <1>1, <1>21 DEF SyncOverwritten
<1>22. CASE UNCHANGED vars BY <1>1, <1>22 DEF vars
<1> QED
  BY <1>1, <1>2, <1>3, <1>4, <1>5, <1>6, <1>7, <1>8, <1>9, <1>10, <1>11, <1>12, <1>13, <1>14, <1>15, <1>16, <1>17, <1>18, <1>19, <1>20, <1>21, <1>22 DEF Next, ConductorStep, Sync

\* The conductor keeps the promise of WorkflowSpec: stages complete one after
\* the other, the run goes back a bounded number of times and to the two
\* stages it may go back to, and it succeeds only with every stage complete.
THEOREM ConductorImplementsWorkflow == Spec => KeepsWorkflow
<1>1. Init => Workflow!SpecInit BY DEF Init, Workflow!SpecInit
<1>2. IInv /\ [Next]_vars => [Workflow!SpecNext]_(Workflow!specVars)
  BY WorkflowStep DEF IInv, Control
<1> QED BY <1>1, <1>2, Invariant, PTL DEF Spec, KeepsWorkflow, Workflow!WorkflowPromise

-----------------------------------------------------------------------------
(* A reroute has the reason it should have.                                *)

\* after the repair stage the file is the decision of this run
OwnDecision == pc = "decide" /\ faults = 0 => decision = asked

LEMMA OwnDecisionStep == Control /\ OwnDecision /\ [Next]_vars => OwnDecision'
<1>1. SUFFICES ASSUME Control, OwnDecision, [Next]_vars, pc' = "decide", faults' = 0
      PROVE  decision' = asked'
  BY DEF OwnDecision
<1> USE DEF Control, ControlType
<1>2. CASE NodeCompletes
  <2>1. node = Repair
    BY <1>1, <1>2, StageNumbers DEF NodeCompletes, AfterNode
  <2>2. faults \in Nat
    BY <1>1, ConductorAssumption
  <2> QED BY <1>1, <1>2, <2>1, <2>2 DEF NodeCompletes, Decided
<1>3. CASE ~NodeCompletes
  <2>1. pc = "decide" /\ UNCHANGED <<decision, asked>> /\ (faults = 0 \/ faults' = faults + 1)
    BY <1>1, <1>3
    DEF Next, ConductorStep, Begin, BeginRaises, ResolveFails, Enter, NodeRaises, MarkFailed,
        Reroute, Proceed, Finish, ReadRaises, Succeeds, NotCompleted, JobFails, Crash,
        NextAttempt, Sync, SyncRead, SyncWrite, SyncFails, SyncOverwritten, Goto, vars, runVars,
        fileVars
  <2>2. faults = 0
    BY <1>1, <2>1, ConductorAssumption
  <2> QED BY <1>1, <2>1, <2>2 DEF OwnDecision
<1> QED BY <1>2, <1>3

\* Unless storage failed, the run goes back only where the repair stage that
\* has just completed sends it, whatever decision an earlier run has left.
THEOREM RerouteIsJustified == Spec => RerouteJustified
<1>1. Init => OwnDecision
  BY DEF Init, OwnDecision
<1>2. IInv /\ OwnDecision /\ [Next]_vars => OwnDecision'
  BY OwnDecisionStep DEF IInv, Control
<1>3. IInv /\ OwnDecision /\ [Next]_vars =>
        [pc = "decide" /\ pc' = "enter" /\ node' # Learning /\ faults = 0 =>
           asked \in {"structural", "runtime"} /\ node' = Target(asked)]_vars
  <2>1. SUFFICES ASSUME IInv, OwnDecision, Next, pc = "decide", pc' = "enter", node' # Learning, faults = 0
        PROVE  asked \in {"structural", "runtime"} /\ node' = Target(asked)
    BY DEF vars
  <2>2. Reroute
    BY <2>1
    DEF Next, ConductorStep, Begin, BeginRaises, ResolveFails, Enter, NodeCompletes, NodeRaises,
        MarkFailed, Proceed, Finish, ReadRaises, Succeeds, NotCompleted, JobFails, Crash,
        NextAttempt, Sync, SyncRead, SyncWrite, SyncFails, SyncOverwritten, Goto, runVars
  <2>3. PICK d \in Seen \cap {"structural", "runtime"} : node' = Target(d)
    BY <2>2 DEF Reroute
  <2>4. d = asked
    BY <2>1, <2>3 DEF OwnDecision, Seen
  <2> QED BY <2>3, <2>4
<1> QED BY <1>1, <1>2, <1>3, Invariant, PTL DEF Spec, RerouteJustified
=============================================================================
