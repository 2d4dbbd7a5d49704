------------------------- MODULE QualityLoopProofs -------------------------
(***************************************************************************)
(* Proofs about the quality loop, for every set of endpoints, entities and *)
(* services, any names that contain each other, and every bound.           *)
(*                                                                         *)
(* The argument: once implementation has run and no read has failed, the   *)
(* code declares what the design names (Generated), so the evaluator finds *)
(* what is in the files it opens; while repair works, each item of the diagnosis is either still to   *)
(* be done or found by the scan (Underway), and nothing takes it away.     *)
(***************************************************************************)
EXTENDS QualityLoop, FiniteSetTheorems, TLAPS

\* the code has what the design names, after the implementation
Generated ==
  files /\ ~unread /\ stage \notin {"implement", "failed"} => design.items \subseteq built

\* what the diagnosis has found is to be done, or done
Underway ==
  /\ stage = "patch" /\ ~broken /\ ~unread =>
       \A i \in diagnosed : todo[i] > 0 \/ Satisfied(i)
  /\ stage = "decide" /\ ~broken /\ ~unread => \A i \in diagnosed : Satisfied(i)

IInv == TypeOK /\ DefinedOnce /\ Generated /\ EvaluatorAgrees /\ Underway /\ PassIsEarned

-----------------------------------------------------------------------------
(* The kinds of items, and what the scan looks at.                         *)

LEMMA KindsCover == UNION Kinds = Items
  BY DEF Kinds, Items

LEMMA OwnFile == \A i \in Items : i \in FileOf(i) /\ FileOf(i) \subseteq Items
  BY DEF FileOf, Items

LEMMA TextsDeclared == \A i \in Items : Texts(i) \subseteq Declared
  BY DEF Texts, Declared, Items

\* the scan finds what the code declares under its name
LEMMA UnsatisfiedNew ==
  ASSUME TypeOK, NEW i \in Items, ~Satisfied(i)
  PROVE  added[i] = 0 /\ (i \notin Endpoints => i \notin built)
<1>1. i \notin Texts(i)
  BY DEF Satisfied, Finds
<1>2. CASE i \in Endpoints
  BY <1>1, <1>2 DEF Texts, TypeOK
<1>3. CASE i \notin Endpoints
  BY <1>1, <1>3, OwnFile DEF Texts, Declared, TypeOK
<1> QED BY <1>2, <1>3

-----------------------------------------------------------------------------
(* The scores.                                                             *)

LEMMA Hundredths == \A a, b \in Nat : b > 0 /\ a <= b => (100 * a) \div b \in 0..100
  BY SMT

LEMMA ShareBounds ==
  ASSUME NEW items \in SUBSET Items, NEW seen, Specified \subseteq Items
  PROVE  Share(items, seen) \in 0..100
<1> DEFINE all == Specified \cap items
<1>1. IsFiniteSet(all)
  BY QualityAssumption, FS_Subset
<1>2. IsFiniteSet(all \cap seen) /\ Cardinality(all \cap seen) <= Cardinality(all)
  BY <1>1, FS_Subset
<1>3. Cardinality(all) \in Nat /\ Cardinality(all \cap seen) \in Nat
  BY <1>1, <1>2, FS_CardinalityType
<1>4. all # {} => Cardinality(all) > 0
  BY <1>1, <1>3, FS_EmptySet
<1> QED BY <1>2, <1>3, <1>4, Hundredths DEF Share

\* a share of the files of a list, if not more of them are unseen than are there
LEMMA StructureBounds ==
  ASSUME NEW list \in Listings \cup {Scaffold}, NEW unseen \in 0..1,
         unseen = 0 \/ list.code # {} \/ list.others > 0
  PROVE  Structure(list, unseen) \in 0..100
<1> DEFINE there == Cardinality(list.code) + list.others
<1>1. /\ list.code \subseteq CodeFiles /\ list.others \in Nat /\ list.absent \in Nat
      /\ list.code # {} \/ list.others + list.absent > 0
  BY QualityAssumption DEF Scaffold, CodeFiles
<1>2. IsFiniteSet(CodeFiles)
  <2>1. IsFiniteSet({} \cup {"models"})
    BY FS_EmptySet, FS_AddElement
  <2>2. IsFiniteSet(({} \cup {"models"}) \cup {"services"})
    BY <2>1, FS_AddElement
  <2>3. IsFiniteSet((({} \cup {"models"}) \cup {"services"}) \cup {"api"})
    BY <2>2, FS_AddElement
  <2>4. CodeFiles = (({} \cup {"models"}) \cup {"services"}) \cup {"api"}
    BY DEF CodeFiles
  <2> QED BY <2>3, <2>4
<1>3. IsFiniteSet(list.code)
  BY <1>1, <1>2, FS_Subset
<1>4. Cardinality(list.code) \in Nat /\ (list.code # {} => Cardinality(list.code) > 0)
  BY <1>3, FS_CardinalityType, FS_EmptySet
<1>5. /\ there - unseen \in Nat /\ there + list.absent \in Nat
      /\ there + list.absent > 0 /\ there - unseen <= there + list.absent
  BY <1>1, <1>4
<1> HIDE DEF there
<1>6. (100 * (there - unseen)) \div (there + list.absent) \in 0..100
  BY <1>5, Hundredths
<1> QED BY <1>6 DEF Structure, there

-----------------------------------------------------------------------------
(* Types.                                                                  *)

LEMMA WriteType ==
  ASSUME TypeOK, NEW kinds \in SUBSET {Entities, Services, Endpoints}, NEW items \in SUBSET Items,
         Write(kinds, items)
  PROVE  built' \subseteq Items /\ added' \in [Items -> Nat]
BY DEF Write, TypeOK

LEMMA GenerateType ==
  ASSUME TypeOK, NEW items \in SUBSET Items, Generate(items)
  PROVE  built' \subseteq Items /\ added' \in [Items -> Nat] /\ main' \in {"none", "scaffold", "repaired"}
<1>1. CASE files
  BY <1>1, WriteType DEF Generate, Kinds
<1>2. CASE ~files
  BY <1>2 DEF Generate, code, TypeOK
<1> QED BY <1>1, <1>2

LEMMA DesignItems == TypeOK => design.items \subseteq Items /\ Specified \subseteq Items
  BY DEF TypeOK, Designs, Specified

LEMMA StatusType == \A seen, structure : Status(seen, structure) \in {"PASS", "PARTIAL", "FAIL"}
  BY DEF Status

LEMMA JudgeType ==
  ASSUME TypeOK, NEW list, NEW lost, NEW unseen, Judge(list, lost, unseen)
  PROVE  verdict' \in {"none", "PASS", "PARTIAL", "FAIL"} /\ found' \subseteq Items
  BY StatusType, DesignItems DEF Judge

LEMMA BuildItems == TypeOK => ToBuild \subseteq Items
  BY QualityAssumption, DesignItems DEF ToBuild

LEMMA DiagnoseType ==
  ASSUME NEW report \in EvaluationReports, NEW failed, Diagnose(report, failed)
  PROVE  /\ todo' \in [Items -> 0..2]
         /\ fixMain' \in BOOLEAN /\ broken' \in BOOLEAN
         /\ issue' \in {"none", "structural", "runtime"}
         /\ diagnosed' \subseteq Items
<1>1. \A i \in Items : Mentions(i) \in 0..2
  BY DEF Mentions
<1>2. todo' \in [Items -> 0..2] /\ diagnosed' \subseteq Items
  BY <1>1 DEF Diagnose, EvaluationReports
<1>3. fixMain' \in BOOLEAN
  BY Zenon DEF Diagnose
<1>4. broken' \in BOOLEAN /\ issue' \in {"none", "structural", "runtime"}
  BY DEF Diagnose
<1> QED BY <1>2, <1>3, <1>4

LEMMA FailedChecks ==
  ASSUME TypeOK
  PROVE  execution.failed \in SUBSET Checks /\ {} \in SUBSET Checks
<1>1. CASE \E f \in SUBSET {"config", "routes"} :
             execution = [passed |-> Checks \ f, failed |-> f, success |-> TRUE]
  BY <1>1 DEF Checks
<1>2. CASE execution = [passed |-> {}, failed |-> Checks, success |-> FALSE]
  BY <1>2
<1>3. CASE execution = [passed |-> {}, failed |-> {}, success |-> FALSE]
  BY <1>3
<1> QED BY <1>1, <1>2, <1>3 DEF TypeOK, ExecutionReports

LEMMA InstructionType ==
  ASSUME TypeOK, NEW i \in Items, Instruction(i)
  PROVE  todo' \in [Items -> 0..2]
<1>1. todo[i] - 1 \in 0..2
  BY DEF Instruction, TypeOK
<1> QED BY <1>1 DEF Instruction, TypeOK

LEMMA TypeStep ==
  TypeOK /\ [Next]_vars => TypeOK'
<1>1. SUFFICES ASSUME TypeOK, [Next]_vars
      PROVE  TypeOK'
  OBVIOUS
<1>2. CASE Implement
  <2>1. built' \subseteq Items /\ added' \in [Items -> Nat] /\ main' \in {"none", "scaffold", "repaired"}
    BY <1>1, <1>2, GenerateType, BuildItems DEF Implement
  <2> QED BY <1>1, <1>2, <2>1 DEF Implement, Stages, TypeOK, inputs, code, plan, judged, accidents, Goto, Unread, Unwritten, Fault
<1>3. CASE Validate
  BY <1>1, <1>3, QualityAssumption DEF Validate, Stages, TypeOK, inputs, code, plan, judged, accidents, Goto, Unread, Unwritten, Fault
<1>4. CASE Evaluate
  BY <1>1, <1>4, JudgeType DEF Evaluate, Stages, TypeOK, inputs, code, plan, judged, accidents, Goto, Unread, Unwritten, Fault
<1>5. CASE StartRepair
  <2>1. \E report \in EvaluationReports, failed \in SUBSET Checks : Diagnose(report, failed)
    BY <1>1, <1>5, FailedChecks DEF StartRepair, TypeOK, NoReport, EvaluationReports
  <2> QED BY <1>1, <1>5, <2>1, DiagnoseType DEF StartRepair, Stages, TypeOK, inputs, code, plan, judged, accidents, Goto, Unread, Unwritten, Fault
<1>6. CASE \E i \in Items : Skip(i)
  BY <1>1, <1>6, InstructionType DEF Skip, Instruction, TypeOK, inputs, code, plan, judged, accidents, Goto, Unread, Unwritten, Fault
<1>7. CASE \E i \in Items : Append(i)
  <2>1. PICK i \in Items : Append(i)
    BY <1>1, <1>7
  <2>2. added' \in [Items -> Nat]
    BY <1>1, <1>7, <2>1 DEF Append, TypeOK
  <2> QED BY <1>1, <1>7, <2>1, <2>2, InstructionType DEF Append, Instruction, TypeOK, inputs, code, plan, judged, accidents, Goto, Unread, Unwritten, Fault
<1>8. CASE Rewrite
  <2>1. main' \in {"none", "scaffold", "repaired"} /\ broken' \in BOOLEAN
    BY <1>1, <1>8 DEF Rewrite, TypeOK
  <2>2. faults' \in 0..MaxFaults
    BY <1>1, <1>8, QualityAssumption DEF Rewrite, Unwritten, Fault, TypeOK
  <2>3. unread' \in BOOLEAN /\ fixMain' \in BOOLEAN
    BY <1>1, <1>8 DEF Rewrite, Unwritten, TypeOK
  <2> QED BY <1>1, <1>8, <2>1, <2>2, <2>3 DEF Rewrite, TypeOK, inputs, code, plan, judged, accidents, Goto, Unread, Unwritten, Fault
<1>9. CASE Conclude
  BY <1>1, <1>9, QualityAssumption DEF Conclude, Asked, Stages, Decisions, TypeOK, inputs, code, plan, judged, accidents, Goto, Unread, Unwritten, Fault
<1>10. CASE Reroute
  BY <1>1, <1>10, QualityAssumption DEF Reroute, Stages, TypeOK, inputs, code, plan, judged, accidents, Goto, Unread, Unwritten, Fault
<1>11. CASE Proceed
  BY <1>1, <1>11, QualityAssumption DEF Proceed, Stages, TypeOK, inputs, code, plan, judged, accidents, Goto, Unread, Unwritten, Fault
<1>12. CASE ImplementBlindly
  <2>1. built' \subseteq Items /\ added' \in [Items -> Nat] /\ main' \in {"none", "scaffold", "repaired"}
    BY <1>1, <1>12, QualityAssumption, GenerateType DEF ImplementBlindly
  <2> QED BY <1>1, <1>12, <2>1, QualityAssumption DEF ImplementBlindly, Stages, TypeOK, inputs, code, plan, judged, accidents, Goto, Unread, Unwritten, Fault
<1>13. CASE ImplementFails
  <2>1. built' \subseteq Items /\ added' \in [Items -> Nat]
    BY <1>1, <1>13, WriteType, BuildItems DEF ImplementFails, Kinds
  <2> QED BY <1>1, <1>13, <2>1, QualityAssumption DEF ImplementFails, Stages, TypeOK, inputs, code, plan, judged, accidents, Goto, Unread, Unwritten, Fault
<1>14. CASE Fails
  BY <1>1, <1>14, QualityAssumption DEF Fails, Stages, TypeOK, inputs, code, plan, judged, accidents, Goto, Unread, Unwritten, Fault
<1>15. CASE EvaluateBlindly
  <2>1. verdict' \in {"none", "PASS", "PARTIAL", "FAIL"}
    BY <1>1, <1>15, JudgeType DEF EvaluateBlindly
  <2>2. found' \subseteq Items
    BY <1>1, <1>15, JudgeType, DesignItems DEF EvaluateBlindly
  <2> QED BY <1>1, <1>15, <2>1, <2>2, QualityAssumption DEF EvaluateBlindly, Stages, TypeOK, inputs, code, plan, judged, accidents, Goto, Unread, Unwritten, Fault
<1>16. CASE Replaced
  BY <1>1, <1>16, QualityAssumption DEF Replaced, Stages, TypeOK, inputs, code, plan, judged, accidents, Goto, Unread, Unwritten, Fault
<1>17. CASE StartRepairBlindly
  <2>1. \E report \in EvaluationReports, failed \in SUBSET Checks : Diagnose(report, failed)
    BY <1>1, <1>17, FailedChecks DEF StartRepairBlindly, TypeOK, NoReport, EvaluationReports
  <2> QED BY <1>1, <1>17, <2>1, QualityAssumption, DiagnoseType DEF StartRepairBlindly, Stages, TypeOK, inputs, code, plan, judged, accidents, Goto, Unread, Unwritten, Fault
<1>18. CASE \E i \in Items : AppendFails(i)
  BY <1>1, <1>18, QualityAssumption, InstructionType DEF AppendFails, Instruction, TypeOK, inputs, code, plan, judged, accidents, Goto, Unread, Unwritten, Fault
<1>19. CASE \E i \in Items : AppendBlindly(i)
  <2>1. PICK i \in Items : AppendBlindly(i)
    BY <1>1, <1>19
  <2>2. todo[i] - 1 \in 0..2
    BY <1>1, <1>19, <2>1 DEF AppendBlindly, TypeOK
  <2>3. todo' \in [Items -> 0..2] /\ added' \in [Items -> Nat] /\ built' \subseteq Items
    BY <1>1, <1>19, <2>1, <2>2 DEF AppendBlindly, TypeOK
  <2> QED BY <1>1, <1>19, <2>1, <2>3, QualityAssumption DEF AppendBlindly, TypeOK, inputs, code, plan, judged, accidents, Goto, Unread, Unwritten, Fault
<1>20. CASE UNCHANGED vars
  BY <1>1, <1>20 DEF vars, TypeOK, inputs, code, plan, judged, accidents, Goto, Unread, Unwritten, Fault
<1> QED
  BY <1>1, <1>2, <1>3, <1>4, <1>5, <1>6, <1>7, <1>8, <1>9, <1>10, <1>11, <1>12, <1>13, <1>14, <1>15, <1>16, <1>17, <1>18, <1>19, <1>20 DEF Next, LoopStep, Patch, Accident

-----------------------------------------------------------------------------
(* Nothing is declared twice.                                              *)

LEMMA WriteOnce ==
  ASSUME TypeOK, DefinedOnce, NEW kinds \in SUBSET {Entities, Services, Endpoints}, NEW items,
         Write(kinds, items)
  PROVE  DefinedOnce'
<1>1. SUFFICES ASSUME NEW i \in Items
      PROVE  added'[i] <= 1 /\ (i \notin Endpoints /\ i \in built' => added'[i] = 0)
  BY DEF DefinedOnce
<1>2. CASE i \in UNION kinds
  BY <1>1, <1>2 DEF Write
<1>3. CASE i \notin UNION kinds
  BY <1>1, <1>3 DEF Write, DefinedOnce
<1> QED BY <1>2, <1>3

LEMMA GenerateOnce ==
  ASSUME TypeOK, DefinedOnce, NEW items, Generate(items)
  PROVE  DefinedOnce'
  BY WriteOnce DEF Generate, Kinds, code, DefinedOnce

LEMMA OnceStep ==
  TypeOK /\ DefinedOnce /\ [Next]_vars => DefinedOnce'
<1>1. SUFFICES ASSUME TypeOK, DefinedOnce, [Next]_vars
      PROVE  DefinedOnce'
  OBVIOUS
<1>2. CASE Implement
  BY <1>1, <1>2, GenerateOnce DEF Implement
<1>3. CASE Validate
  BY <1>1, <1>3 DEF Validate, DefinedOnce, code
<1>4. CASE Evaluate
  BY <1>1, <1>4 DEF Evaluate, DefinedOnce, code
<1>5. CASE StartRepair
  BY <1>1, <1>5 DEF StartRepair, DefinedOnce, code
<1>6. CASE \E i \in Items : Skip(i)
  BY <1>1, <1>6 DEF Skip, Instruction, DefinedOnce
<1>7. CASE \E i \in Items : Append(i)
  <2>1. PICK i \in Items : Append(i)
    BY <1>1, <1>7
  <2>2. added[i] = 0 /\ (i \notin Endpoints => i \notin built)
    BY <1>1, <1>7, <2>1, UnsatisfiedNew DEF Append
  <2> QED BY <1>1, <1>7, <2>1, <2>2 DEF Append, Instruction, TypeOK, DefinedOnce
<1>8. CASE Rewrite
  BY <1>1, <1>8 DEF Rewrite, DefinedOnce, code
<1>9. CASE Conclude
  BY <1>1, <1>9 DEF Conclude, DefinedOnce, code
<1>10. CASE Reroute
  BY <1>1, <1>10 DEF Reroute, DefinedOnce, code
<1>11. CASE Proceed
  BY <1>1, <1>11 DEF Proceed, DefinedOnce, code
<1>12. CASE ImplementBlindly
  BY <1>1, <1>12, GenerateOnce DEF ImplementBlindly
<1>13. CASE ImplementFails
  BY <1>1, <1>13, WriteOnce DEF ImplementFails, Kinds
<1>14. CASE Fails
  BY <1>1, <1>14 DEF Fails, DefinedOnce, code
<1>15. CASE EvaluateBlindly
  BY <1>1, <1>15 DEF EvaluateBlindly, DefinedOnce, code
<1>16. CASE Replaced
  BY <1>1, <1>16 DEF Replaced, DefinedOnce, code
<1>17. CASE StartRepairBlindly
  BY <1>1, <1>17 DEF StartRepairBlindly, DefinedOnce, code
<1>18. CASE \E i \in Items : AppendFails(i)
  BY <1>1, <1>18 DEF AppendFails, Instruction, DefinedOnce
<1>19. CASE \E i \in Items : AppendBlindly(i)
  <2>1. PICK i \in Items : AppendBlindly(i)
    BY <1>1, <1>19
  <2>2. SUFFICES ASSUME NEW j \in Items
        PROVE  added'[j] <= 1 /\ (j \notin Endpoints /\ j \in built' => added'[j] = 0)
    BY DEF DefinedOnce
  <2>3. CASE j \in FileOf(i)
    BY <1>1, <1>19, <2>1, <2>2, <2>3 DEF AppendBlindly
  <2>4. CASE j \notin FileOf(i)
    BY <1>1, <1>19, <2>1, <2>2, <2>4, OwnFile DEF AppendBlindly, DefinedOnce
  <2> QED BY <2>3, <2>4
<1>20. CASE UNCHANGED vars
  BY <1>1, <1>20 DEF vars, DefinedOnce, code
<1> QED
  BY <1>1, <1>2, <1>3, <1>4, <1>5, <1>6, <1>7, <1>8, <1>9, <1>10, <1>11, <1>12, <1>13, <1>14, <1>15, <1>16, <1>17, <1>18, <1>19, <1>20 DEF Next, LoopStep, Patch, Accident

-----------------------------------------------------------------------------
(* The code has what the design names.                                     *)

LEMMA GeneratedStep ==
  TypeOK /\ Generated /\ [Next]_vars => Generated'
<1>1. SUFFICES ASSUME TypeOK, Generated, [Next]_vars
      PROVE  Generated'
  OBVIOUS
<1>2. CASE Implement
  <2>1. CASE files
    <3>1. design.items \subseteq ToBuild
      BY <1>1 DEF TypeOK, Designs, ToBuild
    <3> QED BY <1>1, <1>2, <2>1, <3>1, KindsCover, DesignItems DEF Implement, Generate, Write, Generated, inputs
  <2>2. CASE ~files
    BY <1>1, <1>2, <2>2 DEF Implement, Generated, inputs
  <2> QED BY <2>1, <2>2
<1>3. CASE Validate
  BY <1>1, <1>3 DEF Validate, Generated, inputs, code, accidents, Goto
<1>4. CASE Evaluate
  BY <1>1, <1>4 DEF Evaluate, Generated, inputs, code, accidents, Goto
<1>5. CASE StartRepair
  BY <1>1, <1>5 DEF StartRepair, Generated, inputs, code, accidents, Goto
<1>6. CASE \E i \in Items : Skip(i)
  BY <1>1, <1>6 DEF Skip, Instruction, Generated, inputs, code, accidents, Goto
<1>7. CASE \E i \in Items : Append(i)
  BY <1>1, <1>7 DEF Append, Instruction, Generated, inputs, code, accidents, Goto
<1>8. CASE Rewrite
  BY <1>1, <1>8 DEF Rewrite, Unwritten, Generated, inputs, code, accidents, Goto
<1>9. CASE Conclude
  BY <1>1, <1>9 DEF Conclude, Unwritten, Generated, inputs, code, accidents, Goto
<1>10. CASE Reroute
  BY <1>1, <1>10 DEF Reroute, Generated, inputs, code, accidents, Goto
<1>11. CASE Proceed
  BY <1>1, <1>11 DEF Proceed, Generated, inputs, code, accidents, Goto
<1>12. CASE ImplementBlindly
  BY <1>1, <1>12 DEF ImplementBlindly, Unread, Generated
<1>13. CASE ImplementFails
  BY <1>1, <1>13 DEF ImplementFails, Generated
<1>14. CASE Fails
  BY <1>1, <1>14 DEF Fails, Generated, inputs, code, accidents, Goto
<1>15. CASE EvaluateBlindly
  BY <1>1, <1>15 DEF EvaluateBlindly, Unread, Generated
<1>16. CASE Replaced
  BY <1>1, <1>16 DEF Replaced, Generated, inputs, code, accidents, Goto
<1>17. CASE StartRepairBlindly
  BY <1>1, <1>17 DEF StartRepairBlindly, Unread, Generated
<1>18. CASE \E i \in Items : AppendFails(i)
  BY <1>1, <1>18 DEF AppendFails, Instruction, Unwritten, Generated, inputs, code, accidents, Goto
<1>19. CASE \E i \in Items : AppendBlindly(i)
  BY <1>1, <1>19 DEF AppendBlindly, Unread, Generated
<1>20. CASE UNCHANGED vars
  BY <1>1, <1>20 DEF vars, Generated, inputs, code, accidents, Goto
<1> QED
  BY <1>1, <1>2, <1>3, <1>4, <1>5, <1>6, <1>7, <1>8, <1>9, <1>10, <1>11, <1>12, <1>13, <1>14, <1>15, <1>16, <1>17, <1>18, <1>19, <1>20 DEF Next, LoopStep, Patch, Accident

LEMMA AgreesStep ==
  TypeOK /\ Generated /\ EvaluatorAgrees /\ [Next]_vars => EvaluatorAgrees'
<1>1. SUFFICES ASSUME TypeOK, Generated, EvaluatorAgrees, [Next]_vars
      PROVE  EvaluatorAgrees'
  OBVIOUS
<1>2. CASE Implement
  BY <1>1, <1>2 DEF Implement, Specified, Listed, EvaluatorAgrees, inputs, judged, accidents
<1>3. CASE Validate
  BY <1>1, <1>3 DEF Validate, Specified, Listed, EvaluatorAgrees, inputs, judged, accidents
<1>4. CASE Evaluate
  <2>1. UNCHANGED <<files, design, listed, unread>>
    BY <1>4 DEF Evaluate, inputs, accidents
  <2>2. found' = Specified \ (Declared \cap Within(Listed.code))
    BY <1>4 DEF Evaluate, Judge
  <2>3. ~unread => Specified \subseteq Declared
    BY <1>1, <1>4 DEF Evaluate, Goto, Generated, Specified, Declared
  <2>4. Specified' = Specified /\ Within(Listed.code)' = Within(Listed.code)
    BY <2>1 DEF Specified, Listed, Scaffold, Within, Content
  <2> QED BY <2>1, <2>2, <2>3, <2>4 DEF EvaluatorAgrees
<1>5. CASE StartRepair
  BY <1>1, <1>5 DEF StartRepair, Specified, Listed, EvaluatorAgrees, inputs, judged, accidents
<1>6. CASE \E i \in Items : Skip(i)
  BY <1>1, <1>6 DEF Skip, Instruction, Specified, Listed, EvaluatorAgrees, inputs, judged, accidents
<1>7. CASE \E i \in Items : Append(i)
  BY <1>1, <1>7 DEF Append, Instruction, Specified, Listed, EvaluatorAgrees, inputs, judged, accidents
<1>8. CASE Rewrite
  BY <1>1, <1>8 DEF Rewrite, Unwritten, Specified, Listed, EvaluatorAgrees, inputs, judged, accidents
<1>9. CASE Conclude
  BY <1>1, <1>9 DEF Conclude, Unwritten, Specified, Listed, EvaluatorAgrees, inputs, judged, accidents
<1>10. CASE Reroute
  BY <1>1, <1>10 DEF Reroute, Specified, Listed, EvaluatorAgrees, inputs, judged, accidents
<1>11. CASE Proceed
  BY <1>1, <1>11 DEF Proceed, Specified, Listed, EvaluatorAgrees, inputs, judged, accidents
<1>12. CASE ImplementBlindly
  BY <1>1, <1>12 DEF ImplementBlindly, Unread, EvaluatorAgrees
<1>13. CASE ImplementFails
  BY <1>1, <1>13 DEF ImplementFails, Unwritten, Specified, Listed, EvaluatorAgrees, inputs, judged, accidents
<1>14. CASE Fails
  BY <1>1, <1>14 DEF Fails, Specified, Listed, EvaluatorAgrees, inputs, judged, accidents
<1>15. CASE EvaluateBlindly
  BY <1>1, <1>15 DEF EvaluateBlindly, Unread, EvaluatorAgrees
<1>16. CASE Replaced
  BY <1>1, <1>16 DEF Replaced, Specified, Listed, EvaluatorAgrees, inputs, judged, accidents
<1>17. CASE StartRepairBlindly
  BY <1>1, <1>17 DEF StartRepairBlindly, Unread, EvaluatorAgrees
<1>18. CASE \E i \in Items : AppendFails(i)
  BY <1>1, <1>18 DEF AppendFails, Instruction, Unwritten, Specified, Listed, EvaluatorAgrees, inputs, judged, accidents
<1>19. CASE \E i \in Items : AppendBlindly(i)
  BY <1>1, <1>19 DEF AppendBlindly, Unread, EvaluatorAgrees
<1>20. CASE UNCHANGED vars
  BY <1>1, <1>20 DEF vars, Specified, Listed, EvaluatorAgrees, inputs, judged, accidents
<1> QED
  BY <1>1, <1>2, <1>3, <1>4, <1>5, <1>6, <1>7, <1>8, <1>9, <1>10, <1>11, <1>12, <1>13, <1>14, <1>15, <1>16, <1>17, <1>18, <1>19, <1>20 DEF Next, LoopStep, Patch, Accident

-----------------------------------------------------------------------------
(* Every item of the diagnosis is to be done, or done.                     *)

LEMMA SatisfiedSame ==
  UNCHANGED <<built, added>> => \A i \in Items : Satisfied(i)' <=> Satisfied(i)
  BY DEF Satisfied, Finds, Texts, Declared

LEMMA SatisfiedKept ==
  ASSUME TypeOK, NEW i \in Items, NEW j \in Items, Append(j), Satisfied(i)
  PROVE  Satisfied(i)'
<1>1. built' = built /\ \A k \in Items : added[k] > 0 => added'[k] > 0
  BY DEF Append, Instruction, TypeOK
<1>2. CASE i \in Endpoints
  BY <1>1, <1>2 DEF Texts, Satisfied, Finds, Items
<1>3. CASE i \notin Endpoints
  <2>1. Declared \subseteq Declared'
    BY <1>1 DEF Declared
  <2>2. FileOf(i)' = FileOf(i)
    BY DEF FileOf
  <2> QED BY <1>3, <2>1, <2>2 DEF Texts, Satisfied, Finds
<1> QED BY <1>2, <1>3

LEMMA AppendedFound ==
  ASSUME TypeOK, NEW i \in Items, Append(i)
  PROVE  Satisfied(i)'
<1>1. added'[i] > 0
  BY DEF Append, Instruction, TypeOK
<1>2. i \in Texts(i)'
  BY <1>1, OwnFile DEF Texts, Declared
<1> QED BY <1>2 DEF Satisfied, Finds

LEMMA UnderwayStep ==
  TypeOK /\ Underway /\ [Next]_vars => Underway'
<1>1. SUFFICES ASSUME TypeOK, Underway, [Next]_vars
      PROVE  Underway'
  OBVIOUS
<1>2. CASE Implement
  BY <1>1, <1>2 DEF Implement, Underway, plan, accidents, Goto
<1>3. CASE Validate
  BY <1>1, <1>3 DEF Validate, Underway, plan, accidents, Goto
<1>4. CASE Evaluate
  BY <1>1, <1>4 DEF Evaluate, Underway, plan, accidents, Goto
<1>5. CASE StartRepair
  <2>1. SUFFICES ASSUME NEW i \in diagnosed' PROVE todo'[i] > 0
    BY <1>1, <1>5 DEF StartRepair, Goto, Underway
  <2>2. PICK report \in EvaluationReports, failed \in SUBSET Checks : Diagnose(report, failed)
    BY <1>1, <1>5, FailedChecks DEF StartRepair, TypeOK, NoReport, EvaluationReports
  <2>3. i \in Items /\ todo'[i] = Mentions(i)
    BY <2>1, <2>2 DEF Diagnose, EvaluationReports
  <2> QED BY <2>3 DEF Mentions
<1>6. CASE \E i \in Items : Skip(i)
  <2>1. PICK i \in Items : Skip(i)
    BY <1>1, <1>6
  <2>2. stage' = "patch" /\ diagnosed' = diagnosed /\ UNCHANGED <<built, added>>
    BY <1>1, <1>6, <2>1 DEF Skip, Instruction
  <2>3. \A j \in Items : Satisfied(j)' <=> Satisfied(j)
    BY <2>2, SatisfiedSame
  <2>4. \A j \in Items : j # i => todo'[j] = todo[j]
    BY <2>1 DEF Skip, Instruction, TypeOK
  <2>5. diagnosed \subseteq Items /\ Satisfied(i)
    BY <1>1, <1>6, <2>1 DEF TypeOK, Skip
  <2> QED BY <1>1, <1>6, <2>1, <2>2, <2>3, <2>4, <2>5 DEF Skip, Instruction, Underway
<1>7. CASE \E i \in Items : Append(i)
  <2>1. PICK i \in Items : Append(i)
    BY <1>1, <1>7
  <2>2. stage' = "patch" /\ diagnosed' = diagnosed /\ diagnosed \subseteq Items
    BY <1>1, <1>7, <2>1 DEF Append, Instruction, TypeOK
  <2>3. \A j \in Items : Satisfied(j) => Satisfied(j)'
    BY <1>1, <1>7, <2>1, SatisfiedKept
  <2>4. \A j \in Items : j # i => todo'[j] = todo[j]
    BY <2>1 DEF Append, Instruction, TypeOK
  <2>5. Satisfied(i)'
    BY <1>1, <1>7, <2>1, AppendedFound
  <2> QED BY <1>1, <1>7, <2>1, <2>2, <2>3, <2>4, <2>5 DEF Append, Instruction, Underway
<1>8. CASE Rewrite
  <2>1. \A j \in Items : Satisfied(j)' <=> Satisfied(j)
    BY <1>1, <1>8, SatisfiedSame DEF Rewrite
  <2> QED BY <1>1, <1>8, <2>1 DEF Rewrite, Unwritten, Underway, TypeOK
<1>9. CASE Conclude
  <2>1. \A j \in Items : Satisfied(j)' <=> Satisfied(j)
    BY <1>1, <1>9, SatisfiedSame DEF Conclude, code
  <2>2. \A j \in Items : ~(todo[j] > 0)
    BY <1>1, <1>9 DEF Conclude, Nothing
  <2> QED BY <1>1, <1>9, <2>1, <2>2 DEF Conclude, Goto, Unwritten, plan, Underway, TypeOK
<1>10. CASE Reroute
  BY <1>1, <1>10 DEF Reroute, Underway, plan, accidents, Goto
<1>11. CASE Proceed
  BY <1>1, <1>11 DEF Proceed, Underway, plan, accidents, Goto
<1>12. CASE ImplementBlindly
  BY <1>1, <1>12 DEF ImplementBlindly, Unread, Underway
<1>13. CASE ImplementFails
  BY <1>1, <1>13 DEF ImplementFails, Underway, plan, accidents, Goto
<1>14. CASE Fails
  BY <1>1, <1>14 DEF Fails, Underway, plan, accidents, Goto
<1>15. CASE EvaluateBlindly
  BY <1>1, <1>15 DEF EvaluateBlindly, Unread, Underway
<1>16. CASE Replaced
  BY <1>1, <1>16 DEF Replaced, Underway
<1>17. CASE StartRepairBlindly
  BY <1>1, <1>17 DEF StartRepairBlindly, Unread, Underway
<1>18. CASE \E i \in Items : AppendFails(i)
  BY <1>1, <1>18 DEF AppendFails, Instruction, Underway
<1>19. CASE \E i \in Items : AppendBlindly(i)
  BY <1>1, <1>19 DEF AppendBlindly, Unread, Underway
<1>20. CASE UNCHANGED vars
  <2>1. \A j \in Items : Satisfied(j)' <=> Satisfied(j)
    BY <1>1, <1>20, SatisfiedSame DEF vars, code
  <2> QED BY <1>1, <1>20, <2>1 DEF vars, plan, accidents, Underway, TypeOK
<1> QED
  BY <1>1, <1>2, <1>3, <1>4, <1>5, <1>6, <1>7, <1>8, <1>9, <1>10, <1>11, <1>12, <1>13, <1>14, <1>15, <1>16, <1>17, <1>18, <1>19, <1>20 DEF Next, LoopStep, Patch, Accident

-----------------------------------------------------------------------------
(* A verdict PASS is earned.                                               *)

LEMMA NoneSeen ==
  ASSUME NEW items \in SUBSET Items, NEW seen, Specified \subseteq Items,
         Specified \cap items # {}, Specified \cap items \cap seen = {}
  PROVE  Share(items, seen) = 0
<1> DEFINE all == Specified \cap items
<1>1. IsFiniteSet(all)
  BY QualityAssumption, FS_Subset
<1>2. Cardinality(all) \in Nat /\ Cardinality(all) # 0
  BY <1>1, FS_CardinalityType, FS_EmptySet
<1>3. Cardinality(all \cap seen) = 0
  BY FS_EmptySet
<1>4. \A c \in Nat : c # 0 => (100 * 0) \div c = 0
  BY SMT
<1> QED BY <1>2, <1>3, <1>4 DEF Share

LEMMA PassScore ==
  ASSUME TypeOK, NEW seen, NEW structure \in 0..100, Status(seen, structure) = "PASS",
         NEW kind \in {Entities, Services}, kind \cap design.items # {}
  PROVE  Succeeded /\ kind \cap design.items \cap seen # {}
<1>1. Succeeded /\ Score(seen, structure) >= 850
  BY DEF Status
<1>2. Specified = design.items /\ Specified \subseteq Items
  BY <1>1, DesignItems DEF Succeeded, Specified
<1>3. /\ Share(Endpoints, seen) \in 0..100
      /\ Share(Entities, seen) \in 0..100
      /\ Share(Services, seen) \in 0..100
  BY <1>2, ShareBounds DEF Items
<1>4. RuntimeScore \in 0..200
  BY DEF RuntimeScore, Points
<1>5. ASSUME kind \cap design.items \cap seen = {} PROVE FALSE
  <2>1. Share(kind, seen) = 0
    BY <1>2, <1>5, NoneSeen DEF Items
  <2> DEFINE p == Share(Endpoints, seen)
             e == Share(Entities, seen)
             v == Share(Services, seen)
  <2>2. /\ ArchitectureScore(seen, structure) = IF Readable THEN structure + e + v ELSE 0
        /\ ImplementationScore(seen) = IF Readable THEN p + e + v ELSE 0
    BY DEF ArchitectureScore, ImplementationScore
  <2>3. /\ structure \in 0..100 /\ p \in 0..100 /\ e \in 0..100 /\ v \in 0..100
        /\ e = 0 \/ v = 0
    BY <1>3, <2>1
  <2>4. /\ ArchitectureScore(seen, structure) \in 0..300 /\ ImplementationScore(seen) \in 0..300
        /\ ArchitectureScore(seen, structure) + ImplementationScore(seen) \in 0..400
    <3> HIDE DEF p, e, v
    <3>1. CASE Readable
      <4>1. structure + e + v \in 0..300 /\ p + e + v \in 0..300 /\ structure + e + v + (p + e + v) \in 0..400
        BY <2>3
      <4> QED BY <2>2, <3>1, <4>1
    <3>2. CASE ~Readable
      BY <2>2, <3>2
    <3> QED BY <3>1, <3>2
  <2> QED BY <1>1, <1>4, <2>4 DEF Score, PipelineScore
<1> QED BY <1>1, <1>5

\* a PASS that is given to a list of files rests on what the design names
LEMMA PassJudged ==
  ASSUME TypeOK, NEW list \in Listings \cup {Scaffold}, NEW lost, NEW unseen \in 0..1,
         unseen = 0 \/ list.code # {} \/ list.others > 0,
         Judge(list, lost, unseen), UNCHANGED inputs, verdict' = "PASS"
  PROVE  PassIsEarned'
<1> DEFINE seen == Declared \cap Within(list.code \ lost)
<1>1. Structure(list, unseen) \in 0..100
  BY StructureBounds
<1>2. Status(seen, Structure(list, unseen)) = "PASS" /\ found' = Specified \ seen
  BY DEF Judge
<1>3. Succeeded /\ Specified = design.items
  BY <1>2 DEF Status, Succeeded, Specified
<1>4. \A kind \in {Entities, Services} :
        kind \cap design.items # {} => kind \cap design.items \cap seen # {}
  BY <1>1, <1>2, PassScore
<1> QED BY <1>2, <1>3, <1>4 DEF PassIsEarned, Succeeded, inputs

LEMMA PassStep ==
  TypeOK /\ PassIsEarned /\ [Next]_vars => PassIsEarned'
<1>1. SUFFICES ASSUME TypeOK, PassIsEarned, [Next]_vars
      PROVE  PassIsEarned'
  OBVIOUS
<1>2. CASE Implement
  BY <1>1, <1>2 DEF Implement, PassIsEarned, Succeeded, inputs, judged
<1>3. CASE Validate
  BY <1>1, <1>3 DEF Validate, PassIsEarned, Succeeded, inputs, judged
<1>4. CASE Evaluate
  <2>1. SUFFICES ASSUME verdict' = "PASS" PROVE PassIsEarned'
    BY DEF PassIsEarned
  <2>2. Judge(Listed, {}, 0) /\ UNCHANGED inputs /\ Listed \in Listings \cup {Scaffold}
    BY <1>1, <1>4 DEF Evaluate, Listed, TypeOK
  <2> QED BY <1>1, <2>1, <2>2, PassJudged
<1>5. CASE StartRepair
  BY <1>1, <1>5 DEF StartRepair, PassIsEarned, Succeeded, inputs, judged
<1>6. CASE \E i \in Items : Skip(i)
  BY <1>1, <1>6 DEF Skip, Instruction, PassIsEarned, Succeeded, inputs, judged
<1>7. CASE \E i \in Items : Append(i)
  BY <1>1, <1>7 DEF Append, Instruction, PassIsEarned, Succeeded, inputs, judged
<1>8. CASE Rewrite
  BY <1>1, <1>8 DEF Rewrite, PassIsEarned, Succeeded, inputs, judged
<1>9. CASE Conclude
  BY <1>1, <1>9 DEF Conclude, PassIsEarned, Succeeded, inputs, judged
<1>10. CASE Reroute
  BY <1>1, <1>10 DEF Reroute, PassIsEarned, Succeeded, inputs, judged
<1>11. CASE Proceed
  BY <1>1, <1>11 DEF Proceed, PassIsEarned, Succeeded, inputs, judged
<1>12. CASE ImplementBlindly
  BY <1>1, <1>12 DEF ImplementBlindly, PassIsEarned, Succeeded, inputs, judged
<1>13. CASE ImplementFails
  BY <1>1, <1>13 DEF ImplementFails, PassIsEarned, Succeeded, inputs, judged
<1>14. CASE Fails
  BY <1>1, <1>14 DEF Fails, PassIsEarned, Succeeded, inputs, judged
<1>15. CASE EvaluateBlindly
  <2>1. SUFFICES ASSUME verdict' = "PASS" PROVE PassIsEarned'
    BY DEF PassIsEarned
  <2>2. UNCHANGED inputs /\ listed \in Listings \cup {Scaffold}
    BY <1>1, <1>15 DEF EvaluateBlindly, TypeOK
  <2>3. CASE \E file \in listed.code : Judge(listed, {file}, 1)
    BY <1>1, <2>1, <2>2, <2>3, PassJudged
  <2>4. CASE listed.others > 0 /\ Judge(listed, {}, 1)
    BY <1>1, <2>1, <2>2, <2>4, PassJudged
  <2>5. CASE Judge(Scaffold, {}, 0)
    BY <1>1, <2>1, <2>2, <2>5, PassJudged
  <2> QED BY <1>15, <2>1, <2>3, <2>4, <2>5 DEF EvaluateBlindly
<1>16. CASE Replaced
  BY <1>1, <1>16 DEF Replaced, PassIsEarned, Succeeded, inputs, judged
<1>17. CASE StartRepairBlindly
  BY <1>1, <1>17 DEF StartRepairBlindly, PassIsEarned, Succeeded, inputs, judged
<1>18. CASE \E i \in Items : AppendFails(i)
  BY <1>1, <1>18 DEF AppendFails, Instruction, PassIsEarned, Succeeded, inputs, judged
<1>19. CASE \E i \in Items : AppendBlindly(i)
  BY <1>1, <1>19 DEF AppendBlindly, PassIsEarned, Succeeded, inputs, judged
<1>20. CASE UNCHANGED vars
  BY <1>1, <1>20 DEF vars, PassIsEarned, Succeeded, inputs, judged
<1> QED
  BY <1>1, <1>2, <1>3, <1>4, <1>5, <1>6, <1>7, <1>8, <1>9, <1>10, <1>11, <1>12, <1>13, <1>14, <1>15, <1>16, <1>17, <1>18, <1>19, <1>20 DEF Next, LoopStep, Patch, Accident

-----------------------------------------------------------------------------
LEMMA InitIInv == Init => IInv
<1> SUFFICES ASSUME Init PROVE IInv
  OBVIOUS
<1> USE DEF Init
<1>1. TypeOK
  <2>1. loop \in 0..(MaxLoops - 1) /\ outside \in 0..MaxOutside /\ faults \in 0..MaxFaults
    BY QualityAssumption
  <2>2. added \in [Items -> Nat] /\ todo \in [Items -> 0..2]
    BY DEF Nothing
  <2> QED BY <2>1, <2>2 DEF TypeOK, Stages, Decisions
<1>2. DefinedOnce
  BY DEF DefinedOnce, Nothing
<1>3. Generated /\ EvaluatorAgrees /\ Underway /\ PassIsEarned
  BY DEF Generated, EvaluatorAgrees, Underway, PassIsEarned
<1> QED BY <1>1, <1>2, <1>3 DEF IInv

LEMMA IInvStep == IInv /\ [Next]_vars => IInv'
  BY TypeStep, OnceStep, GeneratedStep, AgreesStep, UnderwayStep, PassStep DEF IInv

LEMMA IInvAlways == Spec => []IInv
  BY InitIInv, IInvStep, PTL DEF Spec

-----------------------------------------------------------------------------
(* Theorems                                                                *)

\* The variables of the loop keep their types, the loop number its bound.
THEOREM QualityTypeCorrect == Spec => []TypeOK
<1>1. IInv => TypeOK
  BY DEF IInv
<1> QED BY <1>1, IInvAlways, PTL

\* However often repair.py:291-368 is repeated, the code declares a class once
\* and has one repaired route for an endpoint.
THEOREM NothingDefinedTwice == Spec => []DefinedOnce
<1>1. IInv => DefinedOnce
  BY DEF IInv
<1> QED BY <1>1, IInvAlways, PTL

\* A repair that ends without a failure has left in the code all that its
\* report missed (repair.py:374-383), unless a read failed.
THEOREM RepairsAreDelivered == Spec => []RepairsDelivered
<1>1. IInv => RepairsDelivered
  <2>1. SUFFICES ASSUME IInv, stage = "decide", ~broken, ~unread, NEW i \in diagnosed
        PROVE  Finds(i, Declared)
    BY DEF RepairsDelivered
  <2>2. i \in Items /\ Satisfied(i)
    BY <2>1 DEF IInv, TypeOK, Underway
  <2>3. Texts(i) \subseteq Declared
    BY <2>2, TextsDeclared
  <2> QED BY <2>2, <2>3 DEF Satisfied, Finds
<1> QED BY <1>1, IInvAlways, PTL

\* The evaluator (evaluation.py:250-356) finds what the generator
\* (implementation.py:245-329) and the repairs have written in the files that
\* docs/03 lists, and misses exactly the items of the others.
THEOREM EvaluatorFindsListed == Spec => []EvaluatorAgrees
<1>1. IInv => EvaluatorAgrees
  BY DEF IInv
<1> QED BY <1>1, IInvAlways, PTL

\* No sum of other points makes up for entities or services that are all
\* missing (evaluation.py:365-377).
THEOREM PassIsAlwaysEarned == Spec => []PassIsEarned
<1>1. IInv => PassIsEarned
  BY DEF IInv
<1> QED BY <1>1, IInvAlways, PTL

\* A repair (repair.py:338-363) adds to models.py, services.py and api.py and
\* takes nothing away from them, unless a read failed; main.py it replaces.
THEOREM RepairsOnlyAppend == Spec => RepairsKeepDeclared
<1>1. TypeOK /\ [Next]_vars => [stage = "patch" /\ ~unread' => Declared \subseteq Declared']_vars
  <2>1. SUFFICES ASSUME TypeOK, Next, stage = "patch", ~unread' PROVE Declared \subseteq Declared'
    BY DEF vars
  <2>2. UNCHANGED <<built, added>> => Declared' = Declared
    BY DEF Declared
  <2>3. CASE \E i \in Items : Skip(i)
    BY <2>2, <2>3 DEF Skip, Instruction
  <2>4. CASE \E i \in Items : Append(i)
    <3>1. built' = built /\ \A k \in Items : added[k] > 0 => added'[k] > 0
      BY <2>1, <2>4 DEF Append, Instruction, TypeOK
    <3> QED BY <3>1 DEF Declared
  <2>5. CASE Rewrite
    BY <2>2, <2>5 DEF Rewrite
  <2>6. CASE Conclude
    BY <2>2, <2>6 DEF Conclude, code
  <2>7. CASE \E i \in Items : AppendFails(i)
    BY <2>2, <2>7 DEF AppendFails, Instruction
  <2>8. CASE \E i \in Items : AppendBlindly(i)
    BY <2>1, <2>8 DEF AppendBlindly, Unread
  <2> QED
    BY <2>1, <2>3, <2>4, <2>5, <2>6, <2>7, <2>8
    DEF Next, LoopStep, Patch, Accident, Implement, Validate, Evaluate, StartRepair, Reroute, Proceed,
        ImplementBlindly, ImplementFails, Fails, EvaluateBlindly, Replaced, StartRepairBlindly, Goto
<1>2. IInv => TypeOK
  BY DEF IInv
<1> QED BY <1>1, <1>2, IInvAlways, PTL DEF Spec, RepairsKeepDeclared
=============================================================================
