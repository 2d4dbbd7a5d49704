---------------------------- MODULE QualityLoop ----------------------------
(***************************************************************************)
(* The content of the workspace through the loop of the pipeline: what the *)
(* implementation agent generates, what validation and evaluation make of  *)
(* it, what the repair agent appends, and where the conductor goes next    *)
(* (module Conductor has the stages, the session and the failures).        *)
(*                                                                         *)
(* A design, a report or a source file is the set of the endpoints, entity *)
(* classes and service classes it names.  Reports on the code are stored   *)
(* in the Project Brain by checksum only (base_agent.py:272-292): no agent *)
(* writes docs/03, docs/04 or docs/05, what is read there was put there by *)
(* somebody else.  The predictive and the optimization agent, between      *)
(* implementation and validation, only read what is modelled here.         *)
(***************************************************************************)
EXTENDS Naturals, FiniteSets

CONSTANTS Endpoints, Entities, Services,  \* what a design can name
          Fallback,      \* what the built-in design names
          Covers,        \* <<a, b>>: the text of b contains what is searched for a
          Listings,      \* the lists of files that docs/03 can have
          MaxLoops,      \* conductor.py:247
          MaxOutside,    \* bound on the changes of reports from outside
          MaxFaults      \* bound on the reads and writes that fail

Items == Endpoints \cup Entities \cup Services

\* what is generated from the design, and the list the evaluator has of its own:
\* these three files and .env, config.py, db.py and main.py
CodeFiles == {"models", "services", "api"}
Scaffold == [code |-> CodeFiles, others |-> 4, absent |-> 0]

ASSUME QualityAssumption ==
  /\ IsFiniteSet(Items)
  /\ Listings \subseteq [code : SUBSET CodeFiles, others : Nat, absent : Nat]
  /\ \A list \in Listings : list.code # {} \/ list.others + list.absent > 0
  /\ Fallback \subseteq Items
  /\ Endpoints \cap Entities = {}
  /\ Endpoints \cap Services = {}
  /\ Entities \cap Services = {}
  /\ MaxLoops \in Nat \ {0}
  /\ MaxOutside \in Nat
  /\ MaxFaults \in Nat

VARIABLES files,      \* whether tool calls reach a file system, or a stub
          design,     \* docs/02_system_design.md
          listed,     \* the files named in docs/03_backend_scaffold.md
          execution,  \* docs/04_execution_report.md
          evaluation, \* docs/05_evaluation_report.md
          decision,   \* docs/06_repair_decision.json
          built,      \* what the generated code declares
          added,      \* how often each item was appended to it
          main,       \* backend/app/main.py
          stage,      \* the agent at work, or how the loop ended
          loop,       \* loop_count
          ran,        \* whether the validation of this loop succeeded
          verdict,    \* the status of the latest evaluation
          found,      \* the items that evaluation missed
          todo,       \* how many instructions there are for each item
          fixMain,    \* whether there is one for main.py
          issue,      \* the issues of the diagnosis
          broken,     \* execution_failed
          diagnosed,  \* history: the items of the diagnosis
          outside,    \* changes of reports from outside, so far
          faults,     \* reads and writes that failed, so far
          unread      \* history: whether a read was one of them

inputs == <<files, design, listed, execution>>
code == <<built, added, main>>
plan == <<todo, fixMain, issue, broken, diagnosed>>
judged == <<ran, verdict, found>>
accidents == <<outside, faults, unread>>
vars == <<inputs, evaluation, decision, code, stage, loop, judged, plan, accidents>>

\* an endpoint is in api.py, an entity in models.py, a service in services.py
FileOf(i) == CASE i \in Endpoints -> Endpoints [] i \in Entities -> Entities [] OTHER -> Services

\* what the files of the given names are for
Content(file) ==
  CASE file = "models" -> Entities [] file = "services" -> Services [] OTHER -> Endpoints
Within(names) == UNION {Content(file) : file \in names}

Declared == built \cup {i \in Items : added[i] > 0}

Checks == {"config", "imports", "app", "routes"}

\* RuntimeValidationAgent.generate_artifacts: the script of the sandbox ran to
\* its end, or raised and printed nothing; no report reads like one that says
\* nothing.  A report has the output, "VALIDATION_SUCCESS", in it.
ExecutionReports ==
  {[passed |-> Checks \ f, failed |-> f, success |-> TRUE] : f \in SUBSET {"config", "routes"}}
    \cup {[passed |-> {}, failed |-> Checks, success |-> FALSE],
          [passed |-> {}, failed |-> {}, success |-> FALSE]}

\* EvaluationAgent.generate_artifacts: the missing items, and whether there are
\* issues that no patch is for
EvaluationReports == [missing : SUBSET Items, other : BOOLEAN]

\* "none": it cannot be read, "blank": it has no text
Designs == {d \in [kind : {"text", "blank", "none"}, items : SUBSET Items] :
              d.kind # "text" => d.items = {}}

Decisions == {"none", "clear", "structural", "runtime"}
Stages == {"implement", "validate", "evaluate", "repair", "patch", "decide", "over", "failed"}

TypeOK ==
  /\ files \in BOOLEAN
  /\ design \in Designs
  /\ listed \in Listings \cup {Scaffold}
  /\ execution \in ExecutionReports
  /\ evaluation \in EvaluationReports
  /\ decision \in Decisions
  /\ built \subseteq Items
  /\ added \in [Items -> Nat]
  /\ main \in {"none", "scaffold", "repaired"}
  /\ stage \in Stages
  /\ loop \in 0..(MaxLoops - 1)
  /\ ran \in BOOLEAN
  /\ verdict \in {"none", "PASS", "PARTIAL", "FAIL"}
  /\ found \subseteq Items
  /\ todo \in [Items -> 0..2]
  /\ fixMain \in BOOLEAN
  /\ issue \in {"none", "structural", "runtime"}
  /\ broken \in BOOLEAN
  /\ diagnosed \subseteq Items
  /\ outside \in 0..MaxOutside
  /\ faults \in 0..MaxFaults
  /\ unread \in BOOLEAN

Nothing == [i \in Items |-> 0]

Init ==
  /\ files \in BOOLEAN
  /\ design \in Designs
  /\ listed \in Listings \cup {Scaffold}
  /\ execution \in ExecutionReports
  /\ evaluation \in EvaluationReports
  /\ decision = "none"
  /\ built = {}
  /\ added = Nothing
  /\ main = "none"
  /\ stage = "implement"
  /\ loop = 0
  /\ ran = FALSE
  /\ verdict = "none"
  /\ found = {}
  /\ todo = Nothing
  /\ fixMain = FALSE
  /\ issue = "none"
  /\ broken = FALSE
  /\ diagnosed = {}
  /\ outside = 0 /\ faults = 0 /\ unread = FALSE

Goto(from, to) == stage = from /\ stage' = to
Fault == faults < MaxFaults /\ faults' = faults + 1
\* a read that fails is taken for an empty file, a write that fails raises
Unread == Fault /\ unread' = TRUE
Unwritten == Fault /\ UNCHANGED unread

-----------------------------------------------------------------------------
(* Implementation.                                                         *)

\* Mutant: the generator's parser does not know the header of the services
ToBuildNoServices == IF design.kind = "none" THEN Fallback ELSE design.items \ Services

\* what the generator's parser finds in the design, or in the text it has for none
ToBuild == IF design.kind = "none" THEN Fallback ELSE design.items

\* the files of the given kinds hold what is specified and nothing else
Write(kinds, items) ==
  /\ built' = (built \ UNION kinds) \cup (items \cap UNION kinds)
  /\ added' = [i \in Items |-> IF i \in UNION kinds THEN 0 ELSE added[i]]

Kinds == {Entities, Services, Endpoints}

\* a stub takes what is written and has nothing of it
Generate(items) ==
  IF files
  THEN Write(Kinds, items) /\ main' = "scaffold"
  ELSE UNCHANGED code

Implement ==
  /\ Goto("implement", "validate")
  /\ Generate(ToBuild)
  /\ UNCHANGED <<inputs, evaluation, decision, loop, judged, plan, accidents>>

\* the design cannot be read just now: the fallback is built in its place
ImplementBlindly ==
  /\ Goto("implement", "validate")
  /\ files /\ Unread
  /\ Generate(Fallback)
  /\ UNCHANGED <<inputs, evaluation, decision, loop, judged, plan, outside>>

\* a write fails, in the order models, services, api: the phase is repeated,
\* or the node fails
ImplementFails ==
  /\ stage = "implement"
  /\ stage' \in {"implement", "failed"}
  /\ files /\ Unwritten
  /\ \E kinds \in {{}, {Entities}, {Entities, Services}, Kinds} :
       Write(kinds, ToBuild)
  /\ UNCHANGED <<inputs, evaluation, decision, main, loop, judged, plan, outside>>

-----------------------------------------------------------------------------
(* Validation and evaluation.  Neither writes its report to the workspace. *)

\* a stub prints nothing the agent looks for
Validate ==
  /\ Goto("validate", "evaluate")
  /\ ran' \in IF files THEN BOOLEAN ELSE {FALSE}
  /\ UNCHANGED <<inputs, evaluation, decision, code, loop, verdict, found, plan, accidents>>

\* the sandbox or another agent of the loop raises
Fails ==
  /\ stage \in {"validate", "evaluate", "repair"}
  /\ stage' = "failed"
  /\ UNCHANGED <<inputs, evaluation, decision, code, loop, judged, plan, accidents>>

\* what the evaluator's parser finds in the design; a stub has no items
Specified == IF files THEN design.items ELSE {}

\* the scores are in hundredths
Share(items, seen) ==
  LET all == Specified \cap items
  IN IF all = {} THEN 100 ELSE (100 * Cardinality(all \cap seen)) \div Cardinality(all)

\* of the files of a list all can be read, but those that are not there and unseen more
Structure(list, unseen) ==
  LET there == Cardinality(list.code) + list.others
  IN (100 * (there - unseen)) \div (there + list.absent)

Readable == files => design.kind = "text"

ArchitectureScore(seen, structure) ==
  IF Readable THEN structure + Share(Entities, seen) + Share(Services, seen) ELSE 0
ImplementationScore(seen) ==
  IF Readable THEN Share(Endpoints, seen) + Share(Entities, seen) + Share(Services, seen) ELSE 0

Succeeded == files /\ execution.success
Passed(check) == files /\ check \in execution.passed
Points(holds) == IF holds THEN 50 ELSE 0
RuntimeScore ==
  Points(Succeeded) + Points(Passed("config")) + Points(Passed("imports"))
    + Points(Passed("routes") \/ Passed("app"))

\* the Brain has all four artifacts by then, each with its input as dependency
PipelineScore == 200

\* where seen is what the files that are read declare
Score(seen, structure) ==
  ArchitectureScore(seen, structure) + ImplementationScore(seen) + RuntimeScore + PipelineScore

Status(seen, structure) ==
  IF Succeeded /\ Score(seen, structure) >= 850 THEN "PASS"
  ELSE IF Score(seen, structure) < 500 \/ ~Succeeded THEN "FAIL" ELSE "PARTIAL"

\* the code is searched for in the files of the list, however many others there are
Judge(list, lost, unseen) ==
  LET seen == Declared \cap Within(list.code \ lost)
  IN /\ verdict' = Status(seen, Structure(list, unseen))
     /\ found' = Specified \ seen

\* docs/03 names the files; without a list in it, and from a stub, it is the scaffold
Listed == IF files THEN listed ELSE Scaffold

Evaluate ==
  /\ Goto("evaluate", "repair")
  /\ Judge(Listed, {}, 0)
  /\ UNCHANGED <<inputs, evaluation, decision, code, loop, ran, plan, accidents>>

\* a file of the list, docs/03, the execution report or the design cannot be read
\* just now
EvaluateBlindly ==
  /\ Goto("evaluate", "repair")
  /\ files /\ Unread
  /\ \/ \E file \in listed.code : Judge(listed, {file}, 1)
     \/ listed.others > 0 /\ Judge(listed, {}, 1)
     \/ Judge(Scaffold, {}, 0)
     \/ verdict' = "FAIL" /\ found' \in {Specified \ (Declared \cap Within(listed.code)), {}}
  /\ UNCHANGED <<inputs, evaluation, decision, code, loop, ran, plan, outside>>

\* the files in docs are written by somebody else, as a test of the repository does
\* between two loops (tests/test_repair_agent.py:299-327)
Replaced ==
  /\ stage = "repair"
  /\ outside < MaxOutside /\ outside' = outside + 1
  /\ evaluation' \in EvaluationReports
  /\ UNCHANGED <<inputs, decision, code, stage, loop, judged, plan, faults, unread>>

-----------------------------------------------------------------------------
(* Repair: diagnosis, one instruction after the other, the decision.       *)

\* an endpoint or an entity is found in the line of the issue and in that of
\* the recommendation, a service only in the first
Mentions(i) == IF i \in Services THEN 1 ELSE 2

Diagnose(report, failed) ==
  /\ todo' = [i \in Items |-> IF i \in report.missing THEN Mentions(i) ELSE 0]
  /\ fixMain' = (failed \cap {"imports", "routes"} # {})
  /\ issue' = IF report.missing # {} THEN "structural"
              ELSE IF report.other \/ failed \cap {"config", "imports", "routes"} # {}
              THEN "runtime" ELSE "none"
  /\ diagnosed' = report.missing
  /\ broken' = FALSE

NoReport == [missing |-> {}, other |-> FALSE]

StartRepair ==
  /\ Goto("repair", "patch")
  /\ IF files THEN Diagnose(evaluation, execution.failed) ELSE Diagnose(NoReport, {})
  /\ UNCHANGED <<inputs, evaluation, decision, code, loop, judged, accidents>>

\* a report that cannot be read says nothing
StartRepairBlindly ==
  /\ Goto("repair", "patch")
  /\ files /\ Unread
  /\ \/ Diagnose(NoReport, execution.failed)
     \/ Diagnose(evaluation, {})
  /\ UNCHANGED <<inputs, evaluation, decision, code, loop, judged, outside>>

\* the texts the scan for i looks at: routes that were appended have names of
\* their own, classes have the same however they came
Texts(i) ==
  IF i \in Endpoints THEN {j \in Endpoints : added[j] > 0} ELSE Declared \cap FileOf(i)

Finds(i, texts) == i \in texts \/ \E j \in texts : <<i, j>> \in Covers

\* Mutant: the scan looks for the names that a repair gives, whatever the file
SatisfiedByRepair(i) == Finds(i, {j \in FileOf(i) : added[j] > 0})

Satisfied(i) == Finds(i, Texts(i))

Instruction(i) ==
  /\ stage = "patch"
  /\ todo[i] > 0
  /\ todo' = [todo EXCEPT ![i] = @ - 1]
  /\ UNCHANGED <<inputs, evaluation, decision, built, main, stage, loop, judged, fixMain, issue,
                 diagnosed, outside>>

Skip(i) ==
  /\ Instruction(i)
  /\ Satisfied(i)
  /\ UNCHANGED <<added, broken, faults, unread>>

\* Mutant: the patch is written in place of the file
AppendReplaces(i) ==
  /\ stage = "patch"
  /\ todo[i] > 0
  /\ ~Satisfied(i)
  /\ todo' = [todo EXCEPT ![i] = @ - 1]
  /\ built' = built \ FileOf(i)
  /\ added' = [j \in Items |-> IF j = i THEN 1 ELSE IF j \in FileOf(i) THEN 0 ELSE added[j]]
  /\ UNCHANGED <<inputs, evaluation, decision, main, stage, loop, judged, fixMain, issue, broken,
                 diagnosed, accidents>>

Append(i) ==
  /\ Instruction(i)
  /\ ~Satisfied(i)
  /\ added' = [added EXCEPT ![i] = @ + 1]
  /\ UNCHANGED <<broken, faults, unread>>

\* Mutant: the failure is not noted
AppendFailsUnnoted(i) ==
  /\ Instruction(i)
  /\ ~Satisfied(i)
  /\ Unwritten
  /\ UNCHANGED <<added, broken>>

\* the write fails; the instructions that follow are carried out all the same
AppendFails(i) ==
  /\ Instruction(i)
  /\ ~Satisfied(i)
  /\ Unwritten
  /\ broken' = TRUE
  /\ UNCHANGED added

\* the file cannot be read just now and counts as empty: what is written is the
\* patch and nothing else
AppendBlindly(i) ==
  /\ stage = "patch"
  /\ todo[i] > 0
  /\ todo' = [todo EXCEPT ![i] = @ - 1]
  /\ Unread
  /\ built' = built \ FileOf(i)
  /\ added' = [j \in Items |-> IF j = i THEN 1 ELSE IF j \in FileOf(i) THEN 0 ELSE added[j]]
  /\ UNCHANGED <<inputs, evaluation, decision, main, stage, loop, judged, fixMain, issue, broken,
                 diagnosed, outside>>

\* main.py is replaced; .env has its DATABASE_URL since it was generated
Rewrite ==
  /\ stage = "patch"
  /\ fixMain
  /\ fixMain' = FALSE
  /\ \/ main' = "repaired" /\ UNCHANGED <<broken, faults, unread>>
     \/ main # "repaired" /\ Unwritten /\ broken' = TRUE /\ UNCHANGED main
  /\ UNCHANGED <<inputs, evaluation, decision, built, added, stage, loop, judged, todo, issue,
                 diagnosed, outside>>

\* "no_action", "failed", "repaired": only the last asks for another loop
Asked == IF broken \/ issue = "none" THEN "clear" ELSE issue

\* a decision that cannot be written is only logged; a stub keeps none
Conclude ==
  /\ Goto("patch", "decide")
  /\ todo = Nothing /\ ~fixMain
  /\ \/ decision' = (IF files THEN Asked ELSE "none") /\ UNCHANGED <<faults, unread>>
     \/ files /\ Unwritten /\ UNCHANGED decision
  /\ UNCHANGED <<inputs, evaluation, code, loop, judged, plan, outside>>

(* Conductor: back to a stage of the loop, or on to learning.              *)

\* Mutant: one loop too many
RerouteOffByOne ==
  /\ Goto("decide", IF decision = "structural" THEN "implement" ELSE "validate")
  /\ decision \in {"structural", "runtime"}
  /\ loop < MaxLoops
  /\ loop' = loop + 1
  /\ UNCHANGED <<inputs, evaluation, decision, code, judged, plan, accidents>>

Reroute ==
  /\ Goto("decide", IF decision = "structural" THEN "implement" ELSE "validate")
  /\ decision \in {"structural", "runtime"}
  /\ loop + 1 < MaxLoops
  /\ loop' = loop + 1
  /\ UNCHANGED <<inputs, evaluation, decision, code, judged, plan, accidents>>

Proceed ==
  /\ Goto("decide", "over")
  /\ decision \in {"structural", "runtime"} => loop + 1 >= MaxLoops
  /\ UNCHANGED <<inputs, evaluation, decision, code, loop, judged, plan, accidents>>

Patch == (\E i \in Items : Skip(i) \/ Append(i)) \/ Rewrite

LoopStep ==
  Implement \/ Validate \/ Evaluate \/ StartRepair \/ Patch \/ Conclude \/ Reroute \/ Proceed

Accident ==
  \/ ImplementBlindly \/ ImplementFails \/ Fails \/ EvaluateBlindly \/ Replaced
  \/ StartRepairBlindly
  \/ \E i \in Items : AppendFails(i) \/ AppendBlindly(i)

Next == LoopStep \/ Accident

Spec == Init /\ [][Next]_vars

-----------------------------------------------------------------------------
(* Properties                                                              *)

\* However often reports are repeated and stages run again, the code declares
\* a class once (twice with the same table name is an error of SQLAlchemy) and
\* has at most one route of a repair for an endpoint.
DefinedOnce ==
  \A i \in Items :
    /\ added[i] <= 1
    /\ i \notin Endpoints /\ i \in built => added[i] = 0

\* A repair that reports "repaired" has left everything its reports missed in
\* the code, or something whose text contains it, also when later
\* instructions wrote to the same file; unless a read failed.
RepairsDelivered ==
  stage = "decide" /\ ~broken /\ ~unread =>
    \A i \in diagnosed : Finds(i, Declared)

\* The evaluator agrees with the generator and the repairs: in every loop it
\* finds each item of the design in the file it is in, and misses exactly those
\* whose file is not on the list of docs/03, which it does not open
\* (evaluation.py:250-286); unless a read failed.
EvaluatorAgrees ==
  verdict # "none" /\ ~unread => found = Specified \ Within(Listed.code)

\* The verdict PASS means that a validation succeeded and that, of the entities
\* and of the services the design names, some are in the code.
PassIsEarned ==
  verdict = "PASS" =>
    /\ Succeeded
    /\ \A kind \in {Entities, Services} : kind \cap design.items \cap found # kind \cap design.items
                                           \/ kind \cap design.items = {}

\* A repair step takes nothing away from models.py, services.py and api.py,
\* which it appends to, unless a read failed, which it takes for a file that is
\* not there (repair.py:305).  main.py is outside the property: it is replaced
\* as a whole (repair.py:350-351).
RepairsKeepDeclared == [][stage = "patch" /\ ~unread' => Declared \subseteq Declared']_vars
=============================================================================
