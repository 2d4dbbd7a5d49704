------------------------------ MODULE Advisors ------------------------------
(***************************************************************************)
(* The three agents that only advise.  Learning, at the end of a run,      *)
(* writes what it makes of the run's reports to the workspace; prediction, *)
(* after each implementation, weighs what is missing in the code with it;  *)
(* optimization reads both.                                                *)
(*                                                                         *)
(* What agents store in the Project Brain has a checksum and no content    *)
(* (base_agent.py:282-292), so the search of the Brain for reports of      *)
(* earlier sessions, in prediction and in optimization, finds nothing: the *)
(* file in the workspace is all that one run tells the next.  Scores are   *)
(* in hundredths.                                                          *)
(***************************************************************************)
EXTENDS Naturals

CONSTANTS MaxItems,   \* per part: how many items a design names at most
          MaxFaults   \* bound on the reads and writes that fail

\* what prediction rates, and what learning has sentences on
Parts == {"api", "database", "services", "config"}
Topics == Parts \cup {"imports"}

ASSUME AdvisorsAssumption ==
  /\ MaxItems \in [Parts -> Nat]
  /\ MaxFaults \in Nat

VARIABLES files,     \* whether tool calls reach a file system, or a stub
          stage,     \* who is next; "work": the loop from validation to learning
          learned,   \* whether there is a docs/07_learning_report.json
          lessons,   \* the topics of its sentences on failures
          report,    \* docs/08_prediction_report.json: none, of this pass, or older
          forecast,  \* what prediction says in this pass
          advice,    \* what optimization says in this pass
          faults,    \* reads and writes that failed, so far
          taught,    \* history: the topics the latest learning came to
          ever       \* history: the topics some learning came to

memory == <<learned, lessons, taught, ever>>
vars == <<files, stage, memory, report, forecast, advice, faults>>

Least(a, b) == IF a <= b THEN a ELSE b

\* a source file, the items of the design that belong there, and how many of
\* them are not found in it
Code == [there : BOOLEAN, required : Nat, missing : Nat]
Forecasts == [code : [Parts -> Code], raised : SUBSET Topics, high : SUBSET Parts,
              overall : 0..1000, confidence : 10..100]
Advices == [score : 0..1000, confidence : 10..100]

File(required, missing) == [there |-> TRUE, required |-> required, missing |-> missing]
NoForecast == [code |-> [p \in Parts |-> File(0, 0)], raised |-> {}, high |-> {}, overall |-> 0,
               confidence |-> 100]
NoAdvice == [score |-> 1000, confidence |-> 100]

TypeOK ==
  /\ files \in BOOLEAN
  /\ stage \in {"predict", "optimize", "work"}
  /\ learned \in BOOLEAN
  /\ lessons \in SUBSET Topics
  /\ report \in {"none", "fresh", "old"}
  /\ forecast \in Forecasts
  /\ advice \in Advices
  /\ faults \in 0..MaxFaults
  /\ taught \in SUBSET Topics
  /\ ever \in SUBSET Topics

Init ==
  /\ files \in BOOLEAN
  /\ stage = "predict"
  /\ learned = FALSE
  /\ lessons = {}
  /\ report = "none"
  /\ forecast = NoForecast
  /\ advice = NoAdvice
  /\ faults = 0
  /\ taught = {}
  /\ ever = {}

Goto(from, to) == stage = from /\ stage' = to
Fault == files /\ faults < MaxFaults /\ faults' = faults + 1

-----------------------------------------------------------------------------
(* Prediction.                                                             *)

\* the words that prediction could know the sentence on a topic by
Sentence(topic) ==
  CASE topic = "api" -> {"api", "endpoint", "route"}
    [] topic = "database" -> {"database", "entity", "model", "schema"}
    [] topic = "services" -> {"logic", "service"}
    [] topic = "config" -> {"config", "env", "environment"}
    [] topic = "imports" -> {"circular", "import"}

\* Mutant: the words are those of the table's name only
WatchedByName(topic) ==
  CASE topic = "api" -> {"endpoint", "route"}
    [] topic = "database" -> {"table", "column"}
    [] topic = "services" -> {"service"}
    [] topic = "config" -> {"config"}
    [] topic = "imports" -> {"import"}

\* the words it looks for
Watched(topic) ==
  CASE topic = "api" -> {"endpoint", "route", "api"}
    [] topic = "database" -> {"database", "entity", "model", "schema"}
    [] topic = "services" -> {"service", "logic"}
    [] topic = "config" -> {"config", "env", "environment"}
    [] topic = "imports" -> {"import", "circular"}

Raised(topics) == {t \in Topics : \E l \in topics : Sentence(l) \cap Watched(t) # {}}

\* the share that is missing, half as much again when the past warns of it
Risk(c, raised) ==
  IF ~c.there THEN 1000
  ELSE IF c.required = 0 THEN 0
  ELSE Least(1000, ((IF raised THEN 3 ELSE 2) * 1000 * c.missing) \div (2 * c.required))

\* Mutant: no limit
OverallUncapped(code, raised) ==
  LET risk(p) == Risk(code[p], p \in raised)
  IN ((IF "imports" \in raised THEN 3 ELSE 2)
        * (risk("api") + risk("database") + risk("services") + risk("config"))) \div 8

Overall(code, raised) ==
  LET risk(p) == Risk(code[p], p \in raised)
  IN Least(1000, ((IF "imports" \in raised THEN 3 ELSE 2)
                    * (risk("api") + risk("database") + risk("services") + risk("config"))) \div 8)

\* no report of an earlier session is ever found in the Brain
Confidence(designRead, lessonsRead) ==
  75 - (IF designRead THEN 0 ELSE 20) - (IF lessonsRead THEN 0 ELSE 25)

Foresee(code, topics, confidence) ==
  LET raised == Raised(topics)
  IN forecast' = [code |-> code, raised |-> raised,
                  high |-> {p \in Parts : Risk(code[p], p \in raised) >= 500},
                  overall |-> Overall(code, raised),
                  confidence |-> confidence]

\* what can be seen of a part: no more is missing than is wanted
Readings(p) ==
  {c \in {File(n, k) : n \in 0..MaxItems[p], k \in 0..MaxItems[p]} : c.missing <= c.required}

Designed ==
  {code \in [Parts -> UNION {Readings(p) : p \in Parts}] : \A p \in Parts : code[p] \in Readings(p)}

\* where the design cannot be read there are four variables by default: a
\* scaffold has them, a stub does not
Undesigned == [NoForecast.code EXCEPT !["config"] = File(4, 0)]
Stubbed == [NoForecast.code EXCEPT !["config"] = File(4, 4)]
Without(code, p) ==
  [code EXCEPT ![p] = [there |-> FALSE, required |-> @.required, missing |-> @.required]]

Predicts ==
  /\ Goto("predict", "optimize")
  /\ UNCHANGED <<files, memory, advice>>

Predict ==
  /\ Predicts
  /\ IF files
     THEN \/ \E code \in Designed : Foresee(code, lessons, Confidence(TRUE, learned))
          \/ Foresee(Undesigned, lessons, Confidence(FALSE, learned))
     ELSE Foresee(Stubbed, {}, Confidence(TRUE, TRUE))
  /\ report' = IF files THEN "fresh" ELSE report
  /\ UNCHANGED faults

\* the learning report, or one of the source files, cannot be read
PredictBlindly ==
  /\ Predicts
  /\ Fault
  /\ \E code \in Designed :
       \/ Foresee(code, {}, Confidence(TRUE, FALSE))
       \/ \E p \in Parts : Foresee(Without(code, p), lessons, Confidence(TRUE, learned))
  /\ report' = "fresh"

\* the report cannot be written, which is only logged
PredictUnwritten ==
  /\ Predicts
  /\ Fault
  /\ \E code \in Designed : Foresee(code, lessons, Confidence(TRUE, learned))
  /\ UNCHANGED report

-----------------------------------------------------------------------------
(* Optimization.                                                           *)

\* what it can find in the design, and in the code, which has words of the
\* design in it; a scaffold's settings are as it wants them, a stub is not
OfDesign == {"decompose", "abstraction", "versions", "nouns"}
OfCode == {"relations", "delegation", "secrets", "split"}
Opportunities == OfDesign \cup OfCode \cup {"settings"}

\* nothing of the past ever raises a priority: see above
Penalty(opportunity, found) ==
  IF opportunity \notin found THEN 0
  ELSE CASE opportunity \in {"nouns", "delegation", "secrets"} -> 150
         [] opportunity = "abstraction" -> 50
         [] OTHER -> 100

\* at most two points for each category
Category(one, other, found) == Least(200, Penalty(one, found) + Penalty(other, found))

Score(found) ==
  1000 - (Category("decompose", "abstraction", found) + Category("versions", "nouns", found)
            + Penalty("relations", found) + Penalty("delegation", found)
            + Category("secrets", "settings", found) + Penalty("split", found))

Papers == {"fine", "incomplete", "missing"}
Short(paper) == IF paper = "incomplete" THEN 10 ELSE 0
Lapse(one, other) == IF "missing" \in {one, other} THEN 20 ELSE Short(one) + Short(other)

\* what can be seen besides the reports of the other two
Views ==
  {[score |-> Score(v.found), lapse |-> Lapse(v.prd, v.design), scaffold |-> v.scaffold] :
     v \in {v \in [found : SUBSET (OfDesign \cup OfCode), prd : Papers, design : Papers,
                   scaffold : Papers] :
              v.design = "missing" => v.found \cap OfDesign = {}}}
StubView == [score |-> Score({"settings"}), lapse |-> 20, scaffold |-> "incomplete"]

Advise(view, prediction, learning) ==
  advice' = [score |-> view.score,
             confidence |-> 100 - view.lapse - Lapse(view.scaffold, prediction)
                              - (IF learning = "missing" THEN 20 ELSE Short(learning))]

Prediction == IF report = "none" THEN "missing" ELSE "fine"
Learning == IF learned THEN "fine" ELSE "missing"

\* prediction and the code it looked at have done their part
Optimizes ==
  /\ Goto("optimize", "work")
  /\ forecast' = NoForecast
  /\ UNCHANGED <<files, memory, report>>

Optimize ==
  /\ Optimizes
  /\ IF files THEN \E view \in Views : Advise(view, Prediction, Learning)
     ELSE Advise(StubView, "incomplete", "incomplete")
  /\ UNCHANGED faults

\* one of the two reports cannot be read
OptimizeBlindly ==
  /\ Optimizes
  /\ Fault
  /\ \E view \in Views : Advise(view, "missing", Learning) \/ Advise(view, Prediction, "missing")

-----------------------------------------------------------------------------
(* Learning, and the conductor: the next pass, run or attempt.             *)

Aged == IF report = "none" THEN "none" ELSE "old"

Again ==
  /\ stage' = "predict"
  /\ report' = Aged
  /\ forecast' = NoForecast
  /\ advice' = NoAdvice
  /\ UNCHANGED files

\* a structural repair sends the run back to implementation
Back == stage = "work" /\ Again /\ UNCHANGED <<memory, faults>>

\* an agent fails, and the job is attempted again
Fails == stage \in {"optimize", "work"} /\ Again /\ UNCHANGED <<memory, faults>>

\* where told is how many lines the reports of the run have on a topic; reports
\* that cannot be read have none, and neither has a stub
Patterns == {{t \in Topics : told[t] >= 2} : told \in [Topics -> 0..2]}
Found == IF files THEN Patterns ELSE {{}}

\* Mutant: what was learned before is kept
LearnMore ==
  /\ stage = "work" /\ Again
  /\ taught' \in Found
  /\ ever' = ever \cup taught'
  /\ lessons' = lessons \cup taught'
  /\ learned' = files
  /\ UNCHANGED faults

\* the new report takes the place of the old one; a stub keeps none
Learn ==
  /\ stage = "work" /\ Again
  /\ taught' \in Found
  /\ ever' = ever \cup taught'
  /\ lessons' = taught'
  /\ learned' = files
  /\ UNCHANGED faults

LearnUnwritten ==
  /\ stage = "work" /\ Again
  /\ Fault
  /\ taught' \in Found
  /\ ever' = ever \cup taught'
  /\ UNCHANGED <<learned, lessons>>

Next ==
  \/ Predict \/ PredictBlindly \/ PredictUnwritten
  \/ Optimize \/ OptimizeBlindly
  \/ Back \/ Fails \/ Learn \/ LearnUnwritten

Spec == Init /\ [][Next]_vars

-----------------------------------------------------------------------------
(* Properties                                                              *)

\* "Multiplicative Influence from matched failure patterns" (predictive.py:339):
\* whatever words the two agents use, prediction raises just the risks that
\* the latest run's learning warned of, and when a file failed none that no
\* run has warned of.
LessonsHeeded ==
  stage = "optimize" =>
    /\ forecast.raised \subseteq ever
    /\ faults = 0 => forecast.raised = taught

\* A part is called a high risk when its file cannot be read or half of what
\* the design wants is missing there, or a third where a run has warned of it,
\* and never otherwise; an overall risk that is high has a part that is,
\* unless imports were warned of.
AlarmHasCause ==
  stage = "optimize" =>
    /\ \A p \in Parts :
         LET c == forecast.code[p]
             atLeast(n) == c.missing > 0 /\ n * c.missing >= c.required
         IN /\ ~c.there \/ atLeast(2) => p \in forecast.high
            /\ p \in taught /\ atLeast(3) /\ faults = 0 => p \in forecast.high
            /\ p \in forecast.high => ~c.there \/ atLeast(2) \/ (p \in ever /\ atLeast(3))
    /\ forecast.overall >= 500 /\ "imports" \notin ever => forecast.high # {}

\* Confidence is earned over several runs: prediction is as sure as it can be,
\* and optimization fully, only where a run has left what it learned; and
\* where no file failed, the prediction that optimization takes for good is
\* that of the same pass.
ConfidenceEarned ==
  files =>
    /\ stage = "optimize" /\ forecast.confidence >= 75 => learned
    /\ stage = "work" /\ advice.confidence = 100 =>
         learned /\ report # "none" /\ (faults = 0 => report = "fresh")
=============================================================================
