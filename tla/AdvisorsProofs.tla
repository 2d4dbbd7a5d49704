--------------------------- MODULE AdvisorsProofs ---------------------------
(***************************************************************************)
(* Proofs about Advisors: first what its operators return, then one        *)
(* inductive invariant and the three properties.                           *)
(***************************************************************************)
EXTENDS Advisors, TLAPS

-----------------------------------------------------------------------------
(* The words of the two agents.                                            *)

\* Each sentence of learning (learning.py:215-226) has words that prediction
\* looks for (predictive.py:346-355), and no words of another topic.
LEMMA SentencesAreKnown ==
  ASSUME NEW t \in Topics, NEW l \in Topics
  PROVE  Sentence(l) \cap Watched(t) # {} <=> l = t
<1>1. CASE l = "api"
  BY <1>1, SMTT(30) DEF Topics, Parts, Sentence, Watched
<1>2. CASE l = "database"
  BY <1>2, SMTT(30) DEF Topics, Parts, Sentence, Watched
<1>3. CASE l = "services"
  BY <1>3, SMTT(30) DEF Topics, Parts, Sentence, Watched
<1>4. CASE l = "config"
  BY <1>4, SMTT(30) DEF Topics, Parts, Sentence, Watched
<1>5. CASE l = "imports"
  BY <1>5, SMTT(30) DEF Topics, Parts, Sentence, Watched
<1> QED BY <1>1, <1>2, <1>3, <1>4, <1>5 DEF Topics, Parts

\* What prediction raises are the topics that it read.
LEMMA RaisedAreRead ==
  ASSUME NEW topics \in SUBSET Topics
  PROVE  Raised(topics) = topics
  BY SentencesAreKnown DEF Raised

-----------------------------------------------------------------------------
(* Risks.                                                                  *)

\* A reading of the code in which no more is missing than is wanted.
Sane(code) == code \in [Parts -> Code] /\ \A p \in Parts : code[p].missing <= code[p].required

\* A rounded quotient of natural numbers, against a threshold.
LEMMA Quotient ==
  ASSUME NEW a \in Nat, NEW b \in Nat \ {0}, NEW k \in Nat
  PROVE  /\ a \div b \in Nat
         /\ a \div b >= k <=> a >= k * b
  BY SMTT(30)

LEMMA LeastIs ==
  ASSUME NEW n \in Nat
  PROVE  /\ Least(1000, n) \in 0..1000
         /\ Least(1000, n) >= 500 <=> n >= 500
  BY DEF Least

\* A risk is high when a half, or where it is raised a third, is missing.
LEMMA RiskIs ==
  ASSUME NEW c \in Code, c.missing <= c.required, NEW p, NEW topics
  PROVE  /\ Risk(c, p \in topics) \in 0..1000
         /\ Risk(c, p \in topics) >= 500 <=>
              ~c.there \/ (c.missing > 0
                           /\ (IF p \in topics THEN 3 ELSE 2) * c.missing >= c.required)
<1> c.there \in BOOLEAN /\ c.required \in Nat /\ c.missing \in Nat
  BY DEF Code
<1>1. CASE ~c.there
  BY <1>1 DEF Risk
<1>2. CASE c.there /\ c.required = 0
  BY <1>2 DEF Risk
<1>3. CASE c.there /\ c.required # 0
  <2> DEFINE f == IF p \in topics THEN 3 ELSE 2
             a == f * 1000 * c.missing
             b == 2 * c.required
  <2>1. a \in Nat /\ b \in Nat \ {0} /\ f \in {2, 3}
    BY <1>3
  <2>2. a \div b \in Nat /\ (a \div b >= 500 <=> a >= 500 * b)
    <3> HIDE DEF a, b
    <3> QED BY <2>1, Quotient
  <2>3. a >= 500 * b <=> c.missing > 0 /\ f * c.missing >= c.required
    BY <1>3, <2>1
  <2>4. Risk(c, p \in topics) = Least(1000, a \div b)
    BY <1>3 DEF Risk
  <2> HIDE DEF a, b, f
  <2>5. /\ Risk(c, p \in topics) \in 0..1000
        /\ Risk(c, p \in topics) >= 500 <=> c.missing > 0 /\ f * c.missing >= c.required
    BY <2>2, <2>3, <2>4, LeastIs
  <2> QED BY <1>3, <2>5 DEF f
<1> QED BY <1>1, <1>2, <1>3

\* The overall risk is on the scale; without a warning on imports it is high
\* only if the risk of some part is.
LEMMA OverallIs ==
  ASSUME NEW code, Sane(code), NEW raised \in SUBSET Topics
  PROVE  /\ Overall(code, raised) \in 0..1000
         /\ Overall(code, raised) >= 500 /\ "imports" \notin raised =>
              \E p \in Parts : Risk(code[p], p \in raised) >= 500
<1>0. "api" \in Parts /\ "database" \in Parts /\ "services" \in Parts /\ "config" \in Parts
  BY DEF Parts
<1>1. ASSUME NEW p \in Parts PROVE Risk(code[p], p \in raised) \in 0..1000
  <2>1. code[p] \in Code /\ code[p].missing <= code[p].required
    BY DEF Sane
  <2> QED BY <2>1, RiskIs
<1>2. PICK a \in 0..1000 : a = Risk(code["api"], "api" \in raised)
  BY <1>0, <1>1
<1>3. PICK b \in 0..1000 : b = Risk(code["database"], "database" \in raised)
  BY <1>0, <1>1
<1>4. PICK c \in 0..1000 : c = Risk(code["services"], "services" \in raised)
  BY <1>0, <1>1
<1>5. PICK d \in 0..1000 : d = Risk(code["config"], "config" \in raised)
  BY <1>0, <1>1
<1> DEFINE sum == a + b + c + d
           f == IF "imports" \in raised THEN 3 ELSE 2
<1>6. Overall(code, raised) = Least(1000, (f * sum) \div 8)
  BY <1>2, <1>3, <1>4, <1>5 DEF Overall
<1>7. sum \in Nat /\ f * sum \in Nat
  <2>1. sum \in Nat
    OBVIOUS
  <2>2. f * sum = 2 * sum \/ f * sum = 3 * sum
    OBVIOUS
  <2> HIDE DEF sum, f
  <2> QED BY <2>1, <2>2
<1>8. (f * sum) \div 8 \in Nat /\ ((f * sum) \div 8 >= 500 <=> f * sum >= 500 * 8)
  <2> HIDE DEF sum, f
  <2> QED BY <1>7, Quotient
<1>9. /\ Overall(code, raised) \in 0..1000
      /\ Overall(code, raised) >= 500 <=> f * sum >= 4000
  <2> HIDE DEF sum, f
  <2> QED BY <1>6, <1>8, LeastIs
<1>10. ASSUME "imports" \notin raised, f * sum >= 4000
      PROVE  \E p \in Parts : Risk(code[p], p \in raised) >= 500
  <2>1. f = 2
    BY <1>10
  <2>2. sum >= 2000
    <3> HIDE DEF sum, f
    <3> QED BY <1>7, <1>10, <2>1
  <2>3. a >= 500 \/ b >= 500 \/ c >= 500 \/ d >= 500
    BY <2>2
  <2> QED BY <2>3, <1>0, <1>2, <1>3, <1>4, <1>5
<1> QED BY <1>9, <1>10

\* Every reading that prediction can come to is sane.
LEMMA ReadingsAreSane ==
  /\ \A code \in Designed : Sane(code) /\ \A p \in Parts : Sane(Without(code, p))
  /\ Sane(Undesigned) /\ Sane(Stubbed)
<1>1. ASSUME NEW code \in Designed PROVE Sane(code)
  <2>1. ASSUME NEW p \in Parts
        PROVE  code[p] \in Code /\ code[p].missing <= code[p].required
    <3>1. code[p] \in Readings(p)
      BY DEF Designed
    <3>2. code[p].missing <= code[p].required
      BY <3>1 DEF Readings
    <3>4. PICK n \in 0..MaxItems[p], k \in 0..MaxItems[p] : code[p] = File(n, k)
      BY <3>1 DEF Readings
    <3>3. MaxItems[p] \in Nat
      BY AdvisorsAssumption
    <3> QED BY <3>2, <3>3, <3>4 DEF File, Code
  <2>2. code = [p \in Parts |-> code[p]]
    BY DEF Designed
  <2> QED BY <2>1, <2>2 DEF Sane
<1>2. ASSUME NEW code, Sane(code), NEW p \in Parts PROVE Sane(Without(code, p))
  <2>1. code \in [Parts -> Code] /\ code[p] \in Code /\ code[p].required \in Nat
    BY <1>2 DEF Sane, Code
  <2>2. [there |-> FALSE, required |-> code[p].required, missing |-> code[p].required] \in Code
    BY <2>1 DEF Code
  <2>3. Without(code, p)[p] = [there |-> FALSE, required |-> code[p].required,
                               missing |-> code[p].required]
    BY <2>1 DEF Without
  <2>4. \A q \in Parts \ {p} : Without(code, p)[q] = code[q]
    BY <2>1 DEF Without
  <2>5. Without(code, p) \in [Parts -> Code]
    BY <2>1, <2>2 DEF Without
  <2> QED BY <1>2, <2>1, <2>3, <2>4, <2>5 DEF Sane
<1>3. \A n, k \in Nat : k <= n => File(n, k) \in Code /\ File(n, k).missing <= File(n, k).required
  BY DEF File, Code
<1>4. ASSUME NEW n \in Nat, NEW k \in Nat, k <= n
      PROVE  Sane([NoForecast.code EXCEPT !["config"] = File(n, k)])
  <2>1. NoForecast.code = [p \in Parts |-> File(0, 0)]
    BY DEF NoForecast
  <2>2. /\ File(0, 0) \in Code /\ File(0, 0).missing <= File(0, 0).required
        /\ File(n, k) \in Code /\ File(n, k).missing <= File(n, k).required
    BY <1>3, <1>4
  <2> QED BY <2>1, <2>2 DEF Sane
<1>5. Sane(Undesigned) /\ Sane(Stubbed)
  BY <1>4 DEF Undesigned, Stubbed
<1> QED BY <1>1, <1>2, <1>5

\* What prediction says of a sane reading.
LEMMA ForecastIs ==
  ASSUME NEW code, Sane(code), NEW topics \in SUBSET Topics, NEW n \in 10..100,
         Foresee(code, topics, n)
  PROVE  /\ forecast' \in Forecasts
         /\ forecast'.raised = topics
         /\ forecast'.confidence = n
         /\ \A p \in Parts :
              LET c == forecast'.code[p]
              IN p \in forecast'.high <=>
                   ~c.there \/ (c.missing > 0
                                /\ (IF p \in topics THEN 3 ELSE 2) * c.missing >= c.required)
         /\ \A p \in Parts : forecast'.code[p] \in Code
         /\ forecast'.overall >= 500 /\ "imports" \notin topics => forecast'.high # {}
<1>1. Raised(topics) = topics
  BY RaisedAreRead
<1>2. forecast' = [code |-> code, raised |-> topics,
                   high |-> {p \in Parts : Risk(code[p], p \in topics) >= 500},
                   overall |-> Overall(code, topics),
                   confidence |-> n]
  BY <1>1 DEF Foresee
<1>3. \A p \in Parts :
        Risk(code[p], p \in topics) >= 500 <=>
          ~code[p].there \/ (code[p].missing > 0
                             /\ (IF p \in topics THEN 3 ELSE 2) * code[p].missing
                                  >= code[p].required)
  <2>1. ASSUME NEW p \in Parts PROVE code[p] \in Code /\ code[p].missing <= code[p].required
    BY DEF Sane
  <2> QED BY <2>1, RiskIs
<1>4. /\ Overall(code, topics) \in 0..1000
      /\ Overall(code, topics) >= 500 /\ "imports" \notin topics =>
           \E p \in Parts : Risk(code[p], p \in topics) >= 500
  BY OverallIs
<1>5. forecast' \in Forecasts
  BY <1>2, <1>4 DEF Forecasts, Sane
<1>6. \A p \in Parts : code[p] \in Code
  BY DEF Sane
<1>7. forecast'.code = code /\ forecast'.high = {p \in Parts : Risk(code[p], p \in topics) >= 500}
        /\ forecast'.overall = Overall(code, topics) /\ forecast'.raised = topics
        /\ forecast'.confidence = n
  BY <1>2
<1> QED BY <1>3, <1>4, <1>5, <1>6, <1>7

LEMMA ConfidenceIs ==
  ASSUME NEW d \in BOOLEAN, NEW l \in BOOLEAN
  PROVE  Confidence(d, l) \in 10..100 /\ (Confidence(d, l) >= 75 => l)
  BY DEF Confidence

-----------------------------------------------------------------------------
(* Scores.                                                                 *)

LEMMA LapseIs ==
  ASSUME NEW a \in Papers, NEW b \in Papers
  PROVE  Lapse(a, b) \in 0..20 /\ (Lapse(a, b) = 0 => a # "missing" /\ b # "missing")
  BY DEF Lapse, Short, Papers

LEMMA PenaltyIs ==
  \A o, found :
    Penalty(o, found) \in 0..150 /\ (o \in {"relations", "split"} => Penalty(o, found) \in 0..100)
  BY DEF Penalty

LEMMA CategoryIs == \A o, q, found : Category(o, q, found) \in 0..200
  BY PenaltyIs DEF Category, Least

LEMMA ScoreIs ==
  ASSUME NEW found
  PROVE  Score(found) \in 0..1000
<1>1. PICK a \in 0..200 : a = Category("decompose", "abstraction", found)
  BY CategoryIs
<1>2. PICK b \in 0..200 : b = Category("versions", "nouns", found)
  BY CategoryIs
<1>3. PICK c \in 0..100 : c = Penalty("relations", found)
  BY PenaltyIs
<1>4. PICK d \in 0..150 : d = Penalty("delegation", found)
  BY PenaltyIs
<1>5. PICK e \in 0..200 : e = Category("secrets", "settings", found)
  BY CategoryIs
<1>6. PICK f \in 0..100 : f = Penalty("split", found)
  BY PenaltyIs
<1>7. Score(found) = 1000 - (a + b + c + d + e + f)
  BY <1>1, <1>2, <1>3, <1>4, <1>5, <1>6 DEF Score
<1>8. a + b + c + d + e + f \in 0..950
  OBVIOUS
<1> QED BY <1>7, <1>8

\* What is seen besides the reports has a score and a lapse on their scales.
View == [score : 0..1000, lapse : 0..20, scaffold : Papers]

LEMMA ViewsAre == Views \subseteq View /\ StubView \in View
<1>1. ASSUME NEW view \in Views PROVE view \in View
  <2>1. PICK v \in [found : SUBSET (OfDesign \cup OfCode), prd : Papers, design : Papers,
                    scaffold : Papers] :
          view = [score |-> Score(v.found), lapse |-> Lapse(v.prd, v.design),
                  scaffold |-> v.scaffold]
    BY DEF Views
  <2>2. v.prd \in Papers /\ v.design \in Papers /\ v.scaffold \in Papers
    OBVIOUS
  <2>3. Score(v.found) \in 0..1000 /\ Lapse(v.prd, v.design) \in 0..20
    BY <2>2, ScoreIs, LapseIs
  <2> QED BY <2>1, <2>2, <2>3 DEF View
<1>2. StubView \in View
  BY ScoreIs DEF StubView, View, Papers
<1> QED BY <1>1, <1>2

LEMMA AdviceIs ==
  ASSUME NEW view \in View, NEW prediction \in Papers, NEW learning \in Papers,
         Advise(view, prediction, learning)
  PROVE  /\ advice' \in Advices
         /\ advice'.confidence = 100 => prediction # "missing" /\ learning # "missing"
<1>1. view.score \in 0..1000 /\ view.lapse \in 0..20 /\ view.scaffold \in Papers
  BY DEF View
<1>2. PICK l \in 0..20 : l = Lapse(view.scaffold, prediction) /\ (l = 0 => prediction # "missing")
  BY <1>1, LapseIs
<1>3. PICK k \in 0..20 : /\ k = IF learning = "missing" THEN 20 ELSE Short(learning)
                         /\ k = 0 => learning # "missing"
  BY DEF Short
<1>4. advice' = [score |-> view.score, confidence |-> 100 - view.lapse - l - k]
  BY <1>2, <1>3 DEF Advise
<1> DEFINE n == 100 - view.lapse - l - k
<1>5. n \in 10..100 /\ (n = 100 => l = 0 /\ k = 0)
  BY <1>1
<1>6. advice'.confidence = n /\ advice' \in Advices
  BY <1>1, <1>4, <1>5 DEF Advices
<1> QED BY <1>2, <1>3, <1>5, <1>6

-----------------------------------------------------------------------------
(* The invariant.                                                          *)

\* what one run tells the next; after a prediction the report is of this pass
Memory ==
  /\ lessons \subseteq ever
  /\ taught \subseteq ever
  /\ faults = 0 => lessons = taught
  /\ ~files => ever = {}
  /\ files /\ faults = 0 /\ stage # "predict" => report = "fresh"

IInv == TypeOK /\ Memory /\ LessonsHeeded /\ AlarmHasCause /\ ConfidenceEarned

\* What all that prediction may do comes to.
LEMMA Foreseen ==
  ASSUME IInv, Predicts,
         NEW code, Sane(code), NEW topics \in SUBSET Topics, NEW n \in 10..100,
         Foresee(code, topics, n),
         topics \subseteq ever, files /\ n >= 75 => learned,
         faults' \in 0..MaxFaults, faults' = 0 => faults = 0 /\ topics = taught,
         report' \in {"none", "fresh", "old"}, files /\ faults' = 0 => report' = "fresh"
  PROVE  IInv'
<1> /\ stage' = "optimize" /\ files' = files /\ learned' = learned /\ lessons' = lessons
    /\ taught' = taught /\ ever' = ever /\ advice' = advice
  BY DEF Predicts, Goto, memory
<1>1. /\ forecast' \in Forecasts
      /\ forecast'.raised = topics
      /\ forecast'.confidence = n
      /\ \A p \in Parts :
           LET c == forecast'.code[p]
           IN p \in forecast'.high <=>
                ~c.there \/ (c.missing > 0
                             /\ (IF p \in topics THEN 3 ELSE 2) * c.missing >= c.required)
      /\ \A p \in Parts : forecast'.code[p] \in Code
      /\ forecast'.overall >= 500 /\ "imports" \notin topics => forecast'.high # {}
  BY ForecastIs
<1>2. TypeOK'
  BY <1>1 DEF IInv, TypeOK
<1>3. Memory'
  BY DEF IInv, Memory
<1>4. LessonsHeeded'
  BY <1>1 DEF LessonsHeeded
<1>5. AlarmHasCause'
  <2>1. ASSUME NEW p \in Parts
        PROVE  LET c == forecast'.code[p]
                   atLeast(m) == c.missing > 0 /\ m * c.missing >= c.required
               IN /\ ~c.there \/ atLeast(2) => p \in forecast'.high
                  /\ p \in taught /\ atLeast(3) /\ faults' = 0 => p \in forecast'.high
                  /\ p \in forecast'.high => ~c.there \/ atLeast(2) \/ (p \in ever /\ atLeast(3))
    <3>1. PICK c : c = forecast'.code[p] /\ c \in Code
      BY <1>1
    <3>2. c.missing \in Nat /\ c.required \in Nat
      BY <3>1 DEF Code
    <3>3. p \in forecast'.high <=>
            ~c.there \/ (c.missing > 0 /\ (IF p \in topics THEN 3 ELSE 2) * c.missing >= c.required)
      BY <1>1, <3>1
    <3>4. 2 * c.missing >= c.required => 3 * c.missing >= c.required
      BY <3>2
    <3>5. CASE p \in topics
      BY <3>1, <3>3, <3>4, <3>5
    <3>6. CASE p \notin topics
      BY <3>1, <3>3, <3>4, <3>6
    <3> QED BY <3>5, <3>6
  <2>2. forecast'.overall >= 500 /\ "imports" \notin ever => forecast'.high # {}
    BY <1>1
  <2> QED BY <2>1, <2>2 DEF AlarmHasCause
<1>6. ConfidenceEarned'
  BY <1>1 DEF ConfidenceEarned
<1> QED BY <1>2, <1>3, <1>4, <1>5, <1>6 DEF IInv

LEMMA Blanks == NoForecast \in Forecasts /\ NoAdvice \in Advices
  BY DEF NoForecast, NoAdvice, Forecasts, Advices, File, Code

LEMMA InitInv == Init => IInv
<1> SUFFICES ASSUME Init PROVE IInv
  OBVIOUS
<1>1. TypeOK
  <2>1. faults \in 0..MaxFaults
    BY AdvisorsAssumption DEF Init
  <2>2. forecast \in Forecasts /\ advice \in Advices
    BY Blanks DEF Init
  <2>3. {} \in SUBSET Topics
    OBVIOUS
  <2> QED BY <2>1, <2>2, <2>3 DEF Init, TypeOK
<1> QED BY <1>1 DEF Init, IInv, Memory, LessonsHeeded, AlarmHasCause, ConfidenceEarned

LEMMA NextInv == IInv /\ [Next]_vars => IInv'
<1> SUFFICES ASSUME IInv, [Next]_vars PROVE IInv'
  OBVIOUS
<1> USE AdvisorsAssumption
<1>1. NoForecast \in Forecasts /\ NoAdvice \in Advices
  BY Blanks
<1>2. CASE Predict
  <2>1. CASE files
    <3>1. Predicts /\ report' = "fresh" /\ faults' = faults
      BY <1>2, <2>1 DEF Predict
    <3>2. CASE \E code \in Designed : Foresee(code, lessons, Confidence(TRUE, learned))
      <4>1. PICK code \in Designed : Foresee(code, lessons, Confidence(TRUE, learned))
        BY <3>2
      <4> QED BY <2>1, <3>1, <4>1, ReadingsAreSane, ConfidenceIs, Foreseen DEF IInv, TypeOK, Memory
    <3>3. CASE Foresee(Undesigned, lessons, Confidence(FALSE, learned))
      BY <2>1, <3>1, <3>3, ReadingsAreSane, ConfidenceIs, Foreseen DEF IInv, TypeOK, Memory
    <3> QED BY <1>2, <2>1, <3>2, <3>3 DEF Predict
  <2>2. CASE ~files
    <3>1. /\ Predicts /\ report' = report /\ faults' = faults
          /\ Foresee(Stubbed, {}, Confidence(TRUE, TRUE))
      BY <1>2, <2>2 DEF Predict
    <3> QED BY <2>2, <3>1, ReadingsAreSane, ConfidenceIs, Foreseen DEF IInv, TypeOK, Memory
  <2> QED BY <2>1, <2>2
<1>3. CASE PredictBlindly
  <2>1. Predicts /\ files /\ report' = "fresh" /\ faults' = faults + 1 /\ faults' \in 0..MaxFaults
          /\ faults' # 0
    BY <1>3 DEF PredictBlindly, Fault, IInv, TypeOK
  <2>2. PICK code \in Designed :
          \/ Foresee(code, {}, Confidence(TRUE, FALSE))
          \/ \E p \in Parts : Foresee(Without(code, p), lessons, Confidence(TRUE, learned))
    BY <1>3 DEF PredictBlindly
  <2>3. CASE Foresee(code, {}, Confidence(TRUE, FALSE))
    BY <2>1, <2>3, ReadingsAreSane, ConfidenceIs, Foreseen DEF IInv, TypeOK, Memory
  <2>4. CASE \E p \in Parts : Foresee(Without(code, p), lessons, Confidence(TRUE, learned))
    <3>1. PICK p \in Parts : Foresee(Without(code, p), lessons, Confidence(TRUE, learned))
      BY <2>4
    <3>2. Sane(Without(code, p))
      BY ReadingsAreSane
    <3> QED BY <2>1, <3>1, <3>2, ConfidenceIs, Foreseen DEF IInv, TypeOK, Memory
  <2> QED BY <2>2, <2>3, <2>4
<1>4. CASE PredictUnwritten
  <2>1. Predicts /\ files /\ report' = report /\ faults' = faults + 1 /\ faults' \in 0..MaxFaults
          /\ faults' # 0
    BY <1>4 DEF PredictUnwritten, Fault, IInv, TypeOK
  <2>2. PICK code \in Designed : Foresee(code, lessons, Confidence(TRUE, learned))
    BY <1>4 DEF PredictUnwritten
  <2> QED BY <2>1, <2>2, ReadingsAreSane, ConfidenceIs, Foreseen DEF IInv, TypeOK, Memory
<1>5. ASSUME Optimizes, faults' \in 0..MaxFaults, faults' = 0 => faults = 0, advice' \in Advices,
             files /\ advice'.confidence = 100 => learned /\ report # "none"
      PROVE  IInv'
  <2> /\ stage = "optimize" /\ stage' = "work" /\ files' = files /\ learned' = learned
      /\ lessons' = lessons /\ taught' = taught /\ ever' = ever /\ report' = report
      /\ forecast' = NoForecast
    BY <1>5 DEF Optimizes, Goto, memory
  <2>1. TypeOK'
    BY <1>1, <1>5 DEF IInv, TypeOK
  <2>2. Memory'
    BY <1>5 DEF IInv, Memory
  <2>3. LessonsHeeded' /\ AlarmHasCause'
    BY DEF LessonsHeeded, AlarmHasCause
  <2>4. ConfidenceEarned'
    BY <1>5 DEF IInv, Memory, ConfidenceEarned
  <2> QED BY <2>1, <2>2, <2>3, <2>4 DEF IInv
<1>6. Prediction \in Papers /\ Learning \in Papers
  BY DEF Prediction, Learning, Papers
<1>7. CASE Optimize
  <2>1. Optimizes /\ faults' = faults
    BY <1>7 DEF Optimize
  <2>2. CASE files
    <3>1. PICK view \in Views : Advise(view, Prediction, Learning)
      BY <1>7, <2>2 DEF Optimize
    <3>2. /\ advice' \in Advices
          /\ advice'.confidence = 100 => Prediction # "missing" /\ Learning # "missing"
      BY <1>6, <3>1, ViewsAre, AdviceIs
    <3> QED BY <1>5, <2>1, <3>2 DEF Prediction, Learning, IInv, TypeOK
  <2>3. CASE ~files
    <3>1. Advise(StubView, "incomplete", "incomplete")
      BY <1>7, <2>3 DEF Optimize
    <3>2. advice' \in Advices
      BY <3>1, ViewsAre, AdviceIs DEF Papers
    <3> QED BY <1>5, <2>1, <2>3, <3>2 DEF IInv, TypeOK
  <2> QED BY <2>2, <2>3
<1>8. CASE OptimizeBlindly
  <2>1. Optimizes /\ faults' \in 0..MaxFaults /\ faults' # 0
    BY <1>8 DEF OptimizeBlindly, Fault, IInv, TypeOK
  <2>2. PICK view \in Views :
          Advise(view, "missing", Learning) \/ Advise(view, Prediction, "missing")
    BY <1>8 DEF OptimizeBlindly
  <2>3. "missing" \in Papers
    BY DEF Papers
  <2>4. advice' \in Advices /\ advice'.confidence # 100
    <3>1. CASE Advise(view, "missing", Learning)
      BY <1>6, <2>3, <3>1, ViewsAre, AdviceIs
    <3>2. CASE Advise(view, Prediction, "missing")
      BY <1>6, <2>3, <3>2, ViewsAre, AdviceIs
    <3> QED BY <2>2, <3>1, <3>2
  <2> QED BY <1>5, <2>1, <2>4
<1>9. ASSUME Again, faults' \in 0..MaxFaults, learned' \in BOOLEAN,
             taught' \in SUBSET Topics, ever' \in SUBSET Topics, lessons' \in SUBSET Topics,
             lessons' \subseteq ever', taught' \subseteq ever', faults' = 0 => lessons' = taught',
             ~files => ever' = {}
      PROVE  IInv'
  <2> /\ stage' = "predict" /\ files' = files /\ report' = Aged
      /\ forecast' = NoForecast /\ advice' = NoAdvice
    BY <1>9 DEF Again
  <2>1. TypeOK'
    BY <1>1, <1>9 DEF IInv, TypeOK, Aged
  <2>2. Memory'
    BY <1>9 DEF Memory
  <2>3. LessonsHeeded' /\ AlarmHasCause' /\ ConfidenceEarned'
    BY DEF LessonsHeeded, AlarmHasCause, ConfidenceEarned
  <2> QED BY <2>1, <2>2, <2>3 DEF IInv
<1>10. CASE Back \/ Fails
  BY <1>9, <1>10 DEF Back, Fails, memory, IInv, TypeOK, Memory
<1>11. Found \subseteq SUBSET Topics /\ (~files => Found = {{}})
  BY DEF Found, Patterns
<1>12. CASE Learn
  BY <1>9, <1>11, <1>12 DEF Learn, IInv, TypeOK, Memory
<1>13. CASE LearnUnwritten
  BY <1>9, <1>11, <1>13 DEF LearnUnwritten, Fault, IInv, TypeOK, Memory
<1>14. CASE UNCHANGED vars
  BY <1>14 DEF vars, memory, IInv, TypeOK, Memory, LessonsHeeded, AlarmHasCause, ConfidenceEarned
<1> QED
  BY <1>2, <1>3, <1>4, <1>7, <1>8, <1>10, <1>12, <1>13, <1>14 DEF Next

LEMMA Invariant == Spec => []IInv
  BY InitInv, NextInv, PTL DEF Spec

-----------------------------------------------------------------------------
(* The theorems.                                                           *)

\* Type correctness: all scores stay on their scales, whatever the size of the
\* design.
THEOREM AdvisorsTypeCorrect == Spec => []TypeOK
<1>1. IInv => TypeOK
  BY DEF IInv
<1> QED BY Invariant, <1>1, PTL

\* What the latest run learned is what the next prediction raises, and nothing
\* is raised that no run has warned of (learning.py:215-226,
\* predictive.py:346-355).
THEOREM LessonsAreHeeded == Spec => []LessonsHeeded
<1>1. IInv => LessonsHeeded
  BY DEF IInv
<1> QED BY Invariant, <1>1, PTL

\* An alarm has its cause and a cause its alarm, for designs of every size
\* (predictive.py:332-427).
THEOREM AlarmsHaveCause == Spec => []AlarmHasCause
<1>1. IInv => AlarmHasCause
  BY DEF IInv
<1> QED BY Invariant, <1>1, PTL

\* No adviser is surer than what it has read allows, over any number of runs
\* (predictive.py:176-263, optimization.py:483-530).
THEOREM ConfidenceIsEarned == Spec => []ConfidenceEarned
<1>1. IInv => ConfidenceEarned
  BY DEF IInv
<1> QED BY Invariant, <1>1, PTL
=============================================================================
