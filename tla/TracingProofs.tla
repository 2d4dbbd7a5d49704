--------------------------- MODULE TracingProofs ---------------------------
(***************************************************************************)
(* Proofs about the records of a run, for every number of stages, loops,   *)
(* sandboxes, failing operations and dying processes, and for databases    *)
(* with and without foreign keys.                                          *)
(*                                                                         *)
(* Whether a closed span tells the truth hangs on three things: which span *)
(* is whose (Places), that the conductor starts a stage only after all     *)
(* agents before have succeeded, so that whatever span a key names there   *)
(* may be closed as a success (Fates), and, where nothing fails, that the  *)
(* key names the span of the agent at work (KeyNamed, Blamed).  That the   *)
(* trace follows the session (Outcome) rests on the job having one run     *)
(* with a user (Once): a retry never writes the row.                       *)
(*                                                                         *)
(* What stays open is bounded by telling the spans that somebody is on the *)
(* way to close from those that have leaked (Held, Leaks); that the log    *)
(* and the span table agree, by counting which account is one entry ahead  *)
(* at each step, and of which agent (Unkept, Accounts).                    *)
(***************************************************************************)
EXTENDS Tracing, FiniteSetTheorems, SequenceTheorems, TLAPS

Finals == {"final", "finalLog", "finalSpan", "finalTrace"}
AtWork == {"run", "sandbox", "boxed", "broken", "tested"}

ControlType ==
  /\ enforced \in Databases
  /\ api \in {"start", "root", "log", "submit", "leave", "raise", "accepted",
              "rejected", "dead"}
  /\ queue \in Seq({"first", "retry"})
  /\ trace \in Endings \cup {"none", "running"}
  /\ row \in Row
  /\ task \in {"none", "first", "retry"}
  /\ pc \in Calls \cup AtWork \cup Finals
              \cup {"poll", "begin", "span", "plan", "decide", "raised", "read"}
  /\ step \in {"idle", "get", "peek", "close", "forget", "note", "create", "save",
               "announce", "put", "audit"}
  /\ node \in Stages
  /\ loop \in 0..(MaxLoops - 1)
  /\ handling \in BOOLEAN
  /\ final \in {"none", "IN_PROGRESS", "COMPLETED", "FAILED"}
  /\ verdict \in Endings \cup {"none"}
  /\ handled \in Nat
  /\ faults \in 0..MaxFaults
  /\ crashes \in 0..MaxCrashes
SpanType ==
  /\ spans \in Seq(Span)
  /\ key \in 0..Len(spans)
  /\ mine \in 0..Len(spans)
  /\ wspan \in 0..Len(spans)
LogType == log \in Seq(Event)

\* there is one run, and before it begins there is nothing of it
Fresh ==
  /\ \A i \in DOMAIN spans : spans[i].kind # "agent"
  /\ mine = 0 /\ key = 0 /\ ~handling
  /\ trace \notin Endings /\ verdict = "none" /\ handled = 0
  /\ row.node = 0 /\ row.status \in {"none", "IN_PROGRESS"}
Once ==
  /\ api \in {"start", "root", "log", "submit"} => Fresh /\ pc = "poll" /\ queue = <<>>
  /\ \A i \in DOMAIN queue :
       queue[i] = "first" => Fresh /\ pc = "poll" /\ queue = <<"first">>
  /\ task = "first" /\ pc \in {"begin", "span", "open", "plan"} => Fresh
  /\ task = "none" <=> pc = "poll"
  /\ pc \notin {"poll", "begin", "span", "open"} => task = "first"
  /\ step # "idle" => pc \in Calls
  /\ step \notin {"idle", "get"} => task = "first"
  /\ step \in {"peek", "close", "forget", "note"} => pc # "open"
  /\ step \in {"create", "save", "announce"} => pc = "enter"
  /\ step = "close" => key # 0

\* which span is which
Places ==
  /\ api \in {"start", "root"} => spans = <<>>
  /\ api \in {"log", "submit", "leave", "raise"} =>
       Len(spans) >= 1 /\ spans[1].kind = "api"
  /\ pc \in {"sandbox", "boxed", "broken"} =>
       Len(spans) >= 1 /\ spans[Len(spans)].kind = "sandbox"
  /\ wspan # 0 => spans[wspan].kind = "worker"
  /\ mine # 0 => spans[mine].kind = "agent"
  /\ key # 0 => spans[key].kind = "agent"

\* the agents before the one at work have succeeded, and the span of the one
\* at work is open
Fates ==
  /\ pc \in AtWork \cup {"plan", "enter", "decide", "finish"} =>
       \A i \in Agents : i # mine => spans[i].did = "ok"
  /\ pc \in {"plan", "decide", "finish"} => mine = 0
  /\ pc = "enter" /\ step \in {"get", "peek", "close", "forget", "note", "create"} => mine = 0
  /\ pc = "enter" => step # "idle"
  /\ pc \in AtWork \cup {"enter"} /\ mine # 0 => spans[mine].status \notin Endings
  /\ \A i \in Agents : spans[i].status = "success" => spans[i].did = "ok"

\* while nothing fails the span key names the span of the agent at work, or
\* of the one that was
KeyNamed ==
  faults = 0 =>
    /\ pc \in AtWork \/ (pc = "enter" /\ step \in {"announce", "put", "audit"}) =>
         mine # 0 /\ key = mine
    /\ pc = "enter" /\ step = "save" => mine # 0
    /\ pc \in AtWork \cup {"decide", "finish", "failing"} => row.node # 0
    /\ pc = "enter" /\ step = "audit" => row.node # 0
    /\ pc = "decide" \/ (pc = "finish" /\ step \in {"get", "peek", "close", "forget"}) =>
         key # 0
    /\ pc = "failing" => step \in {"get", "peek", "close", "forget", "note", "put", "audit"}
    /\ pc = "failing" /\ step \in {"get", "peek", "close", "forget"} => key # 0
    /\ (pc = "failing" /\ step \in {"note", "put", "audit"}) \/ pc \in {"raised", "sync"} =>
         key = 0
    /\ (pc = "finish" /\ step = "audit") \/ pc = "read" => row.status = "COMPLETED"

\* and only the span of an agent that raised is closed as failed
Blamed ==
  faults = 0 =>
    /\ pc = "failing" /\ key # 0 => spans[key].did = "raised"
    /\ \A i \in Agents : spans[i].status = "failed" => spans[i].did = "raised"

\* how the run ends, in the session row, the verdict and the trace
Outcome ==
  /\ pc \in {"finalLog", "finalSpan", "finalTrace"} => final = row.status
  /\ trace \in Endings => pc = "poll" \/ task = "retry"
  /\ verdict = "success" => pc \in Finals \cup {"poll"} \/ task = "retry"
  /\ TraceTruthful

\* the same while nothing fails and nobody dies
Synced ==
  faults = 0 /\ crashes = 0 =>
    /\ handled = (IF verdict = "failed" THEN 1 ELSE 0)
    /\ verdict # "none" => pc \in Finals \cup {"sync", "poll"} \/ task = "retry"
    /\ pc \in Finals => verdict # "none"
    /\ pc \in {"failing", "raised", "sync"} => handling
    /\ pc \in {"raised", "sync"} => row.status = "FAILED" \/ row.node = 0
    /\ pc \in {"failing", "sync"} /\ step = "audit" => row.status = "FAILED"
    /\ pc = "sync" => verdict = "failed"
    /\ pc = "sync" /\ step \in {"peek", "close", "forget", "note"} => row.node # 0
    /\ verdict = "failed" /\ pc # "sync" => row.status = "FAILED"

IInv ==
  /\ ControlType /\ SpanType /\ LogType
  /\ Once /\ Places /\ Fates /\ KeyNamed /\ Blamed /\ Outcome /\ Synced

-----------------------------------------------------------------------------
LEMMA TypeParts == TypeOK <=> ControlType /\ SpanType /\ LogType
  BY DEF TypeOK, ControlType, SpanType, LogType, Finals, AtWork

\* what a step may do to the table of the spans
OpenedAs(kind) ==
  /\ spans' \in Seq(Span) /\ Len(spans') = Len(spans) + 1
  /\ \A i \in 1..Len(spans) : spans'[i] = spans[i]
  /\ spans'[Len(spans) + 1].kind = kind
  /\ spans'[Len(spans) + 1].did = "pending"
  /\ spans'[Len(spans) + 1].status \in {"running", "absent"}
ClosedAs(id, status) ==
  /\ spans' \in Seq(Span) /\ Len(spans') = Len(spans)
  /\ \A i \in 1..Len(spans) :
       /\ spans'[i].kind = spans[i].kind /\ spans'[i].did = spans[i].did
       /\ spans'[i].status = spans[i].status \/ (i = id /\ spans'[i].status = status)
FaredAs(did) ==
  /\ spans' \in Seq(Span) /\ Len(spans') = Len(spans)
  /\ \A i \in 1..Len(spans) :
       /\ spans'[i].kind = spans[i].kind /\ spans'[i].status = spans[i].status
       /\ spans'[i].did = IF i = mine THEN did ELSE spans[i].did

LEMMA Opened ==
  ASSUME SpanType,
         NEW kind \in {"api", "worker", "agent", "sandbox"}, NEW n \in 0..Learning,
         NEW in \in {"run", "fallback"}, NEW ok \in BOOLEAN, OpenSpan(kind, n, in, ok)
  PROVE  OpenedAs(kind)
<1> DEFINE s == [kind |-> kind, node |-> n, in |-> in, did |-> "pending",
                 status |-> IF ok /\ (enforced => HasTrace(in)) THEN "running" ELSE "absent"]
<1>1. s \in Span /\ s.kind = kind /\ s.did = "pending" /\ s.status \in {"running", "absent"}
  BY DEF Span
<1>2. spans' = Append(spans, s)
  BY DEF OpenSpan
<1> HIDE DEF s
<1> QED BY <1>1, <1>2 DEF SpanType, OpenedAs

LEMMA Closed ==
  ASSUME SpanType, NEW id \in Nat, NEW status \in Endings, NEW ok, CloseSpan(id, status, ok)
  PROVE  ClosedAs(id, status)
<1> USE DEF ClosedAs
<1>1. CASE spans' = spans BY <1>1 DEF SpanType
<1>2. CASE spans' = [spans EXCEPT ![id].status = status]
  <2>1. \A i \in 1..Len(spans) : spans[i] \in Span BY DEF SpanType
  <2>2. \A i \in 1..Len(spans) : [spans[i] EXCEPT !.status = status] \in Span
    BY <2>1 DEF Span
  <2>3. Len(spans') = Len(spans) /\ DOMAIN spans' = 1..Len(spans) BY <1>2 DEF SpanType
  <2>4. \A i \in 1..Len(spans) :
          spans'[i] = IF i = id THEN [spans[i] EXCEPT !.status = status] ELSE spans[i]
    BY <1>2 DEF SpanType
  <2>5. spans' \in Seq(Span)
    <3>1. Len(spans) \in Nat /\ \A i \in 1..Len(spans) : spans'[i] \in Span
      <4>1. Len(spans) \in Nat BY DEF SpanType
      <4> QED BY <2>1, <2>2, <2>4, <4>1
    <3>2. spans' = [i \in 1..Len(spans) |-> spans'[i]] BY <1>2, <2>3
    <3> QED BY <3>1, <3>2
  <2>6. \A i \in 1..Len(spans) : spans[i] \in 
          [kind : {"api", "worker", "agent", "sandbox"}, node : 0..Learning,
           in : {"run", "fallback"}, status : Endings \cup {"absent", "running"},
          did : {"pending", "ok", "raised"}]
    BY <2>1 DEF Span
  <2> QED BY <2>3, <2>4, <2>5, <2>6
<1> QED BY <1>1, <1>2 DEF CloseSpan

LEMMA Fared ==
  ASSUME SpanType, NEW did \in {"ok", "raised"}, Fares(did)
  PROVE  FaredAs(did)
<1> USE DEF FaredAs
<1>1. mine \in Nat /\ \A i \in 1..Len(spans) : spans[i] \in Span /\ i # 0 BY DEF SpanType
<1>2. CASE mine = 0 BY <1>1, <1>2 DEF Fares, SpanType
<1>3. CASE mine # 0
  <2>1. spans' = [spans EXCEPT ![mine].did = did] BY <1>3 DEF Fares
  <2>2. \A i \in 1..Len(spans) : [spans[i] EXCEPT !.did = did] \in Span
    BY <1>1 DEF Span
  <2>3. Len(spans') = Len(spans) /\ DOMAIN spans' = 1..Len(spans) BY <2>1 DEF SpanType
  <2>4. \A i \in 1..Len(spans) :
          spans'[i] = IF i = mine THEN [spans[i] EXCEPT !.did = did] ELSE spans[i]
    BY <2>1 DEF SpanType
  <2>5. spans' \in Seq(Span)
    <3>1. Len(spans) \in Nat /\ \A i \in 1..Len(spans) : spans'[i] \in Span
      <4>1. Len(spans) \in Nat BY DEF SpanType
      <4> QED BY <1>1, <2>2, <2>4, <4>1
    <3>2. spans' = [i \in 1..Len(spans) |-> spans'[i]] BY <2>1, <2>3
    <3> QED BY <3>1, <3>2
  <2> QED BY <1>1, <2>3, <2>4, <2>5 DEF Span
<1> QED BY <1>2, <1>3

LEMMA Kinds == SpanType => \A i \in 1..Len(spans) : spans[i] \in Span
  BY DEF SpanType

LEMMA InitIInv == Init => IInv
<1> SUFFICES ASSUME Init PROVE IInv
  OBVIOUS
<1> USE TracingAssumption DEF Init
<1>1. ControlType
  <2>1. row \in Row BY DEF Row
  <2>2. node \in Stages BY DEF Stages, Planning
  <2>3. pc \in {"poll"} /\ queue \in Seq({"first", "retry"}) /\ loop \in 0..(MaxLoops - 1) OBVIOUS
  <2>4. enforced \in Databases /\ faults \in 0..MaxFaults /\ crashes \in 0..MaxCrashes /\ handled \in Nat
    OBVIOUS
  <2>5. node \in Stages /\ step = "idle" /\ handling = FALSE /\ api = "start" /\ trace = "none"
        /\ task = "none" /\ final = "none" /\ verdict = "none"
    BY <2>2
  <2> HIDE DEF Init
  <2> QED BY <2>1, <2>3, <2>4, <2>5 DEF ControlType
<1>2. SpanType /\ LogType BY DEF SpanType, LogType
<1>3. Once BY DEF Once, Fresh, Endings
<1>4. Places /\ Fates /\ KeyNamed /\ Blamed
  BY DEF Places, Fates, KeyNamed, Blamed, Agents, AtWork
<1>5. Outcome /\ Synced BY DEF Outcome, Synced, TraceTruthful, Endings, Finals
<1> QED BY <1>1, <1>2, <1>3, <1>4, <1>5 DEF IInv

-----------------------------------------------------------------------------
(* The types. *)

LEMMA ControlTypeStep ==
  (ControlType /\ Once) /\ [Next]_vars => ControlType'
<1>1. SUFFICES ASSUME (ControlType /\ Once), [Next]_vars PROVE ControlType'
  OBVIOUS
<1> USE TracingAssumption
      DEF rowVars, workVars, jobVars, restVars, freeVars, vars, ControlType, Calls,
          Endings, AtWork, Finals, Row, Stages, Planning
<1>2. CASE StartTrace BY <1>1, <1>2 DEF StartTrace, ApiGoto, Works, CreateTrace
<1>3. CASE OpenRoot BY <1>1, <1>3 DEF OpenRoot, ApiGoto, Works
<1>4. CASE LogEnqueued BY <1>1, <1>4 DEF LogEnqueued, ApiGoto, Works
<1>5. CASE Submit BY <1>1, <1>5 DEF Submit, ApiGoto, Created
<1>6. CASE SubmitRaises BY <1>1, <1>6 DEF SubmitRaises, ApiGoto, Created
<1>7. CASE CloseRoot BY <1>1, <1>7 DEF CloseRoot, ApiGoto, Works
<1>8. CASE ApiDies BY <1>1, <1>8 DEF ApiDies
<1>9. CASE ReadSession
  BY <1>1, <1>9 DEF ReadSession, HasUser, Within, FirstStep, Ends, NewNode, NewStatus
<1>10. CASE ReadSessionRaises
  <2>1. pc \in Calls BY <1>1, <1>10 DEF Once, ReadSessionRaises
  <2>2. faults' \in 0..MaxFaults BY <1>1, <1>10 DEF ReadSessionRaises, Works
  <2>3. Return(FALSE) BY <1>10 DEF ReadSessionRaises
  <2>4. pc' \in {"poll", "run", "raised", "read", "final"} /\ step' = "idle"
        /\ handling' \in BOOLEAN /\ task' \in {task, "none"}
    BY <1>1, <2>1, <2>3 DEF Return
  <2> QED BY <1>1, <1>10, <2>2, <2>4 DEF ReadSessionRaises
<1>11. CASE FindSpan BY <1>1, <1>11 DEF FindSpan, Within
<1>12. CASE FindNoSpan
  <2>1. pc \in Calls BY <1>1, <1>12 DEF Once, FindNoSpan
  <2>2. faults' \in 0..MaxFaults BY <1>1, <1>12 DEF FindNoSpan, Works
  <2>3. CASE Ends
    <3>1. Return(FALSE) BY <1>12, <2>3 DEF FindNoSpan
    <3>2. pc' \in {"poll", "run", "raised", "read", "final"} /\ step' = "idle"
          /\ handling' \in BOOLEAN /\ task' \in {task, "none"}
      BY <1>1, <2>1, <3>1 DEF Return
    <3> QED BY <1>1, <1>12, <2>2, <3>2 DEF FindNoSpan
  <2>4. CASE ~Ends BY <1>1, <1>12, <2>2, <2>4 DEF FindNoSpan, Within
  <2> QED BY <2>3, <2>4
<1>13. CASE CloseAgentSpan
  BY <1>1, <1>13 DEF CloseAgentSpan, Within, Works, Ending, NewNode, NewStatus
<1>14. CASE ForgetSpan BY <1>1, <1>14 DEF ForgetSpan, Within, Works
<1>15. CASE LogCompleted BY <1>1, <1>15 DEF LogCompleted, Within, Works, NewNode
<1>16. CASE CreateAgentSpan BY <1>1, <1>16 DEF CreateAgentSpan, Within, Works, NewNode
<1>17. CASE SaveSpan BY <1>1, <1>17 DEF SaveSpan, Within, Works
<1>18. CASE LogAgentStarted BY <1>1, <1>18 DEF LogAgentStarted, Within, Works
<1>19. CASE WriteRow BY <1>1, <1>19 DEF WriteRow, Within, NewNode, NewStatus
<1>20. CASE WriteRaises
  <2>1. pc \in Calls BY <1>1, <1>20 DEF Once, WriteRaises
  <2> QED BY <1>1, <1>20, <2>1 DEF WriteRaises, Works, Return
<1>21. CASE LogAudit
  <2>1. pc \in Calls BY <1>1, <1>21 DEF Once, LogAudit
  <2> QED BY <1>1, <1>21, <2>1 DEF LogAudit, Return
<1>22. CASE TakeJob BY <1>1, <1>22 DEF TakeJob, Goto
<1>23. CASE LogStarted BY <1>1, <1>23 DEF LogStarted, Goto, Works
<1>24. CASE OpenWorkerSpan BY <1>1, <1>24 DEF OpenWorkerSpan, Call, Works, HasUser
<1>25. CASE PlanningUnresolved BY <1>1, <1>25 DEF PlanningUnresolved, Goto
<1>26. CASE StartPlanning BY <1>1, <1>26 DEF StartPlanning, Call
<1>27. CASE OpenSandbox BY <1>1, <1>27 DEF OpenSandbox, Goto, Works
<1>28. CASE LogSandbox BY <1>1, <1>28 DEF LogSandbox, Goto, Works
<1>29. CASE SandboxRaises BY <1>1, <1>29 DEF SandboxRaises, Goto
<1>30. CASE CloseSandbox BY <1>1, <1>30 DEF CloseSandbox, Goto, Works
<1>31. CASE StageCompletes BY <1>1, <1>31 DEF StageCompletes
<1>32. CASE StageRaises BY <1>1, <1>32 DEF StageRaises, Call
<1>33. CASE Reroute BY <1>1, <1>33 DEF Reroute, Call
<1>34. CASE Proceed BY <1>1, <1>34 DEF Proceed, Call
<1>35. CASE ReadRaises BY <1>1, <1>35 DEF ReadRaises, Goto, Works
<1>36. CASE Succeeds BY <1>1, <1>36 DEF Succeeds, Goto
<1>37. CASE NotCompleted BY <1>1, <1>37 DEF NotCompleted, Goto
<1>38. CASE HandleFailure BY <1>1, <1>38 DEF HandleFailure, Call
<1>39. CASE HandleRaises BY <1>1, <1>39 DEF HandleRaises, Goto, Works
<1>40. CASE ReadFinal BY <1>1, <1>40 DEF ReadFinal, Goto
<1>41. CASE ReadFinalRaises BY <1>1, <1>41 DEF ReadFinalRaises, Works, Done
<1>42. CASE LogFinal BY <1>1, <1>42 DEF LogFinal, Goto, Works, FinalStatus
<1>43. CASE CloseWorkerSpan BY <1>1, <1>43 DEF CloseWorkerSpan, Goto, Works, FinalStatus
<1>44. CASE FinishTrace BY <1>1, <1>44 DEF FinishTrace, Done, Works, EndTrace, FinalStatus
<1>45. CASE WorkerDies BY <1>1, <1>45 DEF WorkerDies, Done
<1>46. CASE UNCHANGED vars BY <1>1, <1>46
<1> QED
  BY <1>1, <1>2, <1>3, <1>4, <1>5, <1>6, <1>7, <1>8, <1>9, <1>10, <1>11, <1>12, <1>13,
     <1>14, <1>15, <1>16, <1>17, <1>18, <1>19, <1>20, <1>21, <1>22, <1>23, <1>24,
     <1>25, <1>26, <1>27, <1>28, <1>29, <1>30, <1>31, <1>32, <1>33, <1>34, <1>35,
     <1>36, <1>37, <1>38, <1>39, <1>40, <1>41, <1>42, <1>43, <1>44, <1>45, <1>46
     DEF Next, ApiStep, WorkerStep, UpdateSession

LEMMA Opens ==
  ControlType /\ SpanType =>
    /\ OpenRoot => OpenedAs("api")
    /\ OpenWorkerSpan => OpenedAs("worker")
    /\ OpenSandbox => OpenedAs("sandbox")
    /\ CreateAgentSpan => OpenedAs("agent")
<1> SUFFICES ASSUME ControlType, SpanType
             PROVE  /\ OpenRoot => OpenedAs("api")
                    /\ OpenWorkerSpan => OpenedAs("worker")
                    /\ OpenSandbox => OpenedAs("sandbox")
                    /\ CreateAgentSpan => OpenedAs("agent")
  OBVIOUS
<1>1. ASSUME OpenRoot PROVE OpenedAs("api")
  <2>1. 0 \in 0..Learning
    BY TracingAssumption
  <2>2. ("run") \in {"run", "fallback"} OBVIOUS
  <2>3. "api" \in {"api", "worker", "agent", "sandbox"} OBVIOUS
  <2>4. PICK ok \in BOOLEAN : OpenSpan("api", 0, "run", ok) BY <1>1 DEF OpenRoot
  <2> QED BY <2>1, <2>2, <2>3, <2>4, Opened
<1>2. ASSUME OpenWorkerSpan PROVE OpenedAs("worker")
  <2>1. 0 \in 0..Learning
    BY TracingAssumption
  <2>2. (IF HasUser THEN "run" ELSE "fallback") \in {"run", "fallback"} OBVIOUS
  <2>3. "worker" \in {"api", "worker", "agent", "sandbox"} OBVIOUS
  <2>4. PICK ok \in BOOLEAN : OpenSpan("worker", 0, IF HasUser THEN "run" ELSE "fallback", ok)
    BY <1>2 DEF OpenWorkerSpan
  <2> QED BY <2>1, <2>2, <2>3, <2>4, Opened
<1>3. ASSUME OpenSandbox PROVE OpenedAs("sandbox")
  <2>1. 0 \in 0..Learning
    BY TracingAssumption
  <2>2. ("run") \in {"run", "fallback"} OBVIOUS
  <2>3. "sandbox" \in {"api", "worker", "agent", "sandbox"} OBVIOUS
  <2>4. PICK ok \in BOOLEAN : OpenSpan("sandbox", 0, "run", ok) BY <1>3 DEF OpenSandbox
  <2> QED BY <2>1, <2>2, <2>3, <2>4, Opened
<1>4. ASSUME CreateAgentSpan PROVE OpenedAs("agent")
  <2>1. NewNode \in 0..Learning
    BY TracingAssumption DEF NewNode, ControlType, Stages, Planning
  <2>2. ("run") \in {"run", "fallback"} OBVIOUS
  <2>3. "agent" \in {"api", "worker", "agent", "sandbox"} OBVIOUS
  <2>4. PICK ok \in BOOLEAN : OpenSpan("agent", NewNode, "run", ok)
    BY <1>4 DEF CreateAgentSpan
  <2> QED BY <2>1, <2>2, <2>3, <2>4, Opened
<1> QED BY <1>1, <1>2, <1>3, <1>4

LEMMA Closes ==
  SpanType =>
    /\ CloseRoot => ClosedAs(1, IF api = "leave" THEN "success" ELSE "failed")
    /\ CloseAgentSpan => ClosedAs(key, Ending)
    /\ CloseSandbox => ClosedAs(Len(spans), IF pc = "boxed" THEN "success" ELSE "failed")
    /\ CloseWorkerSpan => ClosedAs(wspan, FinalStatus)
<1> SUFFICES ASSUME SpanType
             PROVE  /\ CloseRoot => ClosedAs(1, IF api = "leave" THEN "success" ELSE "failed")
                    /\ CloseAgentSpan => ClosedAs(key, Ending)
                    /\ CloseSandbox => ClosedAs(Len(spans), IF pc = "boxed" THEN "success" ELSE "failed")
                    /\ CloseWorkerSpan => ClosedAs(wspan, FinalStatus)
  OBVIOUS
<1>1. ASSUME CloseRoot PROVE ClosedAs(1, IF api = "leave" THEN "success" ELSE "failed")
  <2>1. 1 \in Nat BY DEF SpanType
  <2>2. (IF api = "leave" THEN "success" ELSE "failed") \in Endings
    BY DEF Endings, Ending, FinalStatus
  <2>3. PICK ok \in BOOLEAN : CloseSpan(1, IF api = "leave" THEN "success" ELSE "failed", ok)
    BY <1>1 DEF CloseRoot
  <2> QED BY <2>1, <2>2, <2>3, Closed
<1>2. ASSUME CloseAgentSpan PROVE ClosedAs(key, Ending)
  <2>1. key \in Nat BY DEF SpanType
  <2>2. (Ending) \in Endings BY DEF Endings, Ending, FinalStatus
  <2>3. PICK ok \in BOOLEAN : CloseSpan(key, Ending, ok) BY <1>2 DEF CloseAgentSpan
  <2> QED BY <2>1, <2>2, <2>3, Closed
<1>3. ASSUME CloseSandbox PROVE ClosedAs(Len(spans), IF pc = "boxed" THEN "success" ELSE "failed")
  <2>1. Len(spans) \in Nat BY DEF SpanType
  <2>2. (IF pc = "boxed" THEN "success" ELSE "failed") \in Endings
    BY DEF Endings, Ending, FinalStatus
  <2>3. PICK ok \in BOOLEAN : CloseSpan(Len(spans), IF pc = "boxed" THEN "success" ELSE "failed", ok)
    BY <1>3 DEF CloseSandbox
  <2> QED BY <2>1, <2>2, <2>3, Closed
<1>4. ASSUME CloseWorkerSpan PROVE ClosedAs(wspan, FinalStatus)
  <2>1. wspan \in Nat BY DEF SpanType
  <2>2. (FinalStatus) \in Endings BY DEF Endings, Ending, FinalStatus
  <2>3. PICK ok \in BOOLEAN : CloseSpan(wspan, FinalStatus, ok)
    BY <1>4 DEF CloseWorkerSpan
  <2> QED BY <2>1, <2>2, <2>3, Closed
<1> QED BY <1>1, <1>2, <1>3, <1>4

LEMMA AgentFares ==
  SpanType => /\ StageCompletes => FaredAs("ok")
              /\ StageRaises => FaredAs("raised")
  BY Fared DEF StageCompletes, StageRaises

\* a step adds spans and keeps the kind of those that are there
KindsKept ==
  /\ Len(spans') >= Len(spans)
  /\ \A i \in 1..Len(spans) : spans'[i].kind = spans[i].kind

LEMMA SpanTypeStep ==
  (ControlType /\ SpanType) /\ [Next]_vars => (SpanType' /\ KindsKept)
<1>1. SUFFICES ASSUME (ControlType /\ SpanType), [Next]_vars
               PROVE  (SpanType' /\ KindsKept)
  OBVIOUS
<1> USE
      DEF rowVars, workVars, jobVars, restVars, freeVars, vars, OpenedAs, ClosedAs,
          FaredAs, KindsKept
<1>2. CASE StartTrace BY <1>1, <1>2 DEF StartTrace, ApiGoto, Works, SpanType
<1>3. CASE OpenRoot
  <2>2. OpenedAs("api") BY <1>1, <1>3, Opens
  <2> QED BY <1>1, <1>3, <2>2 DEF SpanType, OpenedAs, FaredAs, OpenRoot, ApiGoto, Works
<1>4. CASE LogEnqueued BY <1>1, <1>4 DEF LogEnqueued, ApiGoto, Works, SpanType
<1>5. CASE Submit BY <1>1, <1>5 DEF Submit, ApiGoto, Created, SpanType
<1>6. CASE SubmitRaises BY <1>1, <1>6 DEF SubmitRaises, ApiGoto, Created, SpanType
<1>7. CASE CloseRoot
  <2> DEFINE status == IF api = "leave" THEN "success" ELSE "failed"
  <2>4. ClosedAs(1, status) BY <1>1, <1>7, Closes
  <2>2. status \in Endings BY DEF Endings, Ending, FinalStatus
  <2> HIDE DEF status
  <2> QED BY <1>1, <1>7, <2>4 DEF SpanType, ClosedAs, CloseRoot, ApiGoto, Works
<1>8. CASE ApiDies BY <1>1, <1>8 DEF ApiDies, SpanType
<1>9. CASE ReadSession BY <1>1, <1>9 DEF ReadSession, HasUser, Within, SpanType
<1>10. CASE ReadSessionRaises
  BY <1>1, <1>10 DEF ReadSessionRaises, HasUser, Works, SpanType
<1>11. CASE FindSpan BY <1>1, <1>11 DEF FindSpan, Within, SpanType
<1>12. CASE FindNoSpan BY <1>1, <1>12 DEF FindNoSpan, Works, Within, SpanType
<1>13. CASE CloseAgentSpan
  <2> DEFINE status == Ending
  <2>4. ClosedAs(key, status) BY <1>1, <1>13, Closes
  <2>2. status \in Endings BY DEF Endings, Ending, FinalStatus
  <2> HIDE DEF status
  <2> QED
    BY <1>1, <1>13, <2>4
      DEF SpanType, ClosedAs, CloseAgentSpan, Within, Works, Ending, NewNode, NewStatus
<1>14. CASE ForgetSpan BY <1>1, <1>14 DEF ForgetSpan, Within, Works, SpanType
<1>15. CASE LogCompleted BY <1>1, <1>15 DEF LogCompleted, Within, Works, SpanType
<1>16. CASE CreateAgentSpan
  <2>2. OpenedAs("agent") BY <1>1, <1>16, Opens
  <2> QED
    BY <1>1, <1>16, <2>2
      DEF SpanType, OpenedAs, FaredAs, CreateAgentSpan, Within, Works, NewNode
<1>17. CASE SaveSpan BY <1>1, <1>17 DEF SaveSpan, Within, Works, SpanType
<1>18. CASE LogAgentStarted BY <1>1, <1>18 DEF LogAgentStarted, Within, Works, SpanType
<1>19. CASE WriteRow BY <1>1, <1>19 DEF WriteRow, Within, SpanType
<1>20. CASE WriteRaises BY <1>1, <1>20 DEF WriteRaises, Works, SpanType
<1>21. CASE LogAudit BY <1>1, <1>21 DEF LogAudit, SpanType
<1>22. CASE TakeJob BY <1>1, <1>22 DEF TakeJob, Goto, SpanType
<1>23. CASE LogStarted BY <1>1, <1>23 DEF LogStarted, Goto, Works, SpanType
<1>24. CASE OpenWorkerSpan
  <2>2. OpenedAs("worker") BY <1>1, <1>24, Opens
  <2> QED
    BY <1>1, <1>24, <2>2
      DEF SpanType, OpenedAs, FaredAs, OpenWorkerSpan, Call, Works, HasUser
<1>25. CASE PlanningUnresolved BY <1>1, <1>25 DEF PlanningUnresolved, Goto, SpanType
<1>26. CASE StartPlanning BY <1>1, <1>26 DEF StartPlanning, Call, SpanType
<1>27. CASE OpenSandbox
  <2>2. OpenedAs("sandbox") BY <1>1, <1>27, Opens
  <2> QED BY <1>1, <1>27, <2>2 DEF SpanType, OpenedAs, FaredAs, OpenSandbox, Goto, Works
<1>28. CASE LogSandbox BY <1>1, <1>28 DEF LogSandbox, Goto, Works, SpanType
<1>29. CASE SandboxRaises BY <1>1, <1>29 DEF SandboxRaises, Goto, SpanType
<1>30. CASE CloseSandbox
  <2> DEFINE status == IF pc = "boxed" THEN "success" ELSE "failed"
  <2>4. ClosedAs(Len(spans), status) BY <1>1, <1>30, Closes
  <2>2. status \in Endings BY DEF Endings, Ending, FinalStatus
  <2> HIDE DEF status
  <2> QED BY <1>1, <1>30, <2>4 DEF SpanType, ClosedAs, CloseSandbox, Goto, Works
<1>31. CASE StageCompletes
  <2>2. FaredAs("ok") BY <1>1, <1>31, AgentFares
  <2> QED BY <1>1, <1>31, <2>2 DEF SpanType, OpenedAs, FaredAs, StageCompletes
<1>32. CASE StageRaises
  <2>2. FaredAs("raised") BY <1>1, <1>32, AgentFares
  <2> QED BY <1>1, <1>32, <2>2 DEF SpanType, OpenedAs, FaredAs, StageRaises, Call
<1>33. CASE Reroute BY <1>1, <1>33 DEF Reroute, Call, SpanType
<1>34. CASE Proceed BY <1>1, <1>34 DEF Proceed, Call, SpanType
<1>35. CASE ReadRaises BY <1>1, <1>35 DEF ReadRaises, Goto, Works, SpanType
<1>36. CASE Succeeds BY <1>1, <1>36 DEF Succeeds, Goto, SpanType
<1>37. CASE NotCompleted BY <1>1, <1>37 DEF NotCompleted, Goto, SpanType
<1>38. CASE HandleFailure BY <1>1, <1>38 DEF HandleFailure, Call, SpanType
<1>39. CASE HandleRaises BY <1>1, <1>39 DEF HandleRaises, Goto, Works, SpanType
<1>40. CASE ReadFinal BY <1>1, <1>40 DEF ReadFinal, Goto, SpanType
<1>41. CASE ReadFinalRaises BY <1>1, <1>41 DEF ReadFinalRaises, Works, Done, SpanType
<1>42. CASE LogFinal BY <1>1, <1>42 DEF LogFinal, Goto, Works, SpanType
<1>43. CASE CloseWorkerSpan
  <2> DEFINE status == FinalStatus
  <2>4. ClosedAs(wspan, status) BY <1>1, <1>43, Closes
  <2>2. status \in Endings BY DEF Endings, Ending, FinalStatus
  <2> HIDE DEF status
  <2> QED
    BY <1>1, <1>43, <2>4 DEF SpanType, ClosedAs, CloseWorkerSpan, Goto, Works, FinalStatus
<1>44. CASE FinishTrace BY <1>1, <1>44 DEF FinishTrace, Done, Works, SpanType
<1>45. CASE WorkerDies BY <1>1, <1>45 DEF WorkerDies, Done, SpanType
<1>46. CASE UNCHANGED vars BY <1>1, <1>46 DEF SpanType
<1> QED
  BY <1>1, <1>2, <1>3, <1>4, <1>5, <1>6, <1>7, <1>8, <1>9, <1>10, <1>11, <1>12, <1>13,
     <1>14, <1>15, <1>16, <1>17, <1>18, <1>19, <1>20, <1>21, <1>22, <1>23, <1>24,
     <1>25, <1>26, <1>27, <1>28, <1>29, <1>30, <1>31, <1>32, <1>33, <1>34, <1>35,
     <1>36, <1>37, <1>38, <1>39, <1>40, <1>41, <1>42, <1>43, <1>44, <1>45, <1>46
     DEF Next, ApiStep, WorkerStep, UpdateSession

\* what a step may do to the events
LEMMA Logged ==
  ASSUME LogType,
         NEW event \in {"JOB_ENQUEUED", "JOB_STARTED", "JOB_COMPLETED", "JOB_FAILED",
                        "AGENT_STARTED", "AGENT_COMPLETED", "SANDBOX_EXECUTED"},
         NEW n \in Nat, NEW status \in Endings \cup {"none"}, NEW at, NEW ok,
         LogEvent(event, n, status, at, ok)
  PROVE  LogType'
<1>1. [event |-> event, node |-> n, status |-> status] \in Event
  BY DEF Event
<1>2. log' = log \/ log' = Append(log, [event |-> event, node |-> n, status |-> status])
  BY DEF LogEvent
<1> QED BY <1>1, <1>2 DEF LogType

LEMMA LogTypeStep ==
  (ControlType /\ LogType) /\ [Next]_vars => LogType'
<1>1. SUFFICES ASSUME (ControlType /\ LogType), [Next]_vars PROVE LogType'
  OBVIOUS
<1> USE DEF rowVars, workVars, jobVars, restVars, freeVars, vars
<1>2. CASE StartTrace BY <1>1, <1>2 DEF StartTrace, ApiGoto, LogType
<1>3. CASE OpenRoot BY <1>1, <1>3 DEF OpenRoot, ApiGoto, LogType
<1>4. CASE LogEnqueued
  <2>1. "success" \in Endings BY DEF Endings
  <2>2. PICK ok \in BOOLEAN : LogEvent("JOB_ENQUEUED", 0, "none", Len(spans), ok)
    BY <1>4 DEF LogEnqueued
  <2> QED BY <1>1, <2>1, <2>2, Logged
<1>5. CASE Submit BY <1>1, <1>5 DEF Submit, ApiGoto, Created, LogType
<1>6. CASE SubmitRaises BY <1>1, <1>6 DEF SubmitRaises, ApiGoto, Created, LogType
<1>7. CASE CloseRoot BY <1>1, <1>7 DEF CloseRoot, ApiGoto, LogType
<1>8. CASE ApiDies BY <1>1, <1>8 DEF ApiDies, LogType
<1>9. CASE ReadSession BY <1>1, <1>9 DEF ReadSession, HasUser, Within, LogType
<1>10. CASE ReadSessionRaises
  BY <1>1, <1>10 DEF ReadSessionRaises, HasUser, Return, LogType
<1>11. CASE FindSpan BY <1>1, <1>11 DEF FindSpan, Within, LogType
<1>12. CASE FindNoSpan BY <1>1, <1>12 DEF FindNoSpan, Return, Within, LogType
<1>13. CASE CloseAgentSpan BY <1>1, <1>13 DEF CloseAgentSpan, Within, LogType
<1>14. CASE ForgetSpan BY <1>1, <1>14 DEF ForgetSpan, Within, LogType
<1>15. CASE LogCompleted
  <2>1. row.node \in Nat /\ Ending \in Endings
    BY <1>1, TracingAssumption DEF ControlType, Row, Ending, Endings, Stages, Planning
  <2>2. PICK ok \in BOOLEAN : LogEvent("AGENT_COMPLETED", row.node, Ending, wspan, ok)
    BY <1>15 DEF LogCompleted
  <2> QED BY <1>1, <2>1, <2>2, Logged
<1>16. CASE CreateAgentSpan BY <1>1, <1>16 DEF CreateAgentSpan, Within, LogType
<1>17. CASE SaveSpan BY <1>1, <1>17 DEF SaveSpan, Within, LogType
<1>18. CASE LogAgentStarted
  <2>1. NewNode \in Nat
    BY <1>1, TracingAssumption DEF ControlType, NewNode, Stages, Planning
  <2>2. PICK ok \in BOOLEAN : LogEvent("AGENT_STARTED", NewNode, "none", wspan, ok)
    BY <1>18 DEF LogAgentStarted
  <2> QED BY <1>1, <2>1, <2>2, Logged
<1>19. CASE WriteRow BY <1>1, <1>19 DEF WriteRow, Within, LogType
<1>20. CASE WriteRaises BY <1>1, <1>20 DEF WriteRaises, Return, LogType
<1>21. CASE LogAudit BY <1>1, <1>21 DEF LogAudit, Return, LogType
<1>22. CASE TakeJob BY <1>1, <1>22 DEF TakeJob, Goto, LogType
<1>23. CASE LogStarted
  <2>1. CASE UNCHANGED log BY <1>1, <2>1 DEF LogType
  <2>2. CASE \E ok \in BOOLEAN : LogEvent("JOB_STARTED", 0, "none", 0, ok)
    BY <1>1, <2>2, Logged, SMT DEF Endings
  <2> QED BY <1>23, <2>1, <2>2 DEF LogStarted
<1>24. CASE OpenWorkerSpan BY <1>1, <1>24 DEF OpenWorkerSpan, Call, HasUser, LogType
<1>25. CASE PlanningUnresolved BY <1>1, <1>25 DEF PlanningUnresolved, Goto, LogType
<1>26. CASE StartPlanning BY <1>1, <1>26 DEF StartPlanning, Call, LogType
<1>27. CASE OpenSandbox BY <1>1, <1>27 DEF OpenSandbox, Goto, LogType
<1>28. CASE LogSandbox
  <2>1. "success" \in Endings BY DEF Endings
  <2>2. PICK ok \in BOOLEAN : LogEvent("SANDBOX_EXECUTED", 0, "success", Len(spans), ok)
    BY <1>28 DEF LogSandbox
  <2> QED BY <1>1, <2>1, <2>2, Logged
<1>29. CASE SandboxRaises BY <1>1, <1>29 DEF SandboxRaises, Goto, LogType
<1>30. CASE CloseSandbox BY <1>1, <1>30 DEF CloseSandbox, Goto, LogType
<1>31. CASE StageCompletes BY <1>1, <1>31 DEF StageCompletes, LogType
<1>32. CASE StageRaises BY <1>1, <1>32 DEF StageRaises, Call, LogType
<1>33. CASE Reroute BY <1>1, <1>33 DEF Reroute, Call, LogType
<1>34. CASE Proceed BY <1>1, <1>34 DEF Proceed, Call, LogType
<1>35. CASE ReadRaises BY <1>1, <1>35 DEF ReadRaises, Goto, LogType
<1>36. CASE Succeeds BY <1>1, <1>36 DEF Succeeds, Goto, LogType
<1>37. CASE NotCompleted BY <1>1, <1>37 DEF NotCompleted, Goto, LogType
<1>38. CASE HandleFailure BY <1>1, <1>38 DEF HandleFailure, Call, LogType
<1>39. CASE HandleRaises BY <1>1, <1>39 DEF HandleRaises, Goto, LogType
<1>40. CASE ReadFinal BY <1>1, <1>40 DEF ReadFinal, Goto, LogType
<1>41. CASE ReadFinalRaises BY <1>1, <1>41 DEF ReadFinalRaises, Done, LogType
<1>42. CASE LogFinal
  <2>1. FinalStatus \in Endings BY DEF FinalStatus, Endings
  <2>2. PICK ok \in BOOLEAN : LogEvent(IF FinalStatus = "success" THEN "JOB_COMPLETED" ELSE "JOB_FAILED", 0, FinalStatus, wspan, ok)
    BY <1>42 DEF LogFinal
  <2> QED BY <1>1, <2>1, <2>2, Logged
<1>43. CASE CloseWorkerSpan BY <1>1, <1>43 DEF CloseWorkerSpan, Goto, LogType
<1>44. CASE FinishTrace BY <1>1, <1>44 DEF FinishTrace, Done, LogType
<1>45. CASE WorkerDies BY <1>1, <1>45 DEF WorkerDies, Done, LogType
<1>46. CASE UNCHANGED vars BY <1>1, <1>46 DEF LogType
<1> QED
  BY <1>1, <1>2, <1>3, <1>4, <1>5, <1>6, <1>7, <1>8, <1>9, <1>10, <1>11, <1>12, <1>13,
     <1>14, <1>15, <1>16, <1>17, <1>18, <1>19, <1>20, <1>21, <1>22, <1>23, <1>24,
     <1>25, <1>26, <1>27, <1>28, <1>29, <1>30, <1>31, <1>32, <1>33, <1>34, <1>35,
     <1>36, <1>37, <1>38, <1>39, <1>40, <1>41, <1>42, <1>43, <1>44, <1>45, <1>46
     DEF Next, ApiStep, WorkerStep, UpdateSession

(* The run. *)

LEMMA OnceStep ==
  (ControlType /\ SpanType /\ Once) /\ [Next]_vars => Once'
<1>1. SUFFICES ASSUME (ControlType /\ SpanType /\ Once), [Next]_vars PROVE Once'
  OBVIOUS
<1> USE TracingAssumption
      DEF rowVars, workVars, jobVars, restVars, freeVars, vars, OpenedAs, ClosedAs,
          FaredAs, ControlType, Once, Fresh, Calls, Endings, AtWork, Finals
<1>2. CASE StartTrace BY <1>1, <1>2 DEF StartTrace, ApiGoto, Works, CreateTrace
<1>3. CASE OpenRoot
  <2>2. OpenedAs("api") BY <1>1, <1>3, Opens
  <2> QED BY <1>1, <1>3, <2>2 DEF SpanType, OpenedAs, FaredAs, OpenRoot, ApiGoto, Works
<1>4. CASE LogEnqueued BY <1>1, <1>4 DEF LogEnqueued, ApiGoto, Works
<1>5. CASE Submit BY <1>1, <1>5 DEF Submit, ApiGoto, Created
<1>6. CASE SubmitRaises BY <1>1, <1>6 DEF SubmitRaises, ApiGoto, Created
<1>7. CASE CloseRoot
  <2> DEFINE status == IF api = "leave" THEN "success" ELSE "failed"
  <2>4. ClosedAs(1, status) BY <1>1, <1>7, Closes
  <2>2. status \in Endings BY DEF Endings, Ending, FinalStatus
  <2> HIDE DEF status
  <2>5. DOMAIN spans = 1..Len(spans) /\ DOMAIN spans' = 1..Len(spans)
    BY <1>1, <2>4 DEF SpanType
  <2>6. (\A i \in DOMAIN spans : spans[i].kind # "agent")
          => \A i \in DOMAIN spans' : spans'[i].kind # "agent"
    BY <2>4, <2>5
  <2>7. /\ UNCHANGED <<queue, pc, task, step, mine, key, handling, trace, verdict, handled, row>>
        /\ api' \in {"accepted", "rejected"} /\ api \in {"leave", "raise"}
    BY <1>7 DEF CloseRoot, ApiGoto
  <2>8. Fresh => Fresh' BY <2>6, <2>7
  <2> HIDE DEF Fresh
  <2> QED BY <1>1, <2>7, <2>8
<1>8. CASE ApiDies BY <1>1, <1>8 DEF ApiDies
<1>9. CASE ReadSession
  BY <1>1, <1>9 DEF ReadSession, HasUser, Within, FirstStep, Ends, NewNode, NewStatus
<1>10. CASE ReadSessionRaises BY <1>1, <1>10 DEF ReadSessionRaises, HasUser, Works, Return
<1>11. CASE FindSpan BY <1>1, <1>11 DEF FindSpan, Within
<1>12. CASE FindNoSpan
  BY <1>1, <1>12 DEF FindNoSpan, Works, Return, Within, Ends, NewNode, NewStatus
<1>13. CASE CloseAgentSpan
  <2> DEFINE status == Ending
  <2>4. ClosedAs(key, status) BY <1>1, <1>13, Closes
  <2>2. status \in Endings BY DEF Endings, Ending, FinalStatus
  <2> HIDE DEF status
  <2> QED
    BY <1>1, <1>13, <2>4
      DEF SpanType, ClosedAs, CloseAgentSpan, Within, Works, Ending, NewNode, NewStatus
<1>14. CASE ForgetSpan BY <1>1, <1>14 DEF ForgetSpan, Within, Works
<1>15. CASE LogCompleted BY <1>1, <1>15 DEF LogCompleted, Within, Works, NewNode
<1>16. CASE CreateAgentSpan
  <2>2. OpenedAs("agent") BY <1>1, <1>16, Opens
  <2> QED
    BY <1>1, <1>16, <2>2
      DEF SpanType, OpenedAs, FaredAs, CreateAgentSpan, Within, Works, NewNode
<1>17. CASE SaveSpan BY <1>1, <1>17 DEF SaveSpan, Within, Works
<1>18. CASE LogAgentStarted BY <1>1, <1>18 DEF LogAgentStarted, Within, Works
<1>19. CASE WriteRow BY <1>1, <1>19 DEF WriteRow, Within, NewNode, NewStatus
<1>20. CASE WriteRaises BY <1>1, <1>20 DEF WriteRaises, Works, Return
<1>21. CASE LogAudit BY <1>1, <1>21 DEF LogAudit, Return
<1>22. CASE TakeJob BY <1>1, <1>22 DEF TakeJob, Goto
<1>23. CASE LogStarted BY <1>1, <1>23 DEF LogStarted, Goto, Works
<1>24. CASE OpenWorkerSpan
  <2>2. OpenedAs("worker") BY <1>1, <1>24, Opens
  <2>5. DOMAIN spans = 1..Len(spans) /\ DOMAIN spans' = 1..(Len(spans) + 1) /\ Len(spans) \in Nat
    BY <1>1, <2>2 DEF SpanType
  <2>6. (\A i \in DOMAIN spans : spans[i].kind # "agent")
          => \A i \in DOMAIN spans' : spans'[i].kind # "agent"
    BY <2>2, <2>5
  <2>7. /\ UNCHANGED <<api, queue, task, mine, key, handling, trace, verdict, handled, row>>
        /\ pc = "span" /\ pc' = "open" /\ step' = "get"
    BY <1>24 DEF OpenWorkerSpan, Call
  <2>8. Fresh => Fresh' BY <2>6, <2>7
  <2> HIDE DEF Fresh
  <2> QED BY <1>1, <2>7, <2>8
<1>25. CASE PlanningUnresolved BY <1>1, <1>25 DEF PlanningUnresolved, Goto
<1>26. CASE StartPlanning BY <1>1, <1>26 DEF StartPlanning, Call
<1>27. CASE OpenSandbox
  <2>2. OpenedAs("sandbox") BY <1>1, <1>27, Opens
  <2> QED BY <1>1, <1>27, <2>2 DEF SpanType, OpenedAs, FaredAs, OpenSandbox, Goto, Works
<1>28. CASE LogSandbox BY <1>1, <1>28 DEF LogSandbox, Goto, Works
<1>29. CASE SandboxRaises BY <1>1, <1>29 DEF SandboxRaises, Goto
<1>30. CASE CloseSandbox
  <2> DEFINE status == IF pc = "boxed" THEN "success" ELSE "failed"
  <2>4. ClosedAs(Len(spans), status) BY <1>1, <1>30, Closes
  <2>2. status \in Endings BY DEF Endings, Ending, FinalStatus
  <2> HIDE DEF status
  <2> QED BY <1>1, <1>30, <2>4 DEF SpanType, ClosedAs, CloseSandbox, Goto, Works
<1>31. CASE StageCompletes
  <2>2. FaredAs("ok") BY <1>1, <1>31, AgentFares
  <2> QED BY <1>1, <1>31, <2>2 DEF SpanType, OpenedAs, FaredAs, StageCompletes
<1>32. CASE StageRaises
  <2>2. FaredAs("raised") BY <1>1, <1>32, AgentFares
  <2> QED BY <1>1, <1>32, <2>2 DEF SpanType, OpenedAs, FaredAs, StageRaises, Call
<1>33. CASE Reroute BY <1>1, <1>33 DEF Reroute, Call
<1>34. CASE Proceed BY <1>1, <1>34 DEF Proceed, Call
<1>35. CASE ReadRaises BY <1>1, <1>35 DEF ReadRaises, Goto, Works
<1>36. CASE Succeeds BY <1>1, <1>36 DEF Succeeds, Goto
<1>37. CASE NotCompleted BY <1>1, <1>37 DEF NotCompleted, Goto
<1>38. CASE HandleFailure BY <1>1, <1>38 DEF HandleFailure, Call
<1>39. CASE HandleRaises BY <1>1, <1>39 DEF HandleRaises, Goto, Works
<1>40. CASE ReadFinal BY <1>1, <1>40 DEF ReadFinal, Goto
<1>41. CASE ReadFinalRaises BY <1>1, <1>41 DEF ReadFinalRaises, Works, Done
<1>42. CASE LogFinal BY <1>1, <1>42 DEF LogFinal, Goto, Works, FinalStatus
<1>43. CASE CloseWorkerSpan
  <2> DEFINE status == FinalStatus
  <2>4. ClosedAs(wspan, status) BY <1>1, <1>43, Closes
  <2>2. status \in Endings BY DEF Endings, Ending, FinalStatus
  <2> HIDE DEF status
  <2> QED
    BY <1>1, <1>43, <2>4 DEF SpanType, ClosedAs, CloseWorkerSpan, Goto, Works, FinalStatus
<1>44. CASE FinishTrace BY <1>1, <1>44 DEF FinishTrace, Done, Works, EndTrace, FinalStatus
<1>45. CASE WorkerDies BY <1>1, <1>45 DEF WorkerDies, Done
<1>46. CASE UNCHANGED vars BY <1>1, <1>46
<1> QED
  BY <1>1, <1>2, <1>3, <1>4, <1>5, <1>6, <1>7, <1>8, <1>9, <1>10, <1>11, <1>12, <1>13,
     <1>14, <1>15, <1>16, <1>17, <1>18, <1>19, <1>20, <1>21, <1>22, <1>23, <1>24,
     <1>25, <1>26, <1>27, <1>28, <1>29, <1>30, <1>31, <1>32, <1>33, <1>34, <1>35,
     <1>36, <1>37, <1>38, <1>39, <1>40, <1>41, <1>42, <1>43, <1>44, <1>45, <1>46
     DEF Next, ApiStep, WorkerStep, UpdateSession

(* Which span is which. *)

LEMMA PlacesKept ==
  ASSUME SpanType, Places, SpanType', KindsKept, Len(spans') = Len(spans),
         api' \in {"start", "root", "log", "submit", "leave", "raise"} => api' = api,
         pc' \in {"sandbox", "boxed", "broken"} => pc \in {"sandbox", "boxed", "broken"},
         mine' \in {0, mine}, key' = key, wspan' = wspan
  PROVE  Places'
<1>1. /\ Len(spans) \in Nat
      /\ \A i \in {key, mine, wspan} : i # 0 => i \in 1..Len(spans)
  BY DEF SpanType
<1>2. \A i \in 1..Len(spans) : spans'[i].kind = spans[i].kind
  BY DEF KindsKept
<1>3. spans = <<>> => spans' = <<>>
  BY DEF SpanType
<1> QED BY <1>1, <1>2, <1>3 DEF Places

LEMMA PlacesOpened ==
  ASSUME SpanType, Places, SpanType', NEW kind, OpenedAs(kind),
         api' \in {"start", "root"} => api' = api,
         api' \in {"log", "submit", "leave", "raise"} =>
           api' = api \/ (kind = "api" /\ api = "root"),
         pc' \in {"sandbox", "boxed", "broken"} => kind = "sandbox",
         mine' = mine \/ (kind = "agent" /\ mine' = Len(spans) + 1),
         wspan' = wspan \/ (kind = "worker" /\ wspan' = Len(spans) + 1),
         key' = key,
         api \notin {"start", "root"} \/ (kind = "api" /\ api' = "log")
  PROVE  Places'
<1>1. Len(spans) \in Nat /\ \A i \in {key, mine, wspan} : i # 0 => i \in 1..Len(spans)
  BY DEF SpanType
<1>2. /\ Len(spans') = Len(spans) + 1 /\ spans'[Len(spans) + 1].kind = kind
      /\ \A i \in 1..Len(spans) : spans'[i] = spans[i]
  BY DEF OpenedAs
<1>3. api' \in {"start", "root"} => FALSE
  OBVIOUS
<1>4. api' \in {"log", "submit", "leave", "raise"} => spans'[1].kind = "api"
  <2>1. CASE api = "root"
    <3>1. spans = <<>> /\ Len(spans) = 0 /\ Len(spans) + 1 = 1 BY <2>1 DEF Places
    <3> QED BY <1>2, <2>1, <3>1
  <2>2. CASE api # "root" BY <1>1, <1>2, <2>2 DEF Places
  <2> QED BY <2>1, <2>2
<1> QED BY <1>1, <1>2, <1>3, <1>4 DEF Places

LEMMA PlacesStep ==
  (ControlType /\ SpanType /\ Once /\ Places) /\ [Next]_vars => Places'
<1>1. SUFFICES ASSUME (ControlType /\ SpanType /\ Once /\ Places), [Next]_vars
               PROVE  Places'
  OBVIOUS
<1>0. SpanType' /\ KindsKept BY <1>1, SpanTypeStep
<1> USE TracingAssumption
      DEF rowVars, workVars, jobVars, restVars, freeVars, vars, OpenedAs, ClosedAs,
          FaredAs, ControlType, Once, Places, Calls, AtWork, Finals, KindsKept
<1>2. CASE StartTrace BY <1>1, <1>2 DEF StartTrace, ApiGoto, Works, SpanType
<1>3. CASE OpenRoot
  <2>2. OpenedAs("api") BY <1>1, <1>3, Opens
  <2>5. /\ api = "root" /\ api' = "log"
        /\ pc' \notin {"sandbox", "boxed", "broken"}
        /\ mine' = mine /\ wspan' = wspan /\ key' = key
    BY <1>1, <1>3 DEF OpenRoot, ApiGoto, Works
  <2> QED BY <1>1, <1>0, <2>2, <2>5, PlacesOpened
<1>4. CASE LogEnqueued BY <1>1, <1>4 DEF LogEnqueued, ApiGoto, Works, SpanType
<1>5. CASE Submit BY <1>1, <1>5 DEF Submit, ApiGoto, Created, SpanType
<1>6. CASE SubmitRaises BY <1>1, <1>6 DEF SubmitRaises, ApiGoto, Created, SpanType
<1>7. CASE CloseRoot
  <2> DEFINE status == IF api = "leave" THEN "success" ELSE "failed"
  <2>4. ClosedAs(1, status) BY <1>1, <1>7, Closes
  <2>2. status \in Endings BY DEF Endings, Ending, FinalStatus
  <2> HIDE DEF status
  <2>5. /\ api' \in {"start", "root", "log", "submit", "leave", "raise"} => api' = api
        /\ pc' \in {"sandbox", "boxed", "broken"} => pc \in {"sandbox", "boxed", "broken"}
        /\ mine' \in {0, mine} /\ key' = key /\ wspan' = wspan
    BY <1>7, <1>1 DEF CloseRoot, ApiGoto, Works
  <2> QED BY <1>0, <1>1, <2>4, <2>5, PlacesKept
<1>8. CASE ApiDies BY <1>1, <1>8 DEF ApiDies, SpanType
<1>9. CASE ReadSession
  BY <1>1, <1>9
    DEF ReadSession, HasUser, Within, FirstStep, Ends, NewNode, NewStatus, SpanType
<1>10. CASE ReadSessionRaises
  BY <1>1, <1>10 DEF ReadSessionRaises, HasUser, Works, Return, SpanType
<1>11. CASE FindSpan BY <1>1, <1>11 DEF FindSpan, Within, SpanType
<1>12. CASE FindNoSpan
  BY <1>1, <1>12 DEF FindNoSpan, Works, Return, Within, Ends, NewNode, NewStatus, SpanType
<1>13. CASE CloseAgentSpan
  <2> DEFINE status == Ending
  <2>4. ClosedAs(key, status) BY <1>1, <1>13, Closes
  <2>2. status \in Endings BY DEF Endings, Ending, FinalStatus
  <2> HIDE DEF status
  <2>5. /\ api' \in {"start", "root", "log", "submit", "leave", "raise"} => api' = api
        /\ pc' \in {"sandbox", "boxed", "broken"} => pc \in {"sandbox", "boxed", "broken"}
        /\ mine' \in {0, mine} /\ key' = key /\ wspan' = wspan
    BY <1>13, <1>1 DEF CloseAgentSpan, Within, Works, Ending, NewNode, NewStatus
  <2> QED BY <1>0, <1>1, <2>4, <2>5, PlacesKept
<1>14. CASE ForgetSpan BY <1>1, <1>14 DEF ForgetSpan, Within, Works, SpanType
<1>15. CASE LogCompleted BY <1>1, <1>15 DEF LogCompleted, Within, Works, NewNode, SpanType
<1>16. CASE CreateAgentSpan
  <2>2. OpenedAs("agent") BY <1>1, <1>16, Opens
  <2>5. /\ api' = api \/ api' \notin {"start", "root", "log", "submit", "leave", "raise"}
        /\ pc' \notin {"sandbox", "boxed", "broken"} /\ api \notin {"start", "root"}
        /\ mine' = Len(spans) + 1 /\ wspan' = wspan /\ key' = key
    BY <1>1, <1>16 DEF CreateAgentSpan, Within, Works, NewNode
  <2> QED BY <1>1, <1>0, <2>2, <2>5, PlacesOpened
<1>17. CASE SaveSpan BY <1>1, <1>17 DEF SaveSpan, Within, Works, SpanType
<1>18. CASE LogAgentStarted BY <1>1, <1>18 DEF LogAgentStarted, Within, Works, SpanType
<1>19. CASE WriteRow BY <1>1, <1>19 DEF WriteRow, Within, NewNode, NewStatus, SpanType
<1>20. CASE WriteRaises BY <1>1, <1>20 DEF WriteRaises, Works, Return, SpanType
<1>21. CASE LogAudit BY <1>1, <1>21 DEF LogAudit, Return, SpanType
<1>22. CASE TakeJob BY <1>1, <1>22 DEF TakeJob, Goto, SpanType
<1>23. CASE LogStarted BY <1>1, <1>23 DEF LogStarted, Goto, Works, SpanType
<1>24. CASE OpenWorkerSpan
  <2>2. OpenedAs("worker") BY <1>1, <1>24, Opens
  <2>5. /\ api' = api \/ api' \notin {"start", "root", "log", "submit", "leave", "raise"}
        /\ pc' \notin {"sandbox", "boxed", "broken"} /\ api \notin {"start", "root"}
        /\ mine' = mine /\ wspan' = Len(spans) + 1 /\ key' = key
    BY <1>1, <1>24 DEF OpenWorkerSpan, Call, Works, HasUser
  <2> QED BY <1>1, <1>0, <2>2, <2>5, PlacesOpened
<1>25. CASE PlanningUnresolved BY <1>1, <1>25 DEF PlanningUnresolved, Goto, SpanType
<1>26. CASE StartPlanning BY <1>1, <1>26 DEF StartPlanning, Call, SpanType
<1>27. CASE OpenSandbox
  <2>2. OpenedAs("sandbox") BY <1>1, <1>27, Opens
  <2>5. /\ api' = api \/ api' \notin {"start", "root", "log", "submit", "leave", "raise"}
        /\ pc' = "sandbox" /\ api \notin {"start", "root"}
        /\ mine' = mine /\ wspan' = wspan /\ key' = key
    BY <1>1, <1>27 DEF OpenSandbox, Goto, Works
  <2> QED BY <1>1, <1>0, <2>2, <2>5, PlacesOpened
<1>28. CASE LogSandbox BY <1>1, <1>28 DEF LogSandbox, Goto, Works, SpanType
<1>29. CASE SandboxRaises BY <1>1, <1>29 DEF SandboxRaises, Goto, SpanType
<1>30. CASE CloseSandbox
  <2> DEFINE status == IF pc = "boxed" THEN "success" ELSE "failed"
  <2>4. ClosedAs(Len(spans), status) BY <1>1, <1>30, Closes
  <2>2. status \in Endings BY DEF Endings, Ending, FinalStatus
  <2> HIDE DEF status
  <2>5. /\ api' \in {"start", "root", "log", "submit", "leave", "raise"} => api' = api
        /\ pc' \in {"sandbox", "boxed", "broken"} => pc \in {"sandbox", "boxed", "broken"}
        /\ mine' \in {0, mine} /\ key' = key /\ wspan' = wspan
    BY <1>30, <1>1 DEF CloseSandbox, Goto, Works
  <2> QED BY <1>0, <1>1, <2>4, <2>5, PlacesKept
<1>31. CASE StageCompletes
  <2>2. FaredAs("ok") BY <1>1, <1>31, AgentFares
  <2>5. /\ api' \in {"start", "root", "log", "submit", "leave", "raise"} => api' = api
        /\ pc' \in {"sandbox", "boxed", "broken"} => pc \in {"sandbox", "boxed", "broken"}
        /\ mine' \in {0, mine} /\ key' = key /\ wspan' = wspan
    BY <1>31, <1>1 DEF StageCompletes
  <2> QED BY <1>0, <1>1, <2>2, <2>5, PlacesKept
<1>32. CASE StageRaises
  <2>2. FaredAs("raised") BY <1>1, <1>32, AgentFares
  <2>5. /\ api' \in {"start", "root", "log", "submit", "leave", "raise"} => api' = api
        /\ pc' \in {"sandbox", "boxed", "broken"} => pc \in {"sandbox", "boxed", "broken"}
        /\ mine' \in {0, mine} /\ key' = key /\ wspan' = wspan
    BY <1>32, <1>1 DEF StageRaises, Call
  <2> QED BY <1>0, <1>1, <2>2, <2>5, PlacesKept
<1>33. CASE Reroute BY <1>1, <1>33 DEF Reroute, Call, SpanType
<1>34. CASE Proceed BY <1>1, <1>34 DEF Proceed, Call, SpanType
<1>35. CASE ReadRaises BY <1>1, <1>35 DEF ReadRaises, Goto, Works, SpanType
<1>36. CASE Succeeds BY <1>1, <1>36 DEF Succeeds, Goto, SpanType
<1>37. CASE NotCompleted BY <1>1, <1>37 DEF NotCompleted, Goto, SpanType
<1>38. CASE HandleFailure BY <1>1, <1>38 DEF HandleFailure, Call, SpanType
<1>39. CASE HandleRaises BY <1>1, <1>39 DEF HandleRaises, Goto, Works, SpanType
<1>40. CASE ReadFinal BY <1>1, <1>40 DEF ReadFinal, Goto, SpanType
<1>41. CASE ReadFinalRaises BY <1>1, <1>41 DEF ReadFinalRaises, Works, Done, SpanType
<1>42. CASE LogFinal BY <1>1, <1>42 DEF LogFinal, Goto, Works, FinalStatus, SpanType
<1>43. CASE CloseWorkerSpan
  <2> DEFINE status == FinalStatus
  <2>4. ClosedAs(wspan, status) BY <1>1, <1>43, Closes
  <2>2. status \in Endings BY DEF Endings, Ending, FinalStatus
  <2> HIDE DEF status
  <2>5. /\ api' \in {"start", "root", "log", "submit", "leave", "raise"} => api' = api
        /\ pc' \in {"sandbox", "boxed", "broken"} => pc \in {"sandbox", "boxed", "broken"}
        /\ mine' \in {0, mine} /\ key' = key /\ wspan' = wspan
    BY <1>43, <1>1 DEF CloseWorkerSpan, Goto, Works, FinalStatus
  <2> QED BY <1>0, <1>1, <2>4, <2>5, PlacesKept
<1>44. CASE FinishTrace BY <1>1, <1>44 DEF FinishTrace, Done, Works, FinalStatus, SpanType
<1>45. CASE WorkerDies BY <1>1, <1>45 DEF WorkerDies, Done, SpanType
<1>46. CASE UNCHANGED vars BY <1>1, <1>46 DEF SpanType
<1> QED
  BY <1>1, <1>2, <1>3, <1>4, <1>5, <1>6, <1>7, <1>8, <1>9, <1>10, <1>11, <1>12, <1>13,
     <1>14, <1>15, <1>16, <1>17, <1>18, <1>19, <1>20, <1>21, <1>22, <1>23, <1>24,
     <1>25, <1>26, <1>27, <1>28, <1>29, <1>30, <1>31, <1>32, <1>33, <1>34, <1>35,
     <1>36, <1>37, <1>38, <1>39, <1>40, <1>41, <1>42, <1>43, <1>44, <1>45, <1>46
     DEF Next, ApiStep, WorkerStep, UpdateSession

(* How the agents fared, and what their spans say. *)

LEMMA FatesKept ==
  ASSUME Fates, Agents' = Agents,
         \A i \in Agents : spans'[i].did = spans[i].did /\ spans'[i].status = spans[i].status,
         mine' = mine, mine # 0 => mine \in Agents,
         \/ pc' = pc /\ step' = step
         \/ pc \in AtWork /\ pc' \in AtWork
         \/ pc' \in Finals \cup {"open"}
  PROVE  Fates'
BY DEF Fates, AtWork, Finals

LEMMA FatesStep ==
  (ControlType /\ SpanType /\ Once /\ Places /\ Fates) /\ [Next]_vars => Fates'
<1>1. SUFFICES ASSUME (ControlType /\ SpanType /\ Once /\ Places /\ Fates), [Next]_vars
               PROVE  Fates'
  OBVIOUS
<1>0. SpanType' /\ KindsKept BY <1>1, SpanTypeStep
<1> USE TracingAssumption
      DEF rowVars, workVars, jobVars, restVars, freeVars, vars, OpenedAs, ClosedAs,
          FaredAs
<1>2. CASE StartTrace
  BY <1>1, <1>2
    DEF StartTrace, ApiGoto, Works, ControlType, Once, Fresh, Places, Fates, Agents,
        Calls, AtWork, Finals, Endings
<1>3. CASE OpenRoot
  <2>2. OpenedAs("api") BY <1>1, <1>3, Opens
  <2>7. DOMAIN spans = 1..Len(spans) /\ DOMAIN spans' = 1..Len(spans')
        /\ Len(spans) \in Nat /\ mine \in 0..Len(spans)
    BY <1>0, <1>1 DEF SpanType
  <2> QED
    BY <1>1, <1>3, <2>2, <2>7
      DEF ControlType, Once, Fresh, Places, Fates, Agents, Calls, AtWork, Finals,
          Endings, OpenRoot, ApiGoto, Works
<1>4. CASE LogEnqueued
  BY <1>1, <1>4
    DEF LogEnqueued, ApiGoto, Works, ControlType, Once, Fresh, Places, Fates, Agents,
        Calls, AtWork, Finals, Endings
<1>5. CASE Submit
  BY <1>1, <1>5
    DEF Submit, ApiGoto, Created, ControlType, Once, Fresh, Places, Fates, Agents, Calls,
        AtWork, Finals, Endings
<1>6. CASE SubmitRaises
  BY <1>1, <1>6
    DEF SubmitRaises, ApiGoto, Created, ControlType, Once, Fresh, Places, Fates, Agents,
        Calls, AtWork, Finals, Endings
<1>7. CASE CloseRoot
  <2> DEFINE status == IF api = "leave" THEN "success" ELSE "failed"
  <2>4. ClosedAs(1, status) BY <1>1, <1>7, Closes
  <2>2. status \in Endings BY DEF Endings, Ending, FinalStatus
  <2> HIDE DEF status
  <2>7. DOMAIN spans = 1..Len(spans) /\ DOMAIN spans' = 1..Len(spans')
        /\ Len(spans) \in Nat /\ mine \in 0..Len(spans)
    BY <1>0, <1>1 DEF SpanType
  <2>8. Agents' = Agents
        /\ \A i \in Agents : spans'[i].did = spans[i].did /\ spans'[i].status = spans[i].status
    BY <1>1, <1>7, <2>4, <2>7 DEF Agents, Places, CloseRoot, ApiGoto, Works
  <2>9. mine' = mine /\ (mine # 0 => mine \in Agents)
    BY <1>1, <1>7, <2>7 DEF Agents, Places, CloseRoot, ApiGoto, Works
  <2>10. \/ pc' = pc /\ step' = step
         \/ pc \in AtWork /\ pc' \in AtWork
         \/ pc' \in Finals \cup {"open"}
    BY <1>1, <1>7 DEF AtWork, Finals, CloseRoot, ApiGoto, Works
  <2> QED BY <1>1, <2>8, <2>9, <2>10, FatesKept
<1>8. CASE ApiDies
  BY <1>1, <1>8
    DEF ApiDies, ControlType, Once, Fresh, Places, Fates, Agents, Calls, AtWork, Finals,
        Endings
<1>9. CASE ReadSession
  BY <1>1, <1>9
    DEF ReadSession, HasUser, Within, FirstStep, Ends, NewNode, NewStatus, ControlType,
        Once, Fresh, Places, Fates, Agents, Calls, AtWork, Finals, Endings
<1>10. CASE ReadSessionRaises
  BY <1>1, <1>10
    DEF ReadSessionRaises, HasUser, Works, Return, ControlType, Once, Fresh, Places,
        Fates, Agents, Calls, AtWork, Finals, Endings
<1>11. CASE FindSpan
  BY <1>1, <1>11
    DEF FindSpan, Within, ControlType, Once, Fresh, Places, Fates, Agents, Calls, AtWork,
        Finals, Endings
<1>12. CASE FindNoSpan
  BY <1>1, <1>12
    DEF FindNoSpan, Works, Return, Within, Ends, NewNode, NewStatus, ControlType, Once,
        Fresh, Places, Fates, Agents, Calls, AtWork, Finals, Endings
<1>13. CASE CloseAgentSpan
  <2> DEFINE status == Ending
  <2>4. ClosedAs(key, status) BY <1>1, <1>13, Closes
  <2>2. status \in Endings BY DEF Endings, Ending, FinalStatus
  <2> HIDE DEF status
  <2>7. DOMAIN spans = 1..Len(spans) /\ DOMAIN spans' = 1..Len(spans')
        /\ Len(spans) \in Nat /\ mine \in 0..Len(spans)
    BY <1>0, <1>1 DEF SpanType
  <2>8. Agents' = Agents
    BY <2>4, <2>7 DEF Agents
  <2>9. \A i \in Agents : /\ i \in 1..Len(spans) /\ i # 0 /\ spans'[i].did = spans[i].did
                          /\ spans'[i].status = spans[i].status \/ (i = key /\ spans'[i].status = status)
    BY <2>4, <2>7 DEF Agents
  <2>10. step = "close" /\ step' = "forget" /\ UNCHANGED <<pc, mine>>
    BY <1>13 DEF CloseAgentSpan, Within
  <2>11. pc \in {"enter", "failing", "finish", "sync"}
    BY <1>1, <2>10 DEF Once, Calls
  <2>12. CASE pc \in {"enter", "finish"}
    <3>1. mine = 0 /\ \A i \in Agents : spans[i].did = "ok"
      BY <1>1, <2>9, <2>10, <2>12 DEF Fates
    <3> QED BY <1>1, <2>8, <2>9, <2>10, <2>12, <3>1 DEF Fates
  <2>13. CASE pc \in {"failing", "sync"}
    <3>1. status = "failed" BY <2>13 DEF status, Ending, NewStatus, NewNode
    <3> QED BY <1>1, <2>8, <2>9, <2>10, <2>13, <3>1 DEF Fates, AtWork
  <2> QED BY <2>11, <2>12, <2>13
<1>14. CASE ForgetSpan
  BY <1>1, <1>14
    DEF ForgetSpan, Within, Works, ControlType, Once, Fresh, Places, Fates, Agents,
        Calls, AtWork, Finals, Endings
<1>15. CASE LogCompleted
  BY <1>1, <1>15
    DEF LogCompleted, Within, Works, NewNode, ControlType, Once, Fresh, Places, Fates,
        Agents, Calls, AtWork, Finals, Endings
<1>16. CASE CreateAgentSpan
  <2>2. OpenedAs("agent") BY <1>1, <1>16, Opens
  <2>7. DOMAIN spans = 1..Len(spans) /\ DOMAIN spans' = 1..Len(spans')
        /\ Len(spans) \in Nat /\ mine \in 0..Len(spans)
    BY <1>0, <1>1 DEF SpanType
  <2>8. pc = "enter" /\ pc' = pc /\ step' = "save" /\ mine = 0 /\ mine' = Len(spans) + 1
    BY <1>1, <1>16 DEF CreateAgentSpan, Within, Once, Fates
  <2>9. \A i \in Agents : spans[i].did = "ok"
    BY <1>1, <2>7, <2>8 DEF Fates, Agents
  <2>10. \A i \in Agents' : (i \in Agents /\ spans'[i] = spans[i]) \/ i = mine'
    BY <2>2, <2>7, <2>8 DEF Agents
  <2>11. \A i \in Agents : spans[i].status = "success" => spans[i].did = "ok"
    BY <1>1 DEF Fates
  <2>12. spans'[mine'].status \notin {"success", "failed"}
    BY <2>2, <2>8
  <2> QED BY <2>8, <2>9, <2>10, <2>11, <2>12 DEF Fates, AtWork, Endings
<1>17. CASE SaveSpan
  BY <1>1, <1>17
    DEF SaveSpan, Within, Works, ControlType, Once, Fresh, Places, Fates, Agents, Calls,
        AtWork, Finals, Endings
<1>18. CASE LogAgentStarted
  BY <1>1, <1>18
    DEF LogAgentStarted, Within, Works, ControlType, Once, Fresh, Places, Fates, Agents,
        Calls, AtWork, Finals, Endings
<1>19. CASE WriteRow
  BY <1>1, <1>19
    DEF WriteRow, Within, NewNode, NewStatus, ControlType, Once, Fresh, Places, Fates,
        Agents, Calls, AtWork, Finals, Endings
<1>20. CASE WriteRaises
  BY <1>1, <1>20
    DEF WriteRaises, Works, Return, ControlType, Once, Fresh, Places, Fates, Agents,
        Calls, AtWork, Finals, Endings
<1>21. CASE LogAudit
  BY <1>1, <1>21
    DEF LogAudit, Return, ControlType, Once, Fresh, Places, Fates, Agents, Calls, AtWork,
        Finals, Endings
<1>22. CASE TakeJob
  BY <1>1, <1>22
    DEF TakeJob, Goto, ControlType, Once, Fresh, Places, Fates, Agents, Calls, AtWork,
        Finals, Endings
<1>23. CASE LogStarted
  BY <1>1, <1>23
    DEF LogStarted, Goto, Works, ControlType, Once, Fresh, Places, Fates, Agents, Calls,
        AtWork, Finals, Endings
<1>24. CASE OpenWorkerSpan
  <2>2. OpenedAs("worker") BY <1>1, <1>24, Opens
  <2>7. DOMAIN spans = 1..Len(spans) /\ DOMAIN spans' = 1..Len(spans')
        /\ Len(spans) \in Nat /\ mine \in 0..Len(spans)
    BY <1>0, <1>1 DEF SpanType
  <2>8. Agents' = Agents
        /\ \A i \in Agents : spans'[i].did = spans[i].did /\ spans'[i].status = spans[i].status
    BY <1>1, <1>24, <2>2, <2>7 DEF Agents, Places, OpenWorkerSpan, Call, Works, HasUser
  <2>9. mine' = mine /\ (mine # 0 => mine \in Agents)
    BY <1>1, <1>24, <2>7 DEF Agents, Places, OpenWorkerSpan, Call, Works, HasUser
  <2>10. \/ pc' = pc /\ step' = step
         \/ pc \in AtWork /\ pc' \in AtWork
         \/ pc' \in Finals \cup {"open"}
    BY <1>1, <1>24 DEF AtWork, Finals, OpenWorkerSpan, Call, Works, HasUser
  <2> QED BY <1>1, <2>8, <2>9, <2>10, FatesKept
<1>25. CASE PlanningUnresolved
  BY <1>1, <1>25
    DEF PlanningUnresolved, Goto, ControlType, Once, Fresh, Places, Fates, Agents, Calls,
        AtWork, Finals, Endings
<1>26. CASE StartPlanning
  BY <1>1, <1>26
    DEF StartPlanning, Call, ControlType, Once, Fresh, Places, Fates, Agents, Calls,
        AtWork, Finals, Endings
<1>27. CASE OpenSandbox
  <2>2. OpenedAs("sandbox") BY <1>1, <1>27, Opens
  <2>7. DOMAIN spans = 1..Len(spans) /\ DOMAIN spans' = 1..Len(spans')
        /\ Len(spans) \in Nat /\ mine \in 0..Len(spans)
    BY <1>0, <1>1 DEF SpanType
  <2>8. Agents' = Agents
        /\ \A i \in Agents : spans'[i].did = spans[i].did /\ spans'[i].status = spans[i].status
    BY <1>1, <1>27, <2>2, <2>7 DEF Agents, Places, OpenSandbox, Goto, Works
  <2>9. mine' = mine /\ (mine # 0 => mine \in Agents)
    BY <1>1, <1>27, <2>7 DEF Agents, Places, OpenSandbox, Goto, Works
  <2>10. \/ pc' = pc /\ step' = step
         \/ pc \in AtWork /\ pc' \in AtWork
         \/ pc' \in Finals \cup {"open"}
    BY <1>1, <1>27 DEF AtWork, Finals, OpenSandbox, Goto, Works
  <2> QED BY <1>1, <2>8, <2>9, <2>10, FatesKept
<1>28. CASE LogSandbox
  BY <1>1, <1>28
    DEF LogSandbox, Goto, Works, ControlType, Once, Fresh, Places, Fates, Agents, Calls,
        AtWork, Finals, Endings
<1>29. CASE SandboxRaises
  BY <1>1, <1>29
    DEF SandboxRaises, Goto, ControlType, Once, Fresh, Places, Fates, Agents, Calls,
        AtWork, Finals, Endings
<1>30. CASE CloseSandbox
  <2> DEFINE status == IF pc = "boxed" THEN "success" ELSE "failed"
  <2>4. ClosedAs(Len(spans), status) BY <1>1, <1>30, Closes
  <2>2. status \in Endings BY DEF Endings, Ending, FinalStatus
  <2> HIDE DEF status
  <2>7. DOMAIN spans = 1..Len(spans) /\ DOMAIN spans' = 1..Len(spans')
        /\ Len(spans) \in Nat /\ mine \in 0..Len(spans)
    BY <1>0, <1>1 DEF SpanType
  <2>8. Agents' = Agents
        /\ \A i \in Agents : spans'[i].did = spans[i].did /\ spans'[i].status = spans[i].status
    BY <1>1, <1>30, <2>4, <2>7 DEF Agents, Places, CloseSandbox, Goto, Works
  <2>9. mine' = mine /\ (mine # 0 => mine \in Agents)
    BY <1>1, <1>30, <2>7 DEF Agents, Places, CloseSandbox, Goto, Works
  <2>10. \/ pc' = pc /\ step' = step
         \/ pc \in AtWork /\ pc' \in AtWork
         \/ pc' \in Finals \cup {"open"}
    BY <1>1, <1>30 DEF AtWork, Finals, CloseSandbox, Goto, Works
  <2> QED BY <1>1, <2>8, <2>9, <2>10, FatesKept
<1>31. CASE StageCompletes
  <2>2. FaredAs("ok") BY <1>1, <1>31, AgentFares
  <2>7. DOMAIN spans = 1..Len(spans) /\ DOMAIN spans' = 1..Len(spans')
        /\ Len(spans) \in Nat /\ mine \in 0..Len(spans)
    BY <1>0, <1>1 DEF SpanType
  <2>8. Agents' = Agents /\ \A i \in Agents : i # 0
    BY <2>2, <2>7 DEF Agents
  <2>9. pc \in AtWork /\ pc' \in {"decide", "enter", "finish"} /\ mine' = 0
        /\ (pc' = "enter" => step' = "get")
    BY <1>1, <1>31 DEF StageCompletes, AtWork
  <2>10. \A i \in Agents : spans[i].did = "ok" \/ i = mine
    BY <1>1, <2>9 DEF Fates
  <2>11. \A i \in Agents : spans'[i].did = "ok" /\ spans'[i].status = spans[i].status
    BY <2>2, <2>7, <2>10 DEF Agents
  <2> QED BY <2>8, <2>9, <2>11 DEF Fates, AtWork
<1>32. CASE StageRaises
  <2>2. FaredAs("raised") BY <1>1, <1>32, AgentFares
  <2>7. DOMAIN spans = 1..Len(spans) /\ DOMAIN spans' = 1..Len(spans')
        /\ Len(spans) \in Nat /\ mine \in 0..Len(spans)
    BY <1>0, <1>1 DEF SpanType
  <2>8. Agents' = Agents
    BY <2>2, <2>7 DEF Agents
  <2>9. pc \in AtWork /\ pc' = "failing" /\ mine' = mine
    BY <1>32 DEF StageRaises, Call, AtWork
  <2>10. mine \in Agents => spans[mine].status # "success"
    BY <1>1, <2>7, <2>9 DEF Fates, Agents, Endings
  <2>11. \A i \in Agents : /\ spans'[i].status = spans[i].status
                           /\ spans'[i].did = spans[i].did \/ spans[i].status # "success"
    BY <2>2, <2>7, <2>10 DEF Agents
  <2> QED BY <1>1, <2>8, <2>9, <2>11 DEF Fates, AtWork
<1>33. CASE Reroute
  BY <1>1, <1>33
    DEF Reroute, Call, ControlType, Once, Fresh, Places, Fates, Agents, Calls, AtWork,
        Finals, Endings
<1>34. CASE Proceed
  BY <1>1, <1>34
    DEF Proceed, Call, ControlType, Once, Fresh, Places, Fates, Agents, Calls, AtWork,
        Finals, Endings
<1>35. CASE ReadRaises
  BY <1>1, <1>35
    DEF ReadRaises, Goto, Works, ControlType, Once, Fresh, Places, Fates, Agents, Calls,
        AtWork, Finals, Endings
<1>36. CASE Succeeds
  BY <1>1, <1>36
    DEF Succeeds, Goto, ControlType, Once, Fresh, Places, Fates, Agents, Calls, AtWork,
        Finals, Endings
<1>37. CASE NotCompleted
  BY <1>1, <1>37
    DEF NotCompleted, Goto, ControlType, Once, Fresh, Places, Fates, Agents, Calls,
        AtWork, Finals, Endings
<1>38. CASE HandleFailure
  BY <1>1, <1>38
    DEF HandleFailure, Call, ControlType, Once, Fresh, Places, Fates, Agents, Calls,
        AtWork, Finals, Endings
<1>39. CASE HandleRaises
  BY <1>1, <1>39
    DEF HandleRaises, Goto, Works, ControlType, Once, Fresh, Places, Fates, Agents,
        Calls, AtWork, Finals, Endings
<1>40. CASE ReadFinal
  BY <1>1, <1>40
    DEF ReadFinal, Goto, ControlType, Once, Fresh, Places, Fates, Agents, Calls, AtWork,
        Finals, Endings
<1>41. CASE ReadFinalRaises
  BY <1>1, <1>41
    DEF ReadFinalRaises, Works, Done, ControlType, Once, Fresh, Places, Fates, Agents,
        Calls, AtWork, Finals, Endings
<1>42. CASE LogFinal
  BY <1>1, <1>42
    DEF LogFinal, Goto, Works, FinalStatus, ControlType, Once, Fresh, Places, Fates,
        Agents, Calls, AtWork, Finals, Endings
<1>43. CASE CloseWorkerSpan
  <2> DEFINE status == FinalStatus
  <2>4. ClosedAs(wspan, status) BY <1>1, <1>43, Closes
  <2>2. status \in Endings BY DEF Endings, Ending, FinalStatus
  <2> HIDE DEF status
  <2>7. DOMAIN spans = 1..Len(spans) /\ DOMAIN spans' = 1..Len(spans')
        /\ Len(spans) \in Nat /\ mine \in 0..Len(spans)
    BY <1>0, <1>1 DEF SpanType
  <2>8. Agents' = Agents
        /\ \A i \in Agents : spans'[i].did = spans[i].did /\ spans'[i].status = spans[i].status
    BY <1>1, <1>43, <2>4, <2>7
      DEF Agents, Places, CloseWorkerSpan, Goto, Works, FinalStatus
  <2>9. mine' = mine /\ (mine # 0 => mine \in Agents)
    BY <1>1, <1>43, <2>7 DEF Agents, Places, CloseWorkerSpan, Goto, Works, FinalStatus
  <2>10. \/ pc' = pc /\ step' = step
         \/ pc \in AtWork /\ pc' \in AtWork
         \/ pc' \in Finals \cup {"open"}
    BY <1>1, <1>43 DEF AtWork, Finals, CloseWorkerSpan, Goto, Works, FinalStatus
  <2> QED BY <1>1, <2>8, <2>9, <2>10, FatesKept
<1>44. CASE FinishTrace
  BY <1>1, <1>44
    DEF FinishTrace, Done, Works, FinalStatus, ControlType, Once, Fresh, Places, Fates,
        Agents, Calls, AtWork, Finals, Endings
<1>45. CASE WorkerDies
  BY <1>1, <1>45
    DEF WorkerDies, Done, ControlType, Once, Fresh, Places, Fates, Agents, Calls, AtWork,
        Finals, Endings
<1>46. CASE UNCHANGED vars
  BY <1>1, <1>46
    DEF ControlType, Once, Fresh, Places, Fates, Agents, Calls, AtWork, Finals, Endings
<1> QED
  BY <1>1, <1>2, <1>3, <1>4, <1>5, <1>6, <1>7, <1>8, <1>9, <1>10, <1>11, <1>12, <1>13,
     <1>14, <1>15, <1>16, <1>17, <1>18, <1>19, <1>20, <1>21, <1>22, <1>23, <1>24,
     <1>25, <1>26, <1>27, <1>28, <1>29, <1>30, <1>31, <1>32, <1>33, <1>34, <1>35,
     <1>36, <1>37, <1>38, <1>39, <1>40, <1>41, <1>42, <1>43, <1>44, <1>45, <1>46
     DEF Next, ApiStep, WorkerStep, UpdateSession

\* what update_session is called with
LEMMA CallFacts ==
  ControlType =>
    /\ NewNode # 0 <=> pc = "enter"
    /\ pc = "enter" => NewNode = node /\ ~Ends
    /\ pc = "open" => NewStatus = "IN_PROGRESS" /\ ~Ends
    /\ pc \in {"failing", "sync"} => NewStatus = "FAILED"
    /\ pc = "finish" => NewStatus = "COMPLETED"
    /\ pc \in {"failing", "sync", "finish"} /\ row.node # 0 => Ends
  BY TracingAssumption DEF ControlType, NewNode, NewStatus, Ends, Stages, Planning


(* The span key while nothing fails. *)

LEMMA KeyNamedStep ==
  (ControlType /\ SpanType /\ Once /\ Fates /\ KeyNamed) /\ [Next]_vars => KeyNamed'
<1>1. SUFFICES ASSUME (ControlType /\ SpanType /\ Once /\ Fates /\ KeyNamed), [Next]_vars
               PROVE  KeyNamed'
  OBVIOUS
<1> USE TracingAssumption DEF rowVars, workVars, jobVars, restVars, freeVars, vars
<1>2. CASE StartTrace
  BY <1>1, <1>2
    DEF StartTrace, ApiGoto, Works, ControlType, SpanType, Once, Fresh, Fates, KeyNamed,
        Calls, AtWork, Finals
<1>3. CASE OpenRoot
  BY <1>1, <1>3
    DEF OpenRoot, ApiGoto, Works, ControlType, SpanType, Once, Fresh, Fates, KeyNamed,
        Calls, AtWork, Finals
<1>4. CASE LogEnqueued
  BY <1>1, <1>4
    DEF LogEnqueued, ApiGoto, Works, ControlType, SpanType, Once, Fresh, Fates, KeyNamed,
        Calls, AtWork, Finals
<1>5. CASE Submit
  BY <1>1, <1>5
    DEF Submit, ApiGoto, Created, ControlType, SpanType, Once, Fresh, Fates, KeyNamed,
        Calls, AtWork, Finals
<1>6. CASE SubmitRaises
  BY <1>1, <1>6
    DEF SubmitRaises, ApiGoto, Created, ControlType, SpanType, Once, Fresh, Fates,
        KeyNamed, Calls, AtWork, Finals
<1>7. CASE CloseRoot
  BY <1>1, <1>7
    DEF CloseRoot, ApiGoto, Works, ControlType, SpanType, Once, Fresh, Fates, KeyNamed,
        Calls, AtWork, Finals
<1>8. CASE ApiDies
  BY <1>1, <1>8
    DEF ApiDies, ControlType, SpanType, Once, Fresh, Fates, KeyNamed, Calls, AtWork,
        Finals
<1>9. CASE ReadSession
  <2> QED
    BY <1>1, <1>9, CallFacts
      DEF ReadSession, HasUser, Within, FirstStep, Ends, KeyNamed, Once, Calls, AtWork,
          ControlType
<1>10. CASE ReadSessionRaises
  <2>1. step = "get" /\ UNCHANGED <<key, mine, row>> /\ (faults' = 0 => faults = 0 /\ task # "first")
    BY <1>1, <1>10 DEF ReadSessionRaises, Works, HasUser, ControlType
  <2>2. faults' = 0 => pc = "open"
    BY <1>1, <2>1 DEF Once, Calls
  <2>3. pc = "open" => pc' = "poll" BY <1>10 DEF ReadSessionRaises, Return
  <2> QED BY <2>2, <2>3 DEF KeyNamed, AtWork
<1>11. CASE FindSpan
  BY <1>1, <1>11
    DEF FindSpan, Within, ControlType, SpanType, Once, Fresh, Fates, KeyNamed, Calls,
        AtWork, Finals
<1>12. CASE FindNoSpan
  <2>1. step = "peek" /\ UNCHANGED <<key, mine, row>> /\ (faults' = 0 => key = 0 /\ faults = 0)
    BY <1>1, <1>12 DEF FindNoSpan, Works, ControlType
  <2>2. pc \in {"enter", "failing", "finish", "sync"}
    BY <1>1, <2>1 DEF Once, Calls
  <2>3. CASE Ends
    <3>1. pc' = CASE pc = "failing" -> "raised" [] pc = "finish" -> "read"
                  [] OTHER -> IF handling THEN "final" ELSE "raised"
      BY <1>12, <2>2, <2>3, CallFacts, <1>1 DEF FindNoSpan, Return
    <3> QED BY <1>1, <2>1, <2>2, <3>1 DEF KeyNamed, AtWork
  <2>4. CASE ~Ends
    BY <1>1, <1>12, <2>1, <2>2, <2>4 DEF FindNoSpan, Within, KeyNamed, AtWork
  <2> QED BY <2>3, <2>4
<1>13. CASE CloseAgentSpan
  BY <1>1, <1>13
    DEF CloseAgentSpan, Within, Works, Ending, NewNode, NewStatus, ControlType, SpanType,
        Once, Fresh, Fates, KeyNamed, Calls, AtWork, Finals
<1>14. CASE ForgetSpan
  BY <1>1, <1>14
    DEF ForgetSpan, Within, Works, ControlType, SpanType, Once, Fresh, Fates, KeyNamed,
        Calls, AtWork, Finals
<1>15. CASE LogCompleted
  <2> QED
    BY <1>1, <1>15, CallFacts
      DEF LogCompleted, Within, Works, KeyNamed, Once, Calls, AtWork, ControlType
<1>16. CASE CreateAgentSpan
  BY <1>1, <1>16
    DEF CreateAgentSpan, Within, Works, NewNode, ControlType, SpanType, Once, Fresh,
        Fates, KeyNamed, Calls, AtWork, Finals
<1>17. CASE SaveSpan
  BY <1>1, <1>17
    DEF SaveSpan, Within, Works, ControlType, SpanType, Once, Fresh, Fates, KeyNamed,
        Calls, AtWork, Finals
<1>18. CASE LogAgentStarted
  BY <1>1, <1>18
    DEF LogAgentStarted, Within, Works, ControlType, SpanType, Once, Fresh, Fates,
        KeyNamed, Calls, AtWork, Finals
<1>19. CASE WriteRow
  <2> QED
    BY <1>1, <1>19, CallFacts
      DEF WriteRow, Within, KeyNamed, Once, Calls, AtWork, ControlType
<1>20. CASE WriteRaises
  BY <1>1, <1>20
    DEF WriteRaises, Works, Return, ControlType, SpanType, Once, Fresh, Fates, KeyNamed,
        Calls, AtWork, Finals
<1>21. CASE LogAudit
  BY <1>1, <1>21
    DEF LogAudit, Return, ControlType, SpanType, Once, Fresh, Fates, KeyNamed, Calls,
        AtWork, Finals
<1>22. CASE TakeJob
  BY <1>1, <1>22
    DEF TakeJob, Goto, ControlType, SpanType, Once, Fresh, Fates, KeyNamed, Calls,
        AtWork, Finals
<1>23. CASE LogStarted
  BY <1>1, <1>23
    DEF LogStarted, Goto, Works, ControlType, SpanType, Once, Fresh, Fates, KeyNamed,
        Calls, AtWork, Finals
<1>24. CASE OpenWorkerSpan
  BY <1>1, <1>24
    DEF OpenWorkerSpan, Call, Works, HasUser, ControlType, SpanType, Once, Fresh, Fates,
        KeyNamed, Calls, AtWork, Finals
<1>25. CASE PlanningUnresolved
  BY <1>1, <1>25
    DEF PlanningUnresolved, Goto, ControlType, SpanType, Once, Fresh, Fates, KeyNamed,
        Calls, AtWork, Finals
<1>26. CASE StartPlanning
  BY <1>1, <1>26
    DEF StartPlanning, Call, ControlType, SpanType, Once, Fresh, Fates, KeyNamed, Calls,
        AtWork, Finals
<1>27. CASE OpenSandbox
  BY <1>1, <1>27
    DEF OpenSandbox, Goto, Works, ControlType, SpanType, Once, Fresh, Fates, KeyNamed,
        Calls, AtWork, Finals
<1>28. CASE LogSandbox
  BY <1>1, <1>28
    DEF LogSandbox, Goto, Works, ControlType, SpanType, Once, Fresh, Fates, KeyNamed,
        Calls, AtWork, Finals
<1>29. CASE SandboxRaises
  BY <1>1, <1>29
    DEF SandboxRaises, Goto, ControlType, SpanType, Once, Fresh, Fates, KeyNamed, Calls,
        AtWork, Finals
<1>30. CASE CloseSandbox
  BY <1>1, <1>30
    DEF CloseSandbox, Goto, Works, ControlType, SpanType, Once, Fresh, Fates, KeyNamed,
        Calls, AtWork, Finals
<1>31. CASE StageCompletes
  BY <1>1, <1>31
    DEF StageCompletes, ControlType, SpanType, Once, Fresh, Fates, KeyNamed, Calls,
        AtWork, Finals
<1>32. CASE StageRaises
  BY <1>1, <1>32
    DEF StageRaises, Call, ControlType, SpanType, Once, Fresh, Fates, KeyNamed, Calls,
        AtWork, Finals
<1>33. CASE Reroute
  BY <1>1, <1>33
    DEF Reroute, Call, ControlType, SpanType, Once, Fresh, Fates, KeyNamed, Calls,
        AtWork, Finals
<1>34. CASE Proceed
  BY <1>1, <1>34
    DEF Proceed, Call, ControlType, SpanType, Once, Fresh, Fates, KeyNamed, Calls,
        AtWork, Finals
<1>35. CASE ReadRaises
  BY <1>1, <1>35
    DEF ReadRaises, Goto, Works, ControlType, SpanType, Once, Fresh, Fates, KeyNamed,
        Calls, AtWork, Finals
<1>36. CASE Succeeds
  BY <1>1, <1>36
    DEF Succeeds, Goto, ControlType, SpanType, Once, Fresh, Fates, KeyNamed, Calls,
        AtWork, Finals
<1>37. CASE NotCompleted
  BY <1>1, <1>37
    DEF NotCompleted, Goto, ControlType, SpanType, Once, Fresh, Fates, KeyNamed, Calls,
        AtWork, Finals
<1>38. CASE HandleFailure
  BY <1>1, <1>38
    DEF HandleFailure, Call, ControlType, SpanType, Once, Fresh, Fates, KeyNamed, Calls,
        AtWork, Finals
<1>39. CASE HandleRaises
  BY <1>1, <1>39
    DEF HandleRaises, Goto, Works, ControlType, SpanType, Once, Fresh, Fates, KeyNamed,
        Calls, AtWork, Finals
<1>40. CASE ReadFinal
  BY <1>1, <1>40
    DEF ReadFinal, Goto, ControlType, SpanType, Once, Fresh, Fates, KeyNamed, Calls,
        AtWork, Finals
<1>41. CASE ReadFinalRaises
  BY <1>1, <1>41
    DEF ReadFinalRaises, Works, Done, ControlType, SpanType, Once, Fresh, Fates,
        KeyNamed, Calls, AtWork, Finals
<1>42. CASE LogFinal
  BY <1>1, <1>42
    DEF LogFinal, Goto, Works, FinalStatus, ControlType, SpanType, Once, Fresh, Fates,
        KeyNamed, Calls, AtWork, Finals
<1>43. CASE CloseWorkerSpan
  BY <1>1, <1>43
    DEF CloseWorkerSpan, Goto, Works, FinalStatus, ControlType, SpanType, Once, Fresh,
        Fates, KeyNamed, Calls, AtWork, Finals
<1>44. CASE FinishTrace
  BY <1>1, <1>44
    DEF FinishTrace, Done, Works, FinalStatus, ControlType, SpanType, Once, Fresh, Fates,
        KeyNamed, Calls, AtWork, Finals
<1>45. CASE WorkerDies
  BY <1>1, <1>45
    DEF WorkerDies, Done, ControlType, SpanType, Once, Fresh, Fates, KeyNamed, Calls,
        AtWork, Finals
<1>46. CASE UNCHANGED vars
  BY <1>1, <1>46
    DEF ControlType, SpanType, Once, Fresh, Fates, KeyNamed, Calls, AtWork, Finals
<1> QED
  BY <1>1, <1>2, <1>3, <1>4, <1>5, <1>6, <1>7, <1>8, <1>9, <1>10, <1>11, <1>12, <1>13,
     <1>14, <1>15, <1>16, <1>17, <1>18, <1>19, <1>20, <1>21, <1>22, <1>23, <1>24,
     <1>25, <1>26, <1>27, <1>28, <1>29, <1>30, <1>31, <1>32, <1>33, <1>34, <1>35,
     <1>36, <1>37, <1>38, <1>39, <1>40, <1>41, <1>42, <1>43, <1>44, <1>45, <1>46
     DEF Next, ApiStep, WorkerStep, UpdateSession

LEMMA BlamedKept ==
  ASSUME Blamed, Agents' = Agents,
         \A i \in Agents : spans'[i].did = spans[i].did /\ spans'[i].status = spans[i].status,
         key' = key, key # 0 => key \in Agents,
         faults' = 0 => faults = 0, pc' = "failing" => pc = "failing"
  PROVE  Blamed'
BY DEF Blamed

LEMMA BlamedStep ==
  (ControlType /\ SpanType /\ Once /\ Places /\ Fates /\ KeyNamed /\ Blamed) /\ [Next]_vars => Blamed'
<1>1. SUFFICES ASSUME (ControlType /\ SpanType /\ Once /\ Places /\ Fates /\ KeyNamed /\ Blamed), [Next]_vars
               PROVE  Blamed'
  OBVIOUS
<1>0. SpanType' /\ KindsKept BY <1>1, SpanTypeStep
<1> USE TracingAssumption
      DEF rowVars, workVars, jobVars, restVars, freeVars, vars, OpenedAs, ClosedAs,
          FaredAs
<1>2. CASE StartTrace
  BY <1>1, <1>2
    DEF StartTrace, ApiGoto, Works, ControlType, Once, Places, KeyNamed, Blamed, Agents,
        Calls, AtWork
<1>3. CASE OpenRoot
  <2>2. OpenedAs("api") BY <1>1, <1>3, Opens
  <2>7. DOMAIN spans = 1..Len(spans) /\ DOMAIN spans' = 1..Len(spans')
        /\ Len(spans) \in Nat /\ mine \in 0..Len(spans)
    BY <1>0, <1>1 DEF SpanType
  <2> QED
    BY <1>1, <1>3, <2>2, <2>7
      DEF ControlType, Once, Places, KeyNamed, Blamed, Agents, Calls, AtWork, OpenRoot,
          ApiGoto, Works
<1>4. CASE LogEnqueued
  BY <1>1, <1>4
    DEF LogEnqueued, ApiGoto, Works, ControlType, Once, Places, KeyNamed, Blamed, Agents,
        Calls, AtWork
<1>5. CASE Submit
  BY <1>1, <1>5
    DEF Submit, ApiGoto, Created, ControlType, Once, Places, KeyNamed, Blamed, Agents,
        Calls, AtWork
<1>6. CASE SubmitRaises
  BY <1>1, <1>6
    DEF SubmitRaises, ApiGoto, Created, ControlType, Once, Places, KeyNamed, Blamed,
        Agents, Calls, AtWork
<1>7. CASE CloseRoot
  <2> DEFINE status == IF api = "leave" THEN "success" ELSE "failed"
  <2>4. ClosedAs(1, status) BY <1>1, <1>7, Closes
  <2>2. status \in Endings BY DEF Endings, Ending, FinalStatus
  <2> HIDE DEF status
  <2>7. DOMAIN spans = 1..Len(spans) /\ DOMAIN spans' = 1..Len(spans')
        /\ Len(spans) \in Nat /\ mine \in 0..Len(spans)
    BY <1>0, <1>1 DEF SpanType
  <2>8. Agents' = Agents
        /\ \A i \in Agents : spans'[i].did = spans[i].did /\ spans'[i].status = spans[i].status
    BY <1>1, <1>7, <2>4, <2>7 DEF Agents, Places, CloseRoot, ApiGoto, Works
  <2>9. key' = key /\ (key # 0 => key \in Agents)
    BY <1>1, <1>7, <2>7 DEF Agents, Places, SpanType, CloseRoot, ApiGoto, Works
  <2>10. (faults' = 0 => faults = 0) /\ (pc' = "failing" => pc = "failing")
    BY <1>1, <1>7 DEF ControlType, CloseRoot, ApiGoto, Works
  <2> QED BY <1>1, <2>8, <2>9, <2>10, BlamedKept
<1>8. CASE ApiDies
  BY <1>1, <1>8
    DEF ApiDies, ControlType, Once, Places, KeyNamed, Blamed, Agents, Calls, AtWork
<1>9. CASE ReadSession
  BY <1>1, <1>9
    DEF ReadSession, HasUser, Within, FirstStep, Ends, NewNode, NewStatus, ControlType,
        Once, Places, KeyNamed, Blamed, Agents, Calls, AtWork
<1>10. CASE ReadSessionRaises
  BY <1>1, <1>10
    DEF ReadSessionRaises, HasUser, Works, Return, ControlType, Once, Places, KeyNamed,
        Blamed, Agents, Calls, AtWork
<1>11. CASE FindSpan
  BY <1>1, <1>11
    DEF FindSpan, Within, ControlType, Once, Places, KeyNamed, Blamed, Agents, Calls,
        AtWork
<1>12. CASE FindNoSpan
  BY <1>1, <1>12
    DEF FindNoSpan, Works, Return, Within, Ends, NewNode, NewStatus, ControlType, Once,
        Places, KeyNamed, Blamed, Agents, Calls, AtWork
<1>13. CASE CloseAgentSpan
  <2> DEFINE status == Ending
  <2>4. ClosedAs(key, status) BY <1>1, <1>13, Closes
  <2>2. status \in Endings BY DEF Endings, Ending, FinalStatus
  <2> HIDE DEF status
  <2>7. DOMAIN spans = 1..Len(spans) /\ DOMAIN spans' = 1..Len(spans')
        /\ Len(spans) \in Nat /\ mine \in 0..Len(spans)
    BY <1>0, <1>1 DEF SpanType
  <2>8. Agents' = Agents
    BY <2>4, <2>7 DEF Agents
  <2>9. \A i \in Agents : /\ i \in 1..Len(spans) /\ i # 0 /\ spans'[i].did = spans[i].did
                          /\ spans'[i].status = spans[i].status \/ (i = key /\ spans'[i].status = status)
    BY <2>4, <2>7 DEF Agents
  <2>10. step = "close" /\ step' = "forget" /\ UNCHANGED <<pc, key>> /\ (faults' = 0 => faults = 0)
    BY <1>1, <1>13 DEF CloseAgentSpan, Within, Works, ControlType
  <2>11. pc \in {"enter", "failing", "finish", "sync"} /\ key # 0 /\ key \in 1..Len(spans)
    BY <1>1, <2>10 DEF Once, Calls, SpanType
  <2>12. CASE pc \in {"enter", "finish"}
    <3>1. status = "success"
      BY <2>12, TracingAssumption, <1>1
        DEF status, Ending, NewStatus, NewNode, ControlType, Stages, Planning
    <3> QED BY <1>1, <2>8, <2>9, <2>10, <2>12, <3>1 DEF Blamed
  <2>13. CASE pc = "failing"
    <3>1. spans'[key].did = spans[key].did BY <2>4, <2>11
    <3> QED BY <1>1, <2>8, <2>9, <2>10, <2>11, <2>13, <3>1 DEF Blamed
  <2>14. CASE pc = "sync"
    BY <1>1, <2>10, <2>11, <2>14 DEF KeyNamed, Blamed
  <2> QED BY <2>11, <2>12, <2>13, <2>14
<1>14. CASE ForgetSpan
  BY <1>1, <1>14
    DEF ForgetSpan, Within, Works, ControlType, Once, Places, KeyNamed, Blamed, Agents,
        Calls, AtWork
<1>15. CASE LogCompleted
  BY <1>1, <1>15
    DEF LogCompleted, Within, Works, NewNode, ControlType, Once, Places, KeyNamed,
        Blamed, Agents, Calls, AtWork
<1>16. CASE CreateAgentSpan
  <2>2. OpenedAs("agent") BY <1>1, <1>16, Opens
  <2>7. DOMAIN spans = 1..Len(spans) /\ DOMAIN spans' = 1..Len(spans')
        /\ Len(spans) \in Nat /\ mine \in 0..Len(spans)
    BY <1>0, <1>1 DEF SpanType
  <2>8. pc' = "enter" /\ (faults' = 0 => faults = 0)
    BY <1>1, <1>16 DEF CreateAgentSpan, Within, Works, Once, ControlType
  <2>9. \A i \in Agents' : (i \in Agents /\ spans'[i] = spans[i]) \/ spans'[i].status # "failed"
    BY <2>2, <2>7 DEF Agents
  <2> QED BY <1>1, <2>8, <2>9 DEF Blamed
<1>17. CASE SaveSpan
  BY <1>1, <1>17
    DEF SaveSpan, Within, Works, ControlType, Once, Places, KeyNamed, Blamed, Agents,
        Calls, AtWork
<1>18. CASE LogAgentStarted
  BY <1>1, <1>18
    DEF LogAgentStarted, Within, Works, ControlType, Once, Places, KeyNamed, Blamed,
        Agents, Calls, AtWork
<1>19. CASE WriteRow
  BY <1>1, <1>19
    DEF WriteRow, Within, NewNode, NewStatus, ControlType, Once, Places, KeyNamed,
        Blamed, Agents, Calls, AtWork
<1>20. CASE WriteRaises
  BY <1>1, <1>20
    DEF WriteRaises, Works, Return, ControlType, Once, Places, KeyNamed, Blamed, Agents,
        Calls, AtWork
<1>21. CASE LogAudit
  BY <1>1, <1>21
    DEF LogAudit, Return, ControlType, Once, Places, KeyNamed, Blamed, Agents, Calls,
        AtWork
<1>22. CASE TakeJob
  BY <1>1, <1>22
    DEF TakeJob, Goto, ControlType, Once, Places, KeyNamed, Blamed, Agents, Calls,
        AtWork
<1>23. CASE LogStarted
  BY <1>1, <1>23
    DEF LogStarted, Goto, Works, ControlType, Once, Places, KeyNamed, Blamed, Agents,
        Calls, AtWork
<1>24. CASE OpenWorkerSpan
  <2>2. OpenedAs("worker") BY <1>1, <1>24, Opens
  <2>7. DOMAIN spans = 1..Len(spans) /\ DOMAIN spans' = 1..Len(spans')
        /\ Len(spans) \in Nat /\ mine \in 0..Len(spans)
    BY <1>0, <1>1 DEF SpanType
  <2> QED
    BY <1>1, <1>24, <2>2, <2>7
      DEF ControlType, Once, Places, KeyNamed, Blamed, Agents, Calls, AtWork,
          OpenWorkerSpan, Call, Works, HasUser
<1>25. CASE PlanningUnresolved
  BY <1>1, <1>25
    DEF PlanningUnresolved, Goto, ControlType, Once, Places, KeyNamed, Blamed, Agents,
        Calls, AtWork
<1>26. CASE StartPlanning
  BY <1>1, <1>26
    DEF StartPlanning, Call, ControlType, Once, Places, KeyNamed, Blamed, Agents, Calls,
        AtWork
<1>27. CASE OpenSandbox
  <2>2. OpenedAs("sandbox") BY <1>1, <1>27, Opens
  <2>7. DOMAIN spans = 1..Len(spans) /\ DOMAIN spans' = 1..Len(spans')
        /\ Len(spans) \in Nat /\ mine \in 0..Len(spans)
    BY <1>0, <1>1 DEF SpanType
  <2>8. Agents' = Agents
        /\ \A i \in Agents : spans'[i].did = spans[i].did /\ spans'[i].status = spans[i].status
    BY <1>1, <1>27, <2>2, <2>7 DEF Agents, Places, OpenSandbox, Goto, Works
  <2>9. key' = key /\ (key # 0 => key \in Agents)
    BY <1>1, <1>27, <2>7 DEF Agents, Places, SpanType, OpenSandbox, Goto, Works
  <2>10. (faults' = 0 => faults = 0) /\ (pc' = "failing" => pc = "failing")
    BY <1>1, <1>27 DEF ControlType, OpenSandbox, Goto, Works
  <2> QED BY <1>1, <2>8, <2>9, <2>10, BlamedKept
<1>28. CASE LogSandbox
  BY <1>1, <1>28
    DEF LogSandbox, Goto, Works, ControlType, Once, Places, KeyNamed, Blamed, Agents,
        Calls, AtWork
<1>29. CASE SandboxRaises
  BY <1>1, <1>29
    DEF SandboxRaises, Goto, ControlType, Once, Places, KeyNamed, Blamed, Agents, Calls,
        AtWork
<1>30. CASE CloseSandbox
  <2> DEFINE status == IF pc = "boxed" THEN "success" ELSE "failed"
  <2>4. ClosedAs(Len(spans), status) BY <1>1, <1>30, Closes
  <2>2. status \in Endings BY DEF Endings, Ending, FinalStatus
  <2> HIDE DEF status
  <2>7. DOMAIN spans = 1..Len(spans) /\ DOMAIN spans' = 1..Len(spans')
        /\ Len(spans) \in Nat /\ mine \in 0..Len(spans)
    BY <1>0, <1>1 DEF SpanType
  <2>8. Agents' = Agents
        /\ \A i \in Agents : spans'[i].did = spans[i].did /\ spans'[i].status = spans[i].status
    BY <1>1, <1>30, <2>4, <2>7 DEF Agents, Places, CloseSandbox, Goto, Works
  <2>9. key' = key /\ (key # 0 => key \in Agents)
    BY <1>1, <1>30, <2>7 DEF Agents, Places, SpanType, CloseSandbox, Goto, Works
  <2>10. (faults' = 0 => faults = 0) /\ (pc' = "failing" => pc = "failing")
    BY <1>1, <1>30 DEF ControlType, CloseSandbox, Goto, Works
  <2> QED BY <1>1, <2>8, <2>9, <2>10, BlamedKept
<1>31. CASE StageCompletes
  <2>2. FaredAs("ok") BY <1>1, <1>31, AgentFares
  <2>7. DOMAIN spans = 1..Len(spans) /\ DOMAIN spans' = 1..Len(spans')
        /\ Len(spans) \in Nat /\ mine \in 0..Len(spans)
    BY <1>0, <1>1 DEF SpanType
  <2>8. Agents' = Agents /\ \A i \in Agents : i \in 1..Len(spans)
    BY <2>2, <2>7 DEF Agents
  <2>9. pc \in AtWork /\ pc' # "failing" /\ faults' = faults
    BY <1>31 DEF StageCompletes, AtWork
  <2>10. mine \in Agents => spans[mine].status # "failed"
    BY <1>1, <2>7, <2>9 DEF Fates, Agents, Endings
  <2>11. \A i \in Agents : /\ spans'[i].status = spans[i].status
                           /\ spans'[i].did = spans[i].did \/ spans[i].status # "failed"
    BY <2>2, <2>8, <2>10
  <2> QED BY <1>1, <2>8, <2>9, <2>11 DEF Blamed
<1>32. CASE StageRaises
  <2>2. FaredAs("raised") BY <1>1, <1>32, AgentFares
  <2>7. DOMAIN spans = 1..Len(spans) /\ DOMAIN spans' = 1..Len(spans')
        /\ Len(spans) \in Nat /\ mine \in 0..Len(spans)
    BY <1>0, <1>1 DEF SpanType
  <2>8. Agents' = Agents /\ \A i \in Agents : i \in 1..Len(spans)
    BY <2>2, <2>7 DEF Agents
  <2>9. pc \in AtWork /\ faults' = faults /\ key' = key
    BY <1>32 DEF StageRaises, Call, AtWork
  <2>10. faults = 0 => key = mine /\ mine \in 1..Len(spans)
    BY <1>1, <2>7, <2>9 DEF KeyNamed
  <2>11. faults = 0 => spans'[key].did = "raised"
    BY <2>2, <2>10
  <2>12. \A i \in Agents : spans'[i].status = spans[i].status
                           /\ (spans[i].did = "raised" => spans'[i].did = "raised")
    BY <2>2, <2>8
  <2> QED BY <1>1, <2>8, <2>9, <2>11, <2>12 DEF Blamed
<1>33. CASE Reroute
  BY <1>1, <1>33
    DEF Reroute, Call, ControlType, Once, Places, KeyNamed, Blamed, Agents, Calls,
        AtWork
<1>34. CASE Proceed
  BY <1>1, <1>34
    DEF Proceed, Call, ControlType, Once, Places, KeyNamed, Blamed, Agents, Calls,
        AtWork
<1>35. CASE ReadRaises
  BY <1>1, <1>35
    DEF ReadRaises, Goto, Works, ControlType, Once, Places, KeyNamed, Blamed, Agents,
        Calls, AtWork
<1>36. CASE Succeeds
  BY <1>1, <1>36
    DEF Succeeds, Goto, ControlType, Once, Places, KeyNamed, Blamed, Agents, Calls,
        AtWork
<1>37. CASE NotCompleted
  BY <1>1, <1>37
    DEF NotCompleted, Goto, ControlType, Once, Places, KeyNamed, Blamed, Agents, Calls,
        AtWork
<1>38. CASE HandleFailure
  BY <1>1, <1>38
    DEF HandleFailure, Call, ControlType, Once, Places, KeyNamed, Blamed, Agents, Calls,
        AtWork
<1>39. CASE HandleRaises
  BY <1>1, <1>39
    DEF HandleRaises, Goto, Works, ControlType, Once, Places, KeyNamed, Blamed, Agents,
        Calls, AtWork
<1>40. CASE ReadFinal
  BY <1>1, <1>40
    DEF ReadFinal, Goto, ControlType, Once, Places, KeyNamed, Blamed, Agents, Calls,
        AtWork
<1>41. CASE ReadFinalRaises
  BY <1>1, <1>41
    DEF ReadFinalRaises, Works, Done, ControlType, Once, Places, KeyNamed, Blamed,
        Agents, Calls, AtWork
<1>42. CASE LogFinal
  BY <1>1, <1>42
    DEF LogFinal, Goto, Works, FinalStatus, ControlType, Once, Places, KeyNamed, Blamed,
        Agents, Calls, AtWork
<1>43. CASE CloseWorkerSpan
  <2> DEFINE status == FinalStatus
  <2>4. ClosedAs(wspan, status) BY <1>1, <1>43, Closes
  <2>2. status \in Endings BY DEF Endings, Ending, FinalStatus
  <2> HIDE DEF status
  <2>7. DOMAIN spans = 1..Len(spans) /\ DOMAIN spans' = 1..Len(spans')
        /\ Len(spans) \in Nat /\ mine \in 0..Len(spans)
    BY <1>0, <1>1 DEF SpanType
  <2>8. Agents' = Agents
        /\ \A i \in Agents : spans'[i].did = spans[i].did /\ spans'[i].status = spans[i].status
    BY <1>1, <1>43, <2>4, <2>7
      DEF Agents, Places, CloseWorkerSpan, Goto, Works, FinalStatus
  <2>9. key' = key /\ (key # 0 => key \in Agents)
    BY <1>1, <1>43, <2>7
      DEF Agents, Places, SpanType, CloseWorkerSpan, Goto, Works, FinalStatus
  <2>10. (faults' = 0 => faults = 0) /\ (pc' = "failing" => pc = "failing")
    BY <1>1, <1>43 DEF ControlType, CloseWorkerSpan, Goto, Works, FinalStatus
  <2> QED BY <1>1, <2>8, <2>9, <2>10, BlamedKept
<1>44. CASE FinishTrace
  BY <1>1, <1>44
    DEF FinishTrace, Done, Works, FinalStatus, ControlType, Once, Places, KeyNamed,
        Blamed, Agents, Calls, AtWork
<1>45. CASE WorkerDies
  BY <1>1, <1>45
    DEF WorkerDies, Done, ControlType, Once, Places, KeyNamed, Blamed, Agents, Calls,
        AtWork
<1>46. CASE UNCHANGED vars
  BY <1>1, <1>46 DEF ControlType, Once, Places, KeyNamed, Blamed, Agents, Calls, AtWork
<1> QED
  BY <1>1, <1>2, <1>3, <1>4, <1>5, <1>6, <1>7, <1>8, <1>9, <1>10, <1>11, <1>12, <1>13,
     <1>14, <1>15, <1>16, <1>17, <1>18, <1>19, <1>20, <1>21, <1>22, <1>23, <1>24,
     <1>25, <1>26, <1>27, <1>28, <1>29, <1>30, <1>31, <1>32, <1>33, <1>34, <1>35,
     <1>36, <1>37, <1>38, <1>39, <1>40, <1>41, <1>42, <1>43, <1>44, <1>45, <1>46
     DEF Next, ApiStep, WorkerStep, UpdateSession

(* How the run ends. *)

LEMMA OutcomeStep ==
  (ControlType /\ Once /\ Outcome) /\ [Next]_vars => Outcome'
<1>1. SUFFICES ASSUME (ControlType /\ Once /\ Outcome), [Next]_vars PROVE Outcome'
  OBVIOUS
<1> USE TracingAssumption DEF rowVars, workVars, jobVars, restVars, freeVars, vars
<1>2. CASE StartTrace
  BY <1>1, <1>2
    DEF StartTrace, ApiGoto, Works, CreateTrace, ControlType, Once, Fresh, Outcome,
        TraceTruthful, Calls, AtWork, Finals, Endings
<1>3. CASE OpenRoot
  BY <1>1, <1>3
    DEF OpenRoot, ApiGoto, Works, ControlType, Once, Fresh, Outcome, TraceTruthful,
        Calls, AtWork, Finals, Endings
<1>4. CASE LogEnqueued
  BY <1>1, <1>4
    DEF LogEnqueued, ApiGoto, Works, ControlType, Once, Fresh, Outcome, TraceTruthful,
        Calls, AtWork, Finals, Endings
<1>5. CASE Submit
  BY <1>1, <1>5
    DEF Submit, ApiGoto, Created, ControlType, Once, Fresh, Outcome, TraceTruthful,
        Calls, AtWork, Finals, Endings
<1>6. CASE SubmitRaises
  BY <1>1, <1>6
    DEF SubmitRaises, ApiGoto, Created, ControlType, Once, Fresh, Outcome, TraceTruthful,
        Calls, AtWork, Finals, Endings
<1>7. CASE CloseRoot
  BY <1>1, <1>7
    DEF CloseRoot, ApiGoto, Works, ControlType, Once, Fresh, Outcome, TraceTruthful,
        Calls, AtWork, Finals, Endings
<1>8. CASE ApiDies
  BY <1>1, <1>8
    DEF ApiDies, ControlType, Once, Fresh, Outcome, TraceTruthful, Calls, AtWork, Finals,
        Endings
<1>9. CASE ReadSession
  BY <1>1, <1>9
    DEF ReadSession, HasUser, Within, FirstStep, Ends, NewNode, NewStatus, ControlType,
        Once, Fresh, Outcome, TraceTruthful, Calls, AtWork, Finals, Endings
<1>10. CASE ReadSessionRaises
  BY <1>1, <1>10
    DEF ReadSessionRaises, HasUser, Works, Return, ControlType, Once, Fresh, Outcome,
        TraceTruthful, Calls, AtWork, Finals, Endings
<1>11. CASE FindSpan
  BY <1>1, <1>11
    DEF FindSpan, Within, ControlType, Once, Fresh, Outcome, TraceTruthful, Calls,
        AtWork, Finals, Endings
<1>12. CASE FindNoSpan
  BY <1>1, <1>12
    DEF FindNoSpan, Works, Return, Within, Ends, NewNode, NewStatus, ControlType, Once,
        Fresh, Outcome, TraceTruthful, Calls, AtWork, Finals, Endings
<1>13. CASE CloseAgentSpan
  BY <1>1, <1>13
    DEF CloseAgentSpan, Within, Works, Ending, NewNode, NewStatus, ControlType, Once,
        Fresh, Outcome, TraceTruthful, Calls, AtWork, Finals, Endings
<1>14. CASE ForgetSpan
  BY <1>1, <1>14
    DEF ForgetSpan, Within, Works, ControlType, Once, Fresh, Outcome, TraceTruthful,
        Calls, AtWork, Finals, Endings
<1>15. CASE LogCompleted
  BY <1>1, <1>15
    DEF LogCompleted, Within, Works, NewNode, ControlType, Once, Fresh, Outcome,
        TraceTruthful, Calls, AtWork, Finals, Endings
<1>16. CASE CreateAgentSpan
  BY <1>1, <1>16
    DEF CreateAgentSpan, Within, Works, NewNode, ControlType, Once, Fresh, Outcome,
        TraceTruthful, Calls, AtWork, Finals, Endings
<1>17. CASE SaveSpan
  BY <1>1, <1>17
    DEF SaveSpan, Within, Works, ControlType, Once, Fresh, Outcome, TraceTruthful, Calls,
        AtWork, Finals, Endings
<1>18. CASE LogAgentStarted
  BY <1>1, <1>18
    DEF LogAgentStarted, Within, Works, ControlType, Once, Fresh, Outcome, TraceTruthful,
        Calls, AtWork, Finals, Endings
<1>19. CASE WriteRow
  BY <1>1, <1>19
    DEF WriteRow, Within, NewNode, NewStatus, ControlType, Once, Fresh, Outcome,
        TraceTruthful, Calls, AtWork, Finals, Endings
<1>20. CASE WriteRaises
  BY <1>1, <1>20
    DEF WriteRaises, Works, Return, ControlType, Once, Fresh, Outcome, TraceTruthful,
        Calls, AtWork, Finals, Endings
<1>21. CASE LogAudit
  BY <1>1, <1>21
    DEF LogAudit, Return, ControlType, Once, Fresh, Outcome, TraceTruthful, Calls,
        AtWork, Finals, Endings
<1>22. CASE TakeJob
  BY <1>1, <1>22
    DEF TakeJob, Goto, ControlType, Once, Fresh, Outcome, TraceTruthful, Calls, AtWork,
        Finals, Endings
<1>23. CASE LogStarted
  BY <1>1, <1>23
    DEF LogStarted, Goto, Works, ControlType, Once, Fresh, Outcome, TraceTruthful, Calls,
        AtWork, Finals, Endings
<1>24. CASE OpenWorkerSpan
  BY <1>1, <1>24
    DEF OpenWorkerSpan, Call, Works, HasUser, ControlType, Once, Fresh, Outcome,
        TraceTruthful, Calls, AtWork, Finals, Endings
<1>25. CASE PlanningUnresolved
  BY <1>1, <1>25
    DEF PlanningUnresolved, Goto, ControlType, Once, Fresh, Outcome, TraceTruthful,
        Calls, AtWork, Finals, Endings
<1>26. CASE StartPlanning
  BY <1>1, <1>26
    DEF StartPlanning, Call, ControlType, Once, Fresh, Outcome, TraceTruthful, Calls,
        AtWork, Finals, Endings
<1>27. CASE OpenSandbox
  BY <1>1, <1>27
    DEF OpenSandbox, Goto, Works, ControlType, Once, Fresh, Outcome, TraceTruthful,
        Calls, AtWork, Finals, Endings
<1>28. CASE LogSandbox
  BY <1>1, <1>28
    DEF LogSandbox, Goto, Works, ControlType, Once, Fresh, Outcome, TraceTruthful, Calls,
        AtWork, Finals, Endings
<1>29. CASE SandboxRaises
  BY <1>1, <1>29
    DEF SandboxRaises, Goto, ControlType, Once, Fresh, Outcome, TraceTruthful, Calls,
        AtWork, Finals, Endings
<1>30. CASE CloseSandbox
  BY <1>1, <1>30
    DEF CloseSandbox, Goto, Works, ControlType, Once, Fresh, Outcome, TraceTruthful,
        Calls, AtWork, Finals, Endings
<1>31. CASE StageCompletes
  BY <1>1, <1>31
    DEF StageCompletes, ControlType, Once, Fresh, Outcome, TraceTruthful, Calls, AtWork,
        Finals, Endings
<1>32. CASE StageRaises
  BY <1>1, <1>32
    DEF StageRaises, Call, ControlType, Once, Fresh, Outcome, TraceTruthful, Calls,
        AtWork, Finals, Endings
<1>33. CASE Reroute
  BY <1>1, <1>33
    DEF Reroute, Call, ControlType, Once, Fresh, Outcome, TraceTruthful, Calls, AtWork,
        Finals, Endings
<1>34. CASE Proceed
  BY <1>1, <1>34
    DEF Proceed, Call, ControlType, Once, Fresh, Outcome, TraceTruthful, Calls, AtWork,
        Finals, Endings
<1>35. CASE ReadRaises
  BY <1>1, <1>35
    DEF ReadRaises, Goto, Works, ControlType, Once, Fresh, Outcome, TraceTruthful, Calls,
        AtWork, Finals, Endings
<1>36. CASE Succeeds
  BY <1>1, <1>36
    DEF Succeeds, Goto, ControlType, Once, Fresh, Outcome, TraceTruthful, Calls, AtWork,
        Finals, Endings
<1>37. CASE NotCompleted
  BY <1>1, <1>37
    DEF NotCompleted, Goto, ControlType, Once, Fresh, Outcome, TraceTruthful, Calls,
        AtWork, Finals, Endings
<1>38. CASE HandleFailure
  BY <1>1, <1>38
    DEF HandleFailure, Call, ControlType, Once, Fresh, Outcome, TraceTruthful, Calls,
        AtWork, Finals, Endings
<1>39. CASE HandleRaises
  BY <1>1, <1>39
    DEF HandleRaises, Goto, Works, ControlType, Once, Fresh, Outcome, TraceTruthful,
        Calls, AtWork, Finals, Endings
<1>40. CASE ReadFinal
  BY <1>1, <1>40
    DEF ReadFinal, Goto, ControlType, Once, Fresh, Outcome, TraceTruthful, Calls, AtWork,
        Finals, Endings
<1>41. CASE ReadFinalRaises
  BY <1>1, <1>41
    DEF ReadFinalRaises, Works, Done, ControlType, Once, Fresh, Outcome, TraceTruthful,
        Calls, AtWork, Finals, Endings
<1>42. CASE LogFinal
  BY <1>1, <1>42
    DEF LogFinal, Goto, Works, FinalStatus, ControlType, Once, Fresh, Outcome,
        TraceTruthful, Calls, AtWork, Finals, Endings
<1>43. CASE CloseWorkerSpan
  BY <1>1, <1>43
    DEF CloseWorkerSpan, Goto, Works, FinalStatus, ControlType, Once, Fresh, Outcome,
        TraceTruthful, Calls, AtWork, Finals, Endings
<1>44. CASE FinishTrace
  BY <1>1, <1>44
    DEF FinishTrace, Done, Works, EndTrace, FinalStatus, ControlType, Once, Fresh,
        Outcome, TraceTruthful, Calls, AtWork, Finals, Endings
<1>45. CASE WorkerDies
  BY <1>1, <1>45
    DEF WorkerDies, Done, ControlType, Once, Fresh, Outcome, TraceTruthful, Calls,
        AtWork, Finals, Endings
<1>46. CASE UNCHANGED vars
  BY <1>1, <1>46
    DEF ControlType, Once, Fresh, Outcome, TraceTruthful, Calls, AtWork, Finals, Endings
<1> QED
  BY <1>1, <1>2, <1>3, <1>4, <1>5, <1>6, <1>7, <1>8, <1>9, <1>10, <1>11, <1>12, <1>13,
     <1>14, <1>15, <1>16, <1>17, <1>18, <1>19, <1>20, <1>21, <1>22, <1>23, <1>24,
     <1>25, <1>26, <1>27, <1>28, <1>29, <1>30, <1>31, <1>32, <1>33, <1>34, <1>35,
     <1>36, <1>37, <1>38, <1>39, <1>40, <1>41, <1>42, <1>43, <1>44, <1>45, <1>46
     DEF Next, ApiStep, WorkerStep, UpdateSession

LEMMA SyncedStep ==
  (ControlType /\ Once /\ KeyNamed /\ Synced) /\ [Next]_vars => Synced'
<1>1. SUFFICES ASSUME (ControlType /\ Once /\ KeyNamed /\ Synced), [Next]_vars
               PROVE  Synced'
  OBVIOUS
<1> USE TracingAssumption DEF rowVars, workVars, jobVars, restVars, freeVars, vars
<1>2. CASE StartTrace
  BY <1>1, <1>2
    DEF StartTrace, ApiGoto, Works, ControlType, Once, Fresh, KeyNamed, Synced, Calls,
        AtWork, Finals, Endings
<1>3. CASE OpenRoot
  BY <1>1, <1>3
    DEF OpenRoot, ApiGoto, Works, ControlType, Once, Fresh, KeyNamed, Synced, Calls,
        AtWork, Finals, Endings
<1>4. CASE LogEnqueued
  BY <1>1, <1>4
    DEF LogEnqueued, ApiGoto, Works, ControlType, Once, Fresh, KeyNamed, Synced, Calls,
        AtWork, Finals, Endings
<1>5. CASE Submit
  BY <1>1, <1>5
    DEF Submit, ApiGoto, Created, ControlType, Once, Fresh, KeyNamed, Synced, Calls,
        AtWork, Finals, Endings
<1>6. CASE SubmitRaises
  BY <1>1, <1>6
    DEF SubmitRaises, ApiGoto, Created, ControlType, Once, Fresh, KeyNamed, Synced,
        Calls, AtWork, Finals, Endings
<1>7. CASE CloseRoot
  BY <1>1, <1>7
    DEF CloseRoot, ApiGoto, Works, ControlType, Once, Fresh, KeyNamed, Synced, Calls,
        AtWork, Finals, Endings
<1>8. CASE ApiDies
  BY <1>1, <1>8
    DEF ApiDies, ControlType, Once, Fresh, KeyNamed, Synced, Calls, AtWork, Finals,
        Endings
<1>9. CASE ReadSession
  BY <1>1, <1>9
    DEF ReadSession, HasUser, Within, FirstStep, Ends, NewNode, NewStatus, ControlType,
        Once, Fresh, KeyNamed, Synced, Calls, AtWork, Finals, Endings
<1>10. CASE ReadSessionRaises
  BY <1>1, <1>10
    DEF ReadSessionRaises, HasUser, Works, Return, ControlType, Once, Fresh, KeyNamed,
        Synced, Calls, AtWork, Finals, Endings
<1>11. CASE FindSpan
  BY <1>1, <1>11
    DEF FindSpan, Within, ControlType, Once, Fresh, KeyNamed, Synced, Calls, AtWork,
        Finals, Endings
<1>12. CASE FindNoSpan
  BY <1>1, <1>12
    DEF FindNoSpan, Works, Return, Within, Ends, NewNode, NewStatus, ControlType, Once,
        Fresh, KeyNamed, Synced, Calls, AtWork, Finals, Endings
<1>13. CASE CloseAgentSpan
  BY <1>1, <1>13
    DEF CloseAgentSpan, Within, Works, Ending, NewNode, NewStatus, ControlType, Once,
        Fresh, KeyNamed, Synced, Calls, AtWork, Finals, Endings
<1>14. CASE ForgetSpan
  BY <1>1, <1>14
    DEF ForgetSpan, Within, Works, ControlType, Once, Fresh, KeyNamed, Synced, Calls,
        AtWork, Finals, Endings
<1>15. CASE LogCompleted
  BY <1>1, <1>15
    DEF LogCompleted, Within, Works, NewNode, ControlType, Once, Fresh, KeyNamed, Synced,
        Calls, AtWork, Finals, Endings
<1>16. CASE CreateAgentSpan
  BY <1>1, <1>16
    DEF CreateAgentSpan, Within, Works, NewNode, ControlType, Once, Fresh, KeyNamed,
        Synced, Calls, AtWork, Finals, Endings
<1>17. CASE SaveSpan
  BY <1>1, <1>17
    DEF SaveSpan, Within, Works, ControlType, Once, Fresh, KeyNamed, Synced, Calls,
        AtWork, Finals, Endings
<1>18. CASE LogAgentStarted
  BY <1>1, <1>18
    DEF LogAgentStarted, Within, Works, ControlType, Once, Fresh, KeyNamed, Synced,
        Calls, AtWork, Finals, Endings
<1>19. CASE WriteRow
  BY <1>1, <1>19
    DEF WriteRow, Within, NewNode, NewStatus, ControlType, Once, Fresh, KeyNamed, Synced,
        Calls, AtWork, Finals, Endings
<1>20. CASE WriteRaises
  BY <1>1, <1>20
    DEF WriteRaises, Works, Return, ControlType, Once, Fresh, KeyNamed, Synced, Calls,
        AtWork, Finals, Endings
<1>21. CASE LogAudit
  BY <1>1, <1>21
    DEF LogAudit, Return, ControlType, Once, Fresh, KeyNamed, Synced, Calls, AtWork,
        Finals, Endings
<1>22. CASE TakeJob
  BY <1>1, <1>22
    DEF TakeJob, Goto, ControlType, Once, Fresh, KeyNamed, Synced, Calls, AtWork, Finals,
        Endings
<1>23. CASE LogStarted
  BY <1>1, <1>23
    DEF LogStarted, Goto, Works, ControlType, Once, Fresh, KeyNamed, Synced, Calls,
        AtWork, Finals, Endings
<1>24. CASE OpenWorkerSpan
  BY <1>1, <1>24
    DEF OpenWorkerSpan, Call, Works, HasUser, ControlType, Once, Fresh, KeyNamed, Synced,
        Calls, AtWork, Finals, Endings
<1>25. CASE PlanningUnresolved
  BY <1>1, <1>25
    DEF PlanningUnresolved, Goto, ControlType, Once, Fresh, KeyNamed, Synced, Calls,
        AtWork, Finals, Endings
<1>26. CASE StartPlanning
  BY <1>1, <1>26
    DEF StartPlanning, Call, ControlType, Once, Fresh, KeyNamed, Synced, Calls, AtWork,
        Finals, Endings
<1>27. CASE OpenSandbox
  BY <1>1, <1>27
    DEF OpenSandbox, Goto, Works, ControlType, Once, Fresh, KeyNamed, Synced, Calls,
        AtWork, Finals, Endings
<1>28. CASE LogSandbox
  BY <1>1, <1>28
    DEF LogSandbox, Goto, Works, ControlType, Once, Fresh, KeyNamed, Synced, Calls,
        AtWork, Finals, Endings
<1>29. CASE SandboxRaises
  BY <1>1, <1>29
    DEF SandboxRaises, Goto, ControlType, Once, Fresh, KeyNamed, Synced, Calls, AtWork,
        Finals, Endings
<1>30. CASE CloseSandbox
  BY <1>1, <1>30
    DEF CloseSandbox, Goto, Works, ControlType, Once, Fresh, KeyNamed, Synced, Calls,
        AtWork, Finals, Endings
<1>31. CASE StageCompletes
  BY <1>1, <1>31
    DEF StageCompletes, ControlType, Once, Fresh, KeyNamed, Synced, Calls, AtWork,
        Finals, Endings
<1>32. CASE StageRaises
  BY <1>1, <1>32
    DEF StageRaises, Call, ControlType, Once, Fresh, KeyNamed, Synced, Calls, AtWork,
        Finals, Endings
<1>33. CASE Reroute
  BY <1>1, <1>33
    DEF Reroute, Call, ControlType, Once, Fresh, KeyNamed, Synced, Calls, AtWork, Finals,
        Endings
<1>34. CASE Proceed
  BY <1>1, <1>34
    DEF Proceed, Call, ControlType, Once, Fresh, KeyNamed, Synced, Calls, AtWork, Finals,
        Endings
<1>35. CASE ReadRaises
  BY <1>1, <1>35
    DEF ReadRaises, Goto, Works, ControlType, Once, Fresh, KeyNamed, Synced, Calls,
        AtWork, Finals, Endings
<1>36. CASE Succeeds
  BY <1>1, <1>36
    DEF Succeeds, Goto, ControlType, Once, Fresh, KeyNamed, Synced, Calls, AtWork,
        Finals, Endings
<1>37. CASE NotCompleted
  BY <1>1, <1>37
    DEF NotCompleted, Goto, ControlType, Once, Fresh, KeyNamed, Synced, Calls, AtWork,
        Finals, Endings
<1>38. CASE HandleFailure
  BY <1>1, <1>38
    DEF HandleFailure, Call, ControlType, Once, Fresh, KeyNamed, Synced, Calls, AtWork,
        Finals, Endings
<1>39. CASE HandleRaises
  BY <1>1, <1>39
    DEF HandleRaises, Goto, Works, ControlType, Once, Fresh, KeyNamed, Synced, Calls,
        AtWork, Finals, Endings
<1>40. CASE ReadFinal
  BY <1>1, <1>40
    DEF ReadFinal, Goto, ControlType, Once, Fresh, KeyNamed, Synced, Calls, AtWork,
        Finals, Endings
<1>41. CASE ReadFinalRaises
  BY <1>1, <1>41
    DEF ReadFinalRaises, Works, Done, ControlType, Once, Fresh, KeyNamed, Synced, Calls,
        AtWork, Finals, Endings
<1>42. CASE LogFinal
  BY <1>1, <1>42
    DEF LogFinal, Goto, Works, FinalStatus, ControlType, Once, Fresh, KeyNamed, Synced,
        Calls, AtWork, Finals, Endings
<1>43. CASE CloseWorkerSpan
  BY <1>1, <1>43
    DEF CloseWorkerSpan, Goto, Works, FinalStatus, ControlType, Once, Fresh, KeyNamed,
        Synced, Calls, AtWork, Finals, Endings
<1>44. CASE FinishTrace
  BY <1>1, <1>44
    DEF FinishTrace, Done, Works, FinalStatus, ControlType, Once, Fresh, KeyNamed,
        Synced, Calls, AtWork, Finals, Endings
<1>45. CASE WorkerDies
  BY <1>1, <1>45
    DEF WorkerDies, Done, ControlType, Once, Fresh, KeyNamed, Synced, Calls, AtWork,
        Finals, Endings
<1>46. CASE UNCHANGED vars
  BY <1>1, <1>46
    DEF ControlType, Once, Fresh, KeyNamed, Synced, Calls, AtWork, Finals, Endings
<1> QED
  BY <1>1, <1>2, <1>3, <1>4, <1>5, <1>6, <1>7, <1>8, <1>9, <1>10, <1>11, <1>12, <1>13,
     <1>14, <1>15, <1>16, <1>17, <1>18, <1>19, <1>20, <1>21, <1>22, <1>23, <1>24,
     <1>25, <1>26, <1>27, <1>28, <1>29, <1>30, <1>31, <1>32, <1>33, <1>34, <1>35,
     <1>36, <1>37, <1>38, <1>39, <1>40, <1>41, <1>42, <1>43, <1>44, <1>45, <1>46
     DEF Next, ApiStep, WorkerStep, UpdateSession

-----------------------------------------------------------------------------
LEMMA NextIInv == IInv /\ [Next]_vars => IInv'
  BY ControlTypeStep, SpanTypeStep, LogTypeStep, OnceStep, PlacesStep, FatesStep,
     KeyNamedStep, BlamedStep, OutcomeStep, SyncedStep
  DEF IInv

\* The inductive invariant holds.
THEOREM TracingInvariant == Spec => []IInv
  BY InitIInv, NextIInv, PTL DEF Spec

\* Type correctness, for every number of stages, loops, sandboxes, faults and
\* crashes.
THEOREM TracingTypeCorrect == Spec => []TypeOK
<1>1. IInv => TypeOK BY TypeParts DEF IInv
<1> QED BY <1>1, TracingInvariant, PTL

\* A span that is closed as a success is that of an agent which succeeded;
\* where nothing failed, one closed as failed is that of an agent which raised.
THEOREM SpansAreTrue == Spec => []SpansTrue
<1>1. IInv => SpansTrue BY DEF IInv, Fates, Blamed, SpansTrue
<1> QED BY <1>1, TracingInvariant, PTL

\* The trace ends as the session does, whatever fails or dies.
THEOREM TraceIsTruthful == Spec => []TraceTruthful
<1>1. IInv => TraceTruthful BY DEF IInv, Outcome
<1> QED BY <1>1, TracingInvariant, PTL

\* A run during which nothing failed leaves the session row as it ended, and
\* handles its failure once.
THEOREM StatusIsSynced == Spec => []StatusSynced
<1>1. IInv => StatusSynced
  BY DEF IInv, Synced, Outcome, TraceTruthful, StatusSynced, Finals, ControlType, Endings
<1> QED BY <1>1, TracingInvariant, PTL

-----------------------------------------------------------------------------
(* What is left open.                                                      *)
(*                                                                         *)
(* A span of the run that is open is held while somebody is on the way to  *)
(* close it: the request its root, the worker its own, the conductor the   *)
(* one that the span key names, and the one it has made and not yet saved  *)
(* under the key, the tool manager the last.  Where row.node is 0, because *)
(* the first update failed, update_session does not look for the key: the  *)
(* span is given up when the update fails, not when it is passed over.     *)
(* The other open spans have leaked, each for an accident of its own.      *)

Held(i) ==
  \/ i = 1 /\ api \in {"log", "submit", "leave", "raise"}
  \/ i = wspan /\ pc \notin {"poll", "begin", "span", "finalTrace"}
  \/ i = key /\ pc \in AtWork \cup {"decide"} /\ row.node # 0
  \/ i = key /\ pc \in {"enter", "finish", "failing"} /\ step \in {"get", "peek", "close"}
       /\ row.node # 0
  \/ i = key /\ pc = "enter" /\ step \in {"announce", "put"}
  \/ i = key /\ pc = "enter" /\ step = "audit" /\ row.node # 0
  \/ i = mine /\ pc = "enter" /\ step = "save"
  \/ i = Len(spans) /\ pc \in {"sandbox", "boxed", "broken"}
Leaked == {i \in LeftOpen : ~Held(i)}

\* the span of a retry, which is given up without an accident, is of no run
Leaks ==
  /\ pc = "open" /\ task = "retry" => wspan # 0 /\ spans[wspan].in = "fallback"
  /\ Cardinality(Leaked) <= faults + 3 * crashes

LEMMA LeakedFinite == SpanType => IsFiniteSet(Leaked) /\ Cardinality(Leaked) \in Nat
<1> SUFFICES ASSUME SpanType PROVE IsFiniteSet(Leaked)
  BY FS_CardinalityType
<1>1. Leaked \subseteq 1..Len(spans) /\ Len(spans) \in Nat
  BY DEF Leaked, LeftOpen, SpanType
<1>2. IsFiniteSet(1..Len(spans))
  BY <1>1, FS_Interval
<1> QED BY <1>1, <1>2, FS_Subset

Counted == faults \in Nat /\ crashes \in Nat /\ faults' \in Nat /\ crashes' \in Nat
           /\ faults' >= faults /\ crashes' >= crashes

LEMMA LeaksKept ==
  ASSUME SpanType, SpanType', Leaks, Counted, Leaked' \subseteq Leaked
  PROVE  Cardinality(Leaked') <= faults' + 3 * crashes'
<1>1. Cardinality(Leaked') <= Cardinality(Leaked)
  BY LeakedFinite, FS_Subset
<1>2. Cardinality(Leaked) \in Nat /\ Cardinality(Leaked') \in Nat
  <2>1. Cardinality(Leaked) \in Nat BY LeakedFinite
  <2>2. IsFiniteSet(Leaked') BY LeakedFinite, FS_Subset
  <2> QED BY <2>1, <2>2, FS_CardinalityType
<1> QED BY <1>1, <1>2 DEF Leaks, Counted

\* one operation that fails, or one process that dies, leaks x
LEMMA LeaksOne ==
  ASSUME SpanType, SpanType', Leaks, Counted, NEW x, Leaked' \subseteq Leaked \cup {x},
         faults' = faults + 1 \/ crashes' = crashes + 1
  PROVE  Cardinality(Leaked') <= faults' + 3 * crashes'
<1>1. IsFiniteSet(Leaked) /\ Cardinality(Leaked) \in Nat
  BY LeakedFinite
<1>2. IsFiniteSet(Leaked \cup {x}) /\ Cardinality(Leaked \cup {x}) \in Nat
      /\ Cardinality(Leaked \cup {x}) <= Cardinality(Leaked) + 1
  BY <1>1, FS_AddElement, FS_CardinalityType
<1>3. Cardinality(Leaked') <= Cardinality(Leaked \cup {x}) /\ Cardinality(Leaked') \in Nat
  BY <1>2, FS_Subset, FS_CardinalityType
<1> QED BY <1>1, <1>2, <1>3 DEF Leaks, Counted

LEMMA LeaksThree ==
  ASSUME SpanType, SpanType', Leaks, Counted, NEW x, NEW y, NEW z,
         Leaked' \subseteq ((Leaked \cup {x}) \cup {y}) \cup {z}, crashes' = crashes + 1
  PROVE  Cardinality(Leaked') <= faults' + 3 * crashes'
<1>1. IsFiniteSet(Leaked) /\ Cardinality(Leaked) \in Nat
  BY LeakedFinite
<1>2. ASSUME NEW S, IsFiniteSet(S), NEW a
      PROVE  /\ IsFiniteSet(S \cup {a})
             /\ Cardinality(S) \in Nat /\ Cardinality(S \cup {a}) \in Nat
             /\ Cardinality(S \cup {a}) <= Cardinality(S) + 1
  BY <1>2, FS_AddElement, FS_CardinalityType
<1> DEFINE A == Leaked \cup {x}
           B == A \cup {y}
           C == B \cup {z}
<1>3. IsFiniteSet(A) /\ Cardinality(A) \in Nat /\ Cardinality(A) <= Cardinality(Leaked) + 1
  BY <1>1, <1>2
<1>4. IsFiniteSet(B) /\ Cardinality(B) \in Nat /\ Cardinality(B) <= Cardinality(A) + 1
  BY <1>2, <1>3
<1>5. IsFiniteSet(C) /\ Cardinality(C) \in Nat /\ Cardinality(C) <= Cardinality(B) + 1
  BY <1>2, <1>4
<1>6. Cardinality(Leaked') <= Cardinality(C) /\ Cardinality(Leaked') \in Nat
  BY <1>5, FS_Subset, FS_CardinalityType
<1> HIDE DEF A, B, C
<1> QED BY <1>1, <1>3, <1>4, <1>5, <1>6 DEF Leaks, Counted

\* what the operations on the table do to the spans that are open
InKept == Len(spans') = Len(spans) /\ \A i \in 1..Len(spans) : spans'[i].in = spans[i].in

LEMMA Leaves ==
  ASSUME SpanType, NEW id \in Nat, NEW status \in Endings, NEW ok \in BOOLEAN,
         CloseSpan(id, status, ok)
  PROVE  InKept /\ LeftOpen' \subseteq LeftOpen /\ (ok => id \notin LeftOpen')
<1>1. \A i \in 1..Len(spans) : spans[i] \in Span
  BY DEF SpanType
<1>2. CASE spans' = spans /\ (ok => spans[id].status = "absent")
  BY <1>2 DEF LeftOpen, InKept
<1>3. CASE spans' = [spans EXCEPT ![id].status = status]
  <2>1. DOMAIN spans = 1..Len(spans) /\ DOMAIN spans' = DOMAIN spans
        /\ Len(spans') = Len(spans)
    BY <1>3 DEF SpanType
  <2>2. \A i \in 1..Len(spans) :
          spans'[i] = IF i = id THEN [spans[i] EXCEPT !.status = status] ELSE spans[i]
    BY <1>3, <2>1
  <2>3. \A i \in 1..Len(spans) :
          /\ spans'[i].in = spans[i].in
          /\ spans'[i].status = IF i = id THEN status ELSE spans[i].status
    BY <1>1, <2>2 DEF Span
  <2>4. status # "running" BY DEF Endings
  <2> QED BY <2>1, <2>3, <2>4 DEF LeftOpen, InKept
<1> QED BY <1>2, <1>3 DEF CloseSpan

LEMMA StaysOpen ==
  ASSUME SpanType, NEW did, Fares(did)
  PROVE  Len(spans') = Len(spans) /\ LeftOpen' = LeftOpen
<1>1. \A i \in 1..Len(spans) : spans[i] \in Span
  BY DEF SpanType
<1>2. CASE mine = 0 BY <1>2 DEF Fares, LeftOpen
<1>3. CASE mine # 0
  <2>1. DOMAIN spans = 1..Len(spans) /\ DOMAIN spans' = DOMAIN spans
        /\ Len(spans') = Len(spans) /\ spans' = [spans EXCEPT ![mine].did = did]
    BY <1>3 DEF SpanType, Fares
  <2>2. \A i \in 1..Len(spans) :
          spans'[i] = IF i = mine THEN [spans[i] EXCEPT !.did = did] ELSE spans[i]
    BY <2>1
  <2>3. \A i \in 1..Len(spans) :
          spans'[i].in = spans[i].in /\ spans'[i].status = spans[i].status
    BY <1>1, <2>2 DEF Span
  <2> QED BY <2>1, <2>3 DEF LeftOpen
<1> QED BY <1>2, <1>3

LEMMA OpensOne ==
  ASSUME SpanType, NEW kind, OpenedAs(kind)
  PROVE  Len(spans') = Len(spans) + 1 /\ LeftOpen' \subseteq LeftOpen \cup {Len(spans) + 1}
         /\ \A i \in LeftOpen : i \in 1..Len(spans) /\ spans'[i] = spans[i]
<1>1. Len(spans) \in Nat /\ DOMAIN spans = 1..Len(spans) /\ Len(spans') = Len(spans) + 1
      /\ DOMAIN spans' = 1..(Len(spans) + 1) /\ \A i \in 1..Len(spans) : spans'[i] = spans[i]
  BY DEF SpanType, OpenedAs
<1> QED BY <1>1 DEF LeftOpen

\* operations that fail and processes that die are only counted
LEMMA Counts == ControlType /\ [Next]_vars => Counted
<1>1. SUFFICES ASSUME ControlType, [Next]_vars PROVE Counted
  OBVIOUS
<1>2. faults \in Nat /\ crashes \in Nat
  BY <1>1, TracingAssumption DEF ControlType
<1> USE <1>1, <1>2
      DEF Counted, Works, rowVars, workVars, jobVars, restVars, freeVars, vars
<1>3. CASE ApiStep
  BY <1>3
    DEF ApiStep, StartTrace, OpenRoot, LogEnqueued, Submit, SubmitRaises, CloseRoot
<1>4. CASE UpdateSession
  <2>1. CASE ReadSessionRaises BY <2>1 DEF ReadSessionRaises
  <2>2. CASE FindNoSpan BY <2>2 DEF FindNoSpan
  <2>5. CASE WriteRaises BY <2>5 DEF WriteRaises
  <2>6. CASE ReadSession BY <2>6 DEF ReadSession
  <2>7. CASE FindSpan BY <2>7 DEF FindSpan
  <2>8. CASE LogAudit BY <2>8 DEF LogAudit
  <2>9. CASE WriteRow BY <2>9 DEF WriteRow
  <2>3. CASE CloseAgentSpan \/ ForgetSpan \/ LogCompleted
    BY <2>3 DEF CloseAgentSpan, ForgetSpan, LogCompleted
  <2>4. CASE CreateAgentSpan \/ SaveSpan \/ LogAgentStarted
    BY <2>4 DEF CreateAgentSpan, SaveSpan, LogAgentStarted
  <2> QED BY <1>4, <2>1, <2>2, <2>3, <2>4, <2>5, <2>6, <2>7, <2>8, <2>9 DEF UpdateSession
<1>5. CASE ApiDies \/ WorkerDies \/ UNCHANGED vars
  BY <1>5 DEF ApiDies, WorkerDies
<1>6. CASE WorkerStep /\ ~UpdateSession
  BY <1>6
    DEF WorkerStep, TakeJob, LogStarted, OpenWorkerSpan, PlanningUnresolved,
        StartPlanning, OpenSandbox, LogSandbox, SandboxRaises, CloseSandbox,
        StageCompletes, StageRaises, Reroute, Proceed, ReadRaises, Succeeds,
        NotCompleted, HandleFailure, HandleRaises, ReadFinal, ReadFinalRaises, LogFinal,
        CloseWorkerSpan, FinishTrace
<1> QED BY <1>3, <1>4, <1>5, <1>6 DEF Next

LEMMA LeaksStep ==
  (ControlType /\ SpanType /\ Once /\ Places /\ Leaks) /\ [Next]_vars => Leaks'
<1>1. SUFFICES ASSUME (ControlType /\ SpanType /\ Once /\ Places /\ Leaks), [Next]_vars
               PROVE  Leaks'
  OBVIOUS
<1>0. SpanType' /\ Counted BY <1>1, SpanTypeStep, Counts
<1> USE TracingAssumption DEF rowVars, workVars, jobVars, restVars, freeVars, vars
<1>2. CASE StartTrace
  <2>1. Leaked' \subseteq Leaked
    BY <1>1, <1>2
      DEF StartTrace, ApiGoto, ControlType, Once, Places, Calls, AtWork, Finals,
          Leaked, LeftOpen, Held
  <2>2. pc' = "open" /\ task' = "retry" => pc = "open" /\ task = "retry" /\ wspan' = wspan
    BY <1>1, <1>2
      DEF StartTrace, ApiGoto, ControlType, Once, Places, Calls, AtWork, Finals,
          Leaked, LeftOpen, Held
  <2>3. spans' = spans BY <1>2 DEF StartTrace, ApiGoto, ControlType, Once, Places, Calls, AtWork, Finals, Leaked, LeftOpen, Held
  <2> QED BY <1>0, <1>1, <2>1, <2>2, <2>3, LeaksKept DEF Leaks
<1>3. CASE OpenRoot
  <2>1. OpenedAs("api") BY <1>1, <1>3, Opens
  <2>2. Len(spans') = Len(spans) + 1 /\ LeftOpen' \subseteq LeftOpen \cup {Len(spans) + 1}
    BY <1>1, <2>1, OpensOne
  <2>3. PICK n \in Nat : n = Len(spans) + 1
    BY <1>1 DEF SpanType
  <2>6. Held(n)' /\ \A i \in LeftOpen : Held(i) => Held(i)'
    BY <1>1, <1>3, <2>2, <2>3
      DEF OpenRoot, ApiGoto, ControlType, SpanType, Once, Places, Calls, AtWork,
          Finals, Held, LeftOpen
  <2>4. Leaked' \subseteq Leaked BY <2>2, <2>3, <2>6 DEF Leaked
  <2>5. ~(pc' = "open" /\ task' = "retry")
    BY <1>1, <1>3
      DEF OpenRoot, ApiGoto, ControlType, SpanType, Once, Places, Calls, AtWork,
          Finals, Held
  <2> QED BY <1>0, <1>1, <2>4, <2>5, LeaksKept DEF Leaks
<1>4. CASE LogEnqueued
  <2>1. Leaked' \subseteq Leaked
    BY <1>1, <1>4
      DEF LogEnqueued, ApiGoto, ControlType, Once, Places, Calls, AtWork, Finals,
          Leaked, LeftOpen, Held
  <2>2. pc' = "open" /\ task' = "retry" => pc = "open" /\ task = "retry" /\ wspan' = wspan
    BY <1>1, <1>4
      DEF LogEnqueued, ApiGoto, ControlType, Once, Places, Calls, AtWork, Finals,
          Leaked, LeftOpen, Held
  <2>3. spans' = spans BY <1>4 DEF LogEnqueued, ApiGoto, ControlType, Once, Places, Calls, AtWork, Finals, Leaked, LeftOpen, Held
  <2> QED BY <1>0, <1>1, <2>1, <2>2, <2>3, LeaksKept DEF Leaks
<1>5. CASE Submit
  <2>1. Leaked' \subseteq Leaked
    BY <1>1, <1>5
      DEF Submit, ApiGoto, ControlType, Once, Places, Calls, AtWork, Finals, Leaked,
          LeftOpen, Held
  <2>2. pc' = "open" /\ task' = "retry" => pc = "open" /\ task = "retry" /\ wspan' = wspan
    BY <1>1, <1>5
      DEF Submit, ApiGoto, ControlType, Once, Places, Calls, AtWork, Finals, Leaked,
          LeftOpen, Held
  <2>3. spans' = spans BY <1>5 DEF Submit, ApiGoto, ControlType, Once, Places, Calls, AtWork, Finals, Leaked, LeftOpen, Held
  <2> QED BY <1>0, <1>1, <2>1, <2>2, <2>3, LeaksKept DEF Leaks
<1>6. CASE SubmitRaises
  <2>1. Leaked' \subseteq Leaked
    BY <1>1, <1>6
      DEF SubmitRaises, ApiGoto, ControlType, Once, Places, Calls, AtWork, Finals,
          Leaked, LeftOpen, Held
  <2>2. pc' = "open" /\ task' = "retry" => pc = "open" /\ task = "retry" /\ wspan' = wspan
    BY <1>1, <1>6
      DEF SubmitRaises, ApiGoto, ControlType, Once, Places, Calls, AtWork, Finals,
          Leaked, LeftOpen, Held
  <2>3. spans' = spans BY <1>6 DEF SubmitRaises, ApiGoto, ControlType, Once, Places, Calls, AtWork, Finals, Leaked, LeftOpen, Held
  <2> QED BY <1>0, <1>1, <2>1, <2>2, <2>3, LeaksKept DEF Leaks
<1>7. CASE CloseRoot
  <2> DEFINE status == IF api = "leave" THEN "success" ELSE "failed"
  <2>1. 1 \in Nat /\ status \in Endings
    BY <1>1 DEF SpanType, Endings, Ending, FinalStatus
  <2>2. PICK ok \in BOOLEAN : Works(ok) /\ CloseSpan(1, status, ok)
    BY <1>7 DEF CloseRoot
  <2> HIDE DEF status
  <2>3. InKept /\ LeftOpen' \subseteq LeftOpen /\ (ok => 1 \notin LeftOpen')
    BY <1>1, <2>1, <2>2, Leaves
  <2>4. \A i \in LeftOpen : Held(i) => Held(i)' \/ i = 1
    BY <1>1, <1>7, <2>3
      DEF CloseRoot, ApiGoto, ControlType, SpanType, Once, Places, Calls, AtWork,
          Finals, Held, InKept
  <2>7. pc' = "open" /\ task' = "retry" => wspan' # 0 /\ spans'[wspan'].in = "fallback"
    <3>1. wspan \in 0..Len(spans) /\ UNCHANGED <<pc, task, wspan>>
      BY <1>1, <1>7 DEF CloseRoot, SpanType
    <3>2. wspan # 0 => wspan \in 1..Len(spans) BY <1>1, <3>1 DEF SpanType
    <3> QED BY <1>1, <2>3, <3>1, <3>2 DEF InKept, Leaks
  <2>5. CASE ok
    <3>1. Leaked' \subseteq Leaked BY <2>3, <2>4, <2>5 DEF Leaked
    <3> QED BY <1>0, <1>1, <2>7, <3>1, LeaksKept DEF Leaks
  <2>6. CASE ~ok
    <3>1. Leaked' \subseteq Leaked \cup {1} BY <2>3, <2>4 DEF Leaked
    <3>2. faults' = faults + 1 BY <2>2, <2>6 DEF Works
    <3> QED BY <1>0, <1>1, <2>7, <3>1, <3>2, LeaksOne DEF Leaks
  <2> QED BY <2>5, <2>6
<1>8. CASE ApiDies
  <2>1. Leaked' \subseteq Leaked \cup {1} /\ crashes' = crashes + 1
    BY <1>1, <1>8
      DEF ApiDies, ControlType, Once, Places, Calls, AtWork, Finals, Leaked, LeftOpen,
          Held
  <2>2. UNCHANGED <<pc, task, wspan, spans>> BY <1>8 DEF ApiDies
  <2> QED BY <1>0, <1>1, <2>1, <2>2, LeaksOne DEF Leaks
<1>9. CASE ReadSession
  <2>1. Leaked' \subseteq Leaked
    BY <1>1, <1>9
      DEF ReadSession, HasUser, Within, FirstStep, Ends, NewNode, NewStatus,
          ControlType, Once, Places, Calls, AtWork, Finals, Leaked, LeftOpen, Held
  <2>2. pc' = "open" /\ task' = "retry" => pc = "open" /\ task = "retry" /\ wspan' = wspan
    BY <1>1, <1>9
      DEF ReadSession, HasUser, Within, FirstStep, Ends, NewNode, NewStatus,
          ControlType, Once, Places, Calls, AtWork, Finals, Leaked, LeftOpen, Held
  <2>3. spans' = spans BY <1>9 DEF ReadSession, HasUser, Within, FirstStep, Ends, NewNode, NewStatus, ControlType, Once, Places, Calls, AtWork, Finals, Leaked, LeftOpen, Held
  <2> QED BY <1>0, <1>1, <2>1, <2>2, <2>3, LeaksKept DEF Leaks
<1>10. CASE ReadSessionRaises
  <2>1. spans' = spans /\ ~(pc' = "open" /\ task' = "retry")
    BY <1>1, <1>10 DEF ReadSessionRaises, Return, ControlType, Once, Calls
  <2>2. CASE HasUser
    <3>1. CASE pc = "open"
      <4>1. Leaked' \subseteq Leaked \cup {wspan}
        BY <1>1, <1>10, <3>1
          DEF ReadSessionRaises, Return, ControlType, Once, Places, Calls, AtWork,
              Finals, Leaked, LeftOpen, Held
      <4>2. faults' = faults + 1 BY <1>10, <2>2 DEF ReadSessionRaises, Works
      <4> QED BY <1>0, <1>1, <2>1, <4>1, <4>2, LeaksOne DEF Leaks
    <3>2. CASE pc # "open"
      <4>1. Leaked' \subseteq Leaked \cup {key}
        BY <1>1, <1>10, <3>2
          DEF ReadSessionRaises, Return, ControlType, Once, Places, Calls, AtWork,
              Finals, Leaked, LeftOpen, Held
      <4>2. faults' = faults + 1 BY <1>10, <2>2 DEF ReadSessionRaises, Works
      <4> QED BY <1>0, <1>1, <2>1, <4>1, <4>2, LeaksOne DEF Leaks
    <3> QED BY <3>1, <3>2
  <2>3. CASE ~HasUser
    <3>1. pc = "open" /\ task = "retry"
      BY <1>1, <1>10, <2>3 DEF ReadSessionRaises, HasUser, ControlType, Once, Calls
    <3>2. spans[wspan].in = "fallback" BY <1>1, <3>1 DEF Leaks
    <3>3. wspan \notin LeftOpen BY <3>2 DEF LeftOpen
    <3>4. Leaked' \subseteq Leaked
      BY <1>1, <1>10, <3>1, <3>3
        DEF ReadSessionRaises, Return, ControlType, Once, Places, Calls, AtWork,
            Finals, Leaked, LeftOpen, Held
    <3> QED BY <1>0, <1>1, <2>1, <3>4, LeaksKept DEF Leaks
  <2> QED BY <2>2, <2>3
<1>11. CASE FindSpan
  <2>1. Leaked' \subseteq Leaked
    BY <1>1, <1>11
      DEF FindSpan, Within, ControlType, Once, Places, Calls, AtWork, Finals, Leaked,
          LeftOpen, Held
  <2>2. pc' = "open" /\ task' = "retry" => pc = "open" /\ task = "retry" /\ wspan' = wspan
    BY <1>1, <1>11
      DEF FindSpan, Within, ControlType, Once, Places, Calls, AtWork, Finals, Leaked,
          LeftOpen, Held
  <2>3. spans' = spans BY <1>11 DEF FindSpan, Within, ControlType, Once, Places, Calls, AtWork, Finals, Leaked, LeftOpen, Held
  <2> QED BY <1>0, <1>1, <2>1, <2>2, <2>3, LeaksKept DEF Leaks
<1>12. CASE FindNoSpan
  <2>1. spans' = spans /\ ~(pc' = "open" /\ task' = "retry")
    BY <1>1, <1>12 DEF FindNoSpan, Return, Within, ControlType, Once, Calls
  <2>2. Leaked' \subseteq Leaked \cup {key}
    BY <1>1, <1>12
      DEF FindNoSpan, Return, Within, Ends, NewNode, NewStatus, ControlType, Once, Places, Calls, AtWork, Finals, Leaked, LeftOpen, Held
  <2>3. CASE key = 0
    <3>1. key \notin LeftOpen' BY <1>1, <2>1, <2>3 DEF LeftOpen, SpanType
    <3>2. Leaked' \subseteq Leaked BY <2>2, <3>1 DEF Leaked
    <3> QED BY <1>0, <1>1, <2>1, <3>2, LeaksKept DEF Leaks
  <2>4. CASE key # 0
    <3>1. faults' = faults + 1 BY <1>12, <2>4 DEF FindNoSpan, Works
    <3> QED BY <1>0, <1>1, <2>1, <2>2, <3>1, LeaksOne DEF Leaks
  <2> QED BY <2>3, <2>4
<1>13. CASE CloseAgentSpan
  <2> DEFINE status == Ending
  <2>1. key \in Nat /\ status \in Endings
    BY <1>1 DEF SpanType, Endings, Ending, FinalStatus
  <2>2. PICK ok \in BOOLEAN : Works(ok) /\ CloseSpan(key, status, ok)
    BY <1>13 DEF CloseAgentSpan
  <2> HIDE DEF status
  <2>3. InKept /\ LeftOpen' \subseteq LeftOpen /\ (ok => key \notin LeftOpen')
    BY <1>1, <2>1, <2>2, Leaves
  <2>4. \A i \in LeftOpen : Held(i) => Held(i)' \/ i = key
    BY <1>1, <1>13, <2>3
      DEF CloseAgentSpan, Within, ControlType, SpanType, Once, Places, Calls, AtWork,
          Finals, Held, InKept
  <2>7. ~(pc' = "open" /\ task' = "retry")
    BY <1>1, <1>13
      DEF CloseAgentSpan, Within, ControlType, SpanType, Once, Places, Calls, AtWork,
          Finals, Held
  <2>5. CASE ok
    <3>1. Leaked' \subseteq Leaked BY <2>3, <2>4, <2>5 DEF Leaked
    <3> QED BY <1>0, <1>1, <2>7, <3>1, LeaksKept DEF Leaks
  <2>6. CASE ~ok
    <3>1. Leaked' \subseteq Leaked \cup {key} BY <2>3, <2>4 DEF Leaked
    <3>2. faults' = faults + 1 BY <2>2, <2>6 DEF Works
    <3> QED BY <1>0, <1>1, <2>7, <3>1, <3>2, LeaksOne DEF Leaks
  <2> QED BY <2>5, <2>6
<1>14. CASE ForgetSpan
  <2>1. Leaked' \subseteq Leaked
    BY <1>1, <1>14
      DEF ForgetSpan, Within, ControlType, Once, Places, Calls, AtWork, Finals,
          Leaked, LeftOpen, Held
  <2>2. pc' = "open" /\ task' = "retry" => pc = "open" /\ task = "retry" /\ wspan' = wspan
    BY <1>1, <1>14
      DEF ForgetSpan, Within, ControlType, Once, Places, Calls, AtWork, Finals,
          Leaked, LeftOpen, Held
  <2>3. spans' = spans BY <1>14 DEF ForgetSpan, Within, ControlType, Once, Places, Calls, AtWork, Finals, Leaked, LeftOpen, Held
  <2> QED BY <1>0, <1>1, <2>1, <2>2, <2>3, LeaksKept DEF Leaks
<1>15. CASE LogCompleted
  <2>1. Leaked' \subseteq Leaked
    BY <1>1, <1>15
      DEF LogCompleted, Within, ControlType, Once, Places, Calls, AtWork, Finals,
          Leaked, LeftOpen, Held
  <2>2. pc' = "open" /\ task' = "retry" => pc = "open" /\ task = "retry" /\ wspan' = wspan
    BY <1>1, <1>15
      DEF LogCompleted, Within, ControlType, Once, Places, Calls, AtWork, Finals,
          Leaked, LeftOpen, Held
  <2>3. spans' = spans BY <1>15 DEF LogCompleted, Within, ControlType, Once, Places, Calls, AtWork, Finals, Leaked, LeftOpen, Held
  <2> QED BY <1>0, <1>1, <2>1, <2>2, <2>3, LeaksKept DEF Leaks
<1>16. CASE CreateAgentSpan
  <2>1. OpenedAs("agent") BY <1>1, <1>16, Opens
  <2>2. Len(spans') = Len(spans) + 1 /\ LeftOpen' \subseteq LeftOpen \cup {Len(spans) + 1}
    BY <1>1, <2>1, OpensOne
  <2>3. PICK n \in Nat : n = Len(spans) + 1
    BY <1>1 DEF SpanType
  <2>6. Held(n)' /\ \A i \in LeftOpen : Held(i) => Held(i)'
    BY <1>1, <1>16, <2>2, <2>3
      DEF CreateAgentSpan, Within, ControlType, SpanType, Once, Places, Calls, AtWork,
          Finals, Held, LeftOpen
  <2>4. Leaked' \subseteq Leaked BY <2>2, <2>3, <2>6 DEF Leaked
  <2>5. ~(pc' = "open" /\ task' = "retry")
    BY <1>1, <1>16
      DEF CreateAgentSpan, Within, ControlType, SpanType, Once, Places, Calls, AtWork,
          Finals, Held
  <2> QED BY <1>0, <1>1, <2>4, <2>5, LeaksKept DEF Leaks
<1>17. CASE SaveSpan
  <2>1. spans' = spans /\ ~(pc' = "open" /\ task' = "retry")
    BY <1>1, <1>17 DEF SaveSpan, Within, Once
  <2>2. PICK ok \in BOOLEAN : Works(ok) /\ key' = IF ok THEN mine ELSE key
    BY <1>17 DEF SaveSpan
  <2>3. CASE ok
    <3>1. Leaked' \subseteq Leaked
      BY <1>1, <1>17, <2>2, <2>3
        DEF SaveSpan, Within, ControlType, Once, Places, Calls, AtWork, Finals,
            Leaked, LeftOpen, Held
    <3> QED BY <1>0, <1>1, <2>1, <3>1, LeaksKept DEF Leaks
  <2>4. CASE ~ok
    <3>1. Leaked' \subseteq Leaked \cup {mine}
      BY <1>1, <1>17, <2>2, <2>4
        DEF SaveSpan, Within, ControlType, Once, Places, Calls, AtWork, Finals,
            Leaked, LeftOpen, Held
    <3>2. faults' = faults + 1 BY <2>2, <2>4 DEF Works
    <3> QED BY <1>0, <1>1, <2>1, <3>1, <3>2, LeaksOne DEF Leaks
  <2> QED BY <2>3, <2>4
<1>18. CASE LogAgentStarted
  <2>1. Leaked' \subseteq Leaked
    BY <1>1, <1>18
      DEF LogAgentStarted, Within, ControlType, Once, Places, Calls, AtWork, Finals,
          Leaked, LeftOpen, Held
  <2>2. pc' = "open" /\ task' = "retry" => pc = "open" /\ task = "retry" /\ wspan' = wspan
    BY <1>1, <1>18
      DEF LogAgentStarted, Within, ControlType, Once, Places, Calls, AtWork, Finals,
          Leaked, LeftOpen, Held
  <2>3. spans' = spans BY <1>18 DEF LogAgentStarted, Within, ControlType, Once, Places, Calls, AtWork, Finals, Leaked, LeftOpen, Held
  <2> QED BY <1>0, <1>1, <2>1, <2>2, <2>3, LeaksKept DEF Leaks
<1>19. CASE WriteRow
  <2>1. Leaked' \subseteq Leaked
    BY <1>1, <1>19
      DEF WriteRow, Within, NewNode, Stages, Planning, ControlType, Once, Places,
          Calls, AtWork, Finals, Leaked, LeftOpen, Held
  <2>2. pc' = "open" /\ task' = "retry" => pc = "open" /\ task = "retry" /\ wspan' = wspan
    BY <1>1, <1>19
      DEF WriteRow, Within, NewNode, Stages, Planning, ControlType, Once, Places,
          Calls, AtWork, Finals, Leaked, LeftOpen, Held
  <2>3. spans' = spans BY <1>19 DEF WriteRow, Within, NewNode, Stages, Planning, ControlType, Once, Places, Calls, AtWork, Finals, Leaked, LeftOpen, Held
  <2> QED BY <1>0, <1>1, <2>1, <2>2, <2>3, LeaksKept DEF Leaks
<1>20. CASE WriteRaises
  <2>1. spans' = spans /\ ~(pc' = "open" /\ task' = "retry") /\ faults' = faults + 1
    BY <1>1, <1>20 DEF WriteRaises, Return, Works, ControlType, Once, Calls
  <2>2. CASE pc = "open"
    <3>1. Leaked' \subseteq Leaked \cup {wspan}
      BY <1>1, <1>20, <2>2
        DEF WriteRaises, Return, ControlType, Once, Places, Calls, AtWork, Finals,
            Leaked, LeftOpen, Held
    <3> QED BY <1>0, <1>1, <2>1, <3>1, LeaksOne DEF Leaks
  <2>3. CASE pc # "open"
    <3>1. Leaked' \subseteq Leaked \cup {key}
      BY <1>1, <1>20, <2>3
        DEF WriteRaises, Return, ControlType, Once, Places, Calls, AtWork, Finals,
            Leaked, LeftOpen, Held
    <3> QED BY <1>0, <1>1, <2>1, <3>1, LeaksOne DEF Leaks
  <2> QED BY <2>2, <2>3
<1>21. CASE LogAudit
  <2>1. spans' = spans /\ ~(pc' = "open" /\ task' = "retry")
    BY <1>1, <1>21 DEF LogAudit, Return, ControlType, Once, Calls
  <2>2. Leaked' \subseteq Leaked
    BY <1>1, <1>21
      DEF LogAudit, Return, ControlType, Once, Places, Calls, AtWork, Finals, Leaked,
          LeftOpen, Held
  <2> QED BY <1>0, <1>1, <2>1, <2>2, LeaksKept DEF Leaks
<1>22. CASE TakeJob
  <2>1. Leaked' \subseteq Leaked
    BY <1>1, <1>22
      DEF TakeJob, Goto, ControlType, Once, Places, Calls, AtWork, Finals, Leaked,
          LeftOpen, Held
  <2>2. pc' = "open" /\ task' = "retry" => pc = "open" /\ task = "retry" /\ wspan' = wspan
    BY <1>1, <1>22
      DEF TakeJob, Goto, ControlType, Once, Places, Calls, AtWork, Finals, Leaked,
          LeftOpen, Held
  <2>3. spans' = spans BY <1>22 DEF TakeJob, Goto, ControlType, Once, Places, Calls, AtWork, Finals, Leaked, LeftOpen, Held
  <2> QED BY <1>0, <1>1, <2>1, <2>2, <2>3, LeaksKept DEF Leaks
<1>23. CASE LogStarted
  <2>1. Leaked' \subseteq Leaked
    BY <1>1, <1>23
      DEF LogStarted, Goto, ControlType, Once, Places, Calls, AtWork, Finals, Leaked,
          LeftOpen, Held
  <2>2. pc' = "open" /\ task' = "retry" => pc = "open" /\ task = "retry" /\ wspan' = wspan
    BY <1>1, <1>23
      DEF LogStarted, Goto, ControlType, Once, Places, Calls, AtWork, Finals, Leaked,
          LeftOpen, Held
  <2>3. spans' = spans BY <1>23 DEF LogStarted, Goto, ControlType, Once, Places, Calls, AtWork, Finals, Leaked, LeftOpen, Held
  <2> QED BY <1>0, <1>1, <2>1, <2>2, <2>3, LeaksKept DEF Leaks
<1>24. CASE OpenWorkerSpan
  <2>1. OpenedAs("worker") BY <1>1, <1>24, Opens
  <2>2. Len(spans') = Len(spans) + 1 /\ LeftOpen' \subseteq LeftOpen \cup {Len(spans) + 1}
    BY <1>1, <2>1, OpensOne
  <2>3. PICK n \in Nat : n = Len(spans) + 1
    BY <1>1 DEF SpanType
  <2>6. Held(n)' /\ \A i \in LeftOpen : Held(i) => Held(i)'
    BY <1>1, <1>24, <2>2, <2>3
      DEF OpenWorkerSpan, Call, ControlType, SpanType, Once, Places, Calls, AtWork,
          Finals, Held, LeftOpen
  <2>4. Leaked' \subseteq Leaked BY <2>2, <2>3, <2>6 DEF Leaked
  <2>5. task' = "retry" => wspan' # 0 /\ spans'[wspan'].in = "fallback"
    <3>1. PICK ok \in BOOLEAN : OpenSpan("worker", 0, IF HasUser THEN "run" ELSE "fallback", ok)
      BY <1>24 DEF OpenWorkerSpan
    <3>2. wspan' = Len(spans) + 1 /\ task' = task BY <1>24 DEF OpenWorkerSpan
    <3>3. spans'[Len(spans) + 1].in = IF HasUser THEN "run" ELSE "fallback"
      BY <1>1, <3>1 DEF OpenSpan, SpanType
    <3> QED BY <1>1, <3>2, <3>3 DEF HasUser, SpanType
  <2> QED BY <1>0, <1>1, <2>4, <2>5, LeaksKept DEF Leaks
<1>25. CASE PlanningUnresolved
  <2>1. Leaked' \subseteq Leaked
    BY <1>1, <1>25
      DEF PlanningUnresolved, Goto, ControlType, Once, Places, Calls, AtWork, Finals,
          Leaked, LeftOpen, Held
  <2>2. pc' = "open" /\ task' = "retry" => pc = "open" /\ task = "retry" /\ wspan' = wspan
    BY <1>1, <1>25
      DEF PlanningUnresolved, Goto, ControlType, Once, Places, Calls, AtWork, Finals,
          Leaked, LeftOpen, Held
  <2>3. spans' = spans BY <1>25 DEF PlanningUnresolved, Goto, ControlType, Once, Places, Calls, AtWork, Finals, Leaked, LeftOpen, Held
  <2> QED BY <1>0, <1>1, <2>1, <2>2, <2>3, LeaksKept DEF Leaks
<1>26. CASE StartPlanning
  <2>1. Leaked' \subseteq Leaked
    BY <1>1, <1>26
      DEF StartPlanning, Call, ControlType, Once, Places, Calls, AtWork, Finals,
          Leaked, LeftOpen, Held
  <2>2. pc' = "open" /\ task' = "retry" => pc = "open" /\ task = "retry" /\ wspan' = wspan
    BY <1>1, <1>26
      DEF StartPlanning, Call, ControlType, Once, Places, Calls, AtWork, Finals,
          Leaked, LeftOpen, Held
  <2>3. spans' = spans BY <1>26 DEF StartPlanning, Call, ControlType, Once, Places, Calls, AtWork, Finals, Leaked, LeftOpen, Held
  <2> QED BY <1>0, <1>1, <2>1, <2>2, <2>3, LeaksKept DEF Leaks
<1>27. CASE OpenSandbox
  <2>1. OpenedAs("sandbox") BY <1>1, <1>27, Opens
  <2>2. Len(spans') = Len(spans) + 1 /\ LeftOpen' \subseteq LeftOpen \cup {Len(spans) + 1}
    BY <1>1, <2>1, OpensOne
  <2>3. PICK n \in Nat : n = Len(spans) + 1
    BY <1>1 DEF SpanType
  <2>6. Held(n)' /\ \A i \in LeftOpen : Held(i) => Held(i)'
    BY <1>1, <1>27, <2>2, <2>3
      DEF OpenSandbox, Goto, ControlType, SpanType, Once, Places, Calls, AtWork,
          Finals, Held, LeftOpen
  <2>4. Leaked' \subseteq Leaked BY <2>2, <2>3, <2>6 DEF Leaked
  <2>5. ~(pc' = "open" /\ task' = "retry")
    BY <1>1, <1>27
      DEF OpenSandbox, Goto, ControlType, SpanType, Once, Places, Calls, AtWork,
          Finals, Held
  <2> QED BY <1>0, <1>1, <2>4, <2>5, LeaksKept DEF Leaks
<1>28. CASE LogSandbox
  <2>1. Leaked' \subseteq Leaked
    BY <1>1, <1>28
      DEF LogSandbox, Goto, ControlType, Once, Places, Calls, AtWork, Finals, Leaked,
          LeftOpen, Held
  <2>2. pc' = "open" /\ task' = "retry" => pc = "open" /\ task = "retry" /\ wspan' = wspan
    BY <1>1, <1>28
      DEF LogSandbox, Goto, ControlType, Once, Places, Calls, AtWork, Finals, Leaked,
          LeftOpen, Held
  <2>3. spans' = spans BY <1>28 DEF LogSandbox, Goto, ControlType, Once, Places, Calls, AtWork, Finals, Leaked, LeftOpen, Held
  <2> QED BY <1>0, <1>1, <2>1, <2>2, <2>3, LeaksKept DEF Leaks
<1>29. CASE SandboxRaises
  <2>1. Leaked' \subseteq Leaked
    BY <1>1, <1>29
      DEF SandboxRaises, Goto, ControlType, Once, Places, Calls, AtWork, Finals,
          Leaked, LeftOpen, Held
  <2>2. pc' = "open" /\ task' = "retry" => pc = "open" /\ task = "retry" /\ wspan' = wspan
    BY <1>1, <1>29
      DEF SandboxRaises, Goto, ControlType, Once, Places, Calls, AtWork, Finals,
          Leaked, LeftOpen, Held
  <2>3. spans' = spans BY <1>29 DEF SandboxRaises, Goto, ControlType, Once, Places, Calls, AtWork, Finals, Leaked, LeftOpen, Held
  <2> QED BY <1>0, <1>1, <2>1, <2>2, <2>3, LeaksKept DEF Leaks
<1>30. CASE CloseSandbox
  <2> DEFINE status == IF pc = "boxed" THEN "success" ELSE "failed"
  <2>1. Len(spans) \in Nat /\ status \in Endings
    BY <1>1 DEF SpanType, Endings, Ending, FinalStatus
  <2>2. PICK ok \in BOOLEAN : Works(ok) /\ CloseSpan(Len(spans), status, ok)
    BY <1>30 DEF CloseSandbox
  <2> HIDE DEF status
  <2>3. InKept /\ LeftOpen' \subseteq LeftOpen /\ (ok => Len(spans) \notin LeftOpen')
    BY <1>1, <2>1, <2>2, Leaves
  <2>4. \A i \in LeftOpen : Held(i) => Held(i)' \/ i = Len(spans)
    BY <1>1, <1>30, <2>3
      DEF CloseSandbox, Goto, ControlType, SpanType, Once, Places, Calls, AtWork,
          Finals, Held, InKept
  <2>7. ~(pc' = "open" /\ task' = "retry")
    BY <1>1, <1>30
      DEF CloseSandbox, Goto, ControlType, SpanType, Once, Places, Calls, AtWork,
          Finals, Held
  <2>5. CASE ok
    <3>1. Leaked' \subseteq Leaked BY <2>3, <2>4, <2>5 DEF Leaked
    <3> QED BY <1>0, <1>1, <2>7, <3>1, LeaksKept DEF Leaks
  <2>6. CASE ~ok
    <3>1. Leaked' \subseteq Leaked \cup {Len(spans)} BY <2>3, <2>4 DEF Leaked
    <3>2. faults' = faults + 1 BY <2>2, <2>6 DEF Works
    <3> QED BY <1>0, <1>1, <2>7, <3>1, <3>2, LeaksOne DEF Leaks
  <2> QED BY <2>5, <2>6
<1>31. CASE StageCompletes
  <2>1. Len(spans') = Len(spans) /\ LeftOpen' = LeftOpen
    BY <1>1, <1>31, StaysOpen DEF StageCompletes
  <2>2. \A i \in LeftOpen : Held(i) => Held(i)'
    BY <1>1, <1>31, <2>1
      DEF StageCompletes, ControlType, SpanType, Once, Places, Calls, AtWork, Finals,
          Held
  <2>3. Leaked' \subseteq Leaked BY <2>1, <2>2 DEF Leaked
  <2>4. ~(pc' = "open" /\ task' = "retry")
    BY <1>1, <1>31
      DEF StageCompletes, ControlType, SpanType, Once, Places, Calls, AtWork, Finals,
          Held
  <2> QED BY <1>0, <1>1, <2>3, <2>4, LeaksKept DEF Leaks
<1>32. CASE StageRaises
  <2>1. Len(spans') = Len(spans) /\ LeftOpen' = LeftOpen
    BY <1>1, <1>32, StaysOpen DEF StageRaises
  <2>2. \A i \in LeftOpen : Held(i) => Held(i)'
    BY <1>1, <1>32, <2>1
      DEF StageRaises, Call, ControlType, SpanType, Once, Places, Calls, AtWork,
          Finals, Held
  <2>3. Leaked' \subseteq Leaked BY <2>1, <2>2 DEF Leaked
  <2>4. ~(pc' = "open" /\ task' = "retry")
    BY <1>1, <1>32
      DEF StageRaises, Call, ControlType, SpanType, Once, Places, Calls, AtWork,
          Finals, Held
  <2> QED BY <1>0, <1>1, <2>3, <2>4, LeaksKept DEF Leaks
<1>33. CASE Reroute
  <2>1. Leaked' \subseteq Leaked
    BY <1>1, <1>33
      DEF Reroute, Call, ControlType, Once, Places, Calls, AtWork, Finals, Leaked,
          LeftOpen, Held
  <2>2. pc' = "open" /\ task' = "retry" => pc = "open" /\ task = "retry" /\ wspan' = wspan
    BY <1>1, <1>33
      DEF Reroute, Call, ControlType, Once, Places, Calls, AtWork, Finals, Leaked,
          LeftOpen, Held
  <2>3. spans' = spans BY <1>33 DEF Reroute, Call, ControlType, Once, Places, Calls, AtWork, Finals, Leaked, LeftOpen, Held
  <2> QED BY <1>0, <1>1, <2>1, <2>2, <2>3, LeaksKept DEF Leaks
<1>34. CASE Proceed
  <2>1. Leaked' \subseteq Leaked
    BY <1>1, <1>34
      DEF Proceed, Call, ControlType, Once, Places, Calls, AtWork, Finals, Leaked,
          LeftOpen, Held
  <2>2. pc' = "open" /\ task' = "retry" => pc = "open" /\ task = "retry" /\ wspan' = wspan
    BY <1>1, <1>34
      DEF Proceed, Call, ControlType, Once, Places, Calls, AtWork, Finals, Leaked,
          LeftOpen, Held
  <2>3. spans' = spans BY <1>34 DEF Proceed, Call, ControlType, Once, Places, Calls, AtWork, Finals, Leaked, LeftOpen, Held
  <2> QED BY <1>0, <1>1, <2>1, <2>2, <2>3, LeaksKept DEF Leaks
<1>35. CASE ReadRaises
  <2>1. Leaked' \subseteq Leaked
    BY <1>1, <1>35
      DEF ReadRaises, Goto, ControlType, Once, Places, Calls, AtWork, Finals, Leaked,
          LeftOpen, Held
  <2>2. pc' = "open" /\ task' = "retry" => pc = "open" /\ task = "retry" /\ wspan' = wspan
    BY <1>1, <1>35
      DEF ReadRaises, Goto, ControlType, Once, Places, Calls, AtWork, Finals, Leaked,
          LeftOpen, Held
  <2>3. spans' = spans BY <1>35 DEF ReadRaises, Goto, ControlType, Once, Places, Calls, AtWork, Finals, Leaked, LeftOpen, Held
  <2> QED BY <1>0, <1>1, <2>1, <2>2, <2>3, LeaksKept DEF Leaks
<1>36. CASE Succeeds
  <2>1. Leaked' \subseteq Leaked
    BY <1>1, <1>36
      DEF Succeeds, Goto, ControlType, Once, Places, Calls, AtWork, Finals, Leaked,
          LeftOpen, Held
  <2>2. pc' = "open" /\ task' = "retry" => pc = "open" /\ task = "retry" /\ wspan' = wspan
    BY <1>1, <1>36
      DEF Succeeds, Goto, ControlType, Once, Places, Calls, AtWork, Finals, Leaked,
          LeftOpen, Held
  <2>3. spans' = spans BY <1>36 DEF Succeeds, Goto, ControlType, Once, Places, Calls, AtWork, Finals, Leaked, LeftOpen, Held
  <2> QED BY <1>0, <1>1, <2>1, <2>2, <2>3, LeaksKept DEF Leaks
<1>37. CASE NotCompleted
  <2>1. Leaked' \subseteq Leaked
    BY <1>1, <1>37
      DEF NotCompleted, Goto, ControlType, Once, Places, Calls, AtWork, Finals,
          Leaked, LeftOpen, Held
  <2>2. pc' = "open" /\ task' = "retry" => pc = "open" /\ task = "retry" /\ wspan' = wspan
    BY <1>1, <1>37
      DEF NotCompleted, Goto, ControlType, Once, Places, Calls, AtWork, Finals,
          Leaked, LeftOpen, Held
  <2>3. spans' = spans BY <1>37 DEF NotCompleted, Goto, ControlType, Once, Places, Calls, AtWork, Finals, Leaked, LeftOpen, Held
  <2> QED BY <1>0, <1>1, <2>1, <2>2, <2>3, LeaksKept DEF Leaks
<1>38. CASE HandleFailure
  <2>1. Leaked' \subseteq Leaked
    BY <1>1, <1>38
      DEF HandleFailure, Call, ControlType, Once, Places, Calls, AtWork, Finals,
          Leaked, LeftOpen, Held
  <2>2. pc' = "open" /\ task' = "retry" => pc = "open" /\ task = "retry" /\ wspan' = wspan
    BY <1>1, <1>38
      DEF HandleFailure, Call, ControlType, Once, Places, Calls, AtWork, Finals,
          Leaked, LeftOpen, Held
  <2>3. spans' = spans BY <1>38 DEF HandleFailure, Call, ControlType, Once, Places, Calls, AtWork, Finals, Leaked, LeftOpen, Held
  <2> QED BY <1>0, <1>1, <2>1, <2>2, <2>3, LeaksKept DEF Leaks
<1>39. CASE HandleRaises
  <2>1. Leaked' \subseteq Leaked
    BY <1>1, <1>39
      DEF HandleRaises, Goto, ControlType, Once, Places, Calls, AtWork, Finals,
          Leaked, LeftOpen, Held
  <2>2. pc' = "open" /\ task' = "retry" => pc = "open" /\ task = "retry" /\ wspan' = wspan
    BY <1>1, <1>39
      DEF HandleRaises, Goto, ControlType, Once, Places, Calls, AtWork, Finals,
          Leaked, LeftOpen, Held
  <2>3. spans' = spans BY <1>39 DEF HandleRaises, Goto, ControlType, Once, Places, Calls, AtWork, Finals, Leaked, LeftOpen, Held
  <2> QED BY <1>0, <1>1, <2>1, <2>2, <2>3, LeaksKept DEF Leaks
<1>40. CASE ReadFinal
  <2>1. Leaked' \subseteq Leaked
    BY <1>1, <1>40
      DEF ReadFinal, Goto, ControlType, Once, Places, Calls, AtWork, Finals, Leaked,
          LeftOpen, Held
  <2>2. pc' = "open" /\ task' = "retry" => pc = "open" /\ task = "retry" /\ wspan' = wspan
    BY <1>1, <1>40
      DEF ReadFinal, Goto, ControlType, Once, Places, Calls, AtWork, Finals, Leaked,
          LeftOpen, Held
  <2>3. spans' = spans BY <1>40 DEF ReadFinal, Goto, ControlType, Once, Places, Calls, AtWork, Finals, Leaked, LeftOpen, Held
  <2> QED BY <1>0, <1>1, <2>1, <2>2, <2>3, LeaksKept DEF Leaks
<1>41. CASE ReadFinalRaises
  <2>1. spans' = spans /\ pc' = "poll" /\ faults' = faults + 1
    BY <1>41 DEF ReadFinalRaises, Done, Works
  <2>2. Leaked' \subseteq Leaked \cup {wspan}
    BY <1>1, <1>41
      DEF ReadFinalRaises, Done, ControlType, Once, Places, Calls, AtWork, Finals,
          Leaked, LeftOpen, Held
  <2> QED BY <1>0, <1>1, <2>1, <2>2, LeaksOne DEF Leaks
<1>42. CASE LogFinal
  <2>1. Leaked' \subseteq Leaked
    BY <1>1, <1>42
      DEF LogFinal, Goto, ControlType, Once, Places, Calls, AtWork, Finals, Leaked,
          LeftOpen, Held
  <2>2. pc' = "open" /\ task' = "retry" => pc = "open" /\ task = "retry" /\ wspan' = wspan
    BY <1>1, <1>42
      DEF LogFinal, Goto, ControlType, Once, Places, Calls, AtWork, Finals, Leaked,
          LeftOpen, Held
  <2>3. spans' = spans BY <1>42 DEF LogFinal, Goto, ControlType, Once, Places, Calls, AtWork, Finals, Leaked, LeftOpen, Held
  <2> QED BY <1>0, <1>1, <2>1, <2>2, <2>3, LeaksKept DEF Leaks
<1>43. CASE CloseWorkerSpan
  <2> DEFINE status == FinalStatus
  <2>1. wspan \in Nat /\ status \in Endings
    BY <1>1 DEF SpanType, Endings, Ending, FinalStatus
  <2>2. PICK ok \in BOOLEAN : Works(ok) /\ CloseSpan(wspan, status, ok)
    BY <1>43 DEF CloseWorkerSpan
  <2> HIDE DEF status
  <2>3. InKept /\ LeftOpen' \subseteq LeftOpen /\ (ok => wspan \notin LeftOpen')
    BY <1>1, <2>1, <2>2, Leaves
  <2>4. \A i \in LeftOpen : Held(i) => Held(i)' \/ i = wspan
    BY <1>1, <1>43, <2>3
      DEF CloseWorkerSpan, Goto, ControlType, SpanType, Once, Places, Calls, AtWork,
          Finals, Held, InKept
  <2>7. ~(pc' = "open" /\ task' = "retry")
    BY <1>1, <1>43
      DEF CloseWorkerSpan, Goto, ControlType, SpanType, Once, Places, Calls, AtWork,
          Finals, Held
  <2>5. CASE ok
    <3>1. Leaked' \subseteq Leaked BY <2>3, <2>4, <2>5 DEF Leaked
    <3> QED BY <1>0, <1>1, <2>7, <3>1, LeaksKept DEF Leaks
  <2>6. CASE ~ok
    <3>1. Leaked' \subseteq Leaked \cup {wspan} BY <2>3, <2>4 DEF Leaked
    <3>2. faults' = faults + 1 BY <2>2, <2>6 DEF Works
    <3> QED BY <1>0, <1>1, <2>7, <3>1, <3>2, LeaksOne DEF Leaks
  <2> QED BY <2>5, <2>6
<1>44. CASE FinishTrace
  <2>1. Leaked' \subseteq Leaked
    BY <1>1, <1>44
      DEF FinishTrace, Done, ControlType, Once, Places, Calls, AtWork, Finals, Leaked,
          LeftOpen, Held
  <2>2. pc' = "open" /\ task' = "retry" => pc = "open" /\ task = "retry" /\ wspan' = wspan
    BY <1>1, <1>44
      DEF FinishTrace, Done, ControlType, Once, Places, Calls, AtWork, Finals, Leaked,
          LeftOpen, Held
  <2>3. spans' = spans BY <1>44 DEF FinishTrace, Done, ControlType, Once, Places, Calls, AtWork, Finals, Leaked, LeftOpen, Held
  <2> QED BY <1>0, <1>1, <2>1, <2>2, <2>3, LeaksKept DEF Leaks
<1>45. CASE WorkerDies
  <2>1. spans' = spans /\ pc' = "poll" /\ crashes' = crashes + 1
    BY <1>45 DEF WorkerDies, Done
  <2> DEFINE agent == IF pc = "enter" /\ step = "save" THEN mine ELSE key
  <2>2. Leaked' \subseteq ((Leaked \cup {wspan}) \cup {agent}) \cup {Len(spans)}
    BY <1>1, <1>45
      DEF WorkerDies, Done, ControlType, Once, Places, Calls, AtWork, Finals, Leaked,
          LeftOpen, Held
  <2> HIDE DEF agent
  <2> QED BY <1>0, <1>1, <2>1, <2>2, LeaksThree DEF Leaks
<1>46. CASE UNCHANGED vars
  <2>1. Leaked' = Leaked /\ UNCHANGED <<pc, task, wspan, spans>>
    BY <1>46 DEF Leaked, LeftOpen, Held
  <2> QED BY <1>0, <1>1, <2>1, LeaksKept DEF Leaks
<1> QED
    BY <1>1, <1>2, <1>3, <1>4, <1>5, <1>6, <1>7, <1>8, <1>9, <1>10, <1>11, <1>12,
     <1>13, <1>14, <1>15, <1>16, <1>17, <1>18, <1>19, <1>20, <1>21, <1>22, <1>23,
     <1>24, <1>25, <1>26, <1>27, <1>28, <1>29, <1>30, <1>31, <1>32, <1>33, <1>34,
     <1>35, <1>36, <1>37, <1>38, <1>39, <1>40, <1>41, <1>42, <1>43, <1>44, <1>45,
     <1>46
     DEF Next, ApiStep, WorkerStep, UpdateSession

LEMMA NextLeaks == (IInv /\ Leaks) /\ [Next]_vars => (IInv /\ Leaks)'
  BY NextIInv, LeaksStep DEF IInv

\* When all is over, a storage operation that failed has left at most one span
\* of the run open and a process that died at most three, whatever the database
\* enforces and however the request, the worker, its retry and the accidents
\* interleave.
THEOREM LeaksAreBounded == Spec => []LeaksBounded
<1>1. Init => Leaks
  <2> SUFFICES ASSUME Init PROVE Leaks
    OBVIOUS
  <2>1. Leaked = {} BY DEF Init, Leaked, LeftOpen
  <2>2. Cardinality(Leaked) = 0 BY <2>1, FS_EmptySet
  <2> QED BY <2>2 DEF Init, Leaks
<1>2. IInv /\ Leaks => LeaksBounded
  <2> SUFFICES ASSUME Leaks, Over PROVE Cardinality(LeftOpen) <= faults + 3 * crashes
    BY DEF LeaksBounded
  <2>1. \A i \in LeftOpen : ~Held(i) BY DEF Over, Held, AtWork
  <2>2. Leaked = LeftOpen BY <2>1 DEF Leaked
  <2> QED BY <2>2 DEF Leaks
<1> QED BY InitIInv, <1>1, NextLeaks, <1>2, PTL DEF Spec

-----------------------------------------------------------------------------
(* Two accounts in step: what happens to the ranks when either goes on.    *)

LEMMA RankBounds ==
  ASSUME NEW S \in SUBSET Nat, IsFiniteSet(S), NEW i \in S
  PROVE  Rank(S, i) \in 1..Cardinality(S)
<1> DEFINE T == {j \in S : j <= i}
<1>1. T \subseteq S /\ i \in T
  OBVIOUS
<1>2. IsFiniteSet(T) /\ Cardinality(T) <= Cardinality(S)
  BY <1>1, FS_Subset
<1>3. Cardinality(T) \in Nat /\ Cardinality(S) \in Nat
  BY <1>2, FS_CardinalityType
<1>4. Cardinality(T) # 0
  BY <1>1, <1>2, FS_EmptySet
<1>5. Rank(S, i) = Cardinality(T)
  BY DEF Rank
<1> HIDE DEF T
<1> QED BY <1>2, <1>3, <1>4, <1>5

LEMMA RankOfLast ==
  ASSUME NEW S \in SUBSET Nat, IsFiniteSet(S), NEW m \in S, \A k \in S : k <= m
  PROVE  /\ Rank(S, m) = Cardinality(S)
         /\ \A i \in S : Rank(S, i) = Cardinality(S) => i = m
<1>1. {j \in S : j <= m} = S
  OBVIOUS
<1>2. ASSUME NEW i \in S, i # m PROVE Rank(S, i) # Cardinality(S)
  <2> DEFINE T == {j \in S : j <= i}
             R == S \ {m}
  <2>1. T \subseteq R BY <1>2
  <2>2. IsFiniteSet(R) /\ Cardinality(R) = Cardinality(S) - 1
    BY FS_RemoveElement
  <2>3. IsFiniteSet(T) /\ Cardinality(T) <= Cardinality(R)
    BY <2>1, <2>2, FS_Subset
  <2>4. Cardinality(T) \in Nat /\ Cardinality(S) \in Nat
    BY <2>3, FS_CardinalityType
  <2>5. Rank(S, i) = Cardinality(T) BY DEF Rank
  <2> HIDE DEF T, R
  <2> QED BY <2>2, <2>3, <2>4, <2>5
<1> QED BY <1>1, <1>2 DEF Rank

LEMMA RankOfAdded ==
  ASSUME NEW S \in SUBSET Nat, IsFiniteSet(S), NEW n \in Nat, \A k \in S : k < n
  PROVE  /\ S \cup {n} \in SUBSET Nat /\ IsFiniteSet(S \cup {n})
         /\ Cardinality(S \cup {n}) = Cardinality(S) + 1
         /\ Rank(S \cup {n}, n) = Cardinality(S) + 1
         /\ \A i \in S : Rank(S \cup {n}, i) = Rank(S, i)
<1>1. n \notin S
  OBVIOUS
<1>2. IsFiniteSet(S \cup {n}) /\ Cardinality(S \cup {n}) = Cardinality(S) + 1
  BY <1>1, FS_AddElement
<1>3. {j \in S \cup {n} : j <= n} = S \cup {n}
  <2>1. \A j \in S \cup {n} : j \in Nat /\ j <= n
    OBVIOUS
  <2> QED BY <2>1, Zenon
<1>4. ASSUME NEW i \in S PROVE {j \in S \cup {n} : j <= i} = {j \in S : j <= i}
  <2>1. i \in Nat /\ ~(n <= i)
    OBVIOUS
  <2> QED BY <2>1
<1> QED BY <1>2, <1>3, <1>4 DEF Rank

\* h is g with one more entry, at n
Extends(h, g, n) ==
  /\ n \in Nat /\ \A j \in DOMAIN g : j < n
  /\ DOMAIN h = DOMAIN g \cup {n} /\ \A j \in DOMAIN g : h[j] = g[j]
Finite(f) == DOMAIN f \in SUBSET Nat /\ IsFiniteSet(DOMAIN f)
Size(f) == Cardinality(DOMAIN f)

\* the second account goes ahead of the first
LEMMA GoesAhead ==
  ASSUME NEW f, NEW g, NEW h, NEW n, Finite(f), Finite(g), Extends(h, g, n),
         Follows(f, g), Size(f) = Size(g)
  PROVE  Finite(h) /\ Follows(f, h) /\ Size(h) = Size(g) + 1
<1> USE DEF Finite, Size, Extends
<1>1. Finite(h) /\ Size(h) = Size(g) + 1 /\ Rank(DOMAIN h, n) = Size(g) + 1
      /\ \A j \in DOMAIN g : Rank(DOMAIN h, j) = Rank(DOMAIN g, j)
  BY RankOfAdded
<1>2. \A i \in DOMAIN f : Rank(DOMAIN f, i) # Rank(DOMAIN h, n)
  <2>1. \A i \in DOMAIN f : Rank(DOMAIN f, i) \in 1..Size(g) BY RankBounds
  <2>2. Size(g) \in Nat BY FS_CardinalityType
  <2> QED BY <1>1, <2>1, <2>2
<1> QED BY <1>1, <1>2 DEF Follows

\* and the first comes up with it, if it tells the same of the last entry
LEMMA ComesUp ==
  ASSUME NEW f, NEW g, NEW h, NEW n, NEW m \in DOMAIN g, Finite(f), Finite(g),
         Extends(h, f, n), Follows(f, g), Size(g) = Size(f) + 1,
         \A k \in DOMAIN g : k <= m, h[n] = g[m]
  PROVE  Follows(h, g) /\ Size(h) = Size(g)
<1> USE DEF Finite, Size, Extends
<1>1. Size(h) = Size(f) + 1 /\ Rank(DOMAIN h, n) = Size(f) + 1
      /\ \A j \in DOMAIN f : Rank(DOMAIN h, j) = Rank(DOMAIN f, j)
  BY RankOfAdded
<1>2. \A j \in DOMAIN g : Rank(DOMAIN g, j) = Size(g) => j = m
  BY RankOfLast
<1> QED BY <1>1, <1>2 DEF Follows

-----------------------------------------------------------------------------
(* The two accounts of a run.                                              *)
(*                                                                         *)
(* A database that enforces foreign keys refuses the trace, and then all   *)
(* that refers to it: both accounts are empty (Unkept).  Otherwise, while  *)
(* nothing fails, every span and event is stored.  The only agent whose    *)
(* span is open is the one at work, its span is the last, and of the node  *)
(* that the event of its end will name; the span table is ahead of the     *)
(* log by one entry between the two writes of a start, and of an end       *)
(* (Accounts).                                                             *)

Unkept ==
  enforced => trace = "none" /\ log = <<>> /\ \A i \in DOMAIN spans : spans[i].status = "absent"

Stored == ~enforced /\ faults = 0 /\ crashes = 0

\* i is the span of the agent at work
Working(i) ==
  \/ i = key /\ pc \in AtWork \cup {"decide"}
  \/ i = key /\ pc \in {"enter", "finish", "failing"} /\ step \in {"get", "peek", "close"}
       /\ row.node # 0
  \/ i = key /\ pc = "enter" /\ step \in {"announce", "put", "audit"}
  \/ i = mine /\ pc = "enter" /\ step = "save"
AtNode == IF pc = "enter" /\ step \in {"save", "announce", "put"} THEN node ELSE row.node
StartLag == IF pc = "enter" /\ step \in {"save", "announce"} THEN 1 ELSE 0
EndLag == IF step \in {"forget", "note"} THEN 1 ELSE 0
IsLast(i) == i \in Agents /\ \A k \in Agents : k <= i

Accounts ==
  Stored =>
    /\ \A i \in DOMAIN spans : spans[i].status # "absent"
    /\ \A i \in Agents : spans[i].status = "running" <=> Working(i)
    /\ \A i : Working(i) => IsLast(i) /\ spans[i].node = AtNode
    /\ step \in {"peek", "close", "forget", "note"} => row.node # 0
    /\ step \in {"forget", "note"} =>
         \E i : IsLast(i) /\ spans[i].node = row.node /\ spans[i].status = Ending
    /\ Follows(StartEvents, OpenedSpans) /\ Size(StartEvents) + StartLag = Size(OpenedSpans)
    /\ Follows(EndEvents, ClosedSpans) /\ Size(EndEvents) + EndLag = Size(ClosedSpans)

\* what the operations on the tables do to the rows
LEMMA RowClosed ==
  ASSUME SpanType, NEW id, NEW status, NEW ok, CloseSpan(id, status, ok)
  PROVE  /\ Len(spans') = Len(spans) /\ DOMAIN spans' = DOMAIN spans
         /\ \A i \in DOMAIN spans :
              /\ spans'[i].kind = spans[i].kind /\ spans'[i].node = spans[i].node
              /\ spans'[i].status = IF ok /\ i = id /\ spans[i].status # "absent"
                                    THEN status ELSE spans[i].status
<1>1. \A i \in 1..Len(spans) : spans[i] \in Span
  BY DEF SpanType
<1>2. CASE ~(ok /\ spans[id].status # "absent") BY <1>2 DEF CloseSpan
<1>3. CASE ok /\ spans[id].status # "absent"
  <2>1. spans' = [spans EXCEPT ![id].status = status] BY <1>3 DEF CloseSpan
  <2>2. DOMAIN spans = 1..Len(spans) /\ DOMAIN spans' = DOMAIN spans
        /\ Len(spans') = Len(spans)
    BY <2>1 DEF SpanType
  <2>3. \A i \in 1..Len(spans) :
          spans'[i] = IF i = id THEN [spans[i] EXCEPT !.status = status] ELSE spans[i]
    BY <2>1, <2>2
  <2> QED BY <1>1, <1>3, <2>2, <2>3 DEF Span
<1> QED BY <1>2, <1>3

LEMMA RowFared ==
  ASSUME SpanType, NEW did, Fares(did)
  PROVE  /\ Len(spans') = Len(spans) /\ DOMAIN spans' = DOMAIN spans
         /\ \A i \in DOMAIN spans :
              /\ spans'[i].kind = spans[i].kind /\ spans'[i].node = spans[i].node
              /\ spans'[i].status = spans[i].status
<1>1. \A i \in 1..Len(spans) : spans[i] \in Span
  BY DEF SpanType
<1>2. CASE mine = 0 BY <1>2 DEF Fares
<1>3. CASE mine # 0
  <2>1. DOMAIN spans = 1..Len(spans) /\ DOMAIN spans' = DOMAIN spans
        /\ Len(spans') = Len(spans) /\ spans' = [spans EXCEPT ![mine].did = did]
    BY <1>3 DEF SpanType, Fares
  <2>2. \A i \in 1..Len(spans) :
          spans'[i] = IF i = mine THEN [spans[i] EXCEPT !.did = did] ELSE spans[i]
    BY <2>1
  <2> QED BY <1>1, <2>1, <2>2 DEF Span
<1> QED BY <1>2, <1>3

LEMMA RowOpened ==
  ASSUME SpanType, NEW kind, NEW n, NEW in, NEW ok \in BOOLEAN, OpenSpan(kind, n, in, ok)
  PROVE  /\ Len(spans') = Len(spans) + 1 /\ Len(spans) \in Nat
         /\ DOMAIN spans = 1..Len(spans) /\ DOMAIN spans' = 1..(Len(spans) + 1)
         /\ \A i \in 1..Len(spans) : spans'[i] = spans[i]
         /\ spans'[Len(spans) + 1].kind = kind /\ spans'[Len(spans) + 1].node = n
         /\ spans'[Len(spans) + 1].status =
              IF ok /\ (enforced => HasTrace(in)) THEN "running" ELSE "absent"
<1> DEFINE s == [kind |-> kind, node |-> n, in |-> in, did |-> "pending",
                 status |-> IF ok /\ (enforced => HasTrace(in)) THEN "running" ELSE "absent"]
<1>1. spans' = Append(spans, s)
  BY DEF OpenSpan
<1>2. /\ s.kind = kind /\ s.node = n
      /\ s.status = IF ok /\ (enforced => HasTrace(in)) THEN "running" ELSE "absent"
  OBVIOUS
<1> HIDE DEF s
<1> QED BY <1>1, <1>2 DEF SpanType

\* where it is stored, what is logged comes last
LEMMA EventLogged ==
  ASSUME LogType, ~enforced, NEW event, NEW n, NEW status, NEW at,
         LogEvent(event, n, status, at, TRUE)
  PROVE  /\ Len(log) \in Nat /\ Len(log') = Len(log) + 1
         /\ DOMAIN log = 1..Len(log) /\ DOMAIN log' = 1..(Len(log) + 1)
         /\ \A j \in 1..Len(log) : log'[j] = log[j]
         /\ log'[Len(log) + 1].event = event /\ log'[Len(log) + 1].node = n
         /\ log'[Len(log) + 1].status = status
<1> DEFINE e == [event |-> event, node |-> n, status |-> status]
<1>1. log' = Append(log, e)
  BY DEF LogEvent
<1>2. e.event = event /\ e.node = n /\ e.status = status
  OBVIOUS
<1> HIDE DEF e
<1> QED BY <1>1, <1>2 DEF LogType

LEMMA OtherEvent ==
  ASSUME LogType, ~enforced, NEW event, NEW n, NEW status, NEW at,
         event \notin {"AGENT_STARTED", "AGENT_COMPLETED"},
         LogEvent(event, n, status, at, TRUE)
  PROVE  StartEvents' = StartEvents /\ EndEvents' = EndEvents
<1>1. /\ Len(log) \in Nat /\ Len(log') = Len(log) + 1
      /\ DOMAIN log = 1..Len(log) /\ DOMAIN log' = 1..(Len(log) + 1)
      /\ \A j \in 1..Len(log) : log'[j] = log[j]
      /\ log'[Len(log) + 1].event = event
  BY EventLogged
<1>2. EventsOf("AGENT_STARTED")' = EventsOf("AGENT_STARTED")
      /\ EventsOf("AGENT_COMPLETED")' = EventsOf("AGENT_COMPLETED")
  BY <1>1 DEF EventsOf
<1>3. \A kind : \A j \in EventsOf(kind) : log'[j] = log[j]
  BY <1>1 DEF EventsOf
<1> QED BY <1>2, <1>3 DEF StartEvents, EndEvents

LEMMA FiniteAccounts ==
  ASSUME SpanType, LogType
  PROVE  /\ Finite(StartEvents) /\ Finite(EndEvents) /\ Finite(OpenedSpans) /\ Finite(ClosedSpans)
         /\ Size(StartEvents) \in Nat /\ Size(EndEvents) \in Nat
         /\ Size(OpenedSpans) \in Nat /\ Size(ClosedSpans) \in Nat
<1>1. Len(spans) \in Nat /\ DOMAIN spans = 1..Len(spans)
      /\ Len(log) \in Nat /\ DOMAIN log = 1..Len(log)
  BY DEF SpanType, LogType
<1>2. IsFiniteSet(1..Len(spans)) /\ IsFiniteSet(1..Len(log))
  BY <1>1, FS_Interval
<1>3. \A S : S \subseteq 1..Len(spans) \/ S \subseteq 1..Len(log) =>
             S \in SUBSET Nat /\ IsFiniteSet(S) /\ Cardinality(S) \in Nat
  BY <1>1, <1>2, FS_Subset, FS_CardinalityType
<1>4. \A which : AgentSpans(which) \subseteq 1..Len(spans)
  BY <1>1 DEF AgentSpans, Agents
<1>5. \A kind : EventsOf(kind) \subseteq 1..Len(log)
  BY <1>1 DEF EventsOf
<1> QED
  BY <1>3, <1>4, <1>5
    DEF Finite, Size, StartEvents, EndEvents, OpenedSpans, ClosedSpans

\* a step that leaves both accounts as they are, and the agent at work
AccountsStay ==
  /\ Agents' = Agents
  /\ \A i \in Agents : spans'[i].node = spans[i].node /\ spans'[i].status = spans[i].status
  /\ \A i \in DOMAIN spans' : spans'[i].status # "absent"
  /\ StartEvents' = StartEvents /\ EndEvents' = EndEvents
SamePhase ==
  /\ \A i : Working(i)' <=> Working(i)
  /\ \A i : Working(i) => AtNode' = AtNode
  /\ StartLag' = StartLag /\ EndLag' = EndLag
  /\ step' \in {"peek", "close", "forget", "note"} => row.node' # 0
  /\ step' \in {"forget", "note"} =>
       step \in {"forget", "note"} /\ row' = row /\ Ending' = Ending

LEMMA SpanAccountsStay ==
  ASSUME Agents' = Agents,
         \A i \in Agents : spans'[i].node = spans[i].node /\ spans'[i].status = spans[i].status
  PROVE  OpenedSpans' = OpenedSpans /\ ClosedSpans' = ClosedSpans
<1>1. \A which : AgentSpans(which)' = AgentSpans(which) /\ AgentSpans(which) \subseteq Agents
  BY DEF AgentSpans
<1>2. AgentSpans(Endings)' = AgentSpans(Endings)
      /\ AgentSpans(Endings \cup {"running"})' = AgentSpans(Endings \cup {"running"})
  BY DEF AgentSpans
<1> QED BY <1>1, <1>2 DEF OpenedSpans, ClosedSpans

LEMMA AccountsKept ==
  ASSUME Accounts, Stored, AccountsStay, SamePhase
  PROVE  Accounts'
<1>1. OpenedSpans' = OpenedSpans /\ ClosedSpans' = ClosedSpans
  BY SpanAccountsStay DEF AccountsStay
<1>2. /\ Follows(StartEvents, OpenedSpans)' /\ Follows(EndEvents, ClosedSpans)'
      /\ (Size(StartEvents) + StartLag = Size(OpenedSpans))'
      /\ (Size(EndEvents) + EndLag = Size(ClosedSpans))'
  BY <1>1 DEF Accounts, AccountsStay, SamePhase, Follows, Size
<1>3. \A i : IsLast(i)' <=> IsLast(i)
  BY DEF AccountsStay, IsLast
<1>4. \A i : IsLast(i) => i \in Agents
  BY DEF IsLast
<1>5. \A i \in Agents' : (spans[i].status)' = "running" <=> Working(i)'
  BY DEF Accounts, AccountsStay, SamePhase
<1>6. \A i : Working(i)' => IsLast(i)' /\ (spans[i].node)' = AtNode'
  BY <1>3, <1>4 DEF Accounts, AccountsStay, SamePhase
<1>7. step' \in {"forget", "note"} =>
        \E i : IsLast(i)' /\ (spans[i].node)' = row.node' /\ (spans[i].status)' = Ending'
  BY <1>3, <1>4 DEF Accounts, AccountsStay, SamePhase
<1>8. \A i \in DOMAIN spans' : spans'[i].status # "absent" BY DEF AccountsStay
<1>9. step' \in {"peek", "close", "forget", "note"} => row.node' # 0 BY DEF SamePhase
<1> QED BY <1>2, <1>5, <1>6, <1>7, <1>8, <1>9 DEF Accounts

LEMMA TablesStay ==
  ASSUME spans' = spans, log' = log, \A i \in DOMAIN spans : spans[i].status # "absent"
  PROVE  AccountsStay
  BY DEF AccountsStay, Agents, StartEvents, EndEvents, EventsOf

LEMMA RowStored ==
  ASSUME SpanType, ~enforced, NEW kind, NEW n, NEW in, OpenSpan(kind, n, in, TRUE)
  PROVE  /\ Len(spans') = Len(spans) + 1 /\ DOMAIN spans' = 1..(Len(spans) + 1)
         /\ \A i \in 1..Len(spans) : spans'[i] = spans[i]
         /\ spans'[Len(spans) + 1].kind = kind /\ spans'[Len(spans) + 1].node = n
         /\ spans'[Len(spans) + 1].status = "running"
<1>1. PICK ok \in BOOLEAN : ok = TRUE
  OBVIOUS
<1>2. OpenSpan(kind, n, in, ok)
  BY <1>1
<1>3. /\ Len(spans') = Len(spans) + 1 /\ DOMAIN spans' = 1..(Len(spans) + 1)
      /\ \A i \in 1..Len(spans) : spans'[i] = spans[i]
      /\ spans'[Len(spans) + 1].kind = kind /\ spans'[Len(spans) + 1].node = n
      /\ spans'[Len(spans) + 1].status =
           IF ok /\ (enforced => HasTrace(in)) THEN "running" ELSE "absent"
  BY <1>2, RowOpened
<1> QED BY <1>1, <1>3

LEMMA EnforcedStays == [Next]_vars => enforced' = enforced
<1>1. SUFFICES ASSUME [Next]_vars PROVE enforced' = enforced
  OBVIOUS
<1> USE <1>1 DEF rowVars, workVars, jobVars, restVars, freeVars, vars
<1>3. CASE ApiStep \/ ApiDies \/ WorkerDies \/ UNCHANGED vars
  BY <1>3
    DEF ApiStep, StartTrace, OpenRoot, LogEnqueued, Submit, SubmitRaises, CloseRoot,
        ApiDies, WorkerDies
<1>4. CASE UpdateSession
  BY <1>4
    DEF UpdateSession, ReadSession, ReadSessionRaises, FindSpan, FindNoSpan,
        CloseAgentSpan, ForgetSpan, LogCompleted, CreateAgentSpan, SaveSpan,
        LogAgentStarted, WriteRow, WriteRaises, LogAudit
<1>6. CASE WorkerStep /\ ~UpdateSession
  BY <1>6
    DEF WorkerStep, TakeJob, LogStarted, OpenWorkerSpan, PlanningUnresolved,
        StartPlanning, OpenSandbox, LogSandbox, SandboxRaises, CloseSandbox,
        StageCompletes, StageRaises, Reroute, Proceed, ReadRaises, Succeeds,
        NotCompleted, HandleFailure, HandleRaises, ReadFinal, ReadFinalRaises, LogFinal,
        CloseWorkerSpan, FinishTrace
<1> QED BY <1>3, <1>4, <1>6 DEF Next

LEMMA LogRefused ==
  ASSUME Unkept, enforced, NEW event, NEW n, NEW status, NEW at, NEW ok,
         LogEvent(event, n, status, at, ok)
  PROVE  log' = log
  BY DEF Unkept, LogEvent

LEMMA UnkeptStep ==
  (SpanType /\ Unkept) /\ [Next]_vars => Unkept'
<1>1. SUFFICES ASSUME (SpanType /\ Unkept), [Next]_vars, enforced' PROVE Unkept'
  BY DEF Unkept
<1> USE DEF rowVars, workVars, jobVars, restVars, freeVars, vars, Within
<1>2. CASE StartTrace
  BY <1>1, <1>2 DEF StartTrace, ApiGoto, CreateTrace, Pending, Sessions, Unkept
<1>3. CASE OpenRoot
  <2>1. PICK ok \in BOOLEAN : OpenSpan("api", 0, "run", ok)
    BY <1>3 DEF OpenRoot
  <2>2. enforced /\ UNCHANGED <<trace, log>> BY <1>1, <1>3 DEF OpenRoot
  <2>3. ~HasTrace("run") /\ ~HasTrace("fallback") BY <1>1, <2>2 DEF HasTrace, Unkept
  <2>4. spans'[Len(spans) + 1].status = "absent"
    BY <1>1, <2>1, <2>2, <2>3, RowOpened
  <2> QED BY <1>1, <2>1, <2>2, <2>4, RowOpened DEF Unkept
<1>4. CASE LogEnqueued
  <2>1. PICK ok \in BOOLEAN :
          LogEvent("JOB_ENQUEUED", 0, "none", Len(spans), ok)
    BY <1>4 DEF LogEnqueued
  <2>2. enforced /\ UNCHANGED <<trace, spans>> BY <1>1, <1>4 DEF LogEnqueued
  <2>3. log' = log BY <1>1, <2>1, <2>2, LogRefused
  <2> QED BY <1>1, <2>2, <2>3 DEF Unkept
<1>5. CASE Submit BY <1>1, <1>5 DEF Submit, Unkept
<1>6. CASE SubmitRaises BY <1>1, <1>6 DEF SubmitRaises, Unkept
<1>7. CASE CloseRoot
  <2>1. PICK ok \in BOOLEAN : CloseSpan(1, IF api = "leave" THEN "success" ELSE "failed", ok)
    BY <1>7 DEF CloseRoot
  <2>2. enforced /\ UNCHANGED <<trace, log>> BY <1>1, <1>7 DEF CloseRoot
  <2> QED BY <1>1, <2>1, <2>2, RowClosed DEF Unkept
<1>8. CASE ApiDies BY <1>1, <1>8 DEF ApiDies, Unkept
<1>9. CASE ReadSession BY <1>1, <1>9 DEF ReadSession, Unkept
<1>10. CASE ReadSessionRaises BY <1>1, <1>10 DEF ReadSessionRaises, Unkept
<1>11. CASE FindSpan BY <1>1, <1>11 DEF FindSpan, Unkept
<1>12. CASE FindNoSpan BY <1>1, <1>12 DEF FindNoSpan, Unkept
<1>13. CASE CloseAgentSpan
  <2>1. PICK ok \in BOOLEAN : CloseSpan(key, Ending, ok)
    BY <1>13 DEF CloseAgentSpan
  <2>2. enforced /\ UNCHANGED <<trace, log>> BY <1>1, <1>13 DEF CloseAgentSpan
  <2> QED BY <1>1, <2>1, <2>2, RowClosed DEF Unkept
<1>14. CASE ForgetSpan BY <1>1, <1>14 DEF ForgetSpan, Unkept
<1>15. CASE LogCompleted
  <2>1. PICK ok \in BOOLEAN :
          LogEvent("AGENT_COMPLETED", row.node, Ending, wspan, ok)
    BY <1>15 DEF LogCompleted
  <2>2. enforced /\ UNCHANGED <<trace, spans>> BY <1>1, <1>15 DEF LogCompleted
  <2>3. log' = log BY <1>1, <2>1, <2>2, LogRefused
  <2> QED BY <1>1, <2>2, <2>3 DEF Unkept
<1>16. CASE CreateAgentSpan
  <2>1. PICK ok \in BOOLEAN : OpenSpan("agent", NewNode, "run", ok)
    BY <1>16 DEF CreateAgentSpan
  <2>2. enforced /\ UNCHANGED <<trace, log>> BY <1>1, <1>16 DEF CreateAgentSpan
  <2>3. ~HasTrace("run") /\ ~HasTrace("fallback") BY <1>1, <2>2 DEF HasTrace, Unkept
  <2>4. spans'[Len(spans) + 1].status = "absent"
    BY <1>1, <2>1, <2>2, <2>3, RowOpened
  <2> QED BY <1>1, <2>1, <2>2, <2>4, RowOpened DEF Unkept
<1>17. CASE SaveSpan BY <1>1, <1>17 DEF SaveSpan, Unkept
<1>18. CASE LogAgentStarted
  <2>1. PICK ok \in BOOLEAN :
          LogEvent("AGENT_STARTED", NewNode, "none", wspan, ok)
    BY <1>18 DEF LogAgentStarted
  <2>2. enforced /\ UNCHANGED <<trace, spans>> BY <1>1, <1>18 DEF LogAgentStarted
  <2>3. log' = log BY <1>1, <2>1, <2>2, LogRefused
  <2> QED BY <1>1, <2>2, <2>3 DEF Unkept
<1>19. CASE WriteRow BY <1>1, <1>19 DEF WriteRow, Unkept
<1>20. CASE WriteRaises BY <1>1, <1>20 DEF WriteRaises, Unkept
<1>21. CASE LogAudit BY <1>1, <1>21 DEF LogAudit, Unkept
<1>22. CASE TakeJob BY <1>1, <1>22 DEF TakeJob, Unkept
<1>23. CASE LogStarted
  <2>1. enforced /\ UNCHANGED <<trace, spans>> BY <1>1, <1>23 DEF LogStarted
  <2>2. CASE task = "first"
    <3>1. PICK ok \in BOOLEAN : LogEvent("JOB_STARTED", 0, "none", 0, ok)
      BY <1>23, <2>2 DEF LogStarted
    <3>2. log' = log BY <1>1, <2>1, <3>1, LogRefused
    <3> QED BY <1>1, <2>1, <3>2 DEF Unkept
  <2>3. CASE task # "first"
    <3>1. log' = log BY <1>23, <2>3 DEF LogStarted
    <3> QED BY <1>1, <2>1, <3>1 DEF Unkept
  <2> QED BY <2>2, <2>3
<1>24. CASE OpenWorkerSpan
  <2>1. PICK ok \in BOOLEAN : OpenSpan("worker", 0, IF HasUser THEN "run" ELSE "fallback", ok)
    BY <1>24 DEF OpenWorkerSpan
  <2>2. enforced /\ UNCHANGED <<trace, log>> BY <1>1, <1>24 DEF OpenWorkerSpan
  <2>3. ~HasTrace("run") /\ ~HasTrace("fallback") BY <1>1, <2>2 DEF HasTrace, Unkept
  <2>4. spans'[Len(spans) + 1].status = "absent"
    BY <1>1, <2>1, <2>2, <2>3, RowOpened
  <2> QED BY <1>1, <2>1, <2>2, <2>4, RowOpened DEF Unkept
<1>25. CASE PlanningUnresolved BY <1>1, <1>25 DEF PlanningUnresolved, Unkept
<1>26. CASE StartPlanning BY <1>1, <1>26 DEF StartPlanning, Unkept
<1>27. CASE OpenSandbox
  <2>1. PICK ok \in BOOLEAN : OpenSpan("sandbox", 0, "run", ok)
    BY <1>27 DEF OpenSandbox
  <2>2. enforced /\ UNCHANGED <<trace, log>> BY <1>1, <1>27 DEF OpenSandbox
  <2>3. ~HasTrace("run") /\ ~HasTrace("fallback") BY <1>1, <2>2 DEF HasTrace, Unkept
  <2>4. spans'[Len(spans) + 1].status = "absent"
    BY <1>1, <2>1, <2>2, <2>3, RowOpened
  <2> QED BY <1>1, <2>1, <2>2, <2>4, RowOpened DEF Unkept
<1>28. CASE LogSandbox
  <2>1. PICK ok \in BOOLEAN :
          LogEvent("SANDBOX_EXECUTED", 0, "success", Len(spans), ok)
    BY <1>28 DEF LogSandbox
  <2>2. enforced /\ UNCHANGED <<trace, spans>> BY <1>1, <1>28 DEF LogSandbox
  <2>3. log' = log BY <1>1, <2>1, <2>2, LogRefused
  <2> QED BY <1>1, <2>2, <2>3 DEF Unkept
<1>29. CASE SandboxRaises BY <1>1, <1>29 DEF SandboxRaises, Unkept
<1>30. CASE CloseSandbox
  <2>1. PICK ok \in BOOLEAN : CloseSpan(Len(spans), IF pc = "boxed" THEN "success" ELSE "failed", ok)
    BY <1>30 DEF CloseSandbox
  <2>2. enforced /\ UNCHANGED <<trace, log>> BY <1>1, <1>30 DEF CloseSandbox
  <2> QED BY <1>1, <2>1, <2>2, RowClosed DEF Unkept
<1>31. CASE StageCompletes
  <2>1. Fares("ok") BY <1>31 DEF StageCompletes
  <2>2. enforced /\ UNCHANGED <<trace, log>> BY <1>1, <1>31 DEF StageCompletes
  <2> QED BY <1>1, <2>1, <2>2, RowFared DEF Unkept
<1>32. CASE StageRaises
  <2>1. Fares("raised") BY <1>32 DEF StageRaises
  <2>2. enforced /\ UNCHANGED <<trace, log>> BY <1>1, <1>32 DEF StageRaises
  <2> QED BY <1>1, <2>1, <2>2, RowFared DEF Unkept
<1>33. CASE Reroute BY <1>1, <1>33 DEF Reroute, Unkept
<1>34. CASE Proceed BY <1>1, <1>34 DEF Proceed, Unkept
<1>35. CASE ReadRaises BY <1>1, <1>35 DEF ReadRaises, Unkept
<1>36. CASE Succeeds BY <1>1, <1>36 DEF Succeeds, Unkept
<1>37. CASE NotCompleted BY <1>1, <1>37 DEF NotCompleted, Unkept
<1>38. CASE HandleFailure BY <1>1, <1>38 DEF HandleFailure, Unkept
<1>39. CASE HandleRaises BY <1>1, <1>39 DEF HandleRaises, Unkept
<1>40. CASE ReadFinal BY <1>1, <1>40 DEF ReadFinal, Unkept
<1>41. CASE ReadFinalRaises BY <1>1, <1>41 DEF ReadFinalRaises, Unkept
<1>42. CASE LogFinal
  <2>1. PICK ok \in BOOLEAN :
          LogEvent(IF FinalStatus = "success" THEN "JOB_COMPLETED" ELSE "JOB_FAILED", 0, FinalStatus, wspan, ok)
    BY <1>42 DEF LogFinal
  <2>2. enforced /\ UNCHANGED <<trace, spans>> BY <1>1, <1>42 DEF LogFinal
  <2>3. log' = log BY <1>1, <2>1, <2>2, LogRefused
  <2> QED BY <1>1, <2>2, <2>3 DEF Unkept
<1>43. CASE CloseWorkerSpan
  <2>1. PICK ok \in BOOLEAN : CloseSpan(wspan, FinalStatus, ok)
    BY <1>43 DEF CloseWorkerSpan
  <2>2. enforced /\ UNCHANGED <<trace, log>> BY <1>1, <1>43 DEF CloseWorkerSpan
  <2> QED BY <1>1, <2>1, <2>2, RowClosed DEF Unkept
<1>44. CASE FinishTrace BY <1>1, <1>44 DEF FinishTrace, EndTrace, Unkept
<1>45. CASE WorkerDies BY <1>1, <1>45 DEF WorkerDies, Unkept
<1>46. CASE UNCHANGED vars BY <1>1, <1>46 DEF Unkept
<1> QED
    BY <1>1, <1>2, <1>3, <1>4, <1>5, <1>6, <1>7, <1>8, <1>9, <1>10, <1>11, <1>12,
     <1>13, <1>14, <1>15, <1>16, <1>17, <1>18, <1>19, <1>20, <1>21, <1>22, <1>23,
     <1>24, <1>25, <1>26, <1>27, <1>28, <1>29, <1>30, <1>31, <1>32, <1>33, <1>34,
     <1>35, <1>36, <1>37, <1>38, <1>39, <1>40, <1>41, <1>42, <1>43, <1>44, <1>45,
     <1>46
     DEF Next, ApiStep, WorkerStep, UpdateSession


LEMMA AllWorks == ASSUME faults = 0, faults' = 0, NEW ok \in BOOLEAN, Works(ok) PROVE ok = TRUE
  BY DEF Works

LEMMA AccountsStep ==
  IInv /\ Accounts /\ [Next]_vars => Accounts'
<1>1. SUFFICES ASSUME ControlType, SpanType, LogType, Once, Places, KeyNamed, Synced,
                      Accounts, [Next]_vars, Stored'
               PROVE  Accounts'
  BY DEF IInv, Accounts
<1> USE DEF rowVars, workVars, jobVars, restVars, freeVars, vars
<1>0. SpanType' /\ LogType' /\ Counted
  BY <1>1, SpanTypeStep, LogTypeStep, Counts
<1>a. enforced' = enforced
  BY <1>1, EnforcedStays
<1>b. Stored /\ faults = 0 /\ faults' = 0 /\ crashes = 0 /\ crashes' = 0 /\ ~enforced
  BY <1>0, <1>1, <1>a DEF Stored, Counted
<1>c. /\ Len(spans) \in Nat /\ DOMAIN spans = 1..Len(spans)
      /\ key \in 0..Len(spans) /\ mine \in 0..Len(spans) /\ wspan \in 0..Len(spans)
  BY <1>1 DEF SpanType
<1>d. \A i : Working(i) => i \in 1..Len(spans)
  BY <1>1, <1>b, <1>c DEF Accounts, IsLast, Agents
<1>e. \A i \in DOMAIN spans : spans[i].status # "absent"
  BY <1>1, <1>b DEF Accounts
<1>f. \A i \in Agents : i \in 1..Len(spans)
  BY <1>c DEF Agents
<1>g. step \in {"peek", "close", "forget", "note"} => row.node # 0
  BY <1>1, <1>b DEF Accounts
<1>2. CASE StartTrace
  <2>1. SamePhase
    BY <1>1, <1>b, <1>d, <1>g, <1>2, TracingAssumption
      DEF StartTrace, ApiGoto, ControlType, Once, Fresh, KeyNamed, Calls, AtWork,
          Finals, SamePhase, Working, AtNode, StartLag, EndLag
  <2>2. spans' = spans /\ log' = log BY <1>2 DEF StartTrace
  <2> QED BY <1>1, <1>b, <1>e, <2>1, <2>2, AccountsKept, TablesStay
<1>3. CASE OpenRoot
  <2>1. SamePhase
    BY <1>1, <1>b, <1>d, <1>g, <1>3, TracingAssumption
      DEF OpenRoot, ApiGoto, ControlType, Once, Fresh, KeyNamed, Calls, AtWork,
          Finals, SamePhase, Working, AtNode, StartLag, EndLag
  <2> DEFINE in == "run"
  <2>2. PICK ok \in BOOLEAN : Works(ok) /\ OpenSpan("api", 0, in, ok)
    BY <1>3 DEF OpenRoot
  <2> HIDE DEF in
  <2>3. OpenSpan("api", 0, in, TRUE) /\ log' = log BY <1>b, <1>3, <2>2, AllWorks DEF OpenRoot
  <2>4. /\ Len(spans') = Len(spans) + 1 /\ DOMAIN spans' = 1..(Len(spans) + 1)
        /\ \A j \in 1..Len(spans) : spans'[j] = spans[j]
        /\ spans'[Len(spans) + 1].kind # "agent" /\ spans'[Len(spans) + 1].status = "running"
    BY <1>1, <1>b, <2>3, RowStored
  <2>5. AccountsStay
    BY <1>c, <1>e, <2>3, <2>4
      DEF AccountsStay, Agents, StartEvents, EndEvents, EventsOf
  <2> QED BY <1>1, <1>b, <2>1, <2>5, AccountsKept
<1>4. CASE LogEnqueued
  <2>1. SamePhase
    BY <1>1, <1>b, <1>d, <1>g, <1>4, TracingAssumption
      DEF LogEnqueued, ApiGoto, ControlType, Once, Fresh, KeyNamed, Calls, AtWork,
          Finals, SamePhase, Working, AtNode, StartLag, EndLag
  <2>2. spans' = spans BY <1>4 DEF LogEnqueued
  <2>3. StartEvents' = StartEvents /\ EndEvents' = EndEvents
    <3> DEFINE event == "JOB_ENQUEUED"
    <3>1. LogEvent(event, 0, "none", Len(spans), TRUE)
      BY <1>b, <1>4, AllWorks DEF LogEnqueued
    <3>2. event \notin {"AGENT_STARTED", "AGENT_COMPLETED"} OBVIOUS
    <3> HIDE DEF event
    <3> QED BY <1>1, <1>b, <3>1, <3>2, OtherEvent
  <2>4. AccountsStay BY <1>e, <2>2, <2>3 DEF AccountsStay, Agents
  <2> QED BY <1>1, <1>b, <2>1, <2>4, AccountsKept
<1>5. CASE Submit
  <2>1. SamePhase
    BY <1>1, <1>b, <1>d, <1>g, <1>5, TracingAssumption
      DEF Submit, ApiGoto, Created, ControlType, Once, Fresh, KeyNamed, Calls, AtWork,
          Finals, SamePhase, Working, AtNode, StartLag, EndLag
  <2>2. spans' = spans /\ log' = log BY <1>5 DEF Submit
  <2> QED BY <1>1, <1>b, <1>e, <2>1, <2>2, AccountsKept, TablesStay
<1>6. CASE SubmitRaises
  <2>1. SamePhase
    BY <1>1, <1>b, <1>d, <1>g, <1>6, TracingAssumption
      DEF SubmitRaises, ApiGoto, Created, ControlType, Once, Fresh, KeyNamed, Calls,
          AtWork, Finals, SamePhase, Working, AtNode, StartLag, EndLag
  <2>2. spans' = spans /\ log' = log BY <1>6 DEF SubmitRaises
  <2> QED BY <1>1, <1>b, <1>e, <2>1, <2>2, AccountsKept, TablesStay
<1>7. CASE CloseRoot
  <2>1. SamePhase
    BY <1>1, <1>b, <1>d, <1>g, <1>7, TracingAssumption
      DEF CloseRoot, ApiGoto, Ending, NewStatus, NewNode, ControlType, Once, Fresh,
          KeyNamed, Calls, AtWork, Finals, SamePhase, Working, AtNode, StartLag,
          EndLag
  <2>2. PICK ok \in BOOLEAN : CloseSpan(1, IF api = "leave" THEN "success" ELSE "failed", ok)
    BY <1>7 DEF CloseRoot
  <2>3. 1 \notin Agents
    BY <1>1, <1>c, <1>7 DEF Agents, Places, CloseRoot, ApiGoto
  <2>4. (IF api = "leave" THEN "success" ELSE "failed") \in Endings BY DEF Endings, FinalStatus
  <2>5. /\ DOMAIN spans' = DOMAIN spans
        /\ \A j \in DOMAIN spans :
             /\ spans'[j].kind = spans[j].kind /\ spans'[j].node = spans[j].node
             /\ spans'[j].status = spans[j].status \/ (j = 1 /\ spans'[j].status \in Endings)
    <3> DEFINE status == IF api = "leave" THEN "success" ELSE "failed"
    <3>1. CloseSpan(1, status, ok) /\ status \in Endings BY <2>2, <2>4
    <3> HIDE DEF status
    <3> QED BY <1>1, <3>1, RowClosed
  <2>6. log' = log BY <1>7 DEF CloseRoot
  <2>7. AccountsStay
    BY <1>e, <2>3, <2>5, <2>6
      DEF AccountsStay, Agents, StartEvents, EndEvents, EventsOf, Endings
  <2> QED BY <1>1, <1>b, <2>1, <2>7, AccountsKept
<1>8. CASE ApiDies BY <1>b, <1>8 DEF ApiDies, Works
<1>9. CASE ReadSession
  <2>3. step = "get" /\ step' = FirstStep /\ UNCHANGED <<pc, row, key, mine, node>>
    BY <1>9 DEF ReadSession, Within
  <2>4. pc = "enter" <=> NewNode # 0
    BY <1>1, TracingAssumption DEF ControlType, NewNode, Stages, Planning
  <2>5. pc \in {"finish", "failing"} => NewStatus \in {"COMPLETED", "FAILED"}
    BY DEF NewStatus
  <2>6. /\ step' \in {"peek", "create", "put"}
        /\ step' = "peek" => row.node # 0
        /\ step' # "peek" /\ pc \in {"enter", "finish", "failing"} => row.node = 0
        /\ pc = "enter" => step' # "put"
    BY <2>3, <2>4, <2>5 DEF FirstStep, Ends
  <2>1. SamePhase
    BY <2>3, <2>6
      DEF ControlType, Once, Fresh, KeyNamed, Calls, AtWork, Finals, SamePhase,
          Working, AtNode, StartLag, EndLag
  <2>2. spans' = spans /\ log' = log BY <1>9 DEF ReadSession, Within
  <2> QED BY <1>1, <1>b, <1>e, <2>1, <2>2, AccountsKept, TablesStay
<1>10. CASE ReadSessionRaises
  <2>3. ~HasUser BY <1>b, <1>10 DEF ReadSessionRaises, Works
  <2>1. SamePhase
    BY <1>1, <1>b, <1>d, <1>g, <1>10, <2>3, TracingAssumption
      DEF HasUser, ReadSessionRaises, Return, Works, ControlType, Once, Fresh,
          KeyNamed, Calls, AtWork, Finals, SamePhase, Working, AtNode, StartLag,
          EndLag
  <2>2. spans' = spans /\ log' = log BY <1>10 DEF ReadSessionRaises
  <2> QED BY <1>1, <1>b, <1>e, <2>1, <2>2, AccountsKept, TablesStay
<1>11. CASE FindSpan
  <2>1. SamePhase
    BY <1>1, <1>b, <1>d, <1>g, <1>11, TracingAssumption
      DEF FindSpan, Within, ControlType, Once, Fresh, KeyNamed, Calls, AtWork, Finals,
          SamePhase, Working, AtNode, StartLag, EndLag
  <2>2. spans' = spans /\ log' = log BY <1>11 DEF FindSpan
  <2> QED BY <1>1, <1>b, <1>e, <2>1, <2>2, AccountsKept, TablesStay
<1>12. CASE FindNoSpan
  <2>3. key = 0 /\ row.node # 0 BY <1>b, <1>g, <1>12 DEF FindNoSpan, Works
  <2>4. \A i : Working(i) => i # 0 BY <1>d
  <2>5. pc = "sync" BY <1>1, <1>12, <2>3, <2>4 DEF FindNoSpan, Working, Once, Calls
  <2>6. Return(FALSE) BY <1>12, <2>3, <2>5 DEF FindNoSpan, Ends, NewStatus, NewNode
  <2>1. SamePhase
    BY <1>1, <1>12, <2>5, <2>6
      DEF FindNoSpan, Return, ControlType, Once, Fresh, KeyNamed, Calls, AtWork,
          Finals, SamePhase, Working, AtNode, StartLag, EndLag
  <2>2. spans' = spans /\ log' = log BY <1>12 DEF FindNoSpan
  <2> QED BY <1>1, <1>b, <1>e, <2>1, <2>2, AccountsKept, TablesStay
<1>13. CASE CloseAgentSpan
  <2>1. PICK ok \in BOOLEAN : Works(ok) /\ CloseSpan(key, Ending, ok)
    BY <1>13 DEF CloseAgentSpan
  <2>2. ok = TRUE BY <1>b, <2>1, AllWorks
  <2>3. /\ step = "close" /\ step' = "forget" /\ log' = log
        /\ UNCHANGED <<pc, row, key, mine, node, task>>
    BY <1>13 DEF CloseAgentSpan, Within
  <2>4. pc \in {"enter", "finish", "failing"} /\ Ending \in Endings /\ Ending' = Ending
    BY <1>1, <1>b, <2>3
      DEF Once, KeyNamed, Calls, Ending, Endings, NewStatus, NewNode
  <2>5. Working(key) /\ \A i : Working(i) => i = key
    BY <1>g, <2>3, <2>4 DEF Working, AtWork
  <2>6. IsLast(key) /\ spans[key].node = row.node /\ key \in Agents /\ spans[key].status = "running"
    <3>1. IsLast(key) /\ spans[key].node = AtNode BY <1>1, <1>b, <2>5 DEF Accounts
    <3>2. key \in Agents BY <3>1 DEF IsLast
    <3>3. spans[key].status = "running" BY <1>1, <1>b, <2>5, <3>2 DEF Accounts
    <3> QED BY <2>3, <3>1, <3>2, <3>3 DEF AtNode
  <2>7. /\ Len(spans') = Len(spans) /\ DOMAIN spans' = DOMAIN spans
        /\ \A i \in DOMAIN spans :
             /\ spans'[i].kind = spans[i].kind /\ spans'[i].node = spans[i].node
             /\ spans'[i].status = IF i = key THEN Ending ELSE spans[i].status
    <3> DEFINE status == Ending
    <3>1. CloseSpan(key, status, ok) BY <2>1
    <3> HIDE DEF status
    <3>2. /\ Len(spans') = Len(spans) /\ DOMAIN spans' = DOMAIN spans
          /\ \A i \in DOMAIN spans :
               /\ spans'[i].kind = spans[i].kind /\ spans'[i].node = spans[i].node
               /\ spans'[i].status = IF ok /\ i = key /\ spans[i].status # "absent"
                                      THEN status ELSE spans[i].status
      BY <1>1, <3>1, RowClosed
    <3>3. \A i \in DOMAIN spans :
            spans'[i].status = IF i = key THEN status ELSE spans[i].status
      BY <1>e, <2>2, <3>2
    <3> QED BY <3>2, <3>3 DEF status
  <2>8. Agents' = Agents /\ \A i : IsLast(i)' <=> IsLast(i)
    BY <2>7 DEF Agents, IsLast
  <2>9. \A i : ~Working(i)'
    BY <2>3, <2>4 DEF Working, AtWork
  <2>10. \A i \in Agents : spans[i].status \in Endings <=> i # key
    <3>1. \A i \in Agents : spans[i].status \in Endings \cup {"running"}
      <4>1. \A i \in DOMAIN spans : spans[i].status \in Endings \cup {"absent", "running"}
        BY <1>1, <1>c, Kinds DEF Span
      <4> QED BY <1>e, <4>1 DEF Agents
    <3>2. \A i \in Agents : spans[i].status = "running" <=> i = key
      BY <1>1, <1>b, <2>5 DEF Accounts
    <3> QED BY <3>1, <3>2 DEF Endings
  <2>11. OpenedSpans' = OpenedSpans
    <3>1. \A i \in Agents : spans[i].status \in Endings \cup {"running"}
      BY <2>6, <2>10
    <3>2. \A i \in Agents : spans'[i].status \in Endings \cup {"running"}
      BY <2>4, <2>7, <3>1 DEF Agents
    <3>3. AgentSpans(Endings \cup {"running"}) = Agents
          /\ AgentSpans(Endings \cup {"running"})' = Agents
      BY <2>8, <3>1, <3>2 DEF AgentSpans
    <3>4. \A i \in Agents : spans'[i].node = spans[i].node BY <2>7 DEF Agents
    <3> QED BY <3>3, <3>4 DEF OpenedSpans
  <2>12. Extends(ClosedSpans', ClosedSpans, key)
         /\ ClosedSpans'[key] = <<row.node, Ending>>
    <3>1. AgentSpans(Endings)' = AgentSpans(Endings) \cup {key} /\ key \notin AgentSpans(Endings)
      BY <2>4, <2>6, <2>7, <2>8, <2>10 DEF AgentSpans, Agents
    <3>2. \A i \in AgentSpans(Endings) : i < key
      <4>1. \A i \in Agents : i \in Nat /\ i <= key BY <1>f, <2>6 DEF IsLast
      <4> QED BY <1>c, <3>1, <4>1 DEF AgentSpans
    <3>3. \A i \in AgentSpans(Endings) :
            spans'[i].node = spans[i].node /\ spans'[i].status = spans[i].status
      BY <2>7, <3>1 DEF AgentSpans, Agents
    <3>4. spans'[key].node = row.node /\ spans'[key].status = Ending
      BY <2>6, <2>7 DEF Agents
    <3> QED BY <1>c, <3>1, <3>2, <3>3, <3>4 DEF Extends, ClosedSpans
  <2>13. StartEvents' = StartEvents /\ EndEvents' = EndEvents
    BY <2>3 DEF StartEvents, EndEvents, EventsOf
  <2>14. Follows(EndEvents, ClosedSpans') /\ Size(ClosedSpans') = Size(EndEvents) + 1
    <3>1. Follows(EndEvents, ClosedSpans) /\ Size(EndEvents) = Size(ClosedSpans)
      BY <1>1, <1>b, <2>3, FiniteAccounts DEF Accounts, EndLag
    <3> QED BY <1>1, <2>12, <3>1, FiniteAccounts, GoesAhead
  <2>15. Follows(StartEvents, OpenedSpans) /\ Size(StartEvents) + StartLag = Size(OpenedSpans)
    BY <1>1, <1>b DEF Accounts
  <2>16. /\ Follows(StartEvents, OpenedSpans)' /\ Follows(EndEvents, ClosedSpans)'
         /\ (Size(StartEvents) + StartLag = Size(OpenedSpans))'
         /\ (Size(EndEvents) + EndLag = Size(ClosedSpans))'
    BY <2>3, <2>11, <2>13, <2>14, <2>15 DEF Follows, Size, StartLag, EndLag
  <2>17. \A i \in DOMAIN spans' : spans'[i].status # "absent"
    BY <1>e, <2>4, <2>7 DEF Endings
  <2>18. \A i \in Agents' : spans'[i].status # "running"
    BY <2>4, <2>7, <2>8, <2>10 DEF Agents, Endings
  <2>19. IsLast(key)' /\ spans'[key].node = row.node' /\ spans'[key].status = Ending'
    BY <2>3, <2>4, <2>6, <2>7, <2>8 DEF Agents
  <2> QED BY <1>g, <2>3, <2>9, <2>16, <2>17, <2>18, <2>19 DEF Accounts
<1>14. CASE ForgetSpan
  <2>1. SamePhase
    BY <1>1, <1>b, <1>d, <1>g, <1>14, TracingAssumption
      DEF ForgetSpan, Within, Ending, NewStatus, NewNode, ControlType, Once, Fresh,
          KeyNamed, Calls, AtWork, Finals, SamePhase, Working, AtNode, StartLag,
          EndLag
  <2>2. spans' = spans /\ log' = log BY <1>14 DEF ForgetSpan
  <2> QED BY <1>1, <1>b, <1>e, <2>1, <2>2, AccountsKept, TablesStay
<1>15. CASE LogCompleted
  <2>1. LogEvent("AGENT_COMPLETED", row.node, Ending, wspan, TRUE)
    BY <1>b, <1>15, AllWorks DEF LogCompleted
  <2>2. /\ Len(log) \in Nat /\ Len(log') = Len(log) + 1
        /\ DOMAIN log = 1..Len(log) /\ DOMAIN log' = 1..(Len(log) + 1)
        /\ \A j \in 1..Len(log) : log'[j] = log[j]
        /\ log'[Len(log) + 1].event = "AGENT_COMPLETED" /\ log'[Len(log) + 1].node = row.node
        /\ log'[Len(log) + 1].status = Ending
    BY <1>1, <1>b, <2>1, EventLogged
  <2>3. /\ step = "note" /\ spans' = spans
        /\ step' = (IF NewNode # 0 THEN "create" ELSE "put")
        /\ UNCHANGED <<pc, row, key, mine, node>>
    BY <1>15 DEF LogCompleted, Within
  <2>4. (\A i : ~Working(i)) /\ \A i : ~Working(i)'
    BY <1>1, <2>3, TracingAssumption
      DEF Working, AtWork, NewNode, ControlType, Stages, Planning, Once, Calls
  <2>5. PICK m : IsLast(m) /\ spans[m].node = row.node /\ spans[m].status = Ending
    BY <1>1, <1>b, <2>3 DEF Accounts
  <2>6. m \in DOMAIN ClosedSpans /\ ClosedSpans[m] = <<row.node, Ending>>
        /\ \A k \in DOMAIN ClosedSpans : k <= m
    BY <2>5 DEF IsLast, ClosedSpans, AgentSpans, Ending, Endings
  <2> DEFINE l == Len(log) + 1
  <2>7. Extends(EndEvents', EndEvents, l) /\ EndEvents'[l] = <<row.node, Ending>>
    <3>1. EventsOf("AGENT_COMPLETED")' = EventsOf("AGENT_COMPLETED") \cup {l}
      BY <2>2 DEF EventsOf
    <3>2. \A j \in EventsOf("AGENT_COMPLETED") : j < l /\ log'[j] = log[j]
      BY <2>2 DEF EventsOf
    <3> HIDE DEF l
    <3>3. l \in Nat /\ log'[l].node = row.node /\ log'[l].status = Ending BY <2>2 DEF l
    <3> QED BY <3>1, <3>2, <3>3 DEF Extends, EndEvents
  <2>8. StartEvents' = StartEvents
    <3>1. EventsOf("AGENT_STARTED")' = EventsOf("AGENT_STARTED")
      BY <2>2 DEF EventsOf
    <3>2. \A j \in EventsOf("AGENT_STARTED") : log'[j] = log[j] BY <2>2 DEF EventsOf
    <3> QED BY <3>1, <3>2 DEF StartEvents
  <2> HIDE DEF l
  <2>9. Follows(EndEvents', ClosedSpans) /\ Size(EndEvents') = Size(ClosedSpans)
    <3>1. Follows(EndEvents, ClosedSpans) /\ Size(EndEvents) + 1 = Size(ClosedSpans)
      BY <1>1, <1>b, <2>3 DEF Accounts, EndLag
    <3> QED BY <1>1, <2>6, <2>7, <3>1, FiniteAccounts, ComesUp
  <2>10. /\ OpenedSpans' = OpenedSpans /\ ClosedSpans' = ClosedSpans /\ Agents' = Agents
         /\ StartLag' = 0 /\ StartLag = 0 /\ EndLag' = 0
    BY <2>3
      DEF OpenedSpans, ClosedSpans, AgentSpans, Agents, StartLag, EndLag
  <2>11. Size(ClosedSpans) \in Nat BY <1>1, FiniteAccounts
  <2>12. /\ Follows(StartEvents, OpenedSpans)' /\ Follows(EndEvents, ClosedSpans)'
         /\ (Size(StartEvents) + StartLag = Size(OpenedSpans))'
         /\ (Size(EndEvents) + EndLag = Size(ClosedSpans))'
    BY <1>1, <1>b, <2>8, <2>9, <2>10, <2>11 DEF Accounts, Follows, Size
  <2>13. \A i \in Agents : spans[i].status # "running" BY <1>1, <1>b, <2>4 DEF Accounts
  <2> QED BY <1>e, <2>3, <2>4, <2>10, <2>12, <2>13 DEF Accounts
<1>16. CASE CreateAgentSpan
  <2>1. OpenSpan("agent", NewNode, "run", TRUE)
    BY <1>b, <1>16, AllWorks DEF CreateAgentSpan
  <2>2. /\ Len(spans') = Len(spans) + 1
        /\ DOMAIN spans' = 1..(Len(spans) + 1)
        /\ \A i \in 1..Len(spans) : spans'[i] = spans[i]
        /\ spans'[Len(spans) + 1].kind = "agent" /\ spans'[Len(spans) + 1].node = NewNode
        /\ spans'[Len(spans) + 1].status = "running"
    BY <1>1, <1>b, <2>1, RowStored
  <2>3. /\ step = "create" /\ step' = "save" /\ pc = "enter" /\ mine' = Len(spans) + 1
        /\ log' = log /\ UNCHANGED <<pc, row, key, node>>
    BY <1>1, <1>16 DEF CreateAgentSpan, Within, Once
  <2>4. PICK l \in Nat : l = Len(spans) + 1 BY <1>c
  <2>5. (\A i : ~Working(i)) /\ \A i : Working(i)' <=> i = l
    BY <2>3, <2>4 DEF Working, AtWork
  <2>6. Agents' = Agents \cup {l} /\ \A i \in Agents : i < l /\ spans'[i] = spans[i]
    BY <1>c, <2>2, <2>4 DEF Agents
  <2>7. \A i \in Agents : spans[i].status \in Endings
    <3>1. \A i \in DOMAIN spans : spans[i].status \in Endings \cup {"absent", "running"}
      BY <1>1, <1>c, Kinds DEF Span
    <3>2. \A i \in Agents : spans[i].status # "running" BY <1>1, <1>b, <2>5 DEF Accounts
    <3> QED BY <1>e, <3>1, <3>2 DEF Agents
  <2>8. ClosedSpans' = ClosedSpans
    <3>1. AgentSpans(Endings)' = Agents /\ AgentSpans(Endings) = Agents
      BY <2>2, <2>4, <2>6, <2>7 DEF AgentSpans, Endings
    <3> QED BY <2>6, <3>1 DEF ClosedSpans
  <2>9. Extends(OpenedSpans', OpenedSpans, l)
    <3>1. AgentSpans(Endings \cup {"running"})' = Agents \cup {l}
          /\ AgentSpans(Endings \cup {"running"}) = Agents
      BY <2>2, <2>4, <2>6, <2>7 DEF AgentSpans
    <3> QED BY <2>6, <3>1 DEF OpenedSpans, Extends
  <2>10. StartEvents' = StartEvents /\ EndEvents' = EndEvents
    BY <2>3 DEF StartEvents, EndEvents, EventsOf
  <2>11. Follows(StartEvents, OpenedSpans') /\ Size(OpenedSpans') = Size(StartEvents) + 1
    <3>1. Follows(StartEvents, OpenedSpans) /\ Size(StartEvents) = Size(OpenedSpans)
      BY <1>1, <1>b, <2>3, FiniteAccounts DEF Accounts, StartLag
    <3> QED BY <1>1, <2>9, <3>1, FiniteAccounts, GoesAhead
  <2>12. Follows(EndEvents, ClosedSpans) /\ Size(EndEvents) + EndLag = Size(ClosedSpans)
    BY <1>1, <1>b DEF Accounts
  <2>13. /\ Follows(StartEvents, OpenedSpans)' /\ Follows(EndEvents, ClosedSpans)'
         /\ (Size(StartEvents) + StartLag = Size(OpenedSpans))'
         /\ (Size(EndEvents) + EndLag = Size(ClosedSpans))'
    BY <2>3, <2>8, <2>10, <2>11, <2>12 DEF Follows, Size, StartLag, EndLag
  <2>14. \A i \in DOMAIN spans' : spans'[i].status # "absent"
    BY <1>c, <1>e, <2>2, <2>4
  <2>15. \A i \in Agents' : spans'[i].status = "running" <=> i = l
    BY <2>2, <2>4, <2>6, <2>7 DEF Endings
  <2>16. IsLast(l)' /\ spans'[l].node = AtNode'
    BY <1>f, <2>2, <2>3, <2>4, <2>6 DEF IsLast, AtNode, NewNode
  <2> QED BY <2>3, <2>5, <2>13, <2>14, <2>15, <2>16 DEF Accounts
<1>17. CASE SaveSpan
  <2>3. key' = mine BY <1>b, <1>17, AllWorks DEF SaveSpan
  <2>1. SamePhase
    BY <1>1, <1>b, <1>d, <1>g, <1>17, <2>3, TracingAssumption
      DEF SaveSpan, Within, ControlType, Once, Fresh, KeyNamed, Calls, AtWork, Finals,
          SamePhase, Working, AtNode, StartLag, EndLag
  <2>2. spans' = spans /\ log' = log BY <1>17 DEF SaveSpan
  <2> QED BY <1>1, <1>b, <1>e, <2>1, <2>2, AccountsKept, TablesStay
<1>18. CASE LogAgentStarted
  <2>1. LogEvent("AGENT_STARTED", NewNode, "none", wspan, TRUE)
    BY <1>b, <1>18, AllWorks DEF LogAgentStarted
  <2>2. /\ Len(log) \in Nat /\ Len(log') = Len(log) + 1
        /\ DOMAIN log = 1..Len(log) /\ DOMAIN log' = 1..(Len(log) + 1)
        /\ \A j \in 1..Len(log) : log'[j] = log[j]
        /\ log'[Len(log) + 1].event = "AGENT_STARTED" /\ log'[Len(log) + 1].node = NewNode
    BY <1>1, <1>b, <2>1, EventLogged
  <2>3. /\ step = "announce" /\ spans' = spans /\ step' = "put" /\ pc = "enter"
        /\ UNCHANGED <<pc, row, key, mine, node>>
    BY <1>1, <1>18 DEF LogAgentStarted, Within, Once
  <2>4. Working(key) /\ \A i : Working(i)' <=> Working(i)
    BY <2>3 DEF Working, AtWork
  <2>5. IsLast(key) /\ spans[key].node = NewNode /\ spans[key].status = "running" /\ key \in Agents
    <3>1. IsLast(key) /\ spans[key].node = AtNode BY <1>1, <1>b, <2>4 DEF Accounts
    <3>2. key \in Agents BY <3>1 DEF IsLast
    <3>3. spans[key].status = "running" BY <1>1, <1>b, <2>4, <3>2 DEF Accounts
    <3> QED BY <2>3, <3>1, <3>2, <3>3 DEF AtNode, NewNode
  <2>6. key \in DOMAIN OpenedSpans /\ OpenedSpans[key] = NewNode
        /\ \A k \in DOMAIN OpenedSpans : k <= key
    BY <2>5 DEF IsLast, OpenedSpans, AgentSpans
  <2> DEFINE l == Len(log) + 1
  <2>7. Extends(StartEvents', StartEvents, l) /\ StartEvents'[l] = NewNode
    <3>1. EventsOf("AGENT_STARTED")' = EventsOf("AGENT_STARTED") \cup {l}
      BY <2>2 DEF EventsOf
    <3>2. \A j \in EventsOf("AGENT_STARTED") : j < l /\ log'[j] = log[j]
      BY <2>2 DEF EventsOf
    <3>3. l \in Nat /\ log'[l].node = NewNode BY <2>2
    <3> HIDE DEF l
    <3> QED BY <3>1, <3>2, <3>3 DEF Extends, StartEvents
  <2>8. EndEvents' = EndEvents
    <3>1. EventsOf("AGENT_COMPLETED")' = EventsOf("AGENT_COMPLETED")
      BY <2>2 DEF EventsOf
    <3>2. \A j \in EventsOf("AGENT_COMPLETED") : log'[j] = log[j] BY <2>2 DEF EventsOf
    <3> QED BY <3>1, <3>2 DEF EndEvents
  <2> HIDE DEF l
  <2>9. Follows(StartEvents', OpenedSpans) /\ Size(StartEvents') = Size(OpenedSpans)
    <3>1. Follows(StartEvents, OpenedSpans) /\ Size(StartEvents) + 1 = Size(OpenedSpans)
      BY <1>1, <1>b, <2>3 DEF Accounts, StartLag
    <3> QED BY <1>1, <2>6, <2>7, <3>1, FiniteAccounts, ComesUp
  <2>10. /\ OpenedSpans' = OpenedSpans /\ ClosedSpans' = ClosedSpans /\ Agents' = Agents
         /\ StartLag' = 0 /\ EndLag = 0 /\ EndLag' = 0
    BY <2>3
      DEF OpenedSpans, ClosedSpans, AgentSpans, Agents, StartLag, EndLag
  <2>11. Size(OpenedSpans) \in Nat BY <1>1, FiniteAccounts
  <2>12. /\ Follows(StartEvents, OpenedSpans)' /\ Follows(EndEvents, ClosedSpans)'
         /\ (Size(StartEvents) + StartLag = Size(OpenedSpans))'
         /\ (Size(EndEvents) + EndLag = Size(ClosedSpans))'
    BY <1>1, <1>b, <2>8, <2>9, <2>10, <2>11 DEF Accounts, Follows, Size
  <2>13. AtNode' = AtNode /\ \A i : IsLast(i)' <=> IsLast(i)
    BY <2>3, <2>10 DEF AtNode, IsLast
  <2>14. \A i \in Agents : spans[i].status = "running" <=> Working(i)
    BY <1>1, <1>b DEF Accounts
  <2>15. \A i : Working(i) => IsLast(i) /\ spans[i].node = AtNode
    BY <1>1, <1>b DEF Accounts
  <2> QED BY <1>e, <2>3, <2>4, <2>10, <2>12, <2>13, <2>14, <2>15 DEF Accounts
<1>19. CASE WriteRow
  <2>1. SamePhase
    BY <1>1, <1>b, <1>d, <1>g, <1>19, TracingAssumption
      DEF WriteRow, Within, NewNode, Stages, Planning, ControlType, Once, Fresh,
          KeyNamed, Calls, AtWork, Finals, SamePhase, Working, AtNode, StartLag,
          EndLag
  <2>2. spans' = spans /\ log' = log BY <1>19 DEF WriteRow
  <2> QED BY <1>1, <1>b, <1>e, <2>1, <2>2, AccountsKept, TablesStay
<1>20. CASE WriteRaises BY <1>b, <1>20 DEF WriteRaises, Works
<1>21. CASE LogAudit
  <2>1. SamePhase
    BY <1>1, <1>b, <1>d, <1>g, <1>21, TracingAssumption
      DEF LogAudit, Return, ControlType, Once, Fresh, KeyNamed, Calls, AtWork, Finals,
          SamePhase, Working, AtNode, StartLag, EndLag
  <2>2. spans' = spans /\ log' = log BY <1>21 DEF LogAudit
  <2> QED BY <1>1, <1>b, <1>e, <2>1, <2>2, AccountsKept, TablesStay
<1>22. CASE TakeJob
  <2>1. SamePhase
    BY <1>1, <1>b, <1>d, <1>g, <1>22, TracingAssumption
      DEF TakeJob, Goto, ControlType, Once, Fresh, KeyNamed, Calls, AtWork, Finals,
          SamePhase, Working, AtNode, StartLag, EndLag
  <2>2. spans' = spans /\ log' = log BY <1>22 DEF TakeJob
  <2> QED BY <1>1, <1>b, <1>e, <2>1, <2>2, AccountsKept, TablesStay
<1>23. CASE LogStarted
  <2>1. SamePhase
    BY <1>1, <1>b, <1>d, <1>g, <1>23, TracingAssumption
      DEF LogStarted, Goto, ControlType, Once, Fresh, KeyNamed, Calls, AtWork, Finals,
          SamePhase, Working, AtNode, StartLag, EndLag
  <2>2. spans' = spans BY <1>23 DEF LogStarted
  <2>3. StartEvents' = StartEvents /\ EndEvents' = EndEvents
    <3>1. CASE task = "first"
      <4>1. LogEvent("JOB_STARTED", 0, "none", 0, TRUE) BY <1>b, <1>23, <3>1, AllWorks DEF LogStarted
      <4> QED BY <1>1, <1>b, <4>1, OtherEvent
    <3>2. CASE task # "first"
      <4>1. log' = log BY <1>23, <3>2 DEF LogStarted
      <4> QED BY <4>1 DEF StartEvents, EndEvents, EventsOf
    <3> QED BY <3>1, <3>2
  <2>4. AccountsStay BY <1>e, <2>2, <2>3 DEF AccountsStay, Agents
  <2> QED BY <1>1, <1>b, <2>1, <2>4, AccountsKept
<1>24. CASE OpenWorkerSpan
  <2>1. SamePhase
    BY <1>1, <1>b, <1>d, <1>g, <1>24, TracingAssumption
      DEF OpenWorkerSpan, Call, ControlType, Once, Fresh, KeyNamed, Calls, AtWork,
          Finals, SamePhase, Working, AtNode, StartLag, EndLag
  <2> DEFINE in == IF HasUser THEN "run" ELSE "fallback"
  <2>2. PICK ok \in BOOLEAN : Works(ok) /\ OpenSpan("worker", 0, in, ok)
    BY <1>24 DEF OpenWorkerSpan
  <2> HIDE DEF in
  <2>3. OpenSpan("worker", 0, in, TRUE) /\ log' = log BY <1>b, <1>24, <2>2, AllWorks DEF OpenWorkerSpan
  <2>4. /\ Len(spans') = Len(spans) + 1 /\ DOMAIN spans' = 1..(Len(spans) + 1)
        /\ \A j \in 1..Len(spans) : spans'[j] = spans[j]
        /\ spans'[Len(spans) + 1].kind # "agent" /\ spans'[Len(spans) + 1].status = "running"
    BY <1>1, <1>b, <2>3, RowStored
  <2>5. AccountsStay
    BY <1>c, <1>e, <2>3, <2>4
      DEF AccountsStay, Agents, StartEvents, EndEvents, EventsOf
  <2> QED BY <1>1, <1>b, <2>1, <2>5, AccountsKept
<1>25. CASE PlanningUnresolved
  <2>1. SamePhase
    BY <1>1, <1>b, <1>d, <1>g, <1>25, TracingAssumption
      DEF PlanningUnresolved, Goto, ControlType, Once, Fresh, KeyNamed, Calls, AtWork,
          Finals, SamePhase, Working, AtNode, StartLag, EndLag
  <2>2. spans' = spans /\ log' = log BY <1>25 DEF PlanningUnresolved
  <2> QED BY <1>1, <1>b, <1>e, <2>1, <2>2, AccountsKept, TablesStay
<1>26. CASE StartPlanning
  <2>1. SamePhase
    BY <1>1, <1>b, <1>d, <1>g, <1>26, TracingAssumption
      DEF StartPlanning, Call, ControlType, Once, Fresh, KeyNamed, Calls, AtWork,
          Finals, SamePhase, Working, AtNode, StartLag, EndLag
  <2>2. spans' = spans /\ log' = log BY <1>26 DEF StartPlanning
  <2> QED BY <1>1, <1>b, <1>e, <2>1, <2>2, AccountsKept, TablesStay
<1>27. CASE OpenSandbox
  <2>1. SamePhase
    BY <1>1, <1>b, <1>d, <1>g, <1>27, TracingAssumption
      DEF OpenSandbox, Goto, ControlType, Once, Fresh, KeyNamed, Calls, AtWork,
          Finals, SamePhase, Working, AtNode, StartLag, EndLag
  <2> DEFINE in == "run"
  <2>2. PICK ok \in BOOLEAN : Works(ok) /\ OpenSpan("sandbox", 0, in, ok)
    BY <1>27 DEF OpenSandbox
  <2> HIDE DEF in
  <2>3. OpenSpan("sandbox", 0, in, TRUE) /\ log' = log BY <1>b, <1>27, <2>2, AllWorks DEF OpenSandbox
  <2>4. /\ Len(spans') = Len(spans) + 1 /\ DOMAIN spans' = 1..(Len(spans) + 1)
        /\ \A j \in 1..Len(spans) : spans'[j] = spans[j]
        /\ spans'[Len(spans) + 1].kind # "agent" /\ spans'[Len(spans) + 1].status = "running"
    BY <1>1, <1>b, <2>3, RowStored
  <2>5. AccountsStay
    BY <1>c, <1>e, <2>3, <2>4
      DEF AccountsStay, Agents, StartEvents, EndEvents, EventsOf
  <2> QED BY <1>1, <1>b, <2>1, <2>5, AccountsKept
<1>28. CASE LogSandbox
  <2>1. SamePhase
    BY <1>1, <1>b, <1>d, <1>g, <1>28, TracingAssumption
      DEF LogSandbox, Goto, ControlType, Once, Fresh, KeyNamed, Calls, AtWork, Finals,
          SamePhase, Working, AtNode, StartLag, EndLag
  <2>2. spans' = spans BY <1>28 DEF LogSandbox
  <2>3. StartEvents' = StartEvents /\ EndEvents' = EndEvents
    <3> DEFINE event == "SANDBOX_EXECUTED"
    <3>1. LogEvent(event, 0, "success", Len(spans), TRUE)
      BY <1>b, <1>28, AllWorks DEF LogSandbox
    <3>2. event \notin {"AGENT_STARTED", "AGENT_COMPLETED"} OBVIOUS
    <3> HIDE DEF event
    <3> QED BY <1>1, <1>b, <3>1, <3>2, OtherEvent
  <2>4. AccountsStay BY <1>e, <2>2, <2>3 DEF AccountsStay, Agents
  <2> QED BY <1>1, <1>b, <2>1, <2>4, AccountsKept
<1>29. CASE SandboxRaises
  <2>1. SamePhase
    BY <1>1, <1>b, <1>d, <1>g, <1>29, TracingAssumption
      DEF SandboxRaises, Goto, ControlType, Once, Fresh, KeyNamed, Calls, AtWork,
          Finals, SamePhase, Working, AtNode, StartLag, EndLag
  <2>2. spans' = spans /\ log' = log BY <1>29 DEF SandboxRaises
  <2> QED BY <1>1, <1>b, <1>e, <2>1, <2>2, AccountsKept, TablesStay
<1>30. CASE CloseSandbox
  <2>1. SamePhase
    BY <1>1, <1>b, <1>d, <1>g, <1>30, TracingAssumption
      DEF CloseSandbox, Goto, ControlType, Once, Fresh, KeyNamed, Calls, AtWork,
          Finals, SamePhase, Working, AtNode, StartLag, EndLag
  <2>2. PICK ok \in BOOLEAN : CloseSpan(Len(spans), IF pc = "boxed" THEN "success" ELSE "failed", ok)
    BY <1>30 DEF CloseSandbox
  <2>3. Len(spans) \notin Agents
    BY <1>1, <1>c, <1>30 DEF Agents, Places, CloseSandbox, Goto
  <2>4. (IF pc = "boxed" THEN "success" ELSE "failed") \in Endings BY DEF Endings, FinalStatus
  <2>5. /\ DOMAIN spans' = DOMAIN spans
        /\ \A j \in DOMAIN spans :
             /\ spans'[j].kind = spans[j].kind /\ spans'[j].node = spans[j].node
             /\ spans'[j].status = spans[j].status \/ (j = Len(spans) /\ spans'[j].status \in Endings)
    <3> DEFINE status == IF pc = "boxed" THEN "success" ELSE "failed"
    <3>1. CloseSpan(Len(spans), status, ok) /\ status \in Endings BY <2>2, <2>4
    <3> HIDE DEF status
    <3> QED BY <1>1, <3>1, RowClosed
  <2>6. log' = log BY <1>30 DEF CloseSandbox
  <2>7. AccountsStay
    BY <1>e, <2>3, <2>5, <2>6
      DEF AccountsStay, Agents, StartEvents, EndEvents, EventsOf, Endings
  <2> QED BY <1>1, <1>b, <2>1, <2>7, AccountsKept
<1>31. CASE StageCompletes
  <2>1. SamePhase
    BY <1>1, <1>b, <1>d, <1>g, <1>31, TracingAssumption
      DEF StageCompletes, ControlType, Once, Fresh, KeyNamed, Calls, AtWork, Finals,
          SamePhase, Working, AtNode, StartLag, EndLag
  <2>2. Fares("ok") /\ log' = log BY <1>31 DEF StageCompletes
  <2>3. AccountsStay
    BY <1>1, <1>e, <2>2, RowFared
      DEF AccountsStay, Agents, StartEvents, EndEvents, EventsOf
  <2> QED BY <1>1, <1>b, <2>1, <2>3, AccountsKept
<1>32. CASE StageRaises
  <2>1. SamePhase
    BY <1>1, <1>b, <1>d, <1>g, <1>32, TracingAssumption
      DEF StageRaises, Call, ControlType, Once, Fresh, KeyNamed, Calls, AtWork,
          Finals, SamePhase, Working, AtNode, StartLag, EndLag
  <2>2. Fares("raised") /\ log' = log BY <1>32 DEF StageRaises
  <2>3. AccountsStay
    BY <1>1, <1>e, <2>2, RowFared
      DEF AccountsStay, Agents, StartEvents, EndEvents, EventsOf
  <2> QED BY <1>1, <1>b, <2>1, <2>3, AccountsKept
<1>33. CASE Reroute
  <2>1. SamePhase
    BY <1>1, <1>b, <1>d, <1>g, <1>33, TracingAssumption
      DEF Reroute, Call, ControlType, Once, Fresh, KeyNamed, Calls, AtWork, Finals,
          SamePhase, Working, AtNode, StartLag, EndLag
  <2>2. spans' = spans /\ log' = log BY <1>33 DEF Reroute
  <2> QED BY <1>1, <1>b, <1>e, <2>1, <2>2, AccountsKept, TablesStay
<1>34. CASE Proceed
  <2>1. SamePhase
    BY <1>1, <1>b, <1>d, <1>g, <1>34, TracingAssumption
      DEF Proceed, Call, ControlType, Once, Fresh, KeyNamed, Calls, AtWork, Finals,
          SamePhase, Working, AtNode, StartLag, EndLag
  <2>2. spans' = spans /\ log' = log BY <1>34 DEF Proceed
  <2> QED BY <1>1, <1>b, <1>e, <2>1, <2>2, AccountsKept, TablesStay
<1>35. CASE ReadRaises BY <1>b, <1>35 DEF ReadRaises, Works
<1>36. CASE Succeeds
  <2>1. SamePhase
    BY <1>1, <1>b, <1>d, <1>g, <1>36, TracingAssumption
      DEF Succeeds, Goto, ControlType, Once, Fresh, KeyNamed, Calls, AtWork, Finals,
          SamePhase, Working, AtNode, StartLag, EndLag
  <2>2. spans' = spans /\ log' = log BY <1>36 DEF Succeeds
  <2> QED BY <1>1, <1>b, <1>e, <2>1, <2>2, AccountsKept, TablesStay
<1>37. CASE NotCompleted
  <2>1. SamePhase
    BY <1>1, <1>b, <1>d, <1>g, <1>37, TracingAssumption
      DEF NotCompleted, Goto, ControlType, Once, Fresh, KeyNamed, Calls, AtWork,
          Finals, SamePhase, Working, AtNode, StartLag, EndLag
  <2>2. spans' = spans /\ log' = log BY <1>37 DEF NotCompleted
  <2> QED BY <1>1, <1>b, <1>e, <2>1, <2>2, AccountsKept, TablesStay
<1>38. CASE HandleFailure
  <2>1. SamePhase
    BY <1>1, <1>b, <1>d, <1>g, <1>38, TracingAssumption
      DEF HandleFailure, Call, ControlType, Once, Fresh, KeyNamed, Calls, AtWork,
          Finals, SamePhase, Working, AtNode, StartLag, EndLag
  <2>2. spans' = spans /\ log' = log BY <1>38 DEF HandleFailure
  <2> QED BY <1>1, <1>b, <1>e, <2>1, <2>2, AccountsKept, TablesStay
<1>39. CASE HandleRaises BY <1>b, <1>39 DEF HandleRaises, Works
<1>40. CASE ReadFinal
  <2>1. SamePhase
    BY <1>1, <1>b, <1>d, <1>g, <1>40, TracingAssumption
      DEF ReadFinal, Goto, ControlType, Once, Fresh, KeyNamed, Calls, AtWork, Finals,
          SamePhase, Working, AtNode, StartLag, EndLag
  <2>2. spans' = spans /\ log' = log BY <1>40 DEF ReadFinal
  <2> QED BY <1>1, <1>b, <1>e, <2>1, <2>2, AccountsKept, TablesStay
<1>41. CASE ReadFinalRaises BY <1>b, <1>41 DEF ReadFinalRaises, Works
<1>42. CASE LogFinal
  <2>1. SamePhase
    BY <1>1, <1>b, <1>d, <1>g, <1>42, TracingAssumption
      DEF LogFinal, Goto, ControlType, Once, Fresh, KeyNamed, Calls, AtWork, Finals,
          SamePhase, Working, AtNode, StartLag, EndLag
  <2>2. spans' = spans BY <1>42 DEF LogFinal
  <2>3. StartEvents' = StartEvents /\ EndEvents' = EndEvents
    <3> DEFINE event == IF FinalStatus = "success" THEN "JOB_COMPLETED" ELSE "JOB_FAILED"
    <3>1. LogEvent(event, 0, FinalStatus, wspan, TRUE)
      BY <1>b, <1>42, AllWorks DEF LogFinal
    <3>2. event \notin {"AGENT_STARTED", "AGENT_COMPLETED"} OBVIOUS
    <3> HIDE DEF event
    <3> QED BY <1>1, <1>b, <3>1, <3>2, OtherEvent
  <2>4. AccountsStay BY <1>e, <2>2, <2>3 DEF AccountsStay, Agents
  <2> QED BY <1>1, <1>b, <2>1, <2>4, AccountsKept
<1>43. CASE CloseWorkerSpan
  <2>1. SamePhase
    BY <1>1, <1>b, <1>d, <1>g, <1>43, TracingAssumption
      DEF CloseWorkerSpan, Goto, ControlType, Once, Fresh, KeyNamed, Calls, AtWork,
          Finals, SamePhase, Working, AtNode, StartLag, EndLag
  <2>2. PICK ok \in BOOLEAN : CloseSpan(wspan, FinalStatus, ok)
    BY <1>43 DEF CloseWorkerSpan
  <2>3. wspan \notin Agents
    BY <1>1, <1>c, <1>43 DEF Agents, Places, CloseWorkerSpan, Goto
  <2>4. (FinalStatus) \in Endings BY DEF Endings, FinalStatus
  <2>5. /\ DOMAIN spans' = DOMAIN spans
        /\ \A j \in DOMAIN spans :
             /\ spans'[j].kind = spans[j].kind /\ spans'[j].node = spans[j].node
             /\ spans'[j].status = spans[j].status \/ (j = wspan /\ spans'[j].status \in Endings)
    <3> DEFINE status == FinalStatus
    <3>1. CloseSpan(wspan, status, ok) /\ status \in Endings BY <2>2, <2>4
    <3> HIDE DEF status
    <3> QED BY <1>1, <3>1, RowClosed
  <2>6. log' = log BY <1>43 DEF CloseWorkerSpan
  <2>7. AccountsStay
    BY <1>e, <2>3, <2>5, <2>6
      DEF AccountsStay, Agents, StartEvents, EndEvents, EventsOf, Endings
  <2> QED BY <1>1, <1>b, <2>1, <2>7, AccountsKept
<1>44. CASE FinishTrace
  <2>1. SamePhase
    BY <1>1, <1>b, <1>d, <1>g, <1>44, TracingAssumption
      DEF FinishTrace, Done, ControlType, Once, Fresh, KeyNamed, Calls, AtWork,
          Finals, SamePhase, Working, AtNode, StartLag, EndLag
  <2>2. spans' = spans /\ log' = log BY <1>44 DEF FinishTrace
  <2> QED BY <1>1, <1>b, <1>e, <2>1, <2>2, AccountsKept, TablesStay
<1>45. CASE WorkerDies BY <1>b, <1>45 DEF WorkerDies, Works
<1>46. CASE UNCHANGED vars
  <2>1. SamePhase
    BY <1>g, <1>46
      DEF SamePhase, Working, AtNode, StartLag, EndLag, Ending, NewStatus, NewNode
  <2>2. spans' = spans /\ log' = log BY <1>46
  <2> QED BY <1>1, <1>b, <1>e, <2>1, <2>2, AccountsKept, TablesStay
<1> QED
    BY <1>1, <1>2, <1>3, <1>4, <1>5, <1>6, <1>7, <1>8, <1>9, <1>10, <1>11, <1>12,
     <1>13, <1>14, <1>15, <1>16, <1>17, <1>18, <1>19, <1>20, <1>21, <1>22, <1>23,
     <1>24, <1>25, <1>26, <1>27, <1>28, <1>29, <1>30, <1>31, <1>32, <1>33, <1>34,
     <1>35, <1>36, <1>37, <1>38, <1>39, <1>40, <1>41, <1>42, <1>43, <1>44, <1>45,
     <1>46
     DEF Next, ApiStep, WorkerStep, UpdateSession

\* when nothing is stored, nothing is told twice
LEMMA EmptyAccounts ==
  ASSUME log = <<>>, \A i \in DOMAIN spans : spans[i].status = "absent"
  PROVE  InStep(StartEvents, OpenedSpans) /\ InStep(EndEvents, ClosedSpans)
<1>1. /\ DOMAIN StartEvents = {} /\ DOMAIN EndEvents = {}
      /\ DOMAIN OpenedSpans = {} /\ DOMAIN ClosedSpans = {}
  BY
    DEF StartEvents, EndEvents, OpenedSpans, ClosedSpans, EventsOf, AgentSpans,
        Agents, Endings
<1> QED BY <1>1 DEF InStep, Follows

LEMMA InitAccounts == Init => Unkept /\ Accounts
<1> SUFFICES ASSUME Init PROVE Unkept /\ Accounts
  OBVIOUS
<1>1. log = <<>> /\ spans = <<>> /\ step = "idle" /\ pc = "poll" /\ trace = "none"
  BY DEF Init
<1>2. DOMAIN spans = {} /\ Agents = {}
  BY <1>1 DEF Agents
<1>3. InStep(StartEvents, OpenedSpans) /\ InStep(EndEvents, ClosedSpans)
  BY <1>1, <1>2, EmptyAccounts
<1>4. \A i : ~Working(i)
  BY <1>1 DEF Working, AtWork
<1>5. Size(OpenedSpans) \in Nat /\ Size(ClosedSpans) \in Nat
  BY <1>1, FiniteAccounts DEF SpanType, LogType, Init
<1>6. StartLag = 0 /\ EndLag = 0
  BY <1>1 DEF StartLag, EndLag
<1>7. Unkept BY <1>1, <1>2 DEF Unkept
<1>8. Accounts
  BY <1>1, <1>2, <1>3, <1>4, <1>5, <1>6 DEF Accounts, InStep, Size
<1> QED BY <1>7, <1>8

LEMMA NextAccounts ==
  (IInv /\ Unkept /\ Accounts) /\ [Next]_vars => (IInv /\ Unkept /\ Accounts)'
  BY NextIInv, UnkeptStep, AccountsStep DEF IInv

\* Where nothing failed and nobody died, the event log and the span table tell
\* one story of the agents, whatever the number of stages and loops: the same
\* starts in the same order, and the same ends.  A database that refuses the
\* trace keeps neither.
THEOREM TheAccountsAgree == Spec => []AccountsAgree
<1>1. IInv /\ Unkept /\ Accounts => AccountsAgree
  <2> SUFFICES ASSUME IInv, Unkept, Accounts, step = "idle", faults = 0, crashes = 0
               PROVE  InStep(StartEvents, OpenedSpans) /\ InStep(EndEvents, ClosedSpans)
    BY DEF AccountsAgree
  <2>1. CASE enforced BY <2>1, EmptyAccounts DEF Unkept
  <2>2. CASE ~enforced
    <3>1. /\ Size(StartEvents) \in Nat /\ Size(EndEvents) \in Nat
          /\ StartLag = 0 /\ EndLag = 0
      BY FiniteAccounts DEF IInv, StartLag, EndLag
    <3> QED BY <2>2, <3>1 DEF Accounts, Stored, InStep, Size
  <2> QED BY <2>1, <2>2
<1> QED BY InitIInv, InitAccounts, NextAccounts, <1>1, PTL DEF Spec
=============================================================================
