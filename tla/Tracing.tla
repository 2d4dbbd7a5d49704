------------------------------ MODULE Tracing ------------------------------
(***************************************************************************)
(* What the program records of one run of a job in an SQL deployment: the  *)
(* trace, its spans and events (observability/), the session row, and the  *)
(* Redis key active_span:<session> that names the span of the agent at     *)
(* work (brain_service.py:175-252).                                        *)
(*                                                                         *)
(* The API thread starts the trace and puts the job into the queue; the    *)
(* worker opens its span, runs the conductor, whose stages call            *)
(* update_session, and ends the trace.  One action is one access to the    *)
(* database or to Redis: an API thread may go on, a storage operation may  *)
(* fail and the worker may die between any two.  Errors of the trace store *)
(* and of the span key are swallowed, other errors raise.                  *)
(*                                                                         *)
(* Module JobQueue has the queue and the retries of many jobs, Conductor   *)
(* the pipeline; here both are reduced to what decides the calls.          *)
(***************************************************************************)
EXTENDS Naturals, Sequences, FiniteSets

CONSTANTS Implementation, Validation, Repair, Learning, \* stages by number
          MaxLoops,     \* conductor.py:259
          MaxSandbox,   \* bound on the sandbox spans of a run
          MaxFaults,    \* bound on the storage operations that fail
          MaxCrashes,   \* bound on the processes that die
          Databases     \* does the database enforce foreign keys?

Planning == 1
Stages == Planning..Learning

ASSUME TracingAssumption ==
  /\ {Implementation, Validation, Repair, Learning} \subseteq Nat
  /\ Planning < Implementation /\ Implementation <= Validation
  /\ Validation < Repair /\ Repair < Learning
  /\ MaxLoops \in Nat \ {0}
  /\ {MaxSandbox, MaxFaults, MaxCrashes} \subseteq Nat
  /\ Databases \subseteq BOOLEAN

VARIABLES enforced,  \* foreign keys are enforced (PostgreSQL; SQLite does not)
          api,       \* where the request is
          queue,     \* the payloads of the job: "first" has a user and a
                     \* trace id, "retry" has neither
          trace,     \* the row of the trace, by its status
          spans,     \* the rows of the spans; the id of a span is its place
          key,       \* what the span key holds: an id, or 0 for nothing
          log,       \* the event rows of the trace
          row,       \* the session row
          task,      \* the payload the worker holds
          pc,        \* where the worker and its conductor are
          step,      \* where they are inside update_session
          node,      \* the stage they are at
          loop,      \* loop_count
          mine,      \* history: the span that update_session opened for the
                     \* agent of this stage, 0 when it opened none
          wspan,     \* worker_span_id
          handling,  \* the worker is in its 'except Exception as run_error'
          final,     \* final_status
          verdict,   \* what the worker made of the job
          handled,   \* history: how often it handled a failure of the job
          faults, crashes

rowVars == <<trace, spans, key, log, row>>
workVars == <<task, pc, step, node, loop, mine, wspan, handling, final>>
jobVars == <<queue, verdict, handled>>
vars == <<enforced, api, rowVars, workVars, jobVars, faults, crashes>>

Endings == {"success", "failed"}
\* "absent": the id is known, its row could not be inserted; did (history):
\* how the agent of the span fared
Span == [kind : {"api", "worker", "agent", "sandbox"},
         node : 0..Learning,     \* of the agent; 0 for the others
         in : {"run", "fallback"},
         status : Endings \cup {"absent", "running"},
         did : {"pending", "ok", "raised"}]
Event == [event : {"JOB_ENQUEUED", "JOB_STARTED", "JOB_COMPLETED", "JOB_FAILED",
                   "AGENT_STARTED", "AGENT_COMPLETED", "SANDBOX_EXECUTED"},
          node : Nat, status : Endings \cup {"none"}]
Row == [status : {"none", "IN_PROGRESS", "COMPLETED", "FAILED"},
        node : 0..Learning]     \* 0 is "init_node"
Calls == {"open", "enter", "failing", "finish", "sync"}

TypeOK ==
  /\ enforced \in Databases
  /\ api \in {"start", "root", "log", "submit", "leave", "raise", "accepted",
              "rejected", "dead"}
  /\ queue \in Seq({"first", "retry"})
  /\ trace \in Endings \cup {"none", "running"}
  /\ spans \in Seq(Span)
  /\ key \in 0..Len(spans)
  /\ log \in Seq(Event)
  /\ row \in Row
  /\ task \in {"none", "first", "retry"}
  /\ pc \in Calls \cup {"poll", "begin", "span", "plan", "run", "sandbox", "boxed",
                        "broken", "tested", "decide", "raised", "read", "final",
                        "finalLog", "finalSpan", "finalTrace"}
  /\ step \in {"idle", "get", "peek", "close", "forget", "note", "create", "save",
               "announce", "put", "audit"}
  /\ node \in Stages
  /\ loop \in 0..(MaxLoops - 1)
  /\ mine \in 0..Len(spans)
  /\ wspan \in 0..Len(spans)
  /\ handling \in BOOLEAN
  /\ final \in {"none", "IN_PROGRESS", "COMPLETED", "FAILED"}
  /\ verdict \in Endings \cup {"none"}
  /\ handled \in Nat
  /\ faults \in 0..MaxFaults
  /\ crashes \in 0..MaxCrashes

Init ==
  /\ enforced \in Databases
  /\ api = "start"
  /\ queue = <<>>
  /\ trace = "none"
  /\ spans = <<>>
  /\ key = 0
  /\ log = <<>>
  /\ row = [status |-> "none", node |-> 0]
  /\ task = "none"
  /\ pc = "poll"
  /\ step = "idle"
  /\ node = Planning
  /\ loop = 0
  /\ mine = 0
  /\ wspan = 0
  /\ handling = FALSE
  /\ final = "none"
  /\ verdict = "none"
  /\ handled = 0
  /\ faults = 0
  /\ crashes = 0

-----------------------------------------------------------------------------
(* The trace store.  Every operation works or fails; whoever calls it goes *)
(* on in either case, and what an insert refers to need not be there       *)
(* unless foreign keys are enforced.                                       *)

Works(ok) == IF ok THEN UNCHANGED faults ELSE faults < MaxFaults /\ faults' = faults + 1

\* the session a trace refers to when it is started (projects.py:96), and the
\* sessions there are
Pending == "pending-session-init"
Sessions == IF row.status = "none" THEN {} ELSE {"session"}

CreateTrace(ok) ==
  trace' = IF ok /\ (enforced => Pending \in Sessions) THEN "running" ELSE trace

EndTrace(status, ok) ==
  trace' = IF ok /\ trace # "none" THEN status ELSE trace

\* start_span without a trace id makes up a trace of a user and a session
\* that do not exist
HasTrace(in) == IF in = "run" THEN trace # "none" ELSE ~enforced

OpenSpan(kind, n, in, ok) ==
  spans' = Append(spans,
             [kind |-> kind, node |-> n, in |-> in, did |-> "pending",
              status |-> IF ok /\ (enforced => HasTrace(in)) THEN "running" ELSE "absent"])

CloseSpan(id, status, ok) ==
  spans' = IF ok /\ spans[id].status # "absent"
           THEN [spans EXCEPT ![id].status = status] ELSE spans

\* an event refers to the trace and to the current span of its context, 0 if
\* there is none
LogEvent(event, n, status, at, ok) ==
  LET refers == trace # "none" /\ (at # 0 => spans[at].status # "absent")
  IN log' = IF ok /\ (enforced => refers)
            THEN Append(log, [event |-> event, node |-> n, status |-> status])
            ELSE log

-----------------------------------------------------------------------------
(* The request that starts a run (run_project_pipeline).                   *)

ApiGoto(from, to) == api = from /\ api' = to

StartTrace ==
  /\ ApiGoto("start", "root")
  /\ \E ok \in BOOLEAN : Works(ok) /\ CreateTrace(ok)
  /\ UNCHANGED <<enforced, spans, key, log, row, workVars, jobVars, crashes>>

OpenRoot ==
  /\ ApiGoto("root", "log")
  /\ \E ok \in BOOLEAN : Works(ok) /\ OpenSpan("api", 0, "run", ok)
  /\ UNCHANGED <<enforced, trace, key, log, row, workVars, jobVars, crashes>>

LogEnqueued ==
  /\ ApiGoto("log", "submit")
  /\ \E ok \in BOOLEAN : Works(ok) /\ LogEvent("JOB_ENQUEUED", 0, "none", Len(spans), ok)
  /\ UNCHANGED <<enforced, trace, spans, key, row, workVars, jobVars, crashes>>

Created == [status |-> "IN_PROGRESS", node |-> 0]

\* create_session, then enqueue_job
Submit ==
  /\ ApiGoto("submit", "leave")
  /\ row' = Created
  /\ queue' = Append(queue, "first")
  /\ UNCHANGED <<enforced, trace, spans, key, log, workVars, verdict, handled, faults,
                 crashes>>

\* billing refuses the run, or an error before the job is queued
SubmitRaises ==
  /\ ApiGoto("submit", "raise")
  /\ row' \in {row, Created}
  /\ UNCHANGED <<enforced, trace, spans, key, log, workVars, jobVars, faults, crashes>>

\* SpanContext.__exit__; the worker may be at work already
CloseRoot ==
  /\ \/ ApiGoto("leave", "accepted")
     \/ ApiGoto("raise", "rejected")
  /\ \E ok \in BOOLEAN :
       Works(ok) /\ CloseSpan(1, IF api = "leave" THEN "success" ELSE "failed", ok)
  /\ UNCHANGED <<enforced, trace, key, log, row, workVars, jobVars, crashes>>

ApiDies ==
  /\ api \notin {"accepted", "rejected", "dead"}
  /\ crashes < MaxCrashes
  /\ crashes' = crashes + 1
  /\ api' = "dead"
  /\ UNCHANGED <<enforced, rowVars, workVars, jobVars, faults>>

ApiStep ==
  StartTrace \/ OpenRoot \/ LogEnqueued \/ Submit \/ SubmitRaises \/ CloseRoot

-----------------------------------------------------------------------------
(* BrainService.update_session.  Which call it is follows from where its   *)
(* caller is; the row that it reads first does not change before it is     *)
(* written, since one worker at a time has a user for the session.         *)

\* the active_node and the status of the call; 0 for no active_node
NewNode == IF pc = "enter" THEN node ELSE 0
NewStatus ==
  CASE pc = "open" -> "IN_PROGRESS"
    [] pc = "enter" -> IF node = Planning THEN "IN_PROGRESS" ELSE row.status
    [] pc = "finish" -> "COMPLETED"
    [] OTHER -> "FAILED"

\* the call ends the span of the node that is active
Ends == NewStatus \in {"COMPLETED", "FAILED"} /\ NewNode = 0 /\ row.node # 0

\* resolve_user_id: without a user the first read raises
HasUser == task = "first"

\* where the caller goes on; the conductor ignores what update_session raises
Return(ok) ==
  /\ step' = "idle"
  /\ pc' = CASE pc = "open" -> IF ok THEN "plan" ELSE "poll"
             [] pc = "enter" -> "run"
             [] pc = "failing" -> "raised"
             [] pc = "finish" -> "read"
             [] pc = "sync" -> IF ok \/ handling THEN "final" ELSE "raised"
  /\ handling' = (handling \/ (pc = "sync" /\ ~ok))
  /\ task' = IF pc = "open" /\ ~ok THEN "none" ELSE task

Within(from, to) == step = from /\ step' = to /\ UNCHANGED <<pc, handling, task>>

restVars == <<enforced, api, jobVars, node, loop, wspan, final, crashes>>

\* mutant: the span of the stage before is not closed
FirstStepWithoutClosing ==
  IF Ends THEN "peek" ELSE IF NewNode # 0 THEN "create" ELSE "put"

FirstStep ==
  IF Ends \/ (NewNode # 0 /\ row.node # 0) THEN "peek"
  ELSE IF NewNode # 0 THEN "create" ELSE "put"

ReadSession ==
  /\ HasUser
  /\ Within("get", FirstStep)
  /\ UNCHANGED <<restVars, rowVars, mine, faults>>

ReadSessionRaises ==
  /\ step = "get"
  /\ IF HasUser THEN Works(FALSE) ELSE UNCHANGED faults
  /\ Return(FALSE)
  /\ UNCHANGED <<restVars, rowVars, mine>>

FindSpan ==
  /\ key # 0
  /\ Within("peek", "close")
  /\ UNCHANGED <<restVars, rowVars, mine, faults>>

\* Redis has no key, or fails: between stages the event is logged anyway; at
\* the end of the session status_str is unbound, which raises before anything
\* is written
FindNoSpan ==
  /\ step = "peek"
  /\ IF key = 0 THEN UNCHANGED faults ELSE Works(FALSE)
  /\ IF Ends THEN Return(FALSE) ELSE Within("peek", "note")
  /\ UNCHANGED <<restVars, rowVars, mine>>

\* mutant: whatever happens, the agent is said to have succeeded
EndingRosy == "success"

\* status_str, or the literal "success" between stages
Ending == IF NewStatus = "FAILED" /\ NewNode = 0 THEN "failed" ELSE "success"

CloseAgentSpan ==
  /\ Within("close", "forget")
  /\ \E ok \in BOOLEAN : Works(ok) /\ CloseSpan(key, Ending, ok)
  /\ UNCHANGED <<restVars, trace, key, log, row, mine>>

ForgetSpan ==
  /\ Within("forget", "note")
  /\ \E ok \in BOOLEAN : Works(ok) /\ key' = IF ok THEN 0 ELSE key
  /\ UNCHANGED <<restVars, trace, spans, log, row, mine>>

\* mutant: the event names the stage that begins
LogCompletedOfNext ==
  /\ Within("note", IF NewNode # 0 THEN "create" ELSE "put")
  /\ \E ok \in BOOLEAN :
       Works(ok) /\ LogEvent("AGENT_COMPLETED", IF NewNode # 0 THEN NewNode ELSE row.node,
                             Ending, wspan, ok)
  /\ UNCHANGED <<restVars, trace, spans, key, row, mine>>

LogCompleted ==
  /\ Within("note", IF NewNode # 0 THEN "create" ELSE "put")
  /\ \E ok \in BOOLEAN :
       Works(ok) /\ LogEvent("AGENT_COMPLETED", row.node, Ending, wspan, ok)
  /\ UNCHANGED <<restVars, trace, spans, key, row, mine>>

CreateAgentSpan ==
  /\ Within("create", "save")
  /\ \E ok \in BOOLEAN : Works(ok) /\ OpenSpan("agent", NewNode, "run", ok)
  /\ mine' = Len(spans) + 1
  /\ UNCHANGED <<restVars, trace, key, log, row>>

\* mutant: a span whose row could not be inserted has no key
SaveStoredSpan ==
  /\ Within("save", "announce")
  /\ \E ok \in BOOLEAN :
       Works(ok) /\ key' = IF ok /\ spans[mine].status # "absent" THEN mine ELSE key
  /\ UNCHANGED <<restVars, trace, spans, log, row, mine>>

SaveSpan ==
  /\ Within("save", "announce")
  /\ \E ok \in BOOLEAN : Works(ok) /\ key' = IF ok THEN mine ELSE key
  /\ UNCHANGED <<restVars, trace, spans, log, row, mine>>

LogAgentStarted ==
  /\ Within("announce", "put")
  /\ \E ok \in BOOLEAN : Works(ok) /\ LogEvent("AGENT_STARTED", NewNode, "none", wspan, ok)
  /\ UNCHANGED <<restVars, trace, spans, key, row, mine>>

WriteRow ==
  /\ Within("put", "audit")
  /\ row' = [status |-> NewStatus, node |-> IF NewNode = 0 THEN row.node ELSE NewNode]
  /\ UNCHANGED <<restVars, trace, spans, key, log, mine, faults>>

\* SQLSessionRepository.update, or log_audit after it
WriteRaises ==
  /\ step \in {"put", "audit"}
  /\ Works(FALSE)
  /\ Return(FALSE)
  /\ UNCHANGED <<restVars, rowVars, mine>>

LogAudit ==
  /\ step = "audit"
  /\ Return(TRUE)
  /\ UNCHANGED <<restVars, rowVars, mine, faults>>

UpdateSession ==
  \/ ReadSession \/ ReadSessionRaises \/ FindSpan \/ FindNoSpan
  \/ CloseAgentSpan \/ ForgetSpan \/ LogCompleted
  \/ CreateAgentSpan \/ SaveSpan \/ LogAgentStarted
  \/ WriteRow \/ WriteRaises \/ LogAudit

-----------------------------------------------------------------------------
(* The worker, up to the conductor.                                        *)

freeVars == <<enforced, api>>
Goto(from, to) == pc = from /\ pc' = to /\ step' = step
Call(from, to) == pc = from /\ step = "idle" /\ pc' = to /\ step' = "get"

TakeJob ==
  /\ queue # <<>>
  /\ Goto("poll", "begin")
  /\ task' = Head(queue)
  /\ queue' = Tail(queue)
  /\ UNCHANGED <<freeVars, rowVars, node, loop, mine, wspan, handling, final, verdict,
                 handled, faults, crashes>>

\* EventLogger.log does nothing without a trace id
LogStarted ==
  /\ Goto("begin", "span")
  /\ \/ /\ task = "first"
        /\ \E ok \in BOOLEAN : Works(ok) /\ LogEvent("JOB_STARTED", 0, "none", 0, ok)
     \/ task = "retry" /\ UNCHANGED <<log, faults>>
  /\ UNCHANGED <<freeVars, trace, spans, key, row, task, node, loop, mine, wspan,
                 handling, final, jobVars, crashes>>

OpenWorkerSpan ==
  /\ Call("span", "open")
  /\ \E ok \in BOOLEAN :
       Works(ok) /\ OpenSpan("worker", 0, IF HasUser THEN "run" ELSE "fallback", ok)
  /\ wspan' = Len(spans) + 1
  /\ UNCHANGED <<freeVars, trace, key, log, row, task, node, loop, mine, handling,
                 final, jobVars, crashes>>

(* The conductor's run, as far as update_session and the sandbox see it.   *)

PlanningUnresolved ==
  /\ Goto("plan", "raised")
  /\ handling' = TRUE
  /\ UNCHANGED <<freeVars, rowVars, task, node, loop, mine, wspan, final, jobVars,
                 faults, crashes>>

StartPlanning ==
  /\ Call("plan", "enter")
  /\ UNCHANGED <<freeVars, rowVars, task, node, loop, mine, wspan, handling, final,
                 jobVars, faults, crashes>>

\* how the agent of this stage fared, noted at its span
Fares(did) == spans' = IF mine = 0 THEN spans ELSE [spans EXCEPT ![mine].did = did]

\* ToolManager.execute_in_sandbox; a phase that is retried opens another span
OpenSandbox ==
  /\ node = Validation
  /\ Cardinality({i \in DOMAIN spans : spans[i].kind = "sandbox"}) < MaxSandbox
  /\ step = "idle"
  /\ Goto("run", "sandbox")
  /\ \E ok \in BOOLEAN : Works(ok) /\ OpenSpan("sandbox", 0, "run", ok)
  /\ UNCHANGED <<freeVars, trace, key, log, row, task, node, loop, mine, wspan,
                 handling, final, jobVars, crashes>>

LogSandbox ==
  /\ Goto("sandbox", "boxed")
  /\ \E ok \in BOOLEAN :
       Works(ok) /\ LogEvent("SANDBOX_EXECUTED", 0, "success", Len(spans), ok)
  /\ UNCHANGED <<freeVars, trace, spans, key, row, task, node, loop, mine, wspan,
                 handling, final, jobVars, crashes>>

\* the tool raises a ToolError
SandboxRaises ==
  /\ Goto("sandbox", "broken")
  /\ UNCHANGED <<freeVars, rowVars, task, node, loop, mine, wspan, handling, final,
                 jobVars, faults, crashes>>

\* SpanContext.__exit__
CloseSandbox ==
  /\ \/ Goto("boxed", "tested") \/ Goto("broken", "run")
  /\ \E ok \in BOOLEAN :
       Works(ok) /\ CloseSpan(Len(spans), IF pc = "boxed" THEN "success" ELSE "failed", ok)
  /\ UNCHANGED <<freeVars, trace, key, log, row, task, node, loop, mine, wspan,
                 handling, final, jobVars, crashes>>

StageCompletes ==
  /\ step = "idle"
  /\ pc = IF node = Validation THEN "tested" ELSE "run"
  /\ Fares("ok")
  /\ mine' = 0
  /\ CASE node = Repair -> pc' = "decide" /\ UNCHANGED <<node, step>>
       [] node = Learning -> pc' = "finish" /\ step' = "get" /\ UNCHANGED node
       [] OTHER -> pc' = "enter" /\ step' = "get" /\ node' = node + 1
  /\ UNCHANGED <<freeVars, trace, key, log, row, task, loop, wspan, handling, final,
                 jobVars, faults, crashes>>

StageRaises ==
  /\ \/ Call("run", "failing") \/ Call("tested", "failing")
  /\ Fares("raised")
  /\ handling' = TRUE
  /\ UNCHANGED <<freeVars, trace, key, log, row, task, node, loop, mine, wspan, final,
                 jobVars, faults, crashes>>

\* mutant: one loop too many
RerouteOffByOne ==
  /\ Call("decide", "enter")
  /\ loop < MaxLoops
  /\ loop' = loop + 1
  /\ node' \in {Implementation, Validation}
  /\ UNCHANGED <<freeVars, rowVars, task, mine, wspan, handling, final, jobVars,
                 faults, crashes>>

Reroute ==
  /\ Call("decide", "enter")
  /\ loop + 1 < MaxLoops
  /\ loop' = loop + 1
  /\ node' \in {Implementation, Validation}
  /\ UNCHANGED <<freeVars, rowVars, task, mine, wspan, handling, final, jobVars,
                 faults, crashes>>

Proceed ==
  /\ Call("decide", "enter")
  /\ node' = Learning
  /\ UNCHANGED <<freeVars, rowVars, task, loop, mine, wspan, handling, final, jobVars,
                 faults, crashes>>

(* What the worker makes of it.                                            *)

\* a read at the end of the run, or of the final session, raises
ReadRaises ==
  /\ Works(FALSE)
  /\ Goto("read", "raised")
  /\ handling' = TRUE
  /\ UNCHANGED <<freeVars, rowVars, task, node, loop, mine, wspan, final, jobVars,
                 crashes>>

Succeeds ==
  /\ row.status = "COMPLETED"
  /\ Goto("read", "final")
  /\ verdict' = "success"
  /\ UNCHANGED <<freeVars, rowVars, task, node, loop, mine, wspan, handling, final,
                 queue, handled, faults, crashes>>

NotCompleted ==
  /\ row.status # "COMPLETED"
  /\ Goto("read", "raised")
  /\ UNCHANGED <<freeVars, rowVars, task, node, loop, mine, wspan, handling, final,
                 jobVars, faults, crashes>>

\* handle_job_failure: the payload of the retry has no user and no trace
HandleFailure ==
  /\ Call("raised", "sync")
  /\ handled' = handled + 1
  /\ verdict' = "failed"
  /\ queue' = Append(queue, "retry")
  /\ UNCHANGED <<freeVars, rowVars, task, node, loop, mine, wspan, handling, final,
                 faults, crashes>>

\* Redis fails before the job is put back
HandleRaises ==
  /\ Works(FALSE)
  /\ Goto("raised", IF handling THEN "final" ELSE "raised")
  /\ handling' = TRUE
  /\ UNCHANGED <<freeVars, rowVars, task, node, loop, mine, wspan, final, jobVars,
                 crashes>>

\* mutant: the trace ends as the attempt does, not as the session
ReadFinalFromAttempt ==
  /\ Goto("final", "finalLog")
  /\ final' = IF handling THEN "FAILED" ELSE "COMPLETED"
  /\ UNCHANGED <<freeVars, rowVars, task, node, loop, mine, wspan, handling, jobVars,
                 faults, crashes>>

\* the finally block, whatever was raised before it
ReadFinal ==
  /\ Goto("final", "finalLog")
  /\ final' = row.status
  /\ UNCHANGED <<freeVars, rowVars, task, node, loop, mine, wspan, handling, jobVars,
                 faults, crashes>>

Done(to) == pc' = to /\ task' = IF to = "poll" THEN "none" ELSE task

\* the error is only logged: neither the span nor the trace is ended
ReadFinalRaises ==
  /\ pc = "final"
  /\ Works(FALSE)
  /\ Done("poll")
  /\ UNCHANGED <<freeVars, rowVars, step, node, loop, mine, wspan, handling, final,
                 jobVars, crashes>>

FinalStatus == IF final = "COMPLETED" THEN "success" ELSE "failed"

LogFinal ==
  /\ Goto("finalLog", "finalSpan")
  /\ \E ok \in BOOLEAN :
       Works(ok) /\ LogEvent(IF FinalStatus = "success" THEN "JOB_COMPLETED" ELSE "JOB_FAILED",
                             0, FinalStatus, wspan, ok)
  /\ UNCHANGED <<freeVars, trace, spans, key, row, task, node, loop, mine, wspan,
                 handling, final, jobVars, crashes>>

CloseWorkerSpan ==
  /\ Goto("finalSpan", "finalTrace")
  /\ \E ok \in BOOLEAN : Works(ok) /\ CloseSpan(wspan, FinalStatus, ok)
  /\ UNCHANGED <<freeVars, trace, key, log, row, task, node, loop, mine, wspan,
                 handling, final, jobVars, crashes>>

\* mutant: only a success ends the trace
FinishTraceOfSuccess ==
  /\ pc = "finalTrace"
  /\ Done("poll")
  /\ \E ok \in BOOLEAN : Works(ok) /\ EndTrace(FinalStatus, ok /\ FinalStatus = "success")
  /\ UNCHANGED <<freeVars, spans, key, log, row, step, node, loop, mine, wspan,
                 handling, final, jobVars, crashes>>

FinishTrace ==
  /\ pc = "finalTrace"
  /\ Done("poll")
  /\ \E ok \in BOOLEAN : Works(ok) /\ EndTrace(FinalStatus, ok)
  /\ UNCHANGED <<freeVars, spans, key, log, row, step, node, loop, mine, wspan,
                 handling, final, jobVars, crashes>>

\* the process dies and is started again; the job it held is in no queue
WorkerDies ==
  /\ pc # "poll"
  /\ crashes < MaxCrashes
  /\ crashes' = crashes + 1
  /\ Done("poll")
  /\ step' = "idle"
  /\ UNCHANGED <<freeVars, rowVars, node, loop, mine, wspan, handling, final, jobVars,
                 faults>>

WorkerStep ==
  \/ TakeJob \/ LogStarted \/ OpenWorkerSpan
  \/ UpdateSession
  \/ PlanningUnresolved \/ StartPlanning
  \/ OpenSandbox \/ LogSandbox \/ SandboxRaises \/ CloseSandbox
  \/ StageCompletes \/ StageRaises \/ Reroute \/ Proceed
  \/ ReadRaises \/ Succeeds \/ NotCompleted \/ HandleFailure \/ HandleRaises
  \/ ReadFinal \/ ReadFinalRaises \/ LogFinal \/ CloseWorkerSpan \/ FinishTrace

Next == ApiStep \/ ApiDies \/ WorkerStep \/ WorkerDies

Spec == Init /\ [][Next]_vars

\* threads that live go on: the calls they make return or raise, as Redis and
\* the database have timeouts, and an agent's lifecycle ends
\* (AgentLifecycle!RunEnds)
FairSpec == Spec /\ WF_vars(ApiStep) /\ WF_vars(WorkerStep)

-----------------------------------------------------------------------------
(* Properties.                                                             *)

Agents == {i \in DOMAIN spans : spans[i].kind = "agent"}

\* A span of an agent that is closed as a success is that of an agent which
\* succeeded, whatever operations failed or processes died: a span key that is
\* stale never turns a failure into a success.  Where nothing failed, a span
\* closed as failed is that of an agent which raised.
SpansTrue ==
  \A i \in Agents :
    /\ spans[i].status = "success" => spans[i].did = "ok"
    /\ spans[i].status = "failed" /\ faults = 0 => spans[i].did = "raised"

\* f and g, on sets of numbers, take the same values in the same order
Rank(S, i) == Cardinality({j \in S : j <= i})
Follows(f, g) ==
  \A i \in DOMAIN f, j \in DOMAIN g : Rank(DOMAIN f, i) = Rank(DOMAIN g, j) => f[i] = g[j]
InStep(f, g) == Cardinality(DOMAIN f) = Cardinality(DOMAIN g) /\ Follows(f, g)

\* Where nothing failed, the event log and the span table tell one story: the
\* agents that started, in order, and how each of them ended.
EventsOf(kind) == {j \in DOMAIN log : log[j].event = kind}
AgentSpans(which) == {i \in Agents : spans[i].status \in which}
StartEvents == [j \in EventsOf("AGENT_STARTED") |-> log[j].node]
OpenedSpans == [i \in AgentSpans(Endings \cup {"running"}) |-> spans[i].node]
EndEvents == [j \in EventsOf("AGENT_COMPLETED") |-> <<log[j].node, log[j].status>>]
ClosedSpans == [i \in AgentSpans(Endings) |-> <<spans[i].node, spans[i].status>>]
AccountsAgree ==
  step = "idle" /\ faults = 0 /\ crashes = 0 =>
    InStep(StartEvents, OpenedSpans) /\ InStep(EndEvents, ClosedSpans)

\* When all is over, a storage operation that failed has left at most one span
\* of the run open, and a process that died at most three (its own, the one of
\* an agent, the one of a sandbox).
Over == api \in {"accepted", "rejected", "dead"} /\ pc = "poll" /\ queue = <<>>
LeftOpen == {i \in DOMAIN spans : spans[i].in = "run" /\ spans[i].status = "running"}
LeaksBounded == Over => Cardinality(LeftOpen) <= faults + 3 * crashes

\* The trace ends as the session does, and never as failed when the job is
\* recorded as a success; a job that is a success has a session that is.
TraceTruthful ==
  /\ trace = "success" => row.status = "COMPLETED"
  /\ trace = "failed" => row.status # "COMPLETED" /\ verdict # "success"
  /\ verdict = "success" => row.status = "COMPLETED"

\* "Sync failed status back to session registry": with the span key in the
\* way of every update of the session, and with a database that keeps no
\* trace at all, a run during which nothing failed leaves its session
\* COMPLETED or FAILED as it ended, and its failure is handled once.
StatusSynced ==
  pc = "poll" /\ verdict # "none" /\ faults = 0 /\ crashes = 0 =>
    /\ row.status = (IF verdict = "success" THEN "COMPLETED" ELSE "FAILED")
    /\ handled = (IF verdict = "success" THEN 0 ELSE 1)

\* The trace of a request that was accepted ends, unless an operation failed
\* or a process died.
TraceEnds ==
  (api = "accepted" /\ trace = "running")
    ~> (trace # "running" \/ faults > 0 \/ crashes > 0)
=============================================================================
