------------------------------ MODULE JobQueue ------------------------------
(***************************************************************************)
(* The Redis job queue (job_queue/task_queue.py, job_queue/job_manager.py) *)
(* and the polling loop of the conductor worker                            *)
(* (workers/conductor_worker.py).  One action is one access to the state   *)
(* that processes share: a Redis command, or one BrainService call on the  *)
(* session row.  Between two actions of a worker any other process runs.   *)
(*                                                                         *)
(* A job has one session row, created before the job is enqueued           *)
(* (project_service.py:104).  The conductor's run is reduced here to the   *)
(* session updates it makes and to how it ends; module Conductor has the   *)
(* pipeline itself.                                                        *)
(***************************************************************************)
EXTENDS Naturals, Sequences, FiniteSets

CONSTANTS Jobs, Workers,
          RetryLimit,     \* job_manager.py:69: 3
          Modes,          \* the deployments considered
          MaxCrashes,     \* bound on process crashes
          MaxDbFaults     \* bound on session updates that raise a storage error

ASSUME QueueAssumption ==
  /\ RetryLimit \in Nat
  /\ Modes \subseteq {"json", "sql"}
  /\ MaxCrashes \in Nat
  /\ MaxDbFaults \in Nat

VARIABLES mode,      \* the deployment of this behavior
          caller,    \* where the enqueue_job call of each job is
          queue,     \* the Redis list 'orchestra_jobs'
          record,    \* the Redis hash 'orchestra_job_states'
          dlq,       \* the Redis list 'orchestra_dlq'
          session,   \* the session row of each job, with its Redis span key
          pc,        \* where each worker is in its loop body
          held,      \* the payload a worker dequeued
          copy,      \* the record a worker read before writing it back
          handling,  \* the worker is in its 'except Exception as run_error'
          attempts,  \* history: how often the job was dequeued
          crashes, faults

vars == <<mode, caller, queue, record, dlq, session, pc, held, copy, handling,
          attempts, crashes, faults>>

\* BrainService.use_sql: sessions are SQL rows, with spans; else JSON records
Sql == mode = "sql"

None == [job |-> "none", user |-> FALSE]
Absent == [status |-> "absent", retries |-> 0]

CallerPcs == {"idle", "checked", "registered", "pushed", "refused", "crashed"}
WorkerPcs == {"poll", "mark", "markWrite", "open", "plan", "run", "check",
              "succeed", "succeedWrite", "fail", "failWrite", "push", "bury",
              "sync"}
Payload == [job : Jobs, user : BOOLEAN]
Record == [status : {"absent", "queued", "running", "success", "failed"},
           retries : 0..RetryLimit]
Row == [status : {"IN_PROGRESS", "COMPLETED", "FAILED"},
        placed : BOOLEAN,      \* active_node has left "init_node"
        span : BOOLEAN]        \* Redis holds active_span:<session>

TypeOK ==
  /\ mode \in Modes
  /\ caller \in [Jobs -> CallerPcs]
  /\ queue \in Seq(Payload)
  /\ record \in [Jobs -> Record]
  /\ dlq \in Seq(Jobs)
  /\ session \in [Jobs -> Row]
  /\ pc \in [Workers -> WorkerPcs]
  /\ held \in [Workers -> Payload \cup {None}]
  /\ \A w \in Workers : pc[w] # "poll" => held[w] \in Payload
  /\ copy \in [Workers -> Record]
  /\ handling \in [Workers -> BOOLEAN]
  /\ attempts \in [Jobs -> Nat]
  /\ crashes \in 0..MaxCrashes
  /\ faults \in 0..MaxDbFaults

Init ==
  /\ mode \in Modes
  /\ caller = [j \in Jobs |-> "idle"]
  /\ queue = <<>>
  /\ record = [j \in Jobs |-> Absent]
  /\ dlq = <<>>
  /\ session = [j \in Jobs |->
                  [status |-> "IN_PROGRESS", placed |-> FALSE, span |-> FALSE]]
  /\ pc = [w \in Workers |-> "poll"]
  /\ held = [w \in Workers |-> None]
  /\ copy = [w \in Workers |-> Absent]
  /\ handling = [w \in Workers |-> FALSE]
  /\ attempts = [j \in Jobs |-> 0]
  /\ crashes = 0
  /\ faults = 0

-----------------------------------------------------------------------------
(* TaskQueue.enqueue_job: hget, hset, rpush are three Redis commands.  The *)
(* id of a job is fresh (project_service.py:95), so one caller enqueues    *)
(* it; a later call with the same id is refused.                           *)

workerVars == <<pc, held, copy, handling, attempts>>
storeVars == <<mode, dlq, session, faults>>

Goto(j, to) == caller' = [caller EXCEPT ![j] = to]

FindNothing(j) ==
  /\ caller[j] = "idle"
  /\ record[j] = Absent
  /\ Goto(j, "checked")
  /\ UNCHANGED <<queue, record, crashes, workerVars, storeVars>>

\* mutant: no check that the id is known
AcceptDuplicate(j) ==
  /\ caller[j] = "pushed"
  /\ Goto(j, "checked")
  /\ UNCHANGED <<queue, record, crashes, workerVars, storeVars>>

RefuseDuplicate(j) ==
  /\ caller[j] = "pushed"
  /\ record[j] # Absent
  /\ Goto(j, "refused")
  /\ UNCHANGED <<queue, record, crashes, workerVars, storeVars>>

Register(j) ==
  /\ caller[j] = "checked"
  /\ record' = [record EXCEPT ![j] = [status |-> "queued", retries |-> 0]]
  /\ Goto(j, "registered")
  /\ UNCHANGED <<queue, crashes, workerVars, storeVars>>

Push(j) ==
  /\ caller[j] = "registered"
  /\ queue' = Append(queue, [job |-> j, user |-> TRUE])
  /\ Goto(j, "pushed")
  /\ UNCHANGED <<record, crashes, workerVars, storeVars>>

CallerCrash(j) ==
  /\ caller[j] \in {"checked", "registered"}
  /\ crashes < MaxCrashes
  /\ crashes' = crashes + 1
  /\ Goto(j, "crashed")
  /\ UNCHANGED <<queue, record, workerVars, storeVars>>

-----------------------------------------------------------------------------
(* BrainService.update_session on the session row of a job.                *)

Job(w) == held[w].job

\* postgres_repo.resolve_user_id: without a user id the call raises; the JSON
\* repository ignores the user
Visible(w) == held[w].user \/ ~Sql

\* the call closes the span of the node that is active
Closes(row, status) == status \in {"COMPLETED", "FAILED"} /\ row.placed

\* brain_service.py:229-239: status_str is unbound when Redis has no span key
SpanLost(row, status) == Sql /\ Closes(row, status) /\ ~row.span

PutRow(w, row) == session' = [session EXCEPT ![Job(w)] = row]

\* the row after the span of its node is closed, and after the update
Closed(row, status) == [row EXCEPT !.span = @ /\ ~Closes(row, status)]
Stored(row, status) == [Closed(row, status) EXCEPT !.status = status]

\* update_session(..., {"status": status}), which returns (ok) or raises
StatusCall(w, status, ok) ==
  LET row == session[Job(w)]
      raises == ~Visible(w) \/ SpanLost(row, status)
  IN \/ ok /\ ~raises /\ PutRow(w, Stored(row, status)) /\ UNCHANGED faults
     \/ ~ok /\ raises /\ UNCHANGED <<session, faults>>
     \/ /\ ~ok /\ ~raises
        /\ faults < MaxDbFaults
        /\ faults' = faults + 1
        \* the read fails, the commit fails after the span was closed, or
        \* the audit entry fails after the commit
        /\ \E r \in {row, Closed(row, status), Stored(row, status)} : PutRow(w, r)

\* the row after the span of a node is opened, and after the update
Opened(row) == [row EXCEPT !.span = Sql]
Moved(row, status) == [Opened(row) EXCEPT !.placed = TRUE, !.status = status]

\* update_session(..., {"active_node": node, "status": status}); the
\* conductor swallows what it raises
NodeCall(w, status) ==
  LET row == session[Job(w)]
  IN \/ PutRow(w, Moved(row, status)) /\ UNCHANGED faults
     \/ /\ faults < MaxDbFaults
        /\ faults' = faults + 1
        /\ \E r \in {row, Opened(row), Moved(row, status)} : PutRow(w, r)

-----------------------------------------------------------------------------
(* The worker.                                                             *)

callVars == <<caller, crashes>>

Step(w, from, to) == pc[w] = from /\ pc' = [pc EXCEPT ![w] = to]

DropCopy(w) == copy' = [copy EXCEPT ![w] = Absent]

\* back to the top of the loop: the locals of this iteration are gone
Release(w) ==
  /\ pc' = [pc EXCEPT ![w] = "poll"]
  /\ held' = [held EXCEPT ![w] = None]
  /\ DropCopy(w)
  /\ handling' = [handling EXCEPT ![w] = FALSE]

\* blpop returned nothing within its timeout
PollTimeout(w) ==
  /\ pc[w] = "poll"
  /\ queue = <<>>
  /\ UNCHANGED vars

Dequeue(w) ==
  /\ queue # <<>>
  /\ Step(w, "poll", "mark")
  /\ held' = [held EXCEPT ![w] = Head(queue)]
  /\ queue' = Tail(queue)
  /\ attempts' = [attempts EXCEPT ![Head(queue).job] = @ + 1]
  /\ UNCHANGED <<record, copy, handling, callVars, storeVars>>

\* the hget of update_job_status and of handle_job_failure; the record
\* exists, since enqueue_job stores it before it pushes the payload
ReadRecord(w, from, to) ==
  /\ Step(w, from, to)
  /\ copy' = [copy EXCEPT ![w] = record[Job(w)]]
  /\ UNCHANGED <<queue, record, held, handling, attempts, callVars, storeVars>>

\* update_job_status: the whole record is written back
MarkRunning(w) ==
  /\ Step(w, "markWrite", "open")
  /\ record' = [record EXCEPT ![Job(w)] = [copy[w] EXCEPT !.status = "running"]]
  /\ DropCopy(w)
  /\ UNCHANGED <<queue, held, handling, attempts, callVars, storeVars>>

\* conductor_worker.py:64 is outside the try that routes failures
OpenSession(w) ==
  /\ Step(w, "open", "plan")
  /\ StatusCall(w, "IN_PROGRESS", TRUE)
  /\ UNCHANGED <<mode, queue, record, dlq, held, copy, handling, attempts, callVars>>

OpenSessionRaises(w) ==
  /\ pc[w] = "open"
  /\ StatusCall(w, "IN_PROGRESS", FALSE)
  /\ Release(w)
  /\ UNCHANGED <<mode, queue, record, dlq, attempts, callVars>>

\* conductor.py:183-193: no planning agent, the session is not marked FAILED
ResolveFails(w) ==
  /\ Step(w, "plan", "fail")
  /\ handling' = [handling EXCEPT ![w] = TRUE]
  /\ UNCHANGED <<queue, record, held, copy, attempts, callVars, storeVars>>

PlanningStarts(w) ==
  /\ Step(w, "plan", "run")
  /\ NodeCall(w, "IN_PROGRESS")
  /\ UNCHANGED <<mode, queue, record, dlq, held, copy, handling, attempts, callVars>>

\* every later node only moves active_node
NodeStarts(w) ==
  /\ Step(w, "run", "run")
  /\ NodeCall(w, session[Job(w)].status)
  /\ UNCHANGED <<mode, queue, record, dlq, held, copy, handling, attempts, callVars>>

\* a node raises: the session is marked FAILED, errors of that call ignored
RunFails(w) ==
  /\ Step(w, "run", "fail")
  /\ \E ok \in BOOLEAN : StatusCall(w, "FAILED", ok)
  /\ handling' = [handling EXCEPT ![w] = TRUE]
  /\ UNCHANGED <<mode, queue, record, dlq, held, copy, attempts, callVars>>

RunCompletes(w) ==
  /\ Step(w, "run", "check")
  /\ \E ok \in BOOLEAN : StatusCall(w, "COMPLETED", ok)
  /\ UNCHANGED <<mode, queue, record, dlq, held, copy, handling, attempts, callVars>>

\* reading artifacts, decisions or the final session raises
CheckRaises(w) ==
  /\ faults < MaxDbFaults
  /\ faults' = faults + 1
  /\ Step(w, "check", "fail")
  /\ handling' = [handling EXCEPT ![w] = TRUE]
  /\ UNCHANGED <<mode, queue, record, dlq, session, held, copy, attempts, callVars>>

Check(w) ==
  /\ Step(w, "check", IF session[Job(w)].status = "COMPLETED" THEN "succeed" ELSE "fail")
  /\ UNCHANGED <<queue, record, held, copy, handling, attempts, callVars, storeVars>>

MarkSuccess(w) ==
  /\ pc[w] = "succeedWrite"
  /\ record' = [record EXCEPT ![Job(w)] = [copy[w] EXCEPT !.status = "success"]]
  /\ Release(w)
  /\ UNCHANGED <<queue, attempts, callVars, storeVars>>

\* mutant: one retry too many
MarkRetryOffByOne(w) ==
  /\ Step(w, "failWrite", "push")
  /\ copy[w].retries <= RetryLimit
  /\ record' = [record EXCEPT ![Job(w)] =
                  [status |-> "queued", retries |-> copy[w].retries + 1]]
  /\ DropCopy(w)
  /\ UNCHANGED <<queue, held, handling, attempts, callVars, storeVars>>

\* mutant: the retry is not counted
MarkRetryUncounted(w) ==
  /\ Step(w, "failWrite", "push")
  /\ copy[w].retries < RetryLimit
  /\ record' = [record EXCEPT ![Job(w)] = [copy[w] EXCEPT !.status = "queued"]]
  /\ DropCopy(w)
  /\ UNCHANGED <<queue, held, handling, attempts, callVars, storeVars>>

\* mutant: the status is not reset
MarkRetryStillRunning(w) ==
  /\ Step(w, "failWrite", "push")
  /\ copy[w].retries < RetryLimit
  /\ record' = [record EXCEPT ![Job(w)] = [copy[w] EXCEPT !.retries = @ + 1]]
  /\ DropCopy(w)
  /\ UNCHANGED <<queue, held, handling, attempts, callVars, storeVars>>

\* handle_job_failure with retries left: hset, then rpush
MarkRetry(w) ==
  /\ Step(w, "failWrite", "push")
  /\ copy[w].retries < RetryLimit
  /\ record' = [record EXCEPT ![Job(w)] =
                  [status |-> "queued", retries |-> copy[w].retries + 1]]
  /\ DropCopy(w)
  /\ UNCHANGED <<queue, held, handling, attempts, callVars, storeVars>>

\* mutant: the record says queued and nothing is queued
PushRetryForgotten(w) ==
  /\ Step(w, "push", "sync")
  /\ UNCHANGED <<queue, record, held, copy, handling, attempts, callVars, storeVars>>

\* the retry payload has neither user_id nor trace_id
PushRetry(w) ==
  /\ Step(w, "push", "sync")
  /\ queue' = Append(queue, [job |-> Job(w), user |-> FALSE])
  /\ UNCHANGED <<record, held, copy, handling, attempts, callVars, storeVars>>

\* mutant: gives up one retry early
MarkFailedEarly(w) ==
  /\ Step(w, "failWrite", "bury")
  /\ copy[w].retries + 1 >= RetryLimit
  /\ record' = [record EXCEPT ![Job(w)] = [copy[w] EXCEPT !.status = "failed"]]
  /\ DropCopy(w)
  /\ UNCHANGED <<queue, held, handling, attempts, callVars, storeVars>>

\* handle_job_failure with the retries used up: hset, then rpush to the DLQ
MarkFailed(w) ==
  /\ Step(w, "failWrite", "bury")
  /\ copy[w].retries >= RetryLimit
  /\ record' = [record EXCEPT ![Job(w)] = [copy[w] EXCEPT !.status = "failed"]]
  /\ DropCopy(w)
  /\ UNCHANGED <<queue, held, handling, attempts, callVars, storeVars>>

PushDeadLetter(w) ==
  /\ Step(w, "bury", "sync")
  /\ dlq' = Append(dlq, Job(w))
  /\ UNCHANGED <<mode, queue, record, session, faults, held, copy, handling, attempts,
                 callVars>>

\* "Sync failed status back to session registry"
SyncSession(w) ==
  /\ pc[w] = "sync"
  /\ StatusCall(w, "FAILED", TRUE)
  /\ Release(w)
  /\ UNCHANGED <<mode, queue, record, dlq, attempts, callVars>>

\* raised in the except branch it ends the iteration; raised in the try
\* branch (conductor_worker.py:93) it enters the except branch, which
\* handles the failure of the job a second time
SyncRaises(w) ==
  /\ pc[w] = "sync"
  /\ StatusCall(w, "FAILED", FALSE)
  /\ IF handling[w]
     THEN Release(w)
     ELSE /\ pc' = [pc EXCEPT ![w] = "fail"]
          /\ handling' = [handling EXCEPT ![w] = TRUE]
          /\ UNCHANGED <<held, copy>>
  /\ UNCHANGED <<mode, queue, record, dlq, attempts, callVars>>

\* the process dies and is started again; what it held is in no queue
WorkerCrash(w) ==
  /\ pc[w] # "poll"
  /\ crashes < MaxCrashes
  /\ crashes' = crashes + 1
  /\ Release(w)
  /\ UNCHANGED <<caller, queue, record, attempts, storeVars>>

-----------------------------------------------------------------------------
CallerStep(j) == FindNothing(j) \/ RefuseDuplicate(j) \/ Register(j) \/ Push(j)

WorkerStep(w) ==
  \/ Dequeue(w)
  \/ ReadRecord(w, "mark", "markWrite") \/ MarkRunning(w)
  \/ OpenSession(w) \/ OpenSessionRaises(w)
  \/ ResolveFails(w) \/ PlanningStarts(w) \/ NodeStarts(w)
  \/ RunFails(w) \/ RunCompletes(w)
  \/ Check(w) \/ CheckRaises(w)
  \/ ReadRecord(w, "succeed", "succeedWrite") \/ MarkSuccess(w)
  \/ ReadRecord(w, "fail", "failWrite")
  \/ MarkRetry(w) \/ PushRetry(w) \/ MarkFailed(w) \/ PushDeadLetter(w)
  \/ SyncSession(w) \/ SyncRaises(w)

Next ==
  \/ \E j \in Jobs : CallerStep(j) \/ CallerCrash(j)
  \/ \E w \in Workers : WorkerStep(w) \/ PollTimeout(w) \/ WorkerCrash(w)

Spec == Init /\ [][Next]_vars

\* a process that is not dead takes its next step: threads and processes are
\* scheduled by the operating system, blpop serves every blocked client, and
\* the conductor's run ends (module Conductor)
Fairness ==
  /\ \A j \in Jobs : WF_vars(CallerStep(j))
  /\ \A w \in Workers : WF_vars(WorkerStep(w))

FairSpec == Spec /\ Fairness

-----------------------------------------------------------------------------
(* Properties                                                              *)

\* worker w still has the one live copy of job j
Owns(w, j) == pc[w] \notin {"poll", "sync"} /\ held[w].job = j

\* There is never more than one live copy of a job: two payloads in the
\* queue, a payload and a worker, or two workers.  Everything that makes the
\* read-modify-write of a job's record safe rests on it, and no lock or
\* compare-and-set in task_queue.py or job_manager.py enforces it.
SingleCopy ==
  /\ \A i, k \in DOMAIN queue : queue[i].job = queue[k].job => i = k
  /\ \A w \in Workers : \A i \in DOMAIN queue : ~Owns(w, queue[i].job)
  /\ \A v, w \in Workers : \A j \in Jobs : Owns(v, j) /\ Owns(w, j) => v = w

\* A worker that is about to write a job's record back still has the current
\* record: no update of update_job_status or handle_job_failure is lost.
NoLostUpdate ==
  \A w \in Workers : pc[w] \in {"markWrite", "succeedWrite", "failWrite"} =>
    copy[w] = record[held[w].job]

\* A job in the dead-letter list is there once, is recorded as failed, and
\* was attempted once plus RetryLimit times (job_manager.py:54-58).
DeadLettersExact ==
  /\ \A i, k \in DOMAIN dlq : dlq[i] = dlq[k] => i = k
  /\ \A i \in DOMAIN dlq :
       /\ record[dlq[i]] = [status |-> "failed", retries |-> RetryLimit]
       /\ attempts[dlq[i]] = RetryLimit + 1

\* Every retry that is counted stands for an attempt that was made, and
\* there is at most one attempt beyond the counted ones.
AttemptsCounted ==
  \A j \in Jobs :
    /\ record[j].retries <= attempts[j]
    /\ attempts[j] <= record[j].retries + 1

\* In the SQL deployment a job is recorded as a success only while its
\* session is COMPLETED: the two stores a client reads agree.
SuccessAgreesWithSession ==
  Sql =>
    \A j \in Jobs : record[j].status = "success" => session[j].status = "COMPLETED"

\* jobs that are recorded as pending and that nobody will ever take up
Lost ==
  {j \in Jobs : /\ record[j].status \in {"queued", "running"}
                /\ caller[j] # "registered"
                /\ \A i \in DOMAIN queue : queue[i].job # j
                /\ \A w \in Workers : ~Owns(w, j)}

\* In the JSON deployment a job is lost only to a process crash or to a
\* storage error, and each of them loses at most one job.
LossBounded == ~Sql => Cardinality(Lost) <= crashes + faults

\* the queue as its clients see it
Promise == INSTANCE JobSpec WITH buried <- {dlq[i] : i \in DOMAIN dlq}

\* Every step of callers and workers is a step a client was promised.
KeepsPromise == Promise!JobPromise

\* Every job that is registered is settled: a success, or a permanent
\* failure.  A crash or a storage error can lose a job (LossBounded).
Settled(j) == record[j].status \in {"success", "failed"}
EveryJobSettles ==
  \A j \in Jobs : record[j] # Absent ~> Settled(j) \/ crashes + faults > 0
==============================================================================
