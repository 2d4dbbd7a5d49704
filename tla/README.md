# Orchestra AI: a TLA+ model

Orchestra AI turns a product idea into a code base: a client posts an idea, the
API queues a job, a worker takes the job and lets a *conductor* drive nine
specialist agents through a pipeline with a repair loop, and everything the
agents produce is kept in the *project brain*. This directory models the parts
of the program that have state and can go wrong in ways a unit test hardly
reaches, checks the models with TLC on small instances and proves the main
results with TLAPS for every value of the constants.

Contents: 1 inventory, 2 plan, 3 modules and their code, 4 runs, 5 bounds and
fairness, 6 proofs, 7 where the code disagrees with what it says, 8 what is not
modelled, 9 how to run.

## 1. Inventory

| part | source | state | operations | talks to |
|---|---|---|---|---|
| Project service, task runner | `app/services/` | none of its own | `run_pipeline`, `get_pipeline_status` | brain service, billing, job queue |
| Job queue | `job_queue/` | Redis list `orchestra_jobs`, hash `orchestra_job_states`, list `orchestra_dlq` | `enqueue_job`, `dequeue_job`, `update_job_status`, `handle_job_failure` | callers and workers |
| Conductor worker | `workers/conductor_worker.py` | the job it holds | the polling loop | job queue, brain service, conductor, billing, tracing |
| Conductor | `agents/conductor.py` | node statuses, completed and active nodes, loop counter | `run` | agent factory, agents, brain service, workspace files |
| Agent lifecycle | `agents/base_agent.py`, `state_machine.py`, `tool_manager.py`, `session_adapter.py` | lifecycle state, tool gate, outputs | eight phases with retry, escalation, cleanup | brain client, session state |
| Specialist agents | `agents/{planning,blueprint,...}.py` | none across runs | `execute` | artifacts, decisions, metrics, workspace files |
| Project brain | `brain/` | sessions, artifacts with versions, decisions, evaluations, audit log, in SQL or in JSON files | create, update, store, list | Redis span keys, trace store |
| Billing and limits | `billing/`, `app/dependencies/rate_limiter.py` | monthly usage rows, job cost rows, Redis counters | quota, flooding limit, cost records, rate limit | projects route, worker |
| Observability | `observability/`, `brain_service.py:184-239` | traces, spans, events, metrics; the Redis key `active_span:<session>` | start/end trace, start/finish span, log | projects route, brain service, worker, tool manager |
| MCP server, routers, auth, schemas | `mcp/`, `app/`, `brain/routers`, `brain/schemas` | none | request handling | the services above |

What is hard here: several API processes and workers share Redis and the
database without locks or transactions across calls; a job's record, its queue
entry and its session row are three stores that are updated one after another;
most storage errors are caught, some are not; retries, crashes and restarts;
the repair loop re-runs nodes and reads a decision file that may be left over
from an earlier pass; the update of a session row also keeps the spans of the
agents, through a key in Redis, and raises or not depending on it. `PROJECT.json`
lists these places line by line under
"hazards", each with the properties that are about it.

What makes each part correct:

* *Job queue and worker.* A job is in one place at a time; no update of its
  record is lost; it is retried exactly as often as the limit says and filed as
  dead once; every submitted job comes to an end.
* *Agent lifecycle.* The tools are open while it works and closed when it ends;
  retries are counted; what the brain says of a run is true, however it ended.
* *Conductor.* The stages complete in order, the repair loop is bounded, no
  report is older than what it reports on, the client's view never runs ahead,
  a failure shows.
* *Admission and billing.* The limits hold up to what concurrency can add, and
  nobody is charged for more than was used.
* *Brain.* What was stored is found again; versions of a path are counted up
  without gaps.
* *Quality loop.* A repair is in the code that the loop goes on with, nothing is
  defined twice, a repair takes no class and no route away, the evaluator finds
  what the generator and the repairs wrote in the files it opens, a PASS has been
  earned.
* *Advisors* (prediction, optimization, learning). What one run learned reaches
  the next prediction; an alarm has a cause and a cause an alarm; confidence is
  no greater than what was read allows.
* *Observability.* What is recorded of a run is true: a span says how its agent
  fared, the events and the spans tell one story, the trace ends, and it ends as
  the session and the job do; few spans are left open by a failure; and
  recording never changes how the run ends.

## 2. Plan

Done, in this order, most important first:

1. `JobQueue` with the abstract `JobSpec` it implements.
2. `AgentLifecycle`.
3. `Conductor` with the abstract `WorkflowSpec`; it uses from the lifecycle only
   that a node completes or raises, in the end (`AgentLifecycle!RunEnds`), and
   from the queue only when an attempt is made again.
4. `Admission`, the API threads and the workers' billing around the queue.
5. `BrainStore`, the two storage back ends.
6. `QualityLoop`: the content of the workspace through implementation, runtime
   validation, evaluation and repair.
7. `Advisors`: what learning leaves behind and what prediction and optimization
   make of it.

8. `Tracing`: the trace, the spans and the events of a run, from the request to
   the end of the job, with the Redis key that names the active span. It joins
   the request (`Admission`), one job of the queue (`JobQueue`) and the stages
   (`Conductor`) at the level of single calls, each reduced to what decides which
   call comes next.

Next:

9. Pure algorithms as functions, each against a reference definition: the
   decision order (`base_agent.py:414-439`), the cost model, percentiles, the
   pipeline status view.
10. A full composition of `JobQueue` and `Conductor`: the worker's session
    updates as actions of both.

Theorems to add: lemmas on 9 where the definitions are not inductive over data;
the refinement by 10; of `JobQueue`, how often a job can run once two copies race
(not bounded by the retry limit: section 7).

## 3. Modules and the code they model

Each module opens with the granularity it has chosen: one action is the code
between two points where another process, a failure or a crash can come in. The
definitions keep the names of the source where TLA+ allows, and `PROJECT.json`
maps each to its lines. Definitions marked *Mutant* are not part of a
specification: each is a plausible bug, which the property it is listed with
catches.

### JobQueue (abstract: JobSpec)

`queue`, `record` and `dlq` are the list `orchestra_jobs`, the hash
`orchestra_job_states` and the list `orchestra_dlq`; a payload keeps its job and
whether it carries a user id, as the payload of a retry does not
(`job_manager.py:85-95`). `session` is the job's row in the brain, reduced to
its status, whether `active_node` has left its first value, and whether Redis
has the key of an active span: these three decide whether `update_session`
raises. `mode` is the deployment, SQL or JSON.

`enqueue_job` is three actions of a caller (find, register, push).
`update_job_status` and `handle_job_failure` are a read of the record into
`copy` and a write. `StatusCall` and `NodeCall` are `update_session` as the
worker and the conductor call it, with every way it can raise: no user in SQL,
no span (`status_str` is bound only where the span key is found), a storage
error before or after the row is written. A worker or a caller may die between
any two actions.

`JobSpec` is what is left when the queue, the workers and the sessions are taken
away: submit, start, succeed, retry, give up, file.

### AgentLifecycle

`execute_lifecycle` of one agent, one action per attempt of a phase and per
write to the brain, with the transition table `Allowed`. `trail` is what the
brain has of each run of the node; runs follow each other when the conductor
loops back or the job is retried, and keep what earlier runs wrote.
`PersistFails` covers an error in every write, before or after its row is
stored, and the audit entry of a subclass, which comes after
"lifecycle_completed". A phase that fails asks for a transition the table may
refuse, and the refusal raises in the middle of the error handling:
`FailLifecycle` and `Escalate` have both cases. A node that fails in its context
phase ends as 'Retrieving Context' for that reason.

### Conductor (abstract: WorkflowSpec)

`Conductor.run` with its nine stages, `Enter`, `NodeCompletes` and `NodeRaises`
for each, `Reroute` and `Proceed` after the repair stage, and the best-effort
updates of the session row (`Try`). `decision` is the file
`docs/06_repair_decision.json`, whose write repair only tries; `asked` is what
the last repair decided. `sync` is the FAILED update that the worker of a failed
attempt still owes when the job is already back in the queue; in the JSON store
it reads the row and writes it back whole, so it may undo or be undone by what
the next attempt writes. `SyncFails` is an error of that update or the death of
its process. `View` is `get_pipeline_status`. Further attempts really happen
with the JSON store only: in SQL the retry of a job is abandoned, as `JobQueue`
shows. One workspace per run is assumed for the decision file.

`WorkflowSpec` keeps the completed stages, the loop count and the verdict.

### Admission

An API thread goes through the rate limit (`check_rate_limit`), the quota with
its reset of a row that is due (`FindDue`, `Reset`, `CheckQuota`), the queue
limit (`CheckFlood`), and `run_pipeline` (`StoreCost`, `Enqueue`); errors of
Redis let it pass (`ArriveUncounted`, `CheckFloodBlindly`). A worker takes a
job, ends an attempt and bills it (`ReadMeter`, `WriteMeter`) as
`increment_runs` and `update_usage_times` do, a read and a write of an attribute
in sessions of their own. Time is counted in units of which an attempt uses at
most one, and a request past the rate limit counts up to `RateLimit + 1` only,
which nothing can tell from more.

### BrainStore

`store_artifact` and `store_decision`: the version from a read of its own, the
record, the audit entry. In SQL a write is one insert; in JSON it is `ReadAll`,
`Open` (which empties the file) and `Dump`. `shared` says whether the writers
use one `BrainService`, whose lock covers one read or one write, or one each,
whose locks know nothing of each other. `read_all` takes a file it cannot parse
for an empty one (`Contents`). When two dumps lie one over the other the file
may or may not be readable.

### QualityLoop

The workspace as the agents between implementation and repair see it, at the
level of the endpoints, entity classes and service classes that a design, a
report or a source file names. `built` is what the generated code declares,
`added` how often a repair has appended each item, `todo` how many instructions
of the diagnosis are left for it (two for an endpoint or an entity, whose name
stands in the issue and in the recommendation, one for a service). `Finds` is
the scan that skips a patch: it searches for a text, so an item whose name is
part of another's is found in it (`Covers`). Generator and evaluator have a parser
each (`ToBuild`, `Specified`). The evaluator opens the files that
`docs/03_backend_scaffold.md` lists (`Listed`) and searches only them
(`Judge`); without a list it takes the seven of the scaffold (`Scaffold`). `Structure`
is the share of the list that it could read, `Score` its weighted score in
hundredths. No agent writes `docs/03_backend_scaffold.md`,
`docs/04_execution_report.md` or `docs/05_evaluation_report.md` (section 7). The
list is therefore any of the constant `Listings`, or the scaffold, and what is
read in the other two is any report that
the generators of the two agents could have produced, put there by somebody else
(`Replaced`), as `tests/test_repair_agent.py` does. `files` tells a deployment
with a file system from one with stub tools. Faults are reads and writes that
fail; a read that fails counts as an empty file, and `unread` remembers one.

### Advisors

The passes `predict`, `optimize`, `work`, again and again: `Back` is a structural
repair, `Fails` another attempt of the job, `Learn` the end of a run, after which
the next begins with the same workspace. `learned` and `lessons` are
`docs/07_learning_report.json`, `report` is `docs/08_prediction_report.json`.
`Sentence` has the words that are in the sentence learning writes on a topic,
`Watched` the words that prediction looks for; the two lists are in two files
and agree by nothing but care. `Risk` and `Overall` are the rounded scores in
hundredths, `Score`, `Lapse` and `Advise` those of optimization. `taught` and
`ever` are histories. The search of the Brain for reports of earlier sessions
finds nothing, as stored artifacts have a checksum and no content, so the files
are all that one run tells the next. With stub tools prediction is as sure as
ever although nothing was learned, since the stub's text is not empty;
`ConfidenceEarned` is therefore about real files.

### Tracing

`run_project_pipeline` starts the trace, opens its root span, logs the job,
hands it to the queue and closes the span (`StartTrace` to `CloseRoot`); the
worker may take the job as soon as it is queued. `LogStarted`, `OpenWorkerSpan`
and `ReadFinal` to `FinishTrace` are the worker's own calls of the tracer. Between
them, `UpdateSession` is `BrainService.update_session` for SQL, access by access:
the read of the row (`ReadSession`), of the key (`FindSpan`, `FindNoSpan`), the
span that is closed (`CloseAgentSpan`, `ForgetSpan`, `LogCompleted`), the one that
is opened (`CreateAgentSpan`, `SaveSpan`, `LogAgentStarted`), and the row and its
audit entry. `step` is the place inside the call and `pc` the caller, from which
follow the call's `NewNode` and `NewStatus`. Each access works or fails:
`TraceStore` swallows its errors, the span key is read and written inside a `try`,
the rest raises. Stages are numbers; `OpenSandbox` to `CloseSandbox` is
`execute_in_sandbox` by way of its fallback, as often as validation calls it.

`enforced` is whether the database checks foreign keys, which PostgreSQL does and
SQLite, as it is opened here, does not. `spans` is the table of the spans with, as
history, how the agent of each fared (`did`); a span whose row was refused is
"absent", as its id goes on being used. `trace` is the row of the trace; the
fallback trace of a retry is not kept, its span is marked `in = "fallback"`.
`row` is the session's status and active node. Durations, costs and metric
snapshots are left out.

## 4. Runs

| run | instance | what it shows |
|---|---|---|
| `queue_safety` | 2 jobs, 2 workers, limit 3, 1 crash, both modes | a job has one live copy, attempts and retries agree, dead letters are exact, `JobSpec` is implemented |
| `queue_live` | 2 jobs, 2 workers, limit 1, 1 crash, 1 storage error, JSON | each crash and each storage error loses at most one job, and every job settles unless something crashed or failed |
| `queue_stuck` | 1 job, 2 workers, SQL | *violated*: a job that is retried never settles |
| `agent_run` | 2 retries, 2 artifacts, 2 decisions, 2 runs | the brain's trail of a run is true, success means stored, a human is asked only when no retry is left, every run ends |
| `agent_cleanup` | the same, 1 run | *violated*: an agent ends with its tools open |
| `conductor_run` | 3 loops, 2 attempts, 1 storage error | reports fresh, view sound, failures show, a way back has its reason in the decision file, `WorkflowSpec` implemented, every attempt ends |
| `admission_run` | 1 user, 2 threads, 2 workers, 3 jobs, 1 error, 1 minute, 1 period | the bound on the queue, cost records follow jobs, no meter overcharges |
| `store_run` | 2 writers, 4 records, 1 path, both modes, shared or not, 1 failure | SQL keeps all records and loses one audit entry for a failure, one JSON service loses what overlaps and one file for a failure, one version twice only by overlap |
| `store_lost` | 2 writers, 2 records, JSON | *violated*: a shared JSON store loses a record without any failure |
| `quality_run` | 1 endpoint, 2 services, one's text in the other's, 3 loops, a list of files without `services.py`, one without `api.py` and `models.py` or the scaffold's, 1 report from outside, 1 read or write that fails | nothing is defined twice, repairs are delivered and take no declaration away, the evaluator finds just what is in the files it opens |
| `advisors_run` | 3, 1 and no items for a part, any lessons, any number of runs, 1 fault | what one run learned is what the next prediction raises |
| `tracing_run` | 1 request, 5 stages, 2 loops, 3 sandbox spans, with and without foreign keys, 1 failing operation, 1 death of a process | spans tell how agents fared, events and spans agree, few spans stay open, the trace is truthful and ends, the session ends as the job did, whatever the tracing does |

Every property of a passing run has a mutant in `PROJECT.json`, a form of one
definition with a plausible bug in it, under which TLC finds the property
violated.

## 5. Bounds and fairness

Bounds that are in the modules are named constants: crashes, faults, runs,
attempts, minutes, periods. One of each is enough to put a failure between any
two steps, two workers (threads, writers) are enough for every race of two, and
two jobs for the confusion of one with another; a third worker has nothing to
do that the second has not, as every step touches one job. The retry limit is
the code's 3 where attempts are counted and 1 where liveness is checked, since
every retry is the same step. Three loops of the conductor are the code's own
limit. Three jobs with a queue limit of 1 let two threads exceed it. Four
records let two writers store two each, so that a version can be skipped or
given twice and a loss can be told from an overwriting. In `quality_run` the
service whose name is contained in another's and the endpoint are the cases that
a scan for a text treats differently; entities go the way of services there (an
instance with an entity and two loops was checked while the module was written).
Its lists of files are the one of `tests/test_repair_agent.py:291-292`, one with
other files and a file that does not exist, and the scaffold's own.
In `advisors_run` three items are what a third needs and one is what all or
nothing needs; the number of runs has no bound. In `tracing_run` five stages stand
for the nine: the first, one that a reroute goes back to, validation with its
sandbox, repair, and learning; the others are steps of the same kind. Two loops
are what a reroute needs, three sandbox spans leave one open beside another
(validation runs once per loop and again after a failure of its phase), and one
fault and one death come between any two accesses; instances with two faults
were checked while the module was written. The proofs (section 6)
hold for every bound, so none of them hides a violation of a proved property.
Symmetry is used where only safety is checked. `CHECK_DEADLOCK FALSE` stands
where the system may stop: an agent, a conductor, a loop or a store that has done all
it was asked to, and a bound that is used up.

Fairness is weak, and only on what the code schedules by itself: the steps of an
enqueue call and of a worker (threads that run; each call they make returns or
raises, Redis and SQL clients have timeouts), the one thread of the lifecycle
and of the conductor, the request and the worker of `Tracing`. Nothing makes a crash, an error, a retry of a job by a
further attempt or a lost update happen, and none is assumed to stop except by
the bounds. In `Conductor`, that an agent's step ends is what
`AgentLifecycle!RunEnds` shows; in `JobQueue`, that a run ends is
`Conductor!AttemptEnds` (the action `NodeStarts` may be taken again and again,
but not for ever, as fairness of the worker is on its step as a whole and the
repetition is a stutter once the row is placed).

## 6. Proofs

Proved with TLAPS, from the constants' assumptions only (`QueueAssumption`,
`AgentAssumption`, `ConductorAssumption`, `AdmissionAssumption`,
`StoreAssumption`, `QualityAssumption`, `AdvisorsAssumption`,
`TracingAssumption`: kinds of numbers,
finite sets of what is counted, and that kinds of items, or a marker and the
elements, do not overlap):

* `JobQueueProofs`. Up to the first storage error (`faults = 0` in the state the
  theorem speaks of; how many errors may follow does not matter): `OneLiveCopy`,
  `UpdatesKept`, `DeadLettersAreExact`, `RetriesAreAttempts`, `SuccessIsAgreed`,
  `PromiseUntilError`, and from the last, where storage never fails
  (`MaxDbFaults = 0`), `QueueImplementsSpec`. The argument: the places a job can be
  in (its caller, the queue, a worker) exclude each other, and each place fixes
  what the job's record and counters are. That makes the record a worker has read
  the one it writes back to, and every step a step of `JobSpec` or a stutter. A
  success is final, as nobody holds or queues the job any more (`Finished`), so
  nobody writes its session row again. The hypothesis is needed: with one storage
  error in SQL an attempt may be handled as two failures (section 7).
  Whatever fails: `TypeCorrect`, `LossIsBounded` and
  `CopiesAreBounded`. Two workers of one job may then race, so neither of the last two rests
  on the one copy. Losses are bounded by counting `Orphans`, the pending jobs that no
  payload and no worker will move on: a step makes at most the job in its own hands
  an orphan, and only a crash or an error does. Copies are bounded by counting
  tokens (`Tokens`), one for each copy and, in SQL, one for the second failure that
  the run with the user id may still have; every step maps the tokens after it into
  those before it, one to one, except the push of the caller and, with JSON
  records, an error in the last update. So each error adds at most one copy, and
  in SQL there are at most two, however many errors.
* `AgentLifecycleProofs`: `AgentTypeCorrect`, `ToolsAvailable`,
  `BrainTellsTruth`, `SuccessIsStored`, `RetriesAreExact`. The strengthening ties
  the position in the lifecycle to the state, the tools, the counters and the
  trail of the present run; the other runs never change.
* `ConductorProofs`: `ConductorTypeCorrect`, `SessionStateIsRight`,
  `ReportsAreFresh`, `ViewIsSound`, `FailuresShow`, `ConductorImplementsWorkflow`,
  `RerouteIsJustified`. The completed stages are always the ones before the present one; from this
  follow the session state, the freshness of reports and the refinement. The
  view needs in addition that the row, and every copy of it that a late update
  still holds, names a stage whose predecessors have completed in some attempt.
* `AdmissionProofs`: `AdmissionTypeCorrect`, `RateIsLimited`, `QueueIsBounded`,
  `CostIsKept`, `NobodyIsOvercharged`. Two workers never run the same job; the
  bound on charges counts what workers have used and not yet written, and what
  they have read and not yet written back.
* `BrainStoreProofs`: `StoreTypeCorrect`, `LossIsExplained`, `SqlVersionsGapless`,
  `NothingLostAlone`, `OnlyOverlapRepeats`. Writers under way have records of their
  own and mark each other as overlapping. With one JSON service a writer between
  its read and its write has read all that was stored without overlap, in every
  file but those where a writer has failed, of which there is at most one for each
  failure (`Kept`); in SQL each record without an audit entry belongs to a writer
  at work or to a failure of its own (`Owed`). A version about to be stored follows
  one that is there. That a version is a number rests on a lemma that a bounded set
  of numbers has a greatest element, from the well-foundedness of the order.
* `QualityLoopProofs`: `QualityTypeCorrect`, `NothingDefinedTwice`,
  `RepairsAreDelivered`, `EvaluatorFindsListed`, `PassIsAlwaysEarned`,
  `RepairsOnlyAppend`. Two facts carry all of them: once implementation has run
  and no read has failed, the code has everything the design names
  (`Generated`); and while repair is under way, an item of the diagnosis either
  has an instruction left or is found in the code (`Underway`), which later
  instructions keep since nothing that is declared is removed. That a PASS is earned needs bounds
  on the parts of the score: with either kind missing altogether at most 800 of
  1000 hundredths can be reached, below the threshold of 850.
* `AdvisorsProofs`: `AdvisorsTypeCorrect`, `LessonsAreHeeded`, `AlarmsHaveCause`,
  `ConfidenceIsEarned`. Lemmas on the words (a sentence raises its own topic and
  no other), on the risks (a half, or a third with a lesson, is exactly what
  reaches the threshold, for designs of every size) and on the scores; and the
  invariant `Memory`, that without a fault the file has just what the latest run
  was taught, and never more than some run was.

* `TracingProofs`: `TracingTypeCorrect`, `SpansAreTrue`, `TraceIsTruthful`,
  `StatusIsSynced`. While the stages go on, every agent but the one at work has
  succeeded, and the span of the one at work is not closed yet (`Fates`): so what a
  stale key can close as a success is the span of an agent that succeeded, whatever
  failed before. Without a fault the key names the span of the agent at work, or of
  the last one until it is deleted (`KeyNamed`), so that an update to COMPLETED or
  FAILED never raises and what it closes as failed has raised (`Blamed`). The trace
  ends only with the attempt that has a trace id, after which the retry cannot
  touch the row (`Outcome`); where nobody dies either, verdict, row and the number
  of failures handled keep step (`Synced`). None of these needs the trace store to
  keep anything. `LeaksAreBounded` and `TheAccountsAgree` are about what it does
  keep. A span of the run that is open is held by whoever is on the way to close
  it (`Held`) or has leaked; an operation that fails makes at most one leak more, a
  process that dies at most three, every other step none. The span of a retry's
  worker is open for ever but belongs to no run. The two accounts, events and spans, are
  compared by rank (`Follows`, `InStep`) and not as sequences that are selected and
  then compared, which no installed prover can unfold: while nothing has failed,
  the spans agree with the events entry by entry and are ahead by one between the
  write of a span and that of its event (`Accounts`); where foreign keys are
  enforced neither has an entry (`Unkept`).

Twelve properties are proved that no run lists: `UpdatesKept`, `ToolsAvailable` and
`SessionStateIsRight`, which say less than others do, `PromiseUntilError`, which
says more than the property it implies, and `SuccessIsAgreed`, `CopiesAreBounded`,
`RateIsLimited`, `SqlVersionsGapless`, `NothingLostAlone`, `PassIsAlwaysEarned`,
`AlarmsHaveCause` and `ConfidenceIsEarned`, which TLC checked before they were
proved and whose place among the runs went to others (`CopiesBounded` and its
invariant on one job, three workers and two storage errors, with attempts cut off
at six).

Every safety invariant and action property of a passing run is the subject of a
theorem. Only model-checked: liveness (`EveryJobSettles`, `RunEnds`, `AttemptEnds`,
`TraceEnds`), which is beyond the prover; and the violated properties, which have
no proof.

## 7. Where the code disagrees with what it says

Three runs end in a counterexample, each listed under "findings" with the line it
contradicts: a retried job is stuck in SQL because its payload has no user
(`queue_stuck`); resources that are "unconditionally"
released are not when a transition is refused or a human is asked
(`agent_cleanup`); the "thread-safe" JSON store is not (`store_lost`).

Read off the code and visible in the models, without a run of their own:

* `update_session` binds `status_str` only where it finds the key of the active
  span, and uses it after the `try` (`brain_service.py:234-239`). If the key is
  not there, an update to COMPLETED or FAILED raises before the row is written.
  So one Redis `set` that fails (`:213`) leaves a session IN_PROGRESS for ever;
  and the worker, whose own update raises in the same way at
  `conductor_worker.py:93`, handles one failure twice: two retries are counted,
  against "Retrying job {job_id}. Attempt {job_data['retry_count']}/3."
  (`job_manager.py:85`), and two payloads are queued. `StatusSynced` and
  `RetriesAreAttempts` are for this reason about behaviours up to a storage error.
  With JSON records and two copies of a job the retry limit of 3 bounds nothing: the
  write-back of `update_job_status` by one worker undoes what the other has counted.
  One storage error and two workers are enough (TLC finds 15 attempts of one job);
  with SQL the retries end before they are counted.
* The trace of a request refers to the session "pending-session-init"
  (`projects.py:96`), and `Trace.session_id` is a foreign key that may not be null
  (`postgres_models.py:229`). Where foreign keys are enforced no trace, span or
  event is ever stored, since each refers to one that was refused, and the errors
  are only logged. `tests/test_observability.py:104-107` expects the trace, with
  status "running", on SQLite. In the model this is `enforced`.
* The payload of a retry has no trace id (`job_manager.py:78-83`): its worker span
  goes to a fallback trace, of a user and a session that do not exist, and both
  stay open for ever (`LeftOpen` counts the spans of the run's own trace only).
* One Redis read that fails at COMPLETED ends a span "failed" whose agent
  succeeded: the update raises, the worker sees a session that is not COMPLETED,
  and its update to FAILED finds the key. `SpansTrue` has `faults = 0` there.
* The quota counts runs that are over (`quota_manager.py:47`), so requests that
  come before a run has ended pass it, against "Ensures a user has not exceeded"
  (`quota_manager.py:35`).
* A repair decision that cannot be written is only logged (`repair.py:450`); the
  conductor then follows the file of an earlier pass (`Conductor!asked` and
  `decision` differ).
* A read error counts as an empty file in `repair.py:305`, and the patch is
  written in place of the source, against "surgical" (`repair.py:23`): the
  condition `unread` of `RepairsKeepDeclared`.
* The repair of `main.py` replaces the file as a whole (`repair.py:350-351`) and
  drops what `implementation.py:344-345` had put there, the `__main__` block, against
  "surgical" again: `RepairsKeepDeclared` is about the three files that a repair
  appends to, and `Rewrite` has the replacement.
* No agent writes `docs/03_backend_scaffold.md`, `docs/04_execution_report.md` or
  `docs/05_evaluation_report.md`. So repair never sees the reports of its own
  loop, no verdict is looked at by the conductor, and the evaluator opens the files
  that a list from elsewhere names: a list without `services.py` has every service
  reported missing that is there (`EvaluatorAgrees` says exactly which).
* Learning counts an issue twice that both the evaluation report and the repair
  decision name, against "do NOT infer from single occurrence"
  (`learning.py:187`); `Advisors!Patterns` allows it.
* "Historical failure patterns from Project Brain across all sessions"
  (`predictive.py:231`) are never found.

## 8. What is not modelled

Texts and prompts; metric snapshots, the replay of a trace and the counters of
sandbox time, which only costs are made of; how reports on evaluations,
predictions, optimization and learning are kept in the brain, which are single
inserts or overwrite one key; what the planning and blueprint agents write,
beyond that a design names items;
authentication, schemas and pass-through routes; `LocalTaskRunner`, which no
service uses; the Docker sandbox (whose `is_enabled` always answers no, since
`subprocess.run` refuses `capture_output` together with `stdout`); the in-process
stand-in for Redis; the agent factory, apart from its failure. In the worker the
factory is built without a tool resolver, so every tool call of a deployed agent
answers with a stub text; the lifecycle's model does not depend on what a tool
answers.

## 9. Running

    tlasany M.tla
    tlc -workers 2 -config queue_safety.cfg MCJobQueue.tla
    tlapm JobQueueProofs.tla

The module of each run is in `PROJECT.json`; a run takes from a second to about
a minute and a half.
