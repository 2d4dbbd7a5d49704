----------------------------- MODULE Admission -----------------------------
(***************************************************************************)
(* Who may start a pipeline run, and what it is charged                    *)
(* (app/api/v1/projects.py, app/dependencies/rate_limiter.py, billing/).   *)
(*                                                                         *)
(* API threads check a request step by step: the rate limit in Redis, the  *)
(* usage row in Postgres, the job records in Redis; then they store the    *)
(* cost record and the job.  Workers run the jobs and write what each      *)
(* attempt used back to the usage row.  Nothing locks between two steps.   *)
(***************************************************************************)
EXTENDS Naturals, FiniteSets

CONSTANTS Users, Threads, Workers,
          Jobs,         \* job ids
          RateLimit,    \* requests per minute (60 with a token)
          Quota,        \* per meter, what the tier of the user allows
          QueueLimit,   \* quota_manager.py:75: 3
          MaxFaults,    \* bound on errors and crashes
          MaxMinutes,   \* bound on the minutes that pass
          MaxPeriods    \* bound on the billing periods that end

\* the limits that verify_quota compares; compute and sandbox seconds are
\* metered alike, and counted in units of which an attempt uses at most one
Meters == {"runs", "seconds"}

ASSUME AdmissionAssumption ==
  /\ IsFiniteSet(Threads) /\ IsFiniteSet(Workers) /\ IsFiniteSet(Jobs)
  /\ Users # {} /\ Jobs # {}
  /\ "nobody" \notin Users /\ "none" \notin Jobs
  /\ RateLimit \in Nat \ {0}
  /\ Quota \in [Meters -> Nat]
  /\ QueueLimit \in Nat \ {0}
  /\ MaxFaults \in Nat /\ MaxMinutes \in Nat /\ MaxPeriods \in Nat

VARIABLES hits,      \* Redis: the counter of the current minute
          granted,   \* history: the requests let through this minute
          usage,     \* the user's row: what each meter says
          due,       \* users whose row was last reset 30 days ago or more
          blocked,   \* users whose account is blocked
          pc, user,  \* per thread: the step it is at, and for whom
          stale,     \* per thread: the meters to reset
          ticket,    \* per thread: the job id it has generated
          record,    \* Redis: the job records
          cost,      \* the cost record of each job
          at, task,  \* per worker: the step it is at, and its job
          bill,      \* per worker: the meters it has still to write
          copy,      \* per worker: what it has read of a meter
          spent,     \* history: what the attempts of a user have used
          faults, minutes, periods

threadVars == <<pc, user, stale, ticket>>
workerVars == <<at, task, bill, copy, spent>>
rateVars == <<hits, granted, minutes>>
rowVars == <<usage, due, blocked, periods>>
vars == <<rateVars, rowVars, threadVars, workerVars, record, cost, faults>>

NoJob == [owner |-> "nobody", status |-> "absent", retry |-> FALSE]
NoTicket == "none"
Unused == [m \in Meters |-> 0]

TypeOK ==
  /\ hits \in [Users -> Nat] /\ granted \in [Users -> Nat]
  /\ usage \in [Users -> [Meters -> Nat]] /\ spent \in [Users -> [Meters -> Nat]]
  /\ due \subseteq Users /\ blocked \subseteq Users
  /\ pc \in [Threads -> {"idle", "quota", "reset", "compare", "flood", "store", "enqueue"}]
  /\ user \in [Threads -> Users]
  /\ stale \in [Threads -> SUBSET Meters]
  /\ ticket \in [Threads -> Jobs \cup {NoTicket}]
  /\ record \in [Jobs -> [owner : Users \cup {"nobody"}, retry : BOOLEAN,
                          status : {"absent", "queued", "running", "done"}]]
  /\ cost \in [Jobs -> {"none", "estimated", "final"}]
  /\ at \in [Workers -> {"poll", "run", "read", "write"}]
  /\ task \in [Workers -> Jobs \cup {NoTicket}]
  /\ bill \in [Workers -> SUBSET Meters]
  /\ copy \in [Workers -> Nat]
  /\ faults \in 0..MaxFaults
  /\ minutes \in 0..MaxMinutes
  /\ periods \in 0..MaxPeriods

Init ==
  /\ hits = [u \in Users |-> 0] /\ granted = [u \in Users |-> 0]
  /\ usage = [u \in Users |-> Unused] /\ spent = [u \in Users |-> Unused]
  /\ due = {} /\ blocked \in SUBSET Users
  /\ pc = [t \in Threads |-> "idle"]
  /\ user = [t \in Threads |-> CHOOSE u \in Users : TRUE]
  /\ stale = [t \in Threads |-> {}]
  /\ ticket = [t \in Threads |-> NoTicket]
  /\ record = [j \in Jobs |-> NoJob]
  /\ cost = [j \in Jobs |-> "none"]
  /\ at = [w \in Workers |-> "poll"]
  /\ task = [w \in Workers |-> NoTicket]
  /\ bill = [w \in Workers |-> {}]
  /\ copy = [w \in Workers |-> 0]
  /\ faults = 0 /\ minutes = 0 /\ periods = 0

-----------------------------------------------------------------------------
(* An API thread.                                                          *)

Step(t, from, to) == pc[t] = from /\ pc' = [pc EXCEPT ![t] = to]
Fault == faults < MaxFaults /\ faults' = faults + 1

\* check_rate_limit: incr is one Redis command.  A request past the limit
\* is refused and leaves nothing but the count, which stops at RateLimit + 1.
Limited(u) == hits[u] + 1 > RateLimit

Arrive(t, u) ==
  /\ hits[u] <= RateLimit
  /\ Step(t, "idle", IF Limited(u) THEN "idle" ELSE "quota")
  /\ user' = [user EXCEPT ![t] = u]
  /\ hits' = [hits EXCEPT ![u] = @ + 1]
  /\ granted' = IF Limited(u) THEN granted ELSE [granted EXCEPT ![u] = @ + 1]
  /\ UNCHANGED <<minutes, stale, ticket, rowVars, workerVars, record, cost, faults>>

\* Redis fails before or after the incr: the request goes through
ArriveUncounted(t, u) ==
  /\ Step(t, "idle", "quota")
  /\ Fault
  /\ user' = [user EXCEPT ![t] = u]
  /\ hits' \in {hits, [hits EXCEPT ![u] = @ + 1]}
  /\ granted' = [granted EXCEPT ![u] = @ + 1]
  /\ UNCHANGED <<minutes, stale, ticket, rowVars, workerVars, record, cost>>

QuotaAllows(u) == u \notin blocked /\ \A m \in Meters : usage[u][m] < Quota[m]

\* reset_usage_if_needed has read a row that is due; an attribute that is
\* zero already is not written again
FindDue(t) ==
  /\ user[t] \in due
  /\ Step(t, "quota", "reset")
  /\ stale' = [stale EXCEPT ![t] = {m \in Meters : usage[user[t]][m] > 0}]
  /\ UNCHANGED <<user, ticket, rateVars, rowVars, workerVars, record, cost, faults>>

Reset(t) ==
  /\ Step(t, "reset", "compare")
  /\ usage' = [usage EXCEPT ![user[t]] =
                 [m \in Meters |-> IF m \in stale[t] THEN 0 ELSE usage[user[t]][m]]]
  /\ due' = due \ {user[t]}
  /\ stale' = [stale EXCEPT ![t] = {}]
  /\ UNCHANGED <<blocked, periods, user, ticket, rateVars, workerVars, record, cost, faults>>

\* verify_quota compares the row it has read, or read again after a reset
CheckQuota(t) ==
  /\ pc[t] = "compare" \/ (pc[t] = "quota" /\ user[t] \notin due)
  /\ pc' = [pc EXCEPT ![t] = IF QuotaAllows(user[t]) THEN "flood" ELSE "idle"]
  /\ UNCHANGED <<user, stale, ticket, rateVars, rowVars, workerVars, record, cost, faults>>

\* verify_queue_flooding counts what Redis says of the user's jobs
Active(u) ==
  {j \in Jobs : record[j].owner = u /\ record[j].status \in {"queued", "running"}}
\* Mutant: jobs that wait are not counted.
QueueAllowsRunning(u) ==
  Cardinality({j \in Active(u) : record[j].status = "running"}) < QueueLimit

QueueAllows(u) == Cardinality(Active(u)) < QueueLimit

CheckFlood(t) ==
  /\ Step(t, "flood", IF QueueAllows(user[t]) THEN "store" ELSE "idle")
  /\ UNCHANGED <<user, stale, ticket, rateVars, rowVars, workerVars, record, cost, faults>>

\* Redis fails: no job is counted
CheckFloodBlindly(t) ==
  /\ Step(t, "flood", "store")
  /\ Fault
  /\ UNCHANGED <<user, stale, ticket, rateVars, rowVars, workerVars, record, cost>>

\* run_pipeline checks the rules once more, but only for the estimate; a row
\* that has become due is reset on the way
StoreCost(t) ==
  /\ Step(t, "store", "enqueue")
  /\ usage' = IF user[t] \in due THEN [usage EXCEPT ![user[t]] = Unused] ELSE usage
  /\ due' = due \ {user[t]}
  /\ \E j \in Jobs :
       /\ cost[j] = "none"
       /\ ticket' = [ticket EXCEPT ![t] = j]
       /\ cost' = [cost EXCEPT ![j] = "estimated"]
  /\ UNCHANGED <<blocked, periods, user, stale, rateVars, workerVars, record, faults>>

\* Mutant: the job is recorded under another status.
EnqueuePending(t) ==
  /\ Step(t, "enqueue", "idle")
  /\ ticket' = [ticket EXCEPT ![t] = NoTicket]
  /\ record' = [record EXCEPT ![ticket[t]] =
                  [owner |-> user[t], status |-> "pending", retry |-> FALSE]]
  /\ UNCHANGED <<user, stale, rateVars, rowVars, workerVars, cost, faults>>

\* create_session, then enqueue_job, which ignores a job on record
Enqueue(t) ==
  /\ Step(t, "enqueue", "idle")
  /\ ticket' = [ticket EXCEPT ![t] = NoTicket]
  /\ record' = IF record[ticket[t]].status # "absent" THEN record
               ELSE [record EXCEPT ![ticket[t]] =
                       [owner |-> user[t], status |-> "queued", retry |-> FALSE]]
  /\ UNCHANGED <<user, stale, rateVars, rowVars, workerVars, cost, faults>>

\* the session or the job cannot be stored: the cost record stays
EnqueueFails(t) ==
  /\ Step(t, "enqueue", "idle")
  /\ ticket' = [ticket EXCEPT ![t] = NoTicket]
  /\ Fault
  /\ UNCHANGED <<user, stale, rateVars, rowVars, workerVars, record, cost>>

ThreadStep(t) ==
  \/ \E u \in Users : Arrive(t, u) \/ ArriveUncounted(t, u)
  \/ FindDue(t) \/ Reset(t) \/ CheckQuota(t)
  \/ CheckFlood(t) \/ CheckFloodBlindly(t)
  \/ StoreCost(t) \/ Enqueue(t) \/ EnqueueFails(t)

-----------------------------------------------------------------------------
(* A worker (module JobQueue has the queue, this one the money).           *)

Take(w) ==
  /\ at[w] = "poll"
  /\ \E j \in Jobs :
       /\ record[j].status = "queued" /\ ~record[j].retry
       /\ record' = [record EXCEPT ![j].status = "running"]
       /\ task' = [task EXCEPT ![w] = j]
  /\ at' = [at EXCEPT ![w] = "run"]
  /\ UNCHANGED <<bill, copy, spent, rateVars, rowVars, threadVars, cost, faults>>

\* A job that was put back carries no user: the update of its session
\* raises, and the worker leaves the job as it is and polls again.
Abandon(w) ==
  /\ at[w] = "poll"
  /\ \E j \in Jobs :
       /\ record[j].status = "queued" /\ record[j].retry
       /\ record' = [record EXCEPT ![j].status = "running"]
  /\ UNCHANGED <<workerVars, rateVars, rowVars, threadVars, cost, faults>>

Owner(w) == record[task[w]].owner

\* Mutant: only a job that succeeds is billed.
EndBillsSuccess(w) ==
  /\ at[w] = "run"
  /\ \E over \in {"done", "queued"} :
       /\ record' = [record EXCEPT ![task[w]] =
                       [owner |-> Owner(w), status |-> over, retry |-> over = "queued"]]
       /\ bill' = [bill EXCEPT ![w] = IF over = "done" THEN {"runs"} ELSE {}]
       /\ at' = [at EXCEPT ![w] = IF over = "done" THEN "read" ELSE "poll"]
  /\ spent' = [spent EXCEPT ![Owner(w)]["runs"] = @ + 1]
  /\ UNCHANGED <<task, copy, rateVars, rowVars, threadVars, cost, faults>>

\* the run is over and the job done or put back; what it used is billed next
End(w) ==
  /\ at[w] = "run"
  /\ \E over \in {"done", "queued"}, time \in SUBSET {"seconds"} :
       /\ record' = [record EXCEPT ![task[w]] =
                       [owner |-> Owner(w), status |-> over, retry |-> over = "queued"]]
       /\ bill' = [bill EXCEPT ![w] = {"runs"} \cup time]
       /\ spent' = [spent EXCEPT ![Owner(w)] =
                      [m \in Meters |-> @[m] + IF m \in {"runs"} \cup time THEN 1 ELSE 0]]
  /\ at' = [at EXCEPT ![w] = "read"]
  /\ UNCHANGED <<task, copy, rateVars, rowVars, threadVars, cost, faults>>

\* increment_runs, then update_usage_times
Meter(w) == IF "runs" \in bill[w] THEN "runs" ELSE "seconds"

ReadMeter(w) ==
  /\ at[w] = "read"
  /\ copy' = [copy EXCEPT ![w] = usage[Owner(w)][Meter(w)]]
  /\ at' = [at EXCEPT ![w] = "write"]
  /\ UNCHANGED <<task, bill, spent, rateVars, rowVars, threadVars, record, cost, faults>>

\* the first commit stores the final cost as well
WriteMeter(w) ==
  /\ at[w] = "write"
  /\ usage' = [usage EXCEPT ![Owner(w)][Meter(w)] = copy[w] + 1]
  /\ cost' = [cost EXCEPT ![task[w]] = "final"]
  /\ bill' = [bill EXCEPT ![w] = @ \ {Meter(w)}]
  /\ at' = [at EXCEPT ![w] = IF bill[w] = {Meter(w)} THEN "poll" ELSE "read"]
  /\ task' = [task EXCEPT ![w] = IF bill[w] = {Meter(w)} THEN NoTicket ELSE @]
  /\ copy' = [copy EXCEPT ![w] = 0]
  /\ UNCHANGED <<spent, due, blocked, periods, rateVars, threadVars, record, faults>>

\* Mutant: billing that has failed is done again from its first meter.
StopBillsAgain(w) ==
  /\ at[w] \in {"read", "write"}
  /\ Fault
  /\ at' = [at EXCEPT ![w] = "read"]
  /\ bill' = [bill EXCEPT ![w] = @ \cup {"runs"}]
  /\ UNCHANGED <<task, copy, spent, rateVars, rowVars, threadVars, record, cost>>

\* the database fails while the job is billed, or the worker dies anywhere
Stop(w) ==
  /\ at[w] # "poll"
  /\ Fault
  /\ at' = [at EXCEPT ![w] = "poll"]
  /\ task' = [task EXCEPT ![w] = NoTicket]
  /\ bill' = [bill EXCEPT ![w] = {}]
  /\ copy' = [copy EXCEPT ![w] = 0]
  /\ UNCHANGED <<spent, rateVars, rowVars, threadVars, record, cost>>

WorkerStep(w) ==
  Take(w) \/ Abandon(w) \/ End(w) \/ ReadMeter(w) \/ WriteMeter(w) \/ Stop(w)

-----------------------------------------------------------------------------
(* Time passes.                                                            *)

NextMinute ==
  /\ minutes < MaxMinutes
  /\ minutes' = minutes + 1
  /\ hits' = [u \in Users |-> 0] /\ granted' = [u \in Users |-> 0]
  /\ UNCHANGED <<rowVars, threadVars, workerVars, record, cost, faults>>

PeriodEnds(u) ==
  /\ periods < MaxPeriods
  /\ periods' = periods + 1
  /\ due' = due \cup {u}
  /\ UNCHANGED <<usage, blocked, rateVars, threadVars, workerVars, record, cost, faults>>

Next ==
  \/ \E t \in Threads : ThreadStep(t)
  \/ \E w \in Workers : WorkerStep(w)
  \/ NextMinute
  \/ \E u \in Users : PeriodEnds(u)

Spec == Init /\ [][Next]_vars

-----------------------------------------------------------------------------
(* Properties.                                                             *)

\* A user is let through at most RateLimit times a minute, and once more for
\* every error of Redis (check_rate_limit fails open).
RateHolds == \A u \in Users : granted[u] <= RateLimit + faults

\* The requests that the flood check has passed and that are no jobs yet.
Past(u) == {t \in Threads : user[t] = u /\ pc[t] \in {"store", "enqueue"}}

\* The flood check does not lock: the jobs of a user can exceed the limit,
\* but only by one for every other API thread that checks at the same time
\* and one for every error of Redis that hid the jobs from the check.
FloodBounded ==
  \A u \in Users : Cardinality(Active(u)) + Cardinality(Past(u))
                     <= QueueLimit - 1 + Cardinality(Threads) + faults

\* Whatever workers overwrite and resets undo, no meter of a user ever says
\* more than what the user's attempts have used (finalize_job_cost).
NotOvercharged ==
  \A u \in Users, m \in Meters : usage[u][m] <= spent[u][m]

\* Every job on record has a cost record, and when its attempt is over the
\* cost is final or about to be, unless something failed.
BeingBilled(j) ==
  \E w \in Workers : task[w] = j /\ at[w] \in {"read", "write"} /\ "runs" \in bill[w]
CostFollowsJob ==
  \A j \in Jobs : record[j].status # "absent" =>
    /\ cost[j] # "none"
    /\ record[j].status = "done" \/ record[j].retry =>
         cost[j] = "final" \/ BeingBilled(j) \/ faults > 0
=============================================================================
