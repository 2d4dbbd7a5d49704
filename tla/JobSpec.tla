------------------------------- MODULE JobSpec -------------------------------
(***************************************************************************)
(* What the job queue promises about a job, with the queue, the workers    *)
(* and the sessions left out: a submitted job is started, and each start   *)
(* ends in success, in one of at most RetryLimit retries, or in a          *)
(* permanent failure that is filed exactly once.                           *)
(***************************************************************************)
EXTENDS Naturals

CONSTANTS Jobs,        \* job ids
          RetryLimit   \* job_manager.py:69: 3

VARIABLES record,      \* the status a client reads for each job
          buried       \* the jobs filed in the dead-letter list

specVars == <<record, buried>>

Absent == [status |-> "absent", retries |-> 0]

SpecInit ==
  /\ record = [j \in Jobs |-> Absent]
  /\ buried = {}

Submit(j) ==
  /\ record[j] = Absent
  /\ record' = [record EXCEPT ![j] = [status |-> "queued", retries |-> 0]]
  /\ UNCHANGED buried

Start(j) ==
  /\ record[j].status = "queued"
  /\ record' = [record EXCEPT ![j].status = "running"]
  /\ UNCHANGED buried

Succeed(j) ==
  /\ record[j].status = "running"
  /\ record' = [record EXCEPT ![j].status = "success"]
  /\ UNCHANGED buried

Retry(j) ==
  /\ record[j].status = "running"
  /\ record[j].retries < RetryLimit
  /\ record' = [record EXCEPT ![j] = [status |-> "queued", retries |-> @.retries + 1]]
  /\ UNCHANGED buried

GiveUp(j) ==
  /\ record[j].status = "running"
  /\ record[j].retries = RetryLimit
  /\ record' = [record EXCEPT ![j].status = "failed"]
  /\ UNCHANGED buried

File(j) ==
  /\ record[j].status = "failed"
  /\ j \notin buried
  /\ buried' = buried \cup {j}
  /\ UNCHANGED record

SpecNext ==
  \E j \in Jobs :
     Submit(j) \/ Start(j) \/ Succeed(j) \/ Retry(j) \/ GiveUp(j) \/ File(j)

JobPromise == SpecInit /\ [][SpecNext]_specVars
==============================================================================
