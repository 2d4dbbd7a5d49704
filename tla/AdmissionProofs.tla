--------------------------- MODULE AdmissionProofs --------------------------
(***************************************************************************)
(* Proofs about admission and billing, for any number of users, threads,   *)
(* workers and jobs and for every limit.                                   *)
(*                                                                         *)
(* Held says which job a worker holds: two never run the same one, and the *)
(* job of a worker that bills is on record.  The bound on the queue is     *)
(* inductive as it stands, given Held; the bound on the charges has to     *)
(* count the workers that have still to write a meter (Pending), and what  *)
(* a worker has read but not written back.                                 *)
(***************************************************************************)
EXTENDS Admission, FiniteSetTheorems, TLAPS

RateType ==
  /\ hits \in [Users -> Nat] /\ granted \in [Users -> Nat]
  /\ minutes \in 0..MaxMinutes /\ faults \in 0..MaxFaults
RowType ==
  /\ usage \in [Users -> [Meters -> Nat]] /\ spent \in [Users -> [Meters -> Nat]]
  /\ copy \in [Workers -> Nat]
  /\ due \subseteq Users /\ blocked \subseteq Users
  /\ periods \in 0..MaxPeriods
ThreadType ==
  /\ pc \in [Threads -> {"idle", "quota", "reset", "compare", "flood", "store", "enqueue"}]
  /\ user \in [Threads -> Users]
  /\ stale \in [Threads -> SUBSET Meters]
  /\ ticket \in [Threads -> Jobs \cup {NoTicket}]
JobType ==
  /\ record \in [Jobs -> [owner : Users \cup {"nobody"}, retry : BOOLEAN,
                          status : {"absent", "queued", "running", "done"}]]
  /\ cost \in [Jobs -> {"none", "estimated", "final"}]
WorkerType ==
  /\ at \in [Workers -> {"poll", "run", "read", "write"}]
  /\ task \in [Workers -> Jobs \cup {NoTicket}]
  /\ bill \in [Workers -> SUBSET Meters]

\* what a worker that is not polling holds
Held ==
  /\ \A j \in Jobs : record[j].status # "absent" => record[j].owner \in Users
  /\ \A w \in Workers : at[w] # "poll" =>
       /\ task[w] \in Jobs
       /\ record[task[w]].status # "absent"
       /\ at[w] # "run" => bill[w] # {}
  /\ \A w \in Workers : at[w] = "run" => record[task[w]].status = "running"
  /\ \A w, v \in Workers :
       at[w] = "run" /\ at[v] = "run" /\ task[w] = task[v] => w = v

LEMMA TypeParts == TypeOK <=> RateType /\ RowType /\ ThreadType /\ JobType /\ WorkerType
  BY DEF TypeOK, RateType, RowType, ThreadType, JobType, WorkerType

LEMMA RateTypeStep ==
  ASSUME AdmissionAssumption, RateType, [Next]_vars PROVE RateType'
<1> USE DEF AdmissionAssumption
<1>1. ASSUME NEW t \in Threads, NEW v \in Users, Arrive(t, v) PROVE RateType'
  BY <1>1 DEF RateType, Arrive, Step, Fault, vars, rateVars, rowVars, threadVars, workerVars
<1>2. ASSUME NEW t \in Threads, NEW v \in Users, ArriveUncounted(t, v) PROVE RateType'
  BY <1>2 DEF RateType, ArriveUncounted, Step, Fault, vars, rateVars, rowVars, threadVars, workerVars
<1>3. ASSUME NEW t \in Threads, FindDue(t) PROVE RateType'
  BY <1>3 DEF RateType, FindDue, Step, Fault, vars, rateVars, rowVars, threadVars, workerVars
<1>4. ASSUME NEW t \in Threads, Reset(t) PROVE RateType'
  BY <1>4 DEF RateType, Reset, Step, Fault, vars, rateVars, rowVars, threadVars, workerVars
<1>5. ASSUME NEW t \in Threads, CheckQuota(t) PROVE RateType'
  BY <1>5 DEF RateType, CheckQuota, Step, Fault, vars, rateVars, rowVars, threadVars, workerVars
<1>6. ASSUME NEW t \in Threads, CheckFlood(t) PROVE RateType'
  BY <1>6 DEF RateType, CheckFlood, Step, Fault, vars, rateVars, rowVars, threadVars, workerVars
<1>7. ASSUME NEW t \in Threads, CheckFloodBlindly(t) PROVE RateType'
  BY <1>7 DEF RateType, CheckFloodBlindly, Step, Fault, vars, rateVars, rowVars, threadVars, workerVars
<1>8. ASSUME NEW t \in Threads, StoreCost(t) PROVE RateType'
  BY <1>8 DEF RateType, StoreCost, Step, Fault, vars, rateVars, rowVars, threadVars, workerVars
<1>9. ASSUME NEW t \in Threads, Enqueue(t) PROVE RateType'
  BY <1>9 DEF RateType, Enqueue, Step, Fault, vars, rateVars, rowVars, threadVars, workerVars
<1>10. ASSUME NEW t \in Threads, EnqueueFails(t) PROVE RateType'
  BY <1>10 DEF RateType, EnqueueFails, Step, Fault, vars, rateVars, rowVars, threadVars, workerVars
<1>11. ASSUME NEW w \in Workers, Take(w) PROVE RateType'
  BY <1>11 DEF RateType, Take, Step, Fault, vars, rateVars, rowVars, threadVars, workerVars
<1>12. ASSUME NEW w \in Workers, Abandon(w) PROVE RateType'
  BY <1>12 DEF RateType, Abandon, Step, Fault, vars, rateVars, rowVars, threadVars, workerVars
<1>13. ASSUME NEW w \in Workers, End(w) PROVE RateType'
  BY <1>13 DEF RateType, End, Step, Fault, vars, rateVars, rowVars, threadVars, workerVars
<1>14. ASSUME NEW w \in Workers, ReadMeter(w) PROVE RateType'
  BY <1>14 DEF RateType, ReadMeter, Step, Fault, vars, rateVars, rowVars, threadVars, workerVars
<1>15. ASSUME NEW w \in Workers, WriteMeter(w) PROVE RateType'
  BY <1>15 DEF RateType, WriteMeter, Step, Fault, vars, rateVars, rowVars, threadVars, workerVars
<1>16. ASSUME NEW w \in Workers, Stop(w) PROVE RateType'
  BY <1>16 DEF RateType, Stop, Step, Fault, vars, rateVars, rowVars, threadVars, workerVars
<1>17. ASSUME NextMinute PROVE RateType'
  BY <1>17 DEF RateType, NextMinute, Step, Fault, vars, rateVars, rowVars, threadVars, workerVars
<1>18. ASSUME NEW v \in Users, PeriodEnds(v) PROVE RateType'
  BY <1>18 DEF RateType, PeriodEnds, Step, Fault, vars, rateVars, rowVars, threadVars, workerVars
<1>19. ASSUME UNCHANGED vars PROVE RateType'
  BY <1>19 DEF RateType, vars, rateVars, rowVars, threadVars, workerVars
<1>20. QED
  BY <1>1, <1>2, <1>3, <1>4, <1>5, <1>6, <1>7, <1>8, <1>9, <1>10, <1>11, <1>12, <1>13, <1>14, <1>15, <1>16, <1>17, <1>18, <1>19 DEF Next, ThreadStep, WorkerStep

LEMMA ThreadTypeStep ==
  ASSUME ThreadType, [Next]_vars PROVE ThreadType'
<1>1. ASSUME NEW t \in Threads, NEW v \in Users, Arrive(t, v) PROVE ThreadType'
  BY <1>1 DEF ThreadType, Arrive, Step, Fault, vars, rateVars, rowVars, threadVars, workerVars
<1>2. ASSUME NEW t \in Threads, NEW v \in Users, ArriveUncounted(t, v) PROVE ThreadType'
  BY <1>2 DEF ThreadType, ArriveUncounted, Step, Fault, vars, rateVars, rowVars, threadVars, workerVars
<1>3. ASSUME NEW t \in Threads, FindDue(t) PROVE ThreadType'
  BY <1>3 DEF ThreadType, FindDue, Step, Fault, vars, rateVars, rowVars, threadVars, workerVars
<1>4. ASSUME NEW t \in Threads, Reset(t) PROVE ThreadType'
  BY <1>4 DEF ThreadType, Reset, Step, Fault, vars, rateVars, rowVars, threadVars, workerVars
<1>5. ASSUME NEW t \in Threads, CheckQuota(t) PROVE ThreadType'
  BY <1>5 DEF ThreadType, CheckQuota, Step, Fault, vars, rateVars, rowVars, threadVars, workerVars
<1>6. ASSUME NEW t \in Threads, CheckFlood(t) PROVE ThreadType'
  BY <1>6 DEF ThreadType, CheckFlood, Step, Fault, vars, rateVars, rowVars, threadVars, workerVars
<1>7. ASSUME NEW t \in Threads, CheckFloodBlindly(t) PROVE ThreadType'
  BY <1>7 DEF ThreadType, CheckFloodBlindly, Step, Fault, vars, rateVars, rowVars, threadVars, workerVars
<1>8. ASSUME NEW t \in Threads, StoreCost(t) PROVE ThreadType'
  BY <1>8 DEF ThreadType, StoreCost, Step, Fault, vars, rateVars, rowVars, threadVars, workerVars
<1>9. ASSUME NEW t \in Threads, Enqueue(t) PROVE ThreadType'
  BY <1>9 DEF ThreadType, Enqueue, Step, Fault, vars, rateVars, rowVars, threadVars, workerVars
<1>10. ASSUME NEW t \in Threads, EnqueueFails(t) PROVE ThreadType'
  BY <1>10 DEF ThreadType, EnqueueFails, Step, Fault, vars, rateVars, rowVars, threadVars, workerVars
<1>11. ASSUME NEW w \in Workers, Take(w) PROVE ThreadType'
  BY <1>11 DEF ThreadType, Take, Step, Fault, vars, rateVars, rowVars, threadVars, workerVars
<1>12. ASSUME NEW w \in Workers, Abandon(w) PROVE ThreadType'
  BY <1>12 DEF ThreadType, Abandon, Step, Fault, vars, rateVars, rowVars, threadVars, workerVars
<1>13. ASSUME NEW w \in Workers, End(w) PROVE ThreadType'
  BY <1>13 DEF ThreadType, End, Step, Fault, vars, rateVars, rowVars, threadVars, workerVars
<1>14. ASSUME NEW w \in Workers, ReadMeter(w) PROVE ThreadType'
  BY <1>14 DEF ThreadType, ReadMeter, Step, Fault, vars, rateVars, rowVars, threadVars, workerVars
<1>15. ASSUME NEW w \in Workers, WriteMeter(w) PROVE ThreadType'
  BY <1>15 DEF ThreadType, WriteMeter, Step, Fault, vars, rateVars, rowVars, threadVars, workerVars
<1>16. ASSUME NEW w \in Workers, Stop(w) PROVE ThreadType'
  BY <1>16 DEF ThreadType, Stop, Step, Fault, vars, rateVars, rowVars, threadVars, workerVars
<1>17. ASSUME NextMinute PROVE ThreadType'
  BY <1>17 DEF ThreadType, NextMinute, Step, Fault, vars, rateVars, rowVars, threadVars, workerVars
<1>18. ASSUME NEW v \in Users, PeriodEnds(v) PROVE ThreadType'
  BY <1>18 DEF ThreadType, PeriodEnds, Step, Fault, vars, rateVars, rowVars, threadVars, workerVars
<1>19. ASSUME UNCHANGED vars PROVE ThreadType'
  BY <1>19 DEF ThreadType, vars, rateVars, rowVars, threadVars, workerVars
<1>20. QED
  BY <1>1, <1>2, <1>3, <1>4, <1>5, <1>6, <1>7, <1>8, <1>9, <1>10, <1>11, <1>12, <1>13, <1>14, <1>15, <1>16, <1>17, <1>18, <1>19 DEF Next, ThreadStep, WorkerStep

LEMMA JobTypeStep ==
  ASSUME JobType, ThreadType, [Next]_vars PROVE JobType'
<1>1. ASSUME NEW t \in Threads, NEW v \in Users, Arrive(t, v) PROVE JobType'
  BY <1>1 DEF JobType, Arrive, Step, Fault, vars, rateVars, rowVars, threadVars, workerVars
<1>2. ASSUME NEW t \in Threads, NEW v \in Users, ArriveUncounted(t, v) PROVE JobType'
  BY <1>2 DEF JobType, ArriveUncounted, Step, Fault, vars, rateVars, rowVars, threadVars, workerVars
<1>3. ASSUME NEW t \in Threads, FindDue(t) PROVE JobType'
  BY <1>3 DEF JobType, FindDue, Step, Fault, vars, rateVars, rowVars, threadVars, workerVars
<1>4. ASSUME NEW t \in Threads, Reset(t) PROVE JobType'
  BY <1>4 DEF JobType, Reset, Step, Fault, vars, rateVars, rowVars, threadVars, workerVars
<1>5. ASSUME NEW t \in Threads, CheckQuota(t) PROVE JobType'
  BY <1>5 DEF JobType, CheckQuota, Step, Fault, vars, rateVars, rowVars, threadVars, workerVars
<1>6. ASSUME NEW t \in Threads, CheckFlood(t) PROVE JobType'
  BY <1>6 DEF JobType, CheckFlood, Step, Fault, vars, rateVars, rowVars, threadVars, workerVars
<1>7. ASSUME NEW t \in Threads, CheckFloodBlindly(t) PROVE JobType'
  BY <1>7 DEF JobType, CheckFloodBlindly, Step, Fault, vars, rateVars, rowVars, threadVars, workerVars
<1>8. ASSUME NEW t \in Threads, StoreCost(t) PROVE JobType'
  BY <1>8 DEF JobType, StoreCost, Step, Fault, vars, rateVars, rowVars, threadVars, workerVars
<1>9. ASSUME NEW t \in Threads, Enqueue(t) PROVE JobType'
  BY <1>9 DEF JobType, ThreadType, Enqueue, workerVars, rowVars, rateVars
<1>10. ASSUME NEW t \in Threads, EnqueueFails(t) PROVE JobType'
  BY <1>10 DEF JobType, EnqueueFails, Step, Fault, vars, rateVars, rowVars, threadVars, workerVars
<1>11. ASSUME NEW w \in Workers, Take(w) PROVE JobType'
  BY <1>11 DEF JobType, Take, Step, Fault, vars, rateVars, rowVars, threadVars, workerVars
<1>12. ASSUME NEW w \in Workers, Abandon(w) PROVE JobType'
  BY <1>12 DEF JobType, Abandon, Step, Fault, vars, rateVars, rowVars, threadVars, workerVars
<1>13. ASSUME NEW w \in Workers, End(w) PROVE JobType'
  <2>1. PICK over \in {"done", "queued"} :
          record' = [record EXCEPT ![task[w]] =
                       [owner |-> Owner(w), status |-> over, retry |-> over = "queued"]]
    BY <1>13 DEF End
  <2>2. (over = "queued") \in BOOLEAN
    OBVIOUS
  <2>3. QED
    BY <1>13, <2>1, <2>2 DEF JobType, End, Owner
<1>14. ASSUME NEW w \in Workers, ReadMeter(w) PROVE JobType'
  BY <1>14 DEF JobType, ReadMeter, Step, Fault, vars, rateVars, rowVars, threadVars, workerVars
<1>15. ASSUME NEW w \in Workers, WriteMeter(w) PROVE JobType'
  BY <1>15 DEF JobType, WriteMeter, Step, Fault, vars, rateVars, rowVars, threadVars, workerVars
<1>16. ASSUME NEW w \in Workers, Stop(w) PROVE JobType'
  BY <1>16 DEF JobType, Stop, Step, Fault, vars, rateVars, rowVars, threadVars, workerVars
<1>17. ASSUME NextMinute PROVE JobType'
  BY <1>17 DEF JobType, NextMinute, Step, Fault, vars, rateVars, rowVars, threadVars, workerVars
<1>18. ASSUME NEW v \in Users, PeriodEnds(v) PROVE JobType'
  BY <1>18 DEF JobType, PeriodEnds, Step, Fault, vars, rateVars, rowVars, threadVars, workerVars
<1>19. ASSUME UNCHANGED vars PROVE JobType'
  BY <1>19 DEF JobType, vars, rateVars, rowVars, threadVars, workerVars
<1>20. QED
  BY <1>1, <1>2, <1>3, <1>4, <1>5, <1>6, <1>7, <1>8, <1>9, <1>10, <1>11, <1>12, <1>13, <1>14, <1>15, <1>16, <1>17, <1>18, <1>19 DEF Next, ThreadStep, WorkerStep

LEMMA WorkerTypeStep ==
  ASSUME WorkerType, [Next]_vars PROVE WorkerType'
<1>1. ASSUME NEW t \in Threads, NEW v \in Users, Arrive(t, v) PROVE WorkerType'
  BY <1>1 DEF WorkerType, Arrive, Step, Fault, vars, rateVars, rowVars, threadVars, workerVars, Meters
<1>2. ASSUME NEW t \in Threads, NEW v \in Users, ArriveUncounted(t, v) PROVE WorkerType'
  BY <1>2 DEF WorkerType, ArriveUncounted, Step, Fault, vars, rateVars, rowVars, threadVars, workerVars, Meters
<1>3. ASSUME NEW t \in Threads, FindDue(t) PROVE WorkerType'
  BY <1>3 DEF WorkerType, FindDue, Step, Fault, vars, rateVars, rowVars, threadVars, workerVars, Meters
<1>4. ASSUME NEW t \in Threads, Reset(t) PROVE WorkerType'
  BY <1>4 DEF WorkerType, Reset, Step, Fault, vars, rateVars, rowVars, threadVars, workerVars, Meters
<1>5. ASSUME NEW t \in Threads, CheckQuota(t) PROVE WorkerType'
  BY <1>5 DEF WorkerType, CheckQuota, Step, Fault, vars, rateVars, rowVars, threadVars, workerVars, Meters
<1>6. ASSUME NEW t \in Threads, CheckFlood(t) PROVE WorkerType'
  BY <1>6 DEF WorkerType, CheckFlood, Step, Fault, vars, rateVars, rowVars, threadVars, workerVars, Meters
<1>7. ASSUME NEW t \in Threads, CheckFloodBlindly(t) PROVE WorkerType'
  BY <1>7 DEF WorkerType, CheckFloodBlindly, Step, Fault, vars, rateVars, rowVars, threadVars, workerVars, Meters
<1>8. ASSUME NEW t \in Threads, StoreCost(t) PROVE WorkerType'
  BY <1>8 DEF WorkerType, StoreCost, Step, Fault, vars, rateVars, rowVars, threadVars, workerVars, Meters
<1>9. ASSUME NEW t \in Threads, Enqueue(t) PROVE WorkerType'
  BY <1>9 DEF WorkerType, Enqueue, Step, Fault, vars, rateVars, rowVars, threadVars, workerVars, Meters
<1>10. ASSUME NEW t \in Threads, EnqueueFails(t) PROVE WorkerType'
  BY <1>10 DEF WorkerType, EnqueueFails, Step, Fault, vars, rateVars, rowVars, threadVars, workerVars, Meters
<1>11. ASSUME NEW w \in Workers, Take(w) PROVE WorkerType'
  BY <1>11 DEF WorkerType, Take, Step, Fault, vars, rateVars, rowVars, threadVars, workerVars, Meters
<1>12. ASSUME NEW w \in Workers, Abandon(w) PROVE WorkerType'
  BY <1>12 DEF WorkerType, Abandon, Step, Fault, vars, rateVars, rowVars, threadVars, workerVars, Meters
<1>13. ASSUME NEW w \in Workers, End(w) PROVE WorkerType'
  BY <1>13 DEF WorkerType, End, Step, Fault, vars, rateVars, rowVars, threadVars, workerVars, Meters
<1>14. ASSUME NEW w \in Workers, ReadMeter(w) PROVE WorkerType'
  BY <1>14 DEF WorkerType, ReadMeter, Step, Fault, vars, rateVars, rowVars, threadVars, workerVars, Meters
<1>15. ASSUME NEW w \in Workers, WriteMeter(w) PROVE WorkerType'
  BY <1>15 DEF WorkerType, WriteMeter, Step, Fault, vars, rateVars, rowVars, threadVars, workerVars, Meters
<1>16. ASSUME NEW w \in Workers, Stop(w) PROVE WorkerType'
  BY <1>16 DEF WorkerType, Stop, Step, Fault, vars, rateVars, rowVars, threadVars, workerVars, Meters
<1>17. ASSUME NextMinute PROVE WorkerType'
  BY <1>17 DEF WorkerType, NextMinute, Step, Fault, vars, rateVars, rowVars, threadVars, workerVars, Meters
<1>18. ASSUME NEW v \in Users, PeriodEnds(v) PROVE WorkerType'
  BY <1>18 DEF WorkerType, PeriodEnds, Step, Fault, vars, rateVars, rowVars, threadVars, workerVars, Meters
<1>19. ASSUME UNCHANGED vars PROVE WorkerType'
  BY <1>19 DEF WorkerType, vars, rateVars, rowVars, threadVars, workerVars
<1>20. QED
  BY <1>1, <1>2, <1>3, <1>4, <1>5, <1>6, <1>7, <1>8, <1>9, <1>10, <1>11, <1>12, <1>13, <1>14, <1>15, <1>16, <1>17, <1>18, <1>19 DEF Next, ThreadStep, WorkerStep

LEMMA OwnerIsUser ==
  ASSUME Held, NEW w \in Workers, at[w] # "poll"
  PROVE  task[w] \in Jobs /\ Owner(w) \in Users /\ Meter(w) \in Meters
  BY DEF Held, Owner, Meter, Meters

LEMMA RowTypeStep ==
  ASSUME AdmissionAssumption, RowType, ThreadType, Held, [Next]_vars PROVE RowType'
<1> USE DEF AdmissionAssumption
<1>1. ASSUME NEW t \in Threads, NEW v \in Users, Arrive(t, v) PROVE RowType'
  BY <1>1 DEF RowType, Arrive, Step, Fault, vars, rateVars, rowVars, threadVars, workerVars
<1>2. ASSUME NEW t \in Threads, NEW v \in Users, ArriveUncounted(t, v) PROVE RowType'
  BY <1>2 DEF RowType, ArriveUncounted, Step, Fault, vars, rateVars, rowVars, threadVars, workerVars
<1>3. ASSUME NEW t \in Threads, FindDue(t) PROVE RowType'
  BY <1>3 DEF RowType, FindDue, Step, Fault, vars, rateVars, rowVars, threadVars, workerVars
<1>4. ASSUME NEW t \in Threads, Reset(t) PROVE RowType'
  BY <1>4 DEF RowType, ThreadType, Reset, workerVars
<1>5. ASSUME NEW t \in Threads, CheckQuota(t) PROVE RowType'
  BY <1>5 DEF RowType, CheckQuota, Step, Fault, vars, rateVars, rowVars, threadVars, workerVars
<1>6. ASSUME NEW t \in Threads, CheckFlood(t) PROVE RowType'
  BY <1>6 DEF RowType, CheckFlood, Step, Fault, vars, rateVars, rowVars, threadVars, workerVars
<1>7. ASSUME NEW t \in Threads, CheckFloodBlindly(t) PROVE RowType'
  BY <1>7 DEF RowType, CheckFloodBlindly, Step, Fault, vars, rateVars, rowVars, threadVars, workerVars
<1>8. ASSUME NEW t \in Threads, StoreCost(t) PROVE RowType'
  BY <1>8 DEF RowType, ThreadType, StoreCost, Unused, workerVars
<1>9. ASSUME NEW t \in Threads, Enqueue(t) PROVE RowType'
  BY <1>9 DEF RowType, Enqueue, Step, Fault, vars, rateVars, rowVars, threadVars, workerVars
<1>10. ASSUME NEW t \in Threads, EnqueueFails(t) PROVE RowType'
  BY <1>10 DEF RowType, EnqueueFails, Step, Fault, vars, rateVars, rowVars, threadVars, workerVars
<1>11. ASSUME NEW w \in Workers, Take(w) PROVE RowType'
  BY <1>11 DEF RowType, Take, Step, Fault, vars, rateVars, rowVars, threadVars, workerVars
<1>12. ASSUME NEW w \in Workers, Abandon(w) PROVE RowType'
  BY <1>12 DEF RowType, Abandon, Step, Fault, vars, rateVars, rowVars, threadVars, workerVars
<1>13. ASSUME NEW w \in Workers, End(w) PROVE RowType'
  <2>1. PICK time \in SUBSET {"seconds"} :
          spent' = [spent EXCEPT ![Owner(w)] =
                      [m \in Meters |-> @[m] + IF m \in {"runs"} \cup time THEN 1 ELSE 0]]
    BY <1>13 DEF End
  <2>2. ASSUME NEW u \in Users, NEW m \in Meters
        PROVE  spent[u][m] + (IF m \in {"runs"} \cup time THEN 1 ELSE 0) \in Nat
    BY DEF RowType
  <2>3. spent' \in [Users -> [Meters -> Nat]]
    BY <2>1, <2>2 DEF RowType
  <2>4. QED
    BY <1>13, <2>3 DEF RowType, End, rowVars
<1>14. ASSUME NEW w \in Workers, ReadMeter(w) PROVE RowType'
  BY <1>14, OwnerIsUser DEF RowType, ReadMeter, rowVars
<1>15. ASSUME NEW w \in Workers, WriteMeter(w) PROVE RowType'
  BY <1>15, OwnerIsUser DEF RowType, WriteMeter
<1>16. ASSUME NEW w \in Workers, Stop(w) PROVE RowType'
  BY <1>16 DEF RowType, Stop, Step, Fault, vars, rateVars, rowVars, threadVars, workerVars
<1>17. ASSUME NextMinute PROVE RowType'
  BY <1>17 DEF RowType, NextMinute, Step, Fault, vars, rateVars, rowVars, threadVars, workerVars
<1>18. ASSUME NEW v \in Users, PeriodEnds(v) PROVE RowType'
  BY <1>18 DEF RowType, PeriodEnds, Step, Fault, vars, rateVars, rowVars, threadVars, workerVars
<1>19. ASSUME UNCHANGED vars PROVE RowType'
  BY <1>19 DEF RowType, vars, rateVars, rowVars, threadVars, workerVars
<1>20. QED
  BY <1>1, <1>2, <1>3, <1>4, <1>5, <1>6, <1>7, <1>8, <1>9, <1>10, <1>11, <1>12, <1>13, <1>14, <1>15, <1>16, <1>17, <1>18, <1>19 DEF Next, ThreadStep, WorkerStep

LEMMA HeldStep ==
  ASSUME JobType, WorkerType, ThreadType, Held, [Next]_vars PROVE Held'
<1> USE DEF JobType, WorkerType, NoTicket
<1>1. ASSUME NEW t \in Threads, NEW v \in Users, Arrive(t, v) PROVE Held'
  BY <1>1 DEF Held, Arrive, Step, Fault, vars, rateVars, rowVars, threadVars, workerVars
<1>2. ASSUME NEW t \in Threads, NEW v \in Users, ArriveUncounted(t, v) PROVE Held'
  BY <1>2 DEF Held, ArriveUncounted, Step, Fault, vars, rateVars, rowVars, threadVars, workerVars
<1>3. ASSUME NEW t \in Threads, FindDue(t) PROVE Held'
  BY <1>3 DEF Held, FindDue, Step, Fault, vars, rateVars, rowVars, threadVars, workerVars
<1>4. ASSUME NEW t \in Threads, Reset(t) PROVE Held'
  BY <1>4 DEF Held, Reset, Step, Fault, vars, rateVars, rowVars, threadVars, workerVars
<1>5. ASSUME NEW t \in Threads, CheckQuota(t) PROVE Held'
  BY <1>5 DEF Held, CheckQuota, Step, Fault, vars, rateVars, rowVars, threadVars, workerVars
<1>6. ASSUME NEW t \in Threads, CheckFlood(t) PROVE Held'
  BY <1>6 DEF Held, CheckFlood, Step, Fault, vars, rateVars, rowVars, threadVars, workerVars
<1>7. ASSUME NEW t \in Threads, CheckFloodBlindly(t) PROVE Held'
  BY <1>7 DEF Held, CheckFloodBlindly, Step, Fault, vars, rateVars, rowVars, threadVars, workerVars
<1>8. ASSUME NEW t \in Threads, StoreCost(t) PROVE Held'
  BY <1>8 DEF Held, StoreCost, Step, Fault, vars, rateVars, rowVars, threadVars, workerVars
<1>9. ASSUME NEW t \in Threads, Enqueue(t) PROVE Held'
  BY <1>9 DEF Held, ThreadType, Enqueue, workerVars
<1>10. ASSUME NEW t \in Threads, EnqueueFails(t) PROVE Held'
  BY <1>10 DEF Held, EnqueueFails, Step, Fault, vars, rateVars, rowVars, threadVars, workerVars
<1>11. ASSUME NEW w \in Workers, Take(w) PROVE Held'
  BY <1>11 DEF Held, Take, Step, Fault, vars, rateVars, rowVars, threadVars, workerVars
<1>12. ASSUME NEW w \in Workers, Abandon(w) PROVE Held'
  BY <1>12 DEF Held, Abandon, Step, Fault, vars, rateVars, rowVars, threadVars, workerVars
<1>13. ASSUME NEW w \in Workers, End(w) PROVE Held'
  BY <1>13 DEF Held, End, Owner
<1>14. ASSUME NEW w \in Workers, ReadMeter(w) PROVE Held'
  BY <1>14 DEF Held, ReadMeter, Step, Fault, vars, rateVars, rowVars, threadVars, workerVars
<1>15. ASSUME NEW w \in Workers, WriteMeter(w) PROVE Held'
  BY <1>15 DEF Held, WriteMeter, Step, Fault, vars, rateVars, rowVars, threadVars, workerVars
<1>16. ASSUME NEW w \in Workers, Stop(w) PROVE Held'
  BY <1>16 DEF Held, Stop, Step, Fault, vars, rateVars, rowVars, threadVars, workerVars
<1>17. ASSUME NextMinute PROVE Held'
  BY <1>17 DEF Held, NextMinute, Step, Fault, vars, rateVars, rowVars, threadVars, workerVars
<1>18. ASSUME NEW v \in Users, PeriodEnds(v) PROVE Held'
  BY <1>18 DEF Held, PeriodEnds, Step, Fault, vars, rateVars, rowVars, threadVars, workerVars
<1>19. ASSUME UNCHANGED vars PROVE Held'
  BY <1>19 DEF Held, vars, rateVars, rowVars, threadVars, workerVars
<1>20. QED
  BY <1>1, <1>2, <1>3, <1>4, <1>5, <1>6, <1>7, <1>8, <1>9, <1>10, <1>11, <1>12, <1>13, <1>14, <1>15, <1>16, <1>17, <1>18, <1>19 DEF Next, ThreadStep, WorkerStep

Base == TypeOK /\ Held

LEMMA InitBase == AdmissionAssumption /\ Init => Base
  BY DEF AdmissionAssumption, Init, Base, TypeOK, Held, NoJob, Unused, NoTicket, Meters

LEMMA BaseStep == AdmissionAssumption /\ Base /\ [Next]_vars => Base'
<1> SUFFICES ASSUME AdmissionAssumption, Base, [Next]_vars PROVE Base'
  OBVIOUS
<1>1. RateType /\ RowType /\ ThreadType /\ JobType /\ WorkerType /\ Held
  BY TypeParts DEF Base
<1>2. RateType' /\ RowType' /\ ThreadType' /\ JobType' /\ WorkerType' /\ Held'
  BY <1>1, RateTypeStep, RowTypeStep, ThreadTypeStep, JobTypeStep, WorkerTypeStep, HeldStep
<1>3. TypeOK'
  BY <1>2 DEF TypeOK, RateType, RowType, ThreadType, JobType, WorkerType
<1>4. QED
  BY <1>2, <1>3 DEF Base

\* Type correctness of API threads, workers and the records they share.
THEOREM AdmissionTypeCorrect == Spec => []TypeOK
<1>1. Init => Base
  BY AdmissionAssumption, InitBase
<1>2. Base /\ [Next]_vars => Base'
  BY AdmissionAssumption, BaseStep
<1>3. Base => TypeOK
  BY DEF Base
<1>4. QED
  BY <1>1, <1>2, <1>3, PTL DEF Spec

-----------------------------------------------------------------------------
(* The rate limit.                                                         *)

Counted == \A u \in Users : granted[u] <= hits[u] + faults /\ granted[u] <= RateLimit + faults

\* However many API threads ask at once, a user is let through RateLimit
\* times a minute, and once more for every error of Redis.
THEOREM RateIsLimited == Spec => []RateHolds
<1> USE AdmissionAssumption DEF AdmissionAssumption
<1>1. Init => Base /\ Counted
  BY InitBase DEF Init, Counted
<1>2. Base /\ Counted /\ [Next]_vars => Counted'
  <2> SUFFICES ASSUME RateType, ThreadType, Counted, [Next]_vars PROVE Counted'
    BY TypeParts DEF Base
<2>1. ASSUME NEW t \in Threads, NEW v \in Users, Arrive(t, v) PROVE Counted'
    BY <2>1 DEF Arrive, Counted, RateType, Limited
<2>2. ASSUME NEW t \in Threads, NEW v \in Users, ArriveUncounted(t, v) PROVE Counted'
    BY <2>2 DEF Counted, RateType, ArriveUncounted, Step, Fault, vars, rateVars, rowVars, threadVars, workerVars
<2>3. ASSUME NEW t \in Threads, FindDue(t) PROVE Counted'
    BY <2>3 DEF Counted, RateType, FindDue, Step, Fault, vars, rateVars, rowVars, threadVars, workerVars
<2>4. ASSUME NEW t \in Threads, Reset(t) PROVE Counted'
    BY <2>4 DEF Counted, RateType, Reset, Step, Fault, vars, rateVars, rowVars, threadVars, workerVars
<2>5. ASSUME NEW t \in Threads, CheckQuota(t) PROVE Counted'
    BY <2>5 DEF Counted, RateType, CheckQuota, Step, Fault, vars, rateVars, rowVars, threadVars, workerVars
<2>6. ASSUME NEW t \in Threads, CheckFlood(t) PROVE Counted'
    BY <2>6 DEF Counted, RateType, CheckFlood, Step, Fault, vars, rateVars, rowVars, threadVars, workerVars
<2>7. ASSUME NEW t \in Threads, CheckFloodBlindly(t) PROVE Counted'
    BY <2>7 DEF Counted, RateType, CheckFloodBlindly, Step, Fault, vars, rateVars, rowVars, threadVars, workerVars
<2>8. ASSUME NEW t \in Threads, StoreCost(t) PROVE Counted'
    BY <2>8 DEF Counted, RateType, StoreCost, Step, Fault, vars, rateVars, rowVars, threadVars, workerVars
<2>9. ASSUME NEW t \in Threads, Enqueue(t) PROVE Counted'
    BY <2>9 DEF Counted, RateType, Enqueue, Step, Fault, vars, rateVars, rowVars, threadVars, workerVars
<2>10. ASSUME NEW t \in Threads, EnqueueFails(t) PROVE Counted'
    BY <2>10 DEF Counted, RateType, EnqueueFails, Step, Fault, vars, rateVars, rowVars, threadVars, workerVars
<2>11. ASSUME NEW w \in Workers, Take(w) PROVE Counted'
    BY <2>11 DEF Counted, RateType, Take, Step, Fault, vars, rateVars, rowVars, threadVars, workerVars
<2>12. ASSUME NEW w \in Workers, Abandon(w) PROVE Counted'
    BY <2>12 DEF Counted, RateType, Abandon, Step, Fault, vars, rateVars, rowVars, threadVars, workerVars
<2>13. ASSUME NEW w \in Workers, End(w) PROVE Counted'
    BY <2>13 DEF Counted, RateType, End, Step, Fault, vars, rateVars, rowVars, threadVars, workerVars
<2>14. ASSUME NEW w \in Workers, ReadMeter(w) PROVE Counted'
    BY <2>14 DEF Counted, RateType, ReadMeter, Step, Fault, vars, rateVars, rowVars, threadVars, workerVars
<2>15. ASSUME NEW w \in Workers, WriteMeter(w) PROVE Counted'
    BY <2>15 DEF Counted, RateType, WriteMeter, Step, Fault, vars, rateVars, rowVars, threadVars, workerVars
<2>16. ASSUME NEW w \in Workers, Stop(w) PROVE Counted'
    BY <2>16 DEF Counted, RateType, Stop, Step, Fault, vars, rateVars, rowVars, threadVars, workerVars
<2>17. ASSUME NextMinute PROVE Counted'
    BY <2>17 DEF NextMinute, Counted, RateType
<2>18. ASSUME NEW v \in Users, PeriodEnds(v) PROVE Counted'
    BY <2>18 DEF Counted, RateType, PeriodEnds, Step, Fault, vars, rateVars, rowVars, threadVars, workerVars
<2>19. ASSUME UNCHANGED vars PROVE Counted'
    BY <2>19 DEF Counted, vars, rateVars
<2>20. QED
  BY <2>1, <2>2, <2>3, <2>4, <2>5, <2>6, <2>7, <2>8, <2>9, <2>10, <2>11, <2>12, <2>13, <2>14, <2>15, <2>16, <2>17, <2>18, <2>19 DEF Next, ThreadStep, WorkerStep
<1>3. Base /\ Counted => RateHolds
  BY DEF Counted, RateHolds
<1>4. QED
  BY <1>1, <1>2, <1>3, BaseStep, PTL DEF Spec

-----------------------------------------------------------------------------
(* The queue.                                                              *)

LEMMA SetsAreFinite ==
  ASSUME AdmissionAssumption, NEW u
  PROVE  /\ IsFiniteSet(Active(u)) /\ Cardinality(Active(u)) \in Nat
         /\ IsFiniteSet(Past(u)) /\ Cardinality(Past(u)) \in Nat
         /\ Cardinality(Past(u)) <= Cardinality(Threads) /\ Cardinality(Threads) \in Nat
<1>1. Active(u) \subseteq Jobs /\ Past(u) \subseteq Threads
  BY DEF Active, Past
<1>2. QED
  BY <1>1, FS_Subset, FS_CardinalityType DEF AdmissionAssumption

LEMMA OneMore ==
  ASSUME NEW S, NEW T, NEW x, IsFiniteSet(S), T \subseteq S \cup {x}
  PROVE  IsFiniteSet(T) /\ Cardinality(T) <= Cardinality(S) + 1 /\ Cardinality(T) \in Nat
<1>1. IsFiniteSet(S \cup {x}) /\ Cardinality(S \cup {x}) <= Cardinality(S) + 1
  <2>1. Cardinality(S) \in Nat
    BY FS_CardinalityType
  <2>2. CASE x \in S
    BY <2>1, <2>2, FS_AddElement
  <2>3. CASE x \notin S
    <3>1. IsFiniteSet(S \cup {x}) /\ Cardinality(S \cup {x}) = Cardinality(S) + 1
      BY <2>3, FS_AddElement
    <3>2. QED
      BY <3>1, <2>1
  <2>4. QED
    BY <2>2, <2>3
<1>2. QED
  BY <1>1, FS_Subset, FS_CardinalityType

\* No step but these moves a thread past the flood check or a job into the
\* queue; End puts back a job that was active already.
LEMMA ActiveShrinks ==
  ASSUME JobType, Held, NEW u \in Users, NEW w \in Workers,
         Take(w) \/ Abandon(w) \/ End(w) \/ ReadMeter(w) \/ WriteMeter(w) \/ Stop(w)
  PROVE  Active(u)' \subseteq Active(u)
<1> USE DEF JobType
<1>1. CASE Take(w)
  BY <1>1 DEF Take, Active
<1>2. CASE Abandon(w)
  BY <1>2 DEF Abandon, Active
<1>3. CASE End(w)
  BY <1>3 DEF End, Active, Held, Owner
<1>4. CASE ReadMeter(w) \/ WriteMeter(w) \/ Stop(w)
  BY <1>4 DEF ReadMeter, WriteMeter, Stop, Active
<1>5. QED
  BY <1>1, <1>2, <1>3, <1>4

Load(u) == Cardinality(Active(u)) + Cardinality(Past(u))
Bound == QueueLimit - 1 + Cardinality(Threads)

LEMMA LoadStep ==
  ASSUME AdmissionAssumption, TypeOK, Held, [Next]_vars, NEW u \in Users,
         Load(u) <= Bound + faults
  PROVE  Load(u)' <= Bound + faults'
<1> DEFINE A == Cardinality(Active(u)) A2 == Cardinality(Active(u)')
           P == Cardinality(Past(u))   P2 == Cardinality(Past(u)')
           T == Cardinality(Threads)
<1>1. /\ A \in Nat /\ P \in Nat /\ T \in Nat /\ A2 \in Nat /\ P2 \in Nat
      /\ P2 <= T /\ QueueLimit \in Nat \ {0} /\ faults \in Nat /\ faults' \in Nat
      /\ IsFiniteSet(Active(u)) /\ IsFiniteSet(Past(u))
      /\ RateType /\ ThreadType /\ JobType
  <2>1. RateType' /\ ThreadType' /\ RateType /\ ThreadType /\ JobType
    BY TypeParts, RateTypeStep, ThreadTypeStep
  <2>2. P2 <= T /\ A2 \in Nat /\ P2 \in Nat
    <3>1. Active(u)' \subseteq Jobs /\ Past(u)' \subseteq Threads
      BY DEF Active, Past
    <3>2. QED
      BY <3>1, FS_Subset, FS_CardinalityType DEF AdmissionAssumption
  <2>3. faults \in Nat /\ faults' \in Nat
    BY <2>1 DEF RateType, AdmissionAssumption
  <2>4. QED
    BY <2>1, <2>2, <2>3, SetsAreFinite DEF AdmissionAssumption
<1>2. SUFFICES A2 + P2 <= QueueLimit - 1 + T + faults'
  BY DEF Load, Bound
<1>3. A + P <= QueueLimit - 1 + T + faults
  BY DEF Load, Bound
<1>4. SUFFICES \/ Active(u)' \subseteq Active(u) /\ Past(u)' \subseteq Past(u) /\ faults' >= faults
               \/ A < QueueLimit /\ Active(u)' = Active(u) /\ faults' = faults
               \/ \E x : /\ Active(u)' \subseteq Active(u) \cup {x}
                         /\ Past(u)' \subseteq Past(u) /\ faults' = faults
                         /\ \E y \in Past(u) : Past(u)' = Past(u) \ {y}
               \/ \E x : /\ Active(u)' \subseteq Active(u) /\ faults' = faults + 1
                         /\ Past(u)' \subseteq Past(u) \cup {x}
  <2>1. CASE Active(u)' \subseteq Active(u) /\ Past(u)' \subseteq Past(u) /\ faults' >= faults
    <3>1. A2 <= A /\ P2 <= P
      BY <2>1, <1>1, FS_Subset
    <3>2. QED
      BY <3>1, <2>1, <1>1, <1>3
  <2>2. CASE A < QueueLimit /\ Active(u)' = Active(u) /\ faults' = faults
    BY <2>2, <1>1
  <2>3. CASE \E x : /\ Active(u)' \subseteq Active(u) \cup {x}
                    /\ Past(u)' \subseteq Past(u) /\ faults' = faults
                    /\ \E y \in Past(u) : Past(u)' = Past(u) \ {y}
    <3>1. A2 <= A + 1
      BY <2>3, <1>1, OneMore
    <3>2. P2 = P - 1
      BY <2>3, <1>1, FS_RemoveElement
    <3>3. QED
      BY <3>1, <3>2, <2>3, <1>1, <1>3
  <2>4. CASE \E x : /\ Active(u)' \subseteq Active(u) /\ faults' = faults + 1
                    /\ Past(u)' \subseteq Past(u) \cup {x}
    <3>1. A2 <= A
      BY <2>4, <1>1, FS_Subset
    <3>2. P2 <= P + 1
      BY <2>4, <1>1, OneMore
    <3>3. QED
      BY <3>1, <3>2, <2>4, <1>1, <1>3
  <2>5. QED
    BY <1>4, <2>1, <2>2, <2>3, <2>4
<1> DEFINE Shrinks == Active(u)' \subseteq Active(u) /\ Past(u)' \subseteq Past(u) /\ faults' >= faults
           Passes == A < QueueLimit /\ Active(u)' = Active(u) /\ faults' = faults
           Queues == \E x : /\ Active(u)' \subseteq Active(u) \cup {x}
                            /\ Past(u)' \subseteq Past(u) /\ faults' = faults
                            /\ \E y \in Past(u) : Past(u)' = Past(u) \ {y}
           Slips == \E x : /\ Active(u)' \subseteq Active(u) /\ faults' = faults + 1
                           /\ Past(u)' \subseteq Past(u) \cup {x}
<1> SUFFICES Shrinks \/ Passes \/ Queues \/ Slips
  OBVIOUS
<1> USE <1>1
<1>5. ASSUME NEW t \in Threads, NEW v \in Users, Arrive(t, v) PROVE Shrinks \/ Passes \/ Queues \/ Slips
  <2>1. Active(u)' = Active(u)
    BY <1>5 DEF Arrive, Active, vars
  <2>2. Past(u)' = Past(u) /\ faults' >= faults
    BY <1>5 DEF Arrive, Step, Fault, Past, ThreadType, threadVars
  <2>3. QED
    BY <2>1, <2>2
<1>6. ASSUME NEW t \in Threads, NEW v \in Users, ArriveUncounted(t, v) PROVE Shrinks \/ Passes \/ Queues \/ Slips
  <2>1. Active(u)' = Active(u)
    BY <1>6 DEF ArriveUncounted, Active, vars
  <2>2. Past(u)' = Past(u) /\ faults' >= faults
    BY <1>6 DEF ArriveUncounted, Step, Fault, Past, ThreadType, threadVars
  <2>3. QED
    BY <2>1, <2>2
<1>7. ASSUME NEW t \in Threads, FindDue(t) PROVE Shrinks \/ Passes \/ Queues \/ Slips
  <2>1. Active(u)' = Active(u)
    BY <1>7 DEF FindDue, Active, vars
  <2>2. Past(u)' = Past(u) /\ faults' >= faults
    BY <1>7 DEF FindDue, Step, Fault, Past, ThreadType, threadVars
  <2>3. QED
    BY <2>1, <2>2
<1>8. ASSUME NEW t \in Threads, Reset(t) PROVE Shrinks \/ Passes \/ Queues \/ Slips
  <2>1. Active(u)' = Active(u)
    BY <1>8 DEF Reset, Active, vars
  <2>2. Past(u)' = Past(u) /\ faults' >= faults
    BY <1>8 DEF Reset, Step, Fault, Past, ThreadType, threadVars
  <2>3. QED
    BY <2>1, <2>2
<1>9. ASSUME NEW t \in Threads, CheckQuota(t) PROVE Shrinks \/ Passes \/ Queues \/ Slips
  <2>1. Active(u)' = Active(u)
    BY <1>9 DEF CheckQuota, Active, vars
  <2>2. Past(u)' = Past(u) /\ faults' >= faults
    BY <1>9 DEF CheckQuota, Step, Fault, Past, ThreadType, threadVars
  <2>3. QED
    BY <2>1, <2>2
<1>10. ASSUME NEW t \in Threads, CheckFlood(t) PROVE Shrinks \/ Passes \/ Queues \/ Slips
  <2>1. CASE user[t] = u /\ QueueAllows(u)
    BY <2>1, <1>10 DEF CheckFlood, QueueAllows, Active
  <2>2. CASE ~(user[t] = u /\ QueueAllows(u))
    <3>1. Shrinks
      BY <2>2, <1>10 DEF CheckFlood, Step, Active, Past, ThreadType
    <3>2. QED
      BY <3>1
  <2>3. QED
    BY <2>1, <2>2
<1>11. ASSUME NEW t \in Threads, CheckFloodBlindly(t) PROVE Shrinks \/ Passes \/ Queues \/ Slips
  <2>1. Past(u)' \subseteq Past(u) \cup {t}
    BY <1>11 DEF CheckFloodBlindly, Step, Past, ThreadType
  <2>2. Active(u)' = Active(u) /\ faults' = faults + 1
    BY <1>11 DEF CheckFloodBlindly, Active, Fault
  <2>3. Slips
    BY <2>1, <2>2
  <2>4. QED
    BY <2>3
<1>12. ASSUME NEW t \in Threads, StoreCost(t) PROVE Shrinks \/ Passes \/ Queues \/ Slips
  <2>1. Active(u)' = Active(u)
    BY <1>12 DEF StoreCost, Active, vars
  <2>2. Past(u)' = Past(u) /\ faults' >= faults
    BY <1>12 DEF StoreCost, Step, Fault, Past, ThreadType, threadVars
  <2>3. QED
    BY <2>1, <2>2
<1>13. ASSUME NEW t \in Threads, Enqueue(t) PROVE Shrinks \/ Passes \/ Queues \/ Slips
  <2>1. CASE user[t] = u
    <3>1. Past(u)' = Past(u) \ {t} /\ t \in Past(u)
      BY <2>1, <1>13 DEF Enqueue, Step, Past, ThreadType
    <3>2. Active(u)' \subseteq Active(u) \cup {ticket[t]}
      BY <1>13 DEF Enqueue, Active, JobType
    <3>3. faults' = faults
      BY <1>13 DEF Enqueue
    <3>4. Queues
      BY <3>1, <3>2, <3>3
    <3>5. QED
      BY <3>4
  <2>2. CASE user[t] # u
    <3>1. Shrinks
      BY <2>2, <1>13 DEF Enqueue, Step, Active, Past, ThreadType, JobType
    <3>2. QED
      BY <3>1
  <2>3. QED
    BY <2>1, <2>2
<1>14. ASSUME NEW t \in Threads, EnqueueFails(t) PROVE Shrinks \/ Passes \/ Queues \/ Slips
  <2>1. Active(u)' = Active(u)
    BY <1>14 DEF EnqueueFails, Active
  <2>2. Past(u)' \subseteq Past(u)
    BY <1>14 DEF EnqueueFails, Step, Past, ThreadType
  <2>3. faults' >= faults
    BY <1>14 DEF EnqueueFails, Fault
  <2>4. QED
    BY <2>1, <2>2, <2>3
<1>15. ASSUME NEW w \in Workers, Take(w) PROVE Shrinks \/ Passes \/ Queues \/ Slips
  <2>1. Active(u)' \subseteq Active(u)
    BY <1>15, ActiveShrinks
  <2>2. Past(u)' = Past(u) /\ faults' >= faults
    BY <1>15 DEF Take, Past, Fault, threadVars
  <2>3. QED
    BY <2>1, <2>2
<1>16. ASSUME NEW w \in Workers, Abandon(w) PROVE Shrinks \/ Passes \/ Queues \/ Slips
  <2>1. Active(u)' \subseteq Active(u)
    BY <1>16, ActiveShrinks
  <2>2. Past(u)' = Past(u) /\ faults' >= faults
    BY <1>16 DEF Abandon, Past, Fault, threadVars
  <2>3. QED
    BY <2>1, <2>2
<1>17. ASSUME NEW w \in Workers, End(w) PROVE Shrinks \/ Passes \/ Queues \/ Slips
  <2>1. Active(u)' \subseteq Active(u)
    BY <1>17, ActiveShrinks
  <2>2. Past(u)' = Past(u) /\ faults' >= faults
    BY <1>17 DEF End, Past, Fault, threadVars
  <2>3. QED
    BY <2>1, <2>2
<1>18. ASSUME NEW w \in Workers, ReadMeter(w) PROVE Shrinks \/ Passes \/ Queues \/ Slips
  <2>1. Active(u)' \subseteq Active(u)
    BY <1>18, ActiveShrinks
  <2>2. Past(u)' = Past(u) /\ faults' >= faults
    BY <1>18 DEF ReadMeter, Past, Fault, threadVars
  <2>3. QED
    BY <2>1, <2>2
<1>19. ASSUME NEW w \in Workers, WriteMeter(w) PROVE Shrinks \/ Passes \/ Queues \/ Slips
  <2>1. Active(u)' \subseteq Active(u)
    BY <1>19, ActiveShrinks
  <2>2. Past(u)' = Past(u) /\ faults' >= faults
    BY <1>19 DEF WriteMeter, Past, Fault, threadVars
  <2>3. QED
    BY <2>1, <2>2
<1>20. ASSUME NEW w \in Workers, Stop(w) PROVE Shrinks \/ Passes \/ Queues \/ Slips
  <2>1. Active(u)' \subseteq Active(u)
    BY <1>20, ActiveShrinks
  <2>2. Past(u)' = Past(u) /\ faults' >= faults
    BY <1>20 DEF Stop, Past, Fault, threadVars
  <2>3. QED
    BY <2>1, <2>2
<1>21. ASSUME NextMinute PROVE Shrinks \/ Passes \/ Queues \/ Slips
  <2>1. Active(u)' = Active(u)
    BY <1>21 DEF NextMinute, Active, vars
  <2>2. Past(u)' = Past(u) /\ faults' >= faults
    BY <1>21 DEF NextMinute, Step, Fault, Past, ThreadType, threadVars
  <2>3. QED
    BY <2>1, <2>2
<1>22. ASSUME NEW v \in Users, PeriodEnds(v) PROVE Shrinks \/ Passes \/ Queues \/ Slips
  <2>1. Active(u)' = Active(u)
    BY <1>22 DEF PeriodEnds, Active, vars
  <2>2. Past(u)' = Past(u) /\ faults' >= faults
    BY <1>22 DEF PeriodEnds, Step, Fault, Past, ThreadType, threadVars
  <2>3. QED
    BY <2>1, <2>2
<1>23. ASSUME UNCHANGED vars PROVE Shrinks \/ Passes \/ Queues \/ Slips
  <2>1. Active(u)' = Active(u) /\ Past(u)' = Past(u) /\ faults' = faults
    BY <1>23 DEF vars, threadVars, Active, Past
  <2>2. QED
    BY <2>1
<1>24. QED
  BY <1>5, <1>6, <1>7, <1>8, <1>9, <1>10, <1>11, <1>12, <1>13, <1>14, <1>15, <1>16, <1>17, <1>18, <1>19, <1>20, <1>21, <1>22, <1>23 DEF Next, ThreadStep, WorkerStep

\* The queue of a user: the flood check does not lock and fails open, and
\* still the excess is bounded by the threads and the errors.
THEOREM QueueIsBounded == Spec => []FloodBounded
<1>1. Init => Base /\ FloodBounded
  <2> SUFFICES ASSUME Init PROVE FloodBounded
    BY AdmissionAssumption, InitBase
  <2>1. ASSUME NEW u \in Users
        PROVE  Active(u) = {} /\ Past(u) = {}
    BY DEF Init, Active, Past, NoJob
  <2>2. Cardinality({}) = 0 /\ Cardinality(Threads) \in Nat /\ QueueLimit \in Nat \ {0} /\ faults = 0
    BY AdmissionAssumption, FS_EmptySet, FS_CardinalityType DEF AdmissionAssumption, Init
  <2>3. ASSUME NEW u \in Users
        PROVE  Cardinality(Active(u)) = 0 /\ Cardinality(Past(u)) = 0
    BY <2>1, <2>2
  <2>4. QED
    BY <2>2, <2>3 DEF FloodBounded
<1>2. Base /\ FloodBounded /\ [Next]_vars => FloodBounded'
  BY AdmissionAssumption, LoadStep DEF Base, FloodBounded, Load, Bound
<1>3. QED
  BY <1>1, <1>2, BaseStep, AdmissionAssumption, PTL DEF Spec

-----------------------------------------------------------------------------
(* The cost records.                                                       *)

CostStored ==
  /\ CostFollowsJob
  /\ \A t \in Threads : pc[t] = "enqueue" => ticket[t] \in Jobs /\ cost[ticket[t]] # "none"

LEMMA CostStep ==
  ASSUME AdmissionAssumption, TypeOK, Held, CostStored, [Next]_vars
  PROVE  CostStored'
<1> USE DEF CostStored, CostFollowsJob, BeingBilled
<1>1. RateType /\ ThreadType /\ JobType /\ WorkerType
  BY TypeParts
<1>2. faults \in Nat /\ faults' \in Nat
  BY <1>1, RateTypeStep DEF RateType, AdmissionAssumption
<1> USE <1>1, <1>2 DEF ThreadType, JobType, WorkerType
<1>3. ASSUME NEW t \in Threads, NEW v \in Users, Arrive(t, v) PROVE CostStored'
  BY <1>3 DEF Arrive, Step, Fault, NoTicket, vars, rateVars, rowVars, threadVars, workerVars
<1>4. ASSUME NEW t \in Threads, NEW v \in Users, ArriveUncounted(t, v) PROVE CostStored'
  BY <1>4 DEF ArriveUncounted, Step, Fault, NoTicket, vars, rateVars, rowVars, threadVars, workerVars
<1>5. ASSUME NEW t \in Threads, FindDue(t) PROVE CostStored'
  BY <1>5 DEF FindDue, Step, Fault, NoTicket, vars, rateVars, rowVars, threadVars, workerVars
<1>6. ASSUME NEW t \in Threads, Reset(t) PROVE CostStored'
  BY <1>6 DEF Reset, Step, Fault, NoTicket, vars, rateVars, rowVars, threadVars, workerVars
<1>7. ASSUME NEW t \in Threads, CheckQuota(t) PROVE CostStored'
  BY <1>7 DEF CheckQuota, Step, Fault, NoTicket, vars, rateVars, rowVars, threadVars, workerVars
<1>8. ASSUME NEW t \in Threads, CheckFlood(t) PROVE CostStored'
  BY <1>8 DEF CheckFlood, Step, Fault, NoTicket, vars, rateVars, rowVars, threadVars, workerVars
<1>9. ASSUME NEW t \in Threads, CheckFloodBlindly(t) PROVE CostStored'
  BY <1>9 DEF CheckFloodBlindly, Step, Fault, NoTicket, vars, rateVars, rowVars, threadVars, workerVars
<1>10. ASSUME NEW t \in Threads, StoreCost(t) PROVE CostStored'
  BY <1>10 DEF StoreCost, Step, Fault, NoTicket, vars, rateVars, rowVars, threadVars, workerVars
<1>11. ASSUME NEW t \in Threads, Enqueue(t) PROVE CostStored'
  BY <1>11 DEF Enqueue, Step, Fault, NoTicket, vars, rateVars, rowVars, threadVars, workerVars
<1>12. ASSUME NEW t \in Threads, EnqueueFails(t) PROVE CostStored'
  BY <1>12 DEF EnqueueFails, Step, Fault, NoTicket, vars, rateVars, rowVars, threadVars, workerVars
<1>13. ASSUME NEW w \in Workers, Take(w) PROVE CostStored'
  BY <1>13 DEF Take, Step, Fault, NoTicket, vars, rateVars, rowVars, threadVars, workerVars
<1>14. ASSUME NEW w \in Workers, Abandon(w) PROVE CostStored'
  BY <1>14 DEF Abandon, Step, Fault, NoTicket, vars, rateVars, rowVars, threadVars, workerVars
<1>15. ASSUME NEW w \in Workers, End(w) PROVE CostStored'
  <2>1. \A j \in Jobs : j # task[w] => record'[j] = record[j]
    BY <1>15 DEF End
  <2>2. \A j \in Jobs : BeingBilled(j) => BeingBilled(j)'
    BY <1>15 DEF End
  <2>3. BeingBilled(task[w])' /\ task' = task /\ cost' = cost /\ faults' = faults
    BY <1>15 DEF End
  <2>4. cost[task[w]] # "none"
    BY <1>15 DEF End, Held
  <2>5. ASSUME NEW j \in Jobs, record'[j].status # "absent"
        PROVE  /\ cost'[j] # "none"
               /\ record'[j].status = "done" \/ record'[j].retry =>
                    cost'[j] = "final" \/ BeingBilled(j)' \/ faults' > 0
    <3>1. CASE j = task[w]
      BY <3>1, <2>3, <2>4
    <3>2. CASE j # task[w]
      BY <3>2, <2>1, <2>2, <2>3, <2>5
    <3>3. QED
      BY <3>1, <3>2
  <2>6. QED
    BY <2>5, <2>3, <1>15 DEF End, threadVars
<1>16. ASSUME NEW w \in Workers, ReadMeter(w) PROVE CostStored'
  BY <1>16 DEF ReadMeter, Step, Fault, NoTicket, vars, rateVars, rowVars, threadVars, workerVars
<1>17. ASSUME NEW w \in Workers, WriteMeter(w) PROVE CostStored'
  <2>1. \A j \in Jobs : cost'[j] = cost[j] \/ cost'[j] = "final"
    BY <1>17 DEF WriteMeter
  <2>2. \A j \in Jobs : BeingBilled(j) => BeingBilled(j)' \/ cost'[j] = "final"
    BY <1>17 DEF WriteMeter, Meter
  <2>3. QED
    BY <2>1, <2>2, <1>17 DEF WriteMeter, threadVars
<1>18. ASSUME NEW w \in Workers, Stop(w) PROVE CostStored'
  <2>1. faults' > 0
    BY <1>18 DEF Stop, Fault
  <2>2. QED
    BY <2>1, <1>18 DEF Stop, threadVars
<1>19. ASSUME NextMinute PROVE CostStored'
  BY <1>19 DEF NextMinute, Step, Fault, NoTicket, vars, rateVars, rowVars, threadVars, workerVars
<1>20. ASSUME NEW v \in Users, PeriodEnds(v) PROVE CostStored'
  BY <1>20 DEF PeriodEnds, Step, Fault, NoTicket, vars, rateVars, rowVars, threadVars, workerVars
<1>21. ASSUME UNCHANGED vars PROVE CostStored'
  BY <1>21 DEF vars, rateVars, rowVars, threadVars, workerVars
<1>22. QED
  BY <1>3, <1>4, <1>5, <1>6, <1>7, <1>8, <1>9, <1>10, <1>11, <1>12, <1>13, <1>14, <1>15, <1>16, <1>17, <1>18, <1>19, <1>20, <1>21 DEF Next, ThreadStep, WorkerStep

\* A job is never on record without its cost record, and a job whose attempt
\* is over has its final cost or a worker that is about to store it.
THEOREM CostIsKept == Spec => []CostFollowsJob
<1>1. Init => Base /\ CostStored
  BY AdmissionAssumption, InitBase DEF Init, CostStored, CostFollowsJob, NoJob
<1>2. Base /\ CostStored /\ [Next]_vars => CostStored'
  BY AdmissionAssumption, CostStep DEF Base
<1>3. CostStored => CostFollowsJob
  BY DEF CostStored
<1>4. QED
  BY <1>1, <1>2, <1>3, BaseStep, AdmissionAssumption, PTL DEF Spec

-----------------------------------------------------------------------------
(* The charges.                                                            *)

\* workers that have still to write meter m of user u
Pending(u, m) ==
  {w \in Workers : at[w] \in {"read", "write"} /\ m \in bill[w] /\ Owner(w) = u}

\* what the row says, or will say when a worker writes what it has read,
\* together with what is pending, is covered by what was spent
Covered(u, m) ==
  /\ usage[u][m] + Cardinality(Pending(u, m)) <= spent[u][m]
  /\ \A w \in Workers : at[w] = "write" /\ Owner(w) = u /\ Meter(w) = m =>
       copy[w] + Cardinality(Pending(u, m)) <= spent[u][m]

LEMMA PendingFinite ==
  ASSUME AdmissionAssumption, NEW u, NEW m
  PROVE  IsFiniteSet(Pending(u, m)) /\ Cardinality(Pending(u, m)) \in Nat
<1>1. Pending(u, m) \subseteq Workers
  BY DEF Pending
<1>2. QED
  BY <1>1, FS_Subset, FS_CardinalityType DEF AdmissionAssumption

LEMMA PendingFinite2 ==
  ASSUME AdmissionAssumption, NEW u, NEW m
  PROVE  IsFiniteSet(Pending(u, m)') /\ Cardinality(Pending(u, m)') \in Nat
<1>1. Pending(u, m)' \subseteq Workers
  BY DEF Pending
<1>2. QED
  BY <1>1, FS_Subset, FS_CardinalityType DEF AdmissionAssumption

\* A step that leaves the meters, the copies and the spending alone and adds
\* nobody to the pending.
LEMMA Uncharged ==
  ASSUME AdmissionAssumption, RowType, RowType', NEW u \in Users, NEW m \in Meters,
         Covered(u, m),
         Pending(u, m)' \subseteq Pending(u, m),
         usage'[u][m] <= usage[u][m],
         spent' = spent,
         \A w \in Workers : at'[w] = "write" /\ Owner(w)' = u /\ Meter(w)' = m =>
            copy'[w] = usage[u][m] \/
            (copy'[w] = copy[w] /\ at[w] = "write" /\ Owner(w) = u /\ Meter(w) = m)
  PROVE  Covered(u, m)'
<1> DEFINE P == Cardinality(Pending(u, m)) P2 == Cardinality(Pending(u, m)')
<1>1. P \in Nat /\ P2 \in Nat /\ P2 <= P
  BY PendingFinite, PendingFinite2, FS_Subset
<1>2. /\ usage[u][m] \in Nat /\ spent[u][m] \in Nat /\ usage'[u][m] \in Nat
      /\ copy \in [Workers -> Nat] /\ copy' \in [Workers -> Nat]
  BY DEF RowType
<1>3. usage[u][m] + P <= spent[u][m]
  BY DEF Covered
<1>4. usage'[u][m] + P2 <= spent'[u][m]
  BY <1>1, <1>2, <1>3
<1>5. ASSUME NEW w \in Workers, at'[w] = "write", Owner(w)' = u, Meter(w)' = m
      PROVE  copy'[w] + P2 <= spent'[u][m]
  <2>1. CASE copy'[w] = usage[u][m]
    BY <2>1, <1>1, <1>2, <1>3
  <2>2. CASE copy'[w] = copy[w] /\ at[w] = "write" /\ Owner(w) = u /\ Meter(w) = m
    <3>1. copy[w] + P <= spent[u][m]
      BY <2>2 DEF Covered
    <3>2. QED
      BY <3>1, <2>2, <1>1, <1>2
  <2>3. QED
    BY <2>1, <2>2, <1>5
<1>6. QED
  BY <1>4, <1>5 DEF Covered

LEMMA CoveredStep ==
  ASSUME AdmissionAssumption, TypeOK, TypeOK', Held, Held', [Next]_vars,
         NEW u \in Users, NEW m \in Meters, Covered(u, m)
  PROVE  Covered(u, m)'
<1>1. RowType /\ ThreadType /\ JobType /\ WorkerType
  BY TypeParts
<1>2. RowType' /\ JobType' /\ WorkerType'
  BY DEF TypeOK, RowType, JobType, WorkerType
<1> USE <1>1, <1>2 DEF JobType, WorkerType, ThreadType
<1>3. ASSUME NEW t \in Threads, NEW v \in Users, Arrive(t, v) PROVE Covered(u, m)'
  <2>1. Pending(u, m)' \subseteq Pending(u, m)
    BY <1>3 DEF Arrive, Step, Pending, Owner, Held, workerVars
  <2>2. usage'[u][m] <= usage[u][m] /\ spent' = spent
    BY <1>3 DEF Arrive, RowType, Unused, rowVars, workerVars
  <2>3. \A w2 \in Workers : at'[w2] = "write" /\ Owner(w2)' = u /\ Meter(w2)' = m =>
          copy'[w2] = copy[w2] /\ at[w2] = "write" /\ Owner(w2) = u /\ Meter(w2) = m
    BY <1>3 DEF Arrive, Step, Owner, Meter, Held, RowType, workerVars
  <2>4. QED
    BY <2>1, <2>2, <2>3, Uncharged
<1>4. ASSUME NEW t \in Threads, NEW v \in Users, ArriveUncounted(t, v) PROVE Covered(u, m)'
  <2>1. Pending(u, m)' \subseteq Pending(u, m)
    BY <1>4 DEF ArriveUncounted, Step, Pending, Owner, Held, workerVars
  <2>2. usage'[u][m] <= usage[u][m] /\ spent' = spent
    BY <1>4 DEF ArriveUncounted, RowType, Unused, rowVars, workerVars
  <2>3. \A w2 \in Workers : at'[w2] = "write" /\ Owner(w2)' = u /\ Meter(w2)' = m =>
          copy'[w2] = copy[w2] /\ at[w2] = "write" /\ Owner(w2) = u /\ Meter(w2) = m
    BY <1>4 DEF ArriveUncounted, Step, Owner, Meter, Held, RowType, workerVars
  <2>4. QED
    BY <2>1, <2>2, <2>3, Uncharged
<1>5. ASSUME NEW t \in Threads, FindDue(t) PROVE Covered(u, m)'
  <2>1. Pending(u, m)' \subseteq Pending(u, m)
    BY <1>5 DEF FindDue, Step, Pending, Owner, Held, workerVars
  <2>2. usage'[u][m] <= usage[u][m] /\ spent' = spent
    BY <1>5 DEF FindDue, RowType, Unused, rowVars, workerVars
  <2>3. \A w2 \in Workers : at'[w2] = "write" /\ Owner(w2)' = u /\ Meter(w2)' = m =>
          copy'[w2] = copy[w2] /\ at[w2] = "write" /\ Owner(w2) = u /\ Meter(w2) = m
    BY <1>5 DEF FindDue, Step, Owner, Meter, Held, RowType, workerVars
  <2>4. QED
    BY <2>1, <2>2, <2>3, Uncharged
<1>6. ASSUME NEW t \in Threads, Reset(t) PROVE Covered(u, m)'
  <2>1. Pending(u, m)' \subseteq Pending(u, m)
    BY <1>6 DEF Reset, Step, Pending, Owner, Held, workerVars
  <2>2. usage'[u][m] <= usage[u][m] /\ spent' = spent
    BY <1>6 DEF Reset, RowType, Unused, rowVars, workerVars
  <2>3. \A w2 \in Workers : at'[w2] = "write" /\ Owner(w2)' = u /\ Meter(w2)' = m =>
          copy'[w2] = copy[w2] /\ at[w2] = "write" /\ Owner(w2) = u /\ Meter(w2) = m
    BY <1>6 DEF Reset, Step, Owner, Meter, Held, RowType, workerVars
  <2>4. QED
    BY <2>1, <2>2, <2>3, Uncharged
<1>7. ASSUME NEW t \in Threads, CheckQuota(t) PROVE Covered(u, m)'
  <2>1. Pending(u, m)' \subseteq Pending(u, m)
    BY <1>7 DEF CheckQuota, Step, Pending, Owner, Held, workerVars
  <2>2. usage'[u][m] <= usage[u][m] /\ spent' = spent
    BY <1>7 DEF CheckQuota, RowType, Unused, rowVars, workerVars
  <2>3. \A w2 \in Workers : at'[w2] = "write" /\ Owner(w2)' = u /\ Meter(w2)' = m =>
          copy'[w2] = copy[w2] /\ at[w2] = "write" /\ Owner(w2) = u /\ Meter(w2) = m
    BY <1>7 DEF CheckQuota, Step, Owner, Meter, Held, RowType, workerVars
  <2>4. QED
    BY <2>1, <2>2, <2>3, Uncharged
<1>8. ASSUME NEW t \in Threads, CheckFlood(t) PROVE Covered(u, m)'
  <2>1. Pending(u, m)' \subseteq Pending(u, m)
    BY <1>8 DEF CheckFlood, Step, Pending, Owner, Held, workerVars
  <2>2. usage'[u][m] <= usage[u][m] /\ spent' = spent
    BY <1>8 DEF CheckFlood, RowType, Unused, rowVars, workerVars
  <2>3. \A w2 \in Workers : at'[w2] = "write" /\ Owner(w2)' = u /\ Meter(w2)' = m =>
          copy'[w2] = copy[w2] /\ at[w2] = "write" /\ Owner(w2) = u /\ Meter(w2) = m
    BY <1>8 DEF CheckFlood, Step, Owner, Meter, Held, RowType, workerVars
  <2>4. QED
    BY <2>1, <2>2, <2>3, Uncharged
<1>9. ASSUME NEW t \in Threads, CheckFloodBlindly(t) PROVE Covered(u, m)'
  <2>1. Pending(u, m)' \subseteq Pending(u, m)
    BY <1>9 DEF CheckFloodBlindly, Step, Pending, Owner, Held, workerVars
  <2>2. usage'[u][m] <= usage[u][m] /\ spent' = spent
    BY <1>9 DEF CheckFloodBlindly, RowType, Unused, rowVars, workerVars
  <2>3. \A w2 \in Workers : at'[w2] = "write" /\ Owner(w2)' = u /\ Meter(w2)' = m =>
          copy'[w2] = copy[w2] /\ at[w2] = "write" /\ Owner(w2) = u /\ Meter(w2) = m
    BY <1>9 DEF CheckFloodBlindly, Step, Owner, Meter, Held, RowType, workerVars
  <2>4. QED
    BY <2>1, <2>2, <2>3, Uncharged
<1>10. ASSUME NEW t \in Threads, StoreCost(t) PROVE Covered(u, m)'
  <2>1. Pending(u, m)' \subseteq Pending(u, m)
    BY <1>10 DEF StoreCost, Step, Pending, Owner, Held, workerVars
  <2>2. usage'[u][m] <= usage[u][m] /\ spent' = spent
    BY <1>10 DEF StoreCost, RowType, Unused, rowVars, workerVars
  <2>3. \A w2 \in Workers : at'[w2] = "write" /\ Owner(w2)' = u /\ Meter(w2)' = m =>
          copy'[w2] = copy[w2] /\ at[w2] = "write" /\ Owner(w2) = u /\ Meter(w2) = m
    BY <1>10 DEF StoreCost, Step, Owner, Meter, Held, RowType, workerVars
  <2>4. QED
    BY <2>1, <2>2, <2>3, Uncharged
<1>11. ASSUME NEW t \in Threads, Enqueue(t) PROVE Covered(u, m)'
  <2>1. Pending(u, m)' \subseteq Pending(u, m)
    BY <1>11 DEF Enqueue, Step, Pending, Owner, Held, workerVars
  <2>2. usage'[u][m] <= usage[u][m] /\ spent' = spent
    BY <1>11 DEF Enqueue, RowType, Unused, rowVars, workerVars
  <2>3. \A w2 \in Workers : at'[w2] = "write" /\ Owner(w2)' = u /\ Meter(w2)' = m =>
          copy'[w2] = copy[w2] /\ at[w2] = "write" /\ Owner(w2) = u /\ Meter(w2) = m
    BY <1>11 DEF Enqueue, Step, Owner, Meter, Held, RowType, workerVars
  <2>4. QED
    BY <2>1, <2>2, <2>3, Uncharged
<1>12. ASSUME NEW t \in Threads, EnqueueFails(t) PROVE Covered(u, m)'
  <2>1. Pending(u, m)' \subseteq Pending(u, m)
    BY <1>12 DEF EnqueueFails, Step, Pending, Owner, Held, workerVars
  <2>2. usage'[u][m] <= usage[u][m] /\ spent' = spent
    BY <1>12 DEF EnqueueFails, RowType, Unused, rowVars, workerVars
  <2>3. \A w2 \in Workers : at'[w2] = "write" /\ Owner(w2)' = u /\ Meter(w2)' = m =>
          copy'[w2] = copy[w2] /\ at[w2] = "write" /\ Owner(w2) = u /\ Meter(w2) = m
    BY <1>12 DEF EnqueueFails, Step, Owner, Meter, Held, RowType, workerVars
  <2>4. QED
    BY <2>1, <2>2, <2>3, Uncharged
<1>13. ASSUME NEW w \in Workers, Take(w) PROVE Covered(u, m)'
  <2>1. Pending(u, m)' \subseteq Pending(u, m)
    BY <1>13 DEF Take, Step, Pending, Owner, Held, workerVars
  <2>2. usage'[u][m] <= usage[u][m] /\ spent' = spent
    BY <1>13 DEF Take, RowType, Unused, rowVars, workerVars
  <2>3. \A w2 \in Workers : at'[w2] = "write" /\ Owner(w2)' = u /\ Meter(w2)' = m =>
          copy'[w2] = copy[w2] /\ at[w2] = "write" /\ Owner(w2) = u /\ Meter(w2) = m
    BY <1>13 DEF Take, Step, Owner, Meter, Held, RowType, workerVars
  <2>4. QED
    BY <2>1, <2>2, <2>3, Uncharged
<1>14. ASSUME NEW w \in Workers, Abandon(w) PROVE Covered(u, m)'
  <2>1. Pending(u, m)' \subseteq Pending(u, m)
    BY <1>14 DEF Abandon, Step, Pending, Owner, Held, workerVars
  <2>2. usage'[u][m] <= usage[u][m] /\ spent' = spent
    BY <1>14 DEF Abandon, RowType, Unused, rowVars, workerVars
  <2>3. \A w2 \in Workers : at'[w2] = "write" /\ Owner(w2)' = u /\ Meter(w2)' = m =>
          copy'[w2] = copy[w2] /\ at[w2] = "write" /\ Owner(w2) = u /\ Meter(w2) = m
    BY <1>14 DEF Abandon, Step, Owner, Meter, Held, RowType, workerVars
  <2>4. QED
    BY <2>1, <2>2, <2>3, Uncharged
<1>15. ASSUME NEW w \in Workers, End(w) PROVE Covered(u, m)'
  <2> DEFINE P == Cardinality(Pending(u, m)) P2 == Cardinality(Pending(u, m)')
  <2>1. /\ \A w2 \in Workers : Owner(w2)' = Owner(w2)
        /\ \A w2 \in Workers : w2 # w => at'[w2] = at[w2] /\ bill'[w2] = bill[w2]
        /\ at'[w] = "read" /\ copy' = copy /\ usage' = usage
    BY <1>15 DEF End, Owner, rowVars
  <2>2. \/ Pending(u, m)' \subseteq Pending(u, m) /\ spent'[u][m] >= spent[u][m]
        \/ Pending(u, m)' \subseteq Pending(u, m) \cup {w} /\ spent'[u][m] = spent[u][m] + 1
    <3>1. PICK time \in SUBSET {"seconds"} :
            /\ bill' = [bill EXCEPT ![w] = {"runs"} \cup time]
            /\ spent' = [spent EXCEPT ![Owner(w)] =
                      [n \in Meters |-> @[n] + IF n \in {"runs"} \cup time THEN 1 ELSE 0]]
      BY <1>15 DEF End
    <3>2. CASE Owner(w) = u /\ m \in {"runs"} \cup time
      BY <3>1, <3>2, <2>1 DEF Pending, RowType
    <3>3. CASE Owner(w) # u \/ m \notin {"runs"} \cup time
      <4>1. Pending(u, m)' \subseteq Pending(u, m)
        BY <3>1, <3>3, <2>1 DEF Pending
      <4>2. spent'[u][m] = spent[u][m]
        BY <3>1, <3>3 DEF RowType
      <4>3. QED
        BY <4>1, <4>2 DEF RowType
    <3>4. QED
      BY <3>2, <3>3
  <2>3. /\ P \in Nat /\ P2 \in Nat /\ IsFiniteSet(Pending(u, m))
        /\ usage[u][m] \in Nat /\ spent[u][m] \in Nat /\ spent'[u][m] \in Nat
        /\ copy \in [Workers -> Nat]
    BY PendingFinite, PendingFinite2 DEF RowType
  <2>4. \A x \in Nat : x + P <= spent[u][m] => x + P2 <= spent'[u][m]
    <3>1. CASE Pending(u, m)' \subseteq Pending(u, m) /\ spent'[u][m] >= spent[u][m]
      <4>1. P2 <= P
        BY <3>1, <2>3, FS_Subset
      <4>2. QED
        BY <4>1, <3>1, <2>3
    <3>2. CASE Pending(u, m)' \subseteq Pending(u, m) \cup {w} /\ spent'[u][m] = spent[u][m] + 1
      <4>1. P2 <= P + 1
        BY <3>2, <2>3, OneMore
      <4>2. QED
        BY <4>1, <3>2, <2>3
    <3>3. QED
      BY <3>1, <3>2, <2>2
  <2>5. usage'[u][m] + P2 <= spent'[u][m]
    BY <2>1, <2>3, <2>4 DEF Covered
  <2>6. ASSUME NEW w2 \in Workers, at'[w2] = "write", Owner(w2)' = u, Meter(w2)' = m
        PROVE  copy'[w2] + P2 <= spent'[u][m]
    <3>1. w2 # w /\ at[w2] = "write" /\ Owner(w2) = u /\ Meter(w2) = m /\ copy[w2] \in Nat
      BY <2>6, <2>1, <2>3 DEF Meter
    <3>2. copy[w2] + P <= spent[u][m]
      BY <3>1 DEF Covered
    <3>3. QED
      BY <3>1, <3>2, <2>4, <2>1
  <2>7. QED
    BY <2>5, <2>6 DEF Covered
<1>16. ASSUME NEW w \in Workers, ReadMeter(w) PROVE Covered(u, m)'
  <2>1. Pending(u, m)' \subseteq Pending(u, m)
    BY <1>16 DEF ReadMeter, Pending, Owner
  <2>2. usage'[u][m] <= usage[u][m] /\ spent' = spent
    BY <1>16 DEF ReadMeter, RowType, rowVars
  <2>3. ASSUME NEW w2 \in Workers, at'[w2] = "write", Owner(w2)' = u, Meter(w2)' = m
        PROVE  copy'[w2] = usage[u][m] \/
               (copy'[w2] = copy[w2] /\ at[w2] = "write" /\ Owner(w2) = u /\ Meter(w2) = m)
    BY <2>3, <1>16 DEF ReadMeter, RowType, Owner, Meter
  <2>4. QED
    BY <2>1, <2>2, <2>3, Uncharged
<1>17. ASSUME NEW w \in Workers, WriteMeter(w) PROVE Covered(u, m)'
  <2> DEFINE P == Cardinality(Pending(u, m)) P2 == Cardinality(Pending(u, m)')
  <2>1. /\ \A w2 \in Workers : w2 # w => /\ Owner(w2)' = Owner(w2) /\ at'[w2] = at[w2]
                                        /\ bill'[w2] = bill[w2] /\ copy'[w2] = copy[w2]
        /\ at'[w] # "write" /\ spent' = spent
        /\ bill' = [bill EXCEPT ![w] = @ \ {Meter(w)}]
        /\ usage' = [usage EXCEPT ![Owner(w)][Meter(w)] = copy[w] + 1]
        /\ at[w] = "write"
    BY <1>17 DEF WriteMeter, Owner, RowType
  <2>2. at'[w] = "read" => Owner(w)' = Owner(w)
    BY <1>17 DEF WriteMeter, Owner
  <2>3. Pending(u, m)' \subseteq Pending(u, m)
    BY <2>1, <2>2 DEF Pending
  <2>4. CASE Owner(w) # u \/ Meter(w) # m
    <3>1. usage'[u][m] = usage[u][m]
      BY <2>1, <2>4, OwnerIsUser DEF RowType
    <3>2. usage'[u][m] <= usage[u][m]
      BY <3>1 DEF RowType
    <3>3. \A w2 \in Workers : at'[w2] = "write" /\ Owner(w2)' = u /\ Meter(w2)' = m =>
          copy'[w2] = copy[w2] /\ at[w2] = "write" /\ Owner(w2) = u /\ Meter(w2) = m
      BY <2>1 DEF Meter
    <3>4. QED
      BY <2>1, <2>3, <3>2, <3>3, Uncharged
  <2>5. CASE Owner(w) = u /\ Meter(w) = m
    <3>1. m \in bill[w]
      BY <2>1, <2>5 DEF Held, Meter, Meters
    <3>2. w \in Pending(u, m) /\ w \notin Pending(u, m)'
      BY <3>1, <2>1, <2>5 DEF Pending
    <3>3. Pending(u, m)' \subseteq Pending(u, m) \ {w}
      BY <3>2, <2>3
    <3>4. P \in Nat /\ P2 \in Nat /\ P2 <= P - 1
      <4>1. /\ IsFiniteSet(Pending(u, m) \ {w})
            /\ Cardinality(Pending(u, m) \ {w}) = P - 1
        <5>1. w \in Pending(u, m) /\ IsFiniteSet(Pending(u, m))
          BY <3>2, PendingFinite
        <5> HIDE <1>1, <1>2 DEF Pending
        <5>2. QED
          BY <5>1, FS_RemoveElement
      <4>2. P2 <= Cardinality(Pending(u, m) \ {w})
        BY <4>1, <3>3, FS_Subset
      <4>3. QED
        BY <4>1, <4>2, PendingFinite, PendingFinite2
    <3>5. usage'[u][m] = copy[w] + 1
      BY <2>1, <2>5 DEF RowType
    <3>6. copy[w] + P <= spent[u][m]
      BY <2>1, <2>5 DEF Covered
    <3>7. copy \in [Workers -> Nat] /\ spent[u][m] \in Nat
      BY DEF RowType
    <3>8. usage'[u][m] + P2 <= spent'[u][m]
      BY <3>4, <3>5, <3>6, <3>7, <2>1
    <3>9. ASSUME NEW w2 \in Workers, at'[w2] = "write", Owner(w2)' = u, Meter(w2)' = m
          PROVE  copy'[w2] + P2 <= spent'[u][m]
      <4>1. w2 # w /\ at[w2] = "write" /\ Owner(w2) = u /\ Meter(w2) = m
        BY <3>9, <2>1 DEF Meter
      <4>2. copy[w2] + P <= spent[u][m]
        BY <4>1 DEF Covered
      <4>3. QED
        BY <4>1, <4>2, <3>4, <3>7, <2>1
    <3>10. QED
      BY <3>8, <3>9 DEF Covered
  <2>6. QED
    BY <2>4, <2>5
<1>18. ASSUME NEW w \in Workers, Stop(w) PROVE Covered(u, m)'
  <2>1. Pending(u, m)' \subseteq Pending(u, m)
    BY <1>18 DEF Stop, Step, Pending, Owner, Held, workerVars
  <2>2. usage'[u][m] <= usage[u][m] /\ spent' = spent
    BY <1>18 DEF Stop, RowType, Unused, rowVars, workerVars
  <2>3. \A w2 \in Workers : at'[w2] = "write" /\ Owner(w2)' = u /\ Meter(w2)' = m =>
          copy'[w2] = copy[w2] /\ at[w2] = "write" /\ Owner(w2) = u /\ Meter(w2) = m
    BY <1>18 DEF Stop, Step, Owner, Meter, Held, RowType, workerVars
  <2>4. QED
    BY <2>1, <2>2, <2>3, Uncharged
<1>19. ASSUME NextMinute PROVE Covered(u, m)'
  <2>1. Pending(u, m)' \subseteq Pending(u, m)
    BY <1>19 DEF NextMinute, Step, Pending, Owner, Held, workerVars
  <2>2. usage'[u][m] <= usage[u][m] /\ spent' = spent
    BY <1>19 DEF NextMinute, RowType, Unused, rowVars, workerVars
  <2>3. \A w2 \in Workers : at'[w2] = "write" /\ Owner(w2)' = u /\ Meter(w2)' = m =>
          copy'[w2] = copy[w2] /\ at[w2] = "write" /\ Owner(w2) = u /\ Meter(w2) = m
    BY <1>19 DEF NextMinute, Step, Owner, Meter, Held, RowType, workerVars
  <2>4. QED
    BY <2>1, <2>2, <2>3, Uncharged
<1>20. ASSUME NEW v \in Users, PeriodEnds(v) PROVE Covered(u, m)'
  <2>1. Pending(u, m)' \subseteq Pending(u, m)
    BY <1>20 DEF PeriodEnds, Step, Pending, Owner, Held, workerVars
  <2>2. usage'[u][m] <= usage[u][m] /\ spent' = spent
    BY <1>20 DEF PeriodEnds, RowType, Unused, rowVars, workerVars
  <2>3. \A w2 \in Workers : at'[w2] = "write" /\ Owner(w2)' = u /\ Meter(w2)' = m =>
          copy'[w2] = copy[w2] /\ at[w2] = "write" /\ Owner(w2) = u /\ Meter(w2) = m
    BY <1>20 DEF PeriodEnds, Step, Owner, Meter, Held, RowType, workerVars
  <2>4. QED
    BY <2>1, <2>2, <2>3, Uncharged
<1>21. ASSUME UNCHANGED vars PROVE Covered(u, m)'
  <2>1. Pending(u, m)' = Pending(u, m) /\ usage' = usage /\ spent' = spent
    BY <1>21 DEF vars, workerVars, rowVars, Pending, Owner
  <2>2. usage'[u][m] <= usage[u][m]
    BY <2>1 DEF RowType
  <2>3. \A w2 \in Workers : at'[w2] = "write" /\ Owner(w2)' = u /\ Meter(w2)' = m =>
          copy'[w2] = copy[w2] /\ at[w2] = "write" /\ Owner(w2) = u /\ Meter(w2) = m
    BY <1>21 DEF vars, workerVars, Owner, Meter
  <2>4. QED
    BY <2>1, <2>2, <2>3, Uncharged
<1>22. QED
  BY <1>3, <1>4, <1>5, <1>6, <1>7, <1>8, <1>9, <1>10, <1>11, <1>12, <1>13, <1>14, <1>15, <1>16, <1>17, <1>18, <1>19, <1>20, <1>21 DEF Next, ThreadStep, WorkerStep

\* Nobody pays for what was not used: lost updates, resets that race with
\* billing, errors and crashes can lower a meter and never raise it too far.
THEOREM NobodyIsOvercharged == Spec => []NotOvercharged
<1> DEFINE AllCovered == \A u \in Users, m \in Meters : Covered(u, m)
<1>1. Init => Base /\ AllCovered
  <2> SUFFICES ASSUME Init PROVE AllCovered
    BY AdmissionAssumption, InitBase
  <2>1. ASSUME NEW u \in Users, NEW m \in Meters
        PROVE  Pending(u, m) = {} /\ usage[u][m] = 0 /\ spent[u][m] = 0
    BY DEF Init, Pending, Unused
  <2>2. ASSUME NEW w \in Workers
        PROVE  at[w] # "write"
    BY DEF Init
  <2>3. QED
    BY <2>1, <2>2, FS_EmptySet DEF Covered
<1>2. Base /\ AllCovered /\ [Next]_vars => AllCovered'
  <2> SUFFICES ASSUME Base, AllCovered, [Next]_vars PROVE AllCovered'
    OBVIOUS
  <2>1. Base'
    BY AdmissionAssumption, BaseStep
  <2>2. TypeOK /\ TypeOK' /\ Held /\ Held'
    BY <2>1 DEF Base
  <2>3. ASSUME NEW u \in Users, NEW m \in Meters PROVE Covered(u, m)'
    BY <2>2, CoveredStep, AdmissionAssumption
  <2>4. QED
    BY <2>3 DEF Meters
<1>3. Base /\ AllCovered => NotOvercharged
  <2> SUFFICES ASSUME TypeOK, AllCovered, NEW u \in Users, NEW m \in Meters
               PROVE  usage[u][m] <= spent[u][m]
    BY DEF Base, NotOvercharged
  <2>1. usage[u][m] + Cardinality(Pending(u, m)) <= spent[u][m]
    BY DEF Covered
  <2>2. usage[u][m] \in Nat /\ spent[u][m] \in Nat /\ Cardinality(Pending(u, m)) \in Nat
    BY PendingFinite, AdmissionAssumption DEF TypeOK
  <2>3. QED
    BY <2>1, <2>2
<1>4. QED
  BY <1>1, <1>2, <1>3, BaseStep, AdmissionAssumption, PTL DEF Spec
=============================================================================
