--------------------------- MODULE JobQueueProofs ---------------------------
(***************************************************************************)
(* Theorems about JobQueue, for any jobs, workers and retry limit.         *)
(***************************************************************************)
EXTENDS JobQueue, FiniteSetTheorems, TLAPS

-----------------------------------------------------------------------------
(* Sequences                                                               *)

\* Every entry of a queue is of the queue's type.
LEMMA EntryType ==
  ASSUME NEW S, NEW q \in Seq(S)
  PROVE  \A i \in DOMAIN q : q[i] \in S
  OBVIOUS

\* Removing the head of a queue keeps the other entries, one place earlier.
LEMMA TailEntries ==
  ASSUME NEW S, NEW q \in Seq(S), q # <<>>
  PROVE  /\ Head(q) \in S
         /\ Head(q) = q[1]
         /\ 1 \in DOMAIN q
         /\ Tail(q) \in Seq(S)
         /\ \A i \in DOMAIN Tail(q) : i + 1 \in DOMAIN q /\ Tail(q)[i] = q[i + 1]
         /\ DOMAIN Tail(q) \subseteq Nat \ {0}
  OBVIOUS

\* Appending to a queue keeps its entries and adds one at the end.
LEMMA AppendEntries ==
  ASSUME NEW S, NEW q \in Seq(S), NEW x \in S
  PROVE  /\ Append(q, x) \in Seq(S)
         /\ DOMAIN Append(q, x) = DOMAIN q \cup {Len(q) + 1}
         /\ Len(q) + 1 \notin DOMAIN q
         /\ \A i \in DOMAIN q : Append(q, x)[i] = q[i]
         /\ Append(q, x)[Len(q) + 1] = x
  OBVIOUS

-----------------------------------------------------------------------------
(* Type correctness                                                        *)

\* Writing a well-formed row keeps the session table well formed.
LEMMA PutRowType ==
  ASSUME TypeOK, NEW w \in Workers, NEW row \in Row, PutRow(w, row)
  PROVE  session' \in [Jobs -> Row]
BY DEF PutRow, TypeOK

LEMMA StatusCallType ==
  ASSUME TypeOK, NEW w \in Workers, pc[w] # "poll",
         NEW status \in {"IN_PROGRESS", "COMPLETED", "FAILED"}, NEW ok \in BOOLEAN,
         StatusCall(w, status, ok)
  PROVE  session' \in [Jobs -> Row] /\ faults' \in 0..MaxDbFaults
<1> DEFINE row == session[Job(w)]
<1>1. row \in Row BY DEF TypeOK, Job, Payload
<1>2. Closed(row, status) \in Row BY <1>1 DEF Row, Closes, Closed
<1>3. Stored(row, status) \in Row BY <1>2 DEF Row, Stored
<1> HIDE DEF row
<1>4. CASE PutRow(w, Stored(row, status)) /\ UNCHANGED faults
  BY <1>3, <1>4, PutRowType DEF TypeOK
<1>5. CASE UNCHANGED <<session, faults>>
  BY <1>5 DEF TypeOK
<1>6. CASE /\ faults < MaxDbFaults /\ faults' = faults + 1
           /\ \E r \in {row, Closed(row, status), Stored(row, status)} : PutRow(w, r)
  <2>1. session' \in [Jobs -> Row] BY <1>1, <1>2, <1>3, <1>6, PutRowType
  <2>2. faults' \in 0..MaxDbFaults BY <1>6, QueueAssumption DEF TypeOK
  <2> QED BY <2>1, <2>2
<1> QED BY <1>4, <1>5, <1>6 DEF StatusCall, row

LEMMA NodeCallType ==
  ASSUME TypeOK, NEW w \in Workers, pc[w] # "poll",
         NEW status \in {"IN_PROGRESS", "COMPLETED", "FAILED"},
         NodeCall(w, status)
  PROVE  session' \in [Jobs -> Row] /\ faults' \in 0..MaxDbFaults
<1> DEFINE row == session[Job(w)]
<1>1. row \in Row BY DEF TypeOK, Job, Payload
<1>2. Opened(row) \in Row BY <1>1 DEF Row, Opened, Sql
<1>3. Moved(row, status) \in Row BY <1>2 DEF Row, Moved
<1> HIDE DEF row
<1>4. CASE PutRow(w, Moved(row, status)) /\ UNCHANGED faults
  BY <1>3, <1>4, PutRowType DEF TypeOK
<1>5. CASE /\ faults < MaxDbFaults /\ faults' = faults + 1
           /\ \E r \in {row, Opened(row), Moved(row, status)} : PutRow(w, r)
  <2>1. session' \in [Jobs -> Row] BY <1>1, <1>2, <1>3, <1>5, PutRowType
  <2>2. faults' \in 0..MaxDbFaults BY <1>5, QueueAssumption DEF TypeOK
  <2> QED BY <2>1, <2>2
<1> QED BY <1>4, <1>5 DEF NodeCall, row

\* The steps of enqueue_job keep every variable in its type.
LEMMA CallerType ==
  ASSUME TypeOK, NEW j \in Jobs, CallerStep(j) \/ CallerCrash(j)
  PROVE  TypeOK'
<1> USE QueueAssumption DEF TypeOK, Goto, CallerPcs, workerVars, storeVars
<1>1. CASE FindNothing(j) BY <1>1 DEF FindNothing
<1>2. CASE RefuseDuplicate(j) BY <1>2 DEF RefuseDuplicate
<1>3. CASE Register(j)
  <2>1. [status |-> "queued", retries |-> 0] \in Record BY DEF Record
  <2> QED BY <1>3, <2>1 DEF Register
<1>4. CASE Push(j)
  <2>1. [job |-> j, user |-> TRUE] \in Payload BY DEF Payload
  <2> QED BY <1>4, <2>1, AppendEntries DEF Push
<1>5. CASE CallerCrash(j) BY <1>5 DEF CallerCrash
<1> QED BY <1>1, <1>2, <1>3, <1>4, <1>5 DEF CallerStep

\* The worker that goes back to the top of its loop holds nothing.
LEMMA ReleaseType ==
  ASSUME TypeOK, NEW w \in Workers, Release(w)
  PROVE  /\ pc' \in [Workers -> WorkerPcs]
         /\ held' \in [Workers -> Payload \cup {None}]
         /\ \A v \in Workers : pc'[v] # "poll" => held'[v] \in Payload
         /\ copy' \in [Workers -> Record]
         /\ handling' \in [Workers -> BOOLEAN]
<1>1. Absent \in Record BY QueueAssumption DEF Absent, Record
<1> QED BY <1>1 DEF Release, DropCopy, TypeOK, WorkerPcs

\* The steps of a worker keep every variable in its type.
LEMMA WorkerType ==
  ASSUME TypeOK, NEW w \in Workers, WorkerStep(w) \/ PollTimeout(w) \/ WorkerCrash(w)
  PROVE  TypeOK'
<1>a. Absent \in Record BY QueueAssumption DEF Absent, Record
<1>j. pc[w] # "poll" => Job(w) \in Jobs BY DEF Job, TypeOK, Payload
<1>s. ASSUME pc[w] # "poll", NEW status \in {"IN_PROGRESS", "COMPLETED", "FAILED"},
             NEW ok \in BOOLEAN, StatusCall(w, status, ok)
      PROVE  session' \in [Jobs -> Row] /\ faults' \in 0..MaxDbFaults
  BY <1>s, StatusCallType
<1>n. ASSUME pc[w] # "poll", NEW status \in {"IN_PROGRESS", "COMPLETED", "FAILED"},
             NodeCall(w, status)
      PROVE  session' \in [Jobs -> Row] /\ faults' \in 0..MaxDbFaults
  BY <1>n, NodeCallType
<1> USE DEF callVars, storeVars, Step, DropCopy, WorkerPcs
<1>1. CASE Dequeue(w)
  <2>1. Head(queue) \in Payload /\ Tail(queue) \in Seq(Payload)
    BY <1>1, TailEntries DEF Dequeue, TypeOK
  <2>2. Head(queue).job \in Jobs BY <2>1 DEF Payload
  <2> QED BY <1>1, <2>1, <2>2 DEF Dequeue, TypeOK
<1>2. ASSUME NEW from \in WorkerPcs \ {"poll"}, NEW to \in WorkerPcs \ {"poll"},
             ReadRecord(w, from, to)
      PROVE  TypeOK'
  BY <1>2, <1>j DEF ReadRecord, TypeOK
<1>r. CASE \/ ReadRecord(w, "mark", "markWrite")
           \/ ReadRecord(w, "succeed", "succeedWrite")
           \/ ReadRecord(w, "fail", "failWrite")
  BY <1>r, <1>2
<1>3. CASE MarkRunning(w)
  <2>1. [copy[w] EXCEPT !.status = "running"] \in Record BY DEF TypeOK, Record
  <2> QED BY <1>3, <1>a, <1>j, <2>1 DEF MarkRunning, TypeOK
<1>4. CASE OpenSession(w)
  BY <1>4, <1>s DEF OpenSession, TypeOK
<1>5. CASE OpenSessionRaises(w)
  BY <1>5, <1>s, ReleaseType DEF OpenSessionRaises, TypeOK
<1>6. CASE ResolveFails(w) BY <1>6 DEF ResolveFails, TypeOK
<1>7. CASE PlanningStarts(w) BY <1>7, <1>n DEF PlanningStarts, TypeOK
<1>8. CASE NodeStarts(w)
  <2>1. session[Job(w)].status \in {"IN_PROGRESS", "COMPLETED", "FAILED"}
    BY <1>8, <1>j DEF NodeStarts, TypeOK, Row
  <2> QED BY <1>8, <1>n, <2>1 DEF NodeStarts, TypeOK
<1>9. CASE RunFails(w) BY <1>9, <1>s DEF RunFails, TypeOK
<1>10. CASE RunCompletes(w) BY <1>10, <1>s DEF RunCompletes, TypeOK
<1>11. CASE CheckRaises(w)
  BY <1>11, QueueAssumption DEF CheckRaises, TypeOK
<1>12. CASE Check(w) BY <1>12 DEF Check, TypeOK
<1>13. CASE MarkSuccess(w)
  <2>1. [copy[w] EXCEPT !.status = "success"] \in Record BY DEF TypeOK, Record
  <2> QED BY <1>13, <1>j, <2>1, ReleaseType DEF MarkSuccess, TypeOK
<1>14. CASE MarkRetry(w)
  <2>1. [status |-> "queued", retries |-> copy[w].retries + 1] \in Record
    BY <1>14, QueueAssumption DEF MarkRetry, TypeOK, Record
  <2> QED BY <1>14, <1>a, <1>j, <2>1 DEF MarkRetry, TypeOK
<1>15. CASE PushRetry(w)
  <2>1. [job |-> Job(w), user |-> FALSE] \in Payload
    BY <1>15, <1>j DEF PushRetry, Payload
  <2> QED BY <1>15, <2>1, AppendEntries DEF PushRetry, TypeOK
<1>16. CASE MarkFailed(w)
  <2>1. [copy[w] EXCEPT !.status = "failed"] \in Record BY DEF TypeOK, Record
  <2> QED BY <1>16, <1>a, <1>j, <2>1 DEF MarkFailed, TypeOK
<1>17. CASE PushDeadLetter(w)
  BY <1>17, <1>j, AppendEntries DEF PushDeadLetter, TypeOK
<1>18. CASE SyncSession(w)
  BY <1>18, <1>s, ReleaseType DEF SyncSession, TypeOK
<1>19. CASE SyncRaises(w)
  <2>1. CASE handling[w]
    BY <1>19, <1>s, <2>1, ReleaseType DEF SyncRaises, TypeOK
  <2>2. CASE ~handling[w]
    BY <1>19, <1>s, <2>2 DEF SyncRaises, TypeOK
  <2> QED BY <2>1, <2>2
<1>20. CASE PollTimeout(w) BY <1>20 DEF PollTimeout, vars, TypeOK
<1>21. CASE WorkerCrash(w)
  BY <1>21, ReleaseType, QueueAssumption DEF WorkerCrash, TypeOK
<1> QED
  BY <1>1, <1>r, <1>3, <1>4, <1>5, <1>6, <1>7, <1>8, <1>9, <1>10, <1>11, <1>12, <1>13,
     <1>14, <1>15, <1>16, <1>17, <1>18, <1>19, <1>20, <1>21 DEF WorkerStep

LEMMA InitType == Init => TypeOK
<1> SUFFICES ASSUME Init PROVE TypeOK OBVIOUS
<1>1. Absent \in Record BY QueueAssumption DEF Absent, Record
<1>2. [status |-> "IN_PROGRESS", placed |-> FALSE, span |-> FALSE] \in Row BY DEF Row
<1> QED BY <1>1, <1>2, QueueAssumption DEF Init, TypeOK, CallerPcs, WorkerPcs

LEMMA NextType == TypeOK /\ [Next]_vars => TypeOK'
<1> SUFFICES ASSUME TypeOK, [Next]_vars PROVE TypeOK' OBVIOUS
<1>1. CASE UNCHANGED vars BY <1>1 DEF vars, TypeOK
<1>2. CASE Next BY <1>2, CallerType, WorkerType DEF Next
<1> QED BY <1>1, <1>2

\* Every variable of the queue stays in its type: a record's retry counter
\* never passes the limit of handle_job_failure, and a busy worker holds a
\* payload of a known job.
THEOREM TypeCorrect == Spec => []TypeOK
BY InitType, NextType, PTL DEF Spec

-----------------------------------------------------------------------------
(* One live copy                                                           *)
(*                                                                         *)
(* SingleCopy is not inductive: a worker whose session update raises       *)
(* outside the except branch would requeue the job a second time           *)
(* (SyncRaises).  Without storage faults this needs a SQL session whose    *)
(* span key is gone although the worker ran it to its end, so the          *)
(* invariant follows the session of the only payload that carries a user.  *)

Enqueued(j) == caller[j] \in {"pushed", "refused"}

\* past update_session(IN_PROGRESS)
Entered(w) == pc[w] \notin {"poll", "mark", "markWrite", "open"}

CopiesEnqueued ==
  /\ \A i \in DOMAIN queue : Enqueued(queue[i].job)
  /\ \A w \in Workers : pc[w] # "poll" => Enqueued(held[w].job)

\* only enqueue_job supplies a user id, and it pushes a job once
UserOnce ==
  /\ \A w \in Workers : \A i \in DOMAIN queue :
       pc[w] # "poll" /\ held[w].user /\ queue[i].job = held[w].job => ~queue[i].user
  /\ \A v, w \in Workers :
       /\ pc[v] # "poll" /\ pc[w] # "poll"
       /\ held[v].user /\ held[w].user /\ held[v].job = held[w].job
       => v = w

SqlPath ==
  Sql => \A w \in Workers :
    /\ Entered(w) => held[w].user
    /\ pc[w] = "run" => session[held[w].job].placed /\ session[held[w].job].span
    /\ pc[w] = "check" => session[held[w].job].status = "COMPLETED"
    /\ pc[w] \in {"fail", "failWrite", "push", "bury", "sync"} => handling[w]

CopyInv == SingleCopy /\ CopiesEnqueued /\ UserOnce /\ SqlPath

\* A step that adds no payload and no owner keeps the copies of a job apart.
LEMMA FewerOwners ==
  ASSUME TypeOK, TypeOK', SingleCopy, CopiesEnqueued, UserOnce,
         queue' = queue,
         \A j \in Jobs : Enqueued(j) => Enqueued(j)',
         \A v \in Workers : pc'[v] # "poll" =>
            /\ pc[v] # "poll"
            /\ held'[v] = held[v]
            /\ pc[v] = "sync" => pc'[v] = "sync"
  PROVE  SingleCopy' /\ CopiesEnqueued' /\ UserOnce'
<1>1. \A v \in Workers : \A j \in Jobs : Owns(v, j)' => Owns(v, j)
  BY DEF Owns
<1>2. \A i \in DOMAIN queue : queue[i] \in Payload /\ queue[i].job \in Jobs
  <2>1. queue \in Seq(Payload) BY DEF TypeOK
  <2>2. \A i \in DOMAIN queue : queue[i] \in Payload BY <2>1, EntryType
  <2> QED BY <2>2 DEF Payload
<1>3. \A v \in Workers : pc[v] # "poll" => held[v].job \in Jobs
  BY DEF TypeOK, Payload
<1>4. SingleCopy' BY <1>1, <1>2 DEF SingleCopy
<1>5. CopiesEnqueued' BY <1>2, <1>3 DEF CopiesEnqueued
<1>6. UserOnce' BY DEF UserOnce
<1> QED BY <1>4, <1>5, <1>6

\* A payload that is appended for a job without a live copy, and without a
\* user id unless nobody holds one, keeps the copies apart.
LEMMA OneMorePayload ==
  ASSUME TypeOK, TypeOK', SingleCopy, CopiesEnqueued, UserOnce,
         NEW p \in Payload,
         queue' = Append(queue, p),
         \A i \in DOMAIN queue : queue[i].job # p.job,
         \A v \in Workers : ~Owns(v, p.job)',
         p.user => \A v \in Workers : pc[v] # "poll" => held[v].job # p.job,
         \A j \in Jobs : Enqueued(j) => Enqueued(j)',
         Enqueued(p.job)',
         held' = held,
         \A v \in Workers : /\ pc'[v] = "poll" <=> pc[v] = "poll"
                            /\ pc[v] = "sync" => pc'[v] = "sync"
  PROVE  SingleCopy' /\ CopiesEnqueued' /\ UserOnce'
<1>1. /\ DOMAIN queue' = DOMAIN queue \cup {Len(queue) + 1}
      /\ Len(queue) + 1 \notin DOMAIN queue
      /\ \A i \in DOMAIN queue : queue'[i] = queue[i]
      /\ queue'[Len(queue) + 1] = p
  BY AppendEntries DEF TypeOK
<1>2. \A v \in Workers : \A j \in Jobs : Owns(v, j)' => Owns(v, j)
  BY DEF Owns
<1>3. \A i \in DOMAIN queue : queue[i].job \in Jobs
  <2>1. queue \in Seq(Payload) BY DEF TypeOK
  <2>2. \A i \in DOMAIN queue : queue[i] \in Payload BY <2>1, EntryType
  <2> QED BY <2>2 DEF Payload
<1>4. \A v \in Workers : pc[v] # "poll" => held[v].job \in Jobs
  BY DEF TypeOK, Payload
<1>5. SingleCopy' BY <1>1, <1>2, <1>3 DEF SingleCopy
<1>6. CopiesEnqueued' BY <1>1, <1>3, <1>4 DEF CopiesEnqueued
<1>7. UserOnce' BY <1>1 DEF UserOnce
<1> QED BY <1>5, <1>6, <1>7

\* The worker that takes the head of the queue becomes the only holder.
LEMMA DequeueCopies ==
  ASSUME TypeOK, SingleCopy, CopiesEnqueued, UserOnce, NEW w \in Workers, Dequeue(w)
  PROVE  SingleCopy' /\ CopiesEnqueued' /\ UserOnce'
<1> DEFINE h == Head(queue)
<1>1. /\ h \in Payload /\ h = queue[1] /\ 1 \in DOMAIN queue
      /\ \A i \in DOMAIN queue' : i + 1 \in DOMAIN queue /\ queue'[i] = queue[i + 1]
      /\ DOMAIN queue' \subseteq Nat \ {0}
  BY TailEntries DEF Dequeue, TypeOK
<1>2. /\ pc[w] = "poll" /\ pc' = [pc EXCEPT ![w] = "mark"]
      /\ held' = [held EXCEPT ![w] = h]
      /\ UNCHANGED caller
  BY DEF Dequeue, Step, callVars
<1> HIDE DEF h
<1>3. \A v \in Workers : \A j \in Jobs : Owns(v, j)' => (v = w /\ j = h.job) \/ (v # w /\ Owns(v, j))
  BY <1>2 DEF Owns, TypeOK
<1>4. h.job \in Jobs /\ \A i \in DOMAIN queue : queue[i].job \in Jobs
  <2>1. queue \in Seq(Payload) BY DEF TypeOK
  <2>2. \A i \in DOMAIN queue : queue[i] \in Payload BY <2>1, EntryType
  <2> QED BY <1>1, <2>2 DEF Payload
<1>5. \A i, k \in DOMAIN queue' : queue'[i].job = queue'[k].job => i = k
  BY <1>1 DEF SingleCopy
<1>6. \A i \in DOMAIN queue' : queue'[i].job # h.job /\ queue'[i].job \in Jobs
  BY <1>1, <1>4 DEF SingleCopy
<1>7. (\A v \in Workers : \A i \in DOMAIN queue : ~Owns(v, queue[i].job))'
  BY <1>1, <1>3, <1>6 DEF SingleCopy
<1>8. \A u, v \in Workers : \A j \in Jobs : Owns(u, j)' /\ Owns(v, j)' => u = v
  BY <1>1, <1>3 DEF SingleCopy
<1>9. CopiesEnqueued'
  BY <1>1, <1>2, <1>4 DEF CopiesEnqueued, Enqueued, TypeOK
<1>10. UserOnce'
  BY <1>1, <1>2, <1>6 DEF UserOnce, TypeOK
<1> QED BY <1>5, <1>7, <1>8, <1>9, <1>10 DEF SingleCopy

\* What a status update does when storage does not fail.
LEMMA CleanStatus ==
  ASSUME faults' = 0, TypeOK, NEW w \in Workers,
         NEW status, NEW ok \in BOOLEAN, StatusCall(w, status, ok)
  PROVE  \/ ok /\ Visible(w) /\ ~SpanLost(session[Job(w)], status)
            /\ session' = [session EXCEPT ![Job(w)] = Stored(session[Job(w)], status)]
         \/ ~ok /\ (~Visible(w) \/ SpanLost(session[Job(w)], status))
            /\ session' = session
<1>1. faults' # faults + 1 BY DEF TypeOK
<1> QED BY <1>1, Zenon DEF StatusCall, PutRow

\* What a move to another node does when storage does not fail.
LEMMA CleanNode ==
  ASSUME faults' = 0, TypeOK, NEW w \in Workers, NEW status, NodeCall(w, status)
  PROVE  session' = [session EXCEPT ![Job(w)] = Moved(session[Job(w)], status)]
<1>1. faults' # faults + 1 BY DEF TypeOK
<1> QED BY <1>1 DEF NodeCall, PutRow

\* Without storage faults only the except branch meets a session update
\* that raises, so the failure of an attempt is handled once.
LEMMA CleanSync ==
  ASSUME faults' = 0, TypeOK, SqlPath, NEW w \in Workers, SyncRaises(w)
  PROVE  Release(w)
<1>1. pc[w] = "sync" /\ StatusCall(w, "FAILED", FALSE) BY DEF SyncRaises
<1>2. ~Visible(w) \/ SpanLost(session[Job(w)], "FAILED") BY <1>1, CleanStatus
<1>3. Sql BY <1>2 DEF Visible, SpanLost
<1>4. handling[w] BY <1>1, <1>3 DEF SqlPath
<1> QED BY <1>4 DEF SyncRaises

LEMMA WorkerCopies ==
  ASSUME faults' = 0, TypeOK, TypeOK', CopyInv, NEW w \in Workers,
         WorkerStep(w) \/ PollTimeout(w) \/ WorkerCrash(w)
  PROVE  SingleCopy' /\ CopiesEnqueued' /\ UserOnce'
<1> DEFINE Keeps ==
             /\ queue' = queue
             /\ caller' = caller
             /\ \A v \in Workers : pc'[v] # "poll" =>
                  /\ pc[v] # "poll"
                  /\ held'[v] = held[v]
                  /\ pc[v] = "sync" => pc'[v] = "sync"
<1>1. CASE Keeps
  BY <1>1, FewerOwners DEF CopyInv, Enqueued
<1>2. CASE Dequeue(w)
  BY <1>2, DequeueCopies DEF CopyInv
<1>3. CASE PushRetry(w)
  <2>1. Job(w) \in Jobs BY <1>3 DEF PushRetry, Step, TypeOK, Job, Payload
  <2>2. PICK p \in Payload : p = [job |-> Job(w), user |-> FALSE]
    BY <2>1 DEF Payload
  <2>3. p.job = held[w].job /\ p.job \in Jobs /\ ~p.user
    BY <2>1, <2>2 DEF Job
  <2>4. Owns(w, p.job) BY <1>3, <2>3 DEF Owns, PushRetry, Step
  <2>5. \A i \in DOMAIN queue : queue[i].job # p.job
    BY <2>4 DEF CopyInv, SingleCopy
  <2>6. \A v \in Workers : v # w => ~Owns(v, p.job)
    BY <2>3, <2>4 DEF CopyInv, SingleCopy
  <2>7. \A v \in Workers : ~Owns(v, p.job)'
    BY <1>3, <2>6 DEF PushRetry, Step, Owns, TypeOK
  <2>8. \A v \in Workers : /\ pc'[v] = "poll" <=> pc[v] = "poll"
                           /\ pc[v] = "sync" => pc'[v] = "sync"
    BY <1>3 DEF PushRetry, Step, TypeOK
  <2>9. queue' = Append(queue, p) /\ held' = held /\ caller' = caller
    BY <1>3, <2>2 DEF PushRetry, callVars
  <2>10. \A j \in Jobs : Enqueued(j) => Enqueued(j)' BY <2>9 DEF Enqueued
  <2>11. Enqueued(p.job)'
    BY <1>3, <2>3, <2>9 DEF CopyInv, CopiesEnqueued, PushRetry, Step, Enqueued
  <2> QED BY <2>3, <2>5, <2>7, <2>8, <2>9, <2>10, <2>11, OneMorePayload DEF CopyInv
<1>4. CASE Release(w) /\ queue' = queue /\ caller' = caller
  BY <1>1, <1>4 DEF Release, TypeOK
<1>5. ASSUME NEW from, NEW to, Step(w, from, to), from \notin {"poll", "sync"},
             queue' = queue, caller' = caller, held' = held
      PROVE  Keeps
  BY <1>5 DEF Step, TypeOK
<1> HIDE DEF Keeps
<1> USE DEF callVars
<1>6. CASE SyncRaises(w)
  BY <1>4, <1>6, CleanSync DEF CopyInv, SyncRaises
<1>7. CASE OpenSessionRaises(w) \/ MarkSuccess(w) \/ SyncSession(w) \/ WorkerCrash(w)
  BY <1>4, <1>7 DEF OpenSessionRaises, MarkSuccess, SyncSession, WorkerCrash
<1>8. CASE PollTimeout(w)
  BY <1>1, <1>8 DEF PollTimeout, vars, Keeps
<1>9. CASE \/ ReadRecord(w, "mark", "markWrite") \/ MarkRunning(w) \/ OpenSession(w)
           \/ ReadRecord(w, "succeed", "succeedWrite")
           \/ ReadRecord(w, "fail", "failWrite")
  BY <1>1, <1>5, <1>9 DEF ReadRecord, MarkRunning, OpenSession
<1>10. CASE \/ ResolveFails(w) \/ PlanningStarts(w) \/ NodeStarts(w)
            \/ RunFails(w) \/ RunCompletes(w) \/ Check(w) \/ CheckRaises(w)
  BY <1>1, <1>5, <1>10 DEF ResolveFails, PlanningStarts, NodeStarts, RunFails,
     RunCompletes, Check, CheckRaises
<1>11. CASE MarkRetry(w) \/ MarkFailed(w) \/ PushDeadLetter(w)
  BY <1>1, <1>5, <1>11 DEF MarkRetry, MarkFailed, PushDeadLetter
<1> QED
  BY <1>2, <1>3, <1>6, <1>7, <1>8, <1>9, <1>10, <1>11 DEF WorkerStep

LEMMA CallerCopies ==
  ASSUME TypeOK, TypeOK', CopyInv, NEW j \in Jobs, CallerStep(j) \/ CallerCrash(j)
  PROVE  CopyInv'
<1>1. /\ UNCHANGED <<mode, session, pc, held, handling>>
      /\ \A i \in Jobs : Enqueued(i) => Enqueued(i)'
  BY DEF CallerStep, CallerCrash, FindNothing, RefuseDuplicate, Register, Push,
         Goto, Enqueued, workerVars, storeVars, TypeOK
<1>2. SqlPath' BY <1>1 DEF CopyInv, SqlPath, Sql, Entered
<1>3. CASE queue' = queue
  BY <1>1, <1>2, <1>3, FewerOwners DEF CopyInv
<1>4. CASE Push(j)
  <2> DEFINE p == [job |-> j, user |-> TRUE]
  <2>1. ~Enqueued(j) BY <1>4 DEF Push, Enqueued
  <2>2. \A i \in DOMAIN queue : queue[i].job # j
    BY <2>1 DEF CopyInv, CopiesEnqueued
  <2>3. \A v \in Workers : pc[v] # "poll" => held[v].job # j
    BY <2>1 DEF CopyInv, CopiesEnqueued
  <2>4. \A v \in Workers : ~Owns(v, j)'
    BY <1>1, <2>3 DEF Owns
  <2>5. Enqueued(j)' BY <1>4 DEF Push, Goto, Enqueued, TypeOK
  <2>6. p \in Payload /\ p.job = j BY DEF Payload
  <2>7. queue' = Append(queue, p) BY <1>4 DEF Push
  <2> HIDE DEF p
  <2> QED BY <1>1, <1>2, <2>2, <2>3, <2>4, <2>5, <2>6, <2>7, OneMorePayload DEF CopyInv
<1> QED
  BY <1>3, <1>4 DEF CallerStep, CallerCrash, FindNothing, RefuseDuplicate, Register

\* With SQL a worker only writes the session row of a job whose first
\* payload it holds.
LEMMA SessionOwner ==
  ASSUME faults' = 0, TypeOK, CopyInv, Sql, NEW w \in Workers,
         WorkerStep(w) \/ PollTimeout(w) \/ WorkerCrash(w)
  PROVE  \/ session' = session
         \/ /\ pc[w] # "poll" /\ held[w].user
            /\ \E row : session' = [session EXCEPT ![Job(w)] = row]
<1> DEFINE Goal == \/ session' = session
                   \/ /\ pc[w] # "poll" /\ held[w].user
                      /\ \E row : session' = [session EXCEPT ![Job(w)] = row]
<1> SUFFICES Goal OBVIOUS
<1>1. ASSUME pc[w] # "poll", NEW status, NEW ok \in BOOLEAN, StatusCall(w, status, ok)
      PROVE  Goal
  <2>1. CASE session' = session BY <2>1
  <2>2. CASE /\ Visible(w)
             /\ session' = [session EXCEPT ![Job(w)] = Stored(session[Job(w)], status)]
    BY <1>1, <2>2 DEF Visible
  <2> QED BY <1>1, <2>1, <2>2, CleanStatus
<1>2. ASSUME pc[w] \in {"plan", "run"}, NEW status, NodeCall(w, status)
      PROVE  Goal
  BY <1>2, CleanNode DEF CopyInv, SqlPath, Entered
<1> HIDE DEF Goal
<1>3. CASE OpenSession(w) \/ OpenSessionRaises(w)
  BY <1>1, <1>3 DEF OpenSession, OpenSessionRaises, Step
<1>4. CASE PlanningStarts(w) \/ NodeStarts(w)
  BY <1>2, <1>4 DEF PlanningStarts, NodeStarts, Step
<1>5. CASE RunFails(w) \/ RunCompletes(w)
  BY <1>1, <1>5 DEF RunFails, RunCompletes, Step
<1>6. CASE SyncSession(w) \/ SyncRaises(w)
  BY <1>1, <1>6 DEF SyncSession, SyncRaises
<1>7. CASE session' = session BY <1>7 DEF Goal
<1> USE DEF storeVars
<1>8. CASE \/ Dequeue(w) \/ MarkRunning(w) \/ ResolveFails(w) \/ Check(w)
           \/ CheckRaises(w) \/ MarkSuccess(w) \/ MarkRetry(w) \/ PushRetry(w)
           \/ MarkFailed(w) \/ PushDeadLetter(w) \/ WorkerCrash(w) \/ PollTimeout(w)
  BY <1>7, <1>8 DEF Dequeue, MarkRunning, ResolveFails, Check, CheckRaises, MarkSuccess,
     MarkRetry, PushRetry, MarkFailed, PushDeadLetter, WorkerCrash, PollTimeout, vars
<1>9. CASE \/ ReadRecord(w, "mark", "markWrite")
           \/ ReadRecord(w, "succeed", "succeedWrite")
           \/ ReadRecord(w, "fail", "failWrite")
  BY <1>7, <1>9 DEF ReadRecord
<1> QED
  BY <1>3, <1>4, <1>5, <1>6, <1>8, <1>9 DEF WorkerStep

\* The row of a job that a worker runs is written by that worker alone.
LEMMA OthersRow ==
  ASSUME faults' = 0, TypeOK, CopyInv, Sql, NEW w \in Workers,
         WorkerStep(w) \/ PollTimeout(w) \/ WorkerCrash(w),
         NEW v \in Workers, v # w, Entered(v)
  PROVE  session'[held[v].job] = session[held[v].job]
<1>1. CASE session' = session BY <1>1
<1>2. CASE /\ pc[w] # "poll" /\ held[w].user
           /\ \E row : session' = [session EXCEPT ![Job(w)] = row]
  <2>1. pc[v] # "poll" /\ held[v].job \in Jobs /\ held[v].user
    BY DEF Entered, TypeOK, Payload, CopyInv, SqlPath
  <2>2. held[v].job # held[w].job BY <1>2, <2>1 DEF CopyInv, UserOnce
  <2> QED BY <1>2, <2>1, <2>2 DEF Job, TypeOK
<1> QED BY <1>1, <1>2, SessionOwner

\* With SQL the worker that runs the pipeline finds the session as it left it.
LEMMA WorkerPath ==
  ASSUME faults' = 0, TypeOK, TypeOK', CopyInv, NEW w \in Workers,
         WorkerStep(w) \/ PollTimeout(w) \/ WorkerCrash(w)
  PROVE  SqlPath'
<1>1. mode' = mode
  BY DEF WorkerStep, PollTimeout, WorkerCrash, Dequeue, ReadRecord, MarkRunning,
     OpenSession, OpenSessionRaises, ResolveFails, PlanningStarts, NodeStarts, RunFails,
     RunCompletes, Check, CheckRaises, MarkSuccess, MarkRetry, PushRetry, MarkFailed,
     PushDeadLetter, SyncSession, SyncRaises, storeVars, vars
<1> SUFFICES ASSUME Sql PROVE SqlPath'
  BY <1>1 DEF SqlPath, Sql
<1> DEFINE P(v) ==
      /\ Entered(v) => held[v].user
      /\ pc[v] = "run" => session[held[v].job].placed /\ session[held[v].job].span
      /\ pc[v] = "check" => session[held[v].job].status = "COMPLETED"
      /\ pc[v] \in {"fail", "failWrite", "push", "bury", "sync"} => handling[v]
<1>2. \A v \in Workers : P(v) BY DEF CopyInv, SqlPath
<1>3. ASSUME NEW v \in Workers, v # w PROVE P(v)'
  <2>1. pc'[v] = pc[v] /\ held'[v] = held[v] /\ handling'[v] = handling[v]
    BY <1>3 DEF WorkerStep, PollTimeout, WorkerCrash, Dequeue, ReadRecord, MarkRunning,
       OpenSession, OpenSessionRaises, ResolveFails, PlanningStarts, NodeStarts, RunFails,
       RunCompletes, Check, CheckRaises, MarkSuccess, MarkRetry, PushRetry, MarkFailed,
       PushDeadLetter, SyncSession, SyncRaises, vars, Step, Release, TypeOK
  <2>2. Entered(v) => session'[held[v].job] = session[held[v].job]
    BY <1>3, OthersRow
  <2> QED BY <1>2, <2>1, <2>2 DEF Entered
<1>4. pc[w] # "poll" => held[w].job \in Jobs /\ Job(w) = held[w].job
  BY DEF TypeOK, Payload, Job
<1>5. P(w)'
  <2> USE DEF Step, Entered
  <2>1. CASE Release(w) BY <2>1 DEF Release, TypeOK
  <2>2. CASE SyncRaises(w) BY <2>1, <2>2, CleanSync DEF CopyInv
  <2>3. CASE OpenSessionRaises(w) \/ MarkSuccess(w) \/ SyncSession(w) \/ WorkerCrash(w)
    BY <2>1, <2>3 DEF OpenSessionRaises, MarkSuccess, SyncSession, WorkerCrash
  <2>4. CASE Dequeue(w) BY <2>4 DEF Dequeue, TypeOK
  <2>5. CASE \/ ReadRecord(w, "mark", "markWrite") \/ MarkRunning(w)
             \/ ReadRecord(w, "succeed", "succeedWrite")
             \/ ReadRecord(w, "fail", "failWrite")
    BY <1>2, <2>5 DEF ReadRecord, MarkRunning, TypeOK
  <2>6. CASE OpenSession(w)
    <3>1. Visible(w) BY <2>6, CleanStatus DEF OpenSession
    <3> QED BY <2>6, <3>1 DEF OpenSession, Visible, TypeOK
  <2>7. CASE ResolveFails(w) BY <1>2, <2>7 DEF ResolveFails, TypeOK
  <2>8. CASE PlanningStarts(w) \/ NodeStarts(w)
    <3>1. session'[held[w].job].placed /\ session'[held[w].job].span
      <4>1. PICK status : session' = [session EXCEPT ![Job(w)] = Moved(session[Job(w)], status)]
        BY <2>8, CleanNode DEF PlanningStarts, NodeStarts
      <4>2. session[held[w].job] \in Row
        BY <1>4, <2>8 DEF PlanningStarts, NodeStarts, TypeOK
      <4>3. Moved(session[held[w].job], status).placed /\ Moved(session[held[w].job], status).span
        BY <4>2 DEF Moved, Opened, Row
      <4> QED BY <1>4, <2>8, <4>1, <4>3 DEF PlanningStarts, NodeStarts, TypeOK
    <3> QED BY <1>2, <2>8, <3>1 DEF PlanningStarts, NodeStarts, TypeOK
  <2>9. CASE RunFails(w) BY <1>2, <2>9 DEF RunFails, TypeOK
  <2>10. CASE RunCompletes(w)
    <3>1. ~SpanLost(session[Job(w)], "COMPLETED") /\ Visible(w)
      BY <1>2, <1>4, <2>10 DEF RunCompletes, SpanLost, Visible
    <3>2. session' = [session EXCEPT ![Job(w)] = Stored(session[Job(w)], "COMPLETED")]
      BY <2>10, <3>1, CleanStatus DEF RunCompletes
    <3>3. session[held[w].job] \in Row BY <1>4, <2>10 DEF RunCompletes, TypeOK
    <3>4. session'[held[w].job].status = "COMPLETED"
      BY <1>4, <2>10, <3>2, <3>3 DEF RunCompletes, Stored, Closed, Row, TypeOK
    <3> QED BY <1>2, <2>10, <3>4 DEF RunCompletes, TypeOK
  <2>11. CASE CheckRaises(w) BY <1>2, <2>11 DEF CheckRaises, TypeOK
  <2>12. CASE Check(w)
    <3>1. session[Job(w)].status = "COMPLETED" BY <1>2, <1>4, <2>12 DEF Check
    <3> QED BY <1>2, <2>12, <3>1 DEF Check, TypeOK
  <2>13. CASE MarkRetry(w) \/ PushRetry(w) \/ MarkFailed(w) \/ PushDeadLetter(w)
    BY <1>2, <2>13 DEF MarkRetry, PushRetry, MarkFailed, PushDeadLetter, TypeOK
  <2>14. CASE PollTimeout(w) BY <1>2, <2>14 DEF PollTimeout, vars
  <2> QED
    BY <2>2, <2>3, <2>4, <2>5, <2>6, <2>7, <2>8, <2>9, <2>10, <2>11, <2>12, <2>13, <2>14
    DEF WorkerStep
<1>6. \A v \in Workers : P(v)' BY <1>3, <1>5
<1> QED BY <1>6 DEF SqlPath

LEMMA InitCopies == Init => CopyInv
<1> SUFFICES ASSUME Init PROVE CopyInv OBVIOUS
<1>1. DOMAIN queue = {} BY DEF Init
<1>2. \A w \in Workers : pc[w] = "poll" BY DEF Init
<1> QED
  BY <1>1, <1>2 DEF CopyInv, SingleCopy, CopiesEnqueued, UserOnce, SqlPath, Owns, Entered

LEMMA NextCopies ==
  ASSUME faults' = 0, TypeOK, CopyInv, [Next]_vars
  PROVE  CopyInv'
<1>1. TypeOK' BY NextType
<1>2. CASE UNCHANGED vars
  BY <1>2 DEF vars, CopyInv, SingleCopy, CopiesEnqueued, UserOnce, SqlPath, Owns, Entered,
     Enqueued, Sql
<1>3. CASE \E j \in Jobs : CallerStep(j) \/ CallerCrash(j)
  BY <1>1, <1>3, CallerCopies
<1>4. CASE \E w \in Workers : WorkerStep(w) \/ PollTimeout(w) \/ WorkerCrash(w)
  BY <1>1, <1>4, WorkerCopies, WorkerPath DEF CopyInv
<1> QED BY <1>2, <1>3, <1>4 DEF Next

-----------------------------------------------------------------------------
(* Records, attempts and dead letters                                      *)

\* What the record of a job is while its one copy is with the caller, in the
\* queue, or with a worker.
CallerRecord(j) ==
  /\ caller[j] \in {"idle", "checked"} => record[j] = Absent
  /\ caller[j] = "registered" => record[j] = [status |-> "queued", retries |-> 0]
  /\ ~Enqueued(j) => attempts[j] = 0

QueuedRecord(j) ==
  /\ record[j].status = "queued"
  /\ attempts[j] = record[j].retries

WorkerRecord(w) ==
  LET r == record[held[w].job]
      a == attempts[held[w].job]
  IN /\ pc[w] \in {"mark", "markWrite"} => r.status = "queued" /\ a = r.retries + 1
     /\ pc[w] \in {"open", "plan", "run", "check", "succeed", "succeedWrite", "fail",
                   "failWrite"} => r.status = "running" /\ a = r.retries + 1
     /\ pc[w] = "push" => r.status = "queued" /\ a = r.retries
     /\ pc[w] = "bury" => /\ r = [status |-> "failed", retries |-> RetryLimit]
                          /\ a = RetryLimit + 1
                          /\ \A i \in DOMAIN dlq : dlq[i] # held[w].job
     /\ pc[w] \in {"markWrite", "succeedWrite", "failWrite"} => copy[w] = r

RecordInv ==
  /\ \A j \in Jobs : CallerRecord(j)
  /\ \A i \in DOMAIN queue : QueuedRecord(queue[i].job)
  /\ \A w \in Workers : WorkerRecord(w)
  /\ DeadLettersExact
  /\ AttemptsCounted

\* A job that a worker owns is nowhere else.
LEMMA OwnedAlone ==
  ASSUME TypeOK, CopyInv, NEW w \in Workers, pc[w] \notin {"poll", "sync"}
  PROVE  /\ Job(w) = held[w].job /\ Job(w) \in Jobs
         /\ Enqueued(Job(w))
         /\ \A i \in DOMAIN queue : queue[i].job # Job(w)
         /\ \A v \in Workers : v # w /\ pc[v] \notin {"poll", "sync"} => held[v].job # Job(w)
<1>1. Job(w) = held[w].job /\ Job(w) \in Jobs BY DEF Job, TypeOK, Payload
<1>2. Owns(w, Job(w)) BY <1>1 DEF Owns
<1>3. Enqueued(Job(w)) BY <1>1 DEF CopyInv, CopiesEnqueued
<1>4. \A i \in DOMAIN queue : queue[i].job # Job(w) BY <1>2 DEF CopyInv, SingleCopy
<1>5. \A v \in Workers : v # w => ~Owns(v, Job(w)) BY <1>1, <1>2 DEF CopyInv, SingleCopy
<1> QED BY <1>1, <1>3, <1>4, <1>5 DEF Owns

\* A worker step that leaves the counters alone, and changes no record but
\* that of its own job, disturbs nothing that is said of other jobs.
LEMMA OwnRecordOnly ==
  ASSUME TypeOK, TypeOK', CopyInv, RecordInv, NEW w \in Workers,
         UNCHANGED <<caller, attempts>>,
         \/ record' = record
         \/ /\ pc[w] \notin {"poll", "sync"}
            /\ record' = [record EXCEPT ![Job(w)] = record'[Job(w)]]
            /\ \A i \in DOMAIN dlq : dlq[i] # Job(w)
            /\ \/ record'[Job(w)].retries = record[Job(w)].retries
               \/ record'[Job(w)].retries = attempts[Job(w)],
         dlq' = dlq,
         \A v \in Workers : v # w =>
           pc'[v] = pc[v] /\ held'[v] = held[v] /\ copy'[v] = copy[v]
  PROVE  /\ \A j \in Jobs : CallerRecord(j)'
         /\ \A i \in DOMAIN queue : \A j \in Jobs : queue[i].job = j => QueuedRecord(j)'
         /\ \A v \in Workers : v # w => WorkerRecord(v)'
         /\ DeadLettersExact'
         /\ AttemptsCounted'
<1>1. CASE record' = record
  BY <1>1 DEF RecordInv, CallerRecord, QueuedRecord, WorkerRecord, DeadLettersExact,
     AttemptsCounted, Enqueued
<1>2. CASE /\ pc[w] \notin {"poll", "sync"}
           /\ record' = [record EXCEPT ![Job(w)] = record'[Job(w)]]
           /\ \A i \in DOMAIN dlq : dlq[i] # Job(w)
           /\ \/ record'[Job(w)].retries = record[Job(w)].retries
              \/ record'[Job(w)].retries = attempts[Job(w)]
  <2>1. /\ Job(w) = held[w].job /\ Job(w) \in Jobs
        /\ Enqueued(Job(w))
        /\ \A i \in DOMAIN queue : queue[i].job # Job(w)
        /\ \A v \in Workers : v # w /\ pc[v] \notin {"poll", "sync"} => held[v].job # Job(w)
    BY <1>2, OwnedAlone
  <2>2. \A j \in Jobs : j # Job(w) => record'[j] = record[j]
    BY <1>2, <2>1 DEF TypeOK
  <2>3. \A j \in Jobs : CallerRecord(j)'
    BY <2>1, <2>2 DEF RecordInv, CallerRecord, Enqueued
  <2>4. \A i \in DOMAIN queue : queue[i].job \in Jobs
    <3>1. queue \in Seq(Payload) BY DEF TypeOK
    <3>2. \A i \in DOMAIN queue : queue[i] \in Payload BY <3>1, EntryType
    <3> QED BY <3>2 DEF Payload
  <2>5. \A i \in DOMAIN queue : \A j \in Jobs : queue[i].job = j => QueuedRecord(j)'
    BY <2>1, <2>2, <2>4 DEF RecordInv, QueuedRecord
  <2>6. \A v \in Workers : v # w => WorkerRecord(v)'
    <3> SUFFICES ASSUME NEW v \in Workers, v # w PROVE WorkerRecord(v)'
      OBVIOUS
    <3>1. pc[v] \notin {"poll", "sync"} => record'[held[v].job] = record[held[v].job]
      BY <2>1, <2>2 DEF TypeOK, Payload
    <3>2. WorkerRecord(v) BY DEF RecordInv
    <3> QED BY <3>1, <3>2 DEF WorkerRecord
  <2>7. \A i \in DOMAIN dlq : dlq[i] \in Jobs BY EntryType DEF TypeOK
  <2>8. DeadLettersExact'
    BY <1>2, <2>2, <2>7 DEF RecordInv, DeadLettersExact
  <2>9. AttemptsCounted'
    <3> SUFFICES ASSUME NEW j \in Jobs
                 PROVE  record'[j].retries <= attempts[j] /\ attempts[j] <= record'[j].retries + 1
      BY DEF AttemptsCounted
    <3>1. record[j].retries <= attempts[j] /\ attempts[j] <= record[j].retries + 1
      BY DEF RecordInv, AttemptsCounted
    <3>2. attempts[j] \in Nat BY DEF TypeOK
    <3> QED BY <1>2, <2>2, <3>1, <3>2
  <2> QED BY <2>3, <2>5, <2>6, <2>8, <2>9
<1> QED BY <1>1, <1>2

\* The job of an owner that is not at "bury" is not a dead letter.
LEMMA OwnerNotBuried ==
  ASSUME TypeOK, RecordInv, NEW w \in Workers, pc[w] \notin {"poll", "sync"}
  PROVE  \A i \in DOMAIN dlq : dlq[i] # Job(w)
<1> SUFFICES ASSUME NEW i \in DOMAIN dlq, dlq[i] = held[w].job PROVE FALSE
  BY DEF Job
<1>1. record[held[w].job] = [status |-> "failed", retries |-> RetryLimit]
  BY DEF RecordInv, DeadLettersExact
<1>2. record[held[w].job].status = "failed" BY <1>1
<1>3. WorkerRecord(w) BY DEF RecordInv
<1>4. pc[w] \in WorkerPcs BY DEF TypeOK
<1> QED BY <1>2, <1>3, <1>4 DEF WorkerRecord, WorkerPcs

\* The steps of a worker that touch neither a record nor a list.
LEMMA QuietRecords ==
  ASSUME faults' = 0, TypeOK, TypeOK', CopyInv, RecordInv, NEW w \in Workers,
         \/ ReadRecord(w, "mark", "markWrite")
         \/ OpenSession(w) \/ OpenSessionRaises(w)
         \/ ResolveFails(w) \/ PlanningStarts(w) \/ NodeStarts(w)
         \/ RunFails(w) \/ RunCompletes(w) \/ Check(w) \/ CheckRaises(w)
         \/ ReadRecord(w, "succeed", "succeedWrite")
         \/ ReadRecord(w, "fail", "failWrite")
         \/ SyncSession(w) \/ SyncRaises(w) \/ PollTimeout(w) \/ WorkerCrash(w)
  PROVE  RecordInv' /\ UNCHANGED <<record, dlq>>
<1> USE DEF callVars, storeVars, Step
<1>1. UNCHANGED <<caller, attempts, record, dlq, queue>>
  BY DEF ReadRecord, OpenSession, OpenSessionRaises, ResolveFails, PlanningStarts,
     NodeStarts, RunFails, RunCompletes, Check, CheckRaises, SyncSession, SyncRaises,
     PollTimeout, WorkerCrash, vars
<1>2. \A v \in Workers : v # w =>
        pc'[v] = pc[v] /\ held'[v] = held[v] /\ copy'[v] = copy[v]
  BY DEF ReadRecord, OpenSession, OpenSessionRaises, ResolveFails, PlanningStarts,
     NodeStarts, RunFails, RunCompletes, Check, CheckRaises, SyncSession, SyncRaises,
     PollTimeout, WorkerCrash, vars, Release, DropCopy, TypeOK
<1>3. WorkerRecord(w) BY DEF RecordInv
<1>4. WorkerRecord(w)'
  <2>1. CASE Release(w) BY <2>1 DEF Release, WorkerRecord, TypeOK
  <2>2. CASE SyncRaises(w) BY <2>1, <2>2, CleanSync DEF CopyInv
  <2>3. CASE OpenSessionRaises(w) \/ SyncSession(w) \/ WorkerCrash(w)
    BY <2>1, <2>3 DEF OpenSessionRaises, SyncSession, WorkerCrash
  <2>4. CASE \/ ReadRecord(w, "mark", "markWrite")
             \/ ReadRecord(w, "succeed", "succeedWrite")
             \/ ReadRecord(w, "fail", "failWrite")
    BY <1>1, <1>3, <2>4 DEF ReadRecord, WorkerRecord, Job, TypeOK
  <2>5. CASE \/ OpenSession(w) \/ ResolveFails(w) \/ PlanningStarts(w) \/ NodeStarts(w)
             \/ RunFails(w) \/ RunCompletes(w) \/ Check(w) \/ CheckRaises(w)
    <3>1. /\ pc[w] \in {"open", "plan", "run", "check"}
          /\ pc'[w] \in {"plan", "run", "check", "succeed", "fail"}
          /\ held' = held
      BY <2>5 DEF OpenSession, ResolveFails, PlanningStarts, NodeStarts, RunFails,
         RunCompletes, Check, CheckRaises, TypeOK
    <3> QED BY <1>1, <1>3, <3>1 DEF WorkerRecord
  <2>6. CASE PollTimeout(w) BY <1>3, <2>6 DEF PollTimeout, vars, WorkerRecord
  <2> QED BY <2>2, <2>3, <2>4, <2>5, <2>6
<1>5. \A i \in DOMAIN queue : queue[i].job \in Jobs
  <2>1. queue \in Seq(Payload) BY DEF TypeOK
  <2>2. \A i \in DOMAIN queue : queue[i] \in Payload BY <2>1, EntryType
  <2> QED BY <2>2 DEF Payload
<1>6. /\ \A j \in Jobs : CallerRecord(j)'
      /\ \A i \in DOMAIN queue : \A j \in Jobs : queue[i].job = j => QueuedRecord(j)'
      /\ \A v \in Workers : v # w => WorkerRecord(v)'
      /\ DeadLettersExact' /\ AttemptsCounted'
  BY <1>1, <1>2, OwnRecordOnly
<1>7. (\A i \in DOMAIN queue : QueuedRecord(queue[i].job))'
  BY <1>1, <1>5, <1>6 DEF QueuedRecord
<1> QED BY <1>1, <1>4, <1>6, <1>7 DEF RecordInv

\* Taking a payload counts an attempt of its job.
LEMMA DequeueRecords ==
  ASSUME TypeOK, TypeOK', CopyInv, RecordInv, NEW w \in Workers, Dequeue(w)
  PROVE  RecordInv' /\ UNCHANGED <<record, dlq>>
<1>1. PICK h \in Payload : h = Head(queue) /\ h = queue[1] /\ 1 \in DOMAIN queue
  BY TailEntries DEF Dequeue, TypeOK
<1>2. /\ pc[w] = "poll" /\ pc' = [pc EXCEPT ![w] = "mark"]
      /\ held' = [held EXCEPT ![w] = h]
      /\ queue' = Tail(queue)
      /\ attempts' = [attempts EXCEPT ![h.job] = @ + 1]
      /\ UNCHANGED <<caller, record, dlq, copy>>
  BY <1>1 DEF Dequeue, Step, callVars, storeVars
<1>3. /\ \A i \in DOMAIN queue' : i + 1 \in DOMAIN queue /\ queue'[i] = queue[i + 1]
      /\ DOMAIN queue' \subseteq Nat \ {0}
  BY TailEntries DEF Dequeue, TypeOK
<1>4. h.job \in Jobs BY DEF Payload
<1>5. Enqueued(h.job) /\ QueuedRecord(h.job)
  BY <1>1 DEF CopyInv, CopiesEnqueued, RecordInv
<1>6. \A j \in Jobs : j # h.job => attempts'[j] = attempts[j]
  BY <1>2, <1>4 DEF TypeOK
<1>7. attempts'[h.job] = attempts[h.job] + 1 BY <1>2, <1>4 DEF TypeOK
<1>8. \A j \in Jobs : CallerRecord(j)'
  BY <1>2, <1>5, <1>6 DEF RecordInv, CallerRecord, Enqueued
<1>9. \A i \in DOMAIN queue : queue[i].job \in Jobs
  <2>1. queue \in Seq(Payload) BY DEF TypeOK
  <2>2. \A i \in DOMAIN queue : queue[i] \in Payload BY <2>1, EntryType
  <2> QED BY <2>2 DEF Payload
<1>10. \A i \in DOMAIN queue' :
         /\ queue'[i].job \in Jobs /\ queue'[i].job # h.job
         /\ QueuedRecord(queue'[i].job)
  BY <1>1, <1>3, <1>9 DEF CopyInv, SingleCopy, RecordInv
<1>11. (\A i \in DOMAIN queue : QueuedRecord(queue[i].job))'
  BY <1>2, <1>6, <1>10 DEF QueuedRecord
<1>12. \A v \in Workers : WorkerRecord(v)'
  <2> SUFFICES ASSUME NEW v \in Workers PROVE WorkerRecord(v)' OBVIOUS
  <2>1. CASE v = w
    BY <1>2, <1>5, <1>7, <2>1 DEF WorkerRecord, QueuedRecord, TypeOK
  <2>2. CASE v # w
    <3>1. WorkerRecord(v) BY DEF RecordInv
    <3>2. pc[v] \notin {"poll", "sync"} => held[v].job # h.job
      BY <1>1 DEF CopyInv, SingleCopy, Owns
    <3>3. pc[v] # "poll" => held[v].job \in Jobs BY DEF TypeOK, Payload
    <3>4. pc'[v] = pc[v] /\ held'[v] = held[v] /\ copy'[v] = copy[v]
      BY <1>2, <2>2 DEF TypeOK
    <3> QED BY <1>2, <1>6, <3>1, <3>2, <3>3, <3>4 DEF WorkerRecord
  <2> QED BY <2>1, <2>2
<1>13. \A i \in DOMAIN dlq : dlq[i] \in Jobs /\ dlq[i] # h.job
  <2>1. \A i \in DOMAIN dlq : dlq[i] \in Jobs BY EntryType DEF TypeOK
  <2> QED BY <1>5, <2>1 DEF RecordInv, DeadLettersExact, QueuedRecord
<1>14. DeadLettersExact'
  BY <1>2, <1>6, <1>13 DEF RecordInv, DeadLettersExact
<1>15. AttemptsCounted'
  <2> SUFFICES ASSUME NEW j \in Jobs
               PROVE  record[j].retries <= attempts'[j] /\ attempts'[j] <= record[j].retries + 1
    BY <1>2 DEF AttemptsCounted
  <2>1. record[j].retries <= attempts[j] /\ attempts[j] <= record[j].retries + 1
    BY DEF RecordInv, AttemptsCounted
  <2>2. attempts[j] \in Nat /\ record[j].retries \in Nat
    BY QueueAssumption DEF TypeOK, Record
  <2> QED BY <1>5, <1>6, <1>7, <2>1, <2>2 DEF QueuedRecord
<1> QED BY <1>2, <1>8, <1>11, <1>12, <1>14, <1>15 DEF RecordInv

\* The steps that write a record back, each with the step of JobSpec that a
\* client sees.
LEMMA WriteRecords ==
  ASSUME TypeOK, TypeOK', CopyInv, RecordInv, NEW w \in Workers,
         MarkRunning(w) \/ MarkSuccess(w) \/ MarkRetry(w) \/ MarkFailed(w)
  PROVE  /\ RecordInv' /\ dlq' = dlq
         /\ \E j \in Jobs : \/ Promise!Start(j) \/ Promise!Succeed(j)
                           \/ Promise!Retry(j) \/ Promise!GiveUp(j)
<1> DEFINE j == held[w].job
           rec == record[j]
<1> USE DEF callVars, storeVars, Step
<1>1. pc[w] \notin {"poll", "sync"}
  BY DEF MarkRunning, MarkSuccess, MarkRetry, MarkFailed
<1>2. /\ Job(w) = j /\ j \in Jobs
      /\ \A i \in DOMAIN queue : queue[i].job # j
      /\ \A i \in DOMAIN dlq : dlq[i] # Job(w)
  BY <1>1, OwnedAlone, OwnerNotBuried
<1>3. copy[w] = rec /\ rec \in Record /\ WorkerRecord(w)
  BY <1>2 DEF RecordInv, WorkerRecord, MarkRunning, MarkSuccess, MarkRetry, MarkFailed, TypeOK
<1>4. /\ rec.retries \in 0..RetryLimit
      /\ rec = [status |-> rec.status, retries |-> rec.retries]
  BY <1>3 DEF Record
<1>5. /\ UNCHANGED <<caller, attempts, queue, dlq>>
      /\ \A v \in Workers : v # w =>
           pc'[v] = pc[v] /\ held'[v] = held[v] /\ copy'[v] = copy[v]
  BY DEF MarkRunning, MarkSuccess, MarkRetry, MarkFailed, Release, DropCopy, TypeOK
<1>6. \A r \in Record : record' = [record EXCEPT ![Job(w)] = r] => record'[j] = r
  BY <1>2 DEF TypeOK
<1>7. /\ MarkRunning(w) => record'[j] = [status |-> "running", retries |-> rec.retries]
      /\ MarkSuccess(w) => record'[j] = [status |-> "success", retries |-> rec.retries]
      /\ MarkRetry(w) => /\ record'[j] = [status |-> "queued", retries |-> rec.retries + 1]
                         /\ rec.retries < RetryLimit
      /\ MarkFailed(w) => /\ record'[j] = [status |-> "failed", retries |-> rec.retries]
                          /\ rec.retries = RetryLimit
  <2>1. ASSUME NEW s \in {"running", "success", "failed"}
        PROVE  [rec EXCEPT !.status = s] = [status |-> s, retries |-> rec.retries]
    BY <1>3, <1>4 DEF Record
  <2>2. record'[j] \in Record BY <1>2 DEF TypeOK
  <2> QED
    BY <1>2, <1>3, <1>4, <2>1, <2>2, QueueAssumption
    DEF MarkRunning, MarkSuccess, MarkRetry, MarkFailed, TypeOK
<1>8. record' = [record EXCEPT ![Job(w)] = record'[Job(w)]]
  BY <1>2 DEF MarkRunning, MarkSuccess, MarkRetry, MarkFailed, TypeOK
<1>9. /\ MarkRunning(w) => rec.status = "queued" /\ attempts[j] = rec.retries + 1
      /\ MarkSuccess(w) \/ MarkRetry(w) \/ MarkFailed(w) =>
            rec.status = "running" /\ attempts[j] = rec.retries + 1
  BY <1>3 DEF WorkerRecord, MarkRunning, MarkSuccess, MarkRetry, MarkFailed
<1>10. \/ record'[Job(w)].retries = record[Job(w)].retries
       \/ record'[Job(w)].retries = attempts[Job(w)]
  BY <1>2, <1>7, <1>9
<1>11. /\ \A i \in Jobs : CallerRecord(i)'
       /\ \A i \in DOMAIN queue : \A k \in Jobs : queue[i].job = k => QueuedRecord(k)'
       /\ \A v \in Workers : v # w => WorkerRecord(v)'
       /\ DeadLettersExact' /\ AttemptsCounted'
  BY <1>1, <1>2, <1>5, <1>8, <1>10, OwnRecordOnly
<1>12. \A i \in DOMAIN queue : queue[i].job \in Jobs
  <2>1. queue \in Seq(Payload) BY DEF TypeOK
  <2>2. \A i \in DOMAIN queue : queue[i] \in Payload BY <2>1, EntryType
  <2> QED BY <2>2 DEF Payload
<1>13. (\A i \in DOMAIN queue : QueuedRecord(queue[i].job))'
  BY <1>5, <1>11, <1>12 DEF QueuedRecord
<1>14. WorkerRecord(w)'
  <2>1. CASE MarkRunning(w)
    <3>1. pc'[w] = "open" /\ held' = held BY <2>1 DEF MarkRunning, TypeOK
    <3> QED BY <1>5, <1>7, <1>9, <2>1, <3>1 DEF WorkerRecord
  <2>2. CASE MarkSuccess(w)
    <3>1. pc'[w] = "poll" BY <2>2 DEF MarkSuccess, Release, TypeOK
    <3> QED BY <3>1 DEF WorkerRecord
  <2>3. CASE MarkRetry(w)
    <3>1. pc'[w] = "push" /\ held' = held BY <2>3 DEF MarkRetry, TypeOK
    <3> QED BY <1>5, <1>7, <1>9, <2>3, <3>1 DEF WorkerRecord
  <2>4. CASE MarkFailed(w)
    <3>1. pc'[w] = "bury" /\ held' = held BY <2>4 DEF MarkFailed, TypeOK
    <3> QED BY <1>2, <1>5, <1>7, <1>9, <2>4, <3>1 DEF WorkerRecord
  <2> QED BY <2>1, <2>2, <2>3, <2>4
<1>15. RecordInv' BY <1>11, <1>13, <1>14 DEF RecordInv
<1>16. Promise!Start(j) \/ Promise!Succeed(j) \/ Promise!Retry(j) \/ Promise!GiveUp(j)
  <2>1. {dlq[i] : i \in DOMAIN dlq}' = {dlq[i] : i \in DOMAIN dlq} BY <1>5
  <2>2. ASSUME NEW s \in {"running", "success", "failed"}
        PROVE  [rec EXCEPT !.status = s] = [status |-> s, retries |-> rec.retries]
    BY <1>3, <1>4 DEF Record
  <2>3. \A r : record'[j] = r => record' = [record EXCEPT ![j] = r]
    BY <1>2, <1>8
  <2> HIDE DEF rec
  <2>4. CASE MarkRunning(w)
    BY <1>7, <1>9, <2>1, <2>2, <2>3, <2>4 DEF Promise!Start, rec
  <2>5. CASE MarkSuccess(w)
    BY <1>7, <1>9, <2>1, <2>2, <2>3, <2>5 DEF Promise!Succeed, rec
  <2>6. CASE MarkRetry(w)
    BY <1>7, <1>9, <2>1, <2>3, <2>6 DEF Promise!Retry, rec
  <2>7. CASE MarkFailed(w)
    BY <1>7, <1>9, <2>1, <2>2, <2>3, <2>7 DEF Promise!GiveUp, rec
  <2> QED BY <2>4, <2>5, <2>6, <2>7
<1> QED BY <1>2, <1>5, <1>15, <1>16

\* A retry that is counted is queued, and the client sees no change.
LEMMA PushRetryRecords ==
  ASSUME TypeOK, TypeOK', CopyInv, RecordInv, NEW w \in Workers, PushRetry(w)
  PROVE  RecordInv' /\ UNCHANGED <<record, dlq>>
<1>1. /\ pc[w] = "push" /\ pc' = [pc EXCEPT ![w] = "sync"]
      /\ UNCHANGED <<caller, attempts, record, dlq, held, copy>>
  BY DEF PushRetry, Step, callVars, storeVars
<1>2. Job(w) = held[w].job /\ Job(w) \in Jobs BY <1>1, OwnedAlone
<1>3. PICK p \in Payload : p.job = held[w].job /\ queue' = Append(queue, p)
  BY <1>2 DEF PushRetry, Payload
<1>4. /\ DOMAIN queue' = DOMAIN queue \cup {Len(queue) + 1}
      /\ \A i \in DOMAIN queue : queue'[i] = queue[i]
      /\ queue'[Len(queue) + 1] = p
  BY <1>3, AppendEntries DEF TypeOK
<1>5. \A v \in Workers : v # w =>
        pc'[v] = pc[v] /\ held'[v] = held[v] /\ copy'[v] = copy[v]
  BY <1>1 DEF TypeOK
<1>6. /\ \A j \in Jobs : CallerRecord(j)'
      /\ \A v \in Workers : v # w => WorkerRecord(v)'
      /\ DeadLettersExact' /\ AttemptsCounted'
  BY <1>1, <1>5, OwnRecordOnly
<1>7. WorkerRecord(w) BY DEF RecordInv
<1>8. QueuedRecord(p.job) BY <1>1, <1>3, <1>7 DEF WorkerRecord, QueuedRecord
<1>9. \A i \in DOMAIN queue' : QueuedRecord(queue'[i].job)
  BY <1>4, <1>8 DEF RecordInv
<1>10. (\A i \in DOMAIN queue : QueuedRecord(queue[i].job))'
  BY <1>1, <1>9 DEF QueuedRecord
<1>11. WorkerRecord(w)' BY <1>1 DEF WorkerRecord, TypeOK
<1> QED BY <1>1, <1>6, <1>10, <1>11 DEF RecordInv

\* A job is filed as a dead letter once, after it was marked as failed.
LEMMA BuryRecords ==
  ASSUME TypeOK, TypeOK', CopyInv, RecordInv, NEW w \in Workers, PushDeadLetter(w)
  PROVE  RecordInv' /\ \E j \in Jobs : Promise!File(j)
<1>1. /\ pc[w] = "bury" /\ pc' = [pc EXCEPT ![w] = "sync"]
      /\ dlq' = Append(dlq, Job(w))
      /\ UNCHANGED <<caller, attempts, record, queue, held, copy>>
  BY DEF PushDeadLetter, Step, callVars
<1>2. /\ Job(w) = held[w].job /\ Job(w) \in Jobs
      /\ \A v \in Workers : v # w /\ pc[v] \notin {"poll", "sync"} => held[v].job # Job(w)
  BY <1>1, OwnedAlone
<1>3. WorkerRecord(w) BY DEF RecordInv
<1>4. /\ record[Job(w)] = [status |-> "failed", retries |-> RetryLimit]
      /\ attempts[Job(w)] = RetryLimit + 1
      /\ \A i \in DOMAIN dlq : dlq[i] # Job(w)
  BY <1>1, <1>2, <1>3 DEF WorkerRecord
<1>5. /\ DOMAIN dlq' = DOMAIN dlq \cup {Len(dlq) + 1}
      /\ Len(dlq) + 1 \notin DOMAIN dlq
      /\ \A i \in DOMAIN dlq : dlq'[i] = dlq[i]
      /\ dlq'[Len(dlq) + 1] = Job(w)
  BY <1>1, <1>2, AppendEntries DEF TypeOK
<1>6. DeadLettersExact' BY <1>1, <1>4, <1>5 DEF RecordInv, DeadLettersExact
<1>7. \A v \in Workers : WorkerRecord(v)'
  <2> SUFFICES ASSUME NEW v \in Workers PROVE WorkerRecord(v)' OBVIOUS
  <2>1. CASE v = w BY <1>1, <2>1 DEF WorkerRecord, TypeOK
  <2>2. CASE v # w
    <3>1. WorkerRecord(v) BY DEF RecordInv
    <3>2. pc'[v] = pc[v] BY <1>1, <2>2 DEF TypeOK
    <3> QED BY <1>1, <1>2, <1>5, <2>2, <3>1, <3>2 DEF WorkerRecord
  <2> QED BY <2>1, <2>2
<1>8. RecordInv'
  BY <1>1, <1>6, <1>7 DEF RecordInv, CallerRecord, QueuedRecord, Enqueued, AttemptsCounted
<1>9. \E j \in Jobs : Promise!File(j)
  <2>1. PICK j \in Jobs : j = Job(w) BY <1>2
  <2>2. {dlq[i] : i \in DOMAIN dlq}' = {dlq[i] : i \in DOMAIN dlq} \cup {j}
    BY <1>5, <2>1
  <2>3. j \notin {dlq[i] : i \in DOMAIN dlq} BY <1>4, <2>1
  <2>4. record[j].status = "failed" BY <1>4, <2>1
  <2>5. record' = record BY <1>1
  <2> QED BY <2>2, <2>3, <2>4, <2>5 DEF Promise!File
<1> QED BY <1>8, <1>9

\* The three Redis commands of enqueue_job.
LEMMA CallerRecords ==
  ASSUME TypeOK, TypeOK', CopyInv, RecordInv, NEW j \in Jobs,
         CallerStep(j) \/ CallerCrash(j)
  PROVE  /\ RecordInv' /\ dlq' = dlq
         /\ record' = record \/ Promise!Submit(j)
<1> USE DEF workerVars, storeVars, Goto
<1>1. UNCHANGED <<pc, held, copy, attempts, dlq>>
  BY DEF CallerStep, CallerCrash, FindNothing, RefuseDuplicate, Register, Push
<1>2. CallerRecord(j) BY DEF RecordInv
<1>3. CASE FindNothing(j) \/ RefuseDuplicate(j) \/ CallerCrash(j)
  <2>1. record' = record /\ queue' = queue
    BY <1>3 DEF FindNothing, RefuseDuplicate, CallerCrash
  <2>2. \A i \in Jobs : CallerRecord(i)'
    BY <1>1, <1>3, <2>1
    DEF FindNothing, RefuseDuplicate, CallerCrash, RecordInv, CallerRecord, Enqueued, TypeOK
  <2> QED
    BY <1>1, <2>1, <2>2
    DEF RecordInv, QueuedRecord, WorkerRecord, DeadLettersExact, AttemptsCounted
<1>4. CASE Push(j)
  <2>1. PICK p \in Payload : p.job = j /\ queue' = Append(queue, p)
    BY <1>4 DEF Push, Payload
  <2>2. record' = record /\ caller[j] = "registered" /\ caller' = [caller EXCEPT ![j] = "pushed"]
    BY <1>4 DEF Push
  <2>3. /\ DOMAIN queue' = DOMAIN queue \cup {Len(queue) + 1}
        /\ \A i \in DOMAIN queue : queue'[i] = queue[i]
        /\ queue'[Len(queue) + 1] = p
    BY <2>1, AppendEntries DEF TypeOK
  <2>4. QueuedRecord(j) BY <1>2, <2>2 DEF CallerRecord, QueuedRecord, Enqueued
  <2>5. \A i \in DOMAIN queue' : QueuedRecord(queue'[i].job)
    BY <2>1, <2>3, <2>4 DEF RecordInv
  <2>6. (\A i \in DOMAIN queue : QueuedRecord(queue[i].job))'
    BY <1>1, <2>2, <2>5 DEF QueuedRecord
  <2>7. \A i \in Jobs : CallerRecord(i)'
    BY <1>1, <2>2 DEF RecordInv, CallerRecord, Enqueued, TypeOK
  <2> QED
    BY <1>1, <2>2, <2>6, <2>7
    DEF RecordInv, WorkerRecord, DeadLettersExact, AttemptsCounted
<1>5. CASE Register(j)
  <2>1. /\ caller[j] = "checked" /\ caller' = [caller EXCEPT ![j] = "registered"]
        /\ record' = [record EXCEPT ![j] = [status |-> "queued", retries |-> 0]]
        /\ queue' = queue
    BY <1>5 DEF Register
  <2>2. record[j] = Absent /\ attempts[j] = 0 /\ ~Enqueued(j)
    BY <1>2, <2>1 DEF CallerRecord, Enqueued
  <2>3. \A i \in Jobs : CallerRecord(i)'
    BY <1>1, <2>1, <2>2 DEF RecordInv, CallerRecord, Enqueued, TypeOK
  <2>4. /\ \A i \in DOMAIN queue : queue[i].job # j
        /\ \A v \in Workers : pc[v] # "poll" => held[v].job # j
    BY <2>2 DEF CopyInv, CopiesEnqueued
  <2>5. \A i \in Jobs : i # j => record'[i] = record[i] BY <2>1 DEF TypeOK
  <2>6. \A i \in DOMAIN queue : queue[i].job \in Jobs
    <3>1. queue \in Seq(Payload) BY DEF TypeOK
    <3>2. \A i \in DOMAIN queue : queue[i] \in Payload BY <3>1, EntryType
    <3> QED BY <3>2 DEF Payload
  <2>7. (\A i \in DOMAIN queue : QueuedRecord(queue[i].job))'
    BY <1>1, <2>1, <2>4, <2>5, <2>6 DEF RecordInv, QueuedRecord
  <2>8. \A v \in Workers : WorkerRecord(v)'
    <3> SUFFICES ASSUME NEW v \in Workers PROVE WorkerRecord(v)' OBVIOUS
    <3>1. pc[v] # "poll" => record'[held[v].job] = record[held[v].job]
      BY <2>4, <2>5 DEF TypeOK, Payload
    <3>2. WorkerRecord(v) BY DEF RecordInv
    <3> QED BY <1>1, <3>1, <3>2 DEF WorkerRecord
  <2>9. \A i \in DOMAIN dlq : dlq[i] \in Jobs /\ dlq[i] # j
    <3>1. \A i \in DOMAIN dlq : dlq[i] \in Jobs BY EntryType DEF TypeOK
    <3> QED BY <2>2, <3>1 DEF RecordInv, DeadLettersExact, Absent
  <2>10. DeadLettersExact'
    BY <1>1, <2>5, <2>9 DEF RecordInv, DeadLettersExact
  <2>11. record'[j].retries = 0 BY <2>1 DEF TypeOK
  <2>12. AttemptsCounted'
    BY <1>1, <2>2, <2>5, <2>11 DEF RecordInv, AttemptsCounted
  <2>13. Promise!Submit(j)
    BY <1>1, <2>1, <2>2 DEF Promise!Submit, Promise!Absent, Absent
  <2> QED BY <1>1, <2>3, <2>7, <2>8, <2>10, <2>12, <2>13 DEF RecordInv
<1> QED BY <1>3, <1>4, <1>5 DEF CallerStep

LEMMA InitRecords == Init => RecordInv /\ Promise!SpecInit
<1> SUFFICES ASSUME Init PROVE RecordInv /\ Promise!SpecInit OBVIOUS
<1>1. DOMAIN queue = {} /\ DOMAIN dlq = {} BY DEF Init
<1>2. /\ \A w \in Workers : pc[w] = "poll"
      /\ \A j \in Jobs : caller[j] = "idle" /\ record[j] = Absent /\ attempts[j] = 0
  BY DEF Init
<1>3. RecordInv
  BY <1>1, <1>2 DEF RecordInv, CallerRecord, WorkerRecord, DeadLettersExact,
     AttemptsCounted, Absent
<1>4. {dlq[i] : i \in DOMAIN dlq} = {} BY <1>1
<1>5. record = [j \in Jobs |-> Promise!Absent] BY DEF Init, Absent, Promise!Absent
<1> QED BY <1>3, <1>4, <1>5 DEF Promise!SpecInit

\* One step of the queue: the invariant is kept, and a client sees a step of
\* JobSpec or nothing.
LEMMA NextRecords ==
  ASSUME faults' = 0, TypeOK, CopyInv, RecordInv, [Next]_vars
  PROVE  RecordInv' /\ [Promise!SpecNext]_(Promise!specVars)
<1>1. TypeOK' BY NextType
<1>2. dlq' = dlq => {dlq[i] : i \in DOMAIN dlq}' = {dlq[i] : i \in DOMAIN dlq}
  OBVIOUS
<1>3. CASE UNCHANGED vars
  BY <1>2, <1>3 DEF vars, RecordInv, CallerRecord, QueuedRecord, WorkerRecord,
     DeadLettersExact, AttemptsCounted, Enqueued, Promise!specVars
<1>4. ASSUME NEW j \in Jobs, CallerStep(j) \/ CallerCrash(j)
      PROVE  RecordInv' /\ [Promise!SpecNext]_(Promise!specVars)
  BY <1>1, <1>2, <1>4, CallerRecords DEF Promise!SpecNext, Promise!specVars
<1>5. ASSUME NEW w \in Workers, WorkerStep(w) \/ PollTimeout(w) \/ WorkerCrash(w)
      PROVE  RecordInv' /\ [Promise!SpecNext]_(Promise!specVars)
  <2>1. CASE Dequeue(w)
    BY <1>1, <1>2, <2>1, DequeueRecords DEF Promise!specVars
  <2>2. CASE PushRetry(w)
    BY <1>1, <1>2, <2>2, PushRetryRecords DEF Promise!specVars
  <2>3. CASE PushDeadLetter(w)
    BY <1>1, <2>3, BuryRecords DEF Promise!SpecNext
  <2>4. CASE MarkRunning(w) \/ MarkSuccess(w) \/ MarkRetry(w) \/ MarkFailed(w)
    BY <1>1, <2>4, WriteRecords DEF Promise!SpecNext
  <2>5. CASE \/ ReadRecord(w, "mark", "markWrite")
             \/ OpenSession(w) \/ OpenSessionRaises(w)
             \/ ResolveFails(w) \/ PlanningStarts(w) \/ NodeStarts(w)
             \/ RunFails(w) \/ RunCompletes(w) \/ Check(w) \/ CheckRaises(w)
             \/ ReadRecord(w, "succeed", "succeedWrite")
             \/ ReadRecord(w, "fail", "failWrite")
             \/ SyncSession(w) \/ SyncRaises(w) \/ PollTimeout(w) \/ WorkerCrash(w)
    BY <1>1, <1>2, <2>5, QuietRecords DEF Promise!specVars
  <2> QED BY <1>5, <2>1, <2>2, <2>3, <2>4, <2>5 DEF WorkerStep
<1> QED BY <1>3, <1>4, <1>5 DEF Next

\* Storage errors are counted and never uncounted.
LEMMA FaultsStay ==
  ASSUME TypeOK, [Next]_vars
  PROVE  faults' = faults \/ faults' = faults + 1
<1>1. ASSUME NEW w \in Workers, NEW status, NEW ok, StatusCall(w, status, ok)
      PROVE  faults' = faults \/ faults' = faults + 1
  BY <1>1 DEF StatusCall
<1>2. ASSUME NEW w \in Workers, NEW status, NodeCall(w, status)
      PROVE  faults' = faults \/ faults' = faults + 1
  BY <1>2 DEF NodeCall
<1>3. CASE UNCHANGED vars BY <1>3 DEF vars
<1>4. ASSUME NEW j \in Jobs, CallerStep(j) \/ CallerCrash(j) PROVE faults' = faults
  BY <1>4 DEF CallerStep, CallerCrash, FindNothing, RefuseDuplicate, Register, Push,
     storeVars
<1>5. ASSUME NEW w \in Workers, WorkerStep(w) \/ PollTimeout(w) \/ WorkerCrash(w)
      PROVE  faults' = faults \/ faults' = faults + 1
  <2>1. CASE \/ OpenSession(w) \/ OpenSessionRaises(w) \/ RunFails(w) \/ RunCompletes(w)
             \/ SyncSession(w) \/ SyncRaises(w)
    BY <1>1, <2>1 DEF OpenSession, OpenSessionRaises, RunFails, RunCompletes, SyncSession,
       SyncRaises
  <2>2. CASE PlanningStarts(w) \/ NodeStarts(w)
    BY <1>2, <2>2 DEF PlanningStarts, NodeStarts
  <2>3. CASE CheckRaises(w) BY <2>3 DEF CheckRaises
  <2>4. CASE \/ Dequeue(w) \/ MarkRunning(w) \/ ResolveFails(w) \/ Check(w)
             \/ MarkSuccess(w) \/ MarkRetry(w) \/ PushRetry(w) \/ MarkFailed(w)
             \/ PushDeadLetter(w) \/ PollTimeout(w) \/ WorkerCrash(w)
             \/ \E from, to \in WorkerPcs : ReadRecord(w, from, to)
    BY <2>4 DEF Dequeue, MarkRunning, ResolveFails, Check, MarkSuccess, MarkRetry,
       PushRetry, MarkFailed, PushDeadLetter, PollTimeout, WorkerCrash, ReadRecord,
       storeVars, vars
  <2> QED BY <1>5, <2>1, <2>2, <2>3, <2>4 DEF WorkerStep, WorkerPcs
<1> QED BY <1>3, <1>4, <1>5 DEF Next

\* What the theorems below are read off.
Clean == faults = 0 => CopyInv /\ RecordInv

LEMMA Inductive == Spec => [](TypeOK /\ Clean)
<1>1. Init => TypeOK /\ Clean BY InitType, InitCopies, InitRecords DEF Clean
<1>2. TypeOK /\ Clean /\ [Next]_vars => (TypeOK /\ Clean)'
  <2> SUFFICES ASSUME TypeOK, Clean, [Next]_vars, faults' = 0
               PROVE  CopyInv' /\ RecordInv'
    BY NextType DEF Clean
  <2>1. faults = 0 BY FaultsStay DEF TypeOK
  <2> QED BY <2>1, NextCopies, NextRecords DEF Clean
<1> QED BY <1>1, <1>2, PTL DEF Spec

\* Up to the first storage error, no schedule of callers, workers, crashes and
\* restarts makes a second live copy of a job: the read-modify-write of
\* update_job_status and handle_job_failure has nobody to race with.
THEOREM OneLiveCopy == Spec => [](faults = 0 => SingleCopy)
<1>1. Clean => (faults = 0 => SingleCopy) BY DEF Clean, CopyInv
<1> QED BY <1>1, Inductive, PTL

\* Up to the first storage error, no update of a job's record is lost.
THEOREM UpdatesKept == Spec => [](faults = 0 => NoLostUpdate)
<1>1. Clean => (faults = 0 => NoLostUpdate)
  BY DEF Clean, RecordInv, WorkerRecord, NoLostUpdate
<1> QED BY <1>1, Inductive, PTL

\* Up to the first storage error, a job is filed as a dead letter once, after
\* exactly RetryLimit retries.
THEOREM DeadLettersAreExact == Spec => [](faults = 0 => DeadLettersExact)
<1>1. Clean => (faults = 0 => DeadLettersExact) BY DEF Clean, RecordInv
<1> QED BY <1>1, Inductive, PTL

\* Up to the first storage error, every retry that handle_job_failure counts
\* stands for an attempt, and every attempt but the latest was counted.
THEOREM RetriesAreAttempts == Spec => [](faults = 0 => AttemptsCounted)
<1>1. Clean => (faults = 0 => AttemptsCounted) BY DEF Clean, RecordInv
<1> QED BY <1>1, Inductive, PTL

\* Up to the first storage error, every interleaving of callers, workers and
\* crashes is a behavior of JobSpec to those who read the job records.
PromisedStep == faults' = 0 => Promise!SpecNext

THEOREM PromiseUntilError ==
  Spec => Promise!SpecInit /\ [][PromisedStep]_(Promise!specVars)
<1>1. Init => Promise!SpecInit BY InitRecords
<1>2. TypeOK /\ Clean /\ [Next]_vars => [PromisedStep]_(Promise!specVars)
  <2> SUFFICES ASSUME TypeOK, Clean, [Next]_vars, faults' = 0
               PROVE  [Promise!SpecNext]_(Promise!specVars)
    BY DEF PromisedStep
  <2>1. faults = 0 BY FaultsStay DEF TypeOK
  <2> QED BY <2>1, NextRecords DEF Clean
<1> QED BY <1>1, <1>2, Inductive, PTL DEF Spec

\* So where storage does not fail at all, the queue implements JobSpec.
THEOREM QueueImplementsSpec ==
  ASSUME MaxDbFaults = 0
  PROVE  Spec => KeepsPromise
<1>1. TypeOK' /\ [PromisedStep]_(Promise!specVars) => [Promise!SpecNext]_(Promise!specVars)
  BY DEF TypeOK, PromisedStep
<1> QED
  BY <1>1, PromiseUntilError, TypeCorrect, PTL DEF KeepsPromise, Promise!JobPromise

-----------------------------------------------------------------------------
(* The two records a client reads                                          *)
(*                                                                         *)
(* With SQL a success is final: nobody holds or queues the job any more,   *)
(* so that nobody writes its session row again.                            *)

Finished(j) ==
  /\ session[j].status = "COMPLETED"
  /\ \A w \in Workers : pc[w] # "poll" => held[w].job # j
  /\ \A i \in DOMAIN queue : queue[i].job # j

SuccessInv ==
  Sql =>
    /\ \A w \in Workers : pc[w] \in {"succeed", "succeedWrite"} =>
         session[held[w].job].status = "COMPLETED"
    /\ \A j \in Jobs : record[j].status = "success" => Finished(j)

LEMMA CallerSuccess ==
  ASSUME TypeOK, TypeOK', RecordInv, SuccessInv, NEW j \in Jobs,
         CallerStep(j) \/ CallerCrash(j)
  PROVE  SuccessInv'
<1> USE DEF workerVars, storeVars, Goto
<1>1. UNCHANGED <<mode, session, pc, held>>
  BY DEF CallerStep, CallerCrash, FindNothing, RefuseDuplicate, Register, Push
<1>2. CASE Push(j)
  <2>1. PICK p \in Payload : p.job = j /\ queue' = Append(queue, p)
    BY <1>2 DEF Push, Payload
  <2>2. /\ DOMAIN queue' = DOMAIN queue \cup {Len(queue) + 1}
        /\ \A i \in DOMAIN queue : queue'[i] = queue[i]
        /\ queue'[Len(queue) + 1] = p
    BY <2>1, AppendEntries DEF TypeOK
  <2>3. record' = record /\ record[j].status # "success"
    BY <1>2 DEF Push, RecordInv, CallerRecord
  <2> QED BY <1>1, <2>1, <2>2, <2>3 DEF SuccessInv, Finished, Sql
<1>3. CASE Register(j)
  <2>1. queue' = queue /\ \A i \in Jobs : record'[i].status = "success" => record[i].status = "success"
    BY <1>3 DEF Register, TypeOK
  <2> QED BY <1>1, <2>1 DEF SuccessInv, Finished, Sql
<1>4. CASE record' = record /\ queue' = queue
  BY <1>1, <1>4 DEF SuccessInv, Finished, Sql
<1> QED
  BY <1>2, <1>3, <1>4 DEF CallerStep, CallerCrash, FindNothing, RefuseDuplicate

LEMMA WorkerSuccess ==
  ASSUME faults' = 0, TypeOK, TypeOK', CopyInv, SuccessInv, NEW w \in Workers,
         WorkerStep(w) \/ PollTimeout(w) \/ WorkerCrash(w)
  PROVE  SuccessInv'
<1>1. mode' = mode
  BY DEF WorkerStep, PollTimeout, WorkerCrash, Dequeue, ReadRecord, MarkRunning,
     OpenSession, OpenSessionRaises, ResolveFails, PlanningStarts, NodeStarts, RunFails,
     RunCompletes, Check, CheckRaises, MarkSuccess, MarkRetry, PushRetry, MarkFailed,
     PushDeadLetter, SyncSession, SyncRaises, storeVars, vars
<1> SUFFICES ASSUME Sql PROVE SuccessInv'
  BY <1>1 DEF SuccessInv, Sql
<1> USE DEF callVars, storeVars, Step
<1>2. \A v \in Workers : pc[v] # "poll" => Job(v) = held[v].job /\ held[v].job \in Jobs
  BY DEF Job, TypeOK, Payload
<1>3. \A j \in Jobs : record[j].status = "success" => session'[j] = session[j]
  <2>1. CASE session' = session BY <2>1
  <2>2. CASE /\ pc[w] # "poll"
             /\ \E row : session' = [session EXCEPT ![Job(w)] = row]
    <3>1. \A j \in Jobs : record[j].status = "success" => j # Job(w)
      BY <1>2, <2>2 DEF SuccessInv, Finished
    <3> QED BY <2>2, <3>1 DEF TypeOK
  <2> QED BY <2>1, <2>2, SessionOwner
<1>4. \A v \in Workers : v # w =>
        /\ pc'[v] = pc[v] /\ held'[v] = held[v]
        /\ Entered(v) => session'[held[v].job] = session[held[v].job]
  <2>1. \A v \in Workers : v # w => pc'[v] = pc[v] /\ held'[v] = held[v]
    BY DEF WorkerStep, PollTimeout, WorkerCrash, Dequeue, ReadRecord, MarkRunning,
       OpenSession, OpenSessionRaises, ResolveFails, PlanningStarts, NodeStarts, RunFails,
       RunCompletes, Check, CheckRaises, MarkSuccess, MarkRetry, PushRetry, MarkFailed,
       PushDeadLetter, SyncSession, SyncRaises, vars, Release, TypeOK
  <2> QED BY <2>1, OthersRow
<1>5. pc'[w] \in {"succeed", "succeedWrite"} => session'[held'[w].job].status = "COMPLETED"
  <2>1. CASE Check(w) BY <1>2, <2>1 DEF Check, TypeOK
  <2>2. CASE ReadRecord(w, "succeed", "succeedWrite")
    BY <2>2 DEF ReadRecord, SuccessInv, TypeOK
  <2>3. CASE PollTimeout(w) BY <2>3 DEF PollTimeout, vars, SuccessInv
  <2>4. CASE \/ Dequeue(w) \/ ReadRecord(w, "mark", "markWrite") \/ MarkRunning(w)
             \/ OpenSession(w) \/ OpenSessionRaises(w) \/ ResolveFails(w)
             \/ PlanningStarts(w) \/ NodeStarts(w) \/ RunFails(w) \/ RunCompletes(w)
             \/ CheckRaises(w) \/ MarkSuccess(w) \/ ReadRecord(w, "fail", "failWrite")
             \/ MarkRetry(w) \/ PushRetry(w) \/ MarkFailed(w) \/ PushDeadLetter(w)
             \/ SyncSession(w) \/ SyncRaises(w) \/ WorkerCrash(w)
    BY <2>4 DEF Dequeue, ReadRecord, MarkRunning, OpenSession, OpenSessionRaises,
       ResolveFails, PlanningStarts, NodeStarts, RunFails, RunCompletes, CheckRaises,
       MarkSuccess, MarkRetry, PushRetry, MarkFailed, PushDeadLetter, SyncSession,
       SyncRaises, WorkerCrash, Release, TypeOK
  <2> QED BY <2>1, <2>2, <2>3, <2>4 DEF WorkerStep
<1>6. \A v \in Workers : pc'[v] \in {"succeed", "succeedWrite"} =>
        session'[held'[v].job].status = "COMPLETED"
  BY <1>4, <1>5 DEF SuccessInv, Entered
<1>7. CASE MarkSuccess(w)
  <2>1. /\ pc[w] = "succeedWrite" /\ pc'[w] = "poll" /\ queue' = queue
        /\ \A j \in Jobs : j # Job(w) => record'[j] = record[j]
        /\ session' = session
    BY <1>7 DEF MarkSuccess, Release, TypeOK
  <2>2. /\ Owns(w, Job(w)) /\ Job(w) \in Jobs /\ held[w].user
        /\ session[Job(w)].status = "COMPLETED"
    BY <1>2, <2>1 DEF Owns, CopyInv, SqlPath, Entered, SuccessInv
  <2>3. \A v \in Workers : v # w /\ pc[v] # "poll" => held[v].job # Job(w)
    <3> SUFFICES ASSUME NEW v \in Workers, v # w, pc[v] # "poll", held[v].job = Job(w)
                 PROVE  FALSE
      OBVIOUS
    <3>1. CASE Entered(v)
      BY <1>2, <2>1, <2>2, <3>1 DEF CopyInv, SqlPath, UserOnce
    <3>2. CASE ~Entered(v)
      <4>1. Owns(v, Job(w)) BY <3>2 DEF Entered, Owns
      <4> QED BY <2>2, <4>1 DEF CopyInv, SingleCopy
    <3> QED BY <3>1, <3>2
  <2>4. \A i \in DOMAIN queue : queue[i].job # Job(w)
    BY <2>2 DEF CopyInv, SingleCopy
  <2>5. \A j \in Jobs : record'[j].status = "success" => Finished(j)'
    BY <1>4, <2>1, <2>2, <2>3, <2>4 DEF SuccessInv, Finished
  <2> QED BY <1>6, <2>5 DEF SuccessInv
<1>8. CASE Dequeue(w)
  <2>1. PICK h \in Payload : h = Head(queue) /\ h = queue[1] /\ 1 \in DOMAIN queue
    BY <1>8, TailEntries DEF Dequeue, TypeOK
  <2>2. \A i \in DOMAIN queue' : i + 1 \in DOMAIN queue /\ queue'[i] = queue[i + 1]
    BY <1>8, TailEntries DEF Dequeue, TypeOK
  <2>3. record' = record /\ held'[w] = h BY <1>8, <2>1 DEF Dequeue, TypeOK
  <2> QED BY <1>3, <1>4, <1>6, <2>1, <2>2, <2>3 DEF SuccessInv, Finished
<1>9. CASE PushRetry(w)
  <2>1. PICK p \in Payload : p.job = Job(w) /\ queue' = Append(queue, p)
    BY <1>2, <1>9 DEF PushRetry, Payload
  <2>2. /\ DOMAIN queue' = DOMAIN queue \cup {Len(queue) + 1}
        /\ \A i \in DOMAIN queue : queue'[i] = queue[i]
        /\ queue'[Len(queue) + 1] = p
    BY <2>1, AppendEntries DEF TypeOK
  <2>3. record' = record /\ held' = held /\ pc[w] # "poll" BY <1>9 DEF PushRetry
  <2> QED BY <1>2, <1>3, <1>4, <1>6, <2>1, <2>2, <2>3 DEF SuccessInv, Finished
<1>10. ASSUME queue' = queue,
              pc'[w] # "poll" => pc[w] # "poll" /\ held'[w] = held[w],
              \A j \in Jobs : record'[j].status = "success" => record[j].status = "success"
       PROVE  SuccessInv'
  BY <1>3, <1>4, <1>6, <1>10 DEF SuccessInv, Finished
<1>11. CASE MarkRunning(w) \/ MarkRetry(w) \/ MarkFailed(w)
  <2>1. /\ queue' = queue /\ pc[w] # "poll" /\ held' = held
        /\ \A j \in Jobs : j # Job(w) => record'[j] = record[j]
    BY <1>2, <1>11 DEF MarkRunning, MarkRetry, MarkFailed, TypeOK
  <2>2. copy[w] \in Record BY DEF TypeOK
  <2>3. record'[Job(w)].status \in {"running", "queued", "failed"}
    <3>1. PICK rec :
            /\ record' = [record EXCEPT ![Job(w)] = rec]
            /\ \/ rec = [copy[w] EXCEPT !.status = "running"]
               \/ rec = [status |-> "queued", retries |-> copy[w].retries + 1]
               \/ rec = [copy[w] EXCEPT !.status = "failed"]
      BY <1>11 DEF MarkRunning, MarkRetry, MarkFailed
    <3>2. rec.status \in {"running", "queued", "failed"} BY <2>2, <3>1 DEF Record
    <3> QED BY <1>2, <2>1, <3>1, <3>2 DEF TypeOK
  <2> QED BY <1>10, <2>1, <2>3
<1>12. CASE \/ OpenSession(w) \/ ResolveFails(w) \/ PlanningStarts(w) \/ NodeStarts(w)
            \/ RunFails(w) \/ RunCompletes(w) \/ Check(w) \/ CheckRaises(w)
            \/ PushDeadLetter(w) \/ PollTimeout(w)
  BY <1>10, <1>12 DEF OpenSession, ResolveFails, PlanningStarts, NodeStarts, RunFails,
     RunCompletes, Check, CheckRaises, PushDeadLetter, PollTimeout, vars
<1>13. CASE \/ ReadRecord(w, "mark", "markWrite")
            \/ ReadRecord(w, "succeed", "succeedWrite")
            \/ ReadRecord(w, "fail", "failWrite")
  BY <1>10, <1>13 DEF ReadRecord
<1>14. CASE OpenSessionRaises(w) \/ SyncSession(w) \/ SyncRaises(w) \/ WorkerCrash(w)
  <2>1. Release(w)
    BY <1>14, CleanSync DEF CopyInv, OpenSessionRaises, SyncSession, WorkerCrash
  <2>2. pc'[w] = "poll" BY <2>1 DEF Release, TypeOK
  <2> QED
    BY <1>10, <1>14, <2>2 DEF OpenSessionRaises, SyncSession, SyncRaises, WorkerCrash
<1> QED
  BY <1>7, <1>8, <1>9, <1>11, <1>12, <1>13, <1>14 DEF WorkerStep

\* Up to the first storage error, the job record and the session row of the
\* SQL deployment agree on every success: whoever polls either of them
\* (status route, SSE stream) is told the same.
THEOREM SuccessIsAgreed == Spec => [](faults = 0 => SuccessAgreesWithSession)
<1> DEFINE Agreed == faults = 0 => SuccessInv
<1>1. Init => Agreed BY DEF Init, SuccessInv, Absent
<1>2. TypeOK /\ Clean /\ (TypeOK /\ Clean)' /\ Agreed /\ [Next]_vars => Agreed'
  <2> SUFFICES ASSUME TypeOK, Clean, TypeOK', Agreed, [Next]_vars, faults' = 0
               PROVE  SuccessInv'
    OBVIOUS
  <2>1. CopyInv /\ RecordInv /\ SuccessInv BY FaultsStay DEF TypeOK, Clean
  <2>2. CASE UNCHANGED vars BY <2>1, <2>2 DEF vars, SuccessInv, Finished, Sql
  <2> QED BY <2>1, <2>2, CallerSuccess, WorkerSuccess DEF Next
<1>3. Agreed => (faults = 0 => SuccessAgreesWithSession)
  BY DEF SuccessInv, Finished, SuccessAgreesWithSession
<1> HIDE DEF Agreed
<1> QED BY <1>1, <1>2, <1>3, Inductive, PTL DEF Spec

-----------------------------------------------------------------------------
(* Lost jobs                                                               *)
(*                                                                         *)
(* LossBounded is proved for any number of storage errors, so nothing that *)
(* rests on SingleCopy may be used: two workers may have the same job.     *)
(* The invariant counts the orphans instead, the pending jobs that no      *)
(* queue entry and no worker will move on.  A worker moves a job on until  *)
(* it has written its record as settled or has put it back.                *)

Carries(w, j) == pc[w] \notin {"poll", "bury", "sync"} /\ held[w].job = j

Pending(j) == record[j].status \in {"queued", "running"}

Queued(j) == \E i \in DOMAIN queue : queue[i].job = j

Orphans ==
  {j \in Jobs : /\ Pending(j) /\ caller[j] # "registered" /\ ~Queued(j)
                /\ \A w \in Workers : ~Carries(w, j)}

OrphansBounded ==
  ~Sql => IsFiniteSet(Orphans) /\ Cardinality(Orphans) <= crashes + faults

\* A bound survives a step that makes no orphan, and one that makes one and
\* is counted as a crash or as a storage error.
LEMMA OrphansKept ==
  ASSUME TypeOK, TypeOK', OrphansBounded, mode' = mode, Orphans' \subseteq Orphans,
         crashes' + faults' >= crashes + faults
  PROVE  OrphansBounded'
<1>1. {crashes, faults, crashes', faults'} \subseteq Nat BY DEF TypeOK
<1>2. CASE Sql BY <1>2 DEF OrphansBounded, Sql
<1>3. CASE ~Sql
  <2>1. IsFiniteSet(Orphans) /\ Cardinality(Orphans) <= crashes + faults
    BY <1>3 DEF OrphansBounded
  <2>2. IsFiniteSet(Orphans') /\ Cardinality(Orphans') <= Cardinality(Orphans)
    BY <2>1, FS_Subset
  <2>3. Cardinality(Orphans) \in Nat /\ Cardinality(Orphans') \in Nat
    BY <2>1, <2>2, FS_CardinalityType
  <2>4. Cardinality(Orphans') <= crashes' + faults'
    BY <1>1, <2>1, <2>2, <2>3
  <2> QED BY <2>2, <2>4 DEF OrphansBounded
<1> QED BY <1>2, <1>3

LEMMA OrphanMade ==
  ASSUME TypeOK, OrphansBounded, mode' = mode, NEW j, Orphans' \subseteq Orphans \cup {j},
         crashes' + faults' = crashes + faults + 1
  PROVE  OrphansBounded'
<1>1. crashes \in Nat /\ faults \in Nat BY DEF TypeOK
<1>2. CASE Sql BY <1>2 DEF OrphansBounded, Sql
<1>3. CASE ~Sql
  <2>1. IsFiniteSet(Orphans) /\ Cardinality(Orphans) <= crashes + faults
    BY <1>3 DEF OrphansBounded
  <2>2. /\ IsFiniteSet(Orphans \cup {j})
        /\ Cardinality(Orphans \cup {j}) <= Cardinality(Orphans) + 1
    <3>1. Cardinality(Orphans) \in Nat BY <2>1, FS_CardinalityType
    <3> QED BY <2>1, <3>1, FS_AddElement
  <2>3. IsFiniteSet(Orphans') /\ Cardinality(Orphans') <= Cardinality(Orphans \cup {j})
    BY <2>2, FS_Subset
  <2>4. /\ Cardinality(Orphans) \in Nat /\ Cardinality(Orphans') \in Nat
        /\ Cardinality(Orphans \cup {j}) \in Nat
    BY <2>1, <2>2, <2>3, FS_CardinalityType
  <2>5. Cardinality(Orphans') <= crashes' + faults'
    BY <1>1, <2>1, <2>2, <2>3, <2>4
  <2> QED BY <2>3, <2>5 DEF OrphansBounded
<1> QED BY <1>2, <1>3

\* The steps of enqueue_job: only a caller that dies leaves an orphan.
LEMMA CallerOrphans ==
  ASSUME TypeOK, TypeOK', OrphansBounded, NEW j \in Jobs, CallerStep(j) \/ CallerCrash(j)
  PROVE  OrphansBounded'
<1> USE DEF workerVars, storeVars, Goto
<1>1. UNCHANGED <<mode, pc, held, faults>> /\ \A i \in Jobs : i # j => caller'[i] = caller[i]
  BY DEF CallerStep, CallerCrash, FindNothing, RefuseDuplicate, Register, Push, TypeOK
<1>2. crashes \in Nat /\ faults \in Nat BY DEF TypeOK
<1>3. CASE FindNothing(j) \/ RefuseDuplicate(j)
  <2>1. UNCHANGED <<queue, record, crashes>> /\ caller[j] # "registered"
    BY <1>3 DEF FindNothing, RefuseDuplicate
  <2>2. Orphans' \subseteq Orphans
    BY <1>1, <2>1 DEF Orphans, Pending, Queued, Carries
  <2> QED BY <1>1, <1>2, <2>1, <2>2, OrphansKept
<1>4. CASE Register(j)
  <2>1. /\ UNCHANGED <<queue, crashes>> /\ caller'[j] = "registered"
        /\ \A i \in Jobs : i # j => record'[i] = record[i]
    BY <1>4 DEF Register, TypeOK
  <2>2. Orphans' \subseteq Orphans
    BY <1>1, <2>1 DEF Orphans, Pending, Queued, Carries
  <2> QED BY <1>1, <1>2, <2>1, <2>2, OrphansKept
<1>5. CASE Push(j)
  <2>1. PICK p \in Payload : p.job = j /\ queue' = Append(queue, p)
    BY <1>5 DEF Push, Payload
  <2>2. /\ DOMAIN queue' = DOMAIN queue \cup {Len(queue) + 1}
        /\ \A i \in DOMAIN queue : queue'[i] = queue[i]
        /\ queue'[Len(queue) + 1] = p
    BY <2>1, AppendEntries DEF TypeOK
  <2>3. Queued(j)' /\ \A i \in Jobs : Queued(i) => Queued(i)'
    BY <2>1, <2>2 DEF Queued
  <2>4. UNCHANGED <<record, crashes>> BY <1>5 DEF Push
  <2>5. Orphans' \subseteq Orphans
    BY <1>1, <2>3, <2>4 DEF Orphans, Pending, Carries
  <2> QED BY <1>1, <1>2, <2>4, <2>5, OrphansKept
<1>6. CASE CallerCrash(j)
  <2>1. UNCHANGED <<queue, record>> /\ crashes' = crashes + 1 BY <1>6 DEF CallerCrash
  <2>2. Orphans' \subseteq Orphans \cup {j}
    BY <1>1, <2>1 DEF Orphans, Pending, Queued, Carries
  <2>3. crashes' + faults' = crashes + faults + 1 BY <1>1, <1>2, <2>1
  <2> QED BY <1>1, <2>2, <2>3, OrphanMade
<1> QED BY <1>3, <1>4, <1>5, <1>6 DEF CallerStep

\* A step of a worker makes at most the job it holds an orphan.
LEMMA OnlyOwnJob ==
  ASSUME TypeOK, TypeOK', NEW w \in Workers, NEW own, own = Job(w),
         UNCHANGED <<mode, caller>>,
         \A j \in Jobs : j # own => record'[j] = record[j],
         \A i \in DOMAIN queue : i \in DOMAIN queue' /\ queue'[i] = queue[i],
         \A v \in Workers : v # w => pc'[v] = pc[v] /\ held'[v] = held[v]
  PROVE  /\ Orphans' \subseteq Orphans \cup {own}
         /\ \/ Carries(w, own)' \/ Queued(own)' \/ ~Pending(own)'
            \/ ~Carries(w, own) /\ record' = record
            => Orphans' \subseteq Orphans
<1>1. \A j \in Jobs : Queued(j) => Queued(j)' BY DEF Queued
<1>2. \A j : j # own => ~Carries(w, j) BY DEF Carries, Job
<1>3. \A j \in Jobs : \A v \in Workers : v # w => (Carries(v, j)' <=> Carries(v, j))
  BY DEF Carries
<1>4. \A j \in Jobs : j # own => (Pending(j)' <=> Pending(j)) BY DEF Pending
<1>5. Orphans' \subseteq Orphans \cup {own}
  BY <1>1, <1>2, <1>3, <1>4 DEF Orphans
<1>6. ASSUME \/ Carries(w, own)' \/ Queued(own)' \/ ~Pending(own)'
             \/ ~Carries(w, own) /\ record' = record
      PROVE  Orphans' \subseteq Orphans
  <2>1. CASE Carries(w, own)' \/ Queued(own)' \/ ~Pending(own)'
    <3>1. own \notin Orphans' BY <2>1 DEF Orphans
    <3> QED BY <1>5, <3>1
  <2>2. CASE ~Carries(w, own) /\ record' = record
    <3>1. \A j \in Jobs : \A v \in Workers : Carries(v, j) => Carries(v, j)'
      BY <1>2, <1>3, <2>2
    <3> QED BY <1>1, <2>2, <3>1 DEF Orphans, Pending
  <2> QED BY <1>6, <2>1, <2>2
<1> QED BY <1>5, <1>6

\* In the JSON deployment update_session raises for a storage error only.
LEMMA JsonRaises ==
  ASSUME TypeOK, ~Sql, NEW w \in Workers, NEW status, StatusCall(w, status, FALSE)
  PROVE  faults' = faults + 1
BY DEF StatusCall, Visible, SpanLost

\* The steps of a worker: only one that dies, or whose first session update
\* raises, leaves an orphan.
LEMMA WorkerOrphans ==
  ASSUME TypeOK, TypeOK', OrphansBounded, [Next]_vars, NEW w \in Workers,
         WorkerStep(w) \/ PollTimeout(w) \/ WorkerCrash(w)
  PROVE  OrphansBounded'
<1> USE DEF callVars, storeVars, Step
<1>1. mode' = mode
  BY DEF WorkerStep, PollTimeout, WorkerCrash, Dequeue, ReadRecord, MarkRunning,
     OpenSession, OpenSessionRaises, ResolveFails, PlanningStarts, NodeStarts, RunFails,
     RunCompletes, Check, CheckRaises, MarkSuccess, MarkRetry, PushRetry, MarkFailed,
     PushDeadLetter, SyncSession, SyncRaises, vars
<1>2. /\ crashes \in Nat /\ faults \in Nat
      /\ faults' = faults \/ faults' = faults + 1
  BY FaultsStay DEF TypeOK
<1>3. pc[w] # "poll" => Job(w) = held[w].job /\ Job(w) \in Jobs
  BY DEF Job, TypeOK, Payload
<1>4. CASE Dequeue(w)
  <2>1. PICK h \in Payload : h = Head(queue) /\ h = queue[1]
    BY <1>4, TailEntries DEF Dequeue, TypeOK
  <2>2. /\ pc[w] = "poll" /\ pc' = [pc EXCEPT ![w] = "mark"]
        /\ held' = [held EXCEPT ![w] = h]
        /\ queue' = Tail(queue)
        /\ UNCHANGED <<caller, record, crashes, faults>>
    BY <1>4, <2>1 DEF Dequeue
  <2>3. \A i \in DOMAIN queue : i # 1 => i - 1 \in DOMAIN Tail(queue) /\ Tail(queue)[i - 1] = queue[i]
    <3>1. queue \in Seq(Payload) /\ queue # <<>> BY <1>4 DEF TypeOK, Dequeue
    <3> QED BY <3>1
  <2>4. \A j \in Jobs : Queued(j) => Queued(j)' \/ j = h.job
    BY <2>1, <2>2, <2>3 DEF Queued
  <2>5. Carries(w, h.job)' BY <2>2 DEF Carries, TypeOK
  <2>6. \A j \in Jobs : \A v \in Workers : Carries(v, j) => Carries(v, j)'
    BY <2>2 DEF Carries, TypeOK
  <2>7. Orphans' \subseteq Orphans
    BY <2>2, <2>4, <2>5, <2>6 DEF Orphans, Pending
  <2> QED BY <1>1, <1>2, <2>2, <2>7, OrphansKept
<1>5. CASE PollTimeout(w)
  <2>1. Orphans' \subseteq Orphans
    BY <1>5 DEF PollTimeout, vars, Orphans, Pending, Queued, Carries
  <2> QED BY <1>1, <1>2, <1>5, <2>1, OrphansKept DEF PollTimeout, vars
<1>0. PICK own : own = Job(w) OBVIOUS
<1> DEFINE Own == /\ pc[w] # "poll"
                  /\ UNCHANGED <<mode, caller>>
                  /\ \A j \in Jobs : j # own => record'[j] = record[j]
                  /\ \A i \in DOMAIN queue : i \in DOMAIN queue' /\ queue'[i] = queue[i]
                  /\ \A v \in Workers : v # w => pc'[v] = pc[v] /\ held'[v] = held[v]
           Kept == \/ Carries(w, own)' \/ Queued(own)' \/ ~Pending(own)'
                   \/ ~Carries(w, own) /\ record' = record
<1>6. ASSUME Own, Kept, crashes' = crashes PROVE OrphansBounded'
  <2>1. Orphans' \subseteq Orphans BY <1>0, <1>6, OnlyOwnJob
  <2> QED BY <1>1, <1>2, <1>6, <2>1, OrphansKept
<1>7. ASSUME Own, crashes' + faults' = crashes + faults + 1 PROVE OrphansBounded'
  <2>1. Orphans' \subseteq Orphans \cup {own} BY <1>0, <1>7, OnlyOwnJob
  <2> QED BY <1>1, <1>7, <2>1, OrphanMade
<1>8. CASE OpenSessionRaises(w) \/ WorkerCrash(w)
  <2>1. Own
    BY <1>8 DEF OpenSessionRaises, WorkerCrash, Release, TypeOK
  <2>2. CASE Sql BY <1>1, <2>2 DEF OrphansBounded, Sql
  <2>3. CASE ~Sql
    <3>1. CASE OpenSessionRaises(w)
      <4>1. faults' = faults + 1 BY <2>3, <3>1, JsonRaises DEF OpenSessionRaises
      <4>2. crashes' = crashes BY <3>1 DEF OpenSessionRaises
      <4> QED BY <1>2, <1>7, <2>1, <4>1, <4>2
    <3>2. CASE WorkerCrash(w)
      <4>1. crashes' = crashes + 1 /\ faults' = faults BY <3>2 DEF WorkerCrash
      <4> QED BY <1>2, <1>7, <2>1, <4>1
    <3> QED BY <1>8, <3>1, <3>2
  <2> QED BY <2>2, <2>3
<1>9. CASE SyncSession(w) \/ SyncRaises(w)
  <2>1. Own
    BY <1>9 DEF SyncSession, SyncRaises, Release, TypeOK
  <2>2. ~Carries(w, own) /\ record' = record /\ crashes' = crashes
    BY <1>9 DEF SyncSession, SyncRaises, Carries
  <2> QED BY <1>6, <2>1, <2>2
<1>10. CASE PushDeadLetter(w)
  <2>1. Own BY <1>10 DEF PushDeadLetter, TypeOK
  <2>2. ~Carries(w, own) /\ record' = record /\ crashes' = crashes
    BY <1>10 DEF PushDeadLetter, Carries
  <2> QED BY <1>6, <2>1, <2>2
<1>11. CASE PushRetry(w)
  <2>1. PICK p \in Payload : p.job = own /\ queue' = Append(queue, p)
    BY <1>0, <1>3, <1>11 DEF PushRetry, Payload
  <2>2. /\ DOMAIN queue' = DOMAIN queue \cup {Len(queue) + 1}
        /\ \A i \in DOMAIN queue : queue'[i] = queue[i]
        /\ queue'[Len(queue) + 1] = p
    BY <2>1, AppendEntries DEF TypeOK
  <2>3. Own BY <1>11, <2>2 DEF PushRetry, TypeOK
  <2>4. crashes' = crashes BY <1>11 DEF PushRetry
  <2>5. Queued(own)' BY <2>1, <2>2 DEF Queued
  <2> QED BY <1>6, <2>3, <2>4, <2>5
<1>12. CASE MarkSuccess(w) \/ MarkFailed(w)
  <2>1. Own /\ crashes' = crashes
    BY <1>0, <1>3, <1>12 DEF MarkSuccess, MarkFailed, Release, TypeOK
  <2>2. \E s \in {"success", "failed"} :
          record' = [record EXCEPT ![own] = [copy[w] EXCEPT !.status = s]]
    BY <1>0, <1>12 DEF MarkSuccess, MarkFailed
  <2>3. copy[w] \in Record BY DEF TypeOK
  <2>4. record'[own].status \in {"success", "failed"}
    BY <1>0, <1>3, <2>1, <2>2, <2>3 DEF Record, TypeOK
  <2> QED BY <1>6, <2>1, <2>4 DEF Pending
<1>13. CASE MarkRunning(w) \/ MarkRetry(w)
  <2>1. /\ Own /\ crashes' = crashes /\ held' = held /\ pc'[w] \in {"open", "push"}
    BY <1>0, <1>3, <1>13 DEF MarkRunning, MarkRetry, TypeOK
  <2>2. Carries(w, own)' BY <1>0, <2>1 DEF Carries, Job
  <2> QED BY <1>6, <2>1, <2>2
<1>14. CASE \/ OpenSession(w) \/ ResolveFails(w) \/ PlanningStarts(w) \/ NodeStarts(w)
            \/ RunFails(w) \/ RunCompletes(w) \/ Check(w) \/ CheckRaises(w)
  <2>1. /\ Own /\ crashes' = crashes /\ held' = held
        /\ pc'[w] \in {"plan", "run", "fail", "check", "succeed"}
    BY <1>14 DEF OpenSession, ResolveFails, PlanningStarts, NodeStarts, RunFails,
       RunCompletes, Check, CheckRaises, TypeOK
  <2>2. Carries(w, own)' BY <1>0, <2>1 DEF Carries, Job
  <2> QED BY <1>6, <2>1, <2>2
<1>15. CASE \/ ReadRecord(w, "mark", "markWrite")
            \/ ReadRecord(w, "succeed", "succeedWrite")
            \/ ReadRecord(w, "fail", "failWrite")
  <2>1. /\ Own /\ crashes' = crashes /\ held' = held
        /\ pc'[w] \in {"markWrite", "succeedWrite", "failWrite"}
    BY <1>15 DEF ReadRecord, TypeOK
  <2>2. Carries(w, own)' BY <1>0, <2>1 DEF Carries, Job
  <2> QED BY <1>6, <2>1, <2>2
<1> QED
  BY <1>4, <1>5, <1>8, <1>9, <1>10, <1>11, <1>12, <1>13, <1>14, <1>15 DEF WorkerStep

\* Whatever the number of workers, storage errors and crashes, each crash and
\* each error costs at most one job in the JSON deployment: no schedule of
\* task_queue.py, job_manager.py and conductor_worker.py loses one by itself.
THEOREM LossIsBounded == Spec => []LossBounded
<1>1. Init => OrphansBounded
  <2> SUFFICES ASSUME Init PROVE OrphansBounded OBVIOUS
  <2>1. Orphans = {} BY DEF Init, Orphans, Pending, Absent
  <2> QED BY <2>1, FS_EmptySet DEF OrphansBounded, Init
<1>2. TypeOK /\ TypeOK' /\ OrphansBounded /\ [Next]_vars => OrphansBounded'
  <2> SUFFICES ASSUME TypeOK, TypeOK', OrphansBounded, [Next]_vars PROVE OrphansBounded'
    OBVIOUS
  <2>1. CASE UNCHANGED vars
    BY <2>1 DEF vars, OrphansBounded, Orphans, Pending, Queued, Carries, Sql
  <2> QED BY <2>1, CallerOrphans, WorkerOrphans DEF Next
<1>3. TypeOK /\ OrphansBounded => LossBounded
  <2> SUFFICES ASSUME TypeOK, OrphansBounded, ~Sql PROVE Cardinality(Lost) <= crashes + faults
    BY DEF LossBounded
  <2>1. IsFiniteSet(Orphans) /\ Cardinality(Orphans) <= crashes + faults
    BY DEF OrphansBounded
  <2>2. Lost \subseteq Orphans BY DEF Lost, Orphans, Pending, Queued, Carries, Owns
  <2>3. IsFiniteSet(Lost) /\ Cardinality(Lost) <= Cardinality(Orphans)
    BY <2>1, <2>2, FS_Subset
  <2>4. Cardinality(Lost) \in Nat /\ Cardinality(Orphans) \in Nat
        /\ crashes \in Nat /\ faults \in Nat
    BY <2>1, <2>3, FS_CardinalityType DEF TypeOK
  <2> QED BY <2>1, <2>3, <2>4
<1> QED BY <1>1, <1>2, <1>3, TypeCorrect, PTL DEF Spec

-----------------------------------------------------------------------------
(* Copies after a storage error                                            *)
(*                                                                         *)
(* How many live copies a job can have once storage has failed, for any    *)
(* number of errors.  A copy is a payload in the queue or the worker that  *)
(* owns the job.  With JSON records a worker fails a second time only when *)
(* an error is raised by its last update (SyncRaises), and only then is    *)
(* there one copy more.  With SQL one early error can make that update     *)
(* raise much later, but only in the run that was given a user id, and     *)
(* only once: as long as it may, it is counted as a chance of its own.     *)

Copies(j) ==
  {<<"queued", i>> : i \in {k \in DOMAIN queue : queue[k].job = j}}
    \cup {<<"taken", w>> : w \in {v \in Workers : Owns(v, j)}}

\* w runs the payload with the user id and has not failed yet
Trying(w, j) == pc[w] # "poll" /\ held[w].job = j /\ held[w].user /\ ~handling[w]

Chances(j) ==
  {<<"first", i>> : i \in {k \in DOMAIN queue : queue[k].job = j /\ queue[k].user}}
    \cup {<<"trying", w>> : w \in {v \in Workers : Trying(v, j)}}

Tokens(j) == IF Sql THEN Copies(j) \cup Chances(j) ELSE Copies(j)

Bounded(j) ==
  IsFiniteSet(Tokens(j)) /\ Cardinality(Tokens(j)) <= IF Sql THEN 2 ELSE 1 + faults

\* with SQL the first session update of a retry raises
FirstEnters == Sql => \A w \in Workers : Entered(w) => held[w].user

TokensInv ==
  /\ CopiesEnqueued
  /\ FirstEnters
  /\ \A j \in Jobs : Bounded(j)

TokensOf(j) ==
  /\ \A i : <<"queued", i>> \in Tokens(j) <=> i \in DOMAIN queue /\ queue[i].job = j
  /\ \A w : <<"taken", w>> \in Tokens(j) <=> w \in Workers /\ Owns(w, j)
  /\ \A i : <<"first", i>> \in Tokens(j) <=>
       Sql /\ i \in DOMAIN queue /\ queue[i].job = j /\ queue[i].user
  /\ \A w : <<"trying", w>> \in Tokens(j) <=> Sql /\ w \in Workers /\ Trying(w, j)
  /\ \A t \in Tokens(j) :
       \/ \E i \in DOMAIN queue : t = <<"queued", i>> \/ t = <<"first", i>>
       \/ \E w \in Workers : t = <<"taken", w>> \/ t = <<"trying", w>>

LEMMA IsToken ==
  ASSUME NEW j
  PROVE  TokensOf(j) /\ TokensOf(j)'
BY DEF TokensOf, Tokens, Copies, Chances

\* The ways in which a step changes the tokens of a job and keeps its bound.
LEMMA TokensKept ==
  ASSUME NEW j, Bounded(j), TypeOK, TypeOK', mode' = mode, faults' >= faults,
         Tokens(j)' \subseteq Tokens(j)
  PROVE  Bounded(j)'
<1>1. IsFiniteSet(Tokens(j)') /\ Cardinality(Tokens(j)') <= Cardinality(Tokens(j))
  BY FS_Subset DEF Bounded
<1>2. Cardinality(Tokens(j)) \in Nat /\ Cardinality(Tokens(j)') \in Nat
  BY <1>1, FS_CardinalityType DEF Bounded
<1>3. faults \in Nat /\ faults' \in Nat BY DEF TypeOK
<1> QED BY <1>1, <1>2, <1>3 DEF Bounded, Sql

LEMMA TokenSwapped ==
  ASSUME NEW j, Bounded(j), TypeOK, TypeOK', mode' = mode, faults' >= faults,
         NEW a \in Tokens(j), NEW b, Tokens(j)' \subseteq (Tokens(j) \ {a}) \cup {b}
  PROVE  Bounded(j)'
<1> DEFINE Rest == Tokens(j) \ {a}
<1>1. Cardinality(Tokens(j)) \in Nat BY FS_CardinalityType DEF Bounded
<1>2. IsFiniteSet(Rest) /\ Cardinality(Rest) = Cardinality(Tokens(j)) - 1
  BY FS_RemoveElement DEF Bounded
<1>3. IsFiniteSet(Rest \cup {b}) /\ Cardinality(Rest \cup {b}) <= Cardinality(Tokens(j))
  <2> HIDE DEF Rest
  <2>1. IsFiniteSet(Rest \cup {b}) /\ Cardinality(Rest \cup {b}) =
           IF b \in Rest THEN Cardinality(Rest) ELSE Cardinality(Rest) + 1
    BY <1>2, FS_AddElement
  <2> QED BY <1>1, <1>2, <2>1
<1>4. IsFiniteSet(Tokens(j)') /\ Cardinality(Tokens(j)') <= Cardinality(Rest \cup {b})
  BY <1>3, FS_Subset
<1>5. Cardinality(Rest \cup {b}) \in Nat /\ Cardinality(Tokens(j)') \in Nat
  BY <1>3, <1>4, FS_CardinalityType
<1>6. faults \in Nat /\ faults' \in Nat BY DEF TypeOK
<1> QED BY <1>1, <1>3, <1>4, <1>5, <1>6 DEF Bounded, Sql

LEMMA TokenAdded ==
  ASSUME NEW j, Bounded(j), TypeOK, TypeOK', mode' = mode, ~Sql, faults' = faults + 1,
         NEW b, Tokens(j)' \subseteq Tokens(j) \cup {b}
  PROVE  Bounded(j)'
<1>1. Cardinality(Tokens(j)) \in Nat BY FS_CardinalityType DEF Bounded
<1>2. /\ IsFiniteSet(Tokens(j) \cup {b})
      /\ Cardinality(Tokens(j) \cup {b}) <= Cardinality(Tokens(j)) + 1
  <2>1. IsFiniteSet(Tokens(j)) BY DEF Bounded
  <2>2. /\ IsFiniteSet(Tokens(j) \cup {b})
        /\ Cardinality(Tokens(j) \cup {b}) =
             IF b \in Tokens(j) THEN Cardinality(Tokens(j)) ELSE Cardinality(Tokens(j)) + 1
    BY <2>1, FS_AddElement
  <2> QED BY <1>1, <2>2
<1>3. IsFiniteSet(Tokens(j)') /\ Cardinality(Tokens(j)') <= Cardinality(Tokens(j) \cup {b})
  BY <1>2, FS_Subset
<1>4. Cardinality(Tokens(j) \cup {b}) \in Nat /\ Cardinality(Tokens(j)') \in Nat
  BY <1>2, <1>3, FS_CardinalityType
<1>5. faults \in Nat BY DEF TypeOK
<1> QED BY <1>1, <1>2, <1>3, <1>4, <1>5 DEF Bounded, Sql

\* The payload that enqueue_job pushes is the first token of its job, or with
\* its chance to fail twice the first two.
LEMMA TokensPushed ==
  ASSUME NEW j, TypeOK, TypeOK', mode' = mode, NEW a, NEW b,
         Tokens(j)' \subseteq IF Sql THEN {a, b} ELSE {a}
  PROVE  Bounded(j)'
<1>1. /\ IsFiniteSet({a}) /\ Cardinality({a}) = 1
      /\ IsFiniteSet({a} \cup {b}) /\ Cardinality({a} \cup {b}) <= 2
  <2>1. IsFiniteSet({a}) /\ Cardinality({a}) = 1 BY FS_Singleton
  <2>2. /\ IsFiniteSet({a} \cup {b})
        /\ Cardinality({a} \cup {b}) =
             IF b \in {a} THEN Cardinality({a}) ELSE Cardinality({a}) + 1
    BY <2>1, FS_AddElement
  <2> QED BY <2>1, <2>2
<1>2. {a} \cup {b} = {a, b} OBVIOUS
<1>3. \A S : IsFiniteSet(S) /\ Tokens(j)' \subseteq S =>
         /\ IsFiniteSet(Tokens(j)') /\ Cardinality(Tokens(j)') <= Cardinality(S)
         /\ Cardinality(Tokens(j)') \in Nat /\ Cardinality(S) \in Nat
  BY FS_Subset, FS_CardinalityType
<1>4. faults' \in Nat BY DEF TypeOK
<1>5. CASE Sql
  <2>1. IsFiniteSet({a, b}) /\ Cardinality({a, b}) <= 2 BY <1>1, <1>2
  <2>2. /\ IsFiniteSet(Tokens(j)') /\ Cardinality(Tokens(j)') <= Cardinality({a, b})
        /\ Cardinality(Tokens(j)') \in Nat /\ Cardinality({a, b}) \in Nat
    BY <1>3, <1>5, <2>1
  <2> QED BY <1>5, <2>1, <2>2 DEF Bounded, Sql
<1>6. CASE ~Sql
  <2>1. /\ IsFiniteSet(Tokens(j)') /\ Cardinality(Tokens(j)') <= Cardinality({a})
        /\ Cardinality(Tokens(j)') \in Nat
    BY <1>1, <1>3, <1>6
  <2> QED BY <1>1, <1>4, <1>6, <2>1 DEF Bounded, Sql
<1> QED BY <1>5, <1>6

\* Taking the head of the queue moves every token, and no two to one place.
LEMMA TokensDequeued ==
  ASSUME NEW j, Bounded(j), TypeOK, TypeOK', NEW w \in Workers, Dequeue(w)
  PROVE  Bounded(j)'
<1>1. /\ mode' = mode /\ faults' = faults /\ handling' = handling
      /\ pc[w] = "poll" /\ pc' = [pc EXCEPT ![w] = "mark"]
      /\ held' = [held EXCEPT ![w] = Head(queue)]
      /\ queue' = Tail(queue)
  BY DEF Dequeue, Step, storeVars
<1>2. /\ Head(queue) = queue[1] /\ 1 \in DOMAIN queue
      /\ \A i \in DOMAIN queue' : i + 1 \in DOMAIN queue /\ queue'[i] = queue[i + 1]
      /\ DOMAIN queue' \subseteq Nat \ {0}
  <2>1. queue \in Seq(Payload) /\ queue # <<>> BY DEF TypeOK, Dequeue
  <2> QED BY <1>1, <2>1, TailEntries
<1>3. /\ pc'[w] = "mark" /\ held'[w] = queue[1]
      /\ \A v \in Workers : v # w => pc'[v] = pc[v] /\ held'[v] = held[v]
  BY <1>1, <1>2 DEF TypeOK
<1>4. Sql' <=> Sql BY <1>1 DEF Sql
<1> DEFINE From(t) == IF t = <<"taken", w>> THEN <<"queued", 1>>
                      ELSE IF t = <<"trying", w>> THEN <<"first", 1>>
                      ELSE IF t[1] = "queued" THEN <<"queued", t[2] + 1>>
                      ELSE IF t[1] = "first" THEN <<"first", t[2] + 1>>
                      ELSE t
           f == [t \in Tokens(j)' |-> From(t)]
<1>5. ASSUME NEW t \in Tokens(j)'
      PROVE  /\ From(t) \in Tokens(j)
             /\ \/ \E i \in DOMAIN queue' :
                     \/ t = <<"queued", i>> /\ From(t) = <<"queued", i + 1>>
                     \/ t = <<"first", i>> /\ From(t) = <<"first", i + 1>>
                \/ t = <<"taken", w>> /\ From(t) = <<"queued", 1>>
                \/ t = <<"trying", w>> /\ From(t) = <<"first", 1>>
                \/ \E v \in Workers : /\ t = <<"taken", v>> \/ t = <<"trying", v>>
                                      /\ From(t) = t
  <2>1. ASSUME NEW i \in DOMAIN queue', t = <<"queued", i>>
        PROVE  From(t) = <<"queued", i + 1>> /\ From(t) \in Tokens(j)
    <3>1. queue'[i].job = j BY <2>1, IsToken DEF TokensOf
    <3>2. From(t) = <<"queued", i + 1>> BY <2>1
    <3> QED BY <1>2, <2>1, <3>1, <3>2, IsToken DEF TokensOf
  <2>2. ASSUME NEW i \in DOMAIN queue', t = <<"first", i>>
        PROVE  From(t) = <<"first", i + 1>> /\ From(t) \in Tokens(j)
    <3>1. Sql /\ queue'[i].job = j /\ queue'[i].user BY <1>4, <2>2, IsToken DEF TokensOf
    <3>2. From(t) = <<"first", i + 1>> BY <2>2
    <3> QED BY <1>2, <2>2, <3>1, <3>2, IsToken DEF TokensOf
  <2>3. CASE t = <<"taken", w>>
    <3>1. Owns(w, j)' BY <2>3, IsToken DEF TokensOf
    <3>2. queue[1].job = j BY <1>3, <3>1 DEF Owns
    <3>3. From(t) = <<"queued", 1>> BY <2>3
    <3> QED BY <1>2, <2>3, <3>2, <3>3, IsToken DEF TokensOf
  <2>4. CASE t = <<"trying", w>>
    <3>1. Sql /\ Trying(w, j)' BY <1>4, <2>4, IsToken DEF TokensOf
    <3>2. queue[1].job = j /\ queue[1].user BY <1>3, <3>1 DEF Trying
    <3>3. From(t) = <<"first", 1>> BY <2>4
    <3> QED BY <1>2, <2>4, <3>1, <3>2, <3>3, IsToken DEF TokensOf
  <2>5. ASSUME NEW v \in Workers, v # w, t = <<"taken", v>>
        PROVE  From(t) = t /\ From(t) \in Tokens(j)
    <3>1. Owns(v, j)' BY <2>5, IsToken DEF TokensOf
    <3>2. Owns(v, j) BY <1>3, <2>5, <3>1 DEF Owns
    <3>3. From(t) = t BY <2>5
    <3> QED BY <2>5, <3>2, <3>3, IsToken DEF TokensOf
  <2>6. ASSUME NEW v \in Workers, v # w, t = <<"trying", v>>
        PROVE  From(t) = t /\ From(t) \in Tokens(j)
    <3>1. Sql /\ Trying(v, j)' BY <1>4, <2>6, IsToken DEF TokensOf
    <3>2. Trying(v, j) BY <1>1, <1>3, <2>6, <3>1 DEF Trying
    <3>3. From(t) = t BY <2>6
    <3> QED BY <2>6, <3>1, <3>2, <3>3, IsToken DEF TokensOf
  <2> HIDE DEF From
  <2>7. \/ \E i \in DOMAIN queue' : t = <<"queued", i>> \/ t = <<"first", i>>
        \/ \E v \in Workers : t = <<"taken", v>> \/ t = <<"trying", v>>
    BY IsToken DEF TokensOf
  <2> QED BY <2>1, <2>2, <2>3, <2>4, <2>5, <2>6, <2>7
<1>6. f \in Injection(Tokens(j)', Tokens(j))
  <2> HIDE DEF From
  <2>1. f \in [Tokens(j)' -> Tokens(j)] BY <1>5
  <2>2. ASSUME NEW s \in Tokens(j)', NEW t \in Tokens(j)', From(s) = From(t) PROVE s = t
    <3>1. \A i \in DOMAIN queue' : i \in Nat \ {0} BY <1>2
    <3>2. ASSUME NEW i \in DOMAIN queue', s = <<"queued", i>>, From(s) = <<"queued", i + 1>>
          PROVE  s = t
      <4>1. i + 1 # 1 BY <3>1
      <4>2. PICK k \in DOMAIN queue' : t = <<"queued", k>> /\ i + 1 = k + 1
        BY <1>5, <2>2, <3>2, <4>1
      <4> QED BY <3>1, <3>2, <4>2
    <3>3. ASSUME NEW i \in DOMAIN queue', s = <<"first", i>>, From(s) = <<"first", i + 1>>
          PROVE  s = t
      <4>1. i + 1 # 1 BY <3>1
      <4>2. PICK k \in DOMAIN queue' : t = <<"first", k>> /\ i + 1 = k + 1
        BY <1>5, <2>2, <3>3, <4>1
      <4> QED BY <3>1, <3>3, <4>2
    <3>4. CASE \/ s = <<"taken", w>> /\ From(s) = <<"queued", 1>>
               \/ s = <<"trying", w>> /\ From(s) = <<"first", 1>>
      <4>1. \A k \in DOMAIN queue' : k + 1 # 1 BY <3>1
      <4> QED BY <1>5, <2>2, <3>4, <4>1
    <3>5. ASSUME NEW v \in Workers, s = <<"taken", v>> \/ s = <<"trying", v>>, From(s) = s
          PROVE  s = t
      <4>1. From(t) = <<"taken", v>> \/ From(t) = <<"trying", v>> BY <2>2, <3>5
      <4>2. \E u \in Workers : (t = <<"taken", u>> \/ t = <<"trying", u>>) /\ From(t) = t
        BY <1>5, <4>1
      <4> QED BY <2>2, <3>5, <4>2
    <3> QED BY <1>5, <3>2, <3>3, <3>4, <3>5
  <2> QED BY <2>1, <2>2 DEF Injection, IsInjective
<1>7. IsFiniteSet(Tokens(j)') /\ Cardinality(Tokens(j)') <= Cardinality(Tokens(j))
  BY <1>6, FS_Injection DEF Bounded
<1>8. Cardinality(Tokens(j)) \in Nat /\ Cardinality(Tokens(j)') \in Nat
  BY <1>7, FS_CardinalityType DEF Bounded
<1>9. faults \in Nat BY DEF TypeOK
<1> QED BY <1>1, <1>7, <1>8, <1>9 DEF Bounded, Sql

\* A step that adds no payload, and no owner or chance, keeps the bounds.
LEMMA TokensQuiet ==
  ASSUME TypeOK, TypeOK', TokensInv, UNCHANGED <<mode, caller, queue>>, faults' >= faults,
         \A v \in Workers : pc'[v] # "poll" =>
            /\ pc[v] # "poll" /\ held'[v] = held[v]
            /\ handling[v] => handling'[v]
            /\ pc[v] = "sync" => pc'[v] = "sync"
  PROVE  CopiesEnqueued' /\ \A j \in Jobs : Bounded(j)'
<1>1. CopiesEnqueued' BY DEF TokensInv, CopiesEnqueued, Enqueued
<1>2. ASSUME NEW j \in Jobs PROVE Tokens(j)' \subseteq Tokens(j)
  <2>1. \A v \in Workers : (Owns(v, j)' => Owns(v, j)) /\ (Trying(v, j)' => Trying(v, j))
    BY DEF Owns, Trying, TypeOK
  <2>2. Copies(j)' \subseteq Copies(j) BY <2>1 DEF Copies
  <2>3. Chances(j)' \subseteq Chances(j) BY <2>1 DEF Chances
  <2> QED BY <2>2, <2>3 DEF Tokens, Sql
<1> QED BY <1>1, <1>2, TokensKept DEF TokensInv

\* PushRetry: the worker hands its copy over to the queue.
LEMMA TokensRetried ==
  ASSUME TypeOK, TypeOK', TokensInv, NEW w \in Workers, PushRetry(w)
  PROVE  CopiesEnqueued' /\ \A j \in Jobs : Bounded(j)'
<1> USE DEF storeVars, callVars
<1>1. /\ UNCHANGED <<mode, caller, faults, handling, held>>
      /\ pc[w] = "push" /\ pc' = [pc EXCEPT ![w] = "sync"]
  BY DEF PushRetry, Step
<1>2. pc'[w] = "sync" /\ \A v \in Workers : v # w => pc'[v] = pc[v]
  BY <1>1 DEF TypeOK
<1>3. held[w] \in Payload /\ Job(w) \in Jobs /\ Job(w) = held[w].job
  BY <1>1 DEF TypeOK, Payload, Job
<1>4. PICK p \in Payload : p.job = Job(w) /\ ~p.user /\ queue' = Append(queue, p)
  BY <1>3 DEF PushRetry, Payload
<1>5. PICK n : /\ DOMAIN queue' = DOMAIN queue \cup {n}
               /\ \A i \in DOMAIN queue : queue'[i] = queue[i]
               /\ queue'[n] = p
  <2>1. queue \in Seq(Payload) BY DEF TypeOK
  <2> QED BY <1>4, <2>1, AppendEntries
<1>6. CopiesEnqueued'
  BY <1>1, <1>2, <1>3, <1>4, <1>5 DEF TokensInv, CopiesEnqueued, Enqueued
<1>7. ASSUME NEW j \in Jobs PROVE Bounded(j)'
  <2>1. \A v \in Workers : /\ Owns(v, j)' <=> Owns(v, j) /\ v # w
                           /\ Trying(v, j)' <=> Trying(v, j)
    BY <1>1, <1>2 DEF Owns, Trying
  <2>2. \A i \in DOMAIN queue' : i = n \/ (i \in DOMAIN queue /\ queue'[i] = queue[i])
    BY <1>5
  <2>3. (Sql' <=> Sql) /\ faults' >= faults
    <3>1. faults \in Nat BY DEF TypeOK
    <3> QED BY <1>1, <3>1 DEF Sql
  <2>4. CASE j # Job(w)
    <3>1. Copies(j)' \subseteq Copies(j) BY <1>4, <1>5, <2>1, <2>2, <2>4 DEF Copies
    <3>2. Chances(j)' \subseteq Chances(j) BY <1>4, <1>5, <2>1, <2>2, <2>4 DEF Chances
    <3>3. Tokens(j)' \subseteq Tokens(j) BY <2>3, <3>1, <3>2 DEF Tokens
    <3> QED BY <1>1, <2>3, <3>3, TokensKept DEF TokensInv
  <2>5. CASE j = Job(w)
    <3>1. Owns(w, j) BY <1>1, <1>3, <2>5 DEF Owns
    <3>2. <<"taken", w>> \in Tokens(j) BY <3>1, IsToken DEF TokensOf
    <3>3. <<"taken", w>> \notin Tokens(j)' BY <2>1, IsToken DEF TokensOf
    <3>4. Copies(j)' \subseteq Copies(j) \cup {<<"queued", n>>}
      BY <2>1, <2>2 DEF Copies
    <3>5. Chances(j)' \subseteq Chances(j) BY <1>4, <1>5, <2>1, <2>2 DEF Chances
    <3>6. Tokens(j)' \subseteq (Tokens(j) \ {<<"taken", w>>}) \cup {<<"queued", n>>}
      BY <2>3, <3>3, <3>4, <3>5 DEF Tokens
    <3> QED BY <1>1, <2>3, <3>2, <3>6, TokenSwapped DEF TokensInv
  <2> QED BY <2>4, <2>5
<1> QED BY <1>6, <1>7

\* SyncRaises outside the except branch: the second failure of one attempt.
LEMMA TokensRepeated ==
  ASSUME TypeOK, TypeOK', TokensInv, NEW w \in Workers, SyncRaises(w), ~handling[w]
  PROVE  CopiesEnqueued' /\ \A j \in Jobs : Bounded(j)'
<1> USE DEF callVars
<1>1. /\ UNCHANGED <<mode, caller, queue, held>>
      /\ pc[w] = "sync" /\ pc' = [pc EXCEPT ![w] = "fail"]
      /\ handling' = [handling EXCEPT ![w] = TRUE]
      /\ StatusCall(w, "FAILED", FALSE)
  BY DEF SyncRaises
<1>2. /\ pc'[w] = "fail" /\ handling'[w]
      /\ \A v \in Workers : v # w => pc'[v] = pc[v] /\ handling'[v] = handling[v]
  BY <1>1 DEF TypeOK
<1>3. faults \in Nat /\ faults' >= faults
  <2>1. faults' = faults \/ faults' = faults + 1 BY <1>1 DEF StatusCall
  <2> QED BY <2>1 DEF TypeOK
<1>4. CopiesEnqueued' BY <1>1, <1>2 DEF TokensInv, CopiesEnqueued, Enqueued
<1>5. ASSUME NEW j \in Jobs PROVE Bounded(j)'
  <2>1. \A v \in Workers : v # w => /\ Owns(v, j)' <=> Owns(v, j)
                                    /\ Trying(v, j)' <=> Trying(v, j)
    BY <1>1, <1>2 DEF Owns, Trying
  <2>2. ~Trying(w, j)' BY <1>2 DEF Trying
  <2>3. Copies(j)' \subseteq Copies(j) \cup {<<"taken", w>>}
    BY <1>1, <2>1 DEF Copies
  <2>4. Chances(j)' \subseteq Chances(j) BY <1>1, <2>1, <2>2 DEF Chances
  <2>5. Sql' <=> Sql BY <1>1 DEF Sql
  <2>6. Tokens(j)' \subseteq Tokens(j) \cup {<<"taken", w>>}
    BY <2>3, <2>4, <2>5 DEF Tokens
  <2>7. CASE ~Sql
    <3>1. faults' = faults + 1 BY <1>1, <2>7, JsonRaises
    <3> QED BY <1>1, <2>6, <2>7, <3>1, TokenAdded DEF TokensInv
  <2>8. CASE Sql /\ held[w].job # j
    <3>1. ~Owns(w, j)' BY <1>1, <2>8 DEF Owns
    <3>2. <<"taken", w>> \notin Tokens(j)' BY <3>1, IsToken DEF TokensOf
    <3>3. Tokens(j)' \subseteq Tokens(j) BY <2>6, <3>2
    <3> QED BY <1>1, <1>3, <3>3, TokensKept DEF TokensInv
  <2>9. CASE Sql /\ held[w].job = j
    <3>1. held[w].user BY <1>1, <2>9 DEF TokensInv, FirstEnters, Entered
    <3>2. Trying(w, j) BY <1>1, <2>9, <3>1 DEF Trying
    <3>3. <<"trying", w>> \in Tokens(j) BY <2>9, <3>2, IsToken DEF TokensOf
    <3>4. <<"trying", w>> \notin Tokens(j)' BY <2>2, IsToken DEF TokensOf
    <3>5. Tokens(j)' \subseteq (Tokens(j) \ {<<"trying", w>>}) \cup {<<"taken", w>>}
      BY <2>6, <3>4
    <3> QED BY <1>1, <1>3, <3>3, <3>5, TokenSwapped DEF TokensInv
  <2> QED BY <2>7, <2>8, <2>9
<1> QED BY <1>4, <1>5

LEMMA WorkerTokens ==
  ASSUME TypeOK, TypeOK', TokensInv, [Next]_vars, NEW w \in Workers,
         WorkerStep(w) \/ PollTimeout(w) \/ WorkerCrash(w)
  PROVE  TokensInv'
<1> USE DEF callVars, storeVars, Step
<1>1. FirstEnters'
  <2>1. CASE Sql'
    <3>1. mode' = mode
      BY DEF WorkerStep, PollTimeout, WorkerCrash, Dequeue, ReadRecord, MarkRunning,
         OpenSession, OpenSessionRaises, ResolveFails, PlanningStarts, NodeStarts, RunFails,
         RunCompletes, Check, CheckRaises, MarkSuccess, MarkRetry, PushRetry, MarkFailed,
         PushDeadLetter, SyncSession, SyncRaises, vars
    <3>2. \A v \in Workers : Entered(v) => held[v].user
      BY <2>1, <3>1 DEF TokensInv, FirstEnters, Sql
    <3>3. CASE OpenSession(w)
      <4>1. Visible(w) BY <3>3 DEF OpenSession, StatusCall
      <4>2. held[w].user BY <2>1, <3>1, <4>1 DEF Visible, Sql
      <4>3. held' = held /\ \A v \in Workers : v # w => pc'[v] = pc[v]
        BY <3>3 DEF OpenSession, TypeOK
      <4> QED BY <3>2, <4>2, <4>3 DEF FirstEnters, Entered
    <3>4. CASE ~OpenSession(w)
      <4>1. \A v \in Workers : v # w => pc'[v] = pc[v] /\ held'[v] = held[v]
        BY <3>4 DEF WorkerStep, PollTimeout, WorkerCrash, Dequeue, ReadRecord, MarkRunning,
           OpenSessionRaises, ResolveFails, PlanningStarts, NodeStarts, RunFails,
           RunCompletes, Check, CheckRaises, MarkSuccess, MarkRetry, PushRetry, MarkFailed,
           PushDeadLetter, SyncSession, SyncRaises, Release, TypeOK, vars
      <4>2. Entered(w)' => Entered(w) /\ held'[w] = held[w]
        BY <3>4 DEF Entered, WorkerStep, PollTimeout, WorkerCrash, Dequeue, ReadRecord,
           MarkRunning, OpenSessionRaises, ResolveFails, PlanningStarts, NodeStarts,
           RunFails, RunCompletes, Check, CheckRaises, MarkSuccess, MarkRetry, PushRetry,
           MarkFailed, PushDeadLetter, SyncSession, SyncRaises, Release, TypeOK, vars
      <4> QED BY <3>2, <4>1, <4>2 DEF FirstEnters, Entered
    <3> QED BY <3>3, <3>4
  <2> QED BY <2>1 DEF FirstEnters
<1>2. CopiesEnqueued' /\ \A j \in Jobs : Bounded(j)'
  <2>1. faults' >= faults BY FaultsStay DEF TypeOK
  <2>2. CASE Dequeue(w)
    <3>1. queue \in Seq(Payload) /\ queue # <<>> BY <2>2 DEF TypeOK, Dequeue
    <3>2. /\ Head(queue) = queue[1] /\ 1 \in DOMAIN queue
          /\ \A i \in DOMAIN queue' : i + 1 \in DOMAIN queue /\ queue'[i] = queue[i + 1]
      BY <2>2, <3>1, TailEntries DEF Dequeue
    <3>3. CopiesEnqueued'
      BY <2>2, <3>2 DEF Dequeue, TokensInv, CopiesEnqueued, Enqueued, TypeOK
    <3> QED BY <2>2, <3>3, TokensDequeued DEF TokensInv
  <2>3. CASE PushRetry(w) BY <2>3, TokensRetried
  <2>4. CASE SyncRaises(w) /\ ~handling[w] BY <2>4, TokensRepeated
  <2>5. CASE \/ PollTimeout(w) \/ WorkerCrash(w) \/ OpenSessionRaises(w) \/ MarkSuccess(w)
             \/ SyncSession(w) \/ (SyncRaises(w) /\ handling[w])
    <3>1. /\ UNCHANGED <<mode, caller, queue>>
          /\ \A v \in Workers : pc'[v] # "poll" =>
               pc[v] # "poll" /\ held'[v] = held[v] /\ handling'[v] = handling[v]
               /\ pc'[v] = pc[v]
      BY <2>5 DEF PollTimeout, WorkerCrash, OpenSessionRaises, MarkSuccess, SyncSession,
         SyncRaises, Release, TypeOK, vars
    <3> QED BY <2>1, <3>1, TokensQuiet
  <2>6. CASE \/ ReadRecord(w, "mark", "markWrite") \/ MarkRunning(w)
             \/ OpenSession(w) \/ ResolveFails(w) \/ PlanningStarts(w) \/ NodeStarts(w)
             \/ RunFails(w) \/ RunCompletes(w) \/ Check(w) \/ CheckRaises(w)
             \/ ReadRecord(w, "succeed", "succeedWrite")
             \/ ReadRecord(w, "fail", "failWrite")
             \/ MarkRetry(w) \/ MarkFailed(w) \/ PushDeadLetter(w)
    <3>1. /\ UNCHANGED <<mode, caller, queue, held>>
          /\ pc[w] \notin {"poll", "sync"}
          /\ \A v \in Workers : v # w => pc'[v] = pc[v] /\ handling'[v] = handling[v]
          /\ handling[w] => handling'[w]
      BY <2>6 DEF ReadRecord, MarkRunning, OpenSession, ResolveFails, PlanningStarts,
         NodeStarts, RunFails, RunCompletes, Check, CheckRaises, MarkRetry, MarkFailed,
         PushDeadLetter, TypeOK
    <3> QED BY <2>1, <3>1, TokensQuiet
  <2> QED BY <2>2, <2>3, <2>4, <2>5, <2>6 DEF WorkerStep
<1> QED BY <1>1, <1>2 DEF TokensInv

LEMMA CallerTokens ==
  ASSUME TypeOK, TypeOK', TokensInv, NEW j \in Jobs, CallerStep(j) \/ CallerCrash(j)
  PROVE  TokensInv'
<1> USE DEF workerVars, storeVars, Goto
<1>1. /\ UNCHANGED <<mode, pc, held, handling, faults>>
      /\ \A i \in Jobs : Enqueued(i) => Enqueued(i)'
  BY DEF CallerStep, CallerCrash, FindNothing, RefuseDuplicate, Register, Push, Enqueued,
     TypeOK
<1>2. FirstEnters' BY <1>1 DEF TokensInv, FirstEnters, Entered, Sql
<1>3. faults' >= faults BY <1>1 DEF TypeOK
<1>4. \A i \in DOMAIN queue : queue[i].job \in Jobs
  <2>1. queue \in Seq(Payload) BY DEF TypeOK
  <2>2. \A i \in DOMAIN queue : queue[i] \in Payload BY <2>1, EntryType
  <2> QED BY <2>2 DEF Payload
<1>5. \A v \in Workers : pc[v] # "poll" => held[v].job \in Jobs BY DEF TypeOK, Payload
<1>6. CASE FindNothing(j) \/ RefuseDuplicate(j) \/ Register(j) \/ CallerCrash(j)
  <2>1. queue' = queue
    BY <1>6 DEF FindNothing, RefuseDuplicate, Register, CallerCrash
  <2>2. CopiesEnqueued' BY <1>1, <1>4, <1>5, <2>1 DEF TokensInv, CopiesEnqueued
  <2>3. \A i \in Jobs : Tokens(i)' = Tokens(i)
    BY <1>1, <2>1 DEF Tokens, Copies, Chances, Owns, Trying, Sql
  <2> QED BY <1>1, <1>2, <1>3, <2>2, <2>3, TokensKept DEF TokensInv
<1>7. CASE Push(j)
  <2>1. PICK p \in Payload : p.job = j /\ p.user /\ queue' = Append(queue, p)
    BY <1>7 DEF Push, Payload
  <2>2. PICK n : /\ DOMAIN queue' = DOMAIN queue \cup {n}
                 /\ \A i \in DOMAIN queue : queue'[i] = queue[i]
                 /\ queue'[n] = p
    <3>1. queue \in Seq(Payload) BY DEF TypeOK
    <3> QED BY <2>1, <3>1, AppendEntries
  <2>3. ~Enqueued(j) /\ Enqueued(j)' BY <1>7 DEF Push, Enqueued, TypeOK
  <2>4. CopiesEnqueued'
    BY <1>1, <1>4, <1>5, <2>1, <2>2, <2>3 DEF TokensInv, CopiesEnqueued
  <2>5. \A i \in DOMAIN queue' : i = n \/ (i \in DOMAIN queue /\ queue'[i] = queue[i])
    BY <2>2
  <2>6. ASSUME NEW i \in Jobs PROVE Bounded(i)'
    <3>1. \A v \in Workers : (Owns(v, i)' <=> Owns(v, i)) /\ (Trying(v, i)' <=> Trying(v, i))
      BY <1>1 DEF Owns, Trying
    <3>2. CASE i # j
      <4>1. Copies(i)' \subseteq Copies(i) BY <2>1, <2>2, <2>5, <3>1, <3>2 DEF Copies
      <4>2. Chances(i)' \subseteq Chances(i) BY <2>1, <2>2, <2>5, <3>1, <3>2 DEF Chances
      <4>3. Tokens(i)' \subseteq Tokens(i) BY <1>1, <4>1, <4>2 DEF Tokens, Sql
      <4> QED BY <1>1, <1>3, <4>3, TokensKept DEF TokensInv
    <3>3. CASE i = j
      <4>1. /\ \A k \in DOMAIN queue : queue[k].job # j
            /\ \A v \in Workers : ~Owns(v, j) /\ ~Trying(v, j)
        BY <2>3 DEF TokensInv, CopiesEnqueued, Owns, Trying
      <4>2. Copies(j)' \subseteq {<<"queued", n>>}
        BY <2>2, <2>5, <3>1, <3>3, <4>1 DEF Copies
      <4>3. Chances(j)' \subseteq {<<"first", n>>}
        BY <2>2, <2>5, <3>1, <3>3, <4>1 DEF Chances
      <4>4. Tokens(j)' \subseteq IF Sql THEN {<<"queued", n>>, <<"first", n>>}
                                        ELSE {<<"queued", n>>}
        BY <1>1, <4>2, <4>3 DEF Tokens, Sql
      <4> QED BY <1>1, <3>3, <4>4, TokensPushed
    <3> QED BY <3>2, <3>3
  <2> QED BY <1>2, <2>4, <2>6 DEF TokensInv
<1> QED BY <1>6, <1>7 DEF CallerStep

\* Each storage error makes at most one live copy more, and with SQL there
\* are never more than two.
CopiesBounded ==
  \A j \in Jobs :
    /\ Cardinality(Copies(j)) <= 1 + faults
    /\ Sql => Cardinality(Copies(j)) <= 2

\* However many workers race, crash and restart, and however often storage
\* fails: handle_job_failure duplicates a job at most once for each error, and
\* in the SQL deployment at most once.
THEOREM CopiesAreBounded == Spec => []CopiesBounded
<1>1. Init => TokensInv
  <2> SUFFICES ASSUME Init PROVE TokensInv OBVIOUS
  <2>1. \A j : Tokens(j) = {} BY DEF Init, Tokens, Copies, Chances, Owns, Trying
  <2>2. \A j : IsFiniteSet(Tokens(j)) /\ Cardinality(Tokens(j)) = 0 BY <2>1, FS_EmptySet
  <2>3. \A j : Bounded(j) BY <2>2 DEF Init, Bounded
  <2> QED BY <2>3 DEF Init, TokensInv, CopiesEnqueued, FirstEnters, Entered
<1>2. TypeOK /\ TypeOK' /\ TokensInv /\ [Next]_vars => TokensInv'
  <2> SUFFICES ASSUME TypeOK, TypeOK', TokensInv, [Next]_vars PROVE TokensInv' OBVIOUS
  <2>1. CASE UNCHANGED vars
    BY <2>1 DEF vars, TokensInv, CopiesEnqueued, Enqueued, FirstEnters, Entered, Bounded,
       Tokens, Copies, Chances, Owns, Trying, Sql
  <2> QED BY <2>1, CallerTokens, WorkerTokens DEF Next
<1>3. TypeOK /\ Clean /\ TokensInv => CopiesBounded
  <2> SUFFICES ASSUME TypeOK, Clean, TokensInv, NEW j \in Jobs
               PROVE  /\ Cardinality(Copies(j)) <= 1 + faults
                      /\ Sql => Cardinality(Copies(j)) <= 2
    BY DEF CopiesBounded
  <2>1. IsFiniteSet(Copies(j)) /\ Cardinality(Copies(j)) <= Cardinality(Tokens(j))
    <3>1. Copies(j) \subseteq Tokens(j) BY DEF Tokens
    <3> QED BY <3>1, FS_Subset DEF TokensInv, Bounded
  <2>2. Cardinality(Copies(j)) \in Nat /\ Cardinality(Tokens(j)) \in Nat
    BY <2>1, FS_CardinalityType DEF TokensInv, Bounded
  <2>3. faults \in Nat BY DEF TypeOK
  <2>4. CASE ~Sql BY <2>1, <2>2, <2>3, <2>4 DEF TokensInv, Bounded
  <2>5. CASE Sql
    <3>1. Cardinality(Copies(j)) <= 2 BY <2>1, <2>2, <2>5 DEF TokensInv, Bounded
    <3>2. CASE faults # 0 BY <2>2, <2>3, <2>5, <3>1, <3>2
    <3>3. CASE faults = 0
      <4>1. \A s, t \in Copies(j) : s = t
        BY <3>3 DEF Clean, CopyInv, SingleCopy, Copies
      <4>2. Copies(j) = {} \/ \E t : Copies(j) = {t} BY <4>1
      <4>3. Cardinality(Copies(j)) <= 1 BY <2>1, <2>2, <4>2, FS_EmptySet, FS_Singleton
      <4> QED BY <2>2, <2>5, <3>1, <3>3, <4>3
    <3> QED BY <3>2, <3>3
  <2> QED BY <2>4, <2>5
<1> QED BY <1>1, <1>2, <1>3, TypeCorrect, Inductive, PTL DEF Spec
=============================================================================
