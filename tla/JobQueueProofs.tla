--------------------------- MODULE JobQueueProofs ---------------------------
(***************************************************************************)
(* Proofs about JobQueue for every number of tasks, every retry budget,    *)
(* every capacity, every set of faults and every number of restarts.       *)
(***************************************************************************)
EXTENDS JobQueue, SequenceTheorems, TLAPS

USE NumJobsAssumption, MaxRetriesAssumption, CapacityAssumption,
    FaultsAssumption, MaxRestartsAssumption

-----------------------------------------------------------------------------
(* Type correctness.                                                       *)

\* A copy sent to the channel keeps it a bounded sequence of copies.
LEMMA TrySendType ==
  ASSUME TypeOK, NEW c \in Copy, TrySend(c)
  PROVE  queue' \in Seq(Copy) /\ Len(queue') <= Capacity
<1>1. queue \in Seq(Copy) /\ Len(queue) \in Nat /\ Capacity \in Nat
  BY LenProperties DEF TypeOK
<1>2. CASE HasSpace
  <2>1. queue' = Append(queue, c)
    BY <1>2 DEF TrySend
  <2>2. queue' \in Seq(Copy) /\ Len(queue') = Len(queue) + 1
    BY <1>1, <2>1, AppendProperties
  <2> QED BY <1>1, <1>2, <2>2 DEF HasSpace
<1>3. CASE ~HasSpace
  BY <1>3 DEF TrySend, TypeOK
<1> QED BY <1>2, <1>3

\* Every action keeps every variable in its type.
LEMMA TypeStep == TypeOK /\ [Next]_vars => TypeOK'
<1> SUFFICES ASSUME TypeOK, [Next]_vars PROVE TypeOK'
  OBVIOUS
<1> USE DEF rows, loader, worker, history
<1>1. ASSUME NEW j \in Jobs, CreateJob(j) PROVE TypeOK'
  BY <1>1 DEF CreateJob, TypeOK, Jobs
<1>2. ASSUME NEW j \in Jobs, EnqueuePush(j) PROVE TypeOK'
  <2>1. [id |-> j, retries |-> 0] \in Copy
    BY DEF Copy
  <2>2. queue' \in Seq(Copy) /\ Len(queue') <= Capacity
    BY <1>2, <2>1, TrySendType DEF EnqueuePush
  <2> QED BY <1>2, <2>2 DEF EnqueuePush, TypeOK
<1>3. ASSUME NEW j \in Jobs, BackoffElapses(j) PROVE TypeOK'
  BY <1>3 DEF BackoffElapses, TypeOK
<1>4. CASE LoadTick
  BY <1>4 DEF LoadTick, HasSpace, TypeOK
<1>5. CASE LoadQuery
  <2>1. \A j \in Jobs : Snapshot(j) \in Copy
    BY DEF Snapshot, Copy, TypeOK
  <2>2. Oldest(DueRows, space) \subseteq Jobs
    BY DEF Oldest, DueRows
  <2>3. batch' \subseteq Copy
    BY <1>5, <2>1, <2>2 DEF LoadQuery
  <2> QED BY <1>5, <2>3 DEF LoadQuery, TypeOK
<1>6. CASE LoadPush
  <2>1. PICK c \in batch : TrySend(c) /\ batch' = batch \ {c}
    BY <1>6 DEF LoadPush
  <2>2. queue' \in Seq(Copy) /\ Len(queue') <= Capacity
    BY <2>1, TrySendType DEF TypeOK
  <2> QED BY <1>6, <2>1, <2>2 DEF LoadPush, TypeOK
<1>7. CASE LoaderExit
  BY <1>7 DEF LoaderExit, TypeOK
<1>8. CASE Take
  BY <1>8 DEF Take, TypeOK
<1>9. CASE WorkerExit
  BY <1>9 DEF WorkerExit, TypeOK
<1>10. CASE MarkJobProcessing
  BY <1>10 DEF MarkJobProcessing, SetStatus, Release, TypeOK, Copy
<1>11. CASE RateLimit
  BY <1>11 DEF RateLimit, Release, TypeOK
<1>12. CASE BodySucceeds
  BY <1>12 DEF BodySucceeds, TypeOK, Copy
<1>13. CASE BodyFails
  BY <1>13 DEF BodyFails, CountFailure, Budget, TypeOK, Copy
<1>14. CASE MarkJobCompleted
  BY <1>14 DEF MarkJobCompleted, SetStatus, Release, TypeOK, Copy
<1>15. CASE RetryJob
  <2>1. cur.id \in Jobs
    BY <1>15 DEF RetryJob, TypeOK, Copy
  <2>2. /\ status' \in [Jobs -> {"none", "pending", "processing", "completed", "failed"}]
        /\ retries' \in [Jobs -> Nat]
        /\ due' \in [Jobs -> BOOLEAN]
    <3>1. CASE MarkJobFailed(cur.id)
      BY <2>1, <3>1 DEF MarkJobFailed, SetStatus, TypeOK
    <3>2. CASE IncrementJobRetries(cur.id)
      BY <2>1, <3>2 DEF IncrementJobRetries, SetStatus, TypeOK
    <3>3. CASE UNCHANGED rows
      BY <3>3 DEF TypeOK
    <3> QED BY <1>15, <3>1, <3>2, <3>3 DEF RetryJob
  <2> QED BY <1>15, <2>2 DEF RetryJob, Release, TypeOK
<1>16. CASE StopPool \/ StopQueue \/ CloseQueue
  BY <1>16 DEF StopPool, StopQueue, CloseQueue, SetPhase, TypeOK
<1>17. CASE ProcessEnds
  <2>1. <<>> \in Seq(Copy) /\ Len(<<>>) = 0
    BY EmptySeq
  <2>2. queue' \in Seq(Copy) /\ Len(queue') <= Capacity
    BY <1>17, <2>1 DEF ProcessEnds
  <2> QED BY <1>17, <2>2 DEF ProcessEnds, Release, TypeOK
<1>18. CASE Restart
  BY <1>18 DEF Restart, TypeOK
<1>19. CASE UNCHANGED vars
  BY <1>19 DEF vars, TypeOK
<1> QED
  BY <1>1, <1>2, <1>3, <1>4, <1>5, <1>6, <1>7, <1>8, <1>9, <1>10, <1>11, <1>12, <1>13,
     <1>14, <1>15, <1>16, <1>17, <1>18, <1>19
  DEF Next, LoaderStep, WorkerStep, ProcessStep, Exit, SendOnClosed, Crash

\* Every reachable state is well typed; in particular the channel never holds
\* more copies than its capacity.
THEOREM TypeCorrect == Spec => []TypeOK
<1>1. Init => TypeOK
  BY DEF Init, TypeOK, NoJob, Budget
<1> QED BY <1>1, TypeStep, PTL DEF Spec

-----------------------------------------------------------------------------
(* The inductive invariant.                                                *)

\* The row of a task in the worker's hands is a processing row: there is one
\* worker, and nobody else changes the status of a row that exists.
RowIsProcessing ==
  wpc \in {"waiting", "running", "succeeded", "failed"} => status[cur.id] = "processing"

\* A failed body that RetryJob has not yet booked.
Unbooked(j) == IF wpc = "failed" /\ cur.id = j THEN 1 ELSE 0

\* Every retry of a row was paid for by a failed body.
RetriesArePaid ==
  \A j \in Jobs : failures[j] = Budget(j) \/ failures[j] >= retries[j] + Unbooked(j)

SuccessIsServed == wpc = "succeeded" => cur.id \in served

LoaderHoldsBatch == lpc # "pushing" => batch = {}

\* The safety properties, and what they need to be inductive: the row of the
\* worker's task is processing, retries are paid for by failed bodies, and
\* the loader's batch is empty unless it is pushing.
IInv ==
  /\ TypeOK
  /\ CopiesNotAhead
  /\ RowIsProcessing
  /\ RetriesArePaid
  /\ GivenUpOnlyAfterBudget
  /\ SuccessIsServed
  /\ CompletedWasServed
  /\ LoaderHoldsBatch
  /\ ProcessingIsOwned
  /\ ShutdownOrder

-----------------------------------------------------------------------------
(* Copies of rows.                                                         *)

\* The copies in the channel.
InQueue == {queue[i] : i \in DOMAIN queue}

\* A row's counter never goes down.
LEMMA RetriesGrow ==
  ASSUME TypeOK, [Next]_vars
  PROVE  \A j \in Jobs : retries'[j] >= retries[j]
<1> USE DEF rows, loader, worker, history
<1>1. CASE IncrementJobRetries(cur.id)
  BY <1>1 DEF IncrementJobRetries, TypeOK
<1>2. CASE UNCHANGED retries
  BY <1>2 DEF TypeOK
<1> QED
  BY <1>1, <1>2 DEF Next, vars, LoaderStep, WorkerStep, ProcessStep,
     RetryJob, MarkJobFailed, CreateJob, EnqueuePush, BackoffElapses, LoadTick, LoadQuery, LoadPush, LoaderExit,
     Take, WorkerExit, MarkJobProcessing, RateLimit, BodySucceeds, BodyFails,
     MarkJobCompleted, StopPool, StopQueue, CloseQueue, SetPhase, Exit, SendOnClosed,
     Crash, ProcessEnds, Restart

\* A send adds at most the copy that is sent.
LEMMA TrySendContents ==
  ASSUME TypeOK, NEW c \in Copy, TrySend(c)
  PROVE  InQueue' \subseteq InQueue \cup {c}
<1>1. queue \in Seq(Copy)
  BY DEF TypeOK
<1>2. CASE queue' = Append(queue, c)
  BY <1>1, <1>2, AppendProperties, LenProperties DEF InQueue
<1>3. CASE queue' = queue
  BY <1>3 DEF InQueue
<1> QED BY <1>2, <1>3 DEF TrySend

\* Where the copies in memory come from.
LEMMA CopiesComeFrom ==
  ASSUME TypeOK, [Next]_vars
  PROVE  Copies' \subseteq Copies \cup {Snapshot(j) : j \in Jobs}
                                  \cup {[id |-> j, retries |-> 0] : j \in Jobs}
<1> USE DEF rows, loader, worker, history
<1> DEFINE Held == IF cur = NoJob THEN {} ELSE {cur}
<1>a. Copies = InQueue \cup batch \cup Held
  BY DEF Copies, InQueue
<1>b. Copies' = InQueue' \cup batch' \cup Held'
  BY DEF Copies, InQueue
<1> HIDE DEF Held
<1>1. ASSUME NEW j \in Jobs, EnqueuePush(j)
      PROVE  InQueue' \subseteq InQueue \cup {[id |-> j, retries |-> 0]}
             /\ batch' = batch /\ cur' = cur
  <2>1. [id |-> j, retries |-> 0] \in Copy
    BY DEF Copy
  <2> QED BY <1>1, <2>1, TrySendContents DEF EnqueuePush
<1>2. CASE LoadQuery
  <2>1. batch' \subseteq {Snapshot(j) : j \in Jobs}
    BY <1>2 DEF LoadQuery, Oldest, DueRows
  <2>2. InQueue' = InQueue /\ Held' = Held
    BY <1>2 DEF LoadQuery, InQueue, Held
  <2> QED BY <1>a, <1>b, <2>1, <2>2
<1>3. CASE LoadPush
  <2>1. PICK c \in batch : TrySend(c) /\ batch' = batch \ {c}
    BY <1>3 DEF LoadPush
  <2>2. InQueue' \subseteq InQueue \cup {c}
    BY <2>1, TrySendContents DEF TypeOK
  <2>3. Held' = Held
    BY <1>3 DEF LoadPush, Held
  <2> QED BY <1>a, <1>b, <2>1, <2>2, <2>3
<1>4. CASE Take
  <2>1. queue \in Seq(Copy) /\ queue # <<>>
    BY <1>4 DEF Take, TypeOK
  <2>2. InQueue' \subseteq InQueue
    BY <1>4, <2>1, HeadTailProperties, LenProperties DEF Take, InQueue
  <2>3. Head(queue) \in InQueue
    BY <2>1, HeadTailProperties, LenProperties DEF InQueue
  <2>4. Held' \subseteq InQueue
    BY <1>4, <2>3 DEF Take, Held
  <2> QED BY <1>4, <1>a, <1>b, <2>2, <2>4 DEF Take
<1>5. CASE ProcessEnds
  <2>1. InQueue' = {}
    BY <1>5, EmptySeq, LenProperties DEF ProcessEnds, InQueue
  <2>2. Held' = {} /\ batch' = {}
    BY <1>5 DEF ProcessEnds, Release, Held
  <2> QED BY <1>b, <2>1, <2>2
<1>6. CASE UNCHANGED <<queue, batch>> /\ (cur' = cur \/ cur' = NoJob)
  <2>1. InQueue' = InQueue
    BY <1>6 DEF InQueue
  <2>2. Held' \subseteq Held
    BY <1>6 DEF Held
  <2> QED BY <1>6, <1>a, <1>b, <2>1, <2>2
<1>7. CASE \E j \in Jobs : EnqueuePush(j)
  <2>1. PICK j \in Jobs : EnqueuePush(j)
    BY <1>7
  <2>2. Held' = Held
    BY <1>1, <2>1 DEF Held
  <2> QED BY <1>1, <1>a, <1>b, <2>1, <2>2
<1> QED
  BY <1>2, <1>3, <1>4, <1>5, <1>6, <1>7
  DEF Next, vars, LoaderStep, WorkerStep, ProcessStep, Release,
     CreateJob, BackoffElapses, LoadTick, LoaderExit,
     WorkerExit, MarkJobProcessing, RateLimit, BodySucceeds, BodyFails,
     MarkJobCompleted, RetryJob, StopPool, StopQueue, CloseQueue, SetPhase, Exit,
     SendOnClosed, Crash, Restart

\* Old copies stay behind because counters only grow, and a new copy carries
\* the counter of its row or zero.
LEMMA CopiesNotAheadStep ==
  ASSUME TypeOK, CopiesNotAhead, [Next]_vars
  PROVE  CopiesNotAhead'
<1>1. Copies \subseteq Copy
  BY LenProperties DEF TypeOK, Copies, NoJob
<1>2. SUFFICES ASSUME NEW c \in Copies' PROVE c.retries <= retries'[c.id]
  BY DEF CopiesNotAhead
<1>3. CASE c \in Copies
  <2>1. c.id \in Jobs /\ c.retries \in Nat /\ c.retries <= retries[c.id]
    BY <1>1, <1>3 DEF CopiesNotAhead, Copy
  <2>2. retries'[c.id] >= retries[c.id] /\ retries[c.id] \in Nat /\ retries'[c.id] \in Nat
    BY <2>1, RetriesGrow, TypeStep DEF TypeOK
  <2> QED BY <2>1, <2>2
<1>4. ASSUME NEW j \in Jobs, c = Snapshot(j) \/ c = [id |-> j, retries |-> 0]
      PROVE  c.retries <= retries'[c.id]
  <2>1. c.id = j /\ c.retries \in {0, retries[j]}
    BY <1>4 DEF Snapshot
  <2>2. retries'[j] >= retries[j] /\ retries[j] \in Nat /\ retries'[j] \in Nat
    BY RetriesGrow, TypeStep DEF TypeOK
  <2> QED BY <2>1, <2>2
<1> QED BY <1>3, <1>4, CopiesComeFrom

-----------------------------------------------------------------------------
(* The remaining conjuncts, by the part of the system that disturbs them.  *)

\* What the steps of a task that is in the worker's hands do to its row and
\* to the history.
LEMMA TaskStep ==
  ASSUME IInv,
         \/ MarkJobProcessing \/ RateLimit \/ BodySucceeds \/ BodyFails
         \/ MarkJobCompleted \/ RetryJob
  PROVE  /\ RowIsProcessing' /\ RetriesArePaid' /\ GivenUpOnlyAfterBudget'
         /\ SuccessIsServed' /\ CompletedWasServed' /\ ProcessingIsOwned'
<1> USE DEF rows, loader, worker, history
<1>1. TypeOK /\ TypeOK'
  BY TypeStep DEF IInv, Next, WorkerStep
<1>2. cur \in Copy /\ cur.id \in Jobs /\ cur.retries \in Nat /\ cur # NoJob
  <2>1. wpc \notin {"idle", "exited"}
    BY DEF MarkJobProcessing, RateLimit, BodySucceeds, BodyFails, MarkJobCompleted, RetryJob
  <2>2. cur \in Copy
    BY <1>1, <2>1 DEF TypeOK
  <2>3. cur.id # 0
    BY <2>2 DEF Copy, Jobs
  <2> QED BY <2>2, <2>3 DEF Copy, NoJob
<1>3. cur.retries <= retries[cur.id]
  BY <1>2 DEF IInv, CopiesNotAhead, Copies
<1> USE DEF RowIsProcessing, RetriesArePaid, GivenUpOnlyAfterBudget, SuccessIsServed,
            CompletedWasServed, ProcessingIsOwned, Unbooked, SetStatus, Release
<1>4. CASE MarkJobProcessing
  BY <1>1, <1>2, <1>4 DEF IInv, MarkJobProcessing, TypeOK
<1>5. CASE RateLimit
  BY <1>1, <1>2, <1>5 DEF IInv, RateLimit, TypeOK
<1>6. CASE BodySucceeds
  BY <1>1, <1>2, <1>6 DEF IInv, BodySucceeds, TypeOK
<1>7. CASE BodyFails
  BY <1>1, <1>2, <1>7 DEF IInv, BodyFails, CountFailure, TypeOK, Budget
<1>8. CASE MarkJobCompleted
  BY <1>1, <1>2, <1>8 DEF IInv, MarkJobCompleted, TypeOK
<1>9. CASE RetryJob
  <2>1. /\ wpc = "failed" /\ wpc' = "idle" /\ cur' = NoJob
        /\ UNCHANGED <<served, failures, phase, restarts>>
    BY <1>9 DEF RetryJob
  <2>2. CASE RetriesExhausted(cur) /\ MarkJobFailed(cur.id)
    <3>1. retries[cur.id] >= MaxRetries[cur.id] /\ retries[cur.id] \in Nat
      BY <1>1, <1>2, <1>3, <2>2 DEF RetriesExhausted, TypeOK
    <3>2. failures[cur.id] = Budget(cur.id)
      <4>1. Unbooked(cur.id) = 1
        BY <2>1
      <4>2. failures[cur.id] = Budget(cur.id) \/ failures[cur.id] >= retries[cur.id] + 1
        BY <1>2, <4>1 DEF IInv
      <4>3. failures[cur.id] \in Nat /\ failures[cur.id] <= Budget(cur.id)
        BY <1>1, <1>2 DEF TypeOK
      <4>4. MaxRetries[cur.id] \in Nat
        BY <1>2
      <4> QED BY <3>1, <4>2, <4>3, <4>4 DEF Budget
    <3> QED
      BY <1>1, <1>2, <2>1, <2>2, <3>2 DEF IInv, MarkJobFailed, TypeOK
  <2>3. CASE IncrementJobRetries(cur.id)
    BY <1>1, <1>2, <2>1, <2>3 DEF IInv, IncrementJobRetries, TypeOK, Budget
  <2>4. CASE "db" \in Faults /\ UNCHANGED rows
    BY <1>1, <1>2, <2>1, <2>4 DEF IInv, TypeOK
  <2> QED BY <1>9, <2>2, <2>3, <2>4 DEF RetryJob
<1> QED BY <1>4, <1>5, <1>6, <1>7, <1>8, <1>9

\* The other steps leave the rows that exist, the history and the worker's
\* task alone, or drop the task.
LEMMA OtherStep ==
  ASSUME IInv, [Next]_vars,
         ~ \/ MarkJobProcessing \/ RateLimit \/ BodySucceeds \/ BodyFails
           \/ MarkJobCompleted \/ RetryJob
  PROVE  /\ RowIsProcessing' /\ RetriesArePaid' /\ GivenUpOnlyAfterBudget'
         /\ SuccessIsServed' /\ CompletedWasServed' /\ ProcessingIsOwned'
<1> USE DEF rows, loader, worker, history
<1>1. TypeOK /\ TypeOK'
  BY TypeStep DEF IInv
<1>2. UNCHANGED <<retries, served, failures>>
  BY DEF Next, vars, LoaderStep, WorkerStep, ProcessStep,
     CreateJob, EnqueuePush, BackoffElapses, LoadTick, LoadQuery, LoadPush, LoaderExit,
     Take, WorkerExit, StopPool, StopQueue, CloseQueue, SetPhase, Exit, SendOnClosed,
     Crash, ProcessEnds, Restart
<1>3. \/ UNCHANGED status
      \/ \E j \in Jobs : status[j] = "none" /\ status' = [status EXCEPT ![j] = "pending"]
  BY DEF Next, vars, LoaderStep, WorkerStep, ProcessStep,
     CreateJob, EnqueuePush, BackoffElapses, LoadTick, LoadQuery, LoadPush, LoaderExit,
     Take, WorkerExit, StopPool, StopQueue, CloseQueue, SetPhase, Exit, SendOnClosed,
     Crash, ProcessEnds, Restart
<1>4. \/ UNCHANGED <<wpc, cur>>
      \/ wpc' \in {"taken", "exited"} /\ wpc = "idle"
      \/ wpc' = "idle" /\ phase' = "down"
  BY DEF Next, vars, LoaderStep, WorkerStep, ProcessStep,
     CreateJob, EnqueuePush, BackoffElapses, LoadTick, LoadQuery, LoadPush, LoaderExit,
     Take, WorkerExit, StopPool, StopQueue, CloseQueue, SetPhase, Exit, SendOnClosed,
     Crash, ProcessEnds, Restart, Release
<1>5. \A j \in Jobs : status'[j] = status[j] \/ (status'[j] = "pending" /\ status[j] = "none")
  <2>1. CASE UNCHANGED status
    BY <2>1
  <2>2. ASSUME NEW j \in Jobs, status[j] = "none", status' = [status EXCEPT ![j] = "pending"],
               NEW k \in Jobs
        PROVE  status'[k] = status[k] \/ (status'[k] = "pending" /\ status[k] = "none")
    <3>1. status \in [Jobs -> {"none", "pending", "processing", "completed", "failed"}]
      BY <1>1 DEF TypeOK
    <3>2. CASE k = j
      BY <2>2, <3>1, <3>2
    <3>3. CASE k # j
      BY <2>2, <3>1, <3>3
    <3> QED BY <3>2, <3>3
  <2> QED BY <1>3, <2>1, <2>2
<1>6. wpc \notin {"idle", "exited"} => cur.id \in Jobs
  BY <1>1 DEF TypeOK, Copy
<1>7. RowIsProcessing'
  BY <1>4, <1>5, <1>6 DEF IInv, RowIsProcessing
<1>8. RetriesArePaid'
  BY <1>2, <1>4 DEF IInv, RetriesArePaid, Unbooked, TypeOK
<1>9. GivenUpOnlyAfterBudget' /\ CompletedWasServed'
  BY <1>2, <1>5 DEF IInv, GivenUpOnlyAfterBudget, CompletedWasServed
<1>10. SuccessIsServed'
  BY <1>2, <1>4 DEF IInv, SuccessIsServed
<1>11. restarts' = 0 /\ phase' = "running" => restarts = 0 /\ phase = "running"
  <2>1. restarts \in Nat
    BY <1>1 DEF TypeOK
  <2>2. \/ UNCHANGED <<restarts, phase>>
        \/ phase' # "running"
        \/ restarts' = restarts + 1
    BY DEF Next, vars, LoaderStep, WorkerStep, ProcessStep,
       CreateJob, EnqueuePush, BackoffElapses, LoadTick, LoadQuery, LoadPush, LoaderExit,
       Take, WorkerExit, StopPool, StopQueue, CloseQueue, SetPhase, Exit, SendOnClosed,
       Crash, ProcessEnds, Restart
  <2> QED BY <2>1, <2>2
<1>12. ProcessingIsOwned'
  BY <1>4, <1>5, <1>11 DEF IInv, ProcessingIsOwned
<1> QED BY <1>7, <1>8, <1>9, <1>10, <1>12

\* The order of Manager.Stop.
LEMMA LifeCycleStep ==
  ASSUME IInv, [Next]_vars
  PROVE  LoaderHoldsBatch' /\ ShutdownOrder'
<1> USE DEF rows, loader, worker, history
<1>1. TypeOK
  BY DEF IInv
<1>2. LoaderHoldsBatch'
  BY DEF IInv, LoaderHoldsBatch, Next, vars, LoaderStep, WorkerStep, ProcessStep,
     CreateJob, EnqueuePush, BackoffElapses, LoadTick, LoadQuery, LoadPush, LoaderExit,
     Take, WorkerExit, MarkJobProcessing, RateLimit, BodySucceeds, BodyFails,
     MarkJobCompleted, RetryJob, StopPool, StopQueue, CloseQueue, SetPhase, Exit,
     SendOnClosed, Crash, ProcessEnds, Restart
<1>3. ShutdownOrder'
  BY <1>1 DEF IInv, LoaderHoldsBatch, ShutdownOrder, Next, vars, LoaderStep, WorkerStep,
     ProcessStep, CreateJob, EnqueuePush, BackoffElapses, LoadTick, LoadQuery, LoadPush,
     LoaderExit, Take, WorkerExit, MarkJobProcessing, RateLimit, BodySucceeds, BodyFails,
     MarkJobCompleted, RetryJob, StopPool, StopQueue, CloseQueue, SetPhase, Exit,
     SendOnClosed, Crash, ProcessEnds, Restart
<1> QED BY <1>2, <1>3

-----------------------------------------------------------------------------

\* The invariant holds in the initial states, is preserved by every step, and
\* so holds always.
LEMMA InvInit == Init => IInv
<1> SUFFICES ASSUME Init PROVE IInv
  OBVIOUS
<1>1. TypeOK
  BY DEF Init, TypeOK, NoJob, Budget
<1>2. Copies = {}
  BY DEF Init, Copies
<1> QED
  BY <1>1, <1>2 DEF Init, IInv, CopiesNotAhead, RowIsProcessing, RetriesArePaid, Unbooked,
     GivenUpOnlyAfterBudget, SuccessIsServed, CompletedWasServed, LoaderHoldsBatch,
     ProcessingIsOwned, ShutdownOrder

\* Every step preserves the invariant: the conjuncts by the lemmas above.
LEMMA InvStep == IInv /\ [Next]_vars => IInv'
<1> SUFFICES ASSUME IInv, [Next]_vars PROVE IInv'
  OBVIOUS
<1>1. TypeOK' /\ CopiesNotAhead'
  BY TypeStep, CopiesNotAheadStep DEF IInv
<1> QED BY <1>1, TaskStep, OtherStep, LifeCycleStep DEF IInv

\* The inductive invariant is an invariant.
LEMMA Invariance == Spec => []IInv
BY InvInit, InvStep, PTL DEF Spec

\* However many copies of a row memory holds, and however old they are, none
\* is ahead of the row.
THEOREM CopiesNeverAhead == Spec => []CopiesNotAhead
<1>1. IInv => CopiesNotAhead
  BY DEF IInv
<1> QED BY <1>1, Invariance, PTL

\* No task is given up before its body failed MaxRetries + 1 times, whatever
\* duplicates, database errors, stops and crashes there were.
THEOREM BudgetIsSpent == Spec => []GivenUpOnlyAfterBudget
<1>1. IInv => GivenUpOnlyAfterBudget
  BY DEF IInv
<1> QED BY <1>1, Invariance, PTL

\* Completed rows are rows of tasks whose body succeeded.
THEOREM CompletedImpliesServed == Spec => []CompletedWasServed
<1>1. IInv => CompletedWasServed
  BY DEF IInv
<1> QED BY <1>1, Invariance, PTL

\* Until the process is first stopped or killed, and without database errors,
\* no processing row is ever without its worker.
THEOREM NoOrphansWithoutFaults == Spec => []ProcessingIsOwned
<1>1. IInv => ProcessingIsOwned
  BY DEF IInv
<1> QED BY <1>1, Invariance, PTL

\* Manager.Stop closes the channel only when worker and loader are gone.
THEOREM StopsInOrder == Spec => []ShutdownOrder
<1>1. IInv => ShutdownOrder
  BY DEF IInv
<1> QED BY <1>1, Invariance, PTL

-----------------------------------------------------------------------------
(* The queue implements the service.                                       *)

\* The refinement mapping of outcome, as a function of the task.
AbsOutcome == [j \in Jobs |-> Outcome(j)]

\* A step that changes the row of one task at most, and no history.
LEMMA RowStepRefines ==
  ASSUME IInv, NEW j \in Jobs, UNCHANGED <<served, failures>>,
         \A k \in Jobs \ {j} : status'[k] = status[k],
         \/ status'[j] = status[j]
         \/ status'[j] \in {"pending", "processing"}
         \/ status'[j] = "completed" /\ status[j] = "processing"
         \/ status'[j] = "failed" /\ status[j] = "processing" /\ failures[j] = Budget(j)
  PROVE  [Service!Next]_(Service!vars)
<1>1. \A k \in Jobs \ {j} : Outcome(k)' = Outcome(k)
  BY DEF Outcome
<1>2. AbsOutcome' = [AbsOutcome EXCEPT ![j] = Outcome(j)']
  BY <1>1 DEF AbsOutcome
<1>3. CASE Outcome(j)' = Outcome(j)
  <2>1. AbsOutcome' = AbsOutcome
    BY <1>1, <1>3 DEF AbsOutcome
  <2> QED BY <2>1 DEF Service!vars, AbsOutcome
<1>4. CASE Outcome(j) = "unknown" /\ Outcome(j)' = "accepted"
  <2>1. Service!Accept(j)
    BY <1>2, <1>4 DEF Service!Accept, Service!Move, AbsOutcome
  <2> QED BY <2>1 DEF Service!Next
<1>5. CASE Outcome(j) = "givenUp" /\ Outcome(j)' = "accepted"
  <2>1. Service!Resume(j)
    BY <1>2, <1>5 DEF Service!Resume, Service!Move, AbsOutcome
  <2> QED BY <2>1 DEF Service!Next
<1>6. CASE Outcome(j) = "accepted" /\ Outcome(j)' = "givenUp" /\ failures[j] = Budget(j)
  <2>1. Service!GiveUp(j)
    BY <1>2, <1>6 DEF Service!GiveUp, Service!Move, AbsOutcome
  <2> QED BY <2>1 DEF Service!Next
<1> QED
  BY <1>3, <1>4, <1>5, <1>6 DEF Outcome, IInv, CompletedWasServed

\* Every step of the queue is a step of the service or changes nothing of it.
LEMMA StepRefines ==
  ASSUME IInv, [Next]_vars
  PROVE  [Service!Next]_(Service!vars)
<1> USE DEF rows, loader, worker, history
<1>1. TypeOK
  BY DEF IInv
<1>2. wpc \notin {"idle", "exited"} => cur \in Copy /\ cur.id \in Jobs
  BY <1>1 DEF TypeOK, Copy
<1>3. CASE UNCHANGED <<status, served, failures>>
  <2>1. AbsOutcome' = AbsOutcome
    BY <1>3 DEF AbsOutcome, Outcome
  <2> QED BY <1>3, <2>1 DEF Service!vars, AbsOutcome
<1>4. ASSUME NEW j \in Jobs, CreateJob(j)
      PROVE  [Service!Next]_(Service!vars)
  BY <1>1, <1>4, RowStepRefines DEF CreateJob, TypeOK
<1>5. CASE MarkJobProcessing
  BY <1>1, <1>2, <1>5, <1>3, RowStepRefines DEF MarkJobProcessing, SetStatus, TypeOK
<1>6. CASE BodySucceeds
  <2>1. cur.id \in Jobs /\ status[cur.id] = "processing" /\ UNCHANGED <<status, failures>>
    BY <1>2, <1>6 DEF BodySucceeds, IInv, RowIsProcessing
  <2>2. \A k \in Jobs \ {cur.id} : Outcome(k)' = Outcome(k)
    BY <1>6 DEF Outcome, BodySucceeds
  <2>3. Outcome(cur.id)' = "served"
    <3>1. cur' = cur /\ cur.id \in served'
      BY <1>6 DEF BodySucceeds
    <3> QED BY <3>1 DEF Outcome
  <2>4. AbsOutcome' = [AbsOutcome EXCEPT ![cur.id] = "served"]
    BY <2>1, <2>2, <2>3, <1>6 DEF AbsOutcome, BodySucceeds
  <2>5. CASE cur.id \in served
    <3>1. Outcome(cur.id) = "served"
      BY <2>5 DEF Outcome
    <3>2. AbsOutcome' = AbsOutcome
      BY <2>1, <2>4, <3>1 DEF AbsOutcome
    <3> QED BY <2>1, <3>2 DEF Service!vars, AbsOutcome
  <2>6. CASE cur.id \notin served
    <3>1. Outcome(cur.id) = "accepted"
      BY <2>1, <2>6 DEF Outcome
    <3>2. Service!Serve(cur.id)
      BY <2>1, <2>4, <3>1 DEF Service!Serve, Service!Move, AbsOutcome
    <3> QED BY <2>1, <3>2 DEF Service!Next
  <2> QED BY <2>5, <2>6
<1>7. CASE BodyFails
  <2>1. cur.id \in Jobs /\ status[cur.id] = "processing" /\ UNCHANGED <<status, served>>
    BY <1>2, <1>7 DEF BodyFails, IInv, RowIsProcessing
  <2>2. AbsOutcome' = AbsOutcome
    BY <2>1 DEF AbsOutcome, Outcome
  <2>3. AbsOutcome[cur.id] \in {"accepted", "served"}
    BY <2>1 DEF AbsOutcome, Outcome
  <2>4. failures \in [Jobs -> Nat] /\ failures[cur.id] <= Budget(cur.id)
    BY <1>1, <2>1 DEF TypeOK
  <2>5. Budget(cur.id) \in Nat
    BY <2>1 DEF Budget
  <2>6. CASE failures[cur.id] < Budget(cur.id)
    <3>1. failures' = [failures EXCEPT ![cur.id] = @ + 1]
      BY <1>7, <2>1, <2>4, <2>6 DEF BodyFails, CountFailure
    <3>2. Service!Fail(cur.id)
      BY <2>1, <2>2, <2>3, <2>6, <3>1 DEF Service!Fail, AbsOutcome
    <3> QED BY <2>1, <3>2 DEF Service!Next
  <2>7. CASE failures[cur.id] = Budget(cur.id)
    <3>1. failures' = failures
      BY <1>7, <2>1, <2>4, <2>5, <2>7 DEF BodyFails, CountFailure
    <3> QED BY <2>2, <3>1 DEF Service!vars, AbsOutcome
  <2> QED BY <2>1, <2>4, <2>5, <2>6, <2>7
<1>8. CASE MarkJobCompleted
  <2>1. wpc = "succeeded" /\ status[cur.id] = "processing" /\ UNCHANGED <<served, failures>>
    BY <1>8 DEF MarkJobCompleted, IInv, RowIsProcessing
  <2>2. CASE status' = [status EXCEPT ![cur.id] = "completed"]
    BY <1>1, <1>2, <2>1, <2>2, RowStepRefines DEF TypeOK
  <2> QED BY <1>8, <1>3, <2>1, <2>2 DEF MarkJobCompleted, SetStatus
<1>9. CASE RetryJob
  <2>1. wpc = "failed" /\ status[cur.id] = "processing" /\ UNCHANGED <<served, failures>>
    BY <1>9 DEF RetryJob, IInv, RowIsProcessing
  <2>2. \A k \in Jobs \ {cur.id} : status'[k] = status[k]
    BY <1>1, <1>2, <1>9 DEF RetryJob, MarkJobFailed, IncrementJobRetries, SetStatus, TypeOK
  <2>3. CASE RetriesExhausted(cur) /\ MarkJobFailed(cur.id)
    <3>1. status'[cur.id] = "failed"
      BY <1>1, <1>2, <2>1, <2>3 DEF MarkJobFailed, SetStatus, TypeOK
    <3>2. GivenUpOnlyAfterBudget'
      BY InvStep DEF IInv
    <3>3. failures[cur.id] = Budget(cur.id)
      BY <1>2, <2>1, <3>1, <3>2 DEF GivenUpOnlyAfterBudget
    <3> QED BY <1>2, <2>1, <2>2, <3>1, <3>3, RowStepRefines
  <2>4. CASE IncrementJobRetries(cur.id)
    <3>1. status'[cur.id] = "pending"
      BY <1>1, <1>2, <2>1, <2>4 DEF IncrementJobRetries, SetStatus, TypeOK
    <3>2. status'[cur.id] \in {"pending", "processing"}
      BY <3>1
    <3> QED BY <1>2, <2>1, <2>2, <3>2, RowStepRefines
  <2> QED BY <1>9, <1>3, <2>1, <2>3, <2>4 DEF RetryJob
<1> QED
  BY <1>3, <1>4, <1>5, <1>6, <1>7, <1>8, <1>9
  DEF Next, vars, LoaderStep, WorkerStep, ProcessStep,
     EnqueuePush, BackoffElapses, LoadTick, LoadQuery, LoadPush, LoaderExit,
     Take, WorkerExit, RateLimit, StopPool, StopQueue, CloseQueue, SetPhase, Exit,
     SendOnClosed, Crash, ProcessEnds, Restart

\* Whatever faults and restarts there are, the queue keeps the promise of
\* JobService: served tasks stay served, and a task is given up only after
\* its budget of failed attempts.
THEOREM QueueImplementsService == Spec => ImplementsService
<1>1. Init => Service!Init
  BY DEF Init, Service!Init, Outcome
<1>2. IInv /\ [Next]_vars => [Service!Next]_(Service!vars)
  BY StepRefines
<1> QED BY <1>1, <1>2, Invariance, PTL DEF Spec, ImplementsService, Service!Spec
=============================================================================
