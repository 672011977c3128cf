------------------------- MODULE JobQueueBoundProofs -------------------------
(***************************************************************************)
(* Counting in JobQueue, for any number of tasks and any capacity.         *)
(*                                                                         *)
(* How far the retry counter of a row can run over max_retries: a copy     *)
(* spends a retry only if its own counter is below max_retries, so once    *)
(* the row's counter is not, no new copies can do harm: what is left are   *)
(* the copies in memory, and of one row there are never more of these than *)
(* fit in the channel and the batch.                                       *)
(*                                                                         *)
(* How many rows a round of the loader handles, and how many rows are left *)
(* in processing by kills.                                                 *)
(***************************************************************************)
EXTENDS JobQueueProofs, FiniteSetTheorems, WellFoundedInduction

USE NumJobsAssumption, MaxRetriesAssumption, CapacityAssumption,
    FaultsAssumption, MaxRestartsAssumption

\* RetryJob would increment the counter of j for this copy.
Spendable(c, j) == c.id = j /\ c.retries < MaxRetries[j]

Slots(j) == {i \in 1 .. Len(queue) : Spendable(queue[i], j)}

One(b) == IF b THEN 1 ELSE 0

InQueueOf(j)  == Cardinality(Slots(j))
InBatchOf(j)  == One(\E c \in batch : Spendable(c, j))
InSubmitOf(j) == One(j \in submitting /\ 0 < MaxRetries[j])
InHandOf(j)   == One(Spendable(cur, j))
InMemory(j)   == InQueueOf(j) + InBatchOf(j) + InSubmitOf(j) + InHandOf(j)

-----------------------------------------------------------------------------
(* Counting the copies in the channel.                                     *)

LEMMA SlotsType ==
  ASSUME TypeOK, NEW j \in Jobs
  PROVE  /\ IsFiniteSet(Slots(j)) /\ InQueueOf(j) \in Nat
         /\ InQueueOf(j) <= Len(queue)
<1>1. Len(queue) \in Nat
  BY LenProperties DEF TypeOK
<1>2. IsFiniteSet(1 .. Len(queue)) /\ Cardinality(1 .. Len(queue)) = Len(queue)
  <2>1. 1 \in Int /\ Len(queue) \in Int
    BY <1>1
  <2>2. /\ IsFiniteSet(1 .. Len(queue))
        /\ Cardinality(1 .. Len(queue)) = IF 1 > Len(queue) THEN 0 ELSE Len(queue) - 1 + 1
    BY <2>1, FS_Interval
  <2> QED BY <1>1, <2>2
<1>3. Slots(j) \in SUBSET (1 .. Len(queue))
  BY DEF Slots
<1> QED BY <1>2, <1>3, FS_Subset, FS_CardinalityType DEF InQueueOf

QueueCounted == \A j \in Jobs : InQueueOf(j) \in Nat /\ InQueueOf(j) <= Len(queue)

LEMMA QueueIsCounted == TypeOK => QueueCounted
BY SlotsType DEF QueueCounted

\* A send that finds space adds one slot, or none.
LEMMA SendCount ==
  ASSUME TypeOK, NEW j \in Jobs, NEW c \in Copy, TrySend(c)
  PROVE  InQueueOf(j)' <= InQueueOf(j) + One(Spendable(c, j))
<1>1. queue \in Seq(Copy) /\ Len(queue) \in Nat
  BY LenProperties DEF TypeOK
<1>2. CASE queue' = queue
  <2>1. Slots(j)' = Slots(j)
    BY <1>2 DEF Slots
  <2> QED BY <2>1, SlotsType DEF InQueueOf, One
<1>3. CASE queue' = Append(queue, c)
  <2>1. /\ Len(queue') = Len(queue) + 1 /\ queue'[Len(queue) + 1] = c
        /\ \A i \in 1 .. Len(queue) : queue'[i] = queue[i]
    BY <1>1, <1>3, AppendProperties
  <2>2. \A i : i \in 1 .. Len(queue') <=> i \in 1 .. Len(queue) \/ i = Len(queue) + 1
    BY <1>1, <2>1
  <2>3. Slots(j)' = Slots(j) \cup (IF Spendable(c, j) THEN {Len(queue) + 1} ELSE {})
    BY <2>1, <2>2 DEF Slots
  <2>4. Cardinality(Slots(j) \cup {Len(queue) + 1}) <= Cardinality(Slots(j)) + 1
    <3>1. IsFiniteSet(Slots(j)) /\ Cardinality(Slots(j)) \in Nat
      BY SlotsType DEF InQueueOf
    <3> HIDE DEF Slots
    <3>2. Cardinality(Slots(j) \cup {Len(queue) + 1})
            = IF Len(queue) + 1 \in Slots(j) THEN Cardinality(Slots(j)) ELSE Cardinality(Slots(j)) + 1
      BY <3>1, FS_AddElement
    <3> QED BY <3>1, <3>2
  <2>5. CASE Spendable(c, j)
    BY <2>3, <2>4, <2>5 DEF InQueueOf, One
  <2>6. CASE ~Spendable(c, j)
    BY <2>3, <2>6, SlotsType DEF InQueueOf, One
  <2> QED BY <2>5, <2>6
<1> QED BY <1>2, <1>3 DEF TrySend

\* The head that is taken is counted no longer.
LEMMA TakeCount ==
  ASSUME TypeOK, NEW j \in Jobs, queue # <<>>, queue' = Tail(queue)
  PROVE  InQueueOf(j)' + One(Spendable(Head(queue), j)) <= InQueueOf(j)
<1>1. /\ queue \in Seq(Copy) /\ Len(queue) \in Nat /\ Len(queue) # 0
      /\ Len(queue') = Len(queue) - 1 /\ Head(queue) = queue[1]
      /\ \A i \in 1 .. Len(queue') : queue'[i] = queue[i + 1]
  BY LenProperties, HeadTailProperties, EmptySeq DEF TypeOK
<1> DEFINE S == Slots(j)'
           T == Slots(j) \ {1}
           f == [i \in S |-> i + 1]
<1>2. f \in Injection(S, T)
  <2>1. \A i \in S : i + 1 \in T
    BY <1>1 DEF Slots
  <2>2. \A i \in S : i \in Nat
    BY <1>1 DEF Slots
  <2>3. f \in [S -> T]
    BY <2>1
  <2>4. \A a, b \in S : f[a] = f[b] => a = b
    <3> SUFFICES ASSUME NEW a \in S, NEW b \in S, f[a] = f[b] PROVE a = b
      OBVIOUS
    <3>1. a \in Nat /\ b \in Nat
      BY <2>2
    <3>2. a + 1 = b + 1
      OBVIOUS
    <3> QED BY <3>1, <3>2
  <2> HIDE DEF S, T, f
  <2> QED BY <2>3, <2>4 DEF Injection, IsInjective
<1>3. /\ IsFiniteSet(T)
      /\ Cardinality(T) = IF 1 \in Slots(j) THEN Cardinality(Slots(j)) - 1 ELSE Cardinality(Slots(j))
  BY SlotsType, FS_RemoveElement
<1>4. IsFiniteSet(S) /\ Cardinality(S) <= Cardinality(T)
  <2> HIDE DEF S, T, f
  <2> QED BY <1>2, <1>3, FS_Injection
<1>5. 1 \in Slots(j) <=> Spendable(Head(queue), j)
  BY <1>1 DEF Slots
<1>6. Cardinality(S) \in Nat /\ Cardinality(T) \in Nat /\ Cardinality(Slots(j)) \in Nat
  BY <1>3, <1>4, SlotsType, FS_CardinalityType DEF InQueueOf
<1> QED BY <1>3, <1>4, <1>5, <1>6 DEF InQueueOf, One

\* What the other places of j hold is none or one.
LEMMA PlacesType ==
  \A j \in Jobs : InBatchOf(j) \in {0, 1} /\ InSubmitOf(j) \in {0, 1} /\ InHandOf(j) \in {0, 1}
BY DEF InBatchOf, InSubmitOf, InHandOf, One

-----------------------------------------------------------------------------
(* The inductive invariant.                                                *)

\* The query returns a row once.
BatchUnique == \A c, d \in batch : c.id = d.id => c = d

\* Copies are of rows that exist, and no others have been retried.
RowsExist ==
  /\ \A c \in Copies : status[c.id] # "none"
  /\ \A j \in submitting : status[j] # "none"
  /\ \A j \in Jobs : status[j] = "none" => retries[j] = 0

\* While the loader queries there was space when it looked, and only the
\* first copy of j, still being submitted, can have come since.
Slack(j) ==
  InQueueOf(j) + InBatchOf(j) + InSubmitOf(j)
    <= Capacity + (IF lpc = "querying" THEN 0 ELSE 1)

\* A row whose retries are spent has no more of them to come than copies.
Spent(j) ==
  \/ retries[j] < MaxRetries[j]
  \/ retries[j] + InMemory(j) <= MaxRetries[j] + Capacity + 1

BInv ==
  /\ BatchUnique
  /\ RowsExist
  /\ \A j \in Jobs : Slack(j) /\ Spent(j)

\* No row goes back to not existing, and only existing rows are retried.
LEMMA RowsExistStep ==
  ASSUME IInv, RowsExist, [Next]_vars
  PROVE  RowsExist'
<1> USE DEF rows, loader, worker, history
<1>1. TypeOK /\ TypeOK'
  BY TypeStep DEF IInv
<1>2. Copies \subseteq Copy
  BY <1>1, LenProperties DEF TypeOK, Copies, NoJob
<1>3. wpc \notin {"idle", "exited"} => cur \in Copies /\ cur.id \in Jobs
  <2>1. wpc \notin {"idle", "exited"} => cur \in Copy /\ cur # NoJob
    BY <1>1 DEF TypeOK, Copy, NoJob, Jobs
  <2> QED BY <2>1 DEF Copies, Copy
<1>4. \A j \in Jobs : status[j] # "none" => status'[j] # "none"
  BY <1>1 DEF TypeOK, Next, vars, LoaderStep, WorkerStep, ProcessStep, SetStatus,
     RetryJob, MarkJobFailed, IncrementJobRetries, CreateJob, EnqueuePush, BackoffElapses,
     LoadTick, LoadQuery, LoadPush, LoaderExit, Take, WorkerExit, MarkJobProcessing,
     RateLimit, BodySucceeds, BodyFails, MarkJobCompleted, StopPool, StopQueue, CloseQueue,
     SetPhase, Exit, SendOnClosed, Crash, ProcessEnds, Restart
<1>5. \A j \in Jobs : status'[j] = "none" => retries'[j] = 0
  <2>1. CASE RetryJob
    <3>1. cur \in Copies /\ cur.id \in Jobs
      BY <1>3, <2>1 DEF RetryJob
    <3>2. status[cur.id] # "none"
      BY <3>1 DEF RowsExist
    <3> QED
      BY <1>1, <1>4, <2>1, <3>1, <3>2
      DEF RowsExist, RetryJob, MarkJobFailed, IncrementJobRetries, SetStatus, TypeOK
  <2>2. CASE UNCHANGED retries
    BY <1>4, <2>2 DEF RowsExist
  <2> QED
    BY <2>1, <2>2 DEF Next, vars, LoaderStep, WorkerStep, ProcessStep,
       CreateJob, EnqueuePush, BackoffElapses, LoadTick, LoadQuery, LoadPush, LoaderExit,
       Take, WorkerExit, MarkJobProcessing, RateLimit, BodySucceeds, BodyFails,
       MarkJobCompleted, StopPool, StopQueue, CloseQueue, SetPhase, Exit, SendOnClosed,
       Crash, ProcessEnds, Restart
<1>6. \A j \in submitting' : status'[j] # "none"
  <2>1. CASE \E j \in Jobs : CreateJob(j)
    BY <1>1, <1>4, <2>1 DEF CreateJob, RowsExist, TypeOK
  <2>2. CASE submitting' \subseteq submitting
    BY <1>1, <1>4, <2>2 DEF RowsExist, TypeOK
  <2> QED
    BY <2>1, <2>2 DEF Next, vars, LoaderStep, WorkerStep, ProcessStep, RetryJob,
       EnqueuePush, BackoffElapses, LoadTick, LoadQuery, LoadPush, LoaderExit,
       Take, WorkerExit, MarkJobProcessing, RateLimit, BodySucceeds, BodyFails,
       MarkJobCompleted, StopPool, StopQueue, CloseQueue, SetPhase, Exit, SendOnClosed,
       Crash, ProcessEnds, Restart
<1>7. ASSUME NEW c \in Copies' PROVE status'[c.id] # "none"
  <2>1. CASE c \in Copies
    BY <1>2, <1>4, <2>1 DEF RowsExist, Copy
  <2>2. CASE \E j \in Jobs : EnqueuePush(j)
    <3>1. PICK j \in Jobs : EnqueuePush(j)
      BY <2>2
    <3>2. [id |-> j, retries |-> 0] \in Copy
      BY DEF Copy
    <3>3. InQueue' \subseteq InQueue \cup {[id |-> j, retries |-> 0]}
      BY <1>1, <3>1, <3>2, TrySendContents DEF EnqueuePush
    <3>4. c \in Copies \/ c.id = j
      BY <3>1, <3>3 DEF Copies, InQueue, EnqueuePush
    <3> QED BY <1>4, <2>1, <3>1, <3>4 DEF EnqueuePush, RowsExist
  <2>3. CASE LoadQuery
    <3>1. InQueue' = InQueue
      BY <2>3 DEF LoadQuery, InQueue
    <3>2. c \in Copies \/ c \in batch'
      BY <2>3, <3>1 DEF LoadQuery, Copies, InQueue
    <3>3. CASE c \in batch'
      <4>1. PICK j \in DueRows : c = Snapshot(j)
        BY <2>3, <3>3 DEF LoadQuery, Oldest
      <4> QED BY <1>4, <4>1 DEF DueRows, Snapshot
    <3> QED BY <2>1, <3>2, <3>3
  <2>4. CASE LoadPush
    <3>1. PICK d \in batch : TrySend(d) /\ batch' = batch \ {d}
      BY <2>4 DEF LoadPush
    <3>2. InQueue' \subseteq InQueue \cup {d}
      BY <1>1, <3>1, TrySendContents DEF TypeOK
    <3> QED BY <2>1, <2>4, <3>1, <3>2 DEF LoadPush, Copies, InQueue
  <2>5. CASE Take
    <3>1. queue \in Seq(Copy) /\ queue # <<>>
      BY <1>1, <2>5 DEF Take, TypeOK
    <3>2. InQueue' \subseteq InQueue /\ Head(queue) \in InQueue
      BY <2>5, <3>1, HeadTailProperties, LenProperties DEF Take, InQueue
    <3> QED BY <2>1, <2>5, <3>2 DEF Take, Copies, InQueue
  <2>6. CASE ProcessEnds
    <3>1. InQueue' = {}
      BY <2>6, EmptySeq, LenProperties DEF ProcessEnds, InQueue
    <3> QED BY <2>6, <3>1 DEF ProcessEnds, Release, Copies, InQueue
  <2>7. CASE UNCHANGED <<queue, batch>> /\ (cur' = cur \/ cur' = NoJob)
    <3>1. InQueue' = InQueue
      BY <2>7 DEF InQueue
    <3> QED BY <2>1, <2>7, <3>1 DEF Copies, InQueue
  <2> QED
    BY <2>2, <2>3, <2>4, <2>5, <2>6, <2>7
    DEF Next, vars, LoaderStep, WorkerStep, ProcessStep, Release,
       CreateJob, BackoffElapses, LoadTick, LoaderExit,
       WorkerExit, MarkJobProcessing, RateLimit, BodySucceeds, BodyFails,
       MarkJobCompleted, RetryJob, StopPool, StopQueue, CloseQueue, SetPhase, Exit,
       SendOnClosed, Crash, Restart
<1> QED BY <1>5, <1>6, <1>7 DEF RowsExist


LEMMA BatchUniqueStep ==
  ASSUME TypeOK, BatchUnique, [Next]_vars
  PROVE  BatchUnique'
<1> USE DEF rows, loader, worker, history
<1>1. CASE LoadQuery
  BY <1>1 DEF LoadQuery, Snapshot, BatchUnique
<1>2. CASE batch' \subseteq batch
  BY <1>2 DEF BatchUnique
<1> QED
  BY <1>1, <1>2 DEF Next, vars, LoaderStep, WorkerStep, ProcessStep, RetryJob, CreateJob,
     EnqueuePush, BackoffElapses, LoadTick, LoadPush, LoaderExit, Take, WorkerExit,
     MarkJobProcessing, RateLimit, BodySucceeds, BodyFails, MarkJobCompleted, StopPool,
     StopQueue, CloseQueue, SetPhase, Exit, SendOnClosed, Crash, ProcessEnds, Restart

\* A row that does not exist has nothing in memory.
LEMMA NothingBefore ==
  ASSUME TypeOK, RowsExist, NEW j \in Jobs, status[j] = "none"
  PROVE  InQueueOf(j) = 0 /\ InBatchOf(j) = 0 /\ InSubmitOf(j) = 0
<1>1. Slots(j) = {}
  BY DEF Slots, Spendable, RowsExist, Copies, TypeOK
<1>2. Cardinality({}) = 0
  BY FS_EmptySet
<1> QED
  BY <1>1, <1>2 DEF InQueueOf, InBatchOf, InSubmitOf, One, Spendable, RowsExist, Copies

\* What every step does to the copies of j and to its counter.
LEMMA BoundStep ==
  ASSUME IInv, BInv, [Next]_vars, NEW j \in Jobs
  PROVE  Slack(j)' /\ Spent(j)'
<1> USE DEF rows, loader, worker, history
<1>1. TypeOK /\ TypeOK'
  BY TypeStep DEF IInv
<1>2. /\ InQueueOf(j) \in Nat /\ InQueueOf(j) <= Len(queue)
      /\ Len(queue) \in Nat /\ Len(queue) <= Capacity
      /\ InQueueOf(j)' \in Nat /\ InQueueOf(j)' <= Len(queue')
      /\ Len(queue') \in Nat /\ Len(queue') <= Capacity
  <2>1. (TypeOK => QueueCounted)'
    BY QueueIsCounted, PTL
  <2> QED BY <1>1, <2>1, SlotsType, LenProperties DEF TypeOK, QueueCounted
<1>3. /\ InBatchOf(j) \in {0, 1} /\ InSubmitOf(j) \in {0, 1} /\ InHandOf(j) \in {0, 1}
      /\ InBatchOf(j)' \in {0, 1} /\ InSubmitOf(j)' \in {0, 1} /\ InHandOf(j)' \in {0, 1}
  BY DEF InBatchOf, InSubmitOf, InHandOf, One
<1>4. /\ retries[j] \in Nat /\ retries'[j] \in Nat
      /\ MaxRetries[j] \in Nat /\ Capacity \in Nat /\ Capacity >= 1
  BY <1>1 DEF TypeOK
<1>5. Slack(j) /\ Spent(j) /\ BatchUnique /\ RowsExist
  BY DEF BInv
\* The same queue has the same slots, and so on.
<1>6. UNCHANGED queue => InQueueOf(j)' = InQueueOf(j)
  BY DEF InQueueOf, Slots, Spendable
<1>7. UNCHANGED batch => InBatchOf(j)' = InBatchOf(j)
  BY DEF InBatchOf
<1>8. UNCHANGED submitting => InSubmitOf(j)' = InSubmitOf(j)
  BY DEF InSubmitOf
<1>9. cur' = cur => InHandOf(j)' = InHandOf(j)
  BY DEF InHandOf, Spendable
<1>10. cur' = NoJob => InHandOf(j)' = 0
  BY DEF InHandOf, Spendable, One, NoJob, Jobs
<1>11. InMemory(j) \in Nat /\ InMemory(j)' \in Nat
  BY <1>2, <1>3 DEF InMemory
<1>12. retries'[j] = retries[j] /\ InMemory(j)' <= InMemory(j) => Spent(j)'
  BY <1>4, <1>5, <1>11 DEF Spent
<1> USE DEF Slack
<1>13. CASE \E i \in Jobs : CreateJob(i)
  <2>1. PICK i \in Jobs : CreateJob(i)
    BY <1>13
  <2>2. /\ InQueueOf(j)' = InQueueOf(j) /\ InBatchOf(j)' = InBatchOf(j)
        /\ InHandOf(j)' = InHandOf(j) /\ retries' = retries /\ lpc' = lpc
    BY <1>6, <1>7, <1>9, <2>1 DEF CreateJob
  <2>3. CASE i # j
    <3>1. InSubmitOf(j)' = InSubmitOf(j)
      BY <2>1, <2>3 DEF CreateJob, InSubmitOf, One
    <3>2. InMemory(j)' = InMemory(j) /\ retries'[j] = retries[j]
      BY <2>2, <3>1 DEF InMemory
    <3> QED BY <1>5, <1>11, <1>12, <2>2, <3>1, <3>2
  <2>4. CASE i = j
    <3>1. InQueueOf(j) = 0 /\ InBatchOf(j) = 0 /\ retries[j] = 0
      BY <1>1, <1>5, <2>1, <2>4, NothingBefore DEF CreateJob, RowsExist
    <3>2. MaxRetries[j] = 0 => InSubmitOf(j)' = 0
      BY DEF InSubmitOf, One
    <3>3. Slack(j)'
      BY <1>3, <1>4, <2>2, <3>1
    <3>4. retries'[j] < MaxRetries[j] \/ InMemory(j)' <= InMemory(j)
      BY <1>3, <1>4, <2>2, <3>1, <3>2 DEF InMemory
    <3> QED BY <1>12, <2>2, <3>3, <3>4 DEF Spent
  <2> QED BY <2>3, <2>4
<1>14. CASE \E i \in Jobs : EnqueuePush(i)
  <2>1. PICK i \in Jobs : EnqueuePush(i)
    BY <1>14
  <2>2. /\ InBatchOf(j)' = InBatchOf(j) /\ InHandOf(j)' = InHandOf(j)
        /\ retries' = retries /\ lpc' = lpc
    BY <1>7, <1>9, <2>1 DEF EnqueuePush
  <2> DEFINE c == [id |-> i, retries |-> 0]
  <2>3. c \in Copy /\ TrySend(c)
    BY <2>1 DEF EnqueuePush, Copy
  <2>4. InQueueOf(j)' <= InQueueOf(j) + One(Spendable(c, j))
    <3> HIDE DEF c
    <3> QED BY <1>1, <2>3, SendCount
  <2>5. InSubmitOf(j)' + One(Spendable(c, j)) = InSubmitOf(j)
    BY <1>4, <2>1 DEF EnqueuePush, InSubmitOf, One, Spendable
  <2>6. One(Spendable(c, j)) \in {0, 1}
    BY DEF One
  <2> HIDE DEF c
  <2>7. Slack(j)'
    BY <1>2, <1>3, <1>4, <1>5, <2>2, <2>4, <2>5, <2>6
  <2>8. InMemory(j)' <= InMemory(j) /\ retries'[j] = retries[j]
    BY <1>2, <1>3, <2>2, <2>4, <2>5, <2>6 DEF InMemory
  <2> QED BY <1>12, <2>7, <2>8
<1>15. CASE LoadTick
  <2>1. /\ InQueueOf(j)' = InQueueOf(j) /\ InBatchOf(j)' = InBatchOf(j)
        /\ InSubmitOf(j)' = InSubmitOf(j) /\ InHandOf(j)' = InHandOf(j)
        /\ retries' = retries
    BY <1>6, <1>7, <1>8, <1>9, <1>15 DEF LoadTick
  <2>2. InBatchOf(j) = 0
    BY <1>15 DEF LoadTick, IInv, LoaderHoldsBatch, InBatchOf, One
  <2>3. Len(queue) < Capacity
    BY <1>15 DEF LoadTick, HasSpace
  <2>4. Slack(j)'
    BY <1>2, <1>3, <1>4, <1>5, <2>1, <2>2, <2>3
  <2>5. InMemory(j)' <= InMemory(j) /\ retries'[j] = retries[j]
    BY <1>2, <1>3, <2>1, <2>2, <2>3 DEF InMemory
  <2> QED BY <1>12, <2>4, <2>5
<1>16. CASE LoadQuery
  <2>1. /\ InQueueOf(j)' = InQueueOf(j) /\ InSubmitOf(j)' = InSubmitOf(j)
        /\ InHandOf(j)' = InHandOf(j) /\ retries' = retries
        /\ lpc = "querying" /\ lpc' # "querying"
    BY <1>6, <1>8, <1>9, <1>16 DEF LoadQuery
  <2>2. InBatchOf(j) = 0
    BY <1>16 DEF LoadQuery, IInv, LoaderHoldsBatch, InBatchOf, One
  <2>3. InBatchOf(j)' = 1 => retries[j] < MaxRetries[j]
    BY <1>16 DEF LoadQuery, Snapshot, InBatchOf, One, Spendable
  <2>4. Slack(j)'
    BY <1>2, <1>3, <1>4, <1>5, <2>1, <2>2
  <2>5. CASE InBatchOf(j)' = 0
    <3>1. InMemory(j)' <= InMemory(j) /\ retries'[j] = retries[j]
      BY <1>2, <1>3, <2>1, <2>2, <2>5 DEF InMemory
    <3> QED BY <1>12, <2>4, <3>1
  <2>6. CASE InBatchOf(j)' = 1
    BY <2>1, <2>3, <2>4, <2>6 DEF Spent
  <2> QED BY <1>3, <2>5, <2>6
<1>17. CASE LoadPush
  <2>1. /\ InSubmitOf(j)' = InSubmitOf(j) /\ InHandOf(j)' = InHandOf(j)
        /\ retries' = retries /\ lpc # "querying" /\ lpc' # "querying"
    BY <1>8, <1>9, <1>17 DEF LoadPush
  <2>2. PICK c \in batch : TrySend(c) /\ batch' = batch \ {c}
    BY <1>17 DEF LoadPush
  <2>3. c \in Copy
    BY <1>1 DEF TypeOK
  <2>4. InQueueOf(j)' <= InQueueOf(j) + One(Spendable(c, j))
    BY <1>1, <2>2, <2>3, SendCount
  <2>5. InBatchOf(j)' + One(Spendable(c, j)) <= InBatchOf(j)
    <3>1. Spendable(c, j) => InBatchOf(j) = 1 /\ InBatchOf(j)' = 0
      BY <1>5, <2>2 DEF InBatchOf, One, Spendable, BatchUnique
    <3>2. InBatchOf(j) = 0 => InBatchOf(j)' = 0
      BY <2>2 DEF InBatchOf, One
    <3> QED BY <1>3, <3>1, <3>2 DEF One
  <2>6. One(Spendable(c, j)) \in {0, 1}
    BY DEF One
  <2>7. Slack(j)'
    BY <1>2, <1>3, <1>4, <1>5, <2>1, <2>4, <2>5, <2>6
  <2>8. InMemory(j)' <= InMemory(j) /\ retries'[j] = retries[j]
    BY <1>2, <1>3, <2>1, <2>4, <2>5, <2>6 DEF InMemory
  <2> QED BY <1>12, <2>7, <2>8
<1>18. CASE Take
  <2>1. /\ InBatchOf(j)' = InBatchOf(j) /\ InSubmitOf(j)' = InSubmitOf(j)
        /\ retries' = retries /\ lpc' = lpc
    BY <1>7, <1>8, <1>18 DEF Take
  <2>2. InQueueOf(j)' + One(Spendable(Head(queue), j)) <= InQueueOf(j)
    BY <1>1, <1>18, TakeCount DEF Take
  <2>3. InHandOf(j)' = One(Spendable(Head(queue), j))
    BY <1>18 DEF Take, InHandOf, Spendable, One
  <2>4. Slack(j)'
    BY <1>2, <1>3, <1>4, <1>5, <2>1, <2>2, <2>3
  <2>5. InMemory(j)' <= InMemory(j) /\ retries'[j] = retries[j]
    BY <1>2, <1>3, <2>1, <2>2, <2>3 DEF InMemory
  <2> QED BY <1>12, <2>4, <2>5
<1>19. CASE RetryJob
  <2>1. /\ InQueueOf(j)' = InQueueOf(j) /\ InBatchOf(j)' = InBatchOf(j)
        /\ InSubmitOf(j)' = InSubmitOf(j) /\ InHandOf(j)' = 0 /\ lpc' = lpc
    BY <1>6, <1>7, <1>8, <1>10, <1>19 DEF RetryJob, Release
  <2>2. CASE retries'[j] = retries[j]
    <3>1. InMemory(j)' <= InMemory(j)
      BY <1>2, <1>3, <2>1 DEF InMemory
    <3>2. Slack(j)'
      BY <1>5, <2>1
    <3> QED BY <1>12, <2>2, <3>1, <3>2
  <2>3. CASE retries'[j] # retries[j]
    <3>1. ~RetriesExhausted(cur) /\ IncrementJobRetries(cur.id)
      BY <1>19, <2>3 DEF RetryJob, MarkJobFailed
    <3>2. cur.id = j /\ retries'[j] = retries[j] + 1
      BY <1>1, <2>3, <3>1 DEF IncrementJobRetries, TypeOK
    <3>3. cur \in Copy
      BY <1>1, <1>19 DEF RetryJob, TypeOK
    <3>4. InHandOf(j) = 1
      BY <1>4, <3>1, <3>2, <3>3 DEF RetriesExhausted, InHandOf, One, Spendable, Copy
    <3>5. InMemory(j)' <= Capacity + 1 /\ InMemory(j)' + 1 <= InMemory(j)
      BY <1>2, <1>3, <1>4, <1>5, <2>1, <3>4 DEF InMemory
    <3>6. Slack(j)'
      BY <1>5, <2>1
    <3>7. CASE retries[j] < MaxRetries[j]
      BY <1>4, <1>11, <3>2, <3>5, <3>6, <3>7 DEF Spent
    <3>8. CASE ~(retries[j] < MaxRetries[j])
      <4>1. retries[j] + InMemory(j) <= MaxRetries[j] + Capacity + 1
        BY <1>5, <3>8 DEF Spent
      <4>2. retries'[j] + InMemory(j)' <= MaxRetries[j] + Capacity + 1
        BY <1>4, <1>11, <3>2, <3>5, <4>1
      <4> QED BY <3>6, <4>2 DEF Spent
    <3> QED BY <3>7, <3>8
  <2> QED BY <2>2, <2>3
<1>20. CASE ProcessEnds
  <2>1. Slots(j)' = {}
    BY <1>20, EmptySeq DEF ProcessEnds, Slots
  <2>2. InQueueOf(j)' = 0
    BY <2>1, FS_EmptySet DEF InQueueOf
  <2>3. /\ InBatchOf(j)' = 0 /\ InSubmitOf(j)' = 0 /\ InHandOf(j)' = 0
        /\ retries' = retries
    BY <1>10, <1>20 DEF ProcessEnds, Release, InBatchOf, InSubmitOf, One
  <2>4. InMemory(j)' <= InMemory(j) /\ retries'[j] = retries[j]
    BY <1>2, <1>3, <2>2, <2>3 DEF InMemory
  <2>5. Slack(j)'
    BY <1>4, <2>2, <2>3
  <2> QED BY <1>12, <2>4, <2>5
<1>21. CASE /\ UNCHANGED <<queue, batch, submitting, retries>>
            /\ cur' = cur \/ cur' = NoJob
            /\ lpc' = lpc \/ (lpc # "querying" /\ lpc' # "querying")
  <2>1. /\ InQueueOf(j)' = InQueueOf(j) /\ InBatchOf(j)' = InBatchOf(j)
        /\ InSubmitOf(j)' = InSubmitOf(j) /\ retries' = retries
        /\ InHandOf(j)' = InHandOf(j) \/ InHandOf(j)' = 0
    BY <1>6, <1>7, <1>8, <1>9, <1>10, <1>21
  <2>2. InMemory(j)' <= InMemory(j) /\ retries'[j] = retries[j]
    BY <1>2, <1>3, <2>1 DEF InMemory
  <2>3. Slack(j)'
    BY <1>5, <1>21, <2>1
  <2> QED BY <1>12, <2>2, <2>3
<1> QED
  BY <1>13, <1>14, <1>15, <1>16, <1>17, <1>18, <1>19, <1>20, <1>21
  DEF Next, vars, LoaderStep, WorkerStep, ProcessStep, Release,
     BackoffElapses, LoaderExit, WorkerExit, MarkJobProcessing, RateLimit,
     BodySucceeds, BodyFails, MarkJobCompleted, StopPool, StopQueue, CloseQueue,
     SetPhase, Exit, SendOnClosed, Crash, Restart

-----------------------------------------------------------------------------

\* max_retries is overrun by at most the copies that one row can have in
\* memory besides the one whose retry was due.
THEOREM OverrunIsBounded == Spec => []RetriesOverrunBounded
<1>1. Init => BInv
  <2> SUFFICES ASSUME Init PROVE BInv
    OBVIOUS
  <2>1. TypeOK /\ RowsExist /\ BatchUnique
    <3>1. TypeOK
      BY DEF Init, TypeOK, NoJob, Budget
    <3>2. Copies = {}
      BY EmptySeq DEF Init, Copies
    <3> QED BY <3>1, <3>2 DEF Init, RowsExist, BatchUnique
  <2>2. ASSUME NEW j \in Jobs PROVE Slack(j) /\ Spent(j)
    <3>1. InQueueOf(j) = 0 /\ InBatchOf(j) = 0 /\ InSubmitOf(j) = 0
      BY <2>1, NothingBefore DEF Init
    <3>2. InHandOf(j) = 0
      BY DEF Init, InHandOf, Spendable, One, NoJob, Jobs
    <3>3. retries[j] = 0 /\ MaxRetries[j] \in Nat /\ Capacity \in Nat
      BY DEF Init
    <3> QED BY <3>1, <3>2, <3>3 DEF Slack, Spent, InMemory
  <2> QED BY <2>1, <2>2 DEF BInv
<1>2. IInv /\ BInv /\ [Next]_vars => BInv'
  BY RowsExistStep, BatchUniqueStep, BoundStep DEF BInv, IInv
<1>3. IInv /\ BInv => RetriesOverrunBounded
  <2> SUFFICES ASSUME IInv, BInv, NEW j \in Jobs
               PROVE  retries[j] <= MaxRetries[j] + Capacity + 1
    BY DEF RetriesOverrunBounded
  <2>1. /\ InQueueOf(j) \in Nat /\ InBatchOf(j) \in {0, 1}
        /\ InSubmitOf(j) \in {0, 1} /\ InHandOf(j) \in {0, 1}
    BY SlotsType, PlacesType DEF IInv
  <2>2. retries[j] \in Nat /\ MaxRetries[j] \in Nat /\ Capacity \in Nat
    BY DEF IInv, TypeOK
  <2>3. Spent(j)
    BY DEF BInv
  <2>4. InMemory(j) \in Nat
    BY <2>1 DEF InMemory
  <2> QED BY <2>2, <2>3, <2>4 DEF Spent
<1> QED BY <1>1, <1>2, <1>3, Invariance, PTL DEF Spec

-----------------------------------------------------------------------------
(* The rounds of the loader.                                               *)

LEMMA LeastNat ==
  ASSUME NEW T \in SUBSET Nat, T # {}
  PROVE  \E m \in T : \A k \in T : m <= k
<1> DEFINE R == OpToRel(<, Nat)
<1>1. \A k, m \in Nat : <<k, m>> \notin R => ~(k < m)
  BY DEF OpToRel
<1>2. IsWellFoundedOn(R, Nat)
  BY NatLessThanWellFounded
<1> HIDE DEF R
<1>3. PICK m \in T : \A k \in T : <<k, m>> \notin R
  BY <1>2, WFMin
<1>4. ASSUME NEW k \in T PROVE m <= k
  <2>1. m \in Nat /\ k \in Nat
    OBVIOUS
  <2>2. <<k, m>> \notin R
    BY <1>3
  <2>3. ~(k < m)
    BY <1>1, <2>1, <2>2
  <2> QED BY <2>1, <2>3
<1> QED BY <1>4

LEMMA JobsFinite == IsFiniteSet(Jobs) /\ Jobs \subseteq Nat
  BY FS_Interval DEF Jobs

\* LIMIT n yields at most n rows: all but the last of them come before the last.
LEMMA OldestBound ==
  ASSUME NEW S \in SUBSET Jobs, NEW n \in Nat
  PROVE  IsFiniteSet(Oldest(S, n)) /\ Cardinality(Oldest(S, n)) <= n
<1> DEFINE O == Oldest(S, n)
<1>1. O \in SUBSET S /\ \A x \in O : Cardinality({i \in S : i < x}) < n
  BY DEF Oldest
<1>2. IsFiniteSet(S) /\ IsFiniteSet(O) /\ S \subseteq Nat /\ S \subseteq 1 .. NumJobs
  BY <1>1, JobsFinite, FS_Subset DEF Jobs
<1> HIDE DEF O
<1>3. Cardinality(O) \in Nat
  BY <1>2, FS_CardinalityType
<1>4. CASE O = {}
  BY <1>2, <1>4, FS_EmptySet DEF O
<1>5. CASE O # {}
  <2> DEFINE T == {k \in Nat : k <= NumJobs /\ NumJobs - k \in O}
  <2>1. T \in SUBSET Nat /\ T # {}
    <3>1. PICK x \in O : TRUE
      BY <1>5
    <3>2. x \in 1 .. NumJobs
      BY <1>1, <1>2
    <3>3. NumJobs - x \in Nat /\ NumJobs - x <= NumJobs /\ NumJobs - (NumJobs - x) = x
      BY <3>2
    <3> QED BY <3>1, <3>3
  <2>2. PICK m \in T : \A k \in T : m <= k
    <3> HIDE DEF T
    <3> QED BY <2>1, LeastNat
  <2> DEFINE last == NumJobs - m
  <2>3. last \in O /\ m \in Nat /\ m <= NumJobs
    BY <2>2
  <2>4. \A x \in O : x <= last
    <3> TAKE x \in O
    <3>1. x \in 1 .. NumJobs
      BY <1>1, <1>2
    <3>2. NumJobs - x \in T
      BY <3>1
    <3>3. m <= NumJobs - x
      BY <2>2, <3>2
    <3> QED BY <2>3, <3>1, <3>3
  <2> HIDE DEF last, T
  <2> DEFINE B == {i \in S : i < last}
  <2>5. O \ {last} \in SUBSET B
    BY <1>1, <1>2, <2>3, <2>4
  <2>6. IsFiniteSet(B) /\ Cardinality(B) < n /\ Cardinality(B) \in Nat
    <3>1. IsFiniteSet(B)
      BY <1>2, FS_Subset
    <3> QED BY <1>1, <2>3, <3>1, FS_CardinalityType
  <2> HIDE DEF B
  <2>7. Cardinality(O \ {last}) <= Cardinality(B)
    BY <2>5, <2>6, FS_Subset
  <2>8. Cardinality(O \ {last}) = Cardinality(O) - 1
    BY <1>2, <2>3, FS_RemoveElement
  <2> QED BY <1>2, <1>3, <2>6, <2>7, <2>8 DEF O
<1> QED BY <1>4, <1>5

\* While it pushes the loader has a copy to push, the first of those it has
\* read, and it has read no more than there was space for.
RoundGoesOn ==
  /\ IsFiniteSet(batch) /\ Cardinality(batch) <= Capacity
  /\ lpc = "pushing" => \E copy \in batch : \A other \in batch : copy.id <= other.id

\* Each push brings the round nearer to its end.
RoundShrinks ==
  lpc = "pushing" /\ batch' # batch => Cardinality(batch') < Cardinality(batch)

BatchInv == IsFiniteSet(batch) /\ Cardinality(batch) <= Capacity /\ (lpc = "pushing" => batch # {})

LEMMA BatchInvStep == TypeOK /\ BatchInv /\ [Next]_vars => BatchInv'
<1> SUFFICES ASSUME TypeOK, BatchInv, [Next]_vars PROVE BatchInv'
  OBVIOUS
<1> USE DEF rows, loader, worker, history
<1>1. CASE LoadQuery
  <2>1. CASE batch' = {}
    BY <1>1, <2>1, FS_EmptySet DEF LoadQuery, BatchInv
  <2>2. CASE batch' = {Snapshot(j) : j \in Oldest(DueRows, space)}
    <3> DEFINE O == Oldest(DueRows, space)
    <3> DEFINE e == [j \in O |-> Snapshot(j)]
    <3>1. space \in Nat /\ space <= Capacity /\ DueRows \in SUBSET Jobs
      BY DEF TypeOK, DueRows
    <3>2. IsFiniteSet(O) /\ Cardinality(O) <= space
      BY <3>1, OldestBound
    <3>3. e \in Surjection(O, batch')
      BY <2>2 DEF Surjection
    <3>4. Cardinality(O) \in Nat
      BY <3>2, FS_CardinalityType
    <3> HIDE DEF O, e
    <3>5. IsFiniteSet(batch') /\ Cardinality(batch') <= Cardinality(O)
      BY <3>2, <3>3, FS_Surjection
    <3>6. Cardinality(batch') \in Nat
      BY <3>5, FS_CardinalityType
    <3>7. lpc' = "pushing" => batch' # {}
      BY <1>1 DEF LoadQuery
    <3> QED BY <3>1, <3>2, <3>4, <3>5, <3>6, <3>7 DEF BatchInv
  <2> QED BY <1>1, <2>1, <2>2 DEF LoadQuery
<1>2. CASE LoadPush
  <2>1. PICK c \in batch : batch' = batch \ {c}
    BY <1>2 DEF LoadPush
  <2>2. IsFiniteSet(batch') /\ Cardinality(batch') = Cardinality(batch) - 1 /\ Cardinality(batch) \in Nat
    BY <2>1, FS_RemoveElement, FS_CardinalityType DEF BatchInv
  <2>3. lpc' = "pushing" => batch' # {}
    BY <1>2 DEF LoadPush
  <2> QED BY <2>2, <2>3 DEF BatchInv
<1>3. CASE Exit \/ SendOnClosed \/ Crash
  <2>1. batch' = {} /\ lpc' = "idle"
    BY <1>3 DEF Exit, SendOnClosed, Crash, ProcessEnds
  <2>2. IsFiniteSet({}) /\ Cardinality({}) = 0 /\ 0 <= Capacity
    BY FS_EmptySet
  <2> QED BY <2>1, <2>2 DEF BatchInv
<1>4. ASSUME UNCHANGED batch, lpc' # "pushing" \/ lpc' = lpc PROVE BatchInv'
  BY <1>4 DEF BatchInv
<1>5. ASSUME NEW j \in Jobs, CreateJob(j) \/ EnqueuePush(j) \/ BackoffElapses(j)
      PROVE  UNCHANGED <<batch, lpc>>
  BY <1>5 DEF CreateJob, EnqueuePush, BackoffElapses
<1>6. WorkerStep \/ LoadTick \/ LoaderExit \/ UNCHANGED vars
        => UNCHANGED batch /\ (lpc' # "pushing" \/ lpc' = lpc)
  BY DEF WorkerStep, Take, WorkerExit, MarkJobProcessing, RateLimit, BodySucceeds, BodyFails,
         MarkJobCompleted, RetryJob, LoadTick, LoaderExit, vars
<1>7. StopPool \/ StopQueue \/ CloseQueue \/ Restart => UNCHANGED <<batch, lpc>>
  BY DEF StopPool, StopQueue, CloseQueue, Restart, SetPhase
<1> QED BY <1>1, <1>2, <1>3, <1>4, <1>5, <1>6, <1>7 DEF Next, LoaderStep, ProcessStep

LEMMA RoundStep == TypeOK /\ BatchInv /\ [Next]_vars => RoundShrinks
<1> SUFFICES ASSUME TypeOK, BatchInv, [Next]_vars, lpc = "pushing", batch' # batch
             PROVE  Cardinality(batch') < Cardinality(batch)
  BY DEF RoundShrinks
<1> USE DEF rows, loader, worker, history
<1>1. LoadPush \/ Exit \/ SendOnClosed \/ Crash
  BY DEF Next, LoaderStep, ProcessStep, CreateJob, EnqueuePush, BackoffElapses, WorkerStep, Take,
         WorkerExit, MarkJobProcessing, RateLimit, BodySucceeds, BodyFails, MarkJobCompleted,
         RetryJob, LoadTick, LoadQuery, LoaderExit, StopPool, StopQueue, CloseQueue, Restart,
         SetPhase, vars
<1>2. Cardinality(batch) \in Nat /\ IsFiniteSet(batch) /\ Cardinality(batch) # 0
  BY FS_CardinalityType, FS_EmptySet DEF BatchInv
<1>3. CASE LoadPush
  <2>1. PICK c \in batch : batch' = batch \ {c}
    BY <1>3 DEF LoadPush
  <2> QED BY <1>2, <2>1, FS_RemoveElement
<1>4. CASE Exit \/ SendOnClosed \/ Crash
  <2>1. Cardinality(batch') = 0
    BY <1>4, FS_EmptySet DEF Exit, SendOnClosed, Crash, ProcessEnds
  <2> QED BY <1>2, <2>1
<1> QED BY <1>1, <1>3, <1>4

\* A round of the loader (loadBatch) never stands still and ends after as many
\* pushes as there was space for, whatever fills the channel meanwhile: its
\* query returned no more rows than that, and every push takes one of them.
THEOREM LoaderRoundsEnd == Spec => []RoundGoesOn /\ [][RoundShrinks]_vars
<1>1. Init => BatchInv
  BY FS_EmptySet DEF Init, BatchInv
<1>2. TypeOK /\ BatchInv => RoundGoesOn
  <2> SUFFICES ASSUME TypeOK, BatchInv, lpc = "pushing"
               PROVE  \E copy \in batch : \A other \in batch : copy.id <= other.id
    BY DEF RoundGoesOn, BatchInv
  <2> DEFINE Ids == {c.id : c \in batch}
  <2>1. Ids \in SUBSET Nat /\ Ids # {}
    <3>1. batch \subseteq Copy /\ batch # {}
      BY DEF TypeOK, BatchInv
    <3>2. \A c \in batch : c.id \in Nat
      BY <3>1, JobsFinite DEF Copy
    <3> QED BY <3>1, <3>2
  <2>2. PICK m \in Ids : \A k \in Ids : m <= k
    <3> HIDE DEF Ids
    <3> QED BY <2>1, LeastNat
  <2>3. PICK c \in batch : c.id = m
    OBVIOUS
  <2> QED BY <2>2, <2>3
<1>3. TypeOK /\ BatchInv /\ [Next]_vars => [RoundShrinks]_vars
  BY RoundStep
<1> QED BY TypeCorrect, BatchInvStep, <1>1, <1>2, <1>3, PTL DEF Spec

-----------------------------------------------------------------------------
(* What a kill leaves behind.                                              *)

Busy == {"waiting", "running", "succeeded", "failed"}

\* Rows that are processing and not in the worker's hands: GetPendingJobs never
\* takes them.
Stranded == {j \in Jobs : status[j] = "processing" /\ ~(cur.id = j /\ wpc \in Busy)}

\* A process that only ever ends by being killed, and a database without errors.
KilledOnly == Faults \subseteq {"crash"}

\* At most one for each time the process was killed.
StrandedByKills ==
  KilledOnly => Cardinality(Stranded) <= restarts + One(phase = "down")

LEMMA StrandedFinite == IsFiniteSet(Stranded) /\ Cardinality(Stranded) \in Nat
<1>1. Stranded \in SUBSET Jobs
  BY DEF Stranded
<1> QED BY <1>1, JobsFinite, FS_Subset, FS_CardinalityType

LEMMA StrandedFiniteNext == IsFiniteSet(Stranded') /\ Cardinality(Stranded') \in Nat
<1>1. Stranded' \in SUBSET Jobs
  BY DEF Stranded
<1> QED BY <1>1, JobsFinite, FS_Subset, FS_CardinalityType

\* Nothing but the end of the process takes a row out of the worker's hands
\* before its status is written.
LEMMA OnlyKillsStrand ==
  ASSUME IInv, KilledOnly, phase \in {"running", "down"}, Next, ~Crash
  PROVE  Stranded' \subseteq Stranded
<1> USE DEF rows, loader, worker, history
<1>1. TypeOK /\ "db" \notin Faults
  BY DEF IInv, KilledOnly
<1>2. ASSUME UNCHANGED <<status, wpc, cur>> PROVE Stranded' \subseteq Stranded
  BY <1>2 DEF Stranded
<1>3. ASSUME NEW j \in Jobs, CreateJob(j) PROVE Stranded' \subseteq Stranded
  BY <1>1, <1>3 DEF CreateJob, Stranded, TypeOK
<1>4. ASSUME NEW j \in Jobs, EnqueuePush(j) \/ BackoffElapses(j) PROVE Stranded' \subseteq Stranded
  BY <1>2, <1>4 DEF EnqueuePush, BackoffElapses
<1>5. CASE LoaderStep
  BY <1>2, <1>5 DEF LoaderStep, LoadTick, LoadQuery, LoadPush, LoaderExit
<1>6. CASE Take \/ WorkerExit
  BY <1>6 DEF Take, WorkerExit, Stranded, Busy
<1>7. CASE MarkJobProcessing
  <2>1. /\ status' = [status EXCEPT ![cur.id] = "processing"] /\ wpc' = "waiting" /\ cur' = cur
        /\ wpc = "taken"
    BY <1>1, <1>7 DEF MarkJobProcessing, SetStatus
  <2> QED BY <1>1, <2>1 DEF Stranded, Busy, TypeOK
<1>8. CASE RateLimit
  <2>1. wpc = "waiting" /\ wpc' = "running" /\ UNCHANGED <<cur, status>>
    BY <1>8 DEF RateLimit, Alive
  <2> QED BY <2>1 DEF Stranded, Busy
<1>9. CASE BodySucceeds \/ BodyFails
  BY <1>9 DEF BodySucceeds, BodyFails, Stranded, Busy
<1>10. CASE MarkJobCompleted
  <2>1. status' = [status EXCEPT ![cur.id] = "completed"]
    BY <1>1, <1>10 DEF MarkJobCompleted, SetStatus
  <2> QED BY <1>1, <2>1 DEF Stranded, TypeOK
<1>11. CASE RetryJob
  <2>1. \E s \in {"failed", "pending"} : status' = [status EXCEPT ![cur.id] = s]
    BY <1>1, <1>11 DEF RetryJob, MarkJobFailed, IncrementJobRetries, SetStatus
  <2> QED BY <1>1, <2>1 DEF Stranded, TypeOK
<1>12. CASE Restart \/ StopPool \/ StopQueue \/ CloseQueue
  BY <1>2, <1>12 DEF Restart, StopPool, StopQueue, CloseQueue, SetPhase
<1>13. ~(Exit \/ SendOnClosed)
  BY DEF Exit, SendOnClosed, Closed
<1> QED BY <1>3, <1>4, <1>5, <1>6, <1>7, <1>8, <1>9, <1>10, <1>11, <1>12, <1>13
        DEF Next, WorkerStep, ProcessStep

KillInv ==
  /\ KilledOnly => phase \in {"running", "down"}
  /\ StrandedByKills

LEMMA KillInvStep == IInv /\ KillInv /\ [Next]_vars => KillInv'
<1> SUFFICES ASSUME IInv, KillInv, [Next]_vars, KilledOnly
             PROVE  /\ phase' \in {"running", "down"}
                    /\ Cardinality(Stranded') <= restarts' + One(phase' = "down")
  BY DEF KillInv, StrandedByKills, KilledOnly
<1> USE DEF rows, loader, worker, history
<1>1. /\ phase \in {"running", "down"} /\ restarts \in Nat
      /\ Cardinality(Stranded) <= restarts + One(phase = "down")
      /\ Cardinality(Stranded) \in Nat /\ Cardinality(Stranded') \in Nat
  BY StrandedFinite, StrandedFiniteNext DEF KillInv, StrandedByKills, IInv, TypeOK
<1>2. CASE Crash
  <2>1. phase = "running" /\ phase' = "down" /\ restarts' = restarts
    BY <1>1, <1>2 DEF Crash, Alive, ProcessEnds
  <2>2. Stranded' \subseteq Stranded \cup {cur.id}
    BY <1>2 DEF Crash, ProcessEnds, Stranded
  <2>3. IsFiniteSet(Stranded \cup {cur.id})
        /\ Cardinality(Stranded \cup {cur.id}) <= Cardinality(Stranded) + 1
        /\ Cardinality(Stranded \cup {cur.id}) \in Nat
    <3>1. /\ IsFiniteSet(Stranded \cup {cur.id})
          /\ Cardinality(Stranded \cup {cur.id})
               = IF cur.id \in Stranded THEN Cardinality(Stranded) ELSE Cardinality(Stranded) + 1
      BY StrandedFinite, FS_AddElement
    <3> QED BY <1>1, <3>1
  <2>4. Cardinality(Stranded') <= Cardinality(Stranded \cup {cur.id})
    BY <2>2, <2>3, FS_Subset
  <2> QED BY <1>1, <2>1, <2>3, <2>4 DEF One
<1>3. CASE Next /\ ~Crash
  <2>1. Stranded' \subseteq Stranded
    BY <1>1, <1>3, OnlyKillsStrand
  <2>2. Cardinality(Stranded') <= Cardinality(Stranded)
    BY <2>1, StrandedFinite, FS_Subset
  <2>3. CASE Restart
    BY <1>1, <2>2, <2>3 DEF Restart, One
  <2>4. CASE ~Restart
    <3>1. UNCHANGED <<phase, restarts>>
      BY <1>1, <1>3, <2>4 DEF Next, LoaderStep, WorkerStep, ProcessStep, CreateJob, EnqueuePush,
         BackoffElapses, LoadTick, LoadQuery, LoadPush, LoaderExit, Take, WorkerExit,
         MarkJobProcessing, RateLimit, BodySucceeds, BodyFails, MarkJobCompleted, RetryJob,
         StopPool, MayEnd, KilledOnly, StopQueue, CloseQueue, Exit, SendOnClosed, Closed
    <3> QED BY <1>1, <2>2, <3>1 DEF One
  <2> QED BY <2>3, <2>4
<1>4. CASE UNCHANGED vars
  <2>1. Stranded' = Stranded /\ UNCHANGED <<phase, restarts>>
    BY <1>4 DEF vars, Stranded
  <2> QED BY <1>1, <2>1
<1> QED BY <1>2, <1>3, <1>4

\* A kill strands at most the one task whose body was being executed
\* (MarkJobProcessing before processJob, GetPendingJobs selects pending rows
\* only), however many rows, copies and restarts there are.
THEOREM KillStrandsOne == Spec => []StrandedByKills
<1>1. Init => KillInv
  <2> SUFFICES ASSUME Init PROVE KillInv
    OBVIOUS
  <2>1. Stranded = {}
    BY DEF Init, Stranded
  <2>2. Cardinality(Stranded) = 0
    BY <2>1, FS_EmptySet
  <2> QED BY <2>2 DEF Init, KillInv, StrandedByKills, One
<1>2. KillInv => StrandedByKills
  BY DEF KillInv
<1> QED BY Invariance, KillInvStep, <1>1, <1>2, PTL DEF Spec
=============================================================================
