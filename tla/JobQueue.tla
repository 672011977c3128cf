------------------------------ MODULE JobQueue ------------------------------
(***************************************************************************)
(* The asynchronous task queue of the backend: the rows of the MySQL table *)
(* jobs, the bounded Go channel in front of the single worker, the loader  *)
(* goroutine that re-reads pending rows every ten seconds, the worker that *)
(* executes a task, and the life cycle of the process around them          *)
(* (internal/worker/job_queue.go, worker_pool.go, manager.go and           *)
(* internal/repository/job_repository.go).                                 *)
(*                                                                         *)
(* A row of jobs and the copies of it that sit in memory are different     *)
(* things: the channel, the loader and the worker hold copies that carry   *)
(* the retry counter the row had when the copy was made.  Nothing removes  *)
(* or claims a row when a copy of it is made, so one row can have several  *)
(* copies, taken at different times.                                       *)
(*                                                                         *)
(* The body of a task is only "succeeded" or "failed" here; what it does   *)
(* to codes, accounts and logs is module RedeemTask.                       *)
(***************************************************************************)
EXTENDS Naturals, Sequences, FiniteSets

CONSTANTS
  NumJobs,     \* how many tasks are ever submitted
  MaxRetries,  \* max_retries of each task (the callers pass 3 or 2)
  Capacity,    \* capacity of the channel (main.go passes 100)
  Faults,      \* which faults may happen: a subset of FaultKinds
  MaxRestarts  \* how often the process is started again after it ended

Jobs == 1 .. NumJobs

FaultKinds ==
  { "db",      \* an UPDATE or SELECT on jobs returns an error
    "stop",    \* main returns and the deferred Stop calls run
    "crash" }  \* the process is killed

ASSUME NumJobsAssumption     == NumJobs \in Nat
ASSUME MaxRetriesAssumption  == MaxRetries \in [Jobs -> Nat]
ASSUME CapacityAssumption    == Capacity \in Nat \ {0}
ASSUME FaultsAssumption      == Faults \subseteq FaultKinds
ASSUME MaxRestartsAssumption == MaxRestarts \in Nat

VARIABLES
  status,      \* jobs.status; "none" before the row exists
  retries,     \* jobs.retries
  due,         \* whether jobs.next_run_at <= NOW()
  queue,       \* the channel, a sequence of copies
  submitting,  \* Enqueue calls between CreateJob and the channel send
  lpc,         \* where the loader goroutine is
  space,       \* availableSpace as the loader computed it
  batch,       \* copies the loader has read and not yet handled
  wpc,         \* where the worker goroutine is
  cur,         \* the copy the worker holds
  phase,       \* life cycle of the process
  restarts,    \* how often the process was restarted
  served,      \* history: tasks whose body has succeeded at least once
  failures     \* history: failed bodies per task, capped at the budget

rows    == <<status, retries, due>>
loader  == <<lpc, space, batch>>
worker  == <<wpc, cur>>
history == <<served, failures>>
vars    == <<rows, queue, submitting, loader, worker, phase, restarts, history>>

\* The in-memory Job: its type and payload are those of the row.
Copy == [id : Jobs, retries : Nat]

\* The worker between two tasks.
NoJob == [id |-> 0, retries |-> 0]

\* Bodies a task may fail before it is given up: the first and the retries.
Budget(j) == MaxRetries[j] + 1

TypeOK ==
  /\ status \in [Jobs -> {"none", "pending", "processing", "completed", "failed"}]
  /\ retries \in [Jobs -> Nat]
  /\ due \in [Jobs -> BOOLEAN]
  /\ queue \in Seq(Copy)
  /\ Len(queue) <= Capacity
  /\ submitting \subseteq Jobs
  /\ lpc \in {"idle", "querying", "pushing", "exited"}
  /\ space \in 0 .. Capacity
  /\ batch \subseteq Copy
  /\ wpc \in {"idle", "taken", "waiting", "running", "succeeded", "failed", "exited"}
  /\ IF wpc \in {"idle", "exited"} THEN cur = NoJob ELSE cur \in Copy
  /\ phase \in {"running", "stoppingPool", "stoppingQueue", "stopped", "down"}
  /\ restarts \in 0 .. MaxRestarts
  /\ served \subseteq Jobs
  /\ failures \in [Jobs -> Nat]
  /\ \A j \in Jobs : failures[j] <= Budget(j)

\* NewManager and Start on a table without unfinished rows.
Init ==
  /\ status = [j \in Jobs |-> "none"]
  /\ retries = [j \in Jobs |-> 0]
  /\ due = [j \in Jobs |-> FALSE]
  /\ queue = <<>>
  /\ submitting = {}
  /\ lpc = "idle"
  /\ space = 0
  /\ batch = {}
  /\ wpc = "idle"
  /\ cur = NoJob
  /\ phase = "running"
  /\ restarts = 0
  /\ served = {}
  /\ failures = [j \in Jobs |-> 0]

Alive    == phase # "down"
Closed   == phase = "stopped"

HasSpace == Len(queue) < Capacity

-----------------------------------------------------------------------------
(* Enqueue: the row first, then a non-blocking send of a copy.             *)

\* CreateJob inserts the row, due at once; ids grow in submission order.
CreateJob(j) ==
  /\ Alive
  /\ status[j] = "none"
  /\ \A i \in Jobs : i < j => status[i] # "none"
  /\ status' = [status EXCEPT ![j] = "pending"]
  /\ due' = [due EXCEPT ![j] = TRUE]
  /\ submitting' = submitting \cup {j}
  /\ UNCHANGED <<retries, queue, loader, worker, phase, restarts, history>>

\* Mutant of TrySend: the channel is not bounded.
SendAnyway(copy) == queue' = Append(queue, copy)

\* A send that finds the channel full is dropped: the row stays pending.
TrySend(copy) ==
  IF HasSpace THEN queue' = Append(queue, copy) ELSE UNCHANGED queue

EnqueuePush(j) ==
  /\ Alive /\ ~Closed
  /\ j \in submitting
  /\ TrySend([id |-> j, retries |-> 0])
  /\ submitting' = submitting \ {j}
  /\ UNCHANGED <<rows, loader, worker, phase, restarts, history>>

-----------------------------------------------------------------------------
(* loadPendingJobs: one round of the loader is a read of the channel's     *)
(* length, a query, and one send per row.                                  *)

\* The tick: nothing is done when the channel is full.  The select may also
\* prefer a pending tick to the cancelled context.
LoadTick ==
  /\ Alive
  /\ lpc = "idle"
  /\ HasSpace
  /\ space' = Capacity - Len(queue)
  /\ lpc' = "querying"
  /\ UNCHANGED <<rows, queue, submitting, batch, worker, phase, restarts, history>>

\* Mutant of DueRows: only rows that were never retried are loaded.
FreshRows == {j \in Jobs : status[j] = "pending" /\ retries[j] = 0}

\* WHERE status = 'pending' AND next_run_at <= NOW()
DueRows == {j \in Jobs : status[j] = "pending" /\ due[j]}

\* ORDER BY created_at LIMIT n
Oldest(S, n) == {j \in S : Cardinality({i \in S : i < j}) < n}

\* Mutant of Snapshot: the copy counts the attempt that is about to start.
SnapshotAttempt(j) == [id |-> j, retries |-> retries[j] + 1]

\* The copy of a row that the query returns.
Snapshot(j) == [id |-> j, retries |-> retries[j]]

LoadQuery ==
  /\ Alive
  /\ lpc = "querying"
  /\ \/ batch' = {Snapshot(j) : j \in Oldest(DueRows, space)}
     \/ "db" \in Faults /\ batch' = {}
  /\ space' = 0
  /\ lpc' = IF batch' = {} THEN "idle" ELSE "pushing"
  /\ UNCHANGED <<rows, queue, submitting, worker, phase, restarts, history>>

\* The break of the default branch only leaves the select, so the loop goes
\* on with the next row even when the channel was full.
LoadPush ==
  /\ Alive /\ ~Closed
  /\ lpc = "pushing"
  /\ \E copy \in batch :
       /\ \A other \in batch : copy.id <= other.id
       /\ TrySend(copy)
       /\ batch' = batch \ {copy}
  /\ lpc' = IF batch' = {} THEN "idle" ELSE "pushing"
  /\ UNCHANGED <<rows, space, submitting, worker, phase, restarts, history>>

LoaderExit ==
  /\ phase = "stoppingQueue"
  /\ lpc = "idle"
  /\ lpc' = "exited"
  /\ UNCHANGED <<rows, queue, submitting, space, batch, worker, phase, restarts, history>>

\* next_run_at is reached.
BackoffElapses(j) ==
  /\ status[j] # "none"
  /\ ~due[j]
  /\ due' = [due EXCEPT ![j] = TRUE]
  /\ UNCHANGED <<status, retries, queue, submitting, loader, worker, phase, restarts, history>>

-----------------------------------------------------------------------------
(* worker and processJob.                                                  *)

\* The select of the worker loop takes the head of the channel; like the
\* loader it may do so although its context is cancelled already.
Take ==
  /\ Alive
  /\ wpc = "idle"
  /\ queue # <<>>
  /\ cur' = Head(queue)
  /\ queue' = Tail(queue)
  /\ wpc' = "taken"
  /\ UNCHANGED <<rows, submitting, loader, phase, restarts, history>>

WorkerExit ==
  /\ phase = "stoppingPool"
  /\ wpc = "idle"
  /\ wpc' = "exited"
  /\ UNCHANGED <<rows, queue, submitting, loader, cur, phase, restarts, history>>

\* Back to the select of the worker loop.
Release == wpc' = "idle" /\ cur' = NoJob

SetStatus(j, s) == status' = [status EXCEPT ![j] = s]

\* UpdateJobStatus is unconditional: whatever the row was, it is processing
\* now.  If the UPDATE reports an error the copy is dropped, and the UPDATE
\* may or may not have taken effect.
MarkJobProcessing ==
  /\ Alive
  /\ wpc = "taken"
  /\ \/ /\ SetStatus(cur.id, "processing")
        /\ wpc' = "waiting"
        /\ UNCHANGED cur
     \/ /\ "db" \in Faults
        /\ SetStatus(cur.id, "processing") \/ UNCHANGED status
        /\ Release
  /\ UNCHANGED <<retries, due, queue, submitting, loader, phase, restarts, history>>

\* rateLimiter.Wait fails as soon as the pool's context is cancelled, and
\* processJob returns without touching the row again.
RateLimit ==
  /\ Alive
  /\ wpc = "waiting"
  /\ IF phase = "running"
     THEN wpc' = "running" /\ UNCHANGED cur
     ELSE Release
  /\ UNCHANGED <<rows, queue, submitting, loader, phase, restarts, history>>

BodySucceeds ==
  /\ Alive
  /\ wpc = "running"
  /\ wpc' = "succeeded"
  /\ served' = served \cup {cur.id}
  /\ UNCHANGED <<rows, queue, submitting, loader, cur, phase, restarts, failures>>

CountFailure(j) ==
  failures' = [failures EXCEPT ![j] = IF @ < Budget(j) THEN @ + 1 ELSE @]

BodyFails ==
  /\ Alive
  /\ wpc = "running"
  /\ wpc' = "failed"
  /\ CountFailure(cur.id)
  /\ UNCHANGED <<rows, queue, submitting, loader, cur, phase, restarts, served>>

\* An error of the UPDATE is only logged: the row stays as it is.
MarkJobCompleted ==
  /\ Alive
  /\ wpc = "succeeded"
  /\ SetStatus(cur.id, "completed") \/ ("db" \in Faults /\ UNCHANGED status)
  /\ Release
  /\ UNCHANGED <<retries, due, queue, submitting, loader, phase, restarts, history>>

\* Mutants of RetriesExhausted: one retry too few, one too many.
ExhaustedEarly(copy) == copy.retries + 1 >= MaxRetries[copy.id]
ExhaustedLate(copy)  == copy.retries > MaxRetries[copy.id]

\* RetryJob looks at the counter of the copy, not at the row's.
RetriesExhausted(copy) == copy.retries >= MaxRetries[copy.id]

\* Mutant of MarkJobFailed: the wrong status is written.
MarkJobFailedAsDone(j) == SetStatus(j, "completed") /\ UNCHANGED <<retries, due>>

MarkJobFailed(j) ==
  /\ SetStatus(j, "failed")
  /\ UNCHANGED <<retries, due>>

\* Mutant of IncrementJobRetries: status = 'pending' is forgotten.
IncrementOnly(j) ==
  /\ retries' = [retries EXCEPT ![j] = @ + 1]
  /\ due' = [due EXCEPT ![j] = FALSE]
  /\ UNCHANGED status

\* retries = retries + 1, status = 'pending', next_run_at in the future.
IncrementJobRetries(j) ==
  /\ SetStatus(j, "pending")
  /\ retries' = [retries EXCEPT ![j] = @ + 1]
  /\ due' = [due EXCEPT ![j] = FALSE]

RetryJob ==
  /\ Alive
  /\ wpc = "failed"
  /\ \/ RetriesExhausted(cur) /\ MarkJobFailed(cur.id)
     \/ ~RetriesExhausted(cur) /\ IncrementJobRetries(cur.id)
     \/ "db" \in Faults /\ UNCHANGED rows
  /\ Release
  /\ UNCHANGED <<queue, submitting, loader, phase, restarts, history>>

-----------------------------------------------------------------------------
(* The process: Manager.Stop stops the pool, waits for the worker, stops   *)
(* the loader, waits for it, and closes the channel.                       *)

SetPhase(p) ==
  /\ phase' = p
  /\ UNCHANGED <<rows, queue, submitting, loader, worker, restarts, history>>

\* Whoever ends the process starts it again: it ends MaxRestarts times.
MayEnd(fault) == fault \in Faults /\ restarts < MaxRestarts

StopPool   == MayEnd("stop") /\ phase = "running" /\ SetPhase("stoppingPool")
\* Mutant of StopQueue: the worker is not waited for.
StopQueueAtOnce == phase = "stoppingPool" /\ SetPhase("stoppingQueue")

StopQueue  == phase = "stoppingPool" /\ wpc = "exited" /\ SetPhase("stoppingQueue")
CloseQueue == phase = "stoppingQueue" /\ lpc = "exited" /\ SetPhase("stopped")

\* Everything in memory is gone; the rows stay.
ProcessEnds ==
  /\ phase' = "down"
  /\ queue' = <<>>
  /\ submitting' = {}
  /\ lpc' = "idle" /\ space' = 0 /\ batch' = {}
  /\ Release
  /\ UNCHANGED <<rows, restarts, history>>

\* main returns after the deferred calls, or is killed before.
Exit  == phase = "stopped" /\ ProcessEnds
Crash == MayEnd("crash") /\ Alive /\ ProcessEnds

\* cron.Stop does not wait for running cron jobs: one that is between
\* CreateJob and the send then sends on a closed channel and panics.
SendOnClosed == Closed /\ submitting # {} /\ ProcessEnds

Restart ==
  /\ phase = "down"
  /\ restarts < MaxRestarts
  /\ restarts' = restarts + 1
  /\ phase' = "running"
  /\ UNCHANGED <<rows, queue, submitting, loader, worker, history>>

-----------------------------------------------------------------------------

LoaderStep == LoadTick \/ LoadQuery \/ LoadPush \/ LoaderExit

WorkerStep ==
  \/ Take \/ WorkerExit
  \/ MarkJobProcessing \/ RateLimit
  \/ BodySucceeds \/ BodyFails
  \/ MarkJobCompleted \/ RetryJob

ProcessStep == StopQueue \/ CloseQueue \/ Exit \/ SendOnClosed \/ Restart

Next ==
  \/ \E j \in Jobs : CreateJob(j) \/ EnqueuePush(j) \/ BackoffElapses(j)
  \/ LoaderStep
  \/ WorkerStep
  \/ ProcessStep \/ StopPool \/ Crash

Spec == Init /\ [][Next]_vars

\* The Go scheduler runs every goroutine that can run, the ticker ticks and
\* time passes.  A body is assumed to end.  A deployment restarts the process
\* when it ends; nobody has to submit, stop or kill anything.
Fairness ==
  /\ \A j \in Jobs : WF_vars(EnqueuePush(j)) /\ WF_vars(BackoffElapses(j))
  /\ WF_vars(LoaderStep)
  /\ WF_vars(WorkerStep)
  /\ WF_vars(ProcessStep)

FairSpec == Spec /\ Fairness

-----------------------------------------------------------------------------
(* Safety.                                                                 *)

Copies ==
  {queue[i] : i \in DOMAIN queue} \cup batch \cup (IF cur = NoJob THEN {} ELSE {cur})

\* A copy never carries a higher retry counter than its row, however many
\* copies of the row are about and however old they are.  RetryJob decides
\* from the copy's counter, so this is what makes giving up safe.
CopiesNotAhead == \A c \in Copies : c.retries <= retries[c.id]

\* A row is marked failed only after the body was executed, and failed, once
\* and MaxRetries times more: neither stale copies, errors of the database nor
\* restarts make RetryJob give a task up early.
GivenUpOnlyAfterBudget ==
  \A j \in Jobs : status[j] = "failed" => failures[j] = Budget(j)

\* A row is marked completed only if a body of that very task succeeded.
CompletedWasServed == \A j \in Jobs : status[j] = "completed" => j \in served

\* Until the process is first stopped or killed, and if the database reports no
\* errors, a processing row is always the one in the worker's hands, so no row
\* is left in a state from which GetPendingJobs never takes it.
ProcessingIsOwned ==
  "db" \notin Faults /\ restarts = 0 /\ phase = "running" =>
    \A j \in Jobs :
      status[j] = "processing" =>
        /\ cur.id = j
        /\ wpc \in {"waiting", "running", "succeeded", "failed"}

\* Manager.Stop: once the loader is told to stop no task is being executed,
\* and when the channel is closed neither goroutine can touch it any more.
ShutdownOrder ==
  /\ phase \in {"stoppingQueue", "stopped"} => wpc = "exited"
  /\ phase = "stopped" => lpc = "exited" /\ batch = {}

\* max_retries is exceeded when a row has stale copies, but never by more
\* than the copies that memory can hold, in the channel, the worker's hands
\* and the loader's batch, less the one retry that was due anyway.
RetriesOverrunBounded ==
  \A j \in Jobs : retries[j] <= MaxRetries[j] + Capacity + 1

\* The promise of module JobService, with the history variables as the
\* abstract state: served tasks stay served, whatever their row says later.
Outcome(j) ==
  IF j \in served THEN "served"
  ELSE IF status[j] = "none" THEN "unknown"
  ELSE IF status[j] = "failed" THEN "givenUp" ELSE "accepted"

Service ==
  INSTANCE JobService WITH
    Tasks   <- Jobs,
    Tries   <- [j \in Jobs |-> Budget(j)],
    outcome <- [j \in Jobs |-> Outcome(j)],
    failed  <- failures

\* The queue implements the service, faults and restarts included.
ImplementsService == Service!Spec

-----------------------------------------------------------------------------
(* Liveness, under FairSpec.                                               *)

Settled(j) == status[j] \in {"completed", "failed"}

\* If the process is never stopped or killed and the database reports no errors,
\* every submitted task is settled for good: also one whose copy found the
\* channel full, and whatever stale copies still do to it.
EventuallySettled ==
  "db" \notin Faults =>
    \A j \in Jobs :
      [](phase = "running") => <>[](status[j] = "none" \/ Settled(j))

\* A pending row survives whatever happens to the process: it is eventually
\* taken up by the worker.
PendingIsTaken ==
  \A j \in Jobs : status[j] = "pending" ~> status[j] # "pending"

-----------------------------------------------------------------------------
(* What the documentation says and the code does not do.                   *)

\* PROGRESS.md on the table jobs: reliability of asynchronous tasks, pending
\* tasks are loaded from the database.  A task whose worker was stopped in
\* the middle would then be taken up again after the restart.
InterruptedIsResumed ==
  \A j \in Jobs : status[j] = "processing" ~> Settled(j)
=============================================================================
