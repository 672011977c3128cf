# Specifications of wjdr-backend-go

TLA+ modules, TLC configurations and TLAPS proofs for the backend that redeems
gift codes for a set of game accounts. Every definition that stands for code is
translated from the Go source and its SQL; `PROJECT.json` gives the file and
the lines of each.

    tlc -workers 2 -config JobQueueFaults.cfg MCJobQueue.tla
    tlapm JobQueueProofs.tla

## 1. The system

One Go process in front of a MySQL database. It logs accounts in at the game's
API, has the captcha read by an OCR service, and redeems a code for every
verified account. All of it is asynchronous: a request inserts rows and
enqueues a task, a single worker executes it minutes later.

| component | state | operations | hard behaviour |
|---|---|---|---|
| **task queue** `worker/job_queue.go`, `repository/job_repository.go` | rows of `jobs` (status, retries, next_run_at); channel of 100 copies | `Enqueue` (row, then a non-blocking send), loader every 10 s, `RetryJob` with back-off, status updates, `Stop` | rows and copies differ: the loader reads rows whose copy is still queued, so a row has several copies of different age; a full channel drops a copy; errors of updates are logged only |
| **worker pool, manager** `worker/worker_pool.go`, `worker/manager.go`, `main.go` | the worker's task; started, stopped; context | `worker`, `processJob`, `Start`, `Stop`; process start, stop, crash | order of shutdown; a task dropped in the middle leaves its row in `processing` |
| **task bodies** `worker/worker_pool.go` | `redeem_codes` (status and counters), `redeem_logs` | `processRedeemJob`, `processSupplementRedeemJob` | long sequences of statements without a transaction, interleaved with the administration of the same rows; tasks run more than once |
| **redeem codes** `service/redeem_service.go`, `repository/redeem_repository.go` | `redeem_codes` | submit, retry (supplement), delete, bulk delete | row and task are two steps |
| **redeem logs** `repository/log_repository.go` | `redeem_logs` | replace (delete and insert in a transaction), statistics | |
| **accounts** `service/account_service.go`, `repository/account_repository.go` | `game_accounts`, and the counters of codes when an account is deleted | create, verify, delete, bulk delete, `FixAllRedeemCodeStats` | contributions are read before they are deducted, and logs are written in between; deletions lock rows of codes in the random order of a map, deadlock, and are tried three times |
| **batch scheduler** `client/automation_service.go` `RedeemBatch` | per account: cooldowns, attempts in this cycle, next ready time, finalized; results | `pickNext`, `tryOnceNoCooldown`, rest, cool down, finalize | every answer of the game in any order; two counters that limit one thing; must end |
| **single redemption** `client/automation_service.go` `RedeemSingle` | the gate (channel of one place); the attempt | log-in, captcha, OCR, redemption, re-login | several goroutines share one client; a dozen early returns |
| **game client** `client/game_client.go` | `fid` of the last log-in | `Login`, `GetCaptcha`, `RedeemCode` | `fid` is shared |
| **cron jobs** `service/cron_service.go` | - | refresh accounts, clean codes, supplement, fetch the feed, monthly quota reset | overlap with each other, with requests and with the worker; the cleaning works for minutes on a list it has read; not awaited at shutdown |
| **feed (RSS)** `service/cron_service.go`, `repository/rss_repository.go` | rows of `processed_articles` | fetch, submit the codes of an article, mark it | an article is marked once, whatever became of its codes; a fetch started by hand overlaps a scheduled one |
| **OCR keys** `client/ocr_manager.go`, `service/ocr_key_service.go`, `repository/ocr_key_repository.go`, `handler/ocr_key_handler.go` | rows of `ocr_keys` (weight, quota, flags); weighted list in memory | pick, recognise, charge, mark, change by a request, list and reload, monthly reset | changing, reading and reloading are three steps of several goroutines; the list is weighted with values that `pick` does not add |
| administrators, HTTP, OCR clients, configuration | | | requests of one or two statements on tables of their own; pure input and output |

How they interact: handlers and cron jobs call the services; the services call
repositories and `Manager.SubmitRedeemTask` or `SubmitSupplementTask`, which
call `JobQueue.Enqueue`; the worker calls `RedeemSingle` (to verify a code with
one account first) and `RedeemBatch`; these share the game client, through the
one `AutomationService`, with log-ins of account creation and verification and
with the nightly cleaning of codes. Everything else is shared through rows.

What makes each correct: the queue neither loses nor gives up a task early,
and says completed only of what was served; the counters of a code agree with
its logs, logs claim no success the game did not grant, and a submitted code is
processed; a deletion of accounts happens wholly or not at all, wholly if it says
so, and ends; a
batch returns one result for every account after a limited number of attempts; a
single redemption ends, opens the gate, and redeems for its own account; the
keys in memory come to agree with their rows, each has its turn, and a rejected
one leaves; no code of the feed is passed over, and the cleaning deletes what
has expired and nothing that is valid.

`PROJECT.json` lists all components with what is left out of each, and the
hazards with their lines and the properties that watch them.

## 2. The modules

### JobQueue - rows, channel, loader, worker, life cycle

Rows are functions on task numbers (`status`, `retries`, `due`); `queue`,
`batch` and `cur` hold *copies*, records of an id and the retry counter the row
had when the copy was made. One action for each statement or channel operation:

| action | code |
|---|---|
| `CreateJob`, `EnqueuePush` | `Enqueue`: the INSERT, then the send or the default branch |
| `LoadTick`, `LoadQuery`, `LoadPush`, `LoaderExit` | `loadPendingJobs`, `loadBatch`: ticker and space, SELECT ... LIMIT, a send for each row, `<-ctx.Done()` |
| `BackoffElapses` | `next_run_at` passes |
| `Take`, `MarkJobProcessing`, `RateLimit`, `BodySucceeds`, `BodyFails`, `MarkJobCompleted`, `RetryJob`, `WorkerExit` | `worker`, `processJob`, `RetryJob` |
| `StopPool`, `StopQueue`, `CloseQueue`, `Exit` | the deferred `Manager.Stop` |
| `Crash`, `SendOnClosed`, `Restart` | kill; a send on the closed channel by a cron job that `Stop` does not await; the next start |

Errors of the database are a branch of the actions that update or select, when
`"db"` is among the `Faults`. The payload and type of a task are those of its
row and are left out; what the body does is module RedeemTask. `served` and
`failures` are history variables.

### JobService - what the queue promises

Tasks are accepted, served or given up; giving up takes the whole grant of
failed attempts, and what was served stays served. `JobQueue!ImplementsService`
maps rows and history onto it: a *given-up* task may be resumed, because a
stale copy of a failed row is still executed.

### RedeemTask - the bodies and the tables

The worker's program counter `wpc` steps through `processRedeemJob` and
`processSupplementRedeemJob` one statement at a time; `code`, `stats`, `log`
and `account` are the tables, `claimed` is what the game server has given. The
requests and cron jobs that touch the same rows are actions of their own:
submission in two steps, supplement, deletion of codes, creation and
verification of accounts, deletion of accounts as a transaction that reads
(`ReadContribution`) and later writes (`DeleteAccounts`, `RollBackDeletion`),
repair of the counters (`ReadLogStats`, `FixRedeemCodeStats`). MySQL is assumed
at its default isolation, snapshot reads and writes to the latest row. The
schema of these tables is not in the repository: an insert that refers to a
missing row may succeed or fail. An error of a statement that writes may come
with its effect or without it (`MarkProcessing`, `PreVerifyFatal`,
`MarkCompleted`): the answer may be lost.

The calls of the automation service, `PreVerify` and `RedeemBatch`, are one step
each, of minutes. During them creation, verification and refresh of accounts and
the cleaning of codes may log in through the same client and change `fid`
(game_client.go:349), which the next captcha and redemption of the call use
(line 512), so the gift goes to another account than the one the result names.
With the disturbance `"login"` the step therefore chooses whom others log in
(`foreign`), and for each reported success the account the gift really goes to:
the account itself or one of those, each gift to one account and once
(`Injection`). Log-in and request interleave in any way, so nothing narrower
than this choice is sound. `mixed` is the history of the codes with such a batch.

`exact` is the set of codes whose counters should equal their logs. It loses a
code at exactly the events that let them differ in the code as it is: a result
logged (the counters follow at the end), a statement that failed, a worker, a
repair or a deletion that wrote counts read before somebody else's write, and a
redeem task that runs again for fewer accounts than have logs. It gains the
code at an undisturbed end of a task or repair.

### AccountDeletion - several deletions and their transactions

`Delete` and `BulkDelete` as called by `DeleteAccount` and `BulkDeleteAccounts`.
`logs` is a set of pairs, `counter` the totals of the codes; each call has its
`pc`, its `attempt`, the map of contributions (`delta`), the rows of codes it
has locked (`rows`) and the one it waits for (`want`).

| action | code |
|---|---|
| `Check` | `FindAccountByID` before a single deletion |
| `Aggregate` | the SELECT of what the accounts contribute, `delMap` |
| `Remove` | DELETE of logs and accounts, once no transaction holds them |
| `NextCode`, `Update` | the loop over the map: UPDATE with GREATEST, code by code |
| `Commit` | the commit, at which everything becomes visible; its answer may be lost, the call then ends as `"unanswered"`, an error to its caller |
| `Deadlock`, `Over` | a circle of waiting transactions; the `continue` of the wrong loop, then an error of the finished transaction |
| `Refused`, `Failed`, `Retry` | other deadlocks and expired waits, errors before the commit has been applied, the pause and the next attempt |

`AtomicDeletion` is what the callers are promised: a deletion happens at an
instant, with its logs and its share of the counters, or not at all. Success
means that it has happened; an error does not say which, since `tx.Commit` also
returns an error when the database has committed and its answer is lost
(account_repository.go:310, 443). Only a call that another deletion of one of its
accounts has overtaken may deduct too much. `ImplementsAtomicDeletion` maps the
committed tables onto it, a call that has not returned onto `"open"`, one that
was not answered onto `"failed"`, and `outdated` onto `overtaken`.

Locks are those of InnoDB: a row that was written stays locked until the end of
the transaction. RedeemTask has the same deletion with one attempt, beside the
worker; here there are several, and the worker is a clash.

### CronJobs - the feed and the cleaning

`content` says which codes an article has, `game` what the game knows of a code:
unknown, live, expired, in this order. `row` is `redeem_codes` by id; `unique`
says whether its code has a unique key, which the repository does not show, so
both are checked. `FetchAndProcessRSS` and the submissions of handlers run in the same
kind of goroutine, one statement at a time: `Fetch`, `IsProcessed`,
`OpenArticle`, `SubmitNext`, then `FindRedeemCodeByCode`, `CreateRedeemCode` or
`CreateDuplicate`, `SubmitRedeemTask`, and `MarkProcessed`, `EndFetch`.
`ListCodes`, `CheckCode`, `EndCheck` and `BulkDelete` are
`cleanExpiredRedeemCodes`. `Crash` drops whatever was in memory.

### OcrKeys - rows, list in memory, weighted choice

`row` is the table, `mem` and `total` are the fields of `OCRKeyManager`; `pick`
is `Best` and `Choose`, with the current values kept relative to the largest,
since only their order and differences matter. A caller has recognitions made
(`Start`, `Pick`, `PickNone`, `Recognise`, `MarkQuota`) or changes keys
(`CreateKey`, `UpdateKey`, `DeleteKey`, `ResetMonthlyQuota`); both then read the
usable keys and load them (`ListUsable`, `Reload`, `Fail`), three steps during
which others do the same. A change may patch several fields at once (`Patches`).
The history `lapsed` says that a read failed or a list was loaded over a newer
one: the two ways in which memory stays behind the table. `EffWeight` divides
integers where the code multiplies floating-point numbers and truncates, so the
code may be one below where the quotient is exact, and never below the weight.

### RedeemBatch - the scheduler

One action for `pickNext`, one for an attempt, one for a ready time that
passes. `TryOnce` computes the outcome of an attempt from the answers to its
calls, and `TryOutcomes` is what it can yield over all of them. Three seconds
and sixty are both "later": the order in which resting accounts become ready is
not restricted, which is more than the clock allows.

### RedeemSingle - flows over one client

Gated flows run `RedeemSingle` (the pre-verification of a task, the cleaning
job); direct flows are an attempt of a batch and log-ins for creating or
verifying an account, which go around the gate. `fid` is the client's field. A
re-login is one action with two parameters that say how the calling branch goes
on: which answers end the flow (`giveUp`) and whether a refusal is tried a
second time (`oncemore`).

## 3. The runs

Every property of a passing run has a mutant in `PROJECT.json`, a plausible
error in one mapped definition under which TLC finds it violated.

| run | instance | what it shows |
|---|---|---|
| JobQueueFaults | 2 tasks, 1 retry each, capacity 1, all faults, 1 restart; 1.15 M states | type; copies are never ahead of rows; failed only after the whole budget; completed only if served; order of shutdown; `retries` overruns `max_retries` by at most capacity + 1; JobQueue implements JobService |
| JobQueueLive | 2 tasks with 1 and 0 retries, stop, crash, 1 restart; 108 k | every pending row is taken, across restarts; in a process that keeps running every task is settled for good and no `processing` row is without its worker |
| RedeemTaskRaces | 1 code, 2 accounts, errors with and without effect, crashes, deletions, repairs; 4.5 M | counters agree with logs whenever they should |
| RedeemTaskLive | the same with reruns, deletions and log-ins of others; 674 k | a logged success is true unless somebody else logged in during the batch; there are never more logged successes than gifts; a submitted code is completed or deleted as long as there is a verified account |
| RedeemBatch | 2 accounts; 701 k | one result for each account; at most nine failed attempts; the batch ends |
| RedeemSingle | 2 gated and 2 direct flows; 435 k | at most three redemptions; no try after the third, although comments announce it; the right account while nobody goes around the gate; every flow ends |
| AccountDeletion | 2 deletions, 2 accounts, 2 codes, 3 attempts, 3 clashes; 202 k | counters keep to the logs, unless two calls delete one account; all or nothing, and all if it succeeds; it implements AtomicDeletion; some call can always go on; every deletion ends |
| CronJobs | 1 code, 1 article, 2 goroutines, 1 request, 1 fault; 466 k | marked articles have been handled; duplicates come from overlapping submissions only; the cleaning spares what is valid; every article is marked and every expired code cleaned at last |
| OcrKeys | 2 keys, 1 flow, 1 request, 4 events; 1.2 M | the list comes to agree with the table; no key starves; a rejected key is dropped |

The remaining runs check a statement of the documentation that the program does
not keep; TLC's counterexample is a behaviour of the code:

| run | statement | what happens |
|---|---|---|
| JobQueueLost | tasks are reliable (PROGRESS.md:26) | a task cancelled while it waits for the rate limiter stays `processing`; the loader selects `pending`. One stop can strand several: the select of the worker may prefer the channel to the cancelled context again and again, and the loader goes on filling it. A kill strands at most one (`KillStrandsOne`) |
| RedeemTaskStranded | "retry by hand" (redeem_service.go:102) | retrying demands `completed`, so a code without a task cannot be retried |
| RedeemSingleBatch | one account at a time (automation_service.go:22) | a batch does not take the gate, so the code may be redeemed for whoever logged in last |

More statements that do not hold, found while modelling and not given a run:

* *Queue.* job_queue.go:129 takes `max_retries` for a maximum: two copies with the
  same counter are both retried, up to the bound of `RetriesOverrunBounded`.
  README.md:59 speaks of idempotency: there is no key, and a served task is run
  again by a stale copy. PROGRESS.md:10 promises a graceful shutdown:
  `SendOnClosed` panics.
* *Single redemption.* Comments and log messages of `RedeemSingle` announce a
  further try after the third attempt: "冷却60秒并重新登录后再试一次"
  (automation_service.go:320, 356, 531), "冷却后再获取一次验证码" (330, 366),
  "继续下一轮（外层 for 会迭代）" (541). The flow does wait for a minute and log in
  once more, but the `continue`, or the end of the body, then ends the loop, and the
  flow returns `retry_exhausted`. `RedeemedThreeTimes` is the limit the loop sets;
  `AnnouncedTryNeverComes` says that the announced try is not made, on any path.
* *Tasks.* A log says "账号 %s 已成功兑换奖励" (worker_pool.go:293) of the account of
  the result, while the game has given the gift to the account in `fid`: after a
  log-in of another goroutine between the log-in and the redemption
  (automation_service.go:823-896) that is another one. worker_pool.go:271 has
  results written once: a rerun replaces them. account_service.go:288 has counters
  that need no repair: a deletion during a batch makes them drift.
* *Batch.* README.md:60 and PROGRESS.md:51 have fatal errors short-circuit: only
  the account ends, the others are still tried. README.md:60 has at most three
  captcha attempts: there are three cycles of three.
* *Deletions.* account_repository.go:332 announces that deadlocks are retried. A
  deadlock in the loop over the counters, the one place where two deletions can
  have one, is not: the `continue` goes on with the inner loop, whose next
  statement finds the transaction rolled back, and the call fails (`Over`). The
  loop over the contributions has the same flaw, and the error after all attempts
  cannot be reached. Two deletions of the same account deduct it twice (`doubled`).
* *Keys.* main.go:221 promises that the list follows every change. The handlers
  drop the error of a reload, and an outdated list may be loaded last, so a
  deleted or disabled key can return until the next change (`lapsed`). A key is
  marked as without quota one call early, since MySQL computes the second column
  of the UPDATE from the new value of the first (ocr_key_repository.go:185). A
  failed recognition is meant to try the next key: the round-robin may choose the
  same. The monthly reset, said to enable keys, disables those whose monthly
  quota is zero. A key of paddle, said not to be charged, is charged when its
  provider cannot be read. A large remaining quota raises only `total` and does
  not raise the share of its key (ocr_manager.go:70).
* *Feed and cleaning.* An article is marked although a submission of one of its
  codes returned an error, and the code does not come again
  (cron_service.go:338). A code whose article appears before the game knows it is
  cleaned as unknown, and its article is not read again either (`early`).

### Bounds, and why they are enough

* Queue: two tasks compete for one place of the channel, so sends are dropped,
  the loader finds no space, and two copies of one row are in memory beside
  another task. One retry gives every row both branches of `RetryJob`; the
  second configuration gives one task none. One restart reaches every state a
  process can leave behind; the proofs cover any number.
* Tasks: one code, because tasks of different codes share only the worker, which
  runs them one after the other, and accounts. Two accounts make a supplement
  differ from a redemption, and let one be deleted while the other is logged.
  The log-ins of others, and tasks that run twice, are in RedeemTaskLive only: they
  change results and gifts, and no counter or log on which `StatsMatchLogs`
  depends but through the results, which are any without them too. An error of the
  statement that completes a code makes its task run again in RedeemTaskRaces.
  `CHECK_DEADLOCK FALSE` in these configurations: everything may be done or
  deleted, and then nothing is left to do.
* Batch: two accounts are one to prefer and one to starve. `Saturation = 3`,
  since the code only asks whether the attempts have reached three.
* Single: two gated flows contend for the gate, and two direct ones can take
  the client from them and from each other.
* Deletions: two calls over two codes make a circle of waiting transactions, and
  all ways for the accounts of two calls to be the same, overlap or be apart.
  Three clashes are what the third attempt of one call takes. Three calls with one
  clash give 1.34 M states and also pass.
* Cron jobs: each of the two goroutines may fetch the feed or serve a request, so
  two fetches overlap, and a fetch and a request. One fault or crash falls
  between any two steps; one request deletes a row or submits a code once more.
* Keys: weights of one and three make a key wait for several turns; a quota of two
  falls to one, where a key is marked, and to zero. A flow beside a request, with
  four events, has two reloads cross and a third that repairs the list. Key 1 is
  always rejected by its provider, key 2 answers in every way.
  `CHECK_DEADLOCK FALSE` for keys and cron jobs: without keys, or with all
  articles marked and no requests left, there is nothing to do.
* Counters of history (`failures`, `busies`, `captchas`, `redeemed`) stop one
  above, or at, the value the properties compare with.

### Fairness, and why the code justifies it

* Goroutines that can run do run, tickers tick and time passes: weak fairness of
  the loader, the worker, an `Enqueue` that has begun, the back-off, a flow and
  `pickNext`.
* HTTP calls have a timeout, so attempts and bodies end: weak fairness of them.
* `JobQueue!FairSpec` lets a process that has ended be restarted, as by a
  service manager. Stopping, crashing and errors are never fair.
* RedeemTask: strong fairness of running a submitted task, which is what
  JobQueue's `PendingIsTaken` says of a channel served in order.
* AccountDeletion: weak fairness of each call; MySQL resolves every circle of
  waiting transactions. Clashes and errors are never fair.
* CronJobs: weak fairness of the schedule, three fetches a day and a cleaning each
  night, and of a submission that has begun. No request, fault or crash is fair.
* OcrKeys: weak fairness of a flow, since captchas keep coming, and of a reload
  that has begun. Nobody has to change a key.
* RedeemBatch: the game does not answer each attempt of an account with a lost
  session or too many captchas for ever. The scheduler has no limit for these
  two, and the batch does not end without the assumption.

## 4. The proofs

| module | theorems | for every |
|---|---|---|
| JobQueueProofs | `TypeCorrect`, `CopiesNeverAhead`, `BudgetIsSpent`, `CompletedImpliesServed`, `NoOrphansWithoutFaults`, `StopsInOrder`, `QueueImplementsService` | number of tasks, retry budgets, capacity, set of faults, number of restarts |
| JobQueueBoundProofs | `OverrunIsBounded`, `LoaderRoundsEnd`, `KillStrandsOne` | the same |
| RedeemBatchProofs | `BatchTypeCorrect`, `BatchIsComplete`, `NineFailuresAtMost`, `PickFindsSomebody`, `BatchRunsOut` | number of accounts, saturation of at least three |
| RedeemSingleProofs | `FlowsTypeCorrect`, `ThreeRedemptionsAtMost`, `GateKeepsAccount`, `NoTryAfterTheThird`, `GateNeverBlocks`, `FlowsAdvance` | sets of flows |
| RedeemTaskProofs | `TaskTypeCorrect`, `CountersCanBeTrusted`, `LoggedSuccessIsTrue`, `LoggedSuccessesWereGiven`, `SupplementReplacesNothing`, `BodiesEnd`, `RecordsAreFinal`, `QuietCountersAreExact` | finite sets of codes and accounts, sets of disturbances |
| AccountDeletionProofs | `DeletionTypeCorrect`, `CountersStayExact`, `DeletionIsAtomic`, `DeletionIsLinearizable`, `DeletionsNeverStuck`, `DeletionsAdvance` | finite sets of accounts, codes and calls, number of attempts and clashes |
| CronJobsProofs | `CronTypeCorrect`, `DuplicatesOnlyOverlapping`, `MarkedOnlyWhenHandled`, `CleaningDeletesGoneOnly`, `CronJobsEnd` | finite sets of codes and articles, sets of goroutines, number of requests and faults |
| OcrKeysProofs | `SpecTypeOK`, `SpecReloadsConverge`, `SpecNoKeyStarves` | number of keys, sets of callers, weights and quotas, number of events |

The assumptions are those of the modules on their constants, which TLC
evaluates in the runs.

*JobQueue.* `BudgetIsSpent` is the deepest: `RetryJob` compares a copy's counter,
possibly outdated, and yet no row is marked failed early. The inductive
invariant joins: no copy is ahead of its row (`CopiesNotAhead`); every increment
of a row's counter was paid for by a failed body, the failure in the worker's
hands not yet counted (`RetriesArePaid`); a task whose status is about to be
written is the row's own (`RowIsProcessing`); what a row marked completed and a
worker that has succeeded know (`CompletedWasServed`, `SuccessIsServed`); the
loader holds a batch only while it pushes (`LoaderHoldsBatch`); and the order of
shutdown. None of them is inductive alone. The refinement needs the invariant
for `GiveUp`, and that rows never go back to not existing.

*RedeemBatch.* `FailuresBounded` is not inductive. The invariant relates the
failures of an unfinished account to both counters: at most three for each
cooldown plus those of the cycle under way, which are at most two, and fewer
than three cooldowns. A lost session between two wrong captchas raises the
cycle's counter without a failure, hence an inequality. For completeness the
account being tried is not yet finished, so a finite set grows by one element.

*RedeemSingle.* Whoever is underway behind the gate fills it, so at most one is;
until a direct flow starts, only that one overwrites `fid`. For the number of
redemptions each attempt has sent the code at most once, and not at all before
it has come that far. All branches of the captcha and the redemption are first
shown to leave the attempt in one of three ways (`Leaves`). A flow that is at a
log-in, or over, in its third attempt stays so with every step (`Spent`), which is
why the try that comments announce never comes.

*The overrun of retries.* Its own module, since it counts. A copy can spend a
retry only if its own counter is below `max_retries` (`Spendable`), so once the
counter of the row is not, the loader makes no such copies any more, and each
retry uses up one that is there. What has to be shown is how many there can be at
that moment (`Slack`): no more than fit in the channel, and one more. The loader
adds one only after it saw space, and between that look and its query only the
first copy of the row, which is still being submitted, can come to the channel.
Counting slots of a sequence is done with injections and intervals.

In the same module: a round of the loader reads no more rows than there was
space for (`OldestBound`: all rows that LIMIT n lets through, but the last, come
before the last), has a copy to push until it is over, and loses one with each
push (`LoaderRoundsEnd`). And if the process only ends by kills, each of them
leaves at most one row in `processing` that nobody works on (`KillStrandsOne`):
with stops instead of kills TLC finds two after one stop, which is why the
theorem says so.

*RedeemTask.* `StatsMatchLogs` needs to know what the numbers in the worker's,
a repair's and a deletion's hands are worth, while the logs they were counted
from go on changing: unless somebody made them stale, they are the counts of the
logs as these are now, and a worker's results are the logs it has written so far
(`RunKnows`, `FixKnows`, `DelKnows`, `ExactMatch`, together `Trusted`). Logs of
codes that are not there yet, and of a run that has not begun, are empty
(`Unlogged`, `Newborn`). `SuccessIsTrue` needs the same of
results that are not logged yet (`ResultsTrue`). `SuccessesWereGiven`, which log-ins
of others do not disturb, counts: the logged successes and those the worker still has
to write are together no more than the gifts (`Backed`). A batch adds to the latter
as many gifts as to the former successes, which is what the injection of
`RedeemBatch` gives, and writing a log moves a success from one place to the other.

`exact` is a history variable, and one may ask whether it forgives too much.
`QuietCountersAreExact` does without it: if there is no disturbance but the log-ins
of others, the counters of every code nobody works on equal its logs. `RecordsAreFinal` says that a
recorded result is never replaced by a different one when no statement fails,
nothing crashes and no task runs again (`Calm`); deletions and repairs are
allowed. It rests on two facts about the tasks of a code, that the redeem task is
submitted once and is gone when the code is completed (`Once`), and that a code
has no logs before its first body writes them (`FirstLogs`). Both hypotheses are
as weak as they can be in these terms: TLC finds a counterexample to the first
for each of the other five disturbances alone, and to the second for each of `"db"`,
`"crash"` and `"rerun"` alone.

*AccountDeletion.* A counter equals the logs because what a call is going to
deduct equals what it is going to delete (`ReadEnough`): nobody else deletes a log
of its accounts before it commits (`AccountsLocked`), and if somebody did before
it locked them, it knows (`outdated`).

The refinement (`DeletionIsLinearizable`) places the atomic deletion at the
commit, answered or not, which needs that by then a call has updated every counter
by what its logs contribute, though it read that long before; an attempt that reads
anew is `Start`, an error before the commit is `Fail`, and all other steps are
stutters, since what a
transaction has written is invisible until it commits.
`DeletionsNeverStuck` argues by the circle of waits: if all calls that are not
over wait for locks, each waits for another one of them, and of a smallest
nonempty set closed under waiting nobody can be left out, so that it is a circle
(`CircleOfWaits`), which the database breaks. `DeletionsAdvance` counts the steps
a call can still take, those of its attempt and those of the attempts it has left.

*CronJobs.* A goroutine that is about to submit a task, or has come to the end of
an article, has handled every code of the article that is not still to do; an id
the cleaning has read is never given again, so that what it deletes is the row it
checked or nothing, and a code it has found expired stays so, the game going one
way only. That submissions, fetches and cleanings end (`CronJobsEnd`) needs no
invariant but types and finite sets: a fetch has the steps of its codes before
it, and for each unread entry as many as all codes take.

*OcrKeys.* What a caller has read mirrors the table as long as no change has
outdated it; between the last change and the last reload either some caller still
has such a list, or memory has been loaded from one.

`NoKeyStarves` is about a sum, `total`, that the module takes by a fold over the
keys, and holds although `pick` adds the plain weights and charges a total `T` of
raised ones. With `d` for how far a key is behind the largest value, `w` for its
weight and `m` for the turns it has waited, `n` keys satisfy

    n * (d[k] + w[k] * m[k])  <=  (n - 1) * T + (the sum of all d)

for each k (`Balanced`), which every turn keeps (`TurnKeepsBalance`) and which
bounds every `m[k]` (`BalanceBoundsWaits`). The sum is the number of pairs of a key
and a unit of its value (`Units`), so that adding an element, comparing and
splitting sums are facts about cardinalities. The library's induction over finite
sets takes an operator as a parameter; the proofs use the well-foundedness of
strict inclusion instead, which takes a set (`SetInduction`).

*RedeemBatch and RedeemSingle: that they end.* In a batch each account has a
number of attempts left, three for each cooldown it has not had, less those of the
cycle under way; an attempt that counts lowers it, and an account without a
result has one left (`BatchRunsOut`), and is tried, ready or resting
(`PickFindsSomebody`). A lost session or too many captchas do not count: they are
what the fairness of RedeemBatch excludes. Whoever has filled the gate of the
client is underway behind it (`HolderInv`), so those that wait at the gate wait for
somebody who waits for nobody (`GateNeverBlocks`), and a call has at most 24
steps: three attempts of eight (`FlowsAdvance`).

*What these say of liveness.* The prover has no rules for fairness, so `FlowsEnd`,
`BatchEnds`, `EveryDeletionEnds`, `PublishedIsMarked`, `ExpiredIsCleaned`,
`SubmittedIsProcessed`, `PendingIsTaken`, `EventuallySettled` and
`RejectedKeyIsDropped` are checked
by TLC only, on the instances of section 3. For flows, deletions, batches, bodies,
fetches, cleanings and rounds of the loader the theorems give what a proof of
termination needs besides fairness, for every value of the constants: that
somebody can go on, or a bound on the steps that each of them lowers, or both.

Only model-checked, therefore: the temporal properties under fairness. All
invariants, action properties and refinements of the passing runs are theorems, and
so is `AnnouncedTryNeverComes`. `SupplementReplacesNothing`, that a supplement
never overwrites a result, is a theorem that no run checks.

## 5. Not modelled

* `SubmitRetryTask`, `CleanOldJobs`, `monitor`, `CreateRedeemLog`, tasks that name
  their accounts: nothing calls them.
* An error returned by `RedeemSingle` to the worker, which only arises if a
  request could not be built: failures of the network reach the flows as answers
  with error code 0, which the models class as "other".
* Administrators and tokens: requests of one or two statements on a table that
  nothing else reads. What they decide is who may call, and no property of the
  modelled parts depends on it.
* OCR clients and images: HTTP calls, and arithmetic on pixels; the models ask
  which class of answer comes back. The token of a Baidu key is cached with its
  loaded copy; that an invalid token (codes 110, 111) or too many calls a second
  (18) mark the key, is one of the answers of OcrKeys.
* Texts: how codes are found in an article, with an index into its upper-cased
  form used on the text itself (cron_service.go:310). An article has a set of codes.
* The nightly refresh of accounts as an action of its own: it calls
  `VerifyAccount`, which RedeemTask has, for one account after another.
* `rows.Err()` is never called in the repositories, so a result that breaks off in
  the middle is taken for a complete one. In a transaction of a deletion or a repair
  the connection is then lost, and the next statement fails: this ends like
  `Failed` or `RollBackDeletion`. Elsewhere (accounts of a task, pending rows, keys,
  codes to be cleaned) the program sees fewer rows than there are; the models
  have the error of the whole statement, and not the silent partial result.
* `doRequestWithRetry`, which repeats a request within one call of the game client;
  signatures, HTTP, formatting, configuration and the start of the database: no
  state that another step sees.

## 6. Plan

Done in this order: JobQueue with JobService and proofs; RedeemTask; RedeemBatch
and RedeemSingle with proofs; OcrKeys, AccountDeletion and CronJobs with proofs;
the proofs of RedeemTask and of the overrun of retries; the sum of OcrKeys;
AtomicDeletion; the theorems about steps that are left.

What would add most next: AccountDeletion and RedeemTask as one composition, in
which the worker's transaction that replaces a log takes part in the circles of
locks; an abstract specification of what a redeem code goes through, submitted,
processed, deleted, with RedeemTask shown to implement it; and that an outdated
list of keys is put right by the next change, as a step property of OcrKeys.
