----------------------------- MODULE RedeemTask -----------------------------
(***************************************************************************)
(* What a task does: the redeem and supplement bodies of the worker pool   *)
(* (internal/worker/worker_pool.go) over the tables redeem_codes,          *)
(* redeem_logs and game_accounts, interleaved statement by statement with  *)
(* what the HTTP handlers and the cron jobs do to the same rows: submitting*)
(* and deleting codes, creating, verifying and deleting accounts,          *)
(* requesting supplements and repairing the counters.                      *)
(*                                                                         *)
(* There is one worker (NewManager forces a single one).  When a task is   *)
(* run is the matter of module JobQueue: here a submitted task may be run, *)
(* after an error it may or may not be run again, and with the disturbance *)
(* "rerun" also a task that succeeded may be run again.                    *)
(*                                                                         *)
(* MySQL is assumed at its default isolation level: a transaction reads    *)
(* from a snapshot and writes to the latest rows.  The schema of these     *)
(* tables is not part of the repository, so an INSERT of a log whose code  *)
(* or account is gone may succeed or violate a foreign key.                *)
(***************************************************************************)
EXTENDS Naturals, FiniteSets, Functions

CONSTANTS
  Codes,        \* ids of redeem_codes rows
  Accounts,     \* ids of game_accounts rows
  Disturbances  \* what may happen besides, a subset of DisturbanceKinds

DisturbanceKinds ==
  { "db",        \* a statement returns an error, with or without its effect
    "crash",     \* the process is killed in the middle of anything
    "rerun",     \* the queue holds a second copy of a task that succeeded
    "login",     \* other goroutines log accounts in through the same client
    "deletion",  \* accounts are deleted, singly or in bulk
    "repair" }   \* FixAllRedeemCodeStats is called

ASSUME CodesAssumption        == IsFiniteSet(Codes)
ASSUME AccountsAssumption     == IsFiniteSet(Accounts)
ASSUME DisturbancesAssumption == Disturbances \subseteq DisturbanceKinds

VARIABLES
  code,        \* redeem_codes.status; "absent" before, "deleted" after
  stats,       \* redeem_codes.total_accounts, success_count, failed_count
  log,         \* redeem_logs: the result recorded for a code and an account
  account,     \* game_accounts: whether is_verified; is_active is never reset
  claimed,     \* game server: which account has received which code's gift
  mixed,       \* history: codes with log-ins of others during their batches
  submitting,  \* codes inserted whose task is not enqueued yet
  tasks,       \* submitted tasks that may still be run
  wpc,         \* where the worker is in the body of its task
  task,        \* the task it runs
  chosen,      \* the accounts it runs the task for
  results,     \* what RedeemBatch returned for them
  left,        \* results that are not written to the log yet
  recount,     \* what GetLogStats returned
  fix,         \* the transaction of updateRedeemCodeStats that is open
  del,         \* the transaction of Delete or BulkDelete that is open
  stale,       \* history: "run", "fix", "del" worked with outdated counts
  exact        \* history: codes whose counters should equal their logs

codeRows    == <<code, stats, log>>
game        == <<claimed, mixed>>
submissions == <<submitting, tasks>>
scratch     == <<chosen, results, left, recount>>
worker      == <<wpc, task, scratch>>
admin       == <<fix, del>>
history     == <<stale, exact>>
vars == <<codeRows, account, game, submissions, worker, admin, history>>

Statuses == {"pending", "processing", "completed"}
Results  == {"success", "failed"}
Tasks    == [kind : {"redeem", "supplement"}, code : Codes]
NoTask   == [kind |-> "none"]
NoTx     == [kind |-> "none"]
Zero     == [total |-> 0, success |-> 0, failed |-> 0]
NoResult == [a \in Accounts |-> "none"]
Counter  == 0 .. Cardinality(Accounts)
Stats    == [total : Counter, success : Counter, failed : Counter]

TypeOK ==
  /\ code \in [Codes -> Statuses \cup {"absent", "deleted"}]
  /\ stats \in [Codes -> Stats]
  /\ log \in [Codes -> [Accounts -> Results \cup {"none"}]]
  /\ account \in [Accounts -> {"absent", "verified", "unverified", "deleted"}]
  /\ claimed \subseteq Codes \X Accounts
  /\ mixed \subseteq Codes
  /\ submitting \subseteq Codes
  /\ tasks \subseteq Tasks
  /\ wpc \in {"idle", "verify", "mark", "batch", "log", "count", "write", "complete"}
  /\ IF wpc = "idle" THEN task = NoTask ELSE task \in Tasks
  /\ chosen \subseteq Accounts
  /\ results \in [Accounts -> Results \cup {"none"}]
  /\ left \subseteq chosen
  /\ recount \in Stats
  /\ fix = NoTx \/ fix \in [code : Codes, stats : Stats]
  /\ del = NoTx \/ del \in [accounts : SUBSET Accounts, agg : [Codes -> Stats]]
  /\ stale \subseteq {"run", "fix", "del"}
  /\ exact \subseteq Codes

Init ==
  /\ code = [c \in Codes |-> "absent"]
  /\ stats = [c \in Codes |-> Zero]
  /\ log = [c \in Codes |-> NoResult]
  /\ account = [a \in Accounts |-> "absent"]
  /\ claimed = {} /\ mixed = {}
  /\ submitting = {} /\ tasks = {}
  /\ wpc = "idle" /\ task = NoTask
  /\ chosen = {} /\ results = NoResult /\ left = {} /\ recount = Zero
  /\ fix = NoTx /\ del = NoTx
  /\ stale = {} /\ exact = {}

Exists(c) == code[c] \in Statuses
DbFails   == "db" \in Disturbances
Busy      == wpc # "idle"

\* GetActive, less the unverified.
Eligible == {a \in Accounts : account[a] = "verified"}

Participated(c) == {a \in Accounts : log[c][a] # "none"}

With(c, S, r) == Cardinality({a \in S : log[c][a] = r})

\* SELECT COUNT(*), SUM(result = 'success'), SUM(result = 'failed')
CountLogs(c, S) ==
  [ total   |-> Cardinality(S \cap Participated(c)),
    success |-> With(c, S, "success"),
    failed  |-> With(c, S, "failed") ]

\* Mutant of UpdateRedeemCodeStatus: only the total is written.
UpdateTotalOnly(c, s, n) ==
  UNCHANGED code /\ stats' = IF Exists(c) THEN [stats EXCEPT ![c].total = n] ELSE stats

\* UPDATE of a row that is gone changes nothing and is no error.
UpdateRedeemCodeStatus(c, s, n) ==
  IF Exists(c)
  THEN code' = [code EXCEPT ![c] = s] /\ stats' = [stats EXCEPT ![c].total = n]
  ELSE UNCHANGED <<code, stats>>

UpdateRedeemCodeStats(c, new) ==
  stats' = IF Exists(c) THEN [stats EXCEPT ![c] = new] ELSE stats

-----------------------------------------------------------------------------
(* SubmitRedeemCode and the requests for a supplement.                     *)

CreateRedeemCode(c) ==
  /\ code[c] = "absent"
  /\ code' = [code EXCEPT ![c] = "pending"]
  /\ submitting' = submitting \cup {c}
  /\ exact' = exact \cup {c}
  /\ UNCHANGED <<stats, log, account, game, tasks, worker, admin, stale>>

\* An error of the queue is only logged: the code then has no task.
SubmitRedeemTask(c) ==
  /\ c \in submitting
  /\ submitting' = submitting \ {c}
  /\ \/ tasks' = tasks \cup {[kind |-> "redeem", code |-> c]}
     \/ DbFails /\ UNCHANGED tasks
  /\ UNCHANGED <<codeRows, account, game, worker, admin, history>>

\* RetryRedeemCode and RetryRedeemCodes accept completed codes only.
CanRetry(c) == code[c] = "completed"

RetryRedeemCode(c) ==
  /\ CanRetry(c)
  /\ tasks' = tasks \cup {[kind |-> "supplement", code |-> c]}
  /\ UNCHANGED <<codeRows, account, game, submitting, worker, admin, history>>

\* The cron job, for a completed code some eligible account has no log of.
SupplementRedeemCode(c) == ~(Eligible \subseteq Participated(c)) /\ RetryRedeemCode(c)

-----------------------------------------------------------------------------
(* The worker's body.  Every step is one statement, or one call of the     *)
(* automation service.  A call takes minutes, and the one game client of   *)
(* the process keeps the account of the last log-in in c.fid and names it  *)
(* in the next request.  Meanwhile CreateAccount, VerifyAccount, the       *)
(* refresh of the accounts and the cleaning of codes log in through the    *)
(* same client, also between a log-in of the call and its request.         *)

Code == task.code

\* The worker is free again.  A task that failed is put back by RetryJob or
\* given up; one that succeeded is done unless there is another copy of it.
EndTask(t, succeeded) ==
  /\ \/ tasks' = tasks \ {t}
     \/ (~succeeded \/ "rerun" \in Disturbances) /\ UNCHANGED tasks
  /\ wpc' = "idle" /\ task' = NoTask
  /\ chosen' = {} /\ results' = NoResult /\ left' = {} /\ recount' = Zero

\* Mutant of AccountsFor: participated accounts are not left out.
AccountsAll(t) == Eligible

\* A supplement is only for accounts that have no log of the code yet.
AccountsFor(t) ==
  IF t.kind = "redeem" THEN Eligible ELSE Eligible \ Participated(t.code)

\* The code and the accounts are read one after the other, but nothing that
\* happens between the two reads could not also happen before or after both.
Start(t) ==
  /\ wpc = "idle"
  /\ t \in tasks
  /\ Exists(t.code)
  /\ AccountsFor(t) # {}
  /\ task' = t
  /\ chosen' = AccountsFor(t)
  /\ wpc' = IF t.kind = "redeem" THEN "verify" ELSE "batch"
  /\ UNCHANGED <<codeRows, account, game, submissions, results, left, recount, admin, history>>

\* No code or no account: an error, but for a supplement without accounts,
\* which is a success.
Refuse(t) ==
  /\ wpc = "idle"
  /\ t \in tasks
  /\ ~Exists(t.code) \/ AccountsFor(t) = {} \/ DbFails
  /\ EndTask(t, t.kind = "supplement" /\ Exists(t.code) /\ AccountsFor(t) = {})
  /\ UNCHANGED <<codeRows, account, game, submitting, admin, history>>

\* Whom others may log in during a call; a new account before it has a row.
LoggedIn == IF "login" \in Disturbances THEN Accounts ELSE {}

\* The pre-verification is a redemption for one of the accounts, with up to
\* three requests.  Whatever it returns but a fatal error, the task goes on:
\* RedeemSingle turns errors of the network and of the login into results, so
\* the branch for an error is never taken.
PreVerify ==
  /\ wpc = "verify"
  /\ \E a \in chosen, foreign \in SUBSET LoggedIn : \E given \in SUBSET ({a} \cup foreign) :
       claimed' = claimed \cup ({Code} \X given)
  /\ wpc' = "mark"
  /\ UNCHANGED <<codeRows, account, mixed, submissions, task, scratch, admin, history>>

\* The code has expired or is unknown: completed, with no accounts.
PreVerifyFatal ==
  /\ wpc = "verify"
  /\ \/ /\ UpdateRedeemCodeStatus(Code, "completed", 0)
        /\ exact' = IF Participated(Code) = {} THEN exact ELSE exact \ {Code}
        /\ EndTask(task, ~DbFails)
     \/ DbFails /\ UNCHANGED <<code, stats, exact>> /\ EndTask(task, FALSE)
  /\ stale' = stale \ {"run"}
  /\ UNCHANGED <<log, account, game, submitting, admin>>

MarkedProcessing ==
  /\ UpdateRedeemCodeStatus(Code, "processing", Cardinality(chosen))
  /\ exact' = exact \ {Code}

MarkProcessing ==
  /\ wpc = "mark"
  /\ \/ /\ MarkedProcessing
        /\ wpc' = "batch"
        /\ stale' = IF Participated(Code) \subseteq chosen THEN stale ELSE stale \cup {"run"}
        /\ UNCHANGED <<tasks, task, scratch>>
     \/ /\ DbFails
        /\ MarkedProcessing \/ UNCHANGED <<code, stats, exact>>
        /\ EndTask(task, FALSE)
        /\ stale' = stale \ {"run"}
  /\ UNCHANGED <<log, account, game, submitting, admin>>

\* Mutant of ResultOf: one success is taken for the success of all.
ResultOfBatch(a, won) == IF a \notin chosen THEN "none" ELSE IF won # {} THEN "success" ELSE "failed"

ResultOf(a, won) == IF a \in won THEN "success" ELSE IF a \in chosen THEN "failed" ELSE "none"

\* Mutant of Unserved: the answer that a gift was received before is a success.
ServedOrNot(others) == chosen \cup others

\* The accounts that can still receive a gift in this call.
Unserved(others) == {b \in chosen \cup others : <<Code, b>> \notin claimed}

\* One result for each account: a success if a request made for it was answered
\* with a gift.  The game gives a gift once per account, to the one the request
\* names.  A gift may have been given although the answer was lost: an account
\* that has received it so, in the pre-verification or with a request made for
\* another, is reported as failed when its own turn comes.
RedeemBatch ==
  /\ wpc = "batch"
  /\ \E won \in SUBSET chosen, foreign \in SUBSET LoggedIn :
       \E given \in SUBSET Unserved(foreign) : \E to \in Injection(won, given) :
         /\ \A a \in won : to[a] \in {a} \cup foreign
         /\ claimed' = claimed \cup ({Code} \X given)
         /\ results' = [a \in Accounts |-> ResultOf(a, won)]
         /\ mixed' = IF foreign = {} THEN mixed ELSE mixed \cup {Code}
  /\ left' = chosen
  /\ wpc' = "log"
  /\ UNCHANGED <<codeRows, account, submissions, task, chosen, recount, admin, history>>

\* ReplaceRedeemLog deletes the old log and inserts the new one in one
\* transaction.  Its errors are only logged.
Inserted(a) ==
  /\ log' = [log EXCEPT ![Code][a] = results[a]]
  /\ exact' = exact \ {Code}
  /\ stale' = stale \cup (IF fix # NoTx /\ fix.code = Code THEN {"fix"} ELSE {})
                    \cup (IF del # NoTx /\ a \in del.accounts THEN {"del"} ELSE {})

RowsMissing(a) == ~Exists(Code) \/ account[a] = "deleted"

ReplaceRedeemLog(a) ==
  /\ wpc = "log"
  /\ a \in left
  /\ \/ Inserted(a)
     \/ /\ DbFails \/ RowsMissing(a)
        /\ stale' = stale \cup {"run"}
        /\ UNCHANGED <<log, exact>>
  /\ left' = left \ {a}
  /\ wpc' = IF left' = {} THEN "count" ELSE "log"
  /\ UNCHANGED <<code, stats, account, game, submissions, task, chosen, results, recount, admin>>

\* A redeem task writes the counts of its own results.
CountResults ==
  /\ wpc = "count"
  /\ task.kind = "redeem"
  /\ \/ /\ UpdateRedeemCodeStats(Code,
             [ total   |-> Cardinality(chosen),
               success |-> Cardinality({a \in chosen : results[a] = "success"}),
               failed  |-> Cardinality({a \in chosen : results[a] = "failed"}) ])
        /\ exact' = IF "run" \in stale THEN exact \ {Code} ELSE exact \cup {Code}
     \/ DbFails /\ UNCHANGED <<stats, exact>>
  /\ wpc' = "complete"
  /\ UNCHANGED <<code, log, account, game, submissions, task, scratch, admin, stale>>

\* A supplement counts the logs of the code anew.
GetLogStats ==
  /\ wpc = "count"
  /\ task.kind = "supplement"
  /\ \/ /\ recount' = CountLogs(Code, Accounts)
        /\ wpc' = "write"
        /\ stale' = stale \ {"run"}
        /\ UNCHANGED <<tasks, task, chosen, results, left>>
     \/ DbFails /\ EndTask(task, TRUE) /\ stale' = stale \ {"run"}
  /\ UNCHANGED <<codeRows, account, game, submitting, admin, exact>>

WriteRecount ==
  /\ wpc = "write"
  /\ \/ /\ UpdateRedeemCodeStats(Code, recount)
        /\ exact' = IF "run" \in stale THEN exact \ {Code} ELSE exact \cup {Code}
     \/ DbFails /\ UNCHANGED <<stats, exact>>
  /\ EndTask(task, TRUE)
  /\ stale' = stale \ {"run"}
  /\ UNCHANGED <<code, log, account, game, submitting, admin>>

\* Completed, and total_accounts once more.
MarkCompleted ==
  /\ wpc = "complete"
  /\ \/ /\ UpdateRedeemCodeStatus(Code, "completed", Cardinality(chosen))
        /\ exact' = IF "run" \in stale THEN exact \ {Code} ELSE exact
        /\ EndTask(task, ~DbFails)
     \/ DbFails /\ UNCHANGED <<code, stats, exact>> /\ EndTask(task, FALSE)
  /\ stale' = stale \ {"run"}
  /\ UNCHANGED <<log, account, game, submitting, admin>>

-----------------------------------------------------------------------------
(* What the administrator does meanwhile.                                  *)

\* DeleteRedeemCode and BulkDeleteRedeemCodes: the logs, then the code, in
\* one transaction.
DeleteRedeemCode(c) ==
  /\ Exists(c)
  /\ code' = [code EXCEPT ![c] = "deleted"]
  /\ stats' = [stats EXCEPT ![c] = Zero]
  /\ log' = [log EXCEPT ![c] = NoResult]
  /\ exact' = exact \ {c}
  /\ UNCHANGED <<account, game, submissions, worker, admin, stale>>

\* A new account is verified: CreateAccount has logged it in before.
CreateAccount(a) ==
  /\ account[a] = "absent"
  /\ account' = [account EXCEPT ![a] = "verified"]
  /\ UNCHANGED <<codeRows, game, submissions, worker, admin, history>>

VerifyAccount(a) ==
  /\ account[a] \in {"verified", "unverified"}
  /\ \E v \in {"verified", "unverified"} : account' = [account EXCEPT ![a] = v]
  /\ UNCHANGED <<codeRows, game, submissions, worker, admin, history>>

\* Delete and BulkDelete: what the accounts contribute to each code is read
\* first.  At most one such transaction is open at a time.
ReadContribution(S) ==
  /\ "deletion" \in Disturbances
  /\ del = NoTx
  /\ S # {}
  /\ \A a \in S : account[a] \in {"verified", "unverified"}
  /\ del' = [accounts |-> S, agg |-> [c \in Codes |-> CountLogs(c, S)]]
  /\ stale' = stale \ {"del"}
  /\ UNCHANGED <<codeRows, account, game, submissions, worker, fix, exact>>

\* Mutant of Deduct: the deduction is made for the total alone.
DeductTotal(old, agg) == [old EXCEPT !.total = @ - agg.total]

\* Mutant of Minus: GREATEST(0, ..) is forgotten.
MinusUnchecked(m, n) == m - n

Minus(m, n) == IF m > n THEN m - n ELSE 0

\* GREATEST(0, count - contribution)
Deduct(old, agg) ==
  [ total   |-> Minus(old.total, agg.total),
    success |-> Minus(old.success, agg.success),
    failed  |-> Minus(old.failed, agg.failed) ]

\* The logs and the accounts are deleted and the counters lowered, whether the
\* answer to the COMMIT arrives or not.
DeleteAccounts ==
  /\ del # NoTx
  /\ log' = [c \in Codes |->
               [a \in Accounts |-> IF a \in del.accounts THEN "none" ELSE log[c][a]]]
  /\ account' = [a \in Accounts |-> IF a \in del.accounts THEN "deleted" ELSE account[a]]
  /\ stats' = [c \in Codes |-> IF Exists(c) THEN Deduct(stats[c], del.agg[c]) ELSE stats[c]]
  /\ exact' = IF "del" \in stale
              THEN {c \in exact : Participated(c) \cap del.accounts = {}} ELSE exact
  /\ stale' = (stale \ {"del"}) \cup (IF Busy THEN {"run"} ELSE {})
                                \cup (IF fix # NoTx THEN {"fix"} ELSE {})
  /\ del' = NoTx
  /\ UNCHANGED <<code, game, submissions, worker, fix>>

\* A deadlock or any other error before that rolls the transaction back.
RollBackDeletion ==
  /\ DbFails
  /\ del # NoTx
  /\ del' = NoTx
  /\ stale' = stale \ {"del"}
  /\ UNCHANGED <<codeRows, account, game, submissions, worker, fix, exact>>

\* FixAllRedeemCodeStats: for each code a transaction that counts its logs
\* and one statement later writes the counts.
ReadLogStats(c) ==
  /\ "repair" \in Disturbances
  /\ fix = NoTx
  /\ Exists(c)
  /\ fix' = [code |-> c, stats |-> CountLogs(c, Accounts)]
  /\ stale' = stale \ {"fix"}
  /\ UNCHANGED <<codeRows, account, game, submissions, worker, del, exact>>

FixRedeemCodeStats ==
  /\ fix # NoTx
  /\ \/ /\ UpdateRedeemCodeStats(fix.code, fix.stats)
        /\ exact' = IF Exists(fix.code) /\ "fix" \notin stale
                    THEN exact \cup {fix.code} ELSE exact \ {fix.code}
     \/ DbFails /\ UNCHANGED <<stats, exact>>
  /\ fix' = NoTx
  /\ stale' = stale \ {"fix"}
  /\ UNCHANGED <<code, log, account, game, submissions, worker, del>>

\* Open transactions are rolled back, the row of the task stays pending or
\* processing: module JobQueue says what becomes of it.
Crash ==
  /\ "crash" \in Disturbances
  /\ submitting' = {}
  /\ IF Busy THEN EndTask(task, FALSE) ELSE UNCHANGED <<tasks, worker>>
  /\ fix' = NoTx /\ del' = NoTx /\ stale' = {}
  /\ UNCHANGED <<codeRows, account, game, exact>>

-----------------------------------------------------------------------------

WorkerStep ==
  \/ \E t \in tasks : Start(t) \/ Refuse(t)
  \/ PreVerify \/ PreVerifyFatal \/ MarkProcessing
  \/ RedeemBatch
  \/ \E a \in left : ReplaceRedeemLog(a)
  \/ CountResults \/ GetLogStats \/ WriteRecount \/ MarkCompleted

AdminStep ==
  \/ \E c \in Codes :
       \/ CreateRedeemCode(c) \/ RetryRedeemCode(c) \/ SupplementRedeemCode(c)
       \/ DeleteRedeemCode(c) \/ ReadLogStats(c)
  \/ \E a \in Accounts : CreateAccount(a) \/ VerifyAccount(a)
  \/ \E S \in SUBSET Accounts : ReadContribution(S)
  \/ DeleteAccounts \/ RollBackDeletion \/ FixRedeemCodeStats

Next ==
  \/ \E c \in Codes : SubmitRedeemTask(c)
  \/ WorkerStep
  \/ AdminStep
  \/ Crash

Spec == Init /\ [][Next]_vars

\* The worker's goroutine and the handler of a submission run on, and a task
\* is not overtaken for ever: the channel is a queue, and JobQueue shows that
\* a pending task is taken.  Nobody has to administer anything.
Fairness ==
  /\ WF_vars(WorkerStep)
  /\ \A t \in Tasks : SF_vars(Start(t) \/ Refuse(t))
  /\ \A c \in Codes : WF_vars(SubmitRedeemTask(c))

FairSpec == Spec /\ Fairness

-----------------------------------------------------------------------------
(* Safety.                                                                 *)

\* The counters of a code can be trusted, at every moment and not only when
\* the worker rests: they equal what its logs say, unless a log or a counter
\* was written in the middle of another operation on the code, a write was
\* lost, a redeem task ran again for fewer accounts than have logs, or the
\* task is halfway through.  exact follows exactly these events; a repair or
\* a supplement that nothing interferes with makes a code exact again.
StatsMatchLogs ==
  \A c \in exact : Exists(c) => stats[c] = CountLogs(c, Accounts)

\* A log says success only for an account the game gave the gift to, however
\* tasks are repeated and whatever fails in between; but not of a code for which
\* a batch was under way while another goroutine logged in: its requests may
\* have named the wrong account.
SuccessIsTrue ==
  \A c \in Codes \ mixed, a \in Accounts : log[c][a] = "success" => <<c, a>> \in claimed

\* Even then there are never more successes in the logs of a code than gifts
\* were given for it: each answers a request of its own, however gifts and
\* results are confused, tasks repeated, answers lost and logs replaced.
SuccessesWereGiven ==
  \A c \in Codes :
    With(c, Accounts, "success") <= Cardinality({a \in Accounts : <<c, a>> \in claimed})

\* A supplement only adds logs.  It has chosen its accounts long before it
\* writes, and nobody else may have recorded a result for them meanwhile.
SupplementOnlyAdds ==
  [][\A a \in Accounts :
       ReplaceRedeemLog(a) /\ task.kind = "supplement" => log[task.code][a] = "none"]_vars

-----------------------------------------------------------------------------
(* Liveness, under FairSpec.                                               *)

\* If from its submission on the table never lacks a verified account, a code
\* is worked off or deleted, whatever supplements, second copies of tasks,
\* deletions of accounts and repairs happen on the way.
SubmittedIsProcessed ==
  \A c \in Codes :
    c \in submitting ~> (code[c] \in {"completed", "deleted"} \/ Eligible = {})

-----------------------------------------------------------------------------
(* What a comment says and the code does not do.                           *)

\* No task will ever complete the code.
Stranded(c) ==
  /\ Exists(c) /\ code[c] # "completed"
  /\ c \notin submitting
  /\ [kind |-> "redeem", code |-> c] \notin tasks
  /\ ~(Busy /\ Code = c)

\* SubmitRedeemCode, when the task could not be enqueued: "the code was
\* created but its task could not be submitted, please retry by hand".
StrandedCanBeRetried == \A c \in Codes : Stranded(c) => CanRetry(c)
=============================================================================
