-------------------------- MODULE RedeemTaskProofs --------------------------
(***************************************************************************)
(* The safety properties of the task bodies, for any number of codes and   *)
(* accounts and with any disturbances.                                     *)
(***************************************************************************)
EXTENDS RedeemTask, FiniteSetTheorems, TLAPS

\* Names for parts of actions, expanded throughout.
USE DEF game, MarkedProcessing

\* Only a redeem task verifies, marks and completes; only a supplement counts
\* the logs; results that are not written exist only while they are written.
Phases ==
  /\ wpc \in {"verify", "mark", "complete"} => task.kind = "redeem"
  /\ wpc = "write" => task.kind = "supplement"
  /\ left # {} => wpc = "log"

Typed == TypeOK /\ Phases

-----------------------------------------------------------------------------
(* Counting.                                                               *)

LEMMA CountType ==
  ASSUME NEW S, S \subseteq Accounts
  PROVE  IsFiniteSet(S) /\ Cardinality(S) \in Counter /\ Cardinality(S) \in Nat
<1>1. IsFiniteSet(S) /\ Cardinality(S) <= Cardinality(Accounts)
  BY AccountsAssumption, FS_Subset
<1>2. Cardinality(S) \in Nat /\ Cardinality(Accounts) \in Nat
  BY <1>1, AccountsAssumption, FS_CardinalityType
<1> QED BY <1>1, <1>2 DEF Counter

LEMMA ZeroType == Zero \in Stats
<1>1. 0 \in Counter
  BY CountType, FS_EmptySet
<1> QED BY <1>1 DEF Zero, Stats

LEMMA CountLogsType ==
  ASSUME NEW c, NEW S, S \subseteq Accounts
  PROVE  CountLogs(c, S) \in Stats
<1>1. Cardinality(S \cap Participated(c)) \in Counter
  BY CountType
<1>2. With(c, S, "success") \in Counter /\ With(c, S, "failed") \in Counter
  <2>1. {a \in S : log[c][a] = "success"} \subseteq Accounts /\ {a \in S : log[c][a] = "failed"} \subseteq Accounts
    OBVIOUS
  <2> QED BY <2>1, CountType DEF With
<1> QED BY <1>1, <1>2 DEF CountLogs, Stats

LEMMA DeductType ==
  ASSUME NEW s \in Stats, NEW t \in Stats
  PROVE  Deduct(s, t) \in Stats
<1>1. Cardinality(Accounts) \in Nat
  BY CountType
<1>2. \A m, n \in Counter : Minus(m, n) \in Counter
  BY <1>1 DEF Minus, Counter
<1> QED BY <1>2 DEF Deduct, Stats

-----------------------------------------------------------------------------
(* Types.                                                                  *)

LEMMA InitTyped == Init => Typed
<1> SUFFICES ASSUME Init PROVE Typed
  OBVIOUS
<1>1. NoResult \in [Accounts -> Results \cup {"none"}]
  BY DEF NoResult
<1>2. stats \in [Codes -> Stats] /\ recount \in Stats
  BY ZeroType DEF Init
<1> QED BY <1>1, <1>2 DEF Init, Typed, TypeOK, Phases

\* Whichever way a task ends, the worker is free and its scratch empty.
LEMMA EndTaskType ==
  ASSUME TypeOK, NEW t, NEW b, EndTask(t, b)
  PROVE  /\ tasks' \subseteq Tasks
         /\ wpc' = "idle" /\ task' = NoTask
         /\ chosen' = {} /\ results' = NoResult /\ left' = {} /\ recount' = Zero
         /\ results' \in [Accounts -> Results \cup {"none"}] /\ recount' \in Stats
<1>1. NoResult \in [Accounts -> Results \cup {"none"}]
  BY DEF NoResult
<1> QED BY <1>1, ZeroType DEF TypeOK, EndTask

LEMMA StatusType ==
  ASSUME TypeOK, NEW c \in Codes, NEW s \in Statuses, NEW n \in Counter,
         UpdateRedeemCodeStatus(c, s, n)
  PROVE  /\ code' \in [Codes -> Statuses \cup {"absent", "deleted"}]
         /\ stats' \in [Codes -> Stats]
<1>1. CASE ~Exists(c)
  BY <1>1 DEF TypeOK, UpdateRedeemCodeStatus
<1>2. CASE Exists(c)
  <2>1. [stats[c] EXCEPT !.total = n] \in Stats
    BY DEF TypeOK, Stats
  <2>2. code' = [code EXCEPT ![c] = s] /\ stats' = [stats EXCEPT ![c].total = n]
    BY <1>2 DEF UpdateRedeemCodeStatus
  <2>3. code' \in [Codes -> Statuses \cup {"absent", "deleted"}]
    BY <2>2 DEF TypeOK
  <2>4. stats' \in [Codes -> Stats]
    BY <2>1, <2>2 DEF TypeOK
  <2> QED BY <2>3, <2>4
<1> QED BY <1>1, <1>2

LEMMA StatsType ==
  ASSUME TypeOK, NEW c \in Codes, NEW new \in Stats, UpdateRedeemCodeStats(c, new)
  PROVE  stats' \in [Codes -> Stats]
  BY DEF TypeOK, UpdateRedeemCodeStats

LEMMA WorkerTyped ==
  ASSUME Typed, WorkerStep
  PROVE  Typed'
<1>1. TypeOK /\ Phases /\ Cardinality(chosen) \in Counter /\ 0 \in Counter
  <2>1. TypeOK /\ Phases
    BY DEF Typed
  <2> QED BY <2>1, CountType, FS_EmptySet DEF TypeOK
<1>2. wpc # "idle" => task \in Tasks /\ Code \in Codes
  BY <1>1 DEF TypeOK, Tasks, Code
<1>3. ASSUME NEW t \in tasks, Start(t) PROVE Typed'
  <2>1. t \in Tasks /\ t.kind \in {"redeem", "supplement"}
    BY <1>1 DEF TypeOK, Tasks
  <2>2. chosen' \subseteq Accounts /\ left' = {}
    BY <1>1, <1>3 DEF Start, AccountsFor, Eligible, Phases
  <2> QED BY <1>1, <1>3, <2>1, <2>2 
          DEF Start, Typed, TypeOK, Phases, codeRows, submissions, admin, history
<1>4. ASSUME NEW t \in tasks, Refuse(t) PROVE Typed'
  BY <1>1, <1>4, EndTaskType DEF Refuse, Typed, TypeOK, Phases, codeRows, admin, history
<1>5. ASSUME PreVerify PROVE Typed'
  <2>1. claimed' \subseteq Codes \X Accounts
    BY <1>1, <1>2, <1>5 DEF PreVerify, LoggedIn, TypeOK
  <2> QED BY <1>1, <1>2, <1>5, <2>1
     DEF PreVerify, Typed, TypeOK, Phases, codeRows, submissions, scratch, admin, history
<1>6. ASSUME PreVerifyFatal PROVE Typed'
  <2>1. /\ code' \in [Codes -> Statuses \cup {"absent", "deleted"}] /\ stats' \in [Codes -> Stats]
        /\ exact' \subseteq Codes
    BY <1>1, <1>2, <1>6, StatusType DEF PreVerifyFatal, TypeOK, Statuses
  <2>2. PICK b : EndTask(task, b)
    BY <1>6 DEF PreVerifyFatal
  <2> QED BY <1>1, <1>6, <2>1, <2>2, EndTaskType DEF PreVerifyFatal, Typed, TypeOK, Phases, admin
<1>7. ASSUME MarkProcessing PROVE Typed'
  <2>1. /\ code' \in [Codes -> Statuses \cup {"absent", "deleted"}] /\ stats' \in [Codes -> Stats]
        /\ exact' \subseteq Codes /\ stale' \subseteq {"run", "fix", "del"}
    BY <1>1, <1>2, <1>7, StatusType DEF MarkProcessing, TypeOK, Statuses
  <2>2. UNCHANGED <<log, account, game, submitting, admin>>
    BY <1>7 DEF MarkProcessing
  <2>3. CASE EndTask(task, FALSE)
    BY <1>1, <2>1, <2>2, <2>3, EndTaskType DEF Typed, TypeOK, Phases, admin
  <2>4. CASE wpc' = "batch" /\ UNCHANGED <<tasks, task, scratch>>
    BY <1>1, <1>2, <1>7, <2>1, <2>2, <2>4 DEF MarkProcessing, Typed, TypeOK, Phases, admin, scratch
  <2> QED BY <1>7, <2>3, <2>4 DEF MarkProcessing
<1>8. ASSUME RedeemBatch PROVE Typed'
  <2>1. PICK won, given, foreign :
          /\ given \subseteq Unserved(foreign) /\ foreign \subseteq LoggedIn
          /\ claimed' = claimed \cup ({Code} \X given)
          /\ results' = [a \in Accounts |-> ResultOf(a, won)]
          /\ mixed' = IF foreign = {} THEN mixed ELSE mixed \cup {Code}
    BY <1>8 DEF RedeemBatch
  <2>2. given \subseteq Accounts
    BY <1>1, <2>1 DEF Unserved, LoggedIn, TypeOK
  <2>3. claimed' \subseteq Codes \X Accounts /\ mixed' \subseteq Codes
    BY <1>1, <1>2, <1>8, <2>1, <2>2 DEF RedeemBatch, TypeOK
  <2>4. results' \in [Accounts -> Results \cup {"none"}]
    BY <2>1 DEF ResultOf, Results
  <2> QED BY <1>1, <1>2, <1>8, <2>3, <2>4
          DEF RedeemBatch, Typed, TypeOK, Phases, codeRows, submissions, admin, history
<1>9. ASSUME NEW a \in left, ReplaceRedeemLog(a) PROVE Typed'
  <2>1. log' \in [Codes -> [Accounts -> Results \cup {"none"}]]
    <3>1. a \in Accounts /\ Code \in Codes /\ results[a] \in Results \cup {"none"}
      BY <1>1, <1>2, <1>9 DEF ReplaceRedeemLog, TypeOK
    <3>2. log' = log \/ log' = [log EXCEPT ![Code][a] = results[a]]
      BY <1>9 DEF ReplaceRedeemLog, Inserted
    <3>3. log \in [Codes -> [Accounts -> Results \cup {"none"}]]
      BY <1>1 DEF TypeOK
    <3> QED BY <3>1, <3>2, <3>3
  <2>2. exact' \subseteq Codes /\ stale' \subseteq {"run", "fix", "del"}
    BY <1>1, <1>9 DEF ReplaceRedeemLog, Inserted, TypeOK
  <2> QED BY <1>1, <1>2, <1>9, <2>1, <2>2
          DEF ReplaceRedeemLog, Typed, TypeOK, Phases, submissions, admin
<1>10. ASSUME CountResults PROVE Typed'
  <2>1. [ total   |-> Cardinality(chosen),
          success |-> Cardinality({a \in chosen : results[a] = "success"}),
          failed  |-> Cardinality({a \in chosen : results[a] = "failed"}) ] \in Stats
    <3>1. /\ {a \in chosen : results[a] = "success"} \subseteq Accounts
          /\ {a \in chosen : results[a] = "failed"} \subseteq Accounts
      BY <1>1 DEF TypeOK
    <3> QED BY <1>1, <3>1, CountType DEF Stats
  <2>2. stats' \in [Codes -> Stats] /\ exact' \subseteq Codes
    BY <1>1, <1>2, <1>10, <2>1, StatsType DEF CountResults, TypeOK
  <2> QED BY <1>1, <1>2, <1>10, <2>2
          DEF CountResults, Typed, TypeOK, Phases, submissions, scratch, admin
<1>11. ASSUME GetLogStats PROVE Typed'
  <2>1. UNCHANGED <<codeRows, account, game, submitting, admin, exact>> /\ stale' \subseteq {"run", "fix", "del"}
    BY <1>1, <1>11 DEF GetLogStats, TypeOK
  <2>2. CASE EndTask(task, TRUE)
    BY <1>1, <2>1, <2>2, EndTaskType DEF Typed, TypeOK, Phases, codeRows, admin
  <2>3. CASE recount' = CountLogs(Code, Accounts) /\ wpc' = "write" /\ UNCHANGED <<tasks, task, chosen, results, left>>
    BY <1>1, <1>2, <1>11, <2>1, <2>3, CountLogsType
       DEF GetLogStats, Typed, TypeOK, Phases, codeRows, admin
  <2> QED BY <1>11, <2>2, <2>3 DEF GetLogStats
<1>12. ASSUME WriteRecount PROVE Typed'
  <2>1. stats' \in [Codes -> Stats] /\ exact' \subseteq Codes
    <3>1. recount \in Stats
      BY <1>1 DEF TypeOK
    <3> QED BY <1>1, <1>2, <1>12, <3>1, StatsType DEF WriteRecount, TypeOK
  <2> QED BY <1>1, <1>12, <2>1, EndTaskType DEF WriteRecount, Typed, TypeOK, Phases, admin
<1>13. ASSUME MarkCompleted PROVE Typed'
  <2>1. /\ code' \in [Codes -> Statuses \cup {"absent", "deleted"}] /\ stats' \in [Codes -> Stats]
        /\ exact' \subseteq Codes
    BY <1>1, <1>2, <1>13, StatusType DEF MarkCompleted, TypeOK, Statuses
  <2>2. PICK b : EndTask(task, b)
    BY <1>13 DEF MarkCompleted
  <2> QED BY <1>1, <1>13, <2>1, <2>2, EndTaskType DEF MarkCompleted, Typed, TypeOK, Phases, admin
<1> QED BY <1>3, <1>4, <1>5, <1>6, <1>7, <1>8, <1>9, <1>10, <1>11, <1>12, <1>13 DEF WorkerStep

LEMMA AdminTyped ==
  ASSUME Typed, AdminStep
  PROVE  Typed'
<1>1. TypeOK /\ Phases
  BY DEF Typed
<1>2. ASSUME NEW c \in Codes, CreateRedeemCode(c) PROVE Typed'
  BY <1>1, <1>2 DEF CreateRedeemCode, Typed, TypeOK, Phases, worker, scratch, admin, Statuses
<1>3. ASSUME NEW c \in Codes, RetryRedeemCode(c) PROVE Typed'
  BY <1>1, <1>3
     DEF RetryRedeemCode, Typed, TypeOK, Phases, Tasks, codeRows, worker, scratch, admin, history
<1>4. ASSUME NEW c \in Codes, DeleteRedeemCode(c) PROVE Typed'
  <2>1. NoResult \in [Accounts -> Results \cup {"none"}]
    BY DEF NoResult
  <2> QED BY <1>1, <1>4, <2>1, ZeroType
          DEF DeleteRedeemCode, Typed, TypeOK, Phases, submissions, worker, scratch, admin
<1>5. ASSUME NEW c \in Codes, ReadLogStats(c) PROVE Typed'
  <2>1. fix' \in [code : Codes, stats : Stats]
    BY <1>5, CountLogsType DEF ReadLogStats
  <2> QED BY <1>1, <1>5, <2>1
          DEF ReadLogStats, Typed, TypeOK, Phases, codeRows, submissions, worker, scratch
<1>6. ASSUME NEW a \in Accounts, CreateAccount(a) \/ VerifyAccount(a) PROVE Typed'
  BY <1>1, <1>6 DEF CreateAccount, VerifyAccount, Typed, TypeOK, Phases, codeRows, submissions,
                    worker, scratch, admin, history
<1>7. ASSUME NEW S \in SUBSET Accounts, ReadContribution(S) PROVE Typed'
  <2>1. \A c \in Codes : CountLogs(c, S) \in Stats
    BY CountLogsType
  <2>2. del' \in [accounts : SUBSET Accounts, agg : [Codes -> Stats]]
    BY <1>7, <2>1 DEF ReadContribution
  <2> QED BY <1>1, <1>7, <2>2
          DEF ReadContribution, Typed, TypeOK, Phases, codeRows, submissions, worker, scratch
<1>8. ASSUME DeleteAccounts PROVE Typed'
  <2>1. del \in [accounts : SUBSET Accounts, agg : [Codes -> Stats]]
    BY <1>1, <1>8 DEF DeleteAccounts, TypeOK
  <2>2. \A c \in Codes : stats[c] \in Stats /\ Deduct(stats[c], del.agg[c]) \in Stats
    BY <1>1, <2>1, DeductType DEF TypeOK
  <2>3. stats' \in [Codes -> Stats]
    BY <1>8, <2>2 DEF DeleteAccounts
  <2>4. /\ log' \in [Codes -> [Accounts -> Results \cup {"none"}]]
        /\ account' \in [Accounts -> {"absent", "verified", "unverified", "deleted"}]
    BY <1>1, <1>8 DEF DeleteAccounts, TypeOK
  <2>5. exact' \subseteq Codes /\ stale' \subseteq {"run", "fix", "del"}
    BY <1>1, <1>8 DEF DeleteAccounts, TypeOK
  <2> QED BY <1>1, <1>8, <2>3, <2>4, <2>5
          DEF DeleteAccounts, Typed, TypeOK, Phases, submissions, worker, scratch
<1>9. ASSUME RollBackDeletion PROVE Typed'
  BY <1>1, <1>9 DEF RollBackDeletion, Typed, TypeOK, Phases, codeRows, submissions, worker, scratch
<1>10. ASSUME FixRedeemCodeStats PROVE Typed'
  <2>1. fix \in [code : Codes, stats : Stats]
    BY <1>1, <1>10 DEF FixRedeemCodeStats, TypeOK
  <2>2. stats' \in [Codes -> Stats] /\ exact' \subseteq Codes
    BY <1>1, <1>10, <2>1, StatsType DEF FixRedeemCodeStats, TypeOK
  <2> QED BY <1>1, <1>10, <2>2
          DEF FixRedeemCodeStats, Typed, TypeOK, Phases, submissions, worker, scratch
<1> QED BY <1>2, <1>3, <1>4, <1>5, <1>6, <1>7, <1>8, <1>9, <1>10
        DEF AdminStep, SupplementRedeemCode

LEMMA NextTyped == Typed /\ [Next]_vars => Typed'
<1> SUFFICES ASSUME Typed, [Next]_vars PROVE Typed'
  OBVIOUS
<1>1. TypeOK /\ Phases
  BY DEF Typed
<1>2. ASSUME NEW c \in Codes, SubmitRedeemTask(c) PROVE Typed'
  BY <1>1, <1>2
     DEF SubmitRedeemTask, Typed, TypeOK, Phases, Tasks, codeRows, worker, scratch, admin, history
<1>3. ASSUME Crash PROVE Typed'
  <2>1. CASE EndTask(task, FALSE)
    BY <1>1, <1>3, <2>1, EndTaskType DEF Crash, Typed, TypeOK, Phases, codeRows
  <2>2. CASE UNCHANGED <<tasks, worker>>
    BY <1>1, <1>3, <2>2 DEF Crash, Typed, TypeOK, Phases, codeRows, worker, scratch
  <2> QED BY <1>3, <2>1, <2>2 DEF Crash
<1>4. CASE UNCHANGED vars
  BY <1>1, <1>4 DEF vars, codeRows, submissions, worker, scratch, admin, history, Typed, TypeOK, Phases
<1> QED BY <1>2, <1>3, <1>4, WorkerTyped, AdminTyped DEF Next

-----------------------------------------------------------------------------
(* Who writes what.                                                        *)

\* Logs are written by the worker and by the two kinds of deletions only.
LEMMA LogSteps ==
  ASSUME [Next]_vars
  PROVE  \/ UNCHANGED log
         \/ \E a \in left : ReplaceRedeemLog(a) /\ Inserted(a)
         \/ \E c \in Codes : DeleteRedeemCode(c)
         \/ DeleteAccounts
  BY DEF Next, WorkerStep, AdminStep, SubmitRedeemTask, Start, Refuse, PreVerify, PreVerifyFatal,
         MarkProcessing, RedeemBatch, ReplaceRedeemLog, CountResults, GetLogStats, WriteRecount,
         MarkCompleted, CreateRedeemCode, RetryRedeemCode, SupplementRedeemCode,
         ReadLogStats, CreateAccount, VerifyAccount, ReadContribution,
         RollBackDeletion, FixRedeemCodeStats, Crash, vars, codeRows

\* A log that is there after a step was there before, or the worker wrote it.
LEMMA LogsComeFromResults ==
  ASSUME Typed, [Next]_vars, NEW c \in Codes, NEW a \in Accounts, log'[c][a] # "none"
  PROVE  \/ log'[c][a] = log[c][a]
         \/ /\ ReplaceRedeemLog(a) /\ wpc = "log" /\ a \in left
            /\ c = Code /\ log'[c][a] = results[a]
<1>1. TypeOK
  BY DEF Typed
<1>2. ASSUME NEW b \in left, ReplaceRedeemLog(b), Inserted(b)
      PROVE  log'[c][a] = log[c][a] \/ (wpc = "log" /\ a = b /\ c = Code /\ log'[c][a] = results[a])
  <2>1. b \in Accounts /\ Code \in Codes
    BY <1>1, <1>2 DEF TypeOK, ReplaceRedeemLog, Tasks, Code
  <2>2. log' = [log EXCEPT ![Code][b] = results[b]] /\ wpc = "log"
    BY <1>2 DEF Inserted, ReplaceRedeemLog
  <2> QED BY <1>1, <2>1, <2>2 DEF TypeOK
<1>3. ASSUME NEW d \in Codes, DeleteRedeemCode(d) PROVE log'[c][a] = log[c][a]
  BY <1>1, <1>3 DEF DeleteRedeemCode, TypeOK, NoResult
<1>4. ASSUME DeleteAccounts PROVE log'[c][a] = log[c][a]
  BY <1>1, <1>4 DEF DeleteAccounts, TypeOK
<1> QED BY <1>2, <1>3, <1>4, LogSteps

-----------------------------------------------------------------------------
(* A recorded success is a gift that was given.                            *)

\* So are the successes that are not written yet.
ResultsTrue ==
  \A a \in Accounts :
    results[a] = "success" => Busy /\ (Code \in mixed \/ <<Code, a>> \in claimed)

\* What each step does to the results, and to the gifts.
LEMMA ResultSteps ==
  ASSUME [Next]_vars
  PROVE  /\ claimed \subseteq claimed' /\ mixed \subseteq mixed'
         /\ \/ RedeemBatch
            \/ results' = NoResult /\ left' = {}
            \/ UNCHANGED <<results, left>> /\ (wpc = "idle" \/ (wpc' # "idle" /\ UNCHANGED task))
            \/ \E a \in left : ReplaceRedeemLog(a)
<1>1. CASE WorkerStep
  BY <1>1 DEF WorkerStep, Start, Refuse, PreVerify, PreVerifyFatal, MarkProcessing, RedeemBatch,
         ReplaceRedeemLog, CountResults, GetLogStats, WriteRecount, MarkCompleted, EndTask, scratch
<1>2. CASE ~WorkerStep
  BY <1>2 DEF Next, AdminStep, SubmitRedeemTask, CreateRedeemCode, RetryRedeemCode,
         SupplementRedeemCode, DeleteRedeemCode, ReadLogStats, CreateAccount, VerifyAccount,
         ReadContribution, DeleteAccounts, RollBackDeletion, FixRedeemCodeStats, Crash, EndTask,
         Busy, vars, worker, scratch
<1> QED BY <1>1, <1>2

LEMMA NextTrue == Typed /\ ResultsTrue /\ SuccessIsTrue /\ [Next]_vars => ResultsTrue' /\ SuccessIsTrue'
<1> SUFFICES ASSUME Typed, ResultsTrue, SuccessIsTrue, [Next]_vars PROVE ResultsTrue' /\ SuccessIsTrue'
  OBVIOUS
<1>1. claimed \subseteq claimed' /\ mixed \subseteq mixed'
  BY ResultSteps
<1>2. ASSUME RedeemBatch PROVE ResultsTrue'
  <2>1. PICK won \in SUBSET chosen, foreign \in SUBSET LoggedIn :
          \E given \in SUBSET Unserved(foreign) : \E to \in Injection(won, given) :
            /\ \A a \in won : to[a] \in {a} \cup foreign
            /\ claimed' = claimed \cup ({Code} \X given)
            /\ results' = [a \in Accounts |-> ResultOf(a, won)]
            /\ mixed' = IF foreign = {} THEN mixed ELSE mixed \cup {Code}
    BY <1>2 DEF RedeemBatch
  <2>2. PICK given \in SUBSET Unserved(foreign) : \E to \in [won -> given] :
            /\ \A a \in won : to[a] \in {a} \cup foreign
            /\ claimed' = claimed \cup ({Code} \X given)
    BY <2>1 DEF Injection
  <2>3. foreign = {} => won \subseteq given
    BY <2>2
  <2>4. \A a \in Accounts : results'[a] = "success" => a \in won
    BY <2>1 DEF ResultOf
  <2>5. \A a \in won : Code \in mixed' \/ <<Code, a>> \in claimed'
    BY <2>1, <2>2, <2>3
  <2> QED BY <1>2, <2>4, <2>5 DEF RedeemBatch, ResultsTrue, Busy, Code
<1>3. ASSUME results' = NoResult PROVE ResultsTrue'
  BY <1>3 DEF NoResult, ResultsTrue
<1>4. ASSUME UNCHANGED results, wpc = "idle" \/ (wpc' # "idle" /\ UNCHANGED task) PROVE ResultsTrue'
  BY <1>1, <1>4 DEF ResultsTrue, Busy, Code
<1>5. ResultsTrue'
  BY <1>2, <1>3, <1>4, ResultSteps DEF ReplaceRedeemLog
<1>6. SuccessIsTrue'
  <2> SUFFICES ASSUME NEW c \in Codes \ mixed', NEW a \in Accounts, log'[c][a] = "success"
               PROVE  <<c, a>> \in claimed'
    BY DEF SuccessIsTrue
  <2>1. log[c][a] = "success" \/ (c = Code /\ results[a] = "success")
    BY LogsComeFromResults
  <2> QED BY <1>1, <2>1 DEF SuccessIsTrue, ResultsTrue
<1> QED BY <1>5, <1>6

\* For each code: the accounts that have its gift, those whose log says so, and
\* those of whom the worker will write it.
Gifts(c)     == {a \in Accounts : <<c, a>> \in claimed}
Recorded(c)  == {a \in Accounts : log[c][a] = "success"}
Unwritten(c) == {a \in left : c = Code /\ results[a] = "success"}

BackedUp(c) == Cardinality(Recorded(c)) + Cardinality(Unwritten(c)) <= Cardinality(Gifts(c))

Backed == \A c \in Codes : BackedUp(c)

LEMMA GiftsFinite ==
  ASSUME Typed, NEW c \in Codes
  PROVE  /\ IsFiniteSet(Gifts(c)) /\ Cardinality(Gifts(c)) \in Nat
         /\ IsFiniteSet(Recorded(c)) /\ Cardinality(Recorded(c)) \in Nat
         /\ IsFiniteSet(Unwritten(c)) /\ Cardinality(Unwritten(c)) \in Nat
<1>1. Gifts(c) \subseteq Accounts /\ Recorded(c) \subseteq Accounts /\ Unwritten(c) \subseteq Accounts
  BY DEF Gifts, Recorded, Unwritten, Typed, TypeOK
<1> QED BY <1>1, CountType

\* Fewer successes and more gifts are no harm.
LEMMA StaysBacked ==
  ASSUME Typed, Typed', NEW c \in Codes, BackedUp(c),
         Recorded(c)' \subseteq Recorded(c), Unwritten(c)' \subseteq Unwritten(c),
         Gifts(c) \subseteq Gifts(c)'
  PROVE  BackedUp(c)'
<1>1. /\ IsFiniteSet(Gifts(c)) /\ IsFiniteSet(Recorded(c)) /\ IsFiniteSet(Unwritten(c))
      /\ Cardinality(Gifts(c)) \in Nat /\ Cardinality(Recorded(c)) \in Nat
      /\ Cardinality(Unwritten(c)) \in Nat
  BY GiftsFinite
<1>2. Gifts(c)' \subseteq Accounts
  BY DEF Gifts
<1>3. IsFiniteSet(Gifts(c)') /\ Cardinality(Gifts(c)') \in Nat
  BY <1>2, CountType
<1>4. /\ Cardinality(Recorded(c)') <= Cardinality(Recorded(c)) /\ Cardinality(Recorded(c)') \in Nat
      /\ Cardinality(Unwritten(c)') <= Cardinality(Unwritten(c)) /\ Cardinality(Unwritten(c)') \in Nat
  BY <1>1, FS_Subset, FS_CardinalityType
<1>5. Cardinality(Gifts(c)) <= Cardinality(Gifts(c)')
  BY <1>3, FS_Subset
<1> QED BY <1>1, <1>3, <1>4, <1>5 DEF BackedUp

\* Each success of a batch comes with a gift of its own.
LEMMA BatchIsBacked ==
  ASSUME Typed, Typed', Backed, RedeemBatch, NEW c \in Codes
  PROVE  BackedUp(c)'
<1>1. TypeOK /\ Phases /\ left = {} /\ BackedUp(c)
  BY DEF Typed, Phases, RedeemBatch, Backed
<1>2. Recorded(c)' = Recorded(c) /\ Code' = Code
  BY DEF RedeemBatch, Recorded, codeRows, Code
<1>3. PICK won \in SUBSET chosen, given \in SUBSET Accounts :
          /\ Injection(won, given) # {}
          /\ \A b \in given : <<Code, b>> \notin claimed
          /\ claimed' = claimed \cup ({Code} \X given)
          /\ results' = [a \in Accounts |-> ResultOf(a, won)]
  <2>1. \A others \in SUBSET LoggedIn : Unserved(others) \subseteq Accounts
    BY <1>1 DEF Unserved, LoggedIn, TypeOK
  <2> QED BY <2>1 DEF RedeemBatch, Unserved
<1>4. CASE c # Code
  <2>1. Unwritten(c)' = {} /\ Unwritten(c) = {} /\ Gifts(c)' = Gifts(c)
    BY <1>1, <1>2, <1>3, <1>4 DEF Unwritten, Gifts
  <2> QED BY <1>1, <1>2, <2>1, StaysBacked
<1>5. CASE c = Code
  <2>1. Unwritten(c)' = won
    BY <1>1, <1>2, <1>3, <1>5 DEF RedeemBatch, Unwritten, ResultOf, TypeOK
  <2>2. Gifts(c)' = Gifts(c) \cup given /\ Gifts(c) \cap given = {}
    BY <1>3, <1>5 DEF Gifts
  <2>3. IsFiniteSet(given) /\ Cardinality(given) \in Nat /\ Cardinality(won) \in Nat
    BY <1>1, CountType DEF TypeOK
  <2>4. Cardinality(won) <= Cardinality(given)
    <3>1. PICK to : to \in Injection(won, given)
      BY <1>3
    <3> QED BY <2>3, <3>1, FS_Injection
  <2>5. /\ Cardinality(Gifts(c)) \in Nat /\ IsFiniteSet(Gifts(c))
        /\ Cardinality(Recorded(c)) \in Nat
    BY GiftsFinite
  <2>6. Cardinality(Gifts(c)') = Cardinality(Gifts(c)) + Cardinality(given)
    <3>1. Cardinality(Gifts(c) \cup given)
            = Cardinality(Gifts(c)) + Cardinality(given) - Cardinality(Gifts(c) \cap given)
      BY <2>3, <2>5, FS_Union
    <3>2. Cardinality(Gifts(c) \cap given) = 0
      BY <2>2, FS_EmptySet
    <3> QED BY <2>2, <2>3, <2>5, <3>1, <3>2
  <2>7. Cardinality(Unwritten(c)) = 0
    BY <1>1, FS_EmptySet DEF Unwritten
  <2> QED BY <1>1, <1>2, <2>1, <2>3, <2>4, <2>5, <2>6, <2>7 DEF BackedUp
<1> QED BY <1>4, <1>5

\* Writing a success makes one of the unwritten a recorded one.
LEMMA WritingIsBacked ==
  ASSUME Typed, Typed', Backed, NEW a \in left, ReplaceRedeemLog(a), NEW c \in Codes
  PROVE  BackedUp(c)'
<1>1. /\ TypeOK /\ BackedUp(c) /\ a \in Accounts /\ Code \in Codes /\ Code' = Code
      /\ left' = left \ {a} /\ UNCHANGED <<results, claimed>>
  BY DEF Typed, TypeOK, ReplaceRedeemLog, Backed, Tasks, Code
<1>2. Gifts(c)' = Gifts(c) /\ Unwritten(c)' = Unwritten(c) \ {a}
  BY <1>1 DEF Gifts, Unwritten
<1>3. CASE Inserted(a) /\ c = Code /\ results[a] = "success"
  <2>1. Recorded(c)' = Recorded(c) \cup {a}
    BY <1>1, <1>3 DEF Inserted, Recorded, TypeOK
  <2>2. a \in Unwritten(c)
    BY <1>3 DEF Unwritten
  <2>3. /\ IsFiniteSet(Recorded(c)) /\ Cardinality(Recorded(c)) \in Nat
        /\ IsFiniteSet(Unwritten(c)) /\ Cardinality(Unwritten(c)) \in Nat
        /\ Cardinality(Gifts(c)) \in Nat
    BY GiftsFinite
  <2>4. Cardinality(Recorded(c)') <= Cardinality(Recorded(c)) + 1 /\ Cardinality(Recorded(c)') \in Nat
    <3>1. Cardinality(Recorded(c) \cup {a})
            = IF a \in Recorded(c) THEN Cardinality(Recorded(c)) ELSE Cardinality(Recorded(c)) + 1
      BY <2>3, FS_AddElement
    <3> QED BY <2>1, <2>3, <3>1
  <2>5. Cardinality(Unwritten(c)') = Cardinality(Unwritten(c)) - 1
    BY <1>2, <2>2, <2>3, FS_RemoveElement
  <2> QED BY <1>1, <1>2, <2>3, <2>4, <2>5 DEF BackedUp
<1>4. CASE ~(Inserted(a) /\ c = Code /\ results[a] = "success")
  <2>1. Recorded(c)' \subseteq Recorded(c)
    BY <1>1, <1>4 DEF ReplaceRedeemLog, Inserted, Recorded, TypeOK
  <2> QED BY <1>1, <1>2, <2>1, StaysBacked
<1> QED BY <1>3, <1>4

LEMMA NextBacked == Typed /\ Backed /\ [Next]_vars => Backed'
<1> SUFFICES ASSUME Typed, Backed, [Next]_vars, NEW c \in Codes PROVE BackedUp(c)'
  BY DEF Backed
<1>1. Typed' /\ TypeOK /\ Phases /\ BackedUp(c)
  BY NextTyped DEF Typed, Backed
<1>2. CASE RedeemBatch
  BY <1>1, <1>2, BatchIsBacked
<1>3. ASSUME NEW a \in left, ReplaceRedeemLog(a) PROVE BackedUp(c)'
  BY <1>1, <1>3, WritingIsBacked
<1>4. ASSUME \/ left' = {}
             \/ UNCHANGED <<results, left>> /\ (wpc = "idle" \/ (wpc' # "idle" /\ UNCHANGED task)),
             ~\E a \in left : ReplaceRedeemLog(a)
      PROVE  BackedUp(c)'
  <2>1. Unwritten(c)' \subseteq Unwritten(c)
    BY <1>1, <1>4 DEF Unwritten, Code, Phases
  <2>2. Recorded(c)' \subseteq Recorded(c)
    <3>1. \A a \in Accounts : log'[c][a] = "success" => log[c][a] = "success"
      <4> SUFFICES ASSUME NEW a \in Accounts, log'[c][a] = "success" PROVE log[c][a] = "success"
        OBVIOUS
      <4> QED BY <1>4, LogsComeFromResults
    <3> QED BY <3>1 DEF Recorded
  <2>3. Gifts(c) \subseteq Gifts(c)'
    BY ResultSteps DEF Gifts
  <2> QED BY <1>1, <2>1, <2>2, <2>3, StaysBacked
<1> QED BY <1>2, <1>3, <1>4, ResultSteps

-----------------------------------------------------------------------------
(* Supplements.                                                            *)

\* The accounts a supplement has chosen, and later those whose results it has
\* not written yet, have no log of the code.
Unlogged ==
  task.kind = "supplement" =>
    /\ wpc = "batch" => \A a \in chosen : log[Code][a] = "none"
    /\ wpc = "log" => \A a \in left : log[Code][a] = "none"

LEMMA NextUnlogged == Typed /\ Unlogged /\ [Next]_vars => Unlogged'
<1> SUFFICES ASSUME Typed, Unlogged, [Next]_vars PROVE Unlogged'
  OBVIOUS
<1>1. TypeOK /\ Phases /\ Typed'
  BY NextTyped DEF Typed
<1>2. ASSUME wpc' \notin {"batch", "log"} PROVE Unlogged'
  BY <1>2 DEF Unlogged
<1>3. ASSUME UNCHANGED <<task, wpc, chosen, left>>, ~\E a \in Accounts : ReplaceRedeemLog(a)
      PROVE  Unlogged'
  <2> SUFFICES ASSUME wpc \in {"batch", "log"} PROVE Unlogged'
    BY <1>2, <1>3
  <2>1. Code \in Codes /\ chosen \subseteq Accounts /\ left \subseteq Accounts
    BY <1>1 DEF TypeOK, Tasks, Code
  <2>2. \A a \in Accounts : log[Code][a] = "none" => log'[Code][a] = "none"
    BY <1>3, <2>1, LogsComeFromResults
  <2> QED BY <1>3, <2>1, <2>2 DEF Unlogged, Code
<1>4. ASSUME NEW t \in tasks, Start(t) PROVE Unlogged'
  BY <1>4 DEF Start, Unlogged, AccountsFor, Eligible, Participated, Code, codeRows
<1>5. ASSUME MarkProcessing PROVE Unlogged'
  <2>1. task.kind = "redeem"
    BY <1>1, <1>5 DEF MarkProcessing, Phases
  <2> QED BY <1>2, <1>5, <2>1 DEF MarkProcessing, EndTask, Unlogged
<1>6. ASSUME RedeemBatch PROVE Unlogged'
  BY <1>6 DEF RedeemBatch, Unlogged, Code, codeRows
<1>7. ASSUME NEW a \in Accounts, ReplaceRedeemLog(a) PROVE Unlogged'
  <2>1. Code \in Codes /\ left \subseteq Accounts /\ wpc = "log" /\ UNCHANGED task /\ left' = left \ {a}
    BY <1>1, <1>7 DEF ReplaceRedeemLog, TypeOK, Tasks, Code
  <2>2. \A b \in left' : log'[Code][b] = log[Code][b]
    BY <1>1, <1>7, <2>1 DEF ReplaceRedeemLog, Inserted, TypeOK
  <2>3. wpc' # "batch"
    BY <1>7 DEF ReplaceRedeemLog
  <2> QED BY <2>1, <2>2, <2>3 DEF Unlogged, Code
<1>8. ASSUME wpc' \in {"batch", "log"}
      PROVE  \/ UNCHANGED <<task, wpc, chosen, left>>
             \/ \E t \in tasks : Start(t)
             \/ MarkProcessing \/ RedeemBatch
             \/ \E a \in Accounts : ReplaceRedeemLog(a)
  <2>1. left \subseteq Accounts
    BY <1>1 DEF TypeOK
  <2> QED BY <1>8, <2>1
     DEF Next, WorkerStep, AdminStep, SubmitRedeemTask, Refuse, PreVerify, PreVerifyFatal,
         CountResults, GetLogStats, WriteRecount, EndTask,
         MarkCompleted, CreateRedeemCode, RetryRedeemCode, SupplementRedeemCode, DeleteRedeemCode,
         ReadLogStats, CreateAccount, VerifyAccount, ReadContribution, DeleteAccounts,
         RollBackDeletion, FixRedeemCodeStats, Crash, vars, worker, scratch
<1> QED BY <1>2, <1>3, <1>4, <1>5, <1>6, <1>7, <1>8

-----------------------------------------------------------------------------
(* Counting, continued.                                                    *)

\* Only the logs of the accounts that are counted matter.
LEMMA CountUnchanged ==
  ASSUME NEW c, NEW S \in SUBSET Accounts, \A a \in S : log'[c][a] = log[c][a]
  PROVE  CountLogs(c, S)' = CountLogs(c, S)
<1>1. (S \cap Participated(c))' = S \cap Participated(c)
  BY DEF Participated
<1>2. {a \in S : log'[c][a] = "success"} = {a \in S : log[c][a] = "success"}
  OBVIOUS
<1>3. {a \in S : log'[c][a] = "failed"} = {a \in S : log[c][a] = "failed"}
  OBVIOUS
<1> QED BY <1>1, <1>2, <1>3 DEF CountLogs, With

LEMMA CountNothing ==
  ASSUME NEW c, NEW S \in SUBSET Accounts, S \cap Participated(c) = {}
  PROVE  CountLogs(c, S) = Zero
<1>1. {a \in S : log[c][a] = "success"} = {} /\ {a \in S : log[c][a] = "failed"} = {}
  BY DEF Participated
<1> QED BY <1>1, FS_EmptySet DEF CountLogs, With, Zero

LEMMA MinusIsDifference ==
  ASSUME NEW A \in SUBSET Accounts, NEW B \in SUBSET A
  PROVE  Cardinality(A \ B) = Minus(Cardinality(A), Cardinality(B))
<1>1. IsFiniteSet(A) /\ Cardinality(A) \in Nat /\ Cardinality(B) \in Nat
  BY CountType
<1>2. Cardinality(B) <= Cardinality(A)
  BY <1>1, FS_Subset
<1>3. Cardinality(A \ B) = Cardinality(A) - Cardinality(B)
  <2>1. A \cap B = B
    OBVIOUS
  <2> QED BY <1>1, <2>1, FS_Difference
<1> QED BY <1>1, <1>2, <1>3 DEF Minus

\* Deleting the logs of the accounts S takes off what they contributed.
LEMMA DeductIsExact ==
  ASSUME NEW c, NEW S \in SUBSET Accounts,
         \A a \in Accounts : log'[c][a] = IF a \in S THEN "none" ELSE log[c][a]
  PROVE  CountLogs(c, Accounts)' = Deduct(CountLogs(c, Accounts), CountLogs(c, S))
<1> DEFINE P(T, r) == {a \in T : log[c][a] = r}
           Q(T, r) == {a \in T : log'[c][a] = r}
<1>1. \A r \in Results : /\ Q(Accounts, r) = P(Accounts, r) \ P(S, r)
                         /\ P(Accounts, r) \in SUBSET Accounts /\ P(S, r) \in SUBSET P(Accounts, r)
  BY DEF Results
<1>2. \A r \in Results : Cardinality(Q(Accounts, r)) = Minus(Cardinality(P(Accounts, r)), Cardinality(P(S, r)))
  BY <1>1, MinusIsDifference
<1>3. /\ (Accounts \cap Participated(c))' = (Accounts \cap Participated(c)) \ (S \cap Participated(c))
      /\ Accounts \cap Participated(c) \in SUBSET Accounts
      /\ S \cap Participated(c) \in SUBSET (Accounts \cap Participated(c))
  BY DEF Participated
<1>4. Cardinality((Accounts \cap Participated(c))')
        = Minus(Cardinality(Accounts \cap Participated(c)), Cardinality(S \cap Participated(c)))
  BY <1>3, MinusIsDifference
<1>5. "success" \in Results /\ "failed" \in Results
  BY DEF Results
<1> QED BY <1>2, <1>4, <1>5 DEF CountLogs, With, Deduct

\* What the worker counts are the logs, if there are no others.
LEMMA CountOfResults ==
  ASSUME NEW c, chosen \subseteq Accounts,
         \A a \in Accounts : log[c][a] = IF a \in chosen THEN results[a] ELSE "none",
         \A a \in chosen : results[a] \in Results
  PROVE  CountLogs(c, Accounts) =
           [ total   |-> Cardinality(chosen),
             success |-> Cardinality({a \in chosen : results[a] = "success"}),
             failed  |-> Cardinality({a \in chosen : results[a] = "failed"}) ]
<1>1. Accounts \cap Participated(c) = chosen
  BY DEF Participated, Results
<1>2. /\ {a \in Accounts : log[c][a] = "success"} = {a \in chosen : results[a] = "success"}
      /\ {a \in Accounts : log[c][a] = "failed"} = {a \in chosen : results[a] = "failed"}
  OBVIOUS
<1> QED BY <1>1, <1>2 DEF CountLogs, With

-----------------------------------------------------------------------------
(* Codes that are not there.                                               *)

\* A row is created once; what is deleted never comes back.
LEMMA CodeSteps ==
  ASSUME Typed, [Next]_vars, NEW c \in Codes
  PROVE  /\ code'[c] = "absent" => code[c] = "absent"
         /\ code[c] = "deleted" => code'[c] = "deleted"
<1>1. TypeOK
  BY DEF Typed
<1>2. \/ UNCHANGED code
      \/ \E d \in Codes : CreateRedeemCode(d) \/ DeleteRedeemCode(d)
      \/ \E s \in Statuses, n \in Nat : UpdateRedeemCodeStatus(Code, s, n)
  <2>1. Cardinality(chosen) \in Nat
    BY <1>1, CountType DEF TypeOK
  <2> QED BY <2>1
     DEF Next, WorkerStep, AdminStep, SubmitRedeemTask, Start, Refuse, PreVerify, PreVerifyFatal,
         MarkProcessing, RedeemBatch, ReplaceRedeemLog, CountResults, GetLogStats, WriteRecount,
         MarkCompleted, RetryRedeemCode, SupplementRedeemCode, ReadLogStats, CreateAccount,
         VerifyAccount, ReadContribution, DeleteAccounts, RollBackDeletion, FixRedeemCodeStats,
         Crash, vars, codeRows, Statuses
<1>3. ASSUME NEW d \in Codes, CreateRedeemCode(d) \/ DeleteRedeemCode(d)
      PROVE  (code'[c] = "absent" => code[c] = "absent") /\ (code[c] = "deleted" => code'[c] = "deleted")
  BY <1>1, <1>3 DEF CreateRedeemCode, DeleteRedeemCode, Exists, Statuses, TypeOK
<1>4. ASSUME NEW s \in Statuses, NEW n, UpdateRedeemCodeStatus(Code, s, n)
      PROVE  (code'[c] = "absent" => code[c] = "absent") /\ (code[c] = "deleted" => code'[c] = "deleted")
  BY <1>1, <1>4 DEF UpdateRedeemCodeStatus, Exists, Statuses, TypeOK
<1> QED BY <1>2, <1>3, <1>4

\* Nothing is known of a code that has not been submitted.
Unborn(c) ==
  /\ stats[c] = Zero /\ log[c] = NoResult
  /\ c \notin submitting /\ \A t \in tasks : t.code # c
  /\ Busy => Code # c
  /\ fix # NoTx => fix.code # c

Newborn == \A c \in Codes : code[c] = "absent" => Unborn(c)

LEMMA NextNewborn == Typed /\ Newborn /\ [Next]_vars => Newborn'
<1> SUFFICES ASSUME Typed, Newborn, [Next]_vars, NEW c \in Codes, code'[c] = "absent" PROVE Unborn(c)'
  BY DEF Newborn
<1>1. TypeOK /\ Phases /\ code[c] = "absent" /\ ~Exists(c) /\ Unborn(c)
  BY CodeSteps DEF Typed, Newborn, Exists, Statuses
<1>2. log'[c] = NoResult
  <2>1. \A a \in Accounts : log'[c][a] = "none"
    <3>1. \A a \in Accounts : log[c][a] = "none"
      BY <1>1 DEF Unborn, NoResult
    <3>2. wpc = "log" => Code # c
      BY <1>1 DEF Unborn, Busy
    <3> QED BY <3>1, <3>2, LogsComeFromResults
  <2>2. log'[c] \in [Accounts -> Results \cup {"none"}]
    BY NextTyped DEF Typed, TypeOK
  <2> QED BY <2>1, <2>2 DEF NoResult
<1>3. c \notin submitting' /\ \A t \in tasks' : t.code # c
  <2>1. submitting' \subseteq submitting \/ \E d \in Codes : CreateRedeemCode(d)
    BY DEF Next, WorkerStep, AdminStep, SubmitRedeemTask, Start, Refuse, PreVerify, PreVerifyFatal,
         MarkProcessing, RedeemBatch, ReplaceRedeemLog, CountResults, GetLogStats, WriteRecount,
         MarkCompleted, RetryRedeemCode, SupplementRedeemCode, DeleteRedeemCode, ReadLogStats, CreateAccount,
         VerifyAccount, ReadContribution, DeleteAccounts, RollBackDeletion, FixRedeemCodeStats,
         Crash, vars, submissions
  <2>2. ASSUME NEW d \in Codes, CreateRedeemCode(d) PROVE submitting' = submitting \cup {d} /\ d # c
    BY <1>1, <2>2 DEF CreateRedeemCode, TypeOK
  <2>3. \/ tasks' \subseteq tasks
        \/ \E d \in Codes : SubmitRedeemTask(d) \/ RetryRedeemCode(d)
    BY DEF Next, WorkerStep, AdminStep, Start, Refuse, PreVerify, PreVerifyFatal,
         MarkProcessing, RedeemBatch, ReplaceRedeemLog, CountResults, GetLogStats, WriteRecount,
         MarkCompleted, CreateRedeemCode, SupplementRedeemCode, DeleteRedeemCode, ReadLogStats, CreateAccount,
         VerifyAccount, ReadContribution, DeleteAccounts, RollBackDeletion, FixRedeemCodeStats,
         Crash, EndTask, vars, submissions
  <2>4. ASSUME NEW d \in Codes, SubmitRedeemTask(d) \/ RetryRedeemCode(d)
        PROVE  d # c /\ \A t \in tasks' : t \in tasks \/ t.code = d
    BY <1>1, <2>4 DEF SubmitRedeemTask, RetryRedeemCode, CanRetry, Unborn
  <2> QED BY <1>1, <2>1, <2>2, <2>3, <2>4 DEF Unborn
<1>4. (Busy => Code # c)'
  <2>1. wpc' = "idle" \/ (Busy /\ UNCHANGED task) \/ (\E t \in tasks : task' = t)
    BY DEF Next, WorkerStep, AdminStep, SubmitRedeemTask, Start, Refuse, PreVerify, PreVerifyFatal,
         MarkProcessing, RedeemBatch, ReplaceRedeemLog, CountResults, GetLogStats, WriteRecount,
         MarkCompleted, CreateRedeemCode, RetryRedeemCode, SupplementRedeemCode, DeleteRedeemCode,
         ReadLogStats, CreateAccount, VerifyAccount, ReadContribution, DeleteAccounts,
         RollBackDeletion, FixRedeemCodeStats, Crash, EndTask, Busy, vars, worker
  <2> QED BY <1>1, <2>1 DEF Unborn, Busy, Code
<1>5. (fix # NoTx => fix.code # c)'
  <2>1. fix' \in {fix, NoTx} \/ \E d \in Codes : ReadLogStats(d)
    BY DEF Next, WorkerStep, AdminStep, SubmitRedeemTask, Start, Refuse, PreVerify, PreVerifyFatal,
         MarkProcessing, RedeemBatch, ReplaceRedeemLog, CountResults, GetLogStats, WriteRecount,
         MarkCompleted, CreateRedeemCode, RetryRedeemCode, SupplementRedeemCode, DeleteRedeemCode,
         CreateAccount, VerifyAccount, ReadContribution, DeleteAccounts,
         RollBackDeletion, FixRedeemCodeStats, Crash, vars, admin
  <2>2. ASSUME NEW d \in Codes, ReadLogStats(d) PROVE fix'.code = d /\ d # c
    BY <1>1, <2>2 DEF ReadLogStats
  <2> QED BY <1>1, <2>1, <2>2 DEF Unborn
<1>6. stats'[c] = Zero
  <2>1. \/ UNCHANGED stats
        \/ \E s, n : Busy /\ UpdateRedeemCodeStatus(Code, s, n)
        \/ \E n : Busy /\ UpdateRedeemCodeStats(Code, n)
        \/ \E n : fix # NoTx /\ UpdateRedeemCodeStats(fix.code, n)
        \/ \E d \in Codes : DeleteRedeemCode(d)
        \/ DeleteAccounts
    BY DEF Next, WorkerStep, AdminStep, SubmitRedeemTask, Start, Refuse, PreVerify, PreVerifyFatal,
         MarkProcessing, RedeemBatch, ReplaceRedeemLog, CountResults, GetLogStats, WriteRecount,
         MarkCompleted, CreateRedeemCode, RetryRedeemCode, SupplementRedeemCode,
         ReadLogStats, CreateAccount, VerifyAccount, ReadContribution,
         RollBackDeletion, FixRedeemCodeStats, Crash, Busy, vars, codeRows
  <2>2. ASSUME NEW d, d # c, NEW s, NEW n, UpdateRedeemCodeStatus(d, s, n)
        PROVE  stats'[c] = stats[c]
    BY <1>1, <2>2 DEF UpdateRedeemCodeStatus, TypeOK
  <2>3. ASSUME NEW d, d # c, NEW n, UpdateRedeemCodeStats(d, n) PROVE stats'[c] = stats[c]
    BY <1>1, <2>3 DEF UpdateRedeemCodeStats, TypeOK
  <2>4. ASSUME NEW d \in Codes, DeleteRedeemCode(d) PROVE stats'[c] = stats[c]
    BY <1>1, <2>4 DEF DeleteRedeemCode, TypeOK
  <2>5. ASSUME DeleteAccounts PROVE stats'[c] = stats[c]
    BY <1>1, <2>5 DEF DeleteAccounts, TypeOK
  <2> QED BY <1>1, <2>1, <2>2, <2>3, <2>4, <2>5 DEF Unborn
<1> QED BY <1>2, <1>3, <1>4, <1>5, <1>6 DEF Unborn, Busy, Code

-----------------------------------------------------------------------------
(* The counters.                                                           *)

Live(c) == code[c] # "deleted"

Writing == wpc \in {"log", "count", "complete"}

\* The worker knows all logs of its code as long as nothing went wrong.
RunKnows ==
  /\ Writing => \A a \in chosen : results[a] \in Results
  /\ (Writing \/ wpc = "batch") /\ task.kind = "redeem" /\ "run" \notin stale /\ Live(Code) =>
       /\ \A a \in Accounts \ chosen : log[Code][a] = "none"
       /\ Writing => \A a \in chosen \ left : log[Code][a] = results[a]
  /\ wpc = "write" /\ "run" \notin stale /\ Live(Code) => recount = CountLogs(Code, Accounts)

\* So does a repair.
FixKnows ==
  fix # NoTx /\ "fix" \notin stale /\ Live(fix.code) => fix.stats = CountLogs(fix.code, Accounts)

\* A deletion knows what its accounts contribute, at least of the codes that
\* they have not received.
DelKnows ==
  del # NoTx =>
    \A c \in Codes :
      Live(c) /\ ("del" \notin stale \/ del.accounts \cap Participated(c) = {})
        => del.agg[c] = CountLogs(c, del.accounts)

Matching(c) == stats[c] = CountLogs(c, Accounts)

ExactMatch == \A c \in exact : Live(c) => Matching(c)

Trusted == RunKnows /\ FixKnows /\ DelKnows /\ ExactMatch

\* What can have happened to the logs of a code that is still there.
LEMMA LiveLogs ==
  ASSUME Typed, [Next]_vars, NEW c \in Codes, Live(c)'
  PROVE  /\ Live(c)
         /\ \/ log'[c] = log[c]
            \/ \E a \in left : ReplaceRedeemLog(a) /\ Inserted(a) /\ c = Code
            \/ DeleteAccounts
<1>1. TypeOK /\ Phases
  BY DEF Typed
<1>2. Live(c)
  BY CodeSteps DEF Live
<1>3. ASSUME NEW a \in left, ReplaceRedeemLog(a), Inserted(a), c # Code PROVE log'[c] = log[c]
  BY <1>1, <1>3 DEF Inserted, TypeOK
<1>4. ASSUME NEW d \in Codes, DeleteRedeemCode(d) PROVE log'[c] = log[c]
  BY <1>1, <1>4 DEF DeleteRedeemCode, TypeOK, Live
<1> QED BY <1>2, <1>3, <1>4, LogSteps

LEMMA RunStaysKnown == Typed /\ RunKnows /\ [Next]_vars => RunKnows'
<1> SUFFICES ASSUME Typed, RunKnows, [Next]_vars PROVE RunKnows'
  OBVIOUS
<1>1. /\ TypeOK /\ Phases
      /\ wpc # "idle" => Code \in Codes
  BY DEF Typed, TypeOK, Tasks, Code
<1>2. ASSUME wpc' \in {"idle", "verify", "mark"} PROVE RunKnows'
  BY <1>2 DEF RunKnows, Writing
<1>3. ASSUME NEW t \in tasks, Start(t) PROVE RunKnows'
  <2>1. t.kind \in {"redeem", "supplement"}
    BY <1>1 DEF TypeOK, Tasks
  <2> QED BY <1>3, <2>1 DEF Start, RunKnows, Writing
<1>4. ASSUME MarkProcessing, wpc' # "idle" PROVE RunKnows'
  <2>1. /\ wpc' = "batch" /\ UNCHANGED <<task, chosen, log>>
        /\ "run" \notin stale' => Participated(Code) \subseteq chosen
    BY <1>4 DEF MarkProcessing, EndTask, scratch
  <2> QED BY <2>1 DEF RunKnows, Writing, Participated, Code
<1>5. ASSUME RedeemBatch PROVE RunKnows'
  <2>1. /\ wpc = "batch" /\ wpc' = "log" /\ UNCHANGED <<task, chosen, log, code, stale>> /\ left' = chosen
    BY <1>5 DEF RedeemBatch, codeRows, history
  <2>2. \A a \in chosen : results'[a] \in Results
    BY <1>1, <1>5 DEF RedeemBatch, ResultOf, Results, TypeOK
  <2> QED BY <2>1, <2>2 DEF RunKnows, Writing, Live, Code
<1>6. ASSUME NEW a \in left, ReplaceRedeemLog(a) PROVE RunKnows'
  <2>1. /\ wpc = "log" /\ wpc' \in {"log", "count"} /\ UNCHANGED <<task, chosen, results, code>>
        /\ left' = left \ {a} /\ stale \subseteq stale'
        /\ a \in Accounts /\ Code \in Codes
    BY <1>1, <1>6 DEF ReplaceRedeemLog, Inserted, TypeOK
  <2>2. "run" \notin stale' => log' = [log EXCEPT ![Code][a] = results[a]]
    BY <1>6 DEF ReplaceRedeemLog, Inserted
  <2>3. "run" \notin stale' => \A b \in Accounts : log'[Code][b] = IF b = a THEN results[a] ELSE log[Code][b]
    BY <1>1, <2>1, <2>2 DEF TypeOK
  <2>4. a \in chosen /\ chosen \subseteq Accounts
    BY <1>1, <1>6 DEF TypeOK
  <2> QED BY <2>1, <2>3, <2>4 DEF RunKnows, Writing, Live, Code
<1>7. ASSUME CountResults PROVE RunKnows'
  BY <1>7 DEF CountResults, RunKnows, Writing, Live, Code, scratch
<1>8. ASSUME GetLogStats, wpc' # "idle" PROVE RunKnows'
  <2>1. /\ wpc' = "write" /\ recount' = CountLogs(Code, Accounts) /\ UNCHANGED <<task, log>>
    BY <1>8 DEF GetLogStats, EndTask, codeRows
  <2>2. CountLogs(Code, Accounts)' = CountLogs(Code, Accounts)
    BY <2>1 DEF CountLogs, With, Participated, Code
  <2> QED BY <2>1, <2>2 DEF RunKnows, Writing
<1>9. ASSUME UNCHANGED worker, wpc \in {"batch", "log", "count", "complete", "write"},
             "run" \in stale => "run" \in stale',
             ~\E a \in left : ReplaceRedeemLog(a)
      PROVE  RunKnows'
  <2>1. PICK c \in Codes : c = Code /\ Code' = c
    BY <1>1, <1>9 DEF worker, Code
  <2>2. DeleteAccounts => "run" \in stale'
    BY <1>9 DEF DeleteAccounts, Busy
  <2>3. "run" \notin stale' /\ Live(c)' => Live(c) /\ log'[c] = log[c]
    BY <1>9, <2>2, LiveLogs
  <2>4. log'[c] = log[c] => CountLogs(c, Accounts)' = CountLogs(c, Accounts)
    BY CountUnchanged
  <2> QED BY <1>9, <2>1, <2>3, <2>4 DEF RunKnows, Writing, worker, scratch
<1>10. ASSUME wpc' \notin {"idle", "verify", "mark"}
       PROVE  \/ \E t \in tasks : Start(t)
              \/ MarkProcessing \/ RedeemBatch \/ CountResults \/ GetLogStats
              \/ \E a \in left : ReplaceRedeemLog(a)
              \/ UNCHANGED worker /\ ("run" \in stale => "run" \in stale')
  <2>1. ~Crash
    BY <1>10 DEF Crash, EndTask, Busy, worker
  <2>2. CASE WorkerStep
    BY <1>10, <2>2
       DEF WorkerStep, Refuse, PreVerify, PreVerifyFatal, WriteRecount, EndTask, MarkCompleted
  <2>3. CASE ~WorkerStep
    BY <2>1, <2>3
       DEF Next, AdminStep, SubmitRedeemTask, CreateRedeemCode, RetryRedeemCode,
           SupplementRedeemCode, DeleteRedeemCode, ReadLogStats, CreateAccount, VerifyAccount,
           ReadContribution, DeleteAccounts, RollBackDeletion, FixRedeemCodeStats, vars, history
  <2> QED BY <2>2, <2>3
<1>11. wpc \in {"idle", "verify", "mark", "batch", "log", "count", "write", "complete"}
  BY <1>1 DEF TypeOK
<1> QED BY <1>2, <1>3, <1>4, <1>5, <1>6, <1>7, <1>8, <1>9, <1>10, <1>11 DEF worker

LEMMA FixStaysKnown == Typed /\ FixKnows /\ [Next]_vars => FixKnows'
<1> SUFFICES ASSUME Typed, FixKnows, [Next]_vars PROVE FixKnows'
  OBVIOUS
<1>1. TypeOK
  BY DEF Typed
<1>2. ASSUME NEW c \in Codes, ReadLogStats(c) PROVE FixKnows'
  <2>1. fix' = [code |-> c, stats |-> CountLogs(c, Accounts)] /\ UNCHANGED log
    BY <1>2 DEF ReadLogStats, codeRows
  <2>2. CountLogs(c, Accounts)' = CountLogs(c, Accounts)
    BY <2>1 DEF CountLogs, With, Participated
  <2> QED BY <2>1, <2>2 DEF FixKnows
<1>3. ASSUME fix' = NoTx PROVE FixKnows'
  BY <1>3 DEF FixKnows
<1>4. ASSUME UNCHANGED fix, fix # NoTx, ~\E c \in Codes : ReadLogStats(c),
             "fix" \in stale => "fix" \in stale'
      PROVE  FixKnows'
  <2>1. PICK c \in Codes : c = fix.code /\ c = fix'.code
    BY <1>1, <1>4 DEF TypeOK
  <2>2. DeleteAccounts => "fix" \in stale'
    BY <1>4 DEF DeleteAccounts
  <2>3. ASSUME NEW a \in left, Inserted(a), c = Code PROVE "fix" \in stale'
    BY <1>4, <2>1, <2>3 DEF Inserted
  <2>4. "fix" \notin stale' /\ Live(c)' => Live(c) /\ log'[c] = log[c]
    BY <2>2, <2>3, LiveLogs
  <2>5. log'[c] = log[c] => CountLogs(c, Accounts)' = CountLogs(c, Accounts)
    BY CountUnchanged
  <2> QED BY <1>4, <2>1, <2>4, <2>5 DEF FixKnows
<1>5. \/ \E c \in Codes : ReadLogStats(c)
      \/ fix' = NoTx
      \/ UNCHANGED fix /\ ("fix" \in stale => "fix" \in stale')
  <2>1. CASE WorkerStep
    BY <2>1
       DEF WorkerStep, Start, Refuse, PreVerify, PreVerifyFatal, MarkProcessing, RedeemBatch,
           ReplaceRedeemLog, Inserted, CountResults, GetLogStats, WriteRecount, MarkCompleted,
           admin, history
  <2>2. CASE ~WorkerStep
    BY <2>2
       DEF Next, AdminStep, SubmitRedeemTask, CreateRedeemCode, RetryRedeemCode,
           SupplementRedeemCode, DeleteRedeemCode, CreateAccount, VerifyAccount, ReadContribution,
           DeleteAccounts, RollBackDeletion, FixRedeemCodeStats, Crash, vars, admin, history
  <2> QED BY <2>1, <2>2
<1> QED BY <1>2, <1>3, <1>4, <1>5

LEMMA DelStaysKnown == Typed /\ RunKnows /\ DelKnows /\ [Next]_vars => DelKnows'
<1> SUFFICES ASSUME Typed, RunKnows, DelKnows, [Next]_vars PROVE DelKnows'
  OBVIOUS
<1>1. TypeOK
  BY DEF Typed
<1>2. ASSUME NEW S \in SUBSET Accounts, ReadContribution(S) PROVE DelKnows'
  <2>1. del' = [accounts |-> S, agg |-> [c \in Codes |-> CountLogs(c, S)]] /\ UNCHANGED log
    BY <1>2 DEF ReadContribution, codeRows
  <2>2. \A c \in Codes : CountLogs(c, S)' = CountLogs(c, S)
    BY <2>1 DEF CountLogs, With, Participated
  <2> QED BY <2>1, <2>2 DEF DelKnows
<1>3. ASSUME del' = NoTx PROVE DelKnows'
  BY <1>3 DEF DelKnows
<1>4. ASSUME UNCHANGED del, del # NoTx, "del" \in stale => "del" \in stale', ~DeleteAccounts
      PROVE  DelKnows'
  <2>1. PICK S \in SUBSET Accounts : S = del.accounts /\ S = del'.accounts
    BY <1>1, <1>4 DEF TypeOK
  <2> SUFFICES ASSUME NEW c \in Codes, Live(c)', "del" \notin stale' \/ S \cap Participated(c)' = {}
               PROVE  del.agg[c] = CountLogs(c, S)'
    BY <1>4, <2>1 DEF DelKnows
  <2>2. Live(c)
    BY LiveLogs
  <2>3. CASE log'[c] = log[c]
    <3>1. CountLogs(c, S)' = CountLogs(c, S) /\ Participated(c)' = Participated(c)
      BY <2>3, CountUnchanged DEF Participated
    <3> QED BY <1>4, <2>1, <2>2, <3>1 DEF DelKnows
  <2>4. ASSUME NEW a \in left, ReplaceRedeemLog(a), Inserted(a), c = Code
        PROVE  del.agg[c] = CountLogs(c, S)'
    <3>1. a \in chosen /\ chosen \subseteq Accounts /\ wpc = "log"
      BY <1>1, <2>4 DEF TypeOK, ReplaceRedeemLog
    <3>2. \A b \in Accounts : log'[c][b] = IF b = a THEN results[a] ELSE log[c][b]
      BY <1>1, <2>4 DEF Inserted, TypeOK
    <3>3. results[a] # "none"
      BY <3>1 DEF RunKnows, Writing, Results
    <3>4. a \in Participated(c)'
      BY <3>1, <3>2, <3>3 DEF Participated
    <3>5. a \notin S
      BY <1>4, <2>1, <2>4, <3>4 DEF Inserted
    <3>6. CountLogs(c, S)' = CountLogs(c, S)
      BY <3>2, <3>5, CountUnchanged
    <3>7. S \cap Participated(c)' = S \cap Participated(c)
      BY <3>2, <3>5 DEF Participated
    <3> QED BY <1>4, <2>1, <2>2, <3>6, <3>7 DEF DelKnows
  <2> QED BY <1>4, <2>3, <2>4, LiveLogs
<1>5. \/ \E S \in SUBSET Accounts : ReadContribution(S)
      \/ del' = NoTx
      \/ UNCHANGED del /\ ("del" \in stale => "del" \in stale') /\ ~DeleteAccounts
  <2>1. CASE WorkerStep
    BY <2>1
       DEF WorkerStep, Start, Refuse, PreVerify, PreVerifyFatal, MarkProcessing, RedeemBatch,
           ReplaceRedeemLog, Inserted, CountResults, GetLogStats, WriteRecount, MarkCompleted,
           DeleteAccounts, admin, history
  <2>2. CASE ~WorkerStep
    BY <2>2
       DEF Next, AdminStep, SubmitRedeemTask, CreateRedeemCode, RetryRedeemCode,
           SupplementRedeemCode, DeleteRedeemCode, CreateAccount, VerifyAccount, ReadLogStats,
           DeleteAccounts, RollBackDeletion, FixRedeemCodeStats, Crash, vars, admin, history
  <2> QED BY <2>1, <2>2
<1> QED BY <1>2, <1>3, <1>4, <1>5

\* Nothing is taken from what the deleted accounts did not contribute.
LEMMA DeletionMatches ==
  ASSUME Typed, Newborn, DelKnows, ExactMatch, DeleteAccounts, NEW c \in exact', Live(c)'
  PROVE  Matching(c)'
<1>1. TypeOK /\ c \in Codes /\ c \in exact /\ Live(c) /\ Matching(c)
  BY DEF Typed, TypeOK, DeleteAccounts, ExactMatch, Live
<1>2. PICK S \in SUBSET Accounts : S = del.accounts
  BY <1>1 DEF DeleteAccounts, TypeOK
<1>3. \A a \in Accounts : log'[c][a] = IF a \in S THEN "none" ELSE log[c][a]
  BY <1>1, <1>2 DEF DeleteAccounts
<1>4. CountLogs(c, Accounts)' = Deduct(CountLogs(c, Accounts), CountLogs(c, S))
  BY <1>3, DeductIsExact
<1>5. CASE Exists(c)
  <2>1. stats'[c] = Deduct(stats[c], del.agg[c])
    BY <1>1, <1>5 DEF DeleteAccounts
  <2>2. "del" \notin stale \/ S \cap Participated(c) = {}
    BY <1>2 DEF DeleteAccounts
  <2>3. del.agg[c] = CountLogs(c, S)
    BY <1>1, <1>2, <2>2 DEF DelKnows, DeleteAccounts
  <2> QED BY <1>1, <1>4, <2>1, <2>3 DEF Matching
<1>6. CASE ~Exists(c)
  <2>1. code[c] = "absent"
    BY <1>1, <1>6 DEF TypeOK, Live, Exists
  <2>2. stats'[c] = stats[c] /\ log[c] = NoResult
    BY <1>1, <1>6, <2>1 DEF DeleteAccounts, Newborn, Unborn
  <2>3. \A a \in Accounts : log'[c][a] = log[c][a]
    BY <1>3, <2>2 DEF NoResult
  <2>4. CountLogs(c, Accounts)' = CountLogs(c, Accounts)
    BY <2>3, CountUnchanged
  <2> QED BY <1>1, <2>2, <2>4 DEF Matching
<1> QED BY <1>5, <1>6

LEMMA UntouchedMatches ==
  ASSUME Typed, ExactMatch, [Next]_vars, NEW c \in exact, Live(c)',
         stats'[c] = stats[c], log'[c] = log[c]
  PROVE  Matching(c)'
<1>1. c \in Codes
  BY DEF Typed, TypeOK
<1>2. CountLogs(c, Accounts)' = CountLogs(c, Accounts)
  BY CountUnchanged
<1>3. Matching(c)
  BY <1>1, LiveLogs DEF ExactMatch
<1> QED BY <1>2, <1>3 DEF Matching

\* What the worker's own steps leave in the counters.
LEMMA WorkerMatches ==
  ASSUME Typed, Newborn, RunKnows, ExactMatch, WorkerStep, NEW c \in exact', Live(c)'
  PROVE  Matching(c)'
<1>1. /\ TypeOK /\ Phases /\ [Next]_vars /\ c \in Codes /\ Live(c)
      /\ Busy => Code \in Codes /\ (Live(Code) => Exists(Code))
  <2>1. TypeOK /\ Phases /\ [Next]_vars
    BY DEF Typed, Next
  <2>2. c \in Codes
    BY NextTyped, <2>1 DEF Typed, TypeOK
  <2>3. Busy => Code \in Codes
    BY <2>1 DEF TypeOK, Tasks, Code, Busy
  <2>4. Busy => code[Code] # "absent"
    BY <2>3 DEF Newborn, Unborn
  <2> QED BY <2>1, <2>2, <2>3, <2>4, LiveLogs DEF TypeOK, Live, Exists
<1>2. ASSUME c \in exact, stats'[c] = stats[c], log'[c] = log[c] PROVE Matching(c)'
  BY <1>1, <1>2, UntouchedMatches
<1>3. ASSUME c # Code, NEW s, NEW n, UpdateRedeemCodeStatus(Code, s, n) PROVE stats'[c] = stats[c]
  BY <1>1, <1>3 DEF UpdateRedeemCodeStatus, TypeOK
<1>4. ASSUME c # Code, NEW new, UpdateRedeemCodeStats(Code, new) PROVE stats'[c] = stats[c]
  BY <1>1, <1>4 DEF UpdateRedeemCodeStats, TypeOK
<1>5. ASSUME PreVerifyFatal PROVE Matching(c)'
  <2>1. c \in exact /\ UNCHANGED log
    BY <1>5 DEF PreVerifyFatal
  <2>2. CASE UNCHANGED stats \/ c # Code
    BY <1>2, <1>3, <1>5, <2>1, <2>2 DEF PreVerifyFatal
  <2>3. CASE c = Code /\ UpdateRedeemCodeStatus(Code, "completed", 0) /\ Participated(Code) = {}
    <3>1. CountLogs(c, Accounts) = Zero
      BY <2>3, CountNothing
    <3>2. stats[c] = Zero
      BY <1>1, <2>1, <3>1 DEF ExactMatch, Matching
    <3>3. stats'[c] = [Zero EXCEPT !.total = 0] /\ [Zero EXCEPT !.total = 0] = Zero
      BY <1>1, <1>5, <2>3, <3>2 DEF UpdateRedeemCodeStatus, PreVerifyFatal, Busy, TypeOK, Zero
    <3> QED BY <1>2, <2>1, <3>2, <3>3
  <2> QED BY <1>5, <2>1, <2>2, <2>3 DEF PreVerifyFatal
<1>6. ASSUME MarkProcessing PROVE Matching(c)'
  <2>1. c \in exact /\ UNCHANGED log /\ (UNCHANGED stats \/ c # Code)
    BY <1>6 DEF MarkProcessing
  <2> QED BY <1>2, <1>3, <1>6, <2>1 DEF MarkProcessing
<1>7. ASSUME NEW a \in left, ReplaceRedeemLog(a) PROVE Matching(c)'
  <2>1. c \in exact /\ UNCHANGED stats /\ log'[c] = log[c]
    BY <1>1, <1>7 DEF ReplaceRedeemLog, Inserted, TypeOK
  <2> QED BY <1>2, <2>1
<1>8. ASSUME CountResults PROVE Matching(c)'
  <2>1. UNCHANGED log /\ Busy
    BY <1>8 DEF CountResults, Busy
  <2>2. CASE c \in exact /\ (UNCHANGED stats \/ c # Code)
    BY <1>2, <1>4, <1>8, <2>1, <2>2 DEF CountResults
  <2> DEFINE counts == [ total   |-> Cardinality(chosen),
                         success |-> Cardinality({a \in chosen : results[a] = "success"}),
                         failed  |-> Cardinality({a \in chosen : results[a] = "failed"}) ]
  <2>3. CASE c = Code /\ "run" \notin stale /\ UpdateRedeemCodeStats(Code, counts)
    <3>1. /\ \A a \in Accounts : log[c][a] = IF a \in chosen THEN results[a] ELSE "none"
          /\ \A a \in chosen : results[a] \in Results
          /\ chosen \subseteq Accounts
      <4>1. left = {} /\ Writing /\ task.kind = "redeem"
        BY <1>1, <1>8 DEF CountResults, Phases, Writing
      <4> QED BY <1>1, <2>3, <4>1 DEF RunKnows, TypeOK
    <3>2. stats'[c] = counts
      BY <1>1, <2>1, <2>3 DEF UpdateRedeemCodeStats, TypeOK
    <3>3. stats'[c] = CountLogs(c, Accounts)
      BY <3>1, <3>2, CountOfResults
    <3>4. CountLogs(c, Accounts)' = CountLogs(c, Accounts)
      BY <2>1, CountUnchanged
    <3> QED BY <3>3, <3>4 DEF Matching
  <2> QED BY <1>8, <2>2, <2>3 DEF CountResults
<1>9. ASSUME WriteRecount PROVE Matching(c)'
  <2>1. UNCHANGED log /\ Busy
    BY <1>9 DEF WriteRecount, Busy
  <2>2. CASE c \in exact /\ (UNCHANGED stats \/ c # Code)
    BY <1>2, <1>4, <1>9, <2>1, <2>2 DEF WriteRecount
  <2>3. CASE c = Code /\ "run" \notin stale /\ UpdateRedeemCodeStats(Code, recount)
    <3>1. recount = CountLogs(c, Accounts)
      BY <1>1, <1>9, <2>3 DEF RunKnows, WriteRecount
    <3>2. stats'[c] = recount
      BY <1>1, <2>1, <2>3 DEF UpdateRedeemCodeStats, TypeOK
    <3>3. CountLogs(c, Accounts)' = CountLogs(c, Accounts)
      BY <2>1, CountUnchanged
    <3> QED BY <3>1, <3>2, <3>3 DEF Matching
  <2> QED BY <1>9, <2>2, <2>3 DEF WriteRecount
<1>10. ASSUME MarkCompleted PROVE Matching(c)'
  <2>1. c \in exact /\ UNCHANGED log /\ Busy
    BY <1>10 DEF MarkCompleted, Busy
  <2>2. CASE UNCHANGED stats \/ c # Code
    BY <1>2, <1>3, <1>10, <2>1, <2>2 DEF MarkCompleted
  <2>3. CASE c = Code /\ "run" \notin stale /\ UpdateRedeemCodeStatus(Code, "completed", Cardinality(chosen))
    <3>1. /\ \A a \in Accounts : log[c][a] = IF a \in chosen THEN results[a] ELSE "none"
          /\ \A a \in chosen : results[a] \in Results
          /\ chosen \subseteq Accounts
      <4>1. left = {} /\ Writing /\ task.kind = "redeem"
        BY <1>1, <1>10 DEF MarkCompleted, Phases, Writing
      <4> QED BY <1>1, <2>3, <4>1 DEF RunKnows, TypeOK
    <3>2. stats[c].total = Cardinality(chosen)
      <4>1. CountLogs(c, Accounts).total = Cardinality(chosen)
        <5>1. Accounts \cap Participated(c) = chosen
          BY <3>1 DEF Participated, Results
        <5> QED BY <5>1 DEF CountLogs
      <4> QED BY <1>1, <2>1, <4>1 DEF ExactMatch, Matching
    <3>3. stats[c] \in Stats
      BY <1>1 DEF TypeOK
    <3>4. stats'[c] = [stats[c] EXCEPT !.total = Cardinality(chosen)]
      BY <1>1, <2>1, <2>3 DEF UpdateRedeemCodeStatus, TypeOK
    <3>5. stats'[c] = stats[c]
      BY <3>2, <3>3, <3>4 DEF Stats
    <3> QED BY <1>2, <2>1, <3>5
  <2> QED BY <1>10, <2>2, <2>3 DEF MarkCompleted
<1>11. ASSUME UNCHANGED <<stats, log, exact>> PROVE Matching(c)'
  BY <1>2, <1>11
<1> QED BY <1>5, <1>6, <1>7, <1>8, <1>9, <1>10, <1>11
        DEF WorkerStep, Start, Refuse, PreVerify, RedeemBatch, GetLogStats, codeRows, history

LEMMA MatchStays == Typed /\ Newborn /\ Trusted /\ [Next]_vars => ExactMatch'
<1> SUFFICES ASSUME Typed, Newborn, Trusted, [Next]_vars, NEW c \in exact', Live(c)' PROVE Matching(c)'
  BY DEF ExactMatch
<1>1. TypeOK /\ RunKnows /\ FixKnows /\ DelKnows /\ ExactMatch
  BY DEF Typed, Trusted
<1>2. c \in Codes /\ Live(c)
  <2>1. c \in Codes
    BY NextTyped DEF Typed, TypeOK
  <2> QED BY <2>1, LiveLogs
<1>3. ASSUME c \in exact, stats'[c] = stats[c], log'[c] = log[c] PROVE Matching(c)'
  BY <1>1, <1>3, UntouchedMatches
<1>4. ASSUME NEW d \in Codes, CreateRedeemCode(d) PROVE Matching(c)'
  <2>1. UNCHANGED <<stats, log>> /\ exact' = exact \cup {d} /\ code[d] = "absent"
    BY <1>4 DEF CreateRedeemCode
  <2>2. CASE c \in exact
    BY <1>3, <2>1, <2>2
  <2>3. CASE c = d
    <3>1. stats[c] = Zero /\ log[c] = NoResult
      BY <2>1, <2>3 DEF Newborn, Unborn
    <3>2. Participated(c)' = {}
      BY <2>1, <3>1 DEF Participated, NoResult
    <3>3. CountLogs(c, Accounts)' = CountLogs(c, Accounts) /\ Participated(c) = {}
      BY <2>1, <3>2 DEF CountLogs, With, Participated
    <3>4. CountLogs(c, Accounts) = Zero
      BY <3>3, CountNothing
    <3> QED BY <2>1, <3>1, <3>3, <3>4 DEF Matching
  <2> QED BY <2>1, <2>2, <2>3
<1>5. ASSUME NEW d \in Codes, DeleteRedeemCode(d) PROVE Matching(c)'
  <2>1. c \in exact /\ c # d /\ stats'[c] = stats[c] /\ log'[c] = log[c]
    BY <1>1, <1>2, <1>5 DEF DeleteRedeemCode, TypeOK
  <2> QED BY <1>3, <2>1
<1>6. ASSUME FixRedeemCodeStats PROVE Matching(c)'
  <2>1. UNCHANGED <<log, code>> /\ fix # NoTx /\ fix.code \in Codes
    BY <1>1, <1>6 DEF FixRedeemCodeStats, TypeOK
  <2>2. CASE c \in exact /\ c # fix.code
    <3>1. stats'[c] = stats[c]
      BY <1>1, <1>2, <1>6, <2>2 DEF FixRedeemCodeStats, UpdateRedeemCodeStats, TypeOK
    <3> QED BY <1>3, <2>1, <2>2, <3>1
  <2>3. CASE UNCHANGED <<stats, exact>>
    BY <1>3, <2>1, <2>3
  <2>4. CASE c = fix.code /\ Exists(c) /\ "fix" \notin stale /\ UpdateRedeemCodeStats(fix.code, fix.stats)
    <3>1. stats'[c] = fix.stats
      BY <1>1, <1>2, <2>4 DEF UpdateRedeemCodeStats, TypeOK
    <3>2. fix.stats = CountLogs(c, Accounts)
      BY <1>1, <1>2, <2>1, <2>4 DEF FixKnows
    <3>3. CountLogs(c, Accounts)' = CountLogs(c, Accounts)
      BY <2>1, CountUnchanged
    <3> QED BY <3>1, <3>2, <3>3 DEF Matching
  <2> QED BY <1>6, <2>2, <2>3, <2>4 DEF FixRedeemCodeStats
<1>7. ASSUME UNCHANGED <<stats, log, exact>> PROVE Matching(c)'
  BY <1>3, <1>7
<1>8. \/ WorkerStep \/ DeleteAccounts \/ FixRedeemCodeStats
      \/ \E d \in Codes : CreateRedeemCode(d) \/ DeleteRedeemCode(d)
      \/ UNCHANGED <<stats, log, exact>>
  BY DEF Next, AdminStep, SubmitRedeemTask, RetryRedeemCode, SupplementRedeemCode, CreateAccount,
         VerifyAccount, ReadLogStats, ReadContribution, RollBackDeletion, Crash, vars, codeRows, history
<1> QED BY <1>1, <1>4, <1>5, <1>6, <1>7, <1>8, WorkerMatches, DeletionMatches

-----------------------------------------------------------------------------
(* The theorems.                                                           *)

IInv ==
  /\ Typed
  /\ ResultsTrue /\ SuccessIsTrue /\ Backed
  /\ Unlogged
  /\ Newborn /\ Trusted

LEMMA InitIInv == Init => IInv
<1> SUFFICES ASSUME Init PROVE IInv
  OBVIOUS
<1>1. \A c \in Codes, a \in Accounts : log[c][a] = "none"
  BY DEF Init, NoResult
<1>2. ResultsTrue /\ SuccessIsTrue
  BY <1>1 DEF Init, ResultsTrue, SuccessIsTrue, NoResult
<1>3. Unlogged /\ Backed
  <2>1. \A c \in Codes : Recorded(c) = {} /\ Unwritten(c) = {} /\ Gifts(c) = {}
    BY <1>1 DEF Init, Recorded, Unwritten, Gifts
  <2>2. Backed
    BY <2>1, FS_EmptySet DEF Backed, BackedUp
  <2> QED BY <2>2 DEF Init, Unlogged
<1>4. Newborn
  BY DEF Init, Newborn, Unborn, Busy
<1>5. Trusted
  BY DEF Init, Trusted, RunKnows, Writing, FixKnows, DelKnows, ExactMatch
<1> QED BY <1>2, <1>3, <1>4, <1>5, InitTyped DEF IInv

LEMMA NextKeepsIInv == IInv /\ [Next]_vars => IInv'
<1> SUFFICES ASSUME IInv, [Next]_vars PROVE IInv'
  OBVIOUS
<1>1. Typed' /\ ResultsTrue' /\ SuccessIsTrue' /\ Backed' /\ Unlogged' /\ Newborn'
  BY NextTyped, NextTrue, NextBacked, NextUnlogged, NextNewborn DEF IInv
<1>2. Trusted'
  BY RunStaysKnown, FixStaysKnown, DelStaysKnown, MatchStays DEF IInv, Trusted
<1> QED BY <1>1, <1>2 DEF IInv

\* Every variable keeps its type; in particular no counter is ever negative or
\* greater than the number of accounts.
THEOREM TaskTypeCorrect == Spec => []TypeOK
<1>1. IInv => TypeOK
  BY DEF IInv, Typed
<1> QED BY InitIInv, NextKeepsIInv, <1>1, PTL DEF Spec

\* The counters of a code equal its logs unless one of the known disturbances
\* has interfered (UpdateRedeemCodeStats, updateRedeemCodeStats, Delete).
THEOREM CountersCanBeTrusted == Spec => []StatsMatchLogs
<1>1. IInv => StatsMatchLogs
  BY DEF IInv, Trusted, ExactMatch, StatsMatchLogs, Matching, Live, Exists, Statuses
<1> QED BY InitIInv, NextKeepsIInv, <1>1, PTL DEF Spec

\* However tasks are repeated and whatever fails, a log never claims a gift that
\* its account has not received, unless others have logged in during a batch of
\* the code (processRedeemJob, processSupplementRedeemJob, c.fid).
THEOREM LoggedSuccessIsTrue == Spec => []SuccessIsTrue
<1>1. IInv => SuccessIsTrue
  BY DEF IInv
<1> QED BY InitIInv, NextKeepsIInv, <1>1, PTL DEF Spec

\* Whoever logs in meanwhile, the logs of a code never claim more gifts than were
\* given for it: a success that is another's takes that account's own place
\* (processRedeemJob, processSupplementRedeemJob, Login, RedeemCode).
THEOREM LoggedSuccessesWereGiven == Spec => []SuccessesWereGiven
<1>1. IInv => SuccessesWereGiven
  <2> SUFFICES ASSUME IInv, NEW c \in Codes
               PROVE  With(c, Accounts, "success") <= Cardinality({a \in Accounts : <<c, a>> \in claimed})
    BY DEF SuccessesWereGiven
  <2>1. /\ Cardinality(Recorded(c)) \in Nat /\ Cardinality(Unwritten(c)) \in Nat
        /\ Cardinality(Gifts(c)) \in Nat
    BY GiftsFinite DEF IInv
  <2> QED BY <2>1 DEF IInv, Backed, BackedUp, Recorded, Gifts, With
<1> QED BY InitIInv, NextKeepsIInv, <1>1, PTL DEF Spec

\* A supplement never replaces a log (processSupplementRedeemJob, ReplaceRedeemLog).
THEOREM SupplementReplacesNothing == Spec => SupplementOnlyAdds
<1>1. IInv /\ [Next]_vars =>
        [\A a \in Accounts :
           ReplaceRedeemLog(a) /\ task.kind = "supplement" => log[task.code][a] = "none"]_vars
  BY DEF IInv, Unlogged, ReplaceRedeemLog, Code
<1> QED BY InitIInv, NextKeepsIInv, <1>1, PTL DEF Spec, SupplementOnlyAdds

-----------------------------------------------------------------------------
(* The body of a task comes to its end.                                    *)

\* A bound on the statements that the body of the task can still make: one for
\* each account to be redeemed for and a few more.
BodyLeft ==
  CASE wpc = "verify"               -> Cardinality(chosen) + 5
    [] wpc = "mark"                 -> Cardinality(chosen) + 4
    [] wpc = "batch"                -> Cardinality(chosen) + 3
    [] wpc = "log"                  -> Cardinality(left) + 2
    [] wpc = "count"                -> 2
    [] wpc \in {"write", "complete"} -> 1
    [] OTHER                        -> 0

\* Whoever takes a step that changes what the worker is doing: the body has
\* less before it.
BodyAdvances == Busy /\ worker' # worker => BodyLeft' < BodyLeft

\* The accounts of a body that has not redeemed, and the results of one that
\* writes its logs, are never used up.
Supplied ==
  /\ wpc \in {"verify", "mark", "batch"} => chosen # {}
  /\ wpc = "log" => left # {}

\* The worker always has a statement to make.
BodyGoesOn ==
  Busy => \/ wpc = "verify" /\ chosen # {}
          \/ wpc \in {"mark", "batch", "write", "complete"}
          \/ wpc = "log" /\ left # {}
          \/ wpc = "count" /\ task.kind \in {"redeem", "supplement"}

\* The steps of the worker in a body, of the beginning of one and of all others.
LEMMA BodySteps ==
  ASSUME [Next]_vars
  PROVE  \/ UNCHANGED worker
         \/ wpc = "idle" /\ \E t \in tasks : Start(t)
         \/ PreVerify \/ RedeemBatch \/ CountResults
         \/ wpc = "mark" /\ wpc' = "batch" /\ UNCHANGED chosen
         \/ wpc = "count" /\ wpc' = "write" /\ left' = left
         \/ \E a \in left : ReplaceRedeemLog(a)
         \/ wpc' = "idle"
  BY DEF Next, WorkerStep, AdminStep, SubmitRedeemTask, Start, Refuse, PreVerifyFatal, scratch,
         MarkProcessing, GetLogStats, WriteRecount, EndTask,
         MarkCompleted, CreateRedeemCode, RetryRedeemCode, SupplementRedeemCode, DeleteRedeemCode,
         ReadLogStats, CreateAccount, VerifyAccount, ReadContribution, DeleteAccounts,
         RollBackDeletion, FixRedeemCodeStats, Crash, vars

\* A body starts with accounts, and writes a log for each of them.
LEMMA NextSupplied == Supplied /\ [Next]_vars => Supplied'
<1> SUFFICES ASSUME Supplied, [Next]_vars PROVE Supplied'
  OBVIOUS
<1>1. CASE UNCHANGED worker
  BY <1>1 DEF worker, scratch, Supplied
<1>2. ASSUME NEW t \in tasks, Start(t) PROVE Supplied'
  BY <1>2 DEF Start, Supplied
<1>3. CASE PreVerify \/ RedeemBatch \/ CountResults
  BY <1>3 DEF PreVerify, RedeemBatch, CountResults, scratch, Supplied
<1>4. ASSUME NEW a \in left, ReplaceRedeemLog(a) PROVE Supplied'
  BY <1>4 DEF ReplaceRedeemLog, Supplied
<1>5. CASE \/ wpc = "mark" /\ wpc' = "batch" /\ UNCHANGED chosen
           \/ wpc = "count" /\ wpc' = "write" /\ left' = left
           \/ wpc' = "idle"
  BY <1>5 DEF Supplied
<1> QED BY <1>1, <1>2, <1>3, <1>4, <1>5, BodySteps

\* Every step of a body leaves less to be done.
LEMMA BodyStepAdvances ==
  ASSUME Typed, Supplied, [Next]_vars, Busy, worker' # worker
  PROVE  BodyLeft' < BodyLeft
<1>1. TypeOK /\ chosen \subseteq Accounts /\ left \subseteq Accounts /\ left \subseteq chosen
  BY DEF Typed, TypeOK
<1>2. /\ IsFiniteSet(chosen) /\ Cardinality(chosen) \in Nat
      /\ IsFiniteSet(left) /\ Cardinality(left) \in Nat
  BY <1>1, CountType
<1>3. BodyLeft >= 1 /\ BodyLeft \in Nat
  BY <1>1, <1>2 DEF BodyLeft, Busy, TypeOK
<1>4. CASE wpc' = "idle"
  BY <1>3, <1>4 DEF BodyLeft
<1>5. CASE PreVerify
  BY <1>2, <1>5 DEF PreVerify, scratch, BodyLeft
<1>6. CASE wpc = "mark" /\ wpc' = "batch" /\ UNCHANGED chosen
  BY <1>2, <1>6 DEF BodyLeft
<1>7. CASE RedeemBatch
  BY <1>2, <1>7 DEF RedeemBatch, BodyLeft
<1>8. CASE CountResults \/ (wpc = "count" /\ wpc' = "write" /\ left' = left)
  BY <1>8 DEF CountResults, BodyLeft
<1>9. ASSUME NEW a \in left, ReplaceRedeemLog(a) PROVE BodyLeft' < BodyLeft
  <2>1. /\ wpc = "log" /\ left' = left \ {a}
        /\ wpc' = IF left' = {} THEN "count" ELSE "log"
    BY <1>9 DEF ReplaceRedeemLog
  <2>2. Cardinality(left \ {a}) = Cardinality(left) - 1 /\ Cardinality(left) >= 1
    <3>1. Cardinality(left \ {a}) = Cardinality(left) - 1 /\ IsFiniteSet(left \ {a})
      BY <1>2, <1>9, FS_RemoveElement
    <3>2. Cardinality(left \ {a}) \in Nat
      BY <3>1, FS_CardinalityType
    <3> QED BY <1>2, <3>1, <3>2
  <2>3. BodyLeft = Cardinality(left) + 2
    BY <2>1 DEF BodyLeft
  <2>4. BodyLeft' = IF left' = {} THEN 2 ELSE Cardinality(left \ {a}) + 2
    BY <2>1 DEF BodyLeft
  <2> QED BY <1>2, <2>2, <2>3, <2>4
<1> QED BY <1>4, <1>5, <1>6, <1>7, <1>8, <1>9, BodySteps DEF Busy

\* The body of a task has a statement to make until it ends, and it ends after
\* at most as many as it has accounts and five: whatever fails and whatever
\* others do to the tables meanwhile, it is neither stuck nor led in a circle
\* (processRedeemJob, processSupplementRedeemJob).
THEOREM BodiesEnd == Spec => []BodyGoesOn /\ [][BodyAdvances]_vars
<1>1. Init => Supplied
  BY DEF Init, Supplied
<1>2. Typed /\ Supplied => BodyGoesOn
  BY DEF Typed, TypeOK, Tasks, Supplied, Busy, BodyGoesOn
<1>3. Typed /\ Supplied /\ [Next]_vars => BodyAdvances
  BY BodyStepAdvances DEF BodyAdvances
<1>4. IInv => Typed
  BY DEF IInv
<1> QED BY <1>1, <1>2, <1>3, <1>4, InitIInv, NextKeepsIInv, NextSupplied, PTL DEF Spec

-----------------------------------------------------------------------------
(* When nothing goes wrong: no statement fails, the process is not killed, *)
(* and the queue holds no second copy of a task that succeeded.            *)

Calm == Disturbances \cap {"db", "crash", "rerun"} = {}

RedeemOf(c)     == [kind |-> "redeem", code |-> c]
SupplementOf(c) == [kind |-> "supplement", code |-> c]

\* A code is redeemed once: its task is submitted once, and done when the code
\* is completed; supplements come after that.
Once ==
  /\ Busy => task \in tasks
  /\ \A c \in Codes :
       /\ c \in submitting => RedeemOf(c) \notin tasks /\ code[c] \notin {"absent", "completed"}
       /\ RedeemOf(c) \in tasks => code[c] # "completed"
       /\ SupplementOf(c) \in tasks => c \notin submitting /\ RedeemOf(c) \notin tasks

\* The code is still to be redeemed.
ToCome(c) == code[c] = "absent" \/ c \in submitting \/ RedeemOf(c) \in tasks

\* Until it is, it has no logs, and while it is, none but those just written.
FirstLogs ==
  /\ \A c \in Codes :
       ToCome(c) /\ ~(Writing /\ task = RedeemOf(c)) => \A a \in Accounts : log[c][a] = "none"
  /\ wpc = "log" /\ task.kind = "redeem" => \A a \in left : log[Code][a] = "none"

\* Tasks are named by their kind and their code.
LEMMA TaskNames ==
  /\ \A c, d \in Codes : RedeemOf(c) = RedeemOf(d) => c = d
  /\ \A c, d \in Codes : SupplementOf(c) = SupplementOf(d) => c = d
  /\ \A c, d \in Codes : RedeemOf(c) # SupplementOf(d)
  /\ \A c \in Codes : RedeemOf(c).code = c /\ SupplementOf(c).code = c
  /\ \A c \in Codes : RedeemOf(c).kind = "redeem" /\ SupplementOf(c).kind = "supplement"
  /\ \A c \in Codes : RedeemOf(c) \in Tasks /\ SupplementOf(c) \in Tasks
  /\ \A t \in Tasks : t.code \in Codes /\ (t = RedeemOf(t.code) \/ t = SupplementOf(t.code))
<1>1. \A c \in Codes : /\ RedeemOf(c).code = c /\ SupplementOf(c).code = c
                       /\ RedeemOf(c).kind = "redeem" /\ SupplementOf(c).kind = "supplement"
  BY DEF RedeemOf, SupplementOf
<1>2. \A c \in Codes : RedeemOf(c) \in Tasks /\ SupplementOf(c) \in Tasks
  BY DEF RedeemOf, SupplementOf, Tasks
<1>3. \A c, d \in Codes : /\ RedeemOf(c) = RedeemOf(d) => c = d
                          /\ SupplementOf(c) = SupplementOf(d) => c = d
  BY <1>1
<1>4. \A c, d \in Codes : RedeemOf(c) # SupplementOf(d)
  <2> SUFFICES ASSUME NEW c \in Codes, NEW d \in Codes PROVE RedeemOf(c) # SupplementOf(d)
    OBVIOUS
  <2>1. RedeemOf(c).kind = "redeem" /\ SupplementOf(d).kind = "supplement"
    BY <1>1
  <2> QED BY <2>1
<1>5. ASSUME NEW t \in Tasks
      PROVE  t.code \in Codes /\ (t = RedeemOf(t.code) \/ t = SupplementOf(t.code))
  BY DEF Tasks, RedeemOf, SupplementOf
<1> QED BY <1>1, <1>2, <1>3, <1>4, <1>5

\* What a step does to tasks and codes when nothing goes wrong.
Frame == UNCHANGED <<code, submitting, tasks>>

Stays == Busy' => Busy /\ UNCHANGED task

Ends(t) == tasks' = tasks \ {t} /\ wpc' = "idle"

LEMMA CalmSteps ==
  ASSUME Calm, Typed, [Next]_vars
  PROVE  \/ Frame /\ Stays
         \/ \E t \in tasks : Start(t)
         \/ \E t \in tasks : Ends(t) /\ UNCHANGED <<code, submitting, log>>
         \/ UNCHANGED <<submitting, tasks, log>> /\ Busy /\ UNCHANGED task /\ UpdateRedeemCodeStatus(Code, "processing", Cardinality(chosen))
         \/ /\ Busy /\ Ends(task) /\ UNCHANGED <<submitting, log>>
            /\ \E n \in Nat : UpdateRedeemCodeStatus(Code, "completed", n)
         \/ Busy /\ Ends(task) /\ UNCHANGED <<code, submitting, log>>
         \/ \E c \in Codes : CreateRedeemCode(c) \/ SubmitRedeemTask(c) \/ RetryRedeemCode(c) \/ DeleteRedeemCode(c)
<1>1. ~DbFails /\ "crash" \notin Disturbances /\ "rerun" \notin Disturbances
  BY DEF Calm, DbFails
<1>2. Cardinality(chosen) \in Nat /\ TypeOK
  BY CountType DEF Typed, TypeOK
<1>3. ASSUME NEW t \in tasks, Refuse(t)
      PROVE  \/ Frame /\ Stays
             \/ Ends(t) /\ UNCHANGED <<code, submitting, log>>
  BY <1>3 DEF Refuse, EndTask, Frame, Stays, Busy, Ends, codeRows
<1>4. CASE PreVerifyFatal \/ MarkCompleted
  <2>1. Busy /\ Ends(task) /\ UNCHANGED <<submitting, log>>
    BY <1>1, <1>4 DEF PreVerifyFatal, MarkCompleted, EndTask, Busy, Ends
  <2>2. \E n \in Nat : UpdateRedeemCodeStatus(Code, "completed", n)
    BY <1>1, <1>2, <1>4 DEF PreVerifyFatal, MarkCompleted
  <2> QED BY <2>1, <2>2
<1>5. CASE MarkProcessing
  BY <1>1, <1>5 DEF MarkProcessing, Busy
<1>6. CASE WriteRecount
  BY <1>1, <1>6 DEF WriteRecount, EndTask, Busy, Ends
<1>7. CASE PreVerify \/ RedeemBatch \/ CountResults \/ GetLogStats
  BY <1>1, <1>7 DEF PreVerify, RedeemBatch, CountResults, GetLogStats, Busy, Frame, Stays, codeRows, submissions
<1>8. ASSUME NEW a \in left, ReplaceRedeemLog(a) PROVE Frame /\ Stays
  BY <1>8 DEF ReplaceRedeemLog, Busy, Frame, Stays, submissions
<1>9. ASSUME NEW c \in Codes, ReadLogStats(c) PROVE Frame /\ Stays
  BY <1>9 DEF ReadLogStats, worker, Busy, Frame, Stays, submissions, codeRows
<1>10. CASE \E a \in Accounts : CreateAccount(a) \/ VerifyAccount(a)
  BY <1>10 DEF CreateAccount, VerifyAccount, worker, Busy, Frame, Stays, submissions, codeRows
<1>11. CASE \/ \E S \in SUBSET Accounts : ReadContribution(S)
            \/ DeleteAccounts \/ RollBackDeletion \/ FixRedeemCodeStats
  BY <1>11 DEF ReadContribution, DeleteAccounts, RollBackDeletion, FixRedeemCodeStats,
               worker, Busy, Frame, Stays, submissions, codeRows
<1>12. CASE UNCHANGED vars
  BY <1>12 DEF vars, worker, Busy, Frame, Stays, submissions, codeRows
<1>13. ~Crash
  BY <1>1 DEF Crash
<1> QED BY <1>3, <1>4, <1>5, <1>6, <1>7, <1>8, <1>9, <1>10, <1>11, <1>12, <1>13
        DEF Next, WorkerStep, AdminStep, SupplementRedeemCode

\* Each code is redeemed at most once.
LEMMA NextOnce == Calm /\ Typed /\ Newborn /\ Once /\ [Next]_vars => Once'
<1> SUFFICES ASSUME Calm, Typed, Newborn, Once, [Next]_vars PROVE Once'
  OBVIOUS
<1>1. TypeOK /\ Phases /\ tasks \subseteq Tasks /\ code \in [Codes -> Statuses \cup {"absent", "deleted"}]
  BY DEF Typed, TypeOK
<1>2. Busy => task \in Tasks /\ Code \in Codes /\ task \in tasks
  BY <1>1 DEF Once, Busy, TypeOK, Tasks, Code
<1>3. CASE Frame /\ Stays
  BY <1>3 DEF Frame, Stays, Once
<1>4. ASSUME NEW t \in tasks, Start(t) PROVE Once'
  BY <1>4 DEF Start, Once, codeRows, submissions
<1>5. ASSUME NEW t \in tasks, Ends(t), UNCHANGED <<code, submitting>> PROVE Once'
  BY <1>5 DEF Ends, Once, Busy
<1>6. CASE /\ UNCHANGED <<submitting, tasks>> /\ Busy /\ UNCHANGED task
           /\ UpdateRedeemCodeStatus(Code, "processing", Cardinality(chosen))
  <2>1. \A c \in Codes : code'[c] = code[c] \/ (code'[c] = "processing" /\ code[c] # "absent")
    BY <1>1, <1>2, <1>6 DEF UpdateRedeemCodeStatus, Exists, Statuses
  <2> QED BY <1>2, <1>6, <2>1 DEF Once
<1>7. ASSUME Busy, Ends(task), UNCHANGED submitting, NEW n \in Nat,
             UpdateRedeemCodeStatus(Code, "completed", n)
      PROVE  Once'
  <2>1. \A c \in Codes : code'[c] = code[c] \/ (c = Code /\ code'[c] = "completed" /\ code[c] # "absent")
    BY <1>1, <1>2, <1>7 DEF UpdateRedeemCodeStatus, Exists, Statuses
  <2>2. task = RedeemOf(Code) \/ task = SupplementOf(Code)
    BY <1>2, <1>7, TaskNames DEF Code
  <2>3. Code \notin submitting /\ RedeemOf(Code) \notin tasks \ {task}
    BY <1>2, <1>7, <2>2 DEF Once
  <2> QED BY <1>7, <2>1, <2>3 DEF Ends, Once, Busy
<1>8. ASSUME NEW d \in Codes, CreateRedeemCode(d) PROVE Once'
  <2>1. /\ code[d] = "absent" /\ code' = [code EXCEPT ![d] = "pending"]
        /\ submitting' = submitting \cup {d}
        /\ UNCHANGED <<tasks, wpc, task>>
    BY <1>8 DEF CreateRedeemCode, worker
  <2>2. RedeemOf(d) \notin tasks /\ SupplementOf(d) \notin tasks
    BY <2>1, TaskNames DEF Newborn, Unborn
  <2> QED BY <1>1, <2>1, <2>2 DEF Once, Busy
<1>9. ASSUME NEW d \in Codes, SubmitRedeemTask(d) PROVE Once'
  <2>1. /\ d \in submitting /\ submitting' = submitting \ {d}
        /\ tasks' \subseteq tasks \cup {RedeemOf(d)} /\ tasks \subseteq tasks'
        /\ UNCHANGED <<code, wpc, task>>
    BY <1>9 DEF SubmitRedeemTask, RedeemOf, worker, codeRows
  <2>2. \A c \in Codes : RedeemOf(c) \in tasks' => RedeemOf(c) \in tasks \/ c = d
    BY <2>1, TaskNames
  <2>3. \A c \in Codes : SupplementOf(c) \in tasks' => SupplementOf(c) \in tasks
    BY <2>1, TaskNames
  <2> QED BY <2>1, <2>2, <2>3 DEF Once, Busy
<1>10. ASSUME NEW d \in Codes, RetryRedeemCode(d) PROVE Once'
  <2>1. /\ code[d] = "completed" /\ tasks' = tasks \cup {SupplementOf(d)}
        /\ UNCHANGED <<code, submitting, wpc, task>>
    BY <1>10 DEF RetryRedeemCode, CanRetry, SupplementOf, worker, codeRows
  <2>2. \A c \in Codes : RedeemOf(c) \in tasks' => RedeemOf(c) \in tasks
    BY <2>1, TaskNames
  <2>3. \A c \in Codes : SupplementOf(c) \in tasks' => SupplementOf(c) \in tasks \/ c = d
    BY <2>1, TaskNames
  <2>4. d \notin submitting /\ RedeemOf(d) \notin tasks
    BY <2>1 DEF Once
  <2> QED BY <2>1, <2>2, <2>3, <2>4 DEF Once, Busy
<1>11. ASSUME NEW d \in Codes, DeleteRedeemCode(d) PROVE Once'
  BY <1>1, <1>11 DEF DeleteRedeemCode, Once, Busy, worker, submissions
<1> QED BY <1>3, <1>4, <1>5, <1>6, <1>7, <1>8, <1>9, <1>10, <1>11, <1>2, CalmSteps

\* Where the logs of a code that is being redeemed may come from.
LEMMA RecordingSteps ==
  ASSUME [Next]_vars, Writing'
  PROVE  \/ Writing /\ UNCHANGED task
         \/ RedeemBatch
  BY DEF Next, WorkerStep, AdminStep, SubmitRedeemTask, Start, Refuse, PreVerify, PreVerifyFatal, scratch,
         MarkProcessing, CountResults, GetLogStats, WriteRecount, EndTask, ReplaceRedeemLog, Writing,
         MarkCompleted, CreateRedeemCode, RetryRedeemCode, SupplementRedeemCode, DeleteRedeemCode,
         ReadLogStats, CreateAccount, VerifyAccount, ReadContribution, DeleteAccounts,
         RollBackDeletion, FixRedeemCodeStats, Crash, vars, worker

\* So are the places where it stops to write.
LEMMA RecordingEnds ==
  ASSUME Calm, Typed, [Next]_vars, Writing, ~(Writing' /\ UNCHANGED task), task.kind = "redeem"
  PROVE  Ends(task) /\ UNCHANGED submitting /\ (code' = code \/ \E n \in Nat : UpdateRedeemCodeStatus(Code, "completed", n))
<1>1. ~DbFails /\ "crash" \notin Disturbances /\ "rerun" \notin Disturbances
  BY DEF Calm, DbFails
<1>2. TypeOK /\ Phases /\ Busy /\ Cardinality(chosen) \in Nat
  BY CountType DEF Typed, TypeOK, Writing, Busy
<1>3. CASE MarkCompleted
  BY <1>1, <1>2, <1>3 DEF MarkCompleted, EndTask, Ends
<1>4. MarkCompleted
  BY <1>1, <1>2
     DEF Next, WorkerStep, AdminStep, SubmitRedeemTask, Start, Refuse, PreVerify, PreVerifyFatal, scratch,
         MarkProcessing, RedeemBatch, CountResults, GetLogStats, WriteRecount, ReplaceRedeemLog, Writing,
         CreateRedeemCode, RetryRedeemCode, SupplementRedeemCode, DeleteRedeemCode,
         ReadLogStats, CreateAccount, VerifyAccount, ReadContribution, DeleteAccounts,
         RollBackDeletion, FixRedeemCodeStats, Crash, Busy, vars, worker
<1> QED BY <1>3, <1>4

\* What is over does not come back.
LEMMA ToComeBefore ==
  ASSUME Calm, Typed, [Next]_vars, NEW c \in Codes, ToCome(c)'
  PROVE  ToCome(c)
<1>1. TypeOK
  BY DEF Typed
<1>2. c \in submitting' => c \in submitting \/ code[c] = "absent"
  BY <1>1, CalmSteps
     DEF Frame, Ends, Start, submissions, CreateRedeemCode, SubmitRedeemTask, RetryRedeemCode, DeleteRedeemCode
<1>3. RedeemOf(c) \in tasks' => RedeemOf(c) \in tasks \/ c \in submitting
  <2>1. ASSUME NEW d \in Codes, SubmitRedeemTask(d), RedeemOf(c) \in tasks' PROVE RedeemOf(c) \in tasks \/ c \in submitting
    <3>1. d \in submitting /\ tasks' \subseteq tasks \cup {RedeemOf(d)}
      BY <2>1 DEF SubmitRedeemTask, RedeemOf
    <3> QED BY <2>1, <3>1, TaskNames
  <2>2. ASSUME NEW d \in Codes, RetryRedeemCode(d), RedeemOf(c) \in tasks' PROVE RedeemOf(c) \in tasks
    <3>1. tasks' = tasks \cup {SupplementOf(d)}
      BY <2>2 DEF RetryRedeemCode, SupplementOf
    <3> QED BY <2>2, <3>1, TaskNames
  <2> QED BY <2>1, <2>2, CalmSteps DEF Frame, Ends, Start, submissions, CreateRedeemCode, DeleteRedeemCode
<1> QED BY <1>2, <1>3, CodeSteps DEF ToCome

\* A task that is under way is of one of the two kinds, for a code that is
\* there.
LEMMA TaskUnderWay ==
  ASSUME Typed, Newborn, Once, Busy
  PROVE  /\ Code \in Codes /\ task \in tasks /\ code[Code] # "absent"
         /\ task = RedeemOf(Code) \/ task = SupplementOf(Code)
<1>1. task \in Tasks /\ task \in tasks /\ Code \in Codes
  BY DEF Typed, TypeOK, Once, Busy, Tasks, Code
<1> QED BY <1>1, TaskNames DEF Newborn, Unborn, Code

\* The logs of a code stay none until it is redeemed.
LEMMA NextFirstLogs ==
  Calm /\ Typed /\ Newborn /\ Once /\ FirstLogs /\ [Next]_vars => FirstLogs'
<1> SUFFICES ASSUME Calm, Typed, Newborn, Once, FirstLogs, [Next]_vars PROVE FirstLogs'
  OBVIOUS
<1>1. TypeOK /\ left \subseteq Accounts
  BY DEF Typed, TypeOK
<1>2. ASSUME NEW c \in Codes, ToCome(c)', ~(Writing /\ task = RedeemOf(c))', NEW a \in Accounts,
             log'[c][a] # "none"
      PROVE  FALSE
  <2>1. ToCome(c)
    BY <1>2, ToComeBefore
  <2>2. CASE Writing /\ task = RedeemOf(c)
    <3>1. Busy /\ task.kind = "redeem" /\ Code = c
      BY <2>2, TaskNames DEF Writing, Busy, Code
    <3>2. Ends(task) /\ UNCHANGED submitting
      BY <1>2, <2>2, <3>1, RecordingEnds
    <3>3. c \notin submitting /\ RedeemOf(c) \notin tasks' /\ code[c] # "absent"
      BY <2>2, <3>1, <3>2, TaskUnderWay DEF Ends, Once
    <3> QED BY <1>2, <3>2, <3>3, CodeSteps DEF ToCome
  <2>3. CASE ~(Writing /\ task = RedeemOf(c))
    <3>1. log[c][a] = "none"
      BY <2>1, <2>3 DEF FirstLogs
    <3>2. ReplaceRedeemLog(a) /\ wpc = "log" /\ c = Code
      BY <1>2, <3>1, LogsComeFromResults
    <3>3. Busy /\ task = SupplementOf(c) /\ task \in tasks /\ code[c] # "absent"
      BY <2>3, <3>2, TaskUnderWay DEF Busy, Writing
    <3> QED BY <2>1, <3>3 DEF Once, ToCome
  <2> QED BY <2>2, <2>3
<1>3. ASSUME wpc' = "log", task'.kind = "redeem", NEW a \in left', log'[Code'][a] # "none"
      PROVE  FALSE
  <2>1. CASE RedeemBatch
    <3>1. wpc = "batch" /\ UNCHANGED <<log, task>> /\ left' \subseteq Accounts /\ Busy
      BY <1>1, <2>1 DEF RedeemBatch, codeRows, Busy, Typed, TypeOK
    <3>2. task = RedeemOf(Code) /\ Code \in Codes /\ task \in tasks
      BY <1>3, <3>1, TaskUnderWay, TaskNames
    <3>3. \A b \in Accounts : log[Code][b] = "none"
      BY <3>1, <3>2 DEF FirstLogs, ToCome, Writing
    <3> QED BY <1>3, <3>1, <3>3 DEF Code
  <2>2. CASE UNCHANGED worker \/ \E b \in left : ReplaceRedeemLog(b)
    <3>1. wpc = "log" /\ UNCHANGED task /\ a \in left /\ a \in Accounts
      BY <1>1, <1>3, <2>2 DEF worker, scratch, ReplaceRedeemLog
    <3>2. log[Code][a] = "none" /\ Code \in Codes /\ Code' = Code
      BY <1>3, <3>1, TaskUnderWay DEF FirstLogs, Busy, Code
    <3>3. ReplaceRedeemLog(a)
      BY <1>3, <3>1, <3>2, LogsComeFromResults
    <3> QED BY <1>3, <3>3 DEF ReplaceRedeemLog
  <2> QED BY <1>3, <2>1, <2>2, BodySteps DEF Start, PreVerify, CountResults
<1> QED BY <1>2, <1>3 DEF FirstLogs

\* In a calm run both hold in every state.
LEMMA CalmInvariant == Spec => [](Calm => Once /\ FirstLogs)
<1>1. Init => Once /\ FirstLogs
  BY DEF Init, Once, FirstLogs, Busy, NoResult
<1>2. /\ IInv /\ (Calm => Once /\ FirstLogs) /\ [Next]_vars
      => (Calm => Once /\ FirstLogs)'
  BY NextOnce, NextFirstLogs DEF IInv, Calm
<1> QED BY <1>1, <1>2, InitIInv, NextKeepsIInv, PTL DEF Spec

\* A log that is there keeps its result until it is deleted.
ResultsAreFinal ==
  Calm => \A c \in Codes, a \in Accounts :
            log[c][a] # "none" => log'[c][a] \in {log[c][a], "none"}

\* Unless a statement fails, the process is killed or a task is run again that
\* had succeeded, no result that was recorded is ever replaced by another,
\* though every body writes by deleting and inserting (ReplaceRedeemLog):
\* neither by the supplements nor by the redemption, which is the first.
THEOREM RecordsAreFinal == Spec => [][ResultsAreFinal]_vars
<1>1. IInv /\ (Calm => Once /\ FirstLogs) /\ [Next]_vars => ResultsAreFinal
  <2> SUFFICES ASSUME IInv, Calm, Once, FirstLogs, [Next]_vars, NEW c \in Codes, NEW a \in Accounts,
                      log[c][a] # "none", log'[c][a] # "none", log'[c][a] # log[c][a]
               PROVE  FALSE
    BY DEF ResultsAreFinal
  <2>1. Typed /\ Newborn /\ Unlogged
    BY DEF IInv
  <2>2. wpc = "log" /\ a \in left /\ c = Code
    BY <2>1, LogsComeFromResults
  <2>3. task = RedeemOf(c) \/ task = SupplementOf(c)
    BY <2>1, <2>2, TaskUnderWay DEF Busy
  <2>4. task.kind = "redeem" \/ task.kind = "supplement"
    BY <2>3, TaskNames
  <2> QED BY <2>1, <2>2, <2>4 DEF FirstLogs, Unlogged
<1> QED BY <1>1, CalmInvariant, InitIInv, NextKeepsIInv, PTL DEF Spec

-----------------------------------------------------------------------------
(* When nobody disturbs, but by logging in.                                *)

Quiet == Disturbances \subseteq {"login"}

\* Nothing is written in the middle of a body but by the deletion of its code;
\* and a code is exact except while its body has logs or counts to write.
QuietInv ==
  /\ del = NoTx /\ fix = NoTx /\ \A a \in Accounts : account[a] # "deleted"
  /\ "run" \in stale => Busy /\ code[Code] = "deleted"
  /\ \A c \in Codes :
       Exists(c) /\ (Busy /\ Code = c => wpc \in {"verify", "mark", "complete"}) => c \in exact

\* Then no body works with outdated counts on a code that is still there.
LEMMA NextQuiet ==
  Quiet /\ Typed /\ Newborn /\ Once /\ FirstLogs /\ QuietInv /\ [Next]_vars => QuietInv'
<1> SUFFICES ASSUME Quiet, Typed, Newborn, Once, FirstLogs, QuietInv, [Next]_vars PROVE QuietInv'
  OBVIOUS
<1>1. TypeOK /\ Phases /\ \A a \in Accounts : account[a] # "deleted"
  BY DEF Typed, QuietInv
<1>2. /\ ~DbFails /\ "crash" \notin Disturbances /\ "rerun" \notin Disturbances
      /\ "deletion" \notin Disturbances /\ "repair" \notin Disturbances
  BY DEF Quiet, DbFails
<1>3. Busy => Code \in Codes /\ code[Code] # "absent" /\ (Exists(Code) \/ code[Code] = "deleted")
  BY <1>1, TaskUnderWay DEF Exists, TypeOK
<1>4. ASSUME wpc \in {"verify", "mark"} PROVE Participated(Code) = {}
  <2>1. task = RedeemOf(Code) /\ Code \in Codes /\ task \in tasks
    BY <1>1, <1>4, TaskUnderWay, TaskNames DEF Phases, Busy
  <2>2. \A a \in Accounts : log[Code][a] = "none"
    BY <1>4, <2>1 DEF FirstLogs, ToCome, Writing
  <2> QED BY <2>2 DEF Participated
<1>5. ASSUME NEW t \in tasks, Start(t) PROVE QuietInv'
  BY <1>5 DEF Start, QuietInv, Busy, Exists, admin, history, codeRows
<1>6. ASSUME NEW t \in tasks, Refuse(t) PROVE QuietInv'
  BY <1>6 DEF Refuse, EndTask, QuietInv, Busy, Exists, admin, history, codeRows
<1>7. CASE PreVerify \/ RedeemBatch \/ GetLogStats
  <2>1. Busy /\ UNCHANGED <<codeRows, account, admin, exact>> /\ stale' \subseteq stale
        /\ Busy' /\ UNCHANGED task
    BY <1>2, <1>7 DEF PreVerify, RedeemBatch, GetLogStats, Busy, scratch, history
  <2>2. wpc' \in {"verify", "mark", "complete"} => wpc \in {"verify", "mark", "complete"}
    BY <1>2, <1>7 DEF PreVerify, RedeemBatch, GetLogStats
  <2>3. "run" \in stale' => code'[Code'] = "deleted"
    BY <2>1 DEF QuietInv, codeRows, Code
  <2> QED BY <2>1, <2>2, <2>3 DEF QuietInv, Exists, Code, admin, codeRows
<1>8. CASE PreVerifyFatal \/ MarkCompleted
  <2>1. /\ Busy /\ wpc \in {"verify", "complete"} /\ wpc' = "idle" /\ UNCHANGED <<account, admin>>
        /\ stale' = stale \ {"run"}
        /\ \E n : UpdateRedeemCodeStatus(Code, "completed", n)
    BY <1>2, <1>8 DEF PreVerifyFatal, MarkCompleted, EndTask, Busy
  <2>2. \A c \in Codes : Exists(c)' => Exists(c)
    BY <1>1, <1>3, <2>1 DEF UpdateRedeemCodeStatus, Exists, TypeOK
  <2>3. exact' = IF "run" \in stale /\ wpc = "complete" THEN exact \ {Code} ELSE exact
    BY <1>2, <1>4, <1>8 DEF PreVerifyFatal, MarkCompleted
  <2>4. "run" \in stale => ~Exists(Code)
    BY DEF QuietInv, Exists, Statuses
  <2> QED BY <2>1, <2>2, <2>3, <2>4 DEF QuietInv, Busy, admin
<1>9. CASE MarkProcessing
  <2>1. /\ Busy /\ Busy' /\ wpc' = "batch" /\ UNCHANGED <<account, admin, task, stale>>
        /\ exact' = exact \ {Code}
        /\ \E n : UpdateRedeemCodeStatus(Code, "processing", n)
    BY <1>2, <1>4, <1>9 DEF MarkProcessing, Busy
  <2>2. /\ \A c \in Codes : Exists(c)' => Exists(c)
        /\ code[Code] = "deleted" => code'[Code] = "deleted"
    BY <1>1, <1>3, <2>1 DEF UpdateRedeemCodeStatus, Exists, Statuses, TypeOK
  <2> QED BY <2>1, <2>2 DEF QuietInv, admin, Code
<1>10. ASSUME NEW a \in left, ReplaceRedeemLog(a) PROVE QuietInv'
  <2>1. /\ Busy /\ Busy' /\ wpc \notin {"verify", "mark", "complete"}
        /\ wpc' \notin {"verify", "mark", "complete"}
        /\ UNCHANGED <<code, account, admin, task>>
        /\ exact \ {Code} \subseteq exact'
    BY <1>10 DEF ReplaceRedeemLog, Inserted, Busy
  <2>2. "run" \in stale' => "run" \in stale \/ ~Exists(Code)
    <3>1. a \in Accounts
      BY <1>1 DEF TypeOK
    <3>2. RowsMissing(a) => ~Exists(Code)
      BY <1>1, <3>1 DEF RowsMissing
    <3> QED BY <1>2, <1>10, <3>2 DEF ReplaceRedeemLog, Inserted
  <2>3. "run" \in stale' => code[Code] = "deleted"
    BY <1>3, <2>1, <2>2 DEF QuietInv
  <2> QED BY <2>1, <2>3 DEF QuietInv, Exists, Code, admin
<1>11. CASE CountResults \/ WriteRecount
  <2>1. /\ Busy /\ wpc \in {"count", "write"} /\ wpc' \in {"complete", "idle"}
        /\ wpc' = "complete" => UNCHANGED <<task, stale>>
        /\ wpc' = "idle" => stale' = stale \ {"run"}
        /\ UNCHANGED <<code, account, admin>>
        /\ exact' = IF "run" \in stale THEN exact \ {Code} ELSE exact \cup {Code}
    BY <1>2, <1>11 DEF CountResults, WriteRecount, EndTask, Busy
  <2>2. "run" \in stale => code[Code] = "deleted" /\ ~Exists(Code)
    BY DEF QuietInv, Exists, Statuses
  <2>3. \A c \in Codes : Exists(c)' => c \in exact'
    BY <2>1, <2>2 DEF QuietInv, Exists
  <2> QED BY <2>1, <2>2, <2>3 DEF QuietInv, Busy, admin, Code
<1>12. ASSUME NEW d \in Codes, CreateRedeemCode(d) \/ DeleteRedeemCode(d) PROVE QuietInv'
  <2>1. /\ UNCHANGED <<account, worker, admin, stale>>
        /\ \E s \in {"pending", "deleted"} : code' = [code EXCEPT ![d] = s]
        /\ exact \ {d} \subseteq exact'
        /\ Exists(d)' => d \in exact'
    BY <1>1, <1>12 DEF CreateRedeemCode, DeleteRedeemCode, Exists, Statuses, TypeOK
  <2>2. \A c \in Codes \ {d} : Exists(c)' => Exists(c)
    BY <1>1, <2>1 DEF Exists, TypeOK
  <2>3. "run" \in stale' => Busy' /\ code'[Code'] = "deleted"
    BY <1>3, <2>1, CodeSteps DEF QuietInv, Busy, Code, worker
  <2> QED BY <2>1, <2>2, <2>3 DEF QuietInv, Busy, Code, worker, admin
<1>13. CASE \/ \E d \in Codes : SubmitRedeemTask(d) \/ RetryRedeemCode(d)
            \/ \E a \in Accounts : CreateAccount(a) \/ VerifyAccount(a)
            \/ UNCHANGED vars
  <2>1. UNCHANGED <<code, wpc, task, del, fix, stale, exact>>
    BY <1>13 DEF SubmitRedeemTask, RetryRedeemCode, CreateAccount, VerifyAccount, codeRows, worker,
                 admin, history, vars
  <2>2. \A a \in Accounts : account'[a] # "deleted"
    BY <1>1, <1>13 DEF SubmitRedeemTask, RetryRedeemCode, CreateAccount, VerifyAccount, TypeOK, vars
  <2> QED BY <2>1, <2>2 DEF QuietInv, Busy, Code, Exists
<1>14. ~Crash /\ ~DeleteAccounts /\ ~RollBackDeletion /\ ~FixRedeemCodeStats
       /\ (\A S \in SUBSET Accounts : ~ReadContribution(S)) /\ (\A c \in Codes : ~ReadLogStats(c))
  BY <1>2 DEF QuietInv, Crash, DeleteAccounts, RollBackDeletion, FixRedeemCodeStats, ReadContribution,
              ReadLogStats
<1> QED BY <1>5, <1>6, <1>7, <1>8, <1>9, <1>10, <1>11, <1>12, <1>13, <1>14
        DEF Next, WorkerStep, AdminStep, SupplementRedeemCode

\* The counters of every code that no task is at work on are its logs.
CountersAreExact ==
  Quiet => \A c \in Codes :
             Exists(c) /\ ~(Busy /\ Code = c) => stats[c] = CountLogs(c, Accounts)

\* As long as nothing fails and no account is deleted and nobody repairs, the
\* counters of every code that is not being worked on equal its logs, whatever
\* is submitted, supplemented and deleted, and whoever logs in, in between: the
\* total, which is written three times, and the other two.
THEOREM QuietCountersAreExact == Spec => []CountersAreExact
<1>1. Init => QuietInv
  BY DEF Init, QuietInv, Busy, Exists, Statuses
<1>2. /\ IInv /\ (Calm => Once /\ FirstLogs) /\ (Quiet => QuietInv) /\ [Next]_vars
      => (Quiet => QuietInv)'
  BY NextQuiet DEF IInv, Calm, Quiet
<1>3. IInv /\ (Quiet => QuietInv) => CountersAreExact
  BY DEF IInv, Trusted, ExactMatch, Matching, Live, Exists, Statuses, QuietInv, CountersAreExact
<1> QED BY <1>1, <1>2, <1>3, CalmInvariant, InitIInv, NextKeepsIInv, PTL DEF Spec
=============================================================================
