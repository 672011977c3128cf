--------------------------- MODULE AccountDeletion ---------------------------
(***************************************************************************)
(* Several deletions of accounts at once: Delete and BulkDelete of         *)
(* internal/repository/account_repository.go, each a transaction that is   *)
(* tried up to three times, called by DeleteAccount and BulkDeleteAccounts *)
(* of internal/service/account_service.go.                                 *)
(*                                                                         *)
(* An attempt reads what the accounts contribute to the counters of each   *)
(* code, deletes their logs and the accounts, lowers the counters code by  *)
(* code, and commits.  The contributions are kept in a map, so the rows of *)
(* the codes are locked in any order and two deletions can deadlock there. *)
(* After a rollback the transaction refuses every further statement.       *)
(* The answer to a COMMIT may be lost: the call then returns an error that *)
(* it does not try again, although everything is deleted.                  *)
(*                                                                         *)
(* MySQL is assumed at its default isolation level: the contributions come *)
(* from a snapshot, rows that are written stay locked until the end of the *)
(* transaction, and of a circle of waiting transactions one is rolled      *)
(* back.  Accounts are locked before codes, so that a circle consists of   *)
(* transactions that wait for codes.  The three counters of a code are     *)
(* lowered by one statement in the same way and are modelled by the total. *)
(* What the worker and the handlers do to the same rows meanwhile is in    *)
(* module RedeemTask; here it is seen as a clash, and as a rollback.       *)
(***************************************************************************)
EXTENDS Integers, FiniteSets

CONSTANTS
  Accounts,    \* ids of game_accounts
  Codes,       \* ids of redeem_codes
  Calls,       \* calls of DeleteAccount and BulkDeleteAccounts
  MaxAttempts, \* maxRetries, 3
  MaxClashes   \* statements that fail for reasons outside these calls

ASSUME AccountsAssumption    == IsFiniteSet(Accounts)
ASSUME CodesAssumption       == IsFiniteSet(Codes)
ASSUME CallsAssumption       == IsFiniteSet(Calls)
ASSUME MaxAttemptsAssumption == MaxAttempts \in Nat \ {0}
ASSUME MaxClashesAssumption  == MaxClashes \in Nat

VARIABLES
  ids,       \* the accounts a call is to delete
  accounts,  \* game_accounts
  logs,      \* redeem_logs: pairs of an account and a code
  counter,   \* redeem_codes.total_accounts
  pc,        \* where a call is
  attempt,   \* the number of its attempt
  delta,     \* delMap: what its accounts contribute to each code
  rows,      \* the codes whose rows it has updated and holds
  want,      \* the code whose row it updates next
  clashes,   \* how many statements have failed for other reasons
  outdated,  \* history: calls of whose logs another has deleted some since
  doubled    \* history: codes from which such a call has deducted

call    == <<pc, attempt, delta, rows, want>>
history == <<outdated, doubled>>
vars == <<ids, accounts, logs, counter, call, clashes, history>>

NoCode == "none"
Stages == {"check", "aggregate", "remove", "counters", "waits", "retry", "over"}
Ends   == {"done", "unanswered", "failed", "absent"}

\* The COMMIT was applied, whether its answer arrived or not; for the caller
\* "unanswered" is an error as "failed" is.
Committed == {"done", "unanswered"}

Contribution(S, x) == Cardinality({a \in S : <<a, x>> \in logs})

TypeOK ==
  /\ ids \in [Calls -> SUBSET Accounts]
  /\ accounts \subseteq Accounts
  /\ logs \subseteq Accounts \X Codes
  /\ counter \in [Codes -> Nat]
  /\ pc \in [Calls -> Stages \cup Ends]
  /\ attempt \in [Calls -> 1 .. MaxAttempts]
  /\ delta \in [Calls -> [Codes -> Nat]]
  /\ rows \in [Calls -> SUBSET Codes]
  /\ want \in [Calls -> Codes \cup {NoCode}]
  /\ clashes \in 0 .. MaxClashes
  /\ outdated \subseteq Calls /\ doubled \subseteq Codes

\* Some accounts have received some codes, and the counters are right.
Init ==
  /\ ids \in [Calls -> (SUBSET Accounts) \ {{}}]
  /\ accounts = Accounts
  /\ logs \in SUBSET (Accounts \X Codes)
  /\ counter = [x \in Codes |-> Contribution(Accounts, x)]
  /\ pc = [c \in Calls |-> "check"]
  /\ attempt = [c \in Calls |-> 1]
  /\ delta = [c \in Calls |-> [x \in Codes |-> 0]]
  /\ rows = [c \in Calls |-> {}]
  /\ want = [c \in Calls |-> NoCode]
  /\ clashes = 0
  /\ outdated = {} /\ doubled = {}

Goto(c, stage) == pc' = [pc EXCEPT ![c] = stage]

\* The transaction has written, and holds the logs and rows of its accounts.
HasRemoved(c) == pc[c] \in {"counters", "waits"}

Todo(c) == {x \in Codes : delta[c][x] > 0} \ rows[c]

AccountsFree(c) ==
  \A d \in Calls \ {c} : HasRemoved(d) => ids[c] \cap ids[d] = {}

Holds(d, x) == x \in rows[d]

WaitsFor(c, d) == pc[c] = "waits" /\ c # d /\ Holds(d, want[c])

\* c is in a circle of calls each of which waits for the next.
Deadlocked(c) ==
  \E Z \in SUBSET Calls :
    /\ c \in Z
    /\ \A d \in Z : (\E e \in Z : WaitsFor(d, e)) /\ (\E e \in Z : WaitsFor(e, d))

-----------------------------------------------------------------------------

\* Mutant of Check: any account is reported as not found.
CheckBlindly(c) ==
  /\ pc[c] = "check"
  /\ \/ Goto(c, "aggregate")
     \/ Cardinality(ids[c]) = 1 /\ Goto(c, "absent")
  /\ UNCHANGED <<ids, accounts, logs, counter, attempt, delta, rows, want, clashes, history>>

\* DeleteAccount looks for the account first; BulkDeleteAccounts does not.
Check(c) ==
  /\ pc[c] = "check"
  /\ \/ Goto(c, "aggregate")
     \/ Cardinality(ids[c]) = 1 /\ ids[c] \cap accounts = {} /\ Goto(c, "absent")
  /\ UNCHANGED <<ids, accounts, logs, counter, attempt, delta, rows, want, clashes, history>>

Aggregate(c) ==
  /\ pc[c] = "aggregate"
  /\ delta' = [delta EXCEPT ![c] = [x \in Codes |-> Contribution(ids[c], x)]]
  /\ Goto(c, "remove")
  /\ UNCHANGED <<ids, accounts, logs, counter, attempt, rows, want, clashes, history>>

\* Mutant of Remove: the statements are not run in the transaction.
RemoveAtOnce(c) ==
  /\ pc[c] = "remove"
  /\ AccountsFree(c)
  /\ accounts' = accounts \ ids[c]
  /\ logs' = {l \in logs : l[1] \notin ids[c]}
  /\ Goto(c, "counters")
  /\ UNCHANGED <<ids, counter, attempt, delta, rows, want, clashes, history>>

\* DELETE of the logs, then of the accounts.
Remove(c) ==
  /\ pc[c] = "remove"
  /\ AccountsFree(c)
  /\ Goto(c, "counters")
  /\ UNCHANGED <<ids, accounts, logs, counter, attempt, delta, rows, want, clashes, history>>

\* The next code of the map, in any order.
NextCode(c) ==
  /\ pc[c] = "counters"
  /\ \E x \in Todo(c) : want' = [want EXCEPT ![c] = x]
  /\ Goto(c, "waits")
  /\ UNCHANGED <<ids, accounts, logs, counter, attempt, delta, rows, clashes, history>>

\* Its UPDATE, once no other transaction holds the row.
Update(c) ==
  /\ pc[c] = "waits"
  /\ \A d \in Calls \ {c} : ~Holds(d, want[c])
  /\ rows' = [rows EXCEPT ![c] = @ \cup {want[c]}]
  /\ want' = [want EXCEPT ![c] = NoCode]
  /\ Goto(c, "counters")
  /\ UNCHANGED <<ids, accounts, logs, counter, attempt, delta, clashes, history>>

Unlock(c) == rows' = [rows EXCEPT ![c] = {}] /\ want' = [want EXCEPT ![c] = NoCode]

\* Mutant of Lowered: GREATEST(0, ..) is forgotten.
LoweredUnchecked(c, x) == counter[x] - delta[c][x]

Lowered(c, x) == IF counter[x] > delta[c][x] THEN counter[x] - delta[c][x] ELSE 0

Clash == clashes < MaxClashes /\ clashes' = clashes + 1

\* The connection can break after the database has committed: database/sql
\* then returns an error that isDeadlock does not recognise.
Commit(c) ==
  /\ pc[c] = "counters"
  /\ Todo(c) = {}
  /\ accounts' = accounts \ ids[c]
  /\ logs' = {l \in logs : l[1] \notin ids[c]}
  /\ counter' = [x \in Codes |-> Lowered(c, x)]
  /\ Unlock(c)
  /\ outdated' = outdated \cup {d \in Calls \ {c} : pc[d] = "remove" /\ ids[d] \cap ids[c] # {}}
  /\ doubled' = IF c \in outdated THEN doubled \cup {x \in Codes : delta[c][x] > 0} ELSE doubled
  /\ \/ Goto(c, "done") /\ UNCHANGED clashes
     \/ Goto(c, "unanswered") /\ Clash
  /\ UNCHANGED <<ids, attempt, delta>>

\* Mutant of RollBack: the call returns without rolling back.
GiveUp(c, stage) == Goto(c, stage) /\ UNCHANGED <<rows, want>>

\* tx.Rollback, whatever the call does then.
RollBack(c, stage) == Goto(c, stage) /\ Unlock(c)

Again(c) == IF attempt[c] < MaxAttempts THEN "retry" ELSE "failed"

\* A deadlock between the calls.  The continue after it goes on with the loop
\* over the codes, on the transaction that has been rolled back.
Deadlock(c) ==
  /\ Deadlocked(c)
  /\ RollBack(c, "over")
  /\ UNCHANGED <<ids, accounts, logs, counter, attempt, delta, clashes, history>>

\* The next UPDATE or the COMMIT finds the transaction over; that is no
\* deadlock, so the call returns.
Over(c) ==
  /\ pc[c] = "over"
  /\ RollBack(c, "failed")
  /\ UNCHANGED <<ids, accounts, logs, counter, attempt, delta, clashes, history>>

\* A deadlock with others or the end of a wait for a lock: retried after the
\* SELECT, a DELETE or the COMMIT, but not within the loops over the
\* contributions and the codes.
Refused(c) ==
  /\ Clash
  /\ \/ pc[c] \in {"aggregate", "remove"} /\ RollBack(c, Again(c))
     \/ pc[c] = "counters" /\ Todo(c) = {} /\ RollBack(c, Again(c))
     \/ pc[c] \in {"aggregate", "waits"} /\ RollBack(c, "over")
  /\ UNCHANGED <<ids, accounts, logs, counter, attempt, delta, history>>

\* Any other error before the COMMIT has been applied is returned; the end of
\* the process looks the same.
Failed(c) ==
  /\ Clash
  /\ pc[c] \in Stages
  /\ RollBack(c, "failed")
  /\ UNCHANGED <<ids, accounts, logs, counter, attempt, delta, history>>

\* Mutant of Retry: the contributions are read once, before the loop.
RetryWithOldCounts(c) ==
  /\ pc[c] = "retry"
  /\ attempt' = [attempt EXCEPT ![c] = @ + 1]
  /\ Goto(c, "remove")
  /\ outdated' = outdated \ {c}
  /\ UNCHANGED <<ids, accounts, logs, counter, delta, rows, want, clashes, doubled>>

\* After a pause, a new transaction that reads everything again.
Retry(c) ==
  /\ pc[c] = "retry"
  /\ attempt' = [attempt EXCEPT ![c] = @ + 1]
  /\ Goto(c, "aggregate")
  /\ outdated' = outdated \ {c}
  /\ UNCHANGED <<ids, accounts, logs, counter, delta, rows, want, clashes, doubled>>

\* Every call has returned.
Ended ==
  /\ \A c \in Calls : pc[c] \in Ends
  /\ UNCHANGED vars

-----------------------------------------------------------------------------

\* What a call does when no statement fails from outside.
Proceed(c) ==
  \/ Check(c) \/ Aggregate(c) \/ Remove(c) \/ NextCode(c) \/ Update(c) \/ Commit(c)
  \/ Deadlock(c) \/ Over(c) \/ Retry(c)

Next == (\E c \in Calls : Proceed(c) \/ Refused(c) \/ Failed(c)) \/ Ended

Spec == Init /\ [][Next]_vars

\* Statements return, and a circle of waiting transactions is resolved.
FairSpec == Spec /\ \A c \in Calls : WF_vars(Proceed(c))

-----------------------------------------------------------------------------
(* Safety.                                                                 *)

\* The counter of a code equals its logs, whatever fails and is tried again,
\* as long as no account was deleted between the reading and the DELETE of
\* another deletion of the same account: both then deduct its logs.
CountersMatch ==
  \A x \in Codes \ doubled : counter[x] = Contribution(Accounts, x)

\* A deletion that succeeds has deleted its accounts and all their logs.  One
\* that returns an error has deleted nothing, or all of that too if the error
\* is that of an unanswered COMMIT; no attempt, rollback or retry leaves a part.
AllOrNothing ==
  /\ \A a \in Accounts \ accounts : \E c \in Calls : pc[c] \in Committed /\ a \in ids[c]
  /\ \A c \in Calls : pc[c] \in Committed => ids[c] \cap accounts = {}
  /\ \A l \in logs : l[1] \in accounts

\* What a call can do now, if only what MySQL does about a circle of waits.
CanProceed(c) ==
  \/ pc[c] \in {"check", "aggregate", "counters", "over", "retry"}
  \/ pc[c] = "remove" /\ AccountsFree(c)
  \/ pc[c] = "waits" /\ \A d \in Calls \ {c} : ~Holds(d, want[c])
  \/ Deadlocked(c)

\* As long as some call has not returned, not all wait for each other: whoever
\* is waited for is on its way, or in a circle that MySQL sees.  No call leaves
\* without its locks, and none waits for accounts while it holds a code.
SomeCallProceeds ==
  (\E c \in Calls : pc[c] \notin Ends) => \E c \in Calls : CanProceed(c)

\* What the caller is told.
Answer(c) == CASE pc[c] \in Stages    -> "open"
               [] pc[c] = "unanswered" -> "failed"
               [] OTHER                -> pc[c]

Atomic ==
  INSTANCE AtomicDeletion WITH
    outcome   <- [c \in Calls |-> Answer(c)],
    overtaken <- outdated

\* However transactions interleave, wait, deadlock and are tried again, every
\* call takes effect in one step or not at all: in one step if it succeeds, one
\* or the other if it returns an error.  It deducts exactly what it deletes,
\* unless another deletion of one of its accounts came between its reading and
\* its DELETE.
ImplementsAtomicDeletion == Atomic!Spec

-----------------------------------------------------------------------------
(* Liveness, under FairSpec.                                               *)

\* Every deletion returns: none waits for ever for one that has returned, or
\* in a circle.
EveryDeletionEnds == \A c \in Calls : <>(pc[c] \in Ends)
=============================================================================
