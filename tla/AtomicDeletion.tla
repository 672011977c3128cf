--------------------------- MODULE AtomicDeletion ---------------------------
(***************************************************************************)
(* What the deletion of accounts promises to those who call it, without    *)
(* transactions, locks, attempts or deadlocks: a call that succeeds        *)
(* deletes its accounts and their logs in one step, which lowers every     *)
(* counter by the logs it deletes; a call that returns an error has done   *)
(* just that or nothing, and cannot tell which.  The counters may be       *)
(* lowered by more only in a call that another deletion of one of its      *)
(* accounts has overtaken.  AccountDeletion implements this.               *)
(***************************************************************************)
EXTENDS Integers, FiniteSets

CONSTANTS
  Accounts,  \* ids of game_accounts
  Codes,     \* ids of redeem_codes
  Calls      \* the calls

VARIABLES
  ids,       \* the accounts a call is to delete
  accounts,  \* the accounts there are
  logs,      \* pairs of an account and a code
  counter,   \* for each code, what its logs are to be counted by
  outcome,   \* what a call has returned, "open" until then
  overtaken  \* calls that others have deleted accounts of since they started

vars == <<ids, accounts, logs, counter, outcome, overtaken>>

Contribution(S, x) == Cardinality({a \in S : <<a, x>> \in logs})

Init ==
  /\ ids \in [Calls -> SUBSET Accounts]
  /\ accounts = Accounts
  /\ logs \in SUBSET (Accounts \X Codes)
  /\ counter = [x \in Codes |-> Contribution(Accounts, x)]
  /\ outcome = [c \in Calls |-> "open"]
  /\ overtaken = {}

Return(c, what) == outcome[c] = "open" /\ outcome' = [outcome EXCEPT ![c] = what]

\* Once more, from what there is now.
Start(c) ==
  /\ outcome[c] = "open"
  /\ overtaken' = overtaken \ {c}
  /\ UNCHANGED <<ids, accounts, logs, counter, outcome>>

\* Never negative, also when an overtaken call has taken too much before.
Deducted(c, x) ==
  LET n == Contribution(ids[c], x) IN IF counter[x] > n THEN counter[x] - n ELSE 0

\* The answer may be lost.
Delete(c) ==
  /\ Return(c, "done") \/ Return(c, "failed")
  /\ accounts' = accounts \ ids[c]
  /\ logs' = {l \in logs : l[1] \notin ids[c]}
  /\ counter' \in [Codes -> Nat]
  /\ \A x \in Codes : IF c \in overtaken THEN counter'[x] <= Deducted(c, x)
                                         ELSE counter'[x] = Deducted(c, x)
  /\ \E S \in SUBSET {d \in Calls \ {c} : outcome[d] = "open" /\ ids[d] \cap ids[c] # {}} :
       overtaken' = overtaken \cup S
  /\ UNCHANGED ids

Fail(c) ==
  /\ Return(c, "failed")
  /\ UNCHANGED <<ids, accounts, logs, counter, overtaken>>

\* Only a single account is looked for before.
NotFound(c) ==
  /\ Return(c, "absent")
  /\ \E a \in Accounts : ids[c] = {a} /\ a \notin accounts
  /\ UNCHANGED <<ids, accounts, logs, counter, overtaken>>

Next == \E c \in Calls : Start(c) \/ Delete(c) \/ Fail(c) \/ NotFound(c)

Spec == Init /\ [][Next]_vars
=============================================================================
