------------------------ MODULE AccountDeletionProofs ------------------------
(***************************************************************************)
(* The safety properties of concurrent deletions, for any number of        *)
(* accounts, codes, calls, attempts and clashes.                           *)
(***************************************************************************)
EXTENDS AccountDeletion, FiniteSetTheorems, WellFoundedInduction, TLAPS

\* Only a call that has an attempt left pauses for the next.
AttemptsLeft == \A c \in Calls : pc[c] = "retry" => attempt[c] < MaxAttempts

\* Only who waits for the row of a code knows which.
WaitsForOne == \A c \in Calls : pc[c] = "waits" => want[c] \in Codes

Typed == TypeOK /\ AttemptsLeft /\ WaitsForOne

-----------------------------------------------------------------------------
(* Contributions.                                                          *)

\* The accounts among S that have received the code x.
Receivers(S, x) == {a \in S : <<a, x>> \in logs}

LEMMA ReceiversFinite ==
  ASSUME NEW S \in SUBSET Accounts, NEW x
  PROVE  IsFiniteSet(Receivers(S, x)) /\ IsFiniteSet(Receivers(S, x))'
<1>1. Receivers(S, x) \in SUBSET Accounts /\ Receivers(S, x)' \in SUBSET Accounts
  BY DEF Receivers
<1> QED BY <1>1, AccountsAssumption, FS_Subset

LEMMA ContributionType ==
  ASSUME NEW S \in SUBSET Accounts, NEW x
  PROVE  Contribution(S, x) \in Nat /\ Contribution(S, x)' \in Nat
<1>1. Cardinality(Receivers(S, x)) \in Nat /\ Cardinality(Receivers(S, x)') \in Nat
  BY ReceiversFinite, FS_CardinalityType
<1> QED BY <1>1 DEF Contribution, Receivers

\* Fewer logs, smaller contributions.
LEMMA ContributionShrinks ==
  ASSUME NEW S \in SUBSET Accounts, NEW x, logs' \subseteq logs
  PROVE  Contribution(S, x)' <= Contribution(S, x)
<1>1. Receivers(S, x)' \in SUBSET Receivers(S, x)
  BY DEF Receivers
<1>2. Cardinality(Receivers(S, x)') <= Cardinality(Receivers(S, x))
  BY <1>1, ReceiversFinite, FS_Subset
<1> QED BY <1>2 DEF Contribution, Receivers

\* What other accounts contribute does not change when those of D are deleted.
LEMMA ContributionOfOthers ==
  ASSUME NEW S, NEW D, NEW x, S \cap D = {}, logs' = {l \in logs : l[1] \notin D}
  PROVE  Contribution(S, x)' = Contribution(S, x)
<1>1. {a \in S : <<a, x>> \in logs'} = {a \in S : <<a, x>> \in logs}
  OBVIOUS
<1> QED BY <1>1 DEF Contribution

\* Deleting the accounts of D takes exactly their contribution away.
LEMMA DeletionDeducts ==
  ASSUME NEW D \in SUBSET Accounts, NEW x, logs' = {l \in logs : l[1] \notin D}
  PROVE  /\ Contribution(Accounts, x)' = Contribution(Accounts, x) - Contribution(D, x)
         /\ Contribution(D, x) <= Contribution(Accounts, x)
<1> DEFINE A == Receivers(Accounts, x)
           B == Receivers(D, x)
<1>1. IsFiniteSet(A) /\ B \in SUBSET A
  BY ReceiversFinite DEF Receivers
<1>2. Receivers(Accounts, x)' = A \ B /\ A \cap B = B
  BY DEF Receivers
<1>3. Cardinality(A \ B) = Cardinality(A) - Cardinality(B)
  BY <1>1, <1>2, FS_Difference
<1>4. Cardinality(B) <= Cardinality(A)
  BY <1>1, FS_Subset
<1>5. /\ Contribution(Accounts, x)' = Cardinality(Receivers(Accounts, x)')
      /\ Contribution(Accounts, x) = Cardinality(A)
      /\ Contribution(D, x) = Cardinality(B)
  BY DEF Contribution, Receivers
<1> QED BY <1>2, <1>3, <1>4, <1>5

-----------------------------------------------------------------------------
(* Types.                                                                  *)

\* Every step of a call but its commit leaves the tables and the history of
\* what was deducted alone.
LEMMA OnlyCommitWrites ==
  ASSUME NEW c \in Calls, Proceed(c) \/ Refused(c) \/ Failed(c), ~Commit(c)
  PROVE  UNCHANGED <<accounts, logs, counter, doubled>>
  BY DEF Proceed, Refused, Failed, Check, Aggregate, Remove, NextCode, Update, Deadlock, Over, Retry,
         history

LEMMA InitTyped == Init => Typed
<1> SUFFICES ASSUME Init PROVE Typed
  OBVIOUS
<1>1. \A x \in Codes : Contribution(Accounts, x) \in Nat
  BY ContributionType
<1>2. counter \in [Codes -> Nat]
  BY <1>1 DEF Init
<1>3. AttemptsLeft /\ WaitsForOne
  BY DEF Init, AttemptsLeft, WaitsForOne
<1> QED BY <1>2, <1>3, MaxAttemptsAssumption, MaxClashesAssumption
        DEF Init, Typed, TypeOK, Stages, Ends

LEMMA RollBackType ==
  ASSUME TypeOK, NEW c \in Calls, NEW stage \in Stages \cup Ends, RollBack(c, stage)
  PROVE  /\ pc' \in [Calls -> Stages \cup Ends]
         /\ rows' \in [Calls -> SUBSET Codes]
         /\ want' \in [Calls -> Codes \cup {NoCode}]
  BY DEF TypeOK, RollBack, Goto, Unlock

LEMMA ClashType == ASSUME TypeOK, Clash PROVE clashes' \in 0 .. MaxClashes
  BY MaxClashesAssumption DEF TypeOK, Clash

LEMMA CommitTyped ==
  ASSUME Typed, NEW c \in Calls, Commit(c)
  PROVE  Typed'
<1>1. TypeOK
  BY DEF Typed
<1>2. counter' \in [Codes -> Nat]
  BY <1>1 DEF Commit, Lowered, TypeOK
<1>3. /\ pc' \in [Calls -> Stages \cup Ends]
      /\ rows' \in [Calls -> SUBSET Codes]
      /\ want' \in [Calls -> Codes \cup {NoCode}]
      /\ clashes' \in 0 .. MaxClashes
  BY <1>1, ClashType DEF Commit, Unlock, Goto, TypeOK, Ends
<1>4. accounts' \subseteq Accounts /\ logs' \subseteq Accounts \X Codes
  BY <1>1 DEF Commit, TypeOK
<1>5. outdated' \subseteq Calls /\ doubled' \subseteq Codes
  BY <1>1 DEF Commit, TypeOK
<1>6. UNCHANGED <<ids, attempt, delta>>
  BY DEF Commit
<1>7. AttemptsLeft' /\ WaitsForOne'
  BY <1>1, <1>6 DEF Commit, Goto, Unlock, Typed, TypeOK, AttemptsLeft, WaitsForOne
<1> QED BY <1>1, <1>2, <1>3, <1>4, <1>5, <1>6, <1>7 DEF Typed, TypeOK

LEMMA NextTyped == Typed /\ [Next]_vars => Typed'
<1> SUFFICES ASSUME Typed, [Next]_vars PROVE Typed'
  OBVIOUS
<1>1. TypeOK /\ AttemptsLeft /\ WaitsForOne
  BY DEF Typed
<1>2. ASSUME NEW c \in Calls, Check(c) PROVE Typed'
  BY <1>1, <1>2 DEF Check, Goto, Typed, TypeOK, AttemptsLeft, WaitsForOne, Stages, Ends, history
<1>3. ASSUME NEW c \in Calls, Aggregate(c) PROVE Typed'
  <2>1. \A x \in Codes : Contribution(ids[c], x) \in Nat
    BY <1>1, ContributionType DEF TypeOK
  <2>2. delta' \in [Calls -> [Codes -> Nat]]
    BY <1>1, <1>3, <2>1 DEF Aggregate, TypeOK
  <2> QED BY <1>1, <1>3, <2>2 DEF Aggregate, Goto, Typed, TypeOK, AttemptsLeft, WaitsForOne, Stages, history
<1>4. ASSUME NEW c \in Calls, Remove(c) PROVE Typed'
  BY <1>1, <1>4 DEF Remove, Goto, Typed, TypeOK, AttemptsLeft, WaitsForOne, Stages, history
<1>5. ASSUME NEW c \in Calls, NextCode(c) PROVE Typed'
  BY <1>1, <1>5 DEF NextCode, Todo, Goto, Typed, TypeOK, AttemptsLeft, WaitsForOne, Stages, history
<1>6. ASSUME NEW c \in Calls, Update(c) PROVE Typed'
  <2>1. rows' \in [Calls -> SUBSET Codes]
    BY <1>1, <1>6 DEF Update, TypeOK, WaitsForOne
  <2> QED BY <1>1, <1>6, <2>1 DEF Update, Goto, Typed, TypeOK, AttemptsLeft, WaitsForOne, Stages, history
<1>7. ASSUME NEW c \in Calls, Deadlock(c) \/ Over(c) PROVE Typed'
  BY <1>1, <1>7, RollBackType
     DEF Deadlock, Over, RollBack, Goto, Unlock, Typed, TypeOK, AttemptsLeft, WaitsForOne, Stages, Ends, history
<1>8. ASSUME NEW c \in Calls, Retry(c) PROVE Typed'
  <2>1. attempt' \in [Calls -> 1 .. MaxAttempts]
    BY <1>1, <1>8, MaxAttemptsAssumption DEF Retry, TypeOK, AttemptsLeft
  <2> QED BY <1>1, <1>8, <2>1 DEF Retry, Goto, Typed, TypeOK, AttemptsLeft, WaitsForOne, Stages
<1>9. ASSUME NEW c \in Calls, Refused(c) PROVE Typed'
  <2>1. PICK stage \in {"retry", "failed", "over"} :
          RollBack(c, stage) /\ (stage = "retry" => attempt[c] < MaxAttempts)
    BY <1>9 DEF Refused, Again
  <2>2. UNCHANGED <<ids, accounts, logs, counter, attempt, delta, outdated, doubled>> /\ Clash
    BY <1>9 DEF Refused, history
  <2>3. TypeOK'
    BY <1>1, <2>1, <2>2, RollBackType, ClashType DEF TypeOK, Stages, Ends
  <2>4. AttemptsLeft' /\ WaitsForOne'
    BY <1>1, <2>1, <2>2 DEF RollBack, Goto, Unlock, TypeOK, AttemptsLeft, WaitsForOne
  <2> QED BY <2>3, <2>4 DEF Typed
<1>10. ASSUME NEW c \in Calls, Failed(c) PROVE Typed'
  BY <1>1, <1>10, RollBackType, ClashType
     DEF Failed, RollBack, Goto, Unlock, Typed, TypeOK, AttemptsLeft, WaitsForOne, Ends, history
<1>11. CASE UNCHANGED vars
  BY <1>1, <1>11 DEF vars, call, history, Typed, TypeOK, AttemptsLeft, WaitsForOne
<1> QED BY <1>2, <1>3, <1>4, <1>5, <1>6, <1>7, <1>8, <1>9, <1>10, <1>11, CommitTyped
        DEF Next, Proceed, Ended

-----------------------------------------------------------------------------
(* The counters.                                                           *)

Attempting(c) == pc[c] \in {"remove", "counters", "waits"}

\* Two calls that have run their DELETE are about different accounts.
AccountsLocked ==
  \A c, d \in Calls : c # d /\ HasRemoved(c) /\ HasRemoved(d) => ids[c] \cap ids[d] = {}

\* What a call has read is never less than what there is to deduct, and exact
\* unless another call has deleted some of it.
ReadEnough ==
  \A c \in Calls : Attempting(c) => \A x \in Codes :
    /\ Contribution(ids[c], x) <= delta[c][x]
    /\ c \notin outdated => Contribution(ids[c], x) = delta[c][x]

Counted == AccountsLocked /\ ReadEnough /\ CountersMatch

\* The locks on the accounts.
LEMMA NextLocked == Typed /\ AccountsLocked /\ [Next]_vars => AccountsLocked'
<1> SUFFICES ASSUME Typed, AccountsLocked, [Next]_vars PROVE AccountsLocked'
  OBVIOUS
<1>1. UNCHANGED ids /\ pc \in [Calls -> Stages \cup Ends]
  BY DEF Typed, TypeOK, Next, Proceed, Check, Aggregate, Remove, NextCode, Update, Commit, Deadlock,
         Over, Retry, Refused, Failed, Ended, vars
<1>2. ASSUME NEW c \in Calls, Remove(c) PROVE AccountsLocked'
  <2>1. \A d \in Calls \ {c} : HasRemoved(d)' = HasRemoved(d)
    BY <1>1, <1>2 DEF Remove, Goto, HasRemoved
  <2>2. \A d \in Calls \ {c} : HasRemoved(d) => ids[c] \cap ids[d] = {}
    BY <1>2 DEF Remove, AccountsFree
  <2> QED BY <1>1, <2>1, <2>2 DEF AccountsLocked
<1>3. ASSUME ~\E c \in Calls : Remove(c) PROVE \A d \in Calls : HasRemoved(d)' => HasRemoved(d)
  BY <1>1, <1>3
     DEF Next, Proceed, Check, Aggregate, NextCode, Update, Commit, Deadlock, Over, Retry, Refused,
         Failed, Ended, RollBack, Again, Goto, HasRemoved, vars, call
<1> QED BY <1>1, <1>2, <1>3 DEF AccountsLocked

\* A commit takes from each counter what it takes from the logs.
LEMMA CommitCounts ==
  ASSUME Typed, Counted, NEW c \in Calls, Commit(c)
  PROVE  ReadEnough' /\ CountersMatch'
<1>1. /\ UNCHANGED <<ids, delta>> /\ ids \in [Calls -> SUBSET Accounts]
      /\ delta \in [Calls -> [Codes -> Nat]] /\ counter \in [Codes -> Nat]
      /\ logs' = {l \in logs : l[1] \notin ids[c]} /\ logs' \subseteq logs
      /\ pc[c] = "counters" /\ Attempting(c)
  BY DEF Commit, Typed, TypeOK, Attempting
<1>2. ReadEnough'
  <2> SUFFICES ASSUME NEW d \in Calls, Attempting(d)', NEW x \in Codes
               PROVE  /\ Contribution(ids[d], x)' <= delta[d][x]
                      /\ d \notin outdated' => Contribution(ids[d], x)' = delta[d][x]
    BY <1>1 DEF ReadEnough
  <2>1. d # c /\ Attempting(d)
    BY DEF Commit, Goto, Attempting, Typed, TypeOK
  <2>2. PICK S \in SUBSET Accounts : S = ids[d] /\ S = ids'[d]
    BY <1>1
  <2>3. Contribution(S, x)' <= Contribution(S, x)
    BY <1>1, ContributionShrinks
  <2>4. /\ Contribution(S, x) <= delta[d][x]
        /\ d \notin outdated => Contribution(S, x) = delta[d][x]
    BY <2>1, <2>2 DEF Counted, ReadEnough
  <2>5. Contribution(S, x)' \in Nat /\ Contribution(S, x) \in Nat /\ delta[d][x] \in Nat
    BY <1>1, ContributionType
  <2>6. ASSUME d \notin outdated' PROVE d \notin outdated /\ S \cap ids[c] = {}
    <3>1. pc[d] # "remove" => S \cap ids[c] = {}
      BY <1>1, <2>1, <2>2 DEF Counted, AccountsLocked, HasRemoved, Attempting
    <3> QED BY <2>1, <2>2, <2>6, <3>1 DEF Commit
  <2>7. ASSUME d \notin outdated' PROVE Contribution(S, x)' = delta[d][x]
    <3>1. PICK D : D = ids[c]
      OBVIOUS
    <3>2. Contribution(S, x)' = Contribution(S, x)
      BY <1>1, <2>6, <2>7, <3>1, ContributionOfOthers
    <3> QED BY <2>4, <2>6, <2>7, <3>2
  <2> QED BY <2>2, <2>3, <2>4, <2>5, <2>7
<1>3. CountersMatch'
  <2> SUFFICES ASSUME NEW x \in Codes, x \notin doubled'
               PROVE  counter'[x] = Contribution(Accounts, x)'
    BY DEF CountersMatch
  <2>1. PICK D \in SUBSET Accounts : D = ids[c]
    BY <1>1
  <2>2. /\ Contribution(Accounts, x)' = Contribution(Accounts, x) - Contribution(D, x)
        /\ Contribution(D, x) <= Contribution(Accounts, x)
    BY <1>1, <2>1, DeletionDeducts
  <2>3. /\ Contribution(D, x) <= delta[c][x]
        /\ c \notin outdated => Contribution(D, x) = delta[c][x]
    BY <1>1, <2>1 DEF Counted, ReadEnough
  <2>4. Contribution(D, x) \in Nat /\ Contribution(Accounts, x) \in Nat /\ delta[c][x] \in Nat
    BY <1>1, ContributionType
  <2>5. x \notin doubled /\ (c \in outdated => ~(delta[c][x] > 0))
    BY DEF Commit
  <2>6. Contribution(D, x) = delta[c][x]
    BY <2>3, <2>4, <2>5
  <2>7. counter[x] = Contribution(Accounts, x)
    BY <2>5 DEF Counted, CountersMatch
  <2>8. counter'[x] = IF counter[x] > delta[c][x] THEN counter[x] - delta[c][x] ELSE 0
    BY DEF Commit, Lowered
  <2> QED BY <2>2, <2>4, <2>6, <2>7, <2>8
<1> QED BY <1>2, <1>3

\* Every other step keeps what was read, or reads it again.
LEMMA OthersCount ==
  ASSUME Typed, Counted, NEW c \in Calls, Proceed(c) \/ Refused(c) \/ Failed(c), ~Commit(c)
  PROVE  ReadEnough' /\ CountersMatch'
<1>1. /\ UNCHANGED <<ids, logs, counter, doubled>>
      /\ ids \in [Calls -> SUBSET Accounts]
      /\ delta \in [Calls -> [Codes -> Nat]] /\ pc \in [Calls -> Stages \cup Ends]
  BY OnlyCommitWrites
     DEF Typed, TypeOK, Proceed, Check, Aggregate, Remove, NextCode, Update, Deadlock, Over, Retry,
         Refused, Failed
<1>2. \A S, x : Contribution(S, x)' = Contribution(S, x)
  BY <1>1 DEF Contribution
<1>3. CountersMatch'
  BY <1>1, <1>2 DEF Counted, CountersMatch
<1>4. ASSUME Aggregate(c) PROVE ReadEnough'
  <2>1. \A x \in Codes : delta'[c][x] = Contribution(ids[c], x)
    BY <1>1, <1>4 DEF Aggregate
  <2>2. \A x \in Codes : Contribution(ids[c], x) \in Nat
    BY <1>1, ContributionType
  <2>3. \A d \in Calls \ {c} : delta'[d] = delta[d] /\ (Attempting(d)' <=> Attempting(d))
    BY <1>1, <1>4 DEF Aggregate, Goto, Attempting
  <2>4. UNCHANGED outdated
    BY <1>4 DEF Aggregate, history
  <2> SUFFICES ASSUME NEW d \in Calls, Attempting(d)', NEW x \in Codes
               PROVE  /\ Contribution(ids[d], x) <= delta'[d][x]
                      /\ d \notin outdated => Contribution(ids[d], x) = delta'[d][x]
    BY <1>1, <1>2, <2>4 DEF ReadEnough
  <2>5. CASE d = c
    BY <2>1, <2>2, <2>5
  <2>6. CASE d # c
    BY <2>3, <2>6 DEF Counted, ReadEnough
  <2> QED BY <2>5, <2>6
<1>5. ASSUME ~Aggregate(c)
      PROVE  /\ UNCHANGED delta
             /\ \A d \in Calls : Attempting(d)' => Attempting(d) /\ (d \in outdated => d \in outdated')
  BY <1>1, <1>5
     DEF Proceed, Check, Remove, NextCode, Update, Deadlock, Over, Retry, Refused, Failed, RollBack,
         Again, Goto, Attempting, history
<1>6. ASSUME ~Aggregate(c) PROVE ReadEnough'
  <2> SUFFICES ASSUME NEW d \in Calls, Attempting(d)', NEW x \in Codes
               PROVE  /\ Contribution(ids[d], x) <= delta[d][x]
                      /\ d \notin outdated' => Contribution(ids[d], x) = delta[d][x]
    BY <1>1, <1>2, <1>5, <1>6 DEF ReadEnough
  <2> QED BY <1>5, <1>6 DEF Counted, ReadEnough
<1> QED BY <1>3, <1>4, <1>6

LEMMA NextCounted == Typed /\ Counted /\ [Next]_vars => Counted'
<1> SUFFICES ASSUME Typed, Counted, [Next]_vars PROVE Counted'
  OBVIOUS
<1>1. AccountsLocked'
  BY NextLocked DEF Counted
<1>2. ASSUME UNCHANGED vars PROVE Counted'
  BY <1>2 DEF vars, call, history, Counted, AccountsLocked, HasRemoved, ReadEnough, Attempting,
              CountersMatch, Contribution
<1>3. ASSUME NEW c \in Calls, Proceed(c) \/ Refused(c) \/ Failed(c) PROVE ReadEnough' /\ CountersMatch'
  BY <1>3, CommitCounts, OthersCount
<1> QED BY <1>1, <1>2, <1>3 DEF Next, Ended, Counted

-----------------------------------------------------------------------------
(* All or nothing.                                                         *)

LEMMA NextAllOrNothing == Typed /\ AllOrNothing /\ [Next]_vars => AllOrNothing'
<1> SUFFICES ASSUME Typed, AllOrNothing, [Next]_vars PROVE AllOrNothing'
  OBVIOUS
<1>1. UNCHANGED ids /\ pc \in [Calls -> Stages \cup Ends] /\ accounts \subseteq Accounts
  BY DEF Typed, TypeOK, Next, Proceed, Check, Aggregate, Remove, NextCode, Update, Commit, Deadlock,
         Over, Retry, Refused, Failed, Ended, vars
<1>2. CASE UNCHANGED vars
  BY <1>2 DEF vars, call, AllOrNothing
<1>3. ASSUME NEW c \in Calls, Proceed(c) \/ Refused(c) \/ Failed(c)
      PROVE  \A d \in Calls :
               /\ pc[d] \in Committed => pc'[d] \in Committed
               /\ pc'[d] \in Committed => pc[d] \in Committed \/ (d = c /\ Commit(c))
  <2>1. pc[c] \notin Committed
    BY <1>3
       DEF Proceed, Check, Aggregate, Remove, NextCode, Update, Commit, Deadlock, Over, Retry,
           Deadlocked, WaitsFor, Refused, Failed, Stages, Committed
  <2>2. \E stage : pc' = [pc EXCEPT ![c] = stage] /\ (stage \in Committed => Commit(c))
    <3>1. CASE Commit(c)
      BY <3>1 DEF Commit, Goto
    <3>2. CASE Proceed(c) /\ ~Commit(c)
      BY <3>2 DEF Proceed, Check, Aggregate, Remove, NextCode, Update, Deadlock, Over,
                  Retry, RollBack, Goto, Committed
    <3>3. CASE Refused(c) \/ Failed(c)
      BY <3>3 DEF Refused, Failed, RollBack, Again, Goto, Committed
    <3> QED BY <1>3, <3>1, <3>2, <3>3
  <2> QED BY <1>1, <2>1, <2>2
<1>4. ASSUME NEW c \in Calls, Commit(c) PROVE AllOrNothing'
  <2>1. PICK end \in Committed :
          /\ accounts' = accounts \ ids[c] /\ logs' = {l \in logs : l[1] \notin ids[c]}
          /\ pc' = [pc EXCEPT ![c] = end]
    BY <1>4 DEF Commit, Goto, Committed
  <2>2. \A a \in Accounts \ accounts' : \E d \in Calls : pc'[d] \in Committed /\ a \in ids[d]
    BY <1>1, <2>1 DEF AllOrNothing
  <2>3. \A d \in Calls : pc'[d] \in Committed => ids[d] \cap accounts' = {}
    BY <1>1, <2>1 DEF AllOrNothing
  <2>4. \A l \in logs' : l[1] \in accounts'
    BY <2>1 DEF AllOrNothing
  <2> QED BY <1>1, <2>2, <2>3, <2>4 DEF AllOrNothing
<1>5. ASSUME NEW c \in Calls, Proceed(c) \/ Refused(c) \/ Failed(c), ~Commit(c) PROVE AllOrNothing'
  BY <1>1, <1>3, <1>5, OnlyCommitWrites DEF AllOrNothing
<1> QED BY <1>2, <1>4, <1>5 DEF Next, Ended

-----------------------------------------------------------------------------
(* The theorems.                                                           *)

IInv == Typed /\ Counted /\ AllOrNothing

LEMMA InitIInv == Init => IInv
<1> SUFFICES ASSUME Init PROVE IInv
  OBVIOUS
<1>1. AccountsLocked /\ ReadEnough
  BY DEF Init, AccountsLocked, HasRemoved, ReadEnough, Attempting
<1>2. CountersMatch
  BY DEF Init, CountersMatch
<1>3. AllOrNothing
  BY DEF Init, AllOrNothing, Committed
<1> QED BY <1>1, <1>2, <1>3, InitTyped DEF IInv, Counted

LEMMA NextKeepsIInv == IInv /\ [Next]_vars => IInv'
  BY NextTyped, NextCounted, NextAllOrNothing DEF IInv

\* Every variable of the deletions keeps its type; in particular no counter
\* is ever negative and no call starts more than MaxAttempts attempts.
THEOREM DeletionTypeCorrect == Spec => []TypeOK
<1>1. IInv => TypeOK
  BY DEF IInv, Typed
<1> QED BY InitIInv, NextKeepsIInv, <1>1, PTL DEF Spec

\* Whatever deadlocks, fails and is tried again, the counters of a code equal
\* its logs, unless two calls deleted the same account (Delete, BulkDelete).
THEOREM CountersStayExact == Spec => []CountersMatch
<1>1. IInv => CountersMatch
  BY DEF IInv, Counted
<1> QED BY InitIInv, NextKeepsIInv, <1>1, PTL DEF Spec

\* A call that succeeds has deleted everything it was asked to; one that returns
\* an error has deleted nothing, or everything if its COMMIT was applied and not
\* answered; never a part (the transaction of Delete and of BulkDelete).
THEOREM DeletionIsAtomic == Spec => []AllOrNothing
<1>1. IInv => AllOrNothing
  BY DEF IInv
<1> QED BY InitIInv, NextKeepsIInv, <1>1, PTL DEF Spec

-----------------------------------------------------------------------------
(* The promise of atomic deletions.                                        *)

Outcome == [c \in Calls |-> Answer(c)]

\* Both count alike.
LEMMA SameContribution ==
  \A S, x : Atomic!Contribution(S, x) = Contribution(S, x)
<1>1. \A T : Atomic!Cardinality(T) = Cardinality(T)
  BY DEF Atomic!Cardinality, Cardinality, Atomic!IsFiniteSet, IsFiniteSet
<1> QED BY <1>1 DEF Atomic!Contribution, Contribution

LEMMA InitAtomic == Init => Atomic!Init
<1> SUFFICES ASSUME Init PROVE Atomic!Init
  OBVIOUS
<1>1. Outcome = [c \in Calls |-> "open"]
  BY DEF Init, Outcome, Answer, Stages
<1> QED BY <1>1, SameContribution DEF Init, Atomic!Init, Outcome

\* A commit is the deletion, whether it is answered or not.
LEMMA CommitIsDelete ==
  ASSUME IInv, NEW c \in Calls, Commit(c)
  PROVE  Atomic!Delete(c)
<1>1. TypeOK
  BY DEF IInv, Typed
<1>2. /\ pc[c] = "counters"
      /\ \E end \in Committed : pc' = [pc EXCEPT ![c] = end]
      /\ accounts' = accounts \ ids[c] /\ logs' = {l \in logs : l[1] \notin ids[c]}
      /\ counter' = [x \in Codes |-> Lowered(c, x)]
      /\ UNCHANGED ids
  BY DEF Commit, Goto, Committed
<1>3. Atomic!Return(c, "done") \/ Atomic!Return(c, "failed")
  <2>1. PICK end \in Committed : pc' = [pc EXCEPT ![c] = end]
    BY <1>2
  <2> DEFINE what == IF end = "done" THEN "done" ELSE "failed"
  <2>2. Outcome[c] = "open" /\ Outcome' = [Outcome EXCEPT ![c] = what]
    BY <1>1, <1>2, <2>1 DEF Outcome, Answer, Stages, Committed, TypeOK
  <2> QED BY <2>2 DEF Atomic!Return, Outcome
<1>4. counter' \in [Codes -> Nat]
  BY <1>1, <1>2 DEF Lowered, TypeOK
<1>5. ASSUME NEW x \in Codes
      PROVE  IF c \in outdated THEN counter'[x] <= Atomic!Deducted(c, x)
                               ELSE counter'[x] = Atomic!Deducted(c, x)
  <2> DEFINE n == Contribution(ids[c], x)
  <2>1. counter[x] \in Nat /\ delta[c][x] \in Nat /\ ids[c] \in SUBSET Accounts
    BY <1>1 DEF TypeOK
  <2>2. n \in Nat
    BY <2>1, ContributionType
  <2>3. n <= delta[c][x] /\ (c \notin outdated => n = delta[c][x])
    BY <1>2 DEF IInv, Counted, ReadEnough, Attempting
  <2>4. counter'[x] = IF counter[x] > delta[c][x] THEN counter[x] - delta[c][x] ELSE 0
    BY <1>2 DEF Lowered
  <2>5. Atomic!Deducted(c, x) = IF counter[x] > n THEN counter[x] - n ELSE 0
    BY SameContribution DEF Atomic!Deducted
  <2> HIDE DEF n
  <2>6. CASE c \in outdated
    BY <2>1, <2>2, <2>3, <2>4, <2>5, <2>6
  <2>7. CASE c \notin outdated
    BY <2>1, <2>2, <2>3, <2>4, <2>5, <2>7
  <2> QED BY <2>6, <2>7
<1>6. \E S \in SUBSET {d \in Calls \ {c} : Outcome[d] = "open" /\ ids[d] \cap ids[c] # {}} :
        outdated' = outdated \cup S
  <2> DEFINE S == {d \in Calls \ {c} : pc[d] = "remove" /\ ids[d] \cap ids[c] # {}}
  <2>1. outdated' = outdated \cup S
    BY DEF Commit
  <2>2. S \in SUBSET {d \in Calls \ {c} : Outcome[d] = "open" /\ ids[d] \cap ids[c] # {}}
    BY DEF Outcome, Answer, Stages
  <2> QED BY <2>1, <2>2
<1> QED BY <1>2, <1>3, <1>4, <1>5, <1>6 DEF Atomic!Delete, Outcome

\* Every other step of a call returns a failure, starts again or goes on
\* unseen.
LEMMA OthersAreAtomic ==
  ASSUME IInv, NEW c \in Calls, Proceed(c) \/ Refused(c) \/ Failed(c), ~Commit(c)
  PROVE  Atomic!Start(c) \/ Atomic!Fail(c) \/ Atomic!NotFound(c) \/ UNCHANGED Atomic!vars
<1>1. UNCHANGED <<ids, accounts, logs, counter>> /\ TypeOK
  BY OnlyCommitWrites
     DEF IInv, Typed, Proceed, Check, Aggregate, Remove, NextCode, Update, Deadlock, Over, Retry,
         Refused, Failed
<1>2. pc[c] \in Stages
  BY DEF Proceed, Check, Aggregate, Remove, NextCode, Update, Commit, Deadlock, Over, Retry,
         Deadlocked, WaitsFor, Refused, Failed, Stages
<1>3. PICK stage \in Stages \cup {"failed", "absent"} : pc' = [pc EXCEPT ![c] = stage]
  BY DEF Proceed, Check, Aggregate, Remove, NextCode, Update, Deadlock, Over, Retry, Refused,
         Failed, RollBack, Again, Goto, Stages
<1>4. Outcome[c] = "open"
  BY <1>2 DEF Outcome, Answer, Stages
<1>5. CASE stage \in Stages
  <2>1. UNCHANGED Outcome
    BY <1>1, <1>2, <1>3, <1>5 DEF Outcome, Answer, Stages, TypeOK
  <2>2. outdated' = outdated \ {c} \/ outdated' = outdated
    BY DEF Proceed, Check, Aggregate, Remove, NextCode, Update, Deadlock, Over, Retry, Refused,
           Failed, history
  <2> QED BY <1>1, <1>4, <2>1, <2>2 DEF Atomic!Start, Atomic!vars, Outcome
<1>6. CASE stage \in {"failed", "absent"}
  <2>1. Outcome' = [Outcome EXCEPT ![c] = stage]
    BY <1>1, <1>3, <1>6 DEF Outcome, Answer, Stages, TypeOK
  <2>2. UNCHANGED outdated
    BY <1>1, <1>3, <1>6
       DEF TypeOK, Proceed, Check, Aggregate, Remove, NextCode, Update, Deadlock, Over, Retry,
           Refused, Failed, history, Goto
  <2>3. CASE stage = "failed"
    BY <1>1, <1>4, <2>1, <2>2, <2>3 DEF Atomic!Fail, Atomic!Return, Outcome
  <2>4. CASE stage = "absent"
    <3>1. Cardinality(ids[c]) = 1 /\ ids[c] \cap accounts = {}
      BY <1>1, <1>3, <2>4
         DEF TypeOK, Proceed, Check, Aggregate, Remove, NextCode, Update, Deadlock, Over, Retry,
             Refused, Failed, RollBack, Again, Goto
    <3>2. IsFiniteSet(ids[c]) /\ ids[c] \subseteq Accounts
      BY <1>1, AccountsAssumption, FS_Subset DEF TypeOK
    <3>3. \E a \in Accounts : ids[c] = {a} /\ a \notin accounts
      BY <3>1, <3>2, FS_Singleton
    <3> QED BY <1>1, <1>4, <2>1, <2>2, <2>4, <3>3 DEF Atomic!NotFound, Atomic!Return, Outcome
  <2> QED BY <1>6, <2>3, <2>4
<1> QED BY <1>3, <1>5, <1>6

LEMMA NextAtomic == IInv /\ [Next]_vars => [Atomic!Next]_(Atomic!vars)
<1> SUFFICES ASSUME IInv, [Next]_vars PROVE [Atomic!Next]_(Atomic!vars)
  OBVIOUS
<1>1. CASE UNCHANGED vars
  BY <1>1 DEF vars, call, history, Atomic!vars, Answer
<1>2. ASSUME NEW c \in Calls, Commit(c) PROVE Atomic!Next
  BY <1>2, CommitIsDelete DEF Atomic!Next
<1>3. ASSUME NEW c \in Calls, Proceed(c) \/ Refused(c) \/ Failed(c), ~Commit(c)
      PROVE  [Atomic!Next]_(Atomic!vars)
  BY <1>3, OthersAreAtomic DEF Atomic!Next
<1> QED BY <1>1, <1>2, <1>3 DEF Next, Ended

\* The transactions of Delete and BulkDelete take effect in one step or not at
\* all: with their locks, deadlocks, retries, rollbacks and lost answers they
\* implement the deletions of AtomicDeletion, for any number of accounts, codes
\* and calls.
THEOREM DeletionIsLinearizable == Spec => ImplementsAtomicDeletion
  BY InitAtomic, NextAtomic, InitIInv, NextKeepsIInv, PTL
     DEF Spec, ImplementsAtomicDeletion, Atomic!Spec

-----------------------------------------------------------------------------
(* Waiting.                                                                *)

\* Only a transaction that has written holds rows of codes.
RowsHeld == \A c \in Calls : rows[c] # {} => HasRemoved(c)

LEMMA InitRowsHeld == Init => RowsHeld
  BY DEF Init, RowsHeld

LEMMA NextRowsHeld == Typed /\ RowsHeld /\ [Next]_vars => RowsHeld'
<1> SUFFICES ASSUME Typed, RowsHeld, [Next]_vars PROVE RowsHeld'
  OBVIOUS
<1>1. TypeOK
  BY DEF Typed
<1>2. CASE UNCHANGED vars
  BY <1>2 DEF vars, call, RowsHeld, HasRemoved
<1>3. ASSUME NEW c \in Calls, Proceed(c) \/ Refused(c) \/ Failed(c)
      PROVE  \A d \in Calls \ {c} : rows'[d] = rows[d] /\ pc'[d] = pc[d]
  BY <1>1, <1>3
     DEF TypeOK, Proceed, Check, Aggregate, Remove, NextCode, Update, Commit, Deadlock, Over, Retry,
         Refused, Failed, RollBack, Unlock, Again, Goto
<1>4. ASSUME NEW c \in Calls, Proceed(c) \/ Refused(c) \/ Failed(c)
      PROVE  rows'[c] # {} => pc'[c] \in {"counters", "waits"}
  BY <1>1, <1>4
     DEF TypeOK, RowsHeld, HasRemoved, Proceed, Check, Aggregate, Remove, NextCode, Update, Commit,
         Deadlock, Over, Retry, Refused, Failed, RollBack, Unlock, Again, Goto
<1>5. ASSUME NEW c \in Calls, Proceed(c) \/ Refused(c) \/ Failed(c) PROVE RowsHeld'
  BY <1>3, <1>4, <1>5 DEF RowsHeld, HasRemoved
<1> QED BY <1>2, <1>5 DEF Next, Ended

\* If each of some calls waits for one of them, there is a circle: a smallest
\* such set, from which nobody can be left out.
LEMMA CircleOfWaits ==
  ASSUME NEW W \in SUBSET Calls, W # {}, \A c \in W : \E d \in W : WaitsFor(c, d)
  PROVE  \E c \in W : Deadlocked(c)
<1> DEFINE IsClosed(Z) == \A c \in Z : \E d \in Z : WaitsFor(c, d)
<1> DEFINE Closed == {Z \in SUBSET W : Z # {} /\ IsClosed(Z)}
<1>1. IsFiniteSet(W)
  BY CallsAssumption, FS_Subset
<1>2. IsWellFoundedOn(StrictSubsetOrdering(W), FiniteSubsetsOf(W))
  BY FS_StrictSubsetOrderingWellFounded
<1>3. Closed \subseteq FiniteSubsetsOf(W) /\ Closed # {}
  <2>1. W \in Closed
    OBVIOUS
  <2> QED BY <1>1, <2>1, FS_FiniteSubsetsOfFinite
<1>4. PICK Z \in Closed : \A Y \in Closed : <<Y, Z>> \notin StrictSubsetOrdering(W)
  <2> HIDE DEF Closed
  <2> QED BY <1>2, <1>3, WFMin
<1>5. Z \in SUBSET W /\ Z # {} /\ IsClosed(Z)
  BY <1>4
<1>6. ASSUME NEW d \in Z PROVE \E e \in Z : WaitsFor(e, d)
  <2> SUFFICES ASSUME \A e \in Z : ~WaitsFor(e, d) PROVE FALSE
    OBVIOUS
  <2> DEFINE Y == Z \ {d}
  <2>1. IsClosed(Y)
    BY <1>5
  <2>2. Y # {}
    <3>1. PICK e \in Z : WaitsFor(d, e)
      BY <1>5
    <3> QED BY <3>1 DEF WaitsFor
  <2>3. Y \in SUBSET W /\ Y \subseteq Z /\ Y # Z
    BY <1>5
  <2>4. Y \in Closed
    BY <2>1, <2>2, <2>3
  <2>5. <<Y, Z>> \in StrictSubsetOrdering(W)
    <3> HIDE DEF Y
    <3> QED BY <1>5, <2>3 DEF StrictSubsetOrdering
  <2> QED BY <1>4, <2>4, <2>5
<1>7. \A c \in Z : Deadlocked(c)
  BY <1>5, <1>6 DEF Deadlocked
<1> QED BY <1>5, <1>7

LEMMA NotStuck == Typed /\ RowsHeld => SomeCallProceeds
<1> SUFFICES ASSUME Typed, RowsHeld, NEW b \in Calls, pc[b] \notin Ends,
                    \A c \in Calls : ~CanProceed(c)
             PROVE  FALSE
  BY DEF SomeCallProceeds
<1> DEFINE W == {c \in Calls : pc[c] = "waits"}
<1>1. \A c \in Calls : pc[c] \in {"remove", "waits"} \cup Ends
  BY DEF CanProceed, Typed, TypeOK, Stages
<1>2. W # {}
  <2>1. CASE pc[b] = "waits"
    BY <2>1
  <2>2. CASE pc[b] = "remove"
    <3>1. PICK d \in Calls : HasRemoved(d)
      BY <2>2 DEF CanProceed, AccountsFree
    <3> QED BY <3>1, <1>1 DEF HasRemoved, Ends
  <2> QED BY <1>1, <2>1, <2>2
<1>3. ASSUME NEW c \in W PROVE \E d \in W : WaitsFor(c, d)
  <2>1. PICK d \in Calls \ {c} : want[c] \in rows[d]
    BY DEF CanProceed, Holds
  <2>2. HasRemoved(d)
    BY <2>1 DEF RowsHeld
  <2>3. d \in W
    BY <1>1, <2>2 DEF HasRemoved, Ends
  <2> QED BY <2>1, <2>3 DEF WaitsFor, Holds
<1>4. PICK c \in W : Deadlocked(c)
  <2> HIDE DEF W
  <2>1. W \in SUBSET Calls
    BY DEF W
  <2> QED BY <1>2, <1>3, <2>1, CircleOfWaits
<1> QED BY <1>4 DEF CanProceed

\* The deletions never come to a standstill, for any number of calls: as long
\* as one has not returned, one can go on or is in a circle of transactions that
\* MySQL resolves (the order of the locks in Delete and BulkDelete).
THEOREM DeletionsNeverStuck == Spec => []SomeCallProceeds
<1>1. Spec => [](Typed /\ RowsHeld)
  BY InitTyped, NextTyped, InitRowsHeld, NextRowsHeld, PTL DEF Spec
<1> QED BY <1>1, NotStuck, PTL

-----------------------------------------------------------------------------
(* Termination: an upper bound of the steps that a call has left.          *)

StepsOfAttempt == 2 * Cardinality(Codes) + 6

StepsInAttempt(c) ==
  CASE pc[c] = "check"           -> 2 * Cardinality(Codes) + 5
    [] pc[c] = "aggregate"       -> 2 * Cardinality(Codes) + 4
    [] pc[c] = "remove"          -> 2 * Cardinality(Codes) + 3
    [] pc[c] = "counters"        -> 2 * Cardinality(Todo(c)) + 2
    [] pc[c] = "waits"           -> 2 * Cardinality(Todo(c)) + 1
    [] pc[c] \in {"over", "retry"} -> 1
    [] OTHER                     -> 0

StepsLeft(c) == StepsOfAttempt * (MaxAttempts - attempt[c]) + StepsInAttempt(c)

\* Who waits for the row of a code has not updated it yet.
WaitsForNext == \A c \in Calls : pc[c] = "waits" => want[c] \in Todo(c)

LEMMA InitWaitsForNext == Init => WaitsForNext
  BY DEF Init, WaitsForNext

LEMMA NextWaitsForNext == Typed /\ WaitsForNext /\ [Next]_vars => WaitsForNext'
<1> SUFFICES ASSUME Typed, WaitsForNext, [Next]_vars PROVE WaitsForNext'
  OBVIOUS
<1>1. TypeOK
  BY DEF Typed
<1>2. CASE UNCHANGED vars
  BY <1>2 DEF vars, call, WaitsForNext, Todo
<1>3. ASSUME NEW c \in Calls, Proceed(c) \/ Refused(c) \/ Failed(c)
      PROVE  \A d \in Calls \ {c} : /\ rows'[d] = rows[d] /\ pc'[d] = pc[d]
                                    /\ want'[d] = want[d] /\ delta'[d] = delta[d]
  BY <1>1, <1>3
     DEF TypeOK, Proceed, Check, Aggregate, Remove, NextCode, Update, Commit, Deadlock, Over, Retry,
         Refused, Failed, RollBack, Unlock, Again, Goto
<1>4. ASSUME NEW c \in Calls, Proceed(c) \/ Refused(c) \/ Failed(c), pc'[c] = "waits"
      PROVE  want'[c] \in Todo(c)'
  <2>1. NextCode(c)
    BY <1>1, <1>4
       DEF TypeOK, Proceed, Check, Aggregate, Remove, Update, Commit, Deadlock, Over, Retry,
           Refused, Failed, RollBack, Again, Goto
  <2> QED BY <1>1, <2>1 DEF TypeOK, NextCode, Todo
<1>5. ASSUME NEW c \in Calls, Proceed(c) \/ Refused(c) \/ Failed(c) PROVE WaitsForNext'
  BY <1>3, <1>4, <1>5 DEF WaitsForNext, Todo
<1> QED BY <1>2, <1>5 DEF Next, Ended

LEMMA TodoFinite ==
  ASSUME NEW c \in Calls
  PROVE  /\ IsFiniteSet(Todo(c)) /\ Cardinality(Todo(c)) \in Nat
         /\ Cardinality(Codes) \in Nat /\ Cardinality(Todo(c)) <= Cardinality(Codes)
<1>1. Todo(c) \in SUBSET Codes
  BY DEF Todo
<1> QED BY <1>1, CodesAssumption, FS_Subset, FS_CardinalityType

LEMMA StepsAreCounted ==
  ASSUME Typed, NEW c \in Calls
  PROVE  StepsInAttempt(c) \in Nat /\ StepsInAttempt(c) < StepsOfAttempt /\ StepsLeft(c) \in Nat
<1>1. Cardinality(Todo(c)) \in Nat /\ Cardinality(Codes) \in Nat
      /\ Cardinality(Todo(c)) <= Cardinality(Codes)
  BY TodoFinite
<1>2. StepsInAttempt(c) \in Nat /\ StepsInAttempt(c) < StepsOfAttempt
  BY <1>1 DEF StepsInAttempt, StepsOfAttempt
<1>3. MaxAttempts - attempt[c] \in Nat
  BY MaxAttemptsAssumption DEF Typed, TypeOK
<1>4. StepsOfAttempt \in Nat
  BY <1>1 DEF StepsOfAttempt
<1>5. StepsOfAttempt * (MaxAttempts - attempt[c]) \in Nat
  BY <1>3, <1>4
<1> QED BY <1>2, <1>5 DEF StepsLeft

\* Within an attempt.
LEMMA AttemptAdvances ==
  ASSUME Typed, WaitsForNext, NEW c \in Calls, Proceed(c) \/ Refused(c) \/ Failed(c), ~Retry(c)
  PROVE  attempt'[c] = attempt[c] /\ StepsInAttempt(c)' < StepsInAttempt(c)
<1>1. TypeOK /\ pc \in [Calls -> Stages \cup Ends]
  BY DEF Typed, TypeOK
<1> DEFINE K == Cardinality(Codes)
<1> DEFINE n == Cardinality(Todo(c))
<1>2. n \in Nat /\ K \in Nat /\ n <= K
  BY TodoFinite
<1>3. pc[c] = "waits" => n >= 1
  <2> SUFFICES ASSUME pc[c] = "waits" PROVE n # 0
    BY <1>2
  <2>1. Todo(c) # {} /\ IsFiniteSet(Todo(c))
    BY TodoFinite DEF WaitsForNext
  <2> QED BY <2>1, FS_EmptySet
<1>4. attempt'[c] = attempt[c]
  BY DEF Proceed, Check, Aggregate, Remove, NextCode, Update, Commit, Deadlock, Over, Refused, Failed
<1> SUFFICES StepsInAttempt(c)' < StepsInAttempt(c)
  BY <1>4
<1>5. ASSUME pc'[c] \in {"over", "retry"}, pc[c] \in {"aggregate", "remove", "counters", "waits"}
      PROVE  StepsInAttempt(c)' < StepsInAttempt(c)
  <2>1. StepsInAttempt(c)' = 1
    BY <1>5 DEF StepsInAttempt
  <2>2. StepsInAttempt(c) > 1
    <3> HIDE DEF n, K
    <3> QED BY <1>2, <1>3, <1>5 DEF StepsInAttempt, n, K
  <2> QED BY <2>1, <2>2, <1>2 DEF StepsInAttempt
<1>6. ASSUME pc'[c] \in Ends, pc[c] \in Stages
      PROVE  StepsInAttempt(c)' < StepsInAttempt(c)
  <2>1. StepsInAttempt(c)' = 0
    BY <1>6 DEF StepsInAttempt, Ends
  <2>2. StepsInAttempt(c) > 0
    BY <1>2, <1>6 DEF StepsInAttempt, Stages
  <2> QED BY <2>1, <2>2, <1>2 DEF StepsInAttempt
<1>7. CASE Check(c)
  <2>1. pc[c] = "check" /\ pc'[c] \in {"aggregate", "absent"}
    BY <1>1, <1>7 DEF Check, Goto
  <2> QED BY <1>2, <2>1 DEF StepsInAttempt
<1>8. CASE Aggregate(c)
  <2>1. pc[c] = "aggregate" /\ pc'[c] = "remove"
    BY <1>1, <1>8 DEF Aggregate, Goto
  <2> QED BY <1>2, <2>1 DEF StepsInAttempt
<1>9. CASE Remove(c)
  <2>1. pc[c] = "remove" /\ pc'[c] = "counters" /\ Todo(c)' = Todo(c)
    BY <1>1, <1>9 DEF Remove, Goto, Todo
  <2> QED BY <1>2, <2>1 DEF StepsInAttempt
<1>10. CASE NextCode(c)
  <2>1. pc[c] = "counters" /\ pc'[c] = "waits" /\ Todo(c)' = Todo(c)
    BY <1>1, <1>10 DEF NextCode, Goto, Todo
  <2> QED BY <1>2, <2>1 DEF StepsInAttempt
<1>11. CASE Update(c)
  <2>1. pc[c] = "waits" /\ pc'[c] = "counters" /\ Todo(c)' = Todo(c) \ {want[c]}
    BY <1>1, <1>11 DEF Update, Goto, Todo, TypeOK
  <2>2. want[c] \in Todo(c) /\ IsFiniteSet(Todo(c))
    BY <2>1, TodoFinite DEF WaitsForNext
  <2>3. Cardinality(Todo(c) \ {want[c]}) = n - 1
    BY <2>2, FS_RemoveElement
  <2> QED BY <1>2, <2>1, <2>3 DEF StepsInAttempt
<1>12. CASE Commit(c)
  <2>1. pc[c] = "counters" /\ pc'[c] \in Committed
    BY <1>1, <1>12 DEF Commit, Goto, Committed
  <2> QED BY <1>6, <2>1 DEF Stages, Ends, Committed
<1>13. CASE Deadlock(c)
  <2>1. pc[c] = "waits" /\ pc'[c] = "over"
    BY <1>1, <1>13 DEF Deadlock, Deadlocked, WaitsFor, RollBack, Goto
  <2> QED BY <1>5, <2>1
<1>14. CASE Over(c)
  <2>1. pc[c] = "over" /\ pc'[c] = "failed"
    BY <1>1, <1>14 DEF Over, RollBack, Goto
  <2> QED BY <1>6, <2>1 DEF Stages, Ends
<1>15. CASE Refused(c)
  <2>1. /\ pc[c] \in {"aggregate", "remove", "counters", "waits"}
        /\ pc'[c] \in {"retry", "failed", "over"}
    BY <1>1, <1>15 DEF Refused, RollBack, Goto, Again
  <2> QED BY <1>5, <1>6, <2>1 DEF Stages, Ends
<1>16. CASE Failed(c)
  <2>1. pc[c] \in Stages /\ pc'[c] = "failed"
    BY <1>1, <1>16 DEF Failed, RollBack, Goto
  <2> QED BY <1>6, <2>1 DEF Ends
<1> QED
  BY <1>7, <1>8, <1>9, <1>10, <1>11, <1>12, <1>13, <1>14, <1>15, <1>16 DEF Proceed

LEMMA AllStepsCounted ==
  Typed => \A d \in Calls : StepsInAttempt(d) \in Nat /\ StepsInAttempt(d) < StepsOfAttempt
  BY StepsAreCounted

LEMMA StepsLeftCounted == Typed => \A d \in Calls : StepsLeft(d) \in Nat
  BY StepsAreCounted

\* Another attempt costs less than what an attempt was granted.
LEMMA RetryAdvances ==
  ASSUME Typed, NEW c \in Calls, Retry(c), Typed'
  PROVE  StepsLeft(c)' < StepsLeft(c)
<1> DEFINE A == StepsOfAttempt
<1> DEFINE left == MaxAttempts - attempt'[c]
<1>1. attempt'[c] = attempt[c] + 1 /\ attempt[c] \in Nat /\ left \in Nat
  BY MaxAttemptsAssumption DEF Typed, TypeOK, Retry
<1>2. MaxAttempts - attempt[c] = left + 1
  BY <1>1, MaxAttemptsAssumption
<1>3. A \in Nat
  BY TodoFinite DEF StepsOfAttempt
<1>4. StepsInAttempt(c)' \in Nat /\ StepsInAttempt(c)' < A
  <2>1. (Typed => \A d \in Calls : StepsInAttempt(d) \in Nat /\ StepsInAttempt(d) < StepsOfAttempt)'
    BY AllStepsCounted, PTL
  <2>2. UNCHANGED StepsOfAttempt
    BY DEF StepsOfAttempt
  <2> QED BY <2>1, <2>2
<1>5. StepsInAttempt(c) \in Nat
  BY StepsAreCounted
<1>6. /\ StepsLeft(c) = A * (left + 1) + StepsInAttempt(c)
      /\ StepsLeft(c)' = A * left + StepsInAttempt(c)'
  BY <1>2 DEF StepsLeft, StepsOfAttempt
<1> HIDE DEF A, left
<1>7. A * (left + 1) = A * left + A /\ A * left \in Nat
  BY <1>1, <1>3
<1> QED BY <1>3, <1>4, <1>5, <1>6, <1>7

\* A step of a call leaves it fewer steps, and the others as many as before.
Advance ==
  \E c \in Calls : /\ StepsLeft(c) \in Nat /\ StepsLeft(c)' \in Nat
                   /\ StepsLeft(c)' < StepsLeft(c)
                   /\ \A d \in Calls \ {c} : StepsLeft(d)' = StepsLeft(d)

LEMMA NextAdvances == Typed /\ Typed' /\ WaitsForNext /\ [Next]_vars => [Advance]_vars
<1> SUFFICES ASSUME Typed, Typed', WaitsForNext, NEW c \in Calls,
                    Proceed(c) \/ Refused(c) \/ Failed(c)
             PROVE  Advance
  BY DEF Next, Ended
<1>1. \A d \in Calls : StepsLeft(d) \in Nat
  BY StepsLeftCounted
<1>2. (Typed => \A d \in Calls : StepsLeft(d) \in Nat)'
  BY StepsLeftCounted, PTL
<1>3. ASSUME NEW d \in Calls \ {c} PROVE StepsLeft(d)' = StepsLeft(d)
  <2>1. /\ rows'[d] = rows[d] /\ pc'[d] = pc[d] /\ delta'[d] = delta[d]
        /\ attempt'[d] = attempt[d]
    BY DEF Typed, TypeOK, Proceed, Check, Aggregate, Remove, NextCode, Update, Commit, Deadlock,
           Over, Retry, Refused, Failed, RollBack, Unlock, Again, Goto
  <2> QED BY <2>1 DEF StepsLeft, StepsInAttempt, StepsOfAttempt, Todo
<1>4. StepsLeft(c)' < StepsLeft(c)
  <2>1. CASE Retry(c)
    BY <2>1, RetryAdvances
  <2>2. CASE ~Retry(c)
    <3>1. attempt'[c] = attempt[c] /\ StepsInAttempt(c)' < StepsInAttempt(c)
      BY <2>2, AttemptAdvances
    <3>2. StepsInAttempt(c) \in Nat
      BY AllStepsCounted
    <3>3. (Typed => \A d \in Calls : StepsInAttempt(d) \in Nat /\ StepsInAttempt(d) < StepsOfAttempt)'
      BY AllStepsCounted, PTL
    <3> DEFINE x == StepsOfAttempt * (MaxAttempts - attempt[c])
    <3>4. StepsLeft(c) = x + StepsInAttempt(c) /\ StepsLeft(c)' = x + StepsInAttempt(c)'
      BY <3>1 DEF StepsLeft, StepsOfAttempt
    <3>5. x \in Nat
      <4>1. MaxAttempts - attempt[c] \in Nat
        BY MaxAttemptsAssumption DEF Typed, TypeOK
      <4>2. StepsOfAttempt \in Nat
        BY TodoFinite DEF StepsOfAttempt
      <4> QED BY <4>1, <4>2
    <3> HIDE DEF x
    <3> QED BY <3>1, <3>2, <3>3, <3>4, <3>5
  <2> QED BY <2>1, <2>2
<1> QED BY <1>1, <1>2, <1>3, <1>4 DEF Advance

\* No deletion goes on for ever: every step of one brings it closer to its end,
\* whatever the others do, with at most MaxAttempts * (2 * |Codes| + 6) steps;
\* together with DeletionsNeverStuck, all return (the loops over the attempts
\* and the codes in Delete and BulkDelete).
THEOREM DeletionsAdvance == Spec => [][Advance]_vars
<1>1. Spec => [](Typed /\ WaitsForNext)
  BY InitTyped, NextTyped, InitWaitsForNext, NextWaitsForNext, PTL DEF Spec
<1> QED BY <1>1, NextAdvances, PTL DEF Spec
=============================================================================
