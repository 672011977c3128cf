------------------------- MODULE RedeemBatchProofs -------------------------
(***************************************************************************)
(* Proofs about RedeemBatch for a batch of any size: the results are       *)
(* complete and the failures of an account are bounded.                    *)
(***************************************************************************)
EXTENDS RedeemBatch, SequenceTheorems, FiniteSetTheorems, TLAPS

USE NumAccountsAssumption, SaturationAssumption

-----------------------------------------------------------------------------
(* The inductive invariant.                                                *)

Failures(a) == busies[a] + captchas[a]

\* Every cooldown stands for at most three failures, and the cycle that is
\* under way for at most attemptsInCycle and at most two.
Budgeted(a) ==
  /\ cooldowns[a] <= 2
  /\ Failures(a) <= 3 * cooldowns[a] + attempts[a]
  /\ Failures(a) <= 3 * cooldowns[a] + 2

FailureInv ==
  /\ \A a \in Batch \ finalized : Budgeted(a)
  /\ \A a \in finalized : Failures(a) <= 9

\* The account being tried has no result yet.
CurrentInv == current \notin finalized

IInv == TypeOK /\ ResultsComplete /\ FailureInv /\ CurrentInv

\* The counters of an account, by the type invariant.
LEMMA CounterTypes ==
  ASSUME TypeOK, NEW a \in Batch
  PROVE  /\ cooldowns[a] \in 0 .. 3
         /\ attempts[a] \in 0 .. Saturation
         /\ busies[a] \in Nat
         /\ captchas[a] \in Nat
<1>1. cooldowns \in [Batch -> 0 .. 3] /\ attempts \in [Batch -> 0 .. Saturation]
  BY DEF TypeOK
<1>2. busies \in [Batch -> 0 .. 10] /\ captchas \in [Batch -> 0 .. 10]
  BY DEF TypeOK
<1>3. busies[a] \in 0 .. 10 /\ captchas[a] \in 0 .. 10
  BY <1>2
<1> QED BY <1>1, <1>3

\* A batch is a finite set, and so is every part of it.
LEMMA BatchFinite ==
  /\ IsFiniteSet(Batch) /\ Cardinality(Batch) = NumAccounts
  /\ \A S \in SUBSET Batch : IsFiniteSet(S) /\ Cardinality(S) \in Nat
<1>1. IsFiniteSet(Batch) /\ Cardinality(Batch) = NumAccounts
  BY FS_Interval DEF Batch
<1>2. \A S \in SUBSET Batch : IsFiniteSet(S) /\ Cardinality(S) \in Nat
  BY <1>1, FS_Subset, FS_CardinalityType
<1> QED BY <1>1, <1>2

\* Appending the result of an account that had none keeps them complete.
LEMMA FinalizeComplete ==
  ASSUME TypeOK, ResultsComplete, NEW a \in Batch, a \notin finalized,
         NEW o \in Outcomes, Finalize(a, o)
  PROVE  /\ results' \in Seq(Batch \X Outcomes)
         /\ finalized' \subseteq Batch
         /\ pending' \in 0 .. NumAccounts
         /\ ResultsComplete'
<1>1. /\ results \in Seq(Batch \X Outcomes) /\ finalized \subseteq Batch
      /\ pending \in 0 .. NumAccounts
  BY DEF TypeOK
<1>2. /\ results' = Append(results, <<a, o>>)
      /\ finalized' = finalized \cup {a}
      /\ pending' = pending - 1
  BY DEF Finalize
<1>3. /\ results' \in Seq(Batch \X Outcomes)
      /\ Len(results') = Len(results) + 1
      /\ \A i \in 1 .. Len(results) : results'[i] = results[i]
      /\ results'[Len(results) + 1] = <<a, o>>
  <2>1. <<a, o>> \in Batch \X Outcomes
    OBVIOUS
  <2> QED BY <1>1, <1>2, <2>1, AppendProperties
<1>4. /\ Len(results) \in Nat
      /\ DOMAIN results = 1 .. Len(results)
      /\ DOMAIN results' = 1 .. Len(results) + 1
  BY <1>1, <1>3, LenProperties
<1>5. {results'[i][1] : i \in DOMAIN results'} = {results[i][1] : i \in DOMAIN results} \cup {a}
  <2>1. ASSUME NEW i \in DOMAIN results'
        PROVE  results'[i][1] \in {results[k][1] : k \in DOMAIN results} \cup {a}
    <3>1. CASE i = Len(results) + 1
      BY <3>1, <1>3
    <3>2. CASE i # Len(results) + 1
      <4>1. i \in DOMAIN results
        BY <3>2, <1>4
      <4> QED BY <4>1, <1>3, <1>4
    <3> QED BY <3>1, <3>2
  <2>2. ASSUME NEW i \in DOMAIN results
        PROVE  results[i][1] \in {results'[k][1] : k \in DOMAIN results'}
    <3>1. i \in DOMAIN results' /\ results'[i] = results[i]
      BY <1>3, <1>4
    <3> QED BY <3>1
  <2>3. a \in {results'[k][1] : k \in DOMAIN results'}
    <3>1. Len(results) + 1 \in DOMAIN results' /\ results'[Len(results) + 1][1] = a
      BY <1>3, <1>4
    <3> QED BY <3>1
  <2> QED BY <2>1, <2>2, <2>3
<1>6. Cardinality(finalized') = Cardinality(finalized) + 1
  BY <1>1, <1>2, BatchFinite, FS_AddElement
<1>7. Cardinality(finalized') <= NumAccounts /\ Cardinality(finalized) \in Nat
  BY <1>1, <1>2, BatchFinite, FS_Subset
<1>8. finalized' \subseteq Batch
  BY <1>1, <1>2
<1>9. pending' = NumAccounts - Cardinality(finalized')
  BY <1>2, <1>6, <1>7 DEF ResultsComplete
<1>10. pending' \in 0 .. NumAccounts
  BY <1>6, <1>7, <1>9
<1>11. ResultsComplete'
  BY <1>2, <1>3, <1>5, <1>6, <1>9 DEF ResultsComplete
<1> QED BY <1>3, <1>8, <1>10, <1>11

\* The counters start within their budget.
LEMMA InvInit == Init => IInv
<1> SUFFICES ASSUME Init PROVE IInv
  OBVIOUS
<1>1. TypeOK
  <2>1. results \in Seq(Batch \X Outcomes)
    BY EmptySeq DEF Init
  <2> QED BY <2>1 DEF Init, TypeOK
<1>2. ResultsComplete
  <2>1. DOMAIN results = {} /\ Len(results) = 0
    BY DEF Init
  <2>2. Cardinality(finalized) = 0 /\ finalized = {}
    BY FS_EmptySet DEF Init
  <2> QED BY <2>1, <2>2 DEF ResultsComplete, Init
<1>3. FailureInv /\ CurrentInv
  BY DEF Init, FailureInv, CurrentInv, Budgeted, Failures
<1> QED BY <1>1, <1>2, <1>3 DEF IInv

\* A history counts one more failure of the account, or none.
LEMMA CountStep ==
  ASSUME NEW f \in [Batch -> 0 .. 10], NEW a \in Batch, NEW p \in BOOLEAN,
         NEW g, g = IF p /\ f[a] < 10 THEN [f EXCEPT ![a] = @ + 1] ELSE f
  PROVE  /\ g \in [Batch -> 0 .. 10]
         /\ \A b \in Batch \ {a} : g[b] = f[b]
         /\ g[a] \in 0 .. 10
         /\ g[a] <= f[a] + 1
         /\ ~p => g[a] = f[a]
<1>1. f[a] \in 0 .. 10
  OBVIOUS
<1>2. CASE p /\ f[a] < 10
  BY <1>1, <1>2
<1>3. CASE ~(p /\ f[a] < 10)
  BY <1>1, <1>3
<1> QED BY <1>2, <1>3

\* An attempt changes the counters of the account that was tried alone.
LEMMA TriedFrame ==
  ASSUME TypeOK, NEW a \in Batch, NEW o, Tried(a, o)
  PROVE  /\ cooldowns' \in [Batch -> Int] /\ attempts' \in [Batch -> Int]
         /\ busies' \in [Batch -> 0 .. 10] /\ captchas' \in [Batch -> 0 .. 10]
         /\ \A b \in Batch \ {a} :
              /\ cooldowns'[b] = cooldowns[b] /\ attempts'[b] = attempts[b]
              /\ busies'[b] = busies[b] /\ captchas'[b] = captchas[b]
         /\ busies'[a] \in 0 .. 10 /\ captchas'[a] \in 0 .. 10
         /\ busies'[a] + captchas'[a] <= busies[a] + captchas[a] + 1
         /\ o \notin {"busy", "captcha"} =>
              busies'[a] + captchas'[a] = busies[a] + captchas[a]
<1>1. /\ cooldowns \in [Batch -> 0 .. 3] /\ attempts \in [Batch -> 0 .. Saturation]
      /\ busies \in [Batch -> 0 .. 10] /\ captchas \in [Batch -> 0 .. 10]
  BY DEF TypeOK
<1>2. \/ cooldowns' = [cooldowns EXCEPT ![a] = @ + 1]
      \/ cooldowns' = cooldowns
  BY DEF Tried, Schedule, CoolDown, CountCooldown, ShortRest
<1>3. \/ attempts' = [attempts EXCEPT ![a] = 0]
      \/ attempts' = [attempts EXCEPT ![a] = NextAttempt(a)]
      \/ attempts' = attempts
  BY DEF Tried, Schedule, CoolDown, ShortRest
<1>4. NextAttempt(a) \in Nat
  BY <1>1 DEF NextAttempt
<1>5. cooldowns' \in [Batch -> Int] /\ \A b \in Batch \ {a} : cooldowns'[b] = cooldowns[b]
  BY <1>1, <1>2
<1>6. attempts' \in [Batch -> Int] /\ \A b \in Batch \ {a} : attempts'[b] = attempts[b]
  BY <1>1, <1>3, <1>4
<1>7. /\ busies' \in [Batch -> 0 .. 10]
      /\ \A b \in Batch \ {a} : busies'[b] = busies[b]
      /\ busies'[a] \in 0 .. 10
      /\ busies'[a] <= busies[a] + 1
      /\ o # "busy" => busies'[a] = busies[a]
  <2>1. busies' = IF (o = "busy") /\ busies[a] < 10 THEN [busies EXCEPT ![a] = @ + 1] ELSE busies
    BY DEF Tried, Count
  <2> QED BY <1>1, <2>1, CountStep
<1>8. /\ captchas' \in [Batch -> 0 .. 10]
      /\ \A b \in Batch \ {a} : captchas'[b] = captchas[b]
      /\ captchas'[a] \in 0 .. 10
      /\ captchas'[a] <= captchas[a] + 1
      /\ o # "captcha" => captchas'[a] = captchas[a]
  <2>1. captchas' = IF (o = "captcha") /\ captchas[a] < 10 THEN [captchas EXCEPT ![a] = @ + 1] ELSE captchas
    BY DEF Tried, Count
  <2> QED BY <1>1, <2>1, CountStep
<1>9. busies[a] \in 0 .. 10 /\ captchas[a] \in 0 .. 10
  BY <1>1
<1>10. /\ busies'[a] + captchas'[a] <= busies[a] + captchas[a] + 1
       /\ o \notin {"busy", "captcha"} =>
            busies'[a] + captchas'[a] = busies[a] + captchas[a]
  <2>1. CASE o = "busy"
    BY <1>7, <1>8, <1>9, <2>1
  <2>2. CASE o # "busy"
    BY <1>7, <1>8, <1>9, <2>2
  <2> QED BY <2>1, <2>2
<1> QED BY <1>5, <1>6, <1>7, <1>8, <1>10

\* The account that was tried stays within its budget, or is finished.
LEMMA TriedBudget ==
  ASSUME IInv, NEW a \in Batch, NEW o, Tried(a, o)
  PROVE  /\ a \notin finalized
         /\ cooldowns'[a] \in 0 .. 3 /\ attempts'[a] \in 0 .. Saturation
         /\ \/ Finalize(a, o) /\ o \in Outcomes /\ Failures(a)' <= 9
            \/ Rest(a) /\ Budgeted(a)'
<1>1. /\ a \notin finalized /\ Budgeted(a)
      /\ cooldowns[a] \in 0 .. 3 /\ attempts[a] \in 0 .. Saturation
      /\ busies[a] \in Nat /\ captchas[a] \in Nat
      /\ cooldowns \in [Batch -> 0 .. 3] /\ attempts \in [Batch -> 0 .. Saturation]
  <2>1. current = a /\ TypeOK /\ FailureInv /\ CurrentInv
    BY DEF IInv, Tried
  <2>2. cooldowns \in [Batch -> 0 .. 3] /\ attempts \in [Batch -> 0 .. Saturation]
    BY <2>1 DEF TypeOK
  <2> QED BY <2>1, <2>2, CounterTypes DEF CurrentInv, FailureInv
<1>2. /\ busies'[a] \in Nat /\ captchas'[a] \in Nat
      /\ busies'[a] + captchas'[a] <= busies[a] + captchas[a] + 1
      /\ o \notin {"busy", "captcha"} => busies'[a] + captchas'[a] = busies[a] + captchas[a]
  BY TriedFrame DEF IInv
<1>3. Schedule(a, o)
  BY DEF Tried
<1>4. ASSUME CoolDown(a, o), o \in {"busy", "captcha"},
             o = "busy" \/ CycleIsOver(a)
      PROVE  /\ cooldowns'[a] \in 0 .. 3 /\ attempts'[a] \in 0 .. Saturation
             /\ \/ Finalize(a, o) /\ o \in Outcomes /\ Failures(a)' <= 9
                \/ Rest(a) /\ Budgeted(a)'
  <2>1. cooldowns'[a] = cooldowns[a] + 1 /\ attempts'[a] = 0
    BY <1>1, <1>4 DEF CoolDown, CountCooldown
  <2>2. busies'[a] + captchas'[a] <= 3 * cooldowns'[a]
    BY <1>1, <1>2, <1>4, <2>1 DEF Budgeted, Failures
  <2>3. o \in Outcomes
    BY <1>4 DEF Outcomes
  <2>4. CASE LastCooldown(a)
    BY <1>1, <1>4, <2>1, <2>2, <2>3, <2>4 DEF CoolDown, LastCooldown, Budgeted, Failures
  <2>5. CASE ~LastCooldown(a)
    <3>1. Rest(a)
      BY <1>4, <2>5 DEF CoolDown
    <3>2. cooldowns'[a] <= 2 /\ attempts'[a] = 0 /\ cooldowns'[a] \in 0 .. 3
      BY <1>1, <2>1, <2>5 DEF LastCooldown
    <3>3. busies'[a] + captchas'[a] \in Nat
      BY <1>1, <1>2
    <3>4. Budgeted(a)'
      BY <2>2, <3>2, <3>3 DEF Budgeted, Failures
    <3> QED BY <3>1, <3>2, <3>4
  <2> QED BY <2>4, <2>5
<1>5. ASSUME ShortRest(a), o = "captcha" => ~CycleIsOver(a), o # "busy"
      PROVE  /\ cooldowns'[a] \in 0 .. 3 /\ attempts'[a] \in 0 .. Saturation
             /\ Rest(a) /\ Budgeted(a)'
  <2>1. cooldowns' = cooldowns /\ Rest(a) /\ attempts'[a] = NextAttempt(a)
    BY <1>1, <1>5 DEF ShortRest
  <2>2. /\ NextAttempt(a) \in 0 .. Saturation /\ NextAttempt(a) >= attempts[a]
        /\ attempts[a] < Saturation => NextAttempt(a) = attempts[a] + 1
    BY <1>1 DEF NextAttempt
  <2>3. CASE o = "captcha"
    BY <1>1, <1>2, <1>5, <2>1, <2>2, <2>3 DEF CycleIsOver, Budgeted, Failures
  <2>4. CASE o # "captcha"
    BY <1>1, <1>2, <1>5, <2>1, <2>2, <2>4 DEF Budgeted, Failures
  <2> QED BY <2>3, <2>4
<1>6. ASSUME o \in {"success", "fatal", "other"}, Finalize(a, o), UNCHANGED <<cooldowns, attempts>>
      PROVE  /\ cooldowns'[a] \in 0 .. 3 /\ attempts'[a] \in 0 .. Saturation
             /\ Finalize(a, o) /\ o \in Outcomes /\ Failures(a)' <= 9
  BY <1>1, <1>2, <1>6 DEF Budgeted, Failures, Outcomes
<1> QED BY <1>1, <1>3, <1>4, <1>5, <1>6 DEF Schedule

\* The invariant survives an attempt.
LEMMA TriedStep ==
  ASSUME IInv, NEW a \in Batch, NEW o, Tried(a, o)
  PROVE  IInv'
<1>1. /\ results \in Seq(Batch \X Outcomes) /\ resting \subseteq Batch
      /\ finalized \subseteq Batch /\ pending \in 0 .. NumAccounts
      /\ cooldowns \in [Batch -> 0 .. 3] /\ attempts \in [Batch -> 0 .. Saturation]
      /\ current' = 0 /\ 0 \notin Batch
  BY DEF IInv, TypeOK, Tried, Batch
<1>2. /\ results' \in Seq(Batch \X Outcomes) /\ resting' \subseteq Batch
      /\ finalized' \subseteq Batch /\ finalized' \subseteq finalized \cup {a}
      /\ finalized \subseteq finalized'
      /\ pending' \in 0 .. NumAccounts
      /\ ResultsComplete'
  <2>1. CASE Finalize(a, o) /\ o \in Outcomes
    BY <1>1, <2>1, TriedBudget, FinalizeComplete DEF IInv, Finalize
  <2>2. CASE Rest(a)
    BY <1>1, <2>2 DEF IInv, Rest, ResultsComplete
  <2> QED BY <2>1, <2>2, TriedBudget
<1>3. cooldowns' \in [Batch -> 0 .. 3]
  <2>1. ASSUME NEW b \in Batch PROVE cooldowns'[b] \in 0 .. 3
    <3>1. cooldowns[b] \in 0 .. 3
      BY <1>1
    <3>2. b # a => cooldowns'[b] = cooldowns[b]
      BY TriedFrame DEF IInv
    <3>3. cooldowns'[a] \in 0 .. 3
      BY TriedBudget
    <3> QED BY <3>1, <3>2, <3>3
  <2> QED BY <2>1, TriedFrame DEF IInv
<1>4. attempts' \in [Batch -> 0 .. Saturation]
  <2>1. ASSUME NEW b \in Batch PROVE attempts'[b] \in 0 .. Saturation
    <3>1. attempts[b] \in 0 .. Saturation
      BY <1>1
    <3>2. b # a => attempts'[b] = attempts[b]
      BY TriedFrame DEF IInv
    <3>3. attempts'[a] \in 0 .. Saturation
      BY TriedBudget
    <3> QED BY <3>1, <3>2, <3>3
  <2> QED BY <2>1, TriedFrame DEF IInv
<1>5. TypeOK'
  BY <1>1, <1>2, <1>3, <1>4, TriedFrame DEF IInv, TypeOK
<1>6. ASSUME NEW b \in Batch \ {a}
      PROVE  /\ b \in finalized' <=> b \in finalized
             /\ Failures(b)' = Failures(b)
             /\ Budgeted(b)' <=> Budgeted(b)
  BY <1>2, TriedFrame DEF IInv, Budgeted, Failures
<1>7. \/ a \in finalized' /\ Failures(a)' <= 9
      \/ a \notin finalized' /\ Budgeted(a)'
  BY TriedBudget DEF Finalize, Rest
<1>8. FailureInv'
  BY <1>1, <1>2, <1>6, <1>7 DEF IInv, FailureInv
<1>9. CurrentInv'
  BY <1>1, <1>2 DEF CurrentInv
<1> QED BY <1>2, <1>5, <1>8, <1>9 DEF IInv

\* Every step preserves the invariant.
LEMMA InvStep == IInv /\ [Next]_vars => IInv'
<1> SUFFICES ASSUME IInv, [Next]_vars PROVE IInv'
  OBVIOUS
<1>1. CASE Pick
  BY <1>1 DEF Pick, Ready, history, IInv, TypeOK, ResultsComplete, FailureInv,
              CurrentInv, Budgeted, Failures
<1>2. ASSUME NEW a \in Batch, Rested(a) PROVE IInv'
  BY <1>2 DEF Rested, history, IInv, TypeOK, ResultsComplete, FailureInv,
              CurrentInv, Budgeted, Failures
<1>3. ASSUME NEW a \in Batch, Attempt(a) PROVE IInv'
  <2>1. PICK o \in TryOutcomes : Tried(a, o)
    BY <1>3 DEF Attempt
  <2> QED BY <2>1, TriedStep
<1>4. CASE Done \/ UNCHANGED vars
  BY <1>4 DEF Done, vars, history, IInv, TypeOK, ResultsComplete, FailureInv,
              CurrentInv, Budgeted, Failures
<1> QED BY <1>1, <1>2, <1>3, <1>4 DEF Next

\* It holds in every state of every behaviour.
LEMMA Invariance == Spec => []IInv
<1>1. IInv /\ [Next]_vars => IInv'
  BY InvStep
<1> QED BY InvInit, <1>1, PTL DEF Spec

-----------------------------------------------------------------------------
(* What follows.                                                           *)

\* The loop returns one result for each account of the batch, and its break
\* for an empty pick is never taken.
THEOREM BatchIsComplete == Spec => []ResultsComplete
<1>1. IInv => ResultsComplete
  BY DEF IInv
<1> QED BY Invariance, <1>1, PTL

\* The counters of the scheduler keep their types, cooldowns at most three.
THEOREM BatchTypeCorrect == Spec => []TypeOK
<1>1. IInv => TypeOK
  BY DEF IInv
<1> QED BY Invariance, <1>1, PTL

\* An account fails at most nine times for a captcha or a busy server.
THEOREM NineFailuresAtMost == Spec => []FailuresBounded
<1>1. IInv => FailuresBounded
  <2> SUFFICES ASSUME IInv, NEW a \in Batch PROVE busies[a] + captchas[a] <= 9
    BY DEF FailuresBounded
  <2>1. TypeOK
    BY DEF IInv
  <2>2. busies[a] \in Nat /\ captchas[a] \in Nat /\ cooldowns[a] \in 0 .. 3
    BY <2>1, CounterTypes
  <2> QED BY <2>2 DEF IInv, FailureInv, Budgeted, Failures
<1> QED BY Invariance, <1>1, PTL

-----------------------------------------------------------------------------
(* The batch comes to its end.                                             *)

\* The scheduler tries an account, or one is ready, or one rests whose time
\* will come.
SchedulerGoesOn ==
  pending > 0 =>
    \/ current \in Batch \ finalized
    \/ current = 0 /\ Ready # {}
    \/ current = 0 /\ \E a \in resting : a \notin finalized

\* As long as the loop counts an account without a result there is one to try
\* or to wait for: pickNext never comes back empty, and the loop cannot spin
\* or sleep without anybody to sleep for.
THEOREM PickFindsSomebody == Spec => []SchedulerGoesOn
<1>1. IInv => SchedulerGoesOn
  <2> SUFFICES ASSUME IInv, pending > 0
               PROVE  \/ current \in Batch \ finalized
                      \/ current = 0 /\ Ready # {}
                      \/ current = 0 /\ \E a \in resting : a \notin finalized
    BY DEF SchedulerGoesOn
  <2>1. /\ finalized \subseteq Batch /\ current \in Batch \cup {0}
        /\ pending = NumAccounts - Cardinality(finalized)
        /\ current \notin finalized
    BY DEF IInv, TypeOK, ResultsComplete, CurrentInv
  <2>2. finalized # Batch
    BY <2>1, BatchFinite
  <2>3. PICK a \in Batch : a \notin finalized
    BY <2>1, <2>2
  <2> QED BY <2>1, <2>3 DEF Ready
<1> QED BY Invariance, <1>1, PTL

\* An attempt in which the session was lost, or too many captchas had been
\* asked for, does not count: the scheduler has no limit for these.
Counts(o) == o \notin {"session", "tooMany"}

\* A bound on the attempts that count and that an account can still make:
\* three for each cooldown that is left, less those of the cycle under way.
AttemptsLeft(a) ==
  IF a \in finalized THEN 0
  ELSE 3 * (3 - cooldowns[a]) - (IF attempts[a] <= 2 THEN attempts[a] ELSE 2)

\* An attempt that counts lowers the bound of its account, every other attempt
\* at least does not raise it, and no step raises that of another account.
AttemptsRunOut ==
  \A a \in Batch :
    /\ AttemptsLeft(a)' <= AttemptsLeft(a)
    /\ \A o \in TryOutcomes : Tried(a, o) /\ Counts(o) => AttemptsLeft(a)' < AttemptsLeft(a)

\* The bound is a number, and an account without a result has an attempt left.
AttemptsBounded ==
  \A a \in Batch :
    /\ AttemptsLeft(a) \in 0 .. 9
    /\ a \notin finalized => AttemptsLeft(a) >= 1

\* It follows from the budget of the account.
LEMMA AttemptsLeftType == IInv => AttemptsBounded
<1> SUFFICES ASSUME IInv, NEW a \in Batch
             PROVE  /\ AttemptsLeft(a) \in 0 .. 9
                    /\ a \notin finalized => AttemptsLeft(a) >= 1
  BY DEF AttemptsBounded
<1>1. cooldowns[a] \in 0 .. 3 /\ attempts[a] \in 0 .. Saturation
  BY CounterTypes DEF IInv
<1>2. a \notin finalized => cooldowns[a] <= 2
  BY DEF IInv, FailureInv, Budgeted
<1> QED BY <1>1, <1>2 DEF AttemptsLeft

\* What an attempt does to the bound of the account that is tried.
LEMMA TriedRunsOut ==
  ASSUME IInv, IInv', NEW a \in Batch, NEW o, Tried(a, o)
  PROVE  /\ AttemptsLeft(a)' <= AttemptsLeft(a)
         /\ Counts(o) => AttemptsLeft(a)' < AttemptsLeft(a)
<1>1. /\ a \notin finalized
      /\ cooldowns[a] \in 0 .. 2 /\ attempts[a] \in 0 .. Saturation
      /\ cooldowns \in [Batch -> 0 .. 3] /\ attempts \in [Batch -> 0 .. Saturation]
  <2>1. a \notin finalized
    BY TriedBudget
  <2>2. cooldowns[a] <= 2
    BY <2>1 DEF IInv, FailureInv, Budgeted
  <2> QED BY <2>1, <2>2, CounterTypes DEF IInv, TypeOK
<1>2. AttemptsLeft(a) \in 1 .. 9
  BY <1>1, AttemptsLeftType DEF AttemptsBounded
<1>3. ASSUME Finalize(a, o)
      PROVE  AttemptsLeft(a)' < AttemptsLeft(a)
  BY <1>2, <1>3 DEF Finalize, AttemptsLeft
<1>4. ASSUME CoolDown(a, o)
      PROVE  AttemptsLeft(a)' < AttemptsLeft(a)
  <2>1. CASE LastCooldown(a)
    BY <1>3, <1>4, <2>1 DEF CoolDown
  <2>2. CASE ~LastCooldown(a)
    <3>1. cooldowns'[a] = cooldowns[a] + 1 /\ attempts'[a] = 0 /\ finalized' = finalized
      BY <1>1, <1>4, <2>2 DEF CoolDown, CountCooldown, Rest
    <3> QED BY <1>1, <3>1 DEF AttemptsLeft
  <2> QED BY <2>1, <2>2
<1>5. ASSUME ShortRest(a)
      PROVE  /\ AttemptsLeft(a)' <= AttemptsLeft(a)
             /\ ~CycleIsOver(a) => AttemptsLeft(a)' < AttemptsLeft(a)
  <2>1. cooldowns'[a] = cooldowns[a] /\ attempts'[a] = NextAttempt(a) /\ finalized' = finalized
    BY <1>1, <1>5 DEF ShortRest, Rest
  <2>2. /\ NextAttempt(a) >= attempts[a] /\ NextAttempt(a) \in Nat
        /\ ~CycleIsOver(a) => NextAttempt(a) = attempts[a] + 1 /\ attempts[a] + 1 <= 2
    BY <1>1 DEF NextAttempt, CycleIsOver
  <2> QED BY <1>1, <2>1, <2>2 DEF AttemptsLeft
<1>6. AttemptsLeft(a)' \in 0 .. 9
  <2>1. (IInv => AttemptsBounded)'
    BY AttemptsLeftType, PTL
  <2> QED BY <2>1 DEF AttemptsBounded
<1>7. Schedule(a, o)
  BY DEF Tried
<1> QED BY <1>2, <1>3, <1>4, <1>5, <1>6, <1>7 DEF Schedule, Counts

\* The steps of the other accounts, and of the scheduler, change no bound.
LEMMA OthersKeepAttempts ==
  ASSUME IInv, [Next]_vars, NEW a \in Batch, \A o \in TryOutcomes : ~Tried(a, o)
  PROVE  AttemptsLeft(a)' = AttemptsLeft(a)
<1>1. ASSUME NEW b \in Batch, Attempt(b)
      PROVE  AttemptsLeft(a)' = AttemptsLeft(a)
  <2>1. PICK o \in TryOutcomes : Tried(b, o)
    BY <1>1 DEF Attempt
  <2>2. b # a
    BY <2>1
  <2>3. cooldowns'[a] = cooldowns[a] /\ attempts'[a] = attempts[a]
    BY <2>1, <2>2, TriedFrame DEF IInv
  <2>4. finalized' = finalized \/ finalized' = finalized \cup {b}
    BY <2>1, TriedBudget DEF Finalize, Rest
  <2> QED BY <2>2, <2>3, <2>4 DEF AttemptsLeft
<1>2. ASSUME UNCHANGED <<cooldowns, attempts, finalized>>
      PROVE  AttemptsLeft(a)' = AttemptsLeft(a)
  BY <1>2 DEF AttemptsLeft
<1> QED BY <1>1, <1>2 DEF Next, Pick, Rested, Done, vars

\* However the answers of the game alternate, an account is tried at most nine
\* times, successes and failures of every kind together, but for attempts that
\* end with a lost session or too many captchas.  With PickFindsSomebody, the
\* batch ends unless the game answers in these two ways for ever.
THEOREM BatchRunsOut == Spec => []AttemptsBounded /\ [][AttemptsRunOut]_vars
<1>1. IInv /\ IInv' /\ [Next]_vars => AttemptsRunOut
  <2> SUFFICES ASSUME IInv, IInv', [Next]_vars, NEW a \in Batch
               PROVE  /\ AttemptsLeft(a)' <= AttemptsLeft(a)
                      /\ \A o \in TryOutcomes :
                           Tried(a, o) /\ Counts(o) => AttemptsLeft(a)' < AttemptsLeft(a)
    BY DEF AttemptsRunOut
  <2>1. CASE \E o \in TryOutcomes : Tried(a, o)
    BY <2>1, TriedRunsOut
  <2>2. CASE ~\E o \in TryOutcomes : Tried(a, o)
    <3>1. AttemptsLeft(a)' = AttemptsLeft(a) /\ AttemptsLeft(a) \in 0 .. 9
      BY <2>2, OthersKeepAttempts, AttemptsLeftType DEF AttemptsBounded
    <3> QED BY <2>2, <3>1
  <2> QED BY <2>1, <2>2
<1> QED BY <1>1, AttemptsLeftType, Invariance, PTL DEF Spec
=============================================================================
