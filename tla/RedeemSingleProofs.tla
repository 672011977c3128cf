------------------------- MODULE RedeemSingleProofs -------------------------
(***************************************************************************)
(* Proofs about RedeemSingle for any number of flows: behind the gate a    *)
(* code is redeemed for the right account, and at most three times; every  *)
(* flow can end; and no try follows the third.                             *)
(***************************************************************************)
EXTENDS RedeemSingle, TLAPS

USE FlowsAssumption

-----------------------------------------------------------------------------
(* The inductive invariant.                                                *)

\* Whoever is underway behind the gate has filled it.
GateInv == \A f \in Gated : Underway(f) => gate = f

LoggedIn(f) == pc[f] \in {"captcha", "ocr", "redeem", "relogin"}

\* Until somebody goes around the gate, fid is the account of the flow that
\* has passed its first log-in; a log-in that is refused leaves it alone.
OwnInv ==
  (\A d \in Direct : pc[d] = "start") => \A f \in Gated : LoggedIn(f) => fid = f

\* The code has been sent at most once in each attempt, and not yet in an
\* attempt that has not come that far.
CountInv ==
  \A f \in Gated :
    /\ redeemed[f] <= attempt[f]
    /\ pc[f] \in {"start", "login", "captcha", "ocr", "redeem"} => redeemed[f] < attempt[f]

IInv == TypeOK /\ GateInv /\ OwnInv /\ CountInv

-----------------------------------------------------------------------------
(* What the steps of a gated flow have in common.                          *)

Places   == {"start", "login", "captcha", "ocr", "redeem", "relogin", "done"}
Targets  == Places \ {"start", "login"}
GiveUps  == [Flows -> SUBSET {"refused", "exception"}]

\* Flow f goes on to w in its n-th attempt, and opens the gate if it returns.
Moved(f, w, n) ==
  /\ pc' = [pc EXCEPT ![f] = w]
  /\ gate' = IF w = "done" THEN Nobody ELSE gate
  /\ attempt' = [attempt EXCEPT ![f] = n]
  /\ giveUp' \in GiveUps
  /\ oncemore' \in [Flows -> BOOLEAN]

\* Flow f gets no further in its attempt: it returns, logs in anew or goes
\* back for a new captcha, and only that starts another attempt.
Leaves(f) ==
  \/ \E w \in {"relogin", "done"} : Moved(f, w, attempt[f])
  \/ attempt[f] + 1 \in 1 .. MaxRetries /\ Moved(f, "captcha", attempt[f] + 1)

\* The variables of a flow, by the type invariant.
LEMMA FlowTypes ==
  ASSUME TypeOK, NEW f \in Flows
  PROVE  /\ pc[f] \in Places
         /\ attempt[f] \in 1 .. 3
         /\ redeemed[f] \in 0 .. 4
         /\ attempt = [attempt EXCEPT ![f] = attempt[f]]
BY DEF TypeOK, Places, MaxRetries

\* The ways a step can end are all of this form, or go on.
LEMMA ReturnLeaves ==
  ASSUME TypeOK, NEW f \in Gated, Return(f)
  PROVE  Leaves(f)
<1>1. Moved(f, "done", attempt[f])
  BY FlowTypes DEF Return, Goto, ReleaseGate, Moved, TypeOK, GiveUps, Flows
<1> QED BY <1>1 DEF Leaves

\* The next attempt, or the end of the last one.
LEMMA NextAttemptLeaves ==
  ASSUME TypeOK, NEW f \in Gated, NextAttempt(f)
  PROVE  Leaves(f)
<1>1. CASE LastAttempt(f) /\ Return(f)
  BY <1>1, ReturnLeaves
<1>2. CASE /\ ~LastAttempt(f)
           /\ attempt' = [attempt EXCEPT ![f] = @ + 1]
           /\ Goto(f, "captcha")
           /\ UNCHANGED <<gate, giveUp, oncemore>>
  <2>1. attempt[f] + 1 \in 1 .. MaxRetries
    BY <1>2, FlowTypes DEF LastAttempt, MaxRetries, Flows
  <2>2. Moved(f, "captcha", attempt[f] + 1)
    BY <1>2 DEF Goto, Moved, TypeOK, GiveUps
  <2> QED BY <2>1, <2>2 DEF Leaves
<1> QED BY <1>1, <1>2 DEF NextAttempt

\* Cooling down and logging in anew.
LEMMA ReloginLeaves ==
  ASSUME TypeOK, NEW f \in Gated, NEW S \in SUBSET {"refused", "exception"}, NEW b \in BOOLEAN,
         Relogin(f, S, b)
  PROVE  Leaves(f)
<1>1. giveUp' \in GiveUps /\ oncemore' \in [Flows -> BOOLEAN]
  BY DEF Relogin, TypeOK, GiveUps
<1>2. Moved(f, "relogin", attempt[f])
  BY <1>1, FlowTypes DEF Relogin, Goto, Moved, Flows
<1> QED BY <1>2 DEF Leaves

\* The next step of the same attempt.
LEMMA ProceedMoves ==
  ASSUME TypeOK, NEW f \in Gated, NEW w \in {"captcha", "ocr", "redeem"}, Proceed(f, w)
  PROVE  Moved(f, w, attempt[f])
BY FlowTypes DEF Proceed, Goto, Moved, TypeOK, GiveUps, Flows

\* So every branch after a captcha, a redemption or a log-in is of this form.
LEMMA AfterCaptchaLeaves ==
  ASSUME TypeOK, NEW f \in Gated, NEW answer \in Answers, AfterCaptcha(f, answer)
  PROVE  Leaves(f) \/ Proceed(f, "ocr")
<1>1. LastAttempt(f) \in BOOLEAN
  BY DEF LastAttempt
<1> QED BY <1>1, ReturnLeaves, NextAttemptLeaves, ReloginLeaves DEF AfterCaptcha, AnyFailure

\* No answer to a redemption goes on in the same attempt.
LEMMA AfterRedemptionLeaves ==
  ASSUME TypeOK, NEW f \in Gated, NEW answer \in Answers, AfterRedemption(f, answer)
  PROVE  Leaves(f)
BY ReturnLeaves, NextAttemptLeaves, ReloginLeaves DEF AfterRedemption, AnyFailure

-----------------------------------------------------------------------------
(* The steps preserve the invariant.                                       *)

\* Nobody is underway yet.
LEMMA InvInit == Init => IInv
<1> SUFFICES ASSUME Init PROVE IInv
  OBVIOUS
<1>1. TypeOK
  BY DEF Init, TypeOK, MaxRetries
<1>2. \A f \in Flows : pc[f] = "start" /\ redeemed[f] = 0 /\ attempt[f] = 1
  BY DEF Init
<1> QED BY <1>1, <1>2 DEF IInv, GateInv, OwnInv, CountInv, Underway, LoggedIn, Flows

\* A step of a gated flow f that is underway to place w preserves the
\* invariant if it changes fid only to f and sends the code at most once.
LEMMA MovedPreserves ==
  ASSUME IInv, NEW f \in Gated, Underway(f), NEW w \in Targets, NEW n \in 1 .. MaxRetries,
         Moved(f, w, n),
         n >= attempt[f],
         fid' \in {fid, f}, ((pc[f] = "login" /\ w # "done") => fid' = f),
         NEW r \in 0 .. MaxRetries, redeemed' = [redeemed EXCEPT ![f] = r],
         r <= n, (w \in {"captcha", "ocr", "redeem"} => r < n)
  PROVE  IInv'
<1>1. /\ pc' = [pc EXCEPT ![f] = w]
      /\ attempt' = [attempt EXCEPT ![f] = n]
      /\ giveUp' \in GiveUps /\ oncemore' \in [Flows -> BOOLEAN]
      /\ f \in Flows /\ f \notin Direct /\ f # Nobody
  BY DEF Moved, Flows
<1>2. gate = f /\ gate' = IF w = "done" THEN Nobody ELSE f
  BY DEF IInv, GateInv, Moved
<1>3. /\ pc' \in [Flows -> Places]
      /\ attempt' \in [Flows -> 1 .. MaxRetries]
      /\ redeemed' \in [Flows -> 0 .. MaxRetries + 1]
      /\ fid' \in Flows \cup {Nobody}
  BY <1>1 DEF IInv, TypeOK, Places, Targets, MaxRetries
<1>4. TypeOK'
  BY <1>1, <1>2, <1>3 DEF TypeOK, Places, GiveUps
<1>5. \A g \in Flows \ {f} : /\ pc'[g] = pc[g]
                             /\ attempt'[g] = attempt[g]
                             /\ redeemed'[g] = redeemed[g]
  BY <1>1 DEF IInv, TypeOK
<1>6. pc'[f] = w /\ attempt'[f] = n /\ redeemed'[f] = r
  BY <1>1 DEF IInv, TypeOK
<1>7. \A g \in Gated \ {f} : ~Underway(g)
  BY <1>2 DEF IInv, GateInv
<1>8. GateInv'
  BY <1>2, <1>5, <1>6, <1>7 DEF GateInv, Underway, Flows
<1>9. OwnInv'
  <2>1. SUFFICES ASSUME \A d \in Direct : pc'[d] = "start", NEW g \in Gated, LoggedIn(g)'
                 PROVE  fid' = g
    BY DEF OwnInv
  <2>2. g = f
    BY <1>5, <1>7, <2>1 DEF LoggedIn, Underway, Flows
  <2>3. \A d \in Direct : pc[d] = "start"
    BY <1>1, <1>5, <2>1 DEF Flows
  <2>4. CASE pc[f] = "login"
    BY <1>6, <2>1, <2>2, <2>4 DEF LoggedIn
  <2>5. CASE pc[f] # "login"
    <3>1. LoggedIn(f)
      BY <1>1, <2>5, FlowTypes DEF IInv, LoggedIn, Underway, Places
    <3> QED BY <2>2, <2>3, <3>1 DEF IInv, OwnInv
  <2> QED BY <2>4, <2>5
<1>10. CountInv'
  <2>1. ASSUME NEW g \in Gated \ {f}
        PROVE  /\ redeemed'[g] <= attempt'[g]
               /\ pc'[g] \in {"start", "login", "captcha", "ocr", "redeem"} => redeemed'[g] < attempt'[g]
    BY <1>5 DEF IInv, CountInv, Flows
  <2>2. /\ redeemed'[f] <= attempt'[f]
        /\ pc'[f] \in {"start", "login", "captcha", "ocr", "redeem"} => redeemed'[f] < attempt'[f]
    BY <1>6 DEF Targets
  <2> QED BY <2>1, <2>2 DEF CountInv
<1> QED BY <1>4, <1>8, <1>9, <1>10 DEF IInv

\* A flow that is logged in and leaves its attempt preserves the invariant.
LEMMA LeavesPreserves ==
  ASSUME IInv, NEW f \in Gated, Leaves(f), LoggedIn(f), fid' \in {fid, f},
         NEW r \in 0 .. MaxRetries, redeemed' = [redeemed EXCEPT ![f] = r], r <= attempt[f]
  PROVE  IInv'
<1>1. /\ attempt[f] \in 1 .. MaxRetries /\ attempt[f] >= attempt[f]
      /\ Underway(f) /\ pc[f] # "login"
  BY FlowTypes DEF IInv, Flows, Underway, LoggedIn, MaxRetries
<1>2. ASSUME NEW w \in {"relogin", "done"}, Moved(f, w, attempt[f])
      PROVE  IInv'
  <2>1. w \in Targets /\ w \notin {"captcha", "ocr", "redeem"}
    BY DEF Targets, Places
  <2> QED BY <1>1, <1>2, <2>1, MovedPreserves
<1>3. ASSUME attempt[f] + 1 \in 1 .. MaxRetries, Moved(f, "captcha", attempt[f] + 1)
      PROVE  IInv'
  <2>1. /\ "captcha" \in Targets
        /\ r < attempt[f] + 1 /\ r <= attempt[f] + 1
        /\ attempt[f] + 1 >= attempt[f]
    BY <1>1 DEF Targets, Places, MaxRetries
  <2> QED BY <1>1, <1>3, <2>1, MovedPreserves
<1> QED BY <1>2, <1>3 DEF Leaves

\* Nothing sent, nothing changed in the history.
LEMMA NotSent ==
  ASSUME IInv, NEW f \in Gated, UNCHANGED redeemed, Underway(f)
  PROVE  /\ redeemed[f] \in 0 .. MaxRetries
         /\ redeemed' = [redeemed EXCEPT ![f] = redeemed[f]]
         /\ redeemed[f] <= attempt[f]
         /\ pc[f] \in {"login", "captcha", "ocr", "redeem"} => redeemed[f] < attempt[f]
         /\ attempt[f] \in 1 .. MaxRetries
<1>1. redeemed[f] <= attempt[f] /\ attempt[f] \in 1 .. MaxRetries /\ redeemed[f] \in 0 .. 4
  BY FlowTypes DEF IInv, CountInv, Flows, MaxRetries
<1>2. pc[f] \in {"login", "captcha", "ocr", "redeem"} => redeemed[f] < attempt[f]
  BY DEF IInv, CountInv
<1>3. redeemed' = [redeemed EXCEPT ![f] = redeemed[f]]
  BY DEF IInv, TypeOK, Flows
<1>4. redeemed[f] \in 0 .. MaxRetries
  BY <1>1 DEF MaxRetries
<1> QED BY <1>1, <1>2, <1>3, <1>4

\* A flow that goes on to the next step of its attempt preserves it too.
LEMMA ProceedPreserves ==
  ASSUME IInv, NEW f \in Gated, NEW w \in {"captcha", "ocr", "redeem"}, Proceed(f, w),
         pc[f] \in {"login", "captcha", "ocr"},
         UNCHANGED redeemed, fid' \in {fid, f}, (pc[f] = "login" => fid' = f)
  PROVE  IInv'
<1>1. Moved(f, w, attempt[f]) /\ w \in Targets /\ Underway(f)
  BY ProceedMoves DEF IInv, Targets, Places, Underway
<1>2. /\ redeemed[f] \in 0 .. MaxRetries
      /\ redeemed' = [redeemed EXCEPT ![f] = redeemed[f]]
      /\ redeemed[f] < attempt[f] /\ redeemed[f] <= attempt[f]
      /\ attempt[f] \in 1 .. MaxRetries /\ attempt[f] >= attempt[f]
  BY <1>1, NotSent DEF MaxRetries
<1> QED BY <1>1, <1>2, MovedPreserves

-----------------------------------------------------------------------------
(* One lemma for each action.                                              *)

\* Whoever passes the gate has found it open: nobody else is underway.
LEMMA AcquireInv ==
  ASSUME IInv, NEW f \in Gated, AcquireAccountGate(f)
  PROVE  IInv'
<1>1. /\ pc[f] = "start" /\ gate = Nobody /\ gate' = f
      /\ pc' = [pc EXCEPT ![f] = "login"]
      /\ UNCHANGED <<fid, attempt, giveUp, oncemore, redeemed>>
      /\ f \in Flows /\ f \notin Direct
  BY DEF AcquireAccountGate, GateOpen, Goto, Flows
<1>2. TypeOK'
  BY <1>1 DEF IInv, TypeOK
<1>3. pc'[f] = "login" /\ \A g \in Flows \ {f} : pc'[g] = pc[g]
  BY <1>1 DEF IInv, TypeOK
<1>4. \A g \in Gated : ~Underway(g)
  BY <1>1 DEF IInv, GateInv, Flows
<1>5. GateInv'
  BY <1>1, <1>3, <1>4 DEF GateInv, Underway, Flows
<1>6. \A g \in Gated : ~LoggedIn(g)'
  BY <1>3, <1>4 DEF LoggedIn, Underway, Flows
<1>7. OwnInv'
  BY <1>6 DEF OwnInv
<1>8. CountInv'
  BY <1>1, <1>3 DEF IInv, CountInv, Flows
<1> QED BY <1>2, <1>5, <1>7, <1>8 DEF IInv

\* The first log-in makes the account that of the client, or the flow ends.
LEMMA LoginInv ==
  ASSUME IInv, NEW f \in Gated, Login(f)
  PROVE  IInv'
<1>1. pc[f] = "login" /\ UNCHANGED redeemed /\ Underway(f)
  BY DEF Login, Underway
<1>2. CASE fid' = f /\ Proceed(f, "captcha")
  BY <1>1, <1>2, ProceedPreserves
<1>3. CASE UNCHANGED fid /\ Return(f)
  <2>1. Moved(f, "done", attempt[f])
    BY <1>3, FlowTypes DEF Return, Goto, ReleaseGate, Moved, IInv, TypeOK, GiveUps, Flows
  <2>2. /\ redeemed[f] \in 0 .. MaxRetries
        /\ redeemed' = [redeemed EXCEPT ![f] = redeemed[f]]
        /\ redeemed[f] <= attempt[f]
        /\ attempt[f] \in 1 .. MaxRetries /\ attempt[f] >= attempt[f]
    BY <1>1, NotSent DEF MaxRetries
  <2>3. "done" \in Targets
    BY DEF Targets, Places
  <2> QED BY <1>1, <1>3, <2>1, <2>2, <2>3, MovedPreserves
<1> QED BY <1>2, <1>3 DEF Login

\* A captcha is fetched.
LEMMA GetCaptchaInv ==
  ASSUME IInv, NEW f \in Gated, GetCaptcha(f)
  PROVE  IInv'
<1>1. pc[f] = "captcha" /\ UNCHANGED <<fid, redeemed>> /\ Underway(f) /\ LoggedIn(f)
  BY DEF GetCaptcha, Underway, LoggedIn
<1>2. CASE Leaves(f)
  BY <1>1, <1>2, NotSent, LeavesPreserves
<1>3. CASE Proceed(f, "ocr")
  BY <1>1, <1>3, ProceedPreserves
<1> QED BY <1>2, <1>3, AfterCaptchaLeaves DEF GetCaptcha, IInv

\* A captcha is recognised or not.
LEMMA RecognizeCaptchaInv ==
  ASSUME IInv, NEW f \in Gated, RecognizeCaptcha(f)
  PROVE  IInv'
<1>1. pc[f] = "ocr" /\ UNCHANGED <<fid, redeemed>> /\ Underway(f) /\ LoggedIn(f)
  BY DEF RecognizeCaptcha, Underway, LoggedIn
<1>2. CASE Leaves(f)
  BY <1>1, <1>2, NotSent, LeavesPreserves
<1>3. CASE Proceed(f, "redeem")
  BY <1>1, <1>3, ProceedPreserves
<1>4. Leaves(f) \/ Proceed(f, "redeem")
  BY NextAttemptLeaves, ReloginLeaves DEF RecognizeCaptcha, IInv, AnyFailure
<1> QED BY <1>2, <1>3, <1>4

\* Sending the code uses up the attempt.
LEMMA RedeemCodeInv ==
  ASSUME IInv, NEW f \in Gated, RedeemCode(f)
  PROVE  IInv'
<1>1. pc[f] = "redeem" /\ UNCHANGED fid /\ LoggedIn(f)
  BY DEF RedeemCode, LoggedIn
<1>2. Leaves(f)
  BY AfterRedemptionLeaves DEF RedeemCode, IInv
<1>3. attempt[f] \in 1 .. MaxRetries /\ redeemed[f] \in 0 .. 4 /\ redeemed[f] < attempt[f]
  BY <1>1, FlowTypes DEF IInv, CountInv, Flows, MaxRetries
<1>4. redeemed' = [redeemed EXCEPT ![f] = redeemed[f] + 1]
  <2>1. redeemed[f] <= MaxRetries
    BY <1>3 DEF MaxRetries
  <2>2. redeemed' = [redeemed EXCEPT ![f] = IF redeemed[f] <= MaxRetries THEN redeemed[f] + 1
                                                                        ELSE redeemed[f]]
    BY DEF RedeemCode, CountRedemption
  <2> QED BY <2>1, <2>2
<1>5. redeemed[f] + 1 \in 0 .. MaxRetries /\ redeemed[f] + 1 <= attempt[f]
  BY <1>3 DEF MaxRetries
<1> QED BY <1>1, <1>2, <1>4, <1>5, LeavesPreserves

\* A new log-in is for the same account, and the next attempt follows.
LEMMA LogInAnewInv ==
  ASSUME IInv, NEW f \in Gated, LogInAnew(f)
  PROVE  IInv'
<1>1. pc[f] = "relogin" /\ fid' \in {fid, f} /\ UNCHANGED redeemed /\ Underway(f) /\ LoggedIn(f)
  BY DEF LogInAnew, Underway, LoggedIn
<1>2. Leaves(f)
  BY ReturnLeaves, NextAttemptLeaves, ReloginLeaves DEF LogInAnew, IInv, AnyFailure
<1> QED BY <1>1, <1>2, NotSent, LeavesPreserves

\* A flow without the gate leaves the gate and the others alone.
LEMMA DirectInv ==
  ASSUME IInv, NEW d \in Direct, DirectStep(d)
  PROVE  IInv'
<1>1. /\ UNCHANGED <<gate, attempt, giveUp, oncemore>>
      /\ fid' \in {fid, d} /\ d \in Flows /\ d \notin Gated
  BY DEF DirectStep, DirectLogin, DirectRedeem, RenewSession, Flows
<1>2. PICK w \in {"redeem", "relogin", "done"} : pc' = [pc EXCEPT ![d] = w]
  BY DEF DirectStep, DirectLogin, DirectRedeem, RenewSession, Goto
<1>3. PICK r \in 0 .. MaxRetries + 1 : redeemed' = [redeemed EXCEPT ![d] = r]
  <2>1. CASE UNCHANGED redeemed
    BY <1>1, <2>1, FlowTypes DEF IInv, TypeOK, MaxRetries
  <2>2. CASE CountRedemption(d)
    <3> DEFINE r == IF redeemed[d] <= MaxRetries THEN redeemed[d] + 1 ELSE redeemed[d]
    <3>1. r \in 0 .. MaxRetries + 1
      BY <1>1, FlowTypes DEF IInv, MaxRetries
    <3>2. redeemed' = [redeemed EXCEPT ![d] = r]
      BY <2>2 DEF CountRedemption
    <3> QED BY <3>1, <3>2
  <2> QED BY <2>1, <2>2 DEF DirectStep, DirectLogin, DirectRedeem, RenewSession
<1>4. TypeOK'
  BY <1>1, <1>2, <1>3 DEF IInv, TypeOK, Flows
<1>5. pc'[d] # "start" /\ \A g \in Gated : pc'[g] = pc[g] /\ redeemed'[g] = redeemed[g]
  BY <1>1, <1>2, <1>3 DEF IInv, TypeOK, Flows
<1>6. GateInv' /\ OwnInv' /\ CountInv'
  BY <1>1, <1>5 DEF IInv, GateInv, OwnInv, CountInv, Underway
<1> QED BY <1>4, <1>6 DEF IInv

\* Every step preserves the invariant.
LEMMA InvNext == IInv /\ [Next]_vars => IInv'
<1> SUFFICES ASSUME IInv, [Next]_vars PROVE IInv'
  OBVIOUS
<1>1. ASSUME NEW f \in Gated, GatedStep(f)
      PROVE  IInv'
  BY <1>1, AcquireInv, LoginInv, GetCaptchaInv, RecognizeCaptchaInv, RedeemCodeInv, LogInAnewInv
  DEF GatedStep
<1>2. ASSUME NEW d \in Direct, DirectStep(d)
      PROVE  IInv'
  BY <1>2, DirectInv
<1>3. CASE UNCHANGED vars
  BY <1>3 DEF vars, IInv, TypeOK, GateInv, OwnInv, CountInv, Underway, LoggedIn
<1> QED BY <1>1, <1>2, <1>3 DEF Next, Done

\* It holds in every state of every behaviour.
LEMMA Inductive == Spec => []IInv
BY InvInit, InvNext, PTL DEF Spec

-----------------------------------------------------------------------------
(* The theorems.                                                           *)

\* Every variable of the flows keeps its type.
THEOREM FlowsTypeCorrect == Spec => []TypeOK
<1>1. IInv => TypeOK
  BY DEF IInv
<1> QED BY <1>1, Inductive, PTL

\* RedeemSingle sends the code at most three times, on every path through its
\* attempts and whatever other flows do to the client meanwhile.
THEOREM ThreeRedemptionsAtMost == Spec => []RedeemedThreeTimes
<1>1. IInv => RedeemedThreeTimes
  <2> SUFFICES ASSUME IInv, NEW f \in Gated PROVE redeemed[f] <= MaxRetries
    BY DEF RedeemedThreeTimes
  <2>1. redeemed[f] <= attempt[f] /\ attempt[f] \in 1 .. 3 /\ redeemed[f] \in 0 .. 4
    BY FlowTypes DEF IInv, CountInv, Flows
  <2> QED BY <2>1 DEF MaxRetries
<1> QED BY <1>1, Inductive, PTL

\* The gate keeps the account of the shared client: as long as no flow goes
\* around it, RedeemSingle redeems for the account it was called for.
THEOREM GateKeepsAccount == Spec => RedeemsForItself
<1>1. IInv /\ [Next]_vars =>
        [(\A d \in Direct : pc[d] = "start") => \A f \in Gated : RedeemCode(f) => fid = f]_vars
  BY DEF IInv, OwnInv, LoggedIn, RedeemCode
<1> QED BY <1>1, Inductive, PTL DEF Spec, RedeemsForItself

-----------------------------------------------------------------------------
(* Nobody waits at the gate for ever.                                      *)

\* Whoever has filled the gate is underway behind it: every return, early or
\* late, has emptied it.
HolderInv == \A f \in Gated : gate = f => Underway(f)

\* A direct flow only renews its session after it has sent the code.
RenewInv == \A d \in Direct : pc[d] = "relogin" => redeemed[d] # 0

\* What a step of a gated flow makes of the gate: it passes it, or goes on
\* behind it, or returns and opens it.
GatedMove(f) ==
  \E w \in Places \ {"start"} :
    /\ pc' = [pc EXCEPT ![f] = w]
    /\ \/ w # "done" /\ gate' = f
       \/ w = "done" /\ gate' = Nobody

\* Every step of a gated flow is of that form.
LEMMA GatedStepMoves ==
  ASSUME IInv, NEW f \in Gated, GatedStep(f)
  PROVE  GatedMove(f)
<1>1. TypeOK
  BY DEF IInv
<1>2. CASE AcquireAccountGate(f)
  <2>1. "login" \in Places \ {"start"} /\ "login" # "done"
    BY DEF Places
  <2>2. pc' = [pc EXCEPT ![f] = "login"] /\ gate' = f
    BY <1>2 DEF AcquireAccountGate, Goto
  <2> QED BY <2>1, <2>2 DEF GatedMove
<1>3. ASSUME Underway(f), NEW w \in Targets, NEW n \in Nat, Moved(f, w, n)
      PROVE  GatedMove(f)
  BY <1>3 DEF Moved, GatedMove, Targets, Places, IInv, GateInv
<1>4. ASSUME Underway(f), Leaves(f)
      PROVE  GatedMove(f)
  <2>1. attempt[f] \in Nat /\ attempt[f] + 1 \in Nat
    BY <1>1, FlowTypes DEF Flows
  <2>2. "captcha" \in Targets /\ "relogin" \in Targets /\ "done" \in Targets
    BY DEF Targets, Places
  <2> QED BY <1>3, <1>4, <2>1, <2>2 DEF Leaves
<1>5. ASSUME Underway(f), NEW w \in {"captcha", "ocr", "redeem"}, Proceed(f, w)
      PROVE  GatedMove(f)
  <2>1. attempt[f] \in Nat /\ w \in Targets
    BY <1>1, FlowTypes DEF Flows, Targets, Places
  <2> QED BY <1>1, <1>3, <1>5, <2>1, ProceedMoves
<1>6. CASE Login(f)
  <2>1. Underway(f)
    BY <1>6 DEF Login, Underway
  <2> QED BY <1>1, <1>4, <1>5, <1>6, <2>1, ReturnLeaves DEF Login
<1>7. CASE GetCaptcha(f)
  <2>1. Underway(f)
    BY <1>7 DEF GetCaptcha, Underway
  <2> QED BY <1>1, <1>4, <1>5, <1>7, <2>1, AfterCaptchaLeaves DEF GetCaptcha
<1>8. CASE RecognizeCaptcha(f)
  <2>1. Underway(f)
    BY <1>8 DEF RecognizeCaptcha, Underway
  <2>2. Leaves(f) \/ Proceed(f, "redeem")
    BY <1>1, <1>8, NextAttemptLeaves, ReloginLeaves DEF RecognizeCaptcha, AnyFailure
  <2> QED BY <1>4, <1>5, <2>1, <2>2
<1>9. CASE RedeemCode(f)
  <2>1. Underway(f)
    BY <1>9 DEF RedeemCode, Underway
  <2> QED BY <1>1, <1>4, <1>9, <2>1, AfterRedemptionLeaves DEF RedeemCode
<1>10. CASE LogInAnew(f)
  <2>1. Underway(f)
    BY <1>10 DEF LogInAnew, Underway
  <2>2. Leaves(f)
    BY <1>1, <1>10, ReturnLeaves, NextAttemptLeaves, ReloginLeaves DEF LogInAnew, AnyFailure
  <2> QED BY <1>4, <2>1, <2>2
<1> QED BY <1>2, <1>6, <1>7, <1>8, <1>9, <1>10 DEF GatedStep

\* The gate is only ever filled by a flow that is underway.
LEMMA HolderNext == IInv /\ HolderInv /\ [Next]_vars => HolderInv'
<1> SUFFICES ASSUME IInv, HolderInv, [Next]_vars PROVE HolderInv'
  OBVIOUS
<1>1. \A f \in Gated : f # Nobody
  BY DEF Flows
<1>2. ASSUME NEW f \in Gated, GatedStep(f)
      PROVE  HolderInv'
  <2>1. PICK w \in Places \ {"start"} :
          /\ pc' = [pc EXCEPT ![f] = w]
          /\ (w # "done" /\ gate' = f) \/ (w = "done" /\ gate' = Nobody)
    BY <1>2, GatedStepMoves DEF GatedMove
  <2>2. pc'[f] = w
    BY <2>1 DEF IInv, TypeOK, Flows
  <2> QED BY <1>1, <2>1, <2>2 DEF HolderInv, Underway
<1>3. ASSUME NEW d \in Direct, DirectStep(d)
      PROVE  HolderInv'
  <2>1. gate' = gate /\ \E w \in Places : pc' = [pc EXCEPT ![d] = w]
    BY <1>3 DEF DirectStep, DirectLogin, DirectRedeem, RenewSession, Goto, Places
  <2>2. \A f \in Gated : pc'[f] = pc[f]
    BY <2>1 DEF IInv, TypeOK, Flows
  <2> QED BY <2>1, <2>2 DEF HolderInv, Underway
<1>4. CASE UNCHANGED vars
  BY <1>4 DEF vars, HolderInv, Underway
<1> QED BY <1>2, <1>3, <1>4 DEF Next, Done

\* A direct flow comes to renew its session only from a redemption.
LEMMA RenewNext == IInv /\ RenewInv /\ [Next]_vars => RenewInv'
<1> SUFFICES ASSUME IInv, RenewInv, [Next]_vars, NEW d \in Direct, pc'[d] = "relogin"
             PROVE  redeemed'[d] # 0
  BY DEF RenewInv
<1>1. d \in Flows /\ d \notin Gated /\ redeemed[d] \in 0 .. 4
  BY FlowTypes DEF Flows, IInv
<1>2. ASSUME NEW f \in Gated, GatedStep(f)
      PROVE  redeemed'[d] # 0
  <2>1. \E w \in Places : pc' = [pc EXCEPT ![f] = w]
    BY <1>2, GatedStepMoves DEF GatedMove
  <2>2. redeemed' = redeemed \/ CountRedemption(f)
    BY <1>2 DEF GatedStep, AcquireAccountGate, Login, GetCaptcha, RecognizeCaptcha, RedeemCode, LogInAnew
  <2>3. pc'[d] = pc[d] /\ redeemed'[d] = redeemed[d]
    BY <1>1, <2>1, <2>2 DEF IInv, TypeOK, CountRedemption
  <2> QED BY <2>3 DEF RenewInv
<1>3. ASSUME NEW e \in Direct, DirectStep(e)
      PROVE  redeemed'[d] # 0
  <2>1. e \in Flows
    BY DEF Flows
  <2>2. CASE DirectRedeem(e) /\ e = d
    <3>1. redeemed'[d] = IF redeemed[d] <= MaxRetries THEN redeemed[d] + 1 ELSE redeemed[d]
      BY <1>1, <2>2 DEF DirectRedeem, CountRedemption, IInv, TypeOK
    <3> QED BY <1>1, <3>1 DEF MaxRetries
  <2>3. CASE e # d
    <3>1. \E w \in Places : pc' = [pc EXCEPT ![e] = w]
      BY <1>3 DEF DirectStep, DirectLogin, DirectRedeem, RenewSession, Goto, Places
    <3>2. redeemed' = redeemed \/ CountRedemption(e)
      BY <1>3 DEF DirectStep, DirectLogin, DirectRedeem, RenewSession
    <3>3. pc'[d] = pc[d] /\ redeemed'[d] = redeemed[d]
      BY <1>1, <2>1, <2>3, <3>1, <3>2 DEF IInv, TypeOK, CountRedemption
    <3> QED BY <3>3 DEF RenewInv
  <2>4. CASE e = d /\ (DirectLogin(d) \/ RenewSession(d))
    <3>1. \E w \in {"redeem", "done"} : pc' = [pc EXCEPT ![d] = w]
      BY <2>4 DEF DirectLogin, RenewSession, Goto
    <3>2. pc'[d] # "relogin"
      BY <1>1, <3>1 DEF IInv, TypeOK
    <3> QED BY <3>2
  <2> QED BY <1>3, <2>2, <2>3, <2>4 DEF DirectStep
<1>4. CASE UNCHANGED vars
  BY <1>4 DEF vars, RenewInv
<1> QED BY <1>2, <1>3, <1>4 DEF Next, Done

\* Both hold in every state of every behaviour.
LEMMA InductiveToo == Spec => [](IInv /\ HolderInv /\ RenewInv)
<1>1. Init => HolderInv /\ RenewInv
  BY DEF Init, HolderInv, RenewInv, Flows
<1> QED BY <1>1, InvInit, InvNext, HolderNext, RenewNext, PTL DEF Spec

\* A flow can go on unless it has ended or waits at the gate.
CanGoOn(f) == pc[f] # "done" /\ (f \in Gated /\ pc[f] = "start" => GateOpen)

SomeFlowGoesOn == (\E f \in Flows : pc[f] # "done") => \E f \in Flows : CanGoOn(f)

\* As long as a call of RedeemSingle, a batch or a log-in is not over, one of
\* them can go on: those that wait at the gate wait for a flow that is
\* underway behind it, which waits for nobody.
THEOREM GateNeverBlocks == Spec => []SomeFlowGoesOn
<1>1. IInv /\ HolderInv => SomeFlowGoesOn
  <2> SUFFICES ASSUME IInv, HolderInv, NEW f \in Flows, pc[f] # "done"
               PROVE  \E g \in Flows : CanGoOn(g)
    BY DEF SomeFlowGoesOn
  <2>1. CASE CanGoOn(f)
    BY <2>1
  <2>2. CASE ~CanGoOn(f)
    <3>1. gate \in Gated
      BY <2>2 DEF CanGoOn, GateOpen, IInv, TypeOK
    <3>2. CanGoOn(gate)
      BY <3>1 DEF HolderInv, Underway, CanGoOn
    <3> QED BY <3>1, <3>2 DEF Flows
  <2> QED BY <2>1, <2>2
<1> QED BY <1>1, InductiveToo, PTL

-----------------------------------------------------------------------------
(* Every flow comes to its end.                                            *)

\* How far a gated flow is from the end of its attempt, where again says
\* whether a log-in that is refused is tried once more.
Stage(where, again) ==
  CASE where = "start"   -> 8
    [] where = "login"   -> 7
    [] where = "captcha" -> 6
    [] where = "ocr"     -> 5
    [] where = "redeem"  -> 4
    [] where = "relogin" -> IF again THEN 2 ELSE 1
    [] OTHER             -> 0

GatedLeft(where, n, again) == 8 * (MaxRetries - n) + Stage(where, again)

\* A direct flow logs in, sends the code, renews its session and sends the
\* code a second time.
DirectLeft(where, sent) ==
  CASE where = "start"                -> 4
    [] where = "redeem" /\ sent = 0   -> 3
    [] where = "relogin"              -> 2
    [] where = "redeem" /\ sent # 0   -> 1
    [] OTHER                          -> 0

\* A bound on the steps a flow can still take.
StepsLeft(f) ==
  IF f \in Gated THEN GatedLeft(pc[f], attempt[f], oncemore[f])
                 ELSE DirectLeft(pc[f], redeemed[f])

\* A step brings one flow nearer to its end and takes no other away from it.
Advance ==
  \E f \in Flows :
    /\ StepsLeft(f)' < StepsLeft(f)
    /\ \A g \in Flows \ {f} : StepsLeft(g)' = StepsLeft(g)

\* Eight places at most are left in an attempt.
LEMMA StageType ==
  ASSUME NEW w \in Places, NEW b \in BOOLEAN
  PROVE  Stage(w, b) \in 0 .. 8
BY DEF Stage, Places

\* The bound is a number, at most twenty-four.
LEMMA StepsLeftType == TypeOK => \A f \in Flows : StepsLeft(f) \in 0 .. 24
<1> SUFFICES ASSUME TypeOK, NEW f \in Flows PROVE StepsLeft(f) \in 0 .. 24
  OBVIOUS
<1>1. CASE f \in Gated
  <2>1. attempt[f] \in 1 .. 3 /\ pc[f] \in Places /\ oncemore[f] \in BOOLEAN
    BY FlowTypes DEF TypeOK
  <2>2. Stage(pc[f], oncemore[f]) \in 0 .. 8
    BY <2>1, StageType
  <2> QED BY <1>1, <2>1, <2>2 DEF StepsLeft, GatedLeft, MaxRetries
<1>2. CASE f \notin Gated
  BY <1>2 DEF StepsLeft, DirectLeft
<1> QED BY <1>1, <1>2

\* The gated flow f comes to place w in its n-th attempt, nearer to its end.
NearerAt(f, w, n, b) ==
  /\ pc' = [pc EXCEPT ![f] = w]
  /\ attempt' = [attempt EXCEPT ![f] = n]
  /\ oncemore' = [oncemore EXCEPT ![f] = b]
  /\ GatedLeft(w, n, b) < GatedLeft(pc[f], attempt[f], oncemore[f])

Nearer(f) == \E w \in Places, n \in 1 .. 3, b \in BOOLEAN : NearerAt(f, w, n, b)

\* A flow that returns is at its end.
LEMMA ReturnIsNearer ==
  ASSUME TypeOK, NEW f \in Gated, pc[f] # "done", Return(f)
  PROVE  Nearer(f)
<1>1. f \in Flows /\ pc[f] \in Places /\ attempt[f] \in 1 .. 3 /\ oncemore[f] \in BOOLEAN
  BY FlowTypes DEF TypeOK, Flows
<1>2. Stage("done", oncemore[f]) = 0 /\ Stage(pc[f], oncemore[f]) \in 1 .. 8
  BY <1>1 DEF Stage, Places
<1>3. GatedLeft("done", attempt[f], oncemore[f]) < GatedLeft(pc[f], attempt[f], oncemore[f])
  BY <1>1, <1>2 DEF GatedLeft, MaxRetries
<1>4. NearerAt(f, "done", attempt[f], oncemore[f])
  BY <1>1, <1>3 DEF Return, Goto, NearerAt, TypeOK
<1> QED BY <1>1, <1>4 DEF Nearer, Places

\* The next attempt starts with a captcha, after a log-in that has been done.
LEMMA NextAttemptIsNearer ==
  ASSUME TypeOK, NEW f \in Gated, pc[f] # "done", NextAttempt(f)
  PROVE  Nearer(f)
<1>1. f \in Flows /\ pc[f] \in Places /\ attempt[f] \in 1 .. 3 /\ oncemore[f] \in BOOLEAN
  BY FlowTypes DEF TypeOK, Flows
<1>2. CASE LastAttempt(f) /\ Return(f)
  BY <1>2, ReturnIsNearer
<1>3. CASE /\ ~LastAttempt(f)
           /\ attempt' = [attempt EXCEPT ![f] = @ + 1]
           /\ Goto(f, "captcha")
           /\ UNCHANGED <<gate, giveUp, oncemore>>
  <2>1. attempt[f] + 1 \in 1 .. 3
    BY <1>1, <1>3 DEF LastAttempt, MaxRetries
  <2>2. Stage("captcha", oncemore[f]) = 6 /\ Stage(pc[f], oncemore[f]) \in 0 .. 8
    BY <1>1, StageType DEF Stage
  <2>3. GatedLeft("captcha", attempt[f] + 1, oncemore[f]) < GatedLeft(pc[f], attempt[f], oncemore[f])
    BY <1>1, <2>1, <2>2 DEF GatedLeft, MaxRetries
  <2>4. NearerAt(f, "captcha", attempt[f] + 1, oncemore[f])
    BY <1>1, <1>3, <2>3 DEF Goto, NearerAt, TypeOK
  <2> QED BY <1>1, <2>1, <2>4 DEF Nearer, Places
<1> QED BY <1>2, <1>3 DEF NextAttempt

\* A new log-in comes after the redemption, and its repetition after it.
LEMMA ReloginIsNearer ==
  ASSUME TypeOK, NEW f \in Gated, NEW S, NEW b \in BOOLEAN, Relogin(f, S, b),
         \/ pc[f] \in {"captcha", "ocr", "redeem"}
         \/ pc[f] = "relogin" /\ oncemore[f] /\ ~b
  PROVE  Nearer(f)
<1>1. f \in Flows /\ pc[f] \in Places /\ attempt[f] \in 1 .. 3 /\ oncemore[f] \in BOOLEAN
  BY FlowTypes DEF TypeOK, Flows
<1>2. /\ Stage("relogin", b) \in 0 .. 8 /\ Stage(pc[f], oncemore[f]) \in 0 .. 8
      /\ Stage("relogin", b) < Stage(pc[f], oncemore[f])
  <2>1. CASE pc[f] \in {"captcha", "ocr", "redeem"}
    <3>1. Stage("relogin", b) \in 0 .. 2 /\ Stage(pc[f], oncemore[f]) \in 4 .. 6
      BY <2>1 DEF Stage
    <3> QED BY <3>1
  <2>2. CASE pc[f] = "relogin" /\ oncemore[f] /\ ~b
    BY <2>2 DEF Stage
  <2> QED BY <2>1, <2>2
<1>3. GatedLeft("relogin", attempt[f], b) < GatedLeft(pc[f], attempt[f], oncemore[f])
  BY <1>1, <1>2 DEF GatedLeft, MaxRetries
<1>4. NearerAt(f, "relogin", attempt[f], b)
  BY <1>1, <1>3 DEF Relogin, Goto, NearerAt, TypeOK
<1> QED BY <1>1, <1>4 DEF Nearer, Places

\* The steps of an attempt come in their order.
LEMMA ProceedIsNearer ==
  ASSUME TypeOK, NEW f \in Gated, NEW w \in Places, Proceed(f, w),
         <<pc[f], w>> \in {<<"login", "captcha">>, <<"captcha", "ocr">>, <<"ocr", "redeem">>}
  PROVE  Nearer(f)
<1>1. f \in Flows /\ pc[f] \in Places /\ attempt[f] \in 1 .. 3 /\ oncemore[f] \in BOOLEAN
  BY FlowTypes DEF TypeOK, Flows
<1>2. \/ pc[f] = "login" /\ w = "captcha"
      \/ pc[f] = "captcha" /\ w = "ocr"
      \/ pc[f] = "ocr" /\ w = "redeem"
  OBVIOUS
<1>3. Stage(pc[f], oncemore[f]) = Stage(w, oncemore[f]) + 1 /\ Stage(w, oncemore[f]) \in 0 .. 8
  BY <1>2 DEF Stage
<1>4. GatedLeft(w, attempt[f], oncemore[f]) < GatedLeft(pc[f], attempt[f], oncemore[f])
  BY <1>1, <1>3 DEF GatedLeft, MaxRetries
<1>5. NearerAt(f, w, attempt[f], oncemore[f])
  BY <1>1, <1>4 DEF Proceed, Goto, NearerAt, TypeOK
<1> QED BY <1>1, <1>5 DEF Nearer

\* So every step of a gated flow brings it nearer to its end.
LEMMA GatedStepIsNearer ==
  ASSUME TypeOK, NEW f \in Gated, GatedStep(f)
  PROVE  Nearer(f)
<1>1. f \in Flows /\ pc[f] \in Places /\ attempt[f] \in 1 .. 3 /\ oncemore[f] \in BOOLEAN
  BY FlowTypes DEF TypeOK, Flows
<1>2. LastAttempt(f) \in BOOLEAN /\ \A w \in {"login", "captcha", "ocr", "redeem"} : w \in Places
  BY DEF LastAttempt, Places
<1>3. CASE AcquireAccountGate(f)
  <2>1. pc[f] = "start" /\ Stage("login", oncemore[f]) = 7 /\ Stage(pc[f], oncemore[f]) = 8
    BY <1>3 DEF AcquireAccountGate, Stage
  <2>2. GatedLeft("login", attempt[f], oncemore[f]) < GatedLeft(pc[f], attempt[f], oncemore[f])
    BY <1>1, <2>1 DEF GatedLeft, MaxRetries
  <2>3. NearerAt(f, "login", attempt[f], oncemore[f])
    BY <1>1, <1>3, <2>2 DEF AcquireAccountGate, Goto, NearerAt, TypeOK
  <2> QED BY <1>1, <1>2, <2>3 DEF Nearer
<1>4. CASE Login(f)
  BY <1>2, <1>4, ReturnIsNearer, ProceedIsNearer DEF Login
<1>5. CASE GetCaptcha(f)
  <2>1. pc[f] = "captcha"
    BY <1>5 DEF GetCaptcha
  <2>2. PICK answer \in Answers : AfterCaptcha(f, answer)
    BY <1>5 DEF GetCaptcha
  <2>3. CASE Proceed(f, "ocr")
    BY <1>2, <2>1, <2>3, ProceedIsNearer
  <2>4. CASE Return(f) \/ NextAttempt(f)
    BY <2>1, <2>4, ReturnIsNearer, NextAttemptIsNearer
  <2>5. \A S : \A b \in BOOLEAN : Relogin(f, S, b) => Nearer(f)
    BY <2>1, ReloginIsNearer
  <2> QED BY <1>2, <2>2, <2>3, <2>4, <2>5 DEF AfterCaptcha
<1>6. CASE RecognizeCaptcha(f)
  BY <1>2, <1>6, ProceedIsNearer, ReloginIsNearer, NextAttemptIsNearer DEF RecognizeCaptcha
<1>7. CASE RedeemCode(f)
  BY <1>7, ReturnIsNearer, ReloginIsNearer, NextAttemptIsNearer DEF RedeemCode, AfterRedemption
<1>8. CASE LogInAnew(f)
  BY <1>8, ReturnIsNearer, ReloginIsNearer, NextAttemptIsNearer DEF LogInAnew
<1> QED BY <1>3, <1>4, <1>5, <1>6, <1>7, <1>8 DEF GatedStep

\* A flow is nearer and the others are where they were.
LEMMA NearerAdvances ==
  ASSUME IInv, NEW f \in Gated, GatedStep(f)
  PROVE  Advance
<1>1. TypeOK /\ f \in Flows
  BY DEF IInv, Flows
<1>2. PICK w \in Places, n \in 1 .. 3, b \in BOOLEAN : NearerAt(f, w, n, b)
  BY <1>1, GatedStepIsNearer DEF Nearer
<1>3. redeemed' = redeemed \/ CountRedemption(f)
  BY DEF GatedStep, AcquireAccountGate, Login, GetCaptcha, RecognizeCaptcha, RedeemCode, LogInAnew
<1>4. StepsLeft(f)' < StepsLeft(f)
  <2>1. pc'[f] = w /\ attempt'[f] = n /\ oncemore'[f] = b
    BY <1>1, <1>2 DEF NearerAt, TypeOK
  <2> QED BY <1>2, <2>1 DEF StepsLeft, NearerAt
<1>5. ASSUME NEW g \in Flows \ {f}
      PROVE  StepsLeft(g)' = StepsLeft(g)
  <2>1. /\ pc'[g] = pc[g] /\ attempt'[g] = attempt[g] /\ oncemore'[g] = oncemore[g]
    BY <1>1, <1>2 DEF NearerAt, TypeOK
  <2>2. redeemed'[g] = redeemed[g]
    BY <1>1, <1>3 DEF CountRedemption, TypeOK
  <2> QED BY <2>1, <2>2 DEF StepsLeft
<1> QED BY <1>1, <1>4, <1>5 DEF Advance

\* So does a step of a flow without the gate.
LEMMA DirectAdvances ==
  ASSUME IInv, RenewInv, NEW d \in Direct, DirectStep(d)
  PROVE  Advance
<1>1. TypeOK /\ d \in Flows /\ d \notin Gated /\ redeemed[d] \in 0 .. 4
  BY FlowTypes DEF IInv, Flows
<1>2. PICK w \in {"redeem", "relogin", "done"} : pc' = [pc EXCEPT ![d] = w]
  BY DEF DirectStep, DirectLogin, DirectRedeem, RenewSession, Goto
<1>3. UNCHANGED <<attempt, oncemore>> /\ (redeemed' = redeemed \/ CountRedemption(d))
  BY DEF DirectStep, DirectLogin, DirectRedeem, RenewSession
<1>4. ASSUME NEW g \in Flows \ {d}
      PROVE  StepsLeft(g)' = StepsLeft(g)
  BY <1>1, <1>2, <1>3 DEF StepsLeft, TypeOK, CountRedemption
<1>5. pc'[d] = w
  BY <1>1, <1>2 DEF TypeOK
<1>6. DirectLeft(pc'[d], redeemed'[d]) < DirectLeft(pc[d], redeemed[d])
  <2>1. CASE DirectLogin(d)
    BY <1>5, <2>1, <1>1 DEF DirectLogin, DirectLeft, Goto, TypeOK
  <2>2. CASE DirectRedeem(d)
    <3>1. redeemed'[d] = IF redeemed[d] <= MaxRetries THEN redeemed[d] + 1 ELSE redeemed[d]
      BY <1>1, <2>2 DEF DirectRedeem, CountRedemption, TypeOK
    <3>2. redeemed'[d] # 0
      BY <1>1, <3>1 DEF MaxRetries
    <3>3. pc[d] = "redeem" /\ (pc'[d] = "done" \/ (pc'[d] = "relogin" /\ redeemed[d] = 0))
      BY <1>1, <2>2 DEF DirectRedeem, Goto, TypeOK
    <3> QED BY <3>2, <3>3 DEF DirectLeft
  <2>3. CASE RenewSession(d)
    <3>1. pc[d] = "relogin" /\ redeemed'[d] # 0
      BY <2>3 DEF RenewSession, RenewInv
    <3>2. pc'[d] \in {"redeem", "done"}
      BY <1>1, <2>3 DEF RenewSession, Goto, TypeOK
    <3> QED BY <3>1, <3>2 DEF DirectLeft
  <2> QED BY <2>1, <2>2, <2>3 DEF DirectStep
<1>7. StepsLeft(d)' < StepsLeft(d)
  BY <1>1, <1>6 DEF StepsLeft
<1> QED BY <1>1, <1>4, <1>7 DEF Advance

\* Whatever the game answers, a call of RedeemSingle makes at most twenty-four
\* steps and a direct flow four: every step of a flow lowers its bound and
\* changes no other's.  With GateNeverBlocks, all of them come to their end.
THEOREM FlowsAdvance == Spec => /\ [](\A f \in Flows : StepsLeft(f) \in 0 .. 24)
                                /\ [][Advance]_vars
<1>1. IInv => \A f \in Flows : StepsLeft(f) \in 0 .. 24
  BY StepsLeftType DEF IInv
<1>2. IInv /\ RenewInv /\ [Next]_vars => [Advance]_vars
  BY NearerAdvances, DirectAdvances DEF Next, Done
<1> QED BY <1>1, <1>2, InductiveToo, PTL DEF Spec

-----------------------------------------------------------------------------
(* The try the comments announce.                                          *)

\* A flow whose third attempt has come to the log-in after it, or to its end.
Spent(f) == pc[f] \in {"relogin", "done"} /\ attempt[f] = MaxRetries

\* It stays there: that log-in is tried once more, or the flow returns.
LEMMA SpentStays ==
  ASSUME IInv, NEW f \in Gated, Spent(f), [Next]_vars
  PROVE  Spent(f)'
<1>1. TypeOK /\ f \in Flows
  BY DEF IInv, Flows
<1>2. CASE LogInAnew(f)
  <2>1. LastAttempt(f)
    BY DEF Spent, LastAttempt
  <2>2. \/ Return(f)
        \/ Relogin(f, AnyFailure, FALSE)
    BY <1>2, <2>1 DEF LogInAnew, NextAttempt
  <2> QED BY <1>1, <2>2 DEF Return, Relogin, Goto, Spent, TypeOK
<1>3. CASE GatedStep(f) /\ ~LogInAnew(f)
  BY <1>3 DEF GatedStep, AcquireAccountGate, Login, GetCaptcha, RecognizeCaptcha, RedeemCode, Spent
<1>4. ASSUME NEW g \in Gated \ {f}, GatedStep(g)
      PROVE  Spent(f)'
  <2>1. PICK w \in Places, n \in 1 .. 3, b \in BOOLEAN : NearerAt(g, w, n, b)
    BY <1>1, <1>4, GatedStepIsNearer DEF Nearer
  <2>2. pc'[f] = pc[f] /\ attempt'[f] = attempt[f]
    BY <1>1, <2>1 DEF NearerAt, TypeOK
  <2> QED BY <2>2 DEF Spent
<1>5. ASSUME NEW d \in Direct, DirectStep(d)
      PROVE  Spent(f)'
  <2>1. d # f
    OBVIOUS
  <2>2. PICK w \in {"redeem", "relogin", "done"} : pc' = [pc EXCEPT ![d] = w]
    BY <1>5 DEF DirectStep, DirectLogin, DirectRedeem, RenewSession, Goto
  <2>3. attempt' = attempt
    BY <1>5 DEF DirectStep, DirectLogin, DirectRedeem, RenewSession
  <2> QED BY <1>1, <2>1, <2>2, <2>3 DEF Spent, TypeOK
<1>6. CASE UNCHANGED vars
  BY <1>6 DEF vars, Spent
<1> QED BY <1>2, <1>3, <1>4, <1>5, <1>6 DEF Next, Done

\* The further try that comments of RedeemSingle announce after the third
\* attempt never comes, for any number of flows: the log-in that is made for
\* its sake is the last thing the flow does.
THEOREM NoTryAfterTheThird == Spec => AnnouncedTryNeverComes
<1>1. ASSUME NEW f \in Gated
      PROVE  Spec => [](pc[f] = "relogin" /\ attempt[f] = MaxRetries
                          => [](pc[f] \notin {"captcha", "ocr", "redeem"}))
  <2>1. IInv /\ Spent(f) /\ [Next]_vars => Spent(f)'
    BY SpentStays
  <2>2. pc[f] = "relogin" /\ attempt[f] = MaxRetries => Spent(f)
    BY DEF Spent
  <2>3. Spent(f) => pc[f] \notin {"captcha", "ocr", "redeem"}
    BY DEF Spent
  <2> QED BY <2>1, <2>2, <2>3, Inductive, PTL DEF Spec
<1> QED BY <1>1 DEF AnnouncedTryNeverComes
=============================================================================
