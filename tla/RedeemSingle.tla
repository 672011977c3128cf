---------------------------- MODULE RedeemSingle ----------------------------
(***************************************************************************)
(* Goroutines that redeem a code for one account each, and the two things  *)
(* they share: the gate of the automation service and the one GameClient,  *)
(* whose field fid says for whom captchas are fetched and codes redeemed   *)
(* (internal/client/automation_service.go, game_client.go).                *)
(*                                                                         *)
(* A gated flow is RedeemSingle, as the pre-verification of a task and the *)
(* nightly cleaning of codes call it: up to three attempts behind the gate.*)
(* A direct flow does not ask for the gate: one attempt of a RedeemBatch,  *)
(* or the log-in of an account that is created or verified.                *)
(*                                                                         *)
(* Sleeping and reading the captcha are left out, so are the details of    *)
(* the result; every call of the game is a step of its own.                *)
(***************************************************************************)
EXTENDS Naturals, FiniteSets

CONSTANTS
  Gated,   \* calls of RedeemSingle, named like the account they redeem for
  Direct,  \* flows that log in without the gate
  Nobody   \* no flow: the gate is open, nobody has logged in yet

Flows == Gated \cup Direct

ASSUME FlowsAssumption == Gated \cap Direct = {} /\ Nobody \notin Flows

MaxRetries == 3

VARIABLES
  gate,      \* who has filled the channel accountRedeemGate, or Nobody
  fid,       \* GameClient.fid: the account that logged in last, or Nobody
  pc,        \* the call a flow is about to make
  attempt,   \* the loop variable of RedeemSingle
  giveUp,    \* which answers to the log-in it is about to make end the flow
  oncemore,  \* whether a refused log-in is tried a second time
  redeemed   \* history: how often the flow sent the code

vars == <<gate, fid, pc, attempt, giveUp, oncemore, redeemed>>

\* Answers by error code as in module RedeemBatch; a log-in is only asked
\* whether it was refused.
Answers      == {"ok", "busy", "session", "tooMany", "captcha", "expired", "other", "exception"}
LoginAnswers == {"ok", "refused", "exception"}

TypeOK ==
  /\ gate \in Gated \cup {Nobody}
  /\ fid \in Flows \cup {Nobody}
  /\ pc \in [Flows -> {"start", "login", "captcha", "ocr", "redeem", "relogin", "done"}]
  /\ attempt \in [Flows -> 1 .. MaxRetries]
  /\ giveUp \in [Flows -> SUBSET {"refused", "exception"}]
  /\ oncemore \in [Flows -> BOOLEAN]
  /\ redeemed \in [Flows -> 0 .. MaxRetries + 1]

Init ==
  /\ gate = Nobody
  /\ fid = Nobody
  /\ pc = [f \in Flows |-> "start"]
  /\ attempt = [f \in Flows |-> 1]
  /\ giveUp = [f \in Flows |-> {}]
  /\ oncemore = [f \in Flows |-> FALSE]
  /\ redeemed = [f \in Flows |-> 0]

-----------------------------------------------------------------------------
(* How a step of RedeemSingle goes on.                                     *)

Goto(f, where) == pc' = [pc EXCEPT ![f] = where]

\* Mutant of ReleaseGate: the gate stays closed.
KeepGate == UNCHANGED gate

ReleaseGate == gate' = Nobody

\* The deferred release runs at every return.
Return(f) ==
  /\ Goto(f, "done")
  /\ ReleaseGate
  /\ UNCHANGED <<attempt, giveUp, oncemore>>

Proceed(f, where) ==
  /\ Goto(f, where)
  /\ UNCHANGED <<gate, attempt, giveUp, oncemore>>

\* Mutant of LastAttempt: one attempt too many.
LastAttemptLate(f) == attempt[f] = MaxRetries + 1

LastAttempt(f) == attempt[f] = MaxRetries

\* continue, or the end of the loop's body: the loop ends after the last
\* attempt, also when that attempt has just logged in anew.
NextAttempt(f) ==
  \/ LastAttempt(f) /\ Return(f)
  \/ /\ ~LastAttempt(f)
     /\ attempt' = [attempt EXCEPT ![f] = @ + 1]
     /\ Goto(f, "captcha")
     /\ UNCHANGED <<gate, giveUp, oncemore>>

\* Cool down if need be and log in anew.
Relogin(f, answers, again) ==
  /\ giveUp' = [giveUp EXCEPT ![f] = answers]
  /\ oncemore' = [oncemore EXCEPT ![f] = again]
  /\ Goto(f, "relogin")
  /\ UNCHANGED <<gate, attempt>>

AnyFailure == {"refused", "exception"}

-----------------------------------------------------------------------------
(* RedeemSingle.                                                           *)

\* Mutant of GateOpen: nobody waits at the gate.
GateIgnored == TRUE

GateOpen == gate = Nobody

AcquireAccountGate(f) ==
  /\ pc[f] = "start"
  /\ GateOpen
  /\ gate' = f
  /\ Goto(f, "login")
  /\ UNCHANGED <<fid, attempt, giveUp, oncemore, redeemed>>

Login(f) ==
  /\ pc[f] = "login"
  /\ \/ fid' = f /\ Proceed(f, "captcha")
     \/ UNCHANGED fid /\ Return(f)
  /\ UNCHANGED redeemed

\* An error cools down, except in the last attempt; too many captchas and a
\* busy server log in anew even then; any other refusal waits and tries again.
AfterCaptcha(f, answer) ==
  \/ answer = "ok" /\ Proceed(f, "ocr")
  \/ answer = "exception" /\ LastAttempt(f) /\ Return(f)
  \/ answer = "exception" /\ ~LastAttempt(f) /\ Relogin(f, {"exception"}, FALSE)
  \/ answer = "tooMany" /\ Relogin(f, {"exception"}, LastAttempt(f))
  \/ answer = "busy" /\ Relogin(f, IF LastAttempt(f) THEN AnyFailure ELSE {"exception"}, FALSE)
  \/ answer \in {"session", "captcha", "expired", "other"} /\ NextAttempt(f)

GetCaptcha(f) ==
  /\ pc[f] = "captcha"
  /\ \E answer \in Answers : AfterCaptcha(f, answer)
  /\ UNCHANGED <<fid, redeemed>>

\* No text, or fewer than four characters: in the last attempt cool down and
\* log in once more.
RecognizeCaptcha(f) ==
  /\ pc[f] = "ocr"
  /\ \/ Proceed(f, "redeem")
     \/ LastAttempt(f) /\ Relogin(f, AnyFailure, FALSE)
     \/ ~LastAttempt(f) /\ NextAttempt(f)
  /\ UNCHANGED <<fid, redeemed>>

AfterRedemption(f, answer) ==
  \/ answer \in {"ok", "expired", "tooMany", "other"} /\ Return(f)
  \/ answer = "exception" /\ LastAttempt(f) /\ Return(f)
  \/ answer \in {"exception", "busy"} /\ ~LastAttempt(f) /\ Relogin(f, {"exception"}, FALSE)
  \/ answer = "busy" /\ LastAttempt(f) /\ NextAttempt(f)
  \/ answer = "session" /\ Relogin(f, IF LastAttempt(f) THEN AnyFailure ELSE {}, FALSE)
  \/ answer = "captcha" /\ LastAttempt(f) /\ Relogin(f, AnyFailure, FALSE)
  \/ answer = "captcha" /\ ~LastAttempt(f) /\ NextAttempt(f)

\* The history is counted up to one more than the attempts.
CountRedemption(f) ==
  redeemed' = [redeemed EXCEPT ![f] = IF @ <= MaxRetries THEN @ + 1 ELSE @]

RedeemCode(f) ==
  /\ pc[f] = "redeem"
  /\ CountRedemption(f)
  /\ \E answer \in Answers : AfterRedemption(f, answer)
  /\ UNCHANGED fid

\* fid changes only when the log-in succeeds.
LogInAnew(f) ==
  /\ pc[f] = "relogin"
  /\ \E answer \in LoginAnswers :
       /\ fid' = IF answer = "ok" THEN f ELSE fid
       /\ \/ answer \in giveUp[f] /\ Return(f)
          \/ answer = "refused" /\ oncemore[f] /\ Relogin(f, AnyFailure, FALSE)
          \/ /\ answer \notin giveUp[f]
             /\ ~(answer = "refused" /\ oncemore[f])
             /\ NextAttempt(f)
  /\ UNCHANGED redeemed

-----------------------------------------------------------------------------
(* Flows without the gate.                                                 *)

\* Creating or verifying an account ends here; tryOnceNoCooldown goes on if
\* the account is logged in.
DirectLogin(f) ==
  /\ pc[f] = "start"
  /\ \/ fid' = f /\ (Goto(f, "redeem") \/ Goto(f, "done"))
     \/ UNCHANGED fid /\ Goto(f, "done")
  /\ UNCHANGED <<gate, attempt, giveUp, oncemore, redeemed>>

\* The attempt of a batch redeems and is over, or renews a lost session once.
DirectRedeem(f) ==
  /\ pc[f] = "redeem"
  /\ CountRedemption(f)
  /\ Goto(f, "done") \/ (redeemed[f] = 0 /\ Goto(f, "relogin"))
  /\ UNCHANGED <<gate, fid, attempt, giveUp, oncemore>>

RenewSession(f) ==
  /\ pc[f] = "relogin"
  /\ \/ fid' = f /\ Goto(f, "redeem")
     \/ UNCHANGED fid /\ Goto(f, "done")
  /\ UNCHANGED <<gate, attempt, giveUp, oncemore, redeemed>>

-----------------------------------------------------------------------------

GatedStep(f) ==
  \/ AcquireAccountGate(f) \/ Login(f) \/ GetCaptcha(f)
  \/ RecognizeCaptcha(f) \/ RedeemCode(f) \/ LogInAnew(f)

DirectStep(f) == DirectLogin(f) \/ DirectRedeem(f) \/ RenewSession(f)

Done == (\A f \in Flows : pc[f] = "done") /\ UNCHANGED vars

Next ==
  \/ \E f \in Gated : GatedStep(f)
  \/ \E f \in Direct : DirectStep(f)
  \/ Done

Spec == Init /\ [][Next]_vars

\* Every goroutine runs on, and the calls of the game return (the client has
\* a timeout).  Senders that wait on a channel are served in their order, so
\* weak fairness of each flow is enough: nobody asks for the gate twice here.
Fairness ==
  /\ \A f \in Gated : WF_vars(GatedStep(f))
  /\ \A f \in Direct : WF_vars(DirectStep(f))

FairSpec == Spec /\ Fairness

-----------------------------------------------------------------------------
(* Safety.                                                                 *)

\* As long as nobody has gone around the gate, a code is only redeemed for
\* the account the flow has been called for, although the account is a field
\* of the shared client that every log-in overwrites.
RedeemsForItself ==
  [][(\A d \in Direct : pc[d] = "start") =>
       \A f \in Gated : RedeemCode(f) => fid = f]_vars

\* The code is sent at most three times for a call of RedeemSingle, whatever
\* is cooled down and logged in anew in between.  This is the limit the loop
\* sets, not the one its comments promise: those announce a further try after
\* the third attempt, see AnnouncedTryNeverComes.
RedeemedThreeTimes == \A f \in Gated : redeemed[f] <= MaxRetries

\* After the third attempt the code cools down for a minute and logs in once
\* more, for the sake of one more try: "log in again and try once more", say
\* the comments on an unreadable captcha (lines 320 and 356 of the automation
\* service), "succeeded, on to the next round (the outer for will iterate)"
\* the one on a wrong captcha (line 541).  The loop is over by then: no flow
\* that logs in anew in its last attempt asks for another captcha, has one
\* recognised or sends the code again.  The minute and the log-in are in vain.
AnnouncedTryNeverComes ==
  \A f \in Gated :
    [](pc[f] = "relogin" /\ attempt[f] = MaxRetries
         => [](pc[f] \notin {"captcha", "ocr", "redeem"}))

-----------------------------------------------------------------------------
(* Liveness, under FairSpec.                                               *)

\* Every flow comes to its end, whatever the game answers: the attempts are
\* limited on every path and every path opens the gate again.
FlowsEnd == \A f \in Flows : <>(pc[f] = "done")

-----------------------------------------------------------------------------
(* What comments say and the code does not do.                             *)

Underway(f) == pc[f] \notin {"start", "done"}

\* The comments on the gate and in RedeemSingle: only one account in the
\* whole system redeems at any moment.
OneAccountAtATime == Cardinality({f \in Flows : Underway(f)}) <= 1
=============================================================================
