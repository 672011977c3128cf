----------------------------- MODULE RedeemBatch -----------------------------
(***************************************************************************)
(* The scheduler of AutomationService.RedeemBatch                          *)
(* (internal/client/automation_service.go): one goroutine tries the        *)
(* accounts of a batch one at a time, puts an account that has to wait to  *)
(* rest and goes on with the first one that is ready, until every account  *)
(* has a result.  An attempt is tryOnceNoCooldown: log in, fetch and       *)
(* recognise a captcha, redeem.                                            *)
(*                                                                         *)
(* Time is abstracted: an account that rests, three seconds or sixty, is   *)
(* ready again at some later moment.  The three seconds between attempts   *)
(* change nothing but that moment and are left out.                        *)
(***************************************************************************)
EXTENDS Naturals, Sequences, FiniteSets

CONSTANTS
  NumAccounts,  \* accounts in the batch, in the order of the slice
  Saturation    \* attemptsInCycle is counted up to here: the code only asks
                \* whether it has reached three

ASSUME NumAccountsAssumption == NumAccounts \in Nat
ASSUME SaturationAssumption  == Saturation \in Nat /\ Saturation >= 3

Batch == 1 .. NumAccounts

VARIABLES
  cooldowns,  \* accountState.cooldowns
  attempts,   \* accountState.attemptsInCycle, saturated
  resting,    \* accounts whose nextReadyAt lies ahead
  finalized,  \* accounts that have their result
  results,    \* the slice of results, as accounts and outcomes
  pending,    \* the loop's counter of accounts without a result
  current,    \* the account being tried, 0 if none
  busies,     \* history: attempts of an account that ended "busy"
  captchas    \* history: attempts of an account that ended "captcha"

history == <<busies, captchas>>
vars == <<cooldowns, attempts, resting, finalized, results, pending, current, history>>

-----------------------------------------------------------------------------
(* One attempt.                                                            *)

\* What the game answers to a call, by error code: 20000, 40101, 40009,
\* 40100, 40102 or 40103, 40007 or 40014, anything else; or the call itself
\* failed with an error.
Answers == {"ok", "busy", "session", "tooMany", "captcha", "expired", "other", "exception"}

Outcomes == {"success", "fatal", "busy", "session", "tooMany", "captcha", "other"}

\* Classified by the error code alone, IsFatal being unset.
ByCode(answer) == IF answer = "expired" THEN "other" ELSE answer

\* A redemption classified with its IsFatal; an error counts as busy.
ByRedemption(answer) ==
  CASE answer = "ok"        -> "success"
    [] answer = "exception" -> "busy"
    [] answer = "expired"   -> "fatal"
    [] OTHER                -> answer

\* An expired session is renewed, and the same captcha is tried once more.
AfterSessionLost(relogin, second) ==
  CASE relogin = "ok"        -> ByRedemption(second)
    [] relogin = "exception" -> "busy"
    [] OTHER                 -> ByCode(relogin)

\* x holds the answers of all calls an attempt may make; recognised tells
\* whether the OCR came up with four characters.
TryOnce(x) ==
  CASE x.login = "exception" -> "other"
    [] x.login = "expired"   -> "fatal"
    [] x.login \notin {"ok", "exception", "expired"} -> x.login
    [] x.login = "ok" /\ x.captcha = "exception"     -> "busy"
    [] x.login = "ok" /\ x.captcha \notin {"ok", "exception"} -> ByCode(x.captcha)
    [] x.login = "ok" /\ x.captcha = "ok" /\ ~x.recognised -> "captcha"
    [] OTHER -> IF x.redeem = "session" THEN AfterSessionLost(x.relogin, x.second)
                                        ELSE ByRedemption(x.redeem)

Conversations ==
  [ login : Answers, captcha : Answers, recognised : BOOLEAN,
    redeem : Answers, relogin : Answers, second : Answers ]

TryOutcomes == {TryOnce(x) : x \in Conversations}

-----------------------------------------------------------------------------
(* The scheduler.                                                          *)

TypeOK ==
  /\ cooldowns \in [Batch -> 0 .. 3]
  /\ attempts \in [Batch -> 0 .. Saturation]
  /\ resting \subseteq Batch
  /\ finalized \subseteq Batch
  /\ results \in Seq(Batch \X Outcomes)
  /\ pending \in 0 .. NumAccounts
  /\ current \in Batch \cup {0}
  /\ busies \in [Batch -> 0 .. 10]
  /\ captchas \in [Batch -> 0 .. 10]

Init ==
  /\ cooldowns = [a \in Batch |-> 0]
  /\ attempts = [a \in Batch |-> 0]
  /\ resting = {} /\ finalized = {}
  /\ results = <<>>
  /\ pending = NumAccounts
  /\ current = 0
  /\ busies = [a \in Batch |-> 0]
  /\ captchas = [a \in Batch |-> 0]

Ready == Batch \ (finalized \cup resting)

\* pickNext: the first account that is ready.
Pick ==
  /\ current = 0
  /\ pending > 0
  /\ Ready # {}
  /\ current' \in Ready
  /\ \A a \in Ready : current' <= a
  /\ UNCHANGED <<cooldowns, attempts, resting, finalized, results, pending, history>>

\* nextReadyAt passes, while another account is tried or the loop sleeps.
Rested(a) ==
  /\ a \in resting
  /\ resting' = resting \ {a}
  /\ UNCHANGED <<cooldowns, attempts, finalized, results, pending, current, history>>

\* Mutant of Finalize: the account is not taken out of the running.
FinalizeResultOnly(a, outcome) ==
  /\ results' = Append(results, <<a, outcome>>)
  /\ pending' = pending - 1
  /\ UNCHANGED <<finalized, resting>>

\* Mutant of Finalize: the loop does not learn that the account is done.
FinalizeUncounted(a, outcome) ==
  /\ results' = Append(results, <<a, outcome>>)
  /\ finalized' = finalized \cup {a}
  /\ UNCHANGED <<pending, resting>>

Finalize(a, outcome) ==
  /\ results' = Append(results, <<a, outcome>>)
  /\ finalized' = finalized \cup {a}
  /\ pending' = pending - 1
  /\ UNCHANGED resting

Rest(a) ==
  /\ resting' = resting \cup {a}
  /\ UNCHANGED <<results, finalized, pending>>

NextAttempt(a) == IF attempts[a] < Saturation THEN attempts[a] + 1 ELSE Saturation

CountCooldown(a) == cooldowns' = [cooldowns EXCEPT ![a] = @ + 1]

\* Mutant of LastCooldown: the comparison is off by one.
LastCooldownLate(a) == cooldowns[a] + 1 > 3

LastCooldown(a) == cooldowns[a] + 1 >= 3

\* A cooldown of sixty seconds; the third one is not granted any more.
CoolDown(a, outcome) ==
  /\ CountCooldown(a)
  /\ attempts' = [attempts EXCEPT ![a] = 0]
  /\ IF LastCooldown(a) THEN Finalize(a, outcome) ELSE Rest(a)

\* Three seconds.
ShortRest(a) ==
  /\ attempts' = [attempts EXCEPT ![a] = NextAttempt(a)]
  /\ Rest(a)
  /\ UNCHANGED cooldowns

\* Mutant of CycleIsOver: the comparison is off by one.
CycleIsOverLate(a) == attempts[a] + 1 > 3

CycleIsOver(a) == attempts[a] + 1 >= 3

\* What the outcome of an attempt does to the account: busy cools down, a lost
\* session and too many captchas rest, a wrong captcha rests twice and then
\* cools down, and everything else is final.
Schedule(a, outcome) ==
  \/ outcome = "busy" /\ CoolDown(a, outcome)
  \/ outcome \in {"session", "tooMany"} /\ ShortRest(a)
  \/ outcome = "captcha" /\ CycleIsOver(a) /\ CoolDown(a, outcome)
  \/ outcome = "captcha" /\ ~CycleIsOver(a) /\ ShortRest(a)
  \/ /\ outcome \in {"success", "fatal", "other"}
     /\ Finalize(a, outcome)
     /\ UNCHANGED <<cooldowns, attempts>>

\* The histories count up to ten, one more than ever happens.
Count(counter, a, counts) ==
  counter' = IF counts /\ counter[a] < 10 THEN [counter EXCEPT ![a] = @ + 1] ELSE counter

Tried(a, outcome) ==
  /\ current = a
  /\ Schedule(a, outcome)
  /\ current' = 0
  /\ Count(busies, a, outcome = "busy")
  /\ Count(captchas, a, outcome = "captcha")

Attempt(a) == \E outcome \in TryOutcomes : Tried(a, outcome)

\* The loop ends when every account has its result.
Done == current = 0 /\ pending = 0 /\ UNCHANGED vars

Next == Pick \/ (\E a \in Batch : Rested(a) \/ Attempt(a)) \/ Done

Spec == Init /\ [][Next]_vars

\* The loop runs and time passes.  Of the game it is assumed that it does not
\* answer every attempt of an account with a lost session or with too many
\* captchas: the scheduler has no limit for these.
Fairness ==
  /\ WF_vars(Pick)
  /\ \A a \in Batch :
       /\ WF_vars(Rested(a))
       /\ WF_vars(Attempt(a))
       /\ SF_vars(\E outcome \in TryOutcomes \ {"session", "tooMany"} : Tried(a, outcome))

FairSpec == Spec /\ Fairness

-----------------------------------------------------------------------------
(* Safety.                                                                 *)

\* The results are one for each account that is finished, and the counter of
\* the loop is the number of the others: the loop returns a result for every
\* account, and its break for an empty pick is never taken.
ResultsComplete ==
  /\ {results[i][1] : i \in DOMAIN results} = finalized
  /\ Len(results) = Cardinality(finalized)
  /\ pending = NumAccounts - Cardinality(finalized)

\* However the answers of the game alternate, an account is not tried again
\* after nine attempts that failed for a captcha or a busy server: three
\* cycles of three, or fewer.
FailuresBounded == \A a \in Batch : busies[a] + captchas[a] <= 9

-----------------------------------------------------------------------------
(* Liveness, under FairSpec.                                               *)

\* The batch ends, even if the game answers busy or rejects captchas for ever
\* and although the first ready account is always preferred.
BatchEnds == <>(pending = 0)
=============================================================================
