------------------------------- MODULE OcrKeys -------------------------------
(***************************************************************************)
(* The keys of the OCR services: the table ocr_keys, and the list of       *)
(* usable keys that OCRKeyManager keeps in memory and chooses from by a    *)
(* smooth weighted round-robin (internal/client/ocr_manager.go,            *)
(* internal/service/ocr_key_service.go, internal/repository/               *)
(* ocr_key_repository.go, internal/handler/ocr_key_handler.go, main.go).   *)
(*                                                                         *)
(* Callers are goroutines: flows that have a captcha recognised, requests  *)
(* that change a key, and the monthly reset.  The list in memory is behind *)
(* a lock that is held for a choice and for a reload, but neither during   *)
(* the recognition nor between reading the table and reloading.            *)
(*                                                                         *)
(* A choice only compares current values, so they are kept relative to the *)
(* largest one.  Names, secrets and usage statistics are left out.  MySQL  *)
(* is assumed to assign the columns of an UPDATE from left to right.       *)
(***************************************************************************)
EXTENDS Integers, FiniteSets, Functions

CONSTANTS
  NumKeys,     \* ids of ocr_keys are 1 .. NumKeys, given in this order
  Flows,       \* goroutines that have captchas recognised
  Requests,    \* goroutines that change keys, the monthly reset among them
  Providers,   \* what a key may have in its column provider
  Weights,     \* weights an administrator gives
  Quotas,      \* quotas an administrator gives
  Rejected,    \* keys whose provider always answers with a quota error
  MaxEvents    \* changes by administrators, resets, restarts and failed statements

ASSUME NumKeysAssumption   == NumKeys \in Nat
ASSUME WeightsAssumption   == Weights \subseteq Nat \ {0}
ASSUME QuotasAssumption    == Quotas \subseteq Int
ASSUME MaxEventsAssumption == MaxEvents \in Nat

Keys    == 1 .. NumKeys
Callers == Flows \cup Requests

Registered == {"baidu", "paddle"}

VARIABLES
  created,  \* how many keys have been created
  stored,   \* ids that have a row
  row,      \* ocr_keys: the columns of each row
  mem,      \* OCRKeyManager.keys: a copy of the weight, and the current value
  total,    \* OCRKeyManager.total
  pc,       \* what a caller does next
  tries,    \* attempts its recognition has left
  key,      \* the key it has chosen
  snap,     \* what it has read with ListUsable
  events,   \* how many of these there have been
  fresh,    \* history: callers whose snap no change has outdated
  current,  \* history: whether memory was loaded from such a snap
  lapsed    \* history: a reload failed, or an outdated one came after a newer

callers == <<pc, tries, key, snap>>
history == <<fresh, current, lapsed>>
vars == <<created, stored, row, mem, total, callers, events, history>>

NoKey  == 0
Row    == [ provider : Providers, active : BOOLEAN, quota : BOOLEAN,
            weight : Weights, monthly : Int, remaining : Int ]
Blank  == [ provider |-> "", active |-> FALSE, quota |-> FALSE,
            weight |-> 0, monthly |-> 0, remaining |-> 0 ]
Copy   == [weight : Weights, value : Int, waited : Nat]

TypeOK ==
  /\ created \in 0 .. NumKeys
  /\ stored \subseteq 1 .. created
  /\ \A k \in Keys : IF k \in stored THEN row[k] \in Row ELSE row[k] = Blank
  /\ DOMAIN mem \subseteq 1 .. created
  /\ \A k \in DOMAIN mem : mem[k] \in Copy
  /\ total \in Nat
  /\ pc \in [Callers -> {"idle", "pick", "call", "mark", "list", "reload"}]
  /\ tries \in [Callers -> 0 .. NumKeys]
  /\ key \in [Callers -> Keys \cup {NoKey}]
  /\ \A c \in Callers :
       /\ DOMAIN snap[c] \subseteq Keys
       /\ \A k \in DOMAIN snap[c] : snap[c][k] \in [weight : Weights, eff : Nat]
  /\ events \in 0 .. MaxEvents
  /\ fresh \subseteq Callers
  /\ current \in BOOLEAN /\ lapsed \in BOOLEAN

-----------------------------------------------------------------------------
(* Reading the table and loading it.                                       *)

\* What ListUsable selects and Reload does not skip.
Loadable(r) == r.active /\ r.quota /\ r.weight > 0 /\ r.provider \in Registered

\* The weight is raised by the share of the quota that remains, at most to
\* the double.  The code computes in floating point and truncates, which may
\* yield one less than the quotient here where that is exact, but never less
\* than the weight: no property asks for more.
EffWeight(r) ==
  IF r.monthly > 0 /\ r.remaining >= 0
  THEN r.weight + (r.weight * (IF r.remaining < r.monthly THEN r.remaining ELSE r.monthly)) \div r.monthly
  ELSE r.weight

\* A list of keys, reduced to what Reload makes of it.
Empty  == [k \in {} |-> [weight |-> 0, eff |-> 0]]
Usable == [k \in {k \in stored : Loadable(row[k])} |-> [weight |-> row[k].weight, eff |-> EffWeight(row[k])]]

Fresh(item) == [weight |-> item.weight, value |-> 0, waited |-> 0]

\* Mutant of Load: the old list is not emptied.
LoadMore(list) ==
  /\ mem' = [k \in DOMAIN list \cup DOMAIN mem |-> IF k \in DOMAIN list THEN Fresh(list[k]) ELSE mem[k]]
  /\ total' = SumFunction([k \in DOMAIN list |-> list[k].eff])

\* Reload: new copies, all current values zero.
Load(list) ==
  /\ mem' = [k \in DOMAIN list |-> Fresh(list[k])]
  /\ total' = SumFunction([k \in DOMAIN list |-> list[k].eff])

-----------------------------------------------------------------------------
(* The smooth weighted round-robin.                                        *)

Raised(k) == mem[k].value + mem[k].weight

\* The first of the largest: a later key must be strictly greater.
Best == CHOOSE b \in DOMAIN mem :
          \A k \in DOMAIN mem : Raised(k) < Raised(b) \/ (Raised(k) = Raised(b) /\ b <= k)

\* Mutant of Charged: the total is not taken off the key that was chosen.
ChargedNothing(k) == Raised(k)

Charged(k) == IF k = Best THEN Raised(k) - total ELSE Raised(k)

Largest == CHOOSE v \in {Charged(k) : k \in DOMAIN mem} : \A k \in DOMAIN mem : Charged(k) <= v

\* pick, on a list that is not empty.
Choose ==
  mem' = [k \in DOMAIN mem |->
            [ weight |-> mem[k].weight,
              value  |-> Charged(k) - Largest,
              waited |-> IF k = Best THEN 0 ELSE mem[k].waited + 1 ]]

-----------------------------------------------------------------------------

Init ==
  /\ created = 0 /\ stored = {} /\ row = [k \in Keys |-> Blank]
  /\ mem = Empty /\ total = 0
  /\ pc = [c \in Callers |-> "idle"]
  /\ tries = [c \in Callers |-> 0]
  /\ key = [c \in Callers |-> NoKey]
  /\ snap = [c \in Callers |-> Empty]
  /\ events = 0
  /\ fresh = {} /\ current = TRUE /\ lapsed = FALSE

Event == events < MaxEvents /\ events' = events + 1

Goto(c, where) == pc' = [pc EXCEPT ![c] = where]

\* Mutant of Continue: the number of attempts is not limited.
ContinueAlways(c) ==
  /\ Goto(c, "pick")
  /\ key' = [key EXCEPT ![c] = NoKey]

\* The caller goes on with its next attempt, or is done.
Continue(c) ==
  /\ Goto(c, IF tries[c] > 0 THEN "pick" ELSE "idle")
  /\ key' = [key EXCEPT ![c] = NoKey]

-----------------------------------------------------------------------------
(* RecognizeCaptcha.                                                       *)

\* As many attempts as there are keys.
Start(c) ==
  /\ pc[c] = "idle"
  /\ DOMAIN mem # {}
  /\ tries' = [tries EXCEPT ![c] = Cardinality(DOMAIN mem)]
  /\ Goto(c, "pick")
  /\ UNCHANGED <<created, stored, row, mem, total, key, snap, events, history>>

Pick(c) ==
  /\ pc[c] = "pick"
  /\ DOMAIN mem # {}
  /\ Choose
  /\ key' = [key EXCEPT ![c] = Best]
  /\ tries' = [tries EXCEPT ![c] = @ - 1]
  /\ Goto(c, "call")
  /\ UNCHANGED <<created, stored, row, total, snap, events, history>>

\* All keys have been unloaded meanwhile.
PickNone(c) ==
  /\ pc[c] = "pick"
  /\ DOMAIN mem = {}
  /\ tries' = [tries EXCEPT ![c] = 0]
  /\ Goto(c, "idle")
  /\ UNCHANGED <<created, stored, row, mem, total, key, snap, events, history>>

\* The second column is computed from the new value of the first.
DecrementQuota(k) ==
  LET left == IF row[k].remaining > 0 THEN row[k].remaining - 1 ELSE 0
  IN  row' = IF k \notin stored THEN row
             ELSE [row EXCEPT ![k].remaining = left,
                              ![k].quota = @ /\ left - 1 > 0]

\* TouchUsage: a key of paddle is not charged, unless its provider could not
\* be read; an error of a later statement leaves any key uncharged.
TouchUsage(k) ==
  \/ row[k].provider # "paddle" /\ DecrementQuota(k) /\ UNCHANGED events
  \/ row[k].provider = "paddle" /\ UNCHANGED <<row, events>>
  \/ row[k].provider = "paddle" /\ Event /\ DecrementQuota(k)
  \/ row[k].provider # "paddle" /\ Event /\ UNCHANGED row

\* The key's service answers.  Codes of quota, rate and authorisation have
\* the key marked; any other error only counts as an attempt.
Answers(k) == IF k \in Rejected THEN {"quota"} ELSE {"text", "error", "quota"}

Recognise(c) ==
  /\ pc[c] = "call"
  /\ TouchUsage(key[c])
  /\ \E answer \in Answers(key[c]) :
       \/ /\ answer = "text"
          /\ tries' = [tries EXCEPT ![c] = 0]
          /\ key' = [key EXCEPT ![c] = NoKey]
          /\ Goto(c, "idle")
       \/ answer = "error" /\ Continue(c) /\ UNCHANGED tries
       \/ answer = "quota" /\ Goto(c, "mark") /\ UNCHANGED <<key, tries>>
  /\ UNCHANGED <<created, stored, mem, total, snap, history>>

\* A change that is to be followed by a reload.
Outdates == fresh' = {} /\ current' = FALSE /\ UNCHANGED lapsed

\* Mutant of MarkQuota: the list in memory is not refreshed.
MarkQuotaOnly(c) ==
  /\ pc[c] = "mark"
  /\ row' = IF key[c] \in stored THEN [row EXCEPT ![key[c]].quota = FALSE] ELSE row
  /\ Continue(c)
  /\ Outdates
  /\ UNCHANGED <<created, stored, mem, total, tries, snap, events>>

\* The callback onKeyExhausted: MarkQuota, ListUsable, Reload.
MarkQuota(c) ==
  /\ pc[c] = "mark"
  /\ row' = IF key[c] \in stored THEN [row EXCEPT ![key[c]].quota = FALSE] ELSE row
  /\ Goto(c, "list")
  /\ Outdates
  /\ UNCHANGED <<created, stored, mem, total, tries, key, snap, events>>

ListUsable(c) ==
  /\ pc[c] = "list"
  /\ snap' = [snap EXCEPT ![c] = Usable]
  /\ fresh' = fresh \cup {c}
  /\ Goto(c, "reload")
  /\ UNCHANGED <<created, stored, row, mem, total, tries, key, events, current, lapsed>>

\* An error of either statement is logged, or dropped by the handlers.
Fail(c) ==
  /\ pc[c] \in {"mark", "list"}
  /\ Event
  /\ Continue(c)
  /\ lapsed' = (lapsed \/ pc[c] = "list")
  /\ UNCHANGED <<created, stored, row, mem, total, tries, snap, fresh, current>>

Reload(c) ==
  /\ pc[c] = "reload"
  /\ Load(snap[c])
  /\ snap' = [snap EXCEPT ![c] = Empty]
  /\ fresh' = fresh \ {c}
  /\ current' = (c \in fresh)
  /\ lapsed' = (c \notin fresh /\ (current \/ lapsed))
  /\ Continue(c)
  /\ UNCHANGED <<created, stored, row, tries, events>>

-----------------------------------------------------------------------------
(* Requests of administrators, the monthly reset, restarts.                *)

\* A statement that changes rows; its handler then lists and reloads.
Change(c) ==
  /\ pc[c] = "idle"
  /\ Event
  /\ Goto(c, "list")
  /\ Outdates
  /\ UNCHANGED <<mem, total, tries, key, snap>>

\* A new key is active and has quota unless the request says otherwise, which
\* UpdateKey may do as well.
CreateKey(c) ==
  /\ Change(c)
  /\ created < NumKeys
  /\ created' = created + 1
  /\ stored' = stored \cup {created'}
  /\ \E p \in Providers, w \in Weights, m \in Quotas, r \in Quotas :
       row' = [row EXCEPT ![created'] = [ provider |-> p, active |-> TRUE, quota |-> TRUE,
                                          weight |-> w, monthly |-> m, remaining |-> r ]]

\* What a patch makes of a row: any of the fields that may be changed, alone or
\* together; a weight or quota that is not sensible is left out of it.
Patches(r) ==
  LET GivenQuotas == {q \in Quotas : q >= 0}
  IN  [ provider : {r.provider}, active : BOOLEAN, quota : BOOLEAN,
        weight : Weights, monthly : GivenQuotas \cup {r.monthly},
        remaining : GivenQuotas \cup {r.remaining} ]

UpdateKey(c, k) ==
  /\ Change(c)
  /\ k \in stored
  /\ \E new \in Patches(row[k]) : row' = [row EXCEPT ![k] = new]
  /\ UNCHANGED <<created, stored>>

DeleteKey(c, k) ==
  /\ Change(c)
  /\ k \in stored
  /\ stored' = stored \ {k}
  /\ row' = [row EXCEPT ![k] = Blank]
  /\ UNCHANGED created

ResetMonthlyQuota(c) ==
  /\ Change(c)
  /\ stored # {}
  /\ row' = [k \in Keys |->
               IF k \notin stored THEN row[k]
               ELSE [row[k] EXCEPT !.remaining = row[k].monthly, !.quota = row[k].monthly > 0]]
  /\ UNCHANGED <<created, stored>>

\* main: the new process loads what the table says, or starts without keys.
Restart ==
  /\ Event
  /\ \/ Load(Usable) /\ current' = TRUE /\ lapsed' = FALSE
     \/ Load(Empty) /\ current' = FALSE /\ lapsed' = TRUE
  /\ pc' = [c \in Callers |-> "idle"]
  /\ tries' = [c \in Callers |-> 0]
  /\ key' = [c \in Callers |-> NoKey]
  /\ snap' = [c \in Callers |-> Empty]
  /\ fresh' = {}
  /\ UNCHANGED <<created, stored, row>>

-----------------------------------------------------------------------------

Refresh(c) == ListUsable(c) \/ Fail(c) \/ Reload(c)

RecognizeCaptcha(c) ==
  Start(c) \/ Pick(c) \/ PickNone(c) \/ Recognise(c) \/ MarkQuota(c) \/ Refresh(c)

Administer(c) ==
  \/ CreateKey(c) \/ ResetMonthlyQuota(c)
  \/ \E k \in Keys : UpdateKey(c, k) \/ DeleteKey(c, k)
  \/ Refresh(c)

Next ==
  \/ \E c \in Flows : RecognizeCaptcha(c)
  \/ \E c \in Requests : Administer(c)
  \/ Restart

Spec == Init /\ [][Next]_vars

\* Goroutines run on, and captchas keep coming as long as there are keys.
\* Nobody has to administer anything.
Fairness ==
  /\ \A c \in Flows : WF_vars(RecognizeCaptcha(c))
  /\ \A c \in Requests : WF_vars(Refresh(c))

FairSpec == Spec /\ Fairness

-----------------------------------------------------------------------------
(* Safety.                                                                 *)

Quiet == \A c \in Callers : pc[c] \notin {"list", "reload"}

\* What is in the list is a key in use, registered, with the weight of its row,
\* and has quota or was used up since; and all that can be loaded is there.
Mirrors(list) ==
  /\ \A k \in DOMAIN list :
       /\ k \in stored
       /\ row[k].active /\ row[k].provider \in Registered
       /\ list[k].weight = row[k].weight
       /\ row[k].quota \/ row[k].remaining <= 1
  /\ \A k \in stored : Loadable(row[k]) => k \in DOMAIN list

\* When the last reload is over the list in memory agrees with the table, in
\* whatever order several callers change, read and load - unless a read failed
\* or a list was loaded over one that had been read after it (lapsed).
ReloadsConverge == Quiet /\ ~lapsed => Mirrors(mem)

\* Every loaded key has its turn, the lightest and the last of equals too: the
\* total that is taken off a chosen key sums raised weights and not those that
\* are added, and yet a key waits for at most (n - 1) * total / weight choices.
NoKeyStarves ==
  \A k \in DOMAIN mem : mem[k].waited * mem[k].weight <= (Cardinality(DOMAIN mem) - 1) * total

-----------------------------------------------------------------------------
(* Liveness, under FairSpec.                                               *)

\* A key that its provider rejects does not stay in memory: the round-robin
\* comes to it, whatever the others answer, and marking it removes it, also
\* after an outdated list has brought it back.
RejectedKeyIsDropped == \A k \in Rejected : []<>(k \notin DOMAIN mem)
=============================================================================
