------------------------------ MODULE CronJobs ------------------------------
(***************************************************************************)
(* Where redemption codes come from and how they go: the feed that         *)
(* FetchAndProcessRSS reads, the submissions of the handlers, the nightly  *)
(* cleanExpiredRedeemCodes and the deletions by administrators             *)
(* (internal/service/cron_service.go, internal/service/redeem_service.go,  *)
(* internal/repository/redeem_repository.go and rss_repository.go).        *)
(*                                                                         *)
(* The jobs run in goroutines of their own and share nothing but the       *)
(* tables: a fetch started by hand overlaps the daily ones, a handler      *)
(* submits the code of an article at the same time, and a row may be       *)
(* deleted and its code submitted again between two steps of the cleaning. *)
(*                                                                         *)
(* The schema is not part of the repository: redeem_codes may or may not   *)
(* have a unique key on the code.  The feed shows all articles from the    *)
(* beginning.  The game answers the test account by the state of the code, *)
(* which only ever goes on from unknown to live to expired.  What tasks do *)
(* with a code is in RedeemTask.                                           *)
(***************************************************************************)
EXTENDS Naturals, FiniteSets, Functions

CONSTANTS
  Codes,      \* redemption codes, in capitals
  Articles,   \* ids of articles
  Fetchers,   \* goroutines that run FetchAndProcessRSS
  Handlers,   \* goroutines that serve submissions
  MaxRequests, \* submissions and deletions that people ask for
  MaxFaults    \* statements and redemptions that fail, and crashes

ASSUME MaxRequestsAssumption == MaxRequests \in Nat
ASSUME MaxFaultsAssumption   == MaxFaults \in Nat
ASSUME CodesAssumption       == IsFiniteSet(Codes)

Callers == Fetchers \cup Handlers

VARIABLES
  unique,    \* whether redeem_codes has a unique key on the code
  content,   \* the codes in each article
  game,      \* the state of each code at the game
  row,       \* redeem_codes, by id
  created,   \* the last id that was given
  tasks,     \* codes for one of whose rows a redeem task was submitted
  marked,    \* processed_articles
  pc,        \* where a caller is
  unread,    \* entries of the feed a fetch has not come to
  article,   \* the entry it is at
  todo,      \* codes of that entry it has not submitted
  sub,       \* the code and flag a caller is submitting
  seen,      \* history: the last id given when it looked for the code
  toCheck,   \* rows the cleaning has read and not checked
  doomed,    \* those whose codes it found expired or unknown
  cleaning,  \* where the cleaning is
  budget,    \* how many requests and faults there may still be
  dropped    \* history: codes whose submission failed on the way

tables == <<row, created, tasks, marked>>
world  == <<unique, content, game>>
feed   == <<unread, article, todo>>
caller == <<pc, feed, sub, seen>>
cleaner == <<toCheck, doomed, cleaning>>
vars == <<world, tables, caller, cleaner, budget, dropped>>

NoSub == [code |-> "none", long |-> FALSE]
NoArticle == "none"
ASSUME ArticlesAssumption == IsFiniteSet(Articles) /\ NoArticle \notin Articles

Submission == [code : Codes, long : BOOLEAN]
Stored == DOMAIN row
Row == [code : Codes, long : BOOLEAN, seen : Nat, early : BOOLEAN]
Listed == [id : 1 .. created, code : Codes]
Steps == {"idle", "articles", "codes", "find", "insert", "enqueue"}

TypeOK ==
  /\ unique \in BOOLEAN
  /\ content \in [Articles -> SUBSET Codes]
  /\ game \in [Codes -> {"unknown", "live", "expired"}]
  /\ created \in Nat /\ Stored \subseteq 1 .. created
  /\ \A i \in Stored : row[i] \in Row
  /\ tasks \subseteq Codes
  /\ marked \subseteq Articles
  /\ pc \in [Callers -> Steps]
  /\ unread \in [Fetchers -> SUBSET Articles]
  /\ article \in [Callers -> Articles \cup {NoArticle}]
  /\ todo \in [Fetchers -> SUBSET Codes]
  /\ sub \in [Callers -> Submission \cup {NoSub}]
  /\ seen \in [Callers -> Nat]
  /\ toCheck \subseteq Listed /\ doomed \subseteq Listed
  /\ cleaning \in {"idle", "check", "delete"}
  /\ budget \in [requests : 0 .. MaxRequests, faults : 0 .. MaxFaults]
  /\ dropped \subseteq Codes

Init ==
  /\ unique \in BOOLEAN
  /\ content \in [Articles -> SUBSET Codes]
  /\ game \in [Codes -> {"unknown", "live", "expired"}]
  /\ row = <<>> /\ created = 0 /\ tasks = {} /\ marked = {}
  /\ pc = [c \in Callers |-> "idle"]
  /\ unread = [f \in Fetchers |-> {}]
  /\ article = [c \in Callers |-> NoArticle]
  /\ todo = [f \in Fetchers |-> {}]
  /\ sub = [c \in Callers |-> NoSub]
  /\ seen = [c \in Callers |-> 0]
  /\ toCheck = {} /\ doomed = {} /\ cleaning = "idle"
  /\ budget = [requests |-> MaxRequests, faults |-> MaxFaults]
  /\ dropped = {}

Request == budget.requests > 0 /\ budget' = [budget EXCEPT !.requests = @ - 1]
Fault   == budget.faults > 0 /\ budget' = [budget EXCEPT !.faults = @ - 1]

Goto(c, step) == pc' = [pc EXCEPT ![c] = step]

-----------------------------------------------------------------------------
(* SubmitRedeemCode, for an article or for a request.                      *)

Submit(c, k, long) ==
  /\ sub' = [sub EXCEPT ![c] = [code |-> k, long |-> long]]
  /\ Goto(c, "find")

\* A fetch goes on with the article whatever the answer is.
Return(c) ==
  /\ Goto(c, IF article[c] # NoArticle THEN "codes" ELSE "idle")
  /\ sub' = [sub EXCEPT ![c] = NoSub]
  /\ seen' = [seen EXCEPT ![c] = 0]

Drop(c) == dropped' = dropped \cup {sub[c].code}

With(k) == {i \in Stored : row[i].code = k}

SubmitRequest(h, k, long) ==
  /\ pc[h] = "idle"
  /\ Request
  /\ Submit(h, k, long)
  /\ UNCHANGED <<world, tables, feed, seen, cleaner, dropped>>

\* Mutant of FindRedeemCodeByCode: a code that exists ends the fetch.
FindOrStop(c) ==
  /\ pc[c] = "find"
  /\ IF With(sub[c].code) # {}
     THEN /\ Goto(c, "idle")
          /\ sub' = [sub EXCEPT ![c] = NoSub]
          /\ UNCHANGED seen
     ELSE /\ Goto(c, "insert")
          /\ seen' = [seen EXCEPT ![c] = created]
          /\ UNCHANGED sub
  /\ UNCHANGED <<world, tables, feed, cleaner, budget, dropped>>

\* Mutant of FindRedeemCodeByCode: whether the code exists is not looked at.
FindNothing(c) ==
  /\ pc[c] = "find"
  /\ Goto(c, "insert")
  /\ seen' = [seen EXCEPT ![c] = created]
  /\ UNCHANGED <<world, tables, feed, sub, cleaner, budget, dropped>>

FindRedeemCodeByCode(c) ==
  /\ pc[c] = "find"
  /\ \/ With(sub[c].code) # {} /\ Return(c)
     \/ /\ With(sub[c].code) = {}
        /\ Goto(c, "insert")
        /\ seen' = [seen EXCEPT ![c] = created]
        /\ UNCHANGED sub
  /\ UNCHANGED <<world, tables, feed, cleaner, budget, dropped>>

CreateRedeemCode(c) ==
  /\ pc[c] = "insert"
  /\ ~(unique /\ With(sub[c].code) # {})
  /\ created' = created + 1
  /\ row' = [i \in Stored \cup {created'} |->
               IF i \in Stored THEN row[i]
               ELSE [ code |-> sub[c].code, long |-> sub[c].long,
                      seen |-> seen[c], early |-> game[sub[c].code] = "unknown" ]]
  /\ Goto(c, "enqueue")
  /\ seen' = [seen EXCEPT ![c] = 0]
  /\ UNCHANGED <<world, tasks, marked, feed, sub, cleaner, budget, dropped>>

\* The unique key refuses the row, and the submission returns an error.
CreateDuplicate(c) ==
  /\ pc[c] = "insert"
  /\ unique /\ With(sub[c].code) # {}
  /\ Return(c)
  /\ UNCHANGED <<world, tables, feed, cleaner, budget, dropped>>

\* The row is read again and its task submitted, even if it is gone by now.
SubmitRedeemTask(c) ==
  /\ pc[c] = "enqueue"
  /\ tasks' = tasks \cup {sub[c].code}
  /\ Return(c)
  /\ UNCHANGED <<world, row, created, marked, feed, cleaner, budget, dropped>>

\* A statement of the submission fails; what was inserted stays.
SubmissionFails(c) ==
  /\ pc[c] \in {"find", "insert", "enqueue"}
  /\ Fault
  /\ Drop(c)
  /\ Return(c)
  /\ UNCHANGED <<world, tables, feed, cleaner>>

SubmitRedeemCode(c) ==
  \/ FindRedeemCodeByCode(c) \/ CreateRedeemCode(c) \/ CreateDuplicate(c)
  \/ SubmitRedeemTask(c) \/ SubmissionFails(c)

-----------------------------------------------------------------------------
(* FetchAndProcessRSS.                                                     *)

\* A request that fails, or a feed that cannot be read, changes nothing, and
\* neither does a fetch that finds all entries processed.
Fetch(f) ==
  /\ pc[f] = "idle"
  /\ ~(Articles \subseteq marked)
  /\ unread' = [unread EXCEPT ![f] = Articles]
  /\ Goto(f, "articles")
  /\ UNCHANGED <<world, tables, article, todo, sub, seen, cleaner, budget, dropped>>

\* An entry that has been processed, or could not be looked up, is skipped.
IsProcessed(f) ==
  /\ pc[f] = "articles"
  /\ \E a \in unread[f] :
       /\ (a \in marked /\ UNCHANGED budget) \/ (a \notin marked /\ Fault)
       /\ unread' = [unread EXCEPT ![f] = @ \ {a}]
  /\ UNCHANGED <<world, tables, pc, article, todo, sub, seen, cleaner, dropped>>

\* Mutant of OpenArticle: the article is marked before its codes are submitted.
OpenAndMark(f) ==
  /\ pc[f] = "articles"
  /\ \E a \in unread[f] \ marked :
       /\ unread' = [unread EXCEPT ![f] = @ \ {a}]
       /\ article' = [article EXCEPT ![f] = a]
       /\ todo' = [todo EXCEPT ![f] = content[a]]
       /\ marked' = marked \cup {a}
  /\ Goto(f, "codes")
  /\ UNCHANGED <<world, row, created, tasks, sub, seen, cleaner, budget, dropped>>

OpenArticle(f) ==
  /\ pc[f] = "articles"
  /\ \E a \in unread[f] \ marked :
       /\ unread' = [unread EXCEPT ![f] = @ \ {a}]
       /\ article' = [article EXCEPT ![f] = a]
       /\ todo' = [todo EXCEPT ![f] = content[a]]
  /\ Goto(f, "codes")
  /\ UNCHANGED <<world, tables, sub, seen, cleaner, budget, dropped>>

SubmitNext(f) ==
  /\ pc[f] = "codes"
  /\ \E k \in todo[f] :
       /\ todo' = [todo EXCEPT ![f] = @ \ {k}]
       /\ Submit(f, k, FALSE)
  /\ UNCHANGED <<world, tables, unread, article, seen, cleaner, budget, dropped>>

\* Mutant of MarkProcessed: the entry is left before it is marked.
LeaveThenMark(f) ==
  /\ pc[f] = "codes"
  /\ todo[f] = {}
  /\ article' = [article EXCEPT ![f] = NoArticle]
  /\ marked' = marked \cup {article'[f]}
  /\ Goto(f, "articles")
  /\ UNCHANGED <<world, row, created, tasks, unread, todo, sub, seen, cleaner, budget, dropped>>

\* MarkProcessed and MarkProcessedWithCodes: with the codes, or without them
\* if there are none or that fails; only an error of the latter is left.
MarkProcessed(f) ==
  /\ pc[f] = "codes"
  /\ todo[f] = {}
  /\ \/ marked' = marked \cup {article[f]} /\ UNCHANGED budget
     \/ Fault /\ UNCHANGED marked
  /\ article' = [article EXCEPT ![f] = NoArticle]
  /\ Goto(f, "articles")
  /\ UNCHANGED <<world, row, created, tasks, unread, todo, sub, seen, cleaner, dropped>>

EndFetch(f) ==
  /\ pc[f] = "articles"
  /\ unread[f] = {}
  /\ Goto(f, "idle")
  /\ UNCHANGED <<world, tables, feed, sub, seen, cleaner, budget, dropped>>

FetchAndProcessRSS(f) ==
  \/ Fetch(f) \/ IsProcessed(f) \/ OpenArticle(f) \/ SubmitNext(f) \/ MarkProcessed(f)
  \/ EndFetch(f) \/ SubmitRedeemCode(f)

-----------------------------------------------------------------------------
(* cleanExpiredRedeemCodes.                                                *)

\* GetNonLongTermCodes; with nothing to check the cleaning is over.
ListCodes ==
  /\ cleaning = "idle"
  /\ toCheck' = {[id |-> i, code |-> row[i].code] : i \in {j \in Stored : ~row[j].long}}
  /\ toCheck' # {}
  /\ cleaning' = "check"
  /\ UNCHANGED <<world, tables, caller, doomed, budget, dropped>>

\* Mutant of Gone: only codes the game does not know are deleted.
GoneUnknown(k) == game[k] = "unknown"

\* The test account redeems the code, and the answer is 40007 or 40014.
Gone(k) == game[k] \in {"expired", "unknown"}

\* A redemption that ends with an error counts as valid.
CheckCode ==
  /\ cleaning = "check"
  /\ \E r \in toCheck :
       /\ toCheck' = toCheck \ {r}
       /\ \/ doomed' = (IF Gone(r.code) THEN doomed \cup {r} ELSE doomed) /\ UNCHANGED budget
          \/ Fault /\ UNCHANGED doomed
  /\ UNCHANGED <<world, tables, caller, cleaning, dropped>>

EndCheck ==
  /\ cleaning = "check"
  /\ toCheck = {}
  /\ cleaning' = IF doomed = {} THEN "idle" ELSE "delete"
  /\ UNCHANGED <<world, tables, caller, toCheck, doomed, budget, dropped>>

\* Mutant of Selected: the rows are deleted by their codes.
SelectedByCode == {i \in Stored : \E r \in doomed : r.code = row[i].code}

\* WHERE id IN (..)
Selected == {i \in Stored : \E r \in doomed : r.id = i}

\* BulkDeleteRedeemCodes, one transaction, which may fail.
BulkDelete ==
  /\ cleaning = "delete"
  /\ \/ row' = Restrict(row, Stored \ Selected) /\ UNCHANGED budget
     \/ Fault /\ UNCHANGED row
  /\ doomed' = {}
  /\ cleaning' = "idle"
  /\ UNCHANGED <<world, created, tasks, marked, caller, toCheck, dropped>>

CleanExpiredRedeemCodes == ListCodes \/ CheckCode \/ EndCheck \/ BulkDelete

-----------------------------------------------------------------------------
(* Administrators, the game, the end of the process.                       *)

DeleteRedeemCode(i) ==
  /\ Request
  /\ row' = Restrict(row, Stored \ {i})
  /\ UNCHANGED <<world, created, tasks, marked, caller, cleaner, dropped>>

GameGoesOn(k) ==
  /\ \/ game[k] = "unknown" /\ game' = [game EXCEPT ![k] = "live"]
     \/ game[k] = "live" /\ game' = [game EXCEPT ![k] = "expired"]
  /\ UNCHANGED <<unique, content, tables, caller, cleaner, budget, dropped>>

\* A submission that has inserted its row does not reach the queue.
Crash ==
  /\ Fault
  /\ pc' = [c \in Callers |-> "idle"]
  /\ unread' = [f \in Fetchers |-> {}]
  /\ article' = [c \in Callers |-> NoArticle]
  /\ todo' = [f \in Fetchers |-> {}]
  /\ sub' = [c \in Callers |-> NoSub]
  /\ seen' = [c \in Callers |-> 0]
  /\ toCheck' = {} /\ doomed' = {} /\ cleaning' = "idle"
  /\ dropped' = dropped \cup {sub[c].code : c \in {d \in Callers : pc[d] = "enqueue"}}
  /\ UNCHANGED <<world, tables>>

-----------------------------------------------------------------------------

Next ==
  \/ \E f \in Fetchers : FetchAndProcessRSS(f)
  \/ \E h \in Handlers : \/ SubmitRedeemCode(h)
                         \/ \E k \in Codes, long \in BOOLEAN : SubmitRequest(h, k, long)
  \/ CleanExpiredRedeemCodes
  \/ \E i \in Stored : DeleteRedeemCode(i)
  \/ \E k \in Codes : GameGoesOn(k)
  \/ Crash

Spec == Init /\ [][Next]_vars

\* The feed is fetched three times a day and the codes are checked every
\* night, again and again, and goroutines run on.
Fairness ==
  /\ \A f \in Fetchers : WF_vars(FetchAndProcessRSS(f))
  /\ \A h \in Handlers : WF_vars(SubmitRedeemCode(h))
  /\ WF_vars(CleanExpiredRedeemCodes)

FairSpec == Spec /\ Fairness

-----------------------------------------------------------------------------
(* Safety.                                                                 *)

\* The cleaning never deletes a long-term row, nor the row of a code that is
\* live, unless the game did not know the code yet when it was submitted - not
\* even if an expired row was deleted and its code submitted again meanwhile.
CleaningSparesValid ==
  [][cleaning = "delete" /\ cleaning' = "idle" =>
       \A i \in Stored \ Stored' :
         ~row[i].long /\ (game[row[i].code] # "live" \/ row[i].early)]_vars

\* An article is only marked once each of its codes had a row with a task, or
\* with one that is about to be submitted - the article's own submission or an
\* earlier one - or its submission failed or was cut off by a crash.
MarkedIsHandled ==
  \A a \in marked : \A k \in content[a] :
    \/ k \in dropped
    \/ k \in tasks \/ \E c \in Callers : pc[c] = "enqueue" /\ sub[c].code = k

\* Two rows of one code come only from submissions that overlapped: the later
\* had looked for the code before the earlier was inserted, and no unique key
\* stood in the way.
DuplicatesOverlapped ==
  \A i, j \in Stored :
    i < j /\ row[i].code = row[j].code => ~unique /\ row[j].seen < i

-----------------------------------------------------------------------------
(* Liveness, under FairSpec.                                               *)

\* Every article of the feed is marked at last, after failures and crashes too.
PublishedIsMarked == \A a \in Articles : <>(a \in marked)

\* The rows of an expired code are cleaned at last, unless they are long-term.
ExpiredIsCleaned ==
  \A k \in Codes : game[k] = "expired" ~> \A i \in With(k) : row[i].long
=============================================================================
