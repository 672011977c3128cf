--------------------------- MODULE CronJobsProofs ---------------------------
(***************************************************************************)
(* The safety properties of the feed and the cleaning, for any number of   *)
(* codes, articles, fetches and handlers, and any number of requests,      *)
(* faults and crashes.                                                     *)
(***************************************************************************)
EXTENDS CronJobs, FiniteSetTheorems, TLAPS

Submitting(c) == pc[c] \in {"find", "insert", "enqueue"}

\* Who submits has a submission, and who reads the codes of an article has one.
CallersOK ==
  \A c \in Callers :
    /\ Submitting(c) => sub[c] \in Submission
    /\ pc[c] = "codes" => article[c] # NoArticle

Typed == TypeOK /\ CallersOK

-----------------------------------------------------------------------------
(* Types.                                                                  *)

\* Whatever a submission answers, its caller goes on in a known place.
LEMMA ReturnType ==
  ASSUME TypeOK, NEW c \in Callers, Return(c)
  PROVE  /\ pc' \in [Callers -> Steps]
         /\ sub' \in [Callers -> Submission \cup {NoSub}]
         /\ seen' \in [Callers -> Nat]
  BY DEF TypeOK, Return, Goto, Steps

LEMMA SubmitType ==
  ASSUME TypeOK, NEW c \in Callers, NEW k \in Codes, NEW long \in BOOLEAN, Submit(c, k, long)
  PROVE  /\ pc' \in [Callers -> Steps]
         /\ sub' \in [Callers -> Submission \cup {NoSub}]
  BY DEF TypeOK, Submit, Goto, Steps, Submission

LEMMA FaultType ==
  ASSUME TypeOK, Fault
  PROVE  budget' \in [requests : 0 .. MaxRequests, faults : 0 .. MaxFaults]
  BY MaxFaultsAssumption DEF TypeOK, Fault

LEMMA RequestType ==
  ASSUME TypeOK, Request
  PROVE  budget' \in [requests : 0 .. MaxRequests, faults : 0 .. MaxFaults]
  BY MaxRequestsAssumption DEF TypeOK, Request

\* A row is only removed.
LEMMA RestrictType ==
  ASSUME TypeOK, NEW S \in SUBSET Stored, row' = Restrict(row, S), UNCHANGED created
  PROVE  /\ Stored' = S
         /\ Stored' \subseteq 1 .. created'
         /\ \A i \in S : row'[i] = row[i]
         /\ \A i \in Stored' : row'[i] \in Row
  BY DEF TypeOK, Restrict, Stored, Row

\* A row is added, with the next id.
LEMMA CreateAddsRow ==
  ASSUME TypeOK, NEW c \in Callers, CreateRedeemCode(c), sub[c] \in Submission
  PROVE  /\ created' = created + 1 /\ created' \notin Stored
         /\ Stored' = Stored \cup {created'}
         /\ \A i \in Stored : row'[i] = row[i]
         /\ row'[created'] = [ code |-> sub[c].code, long |-> sub[c].long, seen |-> seen[c],
                               early |-> game[sub[c].code] = "unknown" ]
         /\ Stored' \subseteq 1 .. created'
         /\ \A i \in Stored' : row'[i] \in Row
<1>1. created' = created + 1 /\ created' \notin Stored /\ created \in Nat
  BY DEF TypeOK, CreateRedeemCode
<1>2. /\ Stored' = Stored \cup {created'}
      /\ \A i \in Stored : row'[i] = row[i]
      /\ row'[created'] = [ code |-> sub[c].code, long |-> sub[c].long, seen |-> seen[c],
                            early |-> game[sub[c].code] = "unknown" ]
  BY <1>1 DEF CreateRedeemCode, Stored
<1>3. Stored' \subseteq 1 .. created'
  BY <1>1, <1>2 DEF TypeOK
<1>4. row'[created'] \in Row
  <2>1. seen[c] \in Nat
    BY DEF TypeOK
  <2> QED BY <1>2, <2>1 DEF Submission, Row
<1>5. \A i \in Stored : row'[i] \in Row
  BY <1>2 DEF TypeOK, Row
<1> QED BY <1>1, <1>2, <1>3, <1>4, <1>5

\* Both parts, for the steps of a submission.
LEMMA SubmissionTyped ==
  ASSUME Typed, NEW c \in Callers, SubmitRedeemCode(c)
  PROVE  Typed'
<1> USE DEF Typed
<1>1. ASSUME Return(c), UNCHANGED <<world, row, created, marked, feed, cleaner>>,
             tasks' \in SUBSET Codes, dropped' \in SUBSET Codes,
             budget' \in [requests : 0 .. MaxRequests, faults : 0 .. MaxFaults]
      PROVE  Typed'
  <2>1. TypeOK'
    BY <1>1, ReturnType DEF TypeOK, world, feed, cleaner, Stored, Listed
  <2>2. CallersOK'
    BY <1>1 DEF TypeOK, CallersOK, Submitting, Return, Goto, feed
  <2> QED BY <2>1, <2>2
<1>2. Submitting(c) => sub[c] \in Submission /\ sub[c].code \in Codes
  BY DEF CallersOK, Submission
<1>3. CASE FindRedeemCodeByCode(c) /\ With(sub[c].code) # {} /\ Return(c)
  BY <1>1, <1>3 DEF FindRedeemCodeByCode, TypeOK, tables
<1>4. CASE FindRedeemCodeByCode(c) /\ Goto(c, "insert") /\ seen' = [seen EXCEPT ![c] = created]
           /\ UNCHANGED sub
  <2>1. TypeOK'
    BY <1>4 DEF FindRedeemCodeByCode, TypeOK, tables, world, feed, cleaner, Goto, Steps, Stored, Listed
  <2>2. CallersOK'
    BY <1>4 DEF FindRedeemCodeByCode, TypeOK, CallersOK, Submitting, Goto, feed
  <2> QED BY <2>1, <2>2
<1>5. CASE CreateRedeemCode(c)
  <2>0. sub[c] \in Submission
    BY <1>2, <1>5 DEF CreateRedeemCode, Submitting
  <2>1. TypeOK'
    <3>1. Stored' \subseteq 1 .. created' /\ \A i \in Stored' : row'[i] \in Row
      BY <1>5, <2>0, CreateAddsRow
    <3>3. created' \in Nat
      BY <1>5 DEF TypeOK, CreateRedeemCode
    <3>2. toCheck' \subseteq Listed' /\ doomed' \subseteq Listed'
      BY <1>5, <2>0, CreateAddsRow DEF TypeOK, CreateRedeemCode, cleaner, Listed
    <3> QED BY <1>5, <3>1, <3>2, <3>3 DEF TypeOK, CreateRedeemCode, world, feed, cleaner, Goto, Steps
  <2>2. CallersOK'
    BY <1>5 DEF CreateRedeemCode, TypeOK, CallersOK, Submitting, Goto, feed
  <2> QED BY <2>1, <2>2
<1>6. CASE CreateDuplicate(c)
  BY <1>1, <1>6 DEF CreateDuplicate, TypeOK, tables
<1>7. CASE SubmitRedeemTask(c)
  BY <1>1, <1>2, <1>7 DEF SubmitRedeemTask, Submitting, TypeOK
<1>8. CASE SubmissionFails(c)
  BY <1>1, <1>2, <1>8, FaultType DEF SubmissionFails, Drop, Submitting, TypeOK, tables
<1> QED BY <1>3, <1>4, <1>5, <1>6, <1>7, <1>8 DEF SubmitRedeemCode, FindRedeemCodeByCode

\* The other steps of a fetch.
LEMMA FetchTyped ==
  ASSUME Typed, NEW f \in Fetchers,
         Fetch(f) \/ IsProcessed(f) \/ OpenArticle(f) \/ SubmitNext(f) \/ MarkProcessed(f) \/ EndFetch(f)
  PROVE  Typed'
<1> USE DEF Typed
<1>0. f \in Callers
  BY DEF Callers
<1>1. CASE Fetch(f)
  BY <1>0, <1>1 DEF Fetch, TypeOK, CallersOK, Submitting, tables, world, cleaner, Goto, Steps, Stored, Listed
<1>2. CASE IsProcessed(f)
  <2>1. budget' \in [requests : 0 .. MaxRequests, faults : 0 .. MaxFaults]
    BY <1>2, FaultType DEF IsProcessed, TypeOK
  <2> QED BY <1>0, <1>2, <2>1 DEF IsProcessed, TypeOK, CallersOK, Submitting, tables, world, cleaner, Stored, Listed
<1>3. CASE OpenArticle(f)
  <2>1. PICK a \in unread[f] \ marked :
          /\ unread' = [unread EXCEPT ![f] = @ \ {a}]
          /\ article' = [article EXCEPT ![f] = a]
          /\ todo' = [todo EXCEPT ![f] = content[a]]
    BY <1>3 DEF OpenArticle
  <2>2. a \in Articles /\ a # NoArticle
    BY <2>1, ArticlesAssumption DEF TypeOK
  <2>3. TypeOK'
    BY <1>0, <1>3, <2>1, <2>2 DEF OpenArticle, TypeOK, tables, world, cleaner, Goto, Steps, Stored, Listed
  <2>4. CallersOK'
    BY <1>0, <1>3, <2>1, <2>2 DEF OpenArticle, TypeOK, CallersOK, Submitting, Goto
  <2> QED BY <2>3, <2>4
<1>4. CASE SubmitNext(f)
  <2>1. PICK k \in todo[f] : todo' = [todo EXCEPT ![f] = @ \ {k}] /\ Submit(f, k, FALSE)
    BY <1>4 DEF SubmitNext
  <2>2. k \in Codes
    BY DEF TypeOK
  <2>3. TypeOK'
    BY <1>0, <1>4, <2>1, <2>2, SubmitType DEF SubmitNext, TypeOK, tables, world, cleaner, Stored, Listed
  <2>4. CallersOK'
    BY <1>0, <1>4, <2>1, <2>2 DEF SubmitNext, Submit, TypeOK, CallersOK, Submitting, Submission, Goto
  <2> QED BY <2>3, <2>4
<1>5. CASE MarkProcessed(f)
  <2>1. article[f] \in Articles
    BY <1>0, <1>5 DEF MarkProcessed, TypeOK, CallersOK
  <2>2. budget' \in [requests : 0 .. MaxRequests, faults : 0 .. MaxFaults]
    BY <1>5, FaultType DEF MarkProcessed, TypeOK
  <2>3. TypeOK'
    BY <1>0, <1>5, <2>1, <2>2 DEF MarkProcessed, TypeOK, world, cleaner, Goto, Steps, Stored, Listed
  <2>4. CallersOK'
    BY <1>0, <1>5 DEF MarkProcessed, TypeOK, CallersOK, Submitting, Goto
  <2> QED BY <2>3, <2>4
<1>6. CASE EndFetch(f)
  BY <1>0, <1>6 DEF EndFetch, TypeOK, CallersOK, Submitting, tables, world, feed, cleaner, Goto, Steps, Stored, Listed
<1> QED BY <1>1, <1>2, <1>3, <1>4, <1>5, <1>6

\* The cleaning.
LEMMA CleaningTyped ==
  ASSUME Typed, CleanExpiredRedeemCodes
  PROVE  Typed'
<1> USE DEF Typed
<1>1. CASE ListCodes
  <2>1. toCheck' \subseteq Listed
    <3>1. \A i \in Stored : i \in 1 .. created /\ row[i].code \in Codes
      BY DEF TypeOK, Row
    <3> QED BY <1>1, <3>1 DEF ListCodes, Listed
  <2> QED BY <1>1, <2>1 DEF ListCodes, TypeOK, CallersOK, Submitting, tables, world, caller, feed, Stored, Listed
<1>2. CASE CheckCode
  <2>1. budget' \in [requests : 0 .. MaxRequests, faults : 0 .. MaxFaults]
    BY <1>2, FaultType DEF CheckCode, TypeOK
  <2>2. toCheck' \subseteq Listed /\ doomed' \subseteq Listed
    BY <1>2 DEF CheckCode, TypeOK
  <2> QED BY <1>2, <2>1, <2>2 DEF CheckCode, TypeOK, CallersOK, Submitting, tables, world, caller, feed, Stored, Listed
<1>3. CASE EndCheck
  BY <1>3 DEF EndCheck, TypeOK, CallersOK, Submitting, tables, world, caller, feed, Stored, Listed
<1>4. CASE BulkDelete
  <2>1. budget' \in [requests : 0 .. MaxRequests, faults : 0 .. MaxFaults]
    BY <1>4, FaultType DEF BulkDelete, TypeOK
  <2>2. Stored' \subseteq 1 .. created' /\ \A i \in Stored' : row'[i] \in Row
    <3>1. CASE row' = Restrict(row, Stored \ Selected)
      BY <1>4, <3>1, RestrictType DEF BulkDelete
    <3>2. CASE UNCHANGED row
      BY <1>4, <3>2 DEF BulkDelete, TypeOK, Stored
    <3> QED BY <1>4, <3>1, <3>2 DEF BulkDelete
  <2> QED BY <1>4, <2>1, <2>2 DEF BulkDelete, TypeOK, CallersOK, Submitting, world, caller, feed, Listed
<1> QED BY <1>1, <1>2, <1>3, <1>4 DEF CleanExpiredRedeemCodes

\* Requests, deletions by administrators, the game and a crash.
LEMMA RestTyped ==
  ASSUME Typed
  PROVE  /\ \A h \in Handlers, k \in Codes, long \in BOOLEAN : SubmitRequest(h, k, long) => Typed'
         /\ \A i \in Stored : DeleteRedeemCode(i) => Typed'
         /\ \A k \in Codes : GameGoesOn(k) => Typed'
         /\ Crash => Typed'
<1> USE DEF Typed
<1>1. ASSUME NEW h \in Handlers, NEW k \in Codes, NEW long \in BOOLEAN, SubmitRequest(h, k, long)
      PROVE  Typed'
  <2>1. h \in Callers
    BY DEF Callers
  <2>2. budget' \in [requests : 0 .. MaxRequests, faults : 0 .. MaxFaults]
    BY <1>1, RequestType DEF SubmitRequest
  <2>3. TypeOK'
    BY <1>1, <2>1, <2>2, SubmitType DEF SubmitRequest, TypeOK, tables, world, feed, cleaner, Stored, Listed
  <2>4. CallersOK'
    BY <1>1, <2>1 DEF SubmitRequest, Submit, TypeOK, CallersOK, Submitting, Submission, Goto, feed
  <2> QED BY <2>3, <2>4
<1>2. ASSUME NEW i \in Stored, DeleteRedeemCode(i) PROVE Typed'
  <2>1. budget' \in [requests : 0 .. MaxRequests, faults : 0 .. MaxFaults]
    BY <1>2, RequestType DEF DeleteRedeemCode
  <2>2. Stored' \subseteq 1 .. created' /\ \A j \in Stored' : row'[j] \in Row
    BY <1>2, RestrictType DEF DeleteRedeemCode
  <2> QED BY <1>2, <2>1, <2>2
          DEF DeleteRedeemCode, TypeOK, CallersOK, Submitting, world, caller, feed, cleaner, Listed
<1>3. ASSUME NEW k \in Codes, GameGoesOn(k) PROVE Typed'
  BY <1>3 DEF GameGoesOn, TypeOK, CallersOK, Submitting, tables, caller, feed, cleaner, Stored, Listed
<1>4. ASSUME Crash PROVE Typed'
  <2>1. budget' \in [requests : 0 .. MaxRequests, faults : 0 .. MaxFaults]
    BY <1>4, FaultType DEF Crash
  <2>2. \A c \in Callers : pc[c] = "enqueue" => sub[c].code \in Codes
    BY DEF CallersOK, Submitting, Submission
  <2>3. dropped' \subseteq Codes
    BY <1>4, <2>2 DEF Crash, TypeOK
  <2>4. TypeOK'
    BY <1>4, <2>1, <2>3 DEF Crash, TypeOK, tables, world, Steps, Stored, Listed, NoSub
  <2>5. CallersOK'
    BY <1>4 DEF Crash, CallersOK, Submitting
  <2> QED BY <2>4, <2>5
<1> QED BY <1>1, <1>2, <1>3, <1>4

LEMMA InitTyped == Init => Typed
<1> SUFFICES ASSUME Init PROVE Typed
  OBVIOUS
<1>1. Stored = {}
  BY DEF Init, Stored
<1>2. budget \in [requests : 0 .. MaxRequests, faults : 0 .. MaxFaults]
  BY MaxRequestsAssumption, MaxFaultsAssumption DEF Init
<1> QED BY <1>1, <1>2 DEF Init, Typed, TypeOK, CallersOK, Submitting, Steps, Listed

LEMMA NextTyped == Typed /\ [Next]_vars => Typed'
<1> SUFFICES ASSUME Typed, [Next]_vars PROVE Typed'
  OBVIOUS
<1>1. ASSUME NEW f \in Fetchers, FetchAndProcessRSS(f) PROVE Typed'
  BY <1>1, SubmissionTyped, FetchTyped DEF FetchAndProcessRSS, Callers
<1>2. ASSUME NEW h \in Handlers, SubmitRedeemCode(h) PROVE Typed'
  BY <1>2, SubmissionTyped DEF Callers
<1>3. CASE UNCHANGED vars
  BY <1>3 DEF Typed, TypeOK, CallersOK, Submitting, vars, world, tables, caller, feed, cleaner, Stored, Listed
<1> QED BY <1>1, <1>2, <1>3, CleaningTyped, RestTyped DEF Next

-----------------------------------------------------------------------------

\* Every variable keeps its type; in particular no row has an id that was not
\* given, and what the cleaning holds are rows that were there once.
THEOREM CronTypeCorrect == Spec => []TypeOK
<1>1. Typed => TypeOK
  BY DEF Typed
<1> QED BY InitTyped, NextTyped, <1>1, PTL DEF Spec

-----------------------------------------------------------------------------
(* What a step may do to the rows, and to a caller that is to insert one.  *)

\* Rows stay as they are, one is added, or some are removed.
LEMMA RowsStep ==
  ASSUME Typed, [Next]_vars
  PROVE  \/ UNCHANGED <<row, created>>
         \/ \E c \in Callers : CreateRedeemCode(c)
         \/ UNCHANGED created /\ \E S \in SUBSET Stored : row' = Restrict(row, S)
<1>1. ASSUME NEW c \in Callers, SubmitRedeemCode(c)
      PROVE  UNCHANGED <<row, created>> \/ CreateRedeemCode(c)
  BY <1>1 DEF SubmitRedeemCode, FindRedeemCodeByCode, CreateDuplicate, SubmitRedeemTask,
              SubmissionFails, tables
<1>2. ASSUME NEW f \in Fetchers, FetchAndProcessRSS(f), ~SubmitRedeemCode(f)
      PROVE  UNCHANGED <<row, created>>
  BY <1>2 DEF FetchAndProcessRSS, Fetch, IsProcessed, OpenArticle, SubmitNext, MarkProcessed,
              EndFetch, tables
<1>3. ASSUME CleanExpiredRedeemCodes
      PROVE  UNCHANGED created /\ (UNCHANGED row \/ row' = Restrict(row, Stored \ Selected))
  BY <1>3 DEF CleanExpiredRedeemCodes, ListCodes, CheckCode, EndCheck, BulkDelete, tables
<1>4. ASSUME NEW h \in Handlers, NEW k \in Codes, NEW long \in BOOLEAN, SubmitRequest(h, k, long)
      PROVE  UNCHANGED <<row, created>>
  BY <1>4 DEF SubmitRequest, tables
<1>5. ASSUME NEW i \in Stored, DeleteRedeemCode(i)
      PROVE  UNCHANGED created /\ row' = Restrict(row, Stored \ {i})
  BY <1>5 DEF DeleteRedeemCode
<1>6. ASSUME (\E k \in Codes : GameGoesOn(k)) \/ Crash \/ UNCHANGED vars
      PROVE  UNCHANGED <<row, created>>
  BY <1>6 DEF GameGoesOn, Crash, vars, tables
<1> QED BY <1>1, <1>2, <1>3, <1>4, <1>5, <1>6 DEF Next, Callers

\* Who is to insert a row has just found none with its code, or has not moved.
LEMMA InsertersStep ==
  ASSUME Typed, [Next]_vars, NEW c \in Callers
  PROVE  /\ seen'[c] \in {0, seen[c], created}
         /\ pc'[c] = "insert" =>
              /\ sub'[c] = sub[c]
              /\ \/ pc[c] = "insert" /\ seen'[c] = seen[c]
                 \/ With(sub[c].code) = {} /\ seen'[c] = created /\ UNCHANGED <<row, created>>
<1> DEFINE Shown == /\ seen'[c] \in {0, seen[c], created}
                    /\ pc'[c] = "insert" =>
                         /\ sub'[c] = sub[c]
                         /\ \/ pc[c] = "insert" /\ seen'[c] = seen[c]
                            \/ With(sub[c].code) = {} /\ seen'[c] = created /\ UNCHANGED <<row, created>>
<1> USE DEF Typed, TypeOK
<1>1. ASSUME NEW d \in Callers, SubmitRedeemCode(d) PROVE Shown
  <2>1. CASE d = c
    BY <1>1, <2>1 DEF SubmitRedeemCode, FindRedeemCodeByCode, CreateRedeemCode, CreateDuplicate,
                      SubmitRedeemTask, SubmissionFails, Return, Goto, tables
  <2>2. CASE d # c
    <3>1. \E w, v, z : pc' = [pc EXCEPT ![d] = w] /\ seen' = [seen EXCEPT ![d] = v]
                       /\ sub' = [sub EXCEPT ![d] = z]
      BY <1>1 DEF SubmitRedeemCode, FindRedeemCodeByCode, CreateRedeemCode, CreateDuplicate,
                  SubmitRedeemTask, SubmissionFails, Return, Goto
    <3> QED BY <2>2, <3>1
  <2> QED BY <2>1, <2>2
<1>2. ASSUME NEW f \in Fetchers,
             Fetch(f) \/ IsProcessed(f) \/ OpenArticle(f) \/ SubmitNext(f) \/ MarkProcessed(f) \/ EndFetch(f)
      PROVE  Shown
  BY <1>2 DEF Fetch, IsProcessed, OpenArticle, SubmitNext, MarkProcessed, EndFetch, Submit, Goto, feed
<1>3. ASSUME NEW h \in Handlers, NEW k \in Codes, NEW long \in BOOLEAN, SubmitRequest(h, k, long)
      PROVE  Shown
  BY <1>3 DEF SubmitRequest, Submit, Goto
<1>4. ASSUME UNCHANGED caller PROVE Shown
  BY <1>4 DEF caller
<1>5. ASSUME Crash PROVE Shown
  BY <1>5 DEF Crash
<1>6. CleanExpiredRedeemCodes => UNCHANGED caller
  BY DEF CleanExpiredRedeemCodes, ListCodes, CheckCode, EndCheck, BulkDelete
<1>7. (\E i \in Stored : DeleteRedeemCode(i)) \/ (\E k \in Codes : GameGoesOn(k)) \/ UNCHANGED vars
      => UNCHANGED caller
  BY DEF DeleteRedeemCode, GameGoesOn, vars
<1> QED BY <1>1, <1>2, <1>3, <1>4, <1>5, <1>6, <1>7 DEF Next, FetchAndProcessRSS, Callers

-----------------------------------------------------------------------------
(* Two rows of one code.                                                   *)

SeenOK ==
  \A c \in Callers :
    /\ seen[c] <= created
    /\ pc[c] = "insert" => \A i \in With(sub[c].code) : seen[c] < i

LEMMA RowsOverlap ==
  ASSUME Typed, Typed', SeenOK, DuplicatesOverlapped, [Next]_vars
  PROVE  SeenOK' /\ DuplicatesOverlapped'
<1>0. UNCHANGED unique
  BY DEF Next, FetchAndProcessRSS, SubmitRedeemCode, FindRedeemCodeByCode, CreateRedeemCode,
         CreateDuplicate, SubmitRedeemTask, SubmissionFails, Fetch, IsProcessed, OpenArticle,
         SubmitNext, MarkProcessed, EndFetch, SubmitRequest, CleanExpiredRedeemCodes, ListCodes,
         CheckCode, EndCheck, BulkDelete, DeleteRedeemCode, GameGoesOn, Crash, vars, world
<1>1. CASE UNCHANGED <<row, created>>
  <2>2. SeenOK'
    BY <1>1, InsertersStep DEF SeenOK, With, Stored, Typed, TypeOK
  <2>3. DuplicatesOverlapped'
    BY <1>0, <1>1 DEF DuplicatesOverlapped, Stored
  <2> QED BY <2>2, <2>3
<1>2. ASSUME NEW c \in Callers, CreateRedeemCode(c) PROVE SeenOK' /\ DuplicatesOverlapped'
  <2>1. sub[c] \in Submission /\ pc[c] = "insert"
    BY <1>2 DEF CreateRedeemCode, Typed, CallersOK, Submitting
  <2>5. created \in Nat /\ \A i \in Stored : i \in 1 .. created
    BY DEF Typed, TypeOK
  <2>2. /\ created \in Nat /\ created' = created + 1
        /\ Stored' = Stored \cup {created'} /\ created' \notin Stored
        /\ \A i \in Stored : row'[i] = row[i]
        /\ row'[created'].code = sub[c].code /\ row'[created'].seen = seen[c]
        /\ \A i \in Stored : i \in 1 .. created
    <3>1. TypeOK
      BY DEF Typed
    <3>2. /\ created' = created + 1 /\ created' \notin Stored
          /\ Stored' = Stored \cup {created'}
          /\ \A i \in Stored : row'[i] = row[i]
          /\ row'[created'] = [ code |-> sub[c].code, long |-> sub[c].long, seen |-> seen[c],
                                early |-> game[sub[c].code] = "unknown" ]
      BY <1>2, <2>1, <3>1, CreateAddsRow
    <3> QED BY <2>5, <3>2
  <2>3. SeenOK'
    <3> SUFFICES ASSUME NEW d \in Callers
                 PROVE  /\ seen'[d] <= created'
                        /\ pc'[d] = "insert" => \A i \in With(sub[d].code)' : seen'[d] < i
      BY DEF SeenOK
    <3>1. seen[d] \in Nat /\ seen[d] <= created
      BY DEF SeenOK, Typed, TypeOK
    <3>2. seen'[d] <= created'
      BY <2>2, <3>1, InsertersStep
    <3>3. ASSUME pc'[d] = "insert", NEW i \in With(sub[d].code)' PROVE seen'[d] < i
      <4>1. created' # created
        BY <2>2
      <4>2. sub'[d] = sub[d] /\ pc[d] = "insert" /\ seen'[d] = seen[d]
        BY <3>3, <4>1, InsertersStep
      <4>3. CASE i = created'
        BY <2>2, <3>1, <4>2, <4>3
      <4>4. CASE i # created'
        <5>1. i \in With(sub[d].code)
          BY <2>2, <3>3, <4>2, <4>4 DEF With
        <5> QED BY <4>2, <5>1 DEF SeenOK
      <4> QED BY <4>3, <4>4
    <3> QED BY <3>2, <3>3
  <2>4. DuplicatesOverlapped'
    <3> SUFFICES ASSUME NEW i \in Stored', NEW j \in Stored', i < j, row'[i].code = row'[j].code
                 PROVE  ~unique /\ row'[j].seen < i
      BY <1>0 DEF DuplicatesOverlapped
    <3>1. i \in Stored
      BY <2>2
    <3>2. CASE j \in Stored
      BY <2>2, <3>1, <3>2 DEF DuplicatesOverlapped
    <3>3. CASE j = created'
      <4>1. i \in With(sub[c].code)
        BY <2>2, <3>1, <3>3 DEF With
      <4> QED BY <1>2, <2>1, <2>2, <3>3, <4>1 DEF CreateRedeemCode, SeenOK
    <3> QED BY <2>2, <3>2, <3>3
  <2> QED BY <2>3, <2>4
<1>3. ASSUME UNCHANGED created, NEW S \in SUBSET Stored, row' = Restrict(row, S)
      PROVE  SeenOK' /\ DuplicatesOverlapped'
  <2>1. Stored' = S /\ \A i \in S : row'[i] = row[i]
    BY <1>3, RestrictType DEF Typed
  <2>2. SeenOK'
    BY <1>3, <2>1, InsertersStep DEF SeenOK, With, Typed, TypeOK
  <2>3. DuplicatesOverlapped'
    BY <1>0, <2>1 DEF DuplicatesOverlapped
  <2> QED BY <2>2, <2>3
<1> QED BY <1>1, <1>2, <1>3, RowsStep

-----------------------------------------------------------------------------
(* Codes that are handled, and the articles they come from.                *)

Handled(k) ==
  \/ k \in dropped
  \/ k \in tasks
  \/ \E c \in Callers : pc[c] = "enqueue" /\ sub[c].code = k

RowsHandled == \A i \in Stored : Handled(row[i].code)

\* Of an article that is read, each code is still to be submitted, is being
\* submitted, or is handled.
ArticlesHandled ==
  \A f \in Fetchers : article[f] # NoArticle =>
    \A k \in content[article[f]] :
      \/ k \in todo[f] \/ Handled(k)
      \/ pc[f] \in {"find", "insert"} /\ sub[f].code = k

\* What is handled stays so: only its task or a failure ends the submission.
LEMMA HandledStays ==
  ASSUME Typed, [Next]_vars, NEW k, Handled(k)
  PROVE  Handled(k)'
<1> USE DEF Typed, TypeOK
<1>1. ASSUME NEW d \in Callers, SubmitRedeemCode(d) PROVE Handled(k)'
  <2>1. dropped \subseteq dropped' /\ tasks \subseteq tasks'
    BY <1>1 DEF SubmitRedeemCode, FindRedeemCodeByCode, CreateRedeemCode, CreateDuplicate,
                SubmitRedeemTask, SubmissionFails, Drop, tables
  <2>2. \E w, z : pc' = [pc EXCEPT ![d] = w] /\ sub' = [sub EXCEPT ![d] = z]
    BY <1>1 DEF SubmitRedeemCode, FindRedeemCodeByCode, CreateRedeemCode, CreateDuplicate,
                SubmitRedeemTask, SubmissionFails, Return, Goto
  <2>3. pc[d] = "enqueue" => sub[d].code \in dropped' \/ sub[d].code \in tasks'
    BY <1>1 DEF SubmitRedeemCode, FindRedeemCodeByCode, CreateRedeemCode, CreateDuplicate,
                SubmitRedeemTask, SubmissionFails, Drop
  <2> QED BY <2>1, <2>2, <2>3 DEF Handled
<1>2. ASSUME NEW f \in Fetchers,
             Fetch(f) \/ IsProcessed(f) \/ OpenArticle(f) \/ SubmitNext(f) \/ MarkProcessed(f) \/ EndFetch(f)
      PROVE  Handled(k)'
  <2>1. UNCHANGED <<dropped, tasks>> /\ pc[f] # "enqueue" /\ f \in Callers
    BY <1>2 DEF Fetch, IsProcessed, OpenArticle, SubmitNext, MarkProcessed, EndFetch, tables, Callers
  <2>2. (\E w : pc' = [pc EXCEPT ![f] = w]) /\ (\E z : sub' = [sub EXCEPT ![f] = z])
    <3>1. pc' = [pc EXCEPT ![f] = pc[f]] \/ \E w : pc' = [pc EXCEPT ![f] = w]
      BY <1>2 DEF Fetch, IsProcessed, OpenArticle, SubmitNext, MarkProcessed, EndFetch, Submit, Goto
    <3>2. sub' = [sub EXCEPT ![f] = sub[f]] \/ \E z : sub' = [sub EXCEPT ![f] = z]
      BY <1>2 DEF Fetch, IsProcessed, OpenArticle, SubmitNext, MarkProcessed, EndFetch, Submit
    <3> QED BY <3>1, <3>2
  <2> QED BY <2>1, <2>2 DEF Handled
<1>3. ASSUME NEW h \in Handlers, NEW j \in Codes, NEW long \in BOOLEAN, SubmitRequest(h, j, long)
      PROVE  Handled(k)'
  <2>1. UNCHANGED <<dropped, tasks>> /\ pc[h] # "enqueue" /\ h \in Callers
    BY <1>3 DEF SubmitRequest, tables, Callers
  <2>2. (\E w : pc' = [pc EXCEPT ![h] = w]) /\ (\E z : sub' = [sub EXCEPT ![h] = z])
    BY <1>3 DEF SubmitRequest, Submit, Goto
  <2> QED BY <2>1, <2>2 DEF Handled
<1>4. ASSUME UNCHANGED <<tasks, dropped, caller>> PROVE Handled(k)'
  BY <1>4 DEF caller, Handled
<1>5. ASSUME Crash PROVE Handled(k)'
  <2>1. UNCHANGED tasks
        /\ dropped' = dropped \cup {sub[c].code : c \in {d \in Callers : pc[d] = "enqueue"}}
    BY <1>5 DEF Crash, tables
  <2>2. ASSUME NEW c \in Callers, pc[c] = "enqueue" PROVE sub[c].code \in dropped'
    BY <2>1, <2>2
  <2> QED BY <2>1, <2>2 DEF Handled
<1>6. CleanExpiredRedeemCodes => UNCHANGED <<tasks, dropped, caller>>
  BY DEF CleanExpiredRedeemCodes, ListCodes, CheckCode, EndCheck, BulkDelete, tables
<1>7. (\E i \in Stored : DeleteRedeemCode(i)) \/ (\E j \in Codes : GameGoesOn(j)) \/ UNCHANGED vars
      => UNCHANGED <<tasks, dropped, caller>>
  BY DEF DeleteRedeemCode, GameGoesOn, vars, tables
<1> QED BY <1>1, <1>2, <1>3, <1>4, <1>5, <1>6, <1>7 DEF Next, FetchAndProcessRSS, Callers

\* A row is only inserted by somebody who then submits its task.
LEMMA RowsStayHandled ==
  ASSUME Typed, RowsHandled, [Next]_vars
  PROVE  RowsHandled'
<1>1. CASE UNCHANGED <<row, created>>
  BY <1>1, HandledStays DEF RowsHandled, Stored
<1>2. ASSUME NEW c \in Callers, CreateRedeemCode(c) PROVE RowsHandled'
  <2>1. sub[c] \in Submission
    BY <1>2 DEF CreateRedeemCode, Typed, CallersOK, Submitting
  <2>2. /\ Stored' = Stored \cup {created'}
        /\ \A i \in Stored : row'[i] = row[i]
        /\ row'[created'].code = sub[c].code
    <3>1. TypeOK
      BY DEF Typed
    <3>2. row'[created'] = [ code |-> sub[c].code, long |-> sub[c].long, seen |-> seen[c],
                             early |-> game[sub[c].code] = "unknown" ]
      BY <1>2, <2>1, <3>1, CreateAddsRow
    <3> QED BY <1>2, <2>1, <3>1, <3>2, CreateAddsRow
  <2>3. pc'[c] = "enqueue" /\ sub'[c] = sub[c]
    BY <1>2 DEF CreateRedeemCode, Goto, Typed, TypeOK
  <2> QED BY <2>2, <2>3, HandledStays DEF RowsHandled, Handled
<1>3. ASSUME NEW S \in SUBSET Stored, UNCHANGED created, row' = Restrict(row, S) PROVE RowsHandled'
  BY <1>3, RestrictType, HandledStays DEF RowsHandled, Typed
<1> QED BY <1>1, <1>2, <1>3, RowsStep

\* A submission leaves its own code handled, and does not touch the others.
LEMMA SubmissionHandles ==
  ASSUME Typed, RowsHandled, NEW c \in Callers, SubmitRedeemCode(c), [Next]_vars,
         NEW k, k = sub[c].code
  PROVE  /\ UNCHANGED <<content, marked, article, todo>>
         /\ \A d \in Callers \ {c} : pc'[d] = pc[d] /\ sub'[d] = sub[d]
         /\ Handled(k)' \/ (pc'[c] = "insert" /\ sub'[c].code = k)
<1> USE DEF Typed, TypeOK
<1>1. /\ UNCHANGED <<content, marked, article, todo>>
      /\ \E w, z : pc' = [pc EXCEPT ![c] = w] /\ sub' = [sub EXCEPT ![c] = z]
  BY DEF SubmitRedeemCode, FindRedeemCodeByCode, CreateRedeemCode, CreateDuplicate,
         SubmitRedeemTask, SubmissionFails, Return, Goto, tables, world, feed
<1>2. ASSUME With(k) # {} PROVE Handled(k)'
  <2>1. Handled(k)
    BY <1>2 DEF With, RowsHandled
  <2> QED BY <2>1, HandledStays
<1>3. CASE FindRedeemCodeByCode(c)
  BY <1>1, <1>2, <1>3 DEF FindRedeemCodeByCode, Goto
<1>4. CASE CreateRedeemCode(c)
  <2>1. pc'[c] = "enqueue" /\ sub'[c] = sub[c]
    BY <1>4 DEF CreateRedeemCode, Goto
  <2> QED BY <1>1, <2>1 DEF Handled
<1>5. CASE CreateDuplicate(c)
  BY <1>1, <1>2, <1>5 DEF CreateDuplicate
<1>6. CASE SubmitRedeemTask(c)
  <2>1. k \in tasks'
    BY <1>6 DEF SubmitRedeemTask
  <2> QED BY <1>1, <2>1 DEF Handled
<1>7. CASE SubmissionFails(c)
  <2>1. k \in dropped'
    BY <1>7 DEF SubmissionFails, Drop
  <2> QED BY <1>1, <2>1 DEF Handled
<1> QED BY <1>1, <1>3, <1>4, <1>5, <1>6, <1>7 DEF SubmitRedeemCode

LEMMA ArticlesStayHandled ==
  ASSUME Typed, RowsHandled, ArticlesHandled, MarkedIsHandled, [Next]_vars
  PROVE  ArticlesHandled' /\ MarkedIsHandled'
<1> USE DEF Typed, TypeOK
<1>0. \A a \in marked : \A k \in content[a] : Handled(k)
  BY DEF MarkedIsHandled, Handled
<1>1. ASSUME UNCHANGED <<content, marked>> PROVE MarkedIsHandled'
  <2>1. \A a \in marked' : \A k \in content'[a] : Handled(k)'
    BY <1>0, <1>1, HandledStays
  <2> QED BY <2>1 DEF MarkedIsHandled, Handled
<1>2. ASSUME UNCHANGED <<content, article, todo, pc, sub>> PROVE ArticlesHandled'
  BY <1>2, HandledStays DEF ArticlesHandled
<1>3. ASSUME NEW c \in Callers, SubmitRedeemCode(c) PROVE ArticlesHandled' /\ MarkedIsHandled'
  <2>1. MarkedIsHandled'
    BY <1>1, <1>3, SubmissionHandles
  <2>2. ArticlesHandled'
    <3> SUFFICES ASSUME NEW f \in Fetchers, article[f] # NoArticle, NEW k \in content[article[f]]
                 PROVE  \/ k \in todo[f] \/ Handled(k)'
                        \/ pc'[f] \in {"find", "insert"} /\ sub'[f].code = k
      <4>1. UNCHANGED <<content, article, todo>>
        BY <1>3, SubmissionHandles
      <4> QED BY <4>1 DEF ArticlesHandled
    <3>1. f \in Callers
      BY DEF Callers
    <3>2. CASE k \in todo[f] \/ Handled(k)
      BY <3>2, HandledStays
    <3>3. CASE pc[f] \in {"find", "insert"} /\ sub[f].code = k
      <4>1. CASE f = c
        BY <1>3, <3>3, <4>1, SubmissionHandles
      <4>2. CASE f # c
        BY <1>3, <3>1, <3>3, <4>2, SubmissionHandles
      <4> QED BY <4>1, <4>2
    <3> QED BY <3>2, <3>3 DEF ArticlesHandled
  <2> QED BY <2>1, <2>2
<1>4. ASSUME NEW f \in Fetchers, OpenArticle(f) PROVE ArticlesHandled' /\ MarkedIsHandled'
  <2>1. MarkedIsHandled'
    BY <1>1, <1>4 DEF OpenArticle, tables, world
  <2>2. PICK a \in unread[f] \ marked :
          article' = [article EXCEPT ![f] = a] /\ todo' = [todo EXCEPT ![f] = content[a]]
    BY <1>4 DEF OpenArticle
  <2>3. article'[f] = a /\ todo'[f] = content[a] /\ UNCHANGED <<content, sub>>
    BY <1>4, <2>2 DEF OpenArticle, world, Callers
  <2>4. \A g \in Fetchers \ {f} : article'[g] = article[g] /\ todo'[g] = todo[g] /\ pc'[g] = pc[g]
    BY <1>4, <2>2 DEF OpenArticle, Goto, Callers
  <2> QED BY <2>1, <2>3, <2>4, HandledStays DEF ArticlesHandled
<1>5. ASSUME NEW f \in Fetchers, SubmitNext(f) PROVE ArticlesHandled' /\ MarkedIsHandled'
  <2>1. MarkedIsHandled'
    BY <1>1, <1>5 DEF SubmitNext, tables, world
  <2>2. PICK j \in todo[f] : todo' = [todo EXCEPT ![f] = @ \ {j}] /\ Submit(f, j, FALSE)
    BY <1>5 DEF SubmitNext
  <2>3. /\ todo'[f] = todo[f] \ {j} /\ pc[f] = "codes" /\ pc'[f] = "find" /\ sub'[f].code = j
        /\ UNCHANGED <<content, article>>
    BY <1>5, <2>2 DEF SubmitNext, Submit, Goto, world, Callers
  <2>4. \A g \in Fetchers \ {f} : todo'[g] = todo[g] /\ pc'[g] = pc[g] /\ sub'[g] = sub[g]
    BY <2>2 DEF Submit, Goto, Callers
  <2> QED BY <2>1, <2>3, <2>4, HandledStays DEF ArticlesHandled
<1>6. ASSUME NEW f \in Fetchers, MarkProcessed(f) PROVE ArticlesHandled' /\ MarkedIsHandled'
  <2>1. /\ pc[f] = "codes" /\ todo[f] = {} /\ marked' \in {marked, marked \cup {article[f]}}
        /\ article' = [article EXCEPT ![f] = NoArticle] /\ pc' = [pc EXCEPT ![f] = "articles"]
        /\ UNCHANGED <<content, todo, sub>>
    BY <1>6 DEF MarkProcessed, Goto, world
  <2>2. article[f] # NoArticle
    BY <2>1 DEF CallersOK, Callers
  <2>3. \A k \in content[article[f]] : Handled(k)
    BY <2>1, <2>2 DEF ArticlesHandled
  <2>4. MarkedIsHandled'
    <3>1. \A a \in marked' : \A k \in content'[a] : Handled(k)'
      BY <1>0, <2>1, <2>3, HandledStays
    <3> QED BY <3>1 DEF MarkedIsHandled, Handled
  <2>5. /\ article'[f] = NoArticle
        /\ \A g \in Fetchers \ {f} : article'[g] = article[g] /\ pc'[g] = pc[g]
    BY <2>1 DEF Callers
  <2>6. ArticlesHandled'
    BY <2>1, <2>5, HandledStays DEF ArticlesHandled
  <2> QED BY <2>4, <2>6
<1>7. ASSUME NEW f \in Fetchers, Fetch(f) \/ IsProcessed(f) \/ EndFetch(f)
      PROVE  ArticlesHandled' /\ MarkedIsHandled'
  <2>1. /\ UNCHANGED <<content, marked, article, todo, sub>>
        /\ pc[f] \notin {"find", "insert"} /\ \A g \in Callers \ {f} : pc'[g] = pc[g]
    BY <1>7 DEF Fetch, IsProcessed, EndFetch, Goto, tables, world, feed
  <2> QED BY <1>1, <2>1, HandledStays DEF ArticlesHandled, Callers
<1>8. ASSUME NEW h \in Handlers, NEW j \in Codes, NEW long \in BOOLEAN, SubmitRequest(h, j, long)
      PROVE  ArticlesHandled' /\ MarkedIsHandled'
  <2>1. /\ UNCHANGED <<content, marked, article, todo>>
        /\ pc[h] = "idle"
        /\ \A g \in Callers \ {h} : pc'[g] = pc[g] /\ sub'[g] = sub[g]
    BY <1>8 DEF SubmitRequest, Submit, Goto, tables, world, feed
  <2> QED BY <1>1, <2>1, HandledStays DEF ArticlesHandled, Callers
<1>9. ASSUME Crash PROVE ArticlesHandled' /\ MarkedIsHandled'
  <2>1. UNCHANGED <<content, marked>> /\ \A c \in Callers : article'[c] = NoArticle
    BY <1>9 DEF Crash, tables, world
  <2> QED BY <1>1, <2>1 DEF ArticlesHandled, Callers
<1>10. \/ CleanExpiredRedeemCodes \/ (\E i \in Stored : DeleteRedeemCode(i))
       \/ (\E j \in Codes : GameGoesOn(j)) \/ UNCHANGED vars
       => UNCHANGED <<content, marked, article, todo, pc, sub>>
  BY DEF CleanExpiredRedeemCodes, ListCodes, CheckCode, EndCheck, BulkDelete, DeleteRedeemCode,
         GameGoesOn, vars, tables, world, caller, feed
<1> QED BY <1>1, <1>2, <1>3, <1>4, <1>5, <1>6, <1>7, <1>8, <1>9, <1>10
        DEF Next, FetchAndProcessRSS, Callers

-----------------------------------------------------------------------------
(* What the cleaning holds.                                                *)

\* A row whose code the game does not know yet was submitted too early.
RowsEarly == \A i \in Stored : game[row[i].code] = "unknown" => row[i].early

\* A row that was read is still the same, whatever has happened to its code.
ListedRows ==
  \A r \in toCheck \cup doomed :
    r.id \in Stored => row[r.id].code = r.code /\ ~row[r.id].long

\* What is to be deleted has expired for good, or was submitted too early.
DoomedRows ==
  \A r \in doomed : r.id \in Stored => game[r.code] = "expired" \/ row[r.id].early

Cleanable == RowsEarly /\ ListedRows /\ DoomedRows

\* New rows have new ids, so they are never among those that were read.
LEMMA RowsStayCleanable ==
  ASSUME Typed, Cleanable, [Next]_vars, UNCHANGED game,
         toCheck' \in {toCheck, {}}, doomed' \in {doomed, {}}
  PROVE  Cleanable'
<1>1. CASE UNCHANGED <<row, created>>
  BY <1>1 DEF Cleanable, RowsEarly, ListedRows, DoomedRows, Stored
<1>2. ASSUME NEW S \in SUBSET Stored, UNCHANGED created, row' = Restrict(row, S) PROVE Cleanable'
  <2>1. TypeOK
    BY DEF Typed
  <2>2. Stored' = S /\ \A i \in S : row'[i] = row[i]
    BY <1>2, <2>1, RestrictType
  <2> QED BY <2>2 DEF Cleanable, RowsEarly, ListedRows, DoomedRows
<1>3. ASSUME NEW c \in Callers, CreateRedeemCode(c) PROVE Cleanable'
  <2>1. TypeOK /\ sub[c] \in Submission
    BY <1>3 DEF CreateRedeemCode, Typed, CallersOK, Submitting
  <2>2. /\ created' = created + 1
        /\ Stored' = Stored \cup {created'}
        /\ \A i \in Stored : row'[i] = row[i]
        /\ row'[created'] = [ code |-> sub[c].code, long |-> sub[c].long, seen |-> seen[c],
                              early |-> game[sub[c].code] = "unknown" ]
    BY <1>3, <2>1, CreateAddsRow
  <2>3. \A r \in toCheck \cup doomed : r.id \in Stored' => r.id \in Stored
    <3>1. created \in Nat /\ \A r \in toCheck \cup doomed : r.id \in 1 .. created
      BY <2>1 DEF TypeOK, Listed
    <3> QED BY <2>2, <3>1
  <2>4. RowsEarly'
    <3>1. RowsEarly /\ game' = game
      BY DEF Cleanable
    <3> SUFFICES ASSUME NEW i \in Stored', game'[row'[i].code] = "unknown" PROVE row'[i].early
      BY DEF RowsEarly
    <3>2. CASE i \in Stored
      BY <2>2, <3>1, <3>2 DEF RowsEarly
    <3>3. CASE i = created'
      <4>1. row'[i].code = sub[c].code /\ row'[i].early = (game[sub[c].code] = "unknown")
        BY <2>2, <3>3
      <4> QED BY <3>1, <4>1
    <3> QED BY <2>2, <3>2, <3>3
  <2>5. ListedRows' /\ DoomedRows'
    BY <2>2, <2>3 DEF Cleanable, ListedRows, DoomedRows
  <2> QED BY <2>4, <2>5 DEF Cleanable
<1> QED BY <1>1, <1>2, <1>3, RowsStep

LEMMA NextCleanable == Typed /\ Cleanable /\ [Next]_vars => Cleanable'
<1> SUFFICES ASSUME Typed, Cleanable, [Next]_vars PROVE Cleanable'
  OBVIOUS
<1>1. ASSUME ListCodes PROVE Cleanable'
  <2>1. UNCHANGED <<row, game, doomed>>
        /\ toCheck' = {[id |-> i, code |-> row[i].code] : i \in {j \in Stored : ~row[j].long}}
    BY <1>1 DEF ListCodes, tables, world
  <2> QED BY <2>1 DEF Cleanable, RowsEarly, ListedRows, DoomedRows, Stored
<1>2. ASSUME CheckCode PROVE Cleanable'
  <2>1. UNCHANGED <<row, game>>
    BY <1>2 DEF CheckCode, tables, world
  <2>2. PICK r \in toCheck :
          /\ toCheck' = toCheck \ {r}
          /\ doomed' = doomed \/ (doomed' = doomed \cup {r} /\ Gone(r.code))
    BY <1>2 DEF CheckCode
  <2>3. Gone(r.code) /\ r.id \in Stored => game[r.code] = "expired" \/ row[r.id].early
    BY DEF Gone, Cleanable, RowsEarly, ListedRows
  <2> QED BY <2>1, <2>2, <2>3 DEF Cleanable, RowsEarly, ListedRows, DoomedRows, Stored
<1>3. ASSUME NEW k \in Codes, GameGoesOn(k) PROVE Cleanable'
  <2>1. UNCHANGED <<row, toCheck, doomed>>
    BY <1>3 DEF GameGoesOn, tables, cleaner
  <2>2. /\ \A i \in Stored : row[i].code \in Codes
        /\ \A r \in toCheck \cup doomed : r.code \in Codes
        /\ game \in [Codes -> {"unknown", "live", "expired"}]
    BY DEF Typed, TypeOK, Row, Listed
  <2>3. \A x \in Codes : /\ game'[x] = "unknown" => game[x] = "unknown"
                         /\ game[x] = "expired" => game'[x] = "expired"
    BY <1>3, <2>2 DEF GameGoesOn
  <2>4. RowsEarly'
    <3> SUFFICES ASSUME NEW i \in Stored, game'[row[i].code] = "unknown" PROVE row[i].early
      BY <2>1 DEF RowsEarly, Stored
    <3>1. game[row[i].code] = "unknown"
      BY <2>2, <2>3
    <3> QED BY <3>1 DEF Cleanable, RowsEarly
  <2>5. ListedRows'
    BY <2>1 DEF Cleanable, ListedRows, Stored
  <2>6. DoomedRows'
    <3> SUFFICES ASSUME NEW r \in doomed, r.id \in Stored
                 PROVE  game'[r.code] = "expired" \/ row[r.id].early
      BY <2>1 DEF DoomedRows, Stored
    <3>1. game[r.code] = "expired" \/ row[r.id].early
      BY DEF Cleanable, DoomedRows
    <3>2. game[r.code] = "expired" => game'[r.code] = "expired"
      BY <2>2, <2>3
    <3> QED BY <3>1, <3>2
  <2> QED BY <2>4, <2>5, <2>6 DEF Cleanable
<1>4. ASSUME NEW c \in Callers, SubmitRedeemCode(c) PROVE UNCHANGED <<game, cleaner>>
  BY <1>4 DEF SubmitRedeemCode, FindRedeemCodeByCode, CreateRedeemCode, CreateDuplicate,
              SubmitRedeemTask, SubmissionFails, world
<1>5. ASSUME NEW f \in Fetchers,
             Fetch(f) \/ IsProcessed(f) \/ OpenArticle(f) \/ SubmitNext(f) \/ MarkProcessed(f) \/ EndFetch(f)
      PROVE  UNCHANGED <<game, cleaner>>
  BY <1>5 DEF Fetch, IsProcessed, OpenArticle, SubmitNext, MarkProcessed, EndFetch, world
<1>6. ASSUME \/ \E h \in Handlers, k \in Codes, long \in BOOLEAN : SubmitRequest(h, k, long)
             \/ \E i \in Stored : DeleteRedeemCode(i)
             \/ UNCHANGED vars
      PROVE  UNCHANGED <<game, cleaner>>
  BY <1>6 DEF SubmitRequest, DeleteRedeemCode, world, vars
<1>7. ASSUME EndCheck \/ BulkDelete \/ Crash
      PROVE  UNCHANGED game /\ toCheck' \in {toCheck, {}} /\ doomed' \in {doomed, {}}
  BY <1>7 DEF EndCheck, BulkDelete, Crash, world
<1> QED BY <1>1, <1>2, <1>3, <1>4, <1>5, <1>6, <1>7, RowsStayCleanable
        DEF Next, CleanExpiredRedeemCodes, FetchAndProcessRSS, Callers, cleaner

\* Only the deletion at the end of a cleaning, or a crash, leads out of it.
LEMMA CleaningSpares ==
  ASSUME Typed, Cleanable, [Next]_vars, cleaning = "delete", cleaning' = "idle",
         NEW i \in Stored \ Stored'
  PROVE  ~row[i].long /\ (game[row[i].code] # "live" \/ row[i].early)
<1>1. BulkDelete \/ Crash
  BY DEF Next, FetchAndProcessRSS, SubmitRedeemCode, FindRedeemCodeByCode, CreateRedeemCode,
         CreateDuplicate, SubmitRedeemTask, SubmissionFails, Fetch, IsProcessed, OpenArticle,
         SubmitNext, MarkProcessed, EndFetch, SubmitRequest, CleanExpiredRedeemCodes, ListCodes,
         CheckCode, EndCheck, DeleteRedeemCode, GameGoesOn, vars, cleaner
<1>2. i \in Selected
  <2>1. row' # row
    BY DEF Stored
  <2>2. row' = Restrict(row, Stored \ Selected)
    BY <1>1, <2>1 DEF BulkDelete, Crash, tables
  <2>3. Stored' = Stored \ Selected
    BY <2>2 DEF Restrict, Stored
  <2> QED BY <2>3
<1>3. PICK r \in doomed : r.id = i
  BY <1>2 DEF Selected
<1> QED BY <1>3 DEF Cleanable, ListedRows, DoomedRows

-----------------------------------------------------------------------------
(* The theorems.                                                           *)

IInv ==
  /\ Typed
  /\ SeenOK /\ DuplicatesOverlapped
  /\ RowsHandled /\ ArticlesHandled /\ MarkedIsHandled
  /\ Cleanable

LEMMA InitIInv == Init => IInv
<1> SUFFICES ASSUME Init PROVE IInv
  OBVIOUS
<1>1. Stored = {}
  BY DEF Init, Stored
<1>2. SeenOK
  <2>1. \A c \in Callers : seen[c] = 0 /\ pc[c] = "idle"
    BY DEF Init
  <2> QED BY <2>1 DEF Init, SeenOK
<1>3. ArticlesHandled
  BY DEF Init, ArticlesHandled, Callers
<1>4. MarkedIsHandled
  BY DEF Init, MarkedIsHandled
<1>5. Cleanable
  BY <1>1 DEF Init, Cleanable, RowsEarly, ListedRows, DoomedRows
<1> QED BY <1>1, <1>2, <1>3, <1>4, <1>5, InitTyped DEF IInv, DuplicatesOverlapped, RowsHandled

LEMMA NextKeepsIInv == IInv /\ [Next]_vars => IInv'
<1> SUFFICES ASSUME IInv, [Next]_vars PROVE IInv'
  OBVIOUS
<1>1. Typed'
  BY NextTyped DEF IInv
<1>2. SeenOK' /\ DuplicatesOverlapped'
  BY <1>1, RowsOverlap DEF IInv
<1>3. RowsHandled'
  BY RowsStayHandled DEF IInv
<1>4. ArticlesHandled' /\ MarkedIsHandled'
  BY ArticlesStayHandled DEF IInv
<1>5. Cleanable'
  BY NextCleanable DEF IInv
<1> QED BY <1>1, <1>2, <1>3, <1>4, <1>5 DEF IInv

\* Whoever submits whatever when, two rows of one code come from overlapping
\* submissions only: the later had found no row before the earlier was
\* inserted (FindRedeemCodeByCode and CreateRedeemCode of SubmitRedeemCode).
THEOREM DuplicatesOnlyOverlapping == Spec => []DuplicatesOverlapped
<1>1. IInv => DuplicatesOverlapped
  BY DEF IInv
<1> QED BY InitIInv, NextKeepsIInv, <1>1, PTL DEF Spec

\* No code of a marked article is lost but by a failure of its submission, for
\* any number of fetches that overlap (FetchAndProcessRSS).
THEOREM MarkedOnlyWhenHandled == Spec => []MarkedIsHandled
<1>1. IInv => MarkedIsHandled
  BY DEF IInv
<1> QED BY InitIInv, NextKeepsIInv, <1>1, PTL DEF Spec

\* The cleaning deletes no long-term row, and none of a code that is live and
\* was known when it was submitted, although it works on a list that is old
\* (cleanExpiredRedeemCodes, BulkDeleteRedeemCodes).
THEOREM CleaningDeletesGoneOnly == Spec => CleaningSparesValid
<1>1. IInv /\ [Next]_vars =>
        [cleaning = "delete" /\ cleaning' = "idle" =>
           \A i \in Stored \ Stored' :
             ~row[i].long /\ (game[row[i].code] # "live" \/ row[i].early)]_vars
  BY CleaningSpares DEF IInv
<1> QED BY InitIInv, NextKeepsIInv, <1>1, PTL DEF Spec, CleaningSparesValid

-----------------------------------------------------------------------------
(* Submissions, fetches and the cleaning come to an end.                   *)

\* How many statements of a submission are left, and of the loop around it.
Place(c) ==
  CASE pc[c] = "find"     -> 5
    [] pc[c] = "insert"   -> 4
    [] pc[c] = "enqueue"  -> 3
    [] pc[c] = "codes"    -> 2
    [] pc[c] = "articles" -> 1
    [] OTHER              -> 0

\* What an entry of the feed may cost, with all the codes it can have.
StepsOfEntry == 5 * Cardinality(Codes) + 3

EntriesLeft(c) == IF c \in Fetchers THEN Cardinality(unread[c]) ELSE 0
CodesLeft(c)   == IF c \in Fetchers THEN Cardinality(todo[c]) ELSE 0

StepsLeft(c) == StepsOfEntry * EntriesLeft(c) + 5 * CodesLeft(c) + Place(c)

\* The most there can be.
StepsOfFetch == StepsOfEntry * Cardinality(Articles) + 5 * Cardinality(Codes) + 5

ChecksLeft ==
  CASE cleaning = "check"  -> Cardinality(toCheck) + 2
    [] cleaning = "delete" -> 1
    [] OTHER               -> 0

\* A step of a submission or of a fetch.
Moves(c) == SubmitRedeemCode(c) \/ (c \in Fetchers /\ FetchAndProcessRSS(c))

\* No step is anybody else's than a caller's, the cleaning's, a person's, the
\* game's or the end of the process.
LEMMA WhoseStep ==
  ASSUME [Next]_vars
  PROVE  \/ \E c \in Callers : Moves(c)
         \/ \E h \in Handlers, k \in Codes, long \in BOOLEAN : SubmitRequest(h, k, long)
         \/ CleanExpiredRedeemCodes
         \/ \E i \in Stored : DeleteRedeemCode(i)
         \/ \E k \in Codes : GameGoesOn(k)
         \/ Crash
         \/ UNCHANGED vars
<1>1. ASSUME NEW f \in Fetchers, FetchAndProcessRSS(f) PROVE \E c \in Callers : Moves(c)
  BY <1>1 DEF Moves, Callers
<1>2. ASSUME NEW h \in Handlers, SubmitRedeemCode(h) PROVE \E c \in Callers : Moves(c)
  BY <1>2 DEF Moves, Callers
<1> QED BY <1>1, <1>2 DEF Next

LEMMA FeedFinite ==
  ASSUME TypeOK, NEW c \in Callers
  PROVE  /\ Cardinality(Codes) \in Nat /\ Cardinality(Articles) \in Nat /\ StepsOfEntry \in Nat
         /\ EntriesLeft(c) \in 0 .. Cardinality(Articles)
         /\ CodesLeft(c) \in 0 .. Cardinality(Codes)
         /\ Place(c) \in 0 .. 5
         /\ c \in Fetchers => IsFiniteSet(unread[c]) /\ IsFiniteSet(todo[c])
<1>1. Cardinality(Codes) \in Nat /\ Cardinality(Articles) \in Nat
  BY CodesAssumption, ArticlesAssumption, FS_CardinalityType
<1>2. ASSUME c \in Fetchers
      PROVE  /\ IsFiniteSet(unread[c]) /\ Cardinality(unread[c]) \in 0 .. Cardinality(Articles)
             /\ IsFiniteSet(todo[c]) /\ Cardinality(todo[c]) \in 0 .. Cardinality(Codes)
  <2>1. unread[c] \in SUBSET Articles /\ todo[c] \in SUBSET Codes
    BY <1>2 DEF TypeOK
  <2>2. /\ IsFiniteSet(unread[c]) /\ Cardinality(unread[c]) <= Cardinality(Articles)
        /\ IsFiniteSet(todo[c]) /\ Cardinality(todo[c]) <= Cardinality(Codes)
    BY <2>1, CodesAssumption, ArticlesAssumption, FS_Subset
  <2>3. Cardinality(unread[c]) \in Nat /\ Cardinality(todo[c]) \in Nat
    BY <2>2, FS_CardinalityType
  <2> QED BY <1>1, <2>2, <2>3
<1>3. Place(c) \in 0 .. 5
  BY DEF Place
<1> QED BY <1>1, <1>2, <1>3 DEF EntriesLeft, CodesLeft, StepsOfEntry

Counted == \A c \in Callers : StepsLeft(c) \in 0 .. StepsOfFetch

LEMMA StepsAreCounted == Typed => Counted
<1> SUFFICES ASSUME Typed, NEW c \in Callers PROVE StepsLeft(c) \in 0 .. StepsOfFetch
  BY DEF Counted
<1>1. TypeOK
  BY DEF Typed
<1> DEFINE W == StepsOfEntry
<1> DEFINE u == EntriesLeft(c)
<1> DEFINE a == Cardinality(Articles)
<1>2. /\ Cardinality(Codes) \in Nat /\ a \in Nat /\ W \in Nat /\ u \in 0 .. a
      /\ CodesLeft(c) \in 0 .. Cardinality(Codes) /\ Place(c) \in 0 .. 5
  BY <1>1, FeedFinite
<1>3. StepsLeft(c) = W * u + 5 * CodesLeft(c) + Place(c)
      /\ StepsOfFetch = W * a + 5 * Cardinality(Codes) + 5
  BY DEF StepsLeft, StepsOfFetch
<1> HIDE DEF W, u, a
<1>4. W * u \in Nat /\ W * a \in Nat /\ W * u <= W * a
  <2>1. PICK d \in Nat : a = u + d
    <3>1. a - u \in Nat /\ a = u + (a - u)
      BY <1>2
    <3> QED BY <3>1
  <2>2. W * a = W * u + W * d /\ W * u \in Nat /\ W * d \in Nat
    BY <1>2, <2>1
  <2> QED BY <2>2
<1> QED BY <1>2, <1>3, <1>4

\* What one caller does leaves the others where they are.
LEMMA OthersStay ==
  ASSUME TypeOK, NEW c \in Callers,
         Moves(c)
  PROVE  \A d \in Callers \ {c} : StepsLeft(d)' = StepsLeft(d)
<1> SUFFICES ASSUME NEW d \in Callers \ {c} PROVE StepsLeft(d)' = StepsLeft(d)
  OBVIOUS
<1>1. pc'[d] = pc[d] /\ (d \in Fetchers => unread'[d] = unread[d] /\ todo'[d] = todo[d])
  BY DEF Moves, TypeOK, SubmitRedeemCode, FindRedeemCodeByCode, CreateRedeemCode,
         CreateDuplicate, SubmitRedeemTask, SubmissionFails, Return, FetchAndProcessRSS, Fetch, IsProcessed,
         OpenArticle, SubmitNext, MarkProcessed, EndFetch, Submit, Goto, feed
<1> QED BY <1>1 DEF StepsLeft, StepsOfEntry, EntriesLeft, CodesLeft, Place

\* A submission goes on to its next statement, or back to the loop.
LEMMA SubmissionAdvances ==
  ASSUME TypeOK, NEW c \in Callers, SubmitRedeemCode(c)
  PROVE  StepsLeft(c)' < StepsLeft(c)
<1>1. UNCHANGED <<unread, todo>> /\ Place(c)' < Place(c)
  BY DEF TypeOK, SubmitRedeemCode, FindRedeemCodeByCode, CreateRedeemCode, CreateDuplicate,
         SubmitRedeemTask, SubmissionFails, Return, Goto, feed, Place
<1> DEFINE x == StepsOfEntry * EntriesLeft(c) + 5 * CodesLeft(c)
<1>2. StepsLeft(c) = x + Place(c) /\ StepsLeft(c)' = x + Place(c)'
  BY <1>1 DEF StepsLeft, StepsOfEntry, EntriesLeft, CodesLeft
<1>3. x \in Nat /\ Place(c) \in Nat
  BY FeedFinite
<1>4. Place(c)' \in Nat
  BY DEF Place
<1> HIDE DEF x
<1> QED BY <1>1, <1>2, <1>3, <1>4

\* A fetch goes through finitely many entries with finitely many codes.
LEMMA FetchAdvances ==
  ASSUME Typed, Typed', NEW f \in Fetchers, pc[f] # "idle", FetchAndProcessRSS(f)
  PROVE  StepsLeft(f)' < StepsLeft(f)
<1> DEFINE W == StepsOfEntry
<1> DEFINE n == Cardinality(Codes)
<1> DEFINE u == Cardinality(unread[f])
<1> DEFINE v == Cardinality(unread'[f])
<1> DEFINE t == Cardinality(todo[f])
<1> DEFINE s == Cardinality(todo'[f])
<1>0. TypeOK /\ TypeOK' /\ f \in Callers
  BY DEF Typed, Callers
<1>1. n \in Nat /\ W = 5 * n + 3 /\ u \in Nat /\ t \in 0 .. n /\ Place(f) \in 0 .. 5
      /\ IsFiniteSet(unread[f]) /\ IsFiniteSet(todo[f])
  BY <1>0, FeedFinite DEF EntriesLeft, CodesLeft, StepsOfEntry
<1>2. v \in Nat /\ s \in 0 .. n /\ Place(f)' \in 0 .. 5
  <2>1. unread'[f] \in SUBSET Articles /\ todo'[f] \in SUBSET Codes
    BY <1>0 DEF TypeOK
  <2>2. IsFiniteSet(unread'[f]) /\ IsFiniteSet(todo'[f]) /\ s <= n
    BY <2>1, CodesAssumption, ArticlesAssumption, FS_Subset
  <2>3. v \in Nat /\ s \in Nat
    BY <2>2, FS_CardinalityType
  <2>4. Place(f)' \in 0 .. 5
    BY DEF Place
  <2> QED BY <1>1, <2>2, <2>3, <2>4
<1>3. StepsLeft(f) = W * u + 5 * t + Place(f) /\ StepsLeft(f)' = W * v + 5 * s + Place(f)'
  BY DEF StepsLeft, StepsOfEntry, EntriesLeft, CodesLeft
<1>4. ASSUME v = u - 1, u >= 1, 5 * s + Place(f)' < W + 5 * t + Place(f)
      PROVE  StepsLeft(f)' < StepsLeft(f)
  <2> HIDE DEF W, u, v, t, s, n
  <2>1. u = v + 1 /\ W \in Nat
    BY <1>1, <1>2, <1>4
  <2>2. W * (v + 1) = W * v + W /\ W * v \in Nat
    BY <1>2, <2>1
  <2>3. StepsLeft(f) = W * v + W + 5 * t + Place(f)
    BY <1>3, <2>1, <2>2
  <2> QED BY <1>1, <1>2, <1>3, <1>4, <2>1, <2>2, <2>3
<1>5. ASSUME v = u, 5 * s + Place(f)' < 5 * t + Place(f)
      PROVE  StepsLeft(f)' < StepsLeft(f)
  <2> HIDE DEF W, u, v, t, s, n
  <2>1. W * u \in Nat
    BY <1>1
  <2> QED BY <1>1, <1>2, <1>3, <1>5, <2>1
<1>6. CASE SubmitRedeemCode(f)
  BY <1>0, <1>6, SubmissionAdvances
<1>7. CASE IsProcessed(f)
  <2>1. PICK a \in unread[f] : unread' = [unread EXCEPT ![f] = @ \ {a}]
    BY <1>7 DEF IsProcessed
  <2>2. unread'[f] = unread[f] \ {a} /\ UNCHANGED <<todo, pc>>
    BY <1>0, <1>7, <2>1 DEF IsProcessed, TypeOK
  <2>3. v = u - 1
    BY <1>1, <2>1, <2>2, FS_RemoveElement
  <2>4. s = t /\ Place(f)' = Place(f)
    BY <2>2 DEF Place
  <2>5. 5 * s + Place(f)' < W + 5 * t + Place(f)
    BY <1>1, <1>2, <2>4
  <2>6. u >= 1
    BY <1>1, <1>2, <2>3
  <2> QED BY <1>4, <2>3, <2>5, <2>6
<1>8. CASE OpenArticle(f)
  <2>1. PICK a \in unread[f] : unread' = [unread EXCEPT ![f] = @ \ {a}]
    BY <1>8 DEF OpenArticle
  <2>2. unread'[f] = unread[f] \ {a}
    BY <1>0, <2>1 DEF TypeOK
  <2>3. v = u - 1
    BY <1>1, <2>1, <2>2, FS_RemoveElement
  <2>4. Place(f) = 1 /\ Place(f)' = 2
    BY <1>0, <1>8 DEF OpenArticle, Goto, TypeOK, Place
  <2>5. 5 * s + Place(f)' < W + 5 * t + Place(f)
    BY <1>1, <1>2, <2>4
  <2>6. u >= 1
    BY <1>1, <1>2, <2>3
  <2> QED BY <1>4, <2>3, <2>5, <2>6
<1>9. CASE SubmitNext(f)
  <2>1. PICK k \in todo[f] : todo' = [todo EXCEPT ![f] = @ \ {k}] /\ Submit(f, k, FALSE)
    BY <1>9 DEF SubmitNext
  <2>2. todo'[f] = todo[f] \ {k} /\ UNCHANGED unread
    BY <1>0, <1>9, <2>1 DEF SubmitNext, TypeOK
  <2>3. s = t - 1 /\ v = u
    BY <1>1, <2>1, <2>2, FS_RemoveElement
  <2>4. Place(f) = 2 /\ Place(f)' = 5
    BY <1>0, <1>9, <2>1 DEF SubmitNext, Submit, Goto, TypeOK, Place
  <2>5. 5 * s + Place(f)' < 5 * t + Place(f)
    BY <1>1, <1>2, <2>3, <2>4
  <2> QED BY <1>5, <2>3, <2>5
<1>10. CASE MarkProcessed(f) \/ EndFetch(f)
  <2>1. UNCHANGED <<unread, todo>> /\ Place(f)' < Place(f)
    BY <1>0, <1>10 DEF MarkProcessed, EndFetch, Goto, feed, TypeOK, Place
  <2>2. 5 * s + Place(f)' < 5 * t + Place(f)
    BY <1>1, <1>2, <2>1
  <2> QED BY <1>5, <2>1, <2>2
<1> QED BY <1>6, <1>7, <1>8, <1>9, <1>10 DEF FetchAndProcessRSS, Fetch

\* A submission or a fetch that is underway has fewer steps left after each step
\* of its own, and no step of anybody else gives it more.
CallersAdvance ==
  \A c \in Callers : pc[c] # "idle" =>
    /\ StepsLeft(c)' <= StepsLeft(c)
    /\ Moves(c) => StepsLeft(c)' < StepsLeft(c)

\* So has the cleaning.
CleaningAdvances ==
  cleaning # "idle" =>
    /\ ChecksLeft' <= ChecksLeft
    /\ CleanExpiredRedeemCodes => ChecksLeft' < ChecksLeft

LEMMA NextCallersAdvance == Typed /\ Typed' /\ [Next]_vars => CallersAdvance
<1> SUFFICES ASSUME Typed, Typed', [Next]_vars, NEW c \in Callers, pc[c] # "idle"
             PROVE  /\ StepsLeft(c)' <= StepsLeft(c)
                    /\ Moves(c) => StepsLeft(c)' < StepsLeft(c)
  BY DEF CallersAdvance
<1>0. TypeOK
  BY DEF Typed
<1>1. StepsLeft(c) \in Nat
  BY StepsAreCounted DEF Counted
<1>2. (Typed => Counted)'
  BY StepsAreCounted, PTL
<1>3. StepsLeft(c)' \in Nat
  BY <1>2 DEF Counted
<1>4. Moves(c) => StepsLeft(c)' < StepsLeft(c)
  BY <1>0, SubmissionAdvances, FetchAdvances DEF Moves
<1>5. ASSUME NEW d \in Callers, Moves(d)
      PROVE  StepsLeft(c)' <= StepsLeft(c)
  BY <1>0, <1>1, <1>3, <1>4, <1>5, OthersStay
<1>6. ASSUME UNCHANGED <<pc, unread, todo>> PROVE StepsLeft(c)' <= StepsLeft(c)
  <2>1. StepsLeft(c)' = StepsLeft(c)
    BY <1>6 DEF StepsLeft, StepsOfEntry, EntriesLeft, CodesLeft, Place
  <2> QED BY <1>1, <2>1
<1>7. ASSUME NEW h \in Handlers, NEW k \in Codes, NEW long \in BOOLEAN, SubmitRequest(h, k, long)
      PROVE  StepsLeft(c)' <= StepsLeft(c)
  <2>1. h # c /\ pc'[c] = pc[c] /\ UNCHANGED <<unread, todo>>
    BY <1>0, <1>7 DEF SubmitRequest, Submit, Goto, feed, TypeOK
  <2>2. StepsLeft(c)' = StepsLeft(c)
    BY <2>1 DEF StepsLeft, StepsOfEntry, EntriesLeft, CodesLeft, Place
  <2> QED BY <1>1, <2>2
<1>8. ASSUME Crash PROVE StepsLeft(c)' <= StepsLeft(c)
  <2>1. Place(c)' = 0
    BY <1>8 DEF Crash, Place
  <2>2. EntriesLeft(c)' = 0 /\ CodesLeft(c)' = 0
    BY <1>8, FS_EmptySet DEF Crash, EntriesLeft, CodesLeft
  <2>3. StepsLeft(c)' = StepsOfEntry * 0 + 5 * 0 + 0
    BY <2>1, <2>2 DEF StepsLeft, StepsOfEntry
  <2>4. StepsOfEntry \in Nat
    BY <1>0, FeedFinite
  <2> QED BY <1>1, <2>3, <2>4
<1>9. CleanExpiredRedeemCodes \/ (\E i \in Stored : DeleteRedeemCode(i))
      \/ (\E k \in Codes : GameGoesOn(k)) \/ UNCHANGED vars
        => UNCHANGED <<pc, unread, todo>>
  BY DEF CleanExpiredRedeemCodes, ListCodes, CheckCode, EndCheck, BulkDelete, DeleteRedeemCode,
         GameGoesOn, vars, caller, feed
<1> QED BY <1>4, <1>5, <1>6, <1>7, <1>8, <1>9, WhoseStep

\* The rows that were read are finitely many.
ListFinite == IsFiniteSet(toCheck)

LEMMA NextListFinite == Typed /\ ListFinite /\ [Next]_vars => ListFinite'
<1> SUFFICES ASSUME Typed, ListFinite, [Next]_vars PROVE ListFinite'
  OBVIOUS
<1>1. CASE ListCodes
  <2> DEFINE S == {j \in Stored : ~row[j].long}
  <2> DEFINE e == [i \in S |-> [id |-> i, code |-> row[i].code]]
  <2>1. created \in Nat /\ S \in SUBSET (1 .. created)
    BY DEF Typed, TypeOK
  <2>2. IsFiniteSet(S)
    <3>1. IsFiniteSet(1 .. created)
      BY <2>1, FS_Interval
    <3> QED BY <2>1, <3>1, FS_Subset
  <2>3. e \in Surjection(S, toCheck')
    BY <1>1 DEF ListCodes, Surjection
  <2> HIDE DEF S, e
  <2> QED BY <2>2, <2>3, FS_Surjection DEF ListFinite
<1>2. CASE CheckCode
  <2>1. PICK r \in toCheck : toCheck' = toCheck \ {r}
    BY <1>2 DEF CheckCode
  <2> QED BY <2>1, FS_RemoveElement DEF ListFinite
<1>3. CASE Crash
  BY <1>3, FS_EmptySet DEF Crash, ListFinite
<1>4. ASSUME NEW c \in Callers, Moves(c)
      PROVE  UNCHANGED toCheck
  BY <1>4 DEF Moves, SubmitRedeemCode, FindRedeemCodeByCode, CreateRedeemCode, CreateDuplicate,
         SubmitRedeemTask, SubmissionFails, FetchAndProcessRSS, Fetch, IsProcessed,
         OpenArticle, SubmitNext, MarkProcessed, EndFetch, cleaner
<1>5. EndCheck \/ BulkDelete \/ (\E i \in Stored : DeleteRedeemCode(i))
      \/ (\E h \in Handlers, k \in Codes, long \in BOOLEAN : SubmitRequest(h, k, long))
      \/ (\E k \in Codes : GameGoesOn(k)) \/ UNCHANGED vars
        => UNCHANGED toCheck
  BY DEF EndCheck, BulkDelete, DeleteRedeemCode, SubmitRequest, GameGoesOn, vars, cleaner
<1> QED BY <1>1, <1>2, <1>3, <1>4, <1>5, WhoseStep DEF CleanExpiredRedeemCodes, ListFinite

LEMMA NextCleaningAdvances ==
  Typed /\ ListFinite /\ ListFinite' /\ [Next]_vars => CleaningAdvances
<1> SUFFICES ASSUME Typed, ListFinite, ListFinite', [Next]_vars, cleaning # "idle"
             PROVE  /\ ChecksLeft' <= ChecksLeft
                    /\ CleanExpiredRedeemCodes => ChecksLeft' < ChecksLeft
  BY DEF CleaningAdvances
<1>1. Cardinality(toCheck) \in Nat /\ Cardinality(toCheck') \in Nat
  BY FS_CardinalityType DEF ListFinite
<1>2. CASE CheckCode
  <2>1. PICK r \in toCheck : toCheck' = toCheck \ {r}
    BY <1>2 DEF CheckCode
  <2>2. Cardinality(toCheck') = Cardinality(toCheck) - 1
    BY <2>1, FS_RemoveElement DEF ListFinite
  <2>3. cleaning = "check" /\ cleaning' = "check"
    BY <1>2 DEF CheckCode
  <2> QED BY <1>1, <2>2, <2>3 DEF ChecksLeft
<1>3. CASE EndCheck \/ BulkDelete
  BY <1>1, <1>3 DEF EndCheck, BulkDelete, ChecksLeft
<1>4. ASSUME Crash PROVE ChecksLeft' <= ChecksLeft
  <2>1. ChecksLeft' = 0
    BY <1>4 DEF Crash, ChecksLeft
  <2> QED BY <1>1, <2>1 DEF ChecksLeft
<1>5. ASSUME UNCHANGED <<toCheck, cleaning>> PROVE ChecksLeft' <= ChecksLeft
  <2>1. ChecksLeft' = ChecksLeft
    BY <1>5 DEF ChecksLeft
  <2> QED BY <1>1, <2>1 DEF ChecksLeft
<1>6. ASSUME NEW c \in Callers, Moves(c)
      PROVE  UNCHANGED <<toCheck, cleaning>>
  BY <1>6 DEF Moves, SubmitRedeemCode, FindRedeemCodeByCode, CreateRedeemCode, CreateDuplicate,
         SubmitRedeemTask, SubmissionFails, FetchAndProcessRSS, Fetch, IsProcessed,
         OpenArticle, SubmitNext, MarkProcessed, EndFetch, cleaner
<1>7. (\E i \in Stored : DeleteRedeemCode(i))
      \/ (\E h \in Handlers, k \in Codes, long \in BOOLEAN : SubmitRequest(h, k, long))
      \/ (\E k \in Codes : GameGoesOn(k)) \/ UNCHANGED vars
        => UNCHANGED <<toCheck, cleaning>>
  BY DEF DeleteRedeemCode, SubmitRequest, GameGoesOn, vars, cleaner
<1>8. CleanExpiredRedeemCodes => CheckCode \/ EndCheck \/ BulkDelete
  BY DEF CleanExpiredRedeemCodes, ListCodes
<1> QED BY <1>1, <1>2, <1>3, <1>4, <1>5, <1>6, <1>7, <1>8, WhoseStep

\* Every fetch and every submission ends, however many overlap and whatever
\* fails: no caller has more than StepsOfFetch steps to go, each step of its own
\* leaves it fewer, and nobody else's gives it more (FetchAndProcessRSS,
\* SubmitRedeemCode).  So does a cleaning that has read its list, whatever is
\* submitted or deleted meanwhile (cleanExpiredRedeemCodes).
THEOREM CronJobsEnd ==
  Spec => []Counted /\ [][CallersAdvance]_vars /\ [][CleaningAdvances]_vars
<1>1. Init => ListFinite
  BY FS_EmptySet DEF Init, ListFinite
<1>2. Typed /\ Typed' /\ [Next]_vars => [CallersAdvance]_vars
  BY NextCallersAdvance
<1>3. Typed /\ ListFinite /\ ListFinite' /\ [Next]_vars => [CleaningAdvances]_vars
  BY NextCleaningAdvances
<1> QED BY InitTyped, NextTyped, NextListFinite, StepsAreCounted, <1>1, <1>2, <1>3, PTL DEF Spec
=============================================================================
