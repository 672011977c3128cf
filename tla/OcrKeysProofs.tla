---------------------------- MODULE OcrKeysProofs ----------------------------
(***************************************************************************)
(* What holds of the OCR keys for any number of keys, flows and requests.  *)
(*                                                                         *)
(* The list in memory agrees with the table when the last reload is over.  *)
(* The invariant (IInv) follows the lists that are under way: one that     *)
(* nothing has outdated mirrors the table, and so does memory if such a    *)
(* list was loaded last; otherwise somebody is going to read the table, or *)
(* is about to load a list that mirrors it.                                *)
(*                                                                         *)
(* Every loaded key has its turn.  Here the invariant (TInv) bounds what a *)
(* key is behind the first one and would have gained while it waits, by    *)
(* what all keys are behind; a choice keeps that because the total covers  *)
(* the sum of the weights.  The total is a sum over a list of any length:  *)
(* SumFunction is shown to count units, and what is needed of sums follows *)
(* from what removing one term does, by induction over finite sets.        *)
(***************************************************************************)
EXTENDS OcrKeys, FiniteSetTheorems, WellFoundedInduction, TLAPS

Columns == [ provider : Providers \cup {""}, active : BOOLEAN, quota : BOOLEAN,
             weight : Int, monthly : Int, remaining : Int ]

RowsOK == created \in 0 .. NumKeys /\ stored \subseteq Keys /\ row \in [Keys -> Columns]

CallersOK ==
  /\ pc \in [Callers -> {"idle", "pick", "call", "mark", "list", "reload"}]
  /\ DOMAIN snap = Callers
  /\ fresh \subseteq Callers

\* A list that no change has outdated mirrors the table, and will be loaded.
FreshLists == \A c \in fresh : pc[c] = "reload" /\ Mirrors(snap[c])

CurrentMemory == current => Mirrors(mem)

\* Memory that does not agree is about to be replaced.
Underway == ~current /\ ~lapsed => \E c \in Callers : pc[c] = "list" \/ c \in fresh

IInv == RowsOK /\ CallersOK /\ FreshLists /\ CurrentMemory /\ Underway

-----------------------------------------------------------------------------
(* Lists and the table.                                                    *)

\* What ListUsable has just read mirrors the table, also once it is loaded.
LEMMA UsableMirrors == Mirrors(Usable)
  BY DEF Mirrors, Usable, Loadable

\* Reload keeps the keys and the weights of the list.
LEMMA LoadMirrors ==
  ASSUME NEW list, Mirrors(list), Load(list), UNCHANGED <<stored, row>>
  PROVE  Mirrors(mem)'
  BY DEF Mirrors, Load, Fresh, Loadable

\* A choice changes neither the keys in memory nor their weights.
LEMMA ChooseMirrors ==
  ASSUME Mirrors(mem), Choose, UNCHANGED <<stored, row>>
  PROVE  Mirrors(mem)'
  BY DEF Mirrors, Choose, Loadable

\* Charging a key may use it up, which memory need not know yet, but never
\* makes a key loadable.
LEMMA ChargedMirrors ==
  ASSUME RowsOK, NEW list, Mirrors(list), NEW k, DecrementQuota(k), UNCHANGED stored
  PROVE  /\ row' \in [Keys -> Columns]
         /\ \A j \in DOMAIN list :
              /\ j \in stored
              /\ row'[j].active /\ row'[j].provider \in Registered
              /\ list[j].weight = row'[j].weight
              /\ row'[j].quota \/ row'[j].remaining <= 1
         /\ \A j \in stored : Loadable(row'[j]) => j \in DOMAIN list
<1>1. CASE k \notin stored
  BY <1>1 DEF RowsOK, Mirrors, DecrementQuota, Loadable
<1>2. CASE k \in stored
  <2> DEFINE left == IF row[k].remaining > 0 THEN row[k].remaining - 1 ELSE 0
  <2>1. k \in Keys /\ row[k] \in Columns
    BY <1>2 DEF RowsOK
  <2>2. left \in Int /\ (row[k].remaining <= 1 => left <= 1)
    <3>1. row[k].remaining \in Int
      BY <2>1 DEF Columns
    <3> QED BY <3>1
  <2>3. row' = [row EXCEPT ![k] = [row[k] EXCEPT !.remaining = left,
                                                 !.quota = row[k].quota /\ left - 1 > 0]]
    BY <1>2, <2>1 DEF DecrementQuota, RowsOK, Columns
  <2> HIDE DEF left
  <2>4. \A j \in Keys \ {k} : row'[j] = row[j]
    BY <2>3 DEF RowsOK
  <2>5. /\ row'[k] \in Columns
        /\ row'[k].active = row[k].active /\ row'[k].provider = row[k].provider
        /\ row'[k].weight = row[k].weight
        /\ row'[k].remaining = left
        /\ row'[k].quota = (row[k].quota /\ left - 1 > 0)
    BY <2>1, <2>2, <2>3 DEF RowsOK, Columns
  <2>6. row' \in [Keys -> Columns]
    BY <2>3, <2>4, <2>5 DEF RowsOK
  <2>7. \A j \in DOMAIN list :
          /\ j \in stored
          /\ row'[j].active /\ row'[j].provider \in Registered
          /\ list[j].weight = row'[j].weight
          /\ row'[j].quota \/ row'[j].remaining <= 1
    <3> SUFFICES ASSUME NEW j \in DOMAIN list
                 PROVE  /\ j \in stored
                        /\ row'[j].active /\ row'[j].provider \in Registered
                        /\ list[j].weight = row'[j].weight
                        /\ row'[j].quota \/ row'[j].remaining <= 1
      OBVIOUS
    <3>1. j \in stored /\ j \in Keys
      BY DEF Mirrors, RowsOK
    <3>2. CASE j = k
      <4>1. row[k].active /\ row[k].provider \in Registered /\ list[j].weight = row[k].weight
        BY <3>2 DEF Mirrors
      <4>2. row[k].quota \/ row[k].remaining <= 1
        BY <3>2 DEF Mirrors
      <4>3. row'[k].quota \/ row'[k].remaining <= 1
        <5>1. CASE left <= 1
          BY <5>1, <2>5
        <5>2. CASE ~(left <= 1)
          <6>1. left - 1 > 0 /\ row[k].quota
            BY <5>2, <4>2, <2>2
          <6> QED BY <6>1, <2>5
        <5> QED BY <5>1, <5>2
      <4>4. row'[k].active /\ row'[k].provider \in Registered /\ list[j].weight = row'[k].weight
        BY <4>1, <2>5
      <4> QED BY <3>1, <3>2, <4>3, <4>4
    <3>3. CASE j # k
      <4>1. row'[j] = row[j]
        BY <3>1, <3>3, <2>4
      <4>2. row[j].active /\ row[j].provider \in Registered /\ list[j].weight = row[j].weight
        BY DEF Mirrors
      <4>3. row[j].quota \/ row[j].remaining <= 1
        BY DEF Mirrors
      <4>4. row'[j].active /\ row'[j].provider \in Registered /\ list[j].weight = row'[j].weight
        BY <4>1, <4>2
      <4>5. row'[j].quota \/ row'[j].remaining <= 1
        BY <4>1, <4>3
      <4> QED BY <3>1, <4>4, <4>5
    <3> QED BY <3>2, <3>3
  <2>8. \A j \in stored : Loadable(row'[j]) => Loadable(row[j])
    BY <2>4, <2>5 DEF Loadable, RowsOK
  <2> QED BY <2>6, <2>7, <2>8 DEF Mirrors
<1> QED BY <1>1, <1>2

-----------------------------------------------------------------------------
(* The invariant.                                                          *)

LEMMA InitIInv == Init => IInv
<1> SUFFICES ASSUME Init PROVE IInv
  OBVIOUS
<1>1. RowsOK
  <2>1. Blank \in Columns
    BY DEF Blank, Columns
  <2> QED BY <2>1, NumKeysAssumption DEF Init, RowsOK
<1>2. CallersOK
  BY DEF Init, CallersOK
<1>3. FreshLists /\ Underway
  BY DEF Init, FreshLists, Underway
<1>4. CurrentMemory
  BY DEF Init, CurrentMemory, Mirrors, Empty
<1> QED BY <1>1, <1>2, <1>3, <1>4 DEF IInv

\* The steps of a recognition that reach neither the list nor the table.
LEMMA TurnsKeepIInv ==
  ASSUME IInv, NEW c \in Callers, Start(c) \/ Pick(c) \/ PickNone(c)
  PROVE  IInv'
<1>1. UNCHANGED <<created, stored, row, snap, fresh, current, lapsed>>
  BY DEF Start, Pick, PickNone, history
<1>2. pc[c] \in {"idle", "pick"} /\ \E w \in {"idle", "pick", "call"} : pc' = [pc EXCEPT ![c] = w]
  BY DEF Start, Pick, PickNone, Goto
<1>3. RowsOK' /\ CallersOK'
  BY <1>1, <1>2 DEF IInv, RowsOK, CallersOK
<1>4. c \notin fresh /\ \A d \in Callers \ {c} : pc'[d] = pc[d]
  BY <1>2 DEF IInv, FreshLists, CallersOK
<1>5. FreshLists'
  BY <1>1, <1>4 DEF IInv, FreshLists, CallersOK, Mirrors, Loadable
<1>6. Underway'
  BY <1>1, <1>2, <1>4 DEF IInv, Underway
<1>7. CurrentMemory'
  <2>1. CASE Pick(c)
    BY <2>1, <1>1, ChooseMirrors DEF IInv, CurrentMemory, Pick
  <2>2. CASE Start(c) \/ PickNone(c)
    <3>1. UNCHANGED mem
      BY <2>2 DEF Start, PickNone
    <3> QED BY <3>1, <1>1 DEF IInv, CurrentMemory, Mirrors, Loadable
  <2> QED BY <2>1, <2>2
<1> QED BY <1>3, <1>5, <1>6, <1>7 DEF IInv

\* The recognition charges the key while lists are under way.
LEMMA RecogniseKeepsIInv ==
  ASSUME IInv, NEW c \in Callers, Recognise(c)
  PROVE  IInv'
<1>1. UNCHANGED <<created, stored, mem, snap, fresh, current, lapsed>>
  BY DEF Recognise, history
<1>2. pc[c] = "call"
  BY DEF Recognise
<1>3. \E w \in {"idle", "pick", "mark"} : pc' = [pc EXCEPT ![c] = w]
  BY DEF Recognise, Goto, Continue
<1>4. c \notin fresh /\ \A d \in Callers \ {c} : pc'[d] = pc[d]
  BY <1>2, <1>3 DEF IInv, FreshLists, CallersOK
<1>5. CallersOK'
  BY <1>1, <1>3 DEF IInv, CallersOK
<1>6. Underway'
  BY <1>1, <1>2, <1>4 DEF IInv, Underway
<1>7. CASE UNCHANGED row
  <2>1. RowsOK'
    BY <1>1, <1>7 DEF IInv, RowsOK
  <2>2. FreshLists'
    BY <1>1, <1>4, <1>7 DEF IInv, FreshLists, CallersOK, Mirrors, Loadable
  <2>3. CurrentMemory'
    BY <1>1, <1>7 DEF IInv, CurrentMemory, Mirrors, Loadable
  <2> QED BY <1>5, <1>6, <2>1, <2>2, <2>3 DEF IInv
<1>8. CASE DecrementQuota(key[c])
  <2>1. RowsOK'
    <3>1. Mirrors(Usable)
      BY UsableMirrors
    <3>2. row' \in [Keys -> Columns]
      BY <1>1, <1>8, <3>1, ChargedMirrors DEF IInv
    <3> QED BY <1>1, <3>2 DEF IInv, RowsOK
  <2>2. FreshLists'
    <3> SUFFICES ASSUME NEW d \in fresh
                 PROVE  pc'[d] = "reload" /\ Mirrors(snap[d])'
      BY <1>1 DEF FreshLists
    <3>1. pc'[d] = "reload" /\ Mirrors(snap[d]) /\ snap'[d] = snap[d]
      BY <1>1, <1>4 DEF IInv, FreshLists, CallersOK
    <3>2. RowsOK
      BY DEF IInv
    <3> QED BY <1>1, <1>8, <3>1, <3>2, ChargedMirrors DEF Mirrors
  <2>3. CurrentMemory'
    <3> SUFFICES ASSUME current PROVE Mirrors(mem)'
      BY <1>1 DEF CurrentMemory
    <3>1. Mirrors(mem) /\ RowsOK
      BY DEF IInv, CurrentMemory
    <3> QED BY <1>1, <1>8, <3>1, ChargedMirrors DEF Mirrors
  <2> QED BY <1>5, <1>6, <2>1, <2>2, <2>3 DEF IInv
<1> QED BY <1>7, <1>8 DEF Recognise, TouchUsage

\* A change outdates the lists; whoever made it is about to read a new one.
LEMMA OutdatedKeepsIInv ==
  ASSUME IInv, NEW c \in Callers, Outdates, pc' = [pc EXCEPT ![c] = "list"],
         UNCHANGED snap, RowsOK'
  PROVE  IInv'
<1>1. CallersOK'
  BY DEF IInv, CallersOK, Outdates
<1>2. FreshLists' /\ CurrentMemory'
  BY DEF FreshLists, CurrentMemory, Outdates
<1>3. pc'[c] = "list"
  BY DEF IInv, CallersOK
<1>4. Underway'
  BY <1>3 DEF Underway
<1> QED BY <1>1, <1>2, <1>4 DEF IInv

\* The callback, administrators and the monthly reset change the table.
LEMMA ChangesKeepIInv ==
  ASSUME IInv, NEW c \in Callers,
         \/ MarkQuota(c) \/ CreateKey(c) \/ ResetMonthlyQuota(c)
         \/ \E k \in Keys : UpdateKey(c, k) \/ DeleteKey(c, k)
  PROVE  IInv'
<1>1. Outdates /\ pc' = [pc EXCEPT ![c] = "list"] /\ UNCHANGED snap
  BY DEF MarkQuota, CreateKey, ResetMonthlyQuota, UpdateKey, DeleteKey, Change, Goto
<1>2. row \in [Keys -> Columns] /\ stored \subseteq Keys /\ created \in 0 .. NumKeys
  BY DEF IInv, RowsOK
<1>3. ASSUME MarkQuota(c) PROVE RowsOK'
  <2>1. row' \in [Keys -> Columns]
    <3>1. CASE key[c] \in stored
      <4> DEFINE new == [row[key[c]] EXCEPT !.quota = FALSE]
      <4>1. key[c] \in Keys /\ row[key[c]] \in Columns
        BY <3>1, <1>2
      <4>2. row' = [row EXCEPT ![key[c]] = new]
        BY <1>3, <3>1 DEF MarkQuota
      <4>3. new \in Columns
        BY <4>1 DEF Columns
      <4> QED BY <1>2, <4>2, <4>3
    <3>2. CASE key[c] \notin stored
      BY <1>2, <1>3, <3>2 DEF MarkQuota
    <3> QED BY <3>1, <3>2
  <2> QED BY <1>2, <1>3, <2>1 DEF MarkQuota, RowsOK
<1>4. ASSUME CreateKey(c) PROVE RowsOK'
  <2>1. created' \in Keys /\ stored' = stored \cup {created'}
    BY <1>2, <1>4, NumKeysAssumption DEF CreateKey, Keys
  <2>2. PICK p \in Providers, w \in Weights, m \in Quotas, r \in Quotas :
          row' = [row EXCEPT ![created'] = [ provider |-> p, active |-> TRUE, quota |-> TRUE,
                                             weight |-> w, monthly |-> m, remaining |-> r ]]
    BY <1>4 DEF CreateKey
  <2>3. w \in Int /\ m \in Int /\ r \in Int
    BY WeightsAssumption, QuotasAssumption
  <2>4. [ provider |-> p, active |-> TRUE, quota |-> TRUE,
          weight |-> w, monthly |-> m, remaining |-> r ] \in Columns
    BY <2>3 DEF Columns
  <2>5. row' \in [Keys -> Columns]
    BY <1>2, <2>2, <2>4
  <2> QED BY <1>2, <2>1, <2>5, NumKeysAssumption DEF RowsOK, Keys
<1>5. ASSUME ResetMonthlyQuota(c) PROVE RowsOK'
  <2>1. row' = [k \in Keys |->
                  IF k \notin stored THEN row[k]
                  ELSE [row[k] EXCEPT !.remaining = row[k].monthly, !.quota = row[k].monthly > 0]]
    BY <1>5 DEF ResetMonthlyQuota
  <2>2. ASSUME NEW k \in Keys
        PROVE  [row[k] EXCEPT !.remaining = row[k].monthly, !.quota = row[k].monthly > 0] \in Columns
    <3>1. row[k] \in Columns
      BY <1>2
    <3>2. row[k].monthly \in Int
      BY <3>1 DEF Columns
    <3>3. [row[k] EXCEPT !.remaining = row[k].monthly] \in Columns
      BY <3>1, <3>2 DEF Columns
    <3>4. (row[k].monthly > 0) \in BOOLEAN
      OBVIOUS
    <3> QED BY <3>3, <3>4 DEF Columns
  <2>3. row' \in [Keys -> Columns]
    BY <1>2, <2>1, <2>2
  <2>4. UNCHANGED <<created, stored>>
    BY <1>5 DEF ResetMonthlyQuota
  <2> QED BY <1>2, <2>3, <2>4 DEF RowsOK
<1>6. ASSUME NEW k \in Keys, UpdateKey(c, k) PROVE RowsOK'
  <2>1. row[k] \in Columns
    BY <1>2
  <2>2. \E new \in Columns : row' = [row EXCEPT ![k] = new]
    <3>1. Patches(row[k]) \subseteq Columns
      <4>1. Weights \subseteq Int
        BY WeightsAssumption
      <4>2. /\ {q \in Quotas : q >= 0} \cup {row[k].monthly} \subseteq Int
            /\ {q \in Quotas : q >= 0} \cup {row[k].remaining} \subseteq Int
        BY <2>1, QuotasAssumption DEF Columns
      <4>3. row[k].provider \in Providers \cup {""}
        BY <2>1 DEF Columns
      <4> QED BY <4>1, <4>2, <4>3 DEF Patches, Columns
    <3> QED BY <1>6, <3>1 DEF UpdateKey
  <2>3. row' \in [Keys -> Columns]
    BY <1>2, <2>2
  <2> QED BY <1>2, <1>6, <2>3 DEF UpdateKey, RowsOK
<1>7. ASSUME NEW k \in Keys, DeleteKey(c, k) PROVE RowsOK'
  <2>1. Blank \in Columns
    BY DEF Blank, Columns
  <2> QED BY <1>2, <1>7, <2>1 DEF DeleteKey, RowsOK
<1>8. RowsOK'
  BY <1>3, <1>4, <1>5, <1>6, <1>7
<1> QED BY <1>1, <1>8, OutdatedKeepsIInv

\* Reading the table, in vain or not.
LEMMA ListKeepsIInv ==
  ASSUME IInv, NEW c \in Callers, ListUsable(c)
  PROVE  IInv'
<1>1. UNCHANGED <<created, stored, row, mem, current, lapsed>>
  BY DEF ListUsable
<1>2. pc'[c] = "reload" /\ snap'[c] = Usable /\ fresh' = fresh \cup {c}
  BY DEF ListUsable, Goto, IInv, CallersOK
<1>3. \A d \in Callers \ {c} : pc'[d] = pc[d] /\ snap'[d] = snap[d]
  BY DEF ListUsable, Goto, IInv, CallersOK
<1>4. RowsOK' /\ CallersOK'
  BY <1>1 DEF IInv, RowsOK, CallersOK, ListUsable, Goto
<1>5. FreshLists'
  <2> SUFFICES ASSUME NEW d \in fresh' PROVE pc'[d] = "reload" /\ Mirrors(snap[d])'
    BY DEF FreshLists
  <2>1. CASE d = c
    BY <2>1, <1>1, <1>2, UsableMirrors DEF Mirrors, Loadable
  <2>2. CASE d # c
    BY <2>2, <1>1, <1>2, <1>3 DEF IInv, FreshLists, CallersOK, Mirrors, Loadable
  <2> QED BY <2>1, <2>2
<1>6. CurrentMemory'
  BY <1>1 DEF IInv, CurrentMemory, Mirrors, Loadable
<1>7. Underway'
  BY <1>2 DEF Underway
<1> QED BY <1>4, <1>5, <1>6, <1>7 DEF IInv

LEMMA FailKeepsIInv ==
  ASSUME IInv, NEW c \in Callers, Fail(c)
  PROVE  IInv'
<1>1. UNCHANGED <<created, stored, row, mem, snap, fresh, current>>
  BY DEF Fail
<1>2. pc[c] \in {"mark", "list"} /\ lapsed' = (lapsed \/ pc[c] = "list")
  BY DEF Fail
<1>3. \E w \in {"idle", "pick"} : pc' = [pc EXCEPT ![c] = w]
  BY DEF Fail, Continue, Goto
<1>4. c \notin fresh /\ \A d \in Callers \ {c} : pc'[d] = pc[d]
  BY <1>2, <1>3 DEF IInv, FreshLists, CallersOK
<1>5. RowsOK' /\ CallersOK'
  BY <1>1, <1>3 DEF IInv, RowsOK, CallersOK
<1>6. FreshLists' /\ CurrentMemory'
  BY <1>1, <1>4 DEF IInv, FreshLists, CurrentMemory, CallersOK, Mirrors, Loadable
<1>7. Underway'
  BY <1>1, <1>2, <1>4 DEF IInv, Underway
<1> QED BY <1>5, <1>6, <1>7 DEF IInv

\* Loading a list: one that mirrors the table makes memory current, an older
\* one either leaves somebody on the way or is what lapsed records.
LEMMA ReloadKeepsIInv ==
  ASSUME IInv, NEW c \in Callers, Reload(c)
  PROVE  IInv'
<1>1. UNCHANGED <<created, stored, row>>
  BY DEF Reload
<1>2. /\ pc[c] = "reload" /\ Load(snap[c])
      /\ fresh' = fresh \ {c} /\ current' = (c \in fresh)
      /\ lapsed' = (c \notin fresh /\ (current \/ lapsed))
  BY DEF Reload
<1>3. \E w \in {"idle", "pick"} : pc' = [pc EXCEPT ![c] = w]
  BY DEF Reload, Continue, Goto
<1>4. DOMAIN snap' = Callers /\ \A d \in Callers \ {c} : pc'[d] = pc[d] /\ snap'[d] = snap[d]
  BY <1>3 DEF Reload, IInv, CallersOK
<1>5. RowsOK' /\ CallersOK'
  BY <1>1, <1>2, <1>3, <1>4 DEF IInv, RowsOK, CallersOK
<1>6. FreshLists'
  BY <1>1, <1>2, <1>4 DEF IInv, FreshLists, CallersOK, Mirrors, Loadable
<1>7. CurrentMemory'
  <2> SUFFICES ASSUME c \in fresh PROVE Mirrors(mem)'
    BY <1>2 DEF CurrentMemory
  <2>1. Mirrors(snap[c])
    BY DEF IInv, FreshLists
  <2> QED BY <1>1, <1>2, <2>1, LoadMirrors
<1>8. Underway'
  <2> SUFFICES ASSUME ~current', ~lapsed'
               PROVE  \E d \in Callers : pc'[d] = "list" \/ d \in fresh'
    BY DEF Underway
  <2>1. ~current /\ ~lapsed /\ c \notin fresh
    BY <1>2
  <2>2. PICK d \in Callers : pc[d] = "list" \/ d \in fresh
    BY <2>1 DEF IInv, Underway
  <2>3. d # c
    BY <1>2, <2>1, <2>2
  <2> QED BY <1>2, <1>4, <2>2, <2>3
<1> QED BY <1>5, <1>6, <1>7, <1>8 DEF IInv

LEMMA RestartKeepsIInv ==
  ASSUME IInv, Restart
  PROVE  IInv'
<1>1. UNCHANGED <<created, stored, row>> /\ fresh' = {}
  BY DEF Restart
<1>2. RowsOK' /\ CallersOK'
  BY <1>1 DEF IInv, RowsOK, CallersOK, Restart
<1>3. FreshLists'
  BY <1>1 DEF FreshLists
<1>4. CASE Load(Usable) /\ current' = TRUE /\ lapsed' = FALSE
  BY <1>1, <1>2, <1>3, <1>4, UsableMirrors, LoadMirrors DEF IInv, CurrentMemory, Underway
<1>5. CASE current' = FALSE /\ lapsed' = TRUE
  BY <1>2, <1>3, <1>5 DEF IInv, CurrentMemory, Underway
<1> QED BY <1>4, <1>5 DEF Restart

LEMMA NextKeepsIInv == IInv /\ [Next]_vars => IInv'
<1> SUFFICES ASSUME IInv, [Next]_vars PROVE IInv'
  OBVIOUS
<1>1. ASSUME NEW c \in Flows, RecognizeCaptcha(c) PROVE IInv'
  BY <1>1, TurnsKeepIInv, RecogniseKeepsIInv, ChangesKeepIInv, ListKeepsIInv, FailKeepsIInv,
     ReloadKeepsIInv DEF RecognizeCaptcha, Refresh, Callers
<1>2. ASSUME NEW c \in Requests, Administer(c) PROVE IInv'
  BY <1>2, ChangesKeepIInv, ListKeepsIInv, FailKeepsIInv, ReloadKeepsIInv
     DEF Administer, Refresh, Callers
<1>3. CASE UNCHANGED vars
  BY <1>3 DEF IInv, RowsOK, CallersOK, FreshLists, CurrentMemory, Underway, Mirrors, Loadable,
              vars, callers, history
<1> QED BY <1>1, <1>2, <1>3, RestartKeepsIInv DEF Next

-----------------------------------------------------------------------------

\* The list in memory agrees with the table when nobody is between a change
\* and its reload, for any number of keys and callers (Reload of
\* ocr_manager.go, the callback of main.go and the handlers of the keys).
THEOREM SpecReloadsConverge == Spec => []ReloadsConverge
<1>1. IInv => ReloadsConverge
  <2> SUFFICES ASSUME IInv, Quiet, ~lapsed PROVE Mirrors(mem)
    BY DEF ReloadsConverge
  <2>1. current
    BY DEF IInv, Underway, FreshLists, CallersOK, Quiet
  <2> QED BY <2>1 DEF IInv, CurrentMemory
<1> QED BY InitIInv, NextKeepsIInv, <1>1, PTL DEF Spec

-----------------------------------------------------------------------------
(* Sums of natural numbers over finite sets.                               *)

\* B contains a finite set S if it contains each of its subsets that it contains
\* whenever one element is removed.
LEMMA SetInduction ==
  ASSUME NEW S, IsFiniteSet(S), NEW B,
         \A T \in SUBSET S : (\A x \in T : T \ {x} \in B) => T \in B
  PROVE  S \in B
<1> DEFINE Bad == (SUBSET S) \ B
<1>1. SUFFICES ASSUME S \notin B PROVE FALSE
  OBVIOUS
<1>2. Bad \subseteq FiniteSubsetsOf(S) /\ Bad # {}
  BY <1>1, FS_FiniteSubsetsOfFinite
<1>3. IsWellFoundedOn(StrictSubsetOrdering(S), FiniteSubsetsOf(S))
  BY FS_StrictSubsetOrderingWellFounded
<1>4. PICK T \in Bad : \A U \in Bad : <<U, T>> \notin StrictSubsetOrdering(S)
  <2> HIDE DEF Bad
  <2> QED BY <1>2, <1>3, WFMin
<1>5. \A x \in T : T \ {x} \in B
  <2> TAKE x \in T
  <2> DEFINE U == T \ {x}
  <2>1. U \in SUBSET S /\ T \in SUBSET S /\ U \subseteq T /\ U # T
    BY <1>4
  <2>2. <<U, T>> \in StrictSubsetOrdering(S)
    <3> HIDE DEF U
    <3> QED BY <2>1 DEF StrictSubsetOrdering
  <2> QED BY <1>4, <2>1, <2>2
<1> QED BY <1>4, <1>5

\* f[k] units for each k of s; how many there are is the sum.
Units(f, s) == {u \in s \X Nat : u[2] \in 1 .. f[u[1]]}

Sum(f, s) == Cardinality(Units(f, s))

LEMMA UnitsFinite ==
  ASSUME NEW S, IsFiniteSet(S), NEW f \in [S -> Nat]
  PROVE  IsFiniteSet(Units(f, S))
<1> DEFINE B == {s \in SUBSET S : IsFiniteSet(Units(f, s))}
<1>1. ASSUME NEW T \in SUBSET S, \A x \in T : T \ {x} \in B
      PROVE  T \in B
  <2>1. CASE T = {}
    <3>1. Units(f, T) = {}
      BY <2>1 DEF Units
    <3> QED BY <3>1, FS_EmptySet
  <2>2. ASSUME NEW x \in T PROVE T \in B
    <3>1. Units(f, T) = Units(f, T \ {x}) \cup ({x} \X (1 .. f[x]))
      BY DEF Units
    <3>2. IsFiniteSet({x})
      BY FS_Singleton
    <3>3. IsFiniteSet(1 .. f[x])
      <4>1. f[x] \in Int /\ 1 \in Int
        OBVIOUS
      <4> QED BY <4>1, FS_Interval
    <3>4. IsFiniteSet({x} \X (1 .. f[x]))
      BY <3>2, <3>3, FS_Product
    <3>5. IsFiniteSet(Units(f, T \ {x}))
      BY <1>1
    <3>6. IsFiniteSet(Units(f, T \ {x}) \cup ({x} \X (1 .. f[x])))
      <4> HIDE DEF B
      <4> QED BY <3>4, <3>5, FS_Union
    <3> QED BY <3>1, <3>6
  <2> QED BY <2>1, <2>2
<1>2. S \in B
  <2> HIDE DEF B
  <2> QED BY <1>1, SetInduction
<1> QED BY <1>2

LEMMA SumEmpty == ASSUME NEW f PROVE Sum(f, {}) = 0
<1>1. Units(f, {}) = {}
  BY DEF Units
<1> QED BY <1>1, FS_EmptySet DEF Sum

LEMMA SumRemove ==
  ASSUME NEW S, IsFiniteSet(S), NEW f \in [S -> Nat], NEW s \in SUBSET S, NEW x \in s
  PROVE  /\ Sum(f, s) \in Nat /\ Sum(f, s \ {x}) \in Nat
         /\ Sum(f, s) = f[x] + Sum(f, s \ {x})
<1>1. \A T \in SUBSET S : IsFiniteSet(Units(f, T))
  <2> TAKE T \in SUBSET S
  <2>1. IsFiniteSet(Units(f, S))
    BY UnitsFinite
  <2>2. Units(f, T) \subseteq Units(f, S)
    BY DEF Units
  <2> QED BY <2>1, <2>2, FS_Subset
<1>2. f[x] \in Int /\ f[x] \in Nat /\ 1 \in Int
  OBVIOUS
<1>3. IsFiniteSet({x}) /\ Cardinality({x}) = 1
  BY FS_Singleton
<1>4. IsFiniteSet(1 .. f[x]) /\ Cardinality(1 .. f[x]) = f[x]
  BY <1>2, FS_Interval
<1>5. /\ IsFiniteSet({x} \X (1 .. f[x]))
      /\ Cardinality({x} \X (1 .. f[x])) = f[x]
  BY <1>2, <1>3, <1>4, FS_Product
<1> DEFINE A == Units(f, s \ {x})
<1> DEFINE C == {x} \X (1 .. f[x])
<1>6. Units(f, s) = A \cup C /\ A \cap C = {}
  BY DEF Units
<1>7. IsFiniteSet(A) /\ IsFiniteSet(Units(f, s))
  BY <1>1
<1>8. IsFiniteSet(C) /\ Cardinality(C) = f[x]
  BY <1>5
<1> HIDE DEF A, C
<1>9. Cardinality(A \cup C) = Cardinality(A) + Cardinality(C) - Cardinality({})
  BY <1>6, <1>8, <1>7, FS_Union
<1>10. Cardinality({}) = 0
  BY FS_EmptySet
<1>11. Cardinality(A) \in Nat
  BY <1>7, FS_CardinalityType
<1>12. Cardinality(A \cup C) = f[x] + Cardinality(A)
  BY <1>2, <1>8, <1>9, <1>10, <1>11
<1> QED BY <1>2, <1>6, <1>11, <1>12 DEF Sum, A

LEMMA SumNat ==
  ASSUME NEW S, IsFiniteSet(S), NEW f \in [S -> Nat], NEW s \in SUBSET S
  PROVE  Sum(f, s) \in Nat
<1>1. CASE s = {}
  BY <1>1, SumEmpty
<1>2. ASSUME NEW x \in s PROVE Sum(f, s) \in Nat
  BY SumRemove
<1> QED BY <1>1, <1>2

\* The library's sum, which takes the terms in an order that is not specified.
LEMMA SumFunctionIsSum ==
  ASSUME NEW S, IsFiniteSet(S), NEW f \in [S -> Nat]
  PROVE  SumFunction(f) = Sum(f, S)
<1> DEFINE Step(g) == [s \in SUBSET S |->
                         IF s = {} THEN 0
                         ELSE f[CHOOSE x \in s : TRUE] + g[s \ {CHOOSE x \in s : TRUE}]]
<1> DEFINE iter == CHOOSE g : g = Step(g)
<1>1. SumFunction(f) = iter[S]
  BY DEF SumFunction, SumFunctionOnSet, FoldFunctionOnSet, MapThenFoldSet
<1>2. \E g : g = Step(g)
  <2> DEFINE W == [s \in SUBSET S |-> Sum(f, s)]
  <2>1. ASSUME NEW s \in SUBSET S, s # {}
        PROVE  W[s] = f[CHOOSE x \in s : TRUE] + W[s \ {CHOOSE x \in s : TRUE}]
    <3>1. PICK x \in s : x = CHOOSE y \in s : TRUE
      BY <2>1
    <3>2. W[s] = f[x] + W[s \ {x}]
      BY SumRemove
    <3> QED BY <3>1, <3>2
  <2>2. W[{}] = 0
    BY SumEmpty
  <2>3. W = Step(W)
    BY <2>1, <2>2
  <2> QED BY <2>3
<1>3. iter = Step(iter)
  BY <1>2
<1> HIDE DEF iter
<1>4. \A s \in SUBSET S : iter[s] = Step(iter)[s]
  BY <1>3
<1> DEFINE B == {s \in SUBSET S : iter[s] = Sum(f, s)}
<1>5. ASSUME NEW T \in SUBSET S, \A x \in T : T \ {x} \in B
      PROVE  T \in B
  <2>1. CASE T = {}
    BY <2>1, <1>4, SumEmpty
  <2>2. CASE T # {}
    <3>1. PICK x \in T : x = CHOOSE y \in T : TRUE
      BY <2>2
    <3>2. iter[T] = f[x] + iter[T \ {x}]
      BY <1>4, <2>2, <3>1
    <3>3. iter[T \ {x}] = Sum(f, T \ {x})
      BY <1>5
    <3> QED BY <3>2, <3>3, SumRemove
  <2> QED BY <2>1, <2>2
<1>6. S \in B
  <2> HIDE DEF B
  <2> QED BY <1>5, SetInduction
<1> QED BY <1>1, <1>6

\* Each of n terms is at most B / n.
LEMMA SumCap ==
  ASSUME NEW S, IsFiniteSet(S), NEW f \in [S -> Nat], NEW n \in Nat, NEW B \in Nat,
         NEW U \in SUBSET S, \A j \in U : n * f[j] <= B
  PROVE  n * Sum(f, U) <= Cardinality(U) * B
<1> DEFINE G == {s \in SUBSET U : n * Sum(f, s) <= Cardinality(s) * B}
<1>1. ASSUME NEW T \in SUBSET U, \A x \in T : T \ {x} \in G
      PROVE  T \in G
  <2>1. CASE T = {}
    <3>1. Sum(f, T) = 0 /\ Cardinality(T) = 0
      BY <2>1, SumEmpty, FS_EmptySet
    <3> QED BY <3>1
  <2>2. ASSUME NEW x \in T PROVE T \in G
    <3>1. IsFiniteSet(T)
      BY FS_Subset
    <3>2. Cardinality(T \ {x}) = Cardinality(T) - 1
      BY <3>1, FS_RemoveElement
    <3>3. Cardinality(T) \in Nat /\ Cardinality(T \ {x}) \in Nat
      BY <3>1, FS_RemoveElement, FS_CardinalityType
    <3>4. Sum(f, T \ {x}) \in Nat /\ Sum(f, T) = f[x] + Sum(f, T \ {x})
      BY SumRemove
    <3>5. n * Sum(f, T \ {x}) <= Cardinality(T \ {x}) * B
      BY <1>1
    <3>6. f[x] \in Nat /\ n * f[x] <= B
      OBVIOUS
    <3> DEFINE a == Sum(f, T \ {x})
    <3> DEFINE c == Cardinality(T \ {x})
    <3>7. a \in Nat /\ c \in Nat /\ n * a <= c * B
      BY <3>3, <3>4, <3>5
    <3>8. Sum(f, T) = f[x] + a /\ Cardinality(T) = c + 1
      BY <3>2, <3>3, <3>4
    <3> HIDE DEF a, c
    <3>9. n * (f[x] + a) = n * f[x] + n * a /\ (c + 1) * B = c * B + B
      BY <3>6, <3>7
    <3>10. n * (f[x] + a) <= (c + 1) * B
      BY <3>6, <3>7, <3>9
    <3> QED BY <3>8, <3>10
  <2> QED BY <2>1, <2>2
<1>2. U \in G
  <2>1. IsFiniteSet(U)
    BY FS_Subset
  <2> HIDE DEF G
  <2> QED BY <1>1, <2>1, SetInduction
<1> QED BY <1>2

\* What holds of the terms holds of the sums: one of them, that of b, has an
\* extra T.
LEMMA SumShift ==
  ASSUME NEW S, IsFiniteSet(S), NEW f \in [S -> Nat], NEW g \in [S -> Nat], NEW w \in [S -> Nat],
         NEW L \in Int, NEW T \in Nat, NEW b \in S,
         \A j \in S : g[j] + w[j] >= L + f[j] + (IF j = b THEN T ELSE 0)
  PROVE  Sum(g, S) + Sum(w, S) >= Cardinality(S) * L + Sum(f, S) + T
<1> DEFINE Extra(s) == IF b \in s THEN T ELSE 0
<1> DEFINE G == {s \in SUBSET S : Sum(g, s) + Sum(w, s) >= Cardinality(s) * L + Sum(f, s) + Extra(s)}
<1>1. ASSUME NEW U \in SUBSET S, \A x \in U : U \ {x} \in G
      PROVE  U \in G
  <2>1. CASE U = {}
    <3>1. Sum(g, U) = 0 /\ Sum(w, U) = 0 /\ Sum(f, U) = 0 /\ Cardinality(U) = 0
      BY <2>1, SumEmpty, FS_EmptySet
    <3> QED BY <2>1, <3>1
  <2>2. ASSUME NEW x \in U PROVE U \in G
    <3>1. IsFiniteSet(U)
      BY FS_Subset
    <3>2. Cardinality(U \ {x}) = Cardinality(U) - 1
      BY <3>1, FS_RemoveElement
    <3>3. Cardinality(U) \in Nat /\ Cardinality(U \ {x}) \in Nat
      BY <3>1, FS_RemoveElement, FS_CardinalityType
    <3> DEFINE V == U \ {x}
    <3>4. Sum(f, V) \in Nat /\ Sum(f, U) = f[x] + Sum(f, V)
      BY SumRemove
    <3>5. Sum(g, V) \in Nat /\ Sum(g, U) = g[x] + Sum(g, V)
      BY SumRemove
    <3>6. Sum(w, V) \in Nat /\ Sum(w, U) = w[x] + Sum(w, V)
      BY SumRemove
    <3>7. Sum(g, V) + Sum(w, V) >= Cardinality(V) * L + Sum(f, V) + Extra(V)
      BY <1>1
    <3>8. f[x] \in Nat /\ g[x] \in Nat /\ w[x] \in Nat
      OBVIOUS
    <3>9. g[x] + w[x] >= L + f[x] + Extra({x})
      OBVIOUS
    <3>10. Extra(U) = Extra(V) + Extra({x}) /\ Extra(V) \in Nat /\ Extra({x}) \in Nat
      OBVIOUS
    <3> DEFINE c == Cardinality(V)
    <3>11. c \in Nat /\ Cardinality(U) = c + 1
      BY <3>2, <3>3
    <3>12. (c + 1) * L = c * L + L /\ c * L \in Int
      BY <3>11
    <3>13. Sum(g, U) + Sum(w, U) >= (c + 1) * L + Sum(f, U) + Extra(U)
      <4> HIDE DEF c, V, Extra, G
      <4> QED BY <3>4, <3>5, <3>6, <3>7, <3>8, <3>9, <3>10, <3>12 DEF c
    <3> QED BY <3>11, <3>13
  <2> QED BY <2>1, <2>2
<1>2. S \in G
  <2> HIDE DEF G
  <2> QED BY <1>1, SetInduction
<1> QED BY <1>2

LEMMA SumMonotone ==
  ASSUME NEW S, IsFiniteSet(S), NEW f \in [S -> Nat], NEW g \in [S -> Nat],
         \A j \in S : f[j] <= g[j]
  PROVE  Sum(f, S) <= Sum(g, S)
<1> DEFINE G == {s \in SUBSET S : Sum(f, s) <= Sum(g, s)}
<1>1. ASSUME NEW U \in SUBSET S, \A x \in U : U \ {x} \in G
      PROVE  U \in G
  <2>1. CASE U = {}
    <3>1. Sum(g, U) = 0 /\ Sum(f, U) = 0
      BY <2>1, SumEmpty
    <3> QED BY <3>1
  <2>2. ASSUME NEW x \in U PROVE U \in G
    <3>1. Sum(f, U \ {x}) \in Nat /\ Sum(f, U) = f[x] + Sum(f, U \ {x})
      BY SumRemove
    <3>2. Sum(g, U \ {x}) \in Nat /\ Sum(g, U) = g[x] + Sum(g, U \ {x})
      BY SumRemove
    <3>3. Sum(f, U \ {x}) <= Sum(g, U \ {x}) /\ f[x] \in Nat /\ g[x] \in Nat /\ f[x] <= g[x]
      BY <1>1
    <3>4. Sum(f, U) <= Sum(g, U)
      <4> HIDE DEF G
      <4> QED BY <3>1, <3>2, <3>3
    <3> QED BY <3>4
  <2> QED BY <2>1, <2>2
<1>2. S \in G
  <2> HIDE DEF G
  <2> QED BY <1>1, SetInduction
<1> QED BY <1>2

\* The first of the largest.
LEMMA FirstLargest ==
  ASSUME NEW S \in SUBSET Nat, IsFiniteSet(S), S # {}, NEW f \in [S -> Int]
  PROVE  \E b \in S : \A k \in S : f[k] < f[b] \/ (f[k] = f[b] /\ b <= k)
<1> DEFINE IsFirst(b, s) == \A k \in s : f[k] < f[b] \/ (f[k] = f[b] /\ b <= k)
<1> DEFINE G == {s \in SUBSET S : s = {} \/ \E b \in s : IsFirst(b, s)}
<1>1. ASSUME NEW U \in SUBSET S, \A x \in U : U \ {x} \in G
      PROVE  U \in G
  <2>1. SUFFICES ASSUME NEW x \in U PROVE \E b \in U : IsFirst(b, U)
    OBVIOUS
  <2>2. CASE U \ {x} = {}
    <3>1. IsFirst(x, U)
      BY <2>2
    <3> QED BY <3>1
  <2>3. CASE U \ {x} # {}
    <3>1. PICK b \in U \ {x} : IsFirst(b, U \ {x})
      BY <1>1, <2>3
    <3>2. x \in Nat /\ b \in Nat /\ \A k \in U : k \in Nat /\ f[k] \in Int
      OBVIOUS
    <3>3. CASE f[x] < f[b] \/ (f[x] = f[b] /\ b <= x)
      <4>1. IsFirst(b, U)
        BY <3>1, <3>3
      <4> QED BY <4>1
    <3>4. CASE ~(f[x] < f[b] \/ (f[x] = f[b] /\ b <= x))
      <4>1. ASSUME NEW k \in U PROVE f[k] < f[x] \/ (f[k] = f[x] /\ x <= k)
        <5>1. CASE k = x
          BY <5>1, <3>2
        <5>2. CASE k # x
          <6>1. f[k] < f[b] \/ (f[k] = f[b] /\ b <= k)
            BY <3>1, <5>2
          <6>2. f[x] > f[b] \/ (f[x] = f[b] /\ x < b)
            BY <3>2, <3>4
          <6> QED BY <3>2, <6>1, <6>2
        <5> QED BY <5>1, <5>2
      <4> QED BY <4>1
    <3> QED BY <3>3, <3>4
  <2> QED BY <2>2, <2>3
<1>2. S \in G
  <2> HIDE DEF G
  <2> QED BY <1>1, SetInduction
<1> QED BY <1>2

-----------------------------------------------------------------------------
(* The smooth weighted round-robin, on any finite set of keys.             *)

\* How far a key is behind the first, and what it would have gained meanwhile,
\* is bounded by what all keys are behind.
Balanced(S, w, t, d, m) ==
  \A k \in S : Cardinality(S) * (d[k] + w[k] * m[k]) <= (Cardinality(S) - 1) * t + Sum(d, S)

\* The best key b is charged t, and all values are taken relative to the
\* largest.
Turn(S, w, t, d, e, b, L) ==
  /\ \A k \in S : e[k] = L + d[k] - w[k] + (IF k = b THEN t ELSE 0)
  /\ \A k \in S : w[k] - d[k] <= w[b] - d[b]

LEMMA TurnKeepsBalance ==
  ASSUME NEW S, IsFiniteSet(S), NEW w \in [S -> Nat], NEW t \in Nat, Sum(w, S) <= t,
         NEW d \in [S -> Nat], NEW m \in [S -> Nat], Balanced(S, w, t, d, m),
         NEW e \in [S -> Nat], NEW b \in S, NEW L \in Int, Turn(S, w, t, d, e, b, L)
  PROVE  Balanced(S, w, t, e, [k \in S |-> IF k = b THEN 0 ELSE m[k] + 1])
<1> DEFINE n == Cardinality(S)
<1> DEFINE D == Sum(d, S)
<1> DEFINE E == Sum(e, S)
<1> DEFINE W == Sum(w, S)
<1>1. n \in Nat /\ n >= 1
  <2>1. n \in Nat
    BY FS_CardinalityType
  <2>2. n # 0
    BY FS_EmptySet
  <2> QED BY <2>1, <2>2
<1>2. D \in Nat /\ E \in Nat /\ W \in Nat /\ W <= t
  BY SumNat
<1>3. E + W >= n * L + D + t
  <2>1. \A j \in S : e[j] + w[j] >= L + d[j] + (IF j = b THEN t ELSE 0)
    BY DEF Turn
  <2> QED BY <2>1, SumShift
<1> DEFINE M == L - (w[b] - d[b])
<1>4. E >= n * M + t
  <2>1. M \in Int
    OBVIOUS
  <2>2. \A j \in S : e[j] + w[j] >= M + w[j] + (IF j = b THEN t ELSE 0)
    BY DEF Turn
  <2>3. E + W >= n * M + W + t
    <3> HIDE DEF M
    <3> QED BY <2>1, <2>2, SumShift
  <2>4. n * M \in Int
    BY <1>1, <2>1
  <2> HIDE DEF n, E, W, M
  <2> QED BY <1>2, <2>3, <2>4
<1>5. ASSUME NEW k \in S
      PROVE  n * (e[k] + w[k] * (IF k = b THEN 0 ELSE m[k] + 1)) <= (n - 1) * t + E
  <2>1. w[k] \in Nat /\ d[k] \in Nat /\ e[k] \in Nat /\ m[k] \in Nat
    OBVIOUS
  <2>2. (n - 1) * t = n * t - t /\ n * t \in Int
    BY <1>1
  <2>3. CASE k = b
    <3>1. e[k] = M + t /\ M \in Int
      BY <2>1, <2>3 DEF Turn
    <3>2. e[k] + w[k] * 0 = M + t
      BY <2>1, <3>1
    <3>3. n * (M + t) = n * M + n * t /\ n * M \in Int
      BY <1>1, <3>1
    <3>4. n * (e[k] + w[k] * 0) <= (n - 1) * t + E
      <4> HIDE DEF n, E, M
      <4> QED BY <1>2, <1>4, <2>2, <3>2, <3>3
    <3> QED BY <2>3, <3>4
  <2>4. CASE k # b
    <3>1. e[k] = L + d[k] - w[k]
      BY <2>1, <2>4 DEF Turn
    <3>2. w[k] * (m[k] + 1) = w[k] * m[k] + w[k] /\ w[k] * m[k] \in Nat
      BY <2>1
    <3>3. e[k] + w[k] * (m[k] + 1) = L + (d[k] + w[k] * m[k])
      BY <2>1, <3>1, <3>2
    <3> DEFINE p == d[k] + w[k] * m[k]
    <3>4. p \in Nat /\ n * p <= (n - 1) * t + D
      BY <2>1, <3>2 DEF Balanced
    <3>5. n * (L + p) = n * L + n * p /\ n * L \in Int /\ n * p \in Int
      <4> HIDE DEF n, p
      <4> QED BY <1>1, <3>4
    <3>6. n * (e[k] + w[k] * (m[k] + 1)) <= (n - 1) * t + E
      <4>1. n * (e[k] + w[k] * (m[k] + 1)) = n * L + n * p
        BY <3>3, <3>5
      <4> HIDE DEF n, p, D, E, W
      <4> QED BY <1>2, <1>3, <2>2, <3>4, <3>5, <4>1
    <3> QED BY <2>4, <3>6
  <2> QED BY <2>3, <2>4
<1> QED BY <1>5 DEF Balanced

\* A key gains for at most (n - 1) * t / w[k] choices.
LEMMA BalanceBoundsWaits ==
  ASSUME NEW S, IsFiniteSet(S), NEW w \in [S -> Nat], NEW t \in Nat,
         NEW d \in [S -> Nat], NEW m \in [S -> Nat], Balanced(S, w, t, d, m), NEW k \in S
  PROVE  w[k] * m[k] <= (Cardinality(S) - 1) * t
<1> DEFINE n == Cardinality(S)
<1> DEFINE D == Sum(d, S)
<1> DEFINE R == Sum(d, S \ {k})
<1> DEFINE p == w[k] * m[k]
<1>1. n \in Nat /\ n >= 1 /\ Cardinality(S \ {k}) = n - 1
  <2>1. n \in Nat /\ Cardinality(S \ {k}) = n - 1
    BY FS_CardinalityType, FS_RemoveElement
  <2>2. n # 0
    BY FS_EmptySet
  <2> QED BY <2>1, <2>2
<1>2. D \in Nat /\ R \in Nat /\ D = d[k] + R
  <2>1. Sum(d, S) \in Nat /\ Sum(d, S \ {k}) \in Nat
    BY SumNat
  <2>2. Sum(d, S) = d[k] + Sum(d, S \ {k})
    BY SumRemove
  <2> QED BY <2>1, <2>2
<1>3. p \in Nat /\ d[k] \in Nat /\ n * (d[k] + p) <= (n - 1) * t + D
  <2>1. w[k] \in Nat /\ m[k] \in Nat
    OBVIOUS
  <2> QED BY <2>1 DEF Balanced
<1> DEFINE B == (n - 1) * t + D
<1>4. B \in Nat
  <2>1. n - 1 \in Nat
    BY <1>1
  <2>2. (n - 1) * t \in Nat
    <3> HIDE DEF n
    <3> QED BY <2>1
  <2> QED BY <1>2, <2>2
<1>5. n * R <= (n - 1) * B
  <2>1. \A j \in S : n * d[j] <= B
    <3> TAKE j \in S
    <3>1. d[j] \in Nat /\ w[j] \in Nat /\ m[j] \in Nat
      OBVIOUS
    <3>2. w[j] * m[j] \in Nat
      BY <3>1
    <3>3. n * (d[j] + w[j] * m[j]) <= B
      BY DEF Balanced
    <3> DEFINE q == w[j] * m[j]
    <3>4. n * (d[j] + q) = n * d[j] + n * q /\ n * q \in Nat /\ n * d[j] \in Nat
      <4> HIDE DEF n, q
      <4> QED BY <1>1, <3>1, <3>2 DEF q
    <3> HIDE DEF q, B, n
    <3> QED BY <1>4, <3>3, <3>4 DEF q
  <2>2. n * R <= Cardinality(S \ {k}) * B
    <3> HIDE DEF n, B
    <3> QED BY <1>1, <1>4, <2>1, SumCap
  <2> QED BY <1>1, <2>2
<1>6. p <= (n - 1) * t
  <2> HIDE DEF n, D, R, p
  <2> DEFINE c == n - 1
  <2>1. c \in Nat /\ n = c + 1
    BY <1>1
  <2> DEFINE x == c * t
  <2>2. x \in Nat /\ B = x + D
    BY <2>1
  <2> HIDE DEF c, x, B
  <2>3. (c + 1) * R = c * R + R /\ c * R \in Nat
    BY <1>2, <2>1
  <2>4. c * B = c * x + c * D /\ c * x \in Nat /\ c * D \in Nat
    BY <1>2, <2>1, <2>2
  <2>5. c * D = c * d[k] + c * R /\ c * d[k] \in Nat
    BY <1>2, <1>3, <2>1
  <2>6. R <= c * x + c * d[k]
    BY <1>2, <1>5, <2>1, <2>3, <2>4, <2>5 DEF c
  <2>7. (c + 1) * (d[k] + p) = c * d[k] + c * p + d[k] + p /\ c * p \in Nat
    BY <1>3, <2>1
  <2>8. c * p + p <= x + c * x
    BY <1>2, <1>3, <2>1, <2>2, <2>4, <2>5, <2>6, <2>7 DEF B
  <2>9. p <= x
    <3>1. SUFFICES ASSUME p >= x + 1 PROVE FALSE
      BY <1>3, <2>2
    <3>2. c * p >= c * x
      BY <1>3, <2>1, <2>2, <3>1
    <3> QED BY <1>3, <2>2, <2>4, <2>7, <2>8, <3>1, <3>2
  <2> QED BY <2>9 DEF x, c
<1> QED BY <1>6

-----------------------------------------------------------------------------
(* Types, and what a key in memory waits for.                              *)

WeightsOf(m) == [k \in DOMAIN m |-> m[k].weight]
Deficits(m)  == [k \in DOMAIN m |-> 0 - m[k].value]
WaitsOf(m)   == [k \in DOMAIN m |-> m[k].waited]

\* No current value exceeds the largest, the total covers the weights, and the
\* round-robin is balanced.
Rotation(m, t) ==
  /\ \A k \in DOMAIN m : m[k] \in Copy /\ m[k].value <= 0
  /\ t \in Nat /\ Sum(WeightsOf(m), DOMAIN m) <= t
  /\ Balanced(DOMAIN m, WeightsOf(m), t, Deficits(m), WaitsOf(m))

IsList(l) ==
  /\ DOMAIN l \subseteq 1 .. created
  /\ \A k \in DOMAIN l : l[k] \in [weight : Weights, eff : Nat] /\ l[k].weight <= l[k].eff

TableOK ==
  /\ created \in 0 .. NumKeys
  /\ stored \subseteq 1 .. created
  /\ row \in [Keys -> Row \cup {Blank}]
  /\ \A k \in Keys : IF k \in stored THEN row[k] \in Row ELSE row[k] = Blank

MemoryOK == DOMAIN mem \subseteq 1 .. created /\ Rotation(mem, total)

\* Who is about to choose has an attempt left.
TurnsOK ==
  /\ pc \in [Callers -> {"idle", "pick", "call", "mark", "list", "reload"}]
  /\ tries \in [Callers -> 0 .. NumKeys]
  /\ key \in [Callers -> Keys \cup {NoKey}]
  /\ \A c \in Callers : pc[c] = "pick" => tries[c] > 0

SnapsOK == DOMAIN snap = Callers /\ \A c \in Callers : IsList(snap[c])

HistoryOK == fresh \subseteq Callers /\ current \in BOOLEAN /\ lapsed \in BOOLEAN

TInv == TableOK /\ MemoryOK /\ TurnsOK /\ SnapsOK /\ HistoryOK /\ events \in 0 .. MaxEvents

\* Lists are finite: at most all keys.
LEMMA SomeKeys ==
  ASSUME created \in 0 .. NumKeys, NEW S, S \subseteq 1 .. created
  PROVE  /\ IsFiniteSet(S) /\ S \subseteq Keys /\ S \in SUBSET Nat
         /\ Cardinality(S) \in 0 .. NumKeys
<1>1. S \subseteq 1 .. NumKeys /\ S \in SUBSET Nat
  BY NumKeysAssumption
<1>2. NumKeys \in Int /\ 1 \in Int
  BY NumKeysAssumption
<1>3. IsFiniteSet(1 .. NumKeys) /\ Cardinality(1 .. NumKeys) = NumKeys
  BY <1>2, NumKeysAssumption, FS_Interval
<1>4. IsFiniteSet(S) /\ Cardinality(S) <= NumKeys
  BY <1>1, <1>3, FS_Subset
<1>5. Cardinality(S) \in Nat
  BY <1>4, FS_CardinalityType
<1> QED BY <1>1, <1>4, <1>5, NumKeysAssumption DEF Keys

\* A raised weight is a natural number, and not below the weight.
LEMMA EffWeightRaises ==
  ASSUME NEW r \in Row
  PROVE  EffWeight(r) \in Nat /\ r.weight <= EffWeight(r)
<1>1. r.weight \in Nat /\ r.monthly \in Int /\ r.remaining \in Int
  BY WeightsAssumption DEF Row
<1>2. CASE r.monthly > 0 /\ r.remaining >= 0
  <2> DEFINE share == IF r.remaining < r.monthly THEN r.remaining ELSE r.monthly
  <2>1. share \in Nat /\ r.monthly \in Nat \ {0}
    BY <1>1, <1>2
  <2>2. (r.weight * share) \div r.monthly \in Nat
    <3> HIDE DEF share
    <3> QED BY <1>1, <2>1
  <2>3. EffWeight(r) = r.weight + (r.weight * share) \div r.monthly
    BY <1>2 DEF EffWeight
  <2> HIDE DEF share
  <2> QED BY <1>1, <2>2, <2>3
<1>3. CASE ~(r.monthly > 0 /\ r.remaining >= 0)
  BY <1>1, <1>3 DEF EffWeight
<1> QED BY <1>2, <1>3

\* What ListUsable reads.
LEMMA UsableIsList == ASSUME TableOK PROVE IsList(Usable)
<1>1. \A k \in stored : k \in 1 .. created /\ row[k] \in Row
  BY NumKeysAssumption DEF TableOK, Keys
<1>2. ASSUME NEW k \in DOMAIN Usable
      PROVE  /\ k \in 1 .. created
             /\ Usable[k] \in [weight : Weights, eff : Nat] /\ Usable[k].weight <= Usable[k].eff
  <2>1. k \in stored /\ Usable[k] = [weight |-> row[k].weight, eff |-> EffWeight(row[k])]
    BY DEF Usable
  <2>2. row[k] \in Row /\ row[k].weight \in Weights
    BY <1>1, <2>1 DEF Row
  <2>3. EffWeight(row[k]) \in Nat /\ row[k].weight <= EffWeight(row[k])
    BY <2>2, EffWeightRaises
  <2> QED BY <1>1, <2>1, <2>2, <2>3
<1> QED BY <1>2 DEF IsList

LEMMA EmptyIsList == IsList(Empty)
  BY DEF IsList, Empty

\* Reload starts a rotation in which nobody has waited.
LEMMA LoadRotates ==
  ASSUME created \in 0 .. NumKeys, NEW l, IsList(l), Load(l)
  PROVE  DOMAIN mem' \subseteq 1 .. created /\ Rotation(mem', total')
<1> DEFINE S == DOMAIN l
<1>1. IsFiniteSet(S) /\ S \subseteq 1 .. created
  BY SomeKeys DEF IsList
<1>2. PICK m, t : m = mem' /\ t = total'
  OBVIOUS
<1>3. DOMAIN m = S /\ \A k \in S : m[k] = [weight |-> l[k].weight, value |-> 0, waited |-> 0]
  BY <1>2 DEF Load, Fresh
<1>4. \A k \in S : l[k].weight \in Weights /\ l[k].weight \in Nat /\ l[k].eff \in Nat
                   /\ l[k].weight <= l[k].eff
  BY WeightsAssumption DEF IsList
<1>5. \A k \in S : m[k] \in Copy /\ m[k].value <= 0
  BY <1>3, <1>4 DEF Copy
<1> DEFINE effs == [k \in S |-> l[k].eff]
<1>6. effs \in [S -> Nat]
  BY <1>4
<1>7. t = Sum(effs, S)
  <2>1. t = SumFunction(effs)
    BY <1>2 DEF Load
  <2> HIDE DEF effs, S
  <2> QED BY <1>1, <1>6, <2>1, SumFunctionIsSum
<1>8. t \in Nat
  <2> HIDE DEF effs, S
  <2> QED BY <1>1, <1>6, <1>7, SumNat
<1>9. WeightsOf(m) \in [S -> Nat] /\ \A k \in S : WeightsOf(m)[k] <= effs[k]
  BY <1>3, <1>4 DEF WeightsOf
<1>10. Sum(WeightsOf(m), S) <= t
  <2> HIDE DEF effs, S
  <2> QED BY <1>1, <1>6, <1>7, <1>9, SumMonotone
<1>11. Deficits(m) \in [S -> Nat] /\ \A k \in S : Deficits(m)[k] = 0 /\ WaitsOf(m)[k] = 0
  BY <1>3 DEF Deficits, WaitsOf
<1>12. Balanced(S, WeightsOf(m), t, Deficits(m), WaitsOf(m))
  <2> HIDE DEF effs, S
  <2>1. Sum(Deficits(m), S) \in Nat /\ Cardinality(S) \in Nat
    BY <1>1, <1>11, SumNat, FS_CardinalityType
  <2> DEFINE n == Cardinality(S)
  <2>2. ASSUME NEW k \in S
        PROVE  n * (Deficits(m)[k] + WeightsOf(m)[k] * WaitsOf(m)[k]) <= (n - 1) * t + Sum(Deficits(m), S)
    <3>1. n # 0 /\ n - 1 \in Nat
      <4>1. n # 0
        BY <1>1, FS_EmptySet
      <4> QED BY <2>1, <4>1
    <3>2. WeightsOf(m)[k] \in Nat
      BY <1>9
    <3>3. Deficits(m)[k] + WeightsOf(m)[k] * WaitsOf(m)[k] = 0
      BY <1>11, <3>2
    <3>4. (n - 1) * t \in Nat
      <4> HIDE DEF n
      <4> QED BY <1>8, <3>1
    <3> HIDE DEF n
    <3>5. n * 0 = 0
      BY <2>1 DEF n
    <3> QED BY <2>1, <3>3, <3>4, <3>5
  <2> QED BY <2>2 DEF Balanced
<1> QED BY <1>1, <1>2, <1>3, <1>5, <1>8, <1>10, <1>12 DEF Rotation

\* There is a best key, and a largest of the values that remain.
LEMMA BestAndLargest ==
  ASSUME created \in 0 .. NumKeys, DOMAIN mem \subseteq 1 .. created, DOMAIN mem # {},
         Rotation(mem, total)
  PROVE  /\ Best \in DOMAIN mem
         /\ \A k \in DOMAIN mem : Raised(k) <= Raised(Best)
         /\ Largest \in Int
         /\ \A k \in DOMAIN mem : Charged(k) \in Int /\ Charged(k) <= Largest
<1> DEFINE S == DOMAIN mem
<1>1. IsFiniteSet(S) /\ S \in SUBSET Nat /\ S # {}
  BY SomeKeys
<1>2. \A k \in S : Raised(k) \in Int /\ mem[k].weight \in Nat /\ mem[k].value \in Int
  <2> TAKE k \in S
  <2>1. mem[k] \in Copy
    BY DEF Rotation
  <2>2. mem[k].weight \in Nat /\ mem[k].value \in Int
    BY <2>1, WeightsAssumption DEF Copy
  <2> QED BY <2>2 DEF Raised
<1>3. total \in Nat
  BY DEF Rotation
<1> DEFINE raised == [k \in S |-> Raised(k)]
<1>4. \E b \in S : \A k \in S : Raised(k) < Raised(b) \/ (Raised(k) = Raised(b) /\ b <= k)
  <2>1. raised \in [S -> Int]
    BY <1>2
  <2>2. \E b \in S : \A k \in S : raised[k] < raised[b] \/ (raised[k] = raised[b] /\ b <= k)
    <3> HIDE DEF raised, S
    <3> QED BY <1>1, <2>1, FirstLargest
  <2> QED BY <2>2
<1>5. /\ Best \in S
      /\ \A k \in S : Raised(k) < Raised(Best) \/ (Raised(k) = Raised(Best) /\ Best <= k)
  BY <1>4 DEF Best
<1>6. \A k \in S : Raised(k) <= Raised(Best)
  BY <1>2, <1>5
<1>7. \A k \in S : Charged(k) \in Int
  BY <1>2, <1>3 DEF Charged
<1> DEFINE charged == [k \in S |-> Charged(k)]
<1>8. \E b \in S : \A k \in S : Charged(k) <= Charged(b)
  <2>1. charged \in [S -> Int]
    BY <1>7
  <2>2. \E b \in S : \A k \in S : charged[k] < charged[b] \/ (charged[k] = charged[b] /\ b <= k)
    <3> HIDE DEF charged, S
    <3> QED BY <1>1, <2>1, FirstLargest
  <2>3. PICK b \in S : \A k \in S : charged[k] < charged[b] \/ (charged[k] = charged[b] /\ b <= k)
    BY <2>2
  <2>4. \A k \in S : Charged(k) <= Charged(b)
    BY <1>7, <2>3
  <2> QED BY <2>4
<1>9. /\ Largest \in {Charged(k) : k \in S}
      /\ \A k \in S : Charged(k) <= Largest
  <2>1. \E v \in {Charged(k) : k \in S} : \A k \in S : Charged(k) <= v
    BY <1>8
  <2> HIDE DEF S
  <2> QED BY <2>1 DEF Largest, S
<1> QED BY <1>5, <1>6, <1>7, <1>9

\* pick keeps the rotation.
LEMMA ChooseRotates ==
  ASSUME created \in 0 .. NumKeys, DOMAIN mem \subseteq 1 .. created, DOMAIN mem # {},
         Rotation(mem, total), Choose
  PROVE  DOMAIN mem' = DOMAIN mem /\ Rotation(mem', total)
<1>1. PICK S, m, w, d, q, t, b, L, mm :
        /\ S = DOMAIN mem /\ m = mem /\ t = total /\ b = Best /\ L = Largest /\ mm = mem'
        /\ w = WeightsOf(m) /\ d = Deficits(m) /\ q = WaitsOf(m)
  OBVIOUS
<1>2. /\ b \in S /\ L \in Int /\ t \in Nat
      /\ \A k \in S : m[k].value + m[k].weight <= m[b].value + m[b].weight
      /\ \A k \in S : Charged(k) \in Int /\ Charged(k) <= L
  BY <1>1, BestAndLargest DEF Raised, Rotation
<1>3. IsFiniteSet(S)
  BY <1>1, SomeKeys
<1>4. \A k \in S : m[k] \in Copy /\ m[k].weight \in Nat /\ m[k].weight \in Weights
                   /\ m[k].value \in Int /\ m[k].value <= 0 /\ m[k].waited \in Nat
  BY <1>1, WeightsAssumption DEF Rotation, Copy
<1>5. \A k \in S : Charged(k) = m[k].value + m[k].weight - (IF k = b THEN t ELSE 0)
  BY <1>1, <1>2, <1>4 DEF Charged, Raised
<1>6. mm = [k \in S |-> [ weight |-> m[k].weight, value |-> Charged(k) - L,
                          waited |-> IF k = b THEN 0 ELSE m[k].waited + 1 ]]
  BY <1>1 DEF Choose
<1>7. w \in [S -> Nat] /\ d \in [S -> Nat] /\ q \in [S -> Nat]
  BY <1>1, <1>4 DEF WeightsOf, Deficits, WaitsOf
<1>8. \A k \in S : w[k] = m[k].weight /\ d[k] = 0 - m[k].value /\ q[k] = m[k].waited
  BY <1>1 DEF WeightsOf, Deficits, WaitsOf
<1>9. Sum(w, S) <= t /\ Balanced(S, w, t, d, q)
  BY <1>1 DEF Rotation
<1>10. DOMAIN mm = S
  BY <1>6
<1>11. \A k \in S : mm[k] \in Copy /\ mm[k].value <= 0
  <2> TAKE k \in S
  <2>1. Charged(k) - L \in Int /\ Charged(k) - L <= 0
    BY <1>2
  <2>2. (IF k = b THEN 0 ELSE m[k].waited + 1) \in Nat
    BY <1>4
  <2> QED BY <1>4, <1>6, <2>1, <2>2 DEF Copy
<1>12. WeightsOf(mm) = w
  BY <1>6, <1>7, <1>8, <1>10 DEF WeightsOf
<1>13. WaitsOf(mm) = [k \in S |-> IF k = b THEN 0 ELSE q[k] + 1]
  BY <1>6, <1>8, <1>10 DEF WaitsOf
<1>14. PICK e : e = Deficits(mm)
  OBVIOUS
<1>15. e \in [S -> Nat]
  BY <1>10, <1>11, <1>14 DEF Deficits, Copy
<1>16. \A k \in S : e[k] = L + d[k] - w[k] + (IF k = b THEN t ELSE 0)
  <2> TAKE k \in S
  <2>1. e[k] = 0 - (Charged(k) - L)
    BY <1>6, <1>10, <1>14 DEF Deficits
  <2>2. CASE k = b
    BY <1>2, <1>4, <1>5, <1>8, <2>1, <2>2
  <2>3. CASE k # b
    BY <1>2, <1>4, <1>5, <1>8, <2>1, <2>3
  <2> QED BY <2>2, <2>3
<1>17. \A k \in S : w[k] - d[k] <= w[b] - d[b]
  BY <1>2, <1>4, <1>8
<1>18. Turn(S, w, t, d, e, b, L)
  BY <1>16, <1>17 DEF Turn
<1>19. Balanced(S, w, t, e, [k \in S |-> IF k = b THEN 0 ELSE q[k] + 1])
  BY <1>2, <1>3, <1>7, <1>9, <1>15, <1>18, TurnKeepsBalance
<1>20. Rotation(mm, t)
  BY <1>2, <1>9, <1>10, <1>11, <1>12, <1>13, <1>14, <1>19 DEF Rotation
<1> QED BY <1>1, <1>10, <1>20

-----------------------------------------------------------------------------
(* Steps keep the types and the rotation.                                  *)

LEMMA InitTInv == Init => TInv
<1> SUFFICES ASSUME Init PROVE TInv
  OBVIOUS
<1>1. TableOK
  BY NumKeysAssumption DEF Init, TableOK
<1>2. MemoryOK
  <2>1. DOMAIN mem = {} /\ total = 0
    BY DEF Init, Empty
  <2>2. Sum(WeightsOf(mem), {}) = 0
    BY SumEmpty
  <2> QED BY <2>1, <2>2 DEF MemoryOK, Rotation, Balanced
<1>3. TurnsOK
  BY NumKeysAssumption DEF Init, TurnsOK
<1>4. SnapsOK
  BY EmptyIsList DEF Init, SnapsOK
<1>5. HistoryOK
  BY DEF Init, HistoryOK
<1>6. events \in 0 .. MaxEvents
  BY MaxEventsAssumption DEF Init
<1> QED BY <1>1, <1>2, <1>3, <1>4, <1>5, <1>6 DEF TInv

LEMMA TInvTypes == TInv => TypeOK
<1> SUFFICES ASSUME TInv PROVE TypeOK
  OBVIOUS
<1>1. \A k \in DOMAIN mem : mem[k] \in Copy
  BY DEF TInv, MemoryOK, Rotation
<1>2. total \in Nat
  BY DEF TInv, MemoryOK, Rotation
<1>3. \A c \in Callers :
        /\ DOMAIN snap[c] \subseteq Keys
        /\ \A k \in DOMAIN snap[c] : snap[c][k] \in [weight : Weights, eff : Nat]
  BY NumKeysAssumption DEF TInv, TableOK, SnapsOK, IsList, Keys
<1> QED BY <1>1, <1>2, <1>3 DEF TInv, TableOK, MemoryOK, TurnsOK, HistoryOK, TypeOK

\* An event is counted.
LEMMA EventCounts ==
  ASSUME events \in 0 .. MaxEvents, Event
  PROVE  events' \in 0 .. MaxEvents
  BY MaxEventsAssumption DEF Event

\* A caller goes somewhere else, or on with its next attempt.
LEMMA ContinueTurns ==
  ASSUME TurnsOK, NEW c \in Callers, Continue(c), UNCHANGED tries
  PROVE  TurnsOK'
  BY DEF TurnsOK, Continue, Goto

LEMMA GotoTurns ==
  ASSUME TurnsOK, NEW c \in Callers, NEW where \in {"idle", "mark", "list", "reload"},
         Goto(c, where), UNCHANGED <<tries, key>>
  PROVE  TurnsOK'
  BY DEF TurnsOK, Goto

\* The list in memory is unchanged, and the keys created are still there.
LEMMA MemoryStays ==
  ASSUME TInv, created' \in created .. NumKeys, UNCHANGED <<mem, total>>
  PROVE  MemoryOK'
<1>1. created \in Nat /\ created' \in Int
  BY NumKeysAssumption DEF TInv, TableOK
<1>2. 1 .. created \subseteq 1 .. created'
  BY <1>1
<1>3. Rotation(mem, total) /\ DOMAIN mem \subseteq 1 .. created
  BY DEF TInv, MemoryOK
<1>4. PICK m, t : m = mem /\ t = total
  OBVIOUS
<1>5. mem' = m /\ total' = t /\ Rotation(m, t)
  BY <1>3, <1>4
<1> QED BY <1>2, <1>3, <1>4, <1>5 DEF MemoryOK

LEMMA SnapsStay ==
  ASSUME TInv, created' \in created .. NumKeys, UNCHANGED snap
  PROVE  SnapsOK'
<1>1. created \in Nat /\ created' \in Int
  BY NumKeysAssumption DEF TInv, TableOK
<1>2. 1 .. created \subseteq 1 .. created'
  BY <1>1
<1> QED BY <1>2 DEF TInv, SnapsOK, IsList

LEMMA StartKeepsTInv ==
  ASSUME TInv, NEW c \in Callers, Start(c)
  PROVE  TInv'
<1>1. UNCHANGED <<created, stored, row, mem, total, key, snap, events, history>>
  BY DEF Start
<1>2. Cardinality(DOMAIN mem) \in 0 .. NumKeys /\ Cardinality(DOMAIN mem) > 0
  <2>1. IsFiniteSet(DOMAIN mem) /\ Cardinality(DOMAIN mem) \in 0 .. NumKeys
    BY SomeKeys DEF TInv, TableOK, MemoryOK
  <2>2. Cardinality(DOMAIN mem) # 0
    BY <2>1, FS_EmptySet DEF Start
  <2> QED BY <2>1, <2>2, NumKeysAssumption
<1>3. TurnsOK'
  BY <1>2 DEF TInv, TurnsOK, Start, Goto
<1>4. created' \in created .. NumKeys
  BY <1>1, NumKeysAssumption DEF TInv, TableOK
<1>5. MemoryOK' /\ SnapsOK'
  BY <1>1, <1>4, MemoryStays, SnapsStay
<1>6. TableOK' /\ HistoryOK' /\ events' \in 0 .. MaxEvents
  BY <1>1 DEF TInv, TableOK, HistoryOK, history
<1> QED BY <1>3, <1>5, <1>6 DEF TInv

LEMMA PickKeepsTInv ==
  ASSUME TInv, NEW c \in Callers, Pick(c)
  PROVE  TInv'
<1>1. UNCHANGED <<created, stored, row, total, snap, events, history>>
  BY DEF Pick
<1>2. /\ created \in 0 .. NumKeys /\ DOMAIN mem \subseteq 1 .. created /\ DOMAIN mem # {}
      /\ Rotation(mem, total) /\ Choose
  BY DEF TInv, TableOK, MemoryOK, Pick
<1>3. Best \in Keys
  <2>1. Best \in DOMAIN mem
    BY <1>2, BestAndLargest
  <2> QED BY <1>2, <2>1, SomeKeys
<1>4. TurnsOK'
  <2>1. pc[c] = "pick" /\ tries[c] > 0 /\ tries[c] \in 0 .. NumKeys
    BY DEF TInv, TurnsOK, Pick
  <2>2. tries[c] - 1 \in 0 .. NumKeys
    BY <2>1, NumKeysAssumption
  <2> QED BY <1>3, <2>2 DEF TInv, TurnsOK, Pick, Goto
<1>5. MemoryOK'
  <2>1. DOMAIN mem' = DOMAIN mem /\ Rotation(mem', total)
    BY <1>2, ChooseRotates
  <2> QED BY <1>1, <1>2, <2>1 DEF MemoryOK
<1>6. created' \in created .. NumKeys
  BY <1>1, NumKeysAssumption DEF TInv, TableOK
<1>7. SnapsOK'
  BY <1>1, <1>6, SnapsStay
<1>8. TableOK' /\ HistoryOK' /\ events' \in 0 .. MaxEvents
  BY <1>1 DEF TInv, TableOK, HistoryOK, history
<1> QED BY <1>4, <1>5, <1>7, <1>8 DEF TInv

LEMMA PickNoneKeepsTInv ==
  ASSUME TInv, NEW c \in Callers, PickNone(c)
  PROVE  TInv'
<1>1. UNCHANGED <<created, stored, row, mem, total, key, snap, events, history>>
  BY DEF PickNone
<1>2. TurnsOK'
  BY NumKeysAssumption DEF TInv, TurnsOK, PickNone, Goto
<1>3. created' \in created .. NumKeys
  BY <1>1, NumKeysAssumption DEF TInv, TableOK
<1>4. MemoryOK' /\ SnapsOK'
  BY <1>1, <1>3, MemoryStays, SnapsStay
<1>5. TableOK' /\ HistoryOK' /\ events' \in 0 .. MaxEvents
  BY <1>1 DEF TInv, TableOK, HistoryOK, history
<1> QED BY <1>2, <1>4, <1>5 DEF TInv

\* One row changes to another with the same types.
LEMMA RowChanges ==
  ASSUME TableOK, NEW k \in stored, NEW r \in Row, row' = [row EXCEPT ![k] = r],
         UNCHANGED <<created, stored>>
  PROVE  TableOK'
<1>1. k \in Keys
  BY NumKeysAssumption DEF TableOK, Keys
<1> QED BY <1>1 DEF TableOK

LEMMA StoredRow ==
  ASSUME TableOK, NEW k \in stored
  PROVE  k \in Keys /\ row[k] \in Row /\ DOMAIN row = Keys
<1>1. k \in Keys
  BY NumKeysAssumption DEF TableOK, Keys
<1> QED BY <1>1 DEF TableOK

LEMMA ChargeKeepsTable ==
  ASSUME TableOK, NEW k, DecrementQuota(k), UNCHANGED <<created, stored>>
  PROVE  TableOK'
<1>1. CASE k \notin stored
  <2>1. row' = row
    BY <1>1 DEF DecrementQuota
  <2> QED BY <2>1 DEF TableOK
<1>2. CASE k \in stored
  <2> DEFINE left == IF row[k].remaining > 0 THEN row[k].remaining - 1 ELSE 0
  <2> DEFINE r == [row[k] EXCEPT !.remaining = left, !.quota = row[k].quota /\ left - 1 > 0]
  <2>1. k \in Keys /\ row[k] \in Row /\ DOMAIN row = Keys
    BY <1>2, StoredRow
  <2>2. left \in Int
    <3>1. row[k].remaining \in Int
      BY <2>1 DEF Row
    <3> QED BY <3>1
  <2>3. row' = [row EXCEPT ![k] = r]
    BY <1>2, <2>1 DEF DecrementQuota, Row
  <2>4. r \in Row
    <3> HIDE DEF left
    <3>1. (row[k].quota /\ left - 1 > 0) \in BOOLEAN
      OBVIOUS
    <3> QED BY <2>1, <2>2, <3>1 DEF Row
  <2> HIDE DEF r
  <2> QED BY <1>2, <2>3, <2>4, RowChanges
<1> QED BY <1>1, <1>2

LEMMA RecogniseKeepsTInv ==
  ASSUME TInv, NEW c \in Callers, Recognise(c)
  PROVE  TInv'
<1>1. UNCHANGED <<created, stored, mem, total, snap, history>>
  BY DEF Recognise
<1>2. TableOK'
  <2>1. TableOK
    BY DEF TInv
  <2>2. CASE UNCHANGED row
    BY <1>1, <2>1, <2>2 DEF TableOK
  <2>3. CASE DecrementQuota(key[c])
    BY <1>1, <2>1, <2>3, ChargeKeepsTable
  <2> QED BY <2>2, <2>3 DEF Recognise, TouchUsage
<1>3. events' \in 0 .. MaxEvents
  BY EventCounts DEF TInv, Recognise, TouchUsage
<1>4. TurnsOK'
  <2>1. TurnsOK
    BY DEF TInv
  <2>2. CASE tries' = [tries EXCEPT ![c] = 0] /\ key' = [key EXCEPT ![c] = NoKey] /\ Goto(c, "idle")
    BY <2>1, <2>2, NumKeysAssumption DEF TurnsOK, Goto
  <2>3. CASE Continue(c) /\ UNCHANGED tries
    BY <2>1, <2>3, ContinueTurns
  <2>4. CASE Goto(c, "mark") /\ UNCHANGED <<key, tries>>
    BY <2>1, <2>4, GotoTurns
  <2> QED BY <2>2, <2>3, <2>4 DEF Recognise
<1>5. created' \in created .. NumKeys
  BY <1>1, NumKeysAssumption DEF TInv, TableOK
<1>6. MemoryOK' /\ SnapsOK'
  BY <1>1, <1>5, MemoryStays, SnapsStay
<1>7. HistoryOK'
  BY <1>1 DEF TInv, HistoryOK, history
<1> QED BY <1>2, <1>3, <1>4, <1>6, <1>7 DEF TInv

LEMMA MarkQuotaKeepsTInv ==
  ASSUME TInv, NEW c \in Callers, MarkQuota(c)
  PROVE  TInv'
<1>1. UNCHANGED <<created, stored, mem, total, tries, key, snap, events>>
  BY DEF MarkQuota
<1>2. TableOK'
  <2>1. TableOK
    BY DEF TInv
  <2>2. CASE key[c] \in stored
    <3> DEFINE r == [row[key[c]] EXCEPT !.quota = FALSE]
    <3>1. row[key[c]] \in Row
      BY <2>1, <2>2, StoredRow
    <3>2. r \in Row
      BY <3>1 DEF Row
    <3>3. row' = [row EXCEPT ![key[c]] = r]
      BY <2>2 DEF MarkQuota
    <3> HIDE DEF r
    <3>4. PICK k : k = key[c]
      OBVIOUS
    <3> QED BY <1>1, <2>1, <2>2, <3>2, <3>3, <3>4, RowChanges
  <2>3. CASE key[c] \notin stored
    <3>1. row' = row
      BY <2>3 DEF MarkQuota
    <3> QED BY <1>1, <2>1, <3>1 DEF TableOK
  <2> QED BY <2>2, <2>3
<1>3. TurnsOK'
  BY <1>1, GotoTurns DEF TInv, MarkQuota
<1>4. created' \in created .. NumKeys
  BY <1>1, NumKeysAssumption DEF TInv, TableOK
<1>5. MemoryOK' /\ SnapsOK'
  BY <1>1, <1>4, MemoryStays, SnapsStay
<1>6. HistoryOK'
  BY DEF TInv, HistoryOK, MarkQuota, Outdates
<1> QED BY <1>1, <1>2, <1>3, <1>5, <1>6 DEF TInv

LEMMA ListKeepsTInv ==
  ASSUME TInv, NEW c \in Callers, ListUsable(c)
  PROVE  TInv'
<1>1. UNCHANGED <<created, stored, row, mem, total, tries, key, events, current, lapsed>>
  BY DEF ListUsable
<1>2. TurnsOK'
  BY <1>1, GotoTurns DEF TInv, ListUsable
<1>3. SnapsOK'
  <2>1. IsList(Usable)
    BY UsableIsList DEF TInv
  <2>2. snap' = [snap EXCEPT ![c] = Usable] /\ created' = created
    BY DEF ListUsable
  <2>3. PICK u : u = Usable
    OBVIOUS
  <2> QED BY <2>1, <2>2, <2>3 DEF TInv, SnapsOK, IsList
<1>4. created' \in created .. NumKeys
  BY <1>1, NumKeysAssumption DEF TInv, TableOK
<1>5. MemoryOK'
  BY <1>1, <1>4, MemoryStays
<1>6. TableOK' /\ HistoryOK' /\ events' \in 0 .. MaxEvents
  BY <1>1 DEF TInv, TableOK, HistoryOK, ListUsable
<1> QED BY <1>2, <1>3, <1>5, <1>6 DEF TInv

LEMMA FailKeepsTInv ==
  ASSUME TInv, NEW c \in Callers, Fail(c)
  PROVE  TInv'
<1>1. UNCHANGED <<created, stored, row, mem, total, tries, snap, fresh, current>>
  BY DEF Fail
<1>2. TurnsOK'
  BY <1>1, ContinueTurns DEF TInv, Fail
<1>3. created' \in created .. NumKeys
  BY <1>1, NumKeysAssumption DEF TInv, TableOK
<1>4. MemoryOK' /\ SnapsOK'
  BY <1>1, <1>3, MemoryStays, SnapsStay
<1>5. TableOK'
  BY <1>1 DEF TInv, TableOK
<1>6. HistoryOK'
  BY <1>1 DEF TInv, HistoryOK, Fail
<1>7. events' \in 0 .. MaxEvents
  BY EventCounts DEF TInv, Fail
<1> QED BY <1>2, <1>4, <1>5, <1>6, <1>7 DEF TInv

LEMMA ReloadKeepsTInv ==
  ASSUME TInv, NEW c \in Callers, Reload(c)
  PROVE  TInv'
<1>1. UNCHANGED <<created, stored, row, tries, events>>
  BY DEF Reload
<1>2. TurnsOK'
  BY <1>1, ContinueTurns DEF TInv, Reload
<1>3. MemoryOK'
  <2>1. PICK l : l = snap[c]
    OBVIOUS
  <2>2. created \in 0 .. NumKeys /\ IsList(l) /\ Load(l)
    BY <2>1 DEF TInv, TableOK, SnapsOK, Reload
  <2> QED BY <1>1, <2>2, LoadRotates DEF MemoryOK
<1>4. SnapsOK'
  <2>1. snap' = [snap EXCEPT ![c] = Empty] /\ created' = created
    BY DEF Reload
  <2> QED BY <2>1, EmptyIsList DEF TInv, SnapsOK, IsList
<1>5. TableOK' /\ events' \in 0 .. MaxEvents
  BY <1>1 DEF TInv, TableOK
<1>6. HistoryOK'
  BY DEF TInv, HistoryOK, Reload
<1> QED BY <1>2, <1>3, <1>4, <1>5, <1>6 DEF TInv

\* A change of the table leaves the rest as it is, but for who made it.
LEMMA ChangeKeepsTheRest ==
  ASSUME TInv, NEW c \in Callers, Change(c), TableOK', created' \in created .. NumKeys
  PROVE  TInv'
<1>1. UNCHANGED <<mem, total, tries, key, snap>>
  BY DEF Change
<1>2. TurnsOK'
  BY <1>1, GotoTurns DEF TInv, Change
<1>3. MemoryOK' /\ SnapsOK'
  BY <1>1, MemoryStays, SnapsStay
<1>4. HistoryOK'
  BY DEF TInv, HistoryOK, Change, Outdates
<1>5. events' \in 0 .. MaxEvents
  BY EventCounts DEF TInv, Change
<1> QED BY <1>2, <1>3, <1>4, <1>5 DEF TInv

LEMMA CreateKeyKeepsTInv ==
  ASSUME TInv, NEW c \in Callers, CreateKey(c)
  PROVE  TInv'
<1>1. TableOK
  BY DEF TInv
<1>2. created' = created + 1 /\ created' \in created .. NumKeys /\ created' \in Keys
      /\ stored' = stored \cup {created'} /\ created \in Nat
  BY <1>1, NumKeysAssumption DEF CreateKey, TableOK, Keys
<1>3. stored' \subseteq 1 .. created'
  <2>1. stored \subseteq 1 .. created
    BY <1>1 DEF TableOK
  <2> QED BY <1>2, <2>1
<1>4. \E r \in Row : row' = [row EXCEPT ![created'] = r]
  <2>1. PICK p \in Providers, w \in Weights, m \in Quotas, q \in Quotas :
          row' = [row EXCEPT ![created'] = [ provider |-> p, active |-> TRUE, quota |-> TRUE,
                                             weight |-> w, monthly |-> m, remaining |-> q ]]
    BY DEF CreateKey
  <2>2. m \in Int /\ q \in Int
    BY QuotasAssumption
  <2>3. [ provider |-> p, active |-> TRUE, quota |-> TRUE,
          weight |-> w, monthly |-> m, remaining |-> q ] \in Row
    BY <2>2 DEF Row
  <2> QED BY <2>1, <2>3
<1>5. PICK r \in Row : row' = [row EXCEPT ![created'] = r]
  BY <1>4
<1>6. TableOK'
  <2>1. row' \in [Keys -> Row \cup {Blank}]
    BY <1>1, <1>2, <1>5 DEF TableOK
  <2>2. \A k \in Keys : row'[k] = IF k = created' THEN r ELSE row[k]
    BY <1>1, <1>5 DEF TableOK
  <2>3. \A k \in Keys : IF k \in stored' THEN row'[k] \in Row ELSE row'[k] = Blank
    BY <1>1, <1>2, <2>2 DEF TableOK
  <2>4. created' \in 0 .. NumKeys
    BY <1>2, NumKeysAssumption
  <2> QED BY <1>3, <2>1, <2>3, <2>4 DEF TableOK
<1> QED BY <1>2, <1>6, ChangeKeepsTheRest DEF CreateKey

LEMMA UpdateKeyKeepsTInv ==
  ASSUME TInv, NEW c \in Callers, NEW k \in Keys, UpdateKey(c, k)
  PROVE  TInv'
<1>1. TableOK /\ k \in stored /\ UNCHANGED <<created, stored>>
  BY DEF TInv, UpdateKey
<1>2. row[k] \in Row /\ DOMAIN row = Keys
  BY <1>1, StoredRow
<1>3. \E r \in Row : row' = [row EXCEPT ![k] = r]
  <2>1. Patches(row[k]) \subseteq Row
    BY <1>2, QuotasAssumption DEF Patches, Row
  <2> QED BY <2>1 DEF UpdateKey
<1>4. TableOK'
  BY <1>1, <1>3, RowChanges
<1>5. created' \in created .. NumKeys
  BY <1>1, NumKeysAssumption DEF TableOK
<1> QED BY <1>4, <1>5, ChangeKeepsTheRest DEF UpdateKey

LEMMA DeleteKeyKeepsTInv ==
  ASSUME TInv, NEW c \in Callers, NEW k \in Keys, DeleteKey(c, k)
  PROVE  TInv'
<1>1. TableOK /\ UNCHANGED created
  BY DEF TInv, DeleteKey
<1>2. stored' = stored \ {k} /\ row' = [row EXCEPT ![k] = Blank]
  BY DEF DeleteKey
<1>3. TableOK'
  BY <1>1, <1>2 DEF TableOK
<1>4. created' \in created .. NumKeys
  BY <1>1, NumKeysAssumption DEF TableOK
<1> QED BY <1>3, <1>4, ChangeKeepsTheRest DEF DeleteKey

LEMMA ResetKeepsTInv ==
  ASSUME TInv, NEW c \in Callers, ResetMonthlyQuota(c)
  PROVE  TInv'
<1>1. TableOK /\ UNCHANGED <<created, stored>>
  BY DEF TInv, ResetMonthlyQuota
<1> DEFINE new(k) == IF k \notin stored THEN row[k]
                     ELSE [row[k] EXCEPT !.remaining = row[k].monthly, !.quota = row[k].monthly > 0]
<1>2. row' = [k \in Keys |-> new(k)]
  BY DEF ResetMonthlyQuota
<1>3. ASSUME NEW k \in Keys, k \in stored PROVE new(k) \in Row
  <2>1. row[k] \in Row
    BY <1>1, <1>3, StoredRow
  <2>2. row[k].monthly \in Int
    BY <2>1 DEF Row
  <2>3. [row[k] EXCEPT !.remaining = row[k].monthly] \in Row
    BY <2>1, <2>2 DEF Row
  <2>4. (row[k].monthly > 0) \in BOOLEAN
    OBVIOUS
  <2>5. [row[k] EXCEPT !.remaining = row[k].monthly, !.quota = row[k].monthly > 0] \in Row
    BY <2>3, <2>4 DEF Row
  <2> QED BY <1>3, <2>5
<1>4. ASSUME NEW k \in Keys, k \notin stored PROVE new(k) = Blank
  BY <1>1, <1>4 DEF TableOK
<1>5. TableOK'
  <2> HIDE DEF new
  <2> QED BY <1>1, <1>2, <1>3, <1>4 DEF TableOK
<1>6. created' \in created .. NumKeys
  BY <1>1, NumKeysAssumption DEF TableOK
<1> QED BY <1>5, <1>6, ChangeKeepsTheRest DEF ResetMonthlyQuota

LEMMA RestartKeepsTInv ==
  ASSUME TInv, Restart
  PROVE  TInv'
<1>1. UNCHANGED <<created, stored, row>>
  BY DEF Restart
<1>2. TableOK /\ TableOK' /\ created \in 0 .. NumKeys
  BY <1>1 DEF TInv, TableOK
<1>3. MemoryOK'
  <2>1. \E l : IsList(l) /\ Load(l)
    BY <1>2, UsableIsList, EmptyIsList DEF Restart
  <2> QED BY <1>1, <1>2, <2>1, LoadRotates DEF MemoryOK
<1>4. TurnsOK'
  BY NumKeysAssumption DEF Restart, TurnsOK
<1>5. SnapsOK'
  BY <1>1, EmptyIsList DEF Restart, SnapsOK, IsList
<1>6. HistoryOK'
  BY DEF Restart, HistoryOK
<1>7. events' \in 0 .. MaxEvents
  BY EventCounts DEF TInv, Restart
<1> QED BY <1>2, <1>3, <1>4, <1>5, <1>6, <1>7 DEF TInv

LEMMA NextKeepsTInv == TInv /\ [Next]_vars => TInv'
<1> SUFFICES ASSUME TInv, [Next]_vars PROVE TInv'
  OBVIOUS
<1>1. ASSUME NEW c \in Callers, Refresh(c) PROVE TInv'
  BY <1>1, ListKeepsTInv, FailKeepsTInv, ReloadKeepsTInv DEF Refresh
<1>2. ASSUME NEW c \in Flows, RecognizeCaptcha(c) PROVE TInv'
  BY <1>1, <1>2, StartKeepsTInv, PickKeepsTInv, PickNoneKeepsTInv, RecogniseKeepsTInv,
     MarkQuotaKeepsTInv DEF RecognizeCaptcha, Callers
<1>3. ASSUME NEW c \in Requests, Administer(c) PROVE TInv'
  BY <1>1, <1>3, CreateKeyKeepsTInv, ResetKeepsTInv, UpdateKeyKeepsTInv, DeleteKeyKeepsTInv
     DEF Administer, Callers
<1>4. CASE UNCHANGED vars
  <2>1. UNCHANGED <<created, stored, row, mem, total, pc, tries, key, snap, events, fresh,
                    current, lapsed>>
    BY <1>4 DEF vars, callers, history
  <2>2. created' \in created .. NumKeys
    BY <2>1, NumKeysAssumption DEF TInv, TableOK
  <2>3. MemoryOK' /\ SnapsOK'
    BY <2>1, <2>2, MemoryStays, SnapsStay
  <2>4. TableOK' /\ TurnsOK' /\ HistoryOK' /\ events' \in 0 .. MaxEvents
    BY <2>1 DEF TInv, TableOK, TurnsOK, HistoryOK
  <2> QED BY <2>3, <2>4 DEF TInv
<1> QED BY <1>2, <1>3, <1>4, RestartKeepsTInv DEF Next

LEMMA SpecTInv == Spec => []TInv
  BY InitTInv, NextKeepsTInv, PTL DEF Spec

-----------------------------------------------------------------------------

\* The table, the list in memory with its current values, and the callers have
\* their types, for any number of keys and callers: a choice finds a best key,
\* its total is a sum of natural numbers, and no caller makes more attempts
\* than there are keys (ocr_manager.go, ocr_key_repository.go).
THEOREM SpecTypeOK == Spec => []TypeOK
  BY SpecTInv, TInvTypes, PTL

\* Every loaded key has its turn: it waits for at most (n - 1) * total / weight
\* choices, for any number of keys and any weights and quotas (pick and Reload
\* of ocr_manager.go).
THEOREM SpecNoKeyStarves == Spec => []NoKeyStarves
<1>1. TInv => NoKeyStarves
  <2> SUFFICES ASSUME TInv, NEW k \in DOMAIN mem
               PROVE  mem[k].waited * mem[k].weight <= (Cardinality(DOMAIN mem) - 1) * total
    BY DEF NoKeyStarves
  <2>1. Rotation(mem, total) /\ IsFiniteSet(DOMAIN mem)
    BY SomeKeys DEF TInv, TableOK, MemoryOK
  <2>2. \A j \in DOMAIN mem : mem[j].weight \in Nat /\ mem[j].waited \in Nat
                              /\ mem[j].value \in Int /\ mem[j].value <= 0
    BY <2>1, WeightsAssumption DEF Rotation, Copy
  <2>3. /\ WeightsOf(mem) \in [DOMAIN mem -> Nat]
        /\ Deficits(mem) \in [DOMAIN mem -> Nat]
        /\ WaitsOf(mem) \in [DOMAIN mem -> Nat]
    BY <2>2 DEF WeightsOf, Deficits, WaitsOf
  <2>4. WeightsOf(mem)[k] * WaitsOf(mem)[k] <= (Cardinality(DOMAIN mem) - 1) * total
    BY <2>1, <2>3, BalanceBoundsWaits DEF Rotation
  <2>5. WeightsOf(mem)[k] * WaitsOf(mem)[k] = mem[k].waited * mem[k].weight
    BY <2>2 DEF WeightsOf, WaitsOf
  <2> QED BY <2>4, <2>5
<1> QED BY <1>1, SpecTInv, PTL
=============================================================================
