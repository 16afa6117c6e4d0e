--------------------------- MODULE ExchangeProofs ---------------------------
(***************************************************************************)
(* For every set of records and items, every payload limit and every       *)
(* combination of faults and server answers: exchange loses no record it   *)
(* has not lost track of, repeats no record without need, and implements   *)
(* Delivery.                                                               *)
(***************************************************************************)
EXTENDS Exchange, FiniteSetTheorems, TLAPS

(***************************************************************************)
(* The inductive invariant.  Its parts are stated item by item: the proofs *)
(* look at the one item a step changes.                                    *)
(***************************************************************************)

\* Items are numbered in the order of their creation, and no record is in two.
StoreInv ==
    /\ store \subseteq 1..created
    /\ \A i \in Items : i > created => content[i] = {}
    /\ \A i, j \in Items : i # j => content[i] \cap content[j] = {}

\* Lost track of for good: no roll back finds these records again.
Untracked == exposed["late"] \cup exposed["drained"]

\* The payload an item would add to a request has all its records, but for
\* those that came late or were drained from its file.  A file that is WRITTEN
\* has nothing left to copy: its records are in the request, or stranded.
PayloadInv ==
    \A i \in store :
        /\ state[i] # "SENT"
        /\ ComposedPayload(i) \subseteq content[i]
        /\ NotWritten(i) \/ kind[i] # "file" =>
             content[i] \subseteq ComposedPayload(i) \cup Untracked

\* A WRITTEN item is in the current request, or stranded by an earlier one.
WrittenInv ==
    /\ request.items \subseteq Written
    /\ request.records \subseteq ContentOf(request.items)
    /\ \A i \in request.items : content[i] \subseteq request.records \cup Untracked
    /\ \A i \in Written \ request.items : content[i] \subseteq Exposed

\* Where a call can be, and what an answer of the server means.
CallInv ==
    /\ phase \in {"idle", "begin"} => request = EmptyRequest
    /\ node \in store \cup {NULL}
    /\ phase # "wait" => answer = "none"
    /\ answer = "MCL_OK" => request.records \subseteq accepted

\* What left the store is with the server, or lost track of.
RemovedInv == \A i \in (1..created) \ store : content[i] \subseteq accepted \cup Exposed

\* A record that is still in the store can have been accepted only by a
\* request without an answer, or by the one whose answer is at hand.
AcceptedInv ==
    /\ accepted \subseteq Handed
    /\ unanswered \subseteq Handed
    /\ \A R \in orphans : R \subseteq unanswered
    /\ accepted \cap ContentOf(store) \subseteq
         unanswered \cup (IF answer = "MCL_OK" THEN request.records ELSE {})
    /\ twice \subseteq unanswered

IInv ==
    /\ TypeOK
    /\ StoreInv
    /\ PayloadInv
    /\ WrittenInv
    /\ CallInv
    /\ RemovedInv
    /\ AcceptedInv
    /\ RequestWithinLimit

-----------------------------------------------------------------------------
(***************************************************************************)
(* Facts about the definitions.                                            *)
(***************************************************************************)

LEMMA ExposedParts ==
    /\ Exposed = Untracked \cup exposed["stranded"]
    /\ Exposed' = Untracked' \cup exposed'["stranded"]
  BY DEF Exposed, Untracked, Causes

LEMMA InContentOf ==
    ASSUME NEW S
    PROVE  \A r : r \in ContentOf(S) <=> \E i \in S : r \in content[i]
  BY DEF ContentOf

LEMMA ContentOfTyped ==
    ASSUME TypeOK, NEW S \in SUBSET Items
    PROVE  ContentOf(S) \in SUBSET Records
  BY DEF ContentOf, TypeOK

LEMMA FollowingTyped ==
    ASSUME NEW n, NEW m \in Following(n)
    PROVE  m \in store \cup {NULL}
  BY DEF Following, NodesAfter

\* While only the exposed records grow, and the store and the request stay,
\* nothing in the invariant that is about records gets worse.
LEMMA FewerPromises ==
    ASSUME IInv, Exposed \subseteq Exposed', Untracked \subseteq Untracked',
           UNCHANGED <<created, store, kind, state, content, payload, request, accepted>>
    PROVE  StoreInv' /\ PayloadInv' /\ WrittenInv' /\ RemovedInv'
  <1>1. StoreInv'
    BY DEF IInv, StoreInv
  <1>2. PayloadInv'
    BY DEF IInv, PayloadInv, ComposedPayload, NotWritten
  <1>3. WrittenInv'
    BY DEF IInv, WrittenInv, Written, ContentOf
  <1>4. RemovedInv'
    BY DEF IInv, RemovedInv
  <1>5. QED
    BY <1>1, <1>2, <1>3, <1>4

-----------------------------------------------------------------------------
(***************************************************************************)
(* The application's steps.                                                *)
(***************************************************************************)

LEMMA StoreAddDataPreservesIInv ==
    ASSUME IInv, phase = "idle", NEW k \in ItemKinds, NEW R \in SUBSET Records,
           R \cap Handed = {}, StoreAddData(k, R), UNCHANGED <<callVars, serverVars>>
    PROVE  IInv'
  <1> DEFINE new == created + 1
  <1>1. /\ new \in Items /\ new \notin store /\ content[new] = {}
        /\ created' = new /\ store' = store \cup {new}
        /\ UNCHANGED <<callVars, serverVars, exposed>>
    BY ExchangeAssumptions DEF IInv, TypeOK, StoreInv, StoreAddData, Items
  <1>2. TypeOK'
    BY <1>1, ExchangeAssumptions
       DEF IInv, TypeOK, StoreAddData, callVars, serverVars, States
  <1>3. /\ content' = [content EXCEPT ![new] = R]
        /\ \A i \in Items \ {new} : /\ content'[i] = content[i]
                                    /\ payload'[i] = payload[i]
                                    /\ kind'[i] = kind[i]
                                    /\ state'[i] = state[i]
        /\ content'[new] = R
        /\ state'[new] = "INITIAL"
        /\ payload'[new] = IF kind'[new] = "file" THEN R ELSE {}
    BY <1>1 DEF IInv, TypeOK, StoreAddData
  <1>4. StoreInv'
    <2>1. store' \subseteq 1..created'
      BY <1>1, ExchangeAssumptions DEF IInv, StoreInv, TypeOK, Items
    <2>2. \A i \in Items : i > created' => content'[i] = {}
      BY <1>1, <1>3 DEF IInv, StoreInv, TypeOK, Items
    <2>3. \A i \in Items : R \cap content[i] = {}
      BY InContentOf DEF Handed
    <2>4. \A i, j \in Items : i # j => content'[i] \cap content'[j] = {}
      BY <1>3, <2>3 DEF IInv, StoreInv
    <2>5. QED
      BY <2>1, <2>2, <2>4 DEF StoreInv
  <1>5. PayloadInv'
    BY <1>1, <1>3 DEF IInv, TypeOK, PayloadInv, ComposedPayload, NotWritten, Untracked
  <1>6. /\ Written' = Written
        /\ Exposed' = Exposed
        /\ request' = EmptyRequest /\ request = EmptyRequest
    <2>1. Written' = Written
      BY <1>1, <1>3 DEF IInv, TypeOK, Written
    <2>2. QED
      BY <1>1, <2>1 DEF IInv, CallInv, Exposed, callVars
  <1>7. WrittenInv'
    BY <1>1, <1>3, <1>6 DEF IInv, TypeOK, WrittenInv, Written, EmptyRequest, ContentOf
  <1>8. CallInv'
    BY <1>1 DEF IInv, CallInv, callVars, serverVars
  <1>9. RemovedInv'
    BY <1>1, <1>3, <1>6 DEF IInv, TypeOK, RemovedInv, callVars, serverVars, Items
  <1>10. AcceptedInv'
    <2>1. Handed \subseteq Handed'
      BY <1>1, <1>3 DEF IInv, TypeOK, Handed, ContentOf
    <2>2. R \cap accepted = {}
      BY DEF IInv, AcceptedInv
    <2>3. accepted' \cap ContentOf(store)' \subseteq accepted \cap ContentOf(store)
      BY <1>1, <1>3, <2>2 DEF IInv, TypeOK, ContentOf, serverVars
    <2>4. QED
      BY <1>1, <2>1, <2>3 DEF IInv, AcceptedInv, callVars, serverVars
  <1>11. RequestWithinLimit'
    BY <1>1 DEF IInv, RequestWithinLimit, callVars
  <1>12. QED
    BY <1>2, <1>4, <1>5, <1>7, <1>8, <1>9, <1>10, <1>11 DEF IInv

\* A record is only ever added to an item whose payload the library composes.
LEMMA AddRecordPreservesIInv ==
    ASSUME IInv, phase = "idle", NEW i \in store, kind[i] # "file",
           NEW r \in Records \ Handed, AddRecord(i, r), UNCHANGED <<callVars, serverVars>>
    PROVE  IInv'
  <1>1. /\ i \in Items
        /\ UNCHANGED <<created, store, kind, state, payload, callVars, serverVars>>
        /\ \A j \in Items \ {i} : content'[j] = content[j]
        /\ content'[i] = content[i] \cup {r}
        /\ content' \in [Items -> SUBSET Records]
    BY DEF IInv, TypeOK, AddRecord
  <1>2. /\ Untracked' = IF state[i] = "INITIAL" THEN Untracked ELSE Untracked \cup {r}
        /\ exposed'["stranded"] = exposed["stranded"]
        /\ exposed' \in [Causes -> SUBSET Records]
    BY DEF IInv, TypeOK, AddRecord, Untracked, Causes
  <1>3. TypeOK'
    BY <1>1, <1>2 DEF IInv, TypeOK, callVars, serverVars
  <1>4. /\ Exposed \subseteq Exposed' /\ Untracked \subseteq Untracked'
        /\ Written' = Written
        /\ request' = EmptyRequest /\ request = EmptyRequest
    BY <1>1, <1>2, ExposedParts DEF IInv, CallInv, Written, callVars
  <1>5. \A j \in Items : r \notin content[j]
    BY InContentOf DEF Handed
  <1>6. StoreInv'
    <2>1. i <= created
      BY <1>1 DEF IInv, StoreInv, TypeOK, Items
    <2>2. QED
      BY <1>1, <1>5, <2>1 DEF IInv, StoreInv, TypeOK, Items
  <1>7. PayloadInv'
    BY <1>1, <1>2 DEF IInv, TypeOK, PayloadInv, ComposedPayload, NotWritten
  <1>8. WrittenInv'
    <2>1. ASSUME NEW j \in Written PROVE content'[j] \subseteq Exposed'
      <3>1. content[j] \subseteq Exposed
        BY <1>4 DEF IInv, WrittenInv, EmptyRequest
      <3>2. CASE j = i
        BY <1>1, <1>2, <1>4, <2>1, <3>1, <3>2, ExposedParts DEF Written
      <3>3. CASE j # i
        BY <1>1, <1>4, <3>1, <3>3, <2>1 DEF IInv, TypeOK, Written
      <3>4. QED
        BY <3>2, <3>3
    <2>2. QED
      BY <1>4, <2>1 DEF WrittenInv, EmptyRequest
  <1>9. CallInv'
    BY <1>1 DEF IInv, CallInv, callVars, serverVars
  <1>10. RemovedInv'
    <2>1. 1..created \subseteq Items
      BY ExchangeAssumptions DEF IInv, TypeOK, Items
    <2>2. \A j \in (1..created) \ store : content'[j] = content[j]
      BY <1>1, <2>1
    <2>3. QED
      BY <1>1, <1>4, <2>2 DEF IInv, RemovedInv, serverVars
  <1>11. AcceptedInv'
    <2>1. Handed \subseteq Handed'
      BY <1>1 DEF IInv, TypeOK, Handed, ContentOf
    <2>2. r \notin accepted
      BY DEF IInv, AcceptedInv
    <2>3. accepted' \cap ContentOf(store)' \subseteq accepted \cap ContentOf(store)
      BY <1>1, <2>2 DEF IInv, TypeOK, ContentOf, serverVars
    <2>4. QED
      BY <1>1, <2>1, <2>3 DEF IInv, AcceptedInv, callVars, serverVars
  <1>12. RequestWithinLimit'
    BY <1>1 DEF IInv, RequestWithinLimit, callVars
  <1>13. QED
    BY <1>3, <1>6, <1>7, <1>8, <1>9, <1>10, <1>11, <1>12 DEF IInv

LEMMA ApplicationPreservesIInv ==
    ASSUME IInv, ApplicationStep
    PROVE  IInv'
  <1>1. phase = "idle" /\ UNCHANGED <<callVars, serverVars>>
    BY DEF ApplicationStep
  <1>2. {"time_series", "file", "custom"} \subseteq ItemKinds /\ EventVersions \subseteq ItemKinds
    BY DEF ItemKinds
  <1>3. CASE NewTimeSeries \/ NewCustomData
    BY <1>1, <1>2, <1>3, StoreAddDataPreservesIInv DEF NewTimeSeries, NewCustomData
  <1>4. CASE \E r \in Records \ Handed : NewValueSet(r) \/ SetPayload(r)
    BY <1>1, <1>4, AddRecordPreservesIInv DEF NewValueSet, SetPayload
  <1>5. CASE \E r \in Records \ Handed : NewFile(r)
    <2>1. PICK r \in Records \ Handed : NewFile(r)
      BY <1>5
    <2>2. {r} \in SUBSET Records /\ {r} \cap Handed = {}
      OBVIOUS
    <2>3. QED
      BY <1>1, <1>2, <2>1, <2>2, StoreAddDataPreservesIInv DEF NewFile
  <1>6. CASE \E v \in EventVersions : NewEventFails(v)
    BY <1>1, <1>2, <1>6, StoreAddDataPreservesIInv DEF NewEventFails
  <1>7. CASE \E v \in EventVersions, r \in Records \ Handed : NewEvent(v, r)
    <2>1. PICK v \in EventVersions, r \in Records \ Handed : NewEvent(v, r)
      BY <1>7
    <2>2. {r} \in SUBSET Records /\ {r} \cap Handed = {} /\ v \in ItemKinds /\ v # "file"
      BY <1>2, ExchangeAssumptions
    <2>3. CASE StoreAddData(v, {r})
      BY <1>1, <2>2, <2>3, StoreAddDataPreservesIInv
    <2>4. CASE \E i \in EventLists(v) : AddRecord(i, r)
      <3>1. PICK i \in EventLists(v) : AddRecord(i, r)
        BY <2>4
      <3>2. i \in store /\ kind[i] # "file"
        BY <2>2 DEF EventLists
      <3>3. QED
        BY <1>1, <3>1, <3>2, AddRecordPreservesIInv
    <2>5. QED
      BY <2>1, <2>3, <2>4 DEF NewEvent
  <1>8. QED
    BY <1>3, <1>4, <1>5, <1>6, <1>7 DEF ApplicationStep

-----------------------------------------------------------------------------
(***************************************************************************)
(* The steps of a call up to the request.                                  *)
(***************************************************************************)

\* A call that returns without sending its request strands what is in it.
LEMMA ReturnUnsentPreservesIInv ==
    ASSUME IInv, phase # "wait", NEW code \in Results, ReturnUnsent(code),
           UNCHANGED <<storeVars, serverVars>>
    PROVE  IInv'
  <1>1. /\ Untracked' = Untracked
        /\ exposed'["stranded"] = exposed["stranded"] \cup ContentOf(request.items)
        /\ exposed' \in [Causes -> SUBSET Records]
    BY ContentOfTyped DEF IInv, TypeOK, ReturnUnsent, Untracked, Causes
  <1>2. /\ phase' = "idle" /\ result' = code /\ node' = NULL
        /\ request' = EmptyRequest /\ added_any' = FALSE /\ added_any_at_all' = FALSE
    BY DEF ReturnUnsent, Return
  <1>3. UNCHANGED <<created, store, kind, state, content, payload,
                    answer, orphans, accepted, twice, unanswered>>
    BY DEF storeVars, serverVars
  <1>4. Exposed' = Exposed \cup ContentOf(request.items)
    BY <1>1, ExposedParts
  <1>5. TypeOK'
    BY <1>1, <1>2, <1>3, ExchangeAssumptions DEF IInv, TypeOK, Phases, EmptyRequest
  <1>6. StoreInv' /\ PayloadInv' /\ RemovedInv'
    BY <1>1, <1>3, <1>4
       DEF IInv, StoreInv, PayloadInv, ComposedPayload, NotWritten, RemovedInv
  <1>7. WrittenInv'
    <2>1. Written' = Written
      BY <1>3 DEF Written
    <2>2. \A i \in Written : content[i] \subseteq Exposed'
      BY <1>4, InContentOf DEF IInv, WrittenInv
    <2>3. QED
      BY <1>2, <1>3, <2>1, <2>2 DEF WrittenInv, EmptyRequest
  <1>8. CallInv' /\ AcceptedInv' /\ RequestWithinLimit'
    BY <1>2, <1>3, ExchangeAssumptions
       DEF IInv, CallInv, AcceptedInv, Handed, ContentOf, RequestWithinLimit, EmptyRequest
  <1>9. QED
    BY <1>5, <1>6, <1>7, <1>8 DEF IInv

\* Steps that only move the call on, or the position in the list.
LEMMA MovePreservesIInv ==
    ASSUME IInv, phase # "wait", node' \in store \cup {NULL}, phase' \in Phases,
           phase' = phase \/ phase' \in {"fill", "finish"}
             \/ (phase = "idle" /\ phase' \in {"idle", "begin"}),
           added_any' \in BOOLEAN, added_any_at_all' \in BOOLEAN, result' \in Results,
           UNCHANGED <<storeVars, request, serverVars, exposed>>
    PROVE  IInv'
  <1>1. /\ UNCHANGED <<created, store, kind, state, content, payload>>
        /\ UNCHANGED <<request, answer, orphans, accepted, twice, unanswered, exposed>>
    BY DEF storeVars, serverVars
  <1>2. StoreInv' /\ PayloadInv' /\ WrittenInv' /\ RemovedInv'
    BY <1>1, FewerPromises DEF Exposed, Untracked
  <1>3. TypeOK'
    BY <1>1 DEF IInv, TypeOK
  <1>4. CallInv' /\ AcceptedInv' /\ RequestWithinLimit'
    BY <1>1 DEF IInv, CallInv, AcceptedInv, Handed, ContentOf, RequestWithinLimit
  <1>5. QED
    BY <1>2, <1>3, <1>4 DEF IInv

LEMMA CallPreservesIInv ==
    ASSUME IInv, Call
    PROVE  IInv'
  <1>1. node \in store \cup {NULL} /\ "MCL_STORE_IS_EMPTY" \in Results /\ "none" \in Results
    BY DEF IInv, CallInv, Results
  <1>2. {"idle", "begin"} \subseteq Phases
    BY DEF Phases
  <1>3. QED
    BY <1>1, <1>2, MovePreservesIInv DEF Call, IInv, TypeOK

LEMMA BeginPreservesIInv ==
    ASSUME IInv, Begin
    PROVE  IInv'
  <1>1. "MCL_FAIL" \in Results /\ "fill" \in Phases
    BY DEF Results, Phases
  <1>2. CASE phase' = "fill" /\ node' \in Following(NULL)
             /\ UNCHANGED <<added_any, added_any_at_all, request, result, exposed>>
    BY <1>1, <1>2, FollowingTyped, MovePreservesIInv DEF Begin, IInv, TypeOK
  <1>3. CASE ReturnUnsent("MCL_FAIL")
    BY <1>1, <1>3, ReturnUnsentPreservesIInv DEF Begin
  <1>4. QED
    BY <1>2, <1>3 DEF Begin

LEMMA PrepareFailsPreservesIInv ==
    ASSUME IInv, PrepareFails
    PROVE  IInv'
  <1>1. "MCL_FAIL" \in Results
    BY DEF Results
  <1>2. QED
    BY <1>1, ReturnUnsentPreservesIInv DEF PrepareFails

LEMMA LoopEndsPreservesIInv ==
    ASSUME IInv, phase = "fill", LoopEnds, UNCHANGED <<storeVars, serverVars>>
    PROVE  IInv'
  <1>1. "MCL_STORE_ITEM_EXCEEDS_MAX_HTTP_REQUEST_SIZE" \in Results /\ "finish" \in Phases
    BY DEF Results, Phases
  <1>2. CASE added_any_at_all
    BY <1>1, <1>2, MovePreservesIInv DEF LoopEnds, IInv, TypeOK
  <1>3. CASE ~added_any_at_all
    BY <1>1, <1>3, ReturnUnsentPreservesIInv DEF LoopEnds
  <1>4. QED
    BY <1>2, <1>3

LEMMA EndOfListPreservesIInv ==
    ASSUME IInv, EndOfList
    PROVE  IInv'
  <1>1. CASE added_any
    BY <1>1, FollowingTyped, MovePreservesIInv DEF EndOfList, IInv, TypeOK
  <1>2. CASE ~added_any
    BY <1>2, LoopEndsPreservesIInv DEF EndOfList
  <1>3. QED
    BY <1>1, <1>2

LEMMA FinishFailsPreservesIInv ==
    ASSUME IInv, FinalizeFails \/ CorrelationIdFails
    PROVE  IInv'
  <1>1. {"MCL_FAIL", "MCL_HTTP_REQUEST_FINALIZE_FAILED"} \subseteq Results
    BY DEF Results
  <1>2. QED
    BY <1>1, ReturnUnsentPreservesIInv DEF FinalizeFails, CorrelationIdFails

\* Composing the payload of an item loses none of its records.
LEMMA PrepareKeepsPayload ==
    ASSUME IInv, NEW n \in store,
           state' = [state EXCEPT ![n] = IF @ = "INITIAL" THEN "PREPARED" ELSE @],
           payload' = [payload EXCEPT ![n] = ComposedPayload(n)],
           UNCHANGED <<created, store, kind, content>>, Untracked \subseteq Untracked'
    PROVE  /\ state' \in [Items -> States] /\ payload' \in [Items -> SUBSET Records]
           /\ StoreInv' /\ PayloadInv' /\ Written' = Written
  <1>1. n \in Items /\ state[n] \in States /\ ComposedPayload(n) \in SUBSET Records
    BY DEF IInv, TypeOK, ComposedPayload
  <1>2. state' \in [Items -> States] /\ payload' \in [Items -> SUBSET Records]
    BY <1>1 DEF IInv, TypeOK, States
  <1>3. \A i \in store : ComposedPayload(i)' = ComposedPayload(i)
    BY <1>1 DEF IInv, TypeOK, ComposedPayload
  <1>4. /\ \A i \in store : NotWritten(i)' <=> NotWritten(i)
        /\ \A i \in store : state'[i] # "SENT"
    BY <1>1 DEF IInv, TypeOK, PayloadInv, NotWritten
  <1>5. PayloadInv'
    BY <1>3, <1>4 DEF IInv, PayloadInv
  <1>6. Written' = Written
    BY <1>1 DEF IInv, TypeOK, Written
  <1>7. QED
    BY <1>2, <1>5, <1>6 DEF IInv, StoreInv

LEMMA SkipCurrentPreservesIInv ==
    ASSUME IInv, SkipCurrent
    PROVE  IInv'
  <1>1. /\ node \in store /\ node' \in store' \cup {NULL}
        /\ UNCHANGED <<created, store, kind, content, phase, added_any, added_any_at_all,
                       request, result, answer, orphans, accepted, twice, unanswered, exposed>>
    BY FollowingTyped DEF IInv, CallInv, SkipCurrent, serverVars
  <1>2. /\ state' \in [Items -> States] /\ payload' \in [Items -> SUBSET Records]
        /\ StoreInv' /\ PayloadInv' /\ Written' = Written
    BY <1>1, PrepareKeepsPayload DEF SkipCurrent, Untracked
  <1>3. TypeOK'
    BY <1>1, <1>2 DEF IInv, TypeOK
  <1>4. WrittenInv' /\ RemovedInv'
    BY <1>1, <1>2 DEF IInv, WrittenInv, RemovedInv, ContentOf, Exposed, Untracked
  <1>5. CallInv' /\ AcceptedInv' /\ RequestWithinLimit'
    BY <1>1 DEF IInv, CallInv, AcceptedInv, Handed, ContentOf, RequestWithinLimit
  <1>6. QED
    BY <1>2, <1>3, <1>4, <1>5 DEF IInv

LEMMA AddFailsPreservesIInv ==
    ASSUME IInv, AddFails
    PROVE  IInv'
  <1>1. /\ node \in store /\ phase = "fill"
        /\ UNCHANGED <<created, store, kind, content, answer, orphans, accepted, twice, unanswered>>
    BY DEF IInv, CallInv, AddFails, serverVars
  <1>2. state' = [state EXCEPT ![node] = IF @ = "INITIAL" THEN "PREPARED" ELSE @]
    BY <1>1 DEF IInv, TypeOK, AddFails, NotWritten
  <1>3. /\ Untracked' = Untracked
        /\ exposed' \in [Causes -> SUBSET Records]
        /\ \/ /\ UNCHANGED <<request, exposed>>
              /\ phase' = "finish" /\ node' = NULL
              /\ UNCHANGED <<added_any, added_any_at_all, result>>
           \/ /\ request' = EmptyRequest /\ Exposed' = Exposed \cup ContentOf(request.items)
              /\ phase' = "idle" /\ node' = NULL
              /\ added_any' = FALSE /\ added_any_at_all' = FALSE
              /\ result' = "MCL_STORE_ITEM_EXCEEDS_MAX_HTTP_REQUEST_SIZE"
    <2>1. CASE added_any_at_all
      BY <2>1 DEF AddFails, LoopEnds, Untracked, IInv, TypeOK
    <2>2. CASE ~added_any_at_all
      <3>1. /\ exposed' = [exposed EXCEPT !["stranded"] = @ \cup ContentOf(request.items)]
            /\ Return("MCL_STORE_ITEM_EXCEEDS_MAX_HTTP_REQUEST_SIZE")
        BY <2>2 DEF AddFails, LoopEnds, ReturnUnsent
      <3>2. /\ Untracked' = Untracked
            /\ exposed' \in [Causes -> SUBSET Records]
            /\ exposed'["stranded"] = exposed["stranded"] \cup ContentOf(request.items)
        BY <3>1, ContentOfTyped DEF IInv, TypeOK, Untracked, Causes
      <3>3. QED
        BY <3>1, <3>2, ExposedParts DEF Return
    <2>3. QED
      BY <2>1, <2>2
  <1>4. /\ state' \in [Items -> States] /\ payload' \in [Items -> SUBSET Records]
        /\ StoreInv' /\ PayloadInv' /\ Written' = Written
    BY <1>1, <1>2, <1>3, PrepareKeepsPayload DEF AddFails
  <1>5. TypeOK'
    <2>1. request' \in [offset : Nat, items : SUBSET Items, records : SUBSET Records]
      BY <1>3 DEF IInv, TypeOK, EmptyRequest
    <2>2. /\ phase' \in Phases /\ node' \in Items \cup {NULL} /\ result' \in Results
          /\ added_any' \in BOOLEAN /\ added_any_at_all' \in BOOLEAN
      BY <1>3 DEF IInv, TypeOK, Phases, Results
    <2>3. QED
      BY <1>1, <1>3, <1>4, <2>1, <2>2 DEF IInv, TypeOK
  <1>6. WrittenInv' /\ RemovedInv'
    <2>1. CASE UNCHANGED <<request, exposed>>
      BY <1>1, <1>4, <2>1 DEF IInv, WrittenInv, RemovedInv, ContentOf, Exposed, Untracked
    <2>2. CASE request' = EmptyRequest /\ Exposed' = Exposed \cup ContentOf(request.items)
      <3>1. \A i \in Written : content[i] \subseteq Exposed'
        BY <2>2, InContentOf DEF IInv, WrittenInv
      <3>2. QED
        BY <1>1, <1>4, <2>2, <3>1 DEF IInv, WrittenInv, RemovedInv, EmptyRequest
    <2>3. QED
      BY <1>3, <2>1, <2>2
  <1>7. CallInv' /\ AcceptedInv' /\ RequestWithinLimit'
    BY <1>1, <1>3, ExchangeAssumptions
       DEF IInv, CallInv, AcceptedInv, Handed, ContentOf, RequestWithinLimit, EmptyRequest
  <1>8. QED
    BY <1>4, <1>5, <1>6, <1>7 DEF IInv

\* A file may yield less than its size, never more: what a tuple takes is less
\* than what was asked for it.
LEMMA TupleFits ==
    ASSUME IInv, NEW i \in store, NotWritten(i), Fits(i)
    PROVE  /\ WrittenByTuple(TextsCopied(i)) \in Nat
           /\ request.offset + WrittenByTuple(TextsCopied(i)) <= MaxPayload
  <1>1. /\ ComposedPayload(i) \in SUBSET Records /\ content[i] \in SUBSET Records
        /\ ComposedPayload(i) \subseteq content[i]
        /\ request.offset \in Nat
    BY DEF IInv, TypeOK, ComposedPayload, PayloadInv
  <1>2. TextsCopied(i) \in Nat /\ TextsAsked(i) \in Nat /\ TextsCopied(i) <= TextsAsked(i)
    BY <1>1, ExchangeAssumptions DEF TextsCopied, TextsAsked
  <1>3. OVERHEAD_FOR_TUPLE = 232 /\ TUPLE_LENGTH = 213
    BY DEF OVERHEAD_FOR_TUPLE, TUPLE_LENGTH, BOUNDARY_LINE_LENGTH, BOUNDARY_SIGN_LENGTH,
           BOUNDARY_LENGTH, CONTENT_TYPE_LINE_LENGTH, CONTENT_TYPE_HEADER_LENGTH,
           NEW_LINE_LENGTH, MCL_NULL_CHAR_SIZE, OpenBoundary, CloseBoundary, ContentHeader
  <1>4. QED
    BY <1>1, <1>2, <1>3, ExchangeAssumptions DEF Fits, RequiredForTuple, WrittenByTuple

LEMMA AddCurrentPreservesIInv ==
    ASSUME IInv, AddCurrent
    PROVE  IInv'
  <1>1. /\ node \in store /\ node \in Items /\ node' \in store' \cup {NULL}
        /\ phase = "fill" /\ NotWritten(node) /\ Fits(node)
        /\ UNCHANGED <<created, store, kind, content, phase, result,
                       answer, orphans, accepted, twice, unanswered, exposed>>
    BY FollowingTyped DEF IInv, TypeOK, CallInv, AddCurrent, serverVars
  <1>2. /\ request'.offset = request.offset + WrittenByTuple(TextsCopied(node))
        /\ request'.items = request.items \cup {node}
        /\ request'.records = request.records \cup ComposedPayload(node)
    BY DEF AddCurrent
  <1>3. /\ \A i \in Items \ {node} : state'[i] = state[i] /\ payload'[i] = payload[i]
        /\ state'[node] = "WRITTEN"
        /\ payload'[node] = IF kind[node] = "file" THEN {} ELSE ComposedPayload(node)
    BY <1>1 DEF IInv, TypeOK, AddCurrent
  <1>4. /\ ComposedPayload(node) \subseteq content[node]
        /\ content[node] \subseteq ComposedPayload(node) \cup Untracked
    BY <1>1 DEF IInv, PayloadInv
  <1>5. TypeOK'
    <2>1. /\ ComposedPayload(node) \in SUBSET Records
          /\ request' \in [offset : Nat, items : SUBSET Items, records : SUBSET Records]
      BY <1>1, TupleFits DEF IInv, TypeOK, ComposedPayload, AddCurrent
    <2>2. /\ state' \in [Items -> States] /\ payload' \in [Items -> SUBSET Records]
          /\ added_any' \in BOOLEAN /\ added_any_at_all' \in BOOLEAN
      BY <1>1, <2>1 DEF IInv, TypeOK, AddCurrent, States
    <2>3. QED
      BY <1>1, <2>1, <2>2 DEF IInv, TypeOK
  <1>6. StoreInv' /\ RemovedInv'
    BY <1>1 DEF IInv, StoreInv, RemovedInv, Exposed
  <1>7. PayloadInv'
    <2>1. ASSUME NEW i \in store
          PROVE  /\ state'[i] # "SENT"
                 /\ ComposedPayload(i)' \subseteq content[i]
                 /\ NotWritten(i)' \/ kind[i] # "file" =>
                      content[i] \subseteq ComposedPayload(i)' \cup Untracked
      <3>1. CASE i = node
        BY <1>1, <1>3, <1>4, <3>1 DEF ComposedPayload, NotWritten
      <3>2. CASE i # node
        BY <1>1, <1>3, <3>2 DEF IInv, TypeOK, PayloadInv, ComposedPayload, NotWritten
      <3>3. QED
        BY <3>1, <3>2
    <2>2. QED
      BY <1>1, <2>1 DEF PayloadInv, Untracked
  <1>8. WrittenInv'
    <2>1. Written' = Written \cup {node}
      BY <1>1, <1>3 DEF IInv, TypeOK, Written
    <2>2. request'.records \subseteq ContentOf(request'.items)
      BY <1>2, <1>4, InContentOf DEF IInv, WrittenInv
    <2>3. \A i \in request'.items : content[i] \subseteq request'.records \cup Untracked
      BY <1>2, <1>4 DEF IInv, WrittenInv
    <2>4. QED
      BY <1>1, <1>2, <2>1, <2>2, <2>3 DEF IInv, WrittenInv, ContentOf, Exposed, Untracked
  <1>9. CallInv' /\ AcceptedInv'
    <2>1. answer = "none" /\ answer' = "none" /\ phase' = "fill"
      BY <1>1 DEF IInv, CallInv
    <2>2. Handed' = Handed /\ ContentOf(store)' = ContentOf(store)
      BY <1>1 DEF Handed, ContentOf
    <2>3. QED
      BY <1>1, <2>1, <2>2 DEF IInv, CallInv, AcceptedInv
  <1>10. RequestWithinLimit'
    BY <1>1, <1>2, TupleFits DEF RequestWithinLimit
  <1>11. QED
    BY <1>5, <1>6, <1>7, <1>8, <1>9, <1>10 DEF IInv

-----------------------------------------------------------------------------
(***************************************************************************)
(* The request on its way, and its answer.                                 *)
(***************************************************************************)

LEMMA SendPreservesIInv ==
    ASSUME IInv, Send
    PROVE  IInv'
  <1>1. /\ phase = "finish" /\ phase' = "wait" /\ answer = "none" /\ answer' = "none"
        /\ UNCHANGED <<created, store, kind, state, content, payload, node, added_any,
                       added_any_at_all, result, orphans, accepted, twice, unanswered, exposed>>
    BY DEF IInv, CallInv, Send, storeVars
  <1>2. /\ request'.items = request.items /\ request'.records = request.records
        /\ request'.offset = request.offset + FINAL_LENGTH
        /\ request' \in [offset : Nat, items : SUBSET Items, records : SUBSET Records]
        /\ request'.offset <= MaxPayload
    <2>1. FINAL_LENGTH = 26
      BY DEF FINAL_LENGTH, BOUNDARY_SIGN_LENGTH, BOUNDARY_LENGTH
    <2>2. QED
      BY <2>1, ExchangeAssumptions DEF IInv, TypeOK, Send
  <1>3. TypeOK'
    BY <1>1, <1>2 DEF IInv, TypeOK, Phases
  <1>4. StoreInv' /\ PayloadInv' /\ RemovedInv'
    BY <1>1 DEF IInv, StoreInv, PayloadInv, ComposedPayload, NotWritten, RemovedInv, Exposed,
                Untracked
  <1>5. WrittenInv'
    BY <1>1, <1>2 DEF IInv, WrittenInv, Written, ContentOf, Exposed, Untracked
  <1>6. CallInv' /\ AcceptedInv' /\ RequestWithinLimit'
    BY <1>1, <1>2 DEF IInv, CallInv, AcceptedInv, Handed, ContentOf, RequestWithinLimit
  <1>7. QED
    BY <1>3, <1>4, <1>5, <1>6 DEF IInv

\* What the server may do does not touch the client's state.
LEMMA ServerStep ==
    ASSUME IInv, UNCHANGED <<storeVars, callVars, exposed>>, accepted \subseteq accepted'
    PROVE  StoreInv' /\ PayloadInv' /\ WrittenInv' /\ RemovedInv' /\ RequestWithinLimit'
  <1>1. UNCHANGED <<created, store, kind, state, content, payload, request, exposed>>
    BY DEF storeVars, callVars
  <1>2. StoreInv' /\ PayloadInv' /\ RemovedInv'
    BY <1>1 DEF IInv, StoreInv, PayloadInv, ComposedPayload, NotWritten, RemovedInv, Exposed,
                Untracked
  <1>3. WrittenInv' /\ RequestWithinLimit'
    BY <1>1 DEF IInv, WrittenInv, Written, ContentOf, Exposed, Untracked, RequestWithinLimit
  <1>4. QED
    BY <1>2, <1>3

LEMMA ServerAcceptsPreservesIInv ==
    ASSUME IInv, ServerAccepts
    PROVE  IInv'
  <1>1. /\ phase = "wait" /\ answer = "none" /\ answer' = "MCL_OK"
        /\ accepted' = accepted \cup request.records
        /\ twice' = twice \cup (accepted \cap request.records)
        /\ UNCHANGED <<created, store, kind, state, content, payload, phase, node, added_any,
                       added_any_at_all, request, result, orphans, unanswered, exposed>>
    BY DEF ServerAccepts, AcceptBody, storeVars, callVars
  <1>2. StoreInv' /\ PayloadInv' /\ WrittenInv' /\ RemovedInv' /\ RequestWithinLimit'
    BY <1>1, ServerStep DEF ServerAccepts
  <1>3. TypeOK'
    BY <1>1 DEF IInv, TypeOK
  <1>4. CallInv'
    BY <1>1 DEF IInv, CallInv
  <1>5. AcceptedInv'
    <2>1. request.records \subseteq ContentOf(store) /\ request.records \subseteq Handed
      BY InContentOf DEF IInv, TypeOK, WrittenInv, Written, Handed
    <2>2. Handed' = Handed /\ ContentOf(store)' = ContentOf(store)
      BY <1>1 DEF Handed, ContentOf
    <2>3. QED
      BY <1>1, <2>1, <2>2 DEF IInv, AcceptedInv
  <1>6. QED
    BY <1>2, <1>3, <1>4, <1>5 DEF IInv

LEMMA ServerRefusesPreservesIInv ==
    ASSUME IInv, ServerRefuses
    PROVE  IInv'
  <1>1. /\ phase = "wait" /\ answer = "none" /\ answer' \in Codes /\ answer' # "MCL_OK"
        /\ UNCHANGED <<created, store, kind, state, content, payload, phase, node, added_any,
                       added_any_at_all, request, result, orphans, accepted, twice,
                       unanswered, exposed>>
    BY ExchangeAssumptions DEF ServerRefuses, storeVars, callVars
  <1>2. StoreInv' /\ PayloadInv' /\ WrittenInv' /\ RemovedInv' /\ RequestWithinLimit'
    BY <1>1, ServerStep DEF ServerRefuses
  <1>3. TypeOK' /\ CallInv' /\ AcceptedInv'
    BY <1>1 DEF IInv, TypeOK, CallInv, AcceptedInv, Handed, ContentOf
  <1>4. QED
    BY <1>2, <1>3 DEF IInv

LEMMA ServerAcceptsLatePreservesIInv ==
    ASSUME IInv, ServerAcceptsLate
    PROVE  IInv'
  <1>1. /\ \E R \in orphans : /\ accepted' = accepted \cup R
                              /\ twice' = twice \cup (accepted \cap R)
                              /\ orphans' = orphans \ {R}
        /\ UNCHANGED <<created, store, kind, state, content, payload, phase, node, added_any,
                       added_any_at_all, request, result, answer, unanswered, exposed>>
    BY DEF ServerAcceptsLate, AcceptBody, storeVars, callVars
  <1>2. StoreInv' /\ PayloadInv' /\ WrittenInv' /\ RemovedInv' /\ RequestWithinLimit'
    BY <1>1, ServerStep DEF ServerAcceptsLate
  <1>3. TypeOK' /\ CallInv' /\ AcceptedInv'
    BY <1>1 DEF IInv, TypeOK, CallInv, AcceptedInv, Handed, ContentOf
  <1>4. QED
    BY <1>2, <1>3 DEF IInv

\* A success removes what is WRITTEN: that is with the server, or lost track of.
LEMMA EvaluateSuccessPreservesIInv ==
    ASSUME IInv, EvaluateSuccess
    PROVE  IInv'
  <1>1. /\ phase = "wait" /\ answer = "MCL_OK" /\ answer' = "none"
        /\ store' = store \ Written
        /\ state' = [i \in Items |-> IF i \in Written THEN "SENT" ELSE state[i]]
        /\ UNCHANGED <<created, kind, content, payload, orphans, accepted, twice, unanswered,
                       exposed>>
    BY DEF EvaluateSuccess, UpdateAndClear
  <1>2. /\ phase' \in {"idle", "begin"} /\ node' = NULL /\ request' = EmptyRequest
        /\ added_any' = FALSE /\ added_any_at_all' = FALSE
        /\ result' = result \/ result' = "MCL_OK"
    BY DEF EvaluateSuccess, RequestAgain, Return
  <1>3. TypeOK'
    BY <1>1, <1>2 DEF IInv, TypeOK, States, Phases, Results, EmptyRequest
  <1>4. StoreInv'
    BY <1>1 DEF IInv, StoreInv
  <1>5. \A i \in store' : i \in Items /\ i \in store /\ i \notin Written /\ state'[i] = state[i]
    BY <1>1 DEF IInv, TypeOK
  <1>6. PayloadInv'
    BY <1>1, <1>5 DEF IInv, PayloadInv, ComposedPayload, NotWritten, Untracked
  <1>7. WrittenInv'
    <2>1. Written' = {}
      BY <1>5 DEF Written
    <2>2. QED
      BY <1>2, <2>1 DEF WrittenInv, EmptyRequest
  <1>8. CallInv'
    BY <1>1, <1>2 DEF CallInv, EmptyRequest
  <1>9. RemovedInv'
    <2>1. \A i \in Written : content[i] \subseteq accepted \cup Exposed
      BY <1>1, ExposedParts DEF IInv, WrittenInv, CallInv
    <2>2. QED
      BY <1>1, <2>1 DEF IInv, RemovedInv, Exposed
  <1>10. AcceptedInv'
    <2>1. ContentOf(store') \cap request.records = {}
      <3>1. request.items \subseteq Written /\ Written \subseteq Items
        BY DEF IInv, TypeOK, WrittenInv, Written
      <3>2. \A i \in store', j \in request.items : content[i] \cap content[j] = {}
        BY <1>5, <3>1 DEF IInv, StoreInv
      <3>3. request.records \subseteq ContentOf(request.items)
        BY DEF IInv, WrittenInv
      <3>4. QED
        BY <3>2, <3>3, InContentOf
    <2>2. /\ ContentOf(store') \subseteq ContentOf(store)
          /\ ContentOf(store)' = ContentOf(store') /\ Handed' = Handed
      BY <1>1 DEF ContentOf, Handed
    <2>3. accepted' \cap ContentOf(store)' \subseteq unanswered'
      BY <1>1, <2>1, <2>2 DEF IInv, AcceptedInv
    <2>4. QED
      BY <1>1, <2>2, <2>3 DEF IInv, AcceptedInv
  <1>11. RequestWithinLimit'
    BY <1>2, ExchangeAssumptions DEF RequestWithinLimit, EmptyRequest
  <1>12. QED
    BY <1>3, <1>4, <1>6, <1>7, <1>8, <1>9, <1>10, <1>11 DEF IInv

\* A failure makes every WRITTEN item PREPARED: its payload is still there,
\* unless it was in a file.
LEMMA RollBackPreservesIInv ==
    ASSUME IInv, RollBack, NEW code \in Results, Return(code), answer' = "none",
           answer # "MCL_OK" \/ request.records \subseteq unanswered',
           unanswered \subseteq unanswered', unanswered' \subseteq Handed,
           \A R \in orphans' : R \subseteq unanswered', orphans' \subseteq SUBSET Records,
           UNCHANGED <<created, store, kind, content, payload, accepted, twice>>
    PROVE  IInv'
  <1>1. /\ phase' = "idle" /\ node' = NULL /\ request' = EmptyRequest
        /\ added_any' = FALSE /\ added_any_at_all' = FALSE /\ result' = code
    BY DEF Return
  <1>2. /\ state' = [i \in Items |-> IF i \in Written THEN "PREPARED" ELSE state[i]]
        /\ exposed' \in [Causes -> SUBSET Records]
        /\ exposed'["late"] = exposed["late"]
        /\ exposed'["drained"] = exposed["drained"] \cup ContentOf(Files(Written))
        /\ exposed'["stranded"] = exposed["stranded"] \ ContentOf(store)
    <2>1. Files(Written) \in SUBSET Items
      BY DEF Files, Written, IInv, TypeOK
    <2>2. ContentOf(Files(Written)) \in SUBSET Records
      BY <2>1, ContentOfTyped DEF IInv
    <2>3. QED
      BY <2>2 DEF RollBack, IInv, TypeOK, Causes
  <1>3. /\ Untracked' = Untracked \cup ContentOf(Files(Written))
        /\ Exposed \ ContentOf(store) \subseteq Exposed'
    BY <1>2, ExposedParts DEF Untracked
  <1>4. TypeOK'
    <2>1. Handed \in SUBSET Records
      BY ContentOfTyped DEF IInv, Handed
    <2>2. QED
      BY <1>1, <1>2, <2>1 DEF IInv, TypeOK, States, Phases, EmptyRequest
  <1>5. StoreInv'
    BY DEF IInv, StoreInv
  <1>6. \A i \in store : /\ i \in Items
                         /\ state'[i] = IF i \in Written THEN "PREPARED" ELSE state[i]
                         /\ i \in Written <=> state[i] = "WRITTEN"
    BY <1>2 DEF IInv, TypeOK, Written
  <1>7. PayloadInv'
    <2>1. ASSUME NEW i \in store
          PROVE  /\ state'[i] # "SENT"
                 /\ ComposedPayload(i)' \subseteq content[i]
                 /\ content[i] \subseteq ComposedPayload(i)' \cup Untracked'
      <3>1. state'[i] # "SENT" /\ ComposedPayload(i)' = ComposedPayload(i)
        BY <1>6 DEF IInv, PayloadInv, ComposedPayload
      <3>2. CASE i \in Written /\ kind[i] = "file"
        BY <1>3, <3>1, <3>2, InContentOf DEF IInv, PayloadInv, Files
      <3>3. CASE ~(i \in Written /\ kind[i] = "file")
        <4>1. NotWritten(i) \/ kind[i] # "file"
          BY <1>6, <3>3 DEF IInv, TypeOK, PayloadInv, NotWritten, States
        <4>2. QED
          BY <1>3, <3>1, <4>1 DEF IInv, PayloadInv
      <3>4. QED
        BY <3>2, <3>3
    <2>2. QED
      BY <2>1 DEF PayloadInv
  <1>8. WrittenInv'
    <2>1. Written' = {}
      BY <1>6 DEF Written
    <2>2. QED
      BY <1>1, <2>1 DEF WrittenInv, EmptyRequest
  <1>9. CallInv'
    BY <1>1 DEF CallInv, EmptyRequest
  <1>10. RemovedInv'
    <2>1. ASSUME NEW i \in (1..created) \ store PROVE content[i] \cap ContentOf(store) = {}
      <3>1. i \in Items /\ store \subseteq Items
        BY ExchangeAssumptions DEF IInv, TypeOK, Items
      <3>2. \A j \in store : content[i] \cap content[j] = {}
        BY <3>1 DEF IInv, StoreInv
      <3>3. QED
        BY <3>2, InContentOf
    <2>2. QED
      BY <1>3, <2>1 DEF IInv, RemovedInv
  <1>11. AcceptedInv'
    <2>1. Handed' = Handed /\ ContentOf(store)' = ContentOf(store)
      BY DEF Handed, ContentOf
    <2>2. QED
      BY <2>1 DEF IInv, AcceptedInv
  <1>12. RequestWithinLimit'
    BY <1>1, ExchangeAssumptions DEF RequestWithinLimit, EmptyRequest
  <1>13. QED
    BY <1>4, <1>5, <1>7, <1>8, <1>9, <1>10, <1>11, <1>12 DEF IInv

LEMMA EvaluateFailurePreservesIInv ==
    ASSUME IInv, EvaluateFailure
    PROVE  IInv'
  <1>1. answer \in Results /\ answer # "MCL_OK"
    BY ExchangeAssumptions DEF EvaluateFailure, Results
  <1>2. QED
    BY <1>1, RollBackPreservesIInv DEF EvaluateFailure, IInv, AcceptedInv, TypeOK

LEMMA NoAnswerPreservesIInv ==
    ASSUME IInv, NoAnswer
    PROVE  IInv'
  <1>1. "MCL_REQUEST_TIMEOUT" \in Results
    BY DEF Results
  <1>2. request.records \subseteq Handed /\ request.records \in SUBSET Records
    BY InContentOf DEF IInv, TypeOK, WrittenInv, Written, Handed
  <1>3. /\ unanswered' = unanswered \cup request.records
        /\ orphans' \subseteq orphans \cup {request.records}
    BY DEF NoAnswer
  <1>4. /\ unanswered' \subseteq Handed
        /\ \A R \in orphans' : R \subseteq unanswered'
        /\ orphans' \subseteq SUBSET Records
    BY <1>2, <1>3 DEF IInv, AcceptedInv, TypeOK
  <1>5. QED
    BY <1>1, <1>3, <1>4, RollBackPreservesIInv DEF NoAnswer

-----------------------------------------------------------------------------
(***************************************************************************)
(* The invariant holds, and what follows from it.                          *)
(***************************************************************************)

LEMMA InitEstablishesIInv == Init => IInv
  <1> SUFFICES ASSUME Init PROVE IInv
    OBVIOUS
  <1>1. TypeOK
    <2>1. EmptyRequest \in [offset : Nat, items : SUBSET Items, records : SUBSET Records]
      BY DEF EmptyRequest
    <2>2. created \in 0..MaxItems /\ node \in Items \cup {NULL}
      BY ExchangeAssumptions DEF Init
    <2>3. /\ kind \in [Items -> ItemKinds] /\ state \in [Items -> States]
          /\ content \in [Items -> SUBSET Records] /\ payload \in [Items -> SUBSET Records]
          /\ exposed \in [Causes -> SUBSET Records]
      BY DEF Init, ItemKinds, States
    <2>4. QED
      BY <2>1, <2>2, <2>3 DEF Init, TypeOK, Phases, Results
  <1>2. Handed = {} /\ ContentOf(store) = {} /\ Written = {}
    BY DEF Init, Handed, ContentOf, Written
  <1>3. StoreInv
    BY DEF Init, StoreInv
  <1>4. PayloadInv /\ CallInv /\ RemovedInv
    BY DEF Init, PayloadInv, CallInv, RemovedInv, EmptyRequest
  <1>5. WrittenInv /\ AcceptedInv /\ RequestWithinLimit
    BY <1>2, ExchangeAssumptions
       DEF Init, WrittenInv, AcceptedInv, RequestWithinLimit, EmptyRequest
  <1>6. QED
    BY <1>1, <1>3, <1>4, <1>5 DEF IInv

LEMMA NextPreservesIInv == IInv /\ [Next]_vars => IInv'
  <1> SUFFICES ASSUME IInv, [Next]_vars PROVE IInv'
    OBVIOUS
  <1>1. CASE ApplicationStep
    BY <1>1, ApplicationPreservesIInv
  <1>2. CASE Call \/ Begin
    BY <1>2, CallPreservesIInv, BeginPreservesIInv
  <1>3. CASE FillStep
    BY <1>3, AddCurrentPreservesIInv, SkipCurrentPreservesIInv, PrepareFailsPreservesIInv,
       AddFailsPreservesIInv, EndOfListPreservesIInv DEF FillStep
  <1>4. CASE FinishStep
    BY <1>4, SendPreservesIInv, FinishFailsPreservesIInv DEF FinishStep
  <1>5. CASE EvaluateStep \/ NoAnswer
    BY <1>5, EvaluateSuccessPreservesIInv, EvaluateFailurePreservesIInv, NoAnswerPreservesIInv
       DEF EvaluateStep
  <1>6. CASE ServerAnswers \/ ServerAcceptsLate
    BY <1>6, ServerAcceptsPreservesIInv, ServerRefusesPreservesIInv,
       ServerAcceptsLatePreservesIInv DEF ServerAnswers
  <1>7. CASE UNCHANGED vars
    <2>1. UNCHANGED <<storeVars, callVars, serverVars, exposed>>
      BY <1>7 DEF vars
    <2>2. StoreInv' /\ PayloadInv' /\ WrittenInv' /\ RemovedInv' /\ RequestWithinLimit'
      BY <2>1, ServerStep DEF serverVars
    <2>3. TypeOK' /\ CallInv' /\ AcceptedInv'
      BY <2>1 DEF IInv, TypeOK, CallInv, AcceptedInv, Handed, ContentOf, storeVars, callVars,
                  serverVars
    <2>4. QED
      BY <2>2, <2>3 DEF IInv
  <1>8. QED
    BY <1>1, <1>2, <1>3, <1>4, <1>5, <1>6, <1>7 DEF Next, ExchangeStep

LEMMA InvariantHolds == Spec => []IInv
  BY InitEstablishesIInv, NextPreservesIInv, PTL DEF Spec

\* Every variable of the store and of exchange keeps its type.
THEOREM TypeCorrect == Spec => []TypeOK
  BY InvariantHolds, PTL DEF IInv

\* A record leaves the store only when the server has accepted it, or when
\* exchange had lost track of it in one of the three known ways.
THEOREM NothingLost == Spec => []NothingLostUnexposed
  <1>1. IInv => NothingLostUnexposed
    BY InContentOf DEF IInv, RemovedInv, NothingLostUnexposed, Removed
  <1>2. QED
    BY <1>1, InvariantHolds, PTL

\* What the server has accepted is repeated only after a request without answer.
THEOREM DuplicatesAreRetries == Spec => []NoNeedlessDuplicate
  <1>1. IInv => NoNeedlessDuplicate
    BY DEF IInv, AcceptedInv, NoNeedlessDuplicate
  <1>2. QED
    BY <1>1, InvariantHolds, PTL

\* What a success will delete is in the request that succeeds.
THEOREM DeletedIsInRequest == Spec => []WrittenIsInRequest
  <1>1. IInv => WrittenIsInRequest
    BY InContentOf, ExposedParts DEF IInv, WrittenInv, WrittenIsInRequest
  <1>2. QED
    BY <1>1, InvariantHolds, PTL

\* A request never exceeds max_http_payload_size.
THEOREM RequestsWithinLimit == Spec => []RequestWithinLimit
  BY InvariantHolds, PTL DEF IInv

\* Each result code but one comes from a step that does not return MCL_OK.
LEMMA OnlySuccessReturnsOk ==
    ASSUME IInv, Next, phase # "idle", phase' = "idle", result' = "MCL_OK"
    PROVE  EvaluateSuccess /\ store' = {}
  <1>1. ~ApplicationStep /\ ~Call
    BY DEF ApplicationStep, Call
  <1>2. ~Begin /\ ~PrepareFails
    BY DEF Begin, PrepareFails, ReturnUnsent, Return
  <1>3. ~(AddCurrent \/ SkipCurrent)
    BY DEF AddCurrent, SkipCurrent
  <1>4. ~(AddFails \/ EndOfList)
    BY DEF AddFails, EndOfList, LoopEnds, ReturnUnsent, Return
  <1>5. ~FinishStep
    BY DEF FinishStep, Send, FinalizeFails, CorrelationIdFails, ReturnUnsent, Return
  <1>6. ~(EvaluateFailure \/ NoAnswer)
    BY ExchangeAssumptions DEF EvaluateFailure, NoAnswer, Return
  <1>7. ~(ServerAnswers \/ ServerAcceptsLate)
    BY DEF ServerAnswers, ServerAccepts, ServerRefuses, ServerAcceptsLate, callVars
  <1>8. EvaluateSuccess
    BY <1>1, <1>2, <1>3, <1>4, <1>5, <1>6, <1>7 DEF Next, ExchangeStep, FillStep, EvaluateStep
  <1>9. QED
    BY <1>8 DEF EvaluateSuccess, RequestAgain

\* MCL_OK means that the store is empty and that all that was in it is with
\* the server, or lost track of.
THEOREM OkIsComplete == Spec => OkMeansAllExchanged
  <1>1. IInv /\ IInv' /\ [Next]_vars =>
          [(phase # "idle" /\ phase' = "idle" /\ result' = "MCL_OK")
             => store' = {} /\ Handed' \subseteq accepted' \cup Exposed']_vars
    <2> SUFFICES ASSUME IInv, IInv', Next, phase # "idle", phase' = "idle", result' = "MCL_OK"
                 PROVE  store' = {} /\ Handed' \subseteq accepted' \cup Exposed'
      BY DEF vars, callVars
    <2>1. store' = {}
      BY OnlySuccessReturnsOk
    <2>2. \A i \in Items : content'[i] \subseteq accepted' \cup Exposed'
      <3>1. \A i \in Items : i \in 1..created' \/ content'[i] = {}
        BY DEF IInv, TypeOK, StoreInv, Items
      <3>2. QED
        BY <2>1, <3>1 DEF IInv, RemovedInv
    <2>3. QED
      BY <2>1, <2>2 DEF Handed, ContentOf
  <1>2. QED
    BY <1>1, InvariantHolds, PTL DEF Spec, OkMeansAllExchanged

-----------------------------------------------------------------------------
(***************************************************************************)
(* Event lists.                                                            *)
(***************************************************************************)

\* Only the application adds items, and only it says what kind they are.
LEMMA StoreOnlyShrinks ==
    ASSUME [Next]_vars, ~ApplicationStep
    PROVE  store' \subseteq store /\ kind' = kind
  <1>1. CASE EvaluateSuccess
    BY <1>1 DEF EvaluateSuccess, UpdateAndClear
  <1>2. CASE AddCurrent \/ SkipCurrent \/ AddFails \/ EvaluateFailure \/ NoAnswer
    BY <1>2 DEF AddCurrent, SkipCurrent, AddFails, EvaluateFailure, NoAnswer
  <1>3. CASE Call \/ Begin \/ PrepareFails \/ EndOfList \/ FinishStep \/ ServerAnswers
             \/ ServerAcceptsLate \/ UNCHANGED vars
    BY <1>3 DEF Call, Begin, PrepareFails, EndOfList, FinishStep, Send, FinalizeFails,
                CorrelationIdFails, ServerAnswers, ServerAccepts, ServerRefuses,
                ServerAcceptsLate, vars, storeVars
  <1>4. QED
    BY <1>1, <1>2, <1>3 DEF Next, ExchangeStep, FillStep, EvaluateStep

\* Events of one version never end up in two items of the store.
THEOREM EventsShareOneList == Spec => []OneListPerEventVersion
  <1>1. Init => OneListPerEventVersion
    BY DEF Init, OneListPerEventVersion, EventLists
  <1>2. IInv /\ OneListPerEventVersion /\ [Next]_vars => OneListPerEventVersion'
    <2> SUFFICES ASSUME IInv, OneListPerEventVersion, [Next]_vars
                 PROVE  OneListPerEventVersion'
      OBVIOUS
    <2>1. ASSUME NEW k, NEW R, StoreAddData(k, R), k \in EventVersions => EventLists(k) = {}
          PROVE  OneListPerEventVersion'
      <3>1. /\ store' = store \cup {created + 1}
            /\ \A i \in store : kind'[i] = kind[i]
            /\ kind'[created + 1] = k
        BY <2>1, ExchangeAssumptions DEF StoreAddData, IInv, TypeOK, StoreInv, Items
      <3>2. QED
        BY <2>1, <3>1 DEF OneListPerEventVersion, EventLists
    <2>2. ASSUME NEW i, NEW r, AddRecord(i, r)
          PROVE  OneListPerEventVersion'
      BY <2>2 DEF AddRecord, OneListPerEventVersion, EventLists
    <2>3. CASE ApplicationStep
      <3>1. {"time_series", "file", "custom"} \cap EventVersions = {}
        BY ExchangeAssumptions
      <3>2. CASE NewTimeSeries \/ NewCustomData \/ \E r \in Records \ Handed : NewFile(r)
        BY <2>1, <3>1, <3>2 DEF NewTimeSeries, NewFile, NewCustomData
      <3>3. CASE \E r \in Records \ Handed : NewValueSet(r) \/ SetPayload(r)
        BY <2>2, <3>3 DEF NewValueSet, SetPayload
      <3>4. CASE \E v \in EventVersions : NewEventFails(v) \/ \E r \in Records \ Handed : NewEvent(v, r)
        BY <2>1, <2>2, <3>4 DEF NewEventFails, NewEvent
      <3>5. QED
        BY <2>3, <3>2, <3>3, <3>4 DEF ApplicationStep
    <2>4. CASE ~ApplicationStep
      BY <2>4, StoreOnlyShrinks DEF OneListPerEventVersion, EventLists
    <2>5. QED
      BY <2>3, <2>4
  <1>3. QED
    BY <1>1, <1>2, InvariantHolds, PTL DEF Spec

-----------------------------------------------------------------------------
(***************************************************************************)
(* What is left out of a request.                                          *)
(***************************************************************************)

\* In a pass over the list in which nothing was added, what the pass has seen
\* does not fit.
SkippedInv ==
    (phase = "fill" /\ ~added_any) =>
        \A i \in store : (node = NULL \/ i < node) => (NotWritten(i) => ~Fits(i))

LEMMA FollowingSkipsNothing ==
    ASSUME TypeOK, NEW n \in Items \cup {NULL}, NEW m \in Following(n),
           NEW i \in store, m = NULL \/ i < m
    PROVE  i <= n
  <1>1. i \in Nat /\ n \in Nat /\ \A j \in store : j \in Nat /\ j # NULL
    BY ExchangeAssumptions DEF TypeOK, Items, NULL
  <1>2. CASE \A j \in store : j <= n
    BY <1>2
  <1>3. CASE ~(\A j \in store : j <= n)
    <2>1. m \in NodesAfter(n)
      BY <1>3 DEF Following
    <2>2. m \in store /\ (n < i => m <= i)
      BY <2>1 DEF NodesAfter
    <2>3. QED
      BY <1>1, <2>2
  <1>4. QED
    BY <1>2, <1>3

LEMMA SkippedStaysSkipped ==
    ASSUME IInv, SkippedInv, [Next]_vars
    PROVE  SkippedInv'
  <1> SUFFICES ASSUME phase' = "fill", ~added_any', NEW i \in store', node' = NULL \/ i < node',
                      NotWritten(i)'
               PROVE  ~Fits(i)'
    BY DEF SkippedInv
  <1>1. CASE Begin \/ (EndOfList /\ added_any)
    <2>1. node' \in Following(NULL) /\ store' = store
      BY <1>1 DEF Begin, EndOfList, ReturnUnsent, Return, storeVars
    <2>2. i \in Nat \ {NULL}
      BY <2>1, ExchangeAssumptions DEF IInv, TypeOK, Items, NULL
    <2>3. QED
      BY <2>1, <2>2, FollowingSkipsNothing DEF IInv, NULL
  <1>2. CASE SkipCurrent
    <2>1. /\ phase = "fill" /\ node \in store /\ node \in Items /\ ~added_any
          /\ node' \in Following(node)
          /\ UNCHANGED <<store, kind, content, request>>
          /\ NotWritten(node) => ~Fits(node)
      BY <1>2 DEF SkipCurrent, IInv, TypeOK, CallInv
    <2>2. i \in store /\ i \in Items /\ i <= node
      BY <2>1, FollowingSkipsNothing DEF IInv, TypeOK
    <2>3. /\ ComposedPayload(i)' = ComposedPayload(i)
          /\ NotWritten(i)' <=> NotWritten(i)
      BY <1>2, <2>1, <2>2 DEF SkipCurrent, IInv, TypeOK, ComposedPayload, NotWritten
    <2>4. Fits(i)' <=> Fits(i)
      BY <2>1, <2>2, <2>3 DEF Fits, TextsAsked
    <2>5. ~Fits(i)
      <3>1. i = node \/ i < node
        BY <2>2, ExchangeAssumptions DEF IInv, TypeOK, Items
      <3>2. QED
        BY <2>1, <2>2, <2>3, <3>1 DEF SkippedInv
    <2>6. QED
      BY <2>4, <2>5
  <1>3. CASE AddCurrent
    BY <1>3 DEF AddCurrent
  <1>4. CASE Call \/ PrepareFails \/ AddFails \/ (EndOfList /\ ~added_any) \/ FinishStep
             \/ EvaluateStep \/ NoAnswer
    <2>1. phase' # "fill"
      BY <1>4 DEF Call, PrepareFails, AddFails, EndOfList, LoopEnds, ReturnUnsent, Return,
         FinishStep, Send, FinalizeFails, CorrelationIdFails, EvaluateStep, EvaluateSuccess,
         RequestAgain, EvaluateFailure, NoAnswer
    <2>2. QED
      BY <2>1
  <1>5. CASE ApplicationStep
    BY <1>5 DEF ApplicationStep, callVars
  <1>6. CASE ServerAnswers \/ ServerAcceptsLate \/ UNCHANGED vars
    <2>1. UNCHANGED <<storeVars, callVars>>
      BY <1>6 DEF ServerAnswers, ServerAccepts, ServerRefuses, ServerAcceptsLate, vars
    <2>2. QED
      BY <2>1 DEF storeVars, callVars, SkippedInv, NotWritten, Fits, TextsAsked, ComposedPayload
  <1>7. QED
    BY <1>1, <1>2, <1>3, <1>4, <1>5, <1>6 DEF Next, ExchangeStep, FillStep

\* The loop over the list ends only when no item that could still be added
\* fits into the request.
THEOREM LeftOutIsTooLong == Spec => LeftOutOnlyIfTooLong
  <1>1. Init => SkippedInv
    BY DEF Init, SkippedInv
  <1>2. IInv /\ SkippedInv /\ [Next]_vars => SkippedInv'
    BY SkippedStaysSkipped
  <1>3. IInv /\ SkippedInv /\ [Next]_vars =>
          [(phase = "fill" /\ node = NULL /\ phase' # "fill")
             => \A i \in store : NotWritten(i) => ~Fits(i)]_vars
    <2> SUFFICES ASSUME IInv, SkippedInv, Next, phase = "fill", node = NULL, phase' # "fill"
                 PROVE  ~added_any
      BY DEF SkippedInv, vars, callVars
    <2>1. /\ ~ApplicationStep /\ ~Call /\ ~Begin /\ ~FinishStep /\ ~EvaluateStep /\ ~NoAnswer
          /\ ~ServerAnswers
      BY DEF ApplicationStep, Call, Begin, FinishStep, Send, FinalizeFails, CorrelationIdFails,
             EvaluateStep, EvaluateSuccess, EvaluateFailure, NoAnswer, ServerAnswers,
             ServerAccepts, ServerRefuses
    <2>2. ~ServerAcceptsLate
      BY DEF ServerAcceptsLate, callVars
    <2>3. EndOfList
      BY <2>1, <2>2 DEF Next, ExchangeStep, FillStep, AddCurrent, SkipCurrent, PrepareFails,
                        AddFails
    <2>4. QED
      BY <2>3 DEF EndOfList
  <1>4. QED
    BY <1>1, <1>2, <1>3, InvariantHolds, PTL DEF Spec, LeftOutOnlyIfTooLong

-----------------------------------------------------------------------------
(***************************************************************************)
(* The store and exchange implement Delivery.                              *)
(***************************************************************************)

AbstractNext == [AbstractDelivery!Next]_AbstractDelivery!vars

\* What a step of Delivery comes to, with the refinement mapping applied.
LEMMA HandOverStep ==
    ASSUME NEW R \in SUBSET Records, R \cap Handed = {},
           Handed' = Handed \cup R, ContentOf(store)' = ContentOf(store) \cup R,
           Exposed' \in {Exposed, Exposed \cup R}, accepted' = accepted
    PROVE  AbstractNext
  BY DEF AbstractNext, AbstractDelivery!Next, AbstractDelivery!HandOver

LEMMA AcceptStep ==
    ASSUME NEW R \in SUBSET Records, R \subseteq Handed, accepted' = accepted \cup R,
           Handed' = Handed, ContentOf(store)' = ContentOf(store), Exposed' = Exposed
    PROVE  AbstractNext
  BY DEF AbstractNext, AbstractDelivery!Next, AbstractDelivery!Accept

LEMMA ExposeStep ==
    ASSUME ContentOf(store) \in SUBSET Records,
           Exposed' \ ContentOf(store) = Exposed \ ContentOf(store),
           Handed' = Handed, ContentOf(store)' = ContentOf(store), accepted' = accepted
    PROVE  AbstractNext
  <1> DEFINE R == Exposed' \cap ContentOf(store)
  <1>1. R \in SUBSET Records /\ R \subseteq ContentOf(store)
    OBVIOUS
  <1>2. Exposed' = R \cup (Exposed \ ContentOf(store))
    OBVIOUS
  <1>3. QED
    BY <1>1, <1>2 DEF AbstractNext, AbstractDelivery!Next, AbstractDelivery!Expose

LEMMA ReleaseStep ==
    ASSUME NEW R \in SUBSET Records, R \subseteq accepted \cup Exposed,
           ContentOf(store)' = ContentOf(store) \ R,
           Handed' = Handed, Exposed' = Exposed, accepted' = accepted
    PROVE  AbstractNext
  BY DEF AbstractNext, AbstractDelivery!Next, AbstractDelivery!Release

LEMMA StutterStep ==
    ASSUME Handed' = Handed, ContentOf(store)' = ContentOf(store), Exposed' = Exposed,
           accepted' = accepted
    PROVE  AbstractNext
  BY DEF AbstractNext, AbstractDelivery!vars

LEMMA ApplicationRefines ==
    ASSUME IInv, ApplicationStep
    PROVE  AbstractNext
  <1>1. accepted' = accepted
    BY DEF ApplicationStep, serverVars
  <1>2. ASSUME NEW k, NEW R \in SUBSET Records, R \cap Handed = {}, StoreAddData(k, R)
        PROVE  AbstractNext
    <2>1. /\ created + 1 \in Items /\ created + 1 \notin store /\ content[created + 1] = {}
          /\ store' = store \cup {created + 1}
          /\ content' = [content EXCEPT ![created + 1] = R]
          /\ Exposed' = Exposed
      BY <1>2, ExchangeAssumptions DEF StoreAddData, IInv, TypeOK, StoreInv, Items, Exposed
    <2>2. Handed' = Handed \cup R /\ ContentOf(store)' = ContentOf(store) \cup R
      BY <2>1 DEF IInv, TypeOK, Handed, ContentOf
    <2>3. QED
      BY <1>1, <1>2, <2>1, <2>2, HandOverStep
  <1>3. ASSUME NEW i \in store, NEW r \in Records \ Handed, AddRecord(i, r)
        PROVE  AbstractNext
    <2>1. /\ i \in Items /\ store' = store
          /\ content' = [content EXCEPT ![i] = content[i] \cup {r}]
      BY <1>3 DEF AddRecord, IInv, TypeOK
    <2>2. Handed' = Handed \cup {r} /\ ContentOf(store)' = ContentOf(store) \cup {r}
      BY <2>1 DEF IInv, TypeOK, Handed, ContentOf
    <2>3. Exposed' \in {Exposed, Exposed \cup {r}}
      <3>1. CASE state[i] = "INITIAL"
        BY <1>3, <3>1 DEF AddRecord, Exposed
      <3>2. CASE state[i] # "INITIAL"
        <4>1. Untracked' = Untracked \cup {r} /\ exposed'["stranded"] = exposed["stranded"]
          BY <1>3, <3>2 DEF AddRecord, IInv, TypeOK, Untracked, Causes
        <4>2. QED
          BY <4>1, ExposedParts
      <3>3. QED
        BY <3>1, <3>2
    <2>4. {r} \in SUBSET Records /\ {r} \cap Handed = {}
      OBVIOUS
    <2>5. QED
      BY <1>1, <2>2, <2>3, <2>4, HandOverStep
  <1>4. CASE NewTimeSeries \/ NewCustomData \/ \E v \in EventVersions : NewEventFails(v)
    <2>1. {} \in SUBSET Records /\ {} \cap Handed = {}
      OBVIOUS
    <2>2. QED
      BY <1>2, <1>4, <2>1 DEF NewTimeSeries, NewCustomData, NewEventFails
  <1>5. CASE \E r \in Records \ Handed : NewValueSet(r) \/ SetPayload(r)
    BY <1>3, <1>5 DEF NewValueSet, SetPayload
  <1>6. CASE \E r \in Records \ Handed :
               NewFile(r) \/ \E v \in EventVersions : NewEvent(v, r)
    <2>1. PICK r \in Records \ Handed :
               NewFile(r) \/ \E v \in EventVersions : NewEvent(v, r)
      BY <1>6
    <2>2. {r} \in SUBSET Records /\ {r} \cap Handed = {}
      OBVIOUS
    <2>3. QED
      BY <1>2, <1>3, <2>1, <2>2 DEF NewFile, NewEvent, EventLists
  <1>7. QED
    BY <1>4, <1>5, <1>6 DEF ApplicationStep

\* A step that leaves the records of the store alone may strand what is in the
\* request.
LEMMA ReturnUnsentRefines ==
    ASSUME IInv, UNCHANGED <<store, content, accepted>>,
           exposed' = [exposed EXCEPT !["stranded"] = @ \cup ContentOf(request.items)]
    PROVE  AbstractNext
  <1>1. Handed' = Handed /\ ContentOf(store)' = ContentOf(store)
    BY DEF Handed, ContentOf
  <1>2. Untracked' = Untracked
        /\ exposed'["stranded"] = exposed["stranded"] \cup ContentOf(request.items)
    BY DEF IInv, TypeOK, Untracked, Causes
  <1>3. Exposed' = Exposed \cup ContentOf(request.items)
    BY <1>2, ExposedParts
  <1>4. ContentOf(request.items) \subseteq ContentOf(store)
    BY InContentOf DEF IInv, WrittenInv, Written
  <1>5. ContentOf(store) \in SUBSET Records
    BY ContentOfTyped DEF IInv, TypeOK
  <1>6. QED
    BY <1>1, <1>3, <1>4, <1>5, ExposeStep

LEMMA RollBackRefines ==
    ASSUME IInv, RollBack, UNCHANGED <<store, content, accepted>>
    PROVE  AbstractNext
  <1>1. Handed' = Handed /\ ContentOf(store)' = ContentOf(store)
    BY DEF Handed, ContentOf
  <1>2. /\ exposed'["late"] = exposed["late"]
        /\ exposed'["drained"] = exposed["drained"] \cup ContentOf(Files(Written))
        /\ exposed'["stranded"] = exposed["stranded"] \ ContentOf(store)
    BY DEF IInv, TypeOK, RollBack, Causes
  <1>3. ContentOf(Files(Written)) \subseteq ContentOf(store)
    BY InContentOf DEF Files, Written
  <1>4. Exposed' \ ContentOf(store) = Exposed \ ContentOf(store)
    BY <1>2, <1>3, ExposedParts DEF Untracked
  <1>5. ContentOf(store) \in SUBSET Records
    BY ContentOfTyped DEF IInv, TypeOK
  <1>6. QED
    BY <1>1, <1>4, <1>5, ExposeStep

LEMMA EvaluateSuccessRefines ==
    ASSUME IInv, EvaluateSuccess
    PROVE  AbstractNext
  <1>1. /\ answer = "MCL_OK" /\ store' = store \ Written
        /\ UNCHANGED <<content, accepted, exposed>>
    BY DEF EvaluateSuccess, UpdateAndClear
  <1>2. Handed' = Handed /\ Exposed' = Exposed /\ ContentOf(store)' = ContentOf(store')
    BY <1>1 DEF Handed, ContentOf, Exposed
  <1>3. Written \subseteq store /\ Written \subseteq Items /\ store \subseteq Items
    BY DEF IInv, TypeOK, Written
  <1>4. ContentOf(Written) \in SUBSET Records
    BY <1>3, ContentOfTyped DEF IInv
  <1>5. ContentOf(store') = ContentOf(store) \ ContentOf(Written)
    <2>1. \A i \in store', j \in Written : content[i] \cap content[j] = {}
      BY <1>1, <1>3 DEF IInv, StoreInv
    <2>2. QED
      BY <1>1, <1>3, <2>1, InContentOf
  <1>6. ContentOf(Written) \subseteq accepted \cup Exposed
    BY <1>1, InContentOf, ExposedParts DEF IInv, WrittenInv, CallInv
  <1>7. QED
    BY <1>1, <1>2, <1>4, <1>5, <1>6, ReleaseStep

LEMMA ServerRefines ==
    ASSUME IInv, ServerAnswers \/ ServerAcceptsLate
    PROVE  AbstractNext
  <1>1. UNCHANGED <<store, content, exposed>>
    BY DEF ServerAnswers, ServerAccepts, ServerRefuses, ServerAcceptsLate, storeVars
  <1>2. Handed' = Handed /\ Exposed' = Exposed /\ ContentOf(store)' = ContentOf(store)
    BY <1>1 DEF Handed, ContentOf, Exposed
  <1>3. CASE ServerAccepts
    <2>1. request.records \in SUBSET Records /\ request.records \subseteq Handed
      BY InContentOf DEF IInv, TypeOK, WrittenInv, Written, Handed
    <2>2. QED
      BY <1>2, <1>3, <2>1, AcceptStep DEF ServerAccepts, AcceptBody
  <1>4. CASE ServerRefuses
    BY <1>2, <1>4, StutterStep DEF ServerRefuses
  <1>5. CASE ServerAcceptsLate
    <2>1. PICK R \in orphans : accepted' = accepted \cup R
      BY <1>5 DEF ServerAcceptsLate, AcceptBody
    <2>2. R \in SUBSET Records /\ R \subseteq Handed
      BY DEF IInv, TypeOK, AcceptedInv
    <2>3. QED
      BY <1>2, <2>1, <2>2, AcceptStep
  <1>6. QED
    BY <1>3, <1>4, <1>5 DEF ServerAnswers

\* The store and exchange keep the promise of Delivery: whatever fails, records
\* are released only when accepted or lost track of.
THEOREM Implements == Spec => ImplementsDelivery
  <1>1. Init => AbstractDelivery!Init
    BY DEF Init, AbstractDelivery!Init, Handed, ContentOf, Exposed
  <1>2. IInv /\ [Next]_vars => [AbstractDelivery!Next]_AbstractDelivery!vars
    <2> SUFFICES ASSUME IInv, [Next]_vars PROVE AbstractNext
      BY DEF AbstractNext
    <2>1. CASE ApplicationStep
      BY <2>1, ApplicationRefines
    <2>2. CASE EvaluateSuccess
      BY <2>2, EvaluateSuccessRefines
    <2>3. CASE EvaluateFailure \/ NoAnswer
      BY <2>3, RollBackRefines DEF EvaluateFailure, NoAnswer
    <2>4. CASE ServerAnswers \/ ServerAcceptsLate
      BY <2>4, ServerRefines
    <2>5. CASE ExchangeStep \/ Call \/ UNCHANGED vars
      <3>1. CASE EvaluateStep
        BY <2>2, <2>3, <3>1 DEF EvaluateStep
      <3>2. CASE ~EvaluateStep
        <4>1. UNCHANGED <<store, content, accepted>>
          BY <2>5, <3>2 DEF ExchangeStep, Begin, FillStep, AddCurrent, SkipCurrent,
             PrepareFails, AddFails, EndOfList, FinishStep, Send, FinalizeFails,
             CorrelationIdFails, Call, vars, storeVars, serverVars
        <4>2. \/ exposed' = exposed
              \/ exposed' = [exposed EXCEPT !["stranded"] = @ \cup ContentOf(request.items)]
          BY <2>5, <3>2 DEF ExchangeStep, Begin, FillStep, AddCurrent, SkipCurrent,
             PrepareFails, AddFails, EndOfList, FinishStep, Send, FinalizeFails,
             CorrelationIdFails, Call, vars, LoopEnds, ReturnUnsent
        <4>3. CASE exposed' = exposed
          BY <4>1, <4>3, StutterStep DEF Handed, ContentOf, Exposed
        <4>4. QED
          BY <4>1, <4>2, <4>3, ReturnUnsentRefines
      <3>3. QED
        BY <3>1, <3>2
    <2>6. QED
      BY <2>1, <2>2, <2>3, <2>4, <2>5 DEF Next
  <1>3. QED
    BY <1>1, <1>2, InvariantHolds, PTL DEF Spec, ImplementsDelivery, AbstractDelivery!Spec

-----------------------------------------------------------------------------
(***************************************************************************)
(* A call of exchange ends.  Its outer loop goes round once per request,   *)
(* its inner one once per pass over the list; both end because there is    *)
(* less left to do after each of their steps.                              *)
(***************************************************************************)

\* What a call has still to do: the items in the store, those of them that are in no
\* request yet, how far the current request is, and the rest of the pass over the list.
Unwritten == {i \in store : NotWritten(i)}
Stage == IF phase = "begin" THEN 5
         ELSE IF phase = "fill" THEN (IF added_any THEN 4 ELSE 3)
         ELSE IF phase = "finish" THEN 2
         ELSE IF answer = "none" THEN 1 ELSE 0
Ahead == IF node = NULL THEN {} ELSE {j \in store : node <= j}

\* A proper part of a set.
Less(S, T) == S \subseteq T /\ S # T

Nearer ==
    \/ Less(store', store)
    \/ store' = store /\ Less(Unwritten', Unwritten)
    \/ store' = store /\ Unwritten' = Unwritten /\ Stage' < Stage
    \/ store' = store /\ Unwritten' = Unwritten /\ Stage' = Stage /\ Less(Ahead', Ahead)

\* The same as a number.
Places == MaxItems + 1
StepsLeft ==
    ((Cardinality(store) * Places + Cardinality(Unwritten)) * 6 + Stage) * Places + Cardinality(Ahead)

\* A request that is finished has an item in it, so that its success takes one from
\* the store.
RequestHasItems == added_any_at_all \/ phase \in {"finish", "wait"} => request.items # {}

LEMMA RequestHasItemsIsKept == IInv /\ RequestHasItems /\ [Next]_vars => RequestHasItems'
  <1> SUFFICES ASSUME IInv, RequestHasItems, [Next]_vars
               PROVE  RequestHasItems'
    OBVIOUS
  <1>1. request \in [offset : Nat, items : SUBSET Items, records : SUBSET Records]
    BY DEF IInv, TypeOK
  <1>2. CASE phase' = "idle" /\ added_any_at_all' = FALSE
    BY <1>2 DEF RequestHasItems
  <1>3. CASE /\ request' = request /\ added_any_at_all' = added_any_at_all
             /\ \/ phase' = phase \/ phase' \in {"idle", "begin", "fill"}
                \/ phase' = "finish" /\ added_any_at_all
    BY <1>3 DEF RequestHasItems
  <1>4. CASE AddCurrent
    BY <1>4 DEF AddCurrent, RequestHasItems
  <1>5. CASE Send
    <2>1. request'.items = request.items /\ phase = "finish" /\ added_any_at_all' = added_any_at_all
      BY <1>1, <1>5 DEF Send
    <2> QED
      BY <2>1 DEF RequestHasItems
  <1>6. CASE EvaluateSuccess
    BY <1>6 DEF EvaluateSuccess, RequestAgain, Return, RequestHasItems
  <1>7. CASE ApplicationStep \/ ServerAnswers \/ ServerAcceptsLate \/ Call \/ UNCHANGED vars
    BY <1>3, <1>7 DEF ApplicationStep, ServerAnswers, ServerAccepts, ServerRefuses, ServerAcceptsLate, Call,
                      vars, callVars
  <1>8. CASE Begin \/ SkipCurrent \/ PrepareFails \/ AddFails \/ EndOfList
    BY <1>2, <1>3, <1>8 DEF Begin, SkipCurrent, PrepareFails, AddFails, EndOfList, LoopEnds, ReturnUnsent, Return
  <1>9. CASE FinalizeFails \/ CorrelationIdFails \/ EvaluateFailure \/ NoAnswer
    BY <1>2, <1>9 DEF FinalizeFails, CorrelationIdFails, EvaluateFailure, NoAnswer, ReturnUnsent, Return
  <1> QED
    BY <1>4, <1>5, <1>6, <1>7, <1>8, <1>9 DEF Next, ExchangeStep, FillStep, FinishStep, EvaluateStep

\* The next item of the list is behind the current one.
LEMMA FollowingIsAhead ==
    ASSUME IInv, node # NULL, node' \in Following(node), store' = store
    PROVE  Less(Ahead', Ahead)
  <1>1. node \in store /\ store \subseteq Items /\ Items \subseteq Nat /\ NULL \notin Items
    BY ExchangeAssumptions DEF IInv, CallInv, TypeOK, Items, NULL
  <1>2. node \in Ahead
    BY <1>1 DEF Ahead
  <1>3. CASE node' = NULL
    BY <1>2, <1>3 DEF Ahead, Less
  <1>4. CASE node' # NULL
    <2>1. node' \in store /\ node < node'
      BY <1>4 DEF Following, NodesAfter
    <2>2. \A j \in store : node' <= j => node <= j
      BY <1>1, <2>1
    <2>3. Ahead' = {j \in store : node' <= j} /\ Ahead = {j \in store : node <= j}
      BY <1>4 DEF Ahead
    <2>4. ~(node' <= node)
      BY <1>1, <2>1
    <2> QED
      BY <1>2, <2>2, <2>3, <2>4 DEF Less
  <1> QED
    BY <1>3, <1>4

\* Preparing an item does not write it.
LEMMA PreparedIsUnwritten ==
    ASSUME IInv, node \in store, store' = store,
           \/ state' = [state EXCEPT ![node] = IF @ = "INITIAL" THEN "PREPARED" ELSE @]
           \/ state' = [state EXCEPT ![node] = "PREPARED"] /\ NotWritten(node)
    PROVE  Unwritten' = Unwritten
  <1>1. store \subseteq Items /\ DOMAIN state = Items
    BY DEF IInv, TypeOK
  <1>2. \A i \in store : NotWritten(i)' <=> NotWritten(i)
    BY <1>1 DEF NotWritten
  <1> QED
    BY <1>2 DEF Unwritten

LEMMA FillingLeadsOn ==
    ASSUME IInv, Begin \/ FillStep
    PROVE  phase' = "idle" \/ Nearer
  <1>1. CASE Begin
    <2>1. CASE phase' = "idle"
      BY <2>1
    <2>2. CASE phase' = "fill" /\ phase = "begin"
      <3>1. Unwritten' = Unwritten /\ store' = store
        BY <1>1 DEF Begin, storeVars, Unwritten, NotWritten
      <3>2. Stage' < Stage
        BY <2>2 DEF Stage
      <3> QED
        BY <3>1, <3>2 DEF Nearer
    <2> QED
      BY <1>1, <2>1, <2>2 DEF Begin, ReturnUnsent, Return
  <1>2. CASE AddCurrent
    <2>1. /\ node \in store /\ store' = store /\ store \subseteq Items /\ DOMAIN state = Items
          /\ NotWritten(node) /\ state' = [state EXCEPT ![node] = "WRITTEN"]
      BY <1>2 DEF AddCurrent, IInv, CallInv, TypeOK
    <2>2. node \in Unwritten /\ node \notin Unwritten'
      BY <2>1 DEF Unwritten, NotWritten
    <2>3. Unwritten' \subseteq Unwritten
      BY <2>1 DEF Unwritten, NotWritten
    <2> QED
      BY <2>1, <2>2, <2>3 DEF Nearer, Less
  <1>3. CASE SkipCurrent
    <2>1. /\ node # NULL /\ node \in store /\ node' \in Following(node) /\ store' = store
          /\ state' = [state EXCEPT ![node] = IF @ = "INITIAL" THEN "PREPARED" ELSE @]
          /\ phase' = phase /\ added_any' = added_any /\ answer' = answer
      BY <1>3 DEF SkipCurrent, IInv, CallInv, serverVars
    <2>2. Unwritten' = Unwritten
      BY <2>1, PreparedIsUnwritten
    <2>3. Less(Ahead', Ahead)
      BY <2>1, FollowingIsAhead
    <2>4. Stage' = Stage
      BY <2>1 DEF Stage
    <2> QED
      BY <2>1, <2>2, <2>3, <2>4 DEF Nearer
  <1>4. ASSUME phase = "fill", LoopEnds
        PROVE  phase' = "idle" \/ Stage' < Stage
    BY <1>4 DEF LoopEnds, ReturnUnsent, Return, Stage
  <1>5. CASE PrepareFails
    BY <1>5 DEF PrepareFails, ReturnUnsent, Return
  <1>6. CASE AddFails
    <2>1. /\ node \in store /\ store' = store /\ NotWritten(node) /\ phase = "fill" /\ LoopEnds
          /\ state' = [state EXCEPT ![node] = "PREPARED"]
      BY <1>6 DEF AddFails, IInv, CallInv
    <2>2. Unwritten' = Unwritten
      BY <2>1, PreparedIsUnwritten
    <2> QED
      BY <1>4, <2>1, <2>2 DEF Nearer
  <1>7. CASE EndOfList
    <2>1. Unwritten' = Unwritten /\ store' = store
      BY <1>7 DEF EndOfList, storeVars, Unwritten, NotWritten
    <2>2. CASE added_any
      <3>1. Stage' < Stage
        BY <1>7, <2>2 DEF EndOfList, Stage
      <3> QED
        BY <2>1, <3>1 DEF Nearer
    <2>3. CASE ~added_any
      BY <1>4, <1>7, <2>1, <2>3 DEF EndOfList, Nearer
    <2> QED
      BY <2>2, <2>3
  <1> QED
    BY <1>1, <1>2, <1>3, <1>5, <1>6, <1>7 DEF FillStep

LEMMA SendingLeadsOn ==
    ASSUME IInv, RequestHasItems, FinishStep \/ EvaluateStep \/ NoAnswer \/ ServerAnswers
    PROVE  phase' = "idle" \/ Nearer
  <1>1. CASE Send \/ ServerAnswers
    <2>1. Unwritten' = Unwritten /\ store' = store
      BY <1>1 DEF Send, ServerAnswers, ServerAccepts, ServerRefuses, storeVars, Unwritten, NotWritten
    <2>2. Stage' < Stage
      BY <1>1, ExchangeAssumptions DEF Send, ServerAnswers, ServerAccepts, ServerRefuses, callVars, Stage
    <2> QED
      BY <2>1, <2>2 DEF Nearer
  <1>2. CASE EvaluateSuccess
    <2>1. phase = "wait" /\ store' = store \ Written
      BY <1>2 DEF EvaluateSuccess, UpdateAndClear
    <2>2. request.items # {} /\ request.items \subseteq Written /\ Written \subseteq store
      BY <2>1 DEF RequestHasItems, IInv, WrittenInv, Written
    <2>3. Less(store', store)
      BY <2>1, <2>2 DEF Less
    <2> QED
      BY <2>3 DEF Nearer
  <1>3. CASE FinalizeFails \/ CorrelationIdFails \/ EvaluateFailure \/ NoAnswer
    BY <1>3 DEF FinalizeFails, CorrelationIdFails, EvaluateFailure, NoAnswer, ReturnUnsent, Return
  <1> QED
    BY <1>1, <1>2, <1>3 DEF FinishStep, EvaluateStep

-----------------------------------------------------------------------------
(* The steps left are a number.                                            *)

\* A digit more or less of a number that has four of them.
LEMMA LessInFront ==
    ASSUME NEW n \in Nat, NEW x \in Nat, NEW y \in Nat, NEW d \in 0..n, NEW e \in Nat, x < y
    PROVE  x * (n + 1) + d < y * (n + 1) + e
  <1>1. y - x - 1 \in Nat /\ y = x + 1 + (y - x - 1)
    OBVIOUS
  <1>2. ASSUME NEW k \in Nat, y = x + 1 + k
        PROVE  x * (n + 1) + d < y * (n + 1) + e
    <2>1. (x + 1 + k) * (n + 1) = x * (n + 1) + (n + 1) + k * (n + 1)
      OBVIOUS
    <2>2. k * (n + 1) \in Nat /\ x * (n + 1) \in Nat
      OBVIOUS
    <2>3. \A a, b \in Nat : a + d < a + (n + 1) + b + e
      OBVIOUS
    <2> QED
      BY <1>2, <2>1, <2>2, <2>3
  <1> QED
    BY <1>1, <1>2

LEMMA PartsAreCounted ==
    ASSUME NEW S \in SUBSET Items
    PROVE  /\ Cardinality(S) \in 0..MaxItems
           /\ \A T : Less(T, S) => Cardinality(T) < Cardinality(S)
  <1>1. MaxItems \in Nat /\ IsFiniteSet(Items) /\ Cardinality(Items) = MaxItems
    BY ExchangeAssumptions, FS_Interval DEF Items
  <1>2. IsFiniteSet(S) /\ Cardinality(S) \in Nat /\ Cardinality(S) <= MaxItems
    BY <1>1, FS_Subset, FS_CardinalityType
  <1>3. \A T : Less(T, S) => Cardinality(T) < Cardinality(S)
    BY <1>2, FS_Subset, FS_CardinalityType DEF Less
  <1> QED
    BY <1>1, <1>2, <1>3

\* For the numbers of two states: a number in front counts more than all behind it.
Digits(a, b, c, d) == ((a * Places + b) * 6 + c) * Places + d

LEMMA DigitsInOrder ==
    ASSUME NEW a \in 0..MaxItems, NEW b \in 0..MaxItems, NEW c \in 0..5, NEW d \in 0..MaxItems,
           NEW a1 \in 0..MaxItems, NEW b1 \in 0..MaxItems, NEW c1 \in 0..5, NEW d1 \in 0..MaxItems,
           \/ a1 < a
           \/ a1 = a /\ b1 < b
           \/ a1 = a /\ b1 = b /\ c1 < c
           \/ a1 = a /\ b1 = b /\ c1 = c /\ d1 < d
    PROVE  Digits(a1, b1, c1, d1) < Digits(a, b, c, d)
  <1> DEFINE x == a * Places + b
             x1 == a1 * Places + b1
             y == x * 6 + c
             y1 == x1 * 6 + c1
  <1>1. MaxItems \in Nat /\ Places = MaxItems + 1 /\ Places \in Nat
    BY ExchangeAssumptions DEF Places
  <1>2. x \in Nat /\ x1 \in Nat
    BY <1>1
  <1>3. x1 < x \/ (x1 = x /\ (c1 < c \/ (c1 = c /\ d1 < d)))
    <2>0. a \in Int /\ a1 \in Int /\ b \in Int /\ b1 \in Int /\ c \in Int /\ c1 \in Int
      BY <1>1
    <2>1. ASSUME a1 < a
          PROVE  x1 < x
      <3>1. a1 * (MaxItems + 1) + b1 < a * (MaxItems + 1) + b
        BY <1>1, <2>1, LessInFront
      <3> QED
        BY <1>1, <3>1
    <2>2. ASSUME a1 = a, b1 < b
          PROVE  x1 < x
      <3>1. a * Places \in Nat /\ b \in Nat /\ b1 \in Nat /\ x1 = a * Places + b1
        BY <1>1, <2>2
      <3>2. \A m, p, q \in Nat : p < q => m + p < m + q
        OBVIOUS
      <3> QED
        BY <2>2, <3>1, <3>2
    <2>3. ASSUME a1 = a, b1 = b
          PROVE  x1 = x
      BY <2>3
    <2> HIDE DEF x, x1
    <2> QED
      BY <2>0, <2>1, <2>2, <2>3
  <1> HIDE DEF x, x1
  <1>4. y \in Nat /\ y1 \in Nat /\ (y1 < y \/ (y1 = y /\ d1 < d))
    <2>1. c \in 0..5 /\ c1 \in 0..5
      OBVIOUS
    <2>2. \A m, n \in Nat : m < n => m * 6 + c1 < n * 6 + c
      BY <2>1
    <2>3. \A m \in Nat : c1 < c => m * 6 + c1 < m * 6 + c
      BY <2>1
    <2> QED
      BY <1>2, <1>3, <2>1, <2>2, <2>3
  <1>5. Digits(a1, b1, c1, d1) = y1 * Places + d1 /\ Digits(a, b, c, d) = y * Places + d
    BY DEF Digits, x, x1
  <1> HIDE DEF y, y1
  <1>6. y1 * Places + d1 < y * Places + d
    <2>1. CASE y1 < y
      BY <1>1, <1>4, <2>1, LessInFront
    <2>2. CASE y1 = y /\ d1 < d
      <3>1. y * Places \in Nat
        BY <1>1, <1>4
      <3>2. \A m, p, q \in Nat : p < q => m + p < m + q
        OBVIOUS
      <3> QED
        BY <2>2, <3>1, <3>2
    <2> QED
      BY <1>4, <2>1, <2>2
  <1> QED
    BY <1>5, <1>6

LEMMA StepsLeftInDigits ==
    ASSUME TypeOK
    PROVE  /\ StepsLeft = Digits(Cardinality(store), Cardinality(Unwritten), Stage, Cardinality(Ahead))
           /\ store \in SUBSET Items /\ Unwritten \in SUBSET Items /\ Ahead \in SUBSET Items
           /\ Stage \in 0..5
  BY DEF TypeOK, StepsLeft, Digits, Unwritten, Ahead, Stage

LEMMA NearerHasFewerSteps ==
    ASSUME TypeOK, TypeOK', Nearer
    PROVE  StepsLeft' < StepsLeft
  <1> DEFINE a == Cardinality(store)
             b == Cardinality(Unwritten)
             d == Cardinality(Ahead)
  <1>1. /\ StepsLeft = Digits(a, b, Stage, d) /\ Stage \in 0..5
        /\ store \in SUBSET Items /\ Unwritten \in SUBSET Items /\ Ahead \in SUBSET Items
    BY StepsLeftInDigits
  <1>2. /\ StepsLeft' = Digits(a', b', Stage', d') /\ Stage' \in 0..5
        /\ store' \in SUBSET Items /\ Unwritten' \in SUBSET Items /\ Ahead' \in SUBSET Items
    BY DEF TypeOK, StepsLeft, Digits, Unwritten, Ahead, Stage
  <1>3. /\ a \in 0..MaxItems /\ b \in 0..MaxItems /\ d \in 0..MaxItems
        /\ a' \in 0..MaxItems /\ b' \in 0..MaxItems /\ d' \in 0..MaxItems
    BY <1>1, <1>2, PartsAreCounted
  <1>4. \/ a' < a
        \/ a' = a /\ b' < b
        \/ a' = a /\ b' = b /\ Stage' < Stage
        \/ a' = a /\ b' = b /\ Stage' = Stage /\ d' < d
    BY <1>1, <1>2, PartsAreCounted DEF Nearer
  <1> HIDE DEF a, b, d
  <1> QED
    BY <1>1, <1>2, <1>3, <1>4, DigitsInOrder

\* Where a call is, the steps it has left are bounded by its items.
LEMMA StepsLeftIsBounded ==
    ASSUME TypeOK
    PROVE  StepsLeft \in 0..6 * (Places * Places) * Places
  <1> DEFINE a == Cardinality(store)
             b == Cardinality(Unwritten)
             d == Cardinality(Ahead)
             x == a * Places + b
             y == x * 6 + Stage
  <1>1. MaxItems \in Nat /\ Places = MaxItems + 1 /\ Places \in Nat
    BY ExchangeAssumptions DEF Places
  <1>2. a \in 0..MaxItems /\ b \in 0..MaxItems /\ d \in 0..MaxItems /\ Stage \in 0..5
    BY StepsLeftInDigits, PartsAreCounted
  <1> HIDE DEF a, b, d
  <1>3. x \in Nat /\ Places * Places \in Nat /\ x < Places * Places
    <2>1. a * (MaxItems + 1) + b < (MaxItems + 1) * (MaxItems + 1) + 0
      BY <1>1, <1>2, LessInFront
    <2>2. x \in Nat /\ Places * Places \in Nat
      BY <1>1, <1>2
    <2> QED
      BY <1>1, <2>1, <2>2
  <1> HIDE DEF x
  <1>4. y \in Nat /\ y < 6 * (Places * Places)
    BY <1>2, <1>3
  <1> HIDE DEF y
  <1>5. y * Places + d < 6 * (Places * Places) * Places
    <2>1. 6 * (Places * Places) \in Nat
      BY <1>3
    <2>2. y * (MaxItems + 1) + d < 6 * (Places * Places) * (MaxItems + 1) + 0
      BY <1>1, <1>2, <1>4, <2>1, LessInFront
    <2>3. 6 * (Places * Places) * (MaxItems + 1) + 0 = 6 * (Places * Places) * Places
      BY <1>1, <2>1
    <2> QED
      BY <1>1, <2>2, <2>3
  <1>6. y * Places + d \in Nat /\ 6 * (Places * Places) * Places \in Nat
    BY <1>1, <1>2, <1>3, <1>4
  <1>7. StepsLeft = y * Places + d
    BY DEF StepsLeft, a, b, d, x, y
  <1> QED
    BY <1>5, <1>6, <1>7

\* A step taken during a call of exchange, or by the network or the server it waits for,
\* ends the call or leaves fewer steps to do; a late arrival of a request that was given
\* up changes nothing of the call.
StepsOfACallAreFew ==
    phase # "idle" =>
        \/ phase' = "idle"
        \/ StepsLeft' < StepsLeft
        \/ UNCHANGED <<storeVars, callVars, answer>>

\* A call of exchange ends after at most 6 * (MaxItems + 1)^3 steps, those of the network
\* and the server that it waits for included, whatever fails and whatever the server
\* answers: http_processor_exchange and the passes of its helpers cannot loop for ever.
THEOREM CallsAreBounded ==
    Spec => /\ []((phase # "idle") => StepsLeft \in 0..6 * (Places * Places) * Places)
            /\ [][StepsOfACallAreFew]_vars
  <1>1. Init => RequestHasItems
    BY DEF Init, RequestHasItems
  <1>2. IInv => ((phase # "idle") => StepsLeft \in 0..6 * (Places * Places) * Places)
    BY StepsLeftIsBounded DEF IInv
  <1>3. IInv /\ IInv' /\ RequestHasItems /\ [Next]_vars => [StepsOfACallAreFew]_vars
    <2> SUFFICES ASSUME IInv, IInv', RequestHasItems, [Next]_vars, phase # "idle", phase' # "idle",
                        ~UNCHANGED <<storeVars, callVars, answer>>
                 PROVE  StepsLeft' < StepsLeft
      BY DEF StepsOfACallAreFew
    <2>1. ~(ApplicationStep \/ Call \/ ServerAcceptsLate \/ UNCHANGED vars)
      BY DEF ApplicationStep, Call, ServerAcceptsLate, vars, serverVars
    <2>2. ExchangeStep \/ NoAnswer \/ ServerAnswers
      BY <2>1 DEF Next
    <2>3. Nearer
      BY <2>2, FillingLeadsOn, SendingLeadsOn DEF ExchangeStep
    <2> QED
      BY <2>3, NearerHasFewerSteps DEF IInv
  <1> QED
    BY <1>1, <1>2, <1>3, InvariantHolds, RequestHasItemsIsKept, PTL DEF Spec

=============================================================================
