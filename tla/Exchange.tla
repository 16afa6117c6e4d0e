------------------------------ MODULE Exchange ------------------------------
(***************************************************************************)
(* The store and the exchange operation: store.c, and the _exchange_xxx    *)
(* functions of http_processor.c.                                          *)
(*                                                                         *)
(* An application puts items in a store and calls exchange.  Exchange      *)
(* repeats: build one HTTP request from as many items as fit, send it,     *)
(* evaluate the answer, until the store is empty or something fails.  An   *)
(* item goes INITIAL -> PREPARED (its payload is composed) -> WRITTEN (its *)
(* payload is in the current request) -> SENT (and is removed), or back to *)
(* PREPARED when the request fails.                                        *)
(*                                                                         *)
(* The data of an item is the set of the RECORDS the application put into  *)
(* it: events of an event list, value sets of a time series, data sources  *)
(* of a configuration, the bytes of a file or of a custom payload.         *)
(*                                                                         *)
(* store_data_t handles are numbered in the order of _store_add_data.      *)
(* list_add appends and nothing reorders a list, so that the order of the  *)
(* numbers is the order of the list; NULL is the end of the list.          *)
(***************************************************************************)
EXTENDS HttpRequestSizes, FiniteSets

CONSTANTS
    Records,        \* what an application can hand over
    EventVersions,  \* the event versions in use ("1.0", "2.0" in store.c)
    Kinds,          \* the kinds of items in use
    MaxItems,       \* bound: items put into the store
    MaxPayload,     \* configuration->max_http_payload_size
    TextLength,     \* bytes of an item's meta, content types and payload
    Codes,          \* result codes other than MCL_OK the server may answer with
    Faults          \* what may fail besides: see each use

ItemKinds == {"time_series", "file", "custom"} \cup EventVersions
Causes == {"late", "drained", "stranded"}

ASSUME ExchangeAssumptions ==
    /\ MaxItems \in Nat
    /\ MaxPayload \in Nat
    /\ Kinds \subseteq ItemKinds
    /\ EventVersions \cap {"time_series", "file", "custom"} = {}
    /\ TextLength \in [SUBSET Records -> Nat]
    /\ \A R, S \in SUBSET Records : R \subseteq S => TextLength[R] <= TextLength[S]
    /\ Codes \cap {"none", "MCL_OK"} = {}
    /\ Faults \subseteq {"initialize", "prepare", "event", "add", "finish", "network"}

NULL == 0
Items == 1..MaxItems
States == {"INITIAL", "PREPARED", "WRITTEN", "SENT"}
Phases == {"idle", "begin", "fill", "finish", "wait"}
Results == {"none", "MCL_OK", "MCL_FAIL", "MCL_STORE_IS_EMPTY", "MCL_REQUEST_TIMEOUT",
            "MCL_STORE_ITEM_EXCEEDS_MAX_HTTP_REQUEST_SIZE",
            "MCL_HTTP_REQUEST_FINALIZE_FAILED"} \cup Codes

VARIABLES
    \* The store.
    created,            \* number of items ever added
    store,              \* items in high_priority_list
    kind,               \* store_data->type
    state,              \* store_data->state
    content,            \* the records the application put into the item
    payload,            \* the records a copy of the payload would yield now
    \* One call of http_processor_exchange.
    phase,              \* where the call is; "idle" between calls
    node,               \* current_list_node
    added_any,          \* as in _exchange_fill_http_request
    added_any_at_all,
    request,            \* payload_offset, items and records of the http_request_t
    result,             \* what the last call returned
    \* The network and the server.
    answer,             \* the response to the request that was sent
    orphans,            \* bodies of requests the client gave up on, still under way
    accepted,           \* records the server has accepted
    \* History, for the properties only.
    twice,              \* records the server has accepted more than once
    unanswered,         \* records of requests that went without an answer
    exposed             \* records the library lost track of, by cause

storeVars == <<created, store, kind, state, content, payload>>
callVars == <<phase, node, added_any, added_any_at_all, request, result>>
serverVars == <<answer, orphans, accepted, twice, unanswered>>
vars == <<storeVars, callVars, serverVars, exposed>>

EmptyRequest == [offset |-> 0, items |-> {}, records |-> {}]

\* All the records in a set of items.
ContentOf(S) == UNION {content[i] : i \in S}

Files(S) == {i \in S : kind[i] = "file"}

\* Everything that was ever put into an item of the store.
Handed == ContentOf(Items)

Exposed == UNION {exposed[c] : c \in Causes}

Init ==
    /\ created = 0
    /\ store = {}
    /\ kind = [i \in Items |-> "custom"]
    /\ state = [i \in Items |-> "INITIAL"]
    /\ content = [i \in Items |-> {}]
    /\ payload = [i \in Items |-> {}]
    /\ phase = "idle"
    /\ node = NULL
    /\ added_any = FALSE
    /\ added_any_at_all = FALSE
    /\ request = EmptyRequest
    /\ result = "none"
    /\ answer = "none"
    /\ orphans = {}
    /\ accepted = {}
    /\ twice = {}
    /\ unanswered = {}
    /\ exposed = [c \in Causes |-> {}]

-----------------------------------------------------------------------------
(***************************************************************************)
(* The application, between two calls of exchange.  Exchange runs on the   *)
(* caller's thread and the store has no lock.                              *)
(***************************************************************************)

\* _store_add_data, with the records the new item holds at once.  A file is
\* not read when it is added: its payload is whatever its descriptor, opened
\* at its start, yields.
StoreAddData(k, R) ==
    /\ created < MaxItems
    /\ created' = created + 1
    /\ store' = store \cup {created'}
    /\ kind' = [kind EXCEPT ![created'] = k]
    /\ state' = [state EXCEPT ![created'] = "INITIAL"]
    /\ content' = [content EXCEPT ![created'] = R]
    /\ payload' = [payload EXCEPT ![created'] = IF k = "file" THEN R ELSE {}]
    /\ UNCHANGED exposed

\* A record is added to the data of an item that is in the store already.
\* Nothing looks at the state of the item: when its payload has been composed
\* before, the payload stays as it is.
AddRecord(i, r) ==
    /\ content' = [content EXCEPT ![i] = @ \cup {r}]
    /\ exposed' = IF state[i] = "INITIAL" THEN exposed
                  ELSE [exposed EXCEPT !["late"] = @ \cup {r}]
    /\ UNCHANGED <<created, store, kind, state, payload>>

\* mcl_store_new_time_series, mcl_store_new_data_source_configuration.
NewTimeSeries ==
    /\ "time_series" \in Kinds
    /\ StoreAddData("time_series", {})

\* mcl_time_series_new_value_set, mcl_data_source_configuration_add_data_source.
NewValueSet(r) ==
    \E i \in store :
        /\ kind[i] = "time_series"
        /\ AddRecord(i, r)

\* mcl_store_new_custom_data, and mcl_custom_data_set_payload, called once.
NewCustomData ==
    /\ "custom" \in Kinds
    /\ StoreAddData("custom", {})

SetPayload(r) ==
    \E i \in store :
        /\ kind[i] = "custom" /\ content[i] = {}
        /\ AddRecord(i, r)

\* mcl_store_new_file.
NewFile(r) ==
    /\ "file" \in Kinds
    /\ StoreAddData("file", {r})

\* The event lists of a version that list_exist can find.
EventLists(version) == {i \in store : kind[i] = version}

\* Mutant of NewEvent: the store is not searched for an event list.
NewEventWithoutSearch(version, r) ==
    /\ version \in Kinds
    /\ StoreAddData(version, {r})

\* mcl_store_new_event: events of one version share one item of the store.
NewEvent(version, r) ==
    /\ version \in Kinds
    /\ \/ /\ EventLists(version) = {}
          /\ StoreAddData(version, {r})
       \/ \E i \in EventLists(version) :
            /\ \A j \in EventLists(version) : i <= j
            /\ AddRecord(i, r)

\* mcl_store_new_event adds a new, still empty, event list to the store before
\* it creates the event; when that fails the list stays.
NewEventFails(version) ==
    /\ "event" \in Faults
    /\ version \in Kinds
    /\ EventLists(version) = {}
    /\ StoreAddData(version, {})

ApplicationStep ==
    /\ phase = "idle"
    /\ \/ NewTimeSeries \/ NewCustomData
       \/ \E r \in Records \ Handed : NewValueSet(r) \/ SetPayload(r) \/ NewFile(r)
       \/ \E v \in EventVersions : NewEventFails(v) \/ \E r \in Records \ Handed : NewEvent(v, r)
    /\ UNCHANGED <<callVars, serverVars>>

-----------------------------------------------------------------------------
(***************************************************************************)
(* One call of http_processor_exchange.                                    *)
(***************************************************************************)

\* Mutant of NodesAfter: list_next is called twice.
NodesAfterNext(n) == {j \in store : n + 1 < j /\ \A k \in store : n + 1 < k => j <= k}

\* Mutant of Following: the end of the list is not recognised.
FollowingWithoutEnd(n) == {n + 1}

\* The node that follows n in the list, the first node when n is NULL.
NodesAfter(n) == {j \in store : n < j /\ \A k \in store : n < k => j <= k}
Following(n) == IF \A j \in store : j <= n THEN {NULL} ELSE NodesAfter(n)

\* The call returns with this code.  The request is destroyed.
Return(code) ==
    /\ phase' = "idle"
    /\ result' = code
    /\ node' = NULL
    /\ request' = EmptyRequest
    /\ added_any' = FALSE
    /\ added_any_at_all' = FALSE

\* The call returns before the request was sent.  Only the evaluation of an
\* answer updates states: items that are in the request stay WRITTEN.
ReturnUnsent(code) ==
    /\ Return(code)
    /\ exposed' = [exposed EXCEPT !["stranded"] = @ \cup ContentOf(request.items)]

Call ==
    /\ phase = "idle"
    /\ IF store = {}
         THEN /\ result' = "MCL_STORE_IS_EMPTY"
              /\ UNCHANGED <<phase, node, added_any, added_any_at_all, request>>
         ELSE /\ phase' = "begin"
              /\ result' = "none"
              /\ UNCHANGED <<node, added_any, added_any_at_all, request>>
    /\ UNCHANGED <<storeVars, serverVars, exposed>>

\* http_request_initialize and _exchange_initialize_http_request_headers.
Begin ==
    /\ phase = "begin"
    /\ \/ /\ phase' = "fill"
          /\ node' \in Following(NULL)
          /\ UNCHANGED <<added_any, added_any_at_all, request, result, exposed>>
       \/ /\ "initialize" \in Faults
          /\ ReturnUnsent("MCL_FAIL")
    /\ UNCHANGED <<storeVars, serverVars>>

\* _exchange_prepare_data composes meta and payload; the payload of a file
\* stays in the file.
ComposedPayload(i) ==
    IF state[i] = "INITIAL" /\ kind[i] # "file" THEN content[i] ELSE payload[i]

\* store_data->payload_size counts the composed payload, but the size of the
\* file when it was added, however much of it is still to be read.
TextsAsked(i) == TextLength[IF kind[i] = "file" THEN content[i] ELSE ComposedPayload(i)]
TextsCopied(i) == TextLength[ComposedPayload(i)]

\* Mutant of Fits: the space for boundaries and headers is not counted.
FitsWithoutOverhead(i) == TextsAsked(i) <= MaxPayload - request.offset

\* http_request_add_tuple finds enough space (see HttpRequest.tla for how the
\* buffer grows up to its maximum).
Fits(i) == RequiredForTuple(TextsAsked(i)) <= MaxPayload - request.offset

NotWritten(i) == state[i] \in {"INITIAL", "PREPARED"}

\* The current item is prepared if need be, and added to the request.  Copying
\* a file moves its descriptor to the end.
AddCurrent ==
    /\ phase = "fill" /\ node # NULL
    /\ NotWritten(node)
    /\ Fits(node)
    /\ state' = [state EXCEPT ![node] = "WRITTEN"]
    /\ payload' = [payload EXCEPT ![node] = IF kind[node] = "file" THEN {} ELSE ComposedPayload(node)]
    /\ request' = [offset |-> request.offset + WrittenByTuple(TextsCopied(node)),
                   items |-> request.items \cup {node},
                   records |-> request.records \cup ComposedPayload(node)]
    /\ added_any' = TRUE
    /\ added_any_at_all' = TRUE
    /\ node' \in Following(node)
    /\ UNCHANGED <<created, store, kind, content, phase, result, serverVars, exposed>>

\* Mutant of SkipCurrent: an item is WRITTEN whatever http_request_add_tuple says.
SkipCurrentAsWritten ==
    /\ phase = "fill" /\ node # NULL
    /\ NotWritten(node) => ~Fits(node)
    /\ state' = [state EXCEPT ![node] = "WRITTEN"]
    /\ payload' = [payload EXCEPT ![node] = ComposedPayload(node)]
    /\ node' \in Following(node)
    /\ UNCHANGED <<created, store, kind, content, phase, added_any, added_any_at_all,
                   request, result, serverVars, exposed>>

\* The current item is WRITTEN, or prepared and too long for what is left of
\* the request: the next one is tried.
SkipCurrent ==
    /\ phase = "fill" /\ node # NULL
    /\ NotWritten(node) => ~Fits(node)
    /\ state' = [state EXCEPT ![node] = IF @ = "INITIAL" THEN "PREPARED" ELSE @]
    /\ payload' = [payload EXCEPT ![node] = ComposedPayload(node)]
    /\ node' \in Following(node)
    /\ UNCHANGED <<created, store, kind, content, phase, added_any, added_any_at_all,
                   request, result, serverVars, exposed>>

\* Composing the current item's meta or payload fails.
PrepareFails ==
    /\ "prepare" \in Faults
    /\ phase = "fill" /\ node # NULL
    /\ state[node] = "INITIAL"
    /\ ReturnUnsent("MCL_FAIL")
    /\ UNCHANGED <<storeVars, serverVars>>

\* After the loop: a request with nothing in it is not sent.
LoopEnds ==
    IF added_any_at_all
      THEN /\ phase' = "finish"
           /\ node' = NULL
           /\ UNCHANGED <<added_any, added_any_at_all, request, result, exposed>>
      ELSE ReturnUnsent("MCL_STORE_ITEM_EXCEEDS_MAX_HTTP_REQUEST_SIZE")

\* http_request_add_tuple fails for another reason than space (no random sub
\* boundary): the loop ends, and what was added before is sent.
AddFails ==
    /\ "add" \in Faults
    /\ phase = "fill" /\ node # NULL
    /\ NotWritten(node)
    /\ state' = [state EXCEPT ![node] = "PREPARED"]
    /\ payload' = [payload EXCEPT ![node] = ComposedPayload(node)]
    /\ LoopEnds
    /\ UNCHANGED <<created, store, kind, content, serverVars>>

\* Mutant of EndOfList: added_any is not reset before the next pass.
EndOfListWithoutReset ==
    /\ phase = "fill" /\ node = NULL
    /\ IF added_any
         THEN /\ node' \in Following(NULL)
              /\ UNCHANGED <<phase, added_any, added_any_at_all, request, result, exposed>>
         ELSE LoopEnds
    /\ UNCHANGED <<storeVars, serverVars>>

\* The end of the list: once more from the start if anything was added.
EndOfList ==
    /\ phase = "fill" /\ node = NULL
    /\ IF added_any
         THEN /\ added_any' = FALSE
              /\ node' \in Following(NULL)
              /\ UNCHANGED <<phase, added_any_at_all, request, result, exposed>>
         ELSE LoopEnds
    /\ UNCHANGED <<storeVars, serverVars>>

\* http_request_finalize finds space for the closing main boundary, a
\* correlation id is generated, and the request is handed to the http client.
Send ==
    /\ phase = "finish"
    /\ FINAL_LENGTH <= MaxPayload - request.offset
    /\ phase' = "wait"
    /\ request' = [request EXCEPT !.offset = @ + FINAL_LENGTH]
    /\ answer' = "none"
    /\ UNCHANGED <<storeVars, node, added_any, added_any_at_all, result, orphans, accepted,
                   twice, unanswered, exposed>>

FinalizeFails ==
    /\ phase = "finish"
    /\ ~(FINAL_LENGTH <= MaxPayload - request.offset)
    /\ ReturnUnsent("MCL_HTTP_REQUEST_FINALIZE_FAILED")
    /\ UNCHANGED <<storeVars, serverVars>>

\* _generate_correlation_id_string or http_request_add_header fails.
CorrelationIdFails ==
    /\ "finish" \in Faults
    /\ phase = "finish"
    /\ ReturnUnsent("MCL_FAIL")
    /\ UNCHANGED <<storeVars, serverVars>>

\* Mutant of Written: the states of items are not looked at.
WrittenOrNot == store

Written == {i \in store : state[i] = "WRITTEN"}

\* Mutant of UpdateAndClear: the states are updated as after a failure.
UpdateAsFailed ==
    /\ state' = [i \in Items |-> IF i \in Written THEN "PREPARED" ELSE state[i]]
    /\ store' = store

\* _exchange_update_store_state after a success, and
\* _exchange_clear_sent_data_from_store: WRITTEN becomes SENT and is removed.
UpdateAndClear ==
    /\ state' = [i \in Items |-> IF i \in Written THEN "SENT" ELSE state[i]]
    /\ store' = store \ Written

\* Mutant of RequestAgain: one request per call.
ReturnAfterOneRequest == Return("MCL_OK")

\* The loop of http_processor_exchange: another request if anything is left.
RequestAgain ==
    IF store' = {}
      THEN Return("MCL_OK")
      ELSE /\ phase' = "begin"
           /\ node' = NULL
           /\ request' = EmptyRequest
           /\ added_any' = FALSE
           /\ added_any_at_all' = FALSE
           /\ UNCHANGED result

\* _exchange_evaluate_response: the server answered 200 OK.
EvaluateSuccess ==
    /\ phase = "wait" /\ answer = "MCL_OK"
    /\ UpdateAndClear
    /\ RequestAgain
    /\ answer' = "none"
    /\ UNCHANGED <<created, kind, content, payload, orphans, accepted, twice, unanswered, exposed>>

\* Mutant of RollBack: a failure leaves the states of the items alone.
NoRollBack == UNCHANGED <<state, exposed>>

\* _exchange_update_store_state after a failure: every WRITTEN item is PREPARED
\* again, those of an earlier unsent request included.  Nothing rewinds a file.
RollBack ==
    /\ state' = [i \in Items |-> IF i \in Written THEN "PREPARED" ELSE state[i]]
    /\ exposed' = [exposed EXCEPT
                     !["drained"] = @ \cup ContentOf(Files(Written)),
                     !["stranded"] = @ \ ContentOf(store)]

\* _exchange_evaluate_response: the server answered with another code.
EvaluateFailure ==
    /\ phase = "wait" /\ answer \in Codes
    /\ RollBack
    /\ Return(answer)
    /\ answer' = "none"
    /\ UNCHANGED <<created, store, kind, content, payload, orphans, accepted, twice, unanswered>>

\* http_client_send fails: no connection, a timeout, a response that could not
\* be read.  The request may be under way, or the server may have accepted it.
NoAnswer ==
    /\ "network" \in Faults
    /\ phase = "wait"
    /\ RollBack
    /\ Return("MCL_REQUEST_TIMEOUT")
    /\ orphans' = IF answer = "none" THEN orphans \cup {request.records} ELSE orphans
    /\ unanswered' = unanswered \cup request.records
    /\ answer' = "none"
    /\ UNCHANGED <<created, store, kind, content, payload, accepted, twice>>

FillStep == AddCurrent \/ SkipCurrent \/ PrepareFails \/ AddFails \/ EndOfList
FinishStep == Send \/ FinalizeFails \/ CorrelationIdFails
EvaluateStep == EvaluateSuccess \/ EvaluateFailure
ExchangeStep == Begin \/ FillStep \/ FinishStep \/ EvaluateStep

-----------------------------------------------------------------------------
(***************************************************************************)
(* The server: a request is accepted as a whole or not at all, and only a  *)
(* request that is accepted is answered with 200 OK.                       *)
(***************************************************************************)

AcceptBody(R) ==
    /\ accepted' = accepted \cup R
    /\ twice' = twice \cup (accepted \cap R)

ServerAccepts ==
    /\ phase = "wait" /\ answer = "none"
    /\ AcceptBody(request.records)
    /\ answer' = "MCL_OK"
    /\ UNCHANGED <<storeVars, callVars, orphans, unanswered, exposed>>

ServerRefuses ==
    /\ phase = "wait" /\ answer = "none"
    /\ answer' \in Codes
    /\ UNCHANGED <<storeVars, callVars, orphans, accepted, twice, unanswered, exposed>>

\* A request the client has given up on reaches the server after all.
ServerAcceptsLate ==
    /\ \E R \in orphans : AcceptBody(R) /\ orphans' = orphans \ {R}
    /\ UNCHANGED <<storeVars, callVars, answer, unanswered, exposed>>

ServerAnswers == ServerAccepts \/ ServerRefuses

Next ==
    \/ ApplicationStep
    \/ Call
    \/ ExchangeStep
    \/ NoAnswer
    \/ ServerAnswers
    \/ ServerAcceptsLate

Spec == Init /\ [][Next]_vars

(***************************************************************************)
(* Exchange is a sequential function: it keeps running until it returns.   *)
(* http_client_send returns too, with an answer or with libcurl's timeout. *)
(***************************************************************************)
CallFairness ==
    /\ WF_vars(ExchangeStep)
    /\ WF_vars(ServerAnswers \/ NoAnswer)

LiveSpec == Spec /\ CallFairness

(***************************************************************************)
(* An application that keeps calling exchange, and a server that accepts a *)
(* request if it is asked often enough.                                    *)
(***************************************************************************)
RetrySpec == LiveSpec /\ WF_vars(Call) /\ SF_vars(ServerAccepts) /\ SF_vars(EvaluateSuccess)

-----------------------------------------------------------------------------
(***************************************************************************)
(* Properties.                                                             *)
(***************************************************************************)

\* The types of all variables.
TypeOK ==
    /\ created \in 0..MaxItems
    /\ store \subseteq Items
    /\ kind \in [Items -> ItemKinds]
    /\ state \in [Items -> States]
    /\ content \in [Items -> SUBSET Records]
    /\ payload \in [Items -> SUBSET Records]
    /\ phase \in Phases
    /\ node \in Items \cup {NULL}
    /\ added_any \in BOOLEAN
    /\ added_any_at_all \in BOOLEAN
    /\ request \in [offset : Nat, items : SUBSET Items, records : SUBSET Records]
    /\ result \in Results
    /\ answer \in {"none", "MCL_OK"} \cup Codes
    /\ orphans \subseteq SUBSET Records
    /\ accepted \subseteq Records
    /\ twice \subseteq Records
    /\ unanswered \subseteq Records
    /\ exposed \in [Causes -> SUBSET Records]

\* An item that left the store left nothing behind: the server has accepted
\* every record the application put into it, except those that exchange lost
\* track of in one of three ways: put in after the payload was composed, in a
\* file that had been read for a request that failed, or in an item left
\* WRITTEN by a request that was never sent (store.h: SENT "can be deleted").
Removed == {i \in 1..created : i \notin store}
NothingLostUnexposed == ContentOf(Removed) \subseteq accepted \cup Exposed

\* The server accepts a record a second time only if an earlier request with
\* it got no answer: a retry after an answer never repeats what was accepted.
NoNeedlessDuplicate == twice \subseteq unanswered

\* store.h takes it for granted: what is SENT is with the server.
SentMeansAccepted == ContentOf(Removed) \subseteq accepted

\* While a request is under construction or under way, the items that will be
\* deleted when it succeeds and that are not lost track of are those whose
\* tuple is in it, with everything that was put into them.
WrittenIsInRequest ==
    /\ request.items \subseteq Written
    /\ ContentOf(Written) \subseteq request.records \cup Exposed
    /\ request.records \subseteq ContentOf(request.items)

\* What the request holds never exceeds max_http_payload_size, whatever the
\* difference between the space asked for and the space used.
RequestWithinLimit == request.offset <= MaxPayload

\* The loop over the list ends only when no item that could still be added
\* fits: one long item does not keep shorter ones out of the request.
LeftOutOnlyIfTooLong ==
    [][(phase = "fill" /\ node = NULL /\ phase' # "fill")
         => \A i \in store : NotWritten(i) => ~Fits(i)]_vars

\* Events of one version are collected in one item of the store.
OneListPerEventVersion ==
    \A v \in EventVersions : \A i, j \in EventLists(v) : i = j

\* exchange returns MCL_OK only when nothing is left in the store and all that
\* was in it is with the server, or was lost track of (README.md: after MCL_OK
\* the data is deleted from the store).
OkMeansAllExchanged ==
    [][(phase # "idle" /\ phase' = "idle" /\ result' = "MCL_OK")
         => store' = {} /\ Handed' \subseteq accepted' \cup Exposed']_vars

\* The store and exchange keep the promise of Delivery.
AbstractDelivery == INSTANCE Delivery WITH
    handed <- Handed,
    held <- ContentOf(store),
    exposed <- Exposed
ImplementsDelivery == AbstractDelivery!Spec

\* A call of exchange returns, whatever fails and whatever the server answers.
ExchangeReturns == (phase # "idle") ~> (phase = "idle")

\* Every record handed over reaches the server, or was lost track of.
EventuallyAccepted == \A r \in Records : (r \in Handed) ~> (r \in accepted \cup Exposed)

=============================================================================
