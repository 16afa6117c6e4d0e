# Verification of the MindConnect Library

TLA+ models, TLC checks and TLAPS proofs for the MindConnect Library (MCL,
`src/MindConnect_Library_V3.1.3.0`), the C library with which a device agent
onboards to MindSphere and uploads time series, events, files, custom data and
data source configurations. Paths below are relative to that directory.

## 1. The system

| Component | State | Operations | Interacts with |
| --- | --- | --- | --- |
| Store (`src/store.c`, `src/list.c`) | a list of `store_data_t`, each with a type, a state (INITIAL, PREPARED, WRITTEN, SENT) and a cached meta and payload | `mcl_store_new_*`, `mcl_store_destroy`, removal of sent items | filled by the application, read and cleared by exchange |
| Data objects (`time_series.c`, `event_list.c`, `file.c`, `custom_data.c`, `data_source_configuration.c`) | records an application collects; an open descriptor for a file | setters, called by the application at any time between two exchanges | referenced from the store |
| Exchange (`http_processor.c` 786-865, 1153-1641) | the request under construction, a cursor into the list, two flags | fill, finalize, send, evaluate, update states, clear | store, request, HTTP client |
| HTTP request (`http_request.c`) | a buffer with size and offset | initialize, add tuple, add single, finalize | exchange, onboarding, streaming |
| HTTP client (`http_client_libcurl.c`) | a curl handle | `http_client_send` | server |
| Security life cycle (`communication.c`, `http_processor.c`, `security_handler.c`) | client id and secret, registration access token and URI, access token | onboard, rotate key, update security, get access token, `mcl_communication_process` | server, storage |
| Storage (`storage.c`) | the registration information in a file or behind callbacks | save, load, the critical section callbacks | life cycle, other processes |
| JSON composition (`json.c`, `json_util.c`) | documents of cJSON, owned by `json_t` | compose meta and payload, parse answers | exchange, life cycle |
| Security primitives (`security_libcrypto.c`, `hmac.c`, `jwt.c`, `base64.c`, `random.c`) | keys | sign, hash, encode, generate | life cycle |
| Strings and string arrays (`string_type.c`, `string_array.c`) | a buffer and its length, an array that grows | set, concatenate, split, add | all |
| Time, file, memory utilities, logging | none of their own | conversions | all |
| Streaming, file download | partly written items | as above | compiled out: no build file defines `MCL_STREAM_ENABLED` or `MCL_FILE_DOWNLOAD_ENABLED` |
| Example agents (`../Onboard`, `../Timeseries`, `../TestIOT`), vendored code (`lib`) | | | |

The library starts no thread and takes no lock around the store: an application
calls `mcl_communication_exchange` on its own thread, and between two calls it
may add to anything in the store. What makes the code hard:

- **Stale caches.** The payload of an item is composed once. After a failed
  exchange the item stays in the store with its payload, while the application
  still holds a handle to the object and may add to it.
- **Partial failure.** One call of exchange sends several requests, each with
  several items, and some fifteen places can fail before, during and after
  sending. States of items are updated only when an answer is evaluated.
- **Unreliable delivery.** A request without an answer may have been accepted,
  may be accepted later, or never.
- **Arithmetic.** What a function of `http_request.c` asks for and what it
  writes are two sums kept in different places.
- **Memory.** Every object comes from `malloc` uninitialized and belongs to one
  owner, which changes hands when objects are put together. Any allocation
  may fail, and what was taken before it has to go.
- **A shared cursor.** Every loop over a list uses the one cursor in the list,
  and sent items are removed inside such a loop.
- **Crashes and several processes** (security life cycle): credentials change
  at the server first and in the file afterwards.

Correct means, component by component:

- *HTTP request:* no write past the buffer; the limit is kept; a part that fits
  is not refused; a request that took its parts can be finalized.
- *Exchange and store:* what is deleted is with the server; what is accepted
  twice was sent twice for a reason; a call returns; retries get everything
  through; a long item does not block short ones.
- *List:* the pointers lead both ways through the nodes that are in the list;
  a loop sees each of them once, whatever is removed meanwhile.
- *Everything that takes memory:* an error frees what the function took and
  nothing else, leaves the caller's objects as they were, and is reported.
- *base64:* the buffers are large enough; decoding is the inverse of encoding.
- *Life cycle and storage:* no process overwrites or forgets the current
  credentials, so that only a named failure can lose them; whoever has them can
  authenticate; calls return, and an agent that keeps trying goes on.

`PROJECT.json` lists the components, the hazards with the line where each
bites, and the source lines of every definition.

## 2. The modules

| Module | Models |
| --- | --- |
| `HttpRequestSizes` | the byte accounting of `http_request.c` and `http_request.h`: per part, what is asked for and what is written |
| `HttpRequest` | the payload buffer of one `http_request_t`: growth, refusal, finalizing |
| `Delivery` | the abstract specification: records are handed over, held, accepted, released |
| `Exchange` | store, data objects, exchange and what it sees of client and server |
| `Registration` | the security life cycle: processes of one agent, the file they share, and the server |
| `Custody` | the abstract specification of the life cycle: where the current registration access token is |
| `List` | `list.c`, pointer by pointer |
| `Iteration` | the abstract specification of a list: a sequence with one cursor |
| `Base64` | `base64.c`, a quantum at a time |
| `Ownership` | the machine that runs functions whose allocations may fail |
| `Outlines` | what makes a table of functions sound, one function and a few pointers at a time |
| `Steps` | the words functions are written in for `Ownership`; `memory.c` |
| `DataObjects` | functions of `store.c`, `time_series.c`, `event.c`, `event_list.c`, `custom_data.c`, `file.c`, `data_source_configuration.c`, and the preparation of items in `http_processor.c` |
| `Documents` | functions of `json.c` and `json_util.c` |
| `Sessions` | functions of `string_type.c`, `string_array.c`, `random.c`, `http_request.c`, `http_response.c`, `http_client_libcurl.c` |
| `Security` | functions of `security_libcrypto.c`, `hmac.c`, `jwt.c`, `security_handler.c`, `storage.c`, `communication.c`, and the life cycle in `http_processor.c` |
| `MCHttpRequest`, `MCExchange`, `MCRegistration`, `MCLibrary` | instances for TLC |
| `HttpRequestProofs`, `ExchangeProofs`, `RegistrationProofs`, `CustodyProofs`, `ListProofs`, `Base64Proofs`, `OwnershipProofs` | theorems and proofs |

`Exchange` uses `HttpRequestSizes` and not `HttpRequest`: it keeps only the
offset of the request. Theorem `RefusalExact` of `HttpRequestProofs` justifies
that: whatever the buffer has grown to, `http_request_add_tuple` refuses a
tuple exactly when the space it asks for is not left under the limit.

### HttpRequest

`payload_size` and `payload_offset` are the fields of `http_request_t`.
`extent` is the end of the bytes ever written, the NUL of `snprintf` included.
`AddTuple`, `AddTupleFails`, `AddSingle` and `Finalize` are the functions of
those names; `ResizeTo`, `GrownSizes` and `NoMoreSpace` are
`_resize_payload_buffer_if_necessary`. The growth is computed in floating point
and truncated; the model allows the product to come out one byte low.
`MCL_RESIZE` is taken to succeed here; `Sessions` has the request that lost its
buffer.

### Exchange

An item of the list is a number: `list_add` appends and nothing reorders, so
the order of numbers is the order of the list. `kind`, `state` are the fields
of `store_data_t`; `content` is the set of records in the data object;
`payload` is what a copy of the payload would yield *now*: the cached text, or
what is left to read of a file. An event list, a time series, a custom payload,
a file and a data source configuration differ in who may add to them, when the
payload is composed and what reading it does; a data source configuration
behaves like a time series.

One call of `http_processor_exchange` goes through `phase`: `Call`, `Begin`
(request and headers), then the filling loop one list node at a time
(`AddCurrent`, `SkipCurrent`, `PrepareFails`, `AddFails`, `EndOfList`), then
`Send`, `FinalizeFails` or `CorrelationIdFails`, and after an answer
`EvaluateSuccess`, `EvaluateFailure` or `NoAnswer`. Between calls the
application acts (`ApplicationStep`); at any time a request the client gave up
on may still reach the server (`ServerAcceptsLate`). `Faults` says which of the
failing steps an instance has.

The filling loop matters step by step, because states of items change inside it
and every failure leaves the store as it is at that point.

Three variables are history: `twice`, `unanswered`, and `exposed`, which
collects the records exchange has lost track of, by cause:

- `late`: added to an object whose payload had been composed;
- `drained`: in a file that was read for a request that failed;
- `stranded`: in an item left WRITTEN by a request that was never sent (found
  again when a later request *fails*, which sets every WRITTEN item back).

An item in the third situation is skipped by every later request. If the store
holds nothing else, exchange returns
`MCL_STORE_ITEM_EXCEEDS_MAX_HTTP_REQUEST_SIZE` from then on, although nothing
in the store is too long.

### Registration

Several processes are the same agent: each has a handle with credentials in
memory (`mem`), all share `configuration->store_path` (`file`) and the critical
section callbacks (`lock`). Onboarding and key rotation are the same function,
`http_processor_register`: present a registration access token (RAT), get a new
one and, with a shared secret, a new secret. With RSA the process generates the
key itself, in the place of the old one, before it sends the request. The
server accepts only the RAT it issued last (`issued`), together with the key
that came with it (`current`). So the answer to a request, and later the file,
is the only copy of what the agent needs next.

Credentials are records of a key, a RAT and whether the registration URI is
whole. RATs are numbered in the order in which they are issued; the initial
access token is number 0. A file without a RAT stands for a missing, empty or
truncated one, all of which fail to load.

`pc` says where the call of a process is. `Enter`, `EnterFails` and `Leave` are
the two ends of `mcl_communication_onboard`, `_rotate_key` and
`_update_security_information`; `Send` to `ReceiveMalformed` are
`http_processor_register`; `OpenToWrite` to `CloseFails` are `storage.c`, with
a file that a reader may see half written; `LoadUpToDate`, `LoadReplaces` and
`LoadFails` are `http_processor_update_security_information`; `TokenGranted` to
`TokenFails` are `http_processor_get_access_token`, called by the application,
by `mcl_communication_process`, or at the end of the critical section (`pc` is
"renew"); `ExchangeSucceeds` to `ExchangeFails` are the exchanges inside
`mcl_communication_process`, of which only the outcome matters here. `Crash` ends a process anywhere in a
call, and frees the mutex, as an operating system does for a named one.
`Initialize` loads the file outside the critical section, as the code does; it
assumes that an initial access token is configured.

One variable is history: `astray` is set when a step fails that had to bring
the current RAT to the file (an answer that is lost, late or malformed, a save
that fails, an `fclose` that fails, a crash before the save is complete), and reset by the next
registration. The safety properties except `CriticalSection`, `PairsMatch` and
`UpToDateIsUpToDate` hold only up to it, and it is set nowhere else.

The model shows these behaviours of the code, which have no run of their own:

- After a lost answer or a failed save the old RAT stays in the file. The
  server takes it no more, and there is no other way to get a new one than to
  onboard again with a new initial access token.
- After a save that failed at `fopen`, the process itself has the current
  credentials, and a later update replaces them by the older ones in the file
  (comment `http_processor.c:552`: everything is fine). This is why
  `CurrentIsKept` has the exception `~astray`.
- The result of `fclose` is ignored, so that onboarding may answer `MCL_OK`
  without a file. This is the exception in `OkMeansSaved`.
- A handle that is initialized while another process saves may get a cut
  registration URI. It cannot rotate the key, and updating does not help, since
  the URI is not taken over (`http_processor.c:514`). `Stranded` names this case.

`Custody` says the same with no word about locks, requests, keys and files half
written: the last RAT goes from the server to one process, which carries it to
the file, where the others learn it; it may be lost on that way and nowhere
else, and nobody renews it without having it. `ImplementsCustody` in
`Registration` maps the variables: `holders` are the processes that have the
last RAT in memory, `carriers` those between the server's answer and the end of
the save, `lost` is `astray`.

### List

`next` and `prev` are the fields of the nodes, with the value `Gone` in a place
that is free; `head`, `last`, `current` and `count` are those of `list_t`.
`Add`, `Remove`, `ListNextNode`/`ListNextEnd`, `Reset` and the three steps of
destruction are the functions of `list.c`. `Remove` may come at any time, so
that every way of clearing a list inside a loop is among the behaviours, the
one of `_exchange_clear_sent_data_from_store` included. A place may be used
again after it has been freed. `order`, `due` and `seen` are history.

The mapping to `Iteration` tells the cursor by how many items are ahead of it.
Two things that users of the list have to know show in `Iteration`: an item
that is added when a loop is at its end waits for the next round, and adding to
an empty list begins a round.

### Ownership

One behaviour follows the objects of one class, with what they hold, through
calls in any order. A function is a record made by `Creates`, `Changes` or
`Computes` from a sequence of steps, one per allocation, free, change of owner
or check that may fail, in the order of the code; `Begins` to `Returns` run it,
and at each fallible step take the branch that succeeds or the one that fails.
`memory` has the state of each pointer: a field that malloc left uninitialized
is "garbage", and freeing it is a mistake. `spoilt` collects the mistakes of
the running function, `before` is the state it was called in.

A called function is one step of its caller: it delivers or it fails and leaves
nothing behind. Where the called function does not keep that promise its own row
shows it, and where that hurts its caller the step of the caller has it (`loses`,
`goes_on`).

`Known` is the list of mistakes the code makes, as the model finds them: each
entry occurs in a behaviour, and the properties of the run say that there are
no others. They are given by function and pointer in `MCLibrary`:

- `GarbageFreed`: a destructor frees fields not yet written, when the first
  list of a store, or an allocation of a value set or value, fails
  (`store.c:85`); `security_libcrypto.c:166` frees the addresses of two
  pointers.
- `NullUsed`: every function of a request whose buffer could not grow
  (`http_request.c:651`); parts of a token that are missing (`jwt.c`); a
  document that is missing (`json.c:555`); strings that were not loaded
  (`http_processor.c:501`, finding 5).
- `Leaked`: among others, the handle when there is no memory for the user agent
  (`communication.c:188`), meta details that are set twice (`custom_data.c:51`),
  strings in an array that cannot grow (`string_array.c:91`).
- `LeftOut`: a field, a header or a credential is missing although the function
  returned `MCL_OK`, since cJSON, libcurl or `string_initialize_*` could not get
  memory and nobody looked.
- `Changed`: an error leaves an object other than it was, like an event without
  the option that was to be replaced (`event.c:89`).

### Outlines

Between two calls an object is *whole* (`Whole`): every field that its
destructor frees owns a block, or is NULL where `Optional` allows it, and there
is nothing else. The *outline* of a function is what its pointers may be before
each of its steps if it begins with whole objects: for each group of pointers
that are looked at together (`Together`; most groups are a single pointer), the
value when the function was called, the value now, and what was left out.
`OutlineHolds` says that an outline is one: it has what the function may begin
with, each step leads from it into it or ends well, and after the last step the
object is whole. Nothing in it refers to another function or to a behaviour.

`TableIsSound` is that for all functions, together with facts about the table:
an object is made where what holds it is (`WellNested`), the second half of an
entry of the store makes something inside of what the first half made
(`HalvesFit`), and only pointers of one class are looked at together
(`GroupsFit`).
`MCLibrary` gives the table of the library the outlines that running each
function alone yields (`OutlineFrom`). `ObjectsAreWhole` says that the program,
which calls the functions in any order, keeps to the outlines and has whole
objects between two calls.

### Base64

`alphabet` tells the two pairs of tables apart. `StartEncoding`,
`EncodeQuantum` and `EndEncoding` are `_encode_with_table`; `StartDecoding`,
`RefuseText`, `DecodeQuantum`, `RefuseQuantum` and `EndDecoding` are
`_decode_with_table` with `_decode_quantum`. What is decoded is what was
encoded before, or a text from elsewhere. `allocated` is the size given to
`malloc`, `extent` the end of what was written, the NUL included. The scan for
padding is `PaddedBy`; shifts and masks are divisions and remainders. Out of
memory is in `Ownership` (`EncodeWithTable`, `DecodeWithTable`).

## 3. What is checked

| Run | Instance | Shows |
| --- | --- | --- |
| `http_request` | limit 600, buffer 0 or 200 bytes at first, texts of 0, 77-79, 155, 368, 369 bytes | `WritesInBounds`, `WithinLimit`, `SingleLeavesRoom`, `FinalizeNearlyFits`, `RefusedExactlyWhenTooLong` |
| `exchange_all` | 3 items of every kind, 2 records, limit 1181, every fault | all safety and action properties, and `Exchange` implements `Delivery` |
| `exchange_returns` | 2 items, every fault | a call of exchange returns |
| `exchange_retry` | 2 items, network faults only | every record is accepted in the end, or lost track of |
| `registration` | 2 processes, both profiles, 2 RATs, a late request, every fault | all safety and action properties, and `Registration` implements `Custody` |
| `library` | 121 functions and every failure; lists of 3 nodes; bytes up to two quantums | the properties of `Ownership`, `List` and `Base64`, that the table of the library is sound (`ObjectsAreWhole`), and `List` implements `Iteration` |
| `registration_recovers` | 2 processes, both profiles, 2 RATs, crashes | every call returns, and a process that keeps trying goes on exchanging |
| `registration_load_fails` | 1 process, a failing write | finding 5 |
| `http_request_no_room` | as `http_request` | finding 1 |
| `exchange_unsent`, `exchange_file_retry`, `exchange_late_event` | as small as the finding allows, no fault injected | findings 2 to 4 |

Bounds. 368 bytes of texts make a tuple ask for exactly 600 bytes, 369 for one
more; 77 to 79 bytes place a second tuple around the same boundary, and 155
around the growth step. In `Exchange` an item has 100 bytes of texts and 268
per record. With a limit of 1181 bytes a request takes one item with two
records or two with one each, refuses a third, is full in such a way that
another item is skipped and a shorter one behind it still taken, and after some
combinations has no room for the closing boundary. Three items are what it
takes for one to be sent, one to be skipped and one to be left over; two
records are what it takes for an item to hold an old and a late one, or for one
to be accepted and one not. Records are interchangeable, hence the symmetry set
in `exchange_all`; the liveness runs use none.

In `Registration` two RATs are an onboarding and a rotation: enough for one
process to rotate behind the other's back, for the other to find that out, to
try to rotate with the RAT it has, and to save. `MaxKey` (4, or 3 without late
requests) is as many private keys as two processes, the file, the server and a
late request can hold when one more is generated; numbers of keys nobody holds
any more are used again. `MaxLate` is one request the client gave up on. Keys expire only while a RAT is left to renew them
with. The safety run takes processes to be interchangeable; the liveness run
distinguishes the one that keeps trying.

A behaviour of `library` belongs to one of three modules that share no state
(`part`). *Ownership:* one behaviour per class of objects; a list, array or
header list counts as a single block, which is either there or lost, and a loop
in a function runs once: its second round meets what the first one left, which
is the state in which the function can be called again. Of the texts a
configuration may leave out, two stand for all: one that is copied before
the user agent, whose failure loses what was copied, and one after it. *List:* four places and at most
three nodes, so that a place is used again and the limit is reached; three
nodes are a first, an inner and a last one. *Base64:* the bytes 0, 107 and 255
in all sequences up to length 5, that is, two quantums with each remainder, and
each byte alone; texts over `A`, `=` and `-`, which is in one alphabet only, up to
length 5, and over `A` and `=` of length 8, so that padding is at every place of
either quantum.

`http_request` does not check for deadlock: a request that is finalized is
done. All other runs do.

`registration` is the largest run, with 2.9 million distinct states in two
minutes; `library` has 60,000 in half a minute.

Fairness. `CallFairness`: a call of exchange is sequential code and keeps
running until it returns, and `http_client_send` returns with an answer or with
libcurl's timeout (`CURLOPT_TIMEOUT` is set from
`configuration->http_request_timeout`, 300 seconds by default; 0 would mean no
timeout to libcurl). `RetrySpec` adds an application
that keeps calling, a server that accepts if asked again and again, and a
client that gets an acceptance through in the end (strong fairness, since every
failure disables them); it says nothing about when a record is added.

`Registration` has two fairness conditions. `CallFairness`: calls go on, and a
mutex is given to whoever keeps waiting for it (strong fairness of `Enter`); a
process that ends gives it up. `RetryFairness`: the application of a persistent
process calls `mcl_communication_process` again and again, and
`mcl_communication_update_security_information` as well, and an access token
does not expire every time just before it is used. Other processes owe nothing.
`AgentsRecover` depends on the updates: rotating alone does not help a process
whose RAT another process has used.

Every property has a mutant: the operators named "Mutant of" change one
definition the way a plausible bug would, and TLC finds the property violated.

### Findings

1. **A request whose tuples fitted may fail to finalize**
   (`http_request_no_room`, `TupleLeavesRoom`). The comment on
   `OVERHEAD_FOR_TUPLE` counts a closing main boundary, but a tuple writes
   seven bytes more than its other terms account for; 19 bytes may be left for
   the 26 that finalizing needs. Theorem `FinalizeBound`: never fewer.
2. **Items of an unsent request are deleted unsent** (`exchange_unsent`,
   `SentMeansAccepted`). No state is updated when a request cannot be
   finalized; its items stay WRITTEN and a later success deletes them. Finding
   1 triggers it with no fault from outside.
3. **A file is empty when it is sent again** (`exchange_file_retry`). Nothing
   rewinds the descriptor after a failed request.
4. **An event added after a failed exchange is deleted unsent**
   (`exchange_late_event`). Likewise a value set, a data source, a custom
   payload.

5. **Updating from a damaged file ends the process**
   (`registration_load_fails`, `UpdateReturns`). With a storage path,
   `http_processor_update_security_information` dereferences the strings that
   were to be loaded before it looks at the result of the load. A save that
   failed or was interrupted leaves such a file.

## 4. What is proved

For every value of the constants that satisfies the assumptions, by TLAPS with
Z3, Zenon and LS4:

- `HttpRequestProofs`: `TypeCorrect`, `BufferSafe`, `LimitKept`,
  `SingleFinalizes`, `FinalizeBound`, `RefusalExact`.
- `ExchangeProofs`: `TypeCorrect`, `NothingLost`, `DuplicatesAreRetries`,
  `DeletedIsInRequest`, `RequestsWithinLimit`, `OkIsComplete`,
  `EventsShareOneList`, `LeftOutIsTooLong` and `Implements` (the refinement of
  `Delivery`): every safety and action property of `exchange_all`; and
  `CallsAreBounded`, a bound on the steps of a call.
- `ListProofs`: `ListIsTyped`, `ListStaysLinked`, `LoopsSeeEveryItem`,
  `ListIsASequence` (the refinement of `Iteration`), for any number of nodes.
- `CustodyProofs`: `KeepsCustody` (the refinement of `Custody` by
  `Registration`).
- `Base64Proofs`: `WritesStayWithinBuffer`, `DecodingInvertsEncoding`, for
  bytes and texts of any length.
- `OwnershipProofs`: `ObjectsStayWhole`, `OwnedMemory`, `NoLeak`,
  `ErrorsAreHarmless`, `OkIsComplete`, `OwnershipTypesAreKept`: every property
  of `Ownership` in `library`, for every table of functions that is sound.
- `RegistrationProofs`: `TypeCorrect`, `MutexHeldInside`, `CustodyKept`,
  `CredentialsMatch`, `ComparisonSuffices`, `OkIsSaved`, `UpdateFindsCurrent`,
  `CurrentStays`: every safety and action property of `registration`, for any
  number of processes, keys, RATs and late requests.

Assumptions: sizes are natural numbers, initial sizes within the limit
(`HttpRequestAssumptions`); the length of an item's texts is monotonic in its
records, and event versions and result codes are distinct from the other kinds
and codes (`ExchangeAssumptions`); bounds are natural numbers, and nobody is
not a process (`RegistrationAssumptions`); `NULL` and freed memory are not
nodes (`ListAssumptions`); what is encoded are bytes, and a text has no NUL
(`Base64Assumptions`); the
classes, fields and steps of a table have their types (`OwnershipAssumptions`).

`HttpRequest`: `WritesInBounds` is not inductive by itself, since finalizing
relies on what the last part left over. `RoomLeft` adds the differences between
what a part asks for and what it writes (19 bytes for a tuple, 91 for a single).
`GrowthSuffices` is the arithmetic fact that growing by half makes room even
with a byte lost to truncation.

`Exchange`: the inductive invariant `IInv` (in `ExchangeProofs`) has one part
per idea. `StoreInv` ties the store to what was created, and says that a new
item holds nothing; `PayloadInv`, that what a payload would yield falls short
of the content only by exposed records; `WrittenInv`, that a WRITTEN item is in
the request, or, when there is none, exposed; `CallInv`, how cursor, flags and
request depend on the phase; `RemovedInv`, `NothingLostUnexposed` itself;
`AcceptedInv`, that what the server accepted and the library still holds is in
the request under way or went unanswered. One lemma per action shows that it
keeps `IInv`. `NoNeedlessDuplicate` needs all of it: a record is never in two
requests unless the first failed, because it is never in two items and an item
is never in two requests. `LeftOutIsTooLong` adds `SkippedInv`: in a pass in
which nothing was added, nothing before the cursor fits.

`CallsAreBounded` has the safety half of `ExchangeReturns`: the steps of a call
are counted down. `StepsLeft` counts, in this order, the items in the store,
those in no request, how far the request is, and the rest of the pass over the
list; `Nearer` says which of them becomes less. Filling marks an item WRITTEN or
moves on, a pass that adds nothing leads to the request, and a successful request
removes an item, because it has one (`RequestHasItems`); a failed one ends the call.

`Registration`: `CredentialsInCustody` is not inductive. A process that is
saving overwrites the file, so that what it saves has to be current
(`SavingInv`): its registration was the last one the server accepted, since
everyone else has to wait for the mutex (`CriticalSection`), and a request that
arrives late makes `astray` true. `UpdateIsCurrent` and `CurrentIsKept` follow
from custody: the process that loads is inside, so nobody is on the way to the
file, and the file itself is current. `UpToDateIsUpToDate` with RSA needs
`KeyInv`: a generated key is known to one process only (`Private`) until its
registration is saved, and then goes from file to memory only together with
its RAT. `PairsMatch` adds that RATs come from the server (`RatInv`), and that
the answer to a registration has the key it was sent with (`PairInv`).

`Custody`: a step of `Registration` that overwrites the file has to be a
`Deposit`, and a registration a `Renew` with no other RAT on its way. `CarryInv`
(in `CustodyProofs`) adds to the invariant of `Registration` that while a RAT is
on its way no late request can be accepted, that it is the last one, and that
the file does not have it before it is written. One lemma per kind of action
maps it to an action of `Custody`.

`List`: the invariant keeps places apart from pointers. `Chain` ties `head`,
`last` and `count` to the order, `LinksFrom` and `BackLinks` the pointers of the
nodes, `FreeIsGone` those of free places; `CursorAt(c)` puts the cursor at place
`c`, with what is due at or behind it and what was seen before it; `DoomedAt(j)`
says how far a destruction is. One lemma per operation says where the cursor
is afterwards. Removing the node at the cursor leaves `c` as it is, removing one
before it takes one off; from that follow the visits, and the steps of
`Iteration`, since what is ahead is `count - c + 1`.

`Base64`: the bounds need the position counted in quantums: the text has four
characters for each three bytes taken, a partial group only at the end, and
decoding has written three bytes for each four characters, as only the last
quantum has padding. Inversion (`RoundInv`) says of the text that each
quantum is the encoding of its group (`EncodedFrom`), and of the output that it
is a prefix of the data; lemmas show that the tables are inverse, that four
values of six bits join to the same three bytes, and that `=` stands exactly
where a byte is missing.

`Ownership`: here the constant is the program. The theorems have the hypothesis
`TableIsSound`, which speaks of the table alone: of each function by itself,
and of each group of its pointers by itself. TLC evaluates it for the table of
the library, as the first conjunct of `ObjectsAreWhole` in the run `library`,
so that the theorems hold for the library; for a function that is added, or
changed, it is what remains to be looked at. That soundness of the parts
carries over is the content of the proof. The steps of `Ownership` act on all
pointers of an object at once, and lemmas show that what they do to a group
does not depend on the rest (`PartsOfSteps`), and that a mistake shows in one of
the groups (`MistakesInAPart`). `IInv` is `ObjectsAreWhole` with what it needs
to be inductive: the function that runs is a row of the table, with the steps
it has left (`Calling`); what it needs is there and what it makes is not;
nothing changed since the call but the object it works on, which is what the
second half of an entry begins with (`Since`); what went wrong is known, or was
left out and can still be reported (`Accounted`). Every action is one of three
kinds, and one lemma for each kind shows that it keeps `IInv`: a function goes
on (`Advances`), it is over or an object is destroyed (`Rests`), one begins
(`Enters`). That destroying an object takes everything inside with it, and
nothing else, is `WellNested`.

Only model-checked: `TableIsSound` for the table of the library, which is one
constant and too large for the provers to compute with, and `ExchangeReturns`,
`EventuallyAccepted`, `CallsReturn` and `AgentsRecover`, which are liveness under
fairness. Of `ExchangeReturns` only the bound on the steps of a call is proved;
that a step is always possible and taken needs ENABLED and fairness.

## 5. What is not modelled, and why

- Running out of memory in the middle of an exchange: `Exchange` has the failure
  of a preparation and of a request as such, `Ownership` what is left of the
  objects. That a request without a buffer is finalized afterwards is in
  `Known`; its way through the filling loop is not in `Exchange`.
- Time stamps, versions, field limits, the texts of JSON, headers and tokens,
  `time_util.c`, `file_util.c`, logging: no state, and no property is about
  them.
- The text of the credential file, line by line. A reader that sees parts of two
  saves needs a file larger than the C library's buffer.
- `http_processor_stream` and the low priority list: `MCL_STREAM_ENABLED` is
  defined in no build file, and `mcl_store_initialize` refuses streamable stores.
  File download, which is not compiled in either, is modelled for its memory.
- Calling exchange and adding to the store at the same time from two threads:
  the library does not support it.
- In the life cycle of several processes: callbacks that load and save instead of
  a file (their memory is in `Security`), a registration that changes the client
  id, a key that cannot be generated (likewise), running without the critical
  section callbacks (the library's README requires them). The callbacks of
  `examples/critical_section.cpp` are not modelled; `CreateMutex` makes the
  process that creates the mutex its owner there, which nothing undoes before the
  process ends.
- In `Security`, failures of `BIO_read` on a memory BIO (`security_libcrypto.c`
  270-276, 305-311), which cannot fail after its length was asked for; in
  `Base64`, sizes whose fourfold does not fit `mcl_size_t`.
- libcurl, OpenSSL, cJSON, zf_log, the example agents: third-party code, or
  programs without state.

## 6. Plan

Done: `HttpRequest`, `Delivery`, `Exchange`, `Registration`, `Custody`, `List`,
`Iteration`, `Ownership` with its tables, `Base64`, their runs and proofs. Next,
in this order:

1. The text of the credential file: what `storage.c` writes, what it reads back
   after any prefix of it was written, and `Unloadable` of `Registration`
   derived from it.
2. The remaining pure algorithms: splitting and replacing in strings, version
   checks, the expiration arithmetic of JWT.
3. A request without a buffer in the filling loop of `Exchange`.
4. Streaming, should a build define it.
