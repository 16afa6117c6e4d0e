----------------------------- MODULE HttpRequest -----------------------------
(***************************************************************************)
(* The payload buffer of an http_request_t (http_request.c) as exchange    *)
(* uses it: a multipart body grows part by part in a buffer that is        *)
(* reallocated in steps up to max_http_payload_size, and is closed by      *)
(* http_request_finalize.  Every function first makes sure that the space  *)
(* it asks for is there and then writes without looking again.             *)
(*                                                                         *)
(* MCL_RESIZE is taken to succeed, and resize_enabled to be true: the only *)
(* requests without it belong to streaming, which is not compiled in.      *)
(***************************************************************************)
EXTENDS HttpRequestSizes

CONSTANTS
    MaxPayload,     \* max_http_payload_size
    InitialSizes,   \* payload sizes http_request_initialize is called with
    TextSizes       \* bytes of meta, content types and payload of one part

ASSUME HttpRequestAssumptions ==
    /\ MaxPayload \in Nat
    /\ InitialSizes \subseteq 0..MaxPayload
    /\ TextSizes \subseteq Nat

VARIABLES
    payload_size,   \* bytes allocated for the payload
    payload_offset, \* bytes of it in use
    extent,         \* end of the bytes ever written, a final NUL included
    last,           \* the last part that was added: "none", "single", "tuple"
    asked,          \* the space the last attempt to add a part asked for
    status          \* what the last function returned, "FINAL" when finalized

vars == <<payload_size, payload_offset, extent, last, asked, status>>

Init ==
    /\ payload_size \in InitialSizes
    /\ payload_offset = 0
    /\ extent = 0
    /\ last = "none"
    /\ asked = 0
    /\ status = "MCL_OK"

\* Mutant of GrownSizes: what there is counts against what is needed.
GrownSizesOfTheRest(required) == {(3 * (required - payload_size)) \div 2}

\* GROWTH_FACTOR 1.5 times what is needed, computed in floating point and
\* truncated: a product that should be an integer may come out one too low.
GrownSizes(required) ==
    IF payload_size = 0
      THEN {(3 * required) \div 2 + 1}
      ELSE LET exact == (3 * (required + payload_size)) \div 2 IN {exact, exact - 1}

\* Mutant of ResizeTo: the buffer grows past max_http_payload_size.
ResizeWithoutLimit(required, size) ==
    \/ /\ required <= payload_size - payload_offset
       /\ size = payload_size
    \/ /\ ~(required <= payload_size - payload_offset)
       /\ size \in GrownSizes(required)

\* _resize_payload_buffer_if_necessary(required, request, MCL_FALSE), and the
\* size of the buffer after it.  It has no branch when there is no space.
ResizeTo(required, size) ==
    \/ /\ required <= payload_size - payload_offset
       /\ size = payload_size
    \/ /\ ~(required <= payload_size - payload_offset)
       /\ \E grown \in GrownSizes(required) :
            \/ grown <= MaxPayload /\ size = grown
            \/ /\ ~(grown <= MaxPayload)
               /\ required <= MaxPayload - payload_offset
               /\ size = MaxPayload

\* Mutant of NoMoreSpace: the buffer is never made as large as it may be.
NoSpaceToGrow(required) ==
    /\ ~(required <= payload_size - payload_offset)
    /\ \E grown \in GrownSizes(required) : ~(grown <= MaxPayload)

NoMoreSpace(required) ==
    /\ ~(required <= payload_size - payload_offset)
    /\ ~(required <= MaxPayload - payload_offset)
    /\ \E grown \in GrownSizes(required) : ~(grown <= MaxPayload)

\* A part is written; its last write ends with a NUL.
AddPart(required, written, part) ==
    /\ status # "FINAL"
    /\ asked' = required
    /\ \/ /\ ResizeTo(required, payload_size')
          /\ payload_offset' = payload_offset + written
          /\ extent' = payload_offset' + MCL_NULL_CHAR_SIZE
          /\ last' = part
          /\ status' = "MCL_OK"
       \/ /\ NoMoreSpace(required)
          /\ status' = "MCL_HTTP_REQUEST_NO_MORE_SPACE"
          /\ UNCHANGED <<payload_size, payload_offset, extent, last>>

\* http_request_add_tuple; the payload callback may copy less than it is asked
\* for, but no more.
AddTuple(texts, copied) ==
    /\ copied <= texts
    /\ AddPart(RequiredForTuple(texts), WrittenByTuple(copied), "tuple")

\* http_request_add_tuple finds the space and writes the main boundary, but gets
\* no random sub boundary: the buffer has grown, its offset has not moved.
AddTupleFails(texts) ==
    /\ status # "FINAL"
    /\ asked' = RequiredForTuple(texts)
    /\ ResizeTo(asked', payload_size')
    /\ extent' = payload_offset + OpenBoundary + MCL_NULL_CHAR_SIZE
    /\ status' = "MCL_FAIL"
    /\ UNCHANGED <<payload_offset, last>>

\* http_request_add_single.
AddSingle(texts) == AddPart(RequiredForSingle(texts), WrittenBySingle(texts), "single")

\* http_request_finalize: the buffer is resized to exactly what is needed.
Finalize ==
    /\ status # "FINAL"
    /\ last # "none"
    /\ IF FINAL_LENGTH <= MaxPayload - payload_offset
         THEN /\ payload_size' = payload_offset + FINAL_LENGTH
              /\ payload_offset' = payload_offset + FINAL_LENGTH
              /\ extent' = payload_offset'
              /\ status' = "FINAL"
         ELSE /\ status' = "MCL_HTTP_REQUEST_FINALIZE_FAILED"
              /\ UNCHANGED <<payload_size, payload_offset, extent>>
    /\ asked' = 0
    /\ UNCHANGED last

Next ==
    \/ \E texts, copied \in TextSizes : AddTuple(texts, copied)
    \/ \E texts \in TextSizes : AddTupleFails(texts) \/ AddSingle(texts)
    \/ Finalize

Spec == Init /\ [][Next]_vars

-----------------------------------------------------------------------------
TypeOK ==
    /\ payload_size \in Nat
    /\ payload_offset \in Nat
    /\ extent \in Nat
    /\ asked \in Nat
    /\ last \in {"none", "single", "tuple"}
    /\ status \in {"MCL_OK", "MCL_FAIL", "MCL_HTTP_REQUEST_NO_MORE_SPACE",
                   "MCL_HTTP_REQUEST_FINALIZE_FAILED", "FINAL"}

\* No function writes past the end of the buffer: what it writes, the NUL
\* behind it included, never exceeds what it asked for.
WritesInBounds == extent <= payload_size

\* The body and its buffer stay within max_http_payload_size.
WithinLimit == payload_offset <= payload_size /\ payload_size <= MaxPayload

\* However the buffer has grown so far, a part is refused exactly when the
\* space it asks for is not left under max_http_payload_size.  Exchange.tla
\* abstracts the buffer to its offset on the strength of this.
RefusedExactlyWhenTooLong ==
    [][asked' # 0 => (status' = "MCL_HTTP_REQUEST_NO_MORE_SPACE"
                        <=> asked' > MaxPayload - payload_offset)]_vars

\* After a single there is always room for the closing main boundary.
SingleLeavesRoom == (last = "single" /\ status # "FINAL") =>
                      FINAL_LENGTH <= MaxPayload - payload_offset

\* The space asked for a tuple includes the closing main boundary (the comment
\* on OVERHEAD_FOR_TUPLE): finalizing a request whose tuples fitted works.
TupleLeavesRoom == status # "MCL_HTTP_REQUEST_FINALIZE_FAILED"

\* When a request cannot be finalized it is short of at most seven bytes.
FinalizeNearlyFits == (last # "none" /\ status # "FINAL") =>
                        FINAL_LENGTH <= MaxPayload - payload_offset + 7

=============================================================================
