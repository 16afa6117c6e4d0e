-------------------------- MODULE HttpRequestSizes --------------------------
(***************************************************************************)
(* The byte accounting of http_request.c and http_request.h.  Two sums     *)
(* matter for every part of a multipart body: what a function ASKS FOR     *)
(* before it writes (the OVERHEAD_FOR_xxx globals) and what it WRITES.     *)
(* Both are kept as the code has them, byte for byte: nothing forces the   *)
(* two to agree, and HttpRequest.tla and Exchange.tla check what follows   *)
(* from the difference.                                                    *)
(***************************************************************************)
EXTENDS Naturals

BOUNDARY_SIGN_LENGTH == 2
BOUNDARY_LENGTH == 22
CONTENT_TYPE_LINE_LENGTH == 65
CONTENT_TYPE_HEADER_LENGTH == 14
CONTENT_ID_HEADER_LENGTH == 12
NEW_LINE_LENGTH == 2
MCL_NULL_CHAR_SIZE == 1

BOUNDARY_LINE_LENGTH == BOUNDARY_SIGN_LENGTH + BOUNDARY_LENGTH + NEW_LINE_LENGTH

\* Mutant of OVERHEAD_FOR_TUPLE: one boundary line short.
OVERHEAD_ONE_BOUNDARY_SHORT ==
    4 * BOUNDARY_LINE_LENGTH + CONTENT_TYPE_LINE_LENGTH
      + 2 * CONTENT_TYPE_HEADER_LENGTH + 4 * NEW_LINE_LENGTH + MCL_NULL_CHAR_SIZE

\* What http_request_add_tuple asks for, on top of the variable texts.
OVERHEAD_FOR_TUPLE ==
    5 * BOUNDARY_LINE_LENGTH + CONTENT_TYPE_LINE_LENGTH
      + 2 * CONTENT_TYPE_HEADER_LENGTH + 4 * NEW_LINE_LENGTH + MCL_NULL_CHAR_SIZE

\* Mutant of OVERHEAD_FOR_SINGLE: only what a single itself takes.
OVERHEAD_FOR_SINGLE_ALONE ==
    BOUNDARY_LINE_LENGTH + CONTENT_TYPE_HEADER_LENGTH
      + CONTENT_ID_HEADER_LENGTH + 2 * NEW_LINE_LENGTH + MCL_NULL_CHAR_SIZE

\* What http_request_add_single asks for, on top of the variable texts.
OVERHEAD_FOR_SINGLE ==
    2 * BOUNDARY_LINE_LENGTH + CONTENT_TYPE_LINE_LENGTH + CONTENT_TYPE_HEADER_LENGTH
      + CONTENT_ID_HEADER_LENGTH + 2 * NEW_LINE_LENGTH + MCL_NULL_CHAR_SIZE

\* _add_boundary: an opening boundary line, and a closing one.
OpenBoundary == BOUNDARY_LINE_LENGTH
CloseBoundary == BOUNDARY_LINE_LENGTH + BOUNDARY_SIGN_LENGTH

\* A "Content-Type: <text>" header line followed by a blank line; the length
\* of <text> is counted with the variable texts of the part.
ContentHeader == CONTENT_TYPE_HEADER_LENGTH + NEW_LINE_LENGTH + NEW_LINE_LENGTH

\* What http_request_add_tuple writes besides the variable texts: the main
\* boundary, the multipart/related line and a blank line, a sub section with
\* the meta and one with the payload, each text ended by a new line, and the
\* closing sub boundary.
TUPLE_LENGTH ==
    OpenBoundary + CONTENT_TYPE_LINE_LENGTH + NEW_LINE_LENGTH
      + OpenBoundary + ContentHeader + NEW_LINE_LENGTH
      + OpenBoundary + ContentHeader + NEW_LINE_LENGTH
      + CloseBoundary

\* What http_request_add_single writes besides the variable texts.
SINGLE_LENGTH ==
    OpenBoundary + CONTENT_TYPE_HEADER_LENGTH + NEW_LINE_LENGTH
      + CONTENT_ID_HEADER_LENGTH + NEW_LINE_LENGTH + NEW_LINE_LENGTH + NEW_LINE_LENGTH

\* What http_request_finalize asks for and writes: --boundary--
FINAL_LENGTH == 2 * BOUNDARY_SIGN_LENGTH + BOUNDARY_LENGTH

\* The space that one part of a body asks for and the space it takes, when
\* its variable texts ask for and take the given numbers of bytes (they differ
\* for a file whose descriptor yields fewer bytes than the file's size).
RequiredForTuple(texts) == OVERHEAD_FOR_TUPLE + texts
WrittenByTuple(texts) == TUPLE_LENGTH + texts
RequiredForSingle(texts) == OVERHEAD_FOR_SINGLE + texts + NEW_LINE_LENGTH + MCL_NULL_CHAR_SIZE
WrittenBySingle(texts) == SINGLE_LENGTH + texts

=============================================================================
