-------------------------- MODULE HttpRequestProofs --------------------------
(***************************************************************************)
(* For every payload limit, initial size and length of texts: no function  *)
(* of http_request.c writes past its buffer, and a part is refused exactly *)
(* when it does not fit under the limit.                                   *)
(***************************************************************************)
EXTENDS HttpRequest, TLAPS

\* The sums of HttpRequestSizes, as numbers.
LEMMA Sizes ==
    /\ OVERHEAD_FOR_TUPLE = 232
    /\ TUPLE_LENGTH = 213
    /\ OVERHEAD_FOR_SINGLE = 148
    /\ SINGLE_LENGTH = 60
    /\ FINAL_LENGTH = 26
    /\ NEW_LINE_LENGTH = 2
    /\ MCL_NULL_CHAR_SIZE = 1
  BY DEF OVERHEAD_FOR_TUPLE, TUPLE_LENGTH, OVERHEAD_FOR_SINGLE, SINGLE_LENGTH, FINAL_LENGTH,
         BOUNDARY_LINE_LENGTH, BOUNDARY_SIGN_LENGTH, BOUNDARY_LENGTH, CONTENT_TYPE_LINE_LENGTH,
         CONTENT_TYPE_HEADER_LENGTH, CONTENT_ID_HEADER_LENGTH, NEW_LINE_LENGTH,
         MCL_NULL_CHAR_SIZE, OpenBoundary, CloseBoundary, ContentHeader

\* Growing by half leaves room for what was asked, even if truncation costs
\* one byte.
LEMMA GrowthSuffices ==
    ASSUME NEW n \in Nat, n >= 2
    PROVE  /\ (3 * n) \div 2 \in Nat
           /\ (3 * n) \div 2 - 1 \in Nat
           /\ (3 * n) \div 2 - 1 >= n
  OBVIOUS

\* What the functions rely on when they write: the last part left room for
\* the difference between what it asked for and what it wrote.
RoomLeft ==
    /\ last = "single" => payload_offset + 91 <= MaxPayload \/ status = "FINAL"
    /\ last = "tuple" => payload_offset + 19 <= MaxPayload \/ status = "FINAL"

IInv == TypeOK /\ WithinLimit /\ WritesInBounds /\ RoomLeft

LEMMA ResizeMakesRoom ==
    ASSUME NEW required \in Nat, required >= 2, NEW size,
           payload_size \in Nat, payload_offset \in Nat, WithinLimit,
           ResizeTo(required, size)
    PROVE  /\ size \in Nat
           /\ payload_offset + required <= size
           /\ size <= MaxPayload
  <1> USE HttpRequestAssumptions DEF WithinLimit
  <1>1. CASE required <= payload_size - payload_offset
    BY <1>1 DEF ResizeTo
  <1>2. CASE ~(required <= payload_size - payload_offset)
    <2>1. PICK grown \in GrownSizes(required) :
            \/ grown <= MaxPayload /\ size = grown
            \/ /\ ~(grown <= MaxPayload)
               /\ required <= MaxPayload - payload_offset
               /\ size = MaxPayload
      BY <1>2 DEF ResizeTo
    <2>2. grown \in Nat /\ payload_offset + required <= grown
      <3>1. CASE payload_size = 0
        <4>1. grown = (3 * required) \div 2 + 1
          BY <3>1 DEF GrownSizes
        <4>2. QED
          BY <3>1, <4>1, GrowthSuffices
      <3>2. CASE payload_size # 0
        <4>1. required + payload_size \in Nat /\ required + payload_size >= 2
          OBVIOUS
        <4>2. \/ grown = (3 * (required + payload_size)) \div 2
              \/ grown = (3 * (required + payload_size)) \div 2 - 1
          BY <3>2 DEF GrownSizes
        <4>3. QED
          BY <4>1, <4>2, GrowthSuffices
      <3>3. QED
        BY <3>1, <3>2
    <2>3. QED
      BY <2>1, <2>2
  <1>3. QED
    BY <1>1, <1>2

\* Adding a part preserves the invariant, given how much less than it asks
\* for a part writes.
LEMMA AddPartPreservesIInv ==
    ASSUME NEW required \in Nat, required >= 2, NEW written \in Nat,
           NEW part \in {"single", "tuple"},
           written + MCL_NULL_CHAR_SIZE <= required,
           part = "single" => written + 91 <= required,
           part = "tuple" => written + 19 <= required,
           IInv, AddPart(required, written, part)
    PROVE  IInv'
  <1> USE HttpRequestAssumptions, Sizes DEF IInv
  <1>1. CASE /\ ResizeTo(required, payload_size')
             /\ payload_offset' = payload_offset + written
             /\ extent' = payload_offset' + MCL_NULL_CHAR_SIZE
             /\ last' = part
             /\ status' = "MCL_OK"
    <2>1. /\ payload_size' \in Nat
          /\ payload_offset + required <= payload_size'
          /\ payload_size' <= MaxPayload
      BY <1>1, ResizeMakesRoom DEF TypeOK
    <2>2. payload_offset' \in Nat /\ extent' \in Nat
      BY <1>1 DEF TypeOK
    <2>3. asked' = required
      BY DEF AddPart
    <2>4. QED
      BY <1>1, <2>1, <2>2, <2>3 DEF TypeOK, WithinLimit, WritesInBounds, RoomLeft
  <1>2. CASE /\ status' = "MCL_HTTP_REQUEST_NO_MORE_SPACE"
             /\ UNCHANGED <<payload_size, payload_offset, extent, last>>
    <2>1. status # "FINAL" /\ asked' = required
      BY DEF AddPart
    <2>2. QED
      BY <1>2, <2>1 DEF TypeOK, WithinLimit, WritesInBounds, RoomLeft
  <1>3. QED
    BY <1>1, <1>2 DEF AddPart

LEMMA TuplePreservesIInv ==
    ASSUME NEW texts \in TextSizes, NEW copied \in TextSizes, IInv, AddTuple(texts, copied)
    PROVE  IInv'
  <1>1. texts \in Nat /\ copied \in Nat
    BY HttpRequestAssumptions
  <1>2. /\ RequiredForTuple(texts) = 232 + texts
        /\ WrittenByTuple(copied) = 213 + copied
        /\ MCL_NULL_CHAR_SIZE = 1
    BY Sizes DEF RequiredForTuple, WrittenByTuple
  <1>3. copied <= texts /\ AddPart(RequiredForTuple(texts), WrittenByTuple(copied), "tuple")
    BY DEF AddTuple
  <1>4. QED
    BY <1>1, <1>2, <1>3, AddPartPreservesIInv

LEMMA TupleFailsPreservesIInv ==
    ASSUME NEW texts \in TextSizes, IInv, AddTupleFails(texts)
    PROVE  IInv'
  <1>1. RequiredForTuple(texts) = 232 + texts /\ texts \in Nat
    BY HttpRequestAssumptions, Sizes DEF RequiredForTuple
  <1>2. ResizeTo(RequiredForTuple(texts), payload_size')
    BY DEF AddTupleFails
  <1>3. /\ payload_size' \in Nat
        /\ payload_offset + 232 + texts <= payload_size'
        /\ payload_size' <= MaxPayload
    BY <1>1, <1>2, ResizeMakesRoom DEF IInv, TypeOK
  <1>4. extent' = payload_offset + 27
    BY Sizes DEF AddTupleFails, OpenBoundary, BOUNDARY_LINE_LENGTH, BOUNDARY_SIGN_LENGTH,
                 BOUNDARY_LENGTH, NEW_LINE_LENGTH, MCL_NULL_CHAR_SIZE, IInv, TypeOK
  <1>5. QED
    BY <1>1, <1>3, <1>4, HttpRequestAssumptions
       DEF AddTupleFails, IInv, TypeOK, WithinLimit, WritesInBounds, RoomLeft

LEMMA SinglePreservesIInv ==
    ASSUME NEW texts \in TextSizes, IInv, AddSingle(texts)
    PROVE  IInv'
  <1>1. texts \in Nat
    BY HttpRequestAssumptions
  <1>2. /\ RequiredForSingle(texts) = 151 + texts
        /\ WrittenBySingle(texts) = 60 + texts
        /\ MCL_NULL_CHAR_SIZE = 1
    BY <1>1, Sizes DEF RequiredForSingle, WrittenBySingle
  <1>3. AddPart(RequiredForSingle(texts), WrittenBySingle(texts), "single")
    BY DEF AddSingle
  <1>4. QED
    BY <1>1, <1>2, <1>3, AddPartPreservesIInv

LEMMA InvariantHolds == Spec => []IInv
  <1>1. Init => IInv
    BY HttpRequestAssumptions DEF Init, IInv, TypeOK, WithinLimit, WritesInBounds, RoomLeft
  <1>2. IInv /\ [Next]_vars => IInv'
    <2> SUFFICES ASSUME IInv, [Next]_vars PROVE IInv'
      OBVIOUS
    <2>1. CASE \E texts, copied \in TextSizes : AddTuple(texts, copied)
      BY <2>1, TuplePreservesIInv
    <2>2. CASE \E texts \in TextSizes : AddTupleFails(texts) \/ AddSingle(texts)
      BY <2>2, SinglePreservesIInv, TupleFailsPreservesIInv
    <2>3. CASE Finalize
      BY <2>3, HttpRequestAssumptions, Sizes
         DEF Finalize, IInv, TypeOK, WithinLimit, WritesInBounds, RoomLeft
    <2>4. CASE UNCHANGED vars
      BY <2>4 DEF vars, IInv, TypeOK, WithinLimit, WritesInBounds, RoomLeft
    <2>5. QED
      BY <2>1, <2>2, <2>3, <2>4 DEF Next
  <1>3. QED
    BY <1>1, <1>2, PTL DEF Spec

\* Every variable of the buffer keeps its type.
THEOREM TypeCorrect == Spec => []TypeOK
  BY InvariantHolds, PTL DEF IInv

\* No function of http_request.c writes past the end of the payload buffer.
THEOREM BufferSafe == Spec => []WritesInBounds
  BY InvariantHolds, PTL DEF IInv

\* A body, and the buffer it is in, never exceed max_http_payload_size.
THEOREM LimitKept == Spec => []WithinLimit
  BY InvariantHolds, PTL DEF IInv

\* A request that ends with a single can be finalized.
THEOREM SingleFinalizes == Spec => []SingleLeavesRoom
  <1>1. IInv => SingleLeavesRoom
    BY HttpRequestAssumptions, Sizes DEF IInv, TypeOK, RoomLeft, SingleLeavesRoom
  <1>2. QED
    BY <1>1, InvariantHolds, PTL

\* A request that cannot be finalized is short of at most seven bytes.
THEOREM FinalizeBound == Spec => []FinalizeNearlyFits
  <1>1. IInv => FinalizeNearlyFits
    BY HttpRequestAssumptions, Sizes DEF IInv, TypeOK, RoomLeft, FinalizeNearlyFits
  <1>2. QED
    BY <1>1, InvariantHolds, PTL

\* NO_MORE_SPACE is the answer exactly when the space asked for is not left:
\* the steps in which the buffer grows make no difference.
THEOREM RefusalExact == Spec => RefusedExactlyWhenTooLong
  <1>1. ASSUME IInv, NEW required \in Nat, required >= 2, NEW written \in Nat, NEW part,
               AddPart(required, written, part)
        PROVE  status' = "MCL_HTTP_REQUEST_NO_MORE_SPACE" <=> required > MaxPayload - payload_offset
    <2>1. CASE ResizeTo(required, payload_size') /\ status' = "MCL_OK"
      BY <1>1, <2>1, ResizeMakesRoom, HttpRequestAssumptions DEF IInv, TypeOK
    <2>2. CASE NoMoreSpace(required) /\ status' = "MCL_HTTP_REQUEST_NO_MORE_SPACE"
      BY <1>1, <2>2, HttpRequestAssumptions DEF IInv, TypeOK, NoMoreSpace
    <2>3. QED
      BY <1>1, <2>1, <2>2 DEF AddPart
  <1>2. IInv /\ [Next]_vars =>
          [asked' # 0 => (status' = "MCL_HTTP_REQUEST_NO_MORE_SPACE"
                            <=> asked' > MaxPayload - payload_offset)]_vars
    <2> SUFFICES ASSUME IInv, Next, asked' # 0
                 PROVE  status' = "MCL_HTTP_REQUEST_NO_MORE_SPACE"
                          <=> asked' > MaxPayload - payload_offset
      OBVIOUS
    <2>1. ASSUME NEW texts \in TextSizes, NEW copied \in TextSizes, AddTuple(texts, copied)
          PROVE  status' = "MCL_HTTP_REQUEST_NO_MORE_SPACE"
                   <=> asked' > MaxPayload - payload_offset
      <3>1. /\ RequiredForTuple(texts) \in Nat /\ RequiredForTuple(texts) >= 2
            /\ WrittenByTuple(copied) \in Nat
        BY HttpRequestAssumptions, Sizes DEF RequiredForTuple, WrittenByTuple
      <3>2. AddPart(RequiredForTuple(texts), WrittenByTuple(copied), "tuple")
        BY <2>1 DEF AddTuple
      <3>3. asked' = RequiredForTuple(texts)
        BY <3>2 DEF AddPart
      <3>4. QED
        BY <1>1, <3>1, <3>2, <3>3
    <2>2. ASSUME NEW texts \in TextSizes, AddSingle(texts)
          PROVE  status' = "MCL_HTTP_REQUEST_NO_MORE_SPACE"
                   <=> asked' > MaxPayload - payload_offset
      <3>1. /\ RequiredForSingle(texts) \in Nat /\ RequiredForSingle(texts) >= 2
            /\ WrittenBySingle(texts) \in Nat
        BY HttpRequestAssumptions, Sizes DEF RequiredForSingle, WrittenBySingle
      <3>2. AddPart(RequiredForSingle(texts), WrittenBySingle(texts), "single")
        BY <2>2 DEF AddSingle
      <3>3. asked' = RequiredForSingle(texts)
        BY <3>2 DEF AddPart
      <3>4. QED
        BY <1>1, <3>1, <3>2, <3>3
    <2>3. CASE Finalize
      BY <2>3 DEF Finalize
    <2>4. ASSUME NEW texts \in TextSizes, AddTupleFails(texts)
          PROVE  status' = "MCL_HTTP_REQUEST_NO_MORE_SPACE"
                   <=> asked' > MaxPayload - payload_offset
      <3>1. /\ asked' = RequiredForTuple(texts)
            /\ ResizeTo(RequiredForTuple(texts), payload_size')
            /\ status' = "MCL_FAIL"
        BY <2>4 DEF AddTupleFails
      <3>2. RequiredForTuple(texts) \in Nat /\ RequiredForTuple(texts) >= 2
        BY HttpRequestAssumptions, Sizes DEF RequiredForTuple
      <3>3. payload_offset + RequiredForTuple(texts) <= payload_size' /\ payload_size' <= MaxPayload
            /\ payload_size' \in Nat
        BY <3>1, <3>2, ResizeMakesRoom DEF IInv, TypeOK
      <3>4. ~(asked' > MaxPayload - payload_offset)
        BY <3>1, <3>2, <3>3, HttpRequestAssumptions DEF IInv, TypeOK
      <3>5. QED
        BY <3>1, <3>4
    <2>5. QED
      BY <2>1, <2>2, <2>3, <2>4 DEF Next
  <1>3. QED
    BY <1>2, InvariantHolds, PTL DEF Spec, RefusedExactlyWhenTooLong

=============================================================================
