-------------------------------- MODULE Base64 --------------------------------
(***************************************************************************)
(* base64.c: encoding and decoding, one quantum (three bytes, or four      *)
(* characters) at a time, into buffers whose size is computed before.      *)
(* Characters are numbers, their codes; a size is small enough for four    *)
(* times of it to be computed in mcl_size_t.                               *)
(***************************************************************************)
EXTENDS Naturals, Sequences

CONSTANTS
    Bytes,      \* what may be encoded, a set of sequences of bytes
    Texts       \* what may be decoded besides, a set of sequences of characters

Byte == 0..255
Alphabets == {"base64", "base64_url"}
PADDING_CHAR == 61
QUANTUM_SIZE == 4
INPUT_GROUP_SIZE == 3

\* A text is a C string: it has no NUL.
ASSUME Base64Assumptions == Bytes \subseteq Seq(Byte) /\ Texts \subseteq Seq(1..255)

\* base64_encode_table and base64_url_encode_table.
EncodeTable(table, v) ==
    IF v < 26 THEN 65 + v
    ELSE IF v < 52 THEN 97 + (v - 26)
    ELSE IF v < 62 THEN 48 + (v - 52)
    ELSE IF table = "base64" THEN (IF v = 62 THEN 43 ELSE 47)
    ELSE (IF v = 62 THEN 45 ELSE 95)

NoValue == 255

\* base64_decode_table and base64_url_decode_table: 255 where there is no character.
DecodeTable(table, c) ==
    IF c \in 48..57 THEN c + 4
    ELSE IF c \in 65..90 THEN c - 65
    ELSE IF c \in 97..122 THEN c - 71
    ELSE IF table = "base64" /\ c \in {43, 47} THEN (IF c = 43 THEN 62 ELSE 63)
    ELSE IF table = "base64_url" /\ c \in {45, 95} THEN (IF c = 45 THEN 62 ELSE 63)
    ELSE NoValue

VARIABLES
    alphabet,   \* which pair of tables
    stage,      \* how far the call is
    data,       \* the bytes to encode
    text,       \* the characters
    taken,      \* how many bytes, or characters, are done
    output,     \* the bytes decoded so far
    allocated,  \* the size of the buffer that is written
    extent      \* the end of the bytes ever written to it

base64_vars == <<alphabet, stage, data, text, taken, output, allocated, extent>>

Base64Init ==
    /\ alphabet \in Alphabets /\ stage = "idle"
    /\ data = << >> /\ text = << >>
    /\ taken = 0 /\ output = << >>
    /\ allocated = 0 /\ extent = 0

-----------------------------------------------------------------------------
(* _encode_with_table                                                      *)

\* Mutant of EncodedSize: the last group is not counted.
EncodedSizeOfGroups(n) == (n \div INPUT_GROUP_SIZE) * QUANTUM_SIZE + 1
EncodedSize(n) == (n * QUANTUM_SIZE) \div INPUT_GROUP_SIZE + QUANTUM_SIZE

\* How many bytes the next group has, and the bytes; those that are missing are 0.
Parts == IF Len(data) - taken < INPUT_GROUP_SIZE THEN Len(data) - taken ELSE INPUT_GROUP_SIZE
InputBuffer == [i \in 1..INPUT_GROUP_SIZE |-> IF taken + i <= Len(data) THEN data[taken + i] ELSE 0]

\* Four values of six bits.
\* Mutant of OutputBuffer: the bits of the third byte in the third value are forgotten.
ThreeValues(b) == <<b[1] \div 4, (b[1] % 4) * 16 + b[2] \div 16, (b[2] % 16) * 4, b[3] % 64>>
OutputBuffer(b) == <<b[1] \div 4,
                     (b[1] % 4) * 16 + b[2] \div 16,
                     (b[2] % 16) * 4 + b[3] \div 64,
                     b[3] % 64>>

\* The quantum, with padding for missing bytes.
Encoded(b, parts) ==
    [i \in 1..QUANTUM_SIZE |-> IF i > parts + 1 THEN PADDING_CHAR
                               ELSE EncodeTable(alphabet, OutputBuffer(b)[i])]

StartEncoding ==
    /\ stage = "idle"
    /\ data' \in Bytes
    /\ stage' = "encoding"
    /\ allocated' = EncodedSize(Len(data'))
    /\ UNCHANGED <<alphabet, text, taken, output, extent>>

EncodeQuantum ==
    /\ stage = "encoding" /\ taken < Len(data)
    /\ text' = text \o Encoded(InputBuffer, Parts)
    /\ taken' = taken + Parts
    /\ extent' = Len(text')
    /\ UNCHANGED <<alphabet, stage, data, output, allocated>>

\* The NUL at the end.
EndEncoding ==
    /\ stage = "encoding" /\ taken = Len(data)
    /\ stage' = "encoded"
    /\ extent' = Len(text) + 1
    /\ UNCHANGED <<alphabet, data, text, taken, output, allocated>>

-----------------------------------------------------------------------------
(* _decode_with_table                                                      *)

\* The scan stops at the first padding character, counts one more that follows, and
\* must be at the end then: the padding is what the text ends with, and nowhere else.
PaddedBy(t, p) == \A i \in 1..Len(t) : t[i] = PADDING_CHAR <=> i > Len(t) - p
Padding(t) == CHOOSE p \in 0..2 : PaddedBy(t, p)
WellPadded(t) ==
    /\ Len(t) > 0 /\ Len(t) % QUANTUM_SIZE = 0
    /\ \E p \in 0..2 : PaddedBy(t, p)

RawLength(t) == (Len(t) \div QUANTUM_SIZE) * INPUT_GROUP_SIZE - Padding(t)

\* What is decoded is what was encoded, or a text from elsewhere.
Given == IF stage = "encoded" THEN {text} ELSE Texts

StartDecoding ==
    /\ stage \in {"idle", "encoded"}
    /\ text' \in Given /\ WellPadded(text')
    /\ stage' = "decoding"
    /\ allocated' = RawLength(text') + 1
    /\ taken' = 0 /\ extent' = 0
    /\ UNCHANGED <<alphabet, data, output>>

RefuseText ==
    /\ stage \in {"idle", "encoded"}
    /\ text' \in Given /\ ~WellPadded(text')
    /\ stage' = "refused"
    /\ allocated' = 0 /\ extent' = 0
    /\ UNCHANGED <<alphabet, data, taken, output>>

Quantum == [i \in 1..QUANTUM_SIZE |-> text[taken + i]]
IsPadding(i) == Quantum[i] = PADDING_CHAR
PaddingOfQuantum ==
    LET One(i) == IF IsPadding(i) THEN 1 ELSE 0 IN One(1) + One(2) + One(3) + One(4)

\* _decode_quantum looks at the characters one by one; two paddings are the most.
Decodable ==
    /\ \A i \in 1..QUANTUM_SIZE : IsPadding(i) \/ DecodeTable(alphabet, Quantum[i]) # NoValue
    /\ PaddingOfQuantum < 3

Value(i) == IF IsPadding(i) THEN 0 ELSE DecodeTable(alphabet, Quantum[i])
Bits == ((Value(1) * 64 + Value(2)) * 64 + Value(3)) * 64 + Value(4)
Decoded == SubSeq(<<Bits \div 65536, (Bits \div 256) % 256, Bits % 256>>, 1, 3 - PaddingOfQuantum)

DecodeQuantum ==
    /\ stage = "decoding" /\ taken < Len(text) /\ Decodable
    /\ output' = output \o Decoded
    /\ taken' = taken + QUANTUM_SIZE
    /\ extent' = Len(output')
    /\ UNCHANGED <<alphabet, stage, data, text, allocated>>

RefuseQuantum ==
    /\ stage = "decoding" /\ taken < Len(text) /\ ~Decodable
    /\ stage' = "refused"
    /\ allocated' = 0 /\ extent' = 0    \* the buffer is freed
    /\ UNCHANGED <<alphabet, data, text, taken, output>>

EndDecoding ==
    /\ stage = "decoding" /\ taken = Len(text)
    /\ stage' = "decoded"
    /\ extent' = Len(output) + 1
    /\ UNCHANGED <<alphabet, data, text, taken, output, allocated>>

\* The call has returned.
Returned == stage \in {"decoded", "refused"} /\ UNCHANGED base64_vars

Base64Next ==
    \/ StartEncoding \/ EncodeQuantum \/ EndEncoding
    \/ StartDecoding \/ RefuseText \/ DecodeQuantum \/ RefuseQuantum \/ EndDecoding
    \/ Returned

Base64Spec == Base64Init /\ [][Base64Next]_base64_vars

-----------------------------------------------------------------------------
\* Neither direction writes past its buffer, whose size encoding computes with a
\* division that truncates and decoding from the padding of the whole text, where the
\* quantums are written by the padding of each; and the size decoding returns is
\* that of what it has written.
WritesWithinBuffer ==
    /\ extent <= allocated
    /\ stage = "decoded" => RawLength(text) = Len(output)

\* What was encoded is decoded to the same bytes, and only the empty text is refused.
\* A text from elsewhere that is decoded has characters of the alphabet only, and its
\* padding at the end.
DecodingIsInverse ==
    /\ stage = "decoded" /\ data # << >> => output = data
    /\ stage = "refused" => data = << >>
    /\ stage = "decoded" =>
        \A i \in 1..Len(text) :
            \/ DecodeTable(alphabet, text[i]) # NoValue
            \/ text[i] = PADDING_CHAR /\ i > Len(text) - 2
=============================================================================
