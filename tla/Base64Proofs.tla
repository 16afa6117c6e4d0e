----------------------------- MODULE Base64Proofs -----------------------------
(***************************************************************************)
(* For every sequence of bytes and every text: base64.c stays within the   *)
(* buffers whose sizes it has computed before, and the size it returns is  *)
(* that of what it has decoded.                                            *)
(***************************************************************************)
EXTENDS Base64, SequenceTheorems, TLAPS

\* How many quantums n bytes take.
Quantums(n) == (n + 2) \div 3

\* The truncating division leaves room for the last quantum and the NUL.
LEMMA EncodedSizeSuffices ==
    ASSUME NEW n \in Nat
    PROVE  /\ EncodedSize(n) \in Nat
           /\ 4 * Quantums(n) + 1 <= EncodedSize(n)
  BY DEF EncodedSize, Quantums, QUANTUM_SIZE, INPUT_GROUP_SIZE

\* The next group of k bytes taken out of n.
LEMMA NextGroup ==
    ASSUME NEW n \in Nat, NEW k \in Nat, k < n, k % 3 = 0,
           NEW j, j = IF n - k < 3 THEN n ELSE k + 3
    PROVE  /\ j \in Nat /\ j <= n /\ j > k
           /\ j % 3 = 0 \/ j = n
           /\ Quantums(j) = Quantums(k) + 1
           /\ Quantums(j) <= Quantums(n)
  BY DEF Quantums

\* The next quantum of k characters taken out of n, of which p are padding.
LEMMA NextQuantum ==
    ASSUME NEW n \in Nat, NEW k \in Nat, NEW p \in 0..2, k < n, k % 4 = 0, n % 4 = 0
    PROVE  /\ k + 4 <= n /\ (k + 4) % 4 = 0
           /\ \A q \in 0..2 : 3 * (k \div 4) + (3 - q) = 3 * ((k + 4) \div 4) - q
           /\ 3 * ((k + 4) \div 4) - (IF k + 4 = n THEN p ELSE 0) <= 3 * (n \div 4) - p
  OBVIOUS

LEMMA FourAreASequence ==
    ASSUME NEW e \in [1..4 -> Nat]
    PROVE  e \in Seq(Nat) /\ Len(e) = 4
<1>1. [1..4 -> Nat] \in {[1..n -> Nat] : n \in Nat}
  OBVIOUS
<1>2. e \in Seq(Nat)
  BY <1>1, SeqDef
<1>3. Len(e) \in Nat /\ 1..Len(e) = 1..4
  BY <1>2, LenProperties
<1> QED BY <1>2, <1>3

LEMMA TextsJoined ==
    ASSUME NEW t \in Seq(Nat), NEW u \in Seq(Nat)
    PROVE  /\ t \o u \in Seq(Nat) /\ Len(t \o u) = Len(t) + Len(u)
           /\ Len(t) \in Nat /\ Len(u) \in Nat
           /\ \A k \in 1..Len(t) : (t \o u)[k] = t[k]
           /\ \A k \in 1..Len(u) : (t \o u)[Len(t) + k] = u[k]
  OBVIOUS

LEMMA BytesAreNaturals == 0 \in Byte /\ \A b \in Byte : b \in Nat /\ b \in 0..255
  BY DEF Byte

\* What is written so far: a quantum for each group taken, or its bytes for each
\* quantum taken, those of the last one less the padding of the text.
EncodingInv ==
    /\ taken <= Len(data)
    /\ taken % 3 = 0 \/ taken = Len(data)
    /\ Len(text) = 4 * Quantums(taken)
    /\ extent = Len(text)
    /\ allocated = EncodedSize(Len(data))
DecodingInv ==
    /\ WellPadded(text)
    /\ taken <= Len(text) /\ taken % 4 = 0
    /\ Len(output) = 3 * (taken \div 4) - (IF taken = Len(text) THEN Padding(text) ELSE 0)
    /\ extent = Len(output)
    /\ allocated = RawLength(text) + 1

Base64TypeOK ==
    /\ data \in Seq(Byte) /\ text \in Seq(Nat) /\ output \in Seq(Nat)
    /\ taken \in Nat /\ extent \in Nat /\ allocated \in Nat

Base64IInv ==
    /\ Base64TypeOK
    /\ stage = "idle" => taken = 0 /\ text = << >> /\ output = << >> /\ extent = 0
    /\ stage \in {"encoding", "encoded"} => output = << >>
    /\ stage = "encoding" => EncodingInv
    /\ stage = "decoding" => DecodingInv
    /\ WritesWithinBuffer

-----------------------------------------------------------------------------
(* Padding *)

\* A text that is not empty has one padding.
LEMMA PaddingOfText ==
    ASSUME NEW t \in Seq(Nat), WellPadded(t)
    PROVE  /\ Padding(t) \in 0..2
           /\ \A i \in 1..Len(t) : t[i] = PADDING_CHAR <=> i > Len(t) - Padding(t)
           /\ Len(t) \in Nat /\ Len(t) >= 4 /\ Len(t) % 4 = 0
           /\ RawLength(t) \in Nat
           /\ RawLength(t) = 3 * (Len(t) \div 4) - Padding(t)
<1>1. /\ Padding(t) \in 0..2
      /\ PaddedBy(t, Padding(t))
  BY DEF WellPadded, Padding
<1>2. /\ Len(t) \in Nat /\ Len(t) >= 4 /\ Len(t) % 4 = 0
  BY DEF WellPadded, QUANTUM_SIZE
<1>3. RawLength(t) = 3 * (Len(t) \div 4) - Padding(t)
  BY <1>1, <1>2 DEF RawLength, QUANTUM_SIZE, INPUT_GROUP_SIZE
<1> QED BY <1>1, <1>2, <1>3 DEF PaddedBy

\* Only the last quantum has padding, and all of it.
LEMMA PaddingOfLastQuantum ==
    ASSUME text \in Seq(Nat), taken \in Nat, taken % 4 = 0, taken < Len(text), WellPadded(text)
    PROVE  /\ taken + 4 <= Len(text)
           /\ PaddingOfQuantum = IF taken + 4 = Len(text) THEN Padding(text) ELSE 0
<1>1. /\ Padding(text) \in 0..2
      /\ \A i \in 1..Len(text) : text[i] = PADDING_CHAR <=> i > Len(text) - Padding(text)
      /\ Len(text) \in Nat /\ Len(text) % 4 = 0
  BY PaddingOfText
<1>2. taken + 4 <= Len(text)
  BY <1>1
<1>3. \A i \in 1..4 : IsPadding(i) <=> taken + i > Len(text) - Padding(text)
  <2> TAKE i \in 1..4
  <2>1. taken + i \in 1..Len(text)
    <3>1. Len(text) \in Nat
      BY <1>1
    <3> QED BY <1>2, <3>1
  <2>2. Quantum[i] = text[taken + i]
    BY DEF Quantum, QUANTUM_SIZE
  <2> QED BY <1>1, <2>1, <2>2 DEF IsPadding
<1>4. CASE taken + 4 = Len(text)
  <2>1. /\ ~IsPadding(1) /\ ~IsPadding(2)
        /\ IsPadding(3) <=> Padding(text) = 2
        /\ IsPadding(4) <=> Padding(text) # 0
    <3>1. Padding(text) \in 0..2
      BY <1>1
    <3>2. \A i \in 1..4 : IsPadding(i) <=> i > 4 - Padding(text)
      <4> TAKE i \in 1..4
      <4>1. taken + i > Len(text) - Padding(text) <=> i > 4 - Padding(text)
        BY <1>4, <3>1
      <4>2. IsPadding(i) <=> taken + i > Len(text) - Padding(text)
        BY <1>3
      <4> QED BY <4>1, <4>2
    <3> QED BY <3>1, <3>2
  <2> QED BY <1>1, <1>2, <1>4, <2>1 DEF PaddingOfQuantum
<1>5. CASE taken + 4 # Len(text)
  <2>1. taken + 8 <= Len(text)
    BY <1>1, <1>2, <1>5
  <2>2. \A i \in 1..4 : ~(taken + i > Len(text) - Padding(text))
    <3>1. Padding(text) \in 0..2 /\ Len(text) \in Nat
      BY <1>1
    <3> QED BY <2>1, <3>1
  <2>3. ~IsPadding(1) /\ ~IsPadding(2) /\ ~IsPadding(3) /\ ~IsPadding(4)
    BY <1>3, <2>2
  <2> QED BY <1>2, <1>5, <2>3 DEF PaddingOfQuantum
<1> QED BY <1>4, <1>5

-----------------------------------------------------------------------------
(* What a quantum adds                                                     *)

LEMMA SixBits ==
    ASSUME NEW x \in Nat, NEW y \in Nat, NEW z \in Nat
    PROVE  /\ x \div 4 \in Nat
           /\ (x % 4) * 16 + y \div 16 \in Nat
           /\ (y % 16) * 4 + z \div 64 \in Nat
           /\ z % 64 \in Nat
  OBVIOUS

LEMMA EncodedQuantum ==
    ASSUME data \in Seq(Byte), taken \in Nat, taken <= Len(data)
    PROVE  Encoded(InputBuffer, Parts) \in [1..4 -> Nat]
<1>1. InputBuffer \in [1..3 -> Byte]
  <2> SUFFICES ASSUME NEW i \in 1..3, taken + i <= Len(data)
               PROVE  data[taken + i] \in Byte
    BY DEF InputBuffer, INPUT_GROUP_SIZE, Byte
  <2> QED BY Len(data) \in Nat
<1>2. \A i \in 1..3 : InputBuffer[i] \in Nat
  <2>1. \A i \in 1..3 : InputBuffer[i] \in Byte
    BY <1>1
  <2> QED BY <2>1, BytesAreNaturals
<1>3. \A i \in 1..4 : OutputBuffer(InputBuffer)[i] \in Nat
  <2> DEFINE b == InputBuffer
  <2>1. b[1] \in Nat /\ b[2] \in Nat /\ b[3] \in Nat
    BY <1>2
  <2> HIDE DEF b
  <2>2. /\ b[1] \div 4 \in Nat
        /\ (b[1] % 4) * 16 + b[2] \div 16 \in Nat
        /\ (b[2] % 16) * 4 + b[3] \div 64 \in Nat
        /\ b[3] % 64 \in Nat
    BY <2>1, SixBits
  <2>3. /\ OutputBuffer(b)[1] \in Nat /\ OutputBuffer(b)[2] \in Nat
        /\ OutputBuffer(b)[3] \in Nat /\ OutputBuffer(b)[4] \in Nat
    BY <2>2 DEF OutputBuffer
  <2>4. \A i \in 1..4 : OutputBuffer(b)[i] \in Nat
    BY <2>3
  <2> QED BY <2>4 DEF b
<1>4. \A v \in Nat : EncodeTable(alphabet, v) \in Nat
  BY DEF EncodeTable
<1> QED BY <1>3, <1>4 DEF Encoded, QUANTUM_SIZE, PADDING_CHAR

LEMMA EncodedText ==
    ASSUME data \in Seq(Byte), text \in Seq(Nat), taken \in Nat, taken <= Len(data), EncodeQuantum
    PROVE  text' \in Seq(Nat) /\ Len(text') = Len(text) + 4
<1>1. Encoded(InputBuffer, Parts) \in [1..4 -> Nat]
  BY EncodedQuantum
<1>2. text' = text \o Encoded(InputBuffer, Parts)
  BY DEF EncodeQuantum
<1> DEFINE e == Encoded(InputBuffer, Parts)
<1>3. e \in Seq(Nat) /\ Len(e) = 4
  BY <1>1, FourAreASequence
<1> HIDE DEF e
<1>4. text \o e \in Seq(Nat) /\ Len(text \o e) = Len(text) + Len(e)
  BY <1>3, TextsJoined
<1> QED BY <1>2, <1>3, <1>4 DEF e

LEMMA TakenGroup ==
    ASSUME data \in Seq(Byte), taken \in Nat, taken < Len(data), EncodeQuantum,
           taken % 3 = 0 \/ taken = Len(data)
    PROVE  /\ taken' \in Nat /\ taken' <= Len(data) /\ taken' > taken
           /\ taken' % 3 = 0 \/ taken' = Len(data)
           /\ Quantums(taken') = Quantums(taken) + 1
           /\ Quantums(taken') <= Quantums(Len(data))
<1> DEFINE n == Len(data)
<1>1. n \in Nat /\ taken < n /\ taken % 3 = 0
  BY LenProperties
<1>2. taken' = taken + Parts /\ Parts = IF n - taken < 3 THEN n - taken ELSE 3
  BY DEF EncodeQuantum, Parts, INPUT_GROUP_SIZE
<1> HIDE DEF n
<1>3. taken' = IF n - taken < 3 THEN n ELSE taken + 3
  BY <1>1, <1>2
<1>4. /\ taken' \in Nat /\ taken' <= n /\ taken' > taken
      /\ taken' % 3 = 0 \/ taken' = n
      /\ Quantums(taken') = Quantums(taken) + 1
      /\ Quantums(taken') <= Quantums(n)
  BY <1>1, <1>3, NextGroup
<1> QED BY <1>4 DEF n

LEMMA DecodeTableType ==
    ASSUME NEW table, NEW c \in Nat
    PROVE  DecodeTable(table, c) \in Nat
<1>1. CASE c \in 48..57 \/ c \in 65..90 \/ c \in 97..122
  BY <1>1 DEF DecodeTable
<1>2. CASE ~(c \in 48..57 \/ c \in 65..90 \/ c \in 97..122)
  BY <1>2 DEF DecodeTable, NoValue
<1> QED BY <1>1, <1>2

LEMMA BitsType ==
    ASSUME NEW v1 \in Nat, NEW v2 \in Nat, NEW v3 \in Nat, NEW v4 \in Nat
    PROVE  ((v1 * 64 + v2) * 64 + v3) * 64 + v4 \in Nat
  OBVIOUS

LEMMA DecodedQuantum ==
    ASSUME text \in Seq(Nat), taken \in Nat, taken + 4 <= Len(text), PaddingOfQuantum \in 0..2
    PROVE  /\ Decoded \in Seq(Nat)
           /\ Len(Decoded) = 3 - PaddingOfQuantum
<1>1. \A i \in 1..4 : Value(i) \in Nat
  <2> TAKE i \in 1..4
  <2>1. Quantum[i] \in Nat
    <3>1. taken + i \in 1..Len(text)
      OBVIOUS
    <3> QED BY <3>1 DEF Quantum, QUANTUM_SIZE
  <2>2. DecodeTable(alphabet, Quantum[i]) \in Nat
    BY <2>1, DecodeTableType
  <2> QED BY <2>2 DEF Value
<1>2. Bits \in Nat
  <2>1. Value(1) \in Nat /\ Value(2) \in Nat /\ Value(3) \in Nat /\ Value(4) \in Nat
    BY <1>1
  <2> QED BY <2>1, BitsType DEF Bits
<1>3. Bits \div 65536 \in Nat /\ (Bits \div 256) % 256 \in Nat /\ Bits % 256 \in Nat
  BY <1>2
<1> DEFINE s == <<Bits \div 65536, (Bits \div 256) % 256, Bits % 256>>
<1>4. s[1] \in Nat /\ s[2] \in Nat /\ s[3] \in Nat
  BY <1>3
<1> HIDE DEF s
<1>5. 3 - PaddingOfQuantum \in 1..3
  BY SMT
<1>6. \A i \in 1..(3 - PaddingOfQuantum) : s[i] \in Nat
  <2>1. \A i \in 1..3 : s[i] \in Nat
    BY <1>4
  <2>2. 1..(3 - PaddingOfQuantum) \subseteq 1..3
    BY <1>5
  <2> QED BY <2>1, <2>2
<1>7. /\ SubSeq(s, 1, 3 - PaddingOfQuantum) \in Seq(Nat)
      /\ Len(SubSeq(s, 1, 3 - PaddingOfQuantum)) = 3 - PaddingOfQuantum
  BY <1>5, <1>6, SubSeqProperties
<1>8. Decoded = SubSeq(s, 1, 3 - PaddingOfQuantum)
  BY DEF Decoded, s
<1> QED BY <1>7, <1>8

-----------------------------------------------------------------------------
(* The invariant                                                           *)

LEMMA InitImpliesIInv == Base64Init => Base64IInv
  BY DEF Base64Init, Base64IInv, Base64TypeOK, WritesWithinBuffer

LEMMA StepKeepsIInv ==
    ASSUME Base64IInv, [Base64Next]_base64_vars
    PROVE  Base64IInv'
<1> USE DEF Base64IInv
<1>1. CASE StartEncoding
  <2>1. data' \in Seq(Byte)
    BY <1>1, Base64Assumptions DEF StartEncoding
  <2>2. Len(data') \in Nat /\ EncodedSize(Len(data')) \in Nat
    BY <2>1, EncodedSizeSuffices
  <2>3. Base64TypeOK'
    BY <1>1, <2>1, <2>2 DEF StartEncoding, Base64TypeOK
  <2>4. EncodingInv'
    BY <1>1, <2>2 DEF StartEncoding, EncodingInv, Quantums
  <2>5. WritesWithinBuffer'
    BY <1>1, <2>2 DEF StartEncoding, WritesWithinBuffer
  <2> QED BY <1>1, <2>3, <2>4, <2>5 DEF StartEncoding
<1>2. CASE EncodeQuantum
  <2> USE DEF Base64TypeOK
  <2>1. EncodingInv /\ Len(data) \in Nat /\ taken < Len(data)
    BY <1>2 DEF EncodeQuantum
  <2>3. text' \in Seq(Nat) /\ Len(text') = Len(text) + 4
    BY <1>2, EncodedText DEF EncodeQuantum, EncodingInv
  <2>4. /\ taken' \in Nat /\ taken' <= Len(data) /\ taken' > taken
        /\ taken' % 3 = 0 \/ taken' = Len(data)
        /\ Quantums(taken') = Quantums(taken) + 1
        /\ Quantums(taken') <= Quantums(Len(data))
    BY <1>2, <2>1, TakenGroup DEF EncodeQuantum, EncodingInv
  <2>5. extent' = Len(text') /\ extent' <= allocated
    <3>1. 4 * Quantums(Len(data)) + 1 <= EncodedSize(Len(data))
      BY <2>1, EncodedSizeSuffices
    <3>3. Len(text') = 4 * Quantums(taken')
      BY <2>1, <2>3, <2>4 DEF EncodingInv, Quantums
    <3> QED BY <1>2, <2>1, <2>3, <2>4, <3>1, <3>3 DEF EncodeQuantum, EncodingInv, Quantums
  <2>6. EncodingInv'
    BY <1>2, <2>1, <2>3, <2>4, <2>5 DEF EncodeQuantum, EncodingInv, Quantums
  <2>7. WritesWithinBuffer'
    BY <1>2, <2>5 DEF EncodeQuantum, WritesWithinBuffer
  <2> QED BY <1>2, <2>3, <2>4, <2>5, <2>6, <2>7 DEF EncodeQuantum
<1>3. CASE EndEncoding
  <2> USE DEF Base64TypeOK
  <2>1. EncodingInv /\ Len(data) \in Nat /\ Len(text) \in Nat
    BY <1>3 DEF EndEncoding
  <2>2. Len(text) + 1 <= allocated
    BY <1>3, <2>1, EncodedSizeSuffices DEF EndEncoding, EncodingInv
  <2> QED BY <1>3, <2>1, <2>2 DEF EndEncoding, WritesWithinBuffer
<1>4. CASE StartDecoding
  <2>1. /\ output = << >>
        /\ text' \in Seq(Nat)
    <3>1. stage = "idle" => text' \in Seq(1..255)
      BY <1>4, Base64Assumptions DEF StartDecoding, Given
    <3>2. stage = "encoded" => text' = text
      BY <1>4 DEF StartDecoding, Given
    <3>3. \A t \in Seq(1..255) : t \in Seq(Nat)
      BY 1..255 \subseteq Nat, SeqMonotonic
    <3> QED BY <1>4, <3>1, <3>2, <3>3 DEF StartDecoding, Base64TypeOK
  <2>2. WellPadded(text')
    BY <1>4 DEF StartDecoding
  <2>3. /\ Len(text') \in Nat /\ Len(text') >= 4
        /\ RawLength(text') \in Nat
    BY <2>1, <2>2, PaddingOfText
  <2>4. Base64TypeOK'
    BY <1>4, <2>1, <2>3 DEF StartDecoding, Base64TypeOK
  <2>5. DecodingInv'
    BY <1>4, <2>1, <2>2, <2>3 DEF StartDecoding, DecodingInv
  <2> QED BY <1>4, <2>3, <2>4, <2>5 DEF StartDecoding, WritesWithinBuffer
<1>5. CASE RefuseText
  <2>1. text' \in Seq(Nat)
    <3>1. stage = "idle" => text' \in Seq(1..255)
      BY <1>5, Base64Assumptions DEF RefuseText, Given
    <3>2. stage = "encoded" => text' = text
      BY <1>5 DEF RefuseText, Given
    <3>3. \A t \in Seq(1..255) : t \in Seq(Nat)
      BY 1..255 \subseteq Nat, SeqMonotonic
    <3> QED BY <1>5, <3>1, <3>2, <3>3 DEF RefuseText, Base64TypeOK
  <2> QED BY <1>5, <2>1 DEF RefuseText, Base64TypeOK, WritesWithinBuffer
<1>6. CASE DecodeQuantum
  <2> USE DEF Base64TypeOK
  <2>1. DecodingInv /\ WellPadded(text) /\ taken < Len(text) /\ taken % 4 = 0
    BY <1>6 DEF DecodeQuantum, DecodingInv
  <2>2. /\ Padding(text) \in 0..2
        /\ Len(text) \in Nat /\ Len(text) % 4 = 0
        /\ RawLength(text) \in Nat
        /\ RawLength(text) = 3 * (Len(text) \div 4) - Padding(text)
    BY <2>1, PaddingOfText
  <2>3. /\ taken + 4 <= Len(text)
        /\ PaddingOfQuantum = IF taken + 4 = Len(text) THEN Padding(text) ELSE 0
    BY <2>1, PaddingOfLastQuantum
  <2>4. /\ Decoded \in Seq(Nat)
        /\ Len(Decoded) = 3 - PaddingOfQuantum
    BY <2>2, <2>3, DecodedQuantum
  <2>5. output' \in Seq(Nat) /\ Len(output') = Len(output) + Len(Decoded)
    BY <1>6, <2>4 DEF DecodeQuantum
  <2>6. taken' = taken + 4
    BY <1>6 DEF DecodeQuantum, QUANTUM_SIZE
  <2>7. Len(output) = 3 * (taken \div 4)
    BY <2>1 DEF DecodingInv
  <2>8. Len(output') = 3 * (taken' \div 4) - (IF taken' = Len(text) THEN Padding(text) ELSE 0)
    <3>1. /\ PaddingOfQuantum \in 0..2
          /\ PaddingOfQuantum = IF taken' = Len(text) THEN Padding(text) ELSE 0
      BY <2>2, <2>3, <2>6
    <3>2. Len(output') = 3 * (taken \div 4) + (3 - PaddingOfQuantum)
      BY <2>4, <2>5, <2>7
    <3>3. Len(output') = 3 * (taken' \div 4) - PaddingOfQuantum
      BY <2>1, <2>2, <2>6, <3>1, <3>2, NextQuantum
    <3> QED BY <3>1, <3>3
  <2>9. taken' <= Len(text) /\ taken' % 4 = 0 /\ taken' \in Nat
    BY <2>1, <2>3, <2>6
  <2>10. Len(output') <= RawLength(text) /\ Len(output') \in Nat
    <3>1. Len(output') \in Nat
      BY <2>5
    <3>2. 3 * ((taken + 4) \div 4) - (IF taken + 4 = Len(text) THEN Padding(text) ELSE 0)
              <= 3 * (Len(text) \div 4) - Padding(text)
      BY <2>1, <2>2, NextQuantum
    <3> QED BY <2>2, <2>6, <2>8, <3>1, <3>2
  <2>11. /\ extent' = Len(output')
         /\ UNCHANGED <<alphabet, stage, data, text, allocated>>
         /\ stage = "decoding"
    BY <1>6 DEF DecodeQuantum
  <2>12. allocated = RawLength(text) + 1
    BY <2>1 DEF DecodingInv
  <2>13. DecodingInv'
    BY <2>1, <2>8, <2>9, <2>11, <2>12 DEF DecodingInv
  <2>14. WritesWithinBuffer'
    BY <2>2, <2>10, <2>11, <2>12 DEF WritesWithinBuffer
  <2> QED BY <2>5, <2>9, <2>10, <2>11, <2>13, <2>14
<1>7. CASE RefuseQuantum
  BY <1>7 DEF RefuseQuantum, Base64TypeOK, WritesWithinBuffer
<1>8. CASE EndDecoding
  <2> USE DEF Base64TypeOK
  <2>1. DecodingInv
    BY <1>8 DEF EndDecoding
  <2>2. /\ RawLength(text) = 3 * (Len(text) \div 4) - Padding(text)
        /\ Padding(text) \in 0..2 /\ Len(text) \in Nat
    BY <2>1, PaddingOfText DEF DecodingInv
  <2>3. Len(output) = RawLength(text) /\ Len(output) \in Nat
    BY <1>8, <2>1, <2>2 DEF EndDecoding, DecodingInv
  <2> QED BY <1>8, <2>1, <2>3 DEF EndDecoding, DecodingInv, WritesWithinBuffer
<1>9. CASE Returned \/ UNCHANGED base64_vars
  BY <1>9 DEF Returned, base64_vars, Base64TypeOK, EncodingInv, DecodingInv, WritesWithinBuffer
<1> QED BY <1>1, <1>2, <1>3, <1>4, <1>5, <1>6, <1>7, <1>8, <1>9 DEF Base64Next

\* Neither direction writes past its buffer, and decoding returns the size of what it
\* has written, for every sequence of bytes and every text.
THEOREM WritesStayWithinBuffer == Base64Spec => []WritesWithinBuffer
<1>1. Base64IInv => WritesWithinBuffer
  BY DEF Base64IInv
<1> QED BY <1>1, InitImpliesIInv, StepKeepsIInv, PTL DEF Base64Spec

-----------------------------------------------------------------------------
(* Decoding what was encoded                                               *)

\* The group of bytes that follows the first g, and the quantum it becomes.
Group(g) == [j \in 1..3 |-> IF g + j <= Len(data) THEN data[g + j] ELSE 0]
PartsAt(g) == IF Len(data) - g < 3 THEN Len(data) - g ELSE 3
Char(g, i) == Encoded(Group(g), PartsAt(g))[i]

\* The text is that of the first n bytes, or begins with it.
EncodedFrom(n) == \A g \in 0..(n - 1), i \in 1..4 : g % 3 = 0 => text[4 * (g \div 3) + i] = Char(g, i)
Complete == EncodedFrom(Len(data)) /\ Len(text) = 4 * Quantums(Len(data))

RoundInv ==
    /\ alphabet \in Alphabets
    /\ stage = "idle" => data = << >>
    /\ stage = "encoding" => EncodedFrom(taken)
    /\ stage = "encoded" => Complete
    /\ stage = "decoding" /\ data # << >> => Complete /\ \A i \in 1..Len(output) : output[i] = data[i]
    /\ stage = "decoding" =>
        \A i \in 1..taken : text[i] = PADDING_CHAR \/ DecodeTable(alphabet, text[i]) # NoValue
    /\ DecodingIsInverse

\* The tables are each other's inverse, and padding is in neither.
LEMMA TablesAreInverse ==
    ASSUME NEW table \in Alphabets, NEW v \in 0..63
    PROVE  /\ EncodeTable(table, v) \in Nat
           /\ EncodeTable(table, v) # PADDING_CHAR
           /\ DecodeTable(table, EncodeTable(table, v)) = v
<1>1. CASE v < 26
  BY <1>1 DEF EncodeTable, DecodeTable, PADDING_CHAR
<1>2. CASE v >= 26 /\ v < 52
  BY <1>2 DEF EncodeTable, DecodeTable, PADDING_CHAR
<1>3. CASE v >= 52 /\ v < 62
  BY <1>3 DEF EncodeTable, DecodeTable, PADDING_CHAR
<1>4. CASE v = 62
  BY <1>4 DEF EncodeTable, DecodeTable, PADDING_CHAR, Alphabets
<1>5. CASE v = 63
  BY <1>5 DEF EncodeTable, DecodeTable, PADDING_CHAR, Alphabets
<1> QED BY <1>1, <1>2, <1>3, <1>4, <1>5

\* The four values of six bits are the three bytes.
LEMMA Remainders ==
    ASSUME NEW x \in Nat, NEW d \in {4, 16, 64}, NEW q, NEW m, q = x \div d, m = x % d
    PROVE  x = d * q + m /\ q \in Nat /\ m \in Nat
<1>1. CASE d = 4
  BY <1>1
<1>2. CASE d = 16
  BY <1>2
<1>3. CASE d = 64
  BY <1>3
<1> QED BY <1>1, <1>2, <1>3

LEMMA BitsOfValues ==
    ASSUME NEW a1 \in Nat, NEW a2 \in Nat, NEW b1 \in Nat, NEW b2 \in Nat, NEW c1 \in Nat, NEW c2 \in Nat
    PROVE  ((a1 * 64 + (a2 * 16 + b1)) * 64 + (b2 * 4 + c1)) * 64 + c2
               = (4 * a1 + a2) * 65536 + (16 * b1 + b2) * 256 + (64 * c1 + c2)
  OBVIOUS

\* What decoding joins from the four values.
Joined(a, b, c) == (((a \div 4) * 64 + ((a % 4) * 16 + b \div 16)) * 64
                    + ((b % 16) * 4 + c \div 64)) * 64 + (c % 64)

\* The three bytes that decoding takes out of it.
BytesOf(bits, a, b, c) == bits \div 65536 = a /\ (bits \div 256) % 256 = b /\ bits % 256 = c

LEMMA BytesOfJoined ==
    ASSUME NEW a \in 0..255, NEW b \in 0..255, NEW c \in 0..255
    PROVE  BytesOf(Joined(a, b, c), a, b, c)
<1> DEFINE a1 == a \div 4
           a2 == a % 4
           b1 == b \div 16
           b2 == b % 16
           c1 == c \div 64
           c2 == c % 64
<1>1. /\ a = 4 * a1 + a2 /\ a1 \in Nat /\ a2 \in Nat
      /\ b = 16 * b1 + b2 /\ b1 \in Nat /\ b2 \in Nat
      /\ c = 64 * c1 + c2 /\ c1 \in Nat /\ c2 \in Nat
  <2>1. a \in Nat /\ b \in Nat /\ c \in Nat
    OBVIOUS
  <2>2. a = 4 * a1 + a2 /\ a1 \in Nat /\ a2 \in Nat
    BY <2>1, Remainders
  <2>3. b = 16 * b1 + b2 /\ b1 \in Nat /\ b2 \in Nat
    BY <2>1, Remainders
  <2>4. c = 64 * c1 + c2 /\ c1 \in Nat /\ c2 \in Nat
    BY <2>1, Remainders
  <2> QED BY <2>2, <2>3, <2>4
<1>2. Joined(a, b, c) = ((a1 * 64 + (a2 * 16 + b1)) * 64 + (b2 * 4 + c1)) * 64 + c2
  BY DEF Joined
<1> HIDE DEF a1, a2, b1, b2, c1, c2
<1>3. Joined(a, b, c) = (4 * a1 + a2) * 65536 + (16 * b1 + b2) * 256 + (64 * c1 + c2)
  BY <1>1, <1>2, BitsOfValues
<1> DEFINE bits == Joined(a, b, c)
<1>4. bits = a * 65536 + b * 256 + c
  BY <1>1, <1>3
<1> HIDE DEF bits
<1>5. BytesOf(bits, a, b, c)
  BY <1>4 DEF BytesOf
<1> QED BY <1>5 DEF bits

LEMMA GroupBytes ==
    ASSUME data \in Seq(Byte), NEW g \in 0..(Len(data) - 1)
    PROVE  /\ Group(g)[1] \in 0..255 /\ Group(g)[2] \in 0..255 /\ Group(g)[3] \in 0..255
           /\ \A j \in 1..3 : Group(g)[j] \in Nat
           /\ PartsAt(g) \in 1..3
           /\ \A j \in 1..PartsAt(g) : Group(g)[j] = data[g + j]
           /\ \A j \in 1..3 : j > PartsAt(g) => Group(g)[j] = 0
<1>1. Len(data) \in Nat /\ \A j \in 1..Len(data) : data[j] \in Byte
  BY LenProperties, ElementOfSeq
<1>2. PartsAt(g) \in 1..3
  BY <1>1 DEF PartsAt
<1>3. \A j \in 1..3 : g + j <= Len(data) <=> j <= PartsAt(g)
  BY <1>1 DEF PartsAt
<1>4. \A j \in 1..3 : Group(g)[j] = IF g + j <= Len(data) THEN data[g + j] ELSE 0
  BY DEF Group
<1>5. \A j \in 1..3 : Group(g)[j] \in Byte
  <2> TAKE j \in 1..3
  <2>1. CASE g + j <= Len(data)
    BY <1>1, <1>4, <2>1
  <2>2. CASE ~(g + j <= Len(data))
    BY <1>4, <2>2, BytesAreNaturals
  <2> QED BY <2>1, <2>2
<1>6. 1..PartsAt(g) \subseteq 1..3
  BY <1>2
<1>7. Group(g)[1] \in 0..255 /\ Group(g)[2] \in 0..255 /\ Group(g)[3] \in 0..255
  <2>1. 1 \in 1..3 /\ 2 \in 1..3 /\ 3 \in 1..3
    OBVIOUS
  <2> QED BY <1>5, <2>1, Zenon DEF Byte
<1>8. \A j \in 1..3 : Group(g)[j] \in Nat
  BY <1>5, BytesAreNaturals
<1>9. \A j \in 1..PartsAt(g) : Group(g)[j] = data[g + j]
  <2> TAKE j \in 1..PartsAt(g)
  <2>1. j \in 1..3 /\ j <= PartsAt(g)
    BY <1>2
  <2>2. g + j <= Len(data)
    BY <1>3, <2>1
  <2> QED BY <1>4, <2>1, <2>2
<1>10. \A j \in 1..3 : j > PartsAt(g) => Group(g)[j] = 0
  BY <1>2, <1>3, <1>4
<1> QED BY <1>2, <1>7, <1>8, <1>9, <1>10

\* Every value of a quantum is found again: what is padding stands for 0.
LEMMA CharsOfGroup ==
    ASSUME alphabet \in Alphabets, data \in Seq(Byte), NEW g \in 0..(Len(data) - 1), NEW i \in 1..4
    PROVE  /\ OutputBuffer(Group(g))[i] \in 0..63
           /\ Char(g, i) = PADDING_CHAR <=> i > PartsAt(g) + 1
           /\ i <= PartsAt(g) + 1 => DecodeTable(alphabet, Char(g, i)) = OutputBuffer(Group(g))[i]
           /\ i > PartsAt(g) + 1 => OutputBuffer(Group(g))[i] = 0
<1> DEFINE b == Group(g)
<1>1. /\ b[1] \in 0..255 /\ b[2] \in 0..255 /\ b[3] \in 0..255
      /\ PartsAt(g) \in 1..3
      /\ \A j \in 1..3 : j > PartsAt(g) => b[j] = 0
  BY GroupBytes
<1>2. Char(g, i) = IF i > PartsAt(g) + 1 THEN PADDING_CHAR ELSE EncodeTable(alphabet, OutputBuffer(b)[i])
  BY DEF Char, Encoded, QUANTUM_SIZE
<1> HIDE DEF b
<1>3. /\ OutputBuffer(b)[1] \in 0..63 /\ OutputBuffer(b)[2] \in 0..63
      /\ OutputBuffer(b)[3] \in 0..63 /\ OutputBuffer(b)[4] \in 0..63
      /\ b[2] = 0 /\ b[3] = 0 => OutputBuffer(b)[3] = 0
      /\ b[3] = 0 => OutputBuffer(b)[4] = 0
  <2>1. /\ OutputBuffer(b)[1] = b[1] \div 4
        /\ OutputBuffer(b)[2] = (b[1] % 4) * 16 + b[2] \div 16
        /\ OutputBuffer(b)[3] = (b[2] % 16) * 4 + b[3] \div 64
        /\ OutputBuffer(b)[4] = b[3] % 64
    BY DEF OutputBuffer
  <2>2. /\ b[1] \div 4 \in 0..63
        /\ (b[1] % 4) * 16 + b[2] \div 16 \in 0..63
        /\ (b[2] % 16) * 4 + b[3] \div 64 \in 0..63
        /\ b[3] % 64 \in 0..63
        /\ b[2] = 0 /\ b[3] = 0 => (b[2] % 16) * 4 + b[3] \div 64 = 0
        /\ b[3] = 0 => b[3] % 64 = 0
    <3> DEFINE x == b[1]
               y == b[2]
               z == b[3]
    <3>1. x \in 0..255 /\ y \in 0..255 /\ z \in 0..255
      BY <1>1
    <3> HIDE DEF x, y, z
    <3>2. /\ x \div 4 \in 0..63
          /\ (x % 4) * 16 + y \div 16 \in 0..63
          /\ (y % 16) * 4 + z \div 64 \in 0..63
          /\ z % 64 \in 0..63
          /\ y = 0 /\ z = 0 => (y % 16) * 4 + z \div 64 = 0
          /\ z = 0 => z % 64 = 0
      BY <3>1
    <3> QED BY <3>2 DEF x, y, z
  <2> QED BY <2>1, <2>2, Zenon
<1>4. OutputBuffer(b)[i] \in 0..63
  <2>1. i = 1 \/ i = 2 \/ i = 3 \/ i = 4
    OBVIOUS
  <2> QED BY <1>3, <2>1, Zenon
<1>5. i > PartsAt(g) + 1 => OutputBuffer(b)[i] = 0
  <2> SUFFICES ASSUME i > PartsAt(g) + 1
               PROVE  OutputBuffer(b)[i] = 0
    OBVIOUS
  <2>1. b[3] = 0 /\ (i = 4 \/ (i = 3 /\ b[2] = 0))
    <3>1. (PartsAt(g) = 1 /\ (i = 3 \/ i = 4)) \/ (PartsAt(g) = 2 /\ i = 4)
      BY <1>1
    <3>2. /\ 3 > PartsAt(g)
          /\ i = 3 => 2 > PartsAt(g)
      BY <3>1
    <3> QED BY <1>1, <3>1, <3>2
  <2> QED BY <1>3, <2>1
<1>6. /\ EncodeTable(alphabet, OutputBuffer(b)[i]) # PADDING_CHAR
      /\ DecodeTable(alphabet, EncodeTable(alphabet, OutputBuffer(b)[i])) = OutputBuffer(b)[i]
  BY <1>4, TablesAreInverse
<1> QED BY <1>1, <1>2, <1>4, <1>5, <1>6 DEF b

LEMMA QuantumsOf ==
    ASSUME NEW n \in Nat
    PROVE  /\ Quantums(n) \in Nat
           /\ 3 * Quantums(n) - n \in 0..2
           /\ n > 0 => Quantums(n) > 0
  BY DEF Quantums

LEMMA GroupOfQuantum ==
    ASSUME NEW n \in Nat, NEW q \in Nat, q < Quantums(n), NEW g, g = 3 * q
    PROVE  /\ g \in Nat /\ g < n /\ g \in 0..(n - 1)
           /\ g % 3 = 0 /\ g \div 3 = q
           /\ (IF n - g < 3 THEN n - g ELSE 3)
                  = IF q = Quantums(n) - 1 THEN 3 - (3 * Quantums(n) - n) ELSE 3
  BY DEF Quantums

\* Character 4 * q + r of k quantums, the last of which stands for 3 - p bytes.
LEMMA EndOfText ==
    ASSUME NEW k \in Nat, NEW p \in 0..2, NEW q \in Nat, NEW r \in 1..4, q < k,
           NEW parts \in Nat, parts = IF q = k - 1 THEN 3 - p ELSE 3
    PROVE  4 * q + r > 4 * k - p <=> r > parts + 1
<1>1. CASE q = k - 1
  BY <1>1
<1>2. CASE q < k - 1
  BY <1>2
<1> QED BY <1>1, <1>2

\* The padding of a complete text is that of its last quantum.
LEMMA CompleteIsWellPadded ==
    ASSUME alphabet \in Alphabets, data \in Seq(Byte), data # << >>, text \in Seq(Nat), Complete
    PROVE  /\ PaddedBy(text, 3 * Quantums(Len(data)) - Len(data))
           /\ 3 * Quantums(Len(data)) - Len(data) \in 0..2
           /\ WellPadded(text)
<1> DEFINE n == Len(data)
           p == 3 * Quantums(n) - n
<1>1. n \in Nat /\ n > 0
  BY EmptySeq, LenProperties
<1>2. Len(text) = 4 * Quantums(n) /\ Quantums(n) \in Nat /\ Quantums(n) > 0 /\ p \in 0..2
  BY <1>1, QuantumsOf DEF Complete
<1>3. ASSUME NEW i \in 1..Len(text)
      PROVE  text[i] = PADDING_CHAR <=> i > Len(text) - p
  <2> DEFINE q == (i - 1) \div 4
             r == i - 4 * q
             g == 3 * q
  <2>1. q \in Nat /\ r \in 1..4 /\ i = 4 * q + r /\ q < Quantums(n)
    <3> HIDE DEF n, p
    <3> QED BY <1>2
  <2>2. g \in 0..(n - 1) /\ g % 3 = 0 /\ g \div 3 = q
    BY <1>1, <2>1, GroupOfQuantum
  <2>3. PartsAt(g) = IF q = Quantums(n) - 1 THEN 3 - p ELSE 3
    <3> HIDE DEF n, p, q, r, g
    <3>2. n \in Nat /\ q \in Nat /\ q < Quantums(n) /\ g = 3 * q
      BY <1>1, <2>1 DEF g
    <3>1. (IF n - g < 3 THEN n - g ELSE 3)
             = IF q = Quantums(n) - 1 THEN 3 - (3 * Quantums(n) - n) ELSE 3
      BY <3>2, GroupOfQuantum
    <3> QED BY <3>1, Zenon DEF PartsAt, n, p
  <2>4. text[i] = Char(g, r)
    <3> HIDE DEF n, p, q, r, g
    <3>1. EncodedFrom(n) /\ g \in 0..(n - 1) /\ g % 3 = 0 /\ r \in 1..4
      BY <2>1, <2>2, Zenon DEF Complete, n
    <3>2. text[4 * (g \div 3) + r] = Char(g, r)
      BY <3>1, Zenon DEF EncodedFrom
    <3> QED BY <2>1, <2>2, <3>2
  <2>5. Char(g, r) = PADDING_CHAR <=> r > PartsAt(g) + 1
    BY <2>1, <2>2, CharsOfGroup
  <2>6. i > Len(text) - p <=> r > PartsAt(g) + 1
    <3> HIDE DEF n, p, q, r, g
    <3>1. Len(text) = 4 * Quantums(n) /\ Quantums(n) \in Nat /\ p \in 0..2
      BY <1>2
    <3>2. PartsAt(g) \in Nat
      BY <2>3, <3>1
    <3> QED BY <2>1, <2>3, <3>1, <3>2, EndOfText
  <2> QED BY <2>4, <2>5, <2>6
<1>4. PaddedBy(text, p)
  BY <1>3 DEF PaddedBy
<1>5. Len(text) > 0 /\ Len(text) % 4 = 0
  BY <1>2
<1> QED BY <1>2, <1>4, <1>5 DEF WellPadded, QUANTUM_SIZE

LEMMA PaddingOfComplete ==
    ASSUME alphabet \in Alphabets, data \in Seq(Byte), data # << >>, text \in Seq(Nat), Complete
    PROVE  RawLength(text) = Len(data)
<1> DEFINE n == Len(data)
           p == 3 * Quantums(n) - n
<1>1. PaddedBy(text, p) /\ p \in 0..2 /\ WellPadded(text)
  BY CompleteIsWellPadded
<1>2. /\ Padding(text) \in 0..2
      /\ \A i \in 1..Len(text) : text[i] = PADDING_CHAR <=> i > Len(text) - Padding(text)
      /\ Len(text) \in Nat /\ Len(text) >= 4
      /\ RawLength(text) = 3 * (Len(text) \div 4) - Padding(text)
  BY <1>1, PaddingOfText
<1>3. Len(text) = 4 * Quantums(n) /\ n \in Nat /\ Quantums(n) \in Nat
  BY LenProperties DEF Complete, Quantums
<1> HIDE DEF n
<1>4. \A i \in 1..Len(text) : i > Len(text) - p <=> i > Len(text) - Padding(text)
  BY <1>1, <1>2 DEF PaddedBy
<1>5. Padding(text) = p
  <2>1. /\ Len(text) \in 1..Len(text) /\ Len(text) - 1 \in 1..Len(text)
    BY <1>2
  <2>2. /\ p > 0 <=> Padding(text) > 0
        /\ p > 1 <=> Padding(text) > 1
    <3> HIDE DEF p
    <3>1. /\ Len(text) > Len(text) - p <=> Len(text) > Len(text) - Padding(text)
          /\ Len(text) - 1 > Len(text) - p <=> Len(text) - 1 > Len(text) - Padding(text)
      BY <1>4, <2>1
    <3> QED BY <1>1, <1>2, <3>1
  <2>3. p \in 0..2 /\ Padding(text) \in 0..2
    BY <1>1, <1>2
  <2> HIDE DEF p
  <2> QED BY <2>2, <2>3
<1>6. RawLength(text) = 3 * Quantums(n) - p
  BY <1>2, <1>3, <1>5
<1> QED BY <1>3, <1>6 DEF n

\* A quantum of a complete text is decoded to the group it stands for.
LEMMA QuantumOfComplete ==
    ASSUME alphabet \in Alphabets, data \in Seq(Byte), data # << >>, text \in Seq(Nat), Complete,
           taken \in Nat, taken % 4 = 0, taken < Len(text),
           NEW g, g = 3 * (taken \div 4)
    PROVE  /\ g \in 0..(Len(data) - 1) /\ g % 3 = 0 /\ 4 * (g \div 3) = taken
           /\ Decodable
           /\ \A i \in 1..4 : Value(i) = OutputBuffer(Group(g))[i]
           /\ PaddingOfQuantum = 3 - PartsAt(g)
<1> DEFINE n == Len(data)
<1>1. /\ n \in Nat /\ Len(text) = 4 * Quantums(n)
  BY LenProperties DEF Complete
<1>2. g \in 0..(n - 1) /\ g % 3 = 0 /\ 4 * (g \div 3) = taken
  <2> HIDE DEF n
  <2>1. taken \div 4 \in Nat /\ taken = 4 * (taken \div 4) /\ taken \div 4 < Quantums(n)
    <3>1. Quantums(n) \in Nat
      BY <1>1, QuantumsOf
    <3>2. taken \in Nat /\ taken % 4 = 0 /\ taken < 4 * Quantums(n)
      BY <1>1
    <3> HIDE DEF n
    <3> QED BY <3>1, <3>2
  <2>2. g \in Nat /\ g < n
    BY <1>1, <2>1 DEF Quantums
  <2>3. g % 3 = 0 /\ g \div 3 = taken \div 4
    BY <2>1
  <2> QED BY <1>1, <2>1, <2>2, <2>3
<1>3. \A i \in 1..4 : Quantum[i] = Char(g, i)
  BY <1>2 DEF Complete, EncodedFrom, Quantum, QUANTUM_SIZE
<1>4. PartsAt(g) \in 1..3
  BY <1>2, GroupBytes
<1>5. \A i \in 1..4 : IsPadding(i) <=> i > PartsAt(g) + 1
  BY <1>2, <1>3, CharsOfGroup DEF IsPadding
<1>6. PaddingOfQuantum = 3 - PartsAt(g)
  <2>1. /\ ~IsPadding(1) /\ ~IsPadding(2)
        /\ IsPadding(3) <=> PartsAt(g) = 1
        /\ IsPadding(4) <=> PartsAt(g) < 3
    BY <1>4, <1>5
  <2> QED BY <1>4, <2>1 DEF PaddingOfQuantum
<1>7. \A i \in 1..4 : OutputBuffer(Group(g))[i] \in 0..63
  BY <1>2, CharsOfGroup
<1>8. \A i \in 1..4 : IsPadding(i) => OutputBuffer(Group(g))[i] = 0
  BY <1>2, <1>4, <1>5, CharsOfGroup
<1>9. \A i \in 1..4 : ~IsPadding(i) => DecodeTable(alphabet, Quantum[i]) = OutputBuffer(Group(g))[i]
  <2> TAKE i \in 1..4
  <2> HAVE ~IsPadding(i)
  <2>1. i <= PartsAt(g) + 1
    BY <1>4, <1>5
  <2> QED BY <1>2, <1>3, <2>1, CharsOfGroup
<1>10. Decodable
  <2>1. \A i \in 1..4 : IsPadding(i) \/ DecodeTable(alphabet, Quantum[i]) # NoValue
    <3> TAKE i \in 1..4
    <3>1. NoValue \notin 0..63
      BY DEF NoValue
    <3> QED BY <1>7, <1>9, <3>1
  <2>2. PaddingOfQuantum < 3
    BY <1>4, <1>6
  <2> QED BY <2>1, <2>2 DEF Decodable, QUANTUM_SIZE
<1> QED BY <1>2, <1>6, <1>8, <1>9, <1>10 DEF Value

LEMMA DecodedOfComplete ==
    ASSUME alphabet \in Alphabets, data \in Seq(Byte), data # << >>, text \in Seq(Nat), Complete,
           taken \in Nat, taken % 4 = 0, taken < Len(text),
           NEW g, g = 3 * (taken \div 4)
    PROVE  /\ g \in Nat /\ g < Len(data)
           /\ PartsAt(g) \in 1..3
           /\ Decoded \in Seq(Nat) /\ Len(Decoded) = PartsAt(g)
           /\ \A j \in 1..PartsAt(g) : Decoded[j] = data[g + j]
<1>1. /\ g \in 0..(Len(data) - 1)
      /\ \A i \in 1..4 : Value(i) = OutputBuffer(Group(g))[i]
      /\ PaddingOfQuantum = 3 - PartsAt(g)
  BY QuantumOfComplete
<1>2. /\ Group(g)[1] \in 0..255 /\ Group(g)[2] \in 0..255 /\ Group(g)[3] \in 0..255
      /\ \A j \in 1..3 : Group(g)[j] \in Nat
      /\ PartsAt(g) \in 1..3
      /\ \A j \in 1..PartsAt(g) : Group(g)[j] = data[g + j]
  BY <1>1, GroupBytes
<1>3. Bits \div 65536 = Group(g)[1] /\ (Bits \div 256) % 256 = Group(g)[2] /\ Bits % 256 = Group(g)[3]
  <2> DEFINE a == Group(g)[1]
             b == Group(g)[2]
             c == Group(g)[3]
  <2>1. /\ Value(1) = a \div 4
        /\ Value(2) = (a % 4) * 16 + b \div 16
        /\ Value(3) = (b % 16) * 4 + c \div 64
        /\ Value(4) = c % 64
    BY <1>1 DEF OutputBuffer
  <2>2. a \in 0..255 /\ b \in 0..255 /\ c \in 0..255
    BY <1>2
  <2> HIDE DEF a, b, c
  <2>3. Bits = Joined(a, b, c)
    BY <2>1 DEF Bits, Joined
  <2>4. BytesOf(Joined(a, b, c), a, b, c)
    BY <2>2, BytesOfJoined
  <2>5. BytesOf(Bits, a, b, c)
    BY <2>3, <2>4
  <2> QED BY <2>5 DEF BytesOf, a, b, c
<1> DEFINE t == <<Bits \div 65536, (Bits \div 256) % 256, Bits % 256>>
<1>4. t[1] = Group(g)[1] /\ t[2] = Group(g)[2] /\ t[3] = Group(g)[3]
  BY <1>3
<1>5. Decoded = SubSeq(t, 1, 3 - PaddingOfQuantum)
  BY DEF Decoded
<1> HIDE DEF t
<1>12. Decoded = SubSeq(t, 1, PartsAt(g))
  <2>1. 3 - PaddingOfQuantum = PartsAt(g)
    BY <1>1, <1>2
  <2> QED BY <1>5, <2>1
<1>6. \A j \in 1..3 : t[j] = Group(g)[j] /\ t[j] \in Nat
  <2> TAKE j \in 1..3
  <2>1. j = 1 \/ j = 2 \/ j = 3
    OBVIOUS
  <2>2. t[j] = Group(g)[j]
    BY <1>4, <2>1
  <2> QED BY <1>2, <2>2
<1>7. 1..PartsAt(g) \subseteq 1..3
  BY <1>2
<1>8. /\ SubSeq(t, 1, PartsAt(g)) \in Seq(Nat)
      /\ Len(SubSeq(t, 1, PartsAt(g))) = PartsAt(g)
      /\ \A j \in 1..PartsAt(g) : SubSeq(t, 1, PartsAt(g))[j] = t[j]
  <2>1. \A j \in 1..PartsAt(g) : t[j] \in Nat
    BY <1>6, <1>7
  <2> DEFINE k == PartsAt(g)
  <2>4. k \in Nat /\ k >= 1
    BY <1>2
  <2>2. k \in Nat /\ k >= 1 /\ \A j \in 1..k : t[j] \in Nat
    BY <2>1, <2>4, Zenon
  <2> HIDE DEF k
  <2>3. /\ SubSeq(t, 1, k) \in Seq(Nat)
        /\ Len(SubSeq(t, 1, k)) = k
        /\ \A j \in 1..k : SubSeq(t, 1, k)[j] = t[j]
    BY <2>2, SubSeqProperties
  <2> QED BY <2>3 DEF k
<1>9. \A j \in 1..PartsAt(g) : Decoded[j] = data[g + j]
  <2> TAKE j \in 1..PartsAt(g)
  <2>1. Decoded[j] = t[j]
    BY <1>12, <1>8, Zenon
  <2>2. t[j] = Group(g)[j]
    BY <1>6, <1>7
  <2>3. Group(g)[j] = data[g + j]
    BY <1>2
  <2> QED BY <2>1, <2>2, <2>3, Zenon
<1>10. Decoded \in Seq(Nat) /\ Len(Decoded) = PartsAt(g)
  BY <1>12, <1>8, Zenon
<1>11. g \in Nat /\ g < Len(data)
  <2>1. Len(data) \in Nat
    BY LenProperties
  <2> QED BY <1>1, <2>1
<1> QED BY <1>2, <1>9, <1>10, <1>11

-----------------------------------------------------------------------------
(* The invariant of the round trip                                         *)

LEMMA SameText ==
    ASSUME UNCHANGED <<alphabet, data, text>>
    PROVE  /\ Complete => Complete'
           /\ \A n \in Nat : EncodedFrom(n) => EncodedFrom(n)'
<1>1. ASSUME NEW g, NEW i PROVE Char(g, i)' = Char(g, i)
  BY DEF Char, Encoded, Group, PartsAt
<1>2. text' = text /\ data' = data
  OBVIOUS
<1> QED BY <1>1, <1>2 DEF Complete, EncodedFrom, Quantums

LEMMA GroupBefore ==
    ASSUME NEW k \in Nat, NEW g \in Nat, k % 3 = 0, g % 3 = 0, g < k, NEW i \in 1..4
    PROVE  4 * (g \div 3) + i \in 1..(4 * (k \div 3))
  OBVIOUS

LEMMA SameMultiple ==
    ASSUME NEW x \in Nat, NEW y \in Nat, x % 3 = 0, y % 3 = 0, y <= x, x < y + 3
    PROVE  x = y
  OBVIOUS

\* Encoding a quantum makes the text that of the bytes taken.
LEMMA QuantumExtends ==
    ASSUME data \in Seq(Byte), text \in Seq(Nat), taken \in Nat, taken < Len(data),
           taken % 3 = 0, Len(text) = 4 * Quantums(taken), EncodedFrom(taken), EncodeQuantum
    PROVE  EncodedFrom(taken)'
<1> DEFINE e == Encoded(InputBuffer, Parts)
<1>1. e = Encoded(Group(taken), PartsAt(taken))
  BY DEF InputBuffer, Parts, Group, PartsAt, INPUT_GROUP_SIZE
<1>2. ASSUME NEW g, NEW i PROVE Char(g, i)' = Char(g, i)
  BY DEF EncodeQuantum, Char, Encoded, Group, PartsAt
<1>3. e \in Seq(Nat) /\ Len(e) = 4
  BY EncodedQuantum, FourAreASequence
<1>4. text' = text \o e
  BY DEF EncodeQuantum
<1>5. \A i \in 1..4 : e[i] = Char(taken, i)
  BY <1>1 DEF Char
<1> HIDE DEF e
<1>6. /\ \A k \in 1..Len(text) : text'[k] = text[k]
      /\ \A k \in 1..4 : text'[Len(text) + k] = e[k]
  <2>1. /\ \A k \in 1..Len(text) : (text \o e)[k] = text[k]
        /\ \A k \in 1..Len(e) : (text \o e)[Len(text) + k] = e[k]
    BY <1>3, TextsJoined
  <2> QED BY <1>3, <1>4, <2>1
<1>7. Len(text) = 4 * (taken \div 3) /\ Len(text) \in Nat
  BY DEF Quantums
<1>8. taken' \in Nat /\ taken' <= taken + 3
  BY LenProperties DEF EncodeQuantum, Parts, INPUT_GROUP_SIZE
<1>9. ASSUME NEW g \in 0..(taken' - 1), NEW i \in 1..4, g % 3 = 0
      PROVE  text'[4 * (g \div 3) + i] = Char(g, i)
  <2>1. CASE g < taken
    <3>1. 4 * (g \div 3) + i \in 1..Len(text)
      <4>1. g \in Nat
        BY <1>8
      <4>2. 4 * (g \div 3) + i \in 1..(4 * (taken \div 3))
        BY <1>9, <2>1, <4>1, GroupBefore
      <4> QED BY <1>7, <4>2
    <3>2. g \in 0..(taken - 1)
      BY <2>1
    <3>3. text[4 * (g \div 3) + i] = Char(g, i)
      BY <1>9, <3>2 DEF EncodedFrom
    <3> QED BY <1>6, <3>1, <3>3, Zenon
  <2>2. CASE g >= taken
    <3>1. g = taken
      <4>1. g \in Nat /\ taken <= g /\ g < taken + 3
        <5> DEFINE new == taken'
        <5>1. new \in Nat /\ new <= taken + 3 /\ g \in 0..(new - 1)
          BY <1>8
        <5> HIDE DEF new
        <5> QED BY <2>2, <5>1
      <4> QED BY <1>9, <4>1, SameMultiple
    <3>2. text'[Len(text) + i] = e[i]
      BY <1>6
    <3> QED BY <1>5, <1>7, <3>1, <3>2
  <2> QED BY <1>8, <2>1, <2>2
<1> QED BY <1>2, <1>9 DEF EncodedFrom

\* Decoding a quantum gives back the next bytes.
LEMMA QuantumGivesBack ==
    ASSUME alphabet \in Alphabets, data \in Seq(Byte), data # << >>, text \in Seq(Nat), Complete,
           taken \in Nat, taken % 4 = 0, taken < Len(text), output \in Seq(Nat),
           Len(output) = 3 * (taken \div 4), \A i \in 1..Len(output) : output[i] = data[i],
           DecodeQuantum
    PROVE  \A i \in 1..Len(output') : output'[i] = data[i]
<1> DEFINE g == 3 * (taken \div 4)
<1>1. /\ g \in Nat /\ Len(output) = g
      /\ Decoded \in Seq(Nat)
      /\ \A j \in 1..Len(Decoded) : Decoded[j] = data[g + j]
  BY DecodedOfComplete
<1>2. output' = output \o Decoded
  BY DEF DecodeQuantum
<1> HIDE DEF g
<1>3. /\ Len(output') = g + Len(Decoded) /\ Len(Decoded) \in Nat
      /\ \A i \in 1..g : output'[i] = output[i]
      /\ \A i \in 1..Len(Decoded) : output'[g + i] = Decoded[i]
  BY <1>1, <1>2, TextsJoined
<1> SUFFICES ASSUME NEW i \in 1..(g + Len(Decoded))
             PROVE  output'[i] = data[i]
  BY <1>3
<1>4. CASE i <= g
  <2>1. i \in 1..g
    BY <1>1, <1>3, <1>4
  <2> QED BY <1>1, <1>3, <2>1
<1>5. CASE i > g
  <2> DEFINE j == i - g
  <2>1. j \in 1..Len(Decoded) /\ i = g + j
    BY <1>1, <1>3, <1>5
  <2> HIDE DEF j
  <2> QED BY <1>1, <1>3, <2>1
<1> QED BY <1>1, <1>3, <1>4, <1>5

\* What is decoded of the text is of the alphabet, or padding.
LEMMA CharsAreDecodable ==
    ASSUME taken \in Nat, DecodeQuantum,
           \A i \in 1..taken : text[i] = PADDING_CHAR \/ DecodeTable(alphabet, text[i]) # NoValue
    PROVE  \A i \in 1..(taken + 4) : text[i] = PADDING_CHAR \/ DecodeTable(alphabet, text[i]) # NoValue
<1>1. \A i \in 1..4 : text[taken + i] = PADDING_CHAR \/ DecodeTable(alphabet, text[taken + i]) # NoValue
  BY DEF DecodeQuantum, Decodable, IsPadding, Quantum, QUANTUM_SIZE
<1> SUFFICES ASSUME NEW i \in 1..(taken + 4), ~(i \in 1..taken)
             PROVE  text[i] = PADDING_CHAR \/ DecodeTable(alphabet, text[i]) # NoValue
  OBVIOUS
<1>2. i - taken \in 1..4 /\ taken + (i - taken) = i
  OBVIOUS
<1> QED BY <1>1, <1>2

LEMMA InitImpliesRoundInv == Base64Init => RoundInv
  BY DEF Base64Init, RoundInv, DecodingIsInverse

LEMMA StepKeepsRoundInv ==
    ASSUME Base64IInv, RoundInv, [Base64Next]_base64_vars
    PROVE  RoundInv'
<1> USE DEF RoundInv
<1>t. /\ alphabet \in Alphabets
      /\ data \in Seq(Byte) /\ text \in Seq(Nat) /\ output \in Seq(Nat) /\ taken \in Nat
  BY DEF Base64IInv, Base64TypeOK
<1>e. /\ stage \in {"idle", "encoded"} => output = << >>
      /\ stage = "idle" => taken = 0 /\ text = << >>
      /\ stage = "encoding" => EncodingInv
      /\ stage = "decoding" => DecodingInv
  BY DEF Base64IInv
<1>1. CASE StartEncoding
  <2>1. EncodedFrom(taken)'
    BY <1>1, <1>e DEF StartEncoding, EncodedFrom
  <2> QED BY <1>1, <2>1 DEF StartEncoding, DecodingIsInverse
<1>2. CASE EncodeQuantum
  <2>1. /\ taken < Len(data) /\ taken % 3 = 0 /\ Len(text) = 4 * Quantums(taken)
        /\ EncodedFrom(taken) /\ Len(data) \in Nat
    BY <1>2, <1>t, <1>e DEF EncodeQuantum, EncodingInv
  <2>2. EncodedFrom(taken)'
    BY <1>2, <1>t, <2>1, QuantumExtends
  <2> QED BY <1>2, <2>2 DEF EncodeQuantum, DecodingIsInverse
<1>3. CASE EndEncoding
  <2>1. Complete
    BY <1>3, <1>e DEF EndEncoding, EncodingInv, Complete
  <2>2. Complete'
    BY <1>3, <2>1, SameText DEF EndEncoding
  <2> QED BY <1>3, <2>2 DEF EndEncoding, DecodingIsInverse
<1>4. CASE StartDecoding
  <2>1. /\ stage' = "decoding" /\ taken' = 0
        /\ alphabet' = alphabet /\ data' = data /\ output' = << >>
    BY <1>4, <1>e DEF StartDecoding
  <2>2. data' # << >> => Complete'
    <3> SUFFICES ASSUME data # << >>
                 PROVE  Complete'
      BY <2>1
    <3>1. stage = "encoded"
      BY <1>4 DEF StartDecoding
    <3>2. Complete /\ text' = text
      BY <1>4, <3>1 DEF StartDecoding, Given
    <3> QED BY <2>1, <3>2, SameText
  <2>3. \A i \in 1..Len(output') : output'[i] = data'[i]
    BY <2>1
  <2>4. DecodingIsInverse'
    BY <2>1 DEF DecodingIsInverse
  <2> QED BY <2>1, <2>2, <2>3, <2>4
<1>5. CASE RefuseText
  <2>1. stage' = "refused" /\ alphabet' = alphabet /\ data' = data
    BY <1>5 DEF RefuseText
  <2>2. data = << >>
    <3> SUFFICES ASSUME data # << >>
                 PROVE  FALSE
      OBVIOUS
    <3>1. stage = "encoded"
      BY <1>5 DEF RefuseText
    <3>2. Complete /\ text' = text /\ ~WellPadded(text')
      BY <1>5, <3>1 DEF RefuseText, Given
    <3> QED BY <1>t, <3>2, CompleteIsWellPadded
  <2>3. DecodingIsInverse'
    BY <2>1, <2>2 DEF DecodingIsInverse
  <2> QED BY <2>1, <2>3
<1>6. CASE DecodeQuantum
  <2>1. /\ stage = "decoding" /\ stage' = "decoding" /\ taken < Len(text) /\ taken' = taken + 4
        /\ UNCHANGED <<alphabet, data, text>>
    BY <1>6 DEF DecodeQuantum, QUANTUM_SIZE
  <2>2. /\ taken % 4 = 0
        /\ Len(output) = 3 * (taken \div 4)
    <3>1. Len(text) \in Nat /\ taken # Len(text)
      BY <1>t, <2>1
    <3>2. /\ taken % 4 = 0
          /\ Len(output) = 3 * (taken \div 4) - (IF taken = Len(text) THEN Padding(text) ELSE 0)
      BY <1>e, <2>1 DEF DecodingInv
    <3>3. Len(output) = 3 * (taken \div 4) - 0
      BY <3>1, <3>2
    <3> DEFINE q == taken \div 4
    <3>4. q \in Nat
      BY <1>t
    <3>5. Len(output) = 3 * q - 0
      BY <3>3
    <3> HIDE DEF q
    <3>6. Len(output) = 3 * q
      BY <3>4, <3>5
    <3> QED BY <3>2, <3>6 DEF q
  <2>3. data' # << >> => Complete' /\ \A i \in 1..Len(output') : output'[i] = data'[i]
    <3> SUFFICES ASSUME data # << >>
                 PROVE  Complete' /\ \A i \in 1..Len(output') : output'[i] = data'[i]
      BY <2>1
    <3>1. Complete /\ \A i \in 1..Len(output) : output[i] = data[i]
      BY <2>1
    <3>2. Complete'
      BY <2>1, <3>1, SameText
    <3>3. \A i \in 1..Len(output') : output'[i] = data[i]
      BY <1>6, <1>t, <2>1, <2>2, <3>1, QuantumGivesBack
    <3> QED BY <2>1, <3>2, <3>3
  <2>4. \A i \in 1..taken' : text'[i] = PADDING_CHAR \/ DecodeTable(alphabet', text'[i]) # NoValue
    <3>1. \A i \in 1..taken : text[i] = PADDING_CHAR \/ DecodeTable(alphabet, text[i]) # NoValue
      BY <2>1
    <3>2. \A i \in 1..(taken + 4) : text[i] = PADDING_CHAR \/ DecodeTable(alphabet, text[i]) # NoValue
      BY <1>6, <1>t, <3>1, CharsAreDecodable
    <3> QED BY <2>1, <3>2
  <2>5. DecodingIsInverse'
    BY <2>1 DEF DecodingIsInverse
  <2> QED BY <2>1, <2>3, <2>4, <2>5
<1>7. CASE RefuseQuantum
  <2>1. stage = "decoding" /\ stage' = "refused" /\ alphabet' = alphabet /\ data' = data
    BY <1>7 DEF RefuseQuantum
  <2>2. data = << >>
    <3> SUFFICES ASSUME data # << >>
                 PROVE  FALSE
      OBVIOUS
    <3>1. Complete /\ taken % 4 = 0 /\ taken < Len(text) /\ ~Decodable
      BY <1>7, <1>e, <2>1 DEF RefuseQuantum, DecodingInv
    <3> QED BY <1>t, <3>1, QuantumOfComplete
  <2>3. DecodingIsInverse'
    BY <2>1, <2>2 DEF DecodingIsInverse
  <2> QED BY <2>1, <2>3
<1>8. CASE EndDecoding
  <2>1. /\ stage = "decoding" /\ stage' = "decoded" /\ taken = Len(text)
        /\ UNCHANGED <<alphabet, data, text, output>>
    BY <1>8 DEF EndDecoding
  <2>2. WellPadded(text) /\ Len(output) = 3 * (Len(text) \div 4) - Padding(text)
    BY <1>e, <2>1 DEF DecodingInv
  <2>3. /\ Padding(text) \in 0..2 /\ Len(text) \in Nat
        /\ \A i \in 1..Len(text) : text[i] = PADDING_CHAR <=> i > Len(text) - Padding(text)
        /\ RawLength(text) = 3 * (Len(text) \div 4) - Padding(text)
    BY <1>t, <2>2, PaddingOfText
  <2>4. data # << >> => output = data
    <3> SUFFICES ASSUME data # << >>
                 PROVE  output = data
      OBVIOUS
    <3>1. Complete /\ \A i \in 1..Len(output) : output[i] = data[i]
      BY <2>1
    <3>2. Len(output) = Len(data)
      BY <1>t, <2>2, <2>3, <3>1, PaddingOfComplete
    <3> QED BY <1>t, <3>1, <3>2, SeqEqual
  <2>5. \A i \in 1..Len(text) : \/ DecodeTable(alphabet, text[i]) # NoValue
                                \/ text[i] = PADDING_CHAR /\ i > Len(text) - 2
    <3> TAKE i \in 1..Len(text)
    <3>1. text[i] = PADDING_CHAR \/ DecodeTable(alphabet, text[i]) # NoValue
      BY <2>1
    <3>2. text[i] = PADDING_CHAR => i > Len(text) - 2
      BY <2>3
    <3> QED BY <3>1, <3>2
  <2>6. DecodingIsInverse'
    BY <2>1, <2>4, <2>5 DEF DecodingIsInverse
  <2> QED BY <2>1, <2>6
<1>9. CASE Returned \/ UNCHANGED base64_vars
  <2>1. UNCHANGED base64_vars
    BY <1>9 DEF Returned
  <2>2. Complete => Complete'
    BY <2>1, SameText DEF base64_vars
  <2>3. EncodedFrom(taken) => EncodedFrom(taken)'
    BY <1>t, <2>1, SameText DEF base64_vars
  <2> QED BY <2>1, <2>2, <2>3 DEF base64_vars, DecodingIsInverse
<1> QED BY <1>1, <1>2, <1>3, <1>4, <1>5, <1>6, <1>7, <1>8, <1>9 DEF Base64Next

\* What is encoded is decoded to the same bytes, only the empty text is refused of what
\* is encoded, and a text from elsewhere is decoded only if it is of the alphabet with
\* its padding at the end: for every sequence of bytes and every text.
THEOREM DecodingInvertsEncoding == Base64Spec => []DecodingIsInverse
<1>1. Base64Init => Base64IInv /\ RoundInv
  BY InitImpliesIInv, InitImpliesRoundInv
<1>2. Base64IInv /\ RoundInv /\ [Base64Next]_base64_vars => (Base64IInv /\ RoundInv)'
  BY StepKeepsIInv, StepKeepsRoundInv
<1>3. RoundInv => DecodingIsInverse
  BY DEF RoundInv
<1> QED BY <1>1, <1>2, <1>3, PTL DEF Base64Spec
=============================================================================
