---------------------- MODULE CharacterCommandsProofs ----------------------
(***************************************************************************)
(* Proofs about PackageFormat and CharacterCommands: the decoder of the        *)
(* protocol inverts the encoding of RFC 4648, with stray bits before the padding  *)
(* too, and takes nothing of another form, for texts of any length; and what the  *)
(* protocol activates the display can load, for any names, manifests and limits   *)
(* that fit together.                                                         *)
(***************************************************************************)
EXTENDS CharacterProofs, CharacterCommands, SequenceTheorems

Octets == 0 .. 255

-----------------------------------------------------------------------------
(* One block.                                                               *)

\* Three octets survive being cut into four symbols.
LEMMA ThreeOctets ==
  ASSUME NEW x \in Octets, NEW y \in Octets, NEW z \in Octets
  PROVE  LET v0 == x \div 4
             v1 == (x % 4) * 16 + y \div 16
             v2 == (y % 16) * 4 + z \div 64
             v3 == z % 64
         IN /\ v0 \in 0 .. 63 /\ v1 \in 0 .. 63 /\ v2 \in 0 .. 63 /\ v3 \in 0 .. 63
            /\ (v0 * 4 + v1 \div 16) % 256 = x
            /\ (v1 % 16) * 16 + v2 \div 4 = y
            /\ (v2 % 4) * 64 + v3 = z
<1> DEFINE a == x \div 4
           b == x % 4
           c == y \div 16
           d == y % 16
           e == z \div 64
           f == z % 64
<1>1. a \in 0 .. 63 /\ b \in 0 .. 3 /\ x = 4 * a + b
  BY DEF Octets
<1>2. c \in 0 .. 15 /\ d \in 0 .. 15 /\ y = 16 * c + d
  BY DEF Octets
<1>3. e \in 0 .. 3 /\ f \in 0 .. 63 /\ z = 64 * e + f
  BY DEF Octets
<1> HIDE DEF a, b, c, d, e, f
<1>4. b * 16 + c \in 0 .. 63 /\ (b * 16 + c) \div 16 = b /\ (b * 16 + c) % 16 = c
  BY <1>1, <1>2
<1>5. d * 4 + e \in 0 .. 63 /\ (d * 4 + e) \div 4 = d /\ (d * 4 + e) % 4 = e
  BY <1>2, <1>3
<1>6. (a * 4 + b) % 256 = x /\ c * 16 + d = y /\ e * 64 + f = z
  BY <1>1, <1>2, <1>3 DEF Octets
<1> QED
  BY <1>1, <1>3, <1>4, <1>5, <1>6 DEF a, b, c, d, e, f

LEMMA SymbolsOfBlock ==
  ASSUME NEW bytes \in Seq(Octets), NEW fill \in Octets, NEW block \in Nat,
         3 * block < Len(bytes)
  PROVE  \A i \in 0 .. 3 :
           /\ 4 * block + i + 1 \in DOMAIN Encode(bytes, fill)
           /\ Symbol(Encode(bytes, fill), block, i) = EncodedBlock(bytes, fill, block)[i + 1]
<1> TAKE i \in 0 .. 3
<1> DEFINE n == Len(bytes)
           at == 4 * block + i + 1
<1>1. n \in Nat
  OBVIOUS
<1>2. at \in 1 .. 4 * ((n + 2) \div 3) /\ (at - 1) \div 4 = block /\ (at - 1) % 4 = i
  BY <1>1
<1>3. Encode(bytes, fill)[at] = EncodedBlock(bytes, fill, block)[i + 1]
  BY <1>2 DEF Encode
<1> QED
  BY <1>2, <1>3 DEF Symbol, Encode

LEMMA OctetTyped ==
  ASSUME NEW bytes \in Seq(Octets), NEW fill \in Octets, NEW k \in Nat
  PROVE  /\ Octet(bytes, fill, k) \in Octets
         /\ k \in 1 .. Len(bytes) => Octet(bytes, fill, k) = bytes[k]
<1>1. \A i \in 1 .. Len(bytes) : bytes[i] \in Octets
  BY ElementOfSeq
<1>2. DOMAIN bytes = 1 .. Len(bytes)
  OBVIOUS
<1> QED
  BY <1>1, <1>2 DEF Octet

\* The symbols of a block of an encoding and their values; padding counts 0.
LEMMA ValuesOfBlock ==
  ASSUME NEW bytes \in Seq(Octets), NEW fill \in Octets, NEW block \in Nat,
         3 * block < Len(bytes)
  PROVE  LET text == Encode(bytes, fill)
             x == Octet(bytes, fill, 3 * block + 1)
             y == Octet(bytes, fill, 3 * block + 2)
             z == Octet(bytes, fill, 3 * block + 3)
         IN /\ Symbol(text, block, 0) \in 0 .. 63
            /\ Symbol(text, block, 1) \in 0 .. 63
            /\ Symbol(text, block, 2) \in 0 .. 64
            /\ Symbol(text, block, 3) \in 0 .. 64
            /\ Symbol(text, block, 2) = Pad <=> 3 * block + 2 > Len(bytes)
            /\ Symbol(text, block, 3) = Pad <=> 3 * block + 3 > Len(bytes)
            /\ V(text, block, 0) = x \div 4
            /\ V(text, block, 1) = (x % 4) * 16 + y \div 16
            /\ V(text, block, 2) =
                 IF 3 * block + 2 <= Len(bytes) THEN (y % 16) * 4 + z \div 64 ELSE 0
            /\ V(text, block, 3) = IF 3 * block + 3 <= Len(bytes) THEN z % 64 ELSE 0
<1> DEFINE text == Encode(bytes, fill)
           n == Len(bytes)
           x == Octet(bytes, fill, 3 * block + 1)
           y == Octet(bytes, fill, 3 * block + 2)
           z == Octet(bytes, fill, 3 * block + 3)
           v0 == x \div 4
           v1 == (x % 4) * 16 + y \div 16
           v2 == (y % 16) * 4 + z \div 64
           v3 == z % 64
           s0 == Symbol(text, block, 0)
           s1 == Symbol(text, block, 1)
           s2 == Symbol(text, block, 2)
           s3 == Symbol(text, block, 3)
<1>1. n \in Nat /\ 3 * block + 1 \in Nat /\ 3 * block + 2 \in Nat /\ 3 * block + 3 \in Nat
  OBVIOUS
<1>2. x \in Octets /\ y \in Octets /\ z \in Octets
  BY <1>1, OctetTyped
<1>3. v0 \in 0 .. 63 /\ v1 \in 0 .. 63 /\ v2 \in 0 .. 63 /\ v3 \in 0 .. 63
  BY <1>2, ThreeOctets
<1>6. /\ s0 = EncodedBlock(bytes, fill, block)[1]
      /\ s1 = EncodedBlock(bytes, fill, block)[2]
      /\ s2 = EncodedBlock(bytes, fill, block)[3]
      /\ s3 = EncodedBlock(bytes, fill, block)[4]
  <2>1. \A i \in 0 .. 3 : Symbol(text, block, i) = EncodedBlock(bytes, fill, block)[i + 1]
    BY SymbolsOfBlock
  <2> QED
    BY <2>1
<1>7. /\ s0 = v0 /\ s1 = v1
      /\ s2 = IF 3 * block + 2 <= n THEN v2 ELSE Pad
      /\ s3 = IF 3 * block + 3 <= n THEN v3 ELSE Pad
  BY <1>6 DEF EncodedBlock
<1>8. /\ V(text, block, 0) = IF s0 = Pad THEN 0 ELSE IF s0 < 64 THEN s0 ELSE -1
      /\ V(text, block, 1) = IF s1 = Pad THEN 0 ELSE IF s1 < 64 THEN s1 ELSE -1
      /\ V(text, block, 2) = IF s2 = Pad THEN 0 ELSE IF s2 < 64 THEN s2 ELSE -1
      /\ V(text, block, 3) = IF s3 = Pad THEN 0 ELSE IF s3 < 64 THEN s3 ELSE -1
  BY DEF V, Base64Value
<1> HIDE DEF v0, v1, v2, v3, s0, s1, s2, s3, n, x, y, z, text
<1>11. s0 \in 0 .. 63 /\ s1 \in 0 .. 63
  BY <1>3, <1>7
<1>12. s2 \in 0 .. 64 /\ (s2 = Pad <=> 3 * block + 2 > n)
  <2>1. s2 = IF 3 * block + 2 <= n THEN v2 ELSE 64
    BY <1>7 DEF Pad
  <2> QED
    BY <1>1, <1>3, <2>1 DEF Pad
<1>13. s3 \in 0 .. 64 /\ (s3 = Pad <=> 3 * block + 3 > n)
  <2>1. s3 = IF 3 * block + 3 <= n THEN v3 ELSE 64
    BY <1>7 DEF Pad
  <2> QED
    BY <1>1, <1>3, <2>1 DEF Pad
<1>14. V(text, block, 0) = v0 /\ V(text, block, 1) = v1
  BY <1>3, <1>7, <1>8, <1>11 DEF Pad
<1>15. V(text, block, 2) = IF 3 * block + 2 <= n THEN v2 ELSE 0
  <2>1. CASE 3 * block + 2 <= n
    <3>1. s2 = v2
      BY <1>7, <2>1
    <3> QED
      BY <1>3, <1>8, <2>1, <3>1 DEF Pad
  <2>2. CASE 3 * block + 2 > n
    BY <1>1, <1>8, <1>12, <2>2
  <2> QED
    BY <1>1, <2>1, <2>2
<1>16. V(text, block, 3) = IF 3 * block + 3 <= n THEN v3 ELSE 0
  <2>1. CASE 3 * block + 3 <= n
    <3>1. s3 = v3
      BY <1>7, <2>1
    <3> QED
      BY <1>3, <1>8, <2>1, <3>1 DEF Pad
  <2>2. CASE 3 * block + 3 > n
    BY <1>1, <1>8, <1>13, <2>2
  <2> QED
    BY <1>1, <2>1, <2>2
<1> QED
  BY <1>11, <1>12, <1>13, <1>14, <1>15, <1>16 DEF v0, v1, v2, v3, s0, s1, s2, s3, n, x, y, z, text

-----------------------------------------------------------------------------
(* All blocks.                                                              *)

\* An encoding has whole blocks, each of them for up to three octets.
LEMMA EncodingHasBlocks ==
  ASSUME NEW bytes \in Seq(Octets), NEW fill \in Octets
  PROVE  /\ Len(Encode(bytes, fill)) = 4 * ((Len(bytes) + 2) \div 3)
         /\ Len(Encode(bytes, fill)) % 4 = 0
         /\ Len(Encode(bytes, fill)) \div 4 = (Len(bytes) + 2) \div 3
<1> DEFINE blocks == (Len(bytes) + 2) \div 3
<1>1. blocks \in Nat
  OBVIOUS
<1> HIDE DEF blocks
<1>2. Encode(bytes, fill) = [i \in 1 .. 4 * blocks |->
                         EncodedBlock(bytes, fill, (i - 1) \div 4)[((i - 1) % 4) + 1]]
  BY DEF Encode, blocks
<1>3. Len(Encode(bytes, fill)) = 4 * blocks
  <2>1. 4 * blocks \in Nat
    BY <1>1
  <2> QED
    BY <1>2, <2>1
<1>4. (4 * blocks) % 4 = 0 /\ (4 * blocks) \div 4 = blocks
  BY <1>1
<1> QED
  BY <1>3, <1>4 DEF blocks

\* Each of its blocks is taken, and gives back its octets.
LEMMA BlockDecodes ==
  ASSUME NEW bytes \in Seq(Octets), NEW fill \in Octets, NEW block \in Nat,
         3 * block < Len(bytes)
  PROVE  /\ BlockIsGood(Encode(bytes, fill), block)
         /\ \A i \in 0 .. 2 : 3 * block + i + 1 <= Len(bytes) =>
              OutBytes(Encode(bytes, fill), block)[i + 1] = Octet(bytes, fill, 3 * block + i + 1)
         /\ OutCount(Encode(bytes, fill), block) =
              IF 3 * block + 2 > Len(bytes) THEN 1
              ELSE IF 3 * block + 3 > Len(bytes) THEN 2 ELSE 3
<1> DEFINE text == Encode(bytes, fill)
           n == Len(bytes)
           x == Octet(bytes, fill, 3 * block + 1)
           y == Octet(bytes, fill, 3 * block + 2)
           z == Octet(bytes, fill, 3 * block + 3)
           s0 == Symbol(text, block, 0)
           s1 == Symbol(text, block, 1)
           s2 == Symbol(text, block, 2)
           s3 == Symbol(text, block, 3)
<1>1. n \in Nat /\ 3 * block < n
  OBVIOUS
<1>2. x \in Octets /\ y \in Octets /\ z \in Octets
  BY OctetTyped
<1>3. /\ s0 \in 0 .. 63 /\ s1 \in 0 .. 63 /\ s2 \in 0 .. 64 /\ s3 \in 0 .. 64
      /\ s2 = Pad <=> 3 * block + 2 > n
      /\ s3 = Pad <=> 3 * block + 3 > n
  BY ValuesOfBlock
<1>4. /\ V(text, block, 0) = x \div 4
      /\ V(text, block, 1) = (x % 4) * 16 + y \div 16
      /\ V(text, block, 2) = IF 3 * block + 2 <= n THEN (y % 16) * 4 + z \div 64 ELSE 0
      /\ V(text, block, 3) = IF 3 * block + 3 <= n THEN z % 64 ELSE 0
  BY ValuesOfBlock
<1>5. ASSUME NEW i \in 0 .. 2, 3 * block + i + 1 <= n
      PROVE  OutBytes(text, block)[i + 1] = Octet(bytes, fill, 3 * block + i + 1)
  <2>1. CASE i = 0
    <3>1. OutBytes(text, block)[1] = x
      BY <1>2, <1>4, ThreeOctets DEF OutBytes
    <3> QED
      BY <2>1, <3>1
  <2>2. CASE i = 1
    <3>1. 3 * block + 2 <= n
      BY <1>5, <2>2
    <3>2. OutBytes(text, block)[2] = y
      BY <1>2, <1>4, <3>1, ThreeOctets DEF OutBytes
    <3> QED
      BY <2>2, <3>2
  <2>3. CASE i = 2
    <3>1. 3 * block + 2 <= n /\ 3 * block + 3 <= n
      BY <1>1, <1>5, <2>3
    <3>2. OutBytes(text, block)[3] = z
      BY <1>2, <1>4, <3>1, ThreeOctets DEF OutBytes
    <3> QED
      BY <2>3, <3>2
  <2> QED
    BY <2>1, <2>2, <2>3
<1>6. OutCount(text, block) =
        IF 3 * block + 2 > n THEN 1 ELSE IF 3 * block + 3 > n THEN 2 ELSE 3
  BY <1>3 DEF OutCount
<1>7. Len(text) = 4 * ((n + 2) \div 3)
  BY EncodingHasBlocks
<1>8. BlockIsGood(text, block)
  <2>1. 4 * block + 4 = Len(text) \/ 3 * block + 3 <= n
    BY <1>1, <1>7
  <2> HIDE DEF s0, s1, s2, s3, n, text
  <2>2. Pad \notin {s0, s1}
    BY <1>3 DEF Pad
  <2>3. 4 * block + 4 = Len(text) \/ Pad \notin {s2, s3}
    BY <1>1, <1>3, <2>1
  <2>4. s2 = Pad => s3 = Pad
    BY <1>1, <1>3
  <2>5. \A s \in {s0, s1, s2, s3} : s = Pad \/ Base64Value(s) >= 0
    BY <1>3 DEF Pad, Base64Value
  <2>6. \A i \in 0 .. 3 : Symbol(text, block, i) \in {s0, s1, s2, s3}
    BY DEF s0, s1, s2, s3
  <2>7. \A i \in 0 .. 3 : Symbol(text, block, i) = Pad
                          \/ Base64Value(Symbol(text, block, i)) >= 0
    BY <2>5, <2>6
  <2> QED
    BY <2>2, <2>3, <2>4, <2>7 DEF BlockIsGood, s0, s1, s2, s3
<1> QED
  BY <1>5, <1>6, <1>8

\* The decoder gives back what was encoded, whatever its length and whatever the
\* encoder has filled its last block with: of stray bits nothing is written.
THEOREM DecodeInvertsEncode ==
  ASSUME NEW bytes \in Seq(Octets), NEW fill \in Octets
  PROVE  DecodeBase64(Encode(bytes, fill)) = bytes
<1> DEFINE text == Encode(bytes, fill)
           n == Len(bytes)
           blocks == (n + 2) \div 3
<1>1. n \in Nat /\ blocks \in Nat
  OBVIOUS
<1>2. Len(text) = 4 * blocks /\ Len(text) % 4 = 0 /\ Len(text) \div 4 = blocks
  BY EncodingHasBlocks
<1>3. CASE n = 0
  BY <1>1, <1>2, <1>3 DEF DecodeBase64
<1>4. CASE n # 0
  <2> DEFINE last == blocks - 1
  <2>1. blocks # 0 /\ last \in Nat /\ 3 * last < n /\ n <= 3 * last + 3
    BY <1>1, <1>4
  <2>2. \A block \in Blocks(text) : block \in Nat /\ 3 * block < n
    BY <1>1, <1>2, <2>1 DEF Blocks
  <2>3. \A block \in Blocks(text) : BlockIsGood(text, block)
    BY <2>2, BlockDecodes
  <2>4. DecodeBase64(text) = Decoded(text)
    BY <1>1, <1>2, <2>1, <2>3 DEF DecodeBase64
  <2>5. 3 * last + OutCount(text, last) = n
    <3>1. OutCount(text, last) = IF 3 * last + 2 > n THEN 1
                                 ELSE IF 3 * last + 3 > n THEN 2 ELSE 3
      BY <2>1, BlockDecodes
    <3> QED
      BY <1>1, <2>1, <3>1
  <2>6. Decoded(text) = [k \in 1 .. n |-> OutBytes(text, (k - 1) \div 3)[((k - 1) % 3) + 1]]
    BY <1>2, <2>5 DEF Decoded
  <2>7. ASSUME NEW k \in 1 .. n
        PROVE  OutBytes(text, (k - 1) \div 3)[((k - 1) % 3) + 1] = bytes[k]
    <3> DEFINE block == (k - 1) \div 3
               i == (k - 1) % 3
    <3>1. block \in Nat /\ i \in 0 .. 2 /\ k = 3 * block + i + 1 /\ 3 * block < n
      BY <1>1
    <3>2. 3 * block + i + 1 <= n
      BY <3>1
    <3>3. OutBytes(text, block)[i + 1] = Octet(bytes, fill, 3 * block + i + 1)
      BY <3>1, <3>2, BlockDecodes
    <3>4. Octet(bytes, fill, k) = bytes[k]
      BY <1>1, OctetTyped
    <3> QED
      BY <3>1, <3>3, <3>4
  <2>8. bytes = [k \in 1 .. n |-> bytes[k]]
    OBVIOUS
  <2> QED
    BY <2>4, <2>6, <2>7, <2>8
<1> QED
  BY <1>3, <1>4

\* What comes out of a block, whatever is in it, is no refusal.
LEMMA DecodedIsNotRejected ==
  ASSUME NEW text \in Seq(0 .. Other), Len(text) # 0, Len(text) % 4 = 0
  PROVE  Decoded(text) # Rejected
<1> DEFINE blocks == Len(text) \div 4
           count == 3 * (blocks - 1) + OutCount(text, blocks - 1)
<1>1. blocks \in Nat /\ blocks >= 1
  BY DEF Other
<1>2. OutCount(text, blocks - 1) \in 1 .. 3
  BY DEF OutCount
<1>3. count \in Nat /\ 1 \in 1 .. count
  BY <1>1, <1>2
<1>4. Decoded(text)[1] = OutBytes(text, 0)[1]
  <2>1. (1 - 1) \div 3 = 0 /\ ((1 - 1) % 3) + 1 = 1
    OBVIOUS
  <2> QED
    BY <1>3, <2>1 DEF Decoded
<1>5. V(text, 0, 0) \in Int /\ V(text, 0, 1) \in Int
  <2>1. 1 \in 1 .. Len(text) /\ 2 \in 1 .. Len(text) /\ 4 * 0 + 0 + 1 = 1 /\ 4 * 0 + 1 + 1 = 2
    OBVIOUS
  <2>2. text[1] \in 0 .. Other /\ text[2] \in 0 .. Other
    BY <2>1, ElementOfSeq
  <2>3. \A c \in 0 .. Other : Base64Value(c) \in Int
    BY DEF Base64Value, Other
  <2>4. Base64Value(text[1]) \in Int /\ Base64Value(text[2]) \in Int
    BY <2>2, <2>3
  <2>5. Symbol(text, 0, 0) = text[1] /\ Symbol(text, 0, 1) = text[2]
    BY <2>1 DEF Symbol
  <2> QED
    BY <2>4, <2>5 DEF V
<1>6. OutBytes(text, 0)[1] = (V(text, 0, 0) * 4 + V(text, 0, 1) \div 16) % 256
  BY DEF OutBytes
<1>7. OutBytes(text, 0)[1] >= 0
  <2> DEFINE w == V(text, 0, 0) * 4 + V(text, 0, 1) \div 16
  <2>1. w \in Int
    BY <1>5
  <2> HIDE DEF w
  <2>2. w % 256 >= 0
    BY <2>1
  <2> QED
    BY <1>6, <2>2 DEF w
<1>8. Rejected[1] = -1
  BY DEF Rejected
<1> QED
  BY <1>4, <1>7, <1>8

\* decode_base64 takes the texts that have the form of an encoding and no others:
\* whole blocks of the alphabet, padded in the last two places at most.  It does not
\* ask that the bits before the padding be zero, as a strict reader of RFC 4648 may.
THEOREM DecodeTakesEncodings ==
  ASSUME NEW text \in Seq(0 .. Other)
  PROVE  DecodeBase64(text) # Rejected <=> WellFormed(text)
<1> DEFINE n == Len(text)
<1>1. n \in Nat /\ \A i \in 1 .. n : text[i] \in 0 .. 65
  <2>1. \A i \in 1 .. n : text[i] \in 0 .. Other
    BY ElementOfSeq
  <2> QED
    BY <2>1 DEF Other
<1>2. CASE n = 0
  BY <1>2 DEF DecodeBase64, WellFormed, Rejected
<1>3. CASE n # 0
  <2>1. ASSUME n % 4 = 0, \A block \in Blocks(text) : BlockIsGood(text, block)
        PROVE  WellFormed(text)
    <3> SUFFICES ASSUME NEW i \in 1 .. n, ~(text[i] < 64)
                 PROVE  text[i] = Pad /\ i >= n - 1 /\ text[n] = Pad
      BY <2>1 DEF WellFormed
    <3> DEFINE block == (i - 1) \div 4
               at == (i - 1) % 4
    <3>1. at \in 0 .. 3 /\ block \in Blocks(text) /\ i = 4 * block + at + 1
      <4>1. n \in Nat /\ i \in 1 .. n /\ n % 4 = 0
        BY <1>1, <2>1
      <4>2. at \in 0 .. 3 /\ block \in 0 .. n \div 4 - 1 /\ i = 4 * block + at + 1
        BY <4>1
      <4> QED
        BY <4>2 DEF Blocks
    <3>2. BlockIsGood(text, block)
      BY <2>1, <3>1
    <3>3. block \in Nat
      BY <1>1
    <3> HIDE DEF block, at
    <3>4. text[i] = Pad
      <4>1. Symbol(text, block, at) = text[i]
        BY <3>1, <3>3 DEF Symbol
      <4>2. text[i] = Pad \/ Base64Value(text[i]) >= 0
        BY <3>1, <3>2, <4>1 DEF BlockIsGood
      <4> QED
        BY <1>1, <4>2 DEF Base64Value
    <3>5. at \in {2, 3}
      <4>1. Symbol(text, block, 0) # Pad /\ Symbol(text, block, 1) # Pad
        BY <3>2 DEF BlockIsGood
      <4>2. Symbol(text, block, at) = Pad
        BY <3>1, <3>3, <3>4 DEF Symbol
      <4> QED
        BY <3>1, <4>1, <4>2
    <3>6. 4 * block + 4 = n
      <4>1. Symbol(text, block, at) = Pad
        BY <3>1, <3>3, <3>4 DEF Symbol
      <4> QED
        BY <3>2, <3>5, <4>1 DEF BlockIsGood
    <3>7. text[n] = Pad
      <4>1. Symbol(text, block, 3) = text[n]
        BY <3>3, <3>6 DEF Symbol
      <4>2. CASE at = 2
        <5>1. Symbol(text, block, 2) = Pad
          BY <3>1, <3>3, <3>4, <4>2 DEF Symbol
        <5> QED
          BY <3>2, <4>1, <5>1 DEF BlockIsGood
      <4>3. CASE at = 3
        BY <3>1, <3>3, <3>4, <3>6, <4>3
      <4> QED
        BY <3>5, <4>2, <4>3
    <3> QED
      BY <1>1, <3>1, <3>3, <3>4, <3>5, <3>6, <3>7
  <2>2. ASSUME WellFormed(text), NEW block \in Blocks(text)
        PROVE  BlockIsGood(text, block)
    <3> DEFINE s0 == Symbol(text, block, 0)
               s1 == Symbol(text, block, 1)
               s2 == Symbol(text, block, 2)
               s3 == Symbol(text, block, 3)
               b == 4 * block
    <3>1. b \in Nat /\ b + 4 <= n /\ n % 4 = 0 /\ b % 4 = 0
      BY <1>1, <2>2 DEF Blocks, WellFormed
    <3>2. \A i \in 1 .. n : text[i] < 64 \/ (text[i] = 64 /\ i >= n - 1 /\ text[n] = 64)
      BY <2>2 DEF WellFormed, Pad
    <3>3. s0 = text[b + 1] /\ s1 = text[b + 2] /\ s2 = text[b + 3] /\ s3 = text[b + 4]
      BY <3>1 DEF Symbol
    <3>4. b + 1 \in 1 .. n /\ b + 2 \in 1 .. n /\ b + 3 \in 1 .. n /\ b + 4 \in 1 .. n
      BY <1>1, <3>1
    <3>5. b + 4 # n => b + 4 < n - 1
      BY <1>1, <3>1
    <3> HIDE DEF b, s0, s1, s2, s3, n
    <3>6. n \in Nat
      BY <1>1
    <3>7. /\ s0 \in 0 .. 65 /\ s1 \in 0 .. 65 /\ s2 \in 0 .. 65 /\ s3 \in 0 .. 65
      BY <1>1, <3>3, <3>4
    <3>8. /\ s0 < 64 \/ (s0 = 64 /\ b + 1 >= n - 1)
          /\ s1 < 64 \/ (s1 = 64 /\ b + 2 >= n - 1)
          /\ s2 < 64 \/ (s2 = 64 /\ b + 3 >= n - 1 /\ text[n] = 64)
          /\ s3 < 64 \/ (s3 = 64 /\ b + 4 >= n - 1)
      BY <3>2, <3>3, <3>4
    <3>9. s0 \in 0 .. 63 /\ s1 \in 0 .. 63
      BY <3>1, <3>6, <3>7, <3>8
    <3>10. s2 \in 0 .. 64 /\ s3 \in 0 .. 64
      BY <3>1, <3>6, <3>7, <3>8
    <3>11. b + 4 = n \/ (s2 # 64 /\ s3 # 64)
      BY <3>1, <3>5, <3>6, <3>7, <3>8
    <3>12. s2 = 64 => s3 = 64
      <4>1. SUFFICES ASSUME s2 = 64 PROVE s3 = 64
        OBVIOUS
      <4>2. text[n] = 64 /\ b + 3 >= n - 1
        BY <3>7, <3>8, <4>1
      <4>3. b + 4 = n
        BY <3>1, <3>5, <3>6, <4>2
      <4> QED
        BY <3>3, <4>2, <4>3
    <3>13. \A s \in {s0, s1, s2, s3} : s = Pad \/ Base64Value(s) >= 0
      BY <3>9, <3>10 DEF Pad, Base64Value
    <3>14. \A i \in 0 .. 3 : Symbol(text, block, i) \in {s0, s1, s2, s3}
      BY DEF s0, s1, s2, s3
    <3>15. \A i \in 0 .. 3 : Symbol(text, block, i) = Pad
                             \/ Base64Value(Symbol(text, block, i)) >= 0
      BY <3>13, <3>14
    <3>16. Pad \notin {s0, s1}
      BY <3>9 DEF Pad
    <3>17. b + 4 = n \/ Pad \notin {s2, s3}
      BY <3>11 DEF Pad
    <3>18. s2 = Pad => s3 = Pad
      BY <3>12 DEF Pad
    <3> QED
      BY <3>15, <3>16, <3>17, <3>18 DEF BlockIsGood, s0, s1, s2, s3, b, n
  <2>3. WellFormed(text) => n % 4 = 0
    BY DEF WellFormed
  <2>4. ASSUME n % 4 = 0, \A block \in Blocks(text) : BlockIsGood(text, block)
        PROVE  DecodeBase64(text) # Rejected
    <3>1. DecodeBase64(text) = Decoded(text)
      BY <1>3, <2>4 DEF DecodeBase64
    <3> QED
      BY <1>3, <2>4, <3>1, DecodedIsNotRejected
  <2>5. ASSUME ~(n % 4 = 0 /\ \A block \in Blocks(text) : BlockIsGood(text, block))
        PROVE  DecodeBase64(text) = Rejected
    BY <1>3, <2>5 DEF DecodeBase64
  <2> QED
    BY <2>1, <2>2, <2>3, <2>4, <2>5
<1> QED
  BY <1>2, <1>3

-----------------------------------------------------------------------------
(* The commands.                                                            *)

LEMMA MessageTyped ==
  ASSUME NEW bytes \in Messages
  PROVE  bytes \in Seq(Octets) /\ Len(bytes) \in 0 .. MaxChunk + 1
<1>1. PICK n \in 0 .. MaxChunk + 1 : bytes \in [1 .. n -> Bytes]
  BY DEF Messages
<1>2. n \in Nat
  BY <1>1, TransferAssumption
<1>3. bytes \in [1 .. n -> Octets]
  BY <1>1, CommandsAssumption DEF Octets
<1>4. bytes \in Seq(Octets) /\ Len(bytes) = n
  BY <1>2, <1>3
<1> QED
  BY <1>1, <1>4

\* What a chunk command hands on: the octets of the desktop, or a refusal.
LEMMA MessageDecodes ==
  ASSUME NEW bytes \in Messages, NEW fill \in Fills
  PROVE  /\ DecodeBase64(Encode(bytes, fill)) = bytes
         /\ DecodeBase64(Encode(bytes, fill)) # Rejected
<1>1. bytes \in Seq(Octets)
  BY MessageTyped
<1>2. DecodeBase64(Encode(bytes, fill)) = bytes
  <2>1. fill \in Octets
    BY CommandsAssumption DEF Octets
  <2> QED
    BY <1>1, <2>1, DecodeInvertsEncode
<1>3. bytes # Rejected
  <2> SUFFICES ASSUME bytes = Rejected PROVE FALSE
    OBVIOUS
  <2>1. 1 \in 1 .. Len(bytes) /\ bytes[1] = -1
    BY DEF Rejected
  <2>2. bytes[1] \in Octets
    BY <1>1, <2>1, ElementOfSeq
  <2> QED
    BY <2>1, <2>2 DEF Octets
<1> QED
  BY <1>2, <1>3

LEMMA GarbledIsRejected ==
  ASSUME NEW text \in Garbled
  PROVE  DecodeBase64(text) = Rejected
<1>1. text \in Seq(0 .. Other) /\ ~WellFormed(text)
  BY CommandsAssumption
<1> QED
  BY <1>1, DecodeTakesEncodings

LEMMA CommandsStepsTransfer == [CommandsNext]_commandVars => [Next]_vars
<1> SUFFICES ASSUME [CommandsNext]_commandVars
             PROVE  [Next]_vars
  OBVIOUS
<1>1. ASSUME NEW total \in Field, CommandBegin(total)
      PROVE  Next
  BY <1>1 DEF CommandBegin, Next
<1>2. ASSUME NEW name \in Paths, NEW size \in Field, CommandFile(name, size)
      PROVE  Next
  <2> DEFINE path == IF IsValidCharacterPath(name) THEN name ELSE NoFile
  <2>1. path \in Files \cup {NoFile}
    BY PathsAssumption
  <2>2. File(path, size)
    BY <1>2 DEF CommandFile
  <2> QED
    BY <2>1, <2>2 DEF Next
<1>3. ASSUME NEW bytes \in Messages, NEW fill \in Fills, CommandChunk(Encode(bytes, fill), bytes)
      PROVE  Next
  <2>1. Chunk(Len(bytes))
    BY <1>3, MessageDecodes DEF CommandChunk
  <2>2. Len(bytes) \in Field
    BY MessageTyped, TransferAssumption DEF Field
  <2> QED
    BY <2>1, <2>2 DEF Next
<1>4. ASSUME NEW text \in Garbled, CommandChunk(text, << >>)
      PROVE  Next
  <2>1. Chunk(Word)
    BY <1>4, GarbledIsRejected DEF CommandChunk
  <2>2. Word \in Field
    BY TransferAssumption DEF Field
  <2> QED
    BY <2>1, <2>2 DEF Next
<1>5. ASSUME NEW reported \in Field \cup {Absent}, CommandFileEnd(reported)
      PROVE  Next
  BY <1>5 DEF CommandFileEnd, Next
<1>6. ASSUME NEW manifest \in Manifests, CommandEndOk(manifest)
      PROVE  Next
  BY <1>6 DEF CommandEndOk, Next, CharEnd
<1>7. CASE CommandEndFails
  BY <1>7 DEF CommandEndFails, Next, CharEnd
<1>8. ASSUME NEW cmd \in ResetCommands, NEW ok \in BOOLEAN, CommandReset(cmd, ok)
      PROVE  Next
  BY <1>8 DEF CommandReset, Next
<1>9. CASE SettingsReset
  BY <1>9 DEF SettingsReset, Next
<1>10. CASE UNCHANGED commandVars
  BY <1>10 DEF commandVars
<1> QED
  BY <1>1, <1>2, <1>3, <1>4, <1>5, <1>6, <1>7, <1>8, <1>9, <1>10 DEF CommandsNext

\* The handlers with their real fields, the names, texts and manifests of the
\* desktop, take the steps of the transfer and no others.
LEMMA CommandsImplementTransfer == CommandsSpec => Spec
<1>1. CommandsInit => Init
  BY DEF CommandsInit
<1> QED
  BY <1>1, CommandsStepsTransfer, PTL DEF CommandsSpec, Spec

\* So the size checks of the transfer and the promise of its char_end hold with
\* paths, texts and manifests, too.
THEOREM CommandsAreAccounted == CommandsSpec => []Accounting /\ AcknowledgedIsWhole
BY CommandsImplementTransfer, AccountingHolds, AcknowledgedIsWholeHolds, PTL

\* The staged contents follow the counters of the transfer.
ContentsOK ==
  /\ data = sent
  /\ data \in Seq(Octets)
  /\ Len(data) = fileWritten
  /\ package \in [Files -> Int]

CommandsInv == TransferInv /\ ContentsOK /\ ActivatedCanBeShown

LEMMA NothingYet ==
  /\ << >> \in Seq(Octets) /\ Len(<< >>) = 0
  /\ NothingStaged \in [Files -> Int]
BY DEF NothingStaged, NotThere

\* What remains after a handler that did not end well: everything, or nothing.
LEMMA KeptContents ==
  ASSUME ContentsOK, Kept,
         active' => fileWritten' = fileWritten,
         ~active' => fileWritten' = 0
  PROVE  ContentsOK'
<1>1. CASE active'
  BY <1>1 DEF ContentsOK, Kept, contents
<1>2. CASE ~active'
  BY <1>2, NothingYet DEF ContentsOK, Kept
<1> QED
  BY <1>1, <1>2

\* A handler that answers no.
LEMMA Unanswered ==
  ASSUME TransferInv, NEW cmd, NEW n, Refuse(cmd) \/ GiveUp(cmd, n)
  PROVE  /\ ~ack'.ok
         /\ active' => fileWritten' = fileWritten
         /\ ~active' => fileWritten' = 0
<1>1. CASE Refuse(cmd)
  BY <1>1 DEF Refuse, Ack, transferVars, TransferInv, Accounting
<1>2. CASE GiveUp(cmd, n)
  BY <1>2 DEF GiveUp, Ack, ResetTransfer
<1> QED
  BY <1>1, <1>2

\* The manifest that the protocol takes is one that the display can show.
LEMMA ValidatedIsShown ==
  ASSUME NEW staged \in [Files -> Int], NEW manifest \in Manifests,
         ReadFile(staged), ValidateCharacterManifest(staged, manifest)
  PROVE  /\ RuntimeLoads(staged, manifest)
         /\ \A s \in s_state_names, turn \in 0 .. 2 * BUDDY_CHARACTER_STATE_VARIANTS :
              Has(staged, LvglPath(manifest, s, turn))
<1>1. manifest # NotAnObject /\ manifest \in [kCharacterStates -> ManifestValues]
  BY CommandsAssumption DEF ValidateCharacterManifest
<1>2. RuntimeReadManifest(staged)
  <2>1. staged[Manifest] \in Int /\ staged[Manifest] > 0
        /\ staged[Manifest] + 1 <= kCharacterManifestLength
    BY FilesAssumption DEF ReadFile, ValidateCharacterManifest
  <2>2. staged[Manifest] <= BUDDY_CHARACTER_MANIFEST_MAX
    BY <2>1, LimitsAssumption
  <2> QED
    BY <2>1, <2>2 DEF RuntimeReadManifest, ReadFile
<1>3. \A name \in Paths : IsValidCharacterPath(name) => RuntimeValidFile(name)
  <2> SUFFICES ASSUME NEW name \in Paths, IsValidCharacterPath(name)
               PROVE  RuntimeValidFile(name)
    OBVIOUS
  <2>1. Shape[name].len \in 1 .. kCharacterPathLength - 1
    BY DEF IsValidCharacterPath, ValidName
  <2>2. Shape[name].len \in 1 .. BUDDY_CHARACTER_FILE_LEN - 1
    BY <2>1, LimitsAssumption
  <2> QED
    BY <2>2 DEF IsValidCharacterPath, RuntimeValidFile, ValidName
<1>4. ASSUME NEW s \in kCharacterStates
      PROVE  /\ RuntimeParses(staged, manifest[s])
             /\ \A turn \in 0 .. 2 * BUDDY_CHARACTER_STATE_VARIANTS :
                  Has(staged, LvglPath(manifest, s, turn))
  <2> DEFINE files == manifest[s].files
             variants == Variants(manifest[s])
  <2>1. ValidateManifestState(staged, manifest[s])
    BY DEF ValidateCharacterManifest
  <2>2. files \in Seq(Paths \cup {NotAString}) /\ files # << >>
    BY <1>1, <2>1 DEF ValidateManifestState, ManifestValues
  <2>3. \A f \in Elements(files) : f \in Paths /\ IsValidCharacterPath(f) /\ Has(staged, f)
    BY <2>1 DEF ValidateManifestState
  <2>4. RuntimeParses(staged, manifest[s])
    BY <1>3, <2>1, <2>3 DEF RuntimeParses, ValidateManifestState
  <2>5. Len(variants) \in Nat \ {0} /\ \A i \in 1 .. Len(variants) : variants[i] \in Elements(files)
    <3>1. CASE Len(files) <= BUDDY_CHARACTER_STATE_VARIANTS
      BY <2>2, <3>1 DEF Variants, Elements
    <3>2. CASE Len(files) > BUDDY_CHARACTER_STATE_VARIANTS
      <4>1. variants = SubSeq(files, 1, 4) /\ Len(files) > 4
        BY <2>2, <3>2 DEF Variants, BUDDY_CHARACTER_STATE_VARIANTS
      <4>2. Len(variants) = 4 /\ \A i \in 1 .. 4 : variants[i] = files[i]
        BY <2>2, <4>1
      <4>3. \A i \in 1 .. 4 : i \in DOMAIN files
        BY <2>2, <4>1
      <4> QED
        BY <4>2, <4>3 DEF Elements
    <3> QED
      BY <2>2, <3>1, <3>2 DEF BUDDY_CHARACTER_STATE_VARIANTS
  <2>6. ASSUME NEW turn \in 0 .. 2 * BUDDY_CHARACTER_STATE_VARIANTS
        PROVE  Has(staged, LvglPath(manifest, s, turn))
    <3>1. turn \in Nat
      BY DEF BUDDY_CHARACTER_STATE_VARIANTS
    <3>2. 1 \in 1 .. Len(variants) /\ (turn % Len(variants)) + 1 \in 1 .. Len(variants)
      BY <2>5, <3>1
    <3>3. LvglPath(manifest, s, turn) \in Elements(files)
      <4>1. LvglPath(manifest, s, turn) \in {variants[(turn % Len(variants)) + 1], variants[1]}
        BY DEF LvglPath
      <4> QED
        BY <2>5, <3>2, <4>1
    <3> QED
      BY <2>3, <3>3
  <2> QED
    BY <2>4, <2>6
<1> QED
  BY <1>1, <1>2, <1>4 DEF RuntimeLoads, s_state_names

LEMMA CommandsInitial == CommandsInit => CommandsInv
<1> SUFFICES ASSUME CommandsInit PROVE CommandsInv
  OBVIOUS
<1>1. TransferInv
  BY TransferInit DEF CommandsInit
<1>2. ContentsOK
  BY NothingYet DEF CommandsInit, Init, ContentsOK
<1>3. ActivatedCanBeShown
  BY DEF CommandsInit, ActivatedCanBeShown
<1> QED
  BY <1>1, <1>2, <1>3 DEF CommandsInv

LEMMA BeginContents ==
  ASSUME CommandsInv, NEW total \in Field, CommandBegin(total)
  PROVE  ContentsOK'
<1>1. fileWritten' = fileWritten
  <2>1. CASE BeginOk(total)
    BY <2>1 DEF BeginOk, CommandsInv, TransferInv, Accounting
  <2>2. CASE BeginRefused(total) \/ BeginNoSpace(total)
    BY <2>2 DEF BeginRefused, BeginNoSpace, Refuse, transferVars
  <2> QED
    BY <2>1, <2>2 DEF CommandBegin, CharBegin
<1> QED
  BY <1>1 DEF CommandBegin, CommandsInv, ContentsOK, contents

LEMMA FileContents ==
  ASSUME CommandsInv, NEW name \in Paths, NEW size \in Field, CommandFile(name, size)
  PROVE  ContentsOK'
<1> DEFINE path == IF IsValidCharacterPath(name) THEN name ELSE NoFile
<1>1. TransferInv /\ ContentsOK
  BY DEF CommandsInv
<1>2. CASE FileOk(path, size)
  <2>1. ack'.ok /\ fileWritten' = 0
    BY <1>2 DEF FileOk, Ack
  <2>2. package' = [package EXCEPT ![name] = 0] /\ sent' = << >> /\ data' = << >>
    BY <2>1 DEF CommandFile
  <2>3. package \in [Files -> Int]
    BY <1>1 DEF ContentsOK
  <2>4. package' \in [Files -> Int]
    <3>1. \A n \in Int : [package EXCEPT ![name] = n] \in [Files -> Int]
      BY <2>3
    <3> QED
      BY <2>2, <3>1
  <2> QED
    BY <2>1, <2>2, <2>4, NothingYet DEF ContentsOK
<1>3. CASE FileRefused \/ FileRejected(path, size) \/ FileOpenFails(path, size)
  <2>1. Refuse("file") \/ GiveUp("file", 0)
    BY <1>3 DEF FileRefused, FileRejected, FileOpenFails
  <2>2. ~ack'.ok /\ (active' => fileWritten' = fileWritten) /\ (~active' => fileWritten' = 0)
    BY <1>1, <2>1, Unanswered
  <2>3. Kept
    BY <2>2 DEF CommandFile
  <2> QED
    BY <1>1, <2>2, <2>3, KeptContents
<1> QED
  BY <1>2, <1>3 DEF CommandFile, File

\* A chunk that is taken adds the octets that the desktop has encoded.
LEMMA ChunkContents ==
  ASSUME CommandsInv, NEW text, NEW bytes \in Seq(Octets), CommandChunk(text, bytes),
         \/ DecodeBase64(text) = bytes /\ bytes # Rejected /\ Len(bytes) \in Field
         \/ DecodeBase64(text) = Rejected
  PROVE  ContentsOK'
<1> DEFINE decoded == DecodeBase64(text)
           len == IF decoded = Rejected THEN Word ELSE Len(decoded)
<1>1. TransferInv /\ ContentsOK /\ len \in Field
  BY TransferAssumption DEF CommandsInv, Field
<1>2. CASE ChunkOk(len)
  <2>1. ack'.ok
    BY <1>2 DEF ChunkOk, Ack
  <2>2. len <= MaxChunk
    BY <1>2 DEF ChunkOk, ChunkFits
  <2>3. decoded = bytes /\ len = Len(bytes)
    BY <2>2, TransferAssumption
  <2>4. data' = data \o bytes /\ sent' = sent \o bytes /\ package' = package
    BY <2>1, <2>3 DEF CommandChunk
  <2>5. fileWritten' = fileWritten + Len(bytes)
    <3>1. len \in Nat /\ len <= fileExpected - fileWritten
      <4>1. len <= Minus(fileExpected, fileWritten)
        BY <1>2 DEF ChunkOk, ChunkFits
      <4>2. Minus(fileExpected, fileWritten) = fileExpected - fileWritten
        BY <1>1, MinusNoWrap DEF TransferInv, NumbersOK, Accounting
      <4>3. len \in Nat
        BY <1>1, TransferAssumption DEF Field
      <4> HIDE DEF len
      <4> QED
        BY <4>1, <4>2, <4>3
    <3>2. len \in UInt32 /\ fileWritten \in UInt32 /\ fileWritten + len < Word
      <4>1. fileWritten \in UInt32 /\ fileExpected \in UInt32
        BY <1>1 DEF TransferInv, NumbersOK
      <4> HIDE DEF len
      <4> QED
        BY <3>1, <4>1, TransferAssumption DEF UInt32
    <3>3. fileWritten' = Plus(fileWritten, len)
      BY <1>2 DEF ChunkOk
    <3> HIDE DEF len
    <3>4. Plus(fileWritten, len) = fileWritten + len
      BY <3>2, PlusNoWrap
    <3> QED
      BY <2>3, <3>3, <3>4
  <2>6. data \in Seq(Octets) /\ data = sent /\ Len(data) = fileWritten
    BY <1>1 DEF ContentsOK
  <2>7. data \o bytes \in Seq(Octets) /\ Len(data \o bytes) = Len(data) + Len(bytes)
    BY <2>6
  <2>8. data' = sent' /\ data' \in Seq(Octets) /\ Len(data') = fileWritten'
    BY <2>4, <2>5, <2>6, <2>7
  <2> QED
    BY <1>1, <2>4, <2>8 DEF ContentsOK
<1>3. CASE ChunkRefused \/ ChunkRejected(len) \/ ChunkWriteFails(len)
  <2>1. Refuse("chunk") \/ GiveUp("chunk", fileWritten)
    BY <1>3 DEF ChunkRefused, ChunkRejected, ChunkWriteFails
  <2>2. ~ack'.ok /\ (active' => fileWritten' = fileWritten) /\ (~active' => fileWritten' = 0)
    BY <1>1, <2>1, Unanswered
  <2>3. Kept
    BY <2>2 DEF CommandChunk
  <2> QED
    BY <1>1, <2>2, <2>3, KeptContents
<1>4. Chunk(len)
  BY DEF CommandChunk
<1> QED
  BY <1>2, <1>3, <1>4 DEF Chunk

LEMMA FileEndContents ==
  ASSUME CommandsInv, NEW reported, CommandFileEnd(reported)
  PROVE  ContentsOK'
<1>1. TransferInv /\ ContentsOK
  BY DEF CommandsInv
<1>2. CASE FileEndOk(reported)
  <2>1. ack'.ok /\ fileWritten' = 0
    BY <1>2 DEF FileEndOk, Ack
  <2>2. /\ package' = [package EXCEPT ![filePath] = Len(data)]
        /\ sent' = << >> /\ data' = << >>
    BY <2>1 DEF CommandFileEnd
  <2>3. Len(data) \in Int
    BY <1>1 DEF ContentsOK
  <2>4. package' \in [Files -> Int]
    BY <1>1, <2>2, <2>3 DEF ContentsOK
  <2> QED
    BY <2>1, <2>2, <2>4, NothingYet DEF ContentsOK
<1>3. CASE FileEndRefused \/ FileEndRejected(reported) \/ FileCloseFails(reported)
  <2>1. Refuse("file_end") \/ GiveUp("file_end", fileWritten)
    BY <1>3 DEF FileEndRefused, FileEndRejected, FileCloseFails
  <2>2. ~ack'.ok /\ (active' => fileWritten' = fileWritten) /\ (~active' => fileWritten' = 0)
    BY <1>1, <2>1, Unanswered
  <2>3. Kept
    BY <2>2 DEF CommandFileEnd
  <2> QED
    BY <1>1, <2>2, <2>3, KeptContents
<1> QED
  BY <1>2, <1>3 DEF CommandFileEnd, FileEnd

\* The transfer ends, one way or another.
LEMMA EndContents ==
  ASSUME ContentsOK, Kept, ResetTransfer
  PROVE  ContentsOK'
BY KeptContents DEF ResetTransfer

LEMMA NextContents == CommandsInv /\ [CommandsNext]_commandVars => ContentsOK'
<1> SUFFICES ASSUME CommandsInv, [CommandsNext]_commandVars
             PROVE  ContentsOK'
  OBVIOUS
<1>1. TransferInv /\ ContentsOK
  BY DEF CommandsInv
<1>2. ASSUME NEW bytes \in Messages, NEW fill \in Fills, CommandChunk(Encode(bytes, fill), bytes)
      PROVE  ContentsOK'
  <2>1. bytes \in Seq(Octets) /\ Len(bytes) \in Field
    BY MessageTyped, TransferAssumption DEF Field
  <2>2. DecodeBase64(Encode(bytes, fill)) = bytes /\ bytes # Rejected
    BY MessageDecodes
  <2> QED
    BY <1>2, <2>1, <2>2, ChunkContents
<1>3. ASSUME NEW text \in Garbled, CommandChunk(text, << >>)
      PROVE  ContentsOK'
  BY <1>3, NothingYet, GarbledIsRejected, ChunkContents
<1>4. ASSUME NEW manifest \in Manifests, CommandEndOk(manifest)
      PROVE  ContentsOK'
  BY <1>1, <1>4, EndContents DEF CommandEndOk, EndOk
<1>5. CASE CommandEndFails
  <2>1. CASE EndRefused
    BY <1>1, <1>5, <2>1, Unanswered, KeptContents DEF EndRefused, CommandEndFails
  <2>2. CASE EndRejected \/ EndFails
    BY <1>1, <1>5, <2>2, EndContents DEF EndRejected, EndFails, GiveUp, CommandEndFails
  <2> QED
    BY <1>5, <2>1, <2>2 DEF CommandEndFails
<1>6. ASSUME NEW cmd \in ResetCommands, NEW ok \in BOOLEAN, CommandReset(cmd, ok)
      PROVE  ContentsOK'
  BY <1>1, <1>6, EndContents DEF CommandReset, Reset
<1>7. CASE SettingsReset
  BY <1>1, <1>7, EndContents DEF SettingsReset, Abort
<1>8. CASE UNCHANGED commandVars
  BY <1>1, <1>8 DEF commandVars, contents, vars, transferVars, ContentsOK
<1> QED
  BY <1>2, <1>3, <1>4, <1>5, <1>6, <1>7, <1>8, BeginContents, FileContents, FileEndContents
     DEF CommandsNext

LEMMA NextActivated == CommandsInv /\ [CommandsNext]_commandVars => ActivatedCanBeShown'
<1> SUFFICES ASSUME CommandsInv, [CommandsNext]_commandVars
             PROVE  ActivatedCanBeShown'
  OBVIOUS
<1>1. ASSUME activated' = NotActivated
      PROVE  ActivatedCanBeShown'
  BY <1>1 DEF ActivatedCanBeShown
<1>2. ASSUME NEW manifest \in Manifests, CommandEndOk(manifest)
      PROVE  ActivatedCanBeShown'
  <2>1. package \in [Files -> Int]
    BY DEF CommandsInv, ContentsOK
  <2>2. activated'.package = package /\ activated'.manifest = manifest
    BY <1>2 DEF CommandEndOk
  <2>3. ReadFile(package) /\ ValidateCharacterManifest(package, manifest)
    BY <1>2 DEF CommandEndOk
  <2>4. /\ RuntimeLoads(package, manifest)
        /\ \A s \in s_state_names, turn \in 0 .. 2 * BUDDY_CHARACTER_STATE_VARIANTS :
             Has(package, LvglPath(manifest, s, turn))
    BY <2>1, <2>3, ValidatedIsShown
  <2> QED
    BY <2>2, <2>4 DEF ActivatedCanBeShown
<1>3. CASE UNCHANGED commandVars
  BY <1>3 DEF commandVars, CommandsInv, ActivatedCanBeShown
<1> QED
  BY <1>1, <1>2, <1>3
  DEF CommandsNext, CommandBegin, CommandFile, CommandChunk, CommandFileEnd, CommandEndFails,
      CommandReset, SettingsReset

LEMMA CommandsStep == CommandsInv /\ [CommandsNext]_commandVars => CommandsInv'
<1> SUFFICES ASSUME CommandsInv, [CommandsNext]_commandVars
             PROVE  CommandsInv'
  OBVIOUS
<1>1. TransferInv'
  BY CommandsStepsTransfer, TransferStep DEF CommandsInv
<1> QED
  BY <1>1, NextContents, NextActivated DEF CommandsInv

\* Whatever the desktop encodes, in whatever pieces, and whatever else it sends in
\* between, the bytes that are written are those it meant, in their order; and the
\* counter that the sizes are checked against counts them.
THEOREM WrittenIsWhatWasSentHolds == CommandsSpec => []WrittenIsWhatWasSent
<1>1. CommandsInv => WrittenIsWhatWasSent
  BY DEF CommandsInv, ContentsOK, WrittenIsWhatWasSent
<1> QED
  BY <1>1, CommandsInitial, CommandsStep, PTL DEF CommandsSpec

\* Every package that char_end activates is one that the display loads, and the file
\* it shows in any state and turn is there: the two validators agree, whatever a
\* manifest says, as long as the limits of the display are not the narrower ones.
THEOREM ActivatedCanBeShownHolds == CommandsSpec => []ActivatedCanBeShown
<1>1. CommandsInv => ActivatedCanBeShown
  BY DEF CommandsInv
<1> QED
  BY <1>1, CommandsInitial, CommandsStep, PTL DEF CommandsSpec
=============================================================================
