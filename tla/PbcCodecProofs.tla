--------------------------- MODULE PbcCodecProofs ---------------------------
(***************************************************************************)
(* Proofs about the codec, for every schema and every value: the bytes of  *)
(* a number read back to it; the writers of messages stay inside their     *)
(* memory and pack inside its buffer; and pack's retries end.              *)
(*                                                                         *)
(* A message is Safe when nothing of it lies beyond its memory.  Every     *)
(* writer asks for as much room as it then writes, which rests on what a   *)
(* tag, a length and a number take at most; the messages of an encode stay *)
(* Safe by that (Heaps: the sub-messages of one come after it, so a flush  *)
(* in that order finds them complete).  A slice of pack is Fitting when    *)
(* what it holds and the room that is left make up its buffer.  The        *)
(* retries end because two buffers Agree on all that fits the smaller one. *)
(*                                                                         *)
(* The folds over lists are followed turn by turn (Turns), the one over    *)
(* the keys of a pattern from the empty set up (KeysUp).                   *)
(***************************************************************************)
EXTENDS PbcPattern, PbcMapProofs

\* Numbers.

\* Bits above the groups there are none, and the highest group has one.
Covers(n, len) ==
  /\ \A b \in n : b < 7 * len
  /\ len > 1 => \E b \in n : b >= 7 * (len - 1)

\* The number of groups is well defined: from the ten groups that every
\* number of 64 bits fits in, those that are empty are left out one by one.
LEMMA GroupsDefined ==
  ASSUME NEW n \in Long
  PROVE  Groups(n) \in 1 .. 10 /\ Covers(n, Groups(n))
<1>. DEFINE Within(len) == \A b \in n : b < 7 * len
<1>1. \E len \in 1 .. 10 : Covers(n, len)
  <2>. SUFFICES ASSUME \A len \in 1 .. 10 : ~ Covers(n, len) PROVE FALSE
    OBVIOUS
  <2>1. \A b \in n : b \in 0 .. 63
    BY DEF Long, Bits
  <2>2. Within(10)
    BY <2>1
  <2>3. ASSUME NEW len \in 2 .. 10, Within(len) PROVE Within(len - 1)
    <3>1. \A b \in n : ~ b >= 7 * (len - 1)
      BY <2>3 DEF Covers
    <3>. QED  BY <2>1, <3>1
  <2>4. Within(9) /\ Within(8) /\ Within(7)
    BY <2>2, <2>3
  <2>5. Within(6) /\ Within(5) /\ Within(4)
    BY <2>3, <2>4
  <2>6. Within(3) /\ Within(2) /\ Within(1)
    BY <2>3, <2>5
  <2>. QED  BY <2>6 DEF Covers
<1>. QED  BY <1>1 DEF Groups, Covers

\* The bytes of a number: only the last one lacks the continuation bit.
LEMMA EncodedBytes ==
  ASSUME NEW n \in Long
  PROVE  /\ Encode(n) \in Seq(Byte)
         /\ Len(Encode(n)) = Groups(n)
         /\ \A i \in 1 .. Groups(n) :
              /\ 7 \in Encode(n)[i] <=> i < Groups(n)
              /\ \A b \in Bits(7) : b \in Encode(n)[i] <=> 7 * (i - 1) + b \in n
<1>. DEFINE len == Groups(n)
            byte(i) == Group(n, i - 1) \cup (IF i < len THEN {7} ELSE {})
<1>1. len \in 1 .. 10
  BY GroupsDefined
<1>2. Encode(n) = [i \in 1 .. len |-> byte(i)]
  BY DEF Encode
<1>3. ASSUME NEW i \in 1 .. len PROVE byte(i) \in Byte
  BY DEF Byte, Bits, Group
<1>4. Encode(n) \in Seq(Byte) /\ Len(Encode(n)) = len
  <2>. HIDE DEF byte, len
  <2>. QED  BY <1>1, <1>2, <1>3
<1>5. ASSUME NEW i \in 1 .. len
      PROVE  /\ 7 \in Encode(n)[i] <=> i < len
             /\ \A b \in Bits(7) : b \in Encode(n)[i] <=> 7 * (i - 1) + b \in n
  <2>1. Encode(n)[i] = byte(i)
    BY <1>2
  <2>. QED  BY <1>1, <2>1 DEF Group, Bits
<1>. QED  BY <1>4, <1>5

\* A number that was encoded is decoded to itself and takes as many bytes as
\* were written, whatever comes after it in the buffer: _pbcV_encode and
\* _pbcV_decode agree about all numbers of 64 bits.
THEOREM DecodesWhatWasEncoded ==
  ASSUME NEW n \in Long, NEW rest \in Seq(Byte)
  PROVE  Decode(Encode(n) \o rest) = [len |-> Groups(n), value |-> n]
<1>. DEFINE len == Groups(n)
            code == Encode(n)
            buffer == code \o rest
<1>1. len \in 1 .. 10 /\ Covers(n, len)
  BY GroupsDefined
<1>2. code \in Seq(Byte) /\ Len(code) = len
  BY EncodedBytes
<1>3. Len(buffer) \in Nat /\ len <= Len(buffer)
  <2>. HIDE DEF code, len
  <2>. QED  BY <1>1, <1>2
<1>4. \A i \in 1 .. len : buffer[i] = code[i]
  <2>. HIDE DEF code, len
  <2>. QED  BY <1>1, <1>2
<1>5. \A i \in 1 .. len : 7 \in buffer[i] <=> i < len
  BY <1>4, EncodedBytes
<1>6. \A i \in 1 .. 10 : i <= Len(buffer) /\ Ends(buffer, i) <=> i = len
  <2>. HIDE DEF buffer, len
  <2>. QED  BY <1>1, <1>3, <1>5 DEF Ends
<1>7. Decode(buffer) = [len |-> len, value |-> DecodedValue(buffer, len)]
  <2>. HIDE DEF buffer, len
  <2>1. (CHOOSE i \in 1 .. 10 : i <= Len(buffer) /\ Ends(buffer, i)) = len
    BY <1>1, <1>6
  <2>. QED  BY <1>1, <1>6, <2>1 DEF Decode
<1>8. DecodedValue(buffer, len) = n
  <2>1. ASSUME NEW b \in Bits(64), b \div 7 < len
        PROVE  b % 7 \in buffer[b \div 7 + 1] <=> b \in n
    <3>1. b \div 7 + 1 \in 1 .. len /\ b % 7 \in Bits(7)
      BY <1>1, <2>1 DEF Bits
    <3>2. 7 * ((b \div 7 + 1) - 1) + (b % 7) = b
      BY DEF Bits
    <3>. QED  BY <1>4, <3>1, <3>2, EncodedBytes
  <2>2. ASSUME NEW b \in n PROVE b \in Bits(64) /\ b \div 7 < len
    BY <1>1 DEF Covers, Long, Bits
  <2>. QED  BY <2>1, <2>2 DEF DecodedValue
<1>. QED  BY <1>7, <1>8

----------------------------------------------------------------------------
\* A signed number of 64 bits is what its zigzag form is undone to.
THEOREM ZigZag64Undone ==
  ASSUME NEW n \in Long
  PROVE  DeZigZag64(ZigZag(n, 64)) = n
<1>. DEFINE z == ZigZag(n, 64)
<1>1. \A b \in 0 .. 62 : b + 1 \in z <=> IF 63 \in n THEN b \notin n ELSE b \in n
  BY DEF ZigZag, Xor, Shl, Bits
<1>2. (0 \in z <=> 63 \in n) /\ z \subseteq Bits(64)
  BY DEF ZigZag, Xor, Shl, Bits
<1>3. n \subseteq 0 .. 63
  BY DEF Long, Bits
<1>4. ASSUME NEW b \in 0 .. 63 PROVE b \in DeZigZag64(z) <=> b \in n
  <2>. HIDE DEF z
  <2>1. CASE b = 63
    BY <1>2, <2>1 DEF DeZigZag64, Xor, Shr, Bits
  <2>2. CASE b \in 0 .. 62
    BY <1>1, <1>2, <2>2 DEF DeZigZag64, Xor, Shr, Bits
  <2>. QED  BY <2>1, <2>2
<1>5. DeZigZag64(z) \subseteq 0 .. 63
  BY DEF DeZigZag64, Xor, Shr, Bits
<1>. QED  BY <1>3, <1>4, <1>5

\* Of 32 bits it is the low word; nothing is said of the high one, which is
\* not the sign (DeZigZag32).
THEOREM ZigZag32Undone ==
  ASSUME NEW n \in Word
  PROVE  Low(DeZigZag32(ZigZag(n, 32))) = n
<1>. DEFINE z == ZigZag(n, 32)
<1>1. \A b \in 0 .. 30 : b + 1 \in z <=> IF 31 \in n THEN b \notin n ELSE b \in n
  BY DEF ZigZag, Xor, Shl, Bits
<1>2. (0 \in z <=> 31 \in n) /\ z \subseteq Bits(32)
  BY DEF ZigZag, Xor, Shl, Bits
<1>3. n \subseteq 0 .. 31
  BY DEF Word, Bits
<1>4. ASSUME NEW b \in 0 .. 31 PROVE b \in DeZigZag32(z) <=> b \in n
  <2>. HIDE DEF z
  <2>1. b \in DeZigZag32(z) <=>
          b \in Xor(Shr(Low(z), 1), IF 0 \in z THEN Bits(32) ELSE {})
    BY DEF DeZigZag32, Join, Shl
  <2>2. CASE b = 31
    BY <1>2, <2>1, <2>2 DEF Xor, Shr, Low, Bits
  <2>3. CASE b \in 0 .. 30
    BY <1>1, <1>2, <2>1, <2>3 DEF Xor, Shr, Low, Bits
  <2>. QED  BY <2>2, <2>3
<1>5. Low(DeZigZag32(z)) = n
  <2>. HIDE DEF z
  <2>1. Bits(32) = 0 .. 31
    BY DEF Bits
  <2>2. \A b : b \in Low(DeZigZag32(z)) <=> b \in DeZigZag32(z) /\ b \in 0 .. 31
    BY <2>1 DEF Low
  <2>. QED  BY <1>3, <1>4, <2>2
<1>. QED  BY <1>5

-----------------------------------------------------------------------------
\* Parts of a buffer: how many bytes they take at most.

\* The bytes of a number of 64 bits,
LEMMA LongBytes ==
  ASSUME NEW n \in Long
  PROVE  Encode(n) \in Seq(Byte) /\ Len(Encode(n)) \in 1 .. 10
BY GroupsDefined, EncodedBytes

\* of one of 32,
LEMMA WordBytes ==
  ASSUME NEW n \in Word
  PROVE  Encode(n) \in Seq(Byte) /\ Len(Encode(n)) \in 1 .. 5
<1>1. n \in Long BY DEF Word, Long, Bits
<1>2. Groups(n) \in 1 .. 10 /\ Covers(n, Groups(n)) BY <1>1, GroupsDefined
<1>3. \A b \in n : b \in 0 .. 31 BY DEF Word, Bits
<1>4. Groups(n) <= 5
  <2>1. CASE Groups(n) = 1 BY <2>1
  <2>2. CASE Groups(n) > 1
    <3>1. PICK b \in n : b >= 7 * (Groups(n) - 1) BY <1>2, <2>2 DEF Covers
    <3>2. b \in 0 .. 31 BY <1>3
    <3> QED BY <1>2, <3>1, <3>2
  <2> QED BY <1>2, <2>1, <2>2
<1>5. Encode(n) \in Seq(Byte) /\ Len(Encode(n)) = Groups(n) BY <1>1, EncodedBytes
<1> QED BY <1>2, <1>4, <1>5

\* of a tag, of which the wire type is one of four,
LEMMA TagBytes ==
  ASSUME NEW f, NEW wt \in {VARINT, BIT64, LEND, BIT32}
  PROVE  Tag(f, wt) \in Seq(Byte) /\ Len(Tag(f, wt)) \in 1 .. 5
<1>1. Shl(WordOf(f.id), 3, 32) \cup wt \in Word
  <2>1. wt \in SUBSET Bits(32) BY DEF Bits, VARINT, BIT64, LEND, BIT32
  <2>2. Shl(WordOf(f.id), 3, 32) \in SUBSET Bits(32) BY DEF Shl, Bits
  <2> QED BY <2>1, <2>2 DEF Word
<1> QED BY <1>1, WordBytes DEF Tag

\* and of a length.
LEMMA LengthBytes ==
  ASSUME NEW n
  PROVE  Length(n) \in Seq(Byte) /\ Len(Length(n)) \in 1 .. 5
<1>1. WordOf(n) \in Word BY DEF WordOf, Word, Bits
<1> QED BY <1>1, WordBytes DEF Length

\* A number of a fixed width takes that many bytes, whatever it is.
LEMMA FixedBytes ==
  ASSUME NEW n, NEW width \in Nat
  PROVE  Fixed(n, width) \in Seq(Byte) /\ Len(Fixed(n, width)) = width
<1> DEFINE b(i) == Shr(n, 8 * (i - 1)) \cap Bits(8)
<1>1. \A i \in 1 .. width : b(i) \in Byte BY DEF Byte
<1>2. Fixed(n, width) = [i \in 1 .. width |-> b(i)] BY DEF Fixed
<1> HIDE DEF b
<1> QED BY <1>1, <1>2

\* The types that a number is written for, and what is written for one: an
\* enum by the name of one of its values.
Numbers == PTypes \ {"string", "bytes", "message"}
Item(ptype) == IF ptype = "enum" THEN DOMAIN Enum ELSE ValueOf(ptype)
Width(ptype) == IF WireType(ptype) = BIT64 THEN 8 ELSE 4

\* What becomes of a number of 64 bits is one again.
LEMMA ZigZagged ==
  ASSUME NEW v \in Long
  PROVE  /\ ZigZag(Low(v), 32) \in Long /\ ZigZag(v, 64) \in Long /\ Low(v) \in Long
         /\ Low(v) \in Word
BY DEF ZigZag, Xor, Shl, Low, Long, Word, Bits

\* What the writers' switches make of a value, by its type.
LEMMA PayloadBytes ==
  ASSUME NEW ptype \in Numbers, NEW v \in Item(ptype)
  PROVE  /\ Payload(ptype, v) \in Seq(Byte) /\ Len(Payload(ptype, v)) \in 1 .. 10
         /\ WireType(ptype) \in {BIT64, BIT32} => Len(Payload(ptype, v)) = Width(ptype)
<1>1. /\ VARINT # BIT64 /\ VARINT # BIT32 /\ BIT64 # BIT32
  BY DEF VARINT, BIT64, BIT32
<1>2. CASE ptype \in {"int64", "uint64", "int32"}
  <2>1. v \in Long BY <1>2 DEF Item, ValueOf
  <2>2. Payload(ptype, v) = Encode(v) BY <1>2 DEF Payload
  <2>3. WireType(ptype) = VARINT BY <1>2 DEF WireType
  <2> QED BY <2>1, <2>2, <2>3, <1>1, LongBytes
<1>3. CASE ptype \in {"uint32", "bool"}
  <2>1. v \in Long BY <1>3 DEF Item, ValueOf
  <2>2. Payload(ptype, v) = Encode(Low(v)) BY <1>3 DEF Payload
  <2>3. WireType(ptype) = VARINT BY <1>3 DEF WireType
  <2>4. Low(v) \in Long BY <2>1, ZigZagged
  <2> QED BY <2>2, <2>3, <2>4, <1>1, LongBytes
<1>4. CASE ptype = "enum"
  <2>1. Enum[v] \in Long
    <3>1. Enum[v] \in Word BY <1>4, MessageAssumption DEF Item
    <3> QED BY <3>1 DEF Word, Long, Bits
  <2>2. Payload(ptype, v) = Encode(Enum[v]) BY <1>4 DEF Payload
  <2>3. WireType(ptype) = VARINT BY <1>4 DEF WireType
  <2> QED BY <2>1, <2>2, <2>3, <1>1, LongBytes
<1>5. CASE ptype \in {"fixed64", "sfixed64", "double"}
  <2>1. Payload(ptype, v) = Fixed(v, 8) BY <1>5 DEF Payload
  <2>2. WireType(ptype) = BIT64 BY <1>5 DEF WireType
  <2>3. Width(ptype) = 8 BY <2>2, <1>1 DEF Width
  <2>4. Fixed(v, 8) \in Seq(Byte) /\ Len(Fixed(v, 8)) = 8 BY FixedBytes
  <2> HIDE DEF Width
  <2> QED BY <2>1, <2>3, <2>4
<1>6. CASE ptype \in {"fixed32", "sfixed32"}
  <2>1. Payload(ptype, v) = Fixed(v, 4) BY <1>6 DEF Payload
  <2>2. WireType(ptype) = BIT32 BY <1>6 DEF WireType
  <2>3. Width(ptype) = 4 BY <2>2, <1>1 DEF Width
  <2>4. Fixed(v, 4) \in Seq(Byte) /\ Len(Fixed(v, 4)) = 4 BY FixedBytes
  <2> HIDE DEF Width
  <2> QED BY <2>1, <2>3, <2>4
<1>7. CASE ptype = "float"
  <2>1. Payload(ptype, v) = Fixed(FloatOf[v], 4) BY <1>7 DEF Payload
  <2>2. WireType(ptype) = BIT32 BY <1>7 DEF WireType
  <2>3. Width(ptype) = 4 BY <2>2, <1>1 DEF Width
  <2>4. Fixed(FloatOf[v], 4) \in Seq(Byte) /\ Len(Fixed(FloatOf[v], 4)) = 4 BY FixedBytes
  <2> HIDE DEF Width
  <2> QED BY <2>1, <2>3, <2>4
<1>8. CASE ptype = "sint32"
  <2>1. v \in Long BY <1>8 DEF Item, ValueOf
  <2>2. Payload(ptype, v) = Encode(ZigZag(Low(v), 32)) BY <1>8 DEF Payload
  <2>3. WireType(ptype) = VARINT BY <1>8 DEF WireType
  <2>4. ZigZag(Low(v), 32) \in Long BY <2>1, ZigZagged
  <2> QED BY <2>2, <2>3, <2>4, <1>1, LongBytes
<1>9. CASE ptype = "sint64"
  <2>1. v \in Long BY <1>9 DEF Item, ValueOf
  <2>2. Payload(ptype, v) = Encode(ZigZag(v, 64)) BY <1>9 DEF Payload
  <2>3. WireType(ptype) = VARINT BY <1>9 DEF WireType
  <2>4. ZigZag(v, 64) \in Long BY <2>1, ZigZagged
  <2> QED BY <2>2, <2>3, <2>4, <1>1, LongBytes
<1> QED BY <1>2, <1>3, <1>4, <1>5, <1>6, <1>7, <1>8, <1>9 DEF Numbers, PTypes

-----------------------------------------------------------------------------
\* Messages that are written.

\* Two sequences one behind the other.
LEMMA Concat ==
  ASSUME NEW S, NEW s \in Seq(S), NEW t \in Seq(S)
  PROVE  /\ s \o t \in Seq(S)
         /\ Len(s \o t) = Len(s) + Len(t)
         /\ \A i \in 1 .. Len(s) : (s \o t)[i] = s[i]
         /\ \A i \in Len(s) + 1 .. Len(s) + Len(t) : (s \o t)[i] = t[i - Len(s)]
OBVIOUS

\* A packed field keeps values of its type.
KeptOf(key) == IF Field[key].ptype \in Numbers THEN Item(Field[key].ptype) ELSE {}
Keeps == {p \in [PackedKeys -> UNION {Seq(KeptOf(key)) : key \in PackedKeys}] :
           \A key \in PackedKeys : p[key] \in Seq(KeptOf(key))}

\* Nothing has been written past the end of the memory.
Message ==
  [type : Type, buf : Seq(Byte), cap : Nat \ {0}, packed : Keeps,
   sub : Seq([msg : Nat, key : Key]), over : BOOLEAN]
Safe == {w \in Message : ~ w.over /\ Len(w.buf) <= w.cap}

\* What is not touched by bytes that are put into the buffer.
Kin(x, w) == x.type = w.type /\ x.sub = w.sub /\ x.packed = w.packed

\* Some doubling is enough, whatever is asked for.
LEMMA Doubling ==
  ASSUME NEW room \in Nat \ {0}, NEW n \in Nat, n > room
  PROVE  Doublings(room, n) \in 1 .. n /\ n <= room * 2^Doublings(room, n)
<1> DEFINE T == {i \in 1 .. n : n <= room * 2^i}
<1>1. \A i \in Nat : 2^i \in Nat BY Subsets
<1>2. n \in T
  <2>1. n < 2^n /\ 2^n \in Nat BY PowerLarge, Subsets
  <2>2. PICK p \in Nat : p = 2^n BY <2>1
  <2>3. p <= room * p
    <3>1. PICK c \in Nat : room = c + 1 BY room - 1 \in Nat
    <3>2. (c + 1) * p = c * p + p BY <3>1, <2>2
    <3>3. c * p \in Nat BY <3>1, <2>2
    <3> QED BY <3>1, <3>2, <3>3, <2>2
  <2>4. n <= room * p BY <2>1, <2>2, <2>3
  <2> QED BY <2>2, <2>4
<1>3. T \subseteq Nat /\ T # {} BY <1>2
<1>4. PICK x \in T : \A y \in T : x <= y
  <2> HIDE DEF T
  <2> QED BY <1>3, Smallest
<1>5. ASSUME x > 1 PROVE n > room * 2^(x - 1)
  <2>1. x - 1 \in 1 .. n /\ x - 1 < x /\ x - 1 \in Nat BY <1>4, <1>5
  <2>2. ~ (n <= room * 2^(x - 1)) BY <1>4, <2>1
  <2>3. PICK p \in Nat : p = 2^(x - 1) BY <1>1, <2>1
  <2>4. room * p \in Nat BY <2>3
  <2> QED BY <2>2, <2>3, <2>4
<1>6. \E i \in 1 .. n : n <= room * 2^i /\ (i > 1 => n > room * 2^(i - 1))
  BY <1>4, <1>5
<1> QED BY <1>6 DEF Doublings

\* There is room for what has been asked for, and nothing else has changed.
LEMMA Expanded ==
  ASSUME NEW w \in Safe, NEW sz \in Nat
  PROVE  LET x == Expand(w, sz)
         IN  x \in Safe /\ Kin(x, w) /\ x.buf = w.buf /\ Len(w.buf) + sz <= x.cap
<1> DEFINE n == Len(w.buf) + sz
<1>1. w \in Message /\ w.buf \in Seq(Byte) /\ w.cap \in Nat \ {0} /\ n \in Nat
      /\ Len(w.buf) <= w.cap /\ ~ w.over
  BY DEF Safe, Message
<1>2. CASE n <= w.cap BY <1>1, <1>2 DEF Expand, Kin
<1>3. CASE n > w.cap
  <2> DEFINE i == Doublings(w.cap, n)
  <2>1. n \in Nat /\ n > w.cap BY <1>1, <1>3
  <2>2. i \in 1 .. n /\ n <= w.cap * 2^i
    <3> HIDE DEF n
    <3> QED BY <1>1, <2>1, Doubling
  <2>3. Expand(w, sz) = [w EXCEPT !.cap = w.cap * 2^i] BY <1>1, <1>3 DEF Expand
  <2>4. PICK p \in Nat : p = 2^i
    <3> HIDE DEF i
    <3>1. i \in Nat BY <2>2, <1>1
    <3> QED BY <3>1, Subsets
  <2>5. w.cap * p \in Nat /\ n <= w.cap * p BY <1>1, <2>2, <2>4
  <2> HIDE DEF i
  <2>6. PICK c \in Nat : c = w.cap * p /\ n <= c /\ c # 0 BY <1>1, <1>3, <2>5
  <2>7. Expand(w, sz) = [w EXCEPT !.cap = c] BY <2>3, <2>4, <2>6
  <2> DEFINE x == [w EXCEPT !.cap = c]
  <2>8. x \in Message /\ x.buf = w.buf /\ x.cap = c /\ x.over = w.over /\ Kin(x, w)
    BY <1>1, <2>6 DEF Message, Kin
  <2> HIDE DEF x
  <2>9. Len(x.buf) <= x.cap
    <3>1. Len(w.buf) \in Nat BY <1>1
    <3> QED BY <1>1, <2>6, <2>8, <3>1
  <2>10. Expand(w, sz) = x BY <2>7 DEF x
  <2> QED BY <1>1, <2>6, <2>8, <2>9, <2>10 DEF Safe
<1> QED BY <1>1, <1>2, <1>3

\* Bytes that fit are put at the end.
LEMMA PutFits ==
  ASSUME NEW w \in Safe, NEW bytes \in Seq(Byte), Len(w.buf) + Len(bytes) <= w.cap
  PROVE  LET x == Put(w, bytes)
         IN  /\ x \in Safe /\ Kin(x, w) /\ x.buf = w.buf \o bytes /\ x.cap = w.cap
             /\ Len(x.buf) = Len(w.buf) + Len(bytes)
<1>1. w \in Message /\ w.buf \in Seq(Byte) /\ w.cap \in Nat /\ ~ w.over
  BY DEF Safe, Message
<1>2. w.buf \o bytes \in Seq(Byte) /\ Len(w.buf \o bytes) = Len(w.buf) + Len(bytes)
  BY <1>1, Concat
<1>3. PICK b \in Seq(Byte) : b = w.buf \o bytes /\ Len(b) = Len(w.buf) + Len(bytes)
  BY <1>2
<1> DEFINE o == w.over \/ Len(w.buf) + Len(bytes) > w.cap
<1>4. o = FALSE
  <2>1. Len(w.buf) \in Nat /\ Len(bytes) \in Nat BY <1>1
  <2>2. ~ (Len(w.buf) + Len(bytes) > w.cap) BY <1>1, <2>1
  <2> QED BY <1>1, <2>2
<1>5. Put(w, bytes) = [w EXCEPT !.buf = b, !.over = o]
  BY <1>3 DEF Put
<1> HIDE DEF o
<1> QED BY <1>1, <1>3, <1>4, <1>5 DEF Safe, Message, Kin

\* Room is made for so many bytes and no more are put there.
LEMMA Asked ==
  ASSUME NEW w \in Safe, NEW bytes \in Seq(Byte), NEW sz \in Nat, Len(bytes) <= sz
  PROVE  LET x == Put(Expand(w, sz), bytes)
         IN  /\ x \in Safe /\ Kin(x, w) /\ x.buf = w.buf \o bytes
             /\ Len(x.buf) = Len(w.buf) + Len(bytes)
             /\ Len(w.buf) + sz <= x.cap
<1> DEFINE e == Expand(w, sz)
<1>1. e \in Safe /\ Kin(e, w) /\ e.buf = w.buf /\ Len(w.buf) + sz <= e.cap BY Expanded
<1>2. w.buf \in Seq(Byte) /\ e.cap \in Nat BY <1>1 DEF Safe, Message
<1>3. Len(e.buf) + Len(bytes) <= e.cap BY <1>1, <1>2
<1> HIDE DEF e
<1>4. LET x == Put(e, bytes)
      IN  /\ x \in Safe /\ Kin(x, e) /\ x.buf = e.buf \o bytes /\ x.cap = e.cap
          /\ Len(x.buf) = Len(e.buf) + Len(bytes)
  BY <1>1, <1>3, PutFits
<1> DEFINE x == Put(e, bytes)
<1>5. /\ x \in Safe /\ Kin(x, e) /\ x.buf = e.buf \o bytes /\ x.cap = e.cap
      /\ Len(x.buf) = Len(e.buf) + Len(bytes)
  BY <1>4
<1> HIDE DEF x
<1>6. /\ x \in Safe /\ Kin(x, w) /\ x.buf = w.buf \o bytes
      /\ Len(x.buf) = Len(w.buf) + Len(bytes)
      /\ Len(w.buf) + sz <= x.cap
  BY <1>1, <1>5 DEF Kin
<1> QED BY <1>6 DEF x, e

-----------------------------------------------------------------------------
\* Folds.  What the folds of the model do with place j of what they fold; p is
\* what their step depends on.
Turn(what, p, x, j) ==
  CASE what = "values" -> Write(x, p.of, p.vs[j])
    [] what = "items" -> PutItem(x, p[j])
    [] what = "packs" -> PackPacked(x, p[j])
    [] what = "subs" -> PutSub(x, p[j])
    [] what = "messages" -> PutSubs(x, p[j])
    [] what = "repeated" -> PackField(x, p.of, p.vs[j])
    [] what = "numbers" -> PutIn(x, p[j])

\* The function on sets of places that such a fold is defined with,
Round(f, what, p, s, base) ==
  IF s = {} THEN base ELSE Turn(what, p, f[s \ {Max(s)}], Max(s))
Folds(f, what, p, n, base) == f = [s \in SUBSET (1 .. n) |-> Round(f, what, p, s, base)]

\* and the values it goes through.
Turns(t, what, p, n, base) ==
  /\ t[0] = base
  /\ \A k \in 0 .. n : k < n => t[k + 1] = Turn(what, p, t[k], k + 1)

\* There is such a function,
LEMMA FoldThere ==
  ASSUME NEW n \in Nat, NEW what, NEW p, NEW base
  PROVE  \E f : Folds(f, what, p, n, base)
<1> DEFINE D == 1 .. n
           Body(f, s) == Round(f, what, p, s, base)
           To(f, k) == \A s \in SUBSET D : s \subseteq 1 .. k => f[s] = Body(f, s)
           T == {k \in 0 .. n : \E f : To(f, k)}
<1>1. ASSUME NEW s \in SUBSET D, s # {}
      PROVE  Max(s) \in s /\ \A y \in s : y <= Max(s)
  <2>1. s \in SUBSET (0 .. n) OBVIOUS
  <2> QED BY <2>1, <1>1, MaxIs
<1>2. ASSUME NEW f, NEW h, NEW s \in SUBSET D, s # {} => f[s \ {Max(s)}] = h[s \ {Max(s)}]
      PROVE  Body(f, s) = Body(h, s)
  BY <1>2 DEF Round
<1>3. 0 \in T
  <2> DEFINE f == [s \in SUBSET D |-> base]
  <2>1. ASSUME NEW s \in SUBSET D, s \subseteq 1 .. 0 PROVE f[s] = Body(f, s)
    <3>1. s = {} BY <2>1
    <3>2. f[s] = base OBVIOUS
    <3> QED BY <3>1, <3>2 DEF Round
  <2>2. To(f, 0) BY <2>1
  <2> HIDE DEF To, f
  <2> QED BY <2>2
<1>4. ASSUME NEW k \in 0 .. n, k < n, k \in T PROVE k + 1 \in T
  <2>1. PICK f : To(f, k) BY <1>4
  <2> DEFINE h == [s \in SUBSET D |-> IF s \subseteq 1 .. k THEN f[s] ELSE Body(f, s)]
  <2>2. ASSUME NEW s \in SUBSET D, s \subseteq 1 .. k + 1 PROVE h[s] = Body(h, s)
    <3>1. h[s] = Body(f, s)
      <4>1. CASE s \subseteq 1 .. k
        <5>1. h[s] = f[s] BY <4>1
        <5>2. f[s] = Body(f, s) BY <2>1, <4>1
        <5> QED BY <5>1, <5>2
      <4>2. CASE ~ (s \subseteq 1 .. k)
        <5> HIDE DEF D, Body
        <5> QED BY <4>2
      <4> QED BY <4>1, <4>2
    <3>2. ASSUME s # {} PROVE f[s \ {Max(s)}] = h[s \ {Max(s)}]
      <4>1. Max(s) \in s /\ \A y \in s : y <= Max(s) BY <1>1, <3>2
      <4> DEFINE top == Max(s)
      <4> HIDE DEF top
      <4>2. top \in 1 .. k + 1 /\ \A y \in s \ {top} : y \in 1 .. k + 1 /\ y <= top /\ y # top
        BY <2>2, <4>1 DEF top
      <4>3. \A y \in s \ {top} : y \in 1 .. k BY <4>2
      <4>4. s \ {top} \in SUBSET D /\ s \ {top} \subseteq 1 .. k BY <4>3
      <4>5. h[s \ {top}] = f[s \ {top}]
        <5> HIDE DEF D, Body
        <5> QED BY <4>4
      <4> QED BY <4>5 DEF top
    <3> HIDE DEF h, Body
    <3> QED BY <1>2, <3>1, <3>2
  <2>3. To(h, k + 1)
    <3> HIDE DEF h, Body
    <3> QED BY <2>2
  <2>4. k + 1 \in 0 .. n BY <1>4
  <2> HIDE DEF To, h
  <2> QED BY <2>3, <2>4
<1>5. n \in T
  <2> HIDE DEF T
  <2>1. \A i \in 0 .. n : i \in T BY <1>3, <1>4, Upwards
  <2> QED BY <2>1
<1>6. PICK f : To(f, n) BY <1>5
<1> DEFINE g == [s \in SUBSET D |-> Body(f, s)]
<1>7. \A s \in SUBSET D : g[s] = Body(f, s) /\ f[s] = Body(f, s) BY <1>6
<1>8. ASSUME NEW s \in SUBSET D PROVE Body(f, s) = Body(g, s)
  <2>1. s \ {Max(s)} \in SUBSET D OBVIOUS
  <2>2. f[s \ {Max(s)}] = g[s \ {Max(s)}]
    <3> HIDE DEF g, Body
    <3> QED BY <1>7, <2>1
  <2> HIDE DEF g, Body
  <2> QED BY <1>2, <2>2
<1>9. g = [s \in SUBSET D |-> Body(g, s)]
  <2> HIDE DEF Body
  <2> QED BY <1>8
<1> HIDE DEF g
<1> QED BY <1>9 DEF Folds

\* and it goes through the values one expects, place by place.
LEMMA FoldGoes ==
  ASSUME NEW n \in Nat, NEW what, NEW p, NEW base, NEW f, Folds(f, what, p, n, base)
  PROVE  \E t : Turns(t, what, p, n, base) /\ t[n] = f[1 .. n]
<1> DEFINE D == 1 .. n
           t == [k \in 0 .. n |-> f[1 .. k]]
<1>1. \A s \in SUBSET D : f[s] = Round(f, what, p, s, base) BY DEF Folds
<1>2. t[0] = base
  <2>1. 1 .. 0 = {} /\ {} \in SUBSET D OBVIOUS
  <2>2. f[{}] = base BY <1>1, <2>1 DEF Round
  <2>3. t[0] = f[1 .. 0] OBVIOUS
  <2> QED BY <2>1, <2>2, <2>3
<1>3. ASSUME NEW k \in 0 .. n, k < n PROVE t[k + 1] = Turn(what, p, t[k], k + 1)
  <2> DEFINE s == 1 .. k + 1
  <2>1. k + 1 \in s /\ \A y \in s : y <= k + 1 /\ y \in D BY <1>3
  <2>2. s \in SUBSET D /\ s # {} /\ s \in SUBSET (0 .. n)
    <3>1. \A y \in D : y \in 0 .. n OBVIOUS
    <3> HIDE DEF s, D
    <3> QED BY <2>1, <3>1
  <2>3. Max(s) \in s /\ \A y \in s : y <= Max(s)
    <3> HIDE DEF s
    <3> QED BY <2>2, MaxIs
  <2>4. Max(s) = k + 1
    <3> DEFINE top == Max(s)
    <3> HIDE DEF top
    <3>1. top \in 1 .. k + 1 /\ k + 1 <= top BY <2>1, <2>3 DEF top
    <3> QED BY <3>1 DEF top
  <2>5. s \ {k + 1} = 1 .. k OBVIOUS
  <2>6. t[k + 1] = f[s] /\ t[k] = f[1 .. k]
    <3>1. k + 1 \in 0 .. n BY <1>3
    <3> QED BY <3>1
  <2>7. f[s] = Round(f, what, p, s, base) BY <1>1, <2>2
  <2> HIDE DEF s, t
  <2> QED BY <2>2, <2>4, <2>5, <2>6, <2>7 DEF Round
<1>4. t[n] = f[1 .. n] OBVIOUS
<1> HIDE DEF t
<1> QED BY <1>2, <1>3, <1>4 DEF Turns

\* What every step keeps holds in the end, and on the way.
LEMMA FoldStays ==
  ASSUME NEW n \in Nat, NEW what, NEW p, NEW base, NEW t, Turns(t, what, p, n, base),
         NEW S, base \in S, \A x \in S, j \in 1 .. n : Turn(what, p, x, j) \in S
  PROVE  \A k \in 0 .. n : t[k] \in S
<1> DEFINE T == {k \in 0 .. n : t[k] \in S}
<1>1. 0 \in T BY DEF Turns
<1>2. ASSUME NEW k \in 0 .. n, k < n, k \in T PROVE k + 1 \in T
  <2>1. k + 1 \in 0 .. n /\ k + 1 \in 1 .. n BY <1>2
  <2>2. t[k + 1] = Turn(what, p, t[k], k + 1) BY <1>2 DEF Turns
  <2>3. Turn(what, p, t[k], k + 1) \in S BY <1>2, <2>1
  <2> QED BY <2>1, <2>2, <2>3
<1>3. \A k \in 0 .. n : k \in T
  <2> HIDE DEF T
  <2> QED BY <1>1, <1>2, Upwards
<1> QED BY <1>3

\* The folds of the model are such functions: the items of a packed field,
LEMMA ItemsFold ==
  ASSUME NEW p, NEW n \in Nat, DOMAIN p = 1 .. n, NEW e
  PROVE  \E t : Turns(t, "items", p, n, e) /\ FoldLeft(PutItem, e, p) = t[n]
<1> DEFINE D == 1 .. n
           Is(f) == f = [s \in SUBSET D |-> IF s = {} THEN e
                            ELSE PutItem(f[s \ {Max(s)}], p[Max(s)])]
           iter == CHOOSE f : Is(f)
           end == FoldLeft(PutItem, e, p)
<1>1. end = iter[D]
  BY DEF FoldLeft, MapThenFoldSet
<1>2. \A f : Folds(f, "items", p, n, e) <=> Is(f)
  BY DEF Folds, Round, Turn
<1>3. Is(iter)
  <2>1. \E f : Is(f) BY <1>2, FoldThere
  <2> HIDE DEF Is
  <2> QED BY <2>1
<1>4. Folds(iter, "items", p, n, e)
  <2> HIDE DEF Is, iter
  <2> QED BY <1>2, <1>3
<1> HIDE DEF iter, Is, end
<1>5. PICK t : Turns(t, "items", p, n, e) /\ t[n] = iter[1 .. n] BY <1>4, FoldGoes
<1>6. end = t[n] BY <1>1, <1>5
<1>7. \E u : Turns(u, "items", p, n, e) /\ end = u[n] BY <1>5, <1>6
<1> QED BY <1>7 DEF end

\* the packed fields of a message,
LEMMA PacksFold ==
  ASSUME NEW p, NEW n \in Nat, DOMAIN p = 1 .. n, NEW e
  PROVE  \E t : Turns(t, "packs", p, n, e) /\ FoldLeft(PackPacked, e, p) = t[n]
<1> DEFINE D == 1 .. n
           Is(f) == f = [s \in SUBSET D |-> IF s = {} THEN e
                            ELSE PackPacked(f[s \ {Max(s)}], p[Max(s)])]
           iter == CHOOSE f : Is(f)
           end == FoldLeft(PackPacked, e, p)
<1>1. end = iter[D]
  BY DEF FoldLeft, MapThenFoldSet
<1>2. \A f : Folds(f, "packs", p, n, e) <=> Is(f)
  BY DEF Folds, Round, Turn
<1>3. Is(iter)
  <2>1. \E f : Is(f) BY <1>2, FoldThere
  <2> HIDE DEF Is
  <2> QED BY <2>1
<1>4. Folds(iter, "packs", p, n, e)
  <2> HIDE DEF Is, iter
  <2> QED BY <1>2, <1>3
<1> HIDE DEF iter, Is, end
<1>5. PICK t : Turns(t, "packs", p, n, e) /\ t[n] = iter[1 .. n] BY <1>4, FoldGoes
<1>6. end = t[n] BY <1>1, <1>5
<1>7. \E u : Turns(u, "packs", p, n, e) /\ end = u[n] BY <1>5, <1>6
<1> QED BY <1>7 DEF end

\* the messages inside it,
LEMMA SubsFold ==
  ASSUME NEW p, NEW n \in Nat, DOMAIN p = 1 .. n, NEW e
  PROVE  \E t : Turns(t, "subs", p, n, e) /\ FoldLeft(PutSub, e, p) = t[n]
<1> DEFINE D == 1 .. n
           Is(f) == f = [s \in SUBSET D |-> IF s = {} THEN e
                            ELSE PutSub(f[s \ {Max(s)}], p[Max(s)])]
           iter == CHOOSE f : Is(f)
           end == FoldLeft(PutSub, e, p)
<1>1. end = iter[D]
  BY DEF FoldLeft, MapThenFoldSet
<1>2. \A f : Folds(f, "subs", p, n, e) <=> Is(f)
  BY DEF Folds, Round, Turn
<1>3. Is(iter)
  <2>1. \E f : Is(f) BY <1>2, FoldThere
  <2> HIDE DEF Is
  <2> QED BY <2>1
<1>4. Folds(iter, "subs", p, n, e)
  <2> HIDE DEF Is, iter
  <2> QED BY <1>2, <1>3
<1> HIDE DEF iter, Is, end
<1>5. PICK t : Turns(t, "subs", p, n, e) /\ t[n] = iter[1 .. n] BY <1>4, FoldGoes
<1>6. end = t[n] BY <1>1, <1>5
<1>7. \E u : Turns(u, "subs", p, n, e) /\ end = u[n] BY <1>5, <1>6
<1> QED BY <1>7 DEF end

\* all the messages,
LEMMA MessagesFold ==
  ASSUME NEW p, NEW n \in Nat, DOMAIN p = 1 .. n, NEW e
  PROVE  \E t : Turns(t, "messages", p, n, e) /\ FoldLeft(PutSubs, e, p) = t[n]
<1> DEFINE D == 1 .. n
           Is(f) == f = [s \in SUBSET D |-> IF s = {} THEN e
                            ELSE PutSubs(f[s \ {Max(s)}], p[Max(s)])]
           iter == CHOOSE f : Is(f)
           end == FoldLeft(PutSubs, e, p)
<1>1. end = iter[D]
  BY DEF FoldLeft, MapThenFoldSet
<1>2. \A f : Folds(f, "messages", p, n, e) <=> Is(f)
  BY DEF Folds, Round, Turn
<1>3. Is(iter)
  <2>1. \E f : Is(f) BY <1>2, FoldThere
  <2> HIDE DEF Is
  <2> QED BY <2>1
<1>4. Folds(iter, "messages", p, n, e)
  <2> HIDE DEF Is, iter
  <2> QED BY <1>2, <1>3
<1> HIDE DEF iter, Is, end
<1>5. PICK t : Turns(t, "messages", p, n, e) /\ t[n] = iter[1 .. n] BY <1>4, FoldGoes
<1>6. end = t[n] BY <1>1, <1>5
<1>7. \E u : Turns(u, "messages", p, n, e) /\ end = u[n] BY <1>5, <1>6
<1> QED BY <1>7 DEF end

\* the numbers of a packed field of a pattern,
LEMMA NumbersFold ==
  ASSUME NEW p, NEW n \in Nat, DOMAIN p = 1 .. n, NEW e
  PROVE  \E t : Turns(t, "numbers", p, n, e) /\ FoldLeft(PutIn, e, p) = t[n]
<1> DEFINE D == 1 .. n
           Is(f) == f = [s \in SUBSET D |-> IF s = {} THEN e
                            ELSE PutIn(f[s \ {Max(s)}], p[Max(s)])]
           iter == CHOOSE f : Is(f)
           end == FoldLeft(PutIn, e, p)
<1>1. end = iter[D]
  BY DEF FoldLeft, MapThenFoldSet
<1>2. \A f : Folds(f, "numbers", p, n, e) <=> Is(f)
  BY DEF Folds, Round, Turn
<1>3. Is(iter)
  <2>1. \E f : Is(f) BY <1>2, FoldThere
  <2> HIDE DEF Is
  <2> QED BY <2>1
<1>4. Folds(iter, "numbers", p, n, e)
  <2> HIDE DEF Is, iter
  <2> QED BY <1>2, <1>3
<1> HIDE DEF iter, Is, end
<1>5. PICK t : Turns(t, "numbers", p, n, e) /\ t[n] = iter[1 .. n] BY <1>4, FoldGoes
<1>6. end = t[n] BY <1>1, <1>5
<1>7. \E u : Turns(u, "numbers", p, n, e) /\ end = u[n] BY <1>5, <1>6
<1> QED BY <1>7 DEF end

\* the values of a key,
LEMMA ValuesFold ==
  ASSUME NEW a, NEW p, NEW n \in Nat, DOMAIN p = 1 .. n, NEW e
  PROVE  \E t : /\ Turns(t, "values", [of |-> a, vs |-> p], n, e)
                /\ WriteAll(e, a, p) = t[n]
<1> DEFINE D == 1 .. n
           q == [of |-> a, vs |-> p]
           Is(f) == f = [s \in SUBSET D |-> IF s = {} THEN e
                            ELSE Write(f[s \ {Max(s)}], a, p[Max(s)])]
           iter == CHOOSE f : Is(f)
           end == WriteAll(e, a, p)
<1>1. end = iter[D]
  BY DEF WriteAll, FoldLeft, MapThenFoldSet
<1>2. \A f : Folds(f, "values", q, n, e) <=> Is(f)
  BY DEF Folds, Round, Turn
<1>3. Is(iter)
  <2>1. \E f : Is(f) BY <1>2, FoldThere
  <2> HIDE DEF Is
  <2> QED BY <2>1
<1>4. Folds(iter, "values", q, n, e)
  <2> HIDE DEF Is, iter
  <2> QED BY <1>2, <1>3
<1> HIDE DEF iter, Is, end
<1>5. PICK t : Turns(t, "values", q, n, e) /\ t[n] = iter[1 .. n] BY <1>4, FoldGoes
<1>6. end = t[n] BY <1>1, <1>5
<1>7. \E u : Turns(u, "values", q, n, e) /\ end = u[n] BY <1>5, <1>6
<1> QED BY <1>7 DEF end

\* and the items of an array of a pattern.
LEMMA RepeatedFold ==
  ASSUME NEW a, NEW p, NEW n \in Nat, DOMAIN p = 1 .. n, NEW e
  PROVE  \E t : /\ Turns(t, "repeated", [of |-> a, vs |-> p], n, e)
                /\ PackRepeated(e, a, p) = t[n]
<1> DEFINE D == 1 .. n
           q == [of |-> a, vs |-> p]
           Is(f) == f = [s \in SUBSET D |-> IF s = {} THEN e
                            ELSE PackField(f[s \ {Max(s)}], a, p[Max(s)])]
           iter == CHOOSE f : Is(f)
           end == PackRepeated(e, a, p)
<1>1. end = iter[D]
  BY DEF PackRepeated, FoldLeft, MapThenFoldSet
<1>2. \A f : Folds(f, "repeated", q, n, e) <=> Is(f)
  BY DEF Folds, Round, Turn
<1>3. Is(iter)
  <2>1. \E f : Is(f) BY <1>2, FoldThere
  <2> HIDE DEF Is
  <2> QED BY <2>1
<1>4. Folds(iter, "repeated", q, n, e)
  <2> HIDE DEF Is, iter
  <2> QED BY <1>2, <1>3
<1> HIDE DEF iter, Is, end
<1>5. PICK t : Turns(t, "repeated", q, n, e) /\ t[n] = iter[1 .. n] BY <1>4, FoldGoes
<1>6. end = t[n] BY <1>1, <1>5
<1>7. \E u : Turns(u, "repeated", q, n, e) /\ end = u[n] BY <1>5, <1>6
<1> QED BY <1>7 DEF end

-----------------------------------------------------------------------------
\* The writers keep messages safe.

\* A message of the same type with the same messages inside it.
Like(x, w) == x.type = w.type /\ x.sub = w.sub

\* A packed value that is kept for later.
LEMMA Keeping ==
  ASSUME NEW w \in Safe, NEW key \in PackedKeys, NEW v \in KeptOf(key)
  PROVE  Keep(w, key, v) \in Safe /\ Like(Keep(w, key, v), w)
<1> DEFINE U == UNION {Seq(KeptOf(k)) : k \in PackedKeys}
<1>1. w \in Message /\ w.packed \in Keeps BY DEF Safe, Message
<1>2. w.packed \in [PackedKeys -> U] /\ \A k \in PackedKeys : w.packed[k] \in Seq(KeptOf(k))
  BY <1>1 DEF Keeps
<1> DEFINE kept == Append(w.packed[key], v)
           p == [w.packed EXCEPT ![key] = kept]
<1>3. kept \in Seq(KeptOf(key)) BY <1>2
<1>4. kept \in U BY <1>3
<1> HIDE DEF kept, U
<1>5. p \in [PackedKeys -> U] BY <1>2, <1>4
<1>6. \A k \in PackedKeys : p[k] \in Seq(KeptOf(k)) BY <1>2, <1>3
<1>7. p \in Keeps
  <2> HIDE DEF p
  <2> QED BY <1>5, <1>6 DEF Keeps, U
<1>8. Keep(w, key, v) = [w EXCEPT !.packed = p] BY DEF Keep, kept
<1> HIDE DEF p
<1> QED BY <1>1, <1>7, <1>8 DEF Safe, Message, Like

\* A tag and a number take no more than the room that was made.
LEMMA NumberPut ==
  ASSUME NEW w \in Safe, NEW f, f.ptype \in Numbers, NEW v \in Item(f.ptype), NEW sz \in Nat,
         sz >= 15 \/ (sz >= 13 /\ WireType(f.ptype) \in {BIT64, BIT32})
  PROVE  LET x == Put(Expand(w, sz), Tag(f, WireType(f.ptype)) \o Payload(f.ptype, v))
         IN  x \in Safe /\ Like(x, w)
<1> DEFINE tag == Tag(f, WireType(f.ptype))
           num == Payload(f.ptype, v)
<1>1. WireType(f.ptype) \in {VARINT, BIT64, LEND, BIT32} BY DEF WireType
<1>2. tag \in Seq(Byte) /\ Len(tag) \in 1 .. 5 BY <1>1, TagBytes
<1>3. /\ num \in Seq(Byte) /\ Len(num) \in 1 .. 10
      /\ WireType(f.ptype) \in {BIT64, BIT32} => Len(num) = Width(f.ptype)
  BY PayloadBytes
<1>4. Width(f.ptype) \in {4, 8} BY DEF Width
<1> HIDE DEF tag, num
<1>5. tag \o num \in Seq(Byte) /\ Len(tag \o num) = Len(tag) + Len(num)
  BY <1>2, <1>3, Concat
<1> DEFINE bytes == tag \o num
<1> HIDE DEF bytes
<1>6. bytes \in Seq(Byte) /\ Len(bytes) = Len(tag) + Len(num) BY <1>5 DEF bytes
<1>7. bytes \in Seq(Byte) /\ Len(bytes) <= sz
  <2>1. Len(num) <= 8 \/ sz >= 15 BY <1>3, <1>4
  <2>2. sz >= 13 OBVIOUS
  <2>3. PICK a \in 1 .. 5 : a = Len(tag) BY <1>2
  <2>4. PICK b \in 1 .. 10 : b = Len(num) BY <1>3
  <2>5. b <= 8 \/ sz >= 15 BY <2>1, <2>4
  <2>6. a + b <= sz BY <2>2, <2>5
  <2>7. Len(bytes) = a + b BY <1>6, <2>3, <2>4
  <2> QED BY <1>6, <2>6, <2>7
<1>8. Put(Expand(w, sz), bytes) \in Safe /\ Like(Put(Expand(w, sz), bytes), w)
  BY <1>7, Asked DEF Kin, Like
<1> QED BY <1>8 DEF bytes, tag, num

\* Integers, reals and enums: the room asked for covers a tag and a number.
LEMMA IntegerWritten ==
  ASSUME NEW w \in Safe, NEW key \in Key, Field[key].ptype \in Numbers,
         NEW v \in Item(Field[key].ptype)
  PROVE  /\ wmessage_integer(w, key, v) \in Safe
         /\ Like(wmessage_integer(w, key, v), w)
<1> DEFINE f == Field[key]
           x == Put(Expand(w, 20), Tag(f, WireType(f.ptype)) \o Payload(f.ptype, v))
<1>1. x \in Safe /\ Like(x, w) BY NumberPut
<1>2. f.label = "packed" => key \in PackedKeys /\ v \in KeptOf(key) BY DEF PackedKeys, KeptOf
<1>3. f.label = "packed" => Keep(w, key, v) \in Safe /\ Like(Keep(w, key, v), w)
  BY <1>2, Keeping
<1>4. wmessage_integer(w, key, v)
        = IF f.label = "packed" THEN Keep(w, key, v) ELSE IF Elided(f, v) THEN w ELSE x
  BY DEF wmessage_integer
<1> HIDE DEF x, f
<1> QED BY <1>1, <1>3, <1>4 DEF Like, f

\* The room for a real is smaller, and covers its eight bytes.
LEMMA RealWritten ==
  ASSUME NEW w \in Safe, NEW key \in Key, Field[key].ptype \in {"double", "float"},
         NEW v \in Item(Field[key].ptype)
  PROVE  /\ wmessage_real(w, key, v) \in Safe
         /\ Like(wmessage_real(w, key, v), w)
<1> DEFINE f == Field[key]
           x == Put(Expand(w, 18), Tag(f, WireType(f.ptype)) \o Payload(f.ptype, v))
<1>1. f.ptype \in Numbers BY DEF Numbers, PTypes
<1>2. x \in Safe /\ Like(x, w) BY <1>1, NumberPut
<1>3. f.label = "packed" => key \in PackedKeys /\ v \in KeptOf(key)
  BY <1>1 DEF PackedKeys, KeptOf
<1>4. f.label = "packed" => Keep(w, key, v) \in Safe /\ Like(Keep(w, key, v), w)
  BY <1>3, Keeping
<1>5. wmessage_real(w, key, v)
        = IF f.label = "packed" THEN Keep(w, key, v) ELSE IF Elided(f, v) THEN w ELSE x
  BY DEF wmessage_real
<1> HIDE DEF x, f
<1> QED BY <1>2, <1>4, <1>5 DEF Like, f

\* An enum, by its name.
LEMMA EnumWritten ==
  ASSUME NEW w \in Safe, NEW key \in Key, Field[key].ptype = "enum",
         NEW v \in Item(Field[key].ptype)
  PROVE  /\ wmessage_enum(w, key, v) \in Safe
         /\ Like(wmessage_enum(w, key, v), w)
<1> DEFINE f == Field[key]
           x == Put(Expand(w, 20), Tag(f, VARINT) \o Payload("enum", v))
<1>1. f.ptype \in Numbers /\ WireType(f.ptype) = VARINT BY DEF Numbers, PTypes, WireType
<1>2. x \in Safe /\ Like(x, w) BY <1>1, NumberPut
<1>3. f.label = "packed" => key \in PackedKeys /\ v \in KeptOf(key)
  BY <1>1 DEF PackedKeys, KeptOf
<1>4. f.label = "packed" => Keep(w, key, v) \in Safe /\ Like(Keep(w, key, v), w)
  BY <1>3, Keeping
<1>5. wmessage_enum(w, key, v)
        = IF f.label = "packed" THEN Keep(w, key, v) ELSE IF Elided(f, v) THEN w ELSE x
  BY DEF wmessage_enum
<1> HIDE DEF x, f
<1> QED BY <1>2, <1>4, <1>5 DEF Like, f

\* Room is made twice: for the head, and for the text behind it.
LEMMA StringWritten ==
  ASSUME NEW w \in Safe, NEW key \in Key, NEW v \in Seq(Byte)
  PROVE  /\ wmessage_string(w, key, v) \in Safe
         /\ Like(wmessage_string(w, key, v), w)
<1> DEFINE f == Field[key]
           tag == Tag(f, LEND)
           len == Length(Len(v))
           head == Put(Expand(w, 20), tag \o len)
           x == Put(Expand(head, Len(v)), v)
<1>1. tag \in Seq(Byte) /\ Len(tag) \in 1 .. 5 BY TagBytes
<1>2. len \in Seq(Byte) /\ Len(len) \in 1 .. 5 BY LengthBytes
<1> HIDE DEF tag, len
<1>3. tag \o len \in Seq(Byte) /\ Len(tag \o len) = Len(tag) + Len(len)
  BY <1>1, <1>2, Concat
<1>4. head \in Safe /\ Like(head, w)
  <2> DEFINE bytes == tag \o len
  <2> HIDE DEF bytes
  <2>1. bytes \in Seq(Byte) /\ Len(bytes) = Len(tag) + Len(len) BY <1>3 DEF bytes
  <2>2. PICK a \in 1 .. 5 : a = Len(tag) BY <1>1
  <2>3. PICK b \in 1 .. 5 : b = Len(len) BY <1>2
  <2>4. Len(bytes) = a + b BY <2>1, <2>2, <2>3
  <2>5. bytes \in Seq(Byte) /\ Len(bytes) <= 20 BY <2>1, <2>4
  <2>6. Put(Expand(w, 20), bytes) \in Safe /\ Like(Put(Expand(w, 20), bytes), w)
    BY <2>5, Asked DEF Kin, Like
  <2> QED BY <2>6 DEF bytes
<1>5. x \in Safe /\ Like(x, head)
  <2> HIDE DEF head
  <2>1. Len(v) \in Nat OBVIOUS
  <2> QED BY <1>4, <2>1, Asked DEF Kin, Like
<1>6. wmessage_string(w, key, v) = IF Elided(f, v) THEN w ELSE x
  BY DEF wmessage_string, tag, len
<1> HIDE DEF x, f, head
<1> QED BY <1>4, <1>5, <1>6 DEF Like

\* What a message takes for a key: no message itself, and known names only.
Given(key) == IF Field[key].ptype \in Numbers THEN Item(Field[key].ptype) ELSE Seq(Byte)

\* Whatever writer protobuf.lua picks, the message stays safe.
LEMMA OneWritten ==
  ASSUME NEW w \in Safe, NEW key \in Key, NEW v \in Given(key), Field[key].ptype # "message"
  PROVE  Write(w, key, v) \in Safe /\ Like(Write(w, key, v), w)
<1> DEFINE t == Field[key].ptype
<1>1. t \in PTypes BY FieldAssumption
<1>2. CASE t \in {"double", "float"}
  <2>1. LuaType(t) = "real" BY <1>2 DEF LuaType
  <2>2. v \in Item(t) BY <1>2 DEF Given, Numbers, PTypes
  <2>3. Write(w, key, v) = wmessage_real(w, key, v) BY <2>1 DEF Write
  <2> QED BY <1>2, <2>2, <2>3, RealWritten
<1>3. CASE t = "enum"
  <2>1. LuaType(t) = "enum" BY <1>3 DEF LuaType
  <2>2. v \in Item(t) BY <1>3 DEF Given, Numbers, PTypes
  <2>3. Write(w, key, v) = wmessage_enum(w, key, v) BY <2>1 DEF Write
  <2> QED BY <1>3, <2>2, <2>3, EnumWritten
<1>4. CASE t \in {"string", "bytes"}
  <2>1. LuaType(t) \in {"string", "bytes"} BY <1>4 DEF LuaType
  <2>2. v \in Seq(Byte) BY <1>4 DEF Given, Numbers
  <2>3. Write(w, key, v) = wmessage_string(w, key, v) BY <2>1 DEF Write
  <2> QED BY <2>2, <2>3, StringWritten
<1>5. CASE t \in PTypes \ {"double", "float", "enum", "string", "bytes", "message"}
  <2>1. LuaType(t) \notin {"real", "enum", "string", "bytes"} BY <1>5 DEF LuaType, PTypes
  <2>2. t \in Numbers BY <1>5 DEF Numbers
  <2>3. v \in Item(t) BY <2>2 DEF Given
  <2>4. Write(w, key, v) = wmessage_integer(w, key, v) BY <2>1 DEF Write
  <2> QED BY <2>2, <2>3, <2>4, IntegerWritten
<1> QED BY <1>1, <1>2, <1>3, <1>4, <1>5

-----------------------------------------------------------------------------
\* The values of a key, one after the other.
LEMMA ValuesWritten ==
  ASSUME NEW w \in Safe, NEW key \in Key, Field[key].ptype # "message",
         NEW vs \in Seq(Given(key))
  PROVE  LET x == WriteAll(w, key, vs)
         IN  x \in Safe /\ Like(x, w)
<1> DEFINE n == Len(vs)
           p == [of |-> key, vs |-> vs]
           S == {x \in Safe : Like(x, w)}
           end == WriteAll(w, key, vs)
<1>1. n \in Nat /\ DOMAIN vs = 1 .. n OBVIOUS
<1>2. \E t : Turns(t, "values", p, n, w) /\ end = t[n]
  <2> HIDE DEF n
  <2> QED BY <1>1, ValuesFold
<1>3. ASSUME NEW x \in S, NEW j \in 1 .. n PROVE Turn("values", p, x, j) \in S
  <2>1. vs[j] \in Given(key) OBVIOUS
  <2>2. x \in Safe OBVIOUS
  <2>3. Write(x, key, vs[j]) \in Safe /\ Like(Write(x, key, vs[j]), x)
    BY <2>1, <2>2, OneWritten
  <2>4. Turn("values", p, x, j) = Write(x, key, vs[j]) BY DEF Turn
  <2> QED BY <2>3, <2>4 DEF Like
<1>4. w \in S BY DEF Like
<1> HIDE DEF S, end, p, n
<1>5. PICK t : Turns(t, "values", p, n, w) /\ end = t[n] BY <1>2
<1>6. \A k \in 0 .. n : t[k] \in S BY <1>1, <1>3, <1>4, <1>5, FoldStays
<1>7. end \in S BY <1>1, <1>5, <1>6
<1> QED BY <1>7 DEF S, end

-----------------------------------------------------------------------------
\* Packed fields.

\* What is behind the first bytes.
LEMMA TheRest ==
  ASSUME NEW S, NEW s \in Seq(S), NEW a \in 0 .. Len(s)
  PROVE  SubSeq(s, a + 1, Len(s)) \in Seq(S) /\ Len(SubSeq(s, a + 1, Len(s))) = Len(s) - a
OBVIOUS

\* An item of a packed field takes ten bytes at most.
LEMMA PackedBytes ==
  ASSUME NEW ptype \in Numbers, NEW v \in Item(ptype)
  PROVE  PackedVarint(ptype, v) \in Seq(Byte) /\ Len(PackedVarint(ptype, v)) \in 1 .. 10
<1>1. CASE ptype = "int32"
  <2>1. "uint32" \in Numbers BY DEF Numbers, PTypes
  <2>2. v \in Item("uint32") BY <1>1 DEF Item, ValueOf
  <2>3. PackedVarint(ptype, v) = Payload("uint32", v) BY <1>1 DEF PackedVarint
  <2> QED BY <2>1, <2>2, <2>3, PayloadBytes
<1>2. CASE ptype # "int32"
  <2>1. PackedVarint(ptype, v) = Payload(ptype, v) BY <1>2 DEF PackedVarint
  <2> QED BY <2>1, PayloadBytes
<1> QED BY <1>1, <1>2

\* The items, each in room that is made for it.
LEMMA ItemsPut ==
  ASSUME NEW w \in Safe, NEW items, NEW n \in Nat, DOMAIN items = 1 .. n,
         \A j \in 1 .. n : items[j] \in Seq(Byte) /\ Len(items[j]) \in 1 .. 10
  PROVE  LET x == FoldLeft(PutItem, w, items)
         IN  x \in Safe /\ Kin(x, w) /\ Len(w.buf) <= Len(x.buf)
<1> DEFINE S == {x \in Safe : Kin(x, w) /\ Len(w.buf) <= Len(x.buf)}
           end == FoldLeft(PutItem, w, items)
<1>1. \E t : Turns(t, "items", items, n, w) /\ end = t[n] BY ItemsFold
<1>2. ASSUME NEW x \in S, NEW j \in 1 .. n PROVE Turn("items", items, x, j) \in S
  <2> DEFINE y == Put(Expand(x, 10), items[j])
  <2>1. x \in Safe /\ Kin(x, w) /\ Len(w.buf) <= Len(x.buf) OBVIOUS
  <2>2. PICK a \in 1 .. 10 : a = Len(items[j]) OBVIOUS
  <2>3. items[j] \in Seq(Byte) /\ Len(items[j]) <= 10
    <3>1. items[j] \in Seq(Byte) OBVIOUS
    <3>2. a <= 10 OBVIOUS
    <3> QED BY <2>2, <3>1, <3>2
  <2>4. y \in Safe /\ Kin(y, x) /\ Len(y.buf) = Len(x.buf) + Len(items[j])
    BY <2>1, <2>3, Asked
  <2>5. Turn("items", items, x, j) = y BY DEF Turn, PutItem
  <2> HIDE DEF y, S
  <2>6. Len(items[j]) \in Nat BY <2>3
  <2>7. Len(x.buf) \in Nat /\ Len(w.buf) \in Nat
    BY <2>1 DEF Safe, Message
  <2>8. Len(w.buf) <= Len(y.buf) BY <2>1, <2>4, <2>6, <2>7
  <2>9. Kin(y, w) BY <2>1, <2>4 DEF Kin
  <2> QED BY <2>4, <2>5, <2>8, <2>9 DEF S
<1>3. w \in S
  <2>1. Len(w.buf) \in Nat BY DEF Safe, Message
  <2> QED BY <2>1 DEF Kin
<1> HIDE DEF S, end
<1>4. PICK t : Turns(t, "items", items, n, w) /\ end = t[n] BY <1>1
<1>5. \A k \in 0 .. n : t[k] \in S BY <1>2, <1>3, <1>4, FoldStays
<1>6. end \in S BY <1>4, <1>5
<1> QED BY <1>6 DEF S, end

\* The length that was guessed and the one that is written instead.
LEMMA VarintsPacked ==
  ASSUME NEW w \in Safe, NEW f, f.ptype \in Numbers, NEW vs \in Seq(Item(f.ptype))
  PROVE  PackPackedVarint(w, f, vs) \in Safe /\ Kin(PackPackedVarint(w, f, vs), w)
<1> DEFINE guess == Len(vs) * (IF f.ptype = "bool" THEN 1 ELSE 2)
           first == Length(guess)
           head == Put(Expand(w, 10 + guess), first)
           list == [i \in DOMAIN vs |-> PackedVarint(f.ptype, vs[i])]
           full == FoldLeft(PutItem, head, list)
           items == SubSeq(full.buf, Len(head.buf) + 1, Len(full.buf))
           len == Length(Len(items))
           grown == IF Len(len) = Len(first) THEN full ELSE Expand(full, Len(len))
           back == [grown EXCEPT !.buf = w.buf]
<1>1. guess \in Nat
  <2>1. Len(vs) \in Nat OBVIOUS
  <2> QED BY <2>1
<1>2. first \in Seq(Byte) /\ Len(first) \in 1 .. 5 BY LengthBytes
<1>3. w.buf \in Seq(Byte) /\ Len(w.buf) \in Nat BY DEF Safe, Message
<1>4. /\ head \in Safe /\ Kin(head, w) /\ Len(head.buf) = Len(w.buf) + Len(first)
  <2> HIDE DEF guess, first
  <2>1. PICK a \in 1 .. 5 : a = Len(first) BY <1>2
  <2>2. PICK g \in Nat : g = guess BY <1>1
  <2>3. 10 + g \in Nat /\ a <= 10 + g OBVIOUS
  <2>4. 10 + guess \in Nat /\ Len(first) <= 10 + guess BY <2>1, <2>2, <2>3
  <2> QED BY <1>2, <2>4, Asked
<1>5. full \in Safe /\ Kin(full, head) /\ Len(head.buf) <= Len(full.buf)
  <2> DEFINE n == Len(vs)
  <2>1. n \in Nat /\ DOMAIN list = 1 .. n OBVIOUS
  <2>2. \A j \in 1 .. n : list[j] \in Seq(Byte) /\ Len(list[j]) \in 1 .. 10
    BY PackedBytes
  <2> HIDE DEF list, head, n
  <2> QED BY <1>4, <2>1, <2>2, ItemsPut
<1>6. full.buf \in Seq(Byte) /\ Len(full.buf) \in Nat /\ Len(head.buf) \in Nat
      /\ full.cap \in Nat /\ Len(full.buf) <= full.cap
  <2> HIDE DEF full, head
  <2> QED BY <1>4, <1>5 DEF Safe, Message
<1>7. items \in Seq(Byte) /\ Len(items) = Len(full.buf) - Len(head.buf)
  <2> HIDE DEF full, head
  <2>1. PICK a \in Nat : a = Len(head.buf) BY <1>6
  <2>2. PICK b \in Nat : b = Len(full.buf) BY <1>6
  <2>3. a \in 0 .. b BY <1>5, <2>1, <2>2
  <2>4. a \in 0 .. Len(full.buf) BY <2>2, <2>3
  <2>5. full.buf \in Seq(Byte) BY <1>6
  <2>6. SubSeq(full.buf, a + 1, Len(full.buf)) \in Seq(Byte)
        /\ Len(SubSeq(full.buf, a + 1, Len(full.buf))) = Len(full.buf) - a
    BY <2>4, <2>5, TheRest
  <2> QED BY <2>1, <2>6
<1>8. len \in Seq(Byte) /\ Len(len) \in 1 .. 5 BY LengthBytes
<1>9. /\ grown \in Safe /\ Kin(grown, full) /\ Len(full.buf) <= grown.cap
      /\ Len(len) # Len(first) => Len(full.buf) + Len(len) <= grown.cap
  <2>1. CASE Len(len) = Len(first)
    <3>1. grown = full BY <2>1
    <3> HIDE DEF grown, full, len, first
    <3> QED BY <1>5, <1>6, <2>1, <3>1 DEF Kin
  <2>2. CASE Len(len) # Len(first)
    <3>1. grown = Expand(full, Len(len)) BY <2>2
    <3> HIDE DEF grown, full, len, first
    <3>2. Len(len) \in Nat BY <1>8
    <3>3. grown \in Safe /\ Kin(grown, full) /\ Len(full.buf) + Len(len) <= grown.cap
      BY <1>5, <3>1, <3>2, Expanded
    <3>4. grown.cap \in Nat BY <3>3 DEF Safe, Message
    <3> QED BY <1>6, <3>2, <3>3, <3>4
  <2> QED BY <2>1, <2>2
<1> HIDE DEF guess, first, head, list, full, items, len, grown
<1>10. grown.cap \in Nat BY <1>9 DEF Safe, Message
<1>11. Len(w.buf) + Len(len) + Len(items) <= grown.cap
  <2>1. PICK a \in 1 .. 5 : a = Len(first) BY <1>2
  <2>2. PICK b \in 1 .. 5 : b = Len(len) BY <1>8
  <2>3. PICK c \in Nat : c = Len(w.buf) BY <1>3
  <2>4. PICK h \in Nat, u \in Nat : h = Len(head.buf) /\ u = Len(full.buf) BY <1>6
  <2>5. h = c + a BY <1>4, <2>1, <2>3, <2>4
  <2>6. Len(items) = u - h BY <1>7, <2>4
  <2>7. PICK g \in Nat : g = grown.cap BY <1>10
  <2>8. u <= g BY <1>9, <2>4, <2>7
  <2>9. b # a => u + b <= g BY <1>9, <2>1, <2>2, <2>4, <2>7
  <2>10. c + b + (u - h) <= g BY <2>5, <2>8, <2>9
  <2> QED BY <2>2, <2>3, <2>6, <2>7, <2>10
<1>12. back \in Safe /\ Kin(back, grown) /\ back.buf = w.buf /\ back.cap = grown.cap
  <2>1. Len(w.buf) <= grown.cap
    <3>1. Len(len) \in Nat /\ Len(items) \in Nat BY <1>7, <1>8
    <3> QED BY <1>3, <1>10, <1>11, <3>1
  <2> QED BY <1>3, <1>9, <2>1 DEF Safe, Message, Kin
<1> HIDE DEF back
<1>13. len \o items \in Seq(Byte) /\ Len(len \o items) = Len(len) + Len(items)
  BY <1>7, <1>8, Concat
<1> DEFINE bytes == len \o items
<1> HIDE DEF bytes
<1>14. bytes \in Seq(Byte) /\ Len(bytes) = Len(len) + Len(items) BY <1>13 DEF bytes
<1>15. Len(back.buf) + Len(bytes) <= back.cap
  <2>1. PICK a \in Nat : a = Len(w.buf) BY <1>3
  <2>2. PICK b \in Nat : b = Len(len) BY <1>8
  <2>3. PICK c \in Nat : c = Len(items) BY <1>7
  <2>4. PICK g \in Nat : g = grown.cap BY <1>10
  <2>5. a + b + c <= g BY <1>11, <2>1, <2>2, <2>3, <2>4
  <2>6. a + (b + c) <= g BY <2>5
  <2>7. Len(back.buf) = a /\ Len(bytes) = b + c /\ back.cap = g
    BY <1>12, <1>14, <2>1, <2>2, <2>3, <2>4
  <2> QED BY <2>6, <2>7
<1>16. Put(back, bytes) \in Safe /\ Kin(Put(back, bytes), back)
  BY <1>12, <1>14, <1>15, PutFits
<1>17. Kin(Put(back, bytes), w)
  BY <1>4, <1>5, <1>9, <1>12, <1>16 DEF Kin
<1>18. PackPackedVarint(w, f, vs) = Put(back, bytes)
  BY DEF PackPackedVarint, back, grown, len, items, full, list, head, first, guess, bytes
<1> QED BY <1>16, <1>17, <1>18

\* Where byte j of items of eight bytes comes from.
LEMMA EightEach ==
  ASSUME NEW n \in Nat, NEW j \in 1 .. 8 * n
  PROVE  ((j - 1) \div 8) + 1 \in 1 .. n /\ ((j - 1) % 8) + 1 \in 1 .. 8
<1>1. PICK q \in Int, r \in 0 .. 7 : j - 1 = 8 * q + r /\ q = (j - 1) \div 8 /\ r = (j - 1) % 8
  OBVIOUS
<1>2. q >= 0 /\ q < n BY <1>1
<1> QED BY <1>1, <1>2

\* Items of eight bytes have their room made at once.
LEMMA LongsPacked ==
  ASSUME NEW w \in Safe, NEW f, f.ptype \in Numbers, WireType(f.ptype) = BIT64,
         NEW vs \in Seq(Item(f.ptype))
  PROVE  PackPacked64(w, f, vs) \in Safe /\ Kin(PackPacked64(w, f, vs), w)
<1> DEFINE n == 8 * Len(vs)
           first == Length(n)
           head == Put(Expand(w, 10 + n), first)
           byte(j) == Payload(f.ptype, vs[(j \div 8) + 1])[(j % 8) + 1]
           bytes == [j \in 1 .. n |-> byte(j - 1)]
<1>1. n \in Nat
  <2>1. Len(vs) \in Nat OBVIOUS
  <2> QED BY <2>1
<1>2. first \in Seq(Byte) /\ Len(first) \in 1 .. 5 BY LengthBytes
<1>3. \A j \in 1 .. n : byte(j - 1) \in Byte
  <2> TAKE j \in 1 .. n
  <2>1. Len(vs) \in Nat OBVIOUS
  <2>2. ((j - 1) \div 8) + 1 \in 1 .. Len(vs) /\ ((j - 1) % 8) + 1 \in 1 .. 8
    BY <2>1, EightEach
  <2> DEFINE a == ((j - 1) \div 8) + 1
             b == ((j - 1) % 8) + 1
  <2> HIDE DEF a, b
  <2>3. a \in 1 .. Len(vs) /\ b \in 1 .. 8 BY <2>2 DEF a, b
  <2>4. vs[a] \in Item(f.ptype) BY <2>3
  <2>5. Width(f.ptype) = 8 BY DEF Width
  <2>6. Payload(f.ptype, vs[a]) \in Seq(Byte) /\ Len(Payload(f.ptype, vs[a])) = 8
    BY <2>4, <2>5, PayloadBytes
  <2>7. Payload(f.ptype, vs[a])[b] \in Byte BY <2>3, <2>6
  <2> QED BY <2>7 DEF a, b
<1> HIDE DEF byte
<1>4. bytes \in Seq(Byte) /\ Len(bytes) = n
  <2> HIDE DEF n
  <2> QED BY <1>1, <1>3
<1> HIDE DEF n, first, bytes
<1>5. head \in Safe /\ Kin(head, w) /\ Len(head.buf) = Len(w.buf) + Len(first)
      /\ Len(w.buf) + (10 + n) <= head.cap
  <2>1. PICK a \in 1 .. 5 : a = Len(first) BY <1>2
  <2>2. 10 + n \in Nat /\ a <= 10 + n BY <1>1
  <2> QED BY <1>2, <2>1, <2>2, Asked
<1> HIDE DEF head
<1>6. Len(head.buf) + Len(bytes) <= head.cap
  <2>1. PICK a \in 1 .. 5 : a = Len(first) BY <1>2
  <2>2. PICK b \in Nat : b = Len(w.buf) BY DEF Safe, Message
  <2>3. PICK c \in Nat : c = head.cap BY <1>5 DEF Safe, Message
  <2>4. b + (10 + n) <= c BY <1>5, <2>2, <2>3
  <2>5. (b + a) + n <= c BY <1>1, <2>4
  <2>6. Len(head.buf) = b + a BY <1>5, <2>1, <2>2
  <2> QED BY <1>4, <2>3, <2>5, <2>6
<1>7. Put(head, bytes) \in Safe /\ Kin(Put(head, bytes), head) BY <1>4, <1>5, <1>6, PutFits
<1>8. PackPacked64(w, f, vs) = Put(head, bytes)
  BY DEF PackPacked64, head, first, bytes, byte, n
<1> QED BY <1>5, <1>7, <1>8 DEF Kin

\* Items of four bytes are put where no room was made for them: what follows
\* is about messages that pack none.
NoPackedWords == \A key \in PackedKeys : WireType(Field[key].ptype) # BIT32

\* A packed field, of any other type,
LEMMA FieldPacked ==
  ASSUME NoPackedWords, NEW w \in Safe, NEW key \in PackedKeys
  PROVE  PackPacked(w, key) \in Safe /\ Kin(PackPacked(w, key), w)
<1> DEFINE f == Field[key]
           vs == w.packed[key]
           tag == Tag(f, LEND)
           tagged == Put(Expand(w, 10), tag)
<1>1. vs \in Seq(KeptOf(key)) BY DEF Safe, Message, Keeps
<1>2. CASE vs = <<>>
  <2>1. PackPacked(w, key) = w BY <1>2 DEF PackPacked
  <2> QED BY <2>1 DEF Kin
<1>3. CASE vs # <<>>
  <2>1. f.ptype \in Numbers /\ vs \in Seq(Item(f.ptype))
    <3>1. CASE f.ptype \in Numbers BY <1>1, <3>1 DEF KeptOf
    <3>2. CASE f.ptype \notin Numbers
      <4>1. vs \in Seq({}) BY <1>1, <3>2 DEF KeptOf
      <4> HIDE DEF vs
      <4>2. vs = <<>> BY <4>1
      <4> QED BY <1>3, <4>2
    <3> QED BY <3>1, <3>2
  <2>2. tag \in Seq(Byte) /\ Len(tag) \in 1 .. 5 BY TagBytes
  <2>3. tagged \in Safe /\ Kin(tagged, w)
    <3> HIDE DEF tag
    <3>1. PICK a \in 1 .. 5 : a = Len(tag) BY <2>2
    <3>2. a <= 10 OBVIOUS
    <3> QED BY <2>2, <3>1, <3>2, Asked
  <2>4. WireType(f.ptype) # BIT32 BY DEF NoPackedWords
  <2>5. PackPacked(w, key) = IF WireType(f.ptype) = BIT64 THEN PackPacked64(tagged, f, vs)
                             ELSE PackPackedVarint(tagged, f, vs)
    BY <1>3, <2>4 DEF PackPacked
  <2> HIDE DEF f, vs, tagged
  <2>6. CASE WireType(f.ptype) = BIT64
    <3>1. PackPacked64(tagged, f, vs) \in Safe /\ Kin(PackPacked64(tagged, f, vs), tagged)
      BY <2>1, <2>3, <2>6, LongsPacked
    <3> QED BY <2>3, <2>5, <2>6, <3>1 DEF Kin
  <2>7. CASE WireType(f.ptype) # BIT64
    <3>1. PackPackedVarint(tagged, f, vs) \in Safe
          /\ Kin(PackPackedVarint(tagged, f, vs), tagged)
      BY <2>1, <2>3, VarintsPacked
    <3> QED BY <2>3, <2>5, <2>7, <3>1 DEF Kin
  <2> QED BY <2>6, <2>7
<1> QED BY <1>2, <1>3

\* All packed fields, in any order.
LEMMA FieldsPacked ==
  ASSUME NoPackedWords, NEW w \in Safe, NEW n \in Nat, NEW order \in [1 .. n -> PackedKeys]
  PROVE  Packs(w, order) \in Safe /\ Kin(Packs(w, order), w)
<1> DEFINE S == {x \in Safe : Kin(x, w)}
           end == FoldLeft(PackPacked, w, order)
<1>1. \E t : Turns(t, "packs", order, n, w) /\ end = t[n] BY PacksFold
<1>2. ASSUME NEW x \in S, NEW j \in 1 .. n PROVE Turn("packs", order, x, j) \in S
  <2>1. order[j] \in PackedKeys OBVIOUS
  <2>2. PackPacked(x, order[j]) \in Safe /\ Kin(PackPacked(x, order[j]), x)
    BY <2>1, FieldPacked
  <2>3. Turn("packs", order, x, j) = PackPacked(x, order[j]) BY DEF Turn
  <2> QED BY <2>2, <2>3 DEF Kin
<1>3. w \in S BY DEF Kin
<1> HIDE DEF S, end
<1>4. PICK t : Turns(t, "packs", order, n, w) /\ end = t[n] BY <1>1
<1>5. \A k \in 0 .. n : t[k] \in S BY <1>2, <1>3, <1>4, FoldStays
<1>6. end \in S BY <1>4, <1>5
<1>7. end \in Safe /\ Kin(end, w) BY <1>6 DEF S
<1> QED BY <1>7 DEF end, Packs

\* A message inside a message.
LEMMA SubPut ==
  ASSUME NEW w \in Safe, NEW s, s.bytes \in Seq(Byte)
  PROVE  PutSub(w, s) \in Safe /\ Kin(PutSub(w, s), w)
<1> DEFINE tag == Tag(Field[s.key], LEND)
           len == Length(Len(s.bytes))
           front == tag \o len
           bytes == front \o s.bytes
<1>1. tag \in Seq(Byte) /\ Len(tag) \in 1 .. 5 BY TagBytes
<1>2. len \in Seq(Byte) /\ Len(len) \in 1 .. 5 BY LengthBytes
<1> HIDE DEF tag, len
<1>3. front \in Seq(Byte) /\ Len(front) = Len(tag) + Len(len) BY <1>1, <1>2, Concat
<1>4. bytes \in Seq(Byte) /\ Len(bytes) = Len(front) + Len(s.bytes)
  <2> HIDE DEF front
  <2>1. PICK u \in Seq(Byte) : u = s.bytes OBVIOUS
  <2>2. PICK v \in Seq(Byte) : v = front BY <1>3
  <2>3. v \o u \in Seq(Byte) /\ Len(v \o u) = Len(v) + Len(u) BY Concat
  <2> QED BY <2>1, <2>2, <2>3
<1> HIDE DEF front, bytes
<1>5. PICK n \in Nat : n = Len(s.bytes) OBVIOUS
<1>6. Len(bytes) <= 20 + n
  <2>1. PICK a \in 1 .. 5 : a = Len(tag) BY <1>1
  <2>2. PICK b \in 1 .. 5 : b = Len(len) BY <1>2
  <2>3. Len(front) = a + b BY <1>3, <2>1, <2>2
  <2>4. Len(bytes) = (a + b) + n BY <1>4, <1>5, <2>3
  <2> QED BY <2>4
<1>7. Put(Expand(w, 20 + n), bytes) \in Safe /\ Kin(Put(Expand(w, 20 + n), bytes), w)
  <2>1. 20 + n \in Nat OBVIOUS
  <2> QED BY <1>4, <1>6, <2>1, Asked
<1>8. PutSub(w, s) = Put(Expand(w, 20 + n), bytes)
  BY <1>5 DEF PutSub, bytes, front, tag, len
<1> QED BY <1>7, <1>8

\* The messages of one encode: those inside a message come after it.
Heaps(n) == {ms \in [1 .. n -> Safe] :
               \A k \in 1 .. n : \A i \in DOMAIN ms[k].sub : ms[k].sub[i].msg \in k + 1 .. n}

\* All sub-messages of one message; they come after it.
LEMMA SubsPut ==
  ASSUME NEW n \in Nat, NEW ms \in Heaps(n), NEW k \in 1 .. n
  PROVE  PutSubs(ms, k) \in Heaps(n)
<1> DEFINE w == ms[k]
           l == Len(w.sub)
           list == [i \in DOMAIN w.sub |->
                      [key |-> w.sub[i].key, bytes |-> ms[w.sub[i].msg].buf]]
           S == {x \in Safe : Kin(x, w)}
           end == FoldLeft(PutSub, w, list)
<1>1. ms \in [1 .. n -> Safe] /\ w \in Safe
      /\ \A i \in DOMAIN w.sub : w.sub[i].msg \in k + 1 .. n
  BY DEF Heaps
<1>2. l \in Nat /\ DOMAIN w.sub = 1 .. l
  <2>1. w.sub \in Seq([msg : Nat, key : Key]) BY <1>1 DEF Safe, Message
  <2> HIDE DEF w
  <2> QED BY <2>1
<1>3. \A i \in 1 .. l : list[i].bytes \in Seq(Byte)
  <2> TAKE i \in 1 .. l
  <2>1. w.sub[i].msg \in 1 .. n BY <1>1, <1>2
  <2>2. ms[w.sub[i].msg] \in Safe
    <3> HIDE DEF w
    <3> QED BY <1>1, <2>1
  <2>3. ms[w.sub[i].msg].buf \in Seq(Byte)
    <3> HIDE DEF w
    <3> QED BY <2>2 DEF Safe, Message
  <2>4. list[i].bytes = ms[w.sub[i].msg].buf BY <1>2
  <2> QED BY <2>3, <2>4
<1>4. DOMAIN list = 1 .. l BY <1>2
<1> HIDE DEF list, l
<1>5. \E t : Turns(t, "subs", list, l, w) /\ end = t[l]
  <2> HIDE DEF w
  <2> QED BY <1>2, <1>4, SubsFold
<1>6. ASSUME NEW x \in S, NEW j \in 1 .. l PROVE Turn("subs", list, x, j) \in S
  <2>1. x \in Safe /\ Kin(x, w) OBVIOUS
  <2> HIDE DEF w
  <2>2. PutSub(x, list[j]) \in Safe /\ Kin(PutSub(x, list[j]), x)
    BY <1>3, <2>1, SubPut
  <2>3. Turn("subs", list, x, j) = PutSub(x, list[j]) BY DEF Turn
  <2> QED BY <2>1, <2>2, <2>3 DEF Kin
<1>7. w \in S BY <1>1 DEF Kin
<1>8. PutSubs(ms, k) = [ms EXCEPT ![k] = end] BY <1>1 DEF PutSubs, list
<1> HIDE DEF S, end, w
<1>9. PICK t : Turns(t, "subs", list, l, w) /\ end = t[l] BY <1>5
<1>10. \A i \in 0 .. l : t[i] \in S BY <1>2, <1>6, <1>7, <1>9, FoldStays
<1>11. end \in S BY <1>2, <1>9, <1>10
<1>12. end \in Safe /\ end.sub = ms[k].sub BY <1>11 DEF S, Kin, w
<1> DEFINE new == [ms EXCEPT ![k] = end]
<1>13. new \in [1 .. n -> Safe] /\ \A i \in 1 .. n : new[i].sub = ms[i].sub
  BY <1>1, <1>12
<1> HIDE DEF new
<1>14. new \in Heaps(n) BY <1>13 DEF Heaps
<1> QED BY <1>8, <1>14 DEF new

-----------------------------------------------------------------------------
\* A buffer that is asked for: all messages are packed, and then every one of
\* them has those inside it put at its end, the last message first.
LEMMA Flushed ==
  ASSUME NoPackedWords, m \in Heaps(Len(m)), Len(m) \in Nat, NEW order \in Orders
  PROVE  Flush(order) \in Heaps(Len(m))
<1> DEFINE n == Len(m)
           K == {key \in PackedKeys : \E k \in DOMAIN m : m[k].packed[key] # <<>>}
           base == [k \in DOMAIN m |-> Packs(m[k], order)]
           list == [i \in DOMAIN m |-> n + 1 - i]
           S == Heaps(n)
           end == FoldLeft(PutSubs, base, list)
<1>1. m \in [1 .. n -> Safe] /\ DOMAIN m = 1 .. n
      /\ \A k \in 1 .. n : \A i \in DOMAIN m[k].sub : m[k].sub[i].msg \in k + 1 .. n
  BY DEF Heaps
<1>2. \E l \in Nat : order \in [1 .. l -> PackedKeys]
  <2>1. IsFiniteSet(K)
    <3>1. K \subseteq Key /\ IsFiniteSet(Key) BY FieldAssumption DEF PackedKeys
    <3> HIDE DEF K
    <3> QED BY <3>1, FS_Subset
  <2>2. order \in SetToSeqs(K) BY DEF Orders
  <2>3. K \subseteq PackedKeys OBVIOUS
  <2> HIDE DEF K
  <2>4. Cardinality(K) \in Nat BY <2>1, FS_CardinalityType
  <2>5. order \in [1 .. Cardinality(K) -> K] BY <2>2 DEF SetToSeqs
  <2> QED BY <2>3, <2>4, <2>5
<1>3. PICK l \in Nat : order \in [1 .. l -> PackedKeys] BY <1>2
<1>4. \A k \in 1 .. n : Packs(m[k], order) \in Safe /\ Kin(Packs(m[k], order), m[k])
  BY <1>1, <1>3, FieldsPacked
<1>5. base \in S
  <2>1. base \in [1 .. n -> Safe] /\ \A k \in 1 .. n : base[k].sub = m[k].sub
    BY <1>1, <1>4 DEF Kin
  <2> HIDE DEF base
  <2> QED BY <1>1, <2>1 DEF Heaps
<1>6. \A j \in 1 .. n : list[j] \in 1 .. n
  <2> HIDE DEF n
  <2>1. n \in Nat BY DEF n
  <2> QED BY <1>1, <2>1
<1>7. DOMAIN list = 1 .. n BY <1>1
<1> HIDE DEF n, base, list
<1>8. n \in Nat BY DEF n
<1>9. \E t : Turns(t, "messages", list, n, base) /\ end = t[n] BY <1>7, <1>8, MessagesFold
<1>10. ASSUME NEW x \in S, NEW j \in 1 .. n PROVE Turn("messages", list, x, j) \in S
  <2>1. Turn("messages", list, x, j) = PutSubs(x, list[j]) BY DEF Turn
  <2> QED BY <1>6, <1>8, <2>1, SubsPut
<1> HIDE DEF S, end
<1>11. PICK t : Turns(t, "messages", list, n, base) /\ end = t[n] BY <1>9
<1>12. \A k \in 0 .. n : t[k] \in S BY <1>5, <1>8, <1>10, <1>11, FoldStays
<1>13. end \in S BY <1>8, <1>11, <1>12
<1>14. Flush(order) = end BY DEF Flush, end, base, list, n
<1> QED BY <1>13, <1>14 DEF S, n

-----------------------------------------------------------------------------
\* Slices.

\* What has been written and the room that is left make up the buffer, also of
\* a slice that something did not fit into.
Fitting(size) ==
  {s \in [buf : Seq(Byte), room : Nat, ok : BOOLEAN] : Len(s.buf) + s.room = size}

\* What a slice becomes: what is short stays short, and nothing is taken back.
After(x, s) == (x.ok => s.ok) /\ Len(s.buf) <= Len(x.buf)

\* The order of slices, and what a slice that is short keeps.
LEMMA AfterAll ==
  ASSUME NEW size \in Nat, NEW x \in Fitting(size), NEW y \in Fitting(size),
         NEW z \in Fitting(size)
  PROVE  /\ After(x, x)
         /\ After(y, x) /\ After(z, y) => After(z, x)
         /\ Short(x) \in Fitting(size) /\ After(Short(x), x) /\ ~ Short(x).ok
         /\ Len(x.buf) <= size /\ Len(x.buf) \in Nat /\ x.buf \in Seq(Byte)
<1>1. x.buf \in Seq(Byte) /\ y.buf \in Seq(Byte) /\ z.buf \in Seq(Byte) /\ x.room \in Nat
      /\ x.ok \in BOOLEAN /\ Len(x.buf) + x.room = size
  BY DEF Fitting
<1>2. PICK a \in Nat, b \in Nat, c \in Nat : a = Len(x.buf) /\ b = Len(y.buf) /\ c = Len(z.buf)
  <2>1. Len(x.buf) \in Nat BY <1>1
  <2>2. Len(y.buf) \in Nat BY <1>1
  <2>3. Len(z.buf) \in Nat BY <1>1
  <2> QED BY <2>1, <2>2, <2>3
<1>3. After(x, x) BY <1>2 DEF After
<1>4. After(y, x) /\ After(z, y) => After(z, x) BY <1>2 DEF After
<1>5. /\ Short(x) \in [buf : Seq(Byte), room : Nat, ok : BOOLEAN]
      /\ Short(x).buf = x.buf /\ Short(x).room = x.room /\ Short(x).ok = FALSE
  BY DEF Short, Fitting
<1>6. Short(x) \in Fitting(size) BY <1>1, <1>5 DEF Fitting
<1>7. After(Short(x), x) BY <1>2, <1>5 DEF After
<1>8. a <= size /\ a \in Nat
  <2>1. PICK r \in Nat : r = x.room BY <1>1
  <2>2. a + r = size BY <1>1, <1>2, <2>1
  <2> QED BY <2>2
<1> QED BY <1>1, <1>2, <1>3, <1>4, <1>5, <1>6, <1>7, <1>8

\* A part is written when, and only when, there is room for it.
LEMMA PartPut ==
  ASSUME NEW size \in Nat, NEW s \in Fitting(size), NEW bytes \in Seq(Byte)
  PROVE  LET x == PutIn(s, bytes)
         IN  /\ x \in Fitting(size) /\ After(x, s)
             /\ x.ok <=> s.ok /\ Len(s.buf) + Len(bytes) <= size
             /\ x.ok => x.buf = s.buf \o bytes /\ Len(x.buf) = Len(s.buf) + Len(bytes)
<1> DEFINE x == PutIn(s, bytes)
<1>1. s \in [buf : Seq(Byte), room : Nat, ok : BOOLEAN] /\ Len(s.buf) + s.room = size
  BY DEF Fitting
<1>2. PICK a \in Nat : a = Len(s.buf) BY <1>1
<1>3. PICK r \in Nat : r = s.room BY <1>1
<1>4. PICK l \in Nat : l = Len(bytes) OBVIOUS
<1>5. a + r = size BY <1>1, <1>2, <1>3
<1>6. a + l <= size <=> l <= r BY <1>5
<1>7. CASE s.ok /\ l <= r
  <2>1. PICK b \in Seq(Byte) : b = s.buf \o bytes
    <3>1. PICK u \in Seq(Byte) : u = s.buf BY <1>1
    <3>2. u \o bytes \in Seq(Byte) BY Concat
    <3> QED BY <3>1, <3>2
  <2>2. Len(b) = a + l
    <3>1. PICK u \in Seq(Byte) : u = s.buf BY <1>1
    <3>2. Len(u \o bytes) = Len(u) + Len(bytes) BY Concat
    <3> QED BY <1>2, <1>4, <2>1, <3>1, <3>2
  <2>3. PICK q \in Nat : q = r - l BY <1>7
  <2>4. x = [s EXCEPT !.buf = b, !.room = q] BY <1>3, <1>4, <1>7, <2>1, <2>3 DEF PutIn
  <2> HIDE DEF x
  <2>5. /\ x \in [buf : Seq(Byte), room : Nat, ok : BOOLEAN]
        /\ x.buf = b /\ x.room = q /\ x.ok = s.ok
    BY <1>1, <2>4
  <2>6. Len(x.buf) = a + l /\ (a + l) + q = size BY <1>5, <2>2, <2>3, <2>5
  <2>7. x \in Fitting(size) BY <2>5, <2>6 DEF Fitting
  <2>8. After(x, s)
    <3>1. a <= a + l OBVIOUS
    <3> QED BY <1>2, <2>5, <2>6, <3>1 DEF After
  <2>9. x.ok /\ s.ok /\ Len(s.buf) + Len(bytes) <= size BY <1>2, <1>4, <1>6, <1>7, <2>5
  <2>10. x.buf = s.buf \o bytes /\ Len(x.buf) = Len(s.buf) + Len(bytes)
    BY <1>2, <1>4, <2>1, <2>5, <2>6
  <2> QED BY <2>7, <2>8, <2>9, <2>10 DEF x
<1>8. CASE ~ (s.ok /\ l <= r)
  <2>1. x = Short(s) BY <1>3, <1>4, <1>8 DEF PutIn
  <2> HIDE DEF x
  <2>2. x \in Fitting(size) /\ After(x, s) /\ ~ x.ok BY <2>1, AfterAll
  <2>3. ~ (s.ok /\ Len(s.buf) + Len(bytes) <= size) BY <1>2, <1>4, <1>6, <1>8
  <2> QED BY <2>2, <2>3 DEF x
<1> QED BY <1>7, <1>8

\* The slice that pack begins with.
LEMMA Begun ==
  ASSUME NEW size \in Nat
  PROVE  Slice(size) \in Fitting(size) /\ Slice(size).ok /\ Slice(size).buf = <<>>
<1>1. Slice(size) \in [buf : Seq(Byte), room : Nat, ok : BOOLEAN] BY DEF Slice
<1>2. Len(Slice(size).buf) = 0 /\ Slice(size).room = size BY DEF Slice
<1>3. 0 + size = size OBVIOUS
<1> QED BY <1>1, <1>2, <1>3 DEF Fitting, Slice

\* Items, one behind the other.
LEMMA ItemsIn ==
  ASSUME NEW size \in Nat, NEW s \in Fitting(size), NEW n \in Nat, NEW list,
         DOMAIN list = 1 .. n, \A j \in 1 .. n : list[j] \in Seq(Byte)
  PROVE  LET x == FoldLeft(PutIn, s, list) IN x \in Fitting(size) /\ After(x, s)
<1> DEFINE S == {x \in Fitting(size) : After(x, s)}
           end == FoldLeft(PutIn, s, list)
<1>1. \E t : Turns(t, "numbers", list, n, s) /\ end = t[n] BY NumbersFold
<1>2. ASSUME NEW x \in S, NEW j \in 1 .. n PROVE Turn("numbers", list, x, j) \in S
  <2>1. x \in Fitting(size) /\ After(x, s) OBVIOUS
  <2>2. list[j] \in Seq(Byte) OBVIOUS
  <2> DEFINE y == PutIn(x, list[j])
  <2>3. y \in Fitting(size) /\ After(y, x) BY <2>1, <2>2, PartPut
  <2>4. Turn("numbers", list, x, j) = y BY DEF Turn
  <2> HIDE DEF y
  <2>5. After(y, s) BY <2>1, <2>3, AfterAll
  <2> QED BY <2>3, <2>4, <2>5
<1>3. s \in S BY AfterAll
<1> HIDE DEF S, end
<1>4. PICK t : Turns(t, "numbers", list, n, s) /\ end = t[n] BY <1>1
<1>5. \A k \in 0 .. n : t[k] \in S BY <1>2, <1>3, <1>4, FoldStays
<1>6. end \in S BY <1>4, <1>5
<1> QED BY <1>6 DEF S, end

-----------------------------------------------------------------------------
\* The variables of a pattern.

\* What _pack_field is given for a field: bytes, or a number of 64 bits; for a
\* double or a float anything is written as it is.
Var(f) == IF f.ptype \in Numbers THEN Long ELSE Seq(Byte)
Writable(f, v) == f.ptype \in {"double", "float"} \/ v \in Var(f)

\* What a variable is written as, and how much room it takes.
LEMMA VarBytes ==
  ASSUME NEW f, f.ptype \in Numbers, NEW v, Writable(f, v)
  PROVE  /\ PackNumber(f.ptype, v) \in Seq(Byte) /\ Len(PackNumber(f.ptype, v)) \in 1 .. 10
         /\ WireType(f.ptype) \in {BIT64, BIT32} => Len(PackNumber(f.ptype, v)) = Width(f.ptype)
<1>1. CASE f.ptype = "enum"
  <2>1. v \in Long BY <1>1 DEF Writable, Var
  <2>2. Low(v) \in Long BY <2>1, ZigZagged
  <2>3. PackNumber(f.ptype, v) = Encode(Low(v)) BY <1>1 DEF PackNumber
  <2>4. WireType(f.ptype) = VARINT BY <1>1 DEF WireType
  <2>5. VARINT # BIT64 /\ VARINT # BIT32 BY DEF VARINT, BIT64, BIT32
  <2> QED BY <2>2, <2>3, <2>4, <2>5, LongBytes
<1>2. CASE f.ptype \in Numbers \ {"enum", "double", "float"}
  <2>1. v \in Long BY <1>2 DEF Writable, Var
  <2>2. Item(f.ptype) = Long BY <1>2 DEF Item, ValueOf, Numbers
  <2>3. PackNumber(f.ptype, v) = Payload(f.ptype, v) BY <1>2 DEF PackNumber
  <2> QED BY <1>2, <2>1, <2>2, <2>3, PayloadBytes
<1>3. CASE f.ptype = "double"
  <2>1. PackNumber(f.ptype, v) = Fixed(v, 8) BY <1>3 DEF PackNumber, Payload
  <2>2. WireType(f.ptype) = BIT64 BY <1>3 DEF WireType
  <2>3. Width(f.ptype) = 8 BY <2>2 DEF Width
  <2>4. Fixed(v, 8) \in Seq(Byte) /\ Len(Fixed(v, 8)) = 8 BY FixedBytes
  <2> QED BY <2>1, <2>3, <2>4
<1>4. CASE f.ptype = "float"
  <2>1. PackNumber(f.ptype, v) = Fixed(FloatOf[v], 4) BY <1>4 DEF PackNumber, Payload
  <2>2. WireType(f.ptype) = BIT32 BY <1>4 DEF WireType
  <2>3. BIT32 # BIT64 BY DEF BIT32, BIT64
  <2>4. Width(f.ptype) = 4 BY <2>2, <2>3 DEF Width
  <2>5. Fixed(FloatOf[v], 4) \in Seq(Byte) /\ Len(Fixed(FloatOf[v], 4)) = 4 BY FixedBytes
  <2> QED BY <2>1, <2>4, <2>5
<1> QED BY <1>1, <1>2, <1>3, <1>4

-----------------------------------------------------------------------------
\* What goes into a slice.

\* A list of variables.
Writables(f, vs) == (\E S : vs \in Seq(S)) /\ \A j \in 1 .. Len(vs) : Writable(f, vs[j])

\* One variable stays inside the buffer,
LEMMA FieldIn ==
  ASSUME NEW size \in Nat, NEW s \in Fitting(size), NEW f, f.ptype \in PTypes,
         NEW v, Writable(f, v)
  PROVE  PackField(s, f, v) \in Fitting(size) /\ After(PackField(s, f, v), s)
<1>1. CASE WireType(f.ptype) = LEND
  <2>1. f.ptype \in {"string", "bytes", "message"}
    BY <1>1 DEF WireType, PTypes, LEND, BIT64, BIT32, VARINT
  <2>2. v \in Seq(Byte) BY <2>1 DEF Writable, Var, Numbers
  <2> DEFINE x == PutIn(s, Tag(f, LEND))
             y == PutIn(x, Length(Len(v)))
             z == PutIn(y, v)
  <2>3. Tag(f, LEND) \in Seq(Byte) BY TagBytes
  <2>4. Length(Len(v)) \in Seq(Byte) BY LengthBytes
  <2>5. x \in Fitting(size) /\ After(x, s) BY <2>3, PartPut
  <2>6. y \in Fitting(size) /\ After(y, x)
    <3> HIDE DEF x
    <3> QED BY <2>4, <2>5, PartPut
  <2>7. z \in Fitting(size) /\ After(z, y)
    <3> HIDE DEF y
    <3> QED BY <2>2, <2>6, PartPut
  <2>8. PackField(s, f, v) = z BY <1>1 DEF PackField
  <2> HIDE DEF x, y, z
  <2>9. After(y, s) BY <2>5, <2>6, AfterAll
  <2>10. After(z, s) BY <2>6, <2>7, <2>9, AfterAll
  <2> QED BY <2>7, <2>8, <2>10
<1>2. CASE WireType(f.ptype) # LEND
  <2>1. f.ptype \in Numbers BY <1>2 DEF WireType, Numbers
  <2>2. PackNumber(f.ptype, v) \in Seq(Byte) BY <2>1, VarBytes
  <2>3. Tag(f, WireType(f.ptype)) \in Seq(Byte)
    <3>1. WireType(f.ptype) \in {VARINT, BIT64, LEND, BIT32} BY DEF WireType
    <3> QED BY <3>1, TagBytes
  <2> DEFINE x == PutIn(s, Tag(f, WireType(f.ptype)))
             y == PutIn(x, PackNumber(f.ptype, v))
  <2>4. x \in Fitting(size) /\ After(x, s) BY <2>3, PartPut
  <2>5. y \in Fitting(size) /\ After(y, x)
    <3> HIDE DEF x
    <3> QED BY <2>2, <2>4, PartPut
  <2>6. PackField(s, f, v) = y BY <1>2 DEF PackField
  <2> HIDE DEF x, y
  <2>7. After(y, s) BY <2>4, <2>5, AfterAll
  <2> QED BY <2>5, <2>6, <2>7
<1> QED BY <1>1, <1>2

\* a list of them,
LEMMA RepeatedIn ==
  ASSUME NEW size \in Nat, NEW s \in Fitting(size), NEW f, f.ptype \in PTypes,
         NEW vs, Writables(f, vs)
  PROVE  PackRepeated(s, f, vs) \in Fitting(size) /\ After(PackRepeated(s, f, vs), s)
<1> DEFINE n == Len(vs)
           p == [of |-> f, vs |-> vs]
           S == {x \in Fitting(size) : After(x, s)}
           end == PackRepeated(s, f, vs)
<1>1. n \in Nat /\ DOMAIN vs = 1 .. n
  <2>1. PICK V : vs \in Seq(V) BY DEF Writables
  <2> QED BY <2>1
<1>2. \E t : Turns(t, "repeated", p, n, s) /\ end = t[n]
  <2> HIDE DEF n
  <2> QED BY <1>1, RepeatedFold
<1>3. ASSUME NEW x \in S, NEW j \in 1 .. n PROVE Turn("repeated", p, x, j) \in S
  <2>1. Writable(f, vs[j]) BY DEF Writables
  <2>2. x \in Fitting(size) /\ After(x, s) OBVIOUS
  <2> DEFINE y == PackField(x, f, vs[j])
  <2>3. y \in Fitting(size) /\ After(y, x) BY <2>1, <2>2, FieldIn
  <2>4. Turn("repeated", p, x, j) = y BY DEF Turn
  <2> HIDE DEF y
  <2>5. After(y, s) BY <2>2, <2>3, AfterAll
  <2> QED BY <2>3, <2>4, <2>5
<1>4. s \in S BY AfterAll
<1> HIDE DEF S, end, n, p
<1>5. PICK t : Turns(t, "repeated", p, n, s) /\ end = t[n] BY <1>2
<1>6. \A k \in 0 .. n : t[k] \in S BY <1>1, <1>3, <1>4, <1>5, FoldStays
<1>7. end \in S BY <1>1, <1>5, <1>6
<1> QED BY <1>7 DEF S, end

\* the items of a packed field,
LEMMA NumbersIn ==
  ASSUME NEW size \in Nat, NEW s \in Fitting(size), NEW f, f.ptype \in Numbers,
         NEW vs, Writables(f, vs)
  PROVE  Items(s, f, vs) \in Fitting(size) /\ After(Items(s, f, vs), s)
<1> DEFINE n == Len(vs)
           list == [i \in DOMAIN vs |-> PackNumber(f.ptype, vs[i])]
<1>1. n \in Nat /\ DOMAIN vs = 1 .. n
  <2>1. PICK V : vs \in Seq(V) BY DEF Writables
  <2> QED BY <2>1
<1>2. \A j \in 1 .. n : list[j] \in Seq(Byte)
  <2> TAKE j \in 1 .. n
  <2>1. Writable(f, vs[j]) BY DEF Writables
  <2>2. PackNumber(f.ptype, vs[j]) \in Seq(Byte) BY <2>1, VarBytes
  <2> QED BY <1>1, <2>2
<1>3. DOMAIN list = 1 .. n BY <1>1
<1>4. Items(s, f, vs) = FoldLeft(PutIn, s, list) BY DEF Items
<1> HIDE DEF n, list
<1> QED BY <1>1, <1>2, <1>3, <1>4, ItemsIn

\* those of a fixed width with their length,
LEMMA FixedIn ==
  ASSUME NEW size \in Nat, NEW s \in Fitting(size), NEW f, f.ptype \in Numbers,
         NEW vs, Writables(f, vs), NEW width
  PROVE  /\ PackPackedFixed(s, f, vs, width) \in Fitting(size)
         /\ After(PackPackedFixed(s, f, vs, width), s)
<1> DEFINE n == width * Len(vs)
           head == PutIn(s, Length(n))
           items == Items(head, f, vs)
<1>1. Length(n) \in Seq(Byte) BY LengthBytes
<1>2. head \in Fitting(size) /\ After(head, s)
  <2> HIDE DEF n
  <2> QED BY <1>1, PartPut
<1>3. items \in Fitting(size) /\ After(items, head)
  <2> HIDE DEF head
  <2> QED BY <1>2, NumbersIn
<1>4. After(items, s)
  <2> HIDE DEF head, items
  <2> QED BY <1>2, <1>3, AfterAll
<1>5. Short(s) \in Fitting(size) /\ After(Short(s), s) BY AfterAll
<1>6. PackPackedFixed(s, f, vs, width) \in {Short(s), items} BY DEF PackPackedFixed
<1> HIDE DEF items
<1> QED BY <1>3, <1>4, <1>5, <1>6

\* those of any width, moved up behind theirs,
LEMMA VarintsIn ==
  ASSUME NEW size \in Nat, NEW s \in Fitting(size), NEW f, f.ptype \in Numbers,
         NEW vs, Writables(f, vs)
  PROVE  /\ PatternVarint(s, f, vs) \in Fitting(size)
         /\ After(PatternVarint(s, f, vs), s)
<1> DEFINE head == PutIn(s, Length(Len(vs)))
           full == Items(head, f, vs)
           items == SubSeq(full.buf, Len(head.buf) + 1, Len(full.buf))
           len == Length(Len(items))
           bytes == len \o items
           end == PutIn(s, bytes)
<1>1. Length(Len(vs)) \in Seq(Byte) BY LengthBytes
<1>2. head \in Fitting(size) BY <1>1, PartPut
<1> HIDE DEF head
<1>3. full \in Fitting(size) /\ After(full, head) BY <1>2, NumbersIn
<1> HIDE DEF full
<1>4. items \in Seq(Byte)
  <2>1. full.buf \in Seq(Byte) BY <1>3, AfterAll
  <2>2. PICK a \in Nat : a = Len(head.buf) BY <1>2, AfterAll
  <2>3. PICK b \in Nat : b = Len(full.buf) BY <1>3, AfterAll
  <2>4. a \in 0 .. b BY <1>3, <2>2, <2>3 DEF After
  <2>5. a \in 0 .. Len(full.buf) BY <2>3, <2>4
  <2>6. SubSeq(full.buf, a + 1, Len(full.buf)) \in Seq(Byte) BY <2>1, <2>5, TheRest
  <2> QED BY <2>2, <2>6
<1>5. len \in Seq(Byte) BY LengthBytes
<1>6. bytes \in Seq(Byte)
  <2> HIDE DEF len, items
  <2>1. PICK u \in Seq(Byte) : u = len BY <1>5
  <2>2. PICK v \in Seq(Byte) : v = items BY <1>4
  <2>3. u \o v \in Seq(Byte) BY Concat
  <2> QED BY <2>1, <2>2, <2>3
<1>7. end \in Fitting(size) /\ After(end, s)
  <2> HIDE DEF bytes
  <2> QED BY <1>6, PartPut
<1>8. Short(s) \in Fitting(size) /\ After(Short(s), s) BY AfterAll
<1>9. PatternVarint(s, f, vs) \in {Short(s), end} BY DEF PatternVarint, head, full
<1> HIDE DEF end
<1> QED BY <1>7, <1>8, <1>9

\* and a packed field of either kind.
LEMMA PackedIn ==
  ASSUME NEW size \in Nat, NEW s \in Fitting(size), NEW f, f.ptype \in Numbers,
         NEW vs, Writables(f, vs)
  PROVE  PatternPacked(s, f, vs) \in Fitting(size) /\ After(PatternPacked(s, f, vs), s)
<1> DEFINE head == PutIn(s, Tag(f, LEND))
           x == PackPackedFixed(head, f, vs, 8)
           y == PackPackedFixed(head, f, vs, 4)
           z == PatternVarint(head, f, vs)
<1>1. Tag(f, LEND) \in Seq(Byte) BY TagBytes
<1>2. head \in Fitting(size) /\ After(head, s) BY <1>1, PartPut
<1> HIDE DEF head
<1>3. x \in Fitting(size) /\ After(x, head) BY <1>2, FixedIn
<1>4. y \in Fitting(size) /\ After(y, head) BY <1>2, FixedIn
<1>5. z \in Fitting(size) /\ After(z, head) BY <1>2, VarintsIn
<1>6. PatternPacked(s, f, vs) \in {s, x, y, z} BY DEF PatternPacked, head
<1> HIDE DEF x, y, z
<1>7. After(x, s) BY <1>2, <1>3, AfterAll
<1>8. After(y, s) BY <1>2, <1>4, AfterAll
<1>9. After(z, s) BY <1>2, <1>5, AfterAll
<1>10. After(s, s) BY AfterAll
<1> QED BY <1>3, <1>4, <1>5, <1>6, <1>7, <1>8, <1>9, <1>10

\* What a variable may be for a key.
Fits(key, v) == IF IsList(Field[key]) THEN Writables(Field[key], v) ELSE Writable(Field[key], v)

\* Whatever is done with a key of a pattern, it stays inside the buffer.
LEMMA KeyIn ==
  ASSUME NEW size \in Nat, NEW s \in Fitting(size), NEW key \in Key, NEW c,
         NEW v, Fits(key, v)
  PROVE  /\ PackKey(s, Field[key], c, v) \in Fitting(size)
         /\ After(PackKey(s, Field[key], c, v), s)
<1> DEFINE f == Field[key]
           end == PackKey(s, f, c, v)
<1>1. f.ptype \in PTypes /\ f.label \in Labels
      /\ (f.label = "packed" => f.ptype \notin {"string", "bytes", "message"})
  BY FieldAssumption
<1>2. CASE ~ s.ok \/ (f.label = "optional" /\ PatternDefault(f, c, v))
  <2>1. end = s BY <1>2 DEF PackKey
  <2> HIDE DEF end
  <2> QED BY <2>1, AfterAll DEF end
<1>3. CASE s.ok /\ ~ (f.label = "optional" /\ PatternDefault(f, c, v))
  <2>1. CASE f.label = "repeated"
    <3>1. end = PackRepeated(s, f, v) BY <1>3, <2>1 DEF PackKey
    <3>2. Writables(f, v) BY <2>1 DEF Fits, IsList
    <3> HIDE DEF end, f
    <3> QED BY <1>1, <3>1, <3>2, RepeatedIn DEF end, f
  <2>2. CASE f.label = "packed"
    <3>1. end = PatternPacked(s, f, v) BY <1>3, <2>2 DEF PackKey
    <3>2. Writables(f, v) BY <2>2 DEF Fits, IsList
    <3>3. f.ptype \in Numbers BY <1>1, <2>2 DEF Numbers
    <3> HIDE DEF end, f
    <3> QED BY <3>1, <3>2, <3>3, PackedIn DEF end, f
  <2>3. CASE f.label \notin {"repeated", "packed"}
    <3>1. end = PackField(s, f, v) BY <1>3, <2>3 DEF PackKey
    <3>2. Writable(f, v) BY <2>3 DEF Fits, IsList
    <3> HIDE DEF end, f
    <3> QED BY <1>1, <3>1, <3>2, FieldIn DEF end, f
  <2> QED BY <2>1, <2>2, <2>3
<1> QED BY <1>2, <1>3

-----------------------------------------------------------------------------
\* The keys of a pattern, the one with the highest number last.

\* A finite set of keys has a highest one.
LEMMA HighestIs ==
  ASSUME NEW K \in SUBSET Key, K # {}
  PROVE  Highest(K) \in K
<1> DEFINE T == {Field[key].id : key \in K}
<1>1. PICK n \in Nat : n = MaxNumber BY SMT DEF MaxNumber
<1>2. \A key \in K : Field[key].id \in 0 .. n BY <1>1, FieldAssumption
<1>3. T \in SUBSET (0 .. n) /\ T # {} BY <1>2
<1>4. PICK x \in T : \A y \in T : y <= x
  <2> HIDE DEF T
  <2> QED BY <1>3, Largest
<1>5. PICK key \in K : Field[key].id = x BY <1>4
<1>6. \A other \in K : Field[other].id <= Field[key].id BY <1>4, <1>5
<1> QED BY <1>6 DEF Highest

\* What holds of no key and stays true with one more that is the highest holds
\* of all keys.
LEMMA KeysUp ==
  ASSUME NEW K \in SUBSET Key, NEW T, {} \in T,
         \A s \in SUBSET K : s # {} /\ s \ {Highest(s)} \in T => s \in T
  PROVE  \A s \in SUBSET K : s \in T
<1>1. IsFiniteSet(K) BY FieldAssumption, FS_Subset
<1>2. PICK n \in Nat : n = Cardinality(K) BY <1>1, FS_CardinalityType
<1>3. \A s \in SUBSET K : IsFiniteSet(s) /\ Cardinality(s) \in 0 .. n
  <2> TAKE s \in SUBSET K
  <2>1. IsFiniteSet(s) /\ Cardinality(s) <= n BY <1>1, <1>2, FS_Subset
  <2>2. Cardinality(s) \in Nat BY <2>1, FS_CardinalityType
  <2> QED BY <2>1, <2>2
<1> DEFINE R == {k \in 0 .. n : \A s \in SUBSET K : Cardinality(s) = k => s \in T}
<1>4. 0 \in R
  <2>1. ASSUME NEW s \in SUBSET K, Cardinality(s) = 0 PROVE s \in T
    <3>1. s = {} BY <1>3, <2>1, FS_EmptySet
    <3> QED BY <3>1
  <2> QED BY <2>1
<1>5. ASSUME NEW k \in 0 .. n, k < n, k \in R PROVE k + 1 \in R
  <2>1. ASSUME NEW s \in SUBSET K, Cardinality(s) = k + 1 PROVE s \in T
    <3>1. k + 1 # 0 OBVIOUS
    <3>2. s # {} BY <2>1, <3>1, FS_EmptySet
    <3>3. s \in SUBSET Key OBVIOUS
    <3>4. PICK h \in s : h = Highest(s) BY <3>2, <3>3, HighestIs
    <3>5. Cardinality(s \ {h}) = Cardinality(s) - 1
      BY <1>3, <3>4, FS_RemoveElement
    <3>6. Cardinality(s \ {h}) = k BY <2>1, <3>5
    <3>7. s \ {h} \in SUBSET K OBVIOUS
    <3>8. s \ {h} \in T BY <1>5, <3>6, <3>7
    <3> QED BY <3>2, <3>4, <3>8
  <2>2. k + 1 \in 0 .. n BY <1>5
  <2> QED BY <2>1, <2>2
<1>6. \A i \in 0 .. n : i \in R
  <2> HIDE DEF R
  <2> QED BY <1>4, <1>5, Upwards
<1> QED BY <1>3, <1>6

\* The function on sets of keys that pack is defined with: p are the C types
\* of the keys and d their variables.
AddKey(f, p, d, s, base) ==
  IF s = {} THEN base
  ELSE PackKey(f[s \ {Highest(s)}], Field[Highest(s)], p[Highest(s)], d[Highest(s)])
Keyed(f, p, d, K, base) == f = [s \in SUBSET K |-> AddKey(f, p, d, s, base)]

\* There is such a function: it is built up by the number of keys.
LEMMA KeysThere ==
  ASSUME NEW K \in SUBSET Key, NEW p, NEW d, NEW base
  PROVE  \E f : Keyed(f, p, d, K, base)
<1> DEFINE Body(f, s) == AddKey(f, p, d, s, base)
           To(f, k) == \A s \in SUBSET K : Cardinality(s) <= k => f[s] = Body(f, s)
<1>1. IsFiniteSet(K) BY FieldAssumption, FS_Subset
<1>2. PICK n \in Nat : n = Cardinality(K) BY <1>1, FS_CardinalityType
<1>3. \A s \in SUBSET K : IsFiniteSet(s) /\ Cardinality(s) \in 0 .. n
  <2> TAKE s \in SUBSET K
  <2>1. IsFiniteSet(s) /\ Cardinality(s) <= n BY <1>1, <1>2, FS_Subset
  <2>2. Cardinality(s) \in Nat BY <2>1, FS_CardinalityType
  <2> QED BY <2>1, <2>2
<1>4. ASSUME NEW s \in SUBSET K, s # {}
      PROVE  /\ s \ {Highest(s)} \in SUBSET K
             /\ Cardinality(s \ {Highest(s)}) = Cardinality(s) - 1
  <2>1. s \in SUBSET Key OBVIOUS
  <2>2. PICK h \in s : h = Highest(s) BY <1>4, <2>1, HighestIs
  <2>3. Cardinality(s \ {h}) = Cardinality(s) - 1 BY <1>3, <2>2, FS_RemoveElement
  <2> QED BY <2>2, <2>3
<1>5. ASSUME NEW f, NEW h, NEW s \in SUBSET K,
             s # {} => f[s \ {Highest(s)}] = h[s \ {Highest(s)}]
      PROVE  Body(f, s) = Body(h, s)
  BY <1>5 DEF AddKey
<1> DEFINE T == {k \in 0 .. n : \E f : To(f, k)}
<1>6. 0 \in T
  <2> DEFINE f == [s \in SUBSET K |-> base]
  <2>1. ASSUME NEW s \in SUBSET K, Cardinality(s) <= 0 PROVE f[s] = Body(f, s)
    <3>1. Cardinality(s) = 0 BY <1>3, <2>1
    <3>2. s = {} BY <1>3, <3>1, FS_EmptySet
    <3>3. f[s] = base OBVIOUS
    <3> QED BY <3>2, <3>3 DEF AddKey
  <2>2. To(f, 0) BY <2>1
  <2> HIDE DEF To, f
  <2> QED BY <2>2
<1>7. ASSUME NEW k \in 0 .. n, k < n, k \in T PROVE k + 1 \in T
  <2>1. PICK f : To(f, k) BY <1>7
  <2> DEFINE h == [s \in SUBSET K |-> IF Cardinality(s) <= k THEN f[s] ELSE Body(f, s)]
  <2>2. ASSUME NEW s \in SUBSET K, Cardinality(s) <= k + 1 PROVE h[s] = Body(h, s)
    <3>1. h[s] = Body(f, s)
      <4>1. CASE Cardinality(s) <= k
        <5>1. h[s] = f[s] BY <4>1
        <5>2. f[s] = Body(f, s) BY <2>1, <4>1
        <5> QED BY <5>1, <5>2
      <4>2. CASE ~ (Cardinality(s) <= k)
        <5> HIDE DEF Body
        <5> QED BY <4>2
      <4> QED BY <4>1, <4>2
    <3>2. ASSUME s # {} PROVE f[s \ {Highest(s)}] = h[s \ {Highest(s)}]
      <4> DEFINE u == s \ {Highest(s)}
      <4>1. u \in SUBSET K /\ Cardinality(u) = Cardinality(s) - 1 BY <1>4, <3>2
      <4> HIDE DEF u
      <4>2. PICK c \in 0 .. n : c = Cardinality(s) BY <1>3
      <4>3. c <= k + 1 BY <2>2, <4>2
      <4>4. c - 1 <= k BY <4>3
      <4>5. Cardinality(u) <= k BY <4>1, <4>2, <4>4
      <4>6. h[u] = f[u]
        <5> HIDE DEF Body
        <5> QED BY <4>1, <4>5
      <4> QED BY <4>6 DEF u
    <3> HIDE DEF h, Body
    <3> QED BY <1>5, <3>1, <3>2
  <2>3. To(h, k + 1)
    <3> HIDE DEF h, Body
    <3> QED BY <2>2
  <2>4. k + 1 \in 0 .. n BY <1>7
  <2> HIDE DEF To, h
  <2> QED BY <2>3, <2>4
<1>8. n \in T
  <2> HIDE DEF T
  <2>1. \A i \in 0 .. n : i \in T BY <1>6, <1>7, Upwards
  <2> QED BY <2>1
<1>9. PICK f : To(f, n) BY <1>8
<1> DEFINE g == [s \in SUBSET K |-> Body(f, s)]
<1>10. \A s \in SUBSET K : g[s] = Body(f, s) /\ f[s] = Body(f, s)
  <2>1. \A s \in SUBSET K : Cardinality(s) <= n BY <1>3
  <2> QED BY <1>9, <2>1
<1>11. ASSUME NEW s \in SUBSET K PROVE Body(f, s) = Body(g, s)
  <2>1. s \ {Highest(s)} \in SUBSET K OBVIOUS
  <2>2. f[s \ {Highest(s)}] = g[s \ {Highest(s)}]
    <3> HIDE DEF g, Body
    <3> QED BY <1>10, <2>1
  <2> HIDE DEF g, Body
  <2> QED BY <1>5, <2>2
<1>12. g = [s \in SUBSET K |-> Body(g, s)]
  <2> HIDE DEF Body
  <2> QED BY <1>11
<1> HIDE DEF g
<1> QED BY <1>12 DEF Keyed

\* It is the one that pack's result is taken from.
LEMMA KeysFold ==
  ASSUME NEW p, DOMAIN p \subseteq Key, NEW d, NEW size
  PROVE  \E f : /\ Keyed(f, p, d, DOMAIN p, Slice(size))
                /\ PatternPack(p, d, size) = f[DOMAIN p]
<1> DEFINE K == DOMAIN p
           e == Slice(size)
           Is(f) == f = [s \in SUBSET K |-> IF s = {} THEN e
                            ELSE PackKey(f[s \ {Highest(s)}], Field[Highest(s)],
                                         p[Highest(s)], d[Highest(s)])]
           iter == CHOOSE f : Is(f)
           end == PatternPack(p, d, size)
<1>1. end = iter[K]
  BY DEF PatternPack, MapThenFoldSet
<1>2. \A f : Keyed(f, p, d, K, e) <=> Is(f)
  BY DEF Keyed, AddKey
<1>3. Is(iter)
  <2>1. \E f : Is(f)
    <3>1. \E f : Keyed(f, p, d, K, e) BY KeysThere
    <3> HIDE DEF Is, e, K
    <3> QED BY <1>2, <3>1
  <2> HIDE DEF Is
  <2> QED BY <2>1
<1>4. Keyed(iter, p, d, K, e)
  <2> HIDE DEF Is, iter, e, K
  <2> QED BY <1>2, <1>3
<1> HIDE DEF iter, Is, end
<1> QED BY <1>1, <1>4 DEF end

\* Every set of keys fits a buffer of any size,
LEMMA KeyedIn ==
  ASSUME NEW K \in SUBSET Key, NEW p, NEW d, \A key \in K : Fits(key, d[key]),
         NEW size \in Nat, NEW f, Keyed(f, p, d, K, Slice(size))
  PROVE  \A s \in SUBSET K : f[s] \in Fitting(size)
<1>1. \A s \in SUBSET K : f[s] = AddKey(f, p, d, s, Slice(size)) BY DEF Keyed
<1> DEFINE T == {s \in SUBSET K : f[s] \in Fitting(size)}
<1>2. {} \in T
  <2>1. f[{}] = Slice(size) BY <1>1 DEF AddKey
  <2> QED BY <2>1, Begun
<1>3. ASSUME NEW s \in SUBSET K, s # {}, s \ {Highest(s)} \in T PROVE s \in T
  <2> DEFINE h == Highest(s)
  <2>1. h \in s BY <1>3, HighestIs
  <2>2. f[s] = PackKey(f[s \ {h}], Field[h], p[h], d[h]) BY <1>1, <1>3 DEF AddKey
  <2>3. f[s \ {h}] \in Fitting(size) BY <1>3
  <2>4. h \in Key /\ Fits(h, d[h]) BY <2>1
  <2> HIDE DEF h
  <2>5. f[s] \in Fitting(size) BY <2>2, <2>3, <2>4, KeyIn
  <2> QED BY <2>5
<1>4. \A s \in SUBSET K : s \in T
  <2> HIDE DEF T
  <2> QED BY <1>2, <1>3, KeysUp
<1> QED BY <1>4

\* so pack stays inside it.
LEMMA PatternIn ==
  ASSUME NEW p, DOMAIN p \subseteq Key, NEW d, \A key \in DOMAIN p : Fits(key, d[key]),
         NEW size \in Nat
  PROVE  PatternPack(p, d, size) \in Fitting(size)
<1> DEFINE K == DOMAIN p
<1>1. PICK f : Keyed(f, p, d, K, Slice(size)) /\ PatternPack(p, d, size) = f[K]
  BY KeysFold
<1>2. K \in SUBSET Key /\ \A key \in K : Fits(key, d[key]) OBVIOUS
<1> HIDE DEF K
<1>3. f[K] \in Fitting(size) BY <1>1, <1>2, KeyedIn
<1> QED BY <1>1, <1>3 DEF K

\* What the variables hold.
Holds(key, vs) == vs \in Seq(Given(key)) /\ (IsList(Field[key]) \/ Len(vs) = 1)

\* A value, and an enum's number, is of its variable's type.
LEMMA Plainly ==
  ASSUME NEW key \in Key, NEW v \in Given(key)
  PROVE  Plain(Field[key], v) \in Var(Field[key])
<1> DEFINE f == Field[key]
<1>1. CASE f.ptype = "enum"
  <2>1. v \in DOMAIN Enum BY <1>1 DEF Given, Item, Numbers, PTypes
  <2>2. Enum[v] \in Long
    <3>1. Enum[v] \in Word BY <2>1, MessageAssumption
    <3> QED BY <3>1 DEF Word, Long, Bits
  <2> QED BY <1>1, <2>2 DEF Plain, Var, Numbers, PTypes
<1>2. CASE f.ptype \in Numbers \ {"enum"}
  <2>1. v \in Long BY <1>2 DEF Given, Item, ValueOf, Numbers
  <2> QED BY <1>2, <2>1 DEF Plain, Var
<1>3. CASE f.ptype \notin Numbers
  <2>1. f.ptype # "enum" BY <1>3 DEF Numbers, PTypes
  <2> QED BY <1>3, <2>1 DEF Plain, Var, Given
<1> QED BY <1>1, <1>2, <1>3

\* The binding's conversions give a number of 64 bits again.
LEMMA Converted ==
  ASSUME NEW n \in Long
  PROVE  SignExtend(n) \in Long /\ ThroughDouble(n) \in Long
<1>1. SignExtend(n) \in Long
  <2>1. Low(n) \in Long BY ZigZagged
  <2>2. 32 .. 63 \subseteq Bits(64) BY DEF Bits
  <2> QED BY <2>1, <2>2 DEF SignExtend, Long
<1>2. ASSUME NEW m1 \in Long PROVE Nearest(m1) \in Long /\ Negated(m1) \in Long
  <2>1. Negated(m1) \in Long BY DEF Negated, Long
  <2> DEFINE half == Max(m1) - 53
             rest == m1 \cap (0 .. half)
  <2>2. Nearest(m1) \in {m1, Plus(m1 \ rest, half + 1), m1 \ rest} BY DEF Nearest
  <2> HIDE DEF half, rest
  <2>3. Plus(m1 \ rest, half + 1) \in Long BY DEF Plus, Long
  <2>4. m1 \ rest \in Long BY DEF Long
  <2> QED BY <2>1, <2>2, <2>3, <2>4
<1>3. Nearest(n) \in Long /\ Nearest(Negated(n)) \in Long /\ Negated(Nearest(Negated(n))) \in Long
  BY <1>2
<1>4. {} \in Long BY DEF Long
<1>5. ThroughDouble(n) \in {n, Nearest(n), Negated(Nearest(Negated(n))), {}} BY DEF ThroughDouble
<1> QED BY <1>1, <1>3, <1>4, <1>5

\* So do an item's: it is still of its field's type.
LEMMA ItemFits ==
  ASSUME NEW key \in Key, NEW v \in Var(Field[key])
  PROVE  ArrayItem(Field[key].ptype, v) \in Var(Field[key])
<1> DEFINE t == Field[key].ptype
<1>1. t \in PTypes BY FieldAssumption
<1>2. CASE t \in Numbers
  <2>1. v \in Long BY <1>2 DEF Var
  <2>2. {} \in Long /\ {0} \in Long BY DEF Long, Bits
  <2>3. ArrayItem(t, v) \in {SignExtend(v), ThroughDouble(v), {}, {0}, v} BY DEF ArrayItem
  <2>4. ArrayItem(t, v) \in Long BY <2>1, <2>2, <2>3, Converted
  <2> QED BY <1>2, <2>4 DEF Var
<1>3. CASE t \notin Numbers
  <2>1. t \in {"string", "bytes", "message"} BY <1>1, <1>3 DEF Numbers
  <2>2. LuaType(t) = t BY <2>1 DEF LuaType
  <2>3. ArrayItem(t, v) = v BY <2>1, <2>2 DEF ArrayItem, ThroughDoubles
  <2> QED BY <2>3
<1> QED BY <1>2, <1>3

\* Narrowed to the C type that was accepted it still is.
LEMMA VariableFits ==
  ASSUME NEW key \in Key, NEW c \in CType, CheckCtype(Field[key], c), NEW vs, Holds(key, vs)
  PROVE  Fits(key, Variable(Field[key], c, vs))
<1> DEFINE f == Field[key]
           n == Len(vs)
           x == Variable(f, c, vs)
<1>1. n \in Nat /\ DOMAIN vs = 1 .. n /\ \A j \in 1 .. n : vs[j] \in Given(key)
  BY DEF Holds
<1>2. \A j \in 1 .. n : Plain(f, vs[j]) \in Var(f) BY <1>1, Plainly
<1>3. CASE IsList(f)
  <2>1. x = [i \in 1 .. n |-> ArrayItem(f.ptype, Plain(f, vs[i]))] BY <1>1, <1>3 DEF Variable
  <2>6. \A j \in 1 .. n : ArrayItem(f.ptype, Plain(f, vs[j])) \in Var(f)
    <3> TAKE j \in 1 .. n
    <3>1. Plain(f, vs[j]) \in Var(f) BY <1>2
    <3> QED BY <3>1, ItemFits
  <2> HIDE DEF x, n
  <2>2. x \in [1 .. n -> Var(f)] BY <2>1, <2>6
  <2>3. x \in Seq(Var(f)) /\ Len(x) = n BY <1>1, <2>2, LenOf
  <2>4. \A j \in 1 .. Len(x) : x[j] \in Var(f) BY <2>2, <2>3
  <2>5. Writables(f, x) BY <2>3, <2>4 DEF Writables, Writable
  <2> QED BY <1>3, <2>5 DEF Fits, x
<1>4. CASE ~ IsList(f)
  <2>1. n = 1 BY <1>4 DEF Holds
  <2>2. x = Narrowed(c, Plain(f, vs[1])) BY <1>4 DEF Variable
  <2> DEFINE v == Plain(f, vs[1])
  <2>3. v \in Var(f) BY <1>2, <2>1
  <2> HIDE DEF v, x
  <2>4. f.label \notin {"repeated", "packed"} BY <1>4 DEF IsList
  <2>5. Writable(f, x)
    <3>1. CASE f.ptype \in {"double", "float"} BY <3>1 DEF Writable
    <3>2. CASE f.ptype \notin Numbers
      <4>1. f.ptype \in {"string", "bytes", "message"} BY <3>2, FieldAssumption DEF Numbers
      <4>2. c = "var" BY <2>4, <4>1 DEF CheckCtype
      <4>3. x = v BY <2>2, <4>2 DEF Narrowed, v
      <4> QED BY <2>3, <4>3 DEF Writable
    <3>3. CASE f.ptype \in Numbers /\ f.ptype \notin {"double", "float"}
      <4>1. v \in Long BY <2>3, <3>3 DEF Var
      <4>2. c # "float" BY <2>4, <3>3 DEF CheckCtype, Numbers
      <4>3. /\ Low(v) \in Long /\ v \cap Bits(16) \in Long /\ v \cap Bits(8) \in Long
            /\ {} \in Long /\ {0} \in Long
        BY <4>1, ZigZagged DEF Long, Bits
      <4>4. x \in {Low(v), v \cap Bits(16), v \cap Bits(8), {}, {0}, v}
        BY <2>2, <4>2 DEF Narrowed, v
      <4>5. x \in Long BY <4>1, <4>3, <4>4
      <4> QED BY <3>3, <4>5 DEF Writable, Var
    <3> QED BY <3>1, <3>2, <3>3
  <2> QED BY <1>4, <2>5 DEF Fits, x
<1> QED BY <1>3, <1>4

-----------------------------------------------------------------------------
\* What is given to the writers.
LEMMA Arguments ==
  ASSUME NEW key \in Key, NEW vs \in Values[key], ~ Invalid(key, vs)
  PROVE  Holds(key, vs)
<1> DEFINE t == Field[key].ptype
<1>1. vs \in Seq(ValueOf(t)) /\ (IsList(Field[key]) \/ Len(vs) = 1) BY MessageAssumption
<1>2. t \in PTypes BY FieldAssumption
<1>3. CASE t = "enum"
  <2>1. Given(key) = DOMAIN Enum BY <1>3 DEF Given, Item, Numbers, PTypes
  <2>2. PICK n \in Nat : n = Len(vs) /\ DOMAIN vs = 1 .. n
    <3>1. Len(vs) \in Nat /\ DOMAIN vs = 1 .. Len(vs) BY <1>1
    <3> QED BY <3>1
  <2>3. \A i \in 1 .. n : vs[i] \in DOMAIN Enum BY <1>3, <2>2 DEF Invalid
  <2>4. vs = [i \in 1 .. n |-> vs[i]] BY <1>1, <2>2
  <2>5. vs \in [1 .. n -> DOMAIN Enum] BY <2>3, <2>4
  <2>6. vs \in Seq(DOMAIN Enum) BY <2>5, LenOf
  <2> QED BY <1>1, <2>1, <2>6 DEF Holds
<1>4. CASE t \in Numbers \ {"enum"}
  <2>1. Given(key) = Long BY <1>4 DEF Given, Item, ValueOf, Numbers
  <2>2. ValueOf(t) = Long BY <1>4 DEF ValueOf, Numbers
  <2> QED BY <1>1, <2>1, <2>2 DEF Holds
<1>5. CASE t \notin Numbers
  <2>1. t \in {"string", "bytes", "message"} BY <1>2, <1>5 DEF Numbers
  <2>2. Given(key) = Seq(Byte) BY <1>5 DEF Given
  <2>3. ValueOf(t) = Seq(Byte) BY <2>1 DEF ValueOf
  <2> QED BY <1>1, <2>2, <2>3 DEF Holds
<1> QED BY <1>3, <1>4, <1>5

\* So does the value that stands for none.
LEMMA NothingHolds ==
  ASSUME NEW key \in Key
  PROVE  Holds(key, NoValue(Field[key]))
<1> DEFINE f == Field[key]
<1>1. f.ptype \in PTypes /\ (f.ptype = "enum" => f.defv \in DOMAIN Enum)
  BY FieldAssumption, MessageAssumption
<1>2. CASE IsList(f)
  <2>1. NoValue(f) = <<>> BY <1>2 DEF NoValue
  <2> QED BY <1>2, <2>1 DEF Holds
<1>3. CASE ~ IsList(f) /\ WireType(f.ptype) = LEND
  <2>1. f.ptype \in {"string", "bytes", "message"}
    BY <1>1, <1>3 DEF WireType, PTypes, LEND, BIT64, BIT32, VARINT
  <2>2. Given(key) = Seq(Byte) BY <2>1 DEF Given, Numbers
  <2>3. NoValue(f) = << <<>> >> BY <1>3 DEF NoValue
  <2>4. <<>> \in Given(key) BY <2>2
  <2>5. << <<>> >> \in Seq(Given(key)) /\ Len(<< <<>> >>) = 1 BY <2>4
  <2> QED BY <2>3, <2>5 DEF Holds
<1>4. CASE ~ IsList(f) /\ WireType(f.ptype) # LEND /\ f.ptype = "enum"
  <2>1. NoValue(f) = <<f.defv>> BY <1>4 DEF NoValue
  <2>2. Given(key) = DOMAIN Enum BY <1>4 DEF Given, Item, Numbers, PTypes
  <2> DEFINE v == f.defv
  <2>3. v \in Given(key) BY <1>1, <1>4, <2>2
  <2> HIDE DEF v
  <2>4. <<v>> \in Seq(Given(key)) /\ Len(<<v>>) = 1 BY <2>3
  <2> QED BY <2>1, <2>4 DEF Holds, v
<1>5. CASE ~ IsList(f) /\ WireType(f.ptype) # LEND /\ f.ptype # "enum"
  <2>1. f.ptype \in Numbers \ {"enum"} BY <1>1, <1>5 DEF WireType, Numbers
  <2>2. NoValue(f) = << {} >> BY <1>5 DEF NoValue
  <2>3. Given(key) = Long BY <2>1 DEF Given, Item, ValueOf, Numbers
  <2>4. {} \in Given(key) BY <2>3 DEF Long
  <2>5. << {} >> \in Seq(Given(key)) /\ Len(<< {} >>) = 1 BY <2>4
  <2> QED BY <2>2, <2>5 DEF Holds
<1> QED BY <1>2, <1>3, <1>4, <1>5

\* A new message is empty.
LEMMA NewIsSafe ==
  ASSUME NEW type \in Type
  PROVE  NewMessage(type) \in Safe /\ NewMessage(type).sub = <<>>
<1> DEFINE w == NewMessage(type)
           p == [key \in PackedKeys |-> <<>>]
           U == UNION {Seq(KeptOf(k)) : k \in PackedKeys}
<1>1. p \in Keeps
  <2>1. \A key \in PackedKeys : p[key] \in Seq(KeptOf(key)) OBVIOUS
  <2>2. \A key \in PackedKeys : p[key] \in U BY <2>1
  <2> HIDE DEF U
  <2>3. p \in [PackedKeys -> U] BY <2>2
  <2> HIDE DEF p
  <2> QED BY <2>1, <2>3 DEF Keeps, U
<1>2. WMESSAGE_SIZE \in Nat \ {0} BY MessageAssumption
<1>3. w = [type |-> type, buf |-> <<>>, cap |-> WMESSAGE_SIZE, packed |-> p,
           sub |-> <<>>, over |-> FALSE]
  BY DEF NewMessage
<1> HIDE DEF p
<1>4. w \in Message BY <1>1, <1>2, <1>3 DEF Message
<1>5. ~ w.over /\ w.buf = <<>> /\ w.cap = WMESSAGE_SIZE /\ w.sub = <<>> BY <1>3
<1> HIDE DEF w
<1>6. Len(w.buf) <= w.cap BY <1>2, <1>5
<1>7. w \in Safe BY <1>4, <1>5, <1>6 DEF Safe
<1> QED BY <1>5, <1>7 DEF w

\* One message alone,
LEMMA OneMessage ==
  ASSUME NEW type \in Type
  PROVE  <<NewMessage(type)>> \in Heaps(1)
<1> DEFINE w == NewMessage(type)
           ms == <<w>>
<1>1. w \in Safe /\ w.sub = <<>> BY NewIsSafe
<1> HIDE DEF w
<1>2. ms \in [1 .. 1 -> Safe] /\ ms[1] = w BY <1>1
<1> HIDE DEF ms
<1>3. \A k \in 1 .. 1 : \A i \in DOMAIN ms[k].sub : ms[k].sub[i].msg \in k + 1 .. 1
  <2>1. \A k \in 1 .. 1 : ms[k].sub = <<>> BY <1>1, <1>2
  <2>2. DOMAIN <<>> = {} OBVIOUS
  <2> QED BY <2>1, <2>2
<1>4. ms \in Heaps(1) BY <1>2, <1>3 DEF Heaps
<1> QED BY <1>4 DEF ms, w

\* one with more in its buffer or among its packed values,
LEMMA OneChanged ==
  ASSUME NEW n \in Nat, NEW ms \in Heaps(n), NEW k \in 1 .. n, NEW w \in Safe, Like(w, ms[k])
  PROVE  [ms EXCEPT ![k] = w] \in Heaps(n)
<1> DEFINE new == [ms EXCEPT ![k] = w]
<1>1. ms \in [1 .. n -> Safe]
      /\ \A j \in 1 .. n : \A i \in DOMAIN ms[j].sub : ms[j].sub[i].msg \in j + 1 .. n
  BY DEF Heaps
<1>2. new \in [1 .. n -> Safe] /\ \A j \in 1 .. n : new[j].sub = ms[j].sub
  BY <1>1 DEF Like
<1> HIDE DEF new
<1>3. new \in Heaps(n) BY <1>1, <1>2 DEF Heaps
<1> QED BY <1>3 DEF new

\* and one more, inside another that comes before it.
LEMMA OneAdded ==
  ASSUME NEW n \in Nat, NEW ms \in Heaps(n), NEW k \in 1 .. n, NEW key \in Key,
         NEW type \in Type
  PROVE  Append([ms EXCEPT ![k].sub = Append(@, [msg |-> n + 1, key |-> key])],
                NewMessage(type)) \in Heaps(n + 1)
<1> DEFINE w == ms[k]
           r == [msg |-> n + 1, key |-> key]
           sub == Append(w.sub, r)
           x == [w EXCEPT !.sub = sub]
           mid == [ms EXCEPT ![k] = x]
           e == NewMessage(type)
           new == Append(mid, e)
<1>1. ms \in [1 .. n -> Safe]
      /\ \A j \in 1 .. n : \A i \in DOMAIN ms[j].sub : ms[j].sub[i].msg \in j + 1 .. n
  BY DEF Heaps
<1>2. w \in Safe /\ w.sub \in Seq([msg : Nat, key : Key]) BY <1>1 DEF Safe, Message
<1>3. r \in [msg : Nat, key : Key] /\ r.msg = n + 1
  <2>1. n + 1 \in Nat OBVIOUS
  <2> QED BY <2>1
<1> HIDE DEF r
<1>4. sub \in Seq([msg : Nat, key : Key])
      /\ \A i \in DOMAIN sub : sub[i] = r \/ (i \in DOMAIN w.sub /\ sub[i] = w.sub[i])
  <2> HIDE DEF w
  <2> QED BY <1>2, <1>3
<1>5. \A i \in DOMAIN sub : sub[i].msg \in k + 1 .. n + 1
  <2> TAKE i \in DOMAIN sub
  <2>1. CASE sub[i] = r
    <3>1. n + 1 \in k + 1 .. n + 1 OBVIOUS
    <3> QED BY <1>3, <2>1, <3>1
  <2>2. CASE i \in DOMAIN w.sub /\ sub[i] = w.sub[i]
    <3>1. w.sub[i].msg \in k + 1 .. n BY <1>1, <2>2
    <3>2. \A c \in k + 1 .. n : c \in k + 1 .. n + 1 OBVIOUS
    <3> QED BY <2>2, <3>1, <3>2
  <2> QED BY <1>4, <2>1, <2>2
<1> HIDE DEF sub
<1>6. x \in Safe /\ x.sub = sub
  <2> HIDE DEF w
  <2> QED BY <1>2, <1>4 DEF Safe, Message
<1> HIDE DEF x
<1>7. mid \in [1 .. n -> Safe]
      /\ \A j \in 1 .. n : \A i \in DOMAIN mid[j].sub : mid[j].sub[i].msg \in j + 1 .. n + 1
  <2>1. mid \in [1 .. n -> Safe] BY <1>1, <1>6
  <2>2. \A j \in 1 .. n : mid[j] = IF j = k THEN x ELSE ms[j] BY <1>1
  <2>3. \A j \in 1 .. n, c \in Int : c \in j + 1 .. n => c \in j + 1 .. n + 1 OBVIOUS
  <2>4. \A j \in 1 .. n : \A i \in DOMAIN ms[j].sub : ms[j].sub[i].msg \in j + 1 .. n + 1
    BY <1>1, <2>3
  <2> HIDE DEF mid
  <2>5. ASSUME NEW j \in 1 .. n, NEW i \in DOMAIN mid[j].sub
        PROVE  mid[j].sub[i].msg \in j + 1 .. n + 1
    <3>1. CASE j = k
      <4>1. mid[j].sub = sub BY <1>6, <2>2, <3>1
      <4> QED BY <1>5, <2>5, <3>1, <4>1
    <3>2. CASE j # k
      <4>1. mid[j].sub = ms[j].sub BY <2>2, <3>2
      <4> QED BY <2>4, <2>5, <4>1
    <3> QED BY <3>1, <3>2
  <2> QED BY <2>1, <2>5
<1>8. e \in Safe /\ e.sub = <<>> BY NewIsSafe
<1> HIDE DEF mid, e
<1>9. mid \in Seq(Safe) /\ Len(mid) = n BY <1>7, LenOf
<1>10. /\ new \in [1 .. n + 1 -> Safe] /\ new[n + 1] = e
       /\ \A j \in 1 .. n : new[j] = mid[j]
  <2>1. new \in Seq(Safe) /\ Len(new) = n + 1 BY <1>8, <1>9
  <2>2. new[n + 1] = e BY <1>8, <1>9
  <2>3. \A j \in 1 .. n : new[j] = mid[j] BY <1>8, <1>9
  <2> HIDE DEF new
  <2>4. new \in [1 .. n + 1 -> Safe] BY <2>1
  <2> QED BY <2>4, <2>2, <2>3
<1> HIDE DEF new
<1>11. ASSUME NEW j \in 1 .. n + 1, NEW i \in DOMAIN new[j].sub
       PROVE  new[j].sub[i].msg \in j + 1 .. n + 1
  <2>1. CASE j \in 1 .. n
    <3>1. new[j] = mid[j] BY <1>10, <2>1
    <3>2. i \in DOMAIN mid[j].sub BY <1>11, <3>1
    <3>3. mid[j].sub[i].msg \in j + 1 .. n + 1 BY <1>7, <2>1, <3>2
    <3> QED BY <3>1, <3>3
  <2>2. CASE j = n + 1
    <3>1. new[j].sub = <<>> BY <1>8, <1>10, <2>2
    <3>2. DOMAIN <<>> = {} OBVIOUS
    <3> QED BY <1>11, <3>1, <3>2
  <2> QED BY <2>1, <2>2
<1>12. new \in Heaps(n + 1) BY <1>10, <1>11 DEF Heaps
<1>13. [ms EXCEPT ![k].sub = Append(@, r)] = mid BY <1>1 DEF mid, x, sub, w
<1> QED BY <1>12, <1>13 DEF new, e, r

-----------------------------------------------------------------------------
\* The lengths of lengths.

\* A quotient below two.
LEMMA Quotient ==
  ASSUME NEW p \in Nat, p > 0, NEW c \in Nat, c < 2 * p
  PROVE  (c < p => c \div p = 0) /\ (c >= p => c \div p = 1)
OBVIOUS

\* A number is at least as large as any of its bits,
LEMMA BitBelow ==
  ASSUME NEW c \in Nat, NEW b \in WordOf(c)
  PROVE  2^b <= c
<1>1. b \in Nat /\ (c \div 2^b) % 2 = 1 BY DEF WordOf, Bits
<1>2. PICK p \in Nat : p = 2^b BY <1>1, Subsets
<1>3. p > 0
  <2>1. b < 2^b BY <1>1, PowerLarge
  <2> QED BY <1>1, <1>2, <2>1
<1>4. ASSUME c < p PROVE FALSE
  <2>1. c < 2 * p BY <1>4, <1>2
  <2>2. c \div p = 0 BY <1>2, <1>3, <1>4, <2>1, Quotient
  <2>3. (c \div p) % 2 = 1 BY <1>1, <1>2
  <2> DEFINE q == c \div p
  <2>4. q = 0 /\ q % 2 = 1 BY <2>2, <2>3
  <2> HIDE DEF q
  <2>5. 0 % 2 = 1 BY <2>4
  <2>6. 0 % 2 = 0 OBVIOUS
  <2>7. 0 = 1 BY <2>5, <2>6
  <2> QED BY <2>7
<1> QED BY <1>2, <1>4

\* and below the next power when it has no bit from there on.
LEMMA BitAbove ==
  ASSUME NEW c \in Nat, c < 2^30, NEW k \in 0 .. 30, \A b \in WordOf(c) : b < k
  PROVE  c < 2^k
<1> DEFINE n == 30 - k
           T == {j \in 0 .. n : c < 2^(30 - j)}
<1>1. n \in Nat /\ 0 \in T
  <2>1. n \in Nat OBVIOUS
  <2>2. 30 - 0 = 30 OBVIOUS
  <2> QED BY <2>1, <2>2
<1>2. ASSUME NEW j \in 0 .. n, j < n, j \in T PROVE j + 1 \in T
  <2>1. PICK i \in Nat : i = 30 - (j + 1) BY <1>1, <1>2
  <2>2. i >= k /\ i < 31 /\ i + 1 = 30 - j /\ j + 1 \in 0 .. n BY <1>2, <2>1
  <2>3. PICK p \in Nat : p = 2^i BY <2>1, Subsets
  <2>4. p > 0
    <3>1. i < 2^i BY PowerLarge
    <3> QED BY <2>1, <2>3, <3>1
  <2>5. c < 2 * p
    <3>1. 2^(i + 1) = 2 * 2^i BY Doubles
    <3>2. c < 2^(30 - j) BY <1>2
    <3> QED BY <2>2, <2>3, <3>1, <3>2
  <2>6. i \notin WordOf(c) BY <2>2
  <2>7. i \in Bits(31) BY <2>2 DEF Bits
  <2>8. (c \div p) % 2 # 1 BY <2>3, <2>6, <2>7 DEF WordOf
  <2>9. ASSUME c >= p PROVE FALSE
    <3>1. c \div p = 1 BY <2>3, <2>4, <2>5, <2>9, Quotient
    <3>2. 1 % 2 = 1 OBVIOUS
    <3> QED BY <2>8, <3>1, <3>2
  <2>10. c < p BY <2>9
  <2>11. c < 2^(30 - (j + 1)) BY <2>1, <2>3, <2>10
  <2> QED BY <2>2, <2>11
<1>3. \A j \in 0 .. n : j \in T
  <2> HIDE DEF T, n
  <2> QED BY <1>1, <1>2, Upwards
<1>4. n \in T /\ 30 - n = k BY <1>1, <1>3
<1> QED BY <1>4

\* so the length of a longer count is not shorter.
LEMMA LengthGrows ==
  ASSUME NEW a \in Nat, NEW b \in Nat, a <= b, b < 2^30
  PROVE  Len(Length(a)) <= Len(Length(b))
<1>1. \A c : WordOf(c) \in Long BY DEF WordOf, Long, Bits
<1>2. PICK g \in 1 .. 10 : g = Groups(WordOf(a)) /\ Covers(WordOf(a), g)
  BY <1>1, GroupsDefined
<1>3. PICK h \in 1 .. 10 : h = Groups(WordOf(b)) /\ Covers(WordOf(b), h)
  BY <1>1, GroupsDefined
<1>4. Len(Length(a)) = g /\ Len(Length(b)) = h BY <1>1, <1>2, <1>3, EncodedBytes DEF Length
<1>5. ASSUME g > h PROVE FALSE
  <2>1. g > 1 BY <1>5
  <2>2. PICK x \in WordOf(a) : x >= 7 * (g - 1) BY <1>2, <2>1 DEF Covers
  <2>3. x \in 0 .. 30 BY DEF WordOf, Bits
  <2>4. \A y \in WordOf(b) : y < 7 * h BY <1>3 DEF Covers
  <2>5. \A y \in WordOf(b) : y \in Nat BY DEF WordOf, Bits
  <2>6. 7 * h <= x BY <1>5, <2>2, <2>3
  <2>7. \A y \in WordOf(b) : y < x BY <2>3, <2>4, <2>5, <2>6
  <2>8. b < 2^x BY <2>3, <2>7, BitAbove
  <2>9. 2^x <= a BY BitBelow
  <2>10. x \in Nat BY <2>3
  <2>11. 2^x \in Nat BY <2>10, Subsets
  <2> QED BY <2>8, <2>9, <2>11
<1> QED BY <1>4, <1>5

-----------------------------------------------------------------------------
\* Two buffers of different sizes.

\* The second slice has room for what the first one holds.
Agree(x, y) == y.ok /\ y.buf = x.buf

\* A part that fits the first and the size of the second fits the second.
LEMMA PartSame ==
  ASSUME NEW A \in Nat, NEW B \in Nat, NEW s \in Fitting(A), NEW z \in Fitting(B),
         NEW bytes \in Seq(Byte), Agree(s, z),
         PutIn(s, bytes).ok, Len(PutIn(s, bytes).buf) <= B
  PROVE  Agree(PutIn(s, bytes), PutIn(z, bytes))
<1> DEFINE x == PutIn(s, bytes)
           y == PutIn(z, bytes)
<1>1. /\ x.ok => s.ok /\ Len(s.buf) + Len(bytes) <= A
      /\ x.ok => x.buf = s.buf \o bytes /\ Len(x.buf) = Len(s.buf) + Len(bytes)
  BY PartPut
<1>2. /\ z.ok /\ Len(z.buf) + Len(bytes) <= B => y.ok
      /\ y.ok => y.buf = z.buf \o bytes
  BY PartPut
<1>3. x.ok /\ Len(x.buf) <= B OBVIOUS
<1> HIDE DEF x, y
<1>4. Len(s.buf) + Len(bytes) <= B BY <1>1, <1>3
<1>5. z.ok /\ z.buf = s.buf BY DEF Agree
<1>6. Len(z.buf) + Len(bytes) <= B BY <1>4, <1>5
<1>7. y.ok /\ y.buf = z.buf \o bytes BY <1>2, <1>5, <1>6
<1>8. Agree(x, y) BY <1>1, <1>3, <1>5, <1>7 DEF Agree
<1> QED BY <1>8 DEF x, y

\* What is kept from the first buffer to the second.
LEMMA Earlier ==
  ASSUME NEW A \in Nat, NEW x \in Fitting(A), NEW y \in Fitting(A), After(y, x), y.ok,
         NEW B \in Nat, Len(y.buf) <= B
  PROVE  x.ok /\ Len(x.buf) <= B
<1>1. PICK a \in Nat : a = Len(x.buf) BY AfterAll
<1>2. PICK b \in Nat : b = Len(y.buf) BY AfterAll
<1>3. a <= b BY <1>1, <1>2 DEF After
<1>4. b <= B BY <1>2
<1>5. a <= B BY <1>3, <1>4
<1> QED BY <1>1, <1>5 DEF After

\* So does a field,
LEMMA FieldSame ==
  ASSUME NEW A \in Nat, NEW B \in Nat, NEW s \in Fitting(A), NEW z \in Fitting(B),
         NEW f, f.ptype \in PTypes, NEW v, Writable(f, v), Agree(s, z),
         PackField(s, f, v).ok, Len(PackField(s, f, v).buf) <= B
  PROVE  Agree(PackField(s, f, v), PackField(z, f, v))
<1>1. CASE WireType(f.ptype) = LEND
  <2>1. f.ptype \in {"string", "bytes", "message"}
    BY <1>1 DEF WireType, PTypes, LEND, BIT64, BIT32, VARINT
  <2>2. v \in Seq(Byte) BY <2>1 DEF Writable, Var, Numbers
  <2> DEFINE tag == Tag(f, LEND)
             len == Length(Len(v))
             x1 == PutIn(s, tag)
             y1 == PutIn(z, tag)
             x2 == PutIn(x1, len)
             y2 == PutIn(y1, len)
             x3 == PutIn(x2, v)
             y3 == PutIn(y2, v)
  <2>3. tag \in Seq(Byte) BY TagBytes
  <2>4. len \in Seq(Byte) BY LengthBytes
  <2>5. PackField(s, f, v) = x3 /\ PackField(z, f, v) = y3 BY <1>1 DEF PackField
  <2> HIDE DEF tag, len
  <2>6. x1 \in Fitting(A) /\ y1 \in Fitting(B) /\ After(x1, s) BY <2>3, PartPut
  <2>7. x2 \in Fitting(A) /\ y2 \in Fitting(B) /\ After(x2, x1)
    <3> HIDE DEF x1, y1
    <3> QED BY <2>4, <2>6, PartPut
  <2>8. x3 \in Fitting(A) /\ After(x3, x2)
    <3> HIDE DEF x2
    <3> QED BY <2>2, <2>7, PartPut
  <2>9. x3.ok /\ Len(x3.buf) <= B BY <2>5
  <2> HIDE DEF x3
  <2>10. x2.ok /\ Len(x2.buf) <= B
    <3> HIDE DEF x2
    <3> QED BY <2>7, <2>8, <2>9, Earlier
  <2>11. x1.ok /\ Len(x1.buf) <= B
    <3> HIDE DEF x1, x2
    <3> QED BY <2>6, <2>7, <2>10, Earlier
  <2>12. Agree(x1, y1) BY <2>3, <2>11, PartSame
  <2>13. Agree(x2, y2)
    <3>1. PutIn(x1, len).ok /\ Len(PutIn(x1, len).buf) <= B BY <2>10
    <3> HIDE DEF x1, y1
    <3> QED BY <2>4, <2>6, <2>12, <3>1, PartSame
  <2>14. Agree(x3, y3)
    <3>1. PutIn(x2, v).ok /\ Len(PutIn(x2, v).buf) <= B BY <2>9 DEF x3
    <3> HIDE DEF x2, y2
    <3> QED BY <2>2, <2>7, <2>13, <3>1, PartSame DEF x3
  <2> QED BY <2>5, <2>14
<1>2. CASE WireType(f.ptype) # LEND
  <2>1. f.ptype \in Numbers BY <1>2 DEF WireType, Numbers
  <2> DEFINE tag == Tag(f, WireType(f.ptype))
             num == PackNumber(f.ptype, v)
             x1 == PutIn(s, tag)
             y1 == PutIn(z, tag)
             x2 == PutIn(x1, num)
             y2 == PutIn(y1, num)
  <2>2. num \in Seq(Byte) BY <2>1, VarBytes
  <2>3. tag \in Seq(Byte)
    <3>1. WireType(f.ptype) \in {VARINT, BIT64, LEND, BIT32} BY DEF WireType
    <3> QED BY <3>1, TagBytes
  <2>4. PackField(s, f, v) = x2 /\ PackField(z, f, v) = y2 BY <1>2 DEF PackField
  <2> HIDE DEF tag, num
  <2>5. x1 \in Fitting(A) /\ y1 \in Fitting(B) /\ After(x1, s) BY <2>3, PartPut
  <2>6. x2 \in Fitting(A) /\ After(x2, x1)
    <3> HIDE DEF x1
    <3> QED BY <2>2, <2>5, PartPut
  <2>7. x2.ok /\ Len(x2.buf) <= B BY <2>4
  <2>8. x1.ok /\ Len(x1.buf) <= B
    <3> HIDE DEF x1, x2
    <3> QED BY <2>5, <2>6, <2>7, Earlier
  <2>9. Agree(x1, y1) BY <2>3, <2>8, PartSame
  <2>10. Agree(x2, y2)
    <3>1. PutIn(x1, num).ok /\ Len(PutIn(x1, num).buf) <= B BY <2>7
    <3> HIDE DEF x1, y1
    <3> QED BY <2>2, <2>5, <2>9, <3>1, PartSame
  <2> QED BY <2>4, <2>10
<1> QED BY <1>1, <1>2

\* Two folds agree when each of their turns does.
LEMMA FoldSame ==
  ASSUME NEW A \in Nat, NEW B \in Nat, NEW n \in Nat, NEW what, NEW p,
         NEW s \in Fitting(A), NEW z \in Fitting(B), Agree(s, z),
         NEW t, Turns(t, what, p, n, s), NEW u, Turns(u, what, p, n, z),
         \A x \in Fitting(A), j \in 1 .. n :
           Turn(what, p, x, j) \in Fitting(A) /\ After(Turn(what, p, x, j), x),
         \A x \in Fitting(B), j \in 1 .. n : Turn(what, p, x, j) \in Fitting(B),
         \A x \in Fitting(A), y \in Fitting(B), j \in 1 .. n :
           Agree(x, y) /\ Turn(what, p, x, j).ok /\ Len(Turn(what, p, x, j).buf) <= B
             => Agree(Turn(what, p, x, j), Turn(what, p, y, j)),
         t[n].ok, Len(t[n].buf) <= B
  PROVE  Agree(t[n], u[n])
<1> DEFINE T == {k \in 0 .. n : t[k].ok /\ Len(t[k].buf) <= B => Agree(t[k], u[k])}
<1>1. \A k \in 0 .. n : t[k] \in Fitting(A)
  <2> DEFINE S == Fitting(A)
  <2>1. \A x \in S, j \in 1 .. n : Turn(what, p, x, j) \in S OBVIOUS
  <2>2. s \in S OBVIOUS
  <2> HIDE DEF S
  <2>3. \A k \in 0 .. n : t[k] \in S BY <2>1, <2>2, FoldStays
  <2> QED BY <2>3 DEF S
<1>2. \A k \in 0 .. n : u[k] \in Fitting(B)
  <2> DEFINE S == Fitting(B)
  <2>1. \A x \in S, j \in 1 .. n : Turn(what, p, x, j) \in S OBVIOUS
  <2>2. z \in S OBVIOUS
  <2> HIDE DEF S
  <2>3. \A k \in 0 .. n : u[k] \in S BY <2>1, <2>2, FoldStays
  <2> QED BY <2>3 DEF S
<1>3. 0 \in T
  <2>1. t[0] = s /\ u[0] = z BY DEF Turns
  <2>2. Agree(t[0], u[0]) BY <2>1
  <2> QED BY <2>2
<1>4. ASSUME NEW k \in 0 .. n, k < n, k \in T PROVE k + 1 \in T
  <2>1. k + 1 \in 0 .. n /\ k + 1 \in 1 .. n BY <1>4
  <2>2. t[k + 1] = Turn(what, p, t[k], k + 1) /\ u[k + 1] = Turn(what, p, u[k], k + 1)
    BY <1>4 DEF Turns
  <2>3. t[k] \in Fitting(A) /\ t[k + 1] \in Fitting(A) /\ After(t[k + 1], t[k])
    BY <1>1, <1>4, <2>1, <2>2
  <2>4. ASSUME t[k + 1].ok, Len(t[k + 1].buf) <= B PROVE Agree(t[k + 1], u[k + 1])
    <3>1. t[k].ok /\ Len(t[k].buf) <= B BY <2>3, <2>4, Earlier
    <3>2. Agree(t[k], u[k]) BY <1>4, <3>1
    <3>3. u[k] \in Fitting(B) BY <1>2, <1>4
    <3>4. Turn(what, p, t[k], k + 1).ok /\ Len(Turn(what, p, t[k], k + 1).buf) <= B
      BY <2>2, <2>4
    <3>5. Agree(Turn(what, p, t[k], k + 1), Turn(what, p, u[k], k + 1))
      BY <2>1, <2>3, <3>2, <3>3, <3>4
    <3> QED BY <2>2, <3>5
  <2> QED BY <2>1, <2>4
<1>5. \A k \in 0 .. n : k \in T
  <2> HIDE DEF T
  <2> QED BY <1>3, <1>4, Upwards
<1> QED BY <1>5

\* and a list of fields.
LEMMA RepeatedSame ==
  ASSUME NEW A \in Nat, NEW B \in Nat, NEW s \in Fitting(A), NEW z \in Fitting(B),
         NEW f, f.ptype \in PTypes, NEW vs, Writables(f, vs), Agree(s, z),
         PackRepeated(s, f, vs).ok, Len(PackRepeated(s, f, vs).buf) <= B
  PROVE  Agree(PackRepeated(s, f, vs), PackRepeated(z, f, vs))
<1> DEFINE n == Len(vs)
           p == [of |-> f, vs |-> vs]
           x == PackRepeated(s, f, vs)
           y == PackRepeated(z, f, vs)
<1>1. n \in Nat /\ DOMAIN vs = 1 .. n
  <2>1. PICK V : vs \in Seq(V) BY DEF Writables
  <2> QED BY <2>1
<1>2. (\E t : Turns(t, "repeated", p, n, s) /\ x = t[n])
      /\ (\E t : Turns(t, "repeated", p, n, z) /\ y = t[n])
  <2> HIDE DEF n
  <2> QED BY <1>1, RepeatedFold
<1>3. \A j \in 1 .. n : Writable(f, vs[j]) BY DEF Writables
<1>4. \A e, j : Turn("repeated", p, e, j) = PackField(e, f, vs[j]) BY DEF Turn
<1> HIDE DEF n, p
<1>5. \A e \in Fitting(A), j \in 1 .. n :
        Turn("repeated", p, e, j) \in Fitting(A) /\ After(Turn("repeated", p, e, j), e)
  BY <1>3, <1>4, FieldIn
<1>6. \A e \in Fitting(B), j \in 1 .. n : Turn("repeated", p, e, j) \in Fitting(B)
  BY <1>3, <1>4, FieldIn
<1>7. \A e \in Fitting(A), g \in Fitting(B), j \in 1 .. n :
        Agree(e, g) /\ Turn("repeated", p, e, j).ok /\ Len(Turn("repeated", p, e, j).buf) <= B
          => Agree(Turn("repeated", p, e, j), Turn("repeated", p, g, j))
  BY <1>3, <1>4, FieldSame
<1>8. x.ok /\ Len(x.buf) <= B OBVIOUS
<1> HIDE DEF x, y
<1>9. PICK t : Turns(t, "repeated", p, n, s) /\ x = t[n] BY <1>2
<1>10. PICK u : Turns(u, "repeated", p, n, z) /\ y = u[n] BY <1>2
<1>11. t[n].ok /\ Len(t[n].buf) <= B BY <1>8, <1>9
<1>12. Agree(t[n], u[n]) BY <1>1, <1>5, <1>6, <1>7, <1>9, <1>10, <1>11, FoldSame
<1> QED BY <1>9, <1>10, <1>12 DEF x, y

\* The items of a packed field need no spare room.
LEMMA NumbersSame ==
  ASSUME NEW A \in Nat, NEW B \in Nat, NEW s \in Fitting(A), NEW z \in Fitting(B),
         NEW f, f.ptype \in Numbers, NEW vs, Writables(f, vs), Agree(s, z),
         Items(s, f, vs).ok, Len(Items(s, f, vs).buf) <= B
  PROVE  Agree(Items(s, f, vs), Items(z, f, vs))
<1> DEFINE n == Len(vs)
           list == [i \in DOMAIN vs |-> PackNumber(f.ptype, vs[i])]
           x == Items(s, f, vs)
           y == Items(z, f, vs)
<1>1. n \in Nat /\ DOMAIN vs = 1 .. n
  <2>1. PICK V : vs \in Seq(V) BY DEF Writables
  <2> QED BY <2>1
<1>2. \A j \in 1 .. n : list[j] \in Seq(Byte)
  <2> TAKE j \in 1 .. n
  <2>1. Writable(f, vs[j]) BY DEF Writables
  <2>2. PackNumber(f.ptype, vs[j]) \in Seq(Byte) BY <2>1, VarBytes
  <2> QED BY <1>1, <2>2
<1>3. DOMAIN list = 1 .. n BY <1>1
<1>4. x = FoldLeft(PutIn, s, list) /\ y = FoldLeft(PutIn, z, list) BY DEF Items
<1>5. x.ok /\ Len(x.buf) <= B OBVIOUS
<1> HIDE DEF n, list, x, y
<1>6. PICK t : Turns(t, "numbers", list, n, s) /\ x = t[n] BY <1>1, <1>3, <1>4, NumbersFold
<1>7. PICK u : Turns(u, "numbers", list, n, z) /\ y = u[n] BY <1>1, <1>3, <1>4, NumbersFold
<1>8. \A e, j : Turn("numbers", list, e, j) = PutIn(e, list[j]) BY DEF Turn
<1>9. \A e \in Fitting(A), j \in 1 .. n :
        Turn("numbers", list, e, j) \in Fitting(A) /\ After(Turn("numbers", list, e, j), e)
  BY <1>2, <1>8, PartPut
<1>10. \A e \in Fitting(B), j \in 1 .. n : Turn("numbers", list, e, j) \in Fitting(B)
  BY <1>2, <1>8, PartPut
<1>11. \A e \in Fitting(A), g \in Fitting(B), j \in 1 .. n :
         Agree(e, g) /\ Turn("numbers", list, e, j).ok /\ Len(Turn("numbers", list, e, j).buf) <= B
           => Agree(Turn("numbers", list, e, j), Turn("numbers", list, g, j))
  BY <1>2, <1>8, PartSame
<1>12. t[n].ok /\ Len(t[n].buf) <= B BY <1>5, <1>6
<1>13. Agree(t[n], u[n]) BY <1>1, <1>6, <1>7, <1>9, <1>10, <1>11, <1>12, FoldSame
<1> QED BY <1>6, <1>7, <1>13 DEF x, y

\* Every item takes a byte at least, and one of a fixed width that many.
LEMMA NumbersLong ==
  ASSUME NEW A \in Nat, NEW s \in Fitting(A), NEW f, f.ptype \in Numbers,
         NEW vs, Writables(f, vs), Items(s, f, vs).ok
  PROVE  /\ Len(s.buf) + Len(vs) <= Len(Items(s, f, vs).buf)
         /\ WireType(f.ptype) \in {BIT64, BIT32} =>
              Len(Items(s, f, vs).buf) = Len(s.buf) + Width(f.ptype) * Len(vs)
<1> DEFINE n == Len(vs)
           list == [i \in DOMAIN vs |-> PackNumber(f.ptype, vs[i])]
           x == Items(s, f, vs)
           fixed == WireType(f.ptype) \in {BIT64, BIT32}
           w == Width(f.ptype)
<1>1. n \in Nat /\ DOMAIN vs = 1 .. n
  <2>1. PICK V : vs \in Seq(V) BY DEF Writables
  <2> QED BY <2>1
<1>2. \A j \in 1 .. n : /\ list[j] \in Seq(Byte) /\ Len(list[j]) \in 1 .. 10
                        /\ fixed => Len(list[j]) = w
  <2> TAKE j \in 1 .. n
  <2>1. Writable(f, vs[j]) BY DEF Writables
  <2>2. /\ PackNumber(f.ptype, vs[j]) \in Seq(Byte) /\ Len(PackNumber(f.ptype, vs[j])) \in 1 .. 10
        /\ fixed => Len(PackNumber(f.ptype, vs[j])) = w
    BY <2>1, VarBytes
  <2>3. list[j] = PackNumber(f.ptype, vs[j]) BY <1>1
  <2> HIDE DEF list, fixed, w
  <2> QED BY <2>2, <2>3
<1>3. DOMAIN list = 1 .. n BY <1>1
<1>4. x = FoldLeft(PutIn, s, list) BY DEF Items
<1>5. x.ok OBVIOUS
<1>6. w \in {4, 8} BY DEF Width
<1> HIDE DEF n, list, x, fixed, w
<1>7. PICK t : Turns(t, "numbers", list, n, s) /\ x = t[n] BY <1>1, <1>3, <1>4, NumbersFold
<1>8. \A e, j : Turn("numbers", list, e, j) = PutIn(e, list[j]) BY DEF Turn
<1>9. \A k \in 0 .. n : t[k] \in Fitting(A)
  <2> DEFINE S == Fitting(A)
  <2>1. \A e \in S, j \in 1 .. n : Turn("numbers", list, e, j) \in S BY <1>2, <1>8, PartPut
  <2>2. s \in S OBVIOUS
  <2> HIDE DEF S
  <2>3. \A k \in 0 .. n : t[k] \in S BY <1>1, <1>7, <2>1, <2>2, FoldStays
  <2> QED BY <2>3 DEF S
<1>10. PICK a \in Nat : a = Len(s.buf) BY AfterAll
<1> DEFINE T == {k \in 0 .. n : t[k].ok => /\ a + k <= Len(t[k].buf)
                                           /\ fixed => Len(t[k].buf) = a + w * k}
<1>11. 0 \in T
  <2>1. t[0] = s BY <1>7 DEF Turns
  <2>2. a + 0 <= a /\ a = a + w * 0 BY <1>6
  <2>3. a + 0 <= Len(t[0].buf) /\ Len(t[0].buf) = a + w * 0 BY <1>10, <2>1, <2>2
  <2>4. 0 \in 0 .. n BY <1>1
  <2> QED BY <2>3, <2>4
<1>12. ASSUME NEW k \in 0 .. n, k < n, k \in T PROVE k + 1 \in T
  <2>1. k + 1 \in 0 .. n /\ k + 1 \in 1 .. n BY <1>1, <1>12
  <2>2. t[k + 1] = PutIn(t[k], list[k + 1]) BY <1>7, <1>8, <1>12 DEF Turns
  <2>3. t[k] \in Fitting(A) BY <1>9
  <2>4. list[k + 1] \in Seq(Byte) /\ (fixed => Len(list[k + 1]) = w) BY <1>2, <2>1
  <2>5. PICK l \in 1 .. 10 : l = Len(list[k + 1]) BY <1>2, <2>1
  <2>6. ASSUME t[k + 1].ok
        PROVE  /\ a + (k + 1) <= Len(t[k + 1].buf)
               /\ fixed => Len(t[k + 1].buf) = a + w * (k + 1)
    <3>1. t[k].ok /\ Len(t[k + 1].buf) = Len(t[k].buf) + Len(list[k + 1])
      <4> DEFINE e == t[k]
                 bytes == list[k + 1]
      <4>1. e \in Fitting(A) /\ bytes \in Seq(Byte) BY <2>3, <2>4
      <4>2. t[k + 1] = PutIn(e, bytes) BY <2>2
      <4> HIDE DEF e, bytes
      <4>3. PutIn(e, bytes).ok => e.ok /\ Len(PutIn(e, bytes).buf) = Len(e.buf) + Len(bytes)
        BY <4>1, PartPut
      <4>4. e.ok /\ Len(t[k + 1].buf) = Len(e.buf) + Len(bytes) BY <2>6, <4>2, <4>3
      <4> QED BY <4>4 DEF e, bytes
    <3>2. PICK b \in Nat : b = Len(t[k].buf) BY <2>3, AfterAll
    <3>3. Len(t[k + 1].buf) = b + l BY <2>5, <3>1, <3>2
    <3>4. a + k <= b /\ (fixed => b = a + w * k) BY <1>12, <3>1, <3>2
    <3>5. a + (k + 1) <= b + l BY <3>4
    <3>6. ASSUME fixed PROVE b + l = a + w * (k + 1)
      <4>1. l = w /\ b = a + w * k BY <2>4, <2>5, <3>4, <3>6
      <4>2. w * (k + 1) = w * k + w BY <1>6
      <4>3. w * k \in Nat BY <1>6
      <4> QED BY <4>1, <4>2, <4>3
    <3> QED BY <3>3, <3>5, <3>6
  <2> QED BY <2>1, <2>6
<1>13. \A k \in 0 .. n : k \in T
  <2> HIDE DEF T
  <2> QED BY <1>1, <1>11, <1>12, Upwards
<1>14. n \in T BY <1>1, <1>13
<1>15. a + n <= Len(x.buf) /\ (fixed => Len(x.buf) = a + w * n) BY <1>5, <1>7, <1>14
<1> QED BY <1>10, <1>15 DEF x, fixed, w, n

\* A field of items of a fixed width needs the room of its length once more.
LEMMA FixedSame ==
  ASSUME NEW A \in Nat, A < 2^30, NEW B \in Nat, NEW s \in Fitting(A), NEW z \in Fitting(B),
         NEW f, f.ptype \in Numbers, WireType(f.ptype) \in {BIT64, BIT32},
         NEW vs, Writables(f, vs), Agree(s, z),
         PackPackedFixed(s, f, vs, Width(f.ptype)).ok,
         Len(PackPackedFixed(s, f, vs, Width(f.ptype)).buf) + Len(Length(A)) <= B
  PROVE  Agree(PackPackedFixed(s, f, vs, Width(f.ptype)),
               PackPackedFixed(z, f, vs, Width(f.ptype)))
<1> DEFINE w == Width(f.ptype)
           n == w * Len(vs)
           first == Length(n)
           hs == PutIn(s, first)
           hz == PutIn(z, first)
           x == PackPackedFixed(s, f, vs, w)
           y == PackPackedFixed(z, f, vs, w)
           xi == Items(hs, f, vs)
           yi == Items(hz, f, vs)
<1>1. n \in Nat
  <2>1. w \in {4, 8} BY DEF Width
  <2>2. PICK V : vs \in Seq(V) BY DEF Writables
  <2>3. Len(vs) \in Nat BY <2>2
  <2> HIDE DEF w
  <2> QED BY <2>1, <2>3
<1>2. first \in Seq(Byte) BY LengthBytes
<1>3. PICK l \in 1 .. 5 : l = Len(first) BY LengthBytes
<1>4. x = (IF hs.room - Len(first) < n THEN Short(s) ELSE xi)
      /\ y = (IF hz.room - Len(first) < n THEN Short(z) ELSE yi)
  BY DEF PackPackedFixed
<1>5. x.ok /\ Len(x.buf) + Len(Length(A)) <= B OBVIOUS
<1>6. xi.ok => Len(xi.buf) = Len(hs.buf) + n
  <2>1. hs \in Fitting(A)
    <3> HIDE DEF first
    <3> QED BY <1>2, PartPut
  <2> HIDE DEF hs
  <2> QED BY <2>1, NumbersLong
<1>7. hs \in Fitting(A) /\ hz \in Fitting(B) /\ After(hs, s) /\ xi \in Fitting(A)
      /\ After(xi, hs)
  <2> HIDE DEF first
  <2>1. hs \in Fitting(A) /\ hz \in Fitting(B) /\ After(hs, s) BY <1>2, PartPut
  <2> HIDE DEF hs, hz
  <2> QED BY <2>1, NumbersIn
<1> HIDE DEF x, y, n, first
<1>8. x = xi /\ xi.ok
  <2>1. ~ Short(s).ok BY AfterAll
  <2> HIDE DEF hs, xi
  <2> QED BY <1>4, <1>5, <2>1
<1>9. hs.ok /\ Len(hs.buf) <= A
  <2>1. hs.ok BY <1>7, <1>8 DEF After
  <2>2. Len(hs.buf) <= A BY <1>7, AfterAll
  <2> QED BY <2>1, <2>2
<1>10. PICK a \in Nat : a = Len(s.buf) BY AfterAll
<1>11. Len(hs.buf) = a + l /\ hs.buf = s.buf \o first BY <1>2, <1>3, <1>9, <1>10, PartPut
<1>12. Len(x.buf) = (a + l) + n BY <1>6, <1>8, <1>11
<1>13. l <= Len(Length(A))
  <2>1. Len(x.buf) <= A
    <3>1. x \in Fitting(A) BY <1>7, <1>8
    <3> QED BY <3>1, AfterAll
  <2>2. n <= A BY <1>1, <1>12, <2>1
  <2> QED BY <1>1, <1>3, <2>2, LengthGrows DEF first
<1>14. (a + l) + n + l <= B
  <2>1. PICK e \in 1 .. 5 : e = Len(Length(A)) BY LengthBytes
  <2>2. (a + l) + n + e <= B BY <1>5, <1>12, <2>1
  <2>3. l <= e BY <1>13, <2>1
  <2> QED BY <1>1, <2>2, <2>3
<1>15. Agree(hs, hz)
  <2>1. PutIn(s, first).ok BY <1>9
  <2>2. Len(PutIn(s, first).buf) <= B BY <1>1, <1>11, <1>14
  <2> QED BY <1>2, <2>1, <2>2, PartSame
<1>16. ~ (hz.room - Len(first) < n)
  <2>1. hz.buf = hs.buf BY <1>15 DEF Agree
  <2>2. Len(hz.buf) + hz.room = B /\ hz.room \in Nat BY <1>7 DEF Fitting
  <2>3. PICK r \in Nat : r = hz.room BY <2>2
  <2>4. (a + l) + r = B BY <1>11, <2>1, <2>2, <2>3
  <2>5. ~ (r - l < n) BY <1>1, <1>14, <2>4
  <2> QED BY <1>3, <2>3, <2>5
<1>17. y = yi
  <2> HIDE DEF hz, yi
  <2> QED BY <1>4, <1>16
<1>18. Agree(xi, yi)
  <2>1. Len(xi.buf) <= B BY <1>1, <1>8, <1>12, <1>14
  <2> HIDE DEF hs, hz
  <2> QED BY <1>7, <1>8, <1>15, <2>1, NumbersSame
<1> QED BY <1>8, <1>17, <1>18 DEF x, y

\* A field of varints does not: a length is no shorter than the number of items
\* that is written for it first.
LEMMA VarintsSame ==
  ASSUME NEW A \in Nat, A < 2^30, NEW B \in Nat, NEW s \in Fitting(A), NEW z \in Fitting(B),
         NEW f, f.ptype \in Numbers, NEW vs, Writables(f, vs), Agree(s, z),
         PatternVarint(s, f, vs).ok, Len(PatternVarint(s, f, vs).buf) <= B
  PROVE  Agree(PatternVarint(s, f, vs), PatternVarint(z, f, vs))
<1> DEFINE first == Length(Len(vs))
           hs == PutIn(s, first)
           hz == PutIn(z, first)
           fs == Items(hs, f, vs)
           fz == Items(hz, f, vs)
           items == SubSeq(fs.buf, Len(hs.buf) + 1, Len(fs.buf))
           itemz == SubSeq(fz.buf, Len(hz.buf) + 1, Len(fz.buf))
           len == Length(Len(items))
           bytes == len \o items
           x == PatternVarint(s, f, vs)
           y == PatternVarint(z, f, vs)
<1>1. first \in Seq(Byte) BY LengthBytes
<1>2. PICK l \in 1 .. 5 : l = Len(first) BY LengthBytes
<1>3. x = (IF ~ fs.ok THEN Short(s) ELSE PutIn(s, bytes))
      /\ y = (IF ~ fz.ok THEN Short(z) ELSE PutIn(z, Length(Len(itemz)) \o itemz))
  BY DEF PatternVarint
<1>4. x.ok /\ Len(x.buf) <= B OBVIOUS
<1>5. hs \in Fitting(A) /\ hz \in Fitting(B) /\ After(hs, s)
  <2> HIDE DEF first
  <2> QED BY <1>1, PartPut
<1>6. fs \in Fitting(A) /\ After(fs, hs)
  <2> HIDE DEF hs
  <2> QED BY <1>5, NumbersIn
<1>7. fs.ok => Len(hs.buf) + Len(vs) <= Len(fs.buf)
  <2> HIDE DEF hs
  <2> QED BY <1>5, NumbersLong
<1>8. fs.ok /\ x = PutIn(s, bytes)
  <2>1. ~ Short(s).ok BY AfterAll
  <2> HIDE DEF x, fs, bytes
  <2> QED BY <1>3, <1>4, <2>1
<1>9. PICK c \in Nat : c = Len(vs)
  <2>1. PICK V : vs \in Seq(V) BY DEF Writables
  <2>2. Len(vs) \in Nat BY <2>1
  <2> QED BY <2>2
<1> HIDE DEF x, y, first
<1>10. PICK a \in Nat : a = Len(s.buf) BY AfterAll
<1>11. hs.ok BY <1>6, <1>8 DEF After
<1>12. Len(hs.buf) = a + l BY <1>1, <1>2, <1>10, <1>11, PartPut
<1>13. PICK u \in Nat : u = Len(fs.buf)
  <2> HIDE DEF fs
  <2> QED BY <1>6, AfterAll
<1>14. (a + l) + c <= u /\ u <= A
  <2>1. Len(fs.buf) <= A
    <3> HIDE DEF fs
    <3> QED BY <1>6, AfterAll
  <2> HIDE DEF hs, fs
  <2> QED BY <1>7, <1>8, <1>9, <1>12, <1>13, <2>1
<1>15. items \in Seq(Byte) /\ Len(items) = u - (a + l)
  <2> HIDE DEF hs, fs
  <2>1. fs.buf \in Seq(Byte) BY <1>6, AfterAll
  <2>2. PICK h \in Nat : h = a + l OBVIOUS
  <2>3. h \in 0 .. u BY <1>9, <1>14, <2>2
  <2>4. h \in 0 .. Len(fs.buf) BY <1>13, <2>3
  <2>5. SubSeq(fs.buf, h + 1, Len(fs.buf)) \in Seq(Byte)
        /\ Len(SubSeq(fs.buf, h + 1, Len(fs.buf))) = Len(fs.buf) - h
    BY <2>1, <2>4, TheRest
  <2>6. h = Len(hs.buf) BY <1>12, <2>2
  <2> QED BY <1>13, <2>2, <2>5, <2>6
<1> HIDE DEF items
<1>16. len \in Seq(Byte) BY LengthBytes
<1>17. PICK e \in 1 .. 5 : e = Len(len) BY LengthBytes
<1>18. l <= e
  <2>1. PICK d \in Nat : d = Len(items) BY <1>9, <1>14, <1>15
  <2>2. c <= d /\ d <= A BY <1>9, <1>14, <1>15, <2>1
  <2>3. d < 2^30
    <3>1. 30 \in Nat OBVIOUS
    <3>2. PICK p \in Nat : p = 2^30 BY <3>1, Subsets
    <3> QED BY <2>2, <3>2
  <2>4. Len(Length(c)) <= Len(Length(d)) BY <2>2, <2>3, LengthGrows
  <2> QED BY <1>2, <1>9, <1>17, <2>1, <2>4 DEF first
<1> HIDE DEF len
<1>19. bytes \in Seq(Byte) /\ Len(bytes) = e + (u - (a + l))
  <2>1. PICK q \in Seq(Byte) : q = len BY <1>16
  <2>2. PICK r \in Seq(Byte) : r = items BY <1>15
  <2>3. q \o r \in Seq(Byte) /\ Len(q \o r) = Len(q) + Len(r) BY Concat
  <2> QED BY <1>15, <1>17, <2>1, <2>2, <2>3
<1> HIDE DEF bytes
<1>20. Len(x.buf) = a + (e + (u - (a + l)))
  <2>1. PutIn(s, bytes).ok BY <1>4, <1>8
  <2>2. Len(PutIn(s, bytes).buf) = Len(s.buf) + Len(bytes) BY <1>19, <2>1, PartPut
  <2> QED BY <1>8, <1>10, <1>19, <2>2
<1>21. u <= B
  <2>1. a + (e + (u - (a + l))) <= B BY <1>4, <1>20
  <2> QED BY <1>18, <2>1
<1>22. Agree(hs, hz)
  <2>1. PutIn(s, first).ok BY <1>11
  <2>2. a + l <= B BY <1>9, <1>14, <1>21
  <2>3. Len(PutIn(s, first).buf) <= B BY <1>12, <2>2
  <2> QED BY <1>1, <2>1, <2>3, PartSame
<1>23. Agree(fs, fz)
  <2>1. Len(fs.buf) <= B BY <1>13, <1>21
  <2>2. fs.ok BY <1>8
  <2> HIDE DEF hs, hz
  <2> QED BY <1>5, <1>22, <2>1, <2>2, NumbersSame
<1>24. fz.ok /\ fz.buf = fs.buf /\ hz.buf = hs.buf BY <1>22, <1>23 DEF Agree
<1>25. y = PutIn(z, bytes)
  <2>1. itemz = items
    <3> HIDE DEF fs, fz, hs, hz
    <3> QED BY <1>24 DEF items
  <2>2. y = PutIn(z, Length(Len(itemz)) \o itemz)
    <3> HIDE DEF fz, itemz
    <3> QED BY <1>3, <1>24
  <2> HIDE DEF itemz
  <2> QED BY <2>1, <2>2 DEF bytes, len
<1>26. Agree(PutIn(s, bytes), PutIn(z, bytes)) BY <1>4, <1>8, <1>19, PartSame
<1> QED BY <1>8, <1>25, <1>26 DEF x, y

\* A packed field of either kind, with that much to spare.
LEMMA PackedSame ==
  ASSUME NEW A \in Nat, A < 2^30, NEW B \in Nat, NEW s \in Fitting(A), NEW z \in Fitting(B),
         NEW f, f.ptype \in Numbers, NEW vs, Writables(f, vs), Agree(s, z),
         PatternPacked(s, f, vs).ok,
         Len(PatternPacked(s, f, vs).buf) + Len(Length(A)) <= B
  PROVE  Agree(PatternPacked(s, f, vs), PatternPacked(z, f, vs))
<1> DEFINE tag == Tag(f, LEND)
           hs == PutIn(s, tag)
           hz == PutIn(z, tag)
           x == PatternPacked(s, f, vs)
           y == PatternPacked(z, f, vs)
           w == Width(f.ptype)
<1>1. tag \in Seq(Byte) BY TagBytes
<1>2. hs \in Fitting(A) /\ hz \in Fitting(B)
  <2> HIDE DEF tag
  <2> QED BY <1>1, PartPut
<1>3. x.ok /\ Len(x.buf) + Len(Length(A)) <= B OBVIOUS
<1>4. x \in Fitting(A) BY PackedIn
<1>5. Len(x.buf) <= B
  <2> HIDE DEF x
  <2>1. PICK a \in Nat : a = Len(x.buf) BY <1>4, AfterAll
  <2>2. PICK e \in 1 .. 5 : e = Len(Length(A)) BY LengthBytes
  <2>3. a + e <= B BY <1>3, <2>1, <2>2
  <2>4. a <= B BY <2>3
  <2> QED BY <2>1, <2>4
<1>6. CASE vs = <<>>
  <2>1. x = s /\ y = z BY <1>6 DEF PatternPacked
  <2> HIDE DEF x, y
  <2> QED BY <2>1 DEF x, y
<1>7. CASE vs # <<>> /\ WireType(f.ptype) \in {BIT64, BIT32}
  <2>1. x = PackPackedFixed(hs, f, vs, w) /\ y = PackPackedFixed(hz, f, vs, w)
    BY <1>7 DEF PatternPacked, Width
  <2> HIDE DEF x, y, w, tag
  <2>2. After(x, hs)
    <3> HIDE DEF hs
    <3> QED BY <1>2, <2>1, FixedIn
  <2>3. hs.ok /\ Len(hs.buf) <= B
    <3> HIDE DEF hs
    <3> QED BY <1>2, <1>3, <1>4, <1>5, <2>2, Earlier
  <2>4. Agree(hs, hz) BY <1>1, <2>3, PartSame
  <2> HIDE DEF hs, hz
  <2>5. Agree(x, y)
    <3>1. PackPackedFixed(hs, f, vs, w).ok
          /\ Len(PackPackedFixed(hs, f, vs, w).buf) + Len(Length(A)) <= B
      BY <1>3, <2>1
    <3>2. Agree(PackPackedFixed(hs, f, vs, w), PackPackedFixed(hz, f, vs, w))
      BY <1>2, <1>7, <2>4, <3>1, FixedSame DEF w
    <3> QED BY <2>1, <3>2
  <2> QED BY <2>5 DEF x, y
<1>8. CASE vs # <<>> /\ WireType(f.ptype) \notin {BIT64, BIT32}
  <2>1. x = PatternVarint(hs, f, vs) /\ y = PatternVarint(hz, f, vs)
    BY <1>8 DEF PatternPacked
  <2> HIDE DEF x, y, w, tag
  <2>2. After(x, hs)
    <3> HIDE DEF hs
    <3> QED BY <1>2, <2>1, VarintsIn
  <2>3. hs.ok /\ Len(hs.buf) <= B
    <3> HIDE DEF hs
    <3> QED BY <1>2, <1>3, <1>4, <1>5, <2>2, Earlier
  <2>4. Agree(hs, hz) BY <1>1, <2>3, PartSame
  <2> HIDE DEF hs, hz
  <2>5. Agree(x, y)
    <3>1. PatternVarint(hs, f, vs).ok /\ Len(PatternVarint(hs, f, vs).buf) <= B
      BY <1>3, <1>5, <2>1
    <3>2. Agree(PatternVarint(hs, f, vs), PatternVarint(hz, f, vs))
      BY <1>2, <2>4, <3>1, VarintsSame
    <3> QED BY <2>1, <3>2
  <2> QED BY <2>5 DEF x, y
<1> QED BY <1>6, <1>7, <1>8

-----------------------------------------------------------------------------
\* A buffer that has a few bytes to spare over what a larger one holds.

\* What is left of a slice when something has been written behind it.
LEMMA Spared ==
  ASSUME NEW A \in Nat, NEW x \in Fitting(A), NEW y \in Fitting(A), After(y, x), y.ok,
         NEW B \in Nat, Len(y.buf) + Len(Length(A)) <= B
  PROVE  x.ok /\ Len(x.buf) + Len(Length(A)) <= B /\ Len(y.buf) <= B
<1>1. PICK a \in Nat : a = Len(x.buf) BY AfterAll
<1>2. PICK b \in Nat : b = Len(y.buf) BY AfterAll
<1>3. PICK e \in 1 .. 5 : e = Len(Length(A)) BY LengthBytes
<1>4. a <= b BY <1>1, <1>2 DEF After
<1>5. b + e <= B BY <1>2, <1>3
<1>6. a + e <= B /\ b <= B BY <1>4, <1>5
<1> QED BY <1>1, <1>2, <1>3, <1>6 DEF After

\* One key of a pattern fits into it too.
LEMMA KeySame ==
  ASSUME NEW A \in Nat, A < 2^30, NEW B \in Nat, NEW s \in Fitting(A), NEW z \in Fitting(B),
         NEW key \in Key, NEW c, NEW v, Fits(key, v), Agree(s, z),
         PackKey(s, Field[key], c, v).ok,
         Len(PackKey(s, Field[key], c, v).buf) + Len(Length(A)) <= B
  PROVE  Agree(PackKey(s, Field[key], c, v), PackKey(z, Field[key], c, v))
<1> DEFINE f == Field[key]
           x == PackKey(s, f, c, v)
           y == PackKey(z, f, c, v)
           skip == f.label = "optional" /\ PatternDefault(f, c, v)
<1>1. f.ptype \in PTypes /\ (f.label = "packed" => f.ptype \in Numbers)
  <2>1. f.ptype \in PTypes /\ (f.label = "packed" => f.ptype \notin {"string", "bytes", "message"})
    BY FieldAssumption
  <2> QED BY <2>1 DEF Numbers
<1>2. x \in Fitting(A) BY KeyIn
<1>3. x.ok /\ Len(x.buf) + Len(Length(A)) <= B OBVIOUS
<1>4. Len(x.buf) <= B
  <2> HIDE DEF x
  <2>1. After(x, x) BY <1>2, AfterAll
  <2> QED BY <1>2, <1>3, <2>1, Spared
<1>5. s.ok /\ z.ok
  <2>1. After(x, s) BY KeyIn
  <2> HIDE DEF x
  <2> QED BY <1>3, <2>1 DEF After, Agree
<1>6. CASE skip
  <2>1. x = s /\ y = z BY <1>6 DEF PackKey
  <2> HIDE DEF x, y
  <2> QED BY <2>1 DEF x, y
<1>7. CASE ~ skip /\ f.label = "repeated"
  <2>1. x = PackRepeated(s, f, v) /\ y = PackRepeated(z, f, v) BY <1>5, <1>7 DEF PackKey
  <2>2. Writables(f, v) BY <1>7 DEF Fits, IsList
  <2> HIDE DEF x, y, f, skip
  <2>3. Agree(x, y) BY <1>1, <1>3, <1>4, <2>1, <2>2, RepeatedSame
  <2> QED BY <2>3 DEF x, y, f
<1>8. CASE ~ skip /\ f.label = "packed"
  <2>1. x = PatternPacked(s, f, v) /\ y = PatternPacked(z, f, v) BY <1>5, <1>8 DEF PackKey
  <2>2. Writables(f, v) BY <1>8 DEF Fits, IsList
  <2>3. f.ptype \in Numbers BY <1>1, <1>8
  <2> HIDE DEF x, y, f, skip
  <2>4. Agree(x, y) BY <1>3, <2>1, <2>2, <2>3, PackedSame
  <2> QED BY <2>4 DEF x, y, f
<1>9. CASE ~ skip /\ f.label \notin {"repeated", "packed"}
  <2>1. x = PackField(s, f, v) /\ y = PackField(z, f, v) BY <1>5, <1>9 DEF PackKey
  <2>2. Writable(f, v) BY <1>9 DEF Fits, IsList
  <2> HIDE DEF x, y, f, skip
  <2>3. Agree(x, y) BY <1>1, <1>3, <1>4, <2>1, <2>2, FieldSame
  <2> QED BY <2>3 DEF x, y, f
<1> QED BY <1>6, <1>7, <1>8, <1>9

\* So does a whole pattern, key by key.
LEMMA PatternSame ==
  ASSUME NEW p, DOMAIN p \subseteq Key, NEW d, \A key \in DOMAIN p : Fits(key, d[key]),
         NEW A \in Nat, A < 2^30, NEW B \in Nat, PatternPack(p, d, A).ok,
         Len(PatternPack(p, d, A).buf) + Len(Length(A)) <= B
  PROVE  PatternPack(p, d, B).ok
<1> DEFINE K == DOMAIN p
<1>1. K \in SUBSET Key OBVIOUS
<1>2. PICK f : Keyed(f, p, d, K, Slice(A)) /\ PatternPack(p, d, A) = f[K] BY KeysFold
<1>3. PICK g : Keyed(g, p, d, K, Slice(B)) /\ PatternPack(p, d, B) = g[K] BY KeysFold
<1>4. f[K].ok /\ Len(f[K].buf) + Len(Length(A)) <= B BY <1>2
<1>5. \A key \in K : Fits(key, d[key]) OBVIOUS
<1> HIDE DEF K
<1>6. \A s \in SUBSET K : f[s] = AddKey(f, p, d, s, Slice(A)) BY <1>2 DEF Keyed
<1>7. \A s \in SUBSET K : g[s] = AddKey(g, p, d, s, Slice(B)) BY <1>3 DEF Keyed
<1>8. \A s \in SUBSET K : f[s] \in Fitting(A) BY <1>1, <1>2, <1>5, KeyedIn
<1>9. \A s \in SUBSET K : g[s] \in Fitting(B) BY <1>1, <1>3, <1>5, KeyedIn
<1> DEFINE T == {s \in SUBSET K :
                   f[s].ok /\ Len(f[s].buf) + Len(Length(A)) <= B => Agree(f[s], g[s])}
<1>10. {} \in T
  <2>1. f[{}] = Slice(A) /\ g[{}] = Slice(B) BY <1>6, <1>7 DEF AddKey
  <2>2. Slice(A).buf = <<>> /\ Slice(B).ok /\ Slice(B).buf = <<>> BY Begun
  <2> QED BY <2>1, <2>2 DEF Agree
<1>11. ASSUME NEW s \in SUBSET K, s # {}, s \ {Highest(s)} \in T PROVE s \in T
  <2> DEFINE h == Highest(s)
             r == s \ {h}
  <2>1. h \in s BY <1>1, <1>11, HighestIs
  <2>2. /\ f[s] = PackKey(f[r], Field[h], p[h], d[h])
        /\ g[s] = PackKey(g[r], Field[h], p[h], d[h])
    BY <1>6, <1>7, <1>11 DEF AddKey
  <2>3. r \in SUBSET K /\ h \in Key /\ Fits(h, d[h]) BY <1>1, <1>5, <2>1
  <2>4. f[r] \in Fitting(A) /\ g[r] \in Fitting(B) BY <1>8, <1>9, <2>3
  <2>5. f[r].ok /\ Len(f[r].buf) + Len(Length(A)) <= B => Agree(f[r], g[r]) BY <1>11
  <2> HIDE DEF h, r
  <2>6. ASSUME f[s].ok, Len(f[s].buf) + Len(Length(A)) <= B PROVE Agree(f[s], g[s])
    <3>1. f[s] \in Fitting(A) /\ After(f[s], f[r]) BY <2>2, <2>3, <2>4, KeyIn
    <3>2. f[r].ok /\ Len(f[r].buf) + Len(Length(A)) <= B BY <2>4, <2>6, <3>1, Spared
    <3>3. Agree(f[r], g[r]) BY <2>5, <3>2
    <3>4. PackKey(f[r], Field[h], p[h], d[h]).ok
          /\ Len(PackKey(f[r], Field[h], p[h], d[h]).buf) + Len(Length(A)) <= B
      BY <2>2, <2>6
    <3> QED BY <2>2, <2>3, <2>4, <3>3, <3>4, KeySame
  <2> QED BY <2>6
<1>12. \A s \in SUBSET K : s \in T
  <2> HIDE DEF T
  <2> QED BY <1>1, <1>10, <1>11, KeysUp
<1>13. Agree(f[K], g[K]) BY <1>4, <1>12
<1> QED BY <1>3, <1>13 DEF Agree

-----------------------------------------------------------------------------
\* The codec.  The heap is safe, of every message it is known what was said,
\* and a pattern that packs has variables that its keys can take.
SaidOf(n) == \E S : said \in [1 .. n -> S]
MessagesOK == \E n \in Nat \ {0} : m \in Heaps(n) /\ SaidOf(n) /\ (phase = "pack" => n = 1)
PatternOK ==
  /\ DOMAIN pat \subseteq Key /\ (\E S : data \in [DOMAIN pat -> S]) /\ cap \in Nat
  /\ \A key \in DOMAIN pat :
       /\ pat[key] \in CType /\ CheckCtype(Field[key], pat[key])
       /\ Holds(key, data[key])
OutputOK ==
  /\ phase \in {"write", "pack", "failed", "read"}
  /\ out \in Seq(Byte) /\ seen \subseteq Key
CodecInv == MessagesOK /\ PatternOK /\ OutputOK

\* A size is tried after half of it has been too short.
Tried == cap > BufSize => \E half \in Nat : cap = half * 2 /\ ~ Packed(half).ok

\* What pack would write, on a buffer of any size.
LEMMA PackedFits ==
  ASSUME PatternOK, NEW size \in Nat
  PROVE  Packed(size) \in Fitting(size)
<1> DEFINE d == [key \in DOMAIN pat |-> Variable(Field[key], pat[key], data[key])]
<1>1. DOMAIN pat \subseteq Key BY DEF PatternOK
<1>2. \A key \in DOMAIN pat : Fits(key, d[key])
  <2> TAKE key \in DOMAIN pat
  <2>1. /\ key \in Key /\ pat[key] \in CType /\ CheckCtype(Field[key], pat[key])
        /\ Holds(key, data[key])
    BY DEF PatternOK
  <2> QED BY <2>1, VariableFits
<1>3. Packed(size) = PatternPack(pat, d, size) BY DEF Packed
<1> HIDE DEF d
<1> QED BY <1>1, <1>2, <1>3, PatternIn

\* That is enough to stay inside.
LEMMA CodecStays ==
  ASSUME CodecInv
  PROVE  StaysInside
<1>1. PICK n \in Nat \ {0} : m \in Heaps(n) /\ SaidOf(n) BY DEF CodecInv, MessagesOK
<1>2. m \in [1 .. n -> Safe] /\ \A k \in 1 .. n : \A i \in DOMAIN m[k].sub :
                                  m[k].sub[i].msg \in k + 1 .. n
  BY <1>1 DEF Heaps
<1>3. DOMAIN m = 1 .. n /\ Len(m) = n BY <1>2, LenOf
<1>4. DOMAIN said = DOMAIN m BY <1>1, <1>3 DEF SaidOf
<1>5. ASSUME NEW k \in DOMAIN m
      PROVE  /\ m[k].type \in Type /\ m[k].buf \in Seq(Byte) /\ m[k].cap \in Nat
             /\ DOMAIN m[k].packed = PackedKeys
             /\ \A i \in DOMAIN m[k].sub : m[k].sub[i].msg \in (k + 1) .. Len(m)
             /\ ~ m[k].over
  BY <1>2, <1>3, <1>5 DEF Safe, Message, Keeps
<1>6. TypeOK BY <1>4, <1>5 DEF TypeOK, CodecInv, OutputOK
<1>7. Len(Packed(cap).buf) <= cap
  <2>1. cap \in Nat BY DEF CodecInv, PatternOK
  <2>2. Packed(cap) \in Fitting(cap) BY <2>1, PackedFits DEF CodecInv
  <2> QED BY <2>1, <2>2, AfterAll
<1> QED BY <1>5, <1>6, <1>7 DEF StaysInside

\* At first there is no pattern.
LEMMA NoPattern ==
  ASSUME pat = <<>>, data = <<>>, cap = BufSize
  PROVE  PatternOK /\ Tried
<1>1. DOMAIN pat = {} OBVIOUS
<1>2. data \in [{} -> {}] OBVIOUS
<1>3. \E S : data \in [DOMAIN pat -> S] BY <1>1, <1>2
<1>4. cap \in Nat /\ ~ (cap > BufSize) BY PatternAssumption
<1> QED BY <1>1, <1>3, <1>4 DEF PatternOK, Tried

\* Nor is there one after a delete.
LEMMA NoPatternNext ==
  ASSUME pat' = <<>>, data' = <<>>, cap' = BufSize
  PROVE  PatternOK' /\ Tried'
<1>1. DOMAIN pat' = {} OBVIOUS
<1>2. data' \in [{} -> {}] OBVIOUS
<1>3. \E S : data' \in [DOMAIN pat' -> S] BY <1>1, <1>2
<1>4. cap' \in Nat /\ ~ (cap' > BufSize) BY PatternAssumption
<1> QED BY <1>1, <1>3, <1>4 DEF PatternOK, Tried

\* The first message is empty.
LEMMA CodecInit == PatternInit => CodecInv
<1> SUFFICES ASSUME PatternInit PROVE CodecInv OBVIOUS
<1>1. m = <<NewMessage(Root)>> /\ said = <<Nothing>> /\ phase = "write" /\ out = <<>>
      /\ seen = {} /\ pat = <<>> /\ data = <<>> /\ cap = BufSize
  BY DEF PatternInit, Init
<1>2. MessagesOK
  <2>1. m \in Heaps(1)
    <3>1. Root \in Type BY MessageAssumption
    <3> QED BY <1>1, <3>1, OneMessage
  <2>2. said \in [1 .. 1 -> {Nothing}] BY <1>1
  <2>3. SaidOf(1) BY <2>2 DEF SaidOf
  <2>4. 1 \in Nat \ {0} OBVIOUS
  <2> QED BY <1>1, <2>1, <2>3, <2>4 DEF MessagesOK
<1>3. PatternOK BY <1>1, NoPattern
<1>4. OutputOK BY <1>1 DEF OutputOK
<1> QED BY <1>2, <1>3, <1>4 DEF CodecInv

\* The pattern and its variables, whatever happens to the messages.
LEMMA PatternKeeps ==
  ASSUME PatternOK, [Next]_vars
  PROVE  PatternOK'
<1>1. CASE UNCHANGED <<pat, data, cap>> BY <1>1 DEF PatternOK
<1>2. CASE DeleteAll BY <1>2, NoPatternNext DEF DeleteAll
<1>3. CASE NewPattern
  <2>1. PICK p \in Patterns :
          /\ Accepts(p) /\ pat' = p
          /\ data' = [key \in DOMAIN p |-> NoValue(Field[key])] /\ cap' = BufSize
    BY <1>3 DEF NewPattern
  <2>2. DOMAIN p \subseteq Key /\ \A key \in DOMAIN p : p[key] \in CType
    BY PatternAssumption
  <2>3. \A key \in DOMAIN p : CheckCtype(Field[key], p[key]) BY <2>1 DEF Accepts
  <2>4. \A key \in DOMAIN p : Holds(key, data'[key]) BY <2>1, <2>2, NothingHolds
  <2>5. data' \in [DOMAIN p -> {NoValue(Field[key]) : key \in DOMAIN p}] BY <2>1
  <2>6. \E S : data' \in [DOMAIN p -> S] BY <2>5
  <2>7. cap' \in Nat BY <2>1, PatternAssumption
  <2> QED BY <2>1, <2>2, <2>3, <2>4, <2>6, <2>7 DEF PatternOK
<1>4. CASE Argument
  <2>1. PICK key \in DOMAIN pat : \E vs \in Values[key] :
          ~ Invalid(key, vs) /\ data' = [data EXCEPT ![key] = vs] /\ UNCHANGED <<pat, cap>>
    BY <1>4 DEF Argument
  <2>2. PICK vs \in Values[key] :
          ~ Invalid(key, vs) /\ data' = [data EXCEPT ![key] = vs] /\ UNCHANGED <<pat, cap>>
    BY <2>1
  <2>3. key \in Key BY <2>1 DEF PatternOK
  <2>4. Holds(key, vs) BY <2>2, <2>3, Arguments
  <2>5. PICK S : data \in [DOMAIN pat -> S] BY DEF PatternOK
  <2>6. data' \in [DOMAIN pat -> S \cup {vs}] BY <2>2, <2>5
  <2>7. \E U : data' \in [DOMAIN pat -> U] BY <2>6
  <2>8. \A l \in DOMAIN pat : Holds(l, data'[l])
    <3>1. \A l \in DOMAIN pat : data'[l] = IF l = key THEN vs ELSE data[l] BY <2>2, <2>5
    <3>2. \A l \in DOMAIN pat : Holds(l, data[l]) BY DEF PatternOK
    <3> QED BY <2>4, <3>1, <3>2
  <2> QED BY <2>2, <2>7, <2>8 DEF PatternOK
<1>5. CASE PackAgain
  <2>1. cap' = cap * 2 /\ UNCHANGED <<pat, data>> BY <1>5 DEF PackAgain
  <2>2. cap' \in Nat BY <2>1 DEF PatternOK
  <2> QED BY <2>1, <2>2 DEF PatternOK
<1>6. CASE PackDone
  <2>1. UNCHANGED <<pat, data, cap>> BY <1>6 DEF PackDone
  <2> QED BY <1>1, <2>1
<1>7. CASE UNCHANGED vars
  <2>1. UNCHANGED <<pat, data, cap>> BY <1>7 DEF vars
  <2> QED BY <1>1, <2>1
<1> QED BY <1>1, <1>2, <1>3, <1>4, <1>5, <1>6, <1>7 DEF Next

\* The actions that write a message leave the pattern alone.
LEMMA ValueKeeps ==
  ASSUME CodecInv, EncodeValue, UNCHANGED <<pat, data, cap>>
  PROVE  MessagesOK' /\ OutputOK'
<1>1. PICK n \in Nat \ {0} : m \in Heaps(n) /\ SaidOf(n) /\ (phase = "pack" => n = 1)
  BY DEF CodecInv, MessagesOK
<1>2. PICK k \in DOMAIN m, key \in Key : \E vs \in Values[key] :
        /\ Field[key].ptype # "message" /\ ~ Invalid(key, vs)
        /\ m' = [m EXCEPT ![k] = WriteAll(@, key, vs)]
        /\ said' = [said EXCEPT ![k][key] = vs]
        /\ UNCHANGED <<phase, out, seen>>
  BY DEF EncodeValue
<1>3. PICK vs \in Values[key] :
        /\ Field[key].ptype # "message" /\ ~ Invalid(key, vs)
        /\ m' = [m EXCEPT ![k] = WriteAll(@, key, vs)]
        /\ said' = [said EXCEPT ![k][key] = vs]
        /\ UNCHANGED <<phase, out, seen>>
  BY <1>2
<1>4. m \in [1 .. n -> Safe] BY <1>1 DEF Heaps
<1>5. k \in 1 .. n /\ m[k] \in Safe BY <1>2, <1>4
<1> DEFINE w == WriteAll(m[k], key, vs)
<1>6. vs \in Seq(Given(key)) BY <1>3, Arguments DEF Holds
<1>7. w \in Safe /\ Like(w, m[k]) BY <1>3, <1>5, <1>6, ValuesWritten
<1>8. m' = [m EXCEPT ![k] = w] BY <1>3, <1>4, <1>5
<1> HIDE DEF w
<1>9. m' \in Heaps(n) BY <1>1, <1>5, <1>7, <1>8, OneChanged
<1>10. SaidOf(n)'
  <2>1. PICK S : said \in [1 .. n -> S] BY <1>1 DEF SaidOf
  <2> DEFINE x == [said[k] EXCEPT ![key] = vs]
  <2>2. said' = [said EXCEPT ![k] = x] BY <1>3, <1>5, <2>1
  <2> HIDE DEF x
  <2>3. said' \in [1 .. n -> S \cup {x}] BY <1>5, <2>1, <2>2
  <2> QED BY <2>3 DEF SaidOf
<1>11. MessagesOK' BY <1>1, <1>3, <1>9, <1>10 DEF MessagesOK
<1>12. OutputOK' BY <1>3 DEF CodecInv, OutputOK
<1> QED BY <1>11, <1>12

\* An error leaves the messages as they are.
LEMMA ErrorKeeps ==
  ASSUME CodecInv, EncodeError, UNCHANGED <<pat, data, cap>>
  PROVE  MessagesOK' /\ OutputOK'
<1>1. phase' = "failed" /\ UNCHANGED <<m, said, out, seen>> BY DEF EncodeError
<1>2. MessagesOK' BY <1>1 DEF CodecInv, MessagesOK, SaidOf
<1>3. OutputOK' BY <1>1 DEF CodecInv, OutputOK
<1> QED BY <1>2, <1>3

\* A sub-message is one more message of the heap.
LEMMA MessageKeeps ==
  ASSUME CodecInv, EncodeMessage, UNCHANGED <<pat, data, cap>>
  PROVE  MessagesOK' /\ OutputOK'
<1>1. PICK n \in Nat \ {0} : m \in Heaps(n) /\ SaidOf(n) /\ (phase = "pack" => n = 1)
  BY DEF CodecInv, MessagesOK
<1>2. PICK k \in DOMAIN m, key \in Key :
        /\ phase = "write" /\ Field[key].ptype = "message"
        /\ m' = Append([m EXCEPT ![k].sub =
                          Append(@, [msg |-> Len(m) + 1, key |-> key])],
                       NewMessage(Field[key].sub))
        /\ said' = Append([said EXCEPT ![k][key] = Append(@, Len(m) + 1)], Nothing)
        /\ UNCHANGED <<phase, out, seen>>
  BY DEF EncodeMessage
<1>3. m \in [1 .. n -> Safe] BY <1>1 DEF Heaps
<1>4. k \in 1 .. n /\ Len(m) = n BY <1>2, <1>3, LenOf
<1>5. Field[key].sub \in Type BY <1>2, MessageAssumption
<1>6. m' \in Heaps(n + 1)
  <2>1. m' = Append([m EXCEPT ![k].sub = Append(@, [msg |-> n + 1, key |-> key])],
                    NewMessage(Field[key].sub))
    BY <1>2, <1>4
  <2> QED BY <1>1, <1>4, <1>5, <2>1, OneAdded
<1>7. SaidOf(n + 1)'
  <2>1. PICK S : said \in [1 .. n -> S] BY <1>1 DEF SaidOf
  <2> DEFINE x == [said[k] EXCEPT ![key] = Append(@, Len(m) + 1)]
             mid == [said EXCEPT ![k] = x]
             U == S \cup {x, Nothing}
  <2>2. said' = Append(mid, Nothing) BY <1>2, <1>4, <2>1
  <2> HIDE DEF x
  <2>3. mid \in [1 .. n -> U] BY <1>4, <2>1
  <2>4. Nothing \in U OBVIOUS
  <2> HIDE DEF mid, U
  <2>5. mid \in Seq(U) /\ Len(mid) = n BY <2>3, LenOf
  <2>6. said' \in Seq(U) /\ Len(said') = n + 1 BY <2>2, <2>4, <2>5
  <2>7. said' \in [1 .. n + 1 -> U] BY <2>6
  <2> QED BY <2>7 DEF SaidOf
<1>8. n + 1 \in Nat \ {0} OBVIOUS
<1>9. MessagesOK' BY <1>2, <1>6, <1>7, <1>8 DEF MessagesOK
<1>10. OutputOK' BY <1>2 DEF CodecInv, OutputOK
<1> QED BY <1>9, <1>10

\* A flush puts every message's fields and sub-messages at its end.
LEMMA BufferKeeps ==
  ASSUME NoPackedWords, CodecInv, Buffer, UNCHANGED <<pat, data, cap>>
  PROVE  MessagesOK' /\ OutputOK'
<1>1. PICK n \in Nat \ {0} : m \in Heaps(n) /\ SaidOf(n) /\ (phase = "pack" => n = 1)
  BY DEF CodecInv, MessagesOK
<1>2. PICK order \in Orders, keys \in Readers :
        /\ m' = Flush(order) /\ phase' = "read" /\ out' = m'[1].buf /\ seen' = keys
        /\ UNCHANGED said
  BY DEF Buffer
<1>3. m \in [1 .. n -> Safe] BY <1>1 DEF Heaps
<1>4. Len(m) = n BY <1>3, LenOf
<1>5. m' \in Heaps(n)
  <2>1. m \in Heaps(Len(m)) /\ Len(m) \in Nat BY <1>1, <1>4
  <2>2. Flush(order) \in Heaps(Len(m)) BY <2>1, Flushed
  <2> QED BY <1>2, <1>4, <2>2
<1>6. m'[1] \in Safe
  <2>1. m' \in [1 .. n -> Safe] BY <1>5 DEF Heaps
  <2>2. 1 \in 1 .. n OBVIOUS
  <2> QED BY <2>1, <2>2
<1>7. out' \in Seq(Byte) BY <1>2, <1>6 DEF Safe, Message
<1>8. seen' \subseteq Key BY <1>2, MessageAssumption
<1>9. SaidOf(n)' BY <1>1, <1>2 DEF SaidOf
<1>10. MessagesOK' BY <1>2, <1>5, <1>9 DEF MessagesOK
<1>11. OutputOK' BY <1>2, <1>7, <1>8 DEF OutputOK
<1> QED BY <1>10, <1>11

\* The next encode begins like the first.
LEMMA DeleteKeeps ==
  ASSUME DeleteAll
  PROVE  MessagesOK' /\ OutputOK'
<1>1. m' = <<NewMessage(Root)>> /\ said' = <<Nothing>> /\ phase' = "write" /\ out' = <<>>
      /\ seen' = {}
  BY DEF DeleteAll, Delete
<1>2. MessagesOK'
  <2>1. m' \in Heaps(1)
    <3>1. Root \in Type BY MessageAssumption
    <3> QED BY <1>1, <3>1, OneMessage
  <2>2. said' \in [1 .. 1 -> {Nothing}] BY <1>1
  <2>3. SaidOf(1)' BY <2>2 DEF SaidOf
  <2>4. 1 \in Nat \ {0} OBVIOUS
  <2> QED BY <1>1, <2>1, <2>3, <2>4 DEF MessagesOK
<1>3. OutputOK' BY <1>1 DEF OutputOK
<1> QED BY <1>2, <1>3

\* A pattern that packs.
LEMMA NewPatternKeeps ==
  ASSUME CodecInv, NewPattern
  PROVE  MessagesOK' /\ OutputOK'
<1>1. PICK n \in Nat \ {0} : m \in Heaps(n) /\ SaidOf(n) /\ (phase = "pack" => n = 1)
  BY DEF CodecInv, MessagesOK
<1>2. PICK p \in Patterns :
        /\ Len(m) = 1 /\ Accepts(p) /\ pat' = p
        /\ data' = [key \in DOMAIN p |-> NoValue(Field[key])]
        /\ cap' = BufSize /\ phase' = "pack" /\ UNCHANGED <<m, said, out, seen>>
  BY DEF NewPattern
<1>3. n = 1
  <2>1. m \in [1 .. n -> Safe] BY <1>1 DEF Heaps
  <2>2. Len(m) = n BY <2>1, LenOf
  <2> QED BY <1>2, <2>2
<1>4. MessagesOK' BY <1>1, <1>2, <1>3 DEF MessagesOK, SaidOf
<1>5. OutputOK' BY <1>2 DEF CodecInv, OutputOK
<1> QED BY <1>4, <1>5

\* A variable is set, a size is tried,
LEMMA ArgumentKeeps ==
  ASSUME CodecInv, Argument
  PROVE  MessagesOK' /\ OutputOK'
<1>1. PICK key \in DOMAIN pat : \E vs \in Values[key] :
        /\ ~ Invalid(key, vs) /\ data' = [data EXCEPT ![key] = vs]
        /\ UNCHANGED <<m, said, phase, out, seen, pat, cap>>
  BY DEF Argument
<1>2. PICK vs \in Values[key] :
        /\ ~ Invalid(key, vs) /\ data' = [data EXCEPT ![key] = vs]
        /\ UNCHANGED <<m, said, phase, out, seen, pat, cap>>
  BY <1>1
<1>3. MessagesOK' BY <1>2 DEF CodecInv, MessagesOK, SaidOf
<1>4. OutputOK' BY <1>2 DEF CodecInv, OutputOK
<1> QED BY <1>3, <1>4

\* a larger one is asked for,
LEMMA AgainKeeps ==
  ASSUME CodecInv, PackAgain
  PROVE  MessagesOK' /\ OutputOK'
<1>1. cap' = cap * 2 /\ UNCHANGED <<m, said, phase, out, seen, pat, data>> BY DEF PackAgain
<1>2. MessagesOK' BY <1>1 DEF CodecInv, MessagesOK, SaidOf
<1>3. OutputOK' BY <1>1 DEF CodecInv, OutputOK
<1> QED BY <1>2, <1>3

\* and what has been packed is handed to the reader.
LEMMA DoneKeeps ==
  ASSUME CodecInv, PackDone
  PROVE  MessagesOK' /\ OutputOK'
<1> DEFINE e == [key \in Key |-> IF key \in DOMAIN pat /\ Field[key].ptype # "message"
                                 THEN data[key] ELSE <<>>]
<1>1. PICK keys \in Readers :
        /\ phase = "pack" /\ out' = Packed(cap).buf /\ said' = <<e>> /\ phase' = "read"
        /\ seen' = keys /\ UNCHANGED <<m, pat, data, cap>>
  BY DEF PackDone
<1> HIDE DEF e
<1>2. m \in Heaps(1) BY <1>1 DEF CodecInv, MessagesOK
<1>3. said' \in [1 .. 1 -> {e}] BY <1>1
<1>4. SaidOf(1)' BY <1>3 DEF SaidOf
<1>5. 1 \in Nat \ {0} OBVIOUS
<1>6. MessagesOK' BY <1>1, <1>2, <1>4, <1>5 DEF MessagesOK
<1>7. OutputOK'
  <2>1. cap \in Nat BY DEF CodecInv, PatternOK
  <2>2. Packed(cap) \in Fitting(cap) BY <2>1, PackedFits DEF CodecInv
  <2>3. out' \in Seq(Byte) BY <1>1, <2>1, <2>2, AfterAll
  <2>4. seen' \subseteq Key BY <1>1, MessageAssumption
  <2> QED BY <1>1, <2>3, <2>4 DEF OutputOK
<1> QED BY <1>6, <1>7

\* Every step of the codec.
LEMMA CodecSteps ==
  ASSUME NoPackedWords, CodecInv, [Next]_vars
  PROVE  CodecInv'
<1>1. PatternOK' BY PatternKeeps DEF CodecInv
<1>2. CASE EncodeValue /\ UNCHANGED <<pat, data, cap>> BY <1>1, <1>2, ValueKeeps DEF CodecInv
<1>3. CASE EncodeError /\ UNCHANGED <<pat, data, cap>> BY <1>1, <1>3, ErrorKeeps DEF CodecInv
<1>4. CASE EncodeMessage /\ UNCHANGED <<pat, data, cap>>
  BY <1>1, <1>4, MessageKeeps DEF CodecInv
<1>5. CASE Buffer /\ UNCHANGED <<pat, data, cap>> BY <1>1, <1>5, BufferKeeps DEF CodecInv
<1>6. CASE DeleteAll BY <1>1, <1>6, DeleteKeeps DEF CodecInv
<1>7. CASE NewPattern BY <1>1, <1>7, NewPatternKeeps DEF CodecInv
<1>8. CASE Argument BY <1>1, <1>8, ArgumentKeeps DEF CodecInv
<1>9. CASE PackAgain BY <1>1, <1>9, AgainKeeps DEF CodecInv
<1>10. CASE PackDone BY <1>1, <1>10, DoneKeeps DEF CodecInv
<1>11. CASE UNCHANGED vars
  <2>1. UNCHANGED <<m, said, phase, out, seen>> BY <1>11 DEF vars
  <2> QED BY <1>1, <2>1 DEF CodecInv, MessagesOK, SaidOf, OutputOK
<1> QED BY <1>2, <1>3, <1>4, <1>5, <1>6, <1>7, <1>8, <1>9, <1>10, <1>11 DEF Next

\* Whatever is written, in whatever order, no message of an encode writes
\* beyond its memory and no pattern beyond its buffer, as long as no field of
\* a message is a packed one of 32-bit items.
THEOREM WritersStayInside ==
  ASSUME NoPackedWords
  PROVE  Spec => []StaysInside
<1>1. PatternInit => CodecInv BY CodecInit
<1>2. CodecInv /\ [Next]_vars => CodecInv' BY CodecSteps
<1>3. CodecInv => StaysInside BY CodecStays
<1> QED BY <1>1, <1>2, <1>3, PTL DEF Spec

-----------------------------------------------------------------------------
\* The retries of pack.

\* A size is tried only after half of it.
LEMMA TriedKeeps ==
  ASSUME PatternOK, Tried, [Next]_vars
  PROVE  Tried'
<1>1. ASSUME UNCHANGED <<pat, data, cap>> PROVE Tried' BY <1>1 DEF Tried, Packed
<1>2. CASE DeleteAll BY <1>2, NoPatternNext DEF DeleteAll
<1>3. ASSUME cap' = BufSize PROVE Tried'
  <2>1. ~ (cap' > BufSize) BY <1>3, PatternAssumption
  <2> QED BY <2>1 DEF Tried
<1>4. CASE NewPattern
  <2>1. cap' = BufSize BY <1>4 DEF NewPattern
  <2> QED BY <1>3, <2>1
<1>5. CASE Argument
  <2>1. cap' = BufSize BY <1>5 DEF Argument
  <2> QED BY <1>3, <2>1
<1>6. CASE PackAgain
  <2>1. cap' = cap * 2 /\ UNCHANGED <<pat, data>> /\ ~ Packed(cap).ok BY <1>6 DEF PackAgain
  <2>2. PICK half \in Nat : half = cap BY DEF PatternOK
  <2>3. ~ Packed(half).ok BY <2>1, <2>2
  <2>4. ~ Packed(half).ok' BY <2>1, <2>3 DEF Packed
  <2>5. cap' = half * 2 BY <2>1, <2>2
  <2> QED BY <2>4, <2>5 DEF Tried
<1>7. CASE PackDone
  <2>1. UNCHANGED <<pat, data, cap>> BY <1>7 DEF PackDone
  <2> QED BY <1>1, <2>1
<1>8. CASE UNCHANGED vars
  <2>1. UNCHANGED <<pat, data, cap>> BY <1>8 DEF vars
  <2> QED BY <1>1, <2>1
<1> QED BY <1>1, <1>2, <1>4, <1>5, <1>6, <1>7, <1>8 DEF Next

\* A size with that much to spare is not too short.
LEMMA Suffices ==
  ASSUME PatternOK, NEW size \in Nat, Packed(Enough).ok,
         Len(Packed(Enough).buf) + Len(Length(Enough)) <= size
  PROVE  Packed(size).ok
<1> DEFINE d == [key \in DOMAIN pat |-> Variable(Field[key], pat[key], data[key])]
<1>1. DOMAIN pat \subseteq Key BY DEF PatternOK
<1>2. \A key \in DOMAIN pat : Fits(key, d[key])
  <2> TAKE key \in DOMAIN pat
  <2>1. /\ key \in Key /\ pat[key] \in CType /\ CheckCtype(Field[key], pat[key])
        /\ Holds(key, data[key])
    BY DEF PatternOK
  <2> QED BY <2>1, VariableFits
<1>3. Packed(size) = PatternPack(pat, d, size) /\ Packed(Enough) = PatternPack(pat, d, Enough)
  BY DEF Packed
<1> HIDE DEF d
<1>4. Enough \in Nat /\ Enough < 2^30 BY PatternAssumption
<1> QED BY <1>1, <1>2, <1>3, <1>4, PatternSame

\* So the last size that was too short had less than that to spare.
LEMMA EndsWhereItFits ==
  ASSUME PatternOK, Tried
  PROVE  PackEnds
<1> SUFFICES ASSUME cap > BufSize, Packed(Enough).ok
             PROVE  cap < 2 * (Len(Packed(Enough).buf) + Len(Length(Enough)))
  BY DEF PackEnds
<1>1. PICK half \in Nat : cap = half * 2 /\ ~ Packed(half).ok BY DEF Tried
<1>2. PICK b \in Nat : b = Len(Packed(Enough).buf)
  <2>1. Enough \in Nat BY PatternAssumption
  <2> QED BY <2>1, PackedFits, AfterAll
<1>3. PICK e \in 1 .. 5 : e = Len(Length(Enough)) BY LengthBytes
<1>4. ~ (b + e <= half) BY <1>1, <1>2, <1>3, Suffices
<1>5. cap < 2 * (b + e) BY <1>1, <1>4
<1> QED BY <1>2, <1>3, <1>5

\* However the fields of a message are written, whatever the variables of a
\* pattern hold and whatever its buffer starts with: pack is over as soon as
\* its buffer has a few bytes to spare.
THEOREM RetriesEnd == Spec => []PackEnds
<1> DEFINE Inv == PatternOK /\ Tried
<1>1. PatternInit => Inv BY NoPattern DEF PatternInit
<1>2. Inv /\ [Next]_vars => Inv' BY PatternKeeps, TriedKeeps
<1>3. Inv => PackEnds BY EndsWhereItFits
<1> QED BY <1>1, <1>2, <1>3, PTL DEF Spec
=============================================================================
