----------------------------- MODULE PbcVarint ------------------------------
(***************************************************************************)
(* The integers of protocol buffers on the wire (src/lualib-src/pbc/src/   *)
(* varint.c).  A machine word is the set of the positions of its one bits, *)
(* so that shifts, masks and truncation are set operations and 64 bits are *)
(* no wider than the checker's integers.  A byte is a word of 8 bits.      *)
(***************************************************************************)
EXTENDS Naturals, Sequences

Bits(w) == 0 .. w - 1
Byte == SUBSET Bits(8)
Word == SUBSET Bits(32)
Long == SUBSET Bits(64)

\* n << k in w bits, and n >> k of an unsigned word.
Shl(n, k, w) == {b \in k .. w - 1 : b - k \in n}
Shr(n, k) == {b \in Bits(64) : b + k \in n}
Xor(a, b) == (a \ b) \cup (b \ a)

\* The two halves of a struct longlong, and the number they make.
Low(n) == n \cap Bits(32)
Hi(n) == Shr(n, 32)
Join(low, hi) == low \cup Shl(hi, 32, 64)

----------------------------------------------------------------------------
\* Seven bits of n from bit 7 * i on.
Group(n, i) == {b \in Bits(7) : 7 * i + b \in n}

\* The number of groups up to the highest one bit, at least one.
Groups(n) == CHOOSE len \in 1 .. 10 :
  /\ \A b \in n : b < 7 * len
  /\ len > 1 => \E b \in n : b >= 7 * (len - 1)

\* The groups of n, the lowest first, bit 7 set on all of them but the last.
Encode(n) ==
  LET len == Groups(n)
  IN  [i \in 1 .. len |-> Group(n, i - 1) \cup (IF i < len THEN {7} ELSE {})]

\* The bytes of a varint end at the first one without the continuation bit.
Ends(buffer, i) == 7 \notin buffer[i] /\ \A j \in 1 .. i - 1 : 7 \in buffer[j]

\* The groups joined; what does not fit 64 bits is cut off.
DecodedValue(buffer, len) ==
  {b \in Bits(64) : b \div 7 < len /\ b % 7 \in buffer[b \div 7 + 1]}

\* The value and the number of bytes taken.  Ten bytes without an end are
\* the number 0; when the buffer is shorter than that, the length returned
\* is past its end and the callers refuse it.
Decode(buffer) ==
  IF \E i \in 1 .. 10 : i <= Len(buffer) /\ Ends(buffer, i)
  THEN LET len == CHOOSE i \in 1 .. 10 : i <= Len(buffer) /\ Ends(buffer, i)
       IN  [len |-> len, value |-> DecodedValue(buffer, len)]
  ELSE [len |-> 10, value |-> {}]

----------------------------------------------------------------------------
\* (n << 1) ^ (n >> w - 1): the sign bit inverts the others.
ZigZag(n, w) == Xor(Shl(n, 1, w), IF w - 1 \in n THEN Bits(w) ELSE {})

DeZigZag64(n) == Xor(Shr(n, 1), IF 0 \in n THEN Bits(64) ELSE {})

\* The high word is -(low >> 31) of the word as it was encoded, which is not
\* the sign of the number decoded.
DeZigZag32(n) ==
  Join(Xor(Shr(Low(n), 1), IF 0 \in n THEN Bits(32) ELSE {}),
       IF 31 \in n THEN Bits(32) ELSE {})
=============================================================================
