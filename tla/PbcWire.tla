------------------------------ MODULE PbcWire -------------------------------
(***************************************************************************)
(* What the writers and the readers of protocol buffers share: the fields  *)
(* of the registered messages (proto.h, context.h) and the atoms a buffer  *)
(* is made of (context.c).  A buffer is a sequence of bytes and a byte a   *)
(* set of bit positions (PbcVarint).                                       *)
(***************************************************************************)
EXTENDS PbcVarint, FiniteSets, FiniteSetsExt, SequencesExt

CONSTANTS
  Type,      \* message types
  Key,       \* the names of all fields of all types
  Field,     \* Key -> [of, id, ptype, label, defv, sub]: struct _field
  Enum,      \* enum name -> id: the names of the one enum
  FloatOf,   \* the float (32 bits) nearest to a double (64 bits)
  DoubleOf   \* the double that equals a float

Labels == {"optional", "required", "repeated", "packed"}

PTypes == {"double", "float", "int32", "int64", "uint32", "uint64", "sint32",
           "sint64", "fixed32", "fixed64", "sfixed32", "sfixed64", "bool",
           "enum", "string", "bytes", "message"}

\* The numbers of fields have 29 bits.
MaxNumber == 536870911

\* A field has a number that no other field of its message has, and packed
\* are numbers only: protoc refuses other files.
ASSUME FieldAssumption ==
  /\ IsFiniteSet(Key)
  /\ \A k \in Key : /\ Field[k].of \in Type /\ Field[k].ptype \in PTypes
                    /\ Field[k].label \in Labels
                    /\ Field[k].id \in 1 .. MaxNumber
                    /\ Field[k].label = "packed"
                         => Field[k].ptype \notin {"string", "bytes", "message"}
  /\ \A k, l \in Key : k # l /\ Field[k].of = Field[l].of
                         => Field[k].id # Field[l].id

KeysOf(type) == {k \in Key : Field[k].of = type}
IsList(f) == f.label \in {"repeated", "packed"}

EnumName(id) == CHOOSE name \in DOMAIN Enum : Enum[name] = id

\* The types that hold 32 bits.
Narrow == {"int32", "uint32", "sint32", "fixed32", "sfixed32"}

----------------------------------------------------------------------------
\* A count as a word, and a word as a count.
WordOf(count) == {b \in Bits(31) : (count \div 2^b) % 2 = 1}
CountOf(word) == MapThenFoldSet(LAMBDA p, n : p + n, 0, LAMBDA b : 2^b, Max, word)
Length(count) == Encode(WordOf(count))

VARINT == {}
BIT64 == {0}
LEND == {1}
BIT32 == {0, 2}

WireType(ptype) ==
  CASE ptype \in {"double", "fixed64", "sfixed64"} -> BIT64
    [] ptype \in {"float", "fixed32", "sfixed32"} -> BIT32
    [] ptype \in {"string", "bytes", "message"} -> LEND
    [] OTHER -> VARINT

\* The kinds of value that programs deal in.
LuaType(ptype) ==
  CASE ptype \in {"double", "float"} -> "real"
    [] ptype \in {"int64", "sint64"} -> "int64"
    [] ptype \in {"int32", "sint32"} -> "int"
    [] ptype \in {"uint32", "uint64"} -> "uint"
    [] ptype \in {"fixed32", "sfixed32"} -> "fixed32"
    [] ptype \in {"fixed64", "sfixed64"} -> "fixed64"
    [] OTHER -> ptype

Tag(f, wiretype) == Encode(Shl(WordOf(f.id), 3, 32) \cup wiretype)

\* The low bytes of a word, the lowest first, and the word they make.
Fixed(n, width) == [i \in 1 .. width |-> Shr(n, 8 * (i - 1)) \cap Bits(8)]
Unfixed(bytes, width) ==
  {b \in Bits(8 * width) : b % 8 \in bytes[b \div 8 + 1]}

----------------------------------------------------------------------------
Malformed ==
  [ok |-> FALSE, len |-> 0, id |-> 0, wt |-> {}, v |-> {}, s |-> <<>>]

\* The atom at the head of a buffer: a tag, then a number or a slice.  The
\* tag is kept in a signed int: a number of 29 bits is read as a negative one,
\* which no field has.
WiretypeDecode(b) ==
  LET tag  == Decode(b)
      rest == SubSeq(b, tag.len + 1, Len(b))
      wt   == tag.value \cap Bits(3)
      num  == Decode(rest)
      id   == IF 31 \in tag.value THEN 0 ELSE CountOf(Shr(tag.value, 3))
      Atom(fits, len, v, s) ==
        IF fits THEN [ok |-> TRUE, len |-> tag.len + len,
                      id |-> id, wt |-> wt, v |-> v, s |-> s]
        ELSE Malformed
  IN  IF tag.len > Len(b) \/ Hi(tag.value) # {} THEN Malformed ELSE
      CASE wt = VARINT -> Atom(num.len <= Len(rest), num.len, num.value, <<>>)
        [] wt = BIT64 -> IF Len(rest) < 8 THEN Malformed
                         ELSE Atom(TRUE, 8, Unfixed(rest, 8), <<>>)
        [] wt = BIT32 -> IF Len(rest) < 4 THEN Malformed
                         ELSE Atom(TRUE, 4, Unfixed(rest, 4), <<>>)
        [] wt = LEND ->
             LET end == num.len + CountOf(Low(num.value))
             IN  Atom(Hi(num.value) = {} /\ end <= Len(rest), end, {},
                      SubSeq(rest, num.len + 1, end))
        [] OTHER -> Malformed

\* The items of a packed field of a fixed width.
Slices(b, width) ==
  [i \in 1 .. Len(b) \div width |->
     Unfixed(SubSeq(b, width * (i - 1) + 1, width * i), width)]

\* A number as its type reads it off the wire.
Number(ptype, v) ==
  CASE ptype = "float" -> DoubleOf[Low(v)]
    [] ptype = "sint32" -> DeZigZag32(v)
    [] ptype = "sint64" -> DeZigZag64(v)
    [] ptype = "enum" -> EnumName(Low(v))
    [] OTHER -> v
=============================================================================
