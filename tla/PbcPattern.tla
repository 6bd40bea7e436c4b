----------------------------- MODULE PbcPattern -----------------------------
(***************************************************************************)
(* The second way into a buffer, beside the messages of PbcMessage: a      *)
(* pattern names some keys of a message and for each of them the C type of *)
(* a variable (pattern.c), and pack writes the variables.  protobuf.lua's  *)
(* pack is built on it: the binding tries with a buffer of _pattern_pack's *)
(* size, and with one twice as large as long as that is too short.         *)
(***************************************************************************)
EXTENDS PbcMessage

CONSTANTS
  Patterns,  \* the patterns asked for: keys -> C types
  BufSize,   \* the first size that _pattern_pack tries
  Enough,    \* a size that is enough for PackEnds to look at
  Wraps      \* a negative double that is cast to uint64_t, which C leaves
             \* undefined, wraps (x86-64), or it gives 0 (aarch64)

VARIABLES
  pat,   \* the pattern that packs, <<>> when there is none
  data,  \* its variables
  cap    \* the size of the buffer that is tried

vars == <<m, said, phase, out, seen, pat, data, cap>>

CType == {"int32", "int64", "double", "float", "bool", "int8", "int16",
          "var", "array", "packed"}

ASSUME PatternAssumption ==
  /\ Wraps \in BOOLEAN
  /\ BufSize \in Nat \ {0} /\ Enough \in Nat /\ Enough < 2^30
  /\ \A p \in Patterns : DOMAIN p \subseteq Key /\ \A key \in DOMAIN p : p[key] \in CType

\* No check of the C type that a key is asked for with.
CheckCtype_None(f, c) == TRUE

\* Which C types a field may have.
CheckCtype(f, c) ==
  IF f.label = "repeated" THEN c = "array"
  ELSE IF f.label = "packed" THEN c = "packed"
  ELSE IF f.ptype \in {"string", "message", "bytes"} THEN c = "var"
  ELSE IF f.ptype \in {"float", "double"} THEN c \in {"double", "float"}
  ELSE IF f.ptype = "enum" THEN c \in {"int8", "int16", "int32", "int64"}
  ELSE c \notin {"var", "array", "packed", "double", "float"}

\* _pattern_new refuses a pattern with an unknown key or a wrong type.
Accepts(p) == \A key \in DOMAIN p : CheckCtype(Field[key], p[key])

----------------------------------------------------------------------------
\* Enums are integers in patterns.
Plain(f, v) == IF f.ptype = "enum" THEN Enum[v] ELSE v

\* What a variable of a C type holds of a value.
Narrowed(c, v) ==
  CASE c = "int32" -> Low(v)
    [] c = "int16" -> v \cap Bits(16)
    [] c = "int8" -> v \cap Bits(8)
    [] c = "bool" -> IF Low(v) = {} THEN {} ELSE {0}
    [] c = "float" -> DoubleOf[FloatOf[v]]
    [] OTHER -> v

\* A signed number that keeps its low word alone.
SignExtend_None(n) == Low(n)

\* The 64 bits of an int32_t.
SignExtend(n) == Low(n) \cup (IF 31 \in n THEN 32 .. 63 ELSE {})

\* -n, and n + 2^i.
Negated(n) == {b \in Bits(64) : (b \in n) # (\E j \in 0 .. b - 1 : j \in n)}
Plus(n, i) == {b \in Bits(64) : (b \in n) # (b >= i /\ i .. b - 1 \subseteq n)}

\* The integer nearest to n that has 53 bits, the even one of two.
Nearest(n) ==
  LET half == Max(n) - 53
      rest == n \cap (0 .. half)
  IN  IF rest = {} THEN n
      ELSE IF half \in rest /\ (rest # {half} \/ half + 1 \in n)
        THEN Plus(n \ rest, half + 1)
      ELSE n \ rest

\* (uint64_t)luaL_checknumber: an integer becomes a double and is cast.
ThroughDouble(n) ==
  IF n = {} THEN n
  ELSE IF 63 \notin n THEN Nearest(n)
  ELSE IF Wraps THEN Negated(Nearest(Negated(n)))
  ELSE {}

ThroughDoubles == {"int64", "fixed64", "uint"}

\* An item of an array as the binding pushes it.
ArrayItem(ptype, v) ==
  CASE LuaType(ptype) \in {"int", "enum", "fixed32"} -> SignExtend(v)
    [] LuaType(ptype) \in ThroughDoubles -> ThroughDouble(v)
    [] ptype = "bool" -> IF v = {} THEN {} ELSE {0}
    [] OTHER -> v

\* The variable as _pack_field finds it: a list of the items of an array.
Variable(f, c, vs) ==
  IF IsList(f) THEN [i \in DOMAIN vs |-> ArrayItem(f.ptype, Plain(f, vs[i]))]
  ELSE Narrowed(c, Plain(f, vs[1]))

\* A default is recognised after it has been narrowed to the C type; bytes
\* and messages are always written.
PatternDefault(f, c, v) ==
  IF f.ptype \in {"bytes", "message"} THEN FALSE
  ELSE IF c \in {"double", "float"}
       THEN LET d == Narrowed(c, f.defv)
            IN  v = d \/ (IsZero(v) /\ IsZero(d))
  ELSE v = Narrowed(c, Plain(f, f.defv))

----------------------------------------------------------------------------
\* A slice: the bytes written and the room behind them.
Slice(size) == [buf |-> <<>>, room |-> size, ok |-> TRUE]
Short(s) == [s EXCEPT !.ok = FALSE]

\* Every part is written if there is room for it.
PutIn(s, bytes) ==
  IF s.ok /\ Len(bytes) <= s.room
  THEN [s EXCEPT !.buf = @ \o bytes, !.room = @ - Len(bytes)]
  ELSE Short(s)

PackNumber(ptype, v) ==
  IF ptype = "enum" THEN Encode(Low(v)) ELSE Payload(ptype, v)

PackField(s, f, v) ==
  IF WireType(f.ptype) = LEND
  THEN PutIn(PutIn(PutIn(s, Tag(f, LEND)), Length(Len(v))), v)
  ELSE PutIn(PutIn(s, Tag(f, WireType(f.ptype))), PackNumber(f.ptype, v))

PackRepeated(s, f, vs) ==
  FoldLeft(LAMBDA a, v : PackField(a, f, v), s, vs)

Items(s, f, vs) ==
  FoldLeft(PutIn, s, [i \in DOMAIN vs |-> PackNumber(f.ptype, vs[i])])

\* Room asked for the longest length there is.
PackPackedFixed_Longest(s, f, vs, width) ==
  LET size == width * Len(vs)
      head == PutIn(s, Length(size))
  IN  IF head.room - 10 < size THEN Short(s) ELSE Items(head, f, vs)

\* The length of the length is asked for twice.
PackPackedFixed(s, f, vs, width) ==
  LET size == width * Len(vs)
      head == PutIn(s, Length(size))
  IN  IF head.room - Len(Length(size)) < size THEN Short(s)
      ELSE Items(head, f, vs)

\* The items moved up without a look at the room that is left.
PatternVarint_Unchecked(s, f, vs) ==
  LET head  == PutIn(s, Length(Len(vs)))
      full  == Items(head, f, vs)
      items == SubSeq(full.buf, Len(head.buf) + 1, Len(full.buf))
      len   == Length(Len(items))
  IN  IF ~ full.ok THEN Short(s)
      ELSE [s EXCEPT !.buf = @ \o len \o items,
                     !.room = @ - Len(len) - Len(items)]

\* The number of items is written for their length first, and when that was
\* not it the length, with the items moved up if it needs more bytes.
PatternVarint(s, f, vs) ==
  LET head  == PutIn(s, Length(Len(vs)))
      full  == Items(head, f, vs)
      items == SubSeq(full.buf, Len(head.buf) + 1, Len(full.buf))
      len   == Length(Len(items))
  IN  IF ~ full.ok THEN Short(s) ELSE PutIn(s, len \o items)

PatternPacked(s, f, vs) ==
  LET head == PutIn(s, Tag(f, LEND))
  IN  IF vs = <<>> THEN s
      ELSE IF WireType(f.ptype) = BIT64 THEN PackPackedFixed(head, f, vs, 8)
      ELSE IF WireType(f.ptype) = BIT32 THEN PackPackedFixed(head, f, vs, 4)
      ELSE PatternVarint(head, f, vs)

PackKey(s, f, c, v) ==
  IF ~ s.ok \/ (f.label = "optional" /\ PatternDefault(f, c, v)) THEN s
  ELSE IF f.label = "repeated" THEN PackRepeated(s, f, v)
  ELSE IF f.label = "packed" THEN PatternPacked(s, f, v)
  ELSE PackField(s, f, v)

\* pbc_pattern_pack on a buffer of the given size: the keys are sorted by
\* the numbers of their fields, and the highest one is written last.
Highest(keys) ==
  CHOOSE key \in keys : \A other \in keys : Field[other].id <= Field[key].id

PatternPack(p, d, size) ==
  MapThenFoldSet(LAMBDA key, s : PackKey(s, Field[key], p[key], d[key]), Slice(size),
                 LAMBDA key : key, Highest, DOMAIN p)

----------------------------------------------------------------------------
PatternInit == Init /\ pat = <<>> /\ data = <<>> /\ cap = BufSize

\* pack is given a value for every key of the pattern: 0, "" or an empty
\* table where the program has none.
NoValue(f) ==
  IF IsList(f) THEN <<>>
  ELSE IF WireType(f.ptype) = LEND THEN << <<>> >>
  ELSE IF f.ptype = "enum" THEN <<f.defv>>
  ELSE <<{}>>

NewPattern == \E p \in Patterns :
  /\ phase = "write"
  /\ Len(m) = 1 /\ Written = {}
  /\ Accepts(p)
  /\ pat' = p
  /\ data' = [key \in DOMAIN p |-> NoValue(Field[key])]
  /\ cap' = BufSize
  /\ phase' = "pack"
  /\ UNCHANGED <<m, said, out, seen>>

\* The program has a value for one more key.
Argument == \E key \in DOMAIN pat : \E vs \in Values[key] :
  /\ phase = "pack" /\ cap = BufSize
  /\ data[key] = NoValue(Field[key])
  /\ Cardinality({k \in DOMAIN pat : data[k] # NoValue(Field[k])}) < MaxKeys
  /\ ~ Invalid(key, vs)
  /\ data' = [data EXCEPT ![key] = vs]
  /\ UNCHANGED <<m, said, phase, out, seen, pat, cap>>

Packed(size) == PatternPack(pat,
  [key \in DOMAIN pat |-> Variable(Field[key], pat[key], data[key])], size)

\* The buffer is too short for the pattern.
PackAgain ==
  /\ phase = "pack"
  /\ ~ Packed(cap).ok
  /\ cap' = cap * 2
  /\ UNCHANGED <<m, said, phase, out, seen, pat, data>>

PackDone == LET s == Packed(cap) IN \E keys \in Readers :
  /\ phase = "pack"
  /\ s.ok
  /\ out' = s.buf
  /\ said' = <<[key \in Key |-> IF key \in DOMAIN pat /\ Field[key].ptype # "message"
                                THEN data[key] ELSE <<>>]>>
  /\ phase' = "read"
  /\ seen' = keys
  /\ UNCHANGED <<m, pat, data, cap>>

DeleteAll == Delete /\ pat' = <<>> /\ data' = <<>> /\ cap' = BufSize

Next ==
  \/ (EncodeValue \/ EncodeError \/ EncodeMessage \/ Buffer)
       /\ UNCHANGED <<pat, data, cap>>
  \/ DeleteAll
  \/ NewPattern \/ Argument \/ PackAgain \/ PackDone

Spec == PatternInit /\ [][Next]_vars

----------------------------------------------------------------------------
\* Nothing is written beyond the memory of a message: whatever was written
\* before, what _expand_message is given covers what follows; and pack writes
\* no further than the buffer it has been given, also where it moves the
\* items of a field after their length has been written.
StaysInside ==
  /\ TypeOK
  /\ \A k \in DOMAIN m : ~ m[k].over
  /\ pat # <<>> => Len(Packed(cap).buf) <= cap

\* The retries of _pattern_pack end: a buffer with a few bytes to spare, as
\* many as a length of that size takes, is never refused, so the size that is
\* tried is less than twice that.
PackEnds ==
  pat # <<>> /\ cap > BufSize /\ Packed(Enough).ok
    => cap < 2 * (Len(Packed(Enough).buf) + Len(Length(Enough)))
=============================================================================
