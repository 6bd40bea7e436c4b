------------------------------ MODULE PbcReader -----------------------------
(***************************************************************************)
(* Reading what the messages of PbcMessage and the patterns of PbcPattern  *)
(* have written: the two readers of the Lua binding, rmessage.c (lazy      *)
(* access through an index) and decode.c (a callback per atom that fills a *)
(* table), with what pbc-lua53.c makes of their values, and the unpacking  *)
(* of a pattern (pattern.c).                                               *)
(***************************************************************************)
EXTENDS PbcPattern

\* The atoms of a buffer in their order; the last one is Malformed when the
\* buffer cannot be taken apart to its end.
RECURSIVE Atoms(_)
Atoms(b) ==
  IF b = <<>> THEN <<>>
  ELSE LET a == WiretypeDecode(b)
       IN  <<a>> \o (IF a.ok THEN Atoms(SubSeq(b, a.len + 1, Len(b))) ELSE <<>>)

OpensContext(b) == LET atoms == Atoms(b) IN \A i \in DOMAIN atoms : atoms[i].ok

\* The numbers of a packed field: varints one after the other, up to the
\* first one that does not end.
RECURSIVE Varints(_)
Varints(b) ==
  LET d == Decode(b)
  IN  IF b = <<>> \/ d.len > Len(b) THEN <<>>
      ELSE <<d.value>> \o Varints(SubSeq(b, d.len + 1, Len(b)))

----------------------------------------------------------------------------
\* rmessage.c.  A message that was read: whether it could be, and the values
\* of the keys that are present.

Known(type) == KeysOf(type) \cap seen
Knows(type, a) == \E key \in Known(type) : Field[key].id = a.id
KeyOf(type, a) == CHOOSE key \in Known(type) : Field[key].id = a.id

Insert(vals, key, v) == (key :> v) @@ vals
Held(vals, key) == IF key \in DOMAIN vals THEN vals[key] ELSE <<>>

\* The items of a packed field; for a width that does not divide it, none.
UnpackPacked(ptype, bytes) ==
  LET width == CASE WireType(ptype) = BIT64 -> 8
                 [] WireType(ptype) = BIT32 -> 4
                 [] OTHER -> 1
      raw == IF WireType(ptype) = VARINT THEN Varints(bytes)
             ELSE IF Len(bytes) % width = 0 THEN Slices(bytes, width)
             ELSE <<>>
  IN  [i \in DOMAIN raw |-> Number(ptype, raw[i])]

RECURSIVE RMessage(_, _)

\* read_value and push_value_array: strings and bytes are slices of the
\* buffer or copies of them, messages are read whole.
ReadValue(f, a) ==
  CASE f.ptype \in {"string", "bytes"} -> a.s
    [] f.ptype = "message" -> RMessage(f.sub, a.s)
    [] OTHER -> Number(f.ptype, a.v)

PushValue(f, list, a) ==
  LET v == ReadValue(f, a)
  IN  IF f.ptype = "message" /\ ~ v.ok THEN list ELSE Append(list, v)

\* A list that stays empty is taken out of the index again.
ReadAtom(type, vals, a) ==
  LET key  == KeyOf(type, a)
      f    == Field[key]
      list == IF f.label = "packed"
              THEN Held(vals, key) \o UnpackPacked(f.ptype, a.s)
              ELSE PushValue(f, Held(vals, key), a)
  IN  IF ~ Knows(type, a) THEN vals
      ELSE IF ~ IsList(f) THEN Insert(vals, key, ReadValue(f, a))
      ELSE IF list = <<>> THEN vals
      ELSE Insert(vals, key, list)

RMessage(type, b) ==
  LET atoms == Atoms(b)
  IN  IF \E i \in DOMAIN atoms : ~ atoms[i].ok
      THEN [ok |-> FALSE, vals |-> <<>>]
      ELSE [ok |-> TRUE,
            vals |-> FoldLeft(LAMBDA vals, a : ReadAtom(type, vals, a),
                              <<>>, atoms)]

EmptyRMessage == [ok |-> TRUE, vals |-> <<>>]

\* The value that the index has, or the default; the binding returns the 64
\* bits of a number and compares a bool with 0.
RmessageGet(r, key) ==
  LET f == Field[key]
      Lua(v) == IF f.ptype = "bool" THEN (IF v = {} THEN {} ELSE {0}) ELSE v
  IN  IF IsList(f) THEN [i \in DOMAIN Held(r.vals, key) |-> Lua(Held(r.vals, key)[i])]
      ELSE IF key \in DOMAIN r.vals THEN Lua(r.vals[key])
      ELSE IF f.ptype = "message" THEN EmptyRMessage
      ELSE Lua(f.defv)

\* Everything a program reads from a message and the messages inside it.
RECURSIVE RmessageView(_, _)
RmessageView(type, r) ==
  [key \in Known(type) |->
     LET f == Field[key]
         v == RmessageGet(r, key)
     IN  IF f.ptype # "message" THEN v
         ELSE IF IsList(f) THEN [i \in DOMAIN v |-> RmessageView(f.sub, v[i])]
         ELSE RmessageView(f.sub, v)]

----------------------------------------------------------------------------
\* decode.c and decode_cb.  A signed number keeps 32 bits (PBC_INT and
\* PBC_FIXED32), an unsigned one all it has.
PushLua(ptype, v) ==
  CASE LuaType(ptype) \in {"int", "fixed32"} -> SignExtend(v)
    [] ptype = "bool" -> IF Low(v) = {} THEN {} ELSE {0}
    [] OTHER -> v

RECURSIVE DecodeView(_, _)

\* A message inside a message is decoded when it is first looked at.
CallType(f, a) ==
  IF f.ptype = "message" THEN DecodeView(f.sub, a.s)
  ELSE IF WireType(f.ptype) = LEND THEN a.s
  ELSE PushLua(f.ptype,
               Number(f.ptype, IF f.ptype = "uint32" THEN Low(a.v) ELSE a.v))

CallArray(f, bytes) ==
  LET items == UnpackPacked(f.ptype, bytes)
  IN  [i \in DOMAIN items |-> PushLua(f.ptype, items[i])]

\* It sets the key of a single value and appends to a list.
Callback(tbl, key, v) ==
  Insert(tbl, key, IF IsList(Field[key]) THEN Append(Held(tbl, key), v) ELSE v)

\* A field that the schema has not is passed over.
DecodeAtom(type, tbl, a) ==
  LET key == KeyOf(type, a)
      items(f) == IF f.label = "packed" THEN CallArray(f, a.s) ELSE <<CallType(f, a)>>
  IN  IF ~ Knows(type, a) THEN tbl
      ELSE FoldLeft(LAMBDA t, v : Callback(t, key, v), tbl, items(Field[key]))

\* protobuf.lua's decode: the table, and its missing keys as the metatable
\* reads them from an empty rmessage.
DecodeView(type, b) ==
  FoldLeft(LAMBDA t, a : DecodeAtom(type, t, a), <<>>, Atoms(b))
    @@ RmessageView(type, EmptyRMessage)

----------------------------------------------------------------------------
\* pbc_pattern_unpack.  The variables by key: a list of the items of an
\* array, and for the rest the value that the binding makes of it.

\* write_longlong: one byte of an int16 is written, the other one stays.
WriteNumber(c, v) ==
  IF c = "int16" THEN (v \cap Bits(8)) \cup Shl(Heap, 8, 16) ELSE Narrowed(c, v)

\* A number of one of the binding's types, and of an item of an array.
Fetch(f, c, v) ==
  IF f.ptype = "enum" THEN EnumName(Low(v))
  ELSE IF f.ptype = "bool" THEN IF Low(v) = {} THEN {} ELSE {0}
  ELSE IF c = "int32" THEN SignExtend(v)
  ELSE IF IsList(f) THEN PushLua(f.ptype, v)
  ELSE v

\* A number of type sint64 is looked for in a slice and never found there.
FieldError(p, a) == \E key \in DOMAIN p :
  /\ Field[key].id = a.id
  /\ Field[key].label # "packed"
  /\ WireType(Field[key].ptype) = LEND \/ Field[key].ptype = "sint64"
  /\ a.wt # LEND

\* unpack_field, for an atom of the wire type that was expected; a message
\* is decoded by the program that gets its slice.
UnpackField(f, c, a) ==
  IF WireType(f.ptype) = LEND THEN CallType(f, a)
  ELSE IF f.ptype = "enum" THEN EnumName(WriteNumber(c, Low(a.v)))
  ELSE Fetch(f, c, WriteNumber(c, Number(f.ptype, a.v)))

UnpackAtom(p, vals, a) ==
  LET key == CHOOSE k \in DOMAIN p : Field[k].id = a.id
      items(f) == IF f.label = "packed" THEN CallArray(f, a.s)
                  ELSE <<UnpackField(f, p[key], a)>>
  IN  IF \A k \in DOMAIN p : Field[k].id # a.id THEN vals
      ELSE FoldLeft(LAMBDA t, v : Callback(t, key, v), vals, items(Field[key]))

\* A variable that no atom was found for.
SetDefault(f, c) ==
  IF IsList(f) THEN <<>>
  ELSE IF f.ptype = "message" THEN RmessageView(f.sub, EmptyRMessage)
  ELSE IF WireType(f.ptype) = LEND \/ f.ptype = "enum" THEN f.defv
  ELSE Fetch(f, c, Narrowed(c, f.defv))

UnpackFails(p, b) == LET atoms == Atoms(b) IN
  \E i \in DOMAIN atoms : ~ atoms[i].ok \/ FieldError(p, atoms[i])

PatternUnpack(p, b) ==
  FoldLeft(LAMBDA t, a : UnpackAtom(p, t, a), <<>>, Atoms(b))
    @@ [key \in DOMAIN p |-> SetDefault(Field[key], p[key])]

----------------------------------------------------------------------------
\* What was written under a key of a message; a message that was not sent
\* has no keys.
Said(k, key) == IF k = 0 THEN <<>> ELSE said[k][key]

\* The binding has lost no bit of an item of an array that a pattern packs.
Lossless == \A key \in DOMAIN pat :
  IsList(Field[key]) /\ LuaType(Field[key].ptype) \in ThroughDoubles =>
    \A i \in DOMAIN data[key] : ThroughDouble(data[key][i]) = data[key][i]

SameReal(a, b) == a = b \/ (IsZero(a) /\ IsZero(b))

\* A view of message k (0: of a message that was not sent) has the value of
\* every key that was written and the default of every other one.  Numbers
\* of 32 bits are compared by bits alone when wide is FALSE.
RECURSIVE Agrees(_, _, _)
Agrees(view, k, wide) == \A key \in DOMAIN view :
  LET f == Field[key]
      vs == Said(k, key)
      Same(got, v) ==
        IF f.ptype = "message" THEN Agrees(got, v, wide)
        ELSE IF f.ptype = "double" THEN SameReal(got, v)
        ELSE IF f.ptype = "float" THEN SameReal(got, DoubleOf[FloatOf[v]])
        ELSE IF f.ptype \in Narrow /\ ~ wide THEN Low(got) = Low(v)
        ELSE got = v
  IN  IF IsList(f) THEN /\ Len(view[key]) = Len(vs)
                        /\ \A i \in DOMAIN vs : Same(view[key][i], vs[i])
      ELSE IF vs # <<>> THEN Same(view[key], vs[1])
      ELSE IF f.ptype = "message" THEN Agrees(view[key], 0, wide)
      ELSE Same(view[key], f.defv)

\* A message that was encoded is read as it was written through rmessage:
\* every key that the reader's schema shares has its value, elided and
\* absent keys have their defaults, lists keep their order, whatever other
\* keys the writer has used (pbc_rmessage_new on pbc_wmessage_buffer).  So is
\* what a pattern has packed, unless the binding has lost a bit of it.
RmessageReads ==
  phase = "read" /\ Lossless => LET r == RMessage(Root, out)
                    IN  r.ok /\ Agrees(RmessageView(Root, r), 1, FALSE)

\* The same through decode, the reader of msgagent and of the clients, whose
\* numbers also have their sign (pbc_decode with decode_cb).
DecodeReads ==
  phase = "read" /\ Lossless => OpensContext(out) /\ Agrees(DecodeView(Root, out), 1, TRUE)

\* Numbers read through rmessage have their sign as well, as the comments of
\* context.h promise of sint32 ("Use TYPE_SINT32 if negative values are
\* likely").
RmessageReadsSigns ==
  phase = "read" /\ Lossless => Agrees(RmessageView(Root, RMessage(Root, out)), 1, TRUE)

Readable == {p \in Patterns : Accepts(p) /\ DOMAIN p \subseteq seen}

\* A buffer, whether a message or a pattern has written it, is unpacked by a
\* pattern to what was written, with the defaults of what was not, for the C
\* types of the Lua binding, and for int8, bool and float where they hold the
\* value; an int16 and a field of type sint64 are not unpacked right
\* (pbc_pattern_unpack).
PatternReads ==
  phase = "read" /\ Lossless => \A p \in Readable :
    /\ ~ UnpackFails(p, out)
    /\ Agrees(PatternUnpack(p, out), 1, TRUE)

\* unpack reads the fields of every pattern that can be made.
UnpackSucceeds == phase = "read" => \A p \in Readable : ~ UnpackFails(p, out)
=============================================================================
