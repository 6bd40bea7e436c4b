----------------------------- MODULE PbcMessage -----------------------------
(***************************************************************************)
(* Writing a message field by field: wmessage.c, and the writers of the    *)
(* Lua binding and of protobuf.lua.  m is the heap of a pbc_wmessage and   *)
(* of the messages inside it, in the order in which they were created; the *)
(* first one is the message that protobuf.lua's encode works on.  Who      *)
(* reads the buffer is left to PbcReader.                                  *)
(***************************************************************************)
EXTENDS PbcWire

CONSTANTS
  WMESSAGE_SIZE,  \* the bytes a message has room for at first
  Heap,           \* the byte that memory nobody has written holds
  Root,           \* the type that is encoded
  Values,         \* Key -> what encode may be asked to write: lists of values
  MaxKeys,        \* bound: keys written in one encode
  MaxMessages,    \* bound: messages in one encode
  Readers         \* the sets of keys that a reader's schema may have

PackedKeys == {key \in Key : Field[key].label = "packed"}

\* What the binding takes for a field of a type: an enum by its name.
ValueOf(ptype) ==
  CASE ptype \in {"string", "bytes", "message"} -> Seq(Byte)
    [] ptype = "enum" -> STRING
    [] OTHER -> Long

ASSUME MessageAssumption ==
  /\ WMESSAGE_SIZE \in Nat \ {0} /\ Heap \in Byte /\ Root \in Type
  /\ Readers \subseteq SUBSET Key
  /\ \A name \in DOMAIN Enum : Enum[name] \in Word
  /\ \A key \in Key : /\ Field[key].ptype = "message" => Field[key].sub \in Type
                      /\ Field[key].ptype = "enum" => Field[key].defv \in DOMAIN Enum
                      /\ \A vs \in Values[key] :
                           /\ vs \in Seq(ValueOf(Field[key].ptype))
                           /\ IsList(Field[key]) \/ Len(vs) = 1

VARIABLES
  m,      \* the wmessages: [type, buf, cap, packed, sub, over]
  said,   \* what was written: for each wmessage, Key -> list of values
  phase,  \* "write", "failed" or "read"; "pack" when a pattern writes
  out,    \* the encoded buffer
  seen    \* the keys of the reader's schema

mvars == <<m, said, phase, out, seen>>

NewMessage(type) ==
  [type |-> type, buf |-> <<>>, cap |-> WMESSAGE_SIZE,
   packed |-> [key \in PackedKeys |-> <<>>], sub |-> <<>>, over |-> FALSE]

Nothing == [key \in Key |-> <<>>]

----------------------------------------------------------------------------
\* Room for sz more bytes: the capacity is doubled until they fit.
Doublings(room, size) ==
  CHOOSE i \in 1 .. size : /\ size <= room * 2^i
                           /\ i > 1 => size > room * 2^(i - 1)

Expand(w, sz) ==
  IF Len(w.buf) + sz <= w.cap THEN w
  ELSE [w EXCEPT !.cap = @ * 2^Doublings(@, Len(w.buf) + sz)]

\* Bytes put at the end of the buffer, beyond the end of its memory or not.
Put(w, bytes) ==
  [w EXCEPT !.buf = @ \o bytes, !.over = @ \/ Len(w.buf) + Len(bytes) > w.cap]

\* What the switches of pbc_wmessage_integer and pbc_wmessage_string write.
Payload(ptype, v) ==
  CASE ptype \in {"int64", "uint64", "int32"} -> Encode(v)
    [] ptype \in {"uint32", "bool"} -> Encode(Low(v))
    [] ptype = "enum" -> Encode(Enum[v])
    [] ptype \in {"fixed64", "sfixed64", "double"} -> Fixed(v, 8)
    [] ptype \in {"fixed32", "sfixed32"} -> Fixed(v, 4)
    [] ptype = "float" -> Fixed(FloatOf[v], 4)
    [] ptype = "sint32" -> Encode(ZigZag(Low(v), 32))
    [] ptype = "sint64" -> Encode(ZigZag(v, 64))

\* A packed field keeps its values until the buffer is asked for.
Keep(w, key, v) == [w EXCEPT !.packed[key] = Append(@, v)]

\* The comparison with the default: of numbers for reals, and for bytes
\* with the empty string.
IsZero(v) == v \in {{}, {63}}
IsDefault(f, v) ==
  IF f.ptype \in {"float", "double"}
  THEN v = f.defv \/ (IsZero(v) /\ IsZero(f.defv))
  ELSE v = (IF f.ptype = "bytes" THEN <<>> ELSE f.defv)

\* An optional field is left out whenever it is false or empty.
Elided_Zero(f, v) ==
  f.label = "optional" /\ (IsDefault(f, v) \/ (f.ptype = "bool" /\ v = {}))

Elided(f, v) == f.label = "optional" /\ IsDefault(f, v)

wmessage_integer(w, key, v) ==
  LET f == Field[key]
  IN  IF f.label = "packed" THEN Keep(w, key, v)
      ELSE IF Elided(f, v) THEN w
      ELSE Put(Expand(w, 20),
               Tag(f, WireType(f.ptype)) \o Payload(f.ptype, v))

wmessage_real(w, key, v) ==
  LET f == Field[key]
  IN  IF f.label = "packed" THEN Keep(w, key, v)
      ELSE IF Elided(f, v) THEN w
      ELSE Put(Expand(w, 18),
               Tag(f, WireType(f.ptype)) \o Payload(f.ptype, v))

\* Enums are written by name.
wmessage_enum(w, key, v) ==
  LET f == Field[key]
  IN  IF f.label = "packed" THEN Keep(w, key, v)
      ELSE IF Elided(f, v) THEN w
      ELSE Put(Expand(w, 20), Tag(f, VARINT) \o Payload("enum", v))

\* Strings and bytes: room for the tag and the length, then for the text.
wmessage_string(w, key, v) ==
  LET f == Field[key]
      head == Put(Expand(w, 20), Tag(f, LEND) \o Length(Len(v)))
  IN  IF Elided(f, v) THEN w ELSE Put(Expand(head, Len(v)), v)

\* The writer of protobuf.lua for a key.
Write(w, key, v) ==
  LET kind == LuaType(Field[key].ptype)
  IN  CASE kind = "real" -> wmessage_real(w, key, v)
        [] kind = "enum" -> wmessage_enum(w, key, v)
        [] kind \in {"string", "bytes"} -> wmessage_string(w, key, v)
        [] OTHER -> wmessage_integer(w, key, v)

\* A list is written item by item.
WriteAll(w, key, vs) == FoldLeft(LAMBDA x, v : Write(x, key, v), w, vs)

----------------------------------------------------------------------------
\* The integers of a packed varint field are 32 bits wide for int32 too.
PackedVarint(ptype, v) == Payload(IF ptype = "int32" THEN "uint32" ELSE ptype, v)

PutItem(w, bytes) == Put(Expand(w, 10), bytes)

\* The length is guessed, the items are written behind it, and when the
\* guess was wrong it is written again; an item that does not fit a length
\* of as many bytes moves the items up.
PackPackedVarint(w, f, vs) ==
  LET guess == Len(vs) * (IF f.ptype = "bool" THEN 1 ELSE 2)
      head  == Put(Expand(w, 10 + guess), Length(guess))
      full  == FoldLeft(PutItem, head,
                        [i \in DOMAIN vs |-> PackedVarint(f.ptype, vs[i])])
      items == SubSeq(full.buf, Len(head.buf) + 1, Len(full.buf))
      len   == Length(Len(items))
      grown == IF Len(len) = Len(Length(guess)) THEN full
               ELSE Expand(full, Len(len))
  IN  Put([grown EXCEPT !.buf = w.buf], len \o items)

PackPacked64(w, f, vs) ==
  LET n == 8 * Len(vs)
      byte(j) == Payload(f.ptype, vs[(j \div 8) + 1])[(j % 8) + 1]
  IN  Put(Put(Expand(w, 10 + n), Length(n)), [j \in 1 .. n |-> byte(j - 1)])

\* Four bytes each, but every item is put eight bytes behind the last one:
\* what lies between them is whatever the memory holds, and the items from
\* the middle on are written behind the end of the field.
PackPacked32(w, f, vs) ==
  LET n    == Len(vs)
      head == Put(Expand(w, 10 + 4 * n), Length(4 * n))
      byte(j) == IF j % 8 < 4 THEN Payload(f.ptype, vs[(j \div 8) + 1])[(j % 8) + 1]
                 ELSE Heap
      done == Put(head, [j \in 1 .. 4 * n |-> byte(j - 1)])
  IN  [done EXCEPT !.over = @ \/ Len(head.buf) + 8 * n - 4 > head.cap]

PackPacked(w, key) ==
  LET f  == Field[key]
      vs == w.packed[key]
      tagged == Put(Expand(w, 10), Tag(f, LEND))
  IN  IF vs = <<>> THEN w
      ELSE IF WireType(f.ptype) = BIT64 THEN PackPacked64(tagged, f, vs)
      ELSE IF WireType(f.ptype) = BIT32 THEN PackPacked32(tagged, f, vs)
      ELSE PackPackedVarint(tagged, f, vs)

\* A message with its packed fields, in the order of the hash map,
Packs(w, order) == FoldLeft(PackPacked, w, order)

\* and then its sub-messages, flushed already, put at its end.
PutSub(w, s) ==
  Put(Expand(w, 20 + Len(s.bytes)),
      Tag(Field[s.key], LEND) \o Length(Len(s.bytes)) \o s.bytes)

PutSubs(ms, k) ==
  [ms EXCEPT ![k] = FoldLeft(PutSub, @,
     [i \in DOMAIN @.sub |-> [key |-> @.sub[i].key, bytes |-> ms[@.sub[i].msg].buf]])]

\* The messages inside a message come after it.
Flush(order) ==
  FoldLeft(PutSubs, [k \in DOMAIN m |-> Packs(m[k], order)],
           [i \in DOMAIN m |-> Len(m) + 1 - i])

Orders == SetToSeqs({key \in PackedKeys : \E k \in DOMAIN m : m[k].packed[key] # <<>>})

----------------------------------------------------------------------------
Init ==
  /\ m = <<NewMessage(Root)>>
  /\ said = <<Nothing>>
  /\ phase = "write"
  /\ out = <<>>
  /\ seen = {}

Written == {w \in (DOMAIN m) \X Key : said[w[1]][w[2]] # <<>>}

CanWrite(k, key) ==
  /\ phase = "write"
  /\ Field[key].of = m[k].type
  /\ said[k][key] = <<>>
  /\ Cardinality(Written) < MaxKeys

Invalid(key, vs) ==
  Field[key].ptype = "enum" /\ \E i \in DOMAIN vs : vs[i] \notin DOMAIN Enum

\* encode_message writes the value of one key.
EncodeValue == \E k \in DOMAIN m, key \in Key : \E vs \in Values[key] :
  /\ CanWrite(k, key)
  /\ Field[key].ptype # "message"
  /\ ~ Invalid(key, vs)
  /\ m' = [m EXCEPT ![k] = WriteAll(@, key, vs)]
  /\ said' = [said EXCEPT ![k][key] = vs]
  /\ UNCHANGED <<phase, out, seen>>

\* An enum of an unknown name: the binding raises an error and encode is
\* left; the message is never deleted.
EncodeError == \E k \in DOMAIN m, key \in Key : \E vs \in Values[key] :
  /\ CanWrite(k, key)
  /\ Invalid(key, vs)
  /\ phase' = "failed"
  /\ UNCHANGED <<m, said, out, seen>>

\* A sub-message, or one more item of a list of them.
EncodeMessage == \E k \in DOMAIN m, key \in Key :
  /\ phase = "write"
  /\ Field[key].of = m[k].type
  /\ Field[key].ptype = "message"
  /\ said[k][key] = <<>> \/ IsList(Field[key])
  /\ Len(m) < MaxMessages
  /\ Cardinality(Written \cup {<<k, key>>}) <= MaxKeys
  /\ m' = Append([m EXCEPT ![k].sub =
                    Append(@, [msg |-> Len(m) + 1, key |-> key])],
                 NewMessage(Field[key].sub))
  /\ said' = Append([said EXCEPT ![k][key] = Append(@, Len(m) + 1)], Nothing)
  /\ UNCHANGED <<phase, out, seen>>

\* wmessage_buffer flushes every message, and a reader whose schema has
\* some of the keys gets the buffer.
Buffer == \E order \in Orders, keys \in Readers :
  /\ phase = "write"
  /\ m' = Flush(order)
  /\ phase' = "read"
  /\ out' = m'[1].buf
  /\ seen' = keys
  /\ UNCHANGED said

\* wmessage_delete, or the message that was lost; the next encode.
Delete ==
  /\ phase \in {"failed", "read"}
  /\ m' = <<NewMessage(Root)>>
  /\ said' = <<Nothing>>
  /\ phase' = "write"
  /\ out' = <<>>
  /\ seen' = {}

----------------------------------------------------------------------------
TypeOK ==
  /\ phase \in {"write", "pack", "failed", "read"}
  /\ out \in Seq(Byte)
  /\ seen \subseteq Key
  /\ DOMAIN said = DOMAIN m
  /\ \A k \in DOMAIN m :
       /\ m[k].type \in Type
       /\ m[k].buf \in Seq(Byte)
       /\ m[k].cap \in Nat
       /\ DOMAIN m[k].packed = PackedKeys
       /\ \A i \in DOMAIN m[k].sub : m[k].sub[i].msg \in (k + 1) .. Len(m)
=============================================================================
