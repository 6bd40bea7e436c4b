-------------------------------- MODULE MCPbc -------------------------------
(***************************************************************************)
(* A type with a field of almost every type and label, and one inside it;  *)
(* numbers at the ends of their ranges, texts around the sizes at which a  *)
(* length takes one byte more and a buffer grows; patterns that narrow     *)
(* their values, and one that is refused; a reader with an older schema.   *)
(* Left out are packed fields of 32 bits and sint64 in patterns, which the *)
(* code does not get right (README, section 5).                            *)
(***************************************************************************)
EXTENDS PbcReader, TLC
F(of, id, ptype, label, defv, sub) ==
  [of |-> of, id |-> id, ptype |-> ptype, label |-> label,
   defv |-> defv, sub |-> sub]

None == "none"
Zero == {}
MinusOne == Bits(64)
One == {0}
Five == {0, 2}
Pow31 == {31}
Big == {0, 32, 63}
Text(n) == [i \in 1 .. n |-> {0, 5, 6}]
\* doubles: 1.0, -0.0, 0.1
DOne == 52 .. 61
DMinusZero == {63}
MCFloatOf == [d \in {{}, DOne, DMinusZero} |->
  CASE d = {} -> {} [] d = DOne -> 23 .. 29 [] OTHER -> {31}]
MCDoubleOf == [f \in {{}, 23 .. 29, {31}} |->
  CASE f = {} -> {} [] f = {31} -> {63} [] OTHER -> DOne]

MCEnum == [red |-> One, blue |-> {0, 1, 2, 3, 4, 5, 6, 7}]

MCField == [
  i64  |-> F("R", 1, "int64", "optional", Zero, None),
  i32  |-> F("R", 2, "int32", "optional", Five, None),
  s32  |-> F("R", 3, "sint32", "required", Zero, None),
  s64  |-> F("R", 16, "sint64", "optional", Zero, None),
  u32  |-> F("R", 4, "uint32", "optional", Zero, None),
  flag |-> F("R", 5, "bool", "optional", One, None),
  f64  |-> F("R", 6, "fixed64", "optional", Zero, None),
  f32  |-> F("R", 7, "sfixed32", "optional", Zero, None),
  dbl  |-> F("R", 8, "double", "optional", Zero, None),
  flt  |-> F("R", 9, "float", "optional", DOne, None),
  str  |-> F("R", 10, "string", "optional", Text(1), None),
  byt  |-> F("R", 11, "bytes", "optional", <<>>, None),
  enm  |-> F("R", 12, "enum", "optional", "red", None),
  sub  |-> F("R", 13, "message", "optional", Zero, "S"),
  subs |-> F("R", 14, "message", "repeated", Zero, "S"),
  rep  |-> F("R", 15, "int32", "repeated", Zero, None),
  reps |-> F("R", 20, "string", "repeated", Text(1), None),
  pack |-> F("R", 17, "int64", "packed", Zero, None),
  pdbl |-> F("R", 18, "double", "packed", Zero, None),
  penm |-> F("R", 19, "enum", "packed", "red", None),
  x    |-> F("S", 1, "int32", "optional", Zero, None),
  xs   |-> F("S", 2, "sint32", "packed", Zero, None)]

MCKey == DOMAIN MCField

MCValues == [key \in MCKey |->
  CASE key = "i64" -> {<<Zero>>, <<MinusOne>>, <<Big>>}
    [] key \in {"i32"} -> {<<Zero>>, <<Five>>, <<MinusOne>>}
    [] key = "s32" -> {<<Zero>>, <<{30}>>, <<MinusOne>>}
    [] key = "s64" -> {<<Big>>, <<MinusOne>>}
    [] key = "u32" -> {<<Pow31>>}
    [] key = "flag" -> {<<Zero>>, <<One>>}
    [] key = "f64" -> {<<Big>>}
    [] key = "f32" -> {<<Five>>}
    [] key \in {"dbl", "flt"} -> {<<DOne>>, <<DMinusZero>>}
    [] key = "str" -> {<< <<>> >>, <<Text(1)>>, <<Text(1) \o <<{}>> >>, <<Text(130)>>}
    [] key = "byt" -> {<< <<>> >>, <<Text(111)>>}
    [] key = "enm" -> {<<"red">>, <<"blue">>, <<"green">>}
    [] key = "rep" -> {<<Zero, MinusOne>>}
    [] key = "reps" -> {<<Text(1), <<>>, Text(2)>>}
    [] key = "pack" -> {<<Zero>>, <<Five, Big>>, [i \in 1 .. 13 |-> MinusOne]}
    [] key = "pdbl" -> {<<DOne, DMinusZero>>}
    [] key = "penm" -> {<<"blue", "red">>, <<"green">>}
    [] key = "x" -> {<<Five>>}
    [] key = "xs" -> {<<MinusOne, Five>>}
    [] OTHER -> {}]

MCPatterns == {
  [i32 |-> "int32", s32 |-> "int32", u32 |-> "int64", flag |-> "int32",
   f32 |-> "int32", dbl |-> "double", str |-> "var", byt |-> "var",
   enm |-> "int32", sub |-> "var", subs |-> "array", reps |-> "array",
   pack |-> "packed", pdbl |-> "packed"],
  [i64 |-> "int64", flag |-> "bool", flt |-> "float", enm |-> "int8",
   f64 |-> "int64", rep |-> "array"],
  [enm |-> "bool", s32 |-> "int32"]}

MCReaders == {MCKey, MCKey \ {"i64", "byt", "f64", "f32", "subs", "xs", "pack"}}
=============================================================================
