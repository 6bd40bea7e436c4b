---------------------------- MODULE MCPbcRegister ---------------------------
(***************************************************************************)
(* Files that import each other in a line (fc, fb, fa), in a ring (fd, fe),*)
(* one that no set brings along (fg imports fh) and the file of the        *)
(* descriptors (fi).  fb and fc extend types of other files, fc type A by  *)
(* a second field with the name x; numbers are small, sparse and negative, *)
(* and hashes collide.                                                     *)
(***************************************************************************)
EXTENDS PbcRegister, TLC

CONSTANTS fa, fb, fc, fd, fe, fg, fh, fi, descriptor

MCDeps == fa :> {} @@ fb :> {fa} @@ fc :> {fa, fb} @@ fd :> {fe} @@ fe :> {fd}
          @@ fg :> {fh} @@ fh :> {} @@ fi :> {descriptor}

Plain(name, id) == [name |-> name, id |-> id, kind |-> "plain", ref |-> NULL, def |-> NULL]
Msg(name, id, ref) == [name |-> name, id |-> id, kind |-> "message", ref |-> ref, def |-> NULL]
Enm(name, id, ref, def) == [name |-> name, id |-> id, kind |-> "enum", ref |-> ref, def |-> def]

Message(type, fields) == [what |-> "message", type |-> type, fields |-> fields]
Enumeration(type, values) == [what |-> "enum", type |-> type, values |-> values]
Extend(fields) == [what |-> "extend", fields |-> fields]
On(of, field) == [of |-> of, field |-> field]
V(name, n) == [key |-> n, ptr |-> name]

MCDecls ==
  fa :> << Enumeration("color", <<V("red", 0), V("green", 1), V("blue", 4), V("azure", 4)>>),
          Message("A", <<Plain("x", 1), Enm("y", 2, "color", "green"), Msg("z", 9, "A")>>),
          Message("N", <<>>) >>
  @@ fb :> << Enumeration("level", <<V("low", - 1), V("mid", 5), V("high", 1000)>>),
             Message("B", <<Msg("x", 1, "A"), Enm("y", 15, "level", NULL)>>),
             Extend(<<On("A", Msg("w", 100, "B"))>>) >>
  @@ fc :> << Message("C", <<Msg("x", 3, "N"), Enm("y", 4, "level", "high")>>),
             Extend(<<On("A", Plain("p", 101)), On("B", Msg("q", 102, "C")),
                      On("A", Plain("r", 103)), On("A", Msg("x", 104, "N")), On("N", Plain("s", 5))>>) >>
  @@ fd :> << Message("D", <<Msg("x", 1, "E")>>) >>
  @@ fe :> << Message("E", <<Msg("x", 1, "D")>>) >>
  @@ fg :> << Message("G", <<Msg("x", 1, "H")>>) >>
  @@ fh :> << Message("H", <<Plain("x", 1)>>) >>
  @@ fi :> << Message("I", <<Plain("x", 1)>>) >>

MCSets == {<<>>, <<fc, fb, fa>>, <<fb, fa, fb>>, <<fc, fa>>, <<fd, fa, fe>>, <<fg, fi>>, <<fh>>, <<fb, fc>>}

MCName == {"x", "y", "z", "w", "p", "q", "r", "s",
           "red", "green", "blue", "azure", "low", "mid", "high"}

MCHash == [name \in MCName |->
  CASE name \in {"x", "w", "low"} -> 5
    [] name \in {"y", "p", "red", "mid"} -> 6
    [] name \in {"z", "r", "azure"} -> 9
    [] OTHER -> 3]
=============================================================================
