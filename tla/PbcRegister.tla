----------------------------- MODULE PbcRegister ----------------------------
(***************************************************************************)
(* How the types of .proto files come to be known (register.c, proto.c and *)
(* set_field_one of bootstrap.c).  A call of pbc_register brings the files *)
(* of a FileDescriptorSet in any order; those whose dependencies are there *)
(* are registered, pass after pass, until none is left or a pass has got   *)
(* no further.  A failed call leaves what it has registered.               *)
(***************************************************************************)
EXTENDS PbcMap

CONSTANTS
  File,     \* the files there are
  Base,     \* the file of the descriptors, registered by bootstrap.c
  Deps,     \* File -> names of files it imports
  Decls,    \* File -> its declarations, in the order _register reaches them
  Sets      \* the FileDescriptorSets a program registers: lists of files

ASSUME DepsAssumption == Base \notin File /\ Deps \in [File -> SUBSET (File \cup {Base})]
ASSUME SetsAssumption == \A set \in Sets : set \in Seq(File)

\* The fields that a declaration brings, each with its type; those of the
\* declarations of some files.
Brought(d) ==
  CASE d.what = "message" -> [i \in DOMAIN d.fields |-> [of |-> d.type, field |-> d.fields[i]]]
    [] d.what = "enum" -> <<>>
    [] d.what = "extend" -> d.fields
Declared(S) ==
  UNION {UNION {Range(Brought(d)) : d \in Range(Decls[file])} : file \in S}

\* protoc wrote the files, having seen all of them together, and has seen to
\* what the language asks: an enum has values, with a name each; types, and the
\* numbers of the fields of a type, occur once; a field's type, and an enum's
\* default, is declared in the file or in one that it imports, itself or
\* through others.  It does not see to the names: a file without a package may
\* extend a type by a field with the name of another field.
WellFormed(d) ==
  /\ d.what # "extend" => d.type # NULL
  /\ d.what = "enum" =>
       /\ d.values \in Seq([key : Int, ptr : Name]) /\ d.values # <<>>
       /\ \A i, j \in DOMAIN d.values : d.values[i].ptr = d.values[j].ptr => i = j
  /\ d.what = "message" => d.fields \in Seq(Range(d.fields))
  /\ d.what = "extend" => d.fields \in Seq(Range(d.fields)) /\ d.fields # <<>>
  /\ \A b \in Range(Brought(d)) :
       /\ b.field.name \in Name /\ b.field.id \in Int /\ b.field # NULL
       /\ b.field.kind \in {"plain", "message", "enum"}
Defines(d, f) ==
  /\ d.what = f.kind /\ d.type = f.ref
  /\ f.kind = "enum" /\ f.def # NULL => \E v \in Range(d.values) : v.ptr = f.def

SameType(c, d) == c.what # "extend" /\ d.what = c.what /\ d.type = c.type
SameField(b, c) == b.of = c.of /\ b.field.id = c.field.id

ASSUME WrittenAssumption ==
  /\ NULL \notin Int
  /\ \A file \in File :
       /\ Decls[file] \in Seq(Range(Decls[file]))
       /\ \A d \in Range(Decls[file]) :
            d.what \in {"message", "enum", "extend"} /\ WellFormed(d)
ASSUME TypesAssumption ==
  \A a, b \in File : \A j \in DOMAIN Decls[a], k \in DOMAIN Decls[b] :
    SameType(Decls[a][j], Decls[b][k]) => a = b /\ j = k
ASSUME FieldsAssumption ==
  \A a, b \in File : \A j \in DOMAIN Decls[a], k \in DOMAIN Decls[b] :
    \A x \in DOMAIN Brought(Decls[a][j]), y \in DOMAIN Brought(Decls[b][k]) :
      SameField(Brought(Decls[a][j])[x], Brought(Decls[b][k])[y])
        => a = b /\ j = k /\ x = y
ASSUME RefsAssumption ==
  \A file \in File, S \in SUBSET File : file \in S /\ (\A x \in S : Deps[x] \subseteq S) =>
    \A b \in Declared({file}) : b.field.kind # "plain" =>
      \E x \in S : \E d \in Range(Decls[x]) : Defines(d, b.field)

\* A type is declared, in this file or in another, before a field is added to
\* it from outside.  protoc lets a nested extend come before its message:
\* then the environment keeps a name in memory that is freed (proto.c:98,102
\* keep extendee + 1, register.c:337 deletes it), and there is no saying what
\* is found afterwards.
ASSUME ExtendeeAssumption ==
  \A file \in File : \A j \in DOMAIN Decls[file] : Decls[file][j].what = "extend" =>
    \A b \in Range(Decls[file][j].fields), S \in SUBSET File :
      Deps[file] \subseteq S /\ (\A x \in S : Deps[x] \subseteq S) =>
        \E d \in UNION {Range(Decls[x]) : x \in S}
                 \cup {Decls[file][i] : i \in 1 .. j - 1} :
          d.what = "message" /\ d.type = b.of

\* The fields of a type are so few that its map of names can be doubled.
ASSUME FewAssumption == \A type \in {b.of : b \in Declared(File)} :
  LET own == {b \in Declared(File) : b.of = type}
  IN  IsFiniteSet(own) /\ Cardinality(own) < 2^30

VARIABLES
  files,    \* the names of registered files, with their string pools
  msgs,     \* type -> [name: its fields by name, id: its fields by number]
  enums,    \* type -> [id, name, first: what an absent value is]
  link,     \* <<type, number>> -> what type_name and the default of a field came to
  todo,     \* the files of the call, NULL where one has been registered
  at,       \* the file that is looked at next; 0 when there is no call
  found,    \* files of this pass that miss a dependency
  before,   \* files of the last pass that did
  result    \* of the last call: "none", "ok", "empty" or "dependency"

vars == <<files, msgs, enums, link, todo, at, found, before, result>>

----------------------------------------------------------------------------
\* The types, as they are built from declarations: e is [msgs, enums, queue].

\* Entries that are put into a map, over those that it has.
Over(new, old) ==
  [k \in DOMAIN new \cup DOMAIN old |-> IF k \in DOMAIN new THEN new[k] ELSE old[k]]

NewType == [name |-> SpNew(0), id |-> NoMap]
TypeIn(e, type) == IF type \in DOMAIN e.msgs THEN e.msgs[type] ELSE NewType

\* _pbcP_push_message: the field is in the index of names alone; messages
\* and enums wait in the queue for the end of the file.
PushMessage(e, type, f) ==
  LET t == TypeIn(e, type)
  IN  [e EXCEPT
        !.msgs = Over([k \in {type} |-> [t EXCEPT !.name = Insert(@, f.name, f)]], @),
        !.queue = IF f.kind = "plain" THEN @ ELSE Append(@, <<type, f>>)]

\* The fields of a type as foreach finds them.
Table(t) ==
  FoldLeft(LAMBDA table, s : IF s.ptr = NULL THEN table
                             ELSE Append(table, [key |-> s.ptr.id, ptr |-> s.ptr]),
           <<>>, t.name.slot)

\* _pbcP_init_message: the index of numbers is built anew from that of names;
\* a type without fields has none.
InitMessage(e, type) ==
  LET t == TypeIn(e, type)
  IN  [e EXCEPT !.msgs = Over([k \in {type} |->
        IF type \notin DOMAIN e.msgs THEN t
        ELSE [t EXCEPT !.id = IpNew(Table(t))]], @)]

\* _pbcP_push_enum: a second enum of a name is ignored.
PushEnum(e, type, values) ==
  IF type \in DOMAIN e.enums THEN e
  ELSE [e EXCEPT !.enums = Over([k \in {type} |->
    [id |-> IpNew(values), first |-> values[1].key,
     name |-> SiNew([i \in DOMAIN values |->
                       [key |-> values[i].ptr, ptr |-> values[i].key]])]], @)]

RegisterMessage(e, d) ==
  InitMessage(FoldLeft(LAMBDA x, f : PushMessage(x, d.type, f), e, d.fields),
              d.type)

\* The index of numbers is built when the extensions of another type begin.
RegisterExtension_OneType(e, d) ==
  LET push(x, i) == PushMessage(x, d.fields[i].of, d.fields[i].field)
  IN  InitMessage(FoldLeft(push, e, [i \in DOMAIN d.fields |-> i]),
                  d.fields[Len(d.fields)].of)

\* _register_extension: after the fields of one extendee its index is built.
RegisterExtension(e, d) ==
  LET push(x, i) ==
        LET of == d.fields[i].of
            y  == PushMessage(x, of, d.fields[i].field)
        IN  IF i = 1 \/ d.fields[i - 1].of = of THEN y
            ELSE InitMessage(y, d.fields[i - 1].of)
  IN  InitMessage(FoldLeft(push, e, [i \in DOMAIN d.fields |-> i]),
                  d.fields[Len(d.fields)].of)

Declare(e, d) ==
  CASE d.what = "message" -> RegisterMessage(e, d)
    [] d.what = "enum" -> PushEnum(e, d.type, d.values)
    [] d.what = "extend" -> RegisterExtension(e, d)

\* set_field_one: the type of a message, of an enum also its default, which
\* is the first value unless there is another.
SetField(e, f) ==
  LET type == IF f.ref \in (IF f.kind = "enum" THEN DOMAIN e.enums ELSE DOMAIN e.msgs)
              THEN f.ref ELSE NULL
  IN  [type |-> type,
       def |-> IF f.kind = "message" \/ type = NULL THEN NULL
               ELSE IF f.def = NULL THEN e.enums[type].first
               ELSE SiQuery(e.enums[type].name, f.def)]

----------------------------------------------------------------------------
Init ==
  /\ files = {}
  /\ msgs = <<>> /\ enums = <<>> /\ link = <<>>
  /\ todo = <<>> /\ at = 0 /\ found = 0 /\ before = 0
  /\ result = "none"

\* pbc_register.
Call == \E set \in Sets :
  /\ at = 0
  /\ IF set = <<>> THEN result' = "empty" /\ UNCHANGED <<todo, at, before>>
     ELSE /\ todo' = set /\ at' = 1 /\ before' = Len(set)
          /\ result' = "none"
  /\ found' = 0
  /\ UNCHANGED <<files, msgs, enums, link>>

\* _check_file_name: the file of the descriptors is in the map with no pool,
\* and so is not found there.
Exists(file) == file \in files

Misses_None(file) == FALSE

Misses(file) == Deps[file] \ files # {}

InPass == at \in DOMAIN todo

\* A file that is done, or was registered before.
Pass ==
  /\ InPass
  /\ todo[at] = NULL \/ Exists(todo[at])
  /\ at' = at + 1
  /\ UNCHANGED <<files, msgs, enums, link, todo, found, before, result>>

Miss ==
  /\ InPass
  /\ todo[at] # NULL /\ ~ Exists(todo[at]) /\ Misses(todo[at])
  /\ found' = found + 1
  /\ at' = at + 1
  /\ UNCHANGED <<files, msgs, enums, link, todo, before, result>>

\* _register: the declarations of the file, then the fields that wait.
Register ==
  /\ InPass
  /\ todo[at] # NULL /\ ~ Exists(todo[at]) /\ ~ Misses(todo[at])
  /\ LET e == FoldLeft(Declare, [msgs |-> msgs, enums |-> enums, queue |-> <<>>],
                       Decls[todo[at]])
         Key(i) == <<e.queue[i][1], e.queue[i][2].id>>
     IN  /\ msgs' = e.msgs
         /\ enums' = e.enums
         /\ link' = Over([k \in {Key(i) : i \in DOMAIN e.queue} |->
                 SetField(e, e.queue[CHOOSE i \in DOMAIN e.queue : Key(i) = k][2])], link)
  /\ files' = files \cup {todo[at]}
  /\ todo' = [todo EXCEPT ![at] = NULL]
  /\ at' = at + 1
  /\ UNCHANGED <<found, before, result>>

\* One pass is enough.
EndPass_First(rest, last) == TRUE

\* The end of a pass looks only for files that are left.
EndPass_NoProgress(rest, last) == rest = 0

\* A pass that has found as many files as the last one got no further.
EndPass(rest, last) == rest = 0 \/ rest = last

Finish ==
  /\ at = Len(todo) + 1 /\ todo # <<>>
  /\ IF EndPass(found, before)
     THEN /\ result' = IF found = before THEN "dependency" ELSE "ok"
          /\ todo' = <<>> /\ at' = 0
          /\ before' = 0
     ELSE /\ at' = 1 /\ before' = found
          /\ UNCHANGED <<result, todo>>
  /\ found' = 0
  /\ UNCHANGED <<files, msgs, enums, link>>

Next == Call \/ Pass \/ Miss \/ Register \/ Finish

\* A call is a loop that nothing interrupts: it always takes another step,
\* and each of its steps moves on to another file or pass.
Advance == at # 0 /\ at' \in (0 .. Len(todo) + 1) \ {at}

Spec == Init /\ [][Next]_vars /\ WF_at(Advance)

----------------------------------------------------------------------------
\* What the registered files declare of a type.
Fields(type) == {b.field : b \in {b \in Declared(files) : b.of = type}}

Numbers == UNION {{f.id : f \in Fields(type)} : type \in DOMAIN msgs}

TypeOK ==
  /\ files \subseteq File
  /\ at \in 0 .. Len(todo) + 1
  /\ found <= before /\ before <= Len(todo)
  /\ result \in {"none", "ok", "empty", "dependency"}
  /\ DOMAIN link = UNION {
       {<<type, f.id>> : f \in {f \in Fields(type) : f.kind # "plain"}} :
         type \in DOMAIN msgs}

\* A field of a registered type, its own or one that a later file has added
\* from outside, is found by its number, and by its name unless another field
\* of the type has that name and is found; nothing is found under a number
\* that the type has not: what encode and decode rest on, whether the numbers
\* are few and small or need the hashed index.
IndexSound == TypeOK /\ \A type \in DOMAIN msgs :
  LET t == msgs[type]
  IN  /\ \A f \in Fields(type) :
           /\ IpQuery(t.id, f.id) = f
           /\ Query(t.name, f.name) \in {g \in Fields(type) : g.name = f.name}
      /\ \A n \in {0} \cup Numbers :
           (\A f \in Fields(type) : f.id # n) => IpQuery(t.id, n) = NULL

\* Every name of an enum has its number and every number of it a name with
\* that number, also negative numbers and numbers with several names.
EnumsSound == \A file \in files : \A d \in Range(Decls[file]) : d.what = "enum" =>
  LET e == enums[d.type]
      Says(name, n) == \E v \in Range(d.values) : v.ptr = name /\ v.key = n
  IN  \A v \in Range(d.values) :
        /\ SiQuery(e.name, v.ptr) = v.key
        /\ Says(IpQuery(e.id, v.key), v.key)

\* No field of a registered type is left without the type it names, in
\* whatever order the files came and whichever calls have failed before, and
\* an absent enum has a value of its enum.
Linked == \A type \in DOMAIN msgs : \A f \in Fields(type) : f.kind # "plain" =>
  /\ link[<<type, f.id>>].type = f.ref
  /\ f.kind = "enum" => IpQuery(enums[f.ref].id, link[<<type, f.id>>].def) # NULL

\* A call that has succeeded has registered all its files, and one that has
\* failed as many as it could: each one that is left misses a dependency.
Verdict == [][
  LET left == {i \in DOMAIN todo : todo[i] # NULL /\ ~ Exists(todo[i])}
  IN  /\ Finish /\ result' = "ok" => left = {}
      /\ Finish /\ result' = "dependency" =>
           left # {} /\ \A i \in left : Misses(todo[i])]_vars

\* Every call comes to an end, also when files depend on each other or on
\* one that does not come.
CallEnds == at # 0 ~> at = 0
=============================================================================
