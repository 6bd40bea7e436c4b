------------------------------- MODULE PbcStore -----------------------------
(***************************************************************************)
(* Where the values of a message are kept: on a heap (alloc.c) that only   *)
(* grows, under names of a hash map (map.c) and in arrays (array.c).  The  *)
(* index of an rmessage is filled atom by atom in a map with a slot for    *)
(* every atom (_pbc_rmessage_new of rmessage.c); the packed fields of a    *)
(* wmessage in a map that starts with four slots (_get_packed and          *)
(* _packed_integer of wmessage.c).                                         *)
(***************************************************************************)
EXTENDS PbcMap

CONSTANTS
  Singular,     \* the names that hold one value; the others hold lists
  Value,
  PageSize,     \* the bytes of a page (_pbcH_new)
  InnerField,   \* values that fit the array itself
  MapSize, SlotSize, ArraySize, ValueSize, VarSize,  \* in bytes
  Counts,       \* the numbers of atoms of a buffer that is read
  MaxPacked     \* bound: values put in the packed lists of a wmessage

ASSUME NamesAssumption == Singular \subseteq Name
\* The size of a buffer is an int and an atom takes two of its bytes at least,
\* so that their number, and with it those of slots and of values, can be
\* doubled (_pbcC_open, rehash, _pbcA_push).
ASSUME SizesAssumption ==
  /\ {PageSize, InnerField, MapSize, SlotSize, ArraySize, ValueSize, VarSize} \subseteq Nat
  /\ InnerField + 1 < 2^30
  /\ Counts \subseteq 0 .. 2^30 - 1 /\ MaxPacked \in 0 .. 2^30 - 1

VARIABLES
  index,   \* whether this is the index of an rmessage
  left,    \* the atoms that are still to come
  heap,    \* [pages: the sizes of the pages, the current one last; used: the
           \* bytes of that one; blocks: all that was allocated]
  map,     \* the map, its pointers positions in values
  values,  \* the values: [room, items]
  repeated \* whether a single value has come twice

vars == <<index, left, heap, map, values, repeated>>

----------------------------------------------------------------------------
\* _pbcH_alloc, which never takes anything back.  A request of no bytes
\* stands for none.
Align(size) == ((size + 3) \div 4) * 4

\* A new page is used from its start.
Alloc_NotUsed(h, size) ==
  LET sz == Align(size)
  IN  CASE size = 0 -> h
        [] size # 0 /\ h.used + sz > PageSize ->
             [pages |-> Append(h.pages, IF sz < PageSize THEN PageSize ELSE sz),
              used |-> 0,
              blocks |-> Append(h.blocks, [page |-> Len(h.pages) + 1,
                                           at |-> 0, size |-> size])]
        [] OTHER ->
             [pages |-> h.pages,
              used |-> h.used + sz,
              blocks |-> Append(h.blocks, [page |-> Len(h.pages),
                                           at |-> h.used, size |-> size])]

\* A block that does not fit the current page gets a new page, of its own
\* size if it is a large one; what was left of the old page is not used.
Alloc(h, size) ==
  LET sz == Align(size)
  IN  CASE size = 0 -> h
        [] size # 0 /\ h.used + sz > PageSize ->
             [pages |-> Append(h.pages, IF sz < PageSize THEN PageSize ELSE sz),
              used |-> sz,
              blocks |-> Append(h.blocks, [page |-> Len(h.pages) + 1,
                                           at |-> 0, size |-> size])]
        [] OTHER ->
             [pages |-> h.pages,
              used |-> h.used + sz,
              blocks |-> Append(h.blocks, [page |-> Len(h.pages),
                                           at |-> h.used, size |-> size])]

NewHeap == [pages |-> <<PageSize>>, used |-> 0, blocks |-> <<>>]

----------------------------------------------------------------------------
\* _pbcA_push: the values beyond those that fit inside go to an outer array,
\* which is left for one twice as large before it is full.
Power(n) == \E k \in 0 .. 30 : n = 2^k
NextPower(n) == 2^Least(0 .. 30, LAMBDA k : 2^k > n)

\* The room of the new outer array for the value behind n others, or 0.
PushRoom(n) ==
  CASE n = InnerField -> NextPower(n + 1)
    [] n > InnerField /\ Power(n + 1) -> (n + 1) * 2
    [] OTHER -> 0

NewArray == [room |-> InnerField, items |-> <<>>]

\* What is copied to a larger array is always what fits the inner one.
Push_CopiesInner(a, v) ==
  LET room == PushRoom(Len(a.items))
  IN  IF room = 0 THEN [a EXCEPT !.items = Append(@, v)]
      ELSE [room |-> room, items |-> Append(SubSeq(a.items, 1, InnerField), v)]

Push(a, v) ==
  [room |-> IF PushRoom(Len(a.items)) = 0 THEN a.room
            ELSE PushRoom(Len(a.items)),
   items |-> IF Len(a.items) < PushRoom(Len(a.items)) \/ Len(a.items) < a.room
             THEN Append(a.items, v) ELSE a.items]

----------------------------------------------------------------------------
\* The bytes that a growing map and a growing array ask for.
SlotsFor(new) == IF new.cap = map.cap THEN 0 ELSE new.cap * SlotSize
OuterFor(a) == PushRoom(Len(a.items)) * VarSize

\* A new map on a new heap.
HeapFor(new) == Alloc(Alloc(NewHeap, MapSize), new.cap * SlotSize)

Init ==
  /\ \/ index = TRUE /\ left \in Counts /\ map = SpNew(left)
     \/ index = FALSE /\ left = MaxPacked /\ map = SpNew(4)
  /\ heap = HeapFor(map)
  /\ values = <<>>
  /\ repeated = FALSE

\* Values are told apart by when they come.
Coming == {v \in Value : v = left}

\* A value for a list; the array is made when there is none under the name.
Add == \E key \in Name \ Singular, v \in Coming :
  LET found == QueryInsert(map, key)
      at    == Query(found, key)
      list  == IF at = NULL THEN NewArray ELSE values[at]
      made  == IF at = NULL THEN ArraySize ELSE 0
  IN  /\ left > 0
      /\ left' = left - 1
      /\ heap' = Alloc(Alloc(Alloc(heap, SlotsFor(found)), made), OuterFor(list))
      /\ IF at = NULL
         THEN /\ values' = Append(values, Push(list, v))
              /\ map' = SetPointer(found, key, Len(values) + 1)
         ELSE /\ values' = [values EXCEPT ![at] = Push(list, v)]
              /\ map' = found
      /\ UNCHANGED <<index, repeated>>

\* An atom that has no value for its list (packed data that does not come
\* out even): an array that stays empty is taken out again, its name stays.
Reject == \E key \in Name \ Singular :
  LET found == QueryInsert(map, key)
      at    == Query(found, key)
      made  == IF at = NULL THEN ArraySize ELSE 0
  IN  /\ index /\ left > 0
      /\ left' = left - 1
      /\ heap' = Alloc(Alloc(heap, SlotsFor(found)), made)
      /\ map' = found
      /\ UNCHANGED <<index, values, repeated>>

\* A single value is put under its name whether it is there or not.
Put == \E key \in Singular, v \in Coming :
  LET new == Insert(map, key, Len(values) + 1)
  IN  /\ index /\ left > 0
      /\ left' = left - 1
      /\ heap' = Alloc(Alloc(heap, ValueSize), SlotsFor(new))
      /\ map' = new
      /\ values' = Append(values, [room |-> 1, items |-> <<v>>])
      /\ repeated' = (repeated \/ Query(map, key) # NULL)
      /\ UNCHANGED index

\* The message is deleted with its heap, and another one begins.
Delete ==
  /\ left = 0
  /\ IF index THEN left' \in Counts /\ map' = SpNew(left')
              ELSE left' = MaxPacked /\ map' = SpNew(4)
  /\ heap' = HeapFor(map')
  /\ values' = <<>>
  /\ repeated' = FALSE
  /\ UNCHANGED index

Next == Add \/ Reject \/ Put \/ Delete

Spec == Init /\ [][Next]_vars

----------------------------------------------------------------------------
Stored == {key \in Name : \E i \in 1 .. map.cap : map.slot[i].key = key}
Listed == {key \in Stored : Query(map, key) # NULL}

TypeOK ==
  /\ index \in BOOLEAN /\ repeated \in BOOLEAN
  /\ left \in Nat
  /\ map.size = Cardinality({i \in 1 .. map.cap : map.slot[i].key # NULL})
  /\ Power(map.cap)
  /\ \A i \in 1 .. map.cap :
       /\ map.slot[i].key \in Name \cup {NULL}
       /\ map.slot[i].ptr \in DOMAIN values \cup {NULL}
       /\ map.slot[i].next \in 0 .. map.cap
  /\ \A i \in DOMAIN values : values[i].items \in Seq(Value)

\* Every name that was stored is found from its home slot, and every search
\* ends: chains are never cut and never closed to a ring, although a key may
\* sit in the home slot of another one and be moved by a rehash.
ChainsSound ==
  /\ TypeOK
  /\ \A key \in Stored : Find(map, key) # 0
  /\ \A i \in 1 .. map.cap : 0 \in {Step(map.slot, i)[n] : n \in 0 .. map.cap}

\* The rmessage_next of a program visits every name that has a value once
\* and comes to an end, and so does the foreach that packs a wmessage's
\* lists.  (Not so when a single value has come twice: the name that next
\* looks up is then in two slots.)
VisitsEach == ~ repeated =>
  LET visit[n \in 0 .. Cardinality(Listed) + 1] ==
        IF n = 0 THEN NULL ELSE NextKey(map, visit[n - 1])
      last == Cardinality(Listed) + 1
  IN  /\ {visit[n] : n \in 1 .. last - 1} = Listed
      /\ visit[last] = NULL
      /\ {Foreach(map)[i] : i \in DOMAIN Foreach(map)}
           = {Query(map, key) : key \in Listed}
      /\ Cardinality(DOMAIN Foreach(map)) = Cardinality(Listed)

\* Every block of h ends within its page and begins behind those before it.
Apart(h) ==
  LET b == h.blocks
  IN  \A i \in DOMAIN b :
        /\ b[i].at + b[i].size <= h.pages[b[i].page]
        /\ \A j \in 1 .. i - 1 : \/ b[j].page # b[i].page
                                 \/ b[j].at + b[j].size <= b[i].at

\* What the heap of the message has given away lies within a page and apart
\* from all else that it has given away (_pbcH_alloc).
BlocksApart == Apart(heap)

\* The map, the arrays and the heap together keep for every name the values
\* that were stored under it, in their order.
Contents == [key \in Name |->
  LET at == Query(map, key) IN IF at = NULL THEN <<>> ELSE values[at].items]

Store == INSTANCE NameStore WITH contents <- Contents

KeepsContents == Store!Spec
=============================================================================
