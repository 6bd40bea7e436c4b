-------------------------------- MODULE PbcMap ------------------------------
(***************************************************************************)
(* The hash maps of protocol buffers (src/lualib-src/pbc/src/map.c): sp    *)
(* from names to pointers, which grows; ip from numbers and si from names, *)
(* which are built once from a table.  Slots are numbered from 1 and 0     *)
(* ends a chain.  A stored hash is the hash of the stored key, so keys are *)
(* compared alone.                                                         *)
(***************************************************************************)
EXTENDS Integers, Sequences, FiniteSetsExt, SequencesExt

CONSTANTS
  Name,      \* the keys: C strings
  Hash,      \* Name -> calc_hash of it
  NULL       \* no key, no pointer

\* A pointer may be a number, that of a value.
ASSUME HashAssumption == Hash \in [Name -> Nat] /\ NULL \notin Name \cup Nat

Free == [key |-> NULL, ptr |-> NULL, next |-> 0]
Slots(cap) == [i \in 1 .. cap |-> Free]

Least(S, P(_)) == CHOOSE x \in S : P(x) /\ \A y \in S : P(y) => x <= y

----------------------------------------------------------------------------
\* A map: the number of its slots, a power of two, how many are taken, and
\* the slots.
SpNew(max) ==
  LET cap == 2^Least(0 .. max, LAMBDA i : 2^i >= max)
  IN  [cap |-> cap, size |-> 0, slot |-> Slots(cap)]

HomeOf(slot, hash) == (hash % Len(slot)) + 1

\* The n-th slot of the chain that starts at a slot, 0 behind its end.
Step(slot, start) ==
  LET after(i) == IF i = 0 THEN 0 ELSE slot[i].next
      step[n \in 0 .. Len(slot)] ==
        IF n = 0 THEN start ELSE after(step[n - 1])
  IN  step

\* The first slot of the chain that holds what is looked for, 0 for none.
Search(slot, start, Holds(_)) ==
  LET step == Step(slot, start)
      Hit(n) == step[n] # 0 /\ Holds(slot[step[n]])
  IN  IF \E n \in DOMAIN step : Hit(n) THEN step[Least(DOMAIN step, Hit)] ELSE 0

Find(map, key) ==
  Search(map.slot, HomeOf(map.slot, Hash[key]), LAMBDA s : s.key = key)

Query(map, key) ==
  LET i == Find(map, key) IN IF i = 0 THEN NULL ELSE map.slot[i].ptr

\* The next free slot behind a slot, cyclically.
FreeAfter(slot, i) ==
  LET At(d) == (((i - 1) + d) % Len(slot)) + 1
  IN  At(Least(1 .. Len(slot), LAMBDA d : slot[At(d)].key = NULL))

\* A slot that is not its key's own is made the second and last one.
Place_CutsChain(slot, key, ptr) ==
  LET home == HomeOf(slot, Hash[key])
      new(next) == [key |-> key, ptr |-> ptr, next |-> next]
      i == FreeAfter(slot, home)
  IN  IF slot[home].key = NULL THEN [slot EXCEPT ![home] = new(0)]
      ELSE [slot EXCEPT ![i] = new(0), ![home].next = i]

\* The home slot of a key if it is free; otherwise a free slot, the second
\* of the chain that goes through the home slot, whoever has that.
Place(slot, key, ptr) ==
  LET home == HomeOf(slot, Hash[key])
      new(next) == [key |-> key, ptr |-> ptr, next |-> next]
      i == FreeAfter(slot, home)
  IN  IF slot[home].key = NULL THEN [slot EXCEPT ![home] = new(0)]
      ELSE [slot EXCEPT ![i] = new(slot[home].next), ![home].next = i]

\* query_insert has followed the chain of the home slot to its end, in search
\* of the key, and links the free slot there.
PlaceLast(slot, key) ==
  LET home == HomeOf(slot, Hash[key])
      new  == [key |-> key, ptr |-> NULL, next |-> 0]
      last == Search(slot, home, LAMBDA s : s.next = 0)
      i    == FreeAfter(slot, home)
  IN  IF slot[home].key = NULL THEN [slot EXCEPT ![home] = new]
      ELSE [slot EXCEPT ![i] = new, ![last].next = i]

Full(map) == map.cap <= map.size

\* What is in the slots of one table is placed in another one.
PlaceAll(slot, old) == FoldLeft(LAMBDA to, s : Place(to, s.key, s.ptr), slot, old)

\* Twice the slots; the old ones, all of them taken, are placed anew.
Rehash(map) ==
  [cap |-> 2 * map.cap, size |-> map.size,
   slot |-> PlaceAll(Slots(2 * map.cap), map.slot)]

\* Room for one more key.
Roomy(map) == IF Full(map) THEN Rehash(map) ELSE map

\* insert does not look whether the key is there; query_insert does.
Insert(map, key, ptr) ==
  LET to == Roomy(map)
  IN  [cap |-> to.cap, size |-> to.size + 1, slot |-> Place(to.slot, key, ptr)]

Enter(map, key) ==
  LET to == Roomy(map)
  IN  [cap |-> to.cap, size |-> to.size + 1, slot |-> PlaceLast(to.slot, key)]

QueryInsert(map, key) == IF Find(map, key) # 0 THEN map ELSE Enter(map, key)

SetPointer(map, key, ptr) == [map EXCEPT !.slot[Find(map, key)].ptr = ptr]

\* The pointers that foreach passes on, by their slots.
Foreach(map) ==
  [i \in {i \in 1 .. map.cap : map.slot[i].ptr # NULL} |-> map.slot[i].ptr]

\* next: the first key, or the one in a slot behind that of a key.
FirstFrom(map, i) ==
  IF \E j \in i .. map.cap : map.slot[j].ptr # NULL
  THEN map.slot[Least(i .. map.cap, LAMBDA j : map.slot[j].ptr # NULL)].key
  ELSE NULL

\* The slot behind the next one.
NextKey_Skips(map, key) ==
  IF key = NULL THEN FirstFrom(map, 1)
  ELSE IF Find(map, key) = 0 THEN NULL ELSE FirstFrom(map, Find(map, key) + 2)

NextKey(map, key) ==
  IF key = NULL THEN FirstFrom(map, 1)
  ELSE IF Find(map, key) = 0 THEN NULL ELSE FirstFrom(map, Find(map, key) + 1)

----------------------------------------------------------------------------
\* A table of keys and what they stand for is put in as many slots, those
\* whose home slot is taken in the first slot that is still free.
Build(table, HashOf(_)) ==
  LET Add(slot, e) ==
        LET home == HomeOf(slot, HashOf(e.key))
            new(next) == [key |-> e.key, ptr |-> e.ptr, next |-> next]
        IN  IF slot[home].ptr = NULL
            THEN [slot EXCEPT ![home] = new(0)]
            ELSE LET i == Least(DOMAIN slot, LAMBDA j : slot[j].ptr = NULL)
                 IN  [slot EXCEPT ![i] = new(slot[home].next), ![home].next = i]
  IN  FoldLeft(Add, Slots(Len(table)), table)

SlotQuery(slot, key, hash) ==
  LET i == Search(slot, HomeOf(slot, hash), LAMBDA s : s.key = key)
  IN  IF i = 0 THEN NULL ELSE slot[i].ptr

SiNew(table) == Build(table, LAMBDA key : Hash[key])
SiQuery(slot, key) == SlotQuery(slot, key, Hash[key])

\* An id taken as unsigned, modulo the number of slots: 2^32 is 65536^2.
UnsignedMod(id, size) ==
  IF id >= 0 THEN id % size
  ELSE ((id % size) + (65536 % size) * (65536 % size)) % size

\* An array with an index for as many numbers as there are.
IpNew_Counted(table) ==
  LET size == Len(table)
  IN  IF \A i \in DOMAIN table : table[i].key \in 0 .. 2 * size
      THEN [array |-> [id \in 0 .. size - 1 |->
              LET at == {i \in DOMAIN table : table[i].key = id}
              IN  IF at = {} THEN NULL ELSE table[Max(at)].ptr],
            slot |-> <<>>]
      ELSE [array |-> <<>>,
            slot |-> Build(table, LAMBDA id : UnsignedMod(id, size))]

\* Small numbers are indices of an array, others are put in slots.
IpNew(table) ==
  LET ids  == {table[i].key : i \in DOMAIN table}
      size == Len(table)
  IN  IF \A id \in ids : id \in 0 .. 2 * size
      THEN [array |-> [id \in 0 .. Max(ids) |->
              LET at == {i \in DOMAIN table : table[i].key = id}
              IN  IF at = {} THEN NULL ELSE table[Max(at)].ptr],
            slot |-> <<>>]
      ELSE [array |-> <<>>,
            slot |-> Build(table, LAMBDA id : UnsignedMod(id, size))]

\* No map is like one with neither array nor slots.
NoMap == [array |-> <<>>, slot |-> <<>>]

IpQuery(map, id) ==
  IF map.slot = <<>> THEN IF id \in DOMAIN map.array THEN map.array[id] ELSE NULL
  ELSE SlotQuery(map.slot, id, UnsignedMod(id, Len(map.slot)))
=============================================================================
