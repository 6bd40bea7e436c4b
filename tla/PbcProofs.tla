----------------------------- MODULE PbcProofs ------------------------------
(***************************************************************************)
(* Proofs about what pbc keeps its schemas and messages in.  Whatever is   *)
(* asked of a heap, in whatever order, its blocks lie within their pages   *)
(* and apart from one another.  The map, the arrays and the heap of a      *)
(* message together implement the store of values under names: chains are  *)
(* sound, every name is visited once, and under each name are the values   *)
(* that were stored, in their order.                                       *)
(***************************************************************************)
EXTENDS PbcStore, PbcMapProofs

-----------------------------------------------------------------------------
\* The heap.  Its blocks stay apart only because of what it knows itself: the
\* current page is used up to `used`, and no further.

Block == [page : Nat, at : Nat, size : Nat]

HeapOK(h) ==
  /\ h \in [pages : Seq(Nat), used : Nat, blocks : Seq(Block)]
  /\ Len(h.pages) >= 1
  /\ h.used <= h.pages[Len(h.pages)]
  /\ PageSize <= h.pages[Len(h.pages)]

\* A block is of a page that there is, and one of the current page ends
\* where the unused part of it begins, or before.
BehindUsed(h) == \A i \in DOMAIN h.blocks :
  /\ h.blocks[i].page \in 1 .. Len(h.pages)
  /\ h.blocks[i].page = Len(h.pages) =>
       h.blocks[i].at + h.blocks[i].size <= h.used

HeapSound(h) == HeapOK(h) /\ BehindUsed(h) /\ Apart(h)

\* An aligned size holds what was asked for.
LEMMA AlignHolds ==
  ASSUME NEW size \in Nat
  PROVE  Align(size) \in Nat /\ size <= Align(size)
  BY DEF Align

\* A sequence with one more element.
LEMMA Appended ==
  ASSUME NEW S, NEW s \in Seq(S), NEW e \in S
  PROVE  /\ Append(s, e) \in Seq(S) /\ Len(Append(s, e)) = Len(s) + 1
         /\ DOMAIN Append(s, e) = 1 .. Len(s) + 1 /\ DOMAIN s = 1 .. Len(s)
         /\ Len(s) \in Nat
         /\ \A i \in 1 .. Len(s) : Append(s, e)[i] = s[i]
         /\ Append(s, e)[Len(s) + 1] = e
  OBVIOUS

\* One more block keeps the blocks apart if it is within its page and apart
\* from the others.
LEMMA ApartByLast ==
  ASSUME NEW h, NEW a, NEW b, NEW m \in Nat, Apart(h),
         DOMAIN h.blocks = 1 .. m, DOMAIN a.blocks = 1 .. m + 1,
         \A i \in 1 .. m : /\ a.blocks[i] = h.blocks[i]
                           /\ a.pages[h.blocks[i].page] = h.pages[h.blocks[i].page],
         a.blocks[m + 1] = b, b.at + b.size <= a.pages[b.page],
         \A j \in 1 .. m : \/ h.blocks[j].page # b.page
                           \/ h.blocks[j].at + h.blocks[j].size <= b.at
  PROVE  Apart(a)
<1>. SUFFICES ASSUME NEW i \in 1 .. m + 1
     PROVE  /\ a.blocks[i].at + a.blocks[i].size <= a.pages[a.blocks[i].page]
            /\ \A j \in 1 .. i - 1 :
                 \/ a.blocks[j].page # a.blocks[i].page
                 \/ a.blocks[j].at + a.blocks[j].size <= a.blocks[i].at
  BY DEF Apart
<1>1. CASE i \in 1 .. m
  <2>1. \A j \in 1 .. i - 1 : a.blocks[j] = h.blocks[j]
    OBVIOUS
  <2>2. a.blocks[i] = h.blocks[i]
    BY <1>1
  <2>3. /\ h.blocks[i].at + h.blocks[i].size <= h.pages[h.blocks[i].page]
        /\ \A j \in 1 .. i - 1 :
             \/ h.blocks[j].page # h.blocks[i].page
             \/ h.blocks[j].at + h.blocks[j].size <= h.blocks[i].at
    BY <1>1 DEF Apart
  <2>. QED  BY <1>1, <2>1, <2>2, <2>3
<1>2. CASE i = m + 1
  <2>1. \A j \in 1 .. m : a.blocks[j] = h.blocks[j]
    OBVIOUS
  <2>2. i - 1 = m /\ a.blocks[i] = b
    BY <1>2
  <2>. QED  BY <2>1, <2>2
<1>. QED  BY <1>1, <1>2

\* A new heap is sound (_pbcH_new).
THEOREM NewHeapSound == HeapSound(NewHeap)
<1>1. PageSize \in Nat
  BY SizesAssumption
<1>. DEFINE p == <<PageSize>>
<1>2. p \in Seq(Nat) /\ Len(p) = 1 /\ p[1] = PageSize
  BY <1>1
<1>3. DOMAIN NewHeap.blocks = {} /\ NewHeap.blocks \in Seq(Block)
  BY DEF NewHeap
<1>4. NewHeap.pages = p /\ NewHeap.used = 0
  BY DEF NewHeap
<1>5. HeapOK(NewHeap)
  BY <1>1, <1>2, <1>3, <1>4 DEF HeapOK, NewHeap
<1>. QED  BY <1>3, <1>5 DEF HeapSound, BehindUsed, Apart

\* A block at the end of the current page, or on a page of its own, leaves a
\* sound heap sound: the case distinction of _pbcH_alloc is the right one for
\* every page size and every size asked for, larger than a page or not.
THEOREM AllocSound ==
  ASSUME NEW h, HeapSound(h), NEW size \in Nat
  PROVE  HeapSound(Alloc(h, size))
<1>. DEFINE sz == Align(size)
            n == Len(h.pages)
            a == Alloc(h, size)
<1>. USE DEF HeapSound
<1>1. sz \in Nat /\ size <= sz
  BY AlignHolds
<1>2. PageSize \in Nat
  BY SizesAssumption
<1>3. /\ h.pages \in Seq(Nat) /\ h.used \in Nat /\ h.blocks \in Seq(Block)
      /\ n \in Nat /\ n >= 1 /\ h.used <= h.pages[n] /\ h.pages[n] \in Nat
      /\ PageSize <= h.pages[n]
  BY DEF HeapOK
<1>. DEFINE old == h.blocks
            m == Len(h.blocks)
<1>4. /\ m \in Nat /\ DOMAIN old = 1 .. m
      /\ \A i \in 1 .. m : /\ old[i].page \in 1 .. n /\ old[i].page \in Nat
                           /\ old[i].at \in Nat /\ old[i].size \in Nat
                           /\ old[i].page = n => old[i].at + old[i].size <= h.used
                           /\ old[i].at + old[i].size <= h.pages[old[i].page]
                           /\ \A j \in 1 .. i - 1 : \/ old[j].page # old[i].page
                                                    \/ old[j].at + old[j].size <= old[i].at
  <2>1. m \in Nat /\ DOMAIN old = 1 .. m /\ \A i \in 1 .. m : old[i] \in Block
    BY <1>3
  <2>. QED  BY <2>1 DEF Block, BehindUsed, Apart
<1>5. CASE size = 0
  <2>1. Alloc(h, size) = h
    BY <1>5 DEF Alloc
  <2>. QED  BY <2>1
<1>6. CASE size # 0 /\ h.used + sz > PageSize
  <2>. DEFINE page == IF sz < PageSize THEN PageSize ELSE sz
              b == [page |-> n + 1, at |-> 0, size |-> size]
  <2>1. /\ a.pages = Append(h.pages, page) /\ a.used = sz
        /\ a.blocks = Append(h.blocks, b)
        /\ a = [pages |-> Append(h.pages, page), used |-> sz,
                blocks |-> Append(h.blocks, b)]
    BY <1>6 DEF Alloc
  <2>2. page \in Nat /\ sz <= page /\ b \in Block
    BY <1>1, <1>2, <1>3 DEF Block
  <2>3. b.page = n + 1 /\ b.at = 0 /\ b.size = size
    OBVIOUS
  <2>. HIDE DEF page, b, sz, a
  <2>4. /\ a.pages \in Seq(Nat) /\ Len(a.pages) = n + 1 /\ a.pages[n + 1] = page
        /\ \A i \in 1 .. n : a.pages[i] = h.pages[i]
    BY <1>3, <2>1, <2>2, Appended
  <2>5. /\ a.blocks \in Seq(Block) /\ a.blocks[Len(h.blocks) + 1] = b
        /\ DOMAIN a.blocks = 1 .. Len(h.blocks) + 1
        /\ DOMAIN h.blocks = 1 .. Len(h.blocks) /\ Len(h.blocks) \in Nat
        /\ \A i \in 1 .. Len(h.blocks) : a.blocks[i] = h.blocks[i]
    BY <1>3, <2>1, <2>2, Appended
  <2>6. PageSize <= page
    BY <1>1, <1>2 DEF page
  <2>7. HeapOK(a)
    <3>1. a.pages[Len(a.pages)] = page /\ Len(a.pages) >= 1
      BY <1>3, <2>4
    <3>2. a \in [pages : Seq(Nat), used : Nat, blocks : Seq(Block)]
      BY <1>1, <2>1, <2>4, <2>5
    <3>. QED  BY <2>1, <2>2, <2>6, <3>1, <3>2 DEF HeapOK
  <2>8. BehindUsed(a)
    <3>1. \A i \in 1 .. m : a.blocks[i].page \in 1 .. n
      BY <1>4, <2>5
    <3>2. a.blocks[m + 1].page = n + 1 /\ a.blocks[m + 1].at + a.blocks[m + 1].size <= a.used
      BY <1>1, <2>1, <2>3, <2>5
    <3>. HIDE DEF m, n
    <3>3. n \in Nat /\ m \in Nat /\ DOMAIN a.blocks = 1 .. m + 1 /\ Len(a.pages) = n + 1
      BY <1>3, <1>4, <2>4, <2>5 DEF m, n
    <3>. QED  BY <3>1, <3>2, <3>3 DEF BehindUsed
  <2>9. Apart(a)
    <3>1. \A i \in 1 .. m : /\ a.blocks[i] = old[i] /\ old[i].page \in 1 .. n
                            /\ a.pages[old[i].page] = h.pages[old[i].page]
      BY <1>4, <2>4, <2>5
    <3>2. a.blocks[m + 1] = b /\ b.at + b.size <= a.pages[b.page]
      BY <1>1, <2>2, <2>3, <2>4, <2>5
    <3>3. DOMAIN a.blocks = 1 .. m + 1
      BY <2>5
    <3>4. \A j \in 1 .. m : old[j].page # b.page
      BY <1>3, <2>3, <3>1
    <3>5. m \in Nat /\ DOMAIN h.blocks = 1 .. m
      BY <1>4
    <3>6. Apart(h) /\ old = h.blocks
      OBVIOUS
    <3>. HIDE DEF m, n, old
    <3>. QED  BY <3>1, <3>2, <3>3, <3>4, <3>5, <3>6, ApartByLast
  <2>. QED  BY <2>7, <2>8, <2>9 DEF a
<1>7. CASE size # 0 /\ ~ (h.used + sz > PageSize)
  <2>. DEFINE b == [page |-> n, at |-> h.used, size |-> size]
  <2>1. /\ a.pages = h.pages /\ a.used = h.used + sz
        /\ a.blocks = Append(h.blocks, b)
        /\ a = [pages |-> h.pages, used |-> h.used + sz,
                blocks |-> Append(h.blocks, b)]
    BY <1>7 DEF Alloc
  <2>2. b \in Block
    BY <1>3 DEF Block
  <2>3. b.page = n /\ b.at = h.used /\ b.size = size
    OBVIOUS
  <2>. HIDE DEF b, sz, a
  <2>4. /\ a.blocks \in Seq(Block) /\ a.blocks[m + 1] = b
        /\ DOMAIN a.blocks = 1 .. m + 1
        /\ \A i \in 1 .. m : a.blocks[i] = old[i]
    BY <1>3, <2>1, <2>2, Appended
  <2>5. HeapOK(a)
    BY <1>1, <1>2, <1>3, <1>7, <2>1, <2>4 DEF HeapOK
  <2>6. BehindUsed(a)
    <3>1. \A i \in 1 .. m : /\ a.blocks[i].page \in 1 .. n
                            /\ a.blocks[i].page = n =>
                                 a.blocks[i].at + a.blocks[i].size <= a.used
      <4>. SUFFICES ASSUME NEW i \in 1 .. m
           PROVE  /\ a.blocks[i].page \in 1 .. n
                  /\ a.blocks[i].page = n =>
                       a.blocks[i].at + a.blocks[i].size <= a.used
        OBVIOUS
      <4>1. a.blocks[i] = old[i] /\ a.used = h.used + sz
        BY <2>1, <2>4
      <4>2. /\ old[i].page \in 1 .. n /\ old[i].at \in Nat /\ old[i].size \in Nat
            /\ old[i].page = n => old[i].at + old[i].size <= h.used
        BY <1>4
      <4>. HIDE DEF old, n, m
      <4>. QED  BY <1>1, <1>3, <4>1, <4>2
    <3>2. a.blocks[m + 1].page = n /\ a.blocks[m + 1].at + a.blocks[m + 1].size <= a.used
      BY <1>1, <1>3, <2>1, <2>3, <2>4
    <3>. HIDE DEF m, n
    <3>3. n \in Nat /\ n >= 1 /\ m \in Nat /\ DOMAIN a.blocks = 1 .. m + 1 /\ Len(a.pages) = n
      BY <1>3, <1>4, <2>1, <2>4 DEF m, n
    <3>. QED  BY <3>1, <3>2, <3>3 DEF BehindUsed
  <2>7. Apart(a)
    <3>1. b.at + b.size <= a.pages[b.page]
      BY <1>1, <1>2, <1>3, <1>7, <2>1, <2>3
    <3>2. \A j \in 1 .. m : old[j].page # b.page \/ old[j].at + old[j].size <= b.at
      BY <1>4, <2>3
    <3>3. \A i \in 1 .. m : a.pages[old[i].page] = h.pages[old[i].page]
      BY <2>1
    <3>4. m \in Nat /\ DOMAIN h.blocks = 1 .. m /\ Apart(h) /\ old = h.blocks
      BY <1>4
    <3>. HIDE DEF m, n, old
    <3>. QED  BY <2>4, <3>1, <3>2, <3>3, <3>4, ApartByLast
  <2>. QED  BY <2>5, <2>6, <2>7 DEF a
<1>. QED  BY <1>5, <1>6, <1>7, <1>1, <1>2, <1>3

-----------------------------------------------------------------------------
\* A map in which room is made is sound.
LEMMA MadeRoom ==
  ASSUME NEW V, NEW map0, Sound(map0, V),
         map0.size < map0.cap \/ (OneEach(map0) /\ map0.size < 2^30)
  PROVE  Sound(Roomy(map0), V) /\ Roomy(map0).size < Roomy(map0).cap
<1>1. map0.cap \in Nat /\ map0.cap # 0 /\ map0.size \in Nat /\ map0.size <= map0.cap
  BY SoundIs
<1>2. CASE map0.size < map0.cap
  <2>1. Roomy(map0) = map0 BY <1>1, <1>2 DEF Roomy, Full
  <2> QED BY <1>2, <2>1
<1>3. CASE ~ (map0.size < map0.cap)
  <2> DEFINE to == Rehash(map0)
  <2>1. map0.size = map0.cap /\ OneEach(map0) /\ map0.cap < 2^30 BY <1>1, <1>3
  <2>2. Roomy(map0) = to BY <1>1, <2>1 DEF Roomy, Full
  <2>3. Sound(to, V) /\ to.size = map0.size /\ to.cap = 2 * map0.cap BY <2>1, Rehashed
  <2> HIDE DEF to
  <2>4. to.size < to.cap BY <1>1, <2>1, <2>3
  <2> QED BY <2>2, <2>3, <2>4
<1> QED BY <1>2, <1>3

\* What adds to the map with room adds to the map.
LEMMA AddsAnyway ==
  ASSUME NEW V, NEW map0, Sound(map0, V), NEW key \in Name, NEW ptr \in V \cup {NULL},
         map0.size < map0.cap \/ (OneEach(map0) /\ map0.size < 2^30),
         NEW new, Adds(Roomy(map0), new, V, key, ptr), new.cap = Roomy(map0).cap
  PROVE  /\ Adds(map0, new, V, key, ptr)
         /\ map0.size < map0.cap => new.cap = map0.cap
<1> DEFINE to == Roomy(map0)
<1>1. Adds(to, new, V, key, ptr) /\ new.cap = to.cap OBVIOUS
<1>2. map0.cap \in Nat /\ map0.cap # 0 /\ map0.size \in Nat /\ map0.size <= map0.cap
  BY SoundIs
<1>3. CASE map0.size < map0.cap
  <2>1. to = map0 BY <1>2, <1>3 DEF Roomy, Full
  <2> QED BY <1>1, <2>1
<1>4. CASE ~ (map0.size < map0.cap)
  <2>1. map0.size = map0.cap /\ OneEach(map0) /\ map0.cap < 2^30 BY <1>2, <1>4
  <2>2. to = Rehash(map0) BY <1>2, <2>1 DEF Roomy, Full
  <2>3. /\ Sound(to, V) /\ to.size = map0.size /\ to.cap = 2 * map0.cap
        /\ \E g : Comes(map0, to, g)
        /\ Same(map0, to)
    BY <2>1, <2>2, Rehashed
  <2>4. PICK g : Comes(map0, to, g) BY <2>3
  <2> HIDE DEF to
  <2>6. Adds(to, new, V, key, ptr) BY <1>1 DEF to
  <2>7. PICK h : From(to, new, key, ptr, h) BY <2>6 DEF Adds
  <2> DEFINE f == [x \in In(new) |-> IF h[x] = 0 THEN 0 ELSE g[h[x]]]
  <2>8. \A x \in In(new) : f[x] = IF h[x] = 0 THEN 0 ELSE g[h[x]] OBVIOUS
  <2> HIDE DEF f
  <2>9. 0 \notin In(map0)
    <3>1. 0 \notin 1 .. map0.cap BY <1>2
    <3> QED BY <3>1, SoundIs
  <2>13. 0 \notin In(to)
    <3>1. to.cap \in Nat /\ In(to) \subseteq 1 .. to.cap BY <2>3, SoundIs
    <3> QED BY <3>1
  <2>10. From(map0, new, key, ptr, f)
    <3>1. \A x \in In(new) :
            \/ f[x] = 0 /\ new.slot[x].key = key /\ new.slot[x].ptr = ptr
            \/ /\ f[x] \in In(map0)
               /\ new.slot[x].key = map0.slot[f[x]].key
               /\ new.slot[x].ptr = map0.slot[f[x]].ptr
      BY <2>4, <2>7, <2>8, <2>13 DEF From, Comes
    <3>2. \A x, y \in In(new) : f[x] = f[y] => x = y
      BY <2>4, <2>7, <2>8, <2>9, <2>13 DEF From, Comes
    <3>3. ASSUME NEW y \in In(map0) \cup {0} PROVE \E x \in In(new) : f[x] = y
      <4>1. CASE y = 0
        <5>1. PICK x \in In(new) : h[x] = 0 BY <2>7 DEF From
        <5> QED BY <2>8, <4>1, <5>1
      <4>2. CASE y \in In(map0)
        <5>1. PICK z \in In(to) : g[z] = y BY <2>4, <4>2 DEF Comes
        <5>2. PICK x \in In(new) : h[x] = z BY <2>7, <5>1 DEF From
        <5>3. h[x] # 0 BY <2>13, <5>1, <5>2
        <5> QED BY <2>8, <5>1, <5>2, <5>3
      <4> QED BY <4>1, <4>2
    <3> QED BY <3>1, <3>2, <3>3 DEF From
  <2>11. Finds(map0, new, key, ptr)
    BY <2>3, <2>6 DEF Finds, Same, Adds
  <2>12. Sound(new, V) /\ new.size = map0.size + 1 BY <2>3, <2>6 DEF Adds
  <2> QED BY <1>4, <2>10, <2>11, <2>12 DEF Adds
<1> QED BY <1>3, <1>4

\* What an insertion that need not make room, or may, comes to,
LEMMA Inserted ==
  ASSUME NEW V, NEW map0, Sound(map0, V), NEW key \in Name, NEW ptr \in V \cup {NULL},
         map0.size < map0.cap \/ (OneEach(map0) /\ map0.size < 2^30)
  PROVE  /\ Adds(map0, Insert(map0, key, ptr), V, key, ptr)
         /\ map0.size < map0.cap => Insert(map0, key, ptr).cap = map0.cap
<1> DEFINE to == Roomy(map0)
           new == Insert(map0, key, ptr)
<1>1. new = [cap |-> to.cap, size |-> to.size + 1, slot |-> Place(to.slot, key, ptr)]
  BY DEF Insert
<1>2. Sound(to, V) /\ to.size < to.cap BY MadeRoom
<1> HIDE DEF new, to
<1>3. Adds(to, new, V, key, ptr) /\ new.cap = to.cap BY <1>1, <1>2, Adding
<1> QED BY <1>3, AddsAnyway DEF new, to

\* and an entry.
LEMMA Newcomer ==
  ASSUME NEW V, NEW map0, Sound(map0, V), NEW key \in Name,
         map0.size < map0.cap \/ (OneEach(map0) /\ map0.size < 2^30)
  PROVE  /\ Adds(map0, Enter(map0, key), V, key, NULL)
         /\ map0.size < map0.cap => Enter(map0, key).cap = map0.cap
<1> DEFINE to == Roomy(map0)
           new == Enter(map0, key)
<1>1. new = [cap |-> to.cap, size |-> to.size + 1, slot |-> PlaceLast(to.slot, key)]
  BY DEF Enter
<1>2. Sound(to, V) /\ to.size < to.cap BY MadeRoom
<1> HIDE DEF new, to
<1>3. Adds(to, new, V, key, NULL) /\ new.cap = to.cap BY <1>1, <1>2, Entering
<1> QED BY <1>3, AddsAnyway DEF new, to

\* A name that is there gets another pointer.
Repoints(map0, new, W, key, ptr) ==
  /\ Sound(new, W) /\ In(new) = In(map0) /\ new.size = map0.size /\ new.cap = map0.cap
  /\ \A x \in In(new) :
       /\ new.slot[x].key = map0.slot[x].key
       /\ new.slot[x].ptr = IF x = Find(map0, key) THEN ptr ELSE map0.slot[x].ptr
  /\ \A k \in Name : k # key => Query(new, k) = Query(map0, k)
  /\ Query(new, key) = ptr

\* set_pointer reaches the name it is meant for and no other.
LEMMA Repointed ==
  ASSUME NEW V, NEW W, V \subseteq W, NEW map0, Sound(map0, V), NEW key \in Name,
         Find(map0, key) # 0, NEW ptr \in W
  PROVE  Repoints(map0, SetPointer(map0, key, ptr), W, key, ptr)
<1> DEFINE j == Find(map0, key)
           n == map0.cap
           a == map0.slot
           new == SetPointer(map0, key, ptr)
           b == new.slot
<1>1. j \in In(map0) /\ a[j].key = key BY QueryIs
<1>2. n \in Nat /\ n # 0 /\ j \in 1 .. n BY <1>1, SoundIs
<1>3. Kept(a, n, V) /\ map0.size = Cardinality(Taken(a, n)) /\ \E k \in 0 .. 30 : n = 2^k
  BY DEF Sound
<1>4. map0 = [cap |-> n, size |-> map0.size, slot |-> a] BY DEF Sound
<1>5. new = [map0 EXCEPT !.slot[j].ptr = ptr] BY DEF SetPointer
<1> HIDE DEF j, a, n, new
<1>6. a \in [1 .. n -> [key : Name \cup {NULL}, ptr : V \cup {NULL}, next : 0 .. n]]
  BY <1>3 DEF Kept, Whole, Slotted
<1>7. /\ new = [cap |-> n, size |-> map0.size, slot |-> [a EXCEPT ![j].ptr = ptr]]
  BY <1>4, <1>5 DEF a
<1>8. /\ new.cap = n /\ new.size = map0.size /\ b = [a EXCEPT ![j].ptr = ptr]
      /\ new = [cap |-> new.cap, size |-> new.size, slot |-> new.slot]
  BY <1>7
<1> HIDE DEF b
<1>9. /\ DOMAIN b = 1 .. n /\ b = [x \in 1 .. n |-> b[x]]
      /\ \A x \in 1 .. n : x # j => b[x] = a[x]
      /\ b[j] = [key |-> a[j].key, ptr |-> ptr, next |-> a[j].next]
  BY <1>2, <1>6, <1>8
<1>10. \A x \in 1 .. n : /\ b[x].key = a[x].key /\ b[x].next = a[x].next
                         /\ b[x].ptr = IF x = j THEN ptr ELSE a[x].ptr
  BY <1>9
<1>11. Slotted(b, n, Name, W)
  <2> DEFINE R == [key : Name \cup {NULL}, ptr : W \cup {NULL}, next : 0 .. n]
  <2>1. ASSUME NEW x \in 1 .. n PROVE b[x] \in R
    <3>1. a[x] \in [key : Name \cup {NULL}, ptr : V \cup {NULL}, next : 0 .. n]
      BY <1>6
    <3>2. CASE x = j BY <1>9, <3>1, <3>2
    <3>3. CASE x # j
      <4>1. b[x] = a[x] BY <1>9, <3>3
      <4> QED BY <3>1, <4>1
    <3> QED BY <3>2, <3>3
  <2> HIDE DEF R
  <2>2. b \in [1 .. n -> R] BY <1>9, <2>1
  <2> QED BY <2>2 DEF R, Slotted
<1>12. \A x \in 1 .. n : a[x].next # 0 => a[x].next \in 1 .. n
  <2> SUFFICES ASSUME NEW x \in 1 .. n, a[x].next # 0 PROVE a[x].next \in 1 .. n
    OBVIOUS
  <2>1. a[x].next \in 0 .. n BY <1>6
  <2> QED BY <1>2, <2>1, NotZero
<1>13. a[j].key # NULL BY <1>1 DEF In, Taken, a
<1>14. Clean(b, n)
  <2>1. Clean(a, n) BY <1>3 DEF Kept, Whole
  <2> QED BY <1>10, <1>12, <1>13, <2>1 DEF Clean
<1>15. Acyclic(b, n)
  <2>1. Acyclic(a, n) BY <1>3 DEF Kept, Whole
  <2> QED BY <1>10, <2>1 DEF Acyclic
<1>16. \A x, y : x \in 1 .. n => (Reaches(a, n, x, y) <=> Reaches(b, n, x, y))
  <2>1. \A S \in SUBSET (1 .. n) : Closed(a, S) <=> Closed(b, S) BY <1>10 DEF Closed
  <2> QED BY <2>1 DEF Reaches
<1>17. Home(n) \in [Name -> 1 .. n] BY <1>2, HomeIs
<1>18. \A x \in 1 .. n : a[x].key # NULL => a[x].key \in Name BY <1>6
<1>19. Homed(b, n, Home(n))
  <2>1. Homed(a, n, Home(n)) BY <1>3 DEF Kept
  <2> QED BY <1>10, <1>16, <1>17, <1>18, <2>1 DEF Homed
<1>20. Taken(b, n) = Taken(a, n) BY <1>10 DEF Taken
<1>21. Sound(new, W) BY <1>3, <1>8, <1>11, <1>14, <1>15, <1>19, <1>20
  DEF Sound, Kept, Whole, b
<1>22. In(new) = Taken(b, n) /\ In(map0) = Taken(a, n) /\ In(map0) \subseteq 1 .. n
  BY <1>8, <1>20 DEF In, Taken, a, b, n
<1>23. ASSUME NEW k \in Name PROVE Find(new, k) = Find(map0, k)
  <2>1. Found(a, n, k, Find(map0, k)) BY FindIs DEF a, n
  <2>2. Found(b, n, k, Find(new, k)) BY <1>8, <1>21, FindIs DEF b
  <2>3. Home(n)[k] \in 1 .. n BY <1>17
  <2>4. Found(b, n, k, Find(map0, k))
    <3>1. CASE IsFirst(a, n, Home(n)[k], k, Find(map0, k))
      <4>1. IsFirst(b, n, Home(n)[k], k, Find(map0, k))
        BY <1>10, <1>16, <2>3, <3>1 DEF IsFirst
      <4> QED BY <4>1 DEF Found
    <3>2. CASE Find(map0, k) = 0 /\ \A i \in Taken(a, n) : a[i].key # k
      BY <1>10, <1>20, <3>2 DEF Found, Taken
    <3> QED BY <2>1, <3>1, <3>2 DEF Found
  <2>5. Kept(b, n, W) BY <1>8, <1>21 DEF Sound, b
  <2> QED BY <1>2, <2>2, <2>4, <2>5, FoundIsOne
<1>24. \A k \in Name : k # key => Query(new, k) = Query(map0, k)
  <2> SUFFICES ASSUME NEW k \in Name, k # key PROVE Query(new, k) = Query(map0, k)
    OBVIOUS
  <2>1. Find(new, k) = Find(map0, k) BY <1>23
  <2>2. /\ Find(map0, k) # 0 => Find(map0, k) \in In(map0) /\ a[Find(map0, k)].key = k
                                /\ Query(map0, k) = a[Find(map0, k)].ptr
        /\ Find(map0, k) = 0 => Query(map0, k) = NULL
    BY QueryIs DEF a
  <2>3. /\ Find(new, k) # 0 => Query(new, k) = b[Find(new, k)].ptr
        /\ Find(new, k) = 0 => Query(new, k) = NULL
    BY <1>21, QueryIs DEF b
  <2>4. Find(map0, k) # 0 => Find(map0, k) # j /\ Find(map0, k) \in 1 .. n
    BY <1>1, <1>22, <2>2 DEF a, j
  <2> QED BY <1>10, <2>1, <2>2, <2>3, <2>4
<1>25. Query(new, key) = ptr
  <2>1. Find(new, key) = j BY <1>23 DEF j
  <2>2. j # 0 BY <1>2
  <2>3. Query(new, key) = b[j].ptr BY <1>21, <2>1, <2>2, QueryIs DEF b
  <2> QED BY <1>2, <1>10, <2>3
<1>26. \A x \in In(new) : /\ b[x].key = a[x].key
                          /\ b[x].ptr = IF x = j THEN ptr ELSE a[x].ptr
  BY <1>10, <1>20, <1>22
<1> QED BY <1>8, <1>20, <1>21, <1>22, <1>24, <1>25, <1>26 DEF Repoints, a, b, j, n, new

-----------------------------------------------------------------------------
\* Arrays.

Item == [room : Nat, items : Seq(Value)]

\* An array with values in it: they fit the array itself, or the outer one
\* is larger than needed.
RoomOK(a) ==
  /\ a.items # <<>>
  /\ \/ Len(a.items) <= InnerField /\ a.room = InnerField
     \/ Len(a.items) > InnerField /\ Len(a.items) < a.room /\ Power(a.room)

\* The next power of two is larger than the number.
LEMMA NextPowerIs ==
  ASSUME NEW n \in Nat, n < 2^30
  PROVE  Power(NextPower(n)) /\ NextPower(n) \in Nat /\ n < NextPower(n)
<1> DEFINE Ok(k) == 2^k > n
           c == CHOOSE k \in 0 .. 30 : Ok(k) /\ \A y \in 0 .. 30 : Ok(y) => k <= y
           T == {k \in 0 .. 30 : Ok(k)}
<1>1. NextPower(n) = 2^c BY DEF NextPower, Least
<1>2. T \subseteq Nat /\ T # {}
  <2>1. 2^30 = 1073741824 OBVIOUS
  <2>2. PICK p \in Nat : p = 2^30 BY <2>1
  <2>3. n < p BY <2>2
  <2>4. p > n BY <2>3
  <2>5. Ok(30) /\ 30 \in 0 .. 30 BY <2>2, <2>4
  <2> HIDE DEF Ok
  <2> QED BY <2>5
<1>3. PICK x \in T : \A y \in T : x <= y
  <2> HIDE DEF T
  <2> QED BY <1>2, Smallest
<1>4. x \in 0 .. 30 /\ Ok(x) /\ \A y \in 0 .. 30 : Ok(y) => x <= y
  <2> HIDE DEF Ok
  <2> QED BY <1>3
<1>5. c \in 0 .. 30 /\ Ok(c)
  <2> HIDE DEF Ok
  <2> QED BY <1>4
<1> HIDE DEF c
<1>6. c \in Nat BY <1>5
<1>7. 2^c \in Nat BY <1>6, Subsets
<1>8. Power(NextPower(n)) BY <1>1, <1>5 DEF Power
<1>9. PICK p \in Nat : p = 2^c BY <1>7
<1>10. p > n BY <1>5, <1>9
<1>11. n < p BY <1>10
<1> QED BY <1>1, <1>8, <1>9, <1>11

\* The doubled room is a power of two again.
LEMMA PowerDoubles ==
  ASSUME NEW n \in Nat, Power(n), n < 2^30
  PROVE  Power(n * 2)
<1>1. PICK k \in 0 .. 30 : n = 2^k BY DEF Power
<1>2. k # 30
  <2> SUFFICES ASSUME k = 30 PROVE FALSE OBVIOUS
  <2>1. 2^30 = 1073741824 OBVIOUS
  <2>2. PICK p \in Nat : p = 2^30 BY <2>1
  <2>3. n = p /\ n < p BY <1>1, <2>2
  <2> QED BY <2>3
<1>3. k \in Nat /\ k + 1 \in 0 .. 30 BY <1>2
<1>4. 2^(k + 1) = 2 * 2^k BY <1>3, Doubles
<1>5. n * 2 = 2 * n OBVIOUS
<1> QED BY <1>1, <1>3, <1>4, <1>5 DEF Power

\* A value that is pushed comes behind the others, whether the array grows
\* or not: there is always room for it (_pbcA_push).
LEMMA Pushed ==
  ASSUME NEW a \in Item, RoomOK(a) \/ a = NewArray, NEW v \in Value,
         Len(a.items) + 1 < 2^30
  PROVE  /\ Push(a, v) \in Item /\ RoomOK(Push(a, v))
         /\ Push(a, v).items = Append(a.items, v)
         /\ PushRoom(Len(a.items)) \in Nat
<1> DEFINE n == Len(a.items)
           r == PushRoom(n)
           room == IF r = 0 THEN a.room ELSE r
           more == Append(a.items, v)
<1>1. a.items \in Seq(Value) /\ a.room \in Nat /\ n \in Nat BY DEF Item
<1>2. InnerField \in Nat /\ InnerField + 1 < 2^30 BY SizesAssumption
<1>3. \/ n <= InnerField /\ a.room = InnerField
      \/ n > InnerField /\ n < a.room /\ Power(a.room)
  <2>1. NewArray.items = <<>> /\ NewArray.room = InnerField BY DEF NewArray
  <2>2. CASE a = NewArray
    <3>1. n = 0 BY <2>1, <2>2
    <3> QED BY <1>2, <2>1, <2>2, <3>1
  <2> QED BY <2>2 DEF RoomOK
<1>4. more \in Seq(Value) /\ Len(more) = n + 1 /\ more # <<>>
  <2>1. more \in Seq(Value) /\ Len(more) = n + 1 BY <1>1
  <2> HIDE DEF more, n
  <2> QED BY <1>1, <2>1
<1>5. Push(a, v) = [room |-> room, items |-> IF n < r \/ n < a.room THEN more ELSE a.items]
  BY DEF Push
<1> HIDE DEF n, r, more
<1>6. /\ r \in Nat /\ (n < r \/ n < a.room)
      /\ \/ n + 1 <= InnerField /\ room = InnerField
         \/ n + 1 > InnerField /\ n + 1 < room /\ Power(room)
  <2>1. CASE n = InnerField
    <3>1. r = NextPower(n + 1) BY <1>1, <1>2, <2>1 DEF r, PushRoom
    <3>2. n + 1 \in Nat /\ n + 1 < 2^30 BY <1>1, <1>2, <2>1
    <3>3. Power(r) /\ r \in Nat /\ n + 1 < r BY <3>1, <3>2, NextPowerIs
    <3> QED BY <1>1, <1>2, <2>1, <3>3
  <2>2. CASE n > InnerField /\ Power(n + 1)
    <3>1. r = (n + 1) * 2 BY <1>1, <1>2, <2>2 DEF r, PushRoom
    <3>2. n + 1 \in Nat /\ n + 1 < 2^30 BY <1>1 DEF n
    <3>3. Power((n + 1) * 2) BY <2>2, <3>2, PowerDoubles
    <3>4. r \in Nat /\ n + 1 < r /\ r # 0 BY <1>1, <3>1
    <3> QED BY <1>1, <1>2, <2>2, <3>1, <3>3, <3>4
  <2>3. CASE n < InnerField
    <3>1. ~ (n = InnerField) /\ ~ (n > InnerField) BY <1>1, <1>2, <2>3
    <3>2. r = 0 BY <3>1 DEF r, PushRoom
    <3>3. a.room = InnerField BY <1>1, <1>2, <1>3, <2>3
    <3> QED BY <1>1, <1>2, <2>3, <3>2, <3>3
  <2>4. CASE n > InnerField /\ ~ Power(n + 1)
    <3>1. ~ (n = InnerField) BY <1>1, <1>2, <2>4
    <3>2. r = 0 BY <2>4, <3>1 DEF r, PushRoom
    <3>3. n < a.room /\ Power(a.room) BY <1>1, <1>2, <1>3, <2>4
    <3>4. a.room # n + 1 BY <2>4, <3>3
    <3> QED BY <1>1, <1>2, <2>4, <3>2, <3>3, <3>4
  <2> QED BY <1>1, <1>2, <2>1, <2>2, <2>3, <2>4
<1>7. Push(a, v) = [room |-> room, items |-> more]
  BY <1>5, <1>6
<1>8. room \in Nat BY <1>1, <1>6
<1> HIDE DEF room
<1>9. Push(a, v).items = more /\ Push(a, v).room = room /\ Push(a, v) \in Item
  BY <1>4, <1>7, <1>8 DEF Item
<1>10. RoomOK(Push(a, v)) BY <1>4, <1>6, <1>9 DEF RoomOK, room
<1> QED BY <1>6, <1>9, <1>10 DEF more, r, n

-----------------------------------------------------------------------------
\* A message.

\* No value is in two slots.  The name of a list is in one slot at most, and
\* so is a single one until a single value has come twice; a single name has
\* its value from the start.
PtrsApart(m) == \A x, y \in In(m) :
  m.slot[x].ptr = m.slot[y].ptr /\ m.slot[x].ptr # NULL => x = y
NamesApart(m, rep) == \A x, y \in In(m) :
  m.slot[x].key = m.slot[y].key /\ (m.slot[x].key \notin Singular \/ ~ rep) => x = y
Singles(m, ix) == \A x \in In(m) :
  m.slot[x].key \in Singular => ix /\ m.slot[x].ptr # NULL

MapOK(m, ix, rep) == PtrsApart(m) /\ NamesApart(m, rep) /\ Singles(m, ix)

\* No array is empty, or can have 2^30 values when all have come; a list has
\* the room that its number of values tells.
Valued(vals, l) == \A p \in DOMAIN vals :
  vals[p].items # <<>> /\ Len(vals[p].items) + l < 2^30
HaveRoom(m, vals) == \A x \in In(m) :
  m.slot[x].key \notin Singular /\ m.slot[x].ptr # NULL => RoomOK(vals[m.slot[x].ptr])

StoreOK(ix, l, m, vals, rep) ==
  /\ ix \in BOOLEAN /\ rep \in BOOLEAN /\ l \in Nat /\ vals \in Seq(Item)
  /\ Sound(m, DOMAIN vals) /\ MapOK(m, ix, rep)
  /\ m.size + l < 2^30
  /\ ix => m.size + l <= m.cap
  /\ Valued(vals, l) /\ HaveRoom(m, vals)

Content(m, vals) == [key \in Name |->
  LET at == Query(m, key) IN IF at = NULL THEN <<>> ELSE vals[at].items]

\* A slot that is taken has a name and a value, or a name without one.
LEMMA PtrIn ==
  ASSUME NEW V, NEW m, Sound(m, V), NEW x \in In(m)
  PROVE  m.slot[x].ptr \in V \cup {NULL} /\ m.slot[x].key \in Name
<1>1. x \in 1 .. m.cap BY SoundIs
<1>2. m.slot \in [1 .. m.cap -> [key : Name \cup {NULL}, ptr : V \cup {NULL},
                                 next : 0 .. m.cap]]
  BY DEF Sound, Kept, Whole, Slotted
<1>3. m.slot[x].key # NULL BY DEF In, Taken
<1> QED BY <1>1, <1>2, <1>3

\* A name is asked for its value.
LEMMA QueryIn ==
  ASSUME NEW V, NEW m, Sound(m, V), NEW k \in Name
  PROVE  Query(m, k) \in V \cup {NULL}
BY QueryIs, PtrIn

\* More values do not make a map unsound.
LEMMA Widened ==
  ASSUME NEW V, NEW W, V \subseteq W, NEW m, Sound(m, V)
  PROVE  Sound(m, W)
<1>1. Slotted(m.slot, m.cap, Name, V) BY DEF Sound, Kept, Whole
<1>2. Slotted(m.slot, m.cap, Name, W)
  <2>1. [key : Name \cup {NULL}, ptr : V \cup {NULL}, next : 0 .. m.cap]
          \subseteq [key : Name \cup {NULL}, ptr : W \cup {NULL}, next : 0 .. m.cap]
    OBVIOUS
  <2> QED BY <1>1, <2>1 DEF Slotted
<1> QED BY <1>2 DEF Sound, Kept, Whole

\* A list's name is looked up and entered if it is not there.
Enters(m, f, key, V, ix, rep) ==
  /\ Sound(f, V) /\ MapOK(f, ix, rep)
  /\ f.size <= m.size + 1
  /\ ix => f.cap = m.cap
  /\ Find(f, key) # 0
  /\ \A k \in Name : Query(f, k) = Query(m, k)
  /\ \A x \in In(f) : f.slot[x].ptr # NULL =>
       \E y \in In(m) : m.slot[y].key = f.slot[x].key /\ m.slot[y].ptr = f.slot[x].ptr

\* A name that is entered is there afterwards once, without a value, and no
\* other has moved.
LEMMA Entered ==
  ASSUME NEW V, NEW m, Sound(m, V), NEW ix, NEW rep, MapOK(m, ix, rep), ix \in BOOLEAN,
         NEW key \in Name \ Singular, m.size < 2^30, ix => m.size < m.cap
  PROVE  Enters(m, QueryInsert(m, key), key, V, ix, rep)
<1> DEFINE f == QueryInsert(m, key)
<1>1. m.cap \in Nat /\ m.size \in Nat BY SoundIs
<1>2. CASE Find(m, key) # 0
  <2>1. f = m BY <1>2 DEF QueryInsert
  <2>2. m.size <= m.size + 1 BY <1>1
  <2> HIDE DEF f
  <2>3. Enters(m, f, key, V, ix, rep) BY <1>2, <2>1, <2>2 DEF Enters
  <2> QED BY <2>3 DEF f
<1>3. CASE Find(m, key) = 0
  <2>1. f = Enter(m, key) BY <1>3 DEF QueryInsert
  <2>2. m.size < m.cap \/ (OneEach(m) /\ m.size < 2^30)
    <3>1. CASE ix BY <3>1
    <3>2. CASE ~ ix
      <4>1. \A x, y \in In(m) : m.slot[x].key = m.slot[y].key => x = y
        BY <3>2 DEF MapOK, Singles, NamesApart
      <4> QED BY <4>1 DEF OneEach, Unique, In
    <3> QED BY <3>1, <3>2
  <2> HIDE DEF f
  <2>3. Adds(m, f, V, key, NULL) /\ (m.size < m.cap => f.cap = m.cap)
    BY <2>1, <2>2, Newcomer
  <2>4. PICK g : From(m, f, key, NULL, g) BY <2>3 DEF Adds
  <2>5. Sound(f, V) /\ f.size = m.size + 1 /\ Finds(m, f, key, NULL) BY <2>3 DEF Adds
  <2>6. (\A i \in In(m) : m.slot[i].key # key) /\ Query(m, key) = NULL BY <1>3, QueryIs
  <2>7. \A x \in In(f) :
          \/ g[x] = 0 /\ f.slot[x].key = key /\ f.slot[x].ptr = NULL
          \/ /\ g[x] \in In(m) /\ f.slot[x].key = m.slot[g[x]].key
             /\ f.slot[x].ptr = m.slot[g[x]].ptr
    BY <2>4 DEF From
  <2>8. \A x, y \in In(f) : g[x] = g[y] => x = y BY <2>4 DEF From
  <2>9. PtrsApart(f)
    <3> SUFFICES ASSUME NEW x \in In(f), NEW y \in In(f), f.slot[x].ptr = f.slot[y].ptr,
                        f.slot[x].ptr # NULL
                 PROVE  x = y
      BY DEF PtrsApart
    <3>1. /\ g[x] \in In(m) /\ f.slot[x].ptr = m.slot[g[x]].ptr
          /\ g[y] \in In(m) /\ f.slot[y].ptr = m.slot[g[y]].ptr
      BY <2>7
    <3>2. g[x] = g[y] BY <3>1 DEF MapOK, PtrsApart
    <3> QED BY <2>8, <3>2
  <2>10. NamesApart(f, rep)
    <3> SUFFICES ASSUME NEW x \in In(f), NEW y \in In(f), f.slot[x].key = f.slot[y].key,
                        f.slot[x].key \notin Singular \/ ~ rep
                 PROVE  x = y
      BY DEF NamesApart
    <3>1. CASE f.slot[x].key = key
      <4>1. g[x] = 0 /\ g[y] = 0 BY <2>6, <2>7, <3>1
      <4> QED BY <2>8, <4>1
    <3>2. CASE f.slot[x].key # key
      <4>1. /\ g[x] \in In(m) /\ f.slot[x].key = m.slot[g[x]].key
            /\ g[y] \in In(m) /\ f.slot[y].key = m.slot[g[y]].key
        BY <2>7, <3>2
      <4>2. g[x] = g[y] BY <4>1 DEF MapOK, NamesApart
      <4> QED BY <2>8, <4>2
    <3> QED BY <3>1, <3>2
  <2>11. Singles(f, ix) BY <2>7 DEF MapOK, Singles
  <2>12. \A k \in Name : Query(f, k) = Query(m, k) BY <2>5, <2>6 DEF Finds
  <2>13. Find(f, key) # 0 BY <2>5 DEF Finds
  <2>14. \A x \in In(f) : f.slot[x].ptr # NULL =>
           \E y \in In(m) : m.slot[y].key = f.slot[x].key /\ m.slot[y].ptr = f.slot[x].ptr
    BY <2>7
  <2>15. f.size <= m.size + 1 BY <1>1, <2>5
  <2> QED BY <2>3, <2>5, <2>9, <2>10, <2>11, <2>12, <2>13, <2>14, <2>15 DEF Enters, MapOK, f
<1> QED BY <1>2, <1>3

\* One more value behind a sequence of them.
LEMMA OneBehind ==
  ASSUME NEW vals \in Seq(Item), NEW a \in Item
  PROVE  /\ Append(vals, a) \in Seq(Item)
         /\ Len(vals) \in Nat
         /\ DOMAIN vals = 1 .. Len(vals)
         /\ DOMAIN Append(vals, a) = DOMAIN vals \cup {Len(vals) + 1}
         /\ Len(vals) + 1 \notin DOMAIN vals
         /\ \A p \in DOMAIN vals : Append(vals, a)[p] = vals[p]
         /\ Append(vals, a)[Len(vals) + 1] = a
<1>1. /\ Append(vals, a) \in Seq(Item) /\ Len(vals) \in Nat
      /\ Len(Append(vals, a)) = Len(vals) + 1
      /\ DOMAIN vals = 1 .. Len(vals)
      /\ \A p \in 1 .. Len(vals) : Append(vals, a)[p] = vals[p]
      /\ Append(vals, a)[Len(vals) + 1] = a
  BY AppendProperties
<1>2. DOMAIN Append(vals, a) = 1 .. Len(vals) + 1 BY <1>1
<1>3. 1 .. Len(vals) + 1 = 1 .. Len(vals) \cup {Len(vals) + 1} BY <1>1
<1>4. Len(vals) + 1 \notin 1 .. Len(vals) BY <1>1
<1> QED BY <1>1, <1>2, <1>3, <1>4

\* What a value for a list, or for a single name, comes to.
Lengthens(ix, l, m, vals, rep, key, v, to, new) ==
  /\ StoreOK(ix, l - 1, to, new, rep)
  /\ Content(to, new) = [Content(m, vals) EXCEPT ![key] = Append(@, v)]

PutsOne(l, m, vals, rep, key, v, to, new) ==
  /\ StoreOK(TRUE, l - 1, to, new, rep \/ Query(m, key) # NULL)
  /\ \/ Content(to, new) = [Content(m, vals) EXCEPT ![key] = <<v>>]
     \/ Content(m, vals)[key] # <<>> /\ Content(to, new) = Content(m, vals)

\* A value for a list that is there.
LEMMA AddOld ==
  ASSUME NEW ix, NEW l \in Nat, l > 0, NEW m, NEW vals, NEW rep,
         StoreOK(ix, l, m, vals, rep),
         NEW key \in Name \ Singular, NEW v \in Value,
         NEW f, Enters(m, f, key, DOMAIN vals, ix, rep), Query(f, key) # NULL
  PROVE  LET at == Query(f, key)
             new == [vals EXCEPT ![at] = Push(vals[at], v)]
         IN  /\ Lengthens(ix, l, m, vals, rep, key, v, f, new)
             /\ PushRoom(Len(vals[at].items)) \in Nat
<1> DEFINE at == Query(f, key)
           a == Push(vals[at], v)
           new == [vals EXCEPT ![at] = a]
           j == Find(f, key)
<1>1. /\ Sound(f, DOMAIN vals) /\ MapOK(f, ix, rep)
      /\ f.size <= m.size + 1
      /\ ix => f.cap = m.cap
      /\ j # 0
      /\ \A k \in Name : Query(f, k) = Query(m, k)
      /\ \A x \in In(f) : f.slot[x].ptr # NULL =>
           \E y \in In(m) : m.slot[y].key = f.slot[x].key /\ m.slot[y].ptr = f.slot[x].ptr
  BY DEF Enters
<1>2. /\ ix \in BOOLEAN /\ rep \in BOOLEAN /\ vals \in Seq(Item)
      /\ m.size + l < 2^30
      /\ ix => m.size + l <= m.cap
      /\ Valued(vals, l) /\ HaveRoom(m, vals) /\ Sound(m, DOMAIN vals)
  BY DEF StoreOK
<1>3. j \in In(f) /\ f.slot[j].key = key /\ f.slot[j].ptr = at BY <1>1, QueryIs
<1>4. at \in DOMAIN vals /\ RoomOK(vals[at])
  <2>1. at \in DOMAIN vals BY <1>1, QueryIn
  <2>2. PICK y \in In(m) : m.slot[y].key = key /\ m.slot[y].ptr = at BY <1>1, <1>3
  <2> QED BY <1>2, <2>1, <2>2 DEF HaveRoom
<1>5. vals[at] \in Item /\ Len(vals[at].items) \in Nat
      /\ Len(vals[at].items) + l < 2^30 /\ vals[at].items \in Seq(Value)
  <2>1. vals[at] \in Item BY <1>2, <1>4
  <2>2. Len(vals[at].items) + l < 2^30 BY <1>2, <1>4 DEF Valued
  <2>3. vals[at].items \in Seq(Value) BY <2>1 DEF Item
  <2> QED BY <2>1, <2>2, <2>3
<1>6. Len(vals[at].items) + 1 < 2^30
  <2>1. 2^30 = 1073741824 OBVIOUS
  <2>2. PICK p \in Nat : p = 2^30 BY <2>1
  <2>3. Len(vals[at].items) + l < p BY <1>5, <2>2
  <2>4. Len(vals[at].items) + 1 < p BY <1>5, <2>3
  <2> QED BY <2>2, <2>4
<1>7. a \in Item /\ RoomOK(a) /\ a.items = Append(vals[at].items, v)
      /\ PushRoom(Len(vals[at].items)) \in Nat
  BY <1>4, <1>5, <1>6, Pushed
<1> HIDE DEF at, a, j
<1>8. /\ new \in Seq(Item) /\ DOMAIN new = DOMAIN vals /\ new[at] = a
      /\ \A p \in DOMAIN vals : p # at => new[p] = vals[p]
  BY <1>2, <1>4, <1>7
<1> HIDE DEF new
<1>9. a.items # <<>> /\ Len(a.items) = Len(vals[at].items) + 1
  BY <1>5, <1>7
<1>10. Valued(new, l - 1)
  <2> SUFFICES ASSUME NEW p \in DOMAIN vals
               PROVE  new[p].items # <<>> /\ Len(new[p].items) + (l - 1) < 2^30
    BY <1>8 DEF Valued
  <2>1. 2^30 = 1073741824 OBVIOUS
  <2>2. PICK b \in Nat : b = 2^30 BY <2>1
  <2>3. CASE p = at
    <3>1. Len(vals[at].items) + l < b BY <1>5, <2>2
    <3>2. Len(a.items) + (l - 1) < b BY <1>5, <1>9, <3>1
    <3> QED BY <1>8, <1>9, <2>2, <2>3, <3>2
  <2>4. CASE p # at
    <3>1. new[p] = vals[p] /\ vals[p] \in Item BY <1>2, <1>8, <2>4
    <3>2. vals[p].items # <<>> /\ Len(vals[p].items) + l < b BY <1>2, <2>2 DEF Valued
    <3>3. Len(vals[p].items) \in Nat BY <3>1 DEF Item
    <3>4. Len(vals[p].items) + (l - 1) < b BY <3>2, <3>3
    <3> QED BY <2>2, <3>1, <3>2, <3>4
  <2> QED BY <2>3, <2>4
<1>11. HaveRoom(f, new)
  <2> SUFFICES ASSUME NEW x \in In(f), f.slot[x].key \notin Singular, f.slot[x].ptr # NULL
               PROVE  RoomOK(new[f.slot[x].ptr])
    BY DEF HaveRoom
  <2>1. f.slot[x].ptr \in DOMAIN vals BY <1>1, PtrIn
  <2>2. RoomOK(vals[f.slot[x].ptr])
    <3>1. PICK y \in In(m) : m.slot[y].key = f.slot[x].key /\ m.slot[y].ptr = f.slot[x].ptr
      BY <1>1
    <3> QED BY <1>2, <3>1 DEF HaveRoom
  <2> QED BY <1>7, <1>8, <2>1, <2>2
<1>12. f.size + (l - 1) < 2^30 /\ (ix => f.size + (l - 1) <= f.cap)
  <2>1. 2^30 = 1073741824 OBVIOUS
  <2>2. PICK b \in Nat : b = 2^30 BY <2>1
  <2>3. m.size \in Nat /\ f.size \in Nat /\ m.cap \in Nat /\ f.cap \in Nat
    BY <1>1, <1>2, SoundIs
  <2>4. m.size + l < b BY <1>2, <2>2
  <2>5. f.size + (l - 1) < b BY <1>1, <2>3, <2>4
  <2>6. ASSUME ix PROVE f.size + (l - 1) <= f.cap BY <1>1, <1>2, <2>3, <2>6
  <2> QED BY <2>2, <2>5, <2>6
<1>13. StoreOK(ix, l - 1, f, new, rep)
  <2>1. l - 1 \in Nat OBVIOUS
  <2> QED BY <1>1, <1>2, <1>8, <1>10, <1>11, <1>12, <2>1 DEF StoreOK
<1>14. ASSUME NEW k \in Name
       PROVE  Content(f, new)[k]
                = IF k = key THEN Append(Content(m, vals)[k], v) ELSE Content(m, vals)[k]
  <2>1. Query(f, k) = Query(m, k) BY <1>1
  <2>2. Query(f, k) \in DOMAIN vals \cup {NULL} BY <1>1, QueryIn
  <2>3. CASE k = key
    <3>1. Query(f, k) = at /\ at # NULL BY <2>3 DEF at
    <3> QED BY <1>7, <1>8, <2>1, <2>3, <3>1 DEF Content
  <2>4. CASE k # key
    <3>1. Query(f, k) # NULL => Query(f, k) # at
      <4> SUFFICES ASSUME Query(f, k) # NULL, Query(f, k) = at PROVE FALSE OBVIOUS
      <4>1. Find(f, k) # 0 BY <1>1, QueryIs
      <4>2. Find(f, k) \in In(f) /\ f.slot[Find(f, k)].key = k /\ f.slot[Find(f, k)].ptr = at
        BY <1>1, <4>1, QueryIs
      <4>3. Find(f, k) = j BY <1>1, <1>3, <4>2 DEF MapOK, PtrsApart
      <4> QED BY <1>3, <2>4, <4>2, <4>3
    <3> QED BY <1>8, <2>1, <2>2, <2>4, <3>1 DEF Content
  <2> QED BY <2>3, <2>4
<1>15. Content(f, new) = [Content(m, vals) EXCEPT ![key] = Append(@, v)]
  <2>1. /\ DOMAIN Content(f, new) = Name /\ DOMAIN Content(m, vals) = Name
        /\ Content(f, new) = [k \in Name |-> Content(f, new)[k]]
    BY DEF Content
  <2> QED BY <1>14, <2>1
<1> QED BY <1>7, <1>13, <1>15 DEF Lengthens, new, a, at

\* Fewer values to come, and no more slots than before and one.
LEMMA Fewer ==
  ASSUME NEW l \in Nat, l > 0, NEW ix, NEW s \in Nat, NEW t \in Nat, NEW c \in Nat,
         s + l < 2^30, ix => s + l <= c, t <= s + 1
  PROVE  /\ l - 1 \in Nat /\ t + (l - 1) < 2^30 /\ 1 + (l - 1) < 2^30 /\ s < 2^30
         /\ ix => t + (l - 1) <= c /\ s < c
<1>1. 2^30 = 1073741824 OBVIOUS
<1>2. PICK b \in Nat : b = 2^30 BY <1>1
<1>3. s + l < b BY <1>2
<1>4. t + (l - 1) < b /\ 1 + (l - 1) < b /\ s < b /\ l - 1 \in Nat BY <1>3
<1>5. ASSUME ix PROVE t + (l - 1) <= c /\ s < c BY <1>5
<1> QED BY <1>2, <1>4, <1>5

\* Nor does an array overflow its number with one value fewer to come.
LEMMA FewerEach ==
  ASSUME NEW l \in Nat, l > 0, NEW vals \in Seq(Item), Valued(vals, l)
  PROVE  Valued(vals, l - 1)
<1> SUFFICES ASSUME NEW p \in DOMAIN vals
             PROVE  vals[p].items # <<>> /\ Len(vals[p].items) + (l - 1) < 2^30
  BY DEF Valued
<1>1. 2^30 = 1073741824 OBVIOUS
<1>2. PICK b \in Nat : b = 2^30 BY <1>1
<1>3. vals[p].items # <<>> /\ Len(vals[p].items) + l < b BY <1>2 DEF Valued
<1>7. vals[p] \in Item OBVIOUS
<1>4. vals[p].items \in Seq(Value) BY <1>7 DEF Item
<1>5. Len(vals[p].items) \in Nat BY <1>4
<1>6. Len(vals[p].items) + (l - 1) < b BY <1>3, <1>5
<1> QED BY <1>2, <1>3, <1>6

\* An atom without a value: its list's name may be new.
LEMMA RejectOK ==
  ASSUME NEW ix, NEW l \in Nat, l > 0, NEW m, NEW vals, NEW rep,
         StoreOK(ix, l, m, vals, rep),
         NEW key \in Name, NEW f, Enters(m, f, key, DOMAIN vals, ix, rep)
  PROVE  StoreOK(ix, l - 1, f, vals, rep) /\ Content(f, vals) = Content(m, vals)
<1>1. /\ Sound(f, DOMAIN vals) /\ MapOK(f, ix, rep)
      /\ f.size <= m.size + 1
      /\ ix => f.cap = m.cap
      /\ \A k \in Name : Query(f, k) = Query(m, k)
      /\ \A x \in In(f) : f.slot[x].ptr # NULL =>
           \E y \in In(m) : m.slot[y].key = f.slot[x].key /\ m.slot[y].ptr = f.slot[x].ptr
  BY DEF Enters
<1>2. /\ ix \in BOOLEAN /\ rep \in BOOLEAN /\ vals \in Seq(Item)
      /\ m.size + l < 2^30
      /\ ix => m.size + l <= m.cap
      /\ Valued(vals, l) /\ HaveRoom(m, vals) /\ Sound(m, DOMAIN vals)
  BY DEF StoreOK
<1>3. m.size \in Nat /\ f.size \in Nat /\ m.cap \in Nat BY <1>1, <1>2, SoundIs
<1>4. /\ l - 1 \in Nat /\ f.size + (l - 1) < 2^30
      /\ ix => f.size + (l - 1) <= m.cap
  BY <1>1, <1>2, <1>3, Fewer
<1>5. HaveRoom(f, vals)
  <2> SUFFICES ASSUME NEW x \in In(f), f.slot[x].key \notin Singular, f.slot[x].ptr # NULL
               PROVE  RoomOK(vals[f.slot[x].ptr])
    BY DEF HaveRoom
  <2>1. PICK y \in In(m) : m.slot[y].key = f.slot[x].key /\ m.slot[y].ptr = f.slot[x].ptr
    BY <1>1
  <2> QED BY <1>2, <2>1 DEF HaveRoom
<1>6. Valued(vals, l - 1) BY <1>2, FewerEach
<1>7. StoreOK(ix, l - 1, f, vals, rep) BY <1>1, <1>2, <1>4, <1>5, <1>6 DEF StoreOK
<1>8. Content(f, vals) = Content(m, vals) BY <1>1 DEF Content
<1> QED BY <1>7, <1>8

\* The first value of a list.
LEMMA AddNew ==
  ASSUME NEW ix, NEW l \in Nat, l > 0, NEW m, NEW vals, NEW rep,
         StoreOK(ix, l, m, vals, rep),
         NEW key \in Name \ Singular, NEW v \in Value,
         NEW f, Enters(m, f, key, DOMAIN vals, ix, rep), Query(f, key) = NULL
  PROVE  LET new == Append(vals, Push(NewArray, v))
             to  == SetPointer(f, key, Len(vals) + 1)
         IN  /\ Lengthens(ix, l, m, vals, rep, key, v, to, new)
             /\ PushRoom(Len(NewArray.items)) \in Nat
<1> DEFINE a == Push(NewArray, v)
           p == Len(vals) + 1
           new == Append(vals, a)
           to == SetPointer(f, key, p)
           j == Find(f, key)
<1>1. /\ Sound(f, DOMAIN vals) /\ MapOK(f, ix, rep)
      /\ f.size <= m.size + 1
      /\ ix => f.cap = m.cap
      /\ j # 0
      /\ \A k \in Name : Query(f, k) = Query(m, k)
      /\ \A x \in In(f) : f.slot[x].ptr # NULL =>
           \E y \in In(m) : m.slot[y].key = f.slot[x].key /\ m.slot[y].ptr = f.slot[x].ptr
  BY DEF Enters
<1>2. /\ ix \in BOOLEAN /\ rep \in BOOLEAN /\ vals \in Seq(Item)
      /\ m.size + l < 2^30
      /\ ix => m.size + l <= m.cap
      /\ Valued(vals, l) /\ HaveRoom(m, vals) /\ Sound(m, DOMAIN vals)
  BY DEF StoreOK
<1>3. a \in Item /\ RoomOK(a) /\ a.items = <<v>> /\ PushRoom(Len(NewArray.items)) \in Nat
  <2>1. NewArray.items = <<>> /\ NewArray \in Item /\ Len(NewArray.items) = 0
    <3>1. InnerField \in Nat BY SizesAssumption
    <3>2. <<>> \in Seq(Value) /\ Len(<<>>) = 0 OBVIOUS
    <3> QED BY <3>1, <3>2 DEF NewArray, Item
  <2>2. 2^30 = 1073741824 OBVIOUS
  <2>3. PICK b \in Nat : b = 2^30 BY <2>2
  <2>4. 0 + 1 < b BY <2>2, <2>3
  <2>5. Len(NewArray.items) + 1 < 2^30 BY <2>1, <2>3, <2>4
  <2>6. /\ a \in Item /\ RoomOK(a) /\ a.items = Append(NewArray.items, v)
        /\ PushRoom(Len(NewArray.items)) \in Nat
    BY <2>1, <2>5, Pushed
  <2> QED BY <2>1, <2>6
<1> HIDE DEF a
<1>4. /\ new \in Seq(Item)
      /\ Len(vals) \in Nat
      /\ DOMAIN new = DOMAIN vals \cup {p} /\ p \notin DOMAIN vals
      /\ \A q \in DOMAIN vals : new[q] = vals[q]
      /\ new[p] = a
  BY <1>2, <1>3, OneBehind
<1>5. p # NULL
  <2>1. p \in Nat BY <1>4
  <2> QED BY <2>1, HashAssumption
<1> HIDE DEF p, new
<1>6. Repoints(f, to, DOMAIN new, key, p)
  <2>1. DOMAIN vals \subseteq DOMAIN new /\ p \in DOMAIN new BY <1>4
  <2> QED BY <1>1, <2>1, Repointed
<1>7. /\ Sound(to, DOMAIN new) /\ In(to) = In(f) /\ to.size = f.size /\ to.cap = f.cap
      /\ \A x \in In(to) :
           /\ to.slot[x].key = f.slot[x].key
           /\ to.slot[x].ptr = IF x = j THEN p ELSE f.slot[x].ptr
      /\ \A k \in Name : k # key => Query(to, k) = Query(f, k)
      /\ Query(to, key) = p
  BY <1>6 DEF Repoints
<1>8. \A x \in In(f) : f.slot[x].ptr \in DOMAIN vals \cup {NULL} /\ f.slot[x].ptr # p
  BY <1>1, <1>4, <1>5, PtrIn
<1> HIDE DEF to, j
<1>9. MapOK(to, ix, rep)
  <2>1. PtrsApart(to) BY <1>1, <1>7, <1>8 DEF MapOK, PtrsApart
  <2>2. NamesApart(to, rep) BY <1>1, <1>7 DEF MapOK, NamesApart
  <2>3. Singles(to, ix) BY <1>1, <1>5, <1>7 DEF MapOK, Singles
  <2> QED BY <2>1, <2>2, <2>3 DEF MapOK
<1>10. m.size \in Nat /\ f.size \in Nat /\ m.cap \in Nat BY <1>1, <1>2, SoundIs
<1>11. /\ l - 1 \in Nat /\ f.size + (l - 1) < 2^30 /\ 1 + (l - 1) < 2^30
       /\ ix => f.size + (l - 1) <= m.cap
  BY <1>1, <1>2, <1>10, Fewer
<1>12. Valued(new, l - 1)
  <2>1. Valued(vals, l - 1) BY <1>2, FewerEach
  <2>2. a.items # <<>> /\ Len(a.items) = 1 BY <1>3
  <2> QED BY <1>4, <1>11, <2>1, <2>2 DEF Valued
<1>13. HaveRoom(to, new)
  <2> SUFFICES ASSUME NEW x \in In(to), to.slot[x].key \notin Singular,
                      to.slot[x].ptr # NULL
               PROVE  RoomOK(new[to.slot[x].ptr])
    BY DEF HaveRoom
  <2>1. CASE x = j BY <1>3, <1>4, <1>7, <2>1
  <2>2. CASE x # j
    <3>1. to.slot[x].ptr = f.slot[x].ptr /\ x \in In(f) /\ to.slot[x].key = f.slot[x].key
      BY <1>7, <2>2
    <3>2. PICK y \in In(m) : m.slot[y].key = f.slot[x].key /\ m.slot[y].ptr = f.slot[x].ptr
      BY <1>1, <3>1
    <3>3. RoomOK(vals[f.slot[x].ptr]) BY <1>2, <3>1, <3>2 DEF HaveRoom
    <3>4. f.slot[x].ptr \in DOMAIN vals BY <1>8, <3>1
    <3> QED BY <1>4, <3>1, <3>3, <3>4
  <2> QED BY <2>1, <2>2
<1>14. StoreOK(ix, l - 1, to, new, rep)
  BY <1>1, <1>2, <1>4, <1>7, <1>9, <1>11, <1>12, <1>13 DEF StoreOK
<1>15. ASSUME NEW k \in Name
       PROVE  Content(to, new)[k]
                = IF k = key THEN Append(Content(m, vals)[k], v) ELSE Content(m, vals)[k]
  <2>1. Query(f, k) = Query(m, k) /\ Query(f, k) \in DOMAIN vals \cup {NULL}
    BY <1>1, QueryIn
  <2>2. CASE k = key
    <3>1. Content(m, vals)[k] = <<>> BY <2>1, <2>2 DEF Content
    <3>2. Content(to, new)[k] = a.items BY <1>4, <1>5, <1>7, <2>2 DEF Content
    <3>3. Append(<<>>, v) = <<v>> OBVIOUS
    <3> QED BY <1>3, <2>2, <3>1, <3>2, <3>3
  <2>3. CASE k # key
    <3>1. Query(to, k) = Query(m, k) BY <1>7, <2>1, <2>3
    <3> QED BY <1>4, <2>1, <2>3, <3>1 DEF Content
  <2> QED BY <2>2, <2>3
<1>16. Content(to, new) = [Content(m, vals) EXCEPT ![key] = Append(@, v)]
  <2>1. /\ DOMAIN Content(to, new) = Name /\ DOMAIN Content(m, vals) = Name
        /\ Content(to, new) = [k \in Name |-> Content(to, new)[k]]
    BY DEF Content
  <2> QED BY <1>15, <2>1
<1> QED BY <1>3, <1>14, <1>16 DEF Lengthens, new, to, a, p

\* A single value.
LEMMA PutOK ==
  ASSUME NEW l \in Nat, l > 0, NEW m, NEW vals, NEW rep,
         StoreOK(TRUE, l, m, vals, rep),
         NEW key \in Singular, NEW v \in Value
  PROVE  LET a   == [room |-> 1, items |-> <<v>>]
             new == Append(vals, a)
             to  == Insert(m, key, Len(vals) + 1)
         IN  PutsOne(l, m, vals, rep, key, v, to, new)
<1> DEFINE a == [room |-> 1, items |-> <<v>>]
           p == Len(vals) + 1
           new == Append(vals, a)
           to == Insert(m, key, p)
           rep2 == (rep \/ Query(m, key) # NULL)
<1>0. key \in Name BY NamesAssumption
<1>2. /\ rep \in BOOLEAN /\ vals \in Seq(Item) /\ MapOK(m, TRUE, rep)
      /\ m.size + l < 2^30
      /\ m.size + l <= m.cap
      /\ Valued(vals, l) /\ HaveRoom(m, vals) /\ Sound(m, DOMAIN vals)
  BY DEF StoreOK
<1>3. a \in Item /\ a.items = <<v>>
  <2>1. <<v>> \in Seq(Value) OBVIOUS
  <2> QED BY <2>1 DEF Item
<1> HIDE DEF a
<1>4. /\ new \in Seq(Item)
      /\ Len(vals) \in Nat
      /\ DOMAIN new = DOMAIN vals \cup {p} /\ p \notin DOMAIN vals
      /\ \A q \in DOMAIN vals : new[q] = vals[q]
      /\ new[p] = a
  BY <1>2, <1>3, OneBehind
<1>5. p # NULL
  <2>1. p \in Nat BY <1>4
  <2> QED BY <2>1, HashAssumption
<1> HIDE DEF p, new
<1>6. m.size \in Nat /\ m.cap \in Nat BY <1>2, SoundIs
<1>7. m.size < m.cap BY <1>2, <1>6
<1>8. Sound(m, DOMAIN new) BY <1>2, <1>4, Widened
<1>9. Adds(m, to, DOMAIN new, key, p) /\ to.cap = m.cap
  <2>1. p \in DOMAIN new \cup {NULL} BY <1>4
  <2> QED BY <1>0, <1>7, <1>8, <2>1, Inserted
<1> HIDE DEF to
<1>10. PICK g : From(m, to, key, p, g) BY <1>9 DEF Adds
<1>11. Sound(to, DOMAIN new) /\ to.size = m.size + 1 /\ Finds(m, to, key, p)
  BY <1>9 DEF Adds
<1>12. /\ \A x \in In(to) :
            \/ g[x] = 0 /\ to.slot[x].key = key /\ to.slot[x].ptr = p
            \/ /\ g[x] \in In(m) /\ to.slot[x].key = m.slot[g[x]].key
               /\ to.slot[x].ptr = m.slot[g[x]].ptr
       /\ \A x, y \in In(to) : g[x] = g[y] => x = y
  BY <1>10 DEF From
<1>13. \A x \in In(m) : /\ m.slot[x].ptr \in DOMAIN vals \cup {NULL} /\ m.slot[x].ptr # p
                        /\ m.slot[x].key \in Name
  BY <1>2, <1>4, <1>5, PtrIn
<1>14. Query(m, key) = NULL => \A x \in In(m) : m.slot[x].key # key
  BY <1>0, <1>2, QueryIs DEF MapOK, Singles
<1>15. PtrsApart(to)
  <2> SUFFICES ASSUME NEW x \in In(to), NEW y \in In(to), to.slot[x].ptr = to.slot[y].ptr,
                      to.slot[x].ptr # NULL
               PROVE  x = y
    BY DEF PtrsApart
  <2>1. g[x] = g[y] BY <1>2, <1>12, <1>13 DEF MapOK, PtrsApart
  <2> QED BY <1>12, <2>1
<1>16. NamesApart(to, rep2)
  <2> SUFFICES ASSUME NEW x \in In(to), NEW y \in In(to), to.slot[x].key = to.slot[y].key,
                      to.slot[x].key \notin Singular \/ ~ rep2
               PROVE  x = y
    BY DEF NamesApart
  <2>1. CASE to.slot[x].key = key
    <3>1. Query(m, key) = NULL BY <2>1
    <3>2. g[x] = 0 /\ g[y] = 0 BY <1>12, <1>14, <2>1, <3>1
    <3> QED BY <1>12, <3>2
  <2>2. CASE to.slot[x].key # key
    <3>1. /\ g[x] \in In(m) /\ to.slot[x].key = m.slot[g[x]].key
          /\ g[y] \in In(m) /\ to.slot[y].key = m.slot[g[y]].key
      BY <1>12, <2>2
    <3>2. m.slot[g[x]].key \notin Singular \/ ~ rep BY <3>1
    <3>3. g[x] = g[y] BY <1>2, <3>1, <3>2 DEF MapOK, NamesApart
    <3> QED BY <1>12, <3>3
  <2> QED BY <2>1, <2>2
<1>17. Singles(to, TRUE)
  <2> SUFFICES ASSUME NEW x \in In(to), to.slot[x].key \in Singular
               PROVE  to.slot[x].ptr # NULL
    BY DEF Singles
  <2> QED BY <1>2, <1>5, <1>12 DEF MapOK, Singles
<1>18. /\ l - 1 \in Nat /\ to.size + (l - 1) < 2^30 /\ 1 + (l - 1) < 2^30
       /\ to.size + (l - 1) <= m.cap
  <2>1. to.size \in Nat /\ to.size <= m.size + 1 BY <1>6, <1>11
  <2> QED BY <1>2, <1>6, <2>1, Fewer
<1>19. Valued(new, l - 1)
  <2>1. Valued(vals, l - 1) BY <1>2, FewerEach
  <2>2. a.items # <<>> /\ Len(a.items) = 1 BY <1>3
  <2> QED BY <1>4, <1>18, <2>1, <2>2 DEF Valued
<1>20. HaveRoom(to, new)
  <2> SUFFICES ASSUME NEW x \in In(to), to.slot[x].key \notin Singular,
                      to.slot[x].ptr # NULL
               PROVE  RoomOK(new[to.slot[x].ptr])
    BY DEF HaveRoom
  <2>1. /\ g[x] \in In(m) /\ to.slot[x].key = m.slot[g[x]].key
        /\ to.slot[x].ptr = m.slot[g[x]].ptr
    BY <1>12
  <2>2. RoomOK(vals[m.slot[g[x]].ptr]) BY <1>2, <2>1 DEF HaveRoom
  <2> QED BY <1>4, <1>13, <2>1, <2>2
<1>21. StoreOK(TRUE, l - 1, to, new, rep2)
  BY <1>2, <1>4, <1>9, <1>11, <1>15, <1>16, <1>17, <1>18, <1>19, <1>20
  DEF StoreOK, MapOK
<1>22. \A k \in Name : Query(m, k) \in DOMAIN vals \cup {NULL} BY <1>2, QueryIn
<1>23. \A k \in Name : k # key => Content(to, new)[k] = Content(m, vals)[k]
  BY <1>4, <1>11, <1>22 DEF Finds, Content
<1>24. /\ DOMAIN Content(to, new) = Name /\ DOMAIN Content(m, vals) = Name
       /\ Content(to, new) = [k \in Name |-> Content(to, new)[k]]
       /\ Content(m, vals) = [k \in Name |-> Content(m, vals)[k]]
  BY DEF Content
<1>25. CASE Query(to, key) = p
  <2>1. Content(to, new)[key] = <<v>> BY <1>0, <1>3, <1>4, <1>5, <1>25 DEF Content
  <2>2. Content(to, new) = [Content(m, vals) EXCEPT ![key] = <<v>>]
    BY <1>23, <1>24, <2>1
  <2> QED BY <1>21, <2>2 DEF PutsOne, to, new, a, p
<1>26. CASE Query(to, key) # p
  <2>1. Query(to, key) = Query(m, key) /\ Find(m, key) # 0 BY <1>0, <1>11, <1>26 DEF Finds
  <2>2. Query(m, key) # NULL BY <1>0, <1>2, <2>1, QueryIs DEF MapOK, Singles
  <2>3. Query(m, key) \in DOMAIN vals BY <1>0, <1>22, <2>2
  <2>4. Content(to, new)[key] = Content(m, vals)[key]
    BY <1>0, <1>4, <2>1, <2>3 DEF Content
  <2>5. Content(m, vals)[key] # <<>> BY <1>0, <1>2, <2>2, <2>3 DEF Content, Valued
  <2>6. Content(to, new) = Content(m, vals) BY <1>23, <1>24, <2>4
  <2> QED BY <1>21, <2>5, <2>6 DEF PutsOne, to, new, a, p
<1> QED BY <1>25, <1>26

-----------------------------------------------------------------------------
\* The steps of a message.

\* A message that has just begun.
LEMMA BeginsOK ==
  ASSUME NEW ix \in BOOLEAN, NEW l \in Nat, l < 2^30, NEW n \in Nat, n <= 2^30,
         ix => l <= n
  PROVE  /\ StoreOK(ix, l, SpNew(n), <<>>, FALSE)
         /\ Content(SpNew(n), <<>>) = [key \in Name |-> <<>>]
         /\ SpNew(n).cap \in Nat
<1> DEFINE m == SpNew(n)
<1>1. DOMAIN <<>> = {} /\ <<>> \in Seq(Item) OBVIOUS
<1>2. Sound(m, {}) /\ In(m) = {} /\ m.size = 0 /\ n <= m.cap BY NewSound
<1> HIDE DEF m
<1>3. m.cap \in Nat BY <1>2, SoundIs
<1>4. MapOK(m, ix, FALSE) /\ HaveRoom(m, <<>>) /\ Valued(<<>>, l)
  BY <1>1, <1>2 DEF MapOK, PtrsApart, NamesApart, Singles, HaveRoom, Valued
<1>5. 0 + l = l /\ (ix => l <= m.cap) BY <1>2, <1>3
<1>6. StoreOK(ix, l, m, <<>>, FALSE) BY <1>1, <1>2, <1>4, <1>5 DEF StoreOK
<1>7. \A k \in Name : Query(m, k) = NULL
  <2>1. \A k \in Name : Find(m, k) = 0 BY <1>2, QueryIs
  <2> QED BY <1>2, <2>1, QueryIs
<1>8. Content(m, <<>>) = [key \in Name |-> <<>>] BY <1>7 DEF Content
<1> QED BY <1>3, <1>6, <1>8 DEF m

\* Its heap.
LEMMA HeapBegins ==
  ASSUME NEW m, m.cap \in Nat
  PROVE  HeapSound(HeapFor(m))
<1>1. MapSize \in Nat /\ SlotSize \in Nat BY SizesAssumption
<1>2. m.cap * SlotSize \in Nat BY <1>1
<1>3. HeapSound(Alloc(NewHeap, MapSize)) BY <1>1, NewHeapSound, AllocSound
<1> QED BY <1>2, <1>3, AllocSound DEF HeapFor

\* Three requests at most are made of it at a time.
LEMMA HeapAgain ==
  ASSUME NEW h, HeapSound(h), NEW x \in Nat, NEW y \in Nat, NEW z \in Nat
  PROVE  HeapSound(Alloc(Alloc(Alloc(h, x), y), z)) /\ HeapSound(Alloc(Alloc(h, x), y))
<1>1. HeapSound(Alloc(h, x)) BY AllocSound
<1>2. HeapSound(Alloc(Alloc(h, x), y)) BY <1>1, AllocSound
<1> QED BY <1>2, AllocSound

\* What a growing map asks for.
LEMMA SlotsAsked ==
  ASSUME NEW f, f.cap \in Nat
  PROVE  SlotsFor(f) \in Nat
<1>1. SlotSize \in Nat BY SizesAssumption
<1>2. f.cap * SlotSize \in Nat BY <1>1
<1> QED BY <1>2 DEF SlotsFor

\* The map, the arrays and the heap are in order together.  StoreOK speaks of
\* the atoms to come as well: the map of an index never has to make room, for
\* it may hold a name twice, which a rehash would not keep apart.
IInv == StoreOK(index, left, map, values, repeated) /\ HeapSound(heap)

Empty == [key \in Name |-> <<>>]

\* The number of atoms of a buffer.
LEMMA CountIs ==
  ASSUME NEW l \in 0 .. 2^30 - 1
  PROVE  l \in Nat /\ l < 2^30 /\ l <= 2^30 /\ l <= l
<1>1. 2^30 = 1073741824 OBVIOUS
<1>2. PICK b \in Nat : b = 2^30 BY <1>1
<1>3. l \in 0 .. b - 1 BY <1>2
<1>4. l \in Nat /\ l < b /\ l <= b /\ l <= l BY <1>3
<1> QED BY <1>2, <1>4

\* A first message begins in order, with nothing stored,
LEMMA Begun ==
  ASSUME Init
  PROVE  IInv /\ Contents = Empty
<1>0. Contents = Content(map, values) BY DEF Contents, Content
<1>3. 4 <= 2^30 /\ 4 \in Nat OBVIOUS
<1>5. /\ StoreOK(index, left, map, <<>>, FALSE)
      /\ Content(map, <<>>) = Empty /\ map.cap \in Nat
  <2>1. CASE index = TRUE /\ left \in Counts /\ map = SpNew(left)
    <3>1. left \in 0 .. 2^30 - 1 BY <2>1, SizesAssumption
    <3>2. left \in Nat /\ left < 2^30 /\ left <= 2^30 /\ left <= left BY CountIs, <3>1
    <3> QED BY <2>1, <3>2, BeginsOK DEF Empty
  <2>2. CASE index = FALSE /\ left = MaxPacked /\ map = SpNew(4)
    <3>1. left \in Nat /\ left < 2^30 BY CountIs, <2>2, SizesAssumption
    <3> QED BY <1>3, <2>2, <3>1, BeginsOK DEF Empty
  <2> QED BY <2>1, <2>2 DEF Init
<1>6. heap = HeapFor(map) /\ values = <<>> /\ repeated = FALSE BY DEF Init
<1>7. HeapSound(heap) BY <1>5, <1>6, HeapBegins
<1> QED BY <1>0, <1>5, <1>6, <1>7 DEF IInv

\* and so does the one after a message that is deleted.
LEMMA Ended ==
  ASSUME IInv, Delete
  PROVE  IInv' /\ Contents' = Empty
<1>0. Contents' = Content(map', values') BY DEF Contents, Content
<1>1. index \in BOOLEAN BY DEF IInv, StoreOK
<1>3. 4 <= 2^30 /\ 4 \in Nat OBVIOUS
<1>5. /\ StoreOK(index, left', map', <<>>, FALSE)
      /\ Content(map', <<>>) = Empty /\ map'.cap \in Nat
  <2>1. CASE index
    <3>1. left' \in Counts /\ map' = SpNew(left') BY <2>1 DEF Delete
    <3>2. left' \in 0 .. 2^30 - 1 BY <3>1, SizesAssumption
    <3>3. left' \in Nat /\ left' < 2^30 /\ left' <= 2^30 /\ left' <= left' BY CountIs, <3>2
    <3> QED BY <1>1, <3>1, <3>3, BeginsOK DEF Empty
  <2>2. CASE ~ index
    <3>1. left' = MaxPacked /\ map' = SpNew(4) BY <2>2 DEF Delete
    <3>2. left' \in Nat /\ left' < 2^30 BY CountIs, <3>1, SizesAssumption
    <3> QED BY <1>1, <1>3, <2>2, <3>1, <3>2, BeginsOK DEF Empty
  <2> QED BY <2>1, <2>2
<1>6. heap' = HeapFor(map') /\ values' = <<>> /\ repeated' = FALSE /\ index' = index
  BY DEF Delete
<1>7. HeapSound(heap') BY <1>5, <1>6, HeapBegins
<1>8. StoreOK(index', left', map', values', repeated') BY <1>5, <1>6
<1>9. Content(map', values') = Empty BY <1>5, <1>6
<1> QED BY <1>0, <1>7, <1>8, <1>9 DEF IInv

\* One step keeps the invariant, and does to the contents what the abstract
\* store may do.
LEMMA AddStep ==
  ASSUME IInv, Add
  PROVE  IInv' /\ Store!Add
<1>0. Contents' = Content(map', values') /\ Contents = Content(map, values)
  BY DEF Contents, Content
<1>1. PICK key \in Name \ Singular, v \in Coming :
        LET found == QueryInsert(map, key)
            at    == Query(found, key)
            list  == IF at = NULL THEN NewArray ELSE values[at]
            made  == IF at = NULL THEN ArraySize ELSE 0
        IN  /\ left > 0
            /\ left' = left - 1
            /\ heap' = Alloc(Alloc(Alloc(heap, SlotsFor(found)), made), OuterFor(list))
            /\ IF at = NULL
               THEN /\ values' = Append(values, Push(list, v))
                    /\ map' = SetPointer(found, key, Len(values) + 1)
               ELSE /\ values' = [values EXCEPT ![at] = Push(list, v)]
                    /\ map' = found
            /\ UNCHANGED <<index, repeated>>
  BY DEF Add
<1> DEFINE f == QueryInsert(map, key)
           at == Query(f, key)
           list == IF at = NULL THEN NewArray ELSE values[at]
           made == IF at = NULL THEN ArraySize ELSE 0
<1>2. v \in Value BY DEF Coming
<1>3. /\ index \in BOOLEAN /\ left \in Nat /\ left > 0
      /\ Sound(map, DOMAIN values) /\ MapOK(map, index, repeated)
      /\ map.size + left < 2^30 /\ (index => map.size + left <= map.cap)
  BY <1>1 DEF IInv, StoreOK
<1>4. StoreOK(index, left, map, values, repeated) /\ HeapSound(heap) BY DEF IInv
<1>5. Enters(map, f, key, DOMAIN values, index, repeated)
  <2>1. map.size \in Nat /\ map.cap \in Nat BY <1>3, SoundIs
  <2>2. map.size <= map.size + 1 BY <2>1
  <2>3. map.size < 2^30 /\ (index => map.size < map.cap) BY <1>3, <2>1, <2>2, Fewer
  <2> QED BY <1>3, <2>3, Entered
<1>6. f.cap \in Nat BY <1>5, SoundIs DEF Enters
<1>7. SlotsFor(f) \in Nat BY <1>6, SlotsAsked
<1>8. made \in Nat /\ VarSize \in Nat BY SizesAssumption
<1>9. /\ left' = left - 1 /\ index' = index /\ repeated' = repeated
      /\ heap' = Alloc(Alloc(Alloc(heap, SlotsFor(f)), made), OuterFor(list))
      /\ at = NULL => /\ values' = Append(values, Push(NewArray, v))
                      /\ map' = SetPointer(f, key, Len(values) + 1)
      /\ at # NULL => /\ values' = [values EXCEPT ![at] = Push(values[at], v)]
                      /\ map' = f
  BY <1>1
<1> HIDE DEF f, made
<1>10. /\ StoreOK(index, left - 1, map', values', repeated)
       /\ Content(map', values') = [Content(map, values) EXCEPT ![key] = Append(@, v)]
       /\ PushRoom(Len(list.items)) \in Nat
  <2>1. CASE at = NULL
    <3>1. /\ Lengthens(index, left, map, values, repeated, key, v,
                   SetPointer(f, key, Len(values) + 1), Append(values, Push(NewArray, v)))
          /\ PushRoom(Len(NewArray.items)) \in Nat
      BY <1>2, <1>3, <1>4, <1>5, <2>1, AddNew
    <3> QED BY <1>9, <2>1, <3>1 DEF Lengthens
  <2>2. CASE at # NULL
    <3>1. /\ Lengthens(index, left, map, values, repeated, key, v, f,
                   [values EXCEPT ![at] = Push(values[at], v)])
          /\ PushRoom(Len(values[at].items)) \in Nat
      BY <1>2, <1>3, <1>4, <1>5, <2>2, AddOld
    <3> QED BY <1>9, <2>2, <3>1 DEF Lengthens
  <2> QED BY <2>1, <2>2
<1> HIDE DEF list, at
<1>11. OuterFor(list) \in Nat
  <2>1. PushRoom(Len(list.items)) * VarSize \in Nat BY <1>8, <1>10
  <2> QED BY <2>1 DEF OuterFor
<1>12. HeapSound(heap') BY <1>4, <1>7, <1>8, <1>9, <1>11, HeapAgain
<1>13. IInv' BY <1>9, <1>10, <1>12 DEF IInv
<1>14. Store!Add
  <2>1. /\ Contents = [k \in Name |-> Contents[k]] /\ DOMAIN Contents = Name
        /\ Contents' = [Contents EXCEPT ![key] = Append(@, v)]
        /\ \A k \in Name : \E s \in Seq(Value) : Contents[k] = s
    <3>1. \A k \in Name : Query(map, k) \in DOMAIN values \cup {NULL} BY <1>3, QueryIn
    <3>2. \A p \in DOMAIN values : values[p].items \in Seq(Value)
      <4>1. values \in Seq(Item) BY <1>4 DEF StoreOK
      <4>2. \A p \in DOMAIN values : values[p] \in Item BY <4>1
      <4> QED BY <4>2 DEF Item
    <3>3. <<>> \in Seq(Value) OBVIOUS
    <3>4. \A k \in Name : Content(map, values)[k] \in Seq(Value)
      BY <3>1, <3>2, <3>3 DEF Content
    <3>5. Content(map, values) = [k \in Name |-> Content(map, values)[k]]
          /\ DOMAIN Content(map, values) = Name
      BY DEF Content
    <3> QED BY <1>0, <1>10, <3>4, <3>5
  <2>2. PICK s \in Seq(Value) : Contents[key] = s BY <2>1
  <2>3. Contents'[key] = Append(s, v) BY <2>1, <2>2
  <2>4. /\ Append(s, v) # <<>> /\ Append(s, v)[Len(Append(s, v))] = v
        /\ Append(s, v) \in Seq(Value)
    <3>1. /\ Len(Append(s, v)) = Len(s) + 1 /\ Append(s, v)[Len(s) + 1] = v
          /\ Append(s, v) \in Seq(Value) /\ Len(s) \in Nat
      BY <1>2, AppendProperties
    <3>2. Len(<<>>) = 0 OBVIOUS
    <3>3. Len(s) + 1 # 0 BY <3>1
    <3> QED BY <3>1, <3>2, <3>3
  <2> DEFINE new == Contents'[key]
  <2>5. new # <<>> /\ new[Len(new)] = v BY <2>3, <2>4
  <2>6. Contents' = [Contents EXCEPT ![key] = Append(@, new[Len(new)])]
    BY <2>1, <2>5
  <2> HIDE DEF new
  <2>7. /\ new # <<>> /\ new[Len(new)] \in Value
        /\ Contents' = [Contents EXCEPT ![key] = Append(@, new[Len(new)])]
    BY <1>2, <2>5, <2>6
  <2> QED BY <2>7 DEF Store!Add, new
<1> QED BY <1>13, <1>14

\* A value that is rejected leaves what is stored as it is.
LEMMA RejectStep ==
  ASSUME IInv, Reject
  PROVE  IInv' /\ UNCHANGED Contents
<1>0. Contents' = Content(map', values') /\ Contents = Content(map, values)
  BY DEF Contents, Content
<1>1. PICK key \in Name \ Singular :
        LET found == QueryInsert(map, key)
            at    == Query(found, key)
            made  == IF at = NULL THEN ArraySize ELSE 0
        IN  /\ index /\ left > 0
            /\ left' = left - 1
            /\ heap' = Alloc(Alloc(heap, SlotsFor(found)), made)
            /\ map' = found
            /\ UNCHANGED <<index, values, repeated>>
  BY DEF Reject
<1> DEFINE f == QueryInsert(map, key)
           made == IF Query(f, key) = NULL THEN ArraySize ELSE 0
<1>3. /\ index \in BOOLEAN /\ left \in Nat /\ left > 0
      /\ Sound(map, DOMAIN values) /\ MapOK(map, index, repeated)
      /\ map.size + left < 2^30 /\ (index => map.size + left <= map.cap)
  BY <1>1 DEF IInv, StoreOK
<1>4. StoreOK(index, left, map, values, repeated) /\ HeapSound(heap) BY DEF IInv
<1>5. Enters(map, f, key, DOMAIN values, index, repeated)
  <2>1. map.size \in Nat /\ map.cap \in Nat BY <1>3, SoundIs
  <2>2. map.size <= map.size + 1 BY <2>1
  <2>3. map.size < 2^30 /\ (index => map.size < map.cap) BY <1>3, <2>1, <2>2, Fewer
  <2> QED BY <1>3, <2>3, Entered
<1>6. f.cap \in Nat BY <1>5, SoundIs DEF Enters
<1>7. SlotsFor(f) \in Nat BY <1>6, SlotsAsked
<1>8. made \in Nat BY SizesAssumption
<1>9. /\ left' = left - 1 /\ index' = index /\ repeated' = repeated
      /\ heap' = Alloc(Alloc(heap, SlotsFor(f)), made)
      /\ values' = values /\ map' = f
  BY <1>1
<1> HIDE DEF f, made
<1>10. /\ StoreOK(index, left - 1, f, values, repeated)
       /\ Content(f, values) = Content(map, values)
  BY <1>3, <1>4, <1>5, RejectOK
<1>12. HeapSound(heap')
  <2>1. 0 \in Nat OBVIOUS
  <2> QED BY <1>4, <1>7, <1>8, <1>9, <2>1, HeapAgain
<1>13. IInv' BY <1>9, <1>10, <1>12 DEF IInv
<1> QED BY <1>0, <1>9, <1>10, <1>13

\* A single value is stored, or the one that is there is kept.
LEMMA PutStep ==
  ASSUME IInv, Put
  PROVE  IInv' /\ Store!Put
<1>0. Contents' = Content(map', values') /\ Contents = Content(map, values)
  BY DEF Contents, Content
<1>1. PICK key \in Singular, v \in Coming :
        LET new == Insert(map, key, Len(values) + 1)
        IN  /\ index /\ left > 0
            /\ left' = left - 1
            /\ heap' = Alloc(Alloc(heap, ValueSize), SlotsFor(new))
            /\ map' = new
            /\ values' = Append(values, [room |-> 1, items |-> <<v>>])
            /\ repeated' = (repeated \/ Query(map, key) # NULL)
            /\ UNCHANGED index
  BY DEF Put
<1> DEFINE f == Insert(map, key, Len(values) + 1)
           more == Append(values, [room |-> 1, items |-> <<v>>])
           rep == (repeated \/ Query(map, key) # NULL)
<1>2. v \in Value BY DEF Coming
<1>3. index = TRUE /\ left \in Nat /\ left > 0 BY <1>1 DEF IInv, StoreOK
<1>4. StoreOK(TRUE, left, map, values, repeated) /\ HeapSound(heap) BY <1>3 DEF IInv
<1>9. /\ left' = left - 1 /\ index' = TRUE /\ repeated' = rep
      /\ heap' = Alloc(Alloc(heap, ValueSize), SlotsFor(f))
      /\ values' = more /\ map' = f
  BY <1>1, <1>3
<1>10. /\ StoreOK(TRUE, left - 1, f, more, rep)
       /\ \/ Content(f, more) = [Content(map, values) EXCEPT ![key] = <<v>>]
          \/ Content(map, values)[key] # <<>> /\ Content(f, more) = Content(map, values)
  <2>1. PutsOne(left, map, values, repeated, key, v, f, more)
    BY <1>2, <1>3, <1>4, PutOK
  <2> HIDE DEF f, more
  <2> QED BY <2>1 DEF PutsOne
<1> HIDE DEF f, more, rep
<1>6. f.cap \in Nat BY <1>10, SoundIs DEF StoreOK
<1>7. SlotsFor(f) \in Nat BY <1>6, SlotsAsked
<1>12. HeapSound(heap')
  <2>1. 0 \in Nat /\ ValueSize \in Nat BY SizesAssumption
  <2> QED BY <1>4, <1>7, <1>9, <2>1, HeapAgain
<1>13. IInv' BY <1>9, <1>10, <1>12 DEF IInv
<1>14. Store!Put
  <2>1. \/ Contents' = [Contents EXCEPT ![key] = <<v>>]
        \/ Contents[key] # <<>> /\ Contents' = Contents
    BY <1>0, <1>9, <1>10
  <2> QED BY <1>2, <2>1 DEF Store!Put
<1> QED BY <1>13, <1>14

\* Every step of a message keeps the invariant and is a step of the store.
LEMMA StepOK ==
  ASSUME IInv, [Next]_vars
  PROVE  IInv' /\ [Store!Next]_Contents
<1>1. CASE Add BY <1>1, AddStep DEF Store!Next
<1>2. CASE Reject BY <1>2, RejectStep
<1>3. CASE Put BY <1>3, PutStep DEF Store!Next
<1>4. CASE Delete
  <2>1. IInv' /\ Contents' = Empty BY <1>4, Ended
  <2> QED BY <2>1 DEF Empty, Store!Next, Store!Clear
<1>5. CASE UNCHANGED vars
  <2>1. /\ index' = index /\ left' = left /\ heap' = heap /\ map' = map
        /\ values' = values /\ repeated' = repeated
    BY <1>5 DEF vars
  <2>2. IInv' BY <2>1 DEF IInv
  <2>3. Contents' = Contents BY <2>1 DEF Contents
  <2> QED BY <2>2, <2>3
<1> QED BY <1>1, <1>2, <1>3, <1>4, <1>5 DEF Next

\* The invariant holds always.
LEMMA Always == Spec => []IInv
<1>1. Init => IInv BY Begun
<1>2. IInv /\ [Next]_vars => IInv' BY StepOK
<1> QED BY <1>1, <1>2, PTL DEF Spec

\* Whatever a message asks of its heap (_pbcH_alloc), each block lies within a
\* page and apart from all the others, until the heap is deleted as a whole.
THEOREM BlocksStayApart == Spec => []BlocksApart
<1>1. IInv => BlocksApart BY DEF IInv, HeapSound, BlocksApart
<1> QED BY <1>1, Always, PTL

\* The map, the arrays and the heap implement the abstract store: a value that
\* is added to a list comes behind those that are there, a single value is
\* kept, no value gets under another name, and growing (rehash of map.c,
\* _pbcA_push) changes nothing.
THEOREM StoreKeepsContents == Spec => KeepsContents
<1>1. Init => Store!Init BY Begun DEF Store!Init, Empty
<1>2. IInv /\ [Next]_vars => [Store!Next]_Contents BY StepOK
<1> QED BY <1>1, <1>2, Always, PTL DEF Spec, KeepsContents, Store!Spec

\* Chains are sound when the parts are in order.
LEMMA ChainsAre ==
  ASSUME StoreOK(index, left, map, values, repeated)
  PROVE  ChainsSound
<1> DEFINE n == map.cap
<1>1. /\ index \in BOOLEAN /\ repeated \in BOOLEAN /\ left \in Nat
      /\ values \in Seq(Item) /\ Sound(map, DOMAIN values)
  BY DEF StoreOK
<1>2. n \in Nat /\ map.size = Cardinality(In(map)) BY <1>1, SoundIs
<1>3. Whole(map.slot, n, Name, DOMAIN values) /\ \E k \in 0 .. 30 : n = 2^k
  BY <1>1 DEF Sound, Kept
<1> HIDE DEF n
<1>4. Slotted(map.slot, n, Name, DOMAIN values) BY <1>3 DEF Whole
<1>5. \A i \in 1 .. n : /\ map.slot[i].key \in Name \cup {NULL}
                        /\ map.slot[i].ptr \in DOMAIN values \cup {NULL}
                        /\ map.slot[i].next \in 0 .. n
  BY <1>4 DEF Slotted
<1>6. \A i \in DOMAIN values : values[i].items \in Seq(Value)
  <2>1. \A i \in DOMAIN values : values[i] \in Item BY <1>1
  <2> QED BY <2>1 DEF Item
<1>7. map.size = Cardinality({i \in 1 .. n : map.slot[i].key # NULL})
  BY <1>2 DEF In, Taken, n
<1>8. Power(n) BY <1>3 DEF Power
<1>9. TypeOK BY <1>1, <1>5, <1>6, <1>7, <1>8 DEF TypeOK, n
<1>10. ASSUME NEW key \in Stored PROVE Find(map, key) # 0
  <2>1. PICK i \in 1 .. n : map.slot[i].key = key BY DEF Stored, n
  <2>2. key \in Name /\ key # NULL BY HashAssumption DEF Stored
  <2>3. i \in In(map) BY <2>1, <2>2 DEF In, Taken, n
  <2> QED BY <1>1, <2>1, <2>2, <2>3, QueryIs
<1>11. ASSUME NEW i \in 1 .. n PROVE 0 \in {Step(map.slot, i)[k] : k \in 0 .. n}
  <2>1. Step(map.slot, i)[n] = 0 BY <1>2, <1>3, ChainEnds
  <2>2. n \in 0 .. n BY <1>2
  <2> QED BY <2>1, <2>2
<1> QED BY <1>9, <1>10, <1>11 DEF ChainsSound, n

\* As long as no single value has come twice every name is in one slot, and
\* the names with a value are those of the filled slots.
LEMMA ListedAre ==
  ASSUME StoreOK(index, left, map, values, repeated), ~ repeated
  PROVE  /\ OneEach(map)
         /\ Listed = {map.slot[p].key : p \in Filled(map)}
         /\ \A p \in Filled(map) : Query(map, map.slot[p].key) = map.slot[p].ptr
<1>1. Sound(map, DOMAIN values) /\ MapOK(map, index, repeated) BY DEF StoreOK
<1>2. OneEach(map) BY <1>1 DEF MapOK, NamesApart, OneEach, Unique, In
<1>3. /\ Filled(map) \subseteq In(map)
      /\ \A p \in Filled(map) : map.slot[p].key \in Name /\ p \in 1 .. map.cap
  BY <1>1, FilledIn
<1>4. ASSUME NEW p \in Filled(map)
      PROVE  Query(map, map.slot[p].key) = map.slot[p].ptr /\ map.slot[p].key \in Listed
  <2>1. p \in In(map) /\ map.slot[p].key \in Name /\ p \in 1 .. map.cap BY <1>3
  <2>2. Find(map, map.slot[p].key) = p
    BY <1>1, <1>2, <2>1, QueryIs DEF OneEach, Unique, In
  <2>3. p # 0 BY <2>1
  <2>4. Query(map, map.slot[p].key) = map.slot[p].ptr BY <1>1, <2>1, <2>2, <2>3, QueryIs
  <2>5. map.slot[p].ptr # NULL BY DEF Filled
  <2> QED BY <2>1, <2>4, <2>5 DEF Listed, Stored
<1>5. ASSUME NEW key \in Listed PROVE \E p \in Filled(map) : map.slot[p].key = key
  <2>1. key \in Name /\ Query(map, key) # NULL BY DEF Listed, Stored
  <2>2. Find(map, key) # 0 BY <1>1, <2>1, QueryIs
  <2>3. /\ Find(map, key) \in In(map) /\ map.slot[Find(map, key)].key = key
        /\ map.slot[Find(map, key)].ptr = Query(map, key)
    BY <1>1, <2>1, <2>2, QueryIs
  <2>4. Find(map, key) \in 1 .. map.cap BY <2>3 DEF In, Taken
  <2> QED BY <2>1, <2>3, <2>4 DEF Filled
<1> QED BY <1>2, <1>4, <1>5

\* There are as many of them as there are filled slots.
LEMMA ListedCount ==
  ASSUME StoreOK(index, left, map, values, repeated), ~ repeated
  PROVE  Cardinality(Listed) = Cardinality(Filled(map))
<1>1. Sound(map, DOMAIN values) BY DEF StoreOK
<1> DEFINE L == Filled(map)
           g == [p \in L |-> map.slot[p].key]
<1>2. IsFiniteSet(L) /\ L \subseteq In(map) BY <1>1, FilledIn
<1>3. OneEach(map) /\ Listed = {map.slot[p].key : p \in L} BY ListedAre
<1>4. \A p, q \in L : map.slot[p].key = map.slot[q].key => p = q
  BY <1>2, <1>3 DEF OneEach, Unique, In
<1> HIDE DEF L
<1>5. g \in [L -> Listed] /\ (\A p, q \in L : g[p] = g[q] => p = q)
      /\ \A k \in Listed : \E p \in L : g[p] = k
  BY <1>3, <1>4
<1> HIDE DEF g
<1>6. g \in Bijection(L, Listed) BY <1>5 DEF Bijection, Injection, Surjection, IsInjective
<1>7. ExistsBijection(L, Listed) BY <1>6 DEF ExistsBijection
<1> QED BY <1>2, <1>7, FS_Bijection DEF L

\* Going by next visits each of the names with a value once.
LEMMA VisitsAre ==
  ASSUME StoreOK(index, left, map, values, repeated)
  PROVE  VisitsEach
<1> SUFFICES ASSUME ~ repeated PROVE VisitsEach BY DEF VisitsEach
<1> DEFINE c == Cardinality(Listed)
           D == Name \cup {NULL}
           Is(f) == f = [n \in 0 .. c + 1 |-> IF n = 0 THEN NULL ELSE NextKey(map, f[n - 1])]
           visit == CHOOSE f : Is(f)
           g == [k \in D |-> NextKey(map, k)]
<1>1. Sound(map, DOMAIN values) BY DEF StoreOK
<1>2. /\ OneEach(map) /\ Listed = {map.slot[p].key : p \in Filled(map)}
      /\ \A p \in Filled(map) : Query(map, map.slot[p].key) = map.slot[p].ptr
      /\ c = Cardinality(Filled(map))
  BY ListedAre, ListedCount
<1>3. c \in Nat BY <1>1, <1>2, FilledIn, FS_CardinalityType
<1> HIDE DEF c
<1>4. map.cap \in Nat BY <1>1, SoundIs
<1>5. \A i \in 0 .. map.cap : FirstFrom(map, i + 1) \in D
  <2> SUFFICES ASSUME NEW i \in 0 .. map.cap PROVE FirstFrom(map, i + 1) \in D OBVIOUS
  <2>1. (\E q \in Filled(map) : q > i) \/ \A q \in Filled(map) : q <= i
    <3>1. \A q \in Filled(map) : q > i \/ q <= i BY <1>4 DEF Filled
    <3> QED BY <3>1
  <2>2. \A q \in Filled(map) : map.slot[q].key \in Name BY <1>1, FilledIn
  <2> QED BY <1>4, <2>1, <2>2, FirstBehind
<1>6. ASSUME NEW k \in D PROVE NextKey(map, k) \in D
  <2>1. CASE k = NULL
    <3>1. 0 \in 0 .. map.cap /\ 0 + 1 = 1 BY <1>4
    <3>2. FirstFrom(map, 1) \in D BY <1>5, <3>1
    <3> QED BY <2>1, <3>2 DEF NextKey
  <2>2. CASE k # NULL
    <3>1. CASE Find(map, k) = 0 BY <2>2, <3>1 DEF NextKey
    <3>2. CASE Find(map, k) # 0
      <4>1. k \in Name BY <2>2
      <4>2. Find(map, k) \in In(map) BY <1>1, <3>2, <4>1, QueryIs
      <4>3. Find(map, k) \in 0 .. map.cap BY <1>4, <4>2 DEF In, Taken
      <4>4. FirstFrom(map, Find(map, k) + 1) \in D BY <1>5, <4>3
      <4> QED BY <2>2, <3>2, <4>4 DEF NextKey
    <3> QED BY <3>1, <3>2
  <2> QED BY <2>1, <2>2
<1> HIDE DEF D
<1>7. \E f : Is(f)
  <2>1. NULL \in D BY DEF D
  <2>2. g \in [D -> D] BY <1>6
  <2>3. \A k \in D : g[k] = NextKey(map, k) OBVIOUS
  <2> HIDE DEF g
  <2>4. c + 1 \in Nat BY <1>3
  <2>5. PICK f : Iterates(f, c + 1, D, g, NULL) BY <2>1, <2>2, <2>4, Iterated
  <2>6. f \in [0 .. c + 1 -> D] /\ f[0] = NULL /\ \A i \in 1 .. c + 1 : f[i] = g[f[i - 1]]
    BY <2>5 DEF Iterates
  <2>7. ASSUME NEW n \in 0 .. c + 1
        PROVE  f[n] = IF n = 0 THEN NULL ELSE NextKey(map, f[n - 1])
    <3>1. CASE n = 0 BY <2>6, <3>1
    <3>2. CASE n # 0
      <4>1. n \in 1 .. c + 1 /\ n - 1 \in 0 .. c + 1 BY <1>3, <3>2
      <4> QED BY <2>3, <2>6, <3>2, <4>1
    <3> QED BY <3>1, <3>2
  <2>8. f = [n \in 0 .. c + 1 |-> f[n]] BY <2>6
  <2>9. Is(f) BY <2>7, <2>8
  <2> QED BY <2>9
<1>8. Is(visit) BY <1>7
<1>9. visit[0] = NULL /\ \A n \in 1 .. c + 1 : visit[n] = NextKey(map, visit[n - 1])
  <2> HIDE DEF visit
  <2>1. 0 \in 0 .. c + 1 /\ \A n \in 1 .. c + 1 : n \in 0 .. c + 1 /\ n # 0 BY <1>3
  <2> QED BY <1>8, <2>1
<1>10. Visits(map, visit, c)
  <2> HIDE DEF visit
  <2> QED BY <1>1, <1>2, <1>9, AllVisited
<1>11. {visit[n] : n \in 1 .. c} = Listed /\ visit[c + 1] = NULL
  BY <1>2, <1>10 DEF Visits
<1>12. /\ DOMAIN Foreach(map) = Filled(map)
       /\ \A p \in Filled(map) : Foreach(map)[p] = map.slot[p].ptr
  BY DEF Foreach, Filled
<1>13. {Foreach(map)[i] : i \in DOMAIN Foreach(map)} = {Query(map, key) : key \in Listed}
  BY <1>2, <1>12
<1>14. Cardinality(DOMAIN Foreach(map)) = c BY <1>2, <1>12
<1>15. (c + 1) - 1 = c BY <1>3
<1> QED BY <1>11, <1>13, <1>14, <1>15 DEF VisitsEach, c

\* Every name that has been stored in a map is found from its home slot, and
\* every chain ends (_pbcM_sp_insert, rehash, _pbcM_sp_query).
THEOREM ChainsAreSound == Spec => []ChainsSound
<1>1. IInv => ChainsSound BY ChainsAre DEF IInv
<1> QED BY <1>1, Always, PTL

\* rmessage_next and the foreach of a wmessage come by each name that has a
\* value exactly once and end, as long as no single value has come twice.
THEOREM EachIsVisited == Spec => []VisitsEach
<1>1. IInv => VisitsEach BY VisitsAre DEF IInv
<1> QED BY <1>1, Always, PTL
=============================================================================
