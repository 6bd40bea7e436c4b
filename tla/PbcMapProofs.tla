---------------------------- MODULE PbcMapProofs ----------------------------
(***************************************************************************)
(* Lemmas about the maps of protocol buffers that grow (sp in map.c), for  *)
(* every number of slots, every hash and every set of names.  A chain is   *)
(* described without recursion: its slots are what no closed set can be    *)
(* without, and it ends because each step goes to a slot of higher rank.   *)
(* A key that is placed keeps every chain whole, whoever sits in its home  *)
(* slot; a rehash places key by key; and so every key is found, with the   *)
(* pointer it was stored with.  The theorems are those of PbcProofs.       *)
(***************************************************************************)
EXTENDS PbcMap, FunctionTheorems, FiniteSetTheorems, WellFoundedInduction,
        SequenceTheorems, TLAPS

-----------------------------------------------------------------------------
\* Numbers: smallest elements, induction, iteration.

\* A set of numbers has a smallest element,
LEMMA Smallest ==
  ASSUME NEW T, T \subseteq Nat, T # {}
  PROVE  \E x \in T : \A y \in T : x <= y
<1>1. /\ IsWellFoundedOn(OpToRel(<, Nat), Nat)
      /\ \A m, n \in Nat : <<m, n>> \in OpToRel(<, Nat) <=> m < n
  BY NatLessThanWellFounded DEF OpToRel
<1>2. PICK R : /\ IsWellFoundedOn(R, Nat)
               /\ \A m, n \in Nat : <<m, n>> \in R <=> m < n
  BY <1>1
<1>3. IsWellFoundedOn(R, Nat) BY <1>2
<1>5. \E x \in T : \A y \in T : ~(<<y, x>> \in R) BY <1>3, WFMin
<1>6. PICK x \in T : \A y \in T : ~(<<y, x>> \in R) BY <1>5
<1>4. ASSUME NEW y \in T PROVE x <= y
  <2>1. x \in Nat /\ y \in Nat /\ ~(y < x) BY <1>2, <1>6
  <2> QED BY <2>1
<1> QED BY <1>4

\* so that what holds of 0 and is handed on holds up to n,
LEMMA Upwards ==
  ASSUME NEW n \in Nat, NEW T, 0 \in T,
         \A i \in 0 .. n : i < n /\ i \in T => i + 1 \in T
  PROVE  \A i \in 0 .. n : i \in T
<1> DEFINE Bad == {i \in 0 .. n : i \notin T}
<1> SUFFICES ASSUME Bad # {} PROVE FALSE OBVIOUS
<1>1. Bad \subseteq Nat OBVIOUS
<1>2. PICK x \in Bad : \A y \in Bad : x <= y
  <2> HIDE DEF Bad
  <2> QED BY <1>1, Smallest
<1>3. x \in 0 .. n /\ x \notin T /\ x # 0 BY <1>2
<1>4. x - 1 \in 0 .. n /\ x - 1 < n /\ x - 1 + 1 = x /\ ~ (x <= x - 1)
  BY <1>3
<1>5. x - 1 \in T BY <1>2, <1>4
<1> QED BY <1>3, <1>4, <1>5

\* and a set that is not empty and has a bound has a largest element.
LEMMA Largest ==
  ASSUME NEW n \in Nat, NEW T \in SUBSET (0 .. n), T # {}
  PROVE  \E x \in T : \A y \in T : y <= x
<1> DEFINE Rest == {n - x : x \in T}
<1>1. Rest \subseteq Nat /\ Rest # {}
  <2>1. \A x \in T : n - x \in Nat OBVIOUS
  <2> QED BY <2>1
<1>2. PICK z \in Rest : \A y \in Rest : z <= y
  <2> HIDE DEF Rest
  <2> QED BY <1>1, Smallest
<1>3. PICK x \in T : z = n - x BY <1>2
<1>4. ASSUME NEW y \in T PROVE y <= x
  <2>1. n - x <= n - y BY <1>2, <1>3
  <2> QED BY <2>1
<1> QED BY <1>4

\* The element that the models call least, or the maximum, is there.
LEMMA MaxIs ==
  ASSUME NEW n \in Nat, NEW T \in SUBSET (0 .. n), T # {}
  PROVE  Max(T) \in T /\ \A y \in T : y <= Max(T)
<1>1. PICK x \in T : \A y \in T : y <= x BY Largest
<1>2. \A y \in T : x >= y BY <1>1
<1>3. \E m \in T : \A y \in T : m >= y BY <1>2
<1>4. Max(T) \in T /\ \A y \in T : Max(T) >= y BY <1>3 DEF Max
<1> QED BY <1>4

\* A function may be iterated.
Iterates(f, n, D, g, a) ==
  /\ f \in [0 .. n -> D] /\ f[0] = a
  /\ \A i \in 1 .. n : f[i] = g[f[i - 1]]

LEMMA Iterated ==
  ASSUME NEW n \in Nat, NEW D, NEW g \in [D -> D], NEW a \in D
  PROVE  \E f : Iterates(f, n, D, g, a)
<1> DEFINE Is(f, k) == /\ f \in [0 .. k -> D] /\ f[0] = a
                       /\ \A i \in 1 .. k : f[i] = g[f[i - 1]]
           T == {k \in 0 .. n : \E f : Is(f, k)}
<1>1. 0 \in T
  <2> DEFINE f == [i \in 0 .. 0 |-> a]
  <2>1. f \in [0 .. 0 -> D] /\ f[0] = a OBVIOUS
  <2>2. \A i \in 1 .. 0 : f[i] = g[f[i - 1]] OBVIOUS
  <2>3. Is(f, 0) BY <2>1, <2>2
  <2> HIDE DEF Is, f
  <2> QED BY <2>3
<1>2. ASSUME NEW k \in 0 .. n, k < n, k \in T PROVE k + 1 \in T
  <2>1. PICK f : Is(f, k) BY <1>2
  <2> DEFINE h == [i \in 0 .. k + 1 |-> IF i <= k THEN f[i] ELSE g[f[k]]]
  <2>2. \A i \in 0 .. k : h[i] = f[i] /\ f[i] \in D BY <2>1
  <2>3. h[k + 1] = g[f[k]] /\ g[f[k]] \in D BY <2>1
  <2>4. h \in [0 .. k + 1 -> D] BY <2>1
  <2>5. ASSUME NEW i \in 1 .. k + 1 PROVE h[i] = g[h[i - 1]]
    <3>1. CASE i = k + 1
      <4>1. i - 1 = k /\ k \in 0 .. k BY <3>1
      <4> HIDE DEF h
      <4> QED BY <3>1, <4>1, <2>2, <2>3
    <3>2. CASE i \in 1 .. k
      <4>1. i - 1 \in 0 .. k /\ i \in 0 .. k BY <3>2
      <4>2. f[i] = g[f[i - 1]] BY <3>2, <2>1
      <4> HIDE DEF h
      <4> QED BY <4>1, <4>2, <2>2
    <3> QED BY <3>1, <3>2
  <2>6. h[0] = a BY <2>1, <2>2
  <2>7. Is(h, k + 1)
    <3> HIDE DEF h
    <3> QED BY <2>4, <2>5, <2>6
  <2>8. k + 1 \in 0 .. n BY <1>2
  <2> HIDE DEF Is, h
  <2> QED BY <2>7, <2>8
<1>3. n \in T
  <2> HIDE DEF T
  <2>1. \A i \in 0 .. n : i \in T BY <1>1, <1>2, Upwards
  <2> QED BY <2>1
<1> QED BY <1>3 DEF Iterates

-----------------------------------------------------------------------------
\* Powers of two, of which the provers know that a set has as many subsets.

\* A set of k numbers has 2^k subsets, which makes 2^k a number.
LEMMA Subsets ==
  ASSUME NEW k \in Nat
  PROVE  /\ IsFiniteSet(SUBSET (1 .. k)) /\ Cardinality(SUBSET (1 .. k)) = 2^k
         /\ 2^k \in Nat
<1>1. IsFiniteSet(1 .. k) /\ Cardinality(1 .. k) = IF 1 > k THEN 0 ELSE k - 1 + 1
  BY FS_Interval
<1>2. Cardinality(1 .. k) = k BY <1>1
<1>3. IsFiniteSet(SUBSET (1 .. k)) /\ Cardinality(SUBSET (1 .. k)) = 2^k
  BY <1>1, <1>2, FS_SUBSET
<1> QED BY <1>3, FS_CardinalityType

\* One exponent more doubles the power.
LEMMA Doubles ==
  ASSUME NEW k \in Nat
  PROVE  2^(k + 1) = 2 * 2^k
<1> DEFINE A == SUBSET (1 .. k)
           B == {s \in SUBSET (1 .. k + 1) : k + 1 \in s}
           f == [s \in A |-> s \cup {k + 1}]
<1>1. IsFiniteSet(A) /\ Cardinality(A) = 2^k /\ 2^k \in Nat BY Subsets
<1>2. ExistsBijection(A, B)
  <2>0. k + 1 \in 1 .. k + 1 /\ k + 1 \notin 1 .. k /\ 1 .. k \subseteq 1 .. k + 1
        /\ (1 .. k + 1) \ {k + 1} = 1 .. k
    OBVIOUS
  <2>1. f \in [A -> B]
    <3>1. \A s \in A : s \cup {k + 1} \in B BY <2>0
    <3> HIDE DEF A, B
    <3> QED BY <3>1
  <2>2. ASSUME NEW s \in A, NEW t \in A, f[s] = f[t] PROVE s = t
    <3>1. s \cup {k + 1} = t \cup {k + 1} BY <2>2
    <3>2. k + 1 \notin s /\ k + 1 \notin t BY <2>0
    <3> QED BY <3>1, <3>2
  <2>3. ASSUME NEW t \in B PROVE \E s \in A : f[s] = t
    <3>1. t \ {k + 1} \in A BY <2>0
    <3>2. (t \ {k + 1}) \cup {k + 1} = t OBVIOUS
    <3>3. f[t \ {k + 1}] = (t \ {k + 1}) \cup {k + 1}
      <4> HIDE DEF A
      <4> QED BY <3>1
    <3> QED BY <3>1, <3>2, <3>3
  <2>4. f \in Bijection(A, B)
    <3> HIDE DEF A, B, f
    <3> QED BY <2>1, <2>2, <2>3, Fun_IsBij
  <2> HIDE DEF A, B, f
  <2> QED BY <2>4 DEF ExistsBijection
<1>3. IsFiniteSet(B) /\ Cardinality(B) = 2^k BY <1>1, <1>2, FS_Bijection
<1>4. A \cap B = {}
  <2>1. \A s \in A : k + 1 \notin s OBVIOUS
  <2> QED BY <2>1
<1>5. A \cup B = SUBSET (1 .. k + 1)
  <2>1. 1 .. k \subseteq 1 .. k + 1 OBVIOUS
  <2>2. ASSUME NEW s \in SUBSET (1 .. k + 1), k + 1 \notin s PROVE s \in SUBSET (1 .. k)
    <3>1. \A x \in 1 .. k + 1 : x # k + 1 => x \in 1 .. k OBVIOUS
    <3> QED BY <2>2, <3>1
  <2> QED BY <2>1, <2>2
<1>6. Cardinality({}) = 0 BY FS_EmptySet
<1>7. Cardinality(A \cup B) = 2^k + 2^k
  <2>1. Cardinality(A \cup B)
          = Cardinality(A) + Cardinality(B) - Cardinality(A \cap B)
    <3> HIDE DEF A, B
    <3> QED BY <1>1, <1>3, FS_Union
  <2>2. Cardinality(A \cap B) = 0 BY <1>4, <1>6
  <2>3. PICK p \in Nat : p = 2^k BY <1>1
  <2>4. Cardinality(A) = p /\ Cardinality(B) = p BY <1>1, <1>3, <2>3
  <2> HIDE DEF A, B
  <2>5. Cardinality(A \cup B) = p + p BY <2>1, <2>2, <2>4
  <2> QED BY <2>3, <2>5
<1>8. k + 1 \in Nat OBVIOUS
<1>9. Cardinality(SUBSET (1 .. k + 1)) = 2^(k + 1) BY <1>8, Subsets
<1> HIDE DEF A, B
<1>10. 2^(k + 1) = 2^k + 2^k BY <1>5, <1>7, <1>9
<1>11. PICK p \in Nat : p = 2^k BY <1>1
<1>12. p + p = 2 * p OBVIOUS
<1> QED BY <1>10, <1>11, <1>12

\* 2^k is more than k, and the larger the larger k is.
LEMMA PowerLarge ==
  ASSUME NEW k \in Nat
  PROVE  k < 2^k
<1> DEFINE T == {i \in 0 .. k : i < 2^i}
<1>1. 0 \in T
  <2>1. 2^0 = 1 OBVIOUS
  <2> QED BY <2>1
<1>2. ASSUME NEW i \in 0 .. k, i < k, i \in T PROVE i + 1 \in T
  <2>1. i \in Nat /\ i + 1 \in 0 .. k /\ i < 2^i BY <1>2
  <2>2. 2^i \in Nat /\ 2^(i + 1) = 2 * 2^i BY <2>1, Subsets, Doubles
  <2>3. i + 1 < 2 * 2^i BY <2>1, <2>2
  <2> QED BY <2>1, <2>2, <2>3
<1>3. \A i \in 0 .. k : i \in T
  <2> HIDE DEF T
  <2> QED BY <1>1, <1>2, Upwards
<1> QED BY <1>3

-----------------------------------------------------------------------------
\* Chains.  A table of n slots holds keys of K and pointers of V.

Slotted(slot, n, K, V) ==
  slot \in [1 .. n -> [key : K \cup {NULL}, ptr : V \cup {NULL}, next : 0 .. n]]

\* What can be reached from a slot: no set that a step cannot leave is
\* without it.
Closed(slot, S) == \A x \in S : slot[x].next # 0 => slot[x].next \in S
Reaches(slot, n, a, b) ==
  \A S \in SUBSET (1 .. n) : a \in S /\ Closed(slot, S) => b \in S

\* A free slot has nothing, and no slot is followed by a free one.
Clean(slot, n) == \A i \in 1 .. n :
  /\ slot[i].key = NULL => slot[i].ptr = NULL /\ slot[i].next = 0
  /\ slot[i].next # 0 => slot[slot[i].next].key # NULL

\* Each step goes to a slot of higher rank.
Acyclic(slot, n) == \E r \in [1 .. n -> Nat] :
  \A i \in 1 .. n : slot[i].next # 0 => r[i] < r[slot[i].next]

Whole(slot, n, K, V) == Slotted(slot, n, K, V) /\ Clean(slot, n) /\ Acyclic(slot, n)

\* Every key is reached from its home, H[key].
Homed(slot, n, H) == \A i \in 1 .. n :
  slot[i].key # NULL => Reaches(slot, n, H[slot[i].key], i)

\* What a slot holds.
LEMMA SlotIs ==
  ASSUME NEW n \in Nat, NEW K, NEW V, NEW slot, Slotted(slot, n, K, V),
         NEW i \in 1 .. n
  PROVE  /\ slot[i].key \in K \cup {NULL} /\ slot[i].ptr \in V \cup {NULL}
         /\ slot[i].next \in 0 .. n
         /\ slot[i] = [key |-> slot[i].key, ptr |-> slot[i].ptr, next |-> slot[i].next]
BY DEF Slotted

\* A link that does not end the chain is a slot.
LEMMA NotZero ==
  ASSUME NEW n \in Nat, NEW x \in 0 .. n, x # 0
  PROVE  x \in 1 .. n
OBVIOUS

\* A slot is reached from itself,
LEMMA ReachesSelf ==
  ASSUME NEW n, NEW slot, NEW a
  PROVE  Reaches(slot, n, a, a)
BY DEF Reaches

\* and the slot behind one that is reached.
LEMMA ReachesNext ==
  ASSUME NEW n \in Nat, NEW slot, NEW a, NEW b, Reaches(slot, n, a, b),
         slot[b].next # 0
  PROVE  Reaches(slot, n, a, slot[b].next)
BY DEF Reaches, Closed

\* What is reached from there is reached.
LEMMA ReachesOn ==
  ASSUME NEW n \in Nat, NEW slot, NEW a, NEW b, NEW c,
         Reaches(slot, n, a, b), Reaches(slot, n, b, c)
  PROVE  Reaches(slot, n, a, c)
BY DEF Reaches

\* What is reached from elsewhere has a higher rank.
LEMMA ReachesUp ==
  ASSUME NEW n \in Nat, NEW K, NEW V, NEW slot, Slotted(slot, n, K, V),
         NEW r \in [1 .. n -> Nat],
         \A i \in 1 .. n : slot[i].next # 0 => r[i] < r[slot[i].next],
         NEW a \in 1 .. n, NEW b, Reaches(slot, n, a, b)
  PROVE  b \in 1 .. n /\ (b = a \/ r[a] < r[b])
<1> DEFINE S == {x \in 1 .. n : x = a \/ r[a] < r[x]}
<1>1. a \in S OBVIOUS
<1>2. Closed(slot, S)
  <2> SUFFICES ASSUME NEW x \in S, slot[x].next # 0 PROVE slot[x].next \in S
    BY DEF Closed
  <2>1. slot[x].next \in 1 .. n BY DEF Slotted
  <2>2. r[x] < r[slot[x].next] OBVIOUS
  <2>3. r[x] \in Nat /\ r[a] \in Nat /\ r[slot[x].next] \in Nat BY <2>1
  <2>4. r[a] <= r[x] BY <2>3
  <2> QED BY <2>1, <2>2, <2>3, <2>4
<1>3. b \in S BY <1>1, <1>2 DEF Reaches
<1> QED BY <1>3

\* Two slots that reach each other are one.
LEMMA ReachesApart ==
  ASSUME NEW n \in Nat, NEW K, NEW V, NEW slot, Whole(slot, n, K, V),
         NEW a \in 1 .. n, NEW b \in 1 .. n,
         Reaches(slot, n, a, b), Reaches(slot, n, b, a)
  PROVE  a = b
<1>1. PICK r \in [1 .. n -> Nat] :
        \A i \in 1 .. n : slot[i].next # 0 => r[i] < r[slot[i].next]
  BY DEF Whole, Acyclic
<1>2. Slotted(slot, n, K, V) BY DEF Whole
<1>3. a = b \/ r[a] < r[b] BY <1>1, <1>2, ReachesUp
<1>4. a = b \/ r[b] < r[a] BY <1>1, <1>2, ReachesUp
<1>5. r[a] \in Nat /\ r[b] \in Nat BY <1>1
<1> QED BY <1>3, <1>4, <1>5

-----------------------------------------------------------------------------
\* Searching.

\* The length of a table.
LEMMA LenOf ==
  ASSUME NEW n \in Nat, NEW S, NEW slot \in [1 .. n -> S]
  PROVE  slot \in Seq(S) /\ Len(slot) = n
<1>1. slot \in Seq(S) BY SeqDef
<1>2. DOMAIN slot = 1 .. n /\ DOMAIN slot = 1 .. Len(slot) /\ Len(slot) \in Nat
  BY <1>1
<1> QED BY <1>1, <1>2

LEMMA LenSlots ==
  ASSUME NEW n \in Nat, NEW K, NEW V, NEW slot, Slotted(slot, n, K, V)
  PROVE  Len(slot) = n
BY LenOf DEF Slotted

\* The steps from a slot: where the pointers lead, then 0.
LEMMA StepIs ==
  ASSUME NEW n \in Nat, NEW K, NEW V, NEW slot, Slotted(slot, n, K, V),
         NEW start \in 1 .. n
  PROVE  /\ Step(slot, start) \in [0 .. n -> 0 .. n]
         /\ Step(slot, start)[0] = start
         /\ \A i \in 1 .. n : Step(slot, start)[i] =
              IF Step(slot, start)[i - 1] = 0 THEN 0
              ELSE slot[Step(slot, start)[i - 1]].next
<1> DEFINE after(i) == IF i = 0 THEN 0 ELSE slot[i].next
           D == 0 .. n
           g == [i \in D |-> after(i)]
           Is(f) == f = [i \in 0 .. n |-> IF i = 0 THEN start ELSE after(f[i - 1])]
<1>1. Len(slot) = n BY LenSlots
<1>2. Step(slot, start) = CHOOSE f : Is(f) BY <1>1 DEF Step
<1>3. \A i \in D : after(i) \in D
  <2>1. \A i \in 1 .. n : slot[i].next \in 0 .. n BY DEF Slotted
  <2> QED BY <2>1
<1>13. g \in [D -> D] BY <1>3
<1>4. start \in D OBVIOUS
<1>5. PICK f : Iterates(f, n, D, g, start)
  <2> HIDE DEF g, D
  <2> QED BY <1>13, <1>4, Iterated
<1>14. /\ f \in [0 .. n -> D] /\ f[0] = start
       /\ \A i \in 1 .. n : f[i] = g[f[i - 1]]
  BY <1>5 DEF Iterates
<1>6. \A i \in 1 .. n : f[i] = after(f[i - 1])
  <2> SUFFICES ASSUME NEW i \in 1 .. n PROVE f[i] = after(f[i - 1]) OBVIOUS
  <2>1. i - 1 \in 0 .. n OBVIOUS
  <2>2. f[i - 1] \in D BY <2>1, <1>14
  <2>3. f[i] = g[f[i - 1]] BY <1>14
  <2> HIDE DEF after, D
  <2> QED BY <2>2, <2>3
<1>7. Is(f)
  <2>1. \A i \in 0 .. n : f[i] = IF i = 0 THEN start ELSE after(f[i - 1])
    <3> HIDE DEF after
    <3> QED BY <1>14, <1>6
  <2> HIDE DEF after
  <2> QED BY <1>14, <2>1
<1>8. Is(Step(slot, start))
  <2> HIDE DEF Is
  <2> QED BY <1>2, <1>7
<1> DEFINE s == Step(slot, start)
<1>9. /\ DOMAIN s = 0 .. n /\ s = [i \in 0 .. n |-> s[i]]
      /\ \A i \in 0 .. n : s[i] = IF i = 0 THEN start ELSE after(s[i - 1])
  <2> HIDE DEF after, s
  <2>1. s = [i \in 0 .. n |-> IF i = 0 THEN start ELSE after(s[i - 1])]
    BY <1>8 DEF s
  <2> QED BY <2>1
<1> HIDE DEF Is, g, s, after, D
<1>10. s[0] = start /\ \A i \in 1 .. n : s[i] = after(s[i - 1])
  <2>1. 0 \in 0 .. n /\ \A i \in 1 .. n : i \in 0 .. n /\ i # 0 OBVIOUS
  <2>2. s[0] = start BY <1>9, <2>1
  <2>3. ASSUME NEW i \in 1 .. n PROVE s[i] = after(s[i - 1])
    <3>1. i \in 0 .. n /\ i # 0 OBVIOUS
    <3>2. s[i] = IF i = 0 THEN start ELSE after(s[i - 1]) BY <1>9, <3>1
    <3> QED BY <3>1, <3>2
  <2> QED BY <2>2, <2>3
<1>11. \A i \in 0 .. n : s[i] \in D
  <2> DEFINE T == {i \in 0 .. n : s[i] \in D}
  <2>1. 0 \in T BY <1>4, <1>10
  <2>2. ASSUME NEW i \in 0 .. n, i < n, i \in T PROVE i + 1 \in T
    <3>1. i + 1 \in 1 .. n /\ i + 1 \in 0 .. n /\ (i + 1) - 1 = i BY <2>2
    <3>2. s[i + 1] = after(s[i]) BY <1>10, <3>1
    <3>3. s[i] \in D BY <2>2
    <3> QED BY <1>3, <3>1, <3>2, <3>3
  <2> HIDE DEF T
  <2>3. \A i \in 0 .. n : i \in T BY <2>1, <2>2, Upwards
  <2> QED BY <2>3 DEF T
<1>12. s \in [0 .. n -> D] BY <1>9, <1>11
<1> QED BY <1>10, <1>12 DEF s, D, after

\* Each step is at a slot or behind the end,
LEMMA AnyStep ==
  ASSUME NEW n \in Nat, NEW K, NEW V, NEW slot, Slotted(slot, n, K, V),
         NEW start \in 1 .. n
  PROVE  /\ DOMAIN Step(slot, start) = 0 .. n
         /\ Step(slot, start) = [i \in 0 .. n |-> Step(slot, start)[i]]
         /\ Step(slot, start)[0] = start
         /\ \A i \in 0 .. n : Step(slot, start)[i] \in 0 .. n
<1> DEFINE s == Step(slot, start)
<1>1. s \in [0 .. n -> 0 .. n] /\ s[0] = start BY StepIs
<1> HIDE DEF s
<1>2. s[0] = start /\ DOMAIN s = 0 .. n /\ s = [i \in 0 .. n |-> s[i]]
  BY <1>1
<1>3. \A i \in 0 .. n : s[i] \in 0 .. n BY <1>1
<1> QED BY <1>2, <1>3 DEF s

\* and the next one is where its pointer leads.
LEMMA NextStep ==
  ASSUME NEW n \in Nat, NEW K, NEW V, NEW slot, Slotted(slot, n, K, V),
         NEW start \in 1 .. n, NEW k \in 0 .. n, k < n
  PROVE  Step(slot, start)[k + 1] =
           IF Step(slot, start)[k] = 0 THEN 0 ELSE slot[Step(slot, start)[k]].next
<1> DEFINE s == Step(slot, start)
<1>1. \A i \in 1 .. n : s[i] = IF s[i - 1] = 0 THEN 0 ELSE slot[s[i - 1]].next
  BY StepIs
<1> HIDE DEF s
<1>2. k + 1 \in 1 .. n /\ (k + 1) - 1 = k OBVIOUS
<1>3. s[k + 1] = IF s[(k + 1) - 1] = 0 THEN 0 ELSE slot[s[(k + 1) - 1]].next
  BY <1>1, <1>2
<1> QED BY <1>2, <1>3 DEF s

\* A step reaches the later ones,
LEMMA StepsReach ==
  ASSUME NEW n \in Nat, NEW K, NEW V, NEW slot, Slotted(slot, n, K, V),
         NEW start \in 1 .. n, NEW i \in 0 .. n, NEW j \in i .. n,
         Step(slot, start)[j] # 0
  PROVE  /\ Step(slot, start)[i] # 0
         /\ Reaches(slot, n, Step(slot, start)[i], Step(slot, start)[j])
<1> DEFINE s == Step(slot, start)
<1>1. \A k \in 0 .. n : k < n => s[k + 1] = IF s[k] = 0 THEN 0 ELSE slot[s[k]].next
  BY NextStep
<1> HIDE DEF s
<1> DEFINE T == {d \in 0 .. n - i : s[i + d] # 0 =>
                   s[i] # 0 /\ Reaches(slot, n, s[i], s[i + d])}
<1>2. 0 \in T
  <2>1. i + 0 = i /\ 0 \in 0 .. n - i OBVIOUS
  <2> QED BY <2>1, ReachesSelf
<1>3. ASSUME NEW d \in 0 .. n - i, d < n - i, d \in T PROVE d + 1 \in T
  <2> SUFFICES ASSUME s[i + (d + 1)] # 0
               PROVE  s[i] # 0 /\ Reaches(slot, n, s[i], s[i + (d + 1)])
    BY <1>3
  <2>1. i + d \in 0 .. n /\ i + d < n /\ i + (d + 1) = (i + d) + 1 BY <1>3
  <2>2. s[i + (d + 1)] = IF s[i + d] = 0 THEN 0 ELSE slot[s[i + d]].next
    BY <1>1, <2>1
  <2>3. s[i + d] # 0 /\ s[i + (d + 1)] = slot[s[i + d]].next BY <2>2
  <2>4. s[i] # 0 /\ Reaches(slot, n, s[i], s[i + d]) BY <1>3, <2>3
  <2> QED BY <2>3, <2>4, ReachesNext
<1>4. j - i \in 0 .. n - i /\ n - i \in Nat /\ i + (j - i) = j OBVIOUS
<1>5. \A d \in 0 .. n - i : d \in T
  <2> HIDE DEF T
  <2> QED BY <1>2, <1>3, <1>4, Upwards
<1>6. s[j] # 0 => s[i] # 0 /\ Reaches(slot, n, s[i], s[j])
  <2>1. j - i \in T BY <1>4, <1>5
  <2> QED BY <1>4, <2>1
<1> QED BY <1>6 DEF s

\* and the last one is behind the end: n steps without an end would come
\* to more than the n slots there are.
LEMMA ChainEnds ==
  ASSUME NEW n \in Nat, NEW K, NEW V, NEW slot, Whole(slot, n, K, V),
         NEW start \in 1 .. n
  PROVE  Step(slot, start)[n] = 0
<1> DEFINE s == Step(slot, start)
<1>1. Slotted(slot, n, K, V) BY DEF Whole
<1>2. DOMAIN s = 0 .. n /\ s[0] = start /\ \A k \in 0 .. n : s[k] \in 0 .. n
  BY <1>1, AnyStep
<1>20. \A k \in 0 .. n : k < n => s[k + 1] = IF s[k] = 0 THEN 0 ELSE slot[s[k]].next
  BY <1>1, NextStep
<1> SUFFICES ASSUME s[n] # 0 PROVE FALSE OBVIOUS
<1>3. \A i \in 0 .. n : s[i] \in 1 .. n
  <2> SUFFICES ASSUME NEW i \in 0 .. n PROVE s[i] \in 1 .. n OBVIOUS
  <2>1. n \in i .. n OBVIOUS
  <2>2. s[i] # 0 BY <1>1, <2>1, StepsReach
  <2>3. s[i] \in 0 .. n BY <1>2
  <2> HIDE DEF s
  <2> QED BY <2>2, <2>3, NotZero
<1>4. PICK r \in [1 .. n -> Nat] :
        \A i \in 1 .. n : slot[i].next # 0 => r[i] < r[slot[i].next]
  BY DEF Whole, Acyclic
<1>5. ASSUME NEW i \in 0 .. n, NEW j \in 0 .. n, i < j PROVE s[i] # s[j]
  <2>1. i < n /\ i + 1 \in 0 .. n /\ j \in i + 1 .. n
    BY <1>5
  <2>2. s[j] # 0 /\ s[i] # 0 BY <1>3
  <2>3. Reaches(slot, n, s[i + 1], s[j]) BY <1>1, <2>1, <2>2, StepsReach
  <2> HIDE DEF s
  <2>4. s[i] \in 1 .. n /\ s[i + 1] \in 1 .. n BY <1>3, <2>1
  <2>5. s[i + 1] = slot[s[i]].next BY <1>20, <2>1, <2>2
  <2>6. r[s[i]] < r[s[i + 1]] BY <1>4, <2>4, <2>5
  <2>7. s[j] = s[i + 1] \/ r[s[i + 1]] < r[s[j]]
    BY <1>1, <1>4, <2>3, <2>4, ReachesUp
  <2>8. s[j] \in 1 .. n BY <1>3
  <2>9. r[s[i]] \in Nat /\ r[s[i + 1]] \in Nat /\ r[s[j]] \in Nat
    BY <1>4, <2>4, <2>8
  <2>10. r[s[i]] < r[s[j]] BY <2>6, <2>7, <2>9
  <2> QED BY <2>9, <2>10
<1>6. s \in [0 .. n -> 1 .. n]
  <2> HIDE DEF s
  <2>2. s = [i \in 0 .. n |-> s[i]] BY <1>1, AnyStep DEF s
  <2> QED BY <1>3, <2>2
<1>7. /\ IsFiniteSet(0 .. n) /\ Cardinality(0 .. n) = n + 1
      /\ IsFiniteSet(1 .. n) /\ Cardinality(1 .. n) = n
  <2>1. /\ IsFiniteSet(0 .. n)
        /\ Cardinality(0 .. n) = IF 0 > n THEN 0 ELSE n - 0 + 1
    BY FS_Interval
  <2>2. /\ IsFiniteSet(1 .. n)
        /\ Cardinality(1 .. n) = IF 1 > n THEN 0 ELSE n - 1 + 1
    BY FS_Interval
  <2> QED BY <2>1, <2>2
<1> HIDE DEF s
<1>8. \E x, y \in 0 .. n : x # y /\ s[x] = s[y]
  <2>1. Cardinality(1 .. n) < Cardinality(0 .. n) BY <1>7
  <2> QED BY <1>6, <1>7, <2>1, FS_PigeonHole
<1>9. PICK x \in 0 .. n, y \in 0 .. n : x # y /\ s[x] = s[y] BY <1>8
<1>10. x < y \/ y < x BY <1>9
<1> QED BY <1>5, <1>9, <1>10

\* So the steps come to whatever can be reached.
LEMMA ReachesSteps ==
  ASSUME NEW n \in Nat, NEW K, NEW V, NEW slot, Whole(slot, n, K, V),
         NEW start \in 1 .. n, NEW b, Reaches(slot, n, start, b)
  PROVE  b \in 1 .. n /\ \E i \in 0 .. n : Step(slot, start)[i] = b
<1> DEFINE s == Step(slot, start)
<1>1. Slotted(slot, n, K, V) BY DEF Whole
<1>2. DOMAIN s = 0 .. n /\ s[0] = start /\ \A k \in 0 .. n : s[k] \in 0 .. n
  BY <1>1, AnyStep
<1>20. \A k \in 0 .. n : k < n => s[k + 1] = IF s[k] = 0 THEN 0 ELSE slot[s[k]].next
  BY <1>1, NextStep
<1>3. s[n] = 0 BY ChainEnds
<1> HIDE DEF s
<1> DEFINE S == {x \in 1 .. n : \E i \in 0 .. n : s[i] = x}
<1>4. start \in S BY <1>2
<1>5. Closed(slot, S)
  <2> SUFFICES ASSUME NEW x \in S, slot[x].next # 0 PROVE slot[x].next \in S
    BY DEF Closed
  <2>1. PICK i \in 0 .. n : s[i] = x OBVIOUS
  <2>2. x \in 1 .. n /\ i # n BY <1>3, <2>1
  <2>3. i < n /\ i + 1 \in 0 .. n BY <2>2
  <2>4. s[i + 1] = slot[x].next BY <1>20, <2>1, <2>2, <2>3
  <2>6. slot[x].next \in 0 .. n BY <1>1, <2>2, SlotIs
  <2>5. slot[x].next \in 1 .. n BY <2>6
  <2> QED BY <2>3, <2>4, <2>5
<1>6. b \in S BY <1>4, <1>5 DEF Reaches
<1> QED BY <1>6 DEF s

\* The first of the slots with a key that can be reached from a.
IsFirst(slot, n, a, key, j) ==
  /\ j \in 1 .. n /\ slot[j].key = key /\ Reaches(slot, n, a, j)
  /\ \A i \in 1 .. n : slot[i].key = key /\ Reaches(slot, n, a, i)
       => Reaches(slot, n, j, i)

\* No slot with the key can be reached from a.
IsNowhere(slot, n, a, key) ==
  \A i \in 1 .. n : slot[i].key = key => ~ Reaches(slot, n, a, i)

\* There is no more than one such slot.
LEMMA FirstIsOne ==
  ASSUME NEW n \in Nat, NEW K, NEW V, NEW slot, Whole(slot, n, K, V), NEW a, NEW key,
         NEW i, NEW j, IsFirst(slot, n, a, key, i), IsFirst(slot, n, a, key, j)
  PROVE  i = j
<1>1. /\ i \in 1 .. n /\ j \in 1 .. n
      /\ Reaches(slot, n, i, j) /\ Reaches(slot, n, j, i)
  BY DEF IsFirst
<1> QED BY <1>1, ReachesApart

\* The loop of _pbcM_sp_query and the others finds it, or finds nothing if
\* there is none.
Result(slot, n, a, key, j) ==
  \/ IsFirst(slot, n, a, key, j)
  \/ j = 0 /\ IsNowhere(slot, n, a, key)

SearchKey(slot, a, key) == Search(slot, a, LAMBDA s : s.key = key)

\* A search from a slot of a sound table comes to a result of that kind.
LEMMA SearchFinds ==
  ASSUME NEW n \in Nat, NEW K, NEW V, NEW slot, Whole(slot, n, K, V),
         NEW a \in 1 .. n, NEW key
  PROVE  Result(slot, n, a, key, SearchKey(slot, a, key))
<1> DEFINE s == Step(slot, a)
           Hit(i) == s[i] # 0 /\ slot[s[i]].key = key
           Hits == {i \in 0 .. n : Hit(i)}
           found == SearchKey(slot, a, key)
<1>1. Slotted(slot, n, K, V) BY DEF Whole
<1>2. s[0] = a /\ \A k \in 0 .. n : s[k] \in 0 .. n BY <1>1, AnyStep
<1>3. DOMAIN s = 0 .. n BY <1>1, AnyStep
<1>4. found = IF \E i \in 0 .. n : Hit(i)
              THEN s[CHOOSE i \in 0 .. n : Hit(i) /\ \A y \in 0 .. n : Hit(y) => i <= y]
              ELSE 0
  BY <1>3 DEF SearchKey, Search, Least
<1> HIDE DEF found
<1>5. CASE Hits = {}
  <2>1. found = 0 BY <1>4, <1>5
  <2>2. IsNowhere(slot, n, a, key)
    <3> SUFFICES ASSUME NEW i \in 1 .. n, slot[i].key = key, Reaches(slot, n, a, i)
                 PROVE  FALSE
      BY DEF IsNowhere
    <3>1. PICK k \in 0 .. n : s[k] = i BY ReachesSteps
    <3>2. k \in Hits
      <4> HIDE DEF s
      <4> QED BY <3>1
    <3> QED BY <1>5, <3>2
  <2> QED BY <2>1, <2>2 DEF Result, found
<1>6. CASE Hits # {}
  <2>1. PICK m \in Hits : \A y \in Hits : m <= y
    <3>1. Hits \subseteq Nat OBVIOUS
    <3> HIDE DEF Hits
    <3> QED BY <1>6, <3>1, Smallest
  <2>2. m \in 0 .. n /\ Hit(m) /\ \A y \in 0 .. n : Hit(y) => m <= y
    BY <2>1
  <2> DEFINE c == CHOOSE i \in 0 .. n : Hit(i) /\ \A y \in 0 .. n : Hit(y) => i <= y
  <2>3. c \in 0 .. n /\ Hit(c) /\ \A y \in 0 .. n : Hit(y) => c <= y
    <3> HIDE DEF Hit
    <3> QED BY <2>2
  <2>4. found = s[c]
    <3> HIDE DEF Hit
    <3> QED BY <1>4, <2>2
  <2> HIDE DEF c
  <2>5. s[c] \in 1 .. n /\ slot[s[c]].key = key /\ s[c] # 0
    <3> HIDE DEF s
    <3> QED BY <1>2, <2>3
  <2>6. Reaches(slot, n, a, s[c])
    <3>1. 0 \in 0 .. n /\ c \in 0 .. n BY <2>3
    <3>2. Reaches(slot, n, s[0], s[c]) BY <1>1, <2>5, <3>1, StepsReach
    <3> QED BY <1>2, <3>2
  <2>7. ASSUME NEW i \in 1 .. n, slot[i].key = key, Reaches(slot, n, a, i)
        PROVE  Reaches(slot, n, s[c], i)
    <3>1. PICK k \in 0 .. n : s[k] = i BY <2>7, ReachesSteps
    <3>2. Hit(k) BY <2>7, <3>1
    <3>3. c <= k BY <2>3, <3>2
    <3>4. k \in c .. n /\ s[k] # 0 BY <2>3, <3>1, <3>3
    <3>5. Reaches(slot, n, s[c], s[k]) BY <1>1, <2>3, <3>4, StepsReach
    <3> QED BY <3>1, <3>5
  <2>8. IsFirst(slot, n, a, key, s[c]) BY <2>5, <2>6, <2>7 DEF IsFirst
  <2> QED BY <2>4, <2>8 DEF Result, found
<1> QED BY <1>5, <1>6

-----------------------------------------------------------------------------
\* Putting a key into a table: into the slot h if that is free, otherwise into
\* some free slot i, which comes right after h in its chain.

Puts(slot, new, n, h, i, key, ptr) ==
  /\ i \in 1 .. n /\ slot[i].key = NULL
  /\ slot[h].key = NULL => i = h
  /\ DOMAIN new = 1 .. n
  /\ new[i] = [key |-> key, ptr |-> ptr, next |-> slot[h].next]
  /\ i # h => new[h] = [key |-> slot[h].key, ptr |-> slot[h].ptr, next |-> i]
  /\ \A x \in 1 .. n : x # i /\ x # h => new[x] = slot[x]
  /\ new = [x \in 1 .. n |-> new[x]]

\* What becomes of the pointers.
LEMMA PutNext ==
  ASSUME NEW n \in Nat, NEW K, NEW V, NEW slot, Whole(slot, n, K, V),
         NEW h \in 1 .. n, NEW i, NEW key, NEW ptr, NEW new,
         Puts(slot, new, n, h, i, key, ptr)
  PROVE  /\ i \in 1 .. n /\ slot[i].next = 0 /\ slot[i].key = NULL
         /\ new[i].key = key /\ new[i].ptr = ptr /\ new[i].next = slot[h].next
         /\ i # h => new[h].next = i
         /\ i = h => slot[h].next = 0
         /\ \A x \in 1 .. n : x # i =>
              /\ new[x].key = slot[x].key /\ new[x].ptr = slot[x].ptr
              /\ x # h => new[x].next = slot[x].next
         /\ \A x \in 1 .. n : slot[x].next # i
<1>1. /\ i \in 1 .. n /\ slot[i].key = NULL
      /\ \A x \in 1 .. n : x # i /\ x # h => new[x] = slot[x]
  BY DEF Puts
<1>2. slot[i].next = 0 BY <1>1 DEF Whole, Clean
<1>3. new[i].key = key /\ new[i].ptr = ptr /\ new[i].next = slot[h].next
  BY DEF Puts
<1>4. i # h => /\ new[h].key = slot[h].key /\ new[h].ptr = slot[h].ptr
               /\ new[h].next = i
  BY DEF Puts
<1>5. \A x \in 1 .. n : slot[x].next # i
  <2> SUFFICES ASSUME NEW x \in 1 .. n, slot[x].next = i PROVE FALSE OBVIOUS
  <2>1. i # 0 BY <1>1
  <2>2. slot[i].key # NULL BY <2>1 DEF Whole, Clean
  <2> QED BY <1>1, <2>2
<1> QED BY <1>1, <1>2, <1>3, <1>4, <1>5

\* A placed key leaves a table that is well typed,
LEMMA PutSlotted ==
  ASSUME NEW n \in Nat, NEW K, NEW V, NEW slot, Whole(slot, n, K, V),
         NEW h \in 1 .. n, NEW i, NEW key \in K, NEW ptr \in V \cup {NULL}, NEW new,
         Puts(slot, new, n, h, i, key, ptr)
  PROVE  Slotted(new, n, K, V)
<1> DEFINE R == [key : K \cup {NULL}, ptr : V \cup {NULL}, next : 0 .. n]
<1>1. Slotted(slot, n, K, V) BY DEF Whole
<1>2. ASSUME NEW x \in 1 .. n PROVE new[x] \in R
  <2>1. slot[h].next \in 0 .. n /\ slot[h].key \in K \cup {NULL}
        /\ slot[h].ptr \in V \cup {NULL}
    BY <1>1, SlotIs
  <2>2. CASE x = i
    <3>1. new[x] = [key |-> key, ptr |-> ptr, next |-> slot[h].next]
      BY <2>2 DEF Puts
    <3> QED BY <2>1, <3>1
  <2>3. CASE x # i /\ x = h
    <3>1. new[x] = [key |-> slot[h].key, ptr |-> slot[h].ptr, next |-> i]
      BY <2>3 DEF Puts
    <3>2. i \in 0 .. n BY DEF Puts
    <3> QED BY <2>1, <3>1, <3>2
  <2>4. CASE x # i /\ x # h
    <3>1. new[x] = slot[x] BY <2>4 DEF Puts
    <3>2. slot[x] \in R BY <1>1 DEF Slotted
    <3> QED BY <3>1, <3>2
  <2> QED BY <2>2, <2>3, <2>4
<1>3. new = [x \in 1 .. n |-> new[x]] BY DEF Puts
<1> HIDE DEF R
<1>4. new \in [1 .. n -> R] BY <1>2, <1>3
<1> QED BY <1>4 DEF Slotted, R

\* in which what is free is empty and nobody is followed by a free slot,
LEMMA PutClean ==
  ASSUME NEW n \in Nat, NEW K, NEW V, NEW slot, Whole(slot, n, K, V), NULL \notin K,
         NEW h \in 1 .. n, NEW i, NEW key \in K, NEW ptr, NEW new,
         Puts(slot, new, n, h, i, key, ptr)
  PROVE  Clean(new, n)
<1> SUFFICES ASSUME NEW x \in 1 .. n
             PROVE  /\ new[x].key = NULL => new[x].ptr = NULL /\ new[x].next = 0
                    /\ new[x].next # 0 => new[new[x].next].key # NULL
  BY DEF Clean
<1>1. /\ i \in 1 .. n /\ slot[i].next = 0 /\ slot[i].key = NULL
      /\ new[i].key = key /\ new[i].ptr = ptr /\ new[i].next = slot[h].next
      /\ i # h => new[h].next = i
      /\ i = h => slot[h].next = 0
      /\ \A y \in 1 .. n : y # i =>
           /\ new[y].key = slot[y].key /\ new[y].ptr = slot[y].ptr
           /\ y # h => new[y].next = slot[y].next
      /\ \A y \in 1 .. n : slot[y].next # i
  BY PutNext
<1>2. \A y \in 1 .. n : /\ slot[y].key = NULL => slot[y].ptr = NULL /\ slot[y].next = 0
                        /\ slot[y].next # 0 => slot[slot[y].next].key # NULL
  BY DEF Whole, Clean
<1>3. \A y \in 1 .. n : slot[y].next # 0 => slot[y].next \in 1 .. n
  <2>1. \A y \in 1 .. n : slot[y].next \in 0 .. n BY SlotIs DEF Whole
  <2> SUFFICES ASSUME NEW y \in 1 .. n, slot[y].next # 0 PROVE slot[y].next \in 1 .. n
    OBVIOUS
  <2>2. slot[y].next \in 0 .. n BY <2>1
  <2> QED BY <2>2, NotZero
<1>4. key # NULL OBVIOUS
<1>5. \A y \in 1 .. n : slot[y].next # 0 => new[slot[y].next].key # NULL
  BY <1>1, <1>2, <1>3
<1>6. CASE x = i BY <1>1, <1>4, <1>5, <1>6
<1>7. CASE x # i /\ x = h
  <2>1. new[x].next = i /\ new[i].key # NULL BY <1>1, <1>4, <1>7
  <2>2. slot[x].key # NULL BY <1>7 DEF Puts
  <2>3. new[x].key = slot[x].key BY <1>1, <1>7
  <2> QED BY <2>1, <2>2, <2>3
<1>8. CASE x # i /\ x # h BY <1>1, <1>2, <1>5, <1>8
<1> QED BY <1>6, <1>7, <1>8

\* and in which each step still goes to a slot of higher rank: the new slot
\* is ranked between its home slot and what followed that.
LEMMA PutAcyclic ==
  ASSUME NEW n \in Nat, NEW K, NEW V, NEW slot, Whole(slot, n, K, V),
         NEW h \in 1 .. n, NEW i, NEW key, NEW ptr, NEW new,
         Puts(slot, new, n, h, i, key, ptr)
  PROVE  Acyclic(new, n)
<1>1. /\ i \in 1 .. n /\ slot[i].next = 0
      /\ new[i].next = slot[h].next
      /\ i # h => new[h].next = i
      /\ i = h => slot[h].next = 0
      /\ \A y \in 1 .. n : y # i /\ y # h => new[y].next = slot[y].next
      /\ \A y \in 1 .. n : slot[y].next # i
  BY PutNext
<1>2. PICK r \in [1 .. n -> Nat] :
        \A x \in 1 .. n : slot[x].next # 0 => r[x] < r[slot[x].next]
  BY DEF Whole, Acyclic
<1>3. \A y \in 1 .. n : slot[y].next # 0 => slot[y].next \in 1 .. n
  <2> SUFFICES ASSUME NEW y \in 1 .. n, slot[y].next # 0 PROVE slot[y].next \in 1 .. n
    OBVIOUS
  <2>1. slot[y].next \in 0 .. n BY SlotIs DEF Whole
  <2> QED BY <2>1, NotZero
<1> DEFINE q == [x \in 1 .. n |-> IF x = i /\ i # h THEN 2 * r[h] + 1 ELSE 2 * r[x]]
<1>4. \A x \in 1 .. n : r[x] \in Nat BY <1>2
<1>5. q \in [1 .. n -> Nat] BY <1>4
<1>6. ASSUME NEW x \in 1 .. n, new[x].next # 0 PROVE q[x] < q[new[x].next]
  <2>1. CASE x = i
    <3>1. i # h /\ new[x].next = slot[h].next BY <1>1, <1>6, <2>1
    <3> DEFINE y == slot[h].next
    <3>2. y \in 1 .. n /\ y # i /\ r[h] < r[y] BY <1>1, <1>2, <1>3, <1>6, <3>1
    <3>3. q[x] = 2 * r[h] + 1 /\ q[y] = 2 * r[y] BY <2>1, <3>1, <3>2
    <3>4. r[h] \in Nat /\ r[y] \in Nat BY <1>4, <3>2
    <3> HIDE DEF q, y
    <3> QED BY <3>1, <3>2, <3>3, <3>4 DEF y
  <2>2. CASE x # i /\ x = h
    <3>1. new[x].next = i BY <1>1, <2>2
    <3>2. q[x] = 2 * r[h] /\ q[i] = 2 * r[h] + 1 BY <1>1, <2>2
    <3>3. r[h] \in Nat BY <1>4
    <3> HIDE DEF q
    <3> QED BY <3>1, <3>2, <3>3
  <2>3. CASE x # i /\ x # h
    <3>1. new[x].next = slot[x].next BY <1>1, <2>3
    <3> DEFINE y == slot[x].next
    <3>2. y \in 1 .. n /\ y # i /\ r[x] < r[y] BY <1>1, <1>2, <1>3, <1>6, <3>1
    <3>3. q[x] = 2 * r[x] /\ q[y] = 2 * r[y] BY <2>3, <3>2
    <3>4. r[x] \in Nat /\ r[y] \in Nat BY <1>4, <3>2
    <3> HIDE DEF q, y
    <3> QED BY <3>1, <3>2, <3>3, <3>4 DEF y
  <2> QED BY <2>1, <2>2, <2>3
<1> HIDE DEF q
<1> QED BY <1>5, <1>6 DEF Acyclic

LEMMA PutWhole ==
  ASSUME NEW n \in Nat, NEW K, NEW V, NEW slot, Whole(slot, n, K, V), NULL \notin K,
         NEW h \in 1 .. n, NEW i, NEW key \in K, NEW ptr \in V \cup {NULL}, NEW new,
         Puts(slot, new, n, h, i, key, ptr)
  PROVE  Whole(new, n, K, V)
BY PutSlotted, PutClean, PutAcyclic DEF Whole

\* From the free slot nothing else was reached.
LEMMA FreeReaches ==
  ASSUME NEW n \in Nat, NEW slot, NEW i \in 1 .. n, slot[i].next = 0,
         NEW b, Reaches(slot, n, i, b)
  PROVE  b = i
<1>1. Closed(slot, {i}) BY DEF Closed
<1> QED BY <1>1 DEF Reaches

\* What was reached is reached,
LEMMA PutReaches ==
  ASSUME NEW n \in Nat, NEW K, NEW V, NEW slot, Whole(slot, n, K, V),
         NEW h \in 1 .. n, NEW i, NEW key, NEW ptr, NEW new,
         Puts(slot, new, n, h, i, key, ptr),
         NEW a \in 1 .. n, a # i, NEW b, Reaches(slot, n, a, b)
  PROVE  Reaches(new, n, a, b)
<1>1. /\ i \in 1 .. n
      /\ new[i].next = slot[h].next
      /\ i # h => new[h].next = i
      /\ \A y \in 1 .. n : y # i /\ y # h => new[y].next = slot[y].next
      /\ \A y \in 1 .. n : slot[y].next # i
  BY PutNext
<1> SUFFICES ASSUME NEW S \in SUBSET (1 .. n), a \in S, Closed(new, S) PROVE b \in S
  BY DEF Reaches
<1>2. Closed(slot, S \ {i})
  <2> SUFFICES ASSUME NEW x \in S \ {i}, slot[x].next # 0 PROVE slot[x].next \in S
    BY <1>1 DEF Closed
  <2>1. CASE x = h
    <3>1. new[x].next = i /\ i # 0 BY <1>1, <2>1
    <3>2. i \in S BY <3>1 DEF Closed
    <3>3. new[i].next = slot[x].next BY <1>1, <2>1
    <3> QED BY <3>2, <3>3 DEF Closed
  <2>2. CASE x # h
    <3>1. new[x].next = slot[x].next BY <1>1, <2>2
    <3> QED BY <3>1 DEF Closed
  <2> QED BY <2>1, <2>2
<1>3. b \in S \ {i} BY <1>2 DEF Reaches
<1> QED BY <1>3

\* the new slot from its home,
LEMMA PutReached ==
  ASSUME NEW n \in Nat, NEW K, NEW V, NEW slot, Whole(slot, n, K, V),
         NEW h \in 1 .. n, NEW i, NEW key, NEW ptr, NEW new,
         Puts(slot, new, n, h, i, key, ptr)
  PROVE  Reaches(new, n, h, i)
<1>1. i \in 1 .. n /\ (i # h => new[h].next = i) BY PutNext
<1>2. i # 0 BY <1>1
<1>3. Reaches(new, n, h, h) BY ReachesSelf
<1> QED BY <1>1, <1>2, <1>3, ReachesNext

\* and besides nothing that was not.
LEMMA PutReachesOnly ==
  ASSUME NEW n \in Nat, NEW K, NEW V, NEW slot, Whole(slot, n, K, V),
         NEW h \in 1 .. n, NEW i, NEW key, NEW ptr, NEW new,
         Puts(slot, new, n, h, i, key, ptr),
         NEW a \in 1 .. n, a # i, NEW b, b # i, Reaches(new, n, a, b)
  PROVE  Reaches(slot, n, a, b)
<1>1. /\ i \in 1 .. n
      /\ new[i].next = slot[h].next
      /\ i # h => new[h].next = i
      /\ i = h => slot[h].next = 0
      /\ \A y \in 1 .. n : y # i /\ y # h => new[y].next = slot[y].next
      /\ \A y \in 1 .. n : slot[y].next # i
  BY PutNext
<1> SUFFICES ASSUME NEW S \in SUBSET (1 .. n), a \in S, Closed(slot, S) PROVE b \in S
  BY DEF Reaches
<1> DEFINE T == IF h \in S THEN S \cup {i} ELSE S \ {i}
<1>2. T \in SUBSET (1 .. n) /\ a \in T BY <1>1
<1>3. Closed(new, T)
  <2> SUFFICES ASSUME NEW x \in T, new[x].next # 0 PROVE new[x].next \in T
    BY DEF Closed
  <2>1. CASE x = i
    <3>1. h \in S BY <2>1
    <3>2. new[x].next = slot[h].next BY <1>1, <2>1
    <3>3. slot[h].next \in S BY <3>1, <3>2 DEF Closed
    <3> QED BY <3>1, <3>2, <3>3
  <2>2. CASE x # i /\ x = h BY <1>1, <2>2
  <2>3. CASE x # i /\ x # h
    <3>1. x \in S /\ new[x].next = slot[x].next BY <1>1, <2>3
    <3>2. slot[x].next \in S /\ slot[x].next # i BY <1>1, <3>1 DEF Closed
    <3> QED BY <3>1, <3>2
  <2> QED BY <2>1, <2>2, <2>3
<1>4. b \in T BY <1>2, <1>3 DEF Reaches
<1> QED BY <1>4

\* Every key is at home still, if h is in the chain of the home slot.
LEMMA PutHomed ==
  ASSUME NEW n \in Nat, NEW K, NEW V, NEW slot, Whole(slot, n, K, V),
         NEW H \in [K -> 1 .. n], Homed(slot, n, H),
         NEW i, NEW key \in K, NEW ptr, NEW new,
         NEW h \in 1 .. n, Reaches(slot, n, H[key], h),
         Puts(slot, new, n, h, i, key, ptr)
  PROVE  Homed(new, n, H)
<1> SUFFICES ASSUME NEW x \in 1 .. n, new[x].key # NULL
             PROVE  Reaches(new, n, H[new[x].key], x)
  BY DEF Homed
<1> DEFINE home == H[key]
<1>0. home \in 1 .. n OBVIOUS
<1>1. /\ i \in 1 .. n /\ slot[i].next = 0 /\ slot[i].key = NULL /\ new[i].key = key
      /\ \A y \in 1 .. n : y # i => new[y].key = slot[y].key
  BY PutNext
<1>4. Reaches(new, n, home, i)
  <2> HIDE DEF home
  <2>1. CASE home = i BY <2>1, ReachesSelf
  <2>2. CASE home # i
    <3>1. Reaches(slot, n, home, h) BY DEF home
    <3>2. Reaches(new, n, home, h) BY <1>0, <2>2, <3>1, PutReaches
    <3>3. Reaches(new, n, h, i) BY PutReached
    <3> QED BY <3>2, <3>3, ReachesOn
  <2> QED BY <2>1, <2>2
<1>2. CASE x = i BY <1>1, <1>2, <1>4
<1>3. CASE x # i
  <2>1. new[x].key = slot[x].key /\ slot[x].key # NULL BY <1>1, <1>3
  <2>2. slot[x].key \in K BY <2>1 DEF Whole, Slotted
  <2> DEFINE a == H[slot[x].key]
  <2>3. a \in 1 .. n BY <2>2
  <2>4. Reaches(slot, n, a, x) BY <2>1 DEF Homed
  <2>5. a # i BY <1>1, <1>3, <2>4, FreeReaches
  <2> HIDE DEF a
  <2>6. Reaches(new, n, a, x) BY <2>3, <2>4, <2>5, PutReaches
  <2> QED BY <2>1, <2>6 DEF a
<1> QED BY <1>2, <1>3

\* The first slot of another key is the same as before.
LEMMA PutFirst ==
  ASSUME NEW n \in Nat, NEW K, NEW V, NEW slot, Whole(slot, n, K, V),
         NEW h \in 1 .. n, NEW i, NEW key, NEW ptr, NEW new,
         Puts(slot, new, n, h, i, key, ptr),
         NEW a \in 1 .. n, NEW k, k # key, k # NULL, NEW j, IsFirst(slot, n, a, k, j)
  PROVE  IsFirst(new, n, a, k, j)
<1>1. /\ i \in 1 .. n /\ slot[i].next = 0 /\ slot[i].key = NULL /\ new[i].key = key
      /\ \A y \in 1 .. n : y # i => new[y].key = slot[y].key
  BY PutNext
<1>2. j \in 1 .. n /\ slot[j].key = k /\ Reaches(slot, n, a, j) BY DEF IsFirst
<1>3. j # i BY <1>1, <1>2
<1>4. a # i BY <1>1, <1>2, <1>3, FreeReaches
<1>5. new[j].key = k /\ Reaches(new, n, a, j) BY <1>1, <1>2, <1>3, <1>4, PutReaches
<1>6. ASSUME NEW x \in 1 .. n, new[x].key = k, Reaches(new, n, a, x)
      PROVE  Reaches(new, n, j, x)
  <2>1. x # i BY <1>1, <1>6
  <2>2. slot[x].key = k BY <1>1, <1>6, <2>1
  <2>3. Reaches(slot, n, a, x) BY <1>4, <1>6, <2>1, PutReachesOnly
  <2>4. Reaches(slot, n, j, x) BY <2>2, <2>3 DEF IsFirst
  <2> QED BY <1>2, <1>3, <2>4, PutReaches
<1> QED BY <1>2, <1>5, <1>6 DEF IsFirst

-----------------------------------------------------------------------------
\* The maps of names.

Home(n) == [k \in Name |-> (Hash[k] % n) + 1]

\* What a table has.
Taken(slot, n) == {x \in 1 .. n : slot[x].key # NULL}

\* A table of names in which every search comes out right.
Kept(slot, n, V) == Whole(slot, n, Name, V) /\ Homed(slot, n, Home(n))

LEMMA Remainders ==
  ASSUME NEW n \in Nat, n # 0, NEW a \in Nat
  PROVE  a % n \in 0 .. n - 1
OBVIOUS

\* Every name has a home in the table,
LEMMA HomeIs ==
  ASSUME NEW n \in Nat, n # 0
  PROVE  Home(n) \in [Name -> 1 .. n]
<1>1. ASSUME NEW k \in Name PROVE (Hash[k] % n) + 1 \in 1 .. n
  <2>1. Hash[k] \in Nat BY HashAssumption
  <2>2. PICK m \in 0 .. n - 1 : m = Hash[k] % n BY <2>1, Remainders
  <2> QED BY <2>2
<1> QED BY <1>1 DEF Home

\* which is the one that the code looks at.
LEMMA HomeOfIs ==
  ASSUME NEW n \in Nat, NEW slot, Len(slot) = n, NEW k \in Name
  PROVE  HomeOf(slot, Hash[k]) = Home(n)[k]
BY DEF HomeOf, Home

\* Going around the table from a slot one comes to every slot.
LEMMA Around ==
  ASSUME NEW n \in Nat, NEW i \in 1 .. n, NEW j \in 1 .. n
  PROVE  \E d \in 1 .. n : (((i - 1) + d) % n) + 1 = j
<1>1. CASE i < j
  <2>1. j - i \in 1 .. n /\ (i - 1) + (j - i) = j - 1 /\ j - 1 \in 0 .. n - 1 BY <1>1
  <2>2. (j - 1) % n = j - 1 BY <2>1
  <2>3. (((i - 1) + (j - i)) % n) + 1 = (j - 1) + 1 BY <2>1, <2>2
  <2>4. (j - 1) + 1 = j OBVIOUS
  <2> QED BY <2>1, <2>3, <2>4
<1>2. CASE ~ (i < j)
  <2>1. /\ (j - i) + n \in 1 .. n /\ (i - 1) + ((j - i) + n) = (j - 1) + n
        /\ j - 1 \in 0 .. n - 1
    BY <1>2
  <2>2. ((j - 1) + n) % n = j - 1 BY <2>1
  <2>3. (((i - 1) + ((j - i) + n)) % n) + 1 = (j - 1) + 1 BY <2>1, <2>2
  <2>4. (j - 1) + 1 = j OBVIOUS
  <2> QED BY <2>1, <2>3, <2>4
<1> QED BY <1>1, <1>2

\* If there is a free slot, one is found.
LEMMA FreeFound ==
  ASSUME NEW n \in Nat, NEW slot, Len(slot) = n, NEW i \in 1 .. n,
         NEW j \in 1 .. n, slot[j].key = NULL
  PROVE  FreeAfter(slot, i) \in 1 .. n /\ slot[FreeAfter(slot, i)].key = NULL
<1> DEFINE At(d) == (((i - 1) + d) % n) + 1
           Ok(d) == slot[At(d)].key = NULL
           c == CHOOSE x \in 1 .. n : Ok(x) /\ \A y \in 1 .. n : Ok(y) => x <= y
           T == {d \in 1 .. n : Ok(d)}
<1>1. FreeAfter(slot, i) = At(c) BY DEF FreeAfter, Least
<1>2. T \subseteq Nat /\ T # {}
  <2>1. PICK d \in 1 .. n : At(d) = j BY Around
  <2>2. d \in T BY <2>1
  <2>3. T \subseteq 1 .. n OBVIOUS
  <2> HIDE DEF T
  <2> QED BY <2>2, <2>3
<1>3. PICK x \in T : \A y \in T : x <= y
  <2> HIDE DEF T
  <2> QED BY <1>2, Smallest
<1>4. x \in 1 .. n /\ Ok(x) /\ \A y \in 1 .. n : Ok(y) => x <= y
  <2> HIDE DEF Ok
  <2> QED BY <1>3
<1>5. c \in 1 .. n /\ Ok(c)
  <2> HIDE DEF Ok
  <2> QED BY <1>4
<1> HIDE DEF c
<1>6. At(c) \in 1 .. n
  <2>1. (i - 1) + c \in Nat /\ n # 0 BY <1>5
  <2>2. PICK m \in 0 .. n - 1 : m = ((i - 1) + c) % n BY <2>1, Remainders
  <2> QED BY <2>2
<1> QED BY <1>1, <1>5, <1>6

\* So a key finds its place as long as there is one.
LEMMA Placed ==
  ASSUME NEW n \in Nat, NEW V, NEW slot, Kept(slot, n, V), NEW key \in Name, NEW ptr,
         NEW j \in 1 .. n, slot[j].key = NULL
  PROVE  \E i : Puts(slot, Place(slot, key, ptr), n, Home(n)[key], i, key, ptr)
<1> DEFINE h == Home(n)[key]
           i == FreeAfter(slot, h)
           new == Place(slot, key, ptr)
<1>1. Slotted(slot, n, Name, V) BY DEF Kept, Whole
<1>2. Len(slot) = n BY <1>1, LenSlots
<1>3. h \in 1 .. n BY HomeIs
<1>4. HomeOf(slot, Hash[key]) = h BY <1>2, HomeOfIs
<1>5. DOMAIN slot = 1 .. n /\ slot = [x \in 1 .. n |-> slot[x]] BY <1>1 DEF Slotted
<1> HIDE DEF h
<1>6. CASE slot[h].key = NULL
  <2>1. new = [slot EXCEPT ![h] = [key |-> key, ptr |-> ptr, next |-> 0]]
    BY <1>4, <1>6 DEF Place
  <2>2. slot[h].next = 0 BY <1>3, <1>6 DEF Kept, Whole, Clean
  <2>3. Puts(slot, new, n, h, h, key, ptr)
    <3> HIDE DEF new
    <3> QED BY <1>3, <1>5, <1>6, <2>1, <2>2 DEF Puts
  <2> QED BY <2>3 DEF h
<1>7. CASE slot[h].key # NULL
  <2>1. i \in 1 .. n /\ slot[i].key = NULL BY <1>2, <1>3, FreeFound
  <2>2. new = [slot EXCEPT ![i] = [key |-> key, ptr |-> ptr, next |-> slot[h].next],
                           ![h].next = i]
    BY <1>4, <1>7 DEF Place
  <2>3. i # h BY <1>7, <2>1
  <2> HIDE DEF i, new
  <2>4. slot[h] = [key |-> slot[h].key, ptr |-> slot[h].ptr, next |-> slot[h].next]
    BY <1>1, <1>3 DEF Slotted
  <2>5. new[i] = [key |-> key, ptr |-> ptr, next |-> slot[h].next]
    BY <1>5, <2>1, <2>2, <2>3
  <2>6. new[h] = [key |-> slot[h].key, ptr |-> slot[h].ptr, next |-> i]
    BY <1>3, <1>5, <2>1, <2>2, <2>3, <2>4
  <2>7. DOMAIN new = 1 .. n /\ new = [x \in 1 .. n |-> new[x]]
        /\ \A x \in 1 .. n : x # i /\ x # h => new[x] = slot[x]
    BY <1>3, <1>5, <2>1, <2>2, <2>3
  <2>8. Puts(slot, new, n, h, i, key, ptr)
    BY <1>7, <2>1, <2>3, <2>5, <2>6, <2>7 DEF Puts
  <2> QED BY <2>8 DEF h, new
<1> QED BY <1>6, <1>7

\* The end of the chain of a slot.
LEMMA ChainEnd ==
  ASSUME NEW n \in Nat, NEW K, NEW V, NEW slot, Whole(slot, n, K, V), NEW a \in 1 .. n
  PROVE  LET last == Search(slot, a, LAMBDA s : s.next = 0)
         IN  last \in 1 .. n /\ slot[last].next = 0 /\ Reaches(slot, n, a, last)
<1> DEFINE s == Step(slot, a)
           Hit(i) == s[i] # 0 /\ slot[s[i]].next = 0
           last == Search(slot, a, LAMBDA x : x.next = 0)
<1>1. Slotted(slot, n, K, V) BY DEF Whole
<1>2. s[0] = a /\ DOMAIN s = 0 .. n /\ \A k \in 0 .. n : s[k] \in 0 .. n
  BY <1>1, AnyStep
<1>3. \A k \in 0 .. n : k < n => s[k + 1] = IF s[k] = 0 THEN 0 ELSE slot[s[k]].next
  BY <1>1, NextStep
<1>4. s[n] = 0 BY ChainEnds
<1>5. last = IF \E i \in 0 .. n : Hit(i)
             THEN s[CHOOSE i \in 0 .. n : Hit(i) /\ \A y \in 0 .. n : Hit(y) => i <= y]
             ELSE 0
  BY <1>2 DEF Search, Least
<1> HIDE DEF last, s
<1>6. \E i \in 0 .. n : Hit(i)
  <2> SUFFICES ASSUME \A i \in 0 .. n : ~ Hit(i) PROVE FALSE OBVIOUS
  <2> DEFINE T == {i \in 0 .. n : s[i] # 0}
  <2>1. 0 \in T BY <1>2
  <2>2. ASSUME NEW k \in 0 .. n, k < n, k \in T PROVE k + 1 \in T
    <3>1. k + 1 \in 0 .. n BY <2>2
    <3> QED BY <1>3, <2>2, <3>1
  <2>3. \A i \in 0 .. n : i \in T
    <3> HIDE DEF T
    <3> QED BY <2>1, <2>2, Upwards
  <2> QED BY <1>4, <2>3
<1> DEFINE Hits == {i \in 0 .. n : Hit(i)}
           c == CHOOSE i \in 0 .. n : Hit(i) /\ \A y \in 0 .. n : Hit(y) => i <= y
<1>7. PICK m \in Hits : \A y \in Hits : m <= y
  <2>1. Hits \subseteq Nat /\ Hits # {} BY <1>6
  <2> HIDE DEF Hits
  <2> QED BY <2>1, Smallest
<1>8. m \in 0 .. n /\ Hit(m) /\ \A y \in 0 .. n : Hit(y) => m <= y BY <1>7
<1>9. c \in 0 .. n /\ Hit(c)
  <2> HIDE DEF Hit
  <2> QED BY <1>8
<1>10. last = s[c]
  <2> HIDE DEF Hit
  <2> QED BY <1>5, <1>6
<1> HIDE DEF c
<1>11. s[c] \in 1 .. n /\ slot[s[c]].next = 0 BY <1>2, <1>9, NotZero
<1>12. Reaches(slot, n, a, s[c])
  <2>1. 0 \in 0 .. n /\ c \in 0 .. n BY <1>9
  <2>2. Reaches(slot, n, s[0], s[c]) BY <1>1, <1>9, <2>1, StepsReach DEF s
  <2> QED BY <1>2, <2>2
<1> QED BY <1>10, <1>11, <1>12 DEF last

\* An entry finds its place there.
LEMMA PlacedLast ==
  ASSUME NEW n \in Nat, NEW V, NEW slot, Kept(slot, n, V), NEW key \in Name,
         NEW j \in 1 .. n, slot[j].key = NULL
  PROVE  \E h \in 1 .. n : /\ Reaches(slot, n, Home(n)[key], h)
                           /\ \E i : Puts(slot, PlaceLast(slot, key), n, h, i, key, NULL)
<1> DEFINE home == Home(n)[key]
           h == Search(slot, home, LAMBDA s : s.next = 0)
           i == FreeAfter(slot, home)
           new == PlaceLast(slot, key)
<1>1. Whole(slot, n, Name, V) /\ Slotted(slot, n, Name, V) BY DEF Kept, Whole
<1>2. Len(slot) = n BY <1>1, LenSlots
<1>3. home \in 1 .. n BY HomeIs
<1>4. HomeOf(slot, Hash[key]) = home BY <1>2, HomeOfIs
<1>5. DOMAIN slot = 1 .. n /\ slot = [x \in 1 .. n |-> slot[x]] BY <1>1 DEF Slotted
<1> HIDE DEF home
<1>6. CASE slot[home].key = NULL
  <2>1. new = [slot EXCEPT ![home] = [key |-> key, ptr |-> NULL, next |-> 0]]
    BY <1>4, <1>6 DEF PlaceLast
  <2>2. slot[home].next = 0 BY <1>3, <1>6 DEF Kept, Whole, Clean
  <2>3. Puts(slot, new, n, home, home, key, NULL)
    <3> HIDE DEF new
    <3> QED BY <1>3, <1>5, <1>6, <2>1, <2>2 DEF Puts
  <2>4. Reaches(slot, n, home, home) BY <1>3, ReachesSelf
  <2> HIDE DEF new
  <2> QED BY <1>3, <2>3, <2>4 DEF home, new
<1>7. CASE slot[home].key # NULL
  <2>1. i \in 1 .. n /\ slot[i].key = NULL BY <1>2, <1>3, FreeFound
  <2>2. h \in 1 .. n /\ slot[h].next = 0 /\ Reaches(slot, n, home, h) BY <1>1, <1>3, ChainEnd
  <2>3. new = [slot EXCEPT ![i] = [key |-> key, ptr |-> NULL, next |-> 0], ![h].next = i]
    BY <1>4, <1>7 DEF PlaceLast
  <2> HIDE DEF h, i, new
  <2>4. slot[h].key # NULL
    <3> SUFFICES ASSUME slot[h].key = NULL PROVE FALSE OBVIOUS
    <3> DEFINE S == Taken(slot, n)
    <3>1. home \in S BY <1>3, <1>7 DEF Taken
    <3>2. Closed(slot, S)
      <4> SUFFICES ASSUME NEW x \in S, slot[x].next # 0 PROVE slot[x].next \in S
        BY DEF Closed
      <4>1. x \in 1 .. n BY DEF Taken
      <4>2. slot[x].next \in 1 .. n BY <1>1, <4>1, SlotIs, NotZero
      <4>3. slot[slot[x].next].key # NULL BY <1>1, <4>1 DEF Whole, Clean
      <4> QED BY <4>2, <4>3 DEF Taken
    <3>3. h \in S BY <2>2, <3>1, <3>2 DEF Reaches, Taken
    <3> QED BY <3>3 DEF Taken
  <2>5. i # h BY <2>1, <2>4
  <2>6. slot[h] = [key |-> slot[h].key, ptr |-> slot[h].ptr, next |-> slot[h].next]
    BY <1>1, <2>2 DEF Slotted
  <2>7. new[i] = [key |-> key, ptr |-> NULL, next |-> 0] BY <1>5, <2>1, <2>3, <2>5
  <2>8. new[h] = [key |-> slot[h].key, ptr |-> slot[h].ptr, next |-> i]
    BY <1>5, <2>1, <2>2, <2>3, <2>5, <2>6
  <2>9. DOMAIN new = 1 .. n /\ new = [x \in 1 .. n |-> new[x]]
        /\ \A x \in 1 .. n : x # i /\ x # h => new[x] = slot[x]
    BY <1>5, <2>1, <2>2, <2>3, <2>5
  <2>10. Puts(slot, new, n, h, i, key, NULL)
    BY <2>1, <2>2, <2>4, <2>5, <2>7, <2>8, <2>9 DEF Puts
  <2> QED BY <2>2, <2>10 DEF home, new
<1> QED BY <1>6, <1>7

-----------------------------------------------------------------------------
\* A rehash.  It folds Place over the old slots; that the fold has the steps
\* one expects is shown by the functions on sets that it is defined with.

Placings(t, n, base, old) ==
  /\ t[0] = base
  /\ \A k \in 0 .. n : k < n => t[k + 1] = Place(t[k], old[k + 1].key, old[k + 1].ptr)
  /\ t[n] = PlaceAll(base, old)

\* A rehash comes to the table of t[n], the t[k] being the tables in which
\* the first k slots have been placed.
LEMMA RehashSteps ==
  ASSUME NEW n \in Nat, NEW S, NEW old \in [1 .. n -> S], NEW base
  PROVE  \E t : Placings(t, n, base, old)
<1> DEFINE D == 1 .. n
           Op(to, j) == Place(to, old[j].key, old[j].ptr)
           Body(f, s) == IF s = {} THEN base ELSE Op(f[s \ {Max(s)}], Max(s))
           Is(f) == f = [s \in SUBSET D |-> Body(f, s)]
           Upto(f, k) == \A s \in SUBSET D : s \subseteq 1 .. k => f[s] = Body(f, s)
           T == {k \in 0 .. n : \E f : Upto(f, k)}
           fold == PlaceAll(base, old)
<1>1. DOMAIN old = D OBVIOUS
<1>2. fold = (CHOOSE f : Is(f))[D]
  BY <1>1 DEF PlaceAll, FoldLeft, MapThenFoldSet
<1>3. ASSUME NEW s \in SUBSET D, s # {}
      PROVE  Max(s) \in s /\ \A y \in s : y <= Max(s)
  <2>1. s \in SUBSET (0 .. n) OBVIOUS
  <2> QED BY <2>1, <1>3, MaxIs
<1>4. 0 \in T
  <2> DEFINE f == [s \in SUBSET D |-> base]
  <2>1. ASSUME NEW s \in SUBSET D, s \subseteq 1 .. 0 PROVE f[s] = Body(f, s)
    <3>1. s = {} BY <2>1
    <3> HIDE DEF D
    <3> QED BY <3>1
  <2>2. Upto(f, 0) BY <2>1
  <2> HIDE DEF Upto, f
  <2> QED BY <2>2
<1>5. ASSUME NEW k \in 0 .. n, k < n, k \in T PROVE k + 1 \in T
  <2>1. PICK f : Upto(f, k) BY <1>5
  <2> DEFINE h == [s \in SUBSET D |-> IF s \subseteq 1 .. k THEN f[s] ELSE Body(f, s)]
  <2>2. ASSUME NEW s \in SUBSET D, s \subseteq 1 .. k + 1 PROVE h[s] = Body(h, s)
    <3>1. h[s] = Body(f, s)
      <4>1. CASE s \subseteq 1 .. k
        <5>1. h[s] = f[s] BY <4>1
        <5>2. f[s] = Body(f, s) BY <2>1, <4>1
        <5> QED BY <5>1, <5>2
      <4>2. CASE ~ (s \subseteq 1 .. k)
        <5> HIDE DEF D, Body
        <5> QED BY <4>2
      <4> QED BY <4>1, <4>2
    <3>2. ASSUME s # {} PROVE f[s \ {Max(s)}] = h[s \ {Max(s)}]
      <4>1. Max(s) \in s /\ \A y \in s : y <= Max(s) BY <1>3, <3>2
      <4> DEFINE m == Max(s)
      <4> HIDE DEF m
      <4>2. m \in 1 .. k + 1 /\ \A y \in s \ {m} : y \in 1 .. k + 1 /\ y <= m /\ y # m
        BY <2>2, <4>1 DEF m
      <4>3. \A y \in s \ {m} : y \in 1 .. k BY <4>2
      <4>4. s \ {m} \in SUBSET D /\ s \ {m} \subseteq 1 .. k BY <4>3
      <4>5. h[s \ {m}] = f[s \ {m}]
        <5> HIDE DEF D, Body
        <5> QED BY <4>4
      <4> QED BY <4>5 DEF m
    <3> HIDE DEF h, Op
    <3> QED BY <3>1, <3>2
  <2>3. Upto(h, k + 1)
    <3> HIDE DEF h, Body
    <3> QED BY <2>2
  <2>4. k + 1 \in 0 .. n BY <1>5
  <2> HIDE DEF Upto, h
  <2> QED BY <2>3, <2>4
<1>6. n \in T
  <2> HIDE DEF T
  <2>1. \A i \in 0 .. n : i \in T BY <1>4, <1>5, Upwards
  <2> QED BY <2>1
<1>7. PICK f : Upto(f, n) BY <1>6
<1> DEFINE g == [s \in SUBSET D |-> Body(f, s)]
<1>8. \A s \in SUBSET D : f[s] = Body(f, s) BY <1>7
<1>9. Is(g)
  <2>1. ASSUME NEW s \in SUBSET D PROVE Body(f, s) = Body(g, s)
    <3>1. s \ {Max(s)} \in SUBSET D OBVIOUS
    <3>2. g[s \ {Max(s)}] = Body(f, s \ {Max(s)})
      <4> HIDE DEF Body, D
      <4> QED BY <3>1
    <3>3. g[s \ {Max(s)}] = f[s \ {Max(s)}] BY <1>8, <3>1, <3>2
    <3> HIDE DEF Op, g
    <3> QED BY <3>3
  <2> HIDE DEF Body
  <2> QED BY <2>1
<1> DEFINE iter == CHOOSE f2 : Is(f2)
<1>10. Is(iter)
  <2> HIDE DEF Is, g
  <2> QED BY <1>9
<1>11. \A s \in SUBSET D : iter[s] = Body(iter, s)
  <2> HIDE DEF iter, Body
  <2> QED BY <1>10
<1>12. fold = iter[D]
  <2> HIDE DEF fold, Is, D
  <2> QED BY <1>2
<1> HIDE DEF iter, fold
<1> DEFINE t == [k \in 0 .. n |-> iter[1 .. k]]
<1>13. t[0] = base
  <2>1. 1 .. 0 = {} /\ {} \in SUBSET D OBVIOUS
  <2>2. iter[{}] = base BY <1>11, <2>1
  <2>3. t[0] = iter[1 .. 0] OBVIOUS
  <2> QED BY <2>1, <2>2, <2>3
<1>14. ASSUME NEW k \in 0 .. n, k < n PROVE t[k + 1] = Op(t[k], k + 1)
  <2> DEFINE s == 1 .. k + 1
  <2>7. k + 1 \in s /\ (\A y \in s : y <= k + 1 /\ y \in D) BY <1>14
  <2>1. s \in SUBSET D /\ s # {} /\ k + 1 \in s /\ (\A y \in s : y <= k + 1)
    <3> HIDE DEF s, D
    <3> QED BY <2>7
  <2>2. Max(s) \in s /\ \A y \in s : y <= Max(s) BY <1>3, <2>1
  <2>3. Max(s) = k + 1
    <3> DEFINE m == Max(s)
    <3> HIDE DEF m
    <3>1. m \in 1 .. k + 1 /\ k + 1 <= m BY <2>1, <2>2 DEF m
    <3> QED BY <3>1 DEF m
  <2>4. s \ {k + 1} = 1 .. k OBVIOUS
  <2>5. t[k + 1] = iter[s] /\ t[k] = iter[1 .. k]
    <3>1. k + 1 \in 0 .. n BY <1>14
    <3> QED BY <3>1
  <2>6. iter[s] = Body(iter, s) BY <1>11, <2>1
  <2> HIDE DEF s, t, Op
  <2> QED BY <2>1, <2>3, <2>4, <2>5, <2>6
<1>15. t[n] = fold BY <1>12
<1> HIDE DEF t
<1> QED BY <1>13, <1>14, <1>15 DEF fold, Placings

-----------------------------------------------------------------------------
\* A table that has no key twice.
Unique(slot, n) == \A x, y \in Taken(slot, n) : slot[x].key = slot[y].key => x = y

\* A new table is sound and empty.
LEMMA EmptyKept ==
  ASSUME NEW n \in Nat, NEW V
  PROVE  Kept(Slots(n), n, V) /\ Taken(Slots(n), n) = {}
<1> DEFINE slot == Slots(n)
<1>1. \A x \in 1 .. n : slot[x] = Free BY DEF Slots
<1>2. /\ Free.key = NULL /\ Free.ptr = NULL /\ Free.next = 0
      /\ Free \in [key : Name \cup {NULL}, ptr : V \cup {NULL}, next : 0 .. n]
  BY DEF Free
<1>3. Slotted(slot, n, Name, V)
  <2>1. slot = [x \in 1 .. n |-> Free] BY DEF Slots
  <2> HIDE DEF slot
  <2> QED BY <1>2, <2>1 DEF Slotted
<1> HIDE DEF slot
<1>4. Clean(slot, n) BY <1>1, <1>2 DEF Clean
<1>5. Acyclic(slot, n)
  <2>1. [x \in 1 .. n |-> 0] \in [1 .. n -> Nat] OBVIOUS
  <2> QED BY <1>1, <1>2, <2>1 DEF Acyclic
<1>6. Homed(slot, n, Home(n)) BY <1>1, <1>2 DEF Homed
<1>7. Taken(slot, n) = {} BY <1>1, <1>2 DEF Taken
<1> QED BY <1>3, <1>4, <1>5, <1>6, <1>7 DEF Kept, Whole, slot

\* No more slots are taken than there are.
LEMMA TakenFinite ==
  ASSUME NEW n \in Nat, NEW slot
  PROVE  /\ IsFiniteSet(Taken(slot, n)) /\ Cardinality(Taken(slot, n)) \in Nat
         /\ Cardinality(Taken(slot, n)) <= n
<1>1. IsFiniteSet(1 .. n) /\ Cardinality(1 .. n) = IF 1 > n THEN 0 ELSE n - 1 + 1
  BY FS_Interval
<1>2. Taken(slot, n) \in SUBSET (1 .. n) BY DEF Taken
<1>3. /\ IsFiniteSet(Taken(slot, n))
      /\ Cardinality(Taken(slot, n)) <= Cardinality(1 .. n)
  BY <1>1, <1>2, FS_Subset
<1>4. Cardinality(Taken(slot, n)) \in Nat BY <1>3, FS_CardinalityType
<1> QED BY <1>1, <1>3, <1>4

\* While fewer slots are taken than there are, one is free.
LEMMA OneFree ==
  ASSUME NEW n \in Nat, NEW slot, Cardinality(Taken(slot, n)) < n
  PROVE  \E j \in 1 .. n : slot[j].key = NULL
<1> SUFFICES ASSUME \A j \in 1 .. n : slot[j].key # NULL PROVE FALSE OBVIOUS
<1>1. Taken(slot, n) = 1 .. n BY DEF Taken
<1>2. Cardinality(1 .. n) = IF 1 > n THEN 0 ELSE n - 1 + 1 BY FS_Interval
<1> QED BY <1>1, <1>2

\* A table with as many keys as slots is full.
LEMMA AllTaken ==
  ASSUME NEW n \in Nat, NEW slot, Cardinality(Taken(slot, n)) = n
  PROVE  Taken(slot, n) = 1 .. n
<1>1. IsFiniteSet(1 .. n) /\ Cardinality(1 .. n) = IF 1 > n THEN 0 ELSE n - 1 + 1
  BY FS_Interval
<1>2. Cardinality(1 .. n) = n BY <1>1
<1>3. Taken(slot, n) \in SUBSET (1 .. n) BY DEF Taken
<1> QED BY <1>1, <1>2, <1>3, FS_Subset

\* One more key.
OneMore(slot, new, n, V, i, key, ptr) ==
  /\ Kept(new, n, V)
  /\ i \in 1 .. n /\ i \notin Taken(slot, n) /\ Taken(new, n) = Taken(slot, n) \cup {i}
  /\ Cardinality(Taken(new, n)) = Cardinality(Taken(slot, n)) + 1
  /\ new[i].key = key /\ new[i].ptr = ptr
  /\ \A x \in Taken(slot, n) : new[x].key = slot[x].key /\ new[x].ptr = slot[x].ptr

\* A sound table with one more key is sound.
LEMMA PutKept ==
  ASSUME NEW n \in Nat, NEW V, NEW slot, Kept(slot, n, V), NEW key \in Name,
         NEW ptr \in V \cup {NULL}, NEW i, NEW new,
         NEW h \in 1 .. n, Reaches(slot, n, Home(n)[key], h),
         Puts(slot, new, n, h, i, key, ptr)
  PROVE  OneMore(slot, new, n, V, i, key, ptr)
<1>1. i \in 1 .. n BY DEF Puts
<1>2. Home(n) \in [Name -> 1 .. n] BY <1>1, HomeIs
<1>3. NULL \notin Name BY HashAssumption
<1>5. Whole(slot, n, Name, V) /\ Homed(slot, n, Home(n)) BY DEF Kept
<1>6. Whole(new, n, Name, V) BY <1>3, <1>5, PutWhole
<1>7. Homed(new, n, Home(n)) BY <1>2, <1>5, PutHomed
<1>8. /\ slot[i].key = NULL /\ new[i].key = key /\ new[i].ptr = ptr
      /\ \A x \in 1 .. n : x # i => new[x].key = slot[x].key /\ new[x].ptr = slot[x].ptr
  BY <1>5, PutNext
<1>9. i \notin Taken(slot, n) /\ Taken(new, n) = Taken(slot, n) \cup {i}
  BY <1>1, <1>3, <1>8 DEF Taken
<1>10. Cardinality(Taken(new, n)) = Cardinality(Taken(slot, n)) + 1
  BY <1>9, TakenFinite, FS_AddElement
<1>11. \A x \in Taken(slot, n) : new[x].key = slot[x].key /\ new[x].ptr = slot[x].ptr
  BY <1>8, <1>9 DEF Taken
<1> QED BY <1>1, <1>6, <1>7, <1>8, <1>9, <1>10, <1>11 DEF Kept, OneMore

\* What is found for a name.
Found(slot, n, key, j) ==
  \/ IsFirst(slot, n, Home(n)[key], key, j)
  \/ j = 0 /\ \A i \in Taken(slot, n) : slot[i].key # key

\* What Find comes to in a sound table.
LEMMA FindsIt ==
  ASSUME NEW n \in Nat, n # 0, NEW V, NEW map, map.cap = n, Kept(map.slot, n, V),
         NEW key \in Name
  PROVE  Found(map.slot, n, key, Find(map, key))
<1> DEFINE slot == map.slot
           a == Home(n)[key]
<1>1. Whole(slot, n, Name, V) /\ Homed(slot, n, Home(n)) BY DEF Kept
<1>2. Len(slot) = n BY <1>1, LenSlots DEF Whole
<1>3. a \in 1 .. n BY HomeIs
<1>4. HomeOf(slot, Hash[key]) = a BY <1>2, HomeOfIs
<1>5. Find(map, key) = SearchKey(slot, a, key) BY <1>4 DEF Find, SearchKey
<1> HIDE DEF a, slot
<1>6. Result(slot, n, a, key, SearchKey(slot, a, key))
  BY <1>1, <1>3, SearchFinds
<1>7. Result(slot, n, a, key, Find(map, key)) BY <1>5, <1>6
<1>8. IsNowhere(slot, n, a, key) => \A i \in Taken(slot, n) : slot[i].key # key
  BY <1>1 DEF IsNowhere, Homed, Taken, a
<1> QED BY <1>7, <1>8 DEF Result, Found, a, slot

\* It is the only thing that could be found.
LEMMA FoundIsOne ==
  ASSUME NEW n \in Nat, NEW V, NEW slot, Kept(slot, n, V), NEW key \in Name,
         NEW i, NEW j, Found(slot, n, key, i), Found(slot, n, key, j)
  PROVE  i = j
<1>1. Whole(slot, n, Name, V) /\ NULL \notin Name BY HashAssumption DEF Kept
<1>2. ASSUME NEW x, IsFirst(slot, n, Home(n)[key], key, x)
      PROVE  x \in Taken(slot, n) /\ slot[x].key = key
  BY <1>1, <1>2 DEF IsFirst, Taken
<1> QED BY <1>1, <1>2, FirstIsOne DEF Found

\* Where it is found it is; nowhere it is not.
LEMMA FoundThere ==
  ASSUME NEW n \in Nat, NEW slot, NEW key \in Name, NEW j, Found(slot, n, key, j)
  PROVE  /\ j # 0 => j \in Taken(slot, n) /\ j \in 1 .. n /\ slot[j].key = key
         /\ j = 0 => \A i \in Taken(slot, n) : slot[i].key # key
<1>1. NULL \notin Name BY HashAssumption
<1>2. 0 \notin 1 .. n OBVIOUS
<1> QED BY <1>1, <1>2 DEF Found, IsFirst, Taken

\* A key that was put: nothing changes for the others; for this key it may
\* be the one found, if it was there before, or else is.
LEMMA PutFound ==
  ASSUME NEW n \in Nat, NEW V, NEW slot, Kept(slot, n, V), NEW key \in Name,
         NEW ptr, NEW i, NEW new, NEW h \in 1 .. n,
         Puts(slot, new, n, h, i, key, ptr),
         OneMore(slot, new, n, V, i, key, ptr),
         NEW k \in Name, NEW j, Found(slot, n, k, j),
         NEW l, Found(new, n, k, l)
  PROVE  l = j \/ (k = key /\ l = i)
<1>1. Whole(slot, n, Name, V) /\ Homed(slot, n, Home(n)) BY DEF Kept
<1>2. i \in 1 .. n BY DEF Puts
<1>3. Home(n)[k] \in 1 .. n BY <1>2, HomeIs
<1>4. /\ Kept(new, n, V)
      /\ i \in 1 .. n /\ i \notin Taken(slot, n) /\ Taken(new, n) = Taken(slot, n) \cup {i}
      /\ Cardinality(Taken(new, n)) = Cardinality(Taken(slot, n)) + 1
      /\ new[i].key = key /\ new[i].ptr = ptr
      /\ \A x \in Taken(slot, n) : new[x].key = slot[x].key /\ new[x].ptr = slot[x].ptr
  BY DEF OneMore
<1>5. NULL \notin Name BY HashAssumption
<1>6. CASE k # key
  <2>1. CASE IsFirst(slot, n, Home(n)[k], k, j)
    <3>1. IsFirst(new, n, Home(n)[k], k, j) BY <1>1, <1>3, <1>5, <1>6, <2>1, PutFirst
    <3>2. Found(new, n, k, j) BY <3>1 DEF Found
    <3> QED BY <1>4, <3>2, FoundIsOne
  <2>2. CASE j = 0 /\ \A x \in Taken(slot, n) : slot[x].key # k
    <3>1. \A x \in Taken(new, n) : new[x].key # k BY <1>4, <1>6, <2>2
    <3>2. Found(new, n, k, j) BY <2>2, <3>1 DEF Found
    <3> QED BY <1>4, <3>2, FoundIsOne
  <2> QED BY <2>1, <2>2 DEF Found
<1>7. CASE k = key /\ l # i
  <2>1. l # 0
    <3>1. new[i].key = k /\ i \in Taken(new, n) BY <1>4, <1>7
    <3> QED BY <3>1, FoundThere
  <2>2. IsFirst(new, n, Home(n)[k], k, l) BY <2>1 DEF Found
  <2>3. l \in Taken(new, n) /\ new[l].key = k BY <2>1, FoundThere
  <2>4. l \in Taken(slot, n) /\ slot[l].key = k BY <1>4, <1>7, <2>3
  <2>5. IsFirst(slot, n, Home(n)[k], k, j) BY <2>4 DEF Found
  <2>6. j \in Taken(slot, n) /\ slot[j].key = k /\ j \in 1 .. n /\ l \in 1 .. n
        /\ Reaches(slot, n, Home(n)[k], j)
    BY <1>5, <2>4, <2>5 DEF IsFirst, Taken
  <2>7. j # i BY <1>4, <2>6
  <2>8. slot[i].next = 0 /\ slot[i].key = NULL BY <1>1, <1>3, PutNext
  <2>9. Home(n)[k] # i BY <1>2, <2>6, <2>7, <2>8, FreeReaches
  <2>10. Reaches(new, n, Home(n)[k], j) BY <1>1, <1>3, <2>6, <2>9, PutReaches
  <2>11. new[j].key = k BY <1>4, <2>6
  <2>12. Reaches(new, n, l, j) BY <2>2, <2>6, <2>10, <2>11 DEF IsFirst
  <2>13. Reaches(slot, n, l, j) BY <1>1, <1>3, <1>7, <2>6, <2>7, <2>12, PutReachesOnly
  <2>14. Reaches(new, n, Home(n)[k], l) BY <2>2 DEF IsFirst
  <2>15. Reaches(slot, n, Home(n)[k], l)
    BY <1>1, <1>3, <1>7, <2>6, <2>9, <2>14, PutReachesOnly
  <2>16. Reaches(slot, n, j, l) BY <2>4, <2>5, <2>6, <2>15 DEF IsFirst
  <2>17. l = j BY <1>1, <2>6, <2>13, <2>16, ReachesApart
  <2> QED BY <2>17
<1> QED BY <1>6, <1>7

-----------------------------------------------------------------------------
\* A map in which every search comes out right, its pointers from V.
Sound(map, V) ==
  /\ map = [cap |-> map.cap, size |-> map.size, slot |-> map.slot]
  /\ \E k \in 0 .. 30 : map.cap = 2^k
  /\ Kept(map.slot, map.cap, V)
  /\ map.size = Cardinality(Taken(map.slot, map.cap))

In(map) == Taken(map.slot, map.cap)

\* A sound map has at least one slot and no more keys than slots.
LEMMA SoundIs ==
  ASSUME NEW V, NEW map, Sound(map, V)
  PROVE  /\ map.cap \in Nat /\ map.cap # 0 /\ map.size \in Nat /\ map.size <= map.cap
         /\ map.size = Cardinality(In(map)) /\ IsFiniteSet(In(map))
         /\ In(map) \subseteq 1 .. map.cap
<1>1. PICK k \in 0 .. 30 : map.cap = 2^k BY DEF Sound
<1>2. 2^k \in Nat /\ k < 2^k
  <2>1. k \in Nat OBVIOUS
  <2> QED BY <2>1, Subsets, PowerLarge
<1>3. PICK n \in Nat : n = map.cap BY <1>1, <1>2
<1>4. n # 0 BY <1>1, <1>2, <1>3
<1>5. /\ IsFiniteSet(Taken(map.slot, n)) /\ Cardinality(Taken(map.slot, n)) \in Nat
      /\ Cardinality(Taken(map.slot, n)) <= n
  BY TakenFinite
<1> QED BY <1>3, <1>4, <1>5 DEF Sound, In, Taken

\* What Find and Query come to.
LEMMA FindIs ==
  ASSUME NEW V, NEW map, Sound(map, V), NEW k \in Name
  PROVE  Found(map.slot, map.cap, k, Find(map, k))
BY SoundIs, FindsIt DEF Sound

\* A name that is found is found in a slot that holds it; one that is not
\* found is in none.
LEMMA QueryIs ==
  ASSUME NEW V, NEW map, Sound(map, V), NEW k \in Name
  PROVE  /\ Find(map, k) # 0 => /\ Find(map, k) \in In(map)
                                /\ map.slot[Find(map, k)].key = k
                                /\ Query(map, k) = map.slot[Find(map, k)].ptr
         /\ Find(map, k) = 0 => /\ \A i \in In(map) : map.slot[i].key # k
                                /\ Query(map, k) = NULL
<1>1. Found(map.slot, map.cap, k, Find(map, k)) BY FindIs
<1>2. map.cap \in Nat BY SoundIs
<1> QED BY <1>1, <1>2, FoundThere DEF In, Query

\* A new map (_pbcM_sp_new): the smallest power of two that has the room.
LEMMA NewSound ==
  ASSUME NEW V, NEW max \in Nat, max <= 2^30
  PROVE  /\ Sound(SpNew(max), V) /\ In(SpNew(max)) = {} /\ SpNew(max).size = 0
         /\ max <= SpNew(max).cap
<1> DEFINE Ok(i) == 2^i >= max
           c == CHOOSE i \in 0 .. max : Ok(i) /\ \A y \in 0 .. max : Ok(y) => i <= y
           cap == 2^c
           map == SpNew(max)
           T == {i \in 0 .. max : Ok(i)}
<1>1. map = [cap |-> cap, size |-> 0, slot |-> Slots(cap)] BY DEF SpNew, Least
<1>2. T \subseteq Nat /\ T # {}
  <2>1. max < 2^max /\ 2^max \in Nat BY PowerLarge, Subsets
  <2>2. max \in 0 .. max /\ Ok(max) BY <2>1
  <2> QED BY <2>2
<1>3. PICK x \in T : \A y \in T : x <= y
  <2> HIDE DEF T
  <2> QED BY <1>2, Smallest
<1>4. x \in 0 .. max /\ Ok(x) /\ \A y \in 0 .. max : Ok(y) => x <= y
  <2> HIDE DEF Ok
  <2> QED BY <1>3
<1>5. c \in 0 .. max /\ Ok(c) /\ \A y \in 0 .. max : Ok(y) => c <= y
  <2> HIDE DEF Ok
  <2> QED BY <1>4
<1> HIDE DEF c
<1>6. c \in 0 .. 30
  <2>1. CASE max <= 30 BY <1>5, <2>1
  <2>2. CASE ~ (max <= 30)
    <3>1. 30 \in 0 .. max /\ Ok(30) BY <2>2
    <3> HIDE DEF Ok
    <3> QED BY <1>5, <3>1
  <2> QED BY <2>1, <2>2
<1>7. cap \in Nat /\ max <= cap
  <2>1. c \in Nat BY <1>6
  <2>2. 2^c \in Nat BY <2>1, Subsets
  <2> QED BY <1>5, <2>2
<1>8. Kept(Slots(cap), cap, V) /\ Taken(Slots(cap), cap) = {} BY <1>7, EmptyKept
<1>9. Cardinality({}) = 0 BY FS_EmptySet
<1>10. map.cap = cap /\ map.size = 0 /\ map.slot = Slots(cap) BY <1>1
<1>11. \E k \in 0 .. 30 : map.cap = 2^k BY <1>6, <1>10
<1> HIDE DEF map, cap
<1>12. Sound(map, V) BY <1>1, <1>8, <1>9, <1>10, <1>11 DEF Sound
<1> QED BY <1>7, <1>8, <1>10, <1>12 DEF In, map

\* A key and a pointer more.  g says of every slot where its key came from.
From(map, new, key, ptr, g) ==
  /\ \A x \in In(new) :
       \/ g[x] = 0 /\ new.slot[x].key = key /\ new.slot[x].ptr = ptr
       \/ /\ g[x] \in In(map)
          /\ new.slot[x].key = map.slot[g[x]].key
          /\ new.slot[x].ptr = map.slot[g[x]].ptr
  /\ \A x, y \in In(new) : g[x] = g[y] => x = y
  /\ \A y \in In(map) \cup {0} : \E x \in In(new) : g[x] = y

Finds(map, new, key, ptr) ==
  /\ \A k \in Name : k # key => Query(new, k) = Query(map, k)
  /\ Query(new, key) \in {Query(map, key), ptr}
  /\ Find(map, key) = 0 => Query(new, key) = ptr
  /\ \A k \in Name : k # key /\ Find(map, k) # 0 => Find(new, k) # 0
  /\ Find(new, key) # 0

Adds(map, new, V, key, ptr) ==
  /\ Sound(new, V) /\ new.size = map.size + 1
  /\ \E g : From(map, new, key, ptr, g)
  /\ Finds(map, new, key, ptr)

\* A map with a free slot takes one more key: the other names are found as
\* before, and this one is found.
LEMMA AddingAt ==
  ASSUME NEW V, NEW map, Sound(map, V), NEW key \in Name, NEW ptr \in V \cup {NULL},
         NEW new, new = [cap |-> map.cap, size |-> map.size + 1, slot |-> new.slot],
         NEW h \in 1 .. map.cap, Reaches(map.slot, map.cap, Home(map.cap)[key], h),
         NEW i, Puts(map.slot, new.slot, map.cap, h, i, key, ptr)
  PROVE  Adds(map, new, V, key, ptr)
<1> DEFINE n == map.cap
           a == map.slot
           b == new.slot
<1>1. n \in Nat /\ n # 0 /\ map.size \in Nat BY SoundIs
<1>2. /\ new.cap = n /\ new.size = map.size + 1
      /\ new = [cap |-> new.cap, size |-> new.size, slot |-> new.slot]
  OBVIOUS
<1>3. Kept(a, n, V) /\ map.size = Cardinality(Taken(a, n)) /\ \E k \in 0 .. 30 : n = 2^k
  BY DEF Sound
<1>5. h \in 1 .. n /\ Reaches(a, n, Home(n)[key], h) /\ Puts(a, b, n, h, i, key, ptr) OBVIOUS
<1> HIDE DEF a, b, n
<1>20. OneMore(a, b, n, V, i, key, ptr) BY <1>1, <1>3, <1>5, PutKept
<1>6. /\ Kept(b, n, V)
      /\ i \in 1 .. n /\ i \notin Taken(a, n) /\ Taken(b, n) = Taken(a, n) \cup {i}
      /\ Cardinality(Taken(b, n)) = Cardinality(Taken(a, n)) + 1
      /\ b[i].key = key /\ b[i].ptr = ptr
      /\ \A x \in Taken(a, n) : b[x].key = a[x].key /\ b[x].ptr = a[x].ptr
  BY <1>20 DEF OneMore
<1>7. Sound(new, V) BY <1>2, <1>3, <1>6 DEF Sound, b
<1>8. In(map) = Taken(a, n) /\ In(new) = Taken(b, n) BY <1>2 DEF In, a, b, n
<1>9. \E g : From(map, new, key, ptr, g)
  <2> DEFINE g == [x \in 1 .. n |-> IF x = i THEN 0 ELSE x]
  <2>1. \A x \in Taken(b, n) : x \in 1 .. n /\ x # 0 BY <1>1 DEF Taken
  <2>2. \A x \in Taken(b, n) : g[x] = IF x = i THEN 0 ELSE x BY <2>1
  <2> HIDE DEF g
  <2>4. i \in Taken(b, n) /\ \A y \in Taken(a, n) : y \in Taken(b, n) /\ y # i BY <1>6
  <2>3. From(map, new, key, ptr, g) BY <1>6, <1>8, <2>1, <2>2, <2>4 DEF From, a, b
  <2> QED BY <2>3
<1>10. \A k \in Name : \/ Find(new, k) = Find(map, k)
                       \/ k = key /\ Find(new, k) = i
  <2> SUFFICES ASSUME NEW k \in Name
               PROVE  Find(new, k) = Find(map, k) \/ (k = key /\ Find(new, k) = i)
    OBVIOUS
  <2>1. Found(a, n, k, Find(map, k)) BY FindIs DEF a, n
  <2>2. Found(b, n, k, Find(new, k)) BY <1>2, <1>7, FindIs DEF b
  <2> QED BY <1>1, <1>3, <1>5, <1>20, <2>1, <2>2, PutFound
<1>11. \A k \in Name :
         /\ Find(map, k) # 0 => Find(map, k) \in Taken(a, n)
                                /\ Query(map, k) = a[Find(map, k)].ptr
         /\ Find(map, k) = 0 => Query(map, k) = NULL
  BY <1>8, QueryIs DEF a
<1>12. \A k \in Name :
         /\ Find(new, k) # 0 => Query(new, k) = b[Find(new, k)].ptr
         /\ Find(new, k) = 0 => Query(new, k) = NULL
  BY <1>7, QueryIs DEF b
<1>13. i # 0 BY <1>1, <1>6
<1>14. ASSUME NEW k \in Name, Find(new, k) = Find(map, k)
       PROVE  Query(new, k) = Query(map, k)
  BY <1>6, <1>11, <1>12, <1>14
<1>15. Find(new, key) # 0
  <2>1. i \in In(new) /\ new.slot[i].key = key BY <1>6, <1>8 DEF b
  <2> QED BY <1>7, <2>1, QueryIs
<1>16. Find(new, key) = i => Query(new, key) = ptr BY <1>6, <1>12, <1>13
<1>17. Finds(map, new, key, ptr) BY <1>10, <1>14, <1>15, <1>16 DEF Finds
<1> QED BY <1>2, <1>7, <1>9, <1>17 DEF Adds

\* A map that is not full has a free slot.
LEMMA RoomThere ==
  ASSUME NEW V, NEW map, Sound(map, V), map.size < map.cap
  PROVE  /\ map.cap \in Nat /\ map.cap # 0 /\ Kept(map.slot, map.cap, V)
         /\ \E j \in 1 .. map.cap : map.slot[j].key = NULL
<1> DEFINE n == map.cap
           a == map.slot
<1>1. n \in Nat /\ n # 0 BY SoundIs
<1>2. Kept(a, n, V) /\ Cardinality(Taken(a, n)) < n BY DEF Sound
<1> HIDE DEF n, a
<1>3. \E j \in 1 .. n : a[j].key = NULL BY <1>1, <1>2, OneFree
<1> QED BY <1>1, <1>2, <1>3 DEF n, a

\* So does an insertion, behind the home slot,
LEMMA Adding ==
  ASSUME NEW V, NEW map, Sound(map, V), NEW key \in Name, NEW ptr \in V \cup {NULL},
         map.size < map.cap,
         NEW new, new = [cap |-> map.cap, size |-> map.size + 1,
                         slot |-> Place(map.slot, key, ptr)]
  PROVE  Adds(map, new, V, key, ptr)
<1> DEFINE n == map.cap
           a == map.slot
           h == Home(n)[key]
<1>1. /\ n \in Nat /\ n # 0 /\ Kept(a, n, V)
      /\ \E j \in 1 .. n : a[j].key = NULL
  BY RoomThere
<1>2. new.slot = Place(a, key, ptr)
      /\ new = [cap |-> n, size |-> map.size + 1, slot |-> new.slot]
  OBVIOUS
<1> HIDE DEF n, a
<1>3. h \in 1 .. n BY <1>1, HomeIs
<1>4. PICK i : Puts(a, Place(a, key, ptr), n, h, i, key, ptr) BY <1>1, Placed
<1>5. Reaches(a, n, h, h) BY <1>3, ReachesSelf
<1> HIDE DEF h
<1> QED BY <1>2, <1>3, <1>4, <1>5, AddingAt DEF n, a, h

\* and an entry, at the end of the chain.
LEMMA Entering ==
  ASSUME NEW V, NEW map, Sound(map, V), NEW key \in Name, map.size < map.cap,
         NEW new, new = [cap |-> map.cap, size |-> map.size + 1,
                         slot |-> PlaceLast(map.slot, key)]
  PROVE  Adds(map, new, V, key, NULL)
<1> DEFINE n == map.cap
           a == map.slot
<1>1. /\ n \in Nat /\ n # 0 /\ Kept(a, n, V)
      /\ \E j \in 1 .. n : a[j].key = NULL
  BY RoomThere
<1>2. new.slot = PlaceLast(a, key)
      /\ new = [cap |-> n, size |-> map.size + 1, slot |-> new.slot]
  OBVIOUS
<1> HIDE DEF n, a
<1>3. PICK h \in 1 .. n : /\ Reaches(a, n, Home(n)[key], h)
                          /\ \E i : Puts(a, PlaceLast(a, key), n, h, i, key, NULL)
  BY <1>1, PlacedLast
<1>4. PICK i : Puts(a, new.slot, n, h, i, key, NULL) BY <1>2, <1>3
<1> QED BY <1>2, <1>3, <1>4, AddingAt DEF n, a

-----------------------------------------------------------------------------
\* A table t of m slots when the first k slots of an old one have been placed
\* in it: g says which old slot a slot is.
Copies(old, t, k, m, g) ==
  /\ \A x \in Taken(t, m) : g[x] \in 1 .. k /\ t[x].key = old[g[x]].key
                                            /\ t[x].ptr = old[g[x]].ptr
  /\ \A x, y \in Taken(t, m) : g[x] = g[y] => x = y
  /\ \A y \in 1 .. k : \E x \in Taken(t, m) : g[x] = y

Stage(old, t, k, m, V) ==
  /\ Kept(t, m, V) /\ Cardinality(Taken(t, m)) = k
  /\ \E g : Copies(old, t, k, m, g)

\* One more slot of the old table is placed.
LEMMA StageOn ==
  ASSUME NEW V, NEW m \in Nat, NEW k \in Nat, k < m, NEW old, NEW t,
         Stage(old, t, k, m, V), old[k + 1].key \in Name, old[k + 1].ptr \in V \cup {NULL}
  PROVE  Stage(old, Place(t, old[k + 1].key, old[k + 1].ptr), k + 1, m, V)
<1> DEFINE key == old[k + 1].key
           ptr == old[k + 1].ptr
           b == Place(t, key, ptr)
<1>1. Kept(t, m, V) /\ Cardinality(Taken(t, m)) = k BY DEF Stage
<1>2. PICK g : Copies(old, t, k, m, g) BY DEF Stage
<1>0. key \in Name /\ ptr \in V \cup {NULL} OBVIOUS
<1> HIDE DEF key, ptr
<1>3. PICK j \in 1 .. m : t[j].key = NULL BY <1>1, OneFree
<1>4. PICK i : Puts(t, b, m, Home(m)[key], i, key, ptr) BY <1>0, <1>1, <1>3, Placed
<1> HIDE DEF b
<1>13. Home(m)[key] \in 1 .. m BY <1>0, HomeIs
<1>14. Reaches(t, m, Home(m)[key], Home(m)[key]) BY <1>13, ReachesSelf
<1>5. OneMore(t, b, m, V, i, key, ptr) BY <1>0, <1>1, <1>4, <1>13, <1>14, PutKept
<1>6. /\ Kept(b, m, V)
      /\ i \in 1 .. m /\ i \notin Taken(t, m) /\ Taken(b, m) = Taken(t, m) \cup {i}
      /\ Cardinality(Taken(b, m)) = k + 1
      /\ b[i].key = key /\ b[i].ptr = ptr
      /\ \A x \in Taken(t, m) : b[x].key = t[x].key /\ b[x].ptr = t[x].ptr
  BY <1>1, <1>5 DEF OneMore
<1> DEFINE h == [x \in 1 .. m |-> IF x = i THEN k + 1 ELSE g[x]]
<1>7. h[i] = k + 1 /\ \A x \in Taken(t, m) : h[x] = g[x] BY <1>6 DEF Taken
<1> HIDE DEF h
<1>8. \A x \in Taken(t, m) : /\ g[x] \in 1 .. k /\ g[x] # k + 1 /\ g[x] \in 1 .. k + 1
                             /\ t[x].key = old[g[x]].key /\ t[x].ptr = old[g[x]].ptr
  BY <1>2 DEF Copies
<1>9. \A y \in 1 .. k + 1 : y \in 1 .. k \/ y = k + 1 OBVIOUS
<1>10. k + 1 \in 1 .. k + 1 OBVIOUS
<1>11. Copies(old, b, k + 1, m, h)
  <2>1. \A x \in Taken(b, m) : /\ h[x] \in 1 .. k + 1 /\ b[x].key = old[h[x]].key
                               /\ b[x].ptr = old[h[x]].ptr
    BY <1>6, <1>7, <1>8, <1>10 DEF key, ptr
  <2>2. \A x, y \in Taken(b, m) : h[x] = h[y] => x = y
    BY <1>2, <1>6, <1>7, <1>8 DEF Copies
  <2>3. \A y \in 1 .. k + 1 : \E x \in Taken(b, m) : h[x] = y
    BY <1>2, <1>6, <1>7, <1>9 DEF Copies
  <2> QED BY <2>1, <2>2, <2>3 DEF Copies
<1>12. Stage(old, b, k + 1, m, V) BY <1>6, <1>11 DEF Stage
<1> QED BY <1>12 DEF b, key, ptr

\* A map that is full has the same names and pointers after a rehash, and
\* finds the same if it has no name twice.
Comes(map, new, g) ==
  /\ \A x \in In(new) : /\ g[x] \in In(map)
                        /\ new.slot[x].key = map.slot[g[x]].key
                        /\ new.slot[x].ptr = map.slot[g[x]].ptr
  /\ \A x, y \in In(new) : g[x] = g[y] => x = y
  /\ \A y \in In(map) : \E x \in In(new) : g[x] = y

Same(map, new) == \A k \in Name : /\ Query(new, k) = Query(map, k)
                                  /\ Find(new, k) = 0 <=> Find(map, k) = 0

OneEach(map) == Unique(map.slot, map.cap)

\* A rehash comes to a map with the same names and pointers, twice as large.
LEMMA Rehashing ==
  ASSUME NEW V, NEW map, Sound(map, V), map.size = map.cap, map.cap < 2^30
  PROVE  LET new == Rehash(map)
         IN  /\ Sound(new, V) /\ new.size = map.size /\ new.cap = 2 * map.cap
             /\ \E g : Comes(map, new, g)
<1> DEFINE n == map.cap
           m == 2 * n
           a == map.slot
           new == Rehash(map)
           b == new.slot
           R == [key : Name \cup {NULL}, ptr : V \cup {NULL}, next : 0 .. n]
<1>1. n \in Nat /\ n # 0 /\ m \in Nat /\ n < m BY SoundIs
<1>2. new = [cap |-> m, size |-> n,
             slot |-> PlaceAll(Slots(m), a)]
  BY DEF Rehash
<1>3. Kept(a, n, V) /\ Cardinality(Taken(a, n)) = n BY DEF Sound
<1>4. Taken(a, n) = 1 .. n BY <1>1, <1>3, AllTaken
<1>5. a \in [1 .. n -> R] BY <1>3 DEF Kept, Whole, Slotted
<1>6. \A i \in 1 .. n : a[i].key \in Name /\ a[i].ptr \in V \cup {NULL}
  BY <1>4, <1>5 DEF Taken
<1> HIDE DEF new, a, R
<1>7. PICK t : /\ t[0] = Slots(m)
               /\ \A k \in 0 .. n : k < n =>
                    t[k + 1] = Place(t[k], a[k + 1].key, a[k + 1].ptr)
               /\ t[n] = PlaceAll(Slots(m), a)
  <2> HIDE DEF n, m
  <2>1. PICK t : Placings(t, n, Slots(m), a) BY <1>1, <1>5, RehashSteps
  <2> QED BY <2>1 DEF Placings
<1>8. new.cap = m /\ new.size = n /\ new.slot = t[n]
      /\ new = [cap |-> new.cap, size |-> new.size, slot |-> new.slot]
  <2>1. new = [cap |-> m, size |-> n, slot |-> t[n]] BY <1>2, <1>7
  <2> QED BY <2>1
<1> DEFINE T == {k \in 0 .. n : Stage(a, t[k], k, m, V)}
<1> HIDE DEF n, m
<1>9. 0 \in T
  <2>1. Kept(t[0], m, V) /\ Taken(t[0], m) = {} BY <1>1, <1>7, EmptyKept
  <2>2. Cardinality(Taken(t[0], m)) = 0 BY <2>1, FS_EmptySet
  <2>3. 1 .. 0 = {} OBVIOUS
  <2>4. Copies(a, t[0], 0, m, <<>>) BY <2>1, <2>3 DEF Copies
  <2>5. Stage(a, t[0], 0, m, V) BY <2>1, <2>2, <2>4 DEF Stage
  <2> QED BY <1>1, <2>5
<1>10. ASSUME NEW k \in 0 .. n, k < n, k \in T PROVE k + 1 \in T
  <2>1. k + 1 \in 1 .. n /\ k + 1 \in 0 .. n /\ k \in Nat /\ k < m BY <1>1, <1>10
  <2>2. Stage(a, t[k], k, m, V) BY <1>10
  <2>3. Stage(a, Place(t[k], a[k + 1].key, a[k + 1].ptr), k + 1, m, V)
    BY <1>1, <1>6, <2>1, <2>2, StageOn
  <2>4. t[k + 1] = Place(t[k], a[k + 1].key, a[k + 1].ptr) BY <1>7, <1>10
  <2> QED BY <2>1, <2>3, <2>4
<1>11. Stage(a, b, n, m, V)
  <2>1. \A i \in 0 .. n : i \in T
    <3> HIDE DEF T
    <3> QED BY <1>1, <1>9, <1>10, Upwards
  <2>2. n \in T BY <1>1, <2>1
  <2> QED BY <1>8, <2>2
<1>12. \E k \in 0 .. 30 : new.cap = 2^k
  <2>1. PICK k \in 0 .. 30 : n = 2^k BY DEF Sound, n
  <2>5. n \in Nat /\ n < 2^30 BY <1>1 DEF n
  <2>6. 2^30 = 1073741824 OBVIOUS
  <2>2. k # 30
    <3> SUFFICES ASSUME k = 30 PROVE FALSE OBVIOUS
    <3>1. n = 2^30 BY <2>1
    <3>2. PICK p \in Nat : p = 2^30 BY <2>6
    <3>3. n = p /\ n < p BY <2>5, <3>1, <3>2
    <3> QED BY <3>3
  <2>3. k \in Nat /\ k + 1 \in 0 .. 30 BY <2>2
  <2>4. 2^(k + 1) = 2 * 2^k BY <2>3, Doubles
  <2> QED BY <1>8, <2>1, <2>3, <2>4 DEF m
<1>13. Sound(new, V) BY <1>8, <1>11, <1>12 DEF Sound, Stage
<1>14. In(map) = 1 .. n /\ In(new) = Taken(b, m) BY <1>4, <1>8 DEF In, a, n
<1>15. PICK g : Comes(map, new, g)
  <2>1. PICK g : Copies(a, b, n, m, g) BY <1>11 DEF Stage
  <2>2. Comes(map, new, g) BY <1>14, <2>1 DEF Copies, Comes, a
  <2> QED BY <2>2
<1>17. new.size = map.size /\ new.cap = 2 * map.cap BY <1>8 DEF m, n
<1> QED BY <1>13, <1>15, <1>17 DEF new

LEMMA Rehashed ==
  ASSUME NEW V, NEW map, Sound(map, V), OneEach(map), map.size = map.cap, map.cap < 2^30
  PROVE  LET new == Rehash(map)
         IN  /\ Sound(new, V) /\ new.size = map.size /\ new.cap = 2 * map.cap
             /\ \E g : Comes(map, new, g)
             /\ Same(map, new)
<1> DEFINE new == Rehash(map)
<1>13. /\ Sound(new, V) /\ new.size = map.size /\ new.cap = 2 * map.cap
       /\ \E g : Comes(map, new, g)
  BY Rehashing
<1> HIDE DEF new
<1>15. PICK g : Comes(map, new, g) BY <1>13
<1>16. Same(map, new)
  <2> SUFFICES ASSUME NEW k \in Name
               PROVE  /\ Query(new, k) = Query(map, k)
                      /\ Find(new, k) = 0 <=> Find(map, k) = 0
    BY DEF Same
  <2>1. \A x, y \in In(map) : map.slot[x].key = map.slot[y].key => x = y
    BY DEF In, OneEach, Unique
  <2>2. /\ Find(map, k) # 0 => /\ Find(map, k) \in In(map)
                               /\ map.slot[Find(map, k)].key = k
                               /\ Query(map, k) = map.slot[Find(map, k)].ptr
        /\ Find(map, k) = 0 => /\ \A i \in In(map) : map.slot[i].key # k
                               /\ Query(map, k) = NULL
    BY QueryIs
  <2>3. /\ Find(new, k) # 0 => /\ Find(new, k) \in In(new)
                               /\ new.slot[Find(new, k)].key = k
                               /\ Query(new, k) = new.slot[Find(new, k)].ptr
        /\ Find(new, k) = 0 => /\ \A i \in In(new) : new.slot[i].key # k
                               /\ Query(new, k) = NULL
    BY <1>13, QueryIs
  <2>4. CASE Find(new, k) = 0
    <3>1. ASSUME Find(map, k) # 0 PROVE FALSE
      <4>1. PICK x \in In(new) : g[x] = Find(map, k) BY <1>15, <2>2, <3>1 DEF Comes
      <4>2. new.slot[x].key = k BY <1>15, <2>2, <3>1, <4>1 DEF Comes
      <4> QED BY <2>3, <2>4, <4>2
    <3> QED BY <2>2, <2>3, <2>4, <3>1
  <2>5. CASE Find(new, k) # 0
    <3> DEFINE x == Find(new, k)
    <3>1. /\ x \in In(new) /\ g[x] \in In(map) /\ map.slot[g[x]].key = k
          /\ Query(new, k) = map.slot[g[x]].ptr
      BY <1>15, <2>3, <2>5 DEF Comes
    <3>2. Find(map, k) # 0 BY <2>2, <3>1
    <3>3. Find(map, k) = g[x] BY <2>1, <2>2, <3>1, <3>2
    <3> QED BY <2>2, <2>5, <3>1, <3>2, <3>3
  <2> QED BY <2>4, <2>5
<1> QED BY <1>13, <1>16 DEF new

-----------------------------------------------------------------------------
\* Going through a map.  The slots with a pointer, in their order, are those
\* that foreach and next come by.
Filled(map) == {i \in 1 .. map.cap : map.slot[i].ptr # NULL}

\* A pointer is under a name.
LEMMA FilledIn ==
  ASSUME NEW V, NEW map, Sound(map, V)
  PROVE  /\ Filled(map) \subseteq In(map) /\ IsFiniteSet(Filled(map))
         /\ \A p \in Filled(map) : map.slot[p].key \in Name /\ p \in 1 .. map.cap
<1>1. Clean(map.slot, map.cap) /\ Slotted(map.slot, map.cap, Name, V)
  BY DEF Sound, Kept, Whole
<1>2. Filled(map) \subseteq In(map) BY <1>1 DEF Filled, In, Taken, Clean
<1>3. IsFiniteSet(Filled(map)) BY <1>2, SoundIs, FS_Subset
<1>4. \A p \in Filled(map) : map.slot[p].key \in Name /\ p \in 1 .. map.cap
  BY <1>1, <1>2 DEF Slotted, Filled, In, Taken
<1> QED BY <1>2, <1>3, <1>4

\* From behind a slot the next one with a pointer is found, if there is one.
LEMMA FirstBehind ==
  ASSUME NEW map, map.cap \in Nat, NEW p \in 0 .. map.cap
  PROVE  /\ (\A q \in Filled(map) : q <= p) => FirstFrom(map, p + 1) = NULL
         /\ (\E q \in Filled(map) : q > p) =>
              \E q \in Filled(map) : /\ q > p /\ FirstFrom(map, p + 1) = map.slot[q].key
                                     /\ \A x \in Filled(map) : x > p => q <= x
<1> DEFINE S == p + 1 .. map.cap
           Ok(j) == map.slot[j].ptr # NULL
           T == {q \in S : Ok(q)}
           c == CHOOSE j \in S : Ok(j) /\ \A y \in S : Ok(y) => j <= y
<1>1. T = {q \in Filled(map) : q > p} BY DEF Filled
<1>2. FirstFrom(map, p + 1) = IF \E j \in S : Ok(j) THEN map.slot[c].key ELSE NULL
  BY DEF FirstFrom, Least
<1>3. ASSUME T # {}
      PROVE  \E q \in T : FirstFrom(map, p + 1) = map.slot[q].key /\ \A x \in T : q <= x
  <2>1. T \subseteq Nat OBVIOUS
  <2>2. PICK x \in T : \A y \in T : x <= y
    <3> HIDE DEF T
    <3> QED BY <1>3, <2>1, Smallest
  <2>3. x \in S /\ Ok(x) /\ \A y \in S : Ok(y) => x <= y
    <3> HIDE DEF S, Ok
    <3> QED BY <2>2
  <2>4. c \in S /\ Ok(c) /\ \A y \in S : Ok(y) => c <= y
    <3> HIDE DEF S, Ok
    <3> QED BY <2>3
  <2> HIDE DEF c, S, Ok
  <2> QED BY <1>2, <2>4
<1>4. ASSUME T = {} PROVE FirstFrom(map, p + 1) = NULL
  <2> HIDE DEF S, Ok, c
  <2> QED BY <1>2, <1>4
<1> HIDE DEF T
<1>5. ASSUME \A q \in Filled(map) : q <= p PROVE FirstFrom(map, p + 1) = NULL
  <2>1. \A q \in Filled(map) : ~ (q > p) BY <1>5 DEF Filled
  <2> QED BY <1>1, <1>4, <2>1
<1> QED BY <1>1, <1>3, <1>5

\* Where next comes to from a key in the n-th filled slot, or from none.
LEMMA NextIs ==
  ASSUME NEW V, NEW map, Sound(map, V), OneEach(map), NEW p \in Filled(map)
  PROVE  NextKey(map, map.slot[p].key) = FirstFrom(map, p + 1)
<1> DEFINE k == map.slot[p].key
<1>1. p \in In(map) /\ k \in Name BY FilledIn
<1>2. k # NULL BY <1>1, HashAssumption
<1>3. Find(map, k) # 0 /\ Find(map, k) \in In(map) /\ map.slot[Find(map, k)].key = k
  BY <1>1, QueryIs
<1>4. Find(map, k) = p BY <1>1, <1>3 DEF OneEach, Unique, In
<1> HIDE DEF k
<1>5. NextKey(map, k) = FirstFrom(map, p + 1) BY <1>2, <1>3, <1>4 DEF NextKey
<1> QED BY <1>5 DEF k

\* The filled slots up to one.
Upto(map, p) == {x \in Filled(map) : x <= p}

\* Up to the next filled slot there is one more,
LEMMA UptoNext ==
  ASSUME NEW V, NEW map, Sound(map, V), NEW p \in 0 .. map.cap,
         NEW q \in Filled(map), q > p, \A x \in Filled(map) : x > p => q <= x
  PROVE  Cardinality(Upto(map, q)) = Cardinality(Upto(map, p)) + 1
<1>1. \A x \in Filled(map) : x \in Nat BY DEF Filled
<1>2. p \in Nat /\ q \in Nat BY <1>1
<1>3. Upto(map, q) = Upto(map, p) \cup {q} /\ q \notin Upto(map, p)
  <2>1. ASSUME NEW x \in Filled(map) PROVE x <= q <=> x <= p \/ x = q BY <1>1, <1>2
  <2>2. ~ (q <= p) BY <1>2
  <2> QED BY <2>1, <2>2 DEF Upto
<1>4. IsFiniteSet(Upto(map, p)) BY FilledIn, FS_Subset DEF Upto
<1> QED BY <1>3, <1>4, FS_AddElement

\* so that their number tells two of them apart.
LEMMA UptoMore ==
  ASSUME NEW V, NEW map, Sound(map, V), NEW p \in Filled(map), NEW q \in Filled(map),
         Cardinality(Upto(map, p)) = Cardinality(Upto(map, q))
  PROVE  p = q
<1>1. \A x \in Filled(map) : x \in Nat BY DEF Filled
<1>2. ASSUME NEW a \in Filled(map), NEW b \in Filled(map), a < b,
             Cardinality(Upto(map, a)) = Cardinality(Upto(map, b))
      PROVE  FALSE
  <2>1. Upto(map, a) \subseteq Upto(map, b) /\ b \in Upto(map, b) /\ b \notin Upto(map, a)
    BY <1>1, <1>2 DEF Upto
  <2>2. IsFiniteSet(Upto(map, b)) BY FilledIn, FS_Subset DEF Upto
  <2>3. Upto(map, a) = Upto(map, b) BY <1>2, <2>1, <2>2, FS_Subset
  <2> QED BY <2>1, <2>3
<1>3. p < q \/ q < p \/ p = q BY <1>1
<1> QED BY <1>2, <1>3

\* What next visits, from none: each filled slot's key in turn, and none.
Visits(map, f, c) ==
  /\ {f[n] : n \in 1 .. c} = {map.slot[p].key : p \in Filled(map)}
  /\ f[c + 1] = NULL

\* A walk by next from none visits the key of every filled slot and ends.
LEMMA AllVisited ==
  ASSUME NEW V, NEW map, Sound(map, V), OneEach(map), NEW c, c = Cardinality(Filled(map)),
         NEW f, f[0] = NULL, \A n \in 1 .. c + 1 : f[n] = NextKey(map, f[n - 1])
  PROVE  c \in Nat /\ Visits(map, f, c)
<1> DEFINE L == Filled(map)
           At(n, p) == /\ p \in 0 .. map.cap /\ Cardinality(Upto(map, p)) = n
                       /\ IF n = 0 THEN p = 0 ELSE p \in L /\ f[n] = map.slot[p].key
           T == {n \in 0 .. c : \E p : At(n, p)}
<1>1. map.cap \in Nat BY SoundIs
<1>2. IsFiniteSet(L) /\ c \in Nat BY FilledIn, FS_CardinalityType
<1>3. \A x \in L : x \in Nat /\ x # 0 /\ x \in 0 .. map.cap BY <1>1 DEF Filled
<1>4. \A p \in 0 .. map.cap : \A n \in 0 .. c : At(n, p) => f[n + 1] = FirstFrom(map, p + 1)
  <2> SUFFICES ASSUME NEW p \in 0 .. map.cap, NEW n \in 0 .. c, At(n, p)
               PROVE  f[n + 1] = FirstFrom(map, p + 1)
    OBVIOUS
  <2>1. f[n + 1] = NextKey(map, f[n])
    <3>1. n + 1 \in 1 .. c + 1 /\ (n + 1) - 1 = n BY <1>2
    <3> QED BY <3>1
  <2>2. CASE n = 0
    <3>1. f[n + 1] = NextKey(map, NULL) /\ p = 0 /\ p + 1 = 1 BY <2>1, <2>2
    <3> QED BY <3>1 DEF NextKey
  <2>3. CASE n # 0
    <3>1. p \in L /\ f[n] = map.slot[p].key BY <2>3
    <3> HIDE DEF L
    <3> QED BY <2>1, <3>1, NextIs DEF L
  <2> QED BY <2>2, <2>3
<1>5. 0 \in T
  <2>1. Upto(map, 0) = {} BY <1>3 DEF Upto
  <2>2. Cardinality(Upto(map, 0)) = 0 BY <2>1, FS_EmptySet
  <2>3. At(0, 0) BY <1>1, <2>2
  <2> HIDE DEF At
  <2> QED BY <1>2, <2>3
<1>6. ASSUME NEW n \in 0 .. c, n < c, n \in T PROVE n + 1 \in T
  <2>1. PICK p : At(n, p)
    <3> HIDE DEF At
    <3> QED BY <1>6
  <2>2. p \in 0 .. map.cap /\ Cardinality(Upto(map, p)) = n BY <2>1
  <2>3. f[n + 1] = FirstFrom(map, p + 1)
    <3> HIDE DEF At
    <3> QED BY <1>4, <2>1, <2>2
  <2>4. \E q \in L : q > p
    <3> SUFFICES ASSUME \A q \in L : ~ (q > p) PROVE FALSE OBVIOUS
    <3>1. \A q \in L : q <= p BY <1>3, <2>2
    <3>2. Upto(map, p) = L BY <3>1 DEF Upto
    <3>3. n = c BY <2>2, <3>2
    <3> QED BY <1>2, <1>6, <3>3
  <2>5. PICK q \in L : /\ q > p /\ FirstFrom(map, p + 1) = map.slot[q].key
                       /\ \A x \in L : x > p => q <= x
    BY <1>1, <2>2, <2>4, FirstBehind
  <2>6. Cardinality(Upto(map, q)) = n + 1 BY <2>2, <2>5, UptoNext
  <2>7. n + 1 # 0 /\ n + 1 \in 0 .. c BY <1>2, <1>6
  <2>8. At(n + 1, q) BY <1>3, <2>3, <2>5, <2>6, <2>7
  <2> HIDE DEF At
  <2> QED BY <2>7, <2>8
<1>7. \A n \in 0 .. c : \E p : At(n, p)
  <2>1. \A n \in 0 .. c : n \in T
    <3> HIDE DEF T
    <3> QED BY <1>2, <1>5, <1>6, Upwards
  <2> HIDE DEF At
  <2> QED BY <2>1
<1>8. \A n \in 1 .. c : n \in 0 .. c /\ n # 0 BY <1>2
<1>9. \A n \in 1 .. c : \E p \in L : f[n] = map.slot[p].key /\ Cardinality(Upto(map, p)) = n
  <2> SUFFICES ASSUME NEW n \in 1 .. c
               PROVE  \E p \in L : f[n] = map.slot[p].key /\ Cardinality(Upto(map, p)) = n
    OBVIOUS
  <2>1. PICK p : At(n, p)
    <3> HIDE DEF At
    <3> QED BY <1>7, <1>8
  <2> QED BY <1>8, <2>1
<1>10. \A q \in L : \E n \in 1 .. c : f[n] = map.slot[q].key
  <2> SUFFICES ASSUME NEW q \in L PROVE \E n \in 1 .. c : f[n] = map.slot[q].key
    OBVIOUS
  <2>1. Upto(map, q) \in SUBSET L /\ q \in Upto(map, q) BY <1>3 DEF Upto
  <2>2. IsFiniteSet(Upto(map, q)) /\ Cardinality(Upto(map, q)) <= c
    BY <1>2, <2>1, FS_Subset
  <2>3. Cardinality(Upto(map, q)) \in Nat BY <2>2, FS_CardinalityType
  <2>4. Cardinality(Upto(map, q)) # 0 BY <2>1, <2>2, FS_EmptySet
  <2>5. PICK n \in 1 .. c : n = Cardinality(Upto(map, q)) BY <1>2, <2>2, <2>3, <2>4
  <2>6. PICK p \in L : f[n] = map.slot[p].key /\ Cardinality(Upto(map, p)) = n BY <1>9
  <2>7. p = q BY <2>5, <2>6, UptoMore
  <2> QED BY <2>6, <2>7
<1>11. {f[n] : n \in 1 .. c} = {map.slot[p].key : p \in L}
  <2> HIDE DEF L
  <2> QED BY <1>9, <1>10
<1>12. f[c + 1] = NULL
  <2>1. PICK p : At(c, p)
    <3>1. c \in 0 .. c BY <1>2
    <3> HIDE DEF At
    <3> QED BY <1>7, <3>1
  <2>2. p \in 0 .. map.cap /\ Cardinality(Upto(map, p)) = c BY <2>1
  <2>3. f[c + 1] = FirstFrom(map, p + 1)
    <3>1. c \in 0 .. c BY <1>2
    <3> HIDE DEF At
    <3> QED BY <1>4, <2>1, <2>2, <3>1
  <2>4. Upto(map, p) = L
    <3>1. Upto(map, p) \in SUBSET L BY DEF Upto
    <3> QED BY <1>2, <2>2, <3>1, FS_Subset
  <2>5. \A q \in L : q <= p BY <2>4 DEF Upto
  <2> QED BY <1>1, <2>2, <2>3, <2>5, FirstBehind
<1> QED BY <1>2, <1>11, <1>12 DEF Visits
=============================================================================
