---------------------------- MODULE LoggerProofs ----------------------------
(***************************************************************************)
(* Proofs about Logger.                                                    *)
(*                                                                         *)
(* The order of its files: the invariant that makes it inductive relates   *)
(* the open file to the day of the last roll and to the clock.  The file   *)
(* is never of a later day than roll_mday, which is never a later day than *)
(* today, so the two places that roll cannot go back: worker_func 243      *)
(* rolls only when today is later than roll_mday, and worker_func 318 only *)
(* when the bytes written call for number 1.                               *)
(*                                                                         *)
(* The buffers: there are two sequences F and W of buffers, the paths that *)
(* the next pointers make from the head of the front end's list and of     *)
(* the worker's, that share nothing with each other nor with the spares    *)
(* (Sound).  Each operation takes two such paths to two such paths: so no  *)
(* buffer is in two places, and what Chain and Contents collect along the  *)
(* pointers is what the paths say.                                         *)
(*                                                                         *)
(* The lines: each step accepts a line, moves lines between the lists,     *)
(* cuts or writes (Moves), hence is a step of LineLog, in which the order  *)
(* of the lines is inductive (Ordered).                                    *)
(***************************************************************************)
EXTENDS Logger, FiniteSetTheorems, WellFoundedInduction, TLAPS

----------------------------------------------------------------------------
(* The files *)

FileTypeOK ==
  /\ handle \in File \cup {None, Stdout}
  /\ roll_mday \in Day
  /\ today \in Day

DaysOrdered ==
  /\ roll_mday <= today
  /\ handle \in File => handle[1] <= roll_mday
  /\ pc = "start" => handle = None

IInv == FileTypeOK /\ DaysOrdered

\* A roll keeps the file typed and of a day not later than roll_mday, and
\* goes forward if it is the first one, or today is a later day than
\* roll_mday, or the bytes written have reached the roll size.
LEMMA Roll ==
  ASSUME IInv, NEW bytes, rollfile(bytes),
         handle = None \/ roll_mday # today \/ Reached(bytes)
  PROVE  /\ FileTypeOK'
         /\ roll_mday' <= today'
         /\ handle' \in File => handle'[1] <= roll_mday'
         /\ Follows(handle', handle)
<1> USE DEF IInv, FileTypeOK, DaysOrdered
<1>0. Day \subseteq Nat
  BY DEF Day
<1>1. CASE OpenFile(bytes)
  <2> DEFINE number == IF Reached(bytes) THEN 1 ELSE 0
  <2>1. PICK now \in {today, today + 1} \cap Day :
          /\ handle # Stdout
          /\ handle' = <<today, number>>
          /\ roll_mday' = RollDay(now)
          /\ today' = now
    BY <1>1 DEF OpenFile
  <2>2. /\ roll_mday' = now /\ now \in Day
        /\ today <= now
    BY <1>0, <2>1 DEF RollDay
  <2>3. number \in {0, 1}
    OBVIOUS
  <2>4. handle' \in File /\ handle'[1] = today /\ handle'[2] = number
    BY <2>1, <2>3 DEF File
  <2>5. FileTypeOK' /\ roll_mday' <= today' /\ handle'[1] <= roll_mday'
    BY <1>0, <2>1, <2>2, <2>4
  <2>6. Follows(handle', handle)
    <3>1. CASE handle = None
      BY <3>1 DEF Follows
    <3>2. CASE handle \in File
      <4>1. handle[1] \in Day /\ handle[2] \in {0, 1} /\ handle[1] <= roll_mday
        BY <3>2 DEF File
      <4>2. CASE handle[1] = today
        <5>1. roll_mday = today
          BY <1>0, <4>1, <4>2
        <5>2. Reached(bytes)
          <6>1. handle # None
            BY <3>2, LoggerAssumption
          <6> QED BY <5>1, <6>1
        <5>3. handle'[2] = 1
          BY <5>2, <2>4
        <5> QED BY <3>2, <4>1, <4>2, <5>3, <2>4 DEF Follows
      <4>3. CASE handle[1] # today
        <5>1. handle[1] \in Nat /\ roll_mday \in Nat /\ today \in Nat
          BY <1>0, <4>1
        <5>2. handle[1] <= roll_mday /\ roll_mday <= today
          BY <4>1
        <5>3. handle[1] < today
          BY <4>3, <5>1, <5>2
        <5> QED BY <3>2, <5>3, <2>4 DEF Follows
      <4> QED BY <4>2, <4>3
    <3> QED BY <2>1, <3>1, <3>2
  <2> QED BY <2>5, <2>6
<1>2. CASE OpenFails(bytes)
  BY <1>2, LoggerAssumption DEF OpenFails, Follows
<1>3. CASE StaysOnStdout(bytes)
  BY <1>3, LoggerAssumption DEF StaysOnStdout, Follows
<1> QED BY <1>1, <1>2, <1>3 DEF rollfile

\* A file follows itself.
LEMMA SameFile ==
  ASSUME NEW f \in File \cup {None, Stdout} PROVE Follows(f, f)
<1>1. CASE f \in File
  <2>1. f[1] = f[1] /\ f[2] \in {0, 1}
    BY <1>1 DEF File
  <2>2. f[2] <= f[2]
    BY <2>1
  <2> QED BY <1>1, <2>1, <2>2 DEF Follows
<1>2. CASE f \in {None, Stdout}
  BY <1>2 DEF Follows
<1> QED BY <1>1, <1>2

\* A step that leaves the file alone.
LEMMA NoRoll ==
  ASSUME IInv, handle' = handle, roll_mday' = roll_mday, today' = today,
         pc' # "start" \/ pc' = pc
  PROVE  IInv' /\ Follows(handle', handle)
<1>1. IInv'
  BY DEF IInv, FileTypeOK, DaysOrdered
<1>2. Follows(handle, handle)
  BY SameFile DEF IInv, FileTypeOK
<1> QED BY <1>1, <1>2

\* A step that rolls.
LEMMA RollStep ==
  ASSUME IInv, NEW bytes, rollfile(bytes), pc' # "start",
         handle = None \/ roll_mday # today \/ Reached(bytes)
  PROVE  IInv' /\ Follows(handle', handle)
BY Roll DEF IInv, DaysOrdered

----------------------------------------------------------------------------
LEMMA InitOK == Init => IInv
BY LoggerAssumption DEF Init, IInv, FileTypeOK, DaysOrdered, Day

LEMMA StepOK ==
  ASSUME IInv, [Next]_vars
  PROVE  IInv' /\ Follows(handle', handle)
<1>1. CASE Log
  BY <1>1, NoRoll DEF Log, worker, file
<1>2. CASE Start
  <2>1. handle = None
    BY <1>2 DEF Start, IInv, DaysOrdered
  <2> QED BY <1>2, <2>1, RollStep DEF Start
<1>3. CASE Loop
  BY <1>3, NoRoll DEF Loop, file
<1>4. CASE Swap
  <2>1. CASE roll_mday # today
    BY <1>4, <2>1, RollStep DEF Swap
  <2>2. CASE roll_mday = today
    BY <1>4, <2>2, NoRoll DEF Swap, file
  <2> QED BY <2>1, <2>2
<1>5. CASE DropNotice
  BY <1>5, NoRoll DEF DropNotice, file
<1>6. CASE Cut
  BY <1>6, NoRoll DEF Cut, file
<1>7. CASE Write
  <2> DEFINE bytes == written_bytes + Len(Contents(buffers_to_write.head))
  <2>1. CASE Exceeded(bytes)
    <3>1. Reached(bytes) /\ rollfile(bytes) /\ pc' # "start"
      BY <1>7, <2>1 DEF Write, Exceeded
    <3> QED BY <3>1, RollStep
  <2>2. CASE ~Exceeded(bytes)
    BY <1>7, <2>2, NoRoll DEF Write
  <2> QED BY <2>1, <2>2
<1>8. CASE Recycle
  BY <1>8, NoRoll DEF Recycle, file
<1>9. CASE Exit
  BY <1>9, NoRoll DEF Exit, worker, file
<1>10. CASE Joined
  BY <1>10, NoRoll DEF Joined, worker, file
<1>11. CASE Midnight
  <2>1. /\ handle' = handle /\ roll_mday' = roll_mday /\ pc' = pc
        /\ today < MaxDay /\ today' = today + 1
    BY <1>11 DEF Midnight, worker, file
  <2>2. today' \in Day /\ roll_mday' <= today'
    BY <2>1, LoggerAssumption DEF IInv, FileTypeOK, DaysOrdered, Day
  <2>3. Follows(handle, handle)
    BY SameFile DEF IInv, FileTypeOK
  <2> QED BY <2>1, <2>2, <2>3 DEF IInv, FileTypeOK, DaysOrdered
<1>12. CASE UNCHANGED vars
  BY <1>12, NoRoll DEF vars, worker, file
<1> QED BY <1>1, <1>2, <1>3, <1>4, <1>5, <1>6, <1>7, <1>8, <1>9, <1>10, <1>11, <1>12
        DEF Next, Work

\* Whatever the roll size, the number of days and the failures of fopen, and
\* with midnight at any moment, the logger never returns to a file it left.
THEOREM FilesFollow == Spec => FilesInOrder
<1>1. IInv /\ [Next]_vars => IInv'
  BY StepOK
<1>2. IInv /\ [Next]_vars => [Follows(handle', handle)]_vars
  BY StepOK
<1> QED BY InitOK, <1>1, <1>2, PTL DEF Spec, FilesInOrder

----------------------------------------------------------------------------
\* Sequences, and induction over their places.

\* A set of numbers has a smallest element,
LEMMA Smallest ==
  ASSUME NEW T, T \subseteq Nat, T # {}
  PROVE  \E x \in T : \A y \in T : x <= y
<1>1. /\ IsWellFoundedOn(OpToRel(<, Nat), Nat)
      /\ \A m, n \in Nat : <<m, n>> \in OpToRel(<, Nat) <=> m < n
  BY NatLessThanWellFounded DEF OpToRel
<1>2. PICK R : /\ IsWellFoundedOn(R, Nat)
               /\ \A m, n \in Nat : <<m, n>> \in R <=> m < n
  BY <1>1
<1>3. IsWellFoundedOn(R, Nat)
  BY <1>2
<1>4. \E x \in T : \A y \in T : ~(<<y, x>> \in R)
  BY <1>3, WFMin
<1>5. PICK x \in T : \A y \in T : ~(<<y, x>> \in R)
  BY <1>4
<1>6. ASSUME NEW y \in T PROVE x <= y
  <2>1. x \in Nat /\ y \in Nat
    OBVIOUS
  <2>2. ~(y < x)
    BY <1>2, <1>5, <2>1
  <2> QED BY <2>1, <2>2
<1> QED BY <1>6

\* so what holds at the last place of a sequence, and at each place if at the
\* next one, holds at every place.
LEMMA Backwards ==
  ASSUME NEW n \in Nat, NEW T, n > 0 => n \in T,
         \A i \in 1 .. n : i < n /\ i + 1 \in T => i \in T
  PROVE  \A i \in 1 .. n : i \in T
<1> DEFINE Bad == {k \in Nat : k < n /\ n - k \notin T}
<1> SUFFICES ASSUME Bad # {} PROVE FALSE
  <2> SUFFICES ASSUME NEW i \in 1 .. n, i \notin T PROVE Bad # {}
    OBVIOUS
  <2>1. n - i \in Nat /\ n - i < n /\ n - (n - i) = i
    OBVIOUS
  <2>2. n - i \in Bad
    BY <2>1
  <2> QED BY <2>2
<1>1. PICK x \in Bad : \A y \in Bad : x <= y
  <2>1. Bad \subseteq Nat
    OBVIOUS
  <2> HIDE DEF Bad
  <2> QED BY <2>1, Smallest
<1>2. x \in Nat /\ x < n /\ n - x \notin T
  OBVIOUS
<1>3. x # 0
  BY <1>2
<1>4. x - 1 \in Nat /\ x - 1 < n /\ ~(x <= x - 1)
  BY <1>2, <1>3
<1>5. n - (x - 1) \in T
  BY <1>1, <1>4
<1>6. n - x \in 1 .. n /\ n - x < n /\ (n - x) + 1 = n - (x - 1)
  BY <1>2, <1>3
<1> QED BY <1>2, <1>5, <1>6

\* Each element is greater than those before it.
Increasing(s) == \A i, j \in 1 .. Len(s) : i < j => s[i] < s[j]

\* A part of a sequence is a sequence over the same set, of known length
\* and elements.
LEMMA Part ==
  ASSUME NEW S, NEW s \in Seq(S), NEW m \in 1 .. Len(s) + 1, NEW n \in m - 1 .. Len(s)
  PROVE  /\ SubSeq(s, m, n) \in Seq(S)
         /\ Len(SubSeq(s, m, n)) = n - m + 1
         /\ \A i \in 1 .. n - m + 1 : SubSeq(s, m, n)[i] = s[m + i - 1]
<1>1. SubSeq(s, m, n) = [i \in 1 .. n - m + 1 |-> s[i + m - 1]]
  OBVIOUS
<1>2. n - m + 1 \in Nat
  OBVIOUS
<1>3. \A i \in 1 .. n - m + 1 : s[i + m - 1] \in S /\ s[i + m - 1] = s[m + i - 1]
  OBVIOUS
<1> QED BY <1>1, <1>2, <1>3

\* Two sequences one behind the other.
LEMMA Concat ==
  ASSUME NEW S, NEW s \in Seq(S), NEW t \in Seq(S)
  PROVE  /\ s \o t \in Seq(S)
         /\ Len(s \o t) = Len(s) + Len(t)
         /\ \A i \in 1 .. Len(s) : (s \o t)[i] = s[i]
         /\ \A i \in Len(s) + 1 .. Len(s) + Len(t) : (s \o t)[i] = t[i - Len(s)]
OBVIOUS

\* Sequences with the same elements are the same.
LEMMA Same ==
  ASSUME NEW S, NEW s \in Seq(S), NEW t \in Seq(S), Len(s) = Len(t),
         \A i \in 1 .. Len(s) : s[i] = t[i]
  PROVE  s = t
OBVIOUS

\* The first n lines written and the rest left are the queue again.
LEMMA Split ==
  ASSUME NEW S, NEW s \in Seq(S), NEW q \in Seq(S), NEW n \in 1 .. Len(q)
  PROVE  (s \o SubSeq(q, 1, n)) \o SubSeq(q, n + 1, Len(q)) = s \o q
<1> DEFINE a == SubSeq(q, 1, n)
           b == SubSeq(q, n + 1, Len(q))
<1>1. /\ a \in Seq(S) /\ Len(a) = n
      /\ \A i \in 1 .. n : a[i] = q[i]
  BY Part
<1>2. /\ b \in Seq(S) /\ Len(b) = Len(q) - n
      /\ \A i \in 1 .. Len(q) - n : b[i] = q[n + i]
  <2>1. n + 1 \in 1 .. Len(q) + 1 /\ Len(q) \in (n + 1) - 1 .. Len(q)
    OBVIOUS
  <2>2. Len(b) = Len(q) - (n + 1) + 1
    BY <2>1, Part
  <2>3. \A i \in 1 .. Len(q) - (n + 1) + 1 : b[i] = q[(n + 1) + i - 1]
    BY <2>1, Part
  <2>4. b \in Seq(S)
    BY <2>1, Part
  <2> QED BY <2>2, <2>3, <2>4
<1> HIDE DEF a, b
<1> DEFINE sa == s \o a
           l == sa \o b
           r == s \o q
<1> HIDE DEF a, b
<1>3. /\ sa \in Seq(S) /\ Len(sa) = Len(s) + n
      /\ \A i \in 1 .. Len(s) : sa[i] = s[i]
      /\ \A i \in Len(s) + 1 .. Len(s) + n : sa[i] = a[i - Len(s)]
  <2>1. a \in Seq(S)
    BY <1>1
  <2>2. /\ sa \in Seq(S) /\ Len(sa) = Len(s) + Len(a)
        /\ \A i \in 1 .. Len(s) : sa[i] = s[i]
        /\ \A i \in Len(s) + 1 .. Len(s) + Len(a) : sa[i] = a[i - Len(s)]
    BY <2>1, Concat
  <2>3. Len(a) = n
    BY <1>1
  <2> HIDE DEF sa
  <2> QED BY <2>2, <2>3
<1> HIDE DEF sa
<1>4. /\ l \in Seq(S) /\ Len(l) = Len(sa) + Len(b)
      /\ \A i \in 1 .. Len(sa) : l[i] = sa[i]
      /\ \A i \in Len(sa) + 1 .. Len(sa) + Len(b) : l[i] = b[i - Len(sa)]
  <2>1. sa \in Seq(S) /\ b \in Seq(S)
    BY <1>2, <1>3
  <2> QED BY <2>1, Concat
<1>5. /\ r \in Seq(S) /\ Len(r) = Len(s) + Len(q)
      /\ \A i \in 1 .. Len(s) : r[i] = s[i]
      /\ \A i \in Len(s) + 1 .. Len(s) + Len(q) : r[i] = q[i - Len(s)]
  BY Concat
<1> HIDE DEF l, r
<1>6. Len(s) \in Nat /\ Len(q) \in Nat
  OBVIOUS
<1>7. Len(l) = Len(r)
  BY <1>2, <1>3, <1>4, <1>5, <1>6
<1>8. ASSUME NEW i \in 1 .. Len(l) PROVE l[i] = r[i]
  <2>1. CASE i <= Len(s)
    BY <2>1, <1>3, <1>4, <1>5, <1>6
  <2>2. CASE Len(s) < i /\ i <= Len(s) + n
    <3>1. l[i] = a[i - Len(s)] /\ i - Len(s) \in 1 .. n
      BY <2>2, <1>2, <1>3, <1>4, <1>6
    <3>2. r[i] = q[i - Len(s)]
      <4>1. i \in Len(s) + 1 .. Len(s) + Len(q)
        BY <2>2, <1>6
      <4>2. \A k \in Len(s) + 1 .. Len(s) + Len(q) : r[k] = q[k - Len(s)]
        BY <1>5
      <4> QED BY <4>1, <4>2
    <3> QED BY <3>1, <3>2, <1>1
  <2>3. CASE Len(s) + n < i
    <3>1. i - Len(sa) \in 1 .. Len(q) - n /\ l[i] = b[i - Len(sa)]
      BY <2>3, <1>2, <1>3, <1>4, <1>6
    <3>2. b[i - Len(sa)] = q[n + (i - Len(sa))]
      BY <3>1, <1>2
    <3>3. n + (i - Len(sa)) = i - Len(s)
      BY <1>3, <1>6
    <3>4. r[i] = q[i - Len(s)]
      <4>1. i \in Len(s) + 1 .. Len(s) + Len(q)
        BY <2>3, <1>6, <1>2, <1>3, <1>4
      <4> QED BY <4>1, <1>5
    <3> QED BY <3>1, <3>2, <3>3, <3>4
  <2> QED BY <2>1, <2>2, <2>3, <1>3, <1>4, <1>6
<1>9. l = r
  BY <1>4, <1>5, <1>7, <1>8, Same
<1> QED BY <1>9 DEF l, r, sa, a, b

\* Concatenation is associative.
Associative(S) == \A s, t, u \in Seq(S) : (s \o t) \o u = s \o (t \o u)

LEMMA Regroup == ASSUME NEW S PROVE Associative(S)
<1> SUFFICES ASSUME NEW s \in Seq(S), NEW t \in Seq(S), NEW u \in Seq(S)
             PROVE  (s \o t) \o u = s \o (t \o u)
  BY DEF Associative
<1> DEFINE st == s \o t
           tu == t \o u
           l == st \o u
           r == s \o tu
<1>1. /\ st \in Seq(S) /\ Len(st) = Len(s) + Len(t)
      /\ \A i \in 1 .. Len(s) : st[i] = s[i]
      /\ \A i \in Len(s) + 1 .. Len(s) + Len(t) : st[i] = t[i - Len(s)]
  BY Concat
<1>2. /\ tu \in Seq(S) /\ Len(tu) = Len(t) + Len(u)
      /\ \A i \in 1 .. Len(t) : tu[i] = t[i]
      /\ \A i \in Len(t) + 1 .. Len(t) + Len(u) : tu[i] = u[i - Len(t)]
  BY Concat
<1> HIDE DEF st, tu
<1>3. /\ l \in Seq(S) /\ Len(l) = Len(st) + Len(u)
      /\ \A i \in 1 .. Len(st) : l[i] = st[i]
      /\ \A i \in Len(st) + 1 .. Len(st) + Len(u) : l[i] = u[i - Len(st)]
  <2>1. st \in Seq(S)
    BY <1>1
  <2> QED BY <2>1, Concat
<1>4. /\ r \in Seq(S) /\ Len(r) = Len(s) + Len(tu)
      /\ \A i \in 1 .. Len(s) : r[i] = s[i]
      /\ \A i \in Len(s) + 1 .. Len(s) + Len(tu) : r[i] = tu[i - Len(s)]
  <2>1. tu \in Seq(S)
    BY <1>2
  <2> QED BY <2>1, Concat
<1> HIDE DEF l, r
<1>5. Len(s) \in Nat /\ Len(t) \in Nat /\ Len(u) \in Nat
  OBVIOUS
<1>6. Len(l) = Len(r)
  BY <1>1, <1>2, <1>3, <1>4, <1>5
<1>7. ASSUME NEW i \in 1 .. Len(l) PROVE l[i] = r[i]
  <2>1. CASE i <= Len(s)
    BY <2>1, <1>1, <1>3, <1>4, <1>5
  <2>2. CASE Len(s) < i /\ i <= Len(st)
    <3>1. i \in Len(s) + 1 .. Len(s) + Len(t) /\ i \in 1 .. Len(st)
      BY <2>2, <1>1, <1>5
    <3>2. i - Len(s) \in 1 .. Len(t) /\ i \in Len(s) + 1 .. Len(s) + Len(tu)
      BY <3>1, <1>2, <1>5
    <3>3. l[i] = t[i - Len(s)] /\ r[i] = t[i - Len(s)]
      BY <3>1, <3>2, <1>1, <1>2, <1>3, <1>4
    <3> QED BY <3>3
  <2>3. CASE Len(st) < i
    <3>1. i \in Len(st) + 1 .. Len(st) + Len(u) /\ i \in Len(s) + 1 .. Len(s) + Len(tu)
      BY <2>3, <1>1, <1>2, <1>3, <1>5
    <3>2. i - Len(s) \in Len(t) + 1 .. Len(t) + Len(u) /\ (i - Len(s)) - Len(t) = i - Len(st)
      BY <3>1, <1>1, <1>5
    <3>3. l[i] = u[i - Len(st)] /\ r[i] = tu[i - Len(s)]
      BY <3>1, <1>3, <1>4
    <3> QED BY <3>2, <3>3, <1>2
  <2> QED BY <2>1, <2>2, <2>3, <1>5
<1>8. l = r
  BY <1>3, <1>4, <1>6, <1>7, Same
<1> QED BY <1>8 DEF l, r, st, tu

LEMMA Grouped ==
  ASSUME NEW S, NEW s \in Seq(S), NEW t \in Seq(S), NEW u \in Seq(S)
  PROVE  (s \o t) \o u = s \o (t \o u)
BY Regroup DEF Associative

\* The elements of two sequences, one behind the other.
LEMMA Both ==
  ASSUME NEW S, NEW s \in Seq(S), NEW t \in Seq(S)
  PROVE  ToSet(s \o t) = ToSet(s) \cup ToSet(t)
<1> DEFINE u == s \o t
<1>1. /\ u \in Seq(S) /\ Len(u) = Len(s) + Len(t)
      /\ \A i \in 1 .. Len(s) : u[i] = s[i]
      /\ \A i \in Len(s) + 1 .. Len(s) + Len(t) : u[i] = t[i - Len(s)]
  BY Concat
<1> HIDE DEF u
<1>2. /\ DOMAIN s = 1 .. Len(s) /\ DOMAIN t = 1 .. Len(t) /\ DOMAIN u = 1 .. Len(u)
      /\ Len(s) \in Nat /\ Len(t) \in Nat
  BY <1>1
<1>3. ASSUME NEW i \in DOMAIN u PROVE u[i] \in ToSet(s) \cup ToSet(t)
  <2>1. CASE i <= Len(s)
    BY <2>1, <1>1, <1>2 DEF ToSet
  <2>2. CASE i > Len(s)
    <3>1. i \in Len(s) + 1 .. Len(s) + Len(t) /\ i - Len(s) \in 1 .. Len(t)
      BY <2>2, <1>1, <1>2
    <3> QED BY <3>1, <1>1, <1>2 DEF ToSet
  <2> QED BY <2>1, <2>2, <1>1, <1>2
<1>4. ToSet(u) \subseteq ToSet(s) \cup ToSet(t)
  BY <1>3 DEF ToSet
<1>5. ASSUME NEW i \in DOMAIN s PROVE s[i] \in ToSet(u)
  BY <1>1, <1>2 DEF ToSet
<1>6. ASSUME NEW i \in DOMAIN t PROVE t[i] \in ToSet(u)
  <2>1. i + Len(s) \in Len(s) + 1 .. Len(s) + Len(t) /\ (i + Len(s)) - Len(s) = i
    BY <1>2
  <2>2. u[i + Len(s)] = t[i] /\ i + Len(s) \in DOMAIN u
    BY <2>1, <1>1, <1>2
  <2> QED BY <2>2 DEF ToSet
<1>7. ToSet(s) \cup ToSet(t) \subseteq ToSet(u)
  BY <1>5, <1>6 DEF ToSet
<1> QED BY <1>4, <1>7 DEF u

\* Two sequences without repetition that share nothing, one behind the other.
LEMMA Distinct ==
  ASSUME NEW S, NEW s \in Seq(S), NEW t \in Seq(S),
         IsInjective(s), IsInjective(t), ToSet(s) \cap ToSet(t) = {}
  PROVE  IsInjective(s \o t)
<1> DEFINE u == s \o t
<1>1. /\ u \in Seq(S) /\ Len(u) = Len(s) + Len(t)
      /\ \A i \in 1 .. Len(s) : u[i] = s[i]
      /\ \A i \in Len(s) + 1 .. Len(s) + Len(t) : u[i] = t[i - Len(s)]
  BY Concat
<1> HIDE DEF u
<1>2. /\ DOMAIN s = 1 .. Len(s) /\ DOMAIN t = 1 .. Len(t) /\ DOMAIN u = 1 .. Len(u)
      /\ Len(s) \in Nat /\ Len(t) \in Nat
  BY <1>1
<1>3. ASSUME NEW i \in DOMAIN u
      PROVE  \/ i \in DOMAIN s /\ u[i] = s[i] /\ u[i] \in ToSet(s)
             \/ i - Len(s) \in DOMAIN t /\ u[i] = t[i - Len(s)] /\ u[i] \in ToSet(t)
  <2>1. CASE i <= Len(s)
    BY <2>1, <1>1, <1>2 DEF ToSet
  <2>2. CASE i > Len(s)
    <3>1. i \in Len(s) + 1 .. Len(s) + Len(t) /\ i - Len(s) \in 1 .. Len(t)
      BY <2>2, <1>1, <1>2
    <3> QED BY <3>1, <1>1, <1>2 DEF ToSet
  <2> QED BY <2>1, <2>2, <1>1, <1>2
<1> SUFFICES ASSUME NEW i \in DOMAIN u, NEW j \in DOMAIN u, u[i] = u[j] PROVE i = j
  BY DEF IsInjective, u
<1>4. i \in Int /\ j \in Int
  BY <1>2
<1>5. CASE u[i] \in ToSet(s)
  BY <1>5, <1>3 DEF IsInjective
<1>6. CASE u[i] \in ToSet(t)
  <2>1. /\ i - Len(s) \in DOMAIN t /\ u[i] = t[i - Len(s)]
        /\ j - Len(s) \in DOMAIN t /\ u[j] = t[j - Len(s)]
    BY <1>6, <1>3
  <2>2. i - Len(s) = j - Len(s)
    BY <2>1 DEF IsInjective
  <2> QED BY <2>2, <1>4, <1>2
<1> QED BY <1>5, <1>6, <1>3

----------------------------------------------------------------------------
\* The heap: what Chain and Contents are of any table n of next pointers and
\* any table d of data.

ChainIn(n, h) ==
  LET chain[b \in Buffer] ==
        <<b>> \o IF n[b] = None THEN <<>> ELSE chain[n[b]]
  IN  IF h = None THEN <<>> ELSE chain[h]

TextIn(d, n, h) ==
  LET text[b \in Buffer] ==
        d[b] \o IF n[b] = None THEN <<>> ELSE text[n[b]]
  IN  IF h = None THEN <<>> ELSE text[h]

Cell == [b \in Buffer |-> <<b>>]

Table == [Buffer -> Buffer \cup {None}]

\* f collects what lies in d along n.
Collects(f, d, n) ==
  f = [b \in Buffer |-> d[b] \o IF n[b] = None THEN <<>> ELSE f[n[b]]]

\* No pointer leads back: each leads to a buffer of lower rank.
Grounded(n) == \E m \in Nat : \E r \in [Buffer -> 0 .. m] :
  \A b \in Buffer : n[b] # None => r[n[b]] < r[b]

\* Then something collects, by induction over the ranks,
LEMMA Collected ==
  ASSUME NEW S, NEW d \in [Buffer -> Seq(S)], NEW n \in Table, Grounded(n)
  PROVE  \E f : Collects(f, d, n)
<1>0. PICK m \in Nat : \E r \in [Buffer -> 0 .. m] :
        \A b \in Buffer : n[b] # None => r[n[b]] < r[b]
  BY DEF Grounded
<1>1. PICK r \in [Buffer -> 0 .. m] :
        \A b \in Buffer : n[b] # None => r[n[b]] < r[b]
  BY <1>0
<1> DEFINE Step(f, b) == d[b] \o IF n[b] = None THEN <<>> ELSE f[n[b]]
           Below(f, k) == \A b \in Buffer : r[b] < k => f[b] = Step(f, b)
           Bad == {k \in Nat : ~\E f \in [Buffer -> Seq(S)] : Below(f, k)}
<1>2. \A f, b : Step(f, b) = d[b] \o IF n[b] = None THEN <<>> ELSE f[n[b]]
  OBVIOUS
<1>3. ASSUME NEW f \in [Buffer -> Seq(S)], NEW b \in Buffer PROVE Step(f, b) \in Seq(S)
  <2>1. d[b] \in Seq(S) /\ <<>> \in Seq(S)
    OBVIOUS
  <2>2. n[b] # None => f[n[b]] \in Seq(S)
    BY DEF Table
  <2> QED BY <2>1, <2>2
<1> HIDE DEF Step
<1>4. 0 \notin Bad
  BY DEF Below
<1>5. ASSUME NEW k \in Nat, k \notin Bad PROVE k + 1 \notin Bad
  <2>1. PICK f \in [Buffer -> Seq(S)] : Below(f, k)
    BY <1>5
  <2> DEFINE g == [b \in Buffer |-> IF r[b] = k THEN Step(f, b) ELSE f[b]]
  <2>2. g \in [Buffer -> Seq(S)]
    BY <1>3
  <2>3. ASSUME NEW b \in Buffer, r[b] < k + 1 PROVE g[b] = Step(g, b)
    <3>1. n[b] # None => n[b] \in Buffer /\ r[n[b]] < r[b]
      BY <1>1 DEF Table
    <3>2. r[b] \in Nat /\ \A c \in Buffer : r[c] \in Nat
      OBVIOUS
    <3>3. n[b] # None => g[n[b]] = f[n[b]]
      BY <2>3, <3>1, <3>2
    <3>4. Step(g, b) = Step(f, b)
      BY <1>2, <3>3
    <3>5. CASE r[b] = k
      BY <3>4, <3>5
    <3>6. CASE r[b] # k
      <4>1. r[b] < k
        BY <2>3, <3>2, <3>6
      <4>2. g[b] = f[b] /\ f[b] = Step(f, b)
        BY <2>1, <3>6, <4>1
      <4> QED BY <3>4, <4>2
    <3> QED BY <3>5, <3>6
  <2>4. Below(g, k + 1)
    BY <2>3
  <2> HIDE DEF g, Below
  <2> QED BY <2>2, <2>4
<1>6. Bad = {}
  <2> SUFFICES ASSUME Bad # {} PROVE FALSE
    OBVIOUS
  <2>1. PICK x \in Bad : \A y \in Bad : x <= y
    <3>1. Bad \subseteq Nat
      OBVIOUS
    <3> HIDE DEF Bad
    <3> QED BY <3>1, Smallest
  <2>2. x \in Nat /\ x # 0
    BY <1>4
  <2>3. x - 1 \in Nat /\ ~(x <= x - 1) /\ (x - 1) + 1 = x
    BY <2>2
  <2> HIDE DEF Bad
  <2>4. x - 1 \notin Bad
    BY <2>1, <2>3
  <2> QED BY <1>5, <2>3, <2>4
<1>7. PICK f \in [Buffer -> Seq(S)] : Below(f, m + 1)
  <2>1. m + 1 \in Nat
    OBVIOUS
  <2>2. m + 1 \notin Bad
    BY <1>6
  <2> QED BY <2>1, <2>2
<1>8. \A b \in Buffer : f[b] = Step(f, b)
  BY <1>7
<1>9. f = [b \in Buffer |-> Step(f, b)]
  BY <1>8
<1> QED BY <1>9 DEF Step, Collects

\* What f has collected, without the case distinction.
Gathered(f, S, d, n) == \A b \in Buffer :
  /\ f[b] \in Seq(S)
  /\ n[b] = None => f[b] = d[b]
  /\ n[b] # None => f[b] = d[b] \o f[n[b]]

\* and whatever does collects sequences.
LEMMA Collection ==
  ASSUME NEW S, NEW d \in [Buffer -> Seq(S)], NEW n \in Table, Grounded(n),
         NEW f, Collects(f, d, n)
  PROVE  Gathered(f, S, d, n)
<1>0. PICK m \in Nat : \E r \in [Buffer -> 0 .. m] :
        \A b \in Buffer : n[b] # None => r[n[b]] < r[b]
  BY DEF Grounded
<1>1. PICK r \in [Buffer -> 0 .. m] :
        \A b \in Buffer : n[b] # None => r[n[b]] < r[b]
  BY <1>0
<1>2. ASSUME NEW b \in Buffer
      PROVE  /\ d[b] \in Seq(S) /\ d[b] \o <<>> = d[b]
             /\ n[b] = None => f[b] = d[b]
             /\ n[b] # None => f[b] = d[b] \o f[n[b]]
  <2> DEFINE g == [c \in Buffer |-> d[c] \o IF n[c] = None THEN <<>> ELSE f[n[c]]]
  <2>1. f = g
    BY DEF Collects
  <2>2. g[b] = d[b] \o IF n[b] = None THEN <<>> ELSE f[n[b]]
    OBVIOUS
  <2> HIDE DEF g
  <2>3. f[b] = d[b] \o IF n[b] = None THEN <<>> ELSE f[n[b]]
    BY <2>1, <2>2
  <2>4. d[b] \in Seq(S)
    OBVIOUS
  <2>5. d[b] \o <<>> = d[b]
    BY <2>4
  <2>6. n[b] = None => f[b] = d[b]
    BY <2>3, <2>5
  <2>7. n[b] # None => f[b] = d[b] \o f[n[b]]
    BY <2>3
  <2> QED BY <2>4, <2>5, <2>6, <2>7
<1> DEFINE Bad == {b \in Buffer : f[b] \notin Seq(S)}
           Ranks == {r[b] : b \in Bad}
<1> SUFFICES ASSUME Bad # {} PROVE FALSE
  BY <1>2 DEF Gathered
<1>3. PICK x \in Ranks : \A y \in Ranks : x <= y
  <2>1. Ranks \subseteq Nat /\ Ranks # {}
    OBVIOUS
  <2> HIDE DEF Ranks
  <2> QED BY <2>1, Smallest
<1>4. PICK b \in Bad : x = r[b]
  OBVIOUS
<1>5. n[b] # None => n[b] \in Buffer \ Bad
  <2> SUFFICES ASSUME n[b] # None PROVE n[b] \in Buffer \ Bad
    OBVIOUS
  <2>1. n[b] \in Buffer /\ r[n[b]] < r[b]
    BY <1>1 DEF Table
  <2>2. r[n[b]] \in Nat /\ r[b] \in Nat
    BY <2>1
  <2>3. ~(x <= r[n[b]])
    BY <1>4, <2>1, <2>2
  <2>4. r[n[b]] \notin Ranks
    BY <1>3, <2>3
  <2> QED BY <2>1, <2>4
<1>6. f[b] \in Seq(S)
  <2>1. CASE n[b] = None
    BY <1>2, <2>1
  <2>2. CASE n[b] # None
    <3>1. f[n[b]] \in Seq(S)
      BY <1>5, <2>2
    <3>2. f[b] = d[b] \o f[n[b]] /\ d[b] \in Seq(S)
      BY <1>2, <2>2
    <3> QED BY <3>1, <3>2
  <2> QED BY <2>1, <2>2
<1> QED BY <1>6

\* The text that d and n give: what a buffer has, and the text from the next.
Reads(d, n, S) ==
  /\ TextIn(d, n, None) = <<>>
  /\ \A b \in Buffer :
       /\ TextIn(d, n, b) \in Seq(S)
       /\ n[b] = None => TextIn(d, n, b) = d[b]
       /\ n[b] # None => TextIn(d, n, b) = d[b] \o TextIn(d, n, n[b])

\* So text is read like that,
LEMMA Text ==
  ASSUME NEW S, NEW d \in [Buffer -> Seq(S)], NEW n \in Table, Grounded(n)
  PROVE  Reads(d, n, S)
<1> DEFINE f == CHOOSE x : Collects(x, d, n)
<1>1. Collects(f, d, n)
  BY Collected
<1>2. \A h : TextIn(d, n, h) = IF h = None THEN <<>> ELSE f[h]
  BY DEF TextIn, Collects
<1> HIDE DEF f
<1>3. Gathered(f, S, d, n)
  BY <1>1, Collection
<1>4. \A b \in Buffer : b # None
  BY LoggerAssumption
<1>5. \A b \in Buffer : n[b] # None => n[b] \in Buffer
  BY DEF Table
<1>6. TextIn(d, n, None) = <<>> /\ \A b \in Buffer : TextIn(d, n, b) = f[b]
  BY <1>2, <1>4
<1> QED BY <1>3, <1>5, <1>6 DEF Gathered, Reads

\* and so the chain.
LEMMA Chains ==
  ASSUME NEW n \in Table, Grounded(n)
  PROVE  /\ ChainIn(n, None) = <<>>
         /\ \A b \in Buffer :
              /\ ChainIn(n, b) \in Seq(Buffer)
              /\ n[b] = None => ChainIn(n, b) = <<b>>
              /\ n[b] # None => ChainIn(n, b) = <<b>> \o ChainIn(n, n[b])
<1> DEFINE IsChain(x) == x = [b \in Buffer |-> <<b>> \o IF n[b] = None THEN <<>> ELSE x[n[b]]]
           f == CHOOSE x : IsChain(x)
<1>1. Cell \in [Buffer -> Seq(Buffer)] /\ \A b \in Buffer : Cell[b] = <<b>>
  BY DEF Cell
<1>2. \A x : Collects(x, Cell, n) <=> IsChain(x)
  BY <1>1 DEF Collects
<1>3. IsChain(f)
  BY <1>1, <1>2, Collected
<1>4. \A h : ChainIn(n, h) = IF h = None THEN <<>> ELSE f[h]
  BY DEF ChainIn
<1> HIDE DEF f
<1>5. Collects(f, Cell, n)
  BY <1>2, <1>3
<1> HIDE DEF IsChain
<1>6. Gathered(f, Buffer, Cell, n)
  BY <1>1, <1>5, Collection
<1>7. \A b \in Buffer : b # None
  BY LoggerAssumption
<1>8. \A b \in Buffer : n[b] # None => n[b] \in Buffer
  BY DEF Table
<1>9. ChainIn(n, None) = <<>> /\ \A b \in Buffer : ChainIn(n, b) = f[b]
  BY <1>4, <1>7
<1> QED BY <1>1, <1>6, <1>8, <1>9 DEF Gathered

----------------------------------------------------------------------------
\* Paths: what lies along the pointers from q[1], to the end.
Path(n, q) ==
  /\ q \in Seq(Buffer)
  /\ \A i \in 1 .. Len(q) : n[q[i]] = IF i = Len(q) THEN None ELSE q[i + 1]

\* Two paths that share nothing, and no pointer outside them.
Shape(n, p, q) ==
  /\ Path(n, p) /\ IsInjective(p)
  /\ Path(n, q) /\ IsInjective(q)
  /\ ToSet(p) \cap ToSet(q) = {}
  /\ \A b \in Buffer \ (ToSet(p) \cup ToSet(q)) : n[b] = None

\* The elements of a sequence.
LEMMA Elements ==
  ASSUME NEW S, NEW q \in Seq(S)
  PROVE  /\ ToSet(q) \subseteq S
         /\ \A i \in 1 .. Len(q) : q[i] \in ToSet(q)
         /\ \A b \in ToSet(q) : \E i \in 1 .. Len(q) : b = q[i]
BY DEF ToSet

\* What a path is, place by place.
Placed(n, q) ==
  /\ q \in Seq(Buffer) /\ Len(q) \in Nat
  /\ \A i \in 1 .. Len(q) :
       /\ q[i] \in Buffer
       /\ i # Len(q) => /\ i < Len(q) /\ i + 1 \in 1 .. Len(q)
                        /\ n[q[i]] = q[i + 1] /\ q[i + 1] \in Buffer
       /\ i = Len(q) => n[q[i]] = None

LEMMA Places ==
  ASSUME NEW n, NEW q, Path(n, q)
  PROVE  Placed(n, q)
<1>1. q \in Seq(Buffer)
  BY DEF Path
<1>2. Len(q) \in Nat /\ \A i \in 1 .. Len(q) : q[i] \in Buffer
  BY <1>1
<1>3. ASSUME NEW m \in Nat, NEW i \in 1 .. m, i # m PROVE i < m /\ i + 1 \in 1 .. m
  BY <1>3
<1>4. \A i \in 1 .. Len(q) : i # Len(q) => i < Len(q) /\ i + 1 \in 1 .. Len(q)
  BY <1>2, <1>3
<1>5. \A i \in 1 .. Len(q) : i # Len(q) => n[q[i]] = q[i + 1]
  BY DEF Path
<1>6. \A i \in 1 .. Len(q) : i = Len(q) => n[q[i]] = None
  BY DEF Path
<1> QED BY <1>1, <1>2, <1>4, <1>5, <1>6 DEF Placed

\* The rank of a buffer is the number of buffers behind it on its path.
LEMMA Rooted ==
  ASSUME NEW n \in Table, NEW p, NEW q, Shape(n, p, q)
  PROVE  Grounded(n)
<1> DEFINE m == Len(p) + Len(q)
           Behind(s, b) == Len(s) - CHOOSE i \in 1 .. Len(s) : s[i] = b
           r == [b \in Buffer |-> IF b \in ToSet(p) THEN Behind(p, b)
                                  ELSE IF b \in ToSet(q) THEN Behind(q, b) ELSE 0]
<1>1. /\ p \in Seq(Buffer) /\ q \in Seq(Buffer)
      /\ Len(p) \in Nat /\ Len(q) \in Nat
      /\ DOMAIN p = 1 .. Len(p) /\ DOMAIN q = 1 .. Len(q)
  BY DEF Shape, Path
<1>2. ASSUME NEW s, s \in {p, q}, NEW i \in 1 .. Len(s)
      PROVE  s[i] \in ToSet(s) /\ Behind(s, s[i]) = Len(s) - i
  <2>1. s \in Seq(Buffer) /\ IsInjective(s) /\ DOMAIN s = 1 .. Len(s)
    BY <1>1, <1>2 DEF Shape
  <2> DEFINE k == CHOOSE j \in 1 .. Len(s) : s[j] = s[i]
  <2>2. k \in 1 .. Len(s) /\ s[k] = s[i]
    OBVIOUS
  <2> HIDE DEF k
  <2>3. k = i
    BY <2>1, <2>2 DEF IsInjective
  <2> QED BY <2>1, <2>3 DEF ToSet, k
<1> HIDE DEF Behind
<1>3. \A i \in 1 .. Len(p) : p[i] \in Buffer /\ r[p[i]] = Len(p) - i
  BY <1>1, <1>2
<1>4. \A i \in 1 .. Len(q) : q[i] \in Buffer /\ r[q[i]] = Len(q) - i
  <2> SUFFICES ASSUME NEW i \in 1 .. Len(q) PROVE q[i] \in Buffer /\ r[q[i]] = Len(q) - i
    OBVIOUS
  <2>1. q[i] \in Buffer /\ q[i] \in ToSet(q) /\ q[i] \notin ToSet(p)
    BY <1>1, <1>2 DEF Shape
  <2> QED BY <2>1, <1>2
<1>5. \A b \in Buffer \ (ToSet(p) \cup ToSet(q)) : r[b] = 0
  OBVIOUS
<1>6. r = [b \in Buffer |-> r[b]]
  OBVIOUS
<1> HIDE DEF r
<1>7. ASSUME NEW b \in Buffer
      PROVE  \/ \E i \in 1 .. Len(p) : b = p[i]
             \/ \E i \in 1 .. Len(q) : b = q[i]
             \/ b \in Buffer \ (ToSet(p) \cup ToSet(q))
  BY <1>1, Elements
<1>8. \A b \in Buffer : r[b] \in 0 .. m
  <2> SUFFICES ASSUME NEW b \in Buffer PROVE r[b] \in 0 .. m
    OBVIOUS
  <2>1. CASE \E i \in 1 .. Len(p) : b = p[i]
    BY <2>1, <1>1, <1>3
  <2>2. CASE \E i \in 1 .. Len(q) : b = q[i]
    BY <2>2, <1>1, <1>4
  <2>3. CASE b \in Buffer \ (ToSet(p) \cup ToSet(q))
    BY <2>3, <1>1, <1>5
  <2> QED BY <2>1, <2>2, <2>3, <1>7
<1>9. ASSUME NEW b \in Buffer, n[b] # None PROVE r[n[b]] < r[b]
  <2>1. CASE \E i \in 1 .. Len(p) : b = p[i]
    <3>1. PICK i \in 1 .. Len(p) : b = p[i]
      BY <2>1
    <3>2. Placed(n, p)
      BY Places DEF Shape
    <3>3. i + 1 \in 1 .. Len(p) /\ n[b] = p[i + 1]
      BY <3>1, <3>2, <1>9 DEF Placed
    <3> QED BY <3>1, <3>2, <3>3, <1>1, <1>3
  <2>2. CASE \E i \in 1 .. Len(q) : b = q[i]
    <3>1. PICK i \in 1 .. Len(q) : b = q[i]
      BY <2>2
    <3>2. Placed(n, q)
      BY Places DEF Shape
    <3>3. i + 1 \in 1 .. Len(q) /\ n[b] = q[i + 1]
      BY <3>1, <3>2, <1>9 DEF Placed
    <3> QED BY <3>1, <3>2, <3>3, <1>1, <1>4
  <2>3. CASE b \in Buffer \ (ToSet(p) \cup ToSet(q))
    BY <2>3, <1>9 DEF Shape
  <2> QED BY <2>1, <2>2, <2>3, <1>7
<1>10. m \in Nat /\ r \in [Buffer -> 0 .. m]
  BY <1>1, <1>6, <1>8
<1> QED BY <1>9, <1>10 DEF Grounded

\* The chain from the first buffer of a path is the path.
LEMMA ChainOfPath ==
  ASSUME NEW n \in Table, Grounded(n), NEW q, Path(n, q), Len(q) > 0
  PROVE  ChainIn(n, q[1]) = q
<1>0. Placed(n, q)
  BY Places
<1>1. /\ q \in Seq(Buffer) /\ Len(q) \in Nat
      /\ \A i \in 1 .. Len(q) :
           /\ q[i] \in Buffer
           /\ i # Len(q) => /\ i < Len(q) /\ i + 1 \in 1 .. Len(q)
                            /\ n[q[i]] = q[i + 1] /\ q[i + 1] \in Buffer
           /\ i = Len(q) => n[q[i]] = None
  BY <1>0 DEF Placed
<1> DEFINE Rest(i) == [k \in 1 .. Len(q) - i + 1 |-> q[i + k - 1]]
           T == {i \in 1 .. Len(q) : ChainIn(n, q[i]) = Rest(i)}
<1>2. ASSUME NEW i \in 1 .. Len(q)
      PROVE  /\ Rest(i) \in Seq(Buffer) /\ Len(Rest(i)) = Len(q) - i + 1
             /\ \A k \in 1 .. Len(q) - i + 1 : Rest(i)[k] = q[i + k - 1]
  <2>1. Len(q) - i + 1 \in Nat
    BY <1>1
  <2>2. \A k \in 1 .. Len(q) - i + 1 : q[i + k - 1] \in Buffer
    BY <1>1
  <2> QED BY <2>1, <2>2
<1> HIDE DEF Rest
<1>3. ASSUME NEW i \in 1 .. Len(q), i < Len(q), i + 1 \in T PROVE i \in T
  <2>1. /\ q[i] \in Buffer /\ n[q[i]] = q[i + 1] /\ q[i + 1] \in Buffer
        /\ i + 1 \in 1 .. Len(q)
    BY <1>1, <1>3
  <2> DEFINE c == <<q[i]>>
             l == c \o Rest(i + 1)
  <2>2. ChainIn(n, q[i]) = l
    <3>1. n[q[i]] # None
      BY <2>1, LoggerAssumption
    <3>2. ChainIn(n, q[i]) = c \o ChainIn(n, n[q[i]])
      BY <2>1, <3>1, Chains
    <3>3. ChainIn(n, q[i + 1]) = Rest(i + 1)
      BY <1>3
    <3> QED BY <2>1, <3>2, <3>3
  <2>4. c \in Seq(Buffer) /\ Len(c) = 1 /\ c[1] = q[i]
    BY <2>1
  <2>5. /\ Rest(i + 1) \in Seq(Buffer) /\ Len(Rest(i + 1)) = Len(q) - i
        /\ \A k \in 1 .. Len(q) - i : Rest(i + 1)[k] = q[i + k]
    <3>1. /\ Rest(i + 1) \in Seq(Buffer) /\ Len(Rest(i + 1)) = Len(q) - (i + 1) + 1
          /\ \A k \in 1 .. Len(q) - (i + 1) + 1 : Rest(i + 1)[k] = q[(i + 1) + k - 1]
      BY <2>1, <1>2
    <3>2. Len(q) - (i + 1) + 1 = Len(q) - i /\ \A k \in Int : (i + 1) + k - 1 = i + k
      BY <1>1
    <3> QED BY <3>1, <3>2
  <2> HIDE DEF c
  <2>6. /\ l \in Seq(Buffer) /\ Len(l) = Len(c) + Len(Rest(i + 1))
        /\ \A k \in 1 .. Len(c) : l[k] = c[k]
        /\ \A k \in Len(c) + 1 .. Len(c) + Len(Rest(i + 1)) : l[k] = Rest(i + 1)[k - Len(c)]
    <3>1. c \in Seq(Buffer) /\ Rest(i + 1) \in Seq(Buffer)
      BY <2>4, <2>5
    <3> QED BY <3>1, Concat
  <2> HIDE DEF l
  <2>7. Len(l) = Len(Rest(i)) /\ Len(l) = Len(q) - i + 1
    BY <2>4, <2>5, <2>6, <1>1, <1>2
  <2>8. ASSUME NEW k \in 1 .. Len(l) PROVE l[k] = Rest(i)[k]
    <3>1. Rest(i)[k] = q[i + k - 1]
      BY <2>7, <1>2
    <3>2. CASE k = 1
      <4>1. l[1] = q[i]
        BY <2>4, <2>6
      <4>2. i + 1 - 1 = i
        OBVIOUS
      <4> QED BY <3>1, <3>2, <4>1, <4>2
    <3>3. CASE k # 1
      <4>1. k \in 2 .. Len(q) - i + 1 /\ k - 1 \in 1 .. Len(q) - i
        BY <3>3, <2>7, <1>1
      <4>2. l[k] = Rest(i + 1)[k - 1]
        <5>1. Len(c) = 1 /\ Len(Rest(i + 1)) = Len(q) - i
          BY <2>4, <2>5
        <5>2. k \in Len(c) + 1 .. Len(c) + Len(Rest(i + 1)) /\ k - Len(c) = k - 1
          BY <4>1, <5>1, <1>1
        <5> QED BY <5>2, <2>6
      <4>3. Rest(i + 1)[k - 1] = q[i + (k - 1)] /\ i + (k - 1) = i + k - 1
        BY <4>1, <2>5, <1>1
      <4> QED BY <3>1, <4>2, <4>3
    <3> QED BY <3>2, <3>3
  <2>9. l = Rest(i)
    <3>1. Rest(i) \in Seq(Buffer) /\ l \in Seq(Buffer)
      BY <2>6, <1>2
    <3> QED BY <3>1, <2>7, <2>8, Same
  <2> QED BY <2>2, <2>9
<1>4. Len(q) \in T
  <2>1. Len(q) \in 1 .. Len(q)
    BY <1>1
  <2>2. ChainIn(n, q[Len(q)]) = <<q[Len(q)]>>
    BY <2>1, <1>1, Chains
  <2>3. Rest(Len(q)) = <<q[Len(q)]>>
    <3>1. /\ Rest(Len(q)) \in Seq(Buffer) /\ Len(Rest(Len(q))) = Len(q) - Len(q) + 1
          /\ \A k \in 1 .. Len(q) - Len(q) + 1 : Rest(Len(q))[k] = q[Len(q) + k - 1]
      BY <2>1, <1>2
    <3>2. Len(Rest(Len(q))) = 1 /\ Rest(Len(q))[1] = q[Len(q)]
      BY <3>1, <1>1
    <3> QED BY <3>1, <3>2, <1>1, <2>1
  <2> QED BY <2>1, <2>2, <2>3
<1>5. 1 \in T
  <2> HIDE DEF T
  <2>1. \A i \in 1 .. Len(q) : i \in T
    BY <1>1, <1>3, <1>4, Backwards
  <2> QED BY <2>1, <1>1
<1>6. Rest(1) = q
  <2>1. 1 \in 1 .. Len(q)
    BY <1>1
  <2>2. /\ Rest(1) \in Seq(Buffer) /\ Len(Rest(1)) = Len(q) - 1 + 1
        /\ \A k \in 1 .. Len(q) - 1 + 1 : Rest(1)[k] = q[1 + k - 1]
    BY <2>1, <1>2
  <2>3. Len(Rest(1)) = Len(q) /\ \A k \in 1 .. Len(q) : Rest(1)[k] = q[k]
    BY <2>2, <1>1
  <2> QED BY <2>2, <2>3, <1>1, Same
<1> QED BY <1>5, <1>6

\* A heap: its data, lines of S, and its pointers.
Memory(S, d, n) == d \in [Buffer -> Seq(S)] /\ n \in Table /\ Grounded(n)

\* The first k buffers of p and q are the same, and have the same lines but
\* for the k-th.
AlikeUpTo(k, p, q, d, e) ==
  /\ k \in Nat /\ 0 < k /\ k <= Len(p) /\ k <= Len(q)
  /\ \A i \in 1 .. k : p[i] = q[i]
  /\ \A i \in 1 .. k : i < k => d[p[i]] = e[p[i]]

\* From b on, d and n give some text, and e and o that text and then t.
Grows(d, n, e, o, b, t) == TextIn(e, o, b) = TextIn(d, n, b) \o t

\* Two tables of data along paths with the same first k buffers: if they have
\* the same lines up to the k-th, then what is added to the text from the
\* k-th is added to the text from the first.
LEMMA TextAlong ==
  ASSUME NEW S, NEW d, NEW n, Memory(S, d, n), NEW e, NEW o, Memory(S, e, o),
         NEW p, Path(n, p), NEW q, Path(o, q),
         NEW k, AlikeUpTo(k, p, q, d, e),
         NEW t, t \in Seq(S), Grows(d, n, e, o, p[k], t)
  PROVE  Grows(d, n, e, o, p[1], t)
<1>0. Placed(n, p) /\ Placed(o, q) /\ Reads(d, n, S) /\ Reads(e, o, S)
  BY Places, Text DEF Memory
<1>1. /\ Len(p) \in Nat /\ Len(q) \in Nat
      /\ k \in Nat /\ 0 < k /\ k <= Len(p) /\ k <= Len(q)
      /\ \A i \in 1 .. k : p[i] = q[i]
      /\ \A i \in 1 .. k : i < k => d[p[i]] = e[p[i]]
  BY <1>0 DEF Placed, AlikeUpTo
<1>5. Associative(S)
  BY Regroup
<1> DEFINE T == {i \in 1 .. k : TextIn(e, o, p[i]) = TextIn(d, n, p[i]) \o t}
<1>2. ASSUME NEW i \in 1 .. k, i < k, i + 1 \in T PROVE i \in T
  <2>1. /\ i \in 1 .. Len(p) /\ i # Len(p) /\ i \in 1 .. Len(q) /\ i # Len(q)
        /\ i + 1 \in 1 .. k
    BY <1>1, <1>2
  <2>2. /\ p[i] \in Buffer /\ p[i + 1] \in Buffer
        /\ n[p[i]] = p[i + 1] /\ o[p[i]] = p[i + 1] /\ p[i + 1] # None
    <3>1. n[p[i]] = p[i + 1] /\ p[i] \in Buffer /\ p[i + 1] \in Buffer
      BY <2>1, <1>0 DEF Placed
    <3>2. o[q[i]] = q[i + 1]
      BY <2>1, <1>0 DEF Placed
    <3>3. p[i] = q[i] /\ p[i + 1] = q[i + 1]
      BY <2>1, <1>1
    <3> QED BY <3>1, <3>2, <3>3, LoggerAssumption
  <2> DEFINE a == d[p[i]]
             b == TextIn(d, n, p[i + 1])
  <2>3. a \in Seq(S) /\ b \in Seq(S)
    <3>1. a \in Seq(S)
      BY <2>2 DEF Memory
    <3>2. b \in Seq(S)
      BY <2>2, <1>0 DEF Reads
    <3> QED BY <3>1, <3>2
  <2>4. TextIn(d, n, p[i]) = a \o b
    BY <2>2, <1>0 DEF Reads
  <2>5. TextIn(e, o, p[i]) = a \o TextIn(e, o, p[i + 1])
    <3>1. e[p[i]] = a
      BY <1>1, <1>2
    <3>2. TextIn(e, o, p[i]) = e[p[i]] \o TextIn(e, o, p[i + 1])
      BY <2>2, <1>0 DEF Reads
    <3> QED BY <3>1, <3>2
  <2>6. TextIn(e, o, p[i + 1]) = b \o t
    BY <1>2
  <2> HIDE DEF a, b
  <2>7. (a \o b) \o t = a \o (b \o t)
    <3>1. t \in Seq(S)
      OBVIOUS
    <3> QED BY <2>3, <3>1, <1>5 DEF Associative
  <2> QED BY <2>4, <2>5, <2>6, <2>7
<1>3. k \in T
  BY <1>1 DEF Grows
<1>4. 1 \in T
  <2> HIDE DEF T
  <2>1. \A i \in 1 .. k : i \in T
    BY <1>1, <1>2, <1>3, Backwards
  <2> QED BY <2>1, <1>1
<1> QED BY <1>4 DEF Grows

\* Where the list of a path starts.
HeadOf(q) == IF Len(q) = 0 THEN None ELSE q[1]

\* So the text along a path is what its buffers have.
LEMMA SameText ==
  ASSUME NEW S, NEW d, NEW n, Memory(S, d, n), NEW e, NEW o, Memory(S, e, o),
         NEW p, Path(n, p), Path(o, p),
         \A b \in ToSet(p) : d[b] = e[b]
  PROVE  TextIn(e, o, HeadOf(p)) = TextIn(d, n, HeadOf(p))
<1>0. Placed(n, p) /\ Placed(o, p) /\ Reads(d, n, S) /\ Reads(e, o, S)
  BY Places, Text DEF Memory
<1>e. CASE Len(p) = 0
  BY <1>0, <1>e DEF HeadOf, Reads
<1>f. CASE Len(p) > 0
  <2> DEFINE k == Len(p)
  <2>1. p \in Seq(Buffer) /\ k \in Nat /\ k \in 1 .. k /\ 1 \in 1 .. k /\ HeadOf(p) = p[1]
    BY <1>0, <1>f DEF Placed, HeadOf
  <2>2. \A i \in 1 .. k : p[i] \in Buffer /\ d[p[i]] = e[p[i]]
    BY <2>1, Elements
  <2>3. n[p[k]] = None /\ o[p[k]] = None
    BY <1>0, <2>1 DEF Placed
  <2>4. TextIn(e, o, p[k]) = e[p[k]] /\ TextIn(d, n, p[k]) = d[p[k]]
    BY <1>0, <2>1, <2>2, <2>3 DEF Reads
  <2>5. \A s \in Seq(S) : s \o <<>> = s
    OBVIOUS
  <2>6. <<>> \in Seq(S) /\ d[p[k]] \in Seq(S) /\ e[p[k]] = d[p[k]]
    BY <2>1, <2>2 DEF Memory
  <2>7. TextIn(e, o, p[k]) = TextIn(d, n, p[k]) \o <<>>
    BY <2>4, <2>5, <2>6
  <2>8. TextIn(e, o, p[1]) = TextIn(d, n, p[1]) \o <<>>
    <3> HIDE DEF k
    <3>1. 0 < k /\ k <= Len(p)
      BY <2>1 DEF k
    <3>2. AlikeUpTo(k, p, p, d, e)
      BY <3>1, <2>1, <2>2 DEF AlikeUpTo
    <3> DEFINE t == <<>>
    <3>3. t \in Seq(S) /\ Grows(d, n, e, o, p[k], t)
      BY <2>6, <2>7 DEF Grows
    <3> HIDE DEF t
    <3>4. Grows(d, n, e, o, p[1], t)
      BY <3>2, <3>3, TextAlong
    <3> QED BY <3>4 DEF t, Grows
  <2>9. TextIn(d, n, p[1]) \in Seq(S)
    BY <1>0, <2>1, <2>2 DEF Reads
  <2> QED BY <2>1, <2>5, <2>8, <2>9
<1> QED BY <1>0, <1>e, <1>f DEF Placed
----------------------------------------------------------------------------
\* How paths change.

\* A path whose pointers are kept is one still.
LEMMA KeptPath ==
  ASSUME NEW n, NEW o, NEW q, Path(n, q), \A b \in ToSet(q) : o[b] = n[b]
  PROVE  Path(o, q)
<1>1. q \in Seq(Buffer)
  BY DEF Path
<1>2. \A i \in 1 .. Len(q) : o[q[i]] = n[q[i]]
  BY <1>1, Elements
<1> QED BY <1>2 DEF Path

\* A path grows at its end.
LEMMA LongerPath ==
  ASSUME NEW n \in Table, NEW q, Path(n, q), IsInjective(q), Len(q) > 0,
         NEW b \in Buffer, b \notin ToSet(q), n[b] = None,
         NEW o, o = [n EXCEPT ![q[Len(q)]] = b]
  PROVE  /\ Path(o, Append(q, b)) /\ IsInjective(Append(q, b))
         /\ ToSet(Append(q, b)) = ToSet(q) \cup {b}
<1> DEFINE g == Append(q, b)
<1>0. Placed(n, q)
  BY Places
<1>1. q \in Seq(Buffer) /\ Len(q) \in Nat /\ DOMAIN q = 1 .. Len(q)
  BY DEF Path
<1>2. /\ g \in Seq(Buffer) /\ Len(g) = Len(q) + 1 /\ DOMAIN g = 1 .. Len(q) + 1
      /\ \A i \in 1 .. Len(q) : g[i] = q[i]
      /\ g[Len(q) + 1] = b
  BY <1>1
<1> HIDE DEF g
<1>3. \A i \in 1 .. Len(q) : q[i] \in Buffer /\ q[i] \in ToSet(q) /\ q[i] # b
  BY <1>1, Elements
<1>4. o[q[Len(q)]] = b /\ \A c \in Buffer : c # q[Len(q)] => o[c] = n[c]
  BY <1>1, <1>3 DEF Table
<1>5. ASSUME NEW i \in 1 .. Len(g)
      PROVE  o[g[i]] = IF i = Len(g) THEN None ELSE g[i + 1]
  <2>1. CASE i = Len(q) + 1
    <3>1. g[i] = b /\ b # q[Len(q)]
      BY <2>1, <1>1, <1>2, <1>3
    <3> QED BY <3>1, <2>1, <1>2, <1>4
  <2>2. CASE i = Len(q)
    <3>1. g[i] = q[Len(q)] /\ g[i + 1] = b /\ i # Len(g)
      BY <2>2, <1>1, <1>2
    <3> QED BY <3>1, <1>4
  <2>3. CASE i # Len(q) /\ i # Len(q) + 1
    <3>1. i \in 1 .. Len(q) /\ i + 1 \in 1 .. Len(q) /\ i # Len(g)
      BY <2>3, <1>1, <1>2
    <3>2. g[i] = q[i] /\ g[i + 1] = q[i + 1]
      BY <3>1, <1>2
    <3>3. q[i] # q[Len(q)]
      <4>1. i \in DOMAIN q /\ Len(q) \in DOMAIN q
        BY <3>1, <1>1
      <4> QED BY <4>1, <2>3 DEF IsInjective
    <3>4. n[q[i]] = q[i + 1]
      BY <3>1, <2>3, <1>0 DEF Placed
    <3> QED BY <3>1, <3>2, <3>3, <3>4, <1>3, <1>4
  <2> QED BY <2>1, <2>2, <2>3
<1>6. IsInjective(g)
  <2> SUFFICES ASSUME NEW i \in 1 .. Len(q) + 1, NEW j \in 1 .. Len(q) + 1, g[i] = g[j]
               PROVE  i = j
    BY <1>2 DEF IsInjective
  <2>1. CASE i = Len(q) + 1
    BY <2>1, <1>1, <1>2, <1>3
  <2>2. CASE j = Len(q) + 1
    BY <2>2, <1>1, <1>2, <1>3
  <2>3. CASE i # Len(q) + 1 /\ j # Len(q) + 1
    <3>1. i \in DOMAIN q /\ j \in DOMAIN q
      BY <2>3, <1>1
    <3>2. q[i] = q[j]
      BY <3>1, <1>1, <1>2
    <3> QED BY <3>1, <3>2 DEF IsInjective
  <2> QED BY <2>1, <2>2, <2>3
<1>7. ToSet(g) = ToSet(q) \cup {b}
  <2>1. ASSUME NEW c \in ToSet(g) PROVE c \in ToSet(q) \cup {b}
    <3>1. PICK i \in 1 .. Len(q) + 1 : c = g[i]
      BY <2>1, <1>2 DEF ToSet
    <3>2. CASE i = Len(q) + 1
      BY <3>1, <3>2, <1>2
    <3>3. CASE i # Len(q) + 1
      <4>1. i \in 1 .. Len(q)
        BY <3>3, <1>1
      <4> QED BY <4>1, <3>1, <1>2, <1>3
    <3> QED BY <3>2, <3>3
  <2>2. ASSUME NEW c \in ToSet(q) PROVE c \in ToSet(g)
    <3>1. PICK i \in 1 .. Len(q) : c = q[i]
      BY <1>1, Elements
    <3>2. i \in DOMAIN g /\ c = g[i]
      BY <3>1, <1>1, <1>2
    <3> QED BY <3>2 DEF ToSet
  <2>3. b \in ToSet(g)
    <3>1. Len(q) + 1 \in DOMAIN g
      BY <1>1, <1>2
    <3> QED BY <3>1, <1>2 DEF ToSet
  <2> QED BY <2>1, <2>2, <2>3
<1>8. Path(o, g)
  BY <1>2, <1>5 DEF Path
<1> QED BY <1>6, <1>7, <1>8 DEF g

\* Sequences over S are sequences over more.
LEMMA Wider ==
  ASSUME NEW S, NEW T, S \subseteq T
  PROVE  Seq(S) \subseteq Seq(T)
OBVIOUS
----------------------------------------------------------------------------
\* The invariant of the buffers.  F are the buffers of the front end, W those
\* of the worker's list, each from its head on.

SpareSet == {next_buffer, new_buffer1, new_buffer2} \ {None}

\* The front end's list, its current buffer and its path.
FrontIs(l, c, F) ==
  /\ Len(F) = l.size + 1
  /\ F[Len(F)] = c
  /\ IF l.size = 0 THEN l = EmptyList ELSE l.head = F[1] /\ l.tail = F[l.size]

\* The worker's list and its path.
WorkIs(l, W) ==
  /\ Len(W) = l.size
  /\ IF l.size = 0 THEN l = EmptyList ELSE l.head = W[1] /\ l.tail = W[l.size]

\* What is allocated is in one of them or spare, and what is in neither is
\* clean.
Owned(F, W) ==
  /\ alloc = ToSet(F) \cup ToSet(W) \cup SpareSet
  /\ SpareSet \cap (ToSet(F) \cup ToSet(W)) = {}
  /\ next_buffer # None => next_buffer # new_buffer1 /\ next_buffer # new_buffer2
  /\ new_buffer1 # None => new_buffer1 # new_buffer2
  /\ \A b \in Buffer \ (ToSet(F) \cup ToSet(W)) : data[b] = <<>>

\* All but the last have lines.
Filled(q) == \A i \in 1 .. Len(q) : i # Len(q) => data[q[i]] # <<>>

\* What the worker has where it is, and so what it will find.
Stage(W) ==
  /\ pc # "start" => handle # None
  /\ pc = "start" => new_buffer1 = None /\ new_buffer2 = None
  /\ pc \in {"start", "loop", "lock", "done"} => Len(W) = 0
  /\ pc \in {"loop", "lock", "done"} => new_buffer1 # None /\ new_buffer2 # None
  /\ pc \in {"notice", "cut", "write", "recycle"} => new_buffer1 = None
  /\ pc \in {"notice", "cut"} => Len(W) > 2
  /\ pc \in {"write", "recycle"} => Len(W) > 0 /\ (new_buffer2 = None => Len(W) > 1)

\* What append() needs, and keeps.
Ready(F, W) ==
  /\ Shape(next, F, W)
  /\ FrontIs(buffers, curr_buffer, F)
  /\ WorkIs(buffers_to_write, W)
  /\ Owned(F, W)
  /\ Filled(F) /\ Filled(W)
  /\ next_buffer = None => Len(F) > 1

Sound(F, W) == Ready(F, W) /\ Stage(W)

\* The heads of the lists are those of their paths.
LEMMA FrontHeads ==
  ASSUME NEW l \in List, NEW c, NEW F, F \in Seq(Buffer), FrontIs(l, c, F)
  PROVE  /\ Len(F) > 0 /\ Len(F) \in Nat
         /\ (IF l.head = None THEN c ELSE l.head) = F[1]
         /\ HeadOf(F) = F[1]
         /\ l.head = None <=> l.size = 0
<1>1. l.size \in Nat /\ Len(F) = l.size + 1 /\ F[Len(F)] = c
  BY DEF List, FrontIs
<1>2. F[1] \in Buffer /\ F[1] # None
  BY <1>1, LoggerAssumption
<1>3. CASE l.size = 0
  <2>1. l.head = None
    BY <1>3 DEF FrontIs, EmptyList
  <2> QED BY <1>1, <1>3, <2>1 DEF HeadOf
<1>4. CASE l.size # 0
  <2>1. l.head = F[1]
    BY <1>4 DEF FrontIs
  <2> QED BY <1>1, <1>2, <1>4, <2>1 DEF HeadOf
<1> QED BY <1>3, <1>4

LEMMA WorkHeads ==
  ASSUME NEW l \in List, NEW W, W \in Seq(Buffer), WorkIs(l, W)
  PROVE  l.head = HeadOf(W)
<1>1. CASE l.size = 0
  BY <1>1 DEF WorkIs, EmptyList, HeadOf
<1>2. CASE l.size # 0
  BY <1>2 DEF WorkIs, HeadOf
<1> QED BY <1>1, <1>2

----------------------------------------------------------------------------
(* append *)

\* What AppendLine touches, and is typed.
HeapTypeOK ==
  /\ alloc \subseteq Buffer
  /\ data \in [Buffer -> Seq(1 .. lines)]
  /\ next \in [Buffer -> Buffer \cup {None}]
  /\ curr_buffer \in Buffer
  /\ next_buffer \in Buffer \cup {None}
  /\ buffers \in List
  /\ lines \in Nat

\* The two texts.
FrontText == TextIn(data, next, FrontHead)
WorkText == TextIn(data, next, buffers_to_write.head)

\* They are the contents of the two lists.
LEMMA TextNow ==
  /\ Contents(FrontHead) = FrontText
  /\ Contents(buffers_to_write.head) = WorkText
BY DEF Contents, TextIn, FrontText, WorkText

LEMMA TextNext ==
  /\ Contents(FrontHead)' = FrontText'
  /\ Contents(buffers_to_write.head)' = WorkText'
BY DEF Contents, TextIn, FrontText, WorkText

\* The line fits: the buffers stay, and the current one has it.
LEMMA FitsOK ==
  ASSUME HeapTypeOK, buffers_to_write \in List, NEW F, NEW W, Ready(F, W), AppendFits,
         UNCHANGED <<new_buffer1, new_buffer2, buffers_to_write>>,
         lines' = lines + 1
  PROVE  /\ HeapTypeOK' /\ Ready(F, W)'
         /\ FrontText' = FrontText \o <<lines + 1>>
         /\ WorkText' = WorkText
<1>1. /\ data' = [data EXCEPT ![curr_buffer] = Append(@, lines + 1)]
      /\ UNCHANGED <<alloc, next, curr_buffer, next_buffer, buffers>>
  BY DEF AppendFits, shared
<1> DEFINE S == 1 .. lines + 1
           t == <<lines + 1>>
<1>2. data \in [Buffer -> Seq(S)] /\ t \in Seq(S)
  <2>1. 1 .. lines \subseteq S /\ lines + 1 \in S
    BY DEF HeapTypeOK
  <2>2. Seq(1 .. lines) \subseteq Seq(S)
    BY <2>1, Wider
  <2> HIDE DEF S
  <2> QED BY <2>1, <2>2 DEF HeapTypeOK
<1>3. /\ data' \in [Buffer -> Seq(S)]
      /\ data'[curr_buffer] = data[curr_buffer] \o t
      /\ data'[curr_buffer] # <<>>
      /\ \A b \in Buffer : b # curr_buffer => data'[b] = data[b]
  <2>1. lines + 1 \in S /\ data[curr_buffer] \in Seq(S) /\ curr_buffer \in Buffer
    BY <1>2 DEF HeapTypeOK
  <2> HIDE DEF S
  <2>2. /\ Append(data[curr_buffer], lines + 1) \in Seq(S)
        /\ Append(data[curr_buffer], lines + 1) = data[curr_buffer] \o t
        /\ Append(data[curr_buffer], lines + 1) # <<>>
    BY <2>1
  <2> DEFINE more == Append(data[curr_buffer], lines + 1)
  <2>3. data' = [data EXCEPT ![curr_buffer] = more]
    BY <1>1
  <2>4. more \in Seq(S) /\ more = data[curr_buffer] \o t /\ more # <<>>
    BY <2>2
  <2> HIDE DEF more, t
  <2> QED BY <1>2, <2>1, <2>3, <2>4
<1>4. HeapTypeOK'
  <2> HIDE DEF S
  <2>1. data' \in [Buffer -> Seq(1 .. lines')] /\ lines' \in Nat
    BY <1>3 DEF S, HeapTypeOK
  <2> QED BY <1>1, <2>1 DEF HeapTypeOK
<1> HIDE DEF S
<1>5. /\ Path(next, F) /\ Path(next, W) /\ F \in Seq(Buffer) /\ W \in Seq(Buffer)
      /\ ToSet(F) \cap ToSet(W) = {} /\ Shape(next, F, W) /\ next \in Table
      /\ Len(F) \in Nat /\ Len(F) > 0 /\ F[Len(F)] = curr_buffer
      /\ curr_buffer \in ToSet(F)
  <2>1. Path(next, F) /\ Path(next, W) /\ F \in Seq(Buffer) /\ W \in Seq(Buffer)
    BY DEF Ready, Shape, Path
  <2>2. Len(F) \in Nat /\ Len(F) > 0 /\ F[Len(F)] = curr_buffer
    BY <2>1, FrontHeads DEF Ready, HeapTypeOK, FrontIs
  <2>3. curr_buffer \in ToSet(F)
    BY <2>1, <2>2, Elements
  <2> QED BY <2>1, <2>2, <2>3 DEF Ready, Shape, HeapTypeOK, Table
<1>6. Ready(F, W)'
  <2>1. Owned(F, W)'
    BY <1>1, <1>3, <1>5 DEF Ready, Owned, SpareSet
  <2>2. Filled(F)' /\ Filled(W)'
    <3>1. ASSUME NEW q, q \in {F, W}, NEW i \in 1 .. Len(q), i # Len(q)
          PROVE  data'[q[i]] # <<>>
      <4>1. q[i] \in Buffer /\ data[q[i]] # <<>>
        BY <1>5, <3>1 DEF Ready, Filled
      <4> QED BY <1>3, <4>1
    <3> QED BY <3>1 DEF Filled
  <2> QED BY <1>1, <2>1, <2>2 DEF Ready
<1>7. Grounded(next)
  BY <1>5, Rooted
<1>8. Memory(S, data, next) /\ Memory(S, data', next)
  BY <1>2, <1>3, <1>5, <1>7 DEF Memory
<1>9. WorkText' = WorkText
  <2>1. TextIn(data', next, HeadOf(W)) = TextIn(data, next, HeadOf(W))
    <3>1. \A b \in ToSet(W) : b \in Buffer /\ b # curr_buffer
      BY <1>5, Elements
    <3>2. \A b \in ToSet(W) : data[b] = data'[b]
      BY <3>1, <1>3
    <3> QED BY <3>2, <1>5, <1>8, SameText
  <2>2. buffers_to_write.head = HeadOf(W) /\ buffers_to_write' = buffers_to_write
    BY <1>5, WorkHeads DEF Ready
  <2> QED BY <1>1, <2>1, <2>2 DEF WorkText
<1>10. FrontText' = FrontText \o t
  <2> DEFINE k == Len(F)
  <2>1. AlikeUpTo(k, F, F, data, data')
    <3>1. \A i \in 1 .. k : i < k => data[F[i]] = data'[F[i]]
      <4> SUFFICES ASSUME NEW i \in 1 .. k, i < k PROVE data[F[i]] = data'[F[i]]
        OBVIOUS
      <4>1. F[i] \in Buffer /\ F[i] # F[k]
        <5>1. i \in DOMAIN F /\ k \in DOMAIN F /\ i # k
          BY <1>5
        <5> QED BY <1>5, <5>1 DEF Shape, IsInjective
      <4> QED BY <4>1, <1>3, <1>5
    <3> QED BY <3>1, <1>5 DEF AlikeUpTo
  <2>3. Grows(data, next, data', next, F[k], t)
    <3>1. Reads(data, next, S) /\ Reads(data', next, S)
      BY <1>8, Text DEF Memory
    <3>2. next[F[k]] = None /\ F[k] \in Buffer
      <4>1. Placed(next, F) /\ k \in 1 .. Len(F)
        BY <1>5, Places
      <4> QED BY <4>1 DEF Placed
    <3>3. TextIn(data, next, F[k]) = data[F[k]] /\ TextIn(data', next, F[k]) = data'[F[k]]
      BY <3>1, <3>2 DEF Reads
    <3> QED BY <3>3, <1>3, <1>5 DEF Grows
  <2>4. Grows(data, next, data', next, F[1], t)
    <3> HIDE DEF k, t
    <3> QED BY <1>2, <1>5, <1>8, <2>1, <2>3, TextAlong
  <2>5. FrontHead = F[1] /\ FrontHead' = F[1]
    <3>1. FrontHead = F[1]
      BY <1>5, FrontHeads DEF Ready, HeapTypeOK, FrontHead
    <3> QED BY <3>1, <1>1 DEF FrontHead
  <2> QED BY <1>1, <2>4, <2>5 DEF FrontText, Grows
<1> QED BY <1>4, <1>6, <1>9, <1>10

\* The line does not fit: the current buffer is linked into the list, and the
\* spare buffer or a new one has the line.
LEMMA FullOK ==
  ASSUME HeapTypeOK, buffers_to_write \in List, NEW F, NEW W, Ready(F, W), AppendFull,
         UNCHANGED <<new_buffer1, new_buffer2, buffers_to_write>>,
         lines' = lines + 1
  PROVE  /\ HeapTypeOK' /\ \E G : Ready(G, W)'
         /\ FrontText' = FrontText \o <<lines + 1>>
         /\ WorkText' = WorkText
<1> DEFINE fresh == Spare
           S == 1 .. lines + 1
           t == <<lines + 1>>
<1>1. /\ buffers' = [head |-> IF buffers.head = None THEN curr_buffer ELSE buffers.head,
                     tail |-> curr_buffer, size |-> buffers.size + 1]
      /\ next' = Linked(curr_buffer, fresh)
      /\ curr_buffer' = fresh /\ next_buffer' = None
      /\ alloc' = alloc \cup {fresh}
      /\ data' = [data EXCEPT ![fresh] = Append(@, lines + 1)]
  BY DEF AppendFull
<1>2. /\ Path(next, F) /\ Path(next, W) /\ F \in Seq(Buffer) /\ W \in Seq(Buffer)
      /\ ToSet(F) \cap ToSet(W) = {} /\ Shape(next, F, W) /\ next \in Table
      /\ IsInjective(F) /\ IsInjective(W)
  BY DEF Ready, Shape, Path, HeapTypeOK, Table
<1>3. /\ Len(F) \in Nat /\ Len(F) > 0 /\ F[Len(F)] = curr_buffer
      /\ FrontHead = F[1] /\ (buffers.head = None <=> buffers.size = 0)
      /\ buffers.size \in Nat /\ Len(F) = buffers.size + 1
      /\ buffers.size # 0 => buffers.tail = F[buffers.size]
  <2>1. FrontIs(buffers, curr_buffer, F) /\ buffers \in List
    BY DEF Ready, HeapTypeOK
  <2>2. /\ Len(F) > 0 /\ Len(F) \in Nat /\ FrontHead = F[1]
        /\ (buffers.head = None <=> buffers.size = 0)
    BY <1>2, <2>1, FrontHeads DEF FrontHead
  <2> QED BY <2>1, <2>2 DEF FrontIs, List
<1>4. \A i \in 1 .. Len(F) : F[i] \in Buffer /\ F[i] \in ToSet(F)
  BY <1>2, Elements
<1>5. /\ fresh \in Buffer /\ fresh \notin ToSet(F) \cup ToSet(W)
      /\ fresh # new_buffer1 /\ fresh # new_buffer2
      /\ next_buffer # None => fresh = next_buffer
  <2>1. CASE next_buffer # None
    <3>1. fresh = next_buffer /\ next_buffer \in SpareSet
      BY <2>1 DEF Spare, SpareSet
    <3> QED BY <2>1, <3>1 DEF Ready, Owned, HeapTypeOK
  <2>2. CASE next_buffer = None
    <3>1. fresh = Calloc(alloc)
      BY <2>2 DEF Spare
    <3>2. fresh \in Buffer \ alloc
      <4>1. \E b : b \in Buffer \ alloc
        BY <2>2 DEF AppendFull, HeapTypeOK
      <4> QED BY <3>1, <4>1 DEF Calloc
    <3>3. \A b \in {new_buffer1, new_buffer2} : b = None \/ b \in alloc
      BY DEF Ready, Owned, SpareSet
    <3>4. ToSet(F) \cup ToSet(W) \subseteq alloc
      BY DEF Ready, Owned
    <3> HIDE DEF fresh
    <3> QED BY <2>2, <3>2, <3>3, <3>4, LoggerAssumption
  <2> QED BY <2>1, <2>2
<1> HIDE DEF fresh
<1>6. next[fresh] = None /\ data[fresh] = <<>>
  BY <1>2, <1>5 DEF Shape, Ready, Owned
<1>7. next' = [next EXCEPT ![curr_buffer] = fresh]
  <2> DEFINE linked == IF buffers.head = None THEN next
                       ELSE [next EXCEPT ![buffers.tail] = curr_buffer]
  <2>1. next' = [linked EXCEPT ![curr_buffer] = fresh]
    BY <1>1 DEF Linked
  <2>2. linked = next
    <3>1. CASE buffers.size = 0
      BY <3>1, <1>3
    <3>2. CASE buffers.size # 0
      <4>1. buffers.size \in 1 .. Len(F) /\ buffers.size # Len(F)
        BY <3>2, <1>3
      <4>2. next[F[buffers.size]] = F[buffers.size + 1]
        BY <4>1, <1>2 DEF Path
      <4>3. next[buffers.tail] = curr_buffer
        BY <3>2, <4>2, <1>3
      <4>4. linked = [next EXCEPT ![buffers.tail] = next[buffers.tail]]
        BY <3>2, <4>3, <1>3
      <4>5. \A b : [next EXCEPT ![b] = next[b]] = next
        BY <1>2 DEF Table
      <4> QED BY <4>4, <4>5
    <3> QED BY <3>1, <3>2
  <2> QED BY <2>1, <2>2
<1>8. /\ data \in [Buffer -> Seq(S)] /\ t \in Seq(S)
      /\ data' \in [Buffer -> Seq(S)] /\ data'[fresh] = t
      /\ \A b \in Buffer : b # fresh => data'[b] = data[b]
  <2>1. 1 .. lines \subseteq S /\ lines + 1 \in S
    BY DEF HeapTypeOK
  <2>2. Seq(1 .. lines) \subseteq Seq(S)
    BY <2>1, Wider
  <2> HIDE DEF S
  <2>3. t \in Seq(S) /\ Append(<<>>, lines + 1) = t
    BY <2>1
  <2>4. data \in [Buffer -> Seq(S)]
    BY <2>2 DEF HeapTypeOK
  <2>5. data' = [data EXCEPT ![fresh] = t]
    BY <1>1, <1>6, <2>3
  <2> HIDE DEF t
  <2> QED BY <2>3, <2>4, <2>5, <1>5
<1>9. next' \in Table /\ curr_buffer \in Buffer
      /\ \A b \in Buffer : b # curr_buffer => next'[b] = next[b]
  BY <1>2, <1>5, <1>7 DEF Table, HeapTypeOK
<1>10. HeapTypeOK'
  <2>1. data' \in [Buffer -> Seq(1 .. lines')] /\ lines' \in Nat
    BY <1>8 DEF HeapTypeOK
  <2>2. buffers' \in List
    BY <1>1, <1>3 DEF List, HeapTypeOK
  <2> HIDE DEF S
  <2> QED BY <1>1, <1>5, <1>9, <2>1, <2>2 DEF HeapTypeOK, Table
<1> HIDE DEF S, t
<1>a. PICK G : G = Append(F, fresh)
  OBVIOUS
<1>11. /\ Path(next', G) /\ IsInjective(G) /\ ToSet(G) = ToSet(F) \cup {fresh}
       /\ G \in Seq(Buffer) /\ Len(G) = Len(F) + 1
       /\ \A i \in 1 .. Len(F) : G[i] = F[i]
       /\ G[Len(F) + 1] = fresh
  <2>1. next' = [next EXCEPT ![F[Len(F)]] = fresh]
    BY <1>3, <1>7
  <2>2. Path(next', G) /\ IsInjective(G) /\ ToSet(G) = ToSet(F) \cup {fresh}
    BY <2>1, <1>a, <1>2, <1>3, <1>5, <1>6, LongerPath
  <2>3. /\ G \in Seq(Buffer) /\ Len(G) = Len(F) + 1
        /\ \A i \in 1 .. Len(F) : G[i] = F[i]
        /\ G[Len(F) + 1] = fresh
    BY <1>a, <1>2, <1>5
  <2> QED BY <2>2, <2>3
<1>12. curr_buffer \in ToSet(F) /\ curr_buffer \notin ToSet(W) /\ curr_buffer # fresh
  <2>1. curr_buffer \in ToSet(F)
    <3>1. Len(F) \in 1 .. Len(F)
      BY <1>3
    <3> QED BY <3>1, <1>3, <1>4
  <2> QED BY <2>1, <1>2, <1>5
<1>13. Path(next', W)
  <2>1. \A b \in ToSet(W) : next'[b] = next[b]
    BY <1>2, <1>9, <1>12, Elements
  <2> QED BY <2>1, <1>2, KeptPath
<1>14. Shape(next', G, W)
  BY <1>2, <1>5, <1>9, <1>11, <1>12, <1>13 DEF Shape
<1>15. FrontIs(buffers', curr_buffer', G)
  <2>1. /\ buffers'.size = buffers.size + 1 /\ buffers'.tail = curr_buffer
        /\ buffers'.head = FrontHead
    BY <1>1 DEF FrontHead
  <2>2. Len(G) = buffers'.size + 1 /\ buffers'.size # 0
    BY <2>1, <1>3, <1>11
  <2>3. G[Len(G)] = curr_buffer'
    BY <1>1, <1>11
  <2>4. buffers'.head = G[1] /\ buffers'.tail = G[buffers'.size]
    <3>1. 1 \in 1 .. Len(F) /\ Len(F) \in 1 .. Len(F) /\ buffers'.size = Len(F)
      BY <2>1, <1>3
    <3> QED BY <3>1, <2>1, <1>3, <1>11
  <2> QED BY <2>2, <2>3, <2>4 DEF FrontIs
<1>16. Owned(G, W)'
  <2>1. SpareSet' = {new_buffer1, new_buffer2} \ {None}
    BY <1>1 DEF SpareSet
  <2>2. alloc' = ToSet(G) \cup ToSet(W) \cup SpareSet'
    <3>1. SpareSet \cup {fresh} = SpareSet' \cup {fresh}
      BY <2>1, <1>5 DEF SpareSet
    <3> QED BY <3>1, <1>1, <1>11 DEF Ready, Owned
  <2>3. SpareSet' \cap (ToSet(G) \cup ToSet(W)) = {}
    <3>1. SpareSet' \subseteq SpareSet /\ fresh \notin SpareSet'
      BY <2>1, <1>5 DEF SpareSet
    <3> QED BY <3>1, <1>11 DEF Ready, Owned
  <2>4. \A b \in Buffer \ (ToSet(G) \cup ToSet(W)) : data'[b] = <<>>
    BY <1>8, <1>11 DEF Ready, Owned
  <2>5. new_buffer1' # None => new_buffer1' # new_buffer2'
    BY DEF Ready, Owned
  <2> QED BY <2>2, <2>3, <2>4, <2>5, <1>1 DEF Owned
<1>17. Filled(G)' /\ Filled(W)'
  <2>1. ASSUME NEW i \in 1 .. Len(G), i # Len(G) PROVE data'[G[i]] # <<>>
    <3>1. i \in 1 .. Len(F) /\ G[i] = F[i] /\ F[i] \in Buffer /\ F[i] # fresh
      BY <2>1, <1>3, <1>4, <1>5, <1>11
    <3>2. data'[G[i]] = data[F[i]]
      BY <3>1, <1>8
    <3>3. CASE i = Len(F)
      <4>1. ~Fits /\ curr_buffer = F[i]
        BY <3>3, <1>3 DEF AppendFull
      <4>2. Len(data[curr_buffer]) + 1 >= BufferSize
        <5>1. data[curr_buffer] \in Seq(S)
          BY <1>8, <1>9
        <5>2. Len(data[curr_buffer]) \in Nat /\ BufferSize \in Nat
          BY <5>1, LoggerAssumption
        <5> QED BY <4>1, <5>2 DEF Fits
      <4>3. BufferSize > 1
        BY LoggerAssumption
      <4>4. data[curr_buffer] # <<>>
        <5>1. Len(<<>>) = 0
          OBVIOUS
        <5> QED BY <4>2, <4>3, <5>1, LoggerAssumption
      <4> QED BY <3>2, <4>1, <4>4
    <3>4. CASE i # Len(F)
      BY <3>1, <3>2, <3>4 DEF Ready, Filled
    <3> QED BY <3>3, <3>4
  <2>2. ASSUME NEW i \in 1 .. Len(W), i # Len(W) PROVE data'[W[i]] # <<>>
    <3>1. W[i] \in Buffer /\ W[i] \in ToSet(W)
      BY <1>2, Elements
    <3>2. data'[W[i]] = data[W[i]]
      BY <3>1, <1>5, <1>8
    <3> QED BY <3>2, <2>2 DEF Ready, Filled
  <2> QED BY <2>1, <2>2 DEF Filled
<1>18. Ready(G, W)'
  <2>1. WorkIs(buffers_to_write', W)
    BY DEF Ready
  <2>2. Len(G) > 1
    BY <1>3, <1>11
  <2> QED BY <2>1, <2>2, <1>14, <1>15, <1>16, <1>17 DEF Ready
<1>19. Memory(S, data, next) /\ Memory(S, data', next')
  BY <1>2, <1>8, <1>9, <1>14, Rooted DEF Memory
<1>20. WorkText' = WorkText
  <2>1. TextIn(data', next', HeadOf(W)) = TextIn(data, next, HeadOf(W))
    <3>1. \A b \in ToSet(W) : data[b] = data'[b]
      BY <1>2, <1>5, <1>8, Elements
    <3> QED BY <3>1, <1>2, <1>13, <1>19, SameText
  <2>2. buffers_to_write.head = HeadOf(W) /\ buffers_to_write' = buffers_to_write
    BY <1>2, WorkHeads DEF Ready
  <2> QED BY <2>1, <2>2 DEF WorkText
<1>21. FrontText' = FrontText \o t
  <2> DEFINE k == Len(F)
  <2>1. AlikeUpTo(k, F, G, data, data')
    <3>1. \A i \in 1 .. k : data[F[i]] = data'[F[i]]
      BY <1>4, <1>5, <1>8
    <3>2. Len(G) = k + 1 /\ k \in Nat /\ 0 < k
      BY <1>3, <1>11
    <3>3. k <= Len(F) /\ k <= Len(G)
      BY <3>2
    <3>4. \A i \in 1 .. k : F[i] = G[i]
      BY <1>11
    <3> QED BY <3>1, <3>2, <3>3, <3>4 DEF AlikeUpTo
  <2>2. Grows(data, next, data', next', F[k], t)
    <3>1. Reads(data, next, S) /\ Reads(data', next', S)
      BY <1>19, Text DEF Memory
    <3>2. next[F[k]] = None /\ F[k] \in Buffer
      <4>1. Placed(next, F) /\ k \in 1 .. Len(F)
        BY <1>2, <1>3, Places
      <4> QED BY <4>1 DEF Placed
    <3>3. next'[F[k]] = fresh /\ next'[fresh] = None /\ fresh # None
      BY <1>2, <1>3, <1>5, <1>6, <1>7, <1>9, <1>12, LoggerAssumption DEF Table
    <3>4. TextIn(data, next, F[k]) = data[F[k]]
      BY <3>1, <3>2 DEF Reads
    <3>5. TextIn(data', next', F[k]) = data'[F[k]] \o TextIn(data', next', fresh)
      BY <3>1, <3>2, <3>3 DEF Reads
    <3>6. TextIn(data', next', fresh) = t
      BY <3>1, <3>3, <1>5, <1>8 DEF Reads
    <3>7. data'[F[k]] = data[F[k]]
      BY <3>2, <1>3, <1>8, <1>12
    <3> QED BY <3>4, <3>5, <3>6, <3>7 DEF Grows
  <2>3. Grows(data, next, data', next', F[1], t)
    <3>1. t \in Seq(S)
      BY <1>8
    <3> HIDE DEF k
    <3> QED BY <3>1, <1>2, <1>11, <1>19, <2>1, <2>2, TextAlong
  <2>4. FrontHead' = F[1]
    <3>1. buffers'.head = F[1] /\ F[1] # None
      BY <1>1, <1>3, <1>4, LoggerAssumption DEF FrontHead
    <3> QED BY <3>1 DEF FrontHead
  <2> QED BY <2>3, <2>4, <1>3 DEF FrontText, Grows
<1> QED BY <1>10, <1>18, <1>20, <1>21 DEF fresh, t

\* So whatever the case, the line is at the end of the front end's text.
LEMMA AppendOK ==
  ASSUME HeapTypeOK, buffers_to_write \in List, NEW F, NEW W, Ready(F, W), AppendLine,
         UNCHANGED <<new_buffer1, new_buffer2, buffers_to_write>>
  PROVE  /\ HeapTypeOK' /\ \E G : Ready(G, W)'
         /\ FrontText' = FrontText \o <<lines + 1>>
         /\ WorkText' = WorkText
<1>1. lines' = lines + 1
  BY DEF AppendLine
<1>2. CASE AppendFits
  BY <1>1, <1>2, FitsOK
<1>3. CASE AppendFull
  BY <1>1, <1>3, FullOK
<1> QED BY <1>2, <1>3 DEF AppendLine

----------------------------------------------------------------------------
(* worker_func *)

WorkTypeOK ==
  /\ {new_buffer1, new_buffer2} \subseteq Buffer \cup {None}
  /\ buffers_to_write \in List
  /\ pc \in {"start", "loop", "lock", "notice", "cut", "write", "recycle", "done"}
  /\ running \in BOOLEAN /\ front \in {"up", "joining", "closed"}
  /\ written_bytes \in Nat
  /\ notices \subseteq 1 .. lines

OutTypeOK == out \in Seq([line : 1 .. lines, file : File \cup {Stdout}])

\* There are two elements in a set of two or more.
LEMMA TwoFree ==
  ASSUME NEW T, Cardinality(T) >= 2
  PROVE  \E b \in T : T \ {b} # {}
<1>1. T # {}
  <2> SUFFICES ASSUME T = {} PROVE FALSE
    OBVIOUS
  <2>1. Cardinality(T) = 0
    BY FS_EmptySet
  <2> QED BY <2>1
<1>2. PICK b \in T : TRUE
  BY <1>1
<1>3. T # {b}
  <2> SUFFICES ASSUME T = {b} PROVE FALSE
    OBVIOUS
  <2>1. Cardinality(T) = 1
    BY FS_Singleton
  <2> QED BY <2>1
<1> QED BY <1>2, <1>3

\* After a roll there is a file, or stdout.
LEMMA Opened ==
  ASSUME FileTypeOK, NEW bytes \in Nat, rollfile(bytes)
  PROVE  FileTypeOK' /\ handle' # None /\ written_bytes' \in Nat
<1>1. CASE OpenFile(bytes)
  <2>1. PICK now \in {today, today + 1} \cap Day :
          /\ handle' = <<today, IF Reached(bytes) THEN 1 ELSE 0>>
          /\ written_bytes' = IF Reached(bytes) THEN 0 ELSE bytes
          /\ roll_mday' = RollDay(now)
          /\ today' = now
    BY <1>1 DEF OpenFile
  <2>2. handle' \in File
    BY <2>1 DEF File, FileTypeOK
  <2>3. handle' # None
    BY <2>2, LoggerAssumption
  <2> QED BY <2>1, <2>2, <2>3 DEF FileTypeOK, RollDay
<1>2. CASE OpenFails(bytes)
  BY <1>2, LoggerAssumption DEF OpenFails, FileTypeOK
<1>3. CASE StaysOnStdout(bytes)
  BY <1>3, LoggerAssumption DEF StaysOnStdout, FileTypeOK
<1> QED BY <1>1, <1>2, <1>3 DEF rollfile

\* Where nothing is done to the buffers they stay as they are.
LEMMA SameBuffers ==
  ASSUME NEW F, NEW W, Ready(F, W),
         UNCHANGED <<heap, shared, new_buffer1, new_buffer2, buffers_to_write>>
  PROVE  Ready(F, W)' /\ FrontText' = FrontText /\ WorkText' = WorkText
<1>1. UNCHANGED <<alloc, data, next, curr_buffer, next_buffer, buffers,
                  new_buffer1, new_buffer2, buffers_to_write>>
  BY DEF heap, shared
<1>2. Owned(F, W)'
  BY <1>1 DEF Ready, Owned, SpareSet
<1>3. Filled(F)' /\ Filled(W)'
  BY <1>1 DEF Ready, Filled
<1>4. Ready(F, W)'
  BY <1>1, <1>2, <1>3 DEF Ready
<1>5. FrontHead' = FrontHead
  BY <1>1 DEF FrontHead
<1> QED BY <1>1, <1>4, <1>5 DEF FrontText, WorkText

\* Two spare buffers for the worker.
LEMMA StartOK ==
  ASSUME HeapTypeOK, WorkTypeOK, FileTypeOK, NEW F, NEW W, Sound(F, W), Start
  PROVE  /\ HeapTypeOK' /\ WorkTypeOK' /\ Sound(F, W)'
         /\ FrontText' = FrontText /\ WorkText' = WorkText
<1> DEFINE b == Calloc(alloc)
           c == Calloc(alloc \cup {b})
<1>1. /\ pc = "start" /\ pc' = "loop"
      /\ alloc' = alloc \cup {b, c} /\ new_buffer1' = b /\ new_buffer2' = c
      /\ UNCHANGED <<data, next, curr_buffer, next_buffer, buffers, buffers_to_write>>
      /\ UNCHANGED <<running, front, lines, notices, out>>
      /\ rollfile(written_bytes)
  BY DEF Start, shared
<1>2. b \in Buffer \ alloc /\ c \in Buffer \ (alloc \cup {b})
  <2>1. PICK x \in Buffer \ alloc : (Buffer \ alloc) \ {x} # {}
    BY TwoFree DEF Start
  <2>2. b \in Buffer \ alloc
    BY <2>1 DEF Calloc
  <2> HIDE DEF b
  <2>3. \E y : y \in Buffer \ (alloc \cup {b})
    BY <2>1, <2>2
  <2> QED BY <2>2, <2>3 DEF Calloc
<1> HIDE DEF b, c
<1>3. /\ new_buffer1 = None /\ new_buffer2 = None
      /\ Len(W) = 0 /\ Ready(F, W)
  BY <1>1 DEF Sound, Stage
<1>4. b # None /\ c # None /\ b # c
  BY <1>2, LoggerAssumption
<1>5. SpareSet' = SpareSet \cup {b, c}
  BY <1>1, <1>3, <1>4 DEF SpareSet
<1>6. Owned(F, W)'
  <2>1. Owned(F, W)
    BY <1>3 DEF Ready
  <2>2. alloc' = ToSet(F) \cup ToSet(W) \cup SpareSet'
    BY <2>1, <1>1, <1>5 DEF Owned
  <2>3. SpareSet' \cap (ToSet(F) \cup ToSet(W)) = {}
    BY <2>1, <1>2, <1>5 DEF Owned
  <2>4. next_buffer # None => next_buffer # b /\ next_buffer # c
    BY <2>1, <1>2 DEF Owned, SpareSet
  <2> QED BY <2>1, <2>2, <2>3, <2>4, <1>1, <1>4 DEF Owned
<1>7. Filled(F)' /\ Filled(W)'
  BY <1>1, <1>3 DEF Ready, Filled
<1>8. Ready(F, W)'
  BY <1>1, <1>3, <1>6, <1>7 DEF Ready
<1>9. handle' # None /\ written_bytes' \in Nat
  BY <1>1, Opened DEF WorkTypeOK
<1>10. Stage(W)'
  BY <1>1, <1>3, <1>4, <1>9 DEF Stage
<1>11. HeapTypeOK' /\ WorkTypeOK'
  BY <1>1, <1>2, <1>9 DEF HeapTypeOK, WorkTypeOK
<1>12. FrontHead' = FrontHead
  BY <1>1 DEF FrontHead
<1> QED BY <1>1, <1>8, <1>10, <1>11, <1>12 DEF Sound, FrontText, WorkText

\* The worker takes the front end's buffers and gives it one of its own, or two.
LEMMA SwapOK ==
  ASSUME HeapTypeOK, WorkTypeOK, FileTypeOK, NEW F, NEW W, Sound(F, W), Swap
  PROVE  /\ HeapTypeOK' /\ WorkTypeOK' /\ \E G : Sound(G, F)'
         /\ FrontText' = <<>> /\ WorkText' = FrontText /\ WorkText = <<>>
<1>1. /\ pc = "lock"
      /\ pc' = IF buffers_to_write'.size > Limit THEN "notice" ELSE "write"
      /\ buffers_to_write' = WithCurrent /\ buffers' = EmptyList
      /\ curr_buffer' = new_buffer1 /\ new_buffer1' = None
      /\ \/ next_buffer = None /\ next_buffer' = new_buffer2 /\ new_buffer2' = None
         \/ next_buffer # None /\ UNCHANGED <<next_buffer, new_buffer2>>
      /\ UNCHANGED <<alloc, data, next>>
      /\ UNCHANGED <<running, front, lines, notices, out>>
  BY DEF Swap, heap
<1>2. handle' # None /\ written_bytes' \in Nat
  <2>1. CASE rollfile(written_bytes)
    BY <2>1, Opened DEF WorkTypeOK
  <2>2. CASE UNCHANGED <<file, today>>
    BY <2>2, <1>1 DEF Sound, Stage, WorkTypeOK, file
  <2> QED BY <2>1, <2>2 DEF Swap
<1>3. /\ new_buffer1 # None /\ new_buffer2 # None /\ new_buffer1 # new_buffer2
      /\ Len(W) = 0 /\ Ready(F, W) /\ Owned(F, W)
      /\ new_buffer1 \in Buffer /\ new_buffer2 \in Buffer
  BY <1>1 DEF Sound, Stage, Ready, Owned, WorkTypeOK
<1>4. /\ Path(next, F) /\ F \in Seq(Buffer) /\ W \in Seq(Buffer) /\ next \in Table
      /\ Shape(next, F, W) /\ IsInjective(F)
  BY <1>3 DEF Ready, Shape, Path, HeapTypeOK, Table
<1>5. ToSet(W) = {}
  BY <1>3, <1>4 DEF ToSet
<1>6. /\ Len(F) \in Nat /\ Len(F) > 0 /\ F[Len(F)] = curr_buffer /\ FrontHead = F[1]
      /\ buffers.size \in Nat /\ Len(F) = buffers.size + 1
  <2>1. FrontIs(buffers, curr_buffer, F) /\ buffers \in List
    BY <1>3 DEF Ready, HeapTypeOK
  <2> QED BY <1>4, <2>1, FrontHeads DEF FrontHead, FrontIs, List
<1>7. /\ new_buffer1 \notin ToSet(F) /\ next[new_buffer1] = None
      /\ data[new_buffer1] = <<>>
  BY <1>3, <1>4, <1>5 DEF Owned, SpareSet, Shape
<1>8. PICK G : G = <<new_buffer1>>
  OBVIOUS
<1>9. /\ G \in Seq(Buffer) /\ Len(G) = 1 /\ G[1] = new_buffer1 /\ DOMAIN G = {1}
      /\ ToSet(G) = {new_buffer1} /\ IsInjective(G)
  BY <1>3, <1>8 DEF ToSet, IsInjective
<1>10. Shape(next, G, F)
  <2>1. Path(next, G)
    BY <1>7, <1>9 DEF Path
  <2> QED BY <2>1, <1>4, <1>5, <1>7, <1>9 DEF Shape
<1>11. FrontIs(buffers', curr_buffer', G)
  BY <1>1, <1>9 DEF FrontIs, EmptyList
<1>12. WorkIs(buffers_to_write', F)
  <2>1. /\ buffers_to_write'.size = Len(F) /\ buffers_to_write'.head = F[1]
        /\ buffers_to_write'.tail = F[Len(F)]
    BY <1>1, <1>6 DEF WithCurrent, FrontHead
  <2> QED BY <2>1, <1>6 DEF WorkIs
<1>13. Owned(G, F)'
  <2>1. \/ next_buffer = None /\ next_buffer' = new_buffer2 /\ new_buffer2' = None
        \/ next_buffer # None /\ next_buffer' = next_buffer /\ new_buffer2' = new_buffer2
    BY <1>1
  <2>2. SpareSet' \cup {new_buffer1} = SpareSet
    BY <2>1, <1>1, <1>3 DEF SpareSet
  <2>3. new_buffer1 \notin SpareSet'
    BY <2>1, <1>1, <1>3 DEF SpareSet, Owned
  <2>4. alloc' = ToSet(G) \cup ToSet(F) \cup SpareSet'
    BY <2>2, <1>1, <1>3, <1>5, <1>9 DEF Owned
  <2>5. SpareSet' \cap (ToSet(G) \cup ToSet(F)) = {}
    BY <2>2, <2>3, <1>3, <1>9 DEF Owned
  <2>6. next_buffer' # None => next_buffer' # new_buffer1' /\ next_buffer' # new_buffer2'
    BY <2>1, <1>1, <1>3 DEF Owned
  <2>7. \A b \in Buffer \ (ToSet(G) \cup ToSet(F)) : data'[b] = <<>>
    BY <1>1, <1>3, <1>5 DEF Owned
  <2> QED BY <2>4, <2>5, <2>6, <2>7, <1>1 DEF Owned
<1>14. Filled(G)' /\ Filled(F)'
  <2>1. Filled(G)'
    BY <1>9 DEF Filled
  <2> QED BY <2>1, <1>1, <1>3 DEF Ready, Filled
<1>15. next_buffer' # None
  BY <1>1, <1>3
<1>16. Ready(G, F)'
  BY <1>1, <1>10, <1>11, <1>12, <1>13, <1>14, <1>15 DEF Ready
<1>17. Stage(F)'
  <2>1. new_buffer2' = None => Len(F) > 1
    BY <1>1, <1>3 DEF Ready
  <2>2. pc' = "notice" => Len(F) > 2
    <3>1. buffers_to_write'.size = Len(F)
      BY <1>12 DEF WorkIs
    <3>2. Limit \in Nat /\ Limit > 1
      BY LoggerAssumption
    <3> QED BY <3>1, <3>2, <1>1, <1>6
  <2>3. pc' \in {"notice", "write"}
    BY <1>1
  <2> QED BY <2>1, <2>2, <2>3, <1>1, <1>2, <1>6 DEF Stage
<1>18. HeapTypeOK' /\ WorkTypeOK'
  <2>1. EmptyList \in List
    BY DEF EmptyList, List
  <2>2. WithCurrent \in List
    BY <1>6 DEF WithCurrent, List, HeapTypeOK
  <2>3. next_buffer' \in Buffer \cup {None} /\ new_buffer2' \in Buffer \cup {None}
    BY <1>1, <1>3 DEF HeapTypeOK, WorkTypeOK
  <2>4. HeapTypeOK'
    BY <2>1, <2>3, <1>1, <1>3 DEF HeapTypeOK
  <2>5. WorkTypeOK'
    BY <2>2, <2>3, <1>1, <1>2 DEF WorkTypeOK
  <2> QED BY <2>4, <2>5
<1>19. Reads(data, next, 1 .. lines)
  BY <1>4, Rooted, Text DEF HeapTypeOK
<1>20. FrontText' = <<>>
  <2>1. FrontHead' = new_buffer1
    BY <1>1 DEF FrontHead, EmptyList
  <2> QED BY <2>1, <1>1, <1>3, <1>7, <1>19 DEF FrontText, Reads
<1>21. WorkText' = FrontText
  <2>1. buffers_to_write'.head = FrontHead
    BY <1>1 DEF WithCurrent, FrontHead
  <2> QED BY <2>1, <1>1 DEF FrontText, WorkText
<1>22. WorkText = <<>>
  <2>1. buffers_to_write.head = None
    <3>1. WorkIs(buffers_to_write, W) /\ buffers_to_write \in List
      BY <1>3 DEF Ready, WorkTypeOK
    <3>2. buffers_to_write.head = HeadOf(W)
      BY <1>4, <3>1, WorkHeads
    <3> QED BY <3>2, <1>3 DEF HeadOf
  <2> QED BY <2>1, <1>19 DEF WorkText, Reads
<1> QED BY <1>16, <1>17, <1>18, <1>20, <1>21, <1>22 DEF Sound

\* The lists give way to paths: what the pointers lead to from h.
LEMMA ChainNow == \A h : Chain(h) = ChainIn(next, h)
BY DEF Chain, ChainIn

\* A long path without its first two.
LEMMA Suffix ==
  ASSUME NEW n, NEW q, Path(n, q), IsInjective(q), Len(q) > 2
  PROVE  /\ n[q[1]] = q[2] /\ n[q[2]] = q[3] /\ q[1] # q[2]
         /\ {q[1], q[2]} \subseteq ToSet(q) /\ {q[1], q[2], q[3]} \subseteq Buffer
         /\ \E r : /\ Path(n, r) /\ Len(r) > 0 /\ r[1] = q[3]
                   /\ ToSet(r) = ToSet(q) \ {q[1], q[2]}
<1>0. Placed(n, q)
  BY Places
<1>1. q \in Seq(Buffer) /\ Len(q) \in Nat /\ DOMAIN q = 1 .. Len(q)
  BY DEF Path
<1>2. /\ 1 \in 1 .. Len(q) /\ 2 \in 1 .. Len(q) /\ 3 \in 1 .. Len(q)
      /\ 1 # Len(q) /\ 2 # Len(q)
  BY <1>1
<1>3. n[q[1]] = q[2] /\ n[q[2]] = q[3] /\ q[1] \in Buffer /\ q[2] \in Buffer /\ q[3] \in Buffer
  <2>1. n[q[1]] = q[1 + 1] /\ n[q[2]] = q[2 + 1]
    BY <1>0, <1>2 DEF Placed
  <2> QED BY <2>1, <1>1, <1>2
<1>4. q[1] # q[2]
  BY <1>1, <1>2 DEF IsInjective
<1>5. q[1] \in ToSet(q) /\ q[2] \in ToSet(q)
  BY <1>1, <1>2 DEF ToSet
<1> DEFINE r == [k \in 1 .. Len(q) - 2 |-> q[k + 2]]
<1>6. /\ r \in Seq(Buffer) /\ Len(r) = Len(q) - 2 /\ DOMAIN r = 1 .. Len(q) - 2
      /\ \A k \in 1 .. Len(q) - 2 : r[k] = q[k + 2]
  <2>1. Len(q) - 2 \in Nat
    BY <1>1
  <2>2. \A k \in 1 .. Len(q) - 2 : q[k + 2] \in Buffer
    BY <1>1
  <2> QED BY <2>1, <2>2
<1> HIDE DEF r
<1>7. Path(n, r)
  <2> SUFFICES ASSUME NEW i \in 1 .. Len(r)
               PROVE  n[r[i]] = IF i = Len(r) THEN None ELSE r[i + 1]
    BY <1>6 DEF Path
  <2>1. i + 2 \in 1 .. Len(q) /\ r[i] = q[i + 2]
    BY <1>1, <1>6
  <2>2. CASE i = Len(r)
    <3>1. i + 2 = Len(q)
      BY <2>2, <1>1, <1>6
    <3> QED BY <3>1, <2>1, <2>2, <1>0 DEF Placed
  <2>3. CASE i # Len(r)
    <3>1. i + 2 # Len(q) /\ i + 1 \in 1 .. Len(q) - 2
      <4>1. i \in 1 .. Len(q) - 2 /\ i # Len(q) - 2 /\ Len(q) \in Nat
        BY <2>3, <1>1, <1>6
      <4> QED BY <4>1
    <3>2. r[i + 1] = q[(i + 1) + 2]
      BY <3>1, <1>6
    <3>3. n[q[i + 2]] = q[(i + 2) + 1]
      BY <3>1, <2>1, <1>0 DEF Placed
    <3>4. (i + 1) + 2 = (i + 2) + 1
      BY <1>1, <1>6
    <3> QED BY <3>2, <3>3, <3>4, <2>1, <2>3
  <2> QED BY <2>2, <2>3
<1>8. Len(r) > 0 /\ r[1] = q[3]
  BY <1>1, <1>6
<1>9. ToSet(r) = ToSet(q) \ {q[1], q[2]}
  <2>1. ASSUME NEW b \in ToSet(r) PROVE b \in ToSet(q) /\ b # q[1] /\ b # q[2]
    <3>1. PICK k \in 1 .. Len(q) - 2 : b = r[k]
      BY <1>6 DEF ToSet
    <3>2. /\ k + 2 \in DOMAIN q /\ b = q[k + 2] /\ k + 2 # 1 /\ k + 2 # 2
          /\ 1 \in DOMAIN q /\ 2 \in DOMAIN q
      BY <3>1, <1>1, <1>6
    <3> QED BY <3>2 DEF ToSet, IsInjective
  <2>2. ASSUME NEW b \in ToSet(q), b # q[1], b # q[2] PROVE b \in ToSet(r)
    <3>1. PICK k \in 1 .. Len(q) : b = q[k]
      BY <1>1 DEF ToSet
    <3>2. k # 1 /\ k # 2
      BY <3>1, <2>2
    <3>3. k - 2 \in 1 .. Len(q) - 2 /\ (k - 2) + 2 = k
      BY <3>2, <1>1
    <3>4. k - 2 \in DOMAIN r /\ b = r[k - 2]
      BY <3>1, <3>3, <1>6
    <3> QED BY <3>4 DEF ToSet
  <2> QED BY <2>1, <2>2
<1>10. \E s : /\ Path(n, s) /\ Len(s) > 0 /\ s[1] = q[3]
              /\ ToSet(s) = ToSet(q) \ {q[1], q[2]}
  BY <1>7, <1>8, <1>9
<1> QED BY <1>3, <1>4, <1>5, <1>10

\* All but the first two buffers of the list are freed; the text of those two
\* is the beginning of the text, and not empty.
LEMMA CutOK ==
  ASSUME HeapTypeOK, WorkTypeOK, NEW F, NEW W, Sound(F, W), Cut
  PROVE  /\ HeapTypeOK' /\ WorkTypeOK' /\ \E V : Sound(F, V)'
         /\ FrontText' = FrontText
         /\ \E a, r \in Seq(1 .. lines) : a # <<>> /\ WorkText = a \o r /\ WorkText' = a
<1> DEFINE S == 1 .. lines
           second == next[buffers_to_write.head]
           dropped == ToSet(Chain(next[second]))
<1>1. /\ pc = "cut" /\ pc' = "write"
      /\ alloc' = alloc \ dropped
      /\ data' = [b \in Buffer |-> IF b \in dropped THEN <<>> ELSE data[b]]
      /\ next' = [b \in Buffer |-> IF b = second \/ b \in dropped THEN None ELSE next[b]]
      /\ buffers_to_write' = [buffers_to_write EXCEPT !.tail = second, !.size = 2]
      /\ UNCHANGED <<curr_buffer, next_buffer, buffers, new_buffer1, new_buffer2>>
      /\ UNCHANGED <<handle, written_bytes, running, front, lines, notices, out>>
  BY DEF Cut, shared, file
<1>2. /\ Len(W) > 2 /\ new_buffer1 = None /\ handle # None
      /\ Ready(F, W) /\ Owned(F, W) /\ Filled(F) /\ Filled(W)
  BY <1>1 DEF Sound, Stage, Ready
<1>3. /\ Path(next, F) /\ F \in Seq(Buffer) /\ Path(next, W) /\ W \in Seq(Buffer)
      /\ next \in Table /\ Shape(next, F, W) /\ IsInjective(F) /\ IsInjective(W)
      /\ ToSet(F) \cap ToSet(W) = {}
  BY <1>2 DEF Ready, Shape, Path, HeapTypeOK, Table
<1>4. /\ buffers_to_write.head = W[1] /\ buffers_to_write \in List
  <2>1. WorkIs(buffers_to_write, W) /\ buffers_to_write \in List
    BY <1>2 DEF Ready, WorkTypeOK
  <2>2. buffers_to_write.head = HeadOf(W)
    BY <2>1, <1>3, WorkHeads
  <2> QED BY <2>1, <2>2, <1>2 DEF HeadOf
<1>5. /\ next[W[1]] = W[2] /\ next[W[2]] = W[3] /\ W[1] # W[2]
      /\ {W[1], W[2]} \subseteq ToSet(W) /\ {W[1], W[2], W[3]} \subseteq Buffer
  BY <1>2, <1>3, Suffix
<1>6. PICK R : /\ Path(next, R) /\ Len(R) > 0 /\ R[1] = W[3]
               /\ ToSet(R) = ToSet(W) \ {W[1], W[2]}
  BY <1>2, <1>3, Suffix
<1>7. Grounded(next)
  BY <1>3, Rooted
<1>8. second = W[2] /\ dropped = ToSet(W) \ {W[1], W[2]}
  <2>1. second = W[2] /\ next[second] = W[3]
    BY <1>4, <1>5
  <2>2. ChainIn(next, R[1]) = R
    BY <1>3, <1>6, <1>7, ChainOfPath
  <2> QED BY <2>1, <2>2, <1>6, ChainNow
<1> HIDE DEF second, dropped
<1>9. PICK V : V = <<W[1], W[2]>>
  OBVIOUS
<1>10. /\ V \in Seq(Buffer) /\ Len(V) = 2 /\ V[1] = W[1] /\ V[2] = W[2]
       /\ DOMAIN V = {1, 2} /\ ToSet(V) = {W[1], W[2]} /\ IsInjective(V)
  <2>1. V \in Seq(Buffer) /\ Len(V) = 2 /\ V[1] = W[1] /\ V[2] = W[2] /\ DOMAIN V = 1 .. 2
    BY <1>5, <1>9
  <2>2. 1 .. 2 = {1, 2}
    OBVIOUS
  <2> QED BY <2>1, <2>2, <1>5 DEF ToSet, IsInjective
<1>11. ToSet(F) \subseteq Buffer /\ ToSet(W) \subseteq Buffer
  BY <1>3, Elements
<1>12. /\ \A b \in Buffer : b \notin dropped => data'[b] = data[b]
       /\ \A b \in dropped : data'[b] = <<>>
       /\ \A b \in Buffer : b # second /\ b \notin dropped => next'[b] = next[b]
       /\ \A b \in Buffer : b = second \/ b \in dropped => next'[b] = None
       /\ dropped \subseteq Buffer
  BY <1>1, <1>8, <1>11
<1>13. data' \in [Buffer -> Seq(S)] /\ data \in [Buffer -> Seq(S)]
  <2>1. <<>> \in Seq(S) /\ data \in [Buffer -> Seq(S)]
    BY DEF HeapTypeOK
  <2> HIDE DEF S
  <2> QED BY <2>1, <1>1
<1>14. next' \in Table
  BY <1>1, <1>3 DEF Table
<1>15. HeapTypeOK' /\ WorkTypeOK'
  <2>1. buffers_to_write' \in List
    BY <1>1, <1>4, <1>5, <1>8 DEF List
  <2>2. data' \in [Buffer -> Seq(1 .. lines')]
    BY <1>1, <1>13
  <2> HIDE DEF S
  <2> QED BY <2>1, <2>2, <1>1, <1>14 DEF HeapTypeOK, WorkTypeOK, Table
<1> HIDE DEF S
<1>16. Path(next', F)
  <2>1. \A b \in ToSet(F) : next'[b] = next[b]
    BY <1>3, <1>5, <1>8, <1>11, <1>12
  <2> QED BY <2>1, <1>3, KeptPath
<1>17. Path(next', V)
  <2>1. next'[W[1]] = W[2]
    BY <1>5, <1>8, <1>12
  <2>2. next'[W[2]] = None
    BY <1>5, <1>8, <1>12
  <2> SUFFICES ASSUME NEW i \in 1 .. 2
               PROVE  next'[V[i]] = IF i = 2 THEN None ELSE V[i + 1]
    BY <1>10 DEF Path
  <2>3. i = 1 \/ i = 2
    OBVIOUS
  <2> QED BY <2>1, <2>2, <2>3, <1>10
<1>18. Shape(next', F, V)
  <2>1. ToSet(F) \cap ToSet(V) = {}
    BY <1>3, <1>5, <1>10
  <2>2. \A b \in Buffer \ (ToSet(F) \cup ToSet(V)) : next'[b] = None
    <3> SUFFICES ASSUME NEW b \in Buffer \ (ToSet(F) \cup ToSet(V)) PROVE next'[b] = None
      OBVIOUS
    <3>1. CASE b \in dropped
      BY <3>1, <1>12
    <3>2. CASE b \notin dropped
      <4>1. b \notin ToSet(W) /\ b # second
        BY <3>2, <1>8, <1>10
      <4> QED BY <4>1, <3>2, <1>3, <1>12 DEF Shape
    <3> QED BY <3>1, <3>2
  <2> QED BY <2>1, <2>2, <1>3, <1>10, <1>16, <1>17 DEF Shape
<1>19. WorkIs(buffers_to_write', V)
  <2>1. /\ buffers_to_write'.size = 2 /\ buffers_to_write'.head = W[1]
        /\ buffers_to_write'.tail = W[2]
    BY <1>1, <1>4, <1>8 DEF List
  <2> QED BY <2>1, <1>10 DEF WorkIs
<1>20. Owned(F, V)'
  <2>1. SpareSet' = SpareSet
    BY <1>1 DEF SpareSet
  <2>2. alloc' = ToSet(F) \cup ToSet(V) \cup SpareSet
    BY <1>1, <1>2, <1>3, <1>5, <1>8, <1>10 DEF Owned
  <2>3. SpareSet \cap (ToSet(F) \cup ToSet(V)) = {}
    BY <1>2, <1>5, <1>10 DEF Owned
  <2>4. \A b \in Buffer \ (ToSet(F) \cup ToSet(V)) : data'[b] = <<>>
    BY <1>2, <1>8, <1>10, <1>12 DEF Owned
  <2> QED BY <2>1, <2>2, <2>3, <2>4, <1>1, <1>2 DEF Owned
<1>21. data'[W[1]] = data[W[1]] /\ data'[W[2]] = data[W[2]] /\ data[W[1]] # <<>>
  <2>1. 1 \in 1 .. Len(W) /\ 1 # Len(W)
    <3>1. \A m \in Nat : m > 2 => 1 \in 1 .. m /\ 1 # m
      OBVIOUS
    <3>2. Len(W) \in Nat
      BY <1>3
    <3>3. Len(W) > 2
      BY <1>2
    <3> QED BY <3>1, <3>2, <3>3, Zenon
  <2> QED BY <2>1, <1>2, <1>5, <1>8, <1>12 DEF Filled
<1>22. Filled(F)' /\ Filled(V)'
  <2>1. ASSUME NEW i \in 1 .. Len(F), i # Len(F) PROVE data'[F[i]] # <<>>
    <3>1. F[i] \in ToSet(F)
      BY <1>3, Elements
    <3>2. data'[F[i]] = data[F[i]]
      BY <3>1, <1>3, <1>8, <1>11, <1>12
    <3> QED BY <3>2, <2>1, <1>2 DEF Filled
  <2>2. ASSUME NEW i \in 1 .. Len(V), i # Len(V) PROVE data'[V[i]] # <<>>
    <3>1. i = 1
      BY <2>2, <1>10
    <3> QED BY <3>1, <1>10, <1>21
  <2> QED BY <2>1, <2>2 DEF Filled
<1>23. Sound(F, V)'
  <2>1. FrontIs(buffers', curr_buffer', F) /\ (next_buffer' = None => Len(F) > 1)
    BY <1>1, <1>2 DEF Ready
  <2>2. Ready(F, V)'
    BY <2>1, <1>18, <1>19, <1>20, <1>22 DEF Ready
  <2>3. Stage(V)'
    BY <1>1, <1>2, <1>10 DEF Stage
  <2> QED BY <2>2, <2>3 DEF Sound
<1>24. Memory(S, data, next) /\ Memory(S, data', next')
  BY <1>3, <1>7, <1>13, <1>14, <1>18, Rooted DEF Memory
<1>25. FrontText' = FrontText
  <2>1. TextIn(data', next', HeadOf(F)) = TextIn(data, next, HeadOf(F))
    <3>1. \A b \in ToSet(F) : data[b] = data'[b]
      BY <1>3, <1>8, <1>11, <1>12
    <3> QED BY <3>1, <1>3, <1>16, <1>24, SameText
  <2>2. FrontHead = HeadOf(F)
    <3>1. FrontIs(buffers, curr_buffer, F) /\ buffers \in List
      BY <1>2 DEF Ready, HeapTypeOK
    <3> QED BY <3>1, <1>3, FrontHeads DEF FrontHead
  <2>3. FrontHead' = FrontHead
    BY <1>1 DEF FrontHead
  <2> QED BY <2>1, <2>2, <2>3 DEF FrontText
<1>26. \E a, r \in Seq(S) : a # <<>> /\ WorkText = a \o r /\ WorkText' = a
  <2>1. Reads(data, next, S) /\ Reads(data', next', S)
    BY <1>24, Text DEF Memory
  <2> DEFINE x == data[W[1]]
             y == data[W[2]]
             r == TextIn(data, next, W[3])
             xy == x \o y
             yr == y \o r
  <2>2. x \in Seq(S) /\ y \in Seq(S) /\ r \in Seq(S) /\ x # <<>>
    <3>1. x \in Seq(S) /\ y \in Seq(S)
      BY <1>5, <1>13
    <3>2. r \in Seq(S)
      BY <2>1, <1>5 DEF Reads
    <3> QED BY <3>1, <3>2, <1>21
  <2>3. W[2] # None /\ W[3] # None
    BY <1>5, LoggerAssumption
  <2>4. WorkText = x \o yr
    <3>1. TextIn(data, next, W[1]) = x \o TextIn(data, next, W[2])
      BY <2>1, <2>3, <1>5 DEF Reads
    <3>2. TextIn(data, next, W[2]) = yr
      BY <2>1, <2>3, <1>5 DEF Reads
    <3> QED BY <3>1, <3>2, <1>4 DEF WorkText
  <2>5. WorkText' = xy
    <3>1. next'[W[1]] = W[2] /\ next'[W[2]] = None
      BY <1>5, <1>8, <1>12
    <3>2. TextIn(data', next', W[2]) = y
      BY <2>1, <3>1, <1>5, <1>21 DEF Reads
    <3>3. TextIn(data', next', W[1]) = x \o y
      BY <2>1, <2>3, <3>1, <3>2, <1>5, <1>21 DEF Reads
    <3>4. buffers_to_write'.head = W[1]
      BY <1>1, <1>4 DEF List
    <3> QED BY <3>3, <3>4 DEF WorkText
  <2> HIDE DEF x, y, r
  <2>6. xy \o r = x \o yr
    <3>1. Associative(S)
      BY Regroup
    <3> QED BY <3>1, <2>2 DEF Associative
  <2>7. xy \in Seq(S) /\ xy # <<>>
    BY <2>2
  <2> HIDE DEF xy, yr
  <2> QED BY <2>2, <2>4, <2>5, <2>6, <2>7
<1> QED BY <1>15, <1>23, <1>25, <1>26 DEF S

\* The list is empty again, its buffers spare or freed, and clean.
LEMMA RecycleOK ==
  ASSUME HeapTypeOK, WorkTypeOK, NEW F, NEW W, Sound(F, W), Recycle
  PROVE  /\ HeapTypeOK' /\ WorkTypeOK' /\ \E V : Sound(F, V)'
         /\ FrontText' = FrontText /\ WorkText' = <<>>
<1> DEFINE S == 1 .. lines
           first == buffers_to_write.head
           rest == next[first]
           spares == IF new_buffer2 = None THEN {first, rest} ELSE {first}
           chain == ToSet(Chain(first))
<1>1. /\ pc = "recycle" /\ pc' = "loop"
      /\ new_buffer1' = first
      /\ new_buffer2' = IF new_buffer2 = None THEN rest ELSE new_buffer2
      /\ data' = [b \in Buffer |-> IF b \in chain THEN <<>> ELSE data[b]]
      /\ next' = [b \in Buffer |-> IF b \in chain THEN None ELSE next[b]]
      /\ alloc' = alloc \ (chain \ spares)
      /\ buffers_to_write' = EmptyList
      /\ UNCHANGED <<curr_buffer, next_buffer, buffers>>
      /\ UNCHANGED <<handle, written_bytes, running, front, lines, notices, out>>
  BY DEF Recycle, Zeroed, shared, file
<1>2. /\ Len(W) > 0 /\ (new_buffer2 = None => Len(W) > 1)
      /\ new_buffer1 = None /\ handle # None
      /\ Ready(F, W) /\ Owned(F, W) /\ Filled(F)
  BY <1>1 DEF Sound, Stage, Ready
<1>3. /\ Path(next, F) /\ F \in Seq(Buffer) /\ Path(next, W) /\ W \in Seq(Buffer)
      /\ next \in Table /\ Shape(next, F, W) /\ IsInjective(F) /\ IsInjective(W)
      /\ ToSet(F) \cap ToSet(W) = {}
  BY <1>2 DEF Ready, Shape, Path, HeapTypeOK, Table
<1>4. ToSet(F) \subseteq Buffer /\ ToSet(W) \subseteq Buffer
  BY <1>3, Elements
<1>5. first = W[1] /\ chain = ToSet(W)
  <2>1. WorkIs(buffers_to_write, W) /\ buffers_to_write \in List
    BY <1>2 DEF Ready, WorkTypeOK
  <2>2. first = HeadOf(W)
    BY <2>1, <1>3, WorkHeads
  <2>3. first = W[1]
    BY <2>2, <1>2 DEF HeadOf
  <2>4. Grounded(next)
    BY <1>3, Rooted
  <2>5. ChainIn(next, W[1]) = W
    BY <2>4, <1>2, <1>3, ChainOfPath
  <2> QED BY <2>3, <2>5, ChainNow
<1> HIDE DEF first, chain
<1>6. first \in ToSet(W) /\ first \in Buffer
  <2>1. 1 \in 1 .. Len(W)
    BY <1>2, <1>3
  <2> QED BY <2>1, <1>3, <1>5, Elements
<1>7. new_buffer2 = None => rest \in ToSet(W) /\ rest # first /\ rest \in Buffer
  <2> SUFFICES ASSUME new_buffer2 = None
               PROVE  rest \in ToSet(W) /\ rest # first /\ rest \in Buffer
    OBVIOUS
  <2>1. 1 \in 1 .. Len(W) /\ 2 \in 1 .. Len(W) /\ 1 # Len(W) /\ DOMAIN W = 1 .. Len(W)
    <3>1. Len(W) > 1
      BY <1>2
    <3>2. Len(W) \in Nat /\ DOMAIN W = 1 .. Len(W)
      BY <1>3
    <3> QED BY <3>1, <3>2
  <2>2. Placed(next, W)
    BY <1>3, Places
  <2>3. next[W[1]] = W[1 + 1]
    BY <2>1, <2>2 DEF Placed
  <2>4. rest = W[2]
    BY <2>3, <1>5
  <2>5. W[2] # W[1]
    BY <2>1, <1>3 DEF IsInjective
  <2> HIDE DEF rest
  <2> QED BY <2>1, <2>4, <2>5, <1>3, <1>5, Elements
<1> HIDE DEF rest
<1>8. PICK V : V = <<>>
  OBVIOUS
<1>9. V \in Seq(Buffer) /\ Len(V) = 0 /\ ToSet(V) = {} /\ IsInjective(V) /\ Path(next', V)
  <2>1. V \in Seq(Buffer) /\ Len(V) = 0 /\ DOMAIN V = {}
    BY <1>8
  <2> QED BY <2>1 DEF ToSet, IsInjective, Path
<1>10. /\ \A b \in Buffer : b \notin ToSet(W) => data'[b] = data[b] /\ next'[b] = next[b]
       /\ \A b \in ToSet(W) : data'[b] = <<>> /\ next'[b] = None
  BY <1>1, <1>4, <1>5
<1>11. data' \in [Buffer -> Seq(S)] /\ data \in [Buffer -> Seq(S)]
  <2>1. <<>> \in Seq(S) /\ data \in [Buffer -> Seq(S)]
    BY DEF HeapTypeOK
  <2> HIDE DEF S
  <2> QED BY <2>1, <1>1
<1>12. next' \in Table
  BY <1>1, <1>3 DEF Table
<1>13. new_buffer2' \in Buffer /\ new_buffer1' \in Buffer
  BY <1>1, <1>6, <1>7 DEF WorkTypeOK
<1>14. HeapTypeOK' /\ WorkTypeOK'
  <2>1. EmptyList \in List
    BY DEF EmptyList, List
  <2>2. data' \in [Buffer -> Seq(1 .. lines')]
    BY <1>1, <1>11
  <2> HIDE DEF S
  <2>3. HeapTypeOK'
    BY <2>2, <1>1, <1>12 DEF HeapTypeOK, Table
  <2>4. WorkTypeOK'
    BY <2>1, <1>1, <1>13 DEF WorkTypeOK
  <2> QED BY <2>3, <2>4
<1> HIDE DEF S
<1>15. Path(next', F)
  <2>1. \A b \in ToSet(F) : next'[b] = next[b]
    BY <1>3, <1>4, <1>10
  <2> QED BY <2>1, <1>3, KeptPath
<1>16. Shape(next', F, V)
  <2>1. \A b \in Buffer \ (ToSet(F) \cup ToSet(V)) : next'[b] = None
    BY <1>3, <1>9, <1>10 DEF Shape
  <2> QED BY <2>1, <1>3, <1>9, <1>15 DEF Shape
<1>17. WorkIs(buffers_to_write', V)
  BY <1>1, <1>9 DEF WorkIs, EmptyList
<1>18. Owned(F, V)'
  <2>1. SpareSet' = SpareSet \cup spares
    <3>1. CASE new_buffer2 = None
      BY <3>1, <1>1, <1>2, <1>6, <1>7, LoggerAssumption DEF SpareSet
    <3>2. CASE new_buffer2 # None
      BY <3>2, <1>1, <1>2, <1>6, LoggerAssumption DEF SpareSet
    <3> QED BY <3>1, <3>2
  <2>2. spares \subseteq ToSet(W)
    BY <1>6, <1>7
  <2> HIDE DEF spares
  <2>3. alloc' = ToSet(F) \cup ToSet(V) \cup SpareSet'
    BY <2>1, <2>2, <1>1, <1>2, <1>3, <1>5, <1>9 DEF Owned
  <2>4. SpareSet' \cap (ToSet(F) \cup ToSet(V)) = {}
    BY <2>1, <2>2, <1>2, <1>3, <1>9 DEF Owned
  <2>5. \A b \in Buffer \ (ToSet(F) \cup ToSet(V)) : data'[b] = <<>>
    BY <1>2, <1>9, <1>10 DEF Owned
  <2>6. next_buffer # None => next_buffer \notin ToSet(W)
    BY <1>2 DEF Owned, SpareSet
  <2>7. next_buffer # None => next_buffer # new_buffer1' /\ next_buffer # new_buffer2'
    BY <2>6, <1>1, <1>2, <1>6, <1>7 DEF Owned
  <2>8. new_buffer1' # new_buffer2'
    <3>1. CASE new_buffer2 = None
      BY <3>1, <1>1, <1>7
    <3>2. CASE new_buffer2 # None
      BY <3>2, <1>1, <1>2, <1>6 DEF Owned, SpareSet
    <3> QED BY <3>1, <3>2
  <2> QED BY <2>3, <2>4, <2>5, <2>7, <2>8, <1>1 DEF Owned
<1>19. Filled(F)' /\ Filled(V)'
  <2>1. ASSUME NEW i \in 1 .. Len(F), i # Len(F) PROVE data'[F[i]] # <<>>
    <3>1. F[i] \in ToSet(F)
      BY <1>3, Elements
    <3>2. data'[F[i]] = data[F[i]]
      BY <3>1, <1>3, <1>4, <1>10
    <3> QED BY <3>2, <2>1, <1>2 DEF Filled
  <2>2. Filled(V)'
    BY <1>9 DEF Filled
  <2> QED BY <2>1, <2>2 DEF Filled
<1>20. Sound(F, V)'
  <2>1. FrontIs(buffers', curr_buffer', F) /\ (next_buffer' = None => Len(F) > 1)
    BY <1>1, <1>2 DEF Ready
  <2>2. Ready(F, V)'
    BY <2>1, <1>16, <1>17, <1>18, <1>19 DEF Ready
  <2>3. Stage(V)'
    BY <1>1, <1>2, <1>9, <1>13, LoggerAssumption DEF Stage
  <2> QED BY <2>2, <2>3 DEF Sound
<1>21. Memory(S, data, next) /\ Memory(S, data', next')
  BY <1>3, <1>11, <1>12, <1>16, Rooted DEF Memory
<1>22. FrontText' = FrontText
  <2>1. TextIn(data', next', HeadOf(F)) = TextIn(data, next, HeadOf(F))
    <3>1. \A b \in ToSet(F) : data[b] = data'[b]
      BY <1>3, <1>4, <1>10
    <3> QED BY <3>1, <1>3, <1>15, <1>21, SameText
  <2>2. FrontHead = HeadOf(F)
    <3>1. FrontIs(buffers, curr_buffer, F) /\ buffers \in List
      BY <1>2 DEF Ready, HeapTypeOK
    <3> QED BY <3>1, <1>3, FrontHeads DEF FrontHead
  <2>3. FrontHead' = FrontHead
    BY <1>1 DEF FrontHead
  <2> QED BY <2>1, <2>2, <2>3 DEF FrontText
<1>23. WorkText' = <<>>
  <2>1. Reads(data', next', S)
    BY <1>21, Text DEF Memory
  <2>2. buffers_to_write'.head = None
    BY <1>1 DEF EmptyList
  <2> QED BY <2>1, <2>2 DEF WorkText, Reads
<1> QED BY <1>14, <1>20, <1>22, <1>23
----------------------------------------------------------------------------
\* The texts are lines that have been accepted.
LEMMA TextTypes ==
  ASSUME HeapTypeOK, buffers_to_write \in List, NEW F, NEW W, Ready(F, W)
  PROVE  FrontText \in Seq(1 .. lines) /\ WorkText \in Seq(1 .. lines)
<1>1. Shape(next, F, W) /\ F \in Seq(Buffer) /\ W \in Seq(Buffer) /\ next \in Table
  BY DEF Ready, Shape, Path, HeapTypeOK, Table
<1>2. Reads(data, next, 1 .. lines)
  BY <1>1, Rooted, Text DEF HeapTypeOK
<1>3. FrontHead \in Buffer
  BY DEF FrontHead, HeapTypeOK, List
<1>4. buffers_to_write.head \in Buffer \cup {None} /\ <<>> \in Seq(1 .. lines)
  BY DEF List
<1> QED BY <1>2, <1>3, <1>4 DEF Reads, FrontText, WorkText

\* The lines written are those of the records in the files.
LEMMA WrittenNow ==
  ASSUME OutTypeOK
  PROVE  /\ Written \in Seq(1 .. lines) /\ Len(Written) = Len(out)
         /\ \A i \in 1 .. Len(out) : Written[i] = out[i].line
<1> DEFINE R == [line : 1 .. lines, file : File \cup {Stdout}]
<1>1. /\ Len(out) \in Nat
      /\ \A i \in 1 .. Len(out) : out[i] \in R
  <2>1. out \in Seq(R)
    BY DEF OutTypeOK
  <2> HIDE DEF R
  <2> QED BY <2>1
<1>2. \A i \in 1 .. Len(out) : out[i].line \in 1 .. lines
  BY <1>1
<1> QED BY <1>1, <1>2 DEF Written

\* An element of a sequence over S.
LEMMA Typed ==
  ASSUME NEW S, NEW s \in Seq(S), NEW i \in 1 .. Len(s) PROVE s[i] \in S
OBVIOUS

\* The list reaches the file, which may be rolled.
LEMMA WriteOK ==
  ASSUME HeapTypeOK, WorkTypeOK, FileTypeOK, OutTypeOK, NEW F, NEW W, Sound(F, W), Write
  PROVE  /\ HeapTypeOK' /\ WorkTypeOK' /\ OutTypeOK' /\ Sound(F, W)'
         /\ FrontText' = FrontText /\ Written' = Written \o WorkText
<1> DEFINE text == Contents(buffers_to_write.head)
           bytes == written_bytes + Len(text)
           Rec == [line : 1 .. lines, file : File \cup {Stdout}]
           more == [i \in 1 .. Len(text) |-> [line |-> text[i], file |-> handle]]
<1>1. /\ pc = "write" /\ pc' = "recycle"
      /\ out' = out \o more
      /\ \/ Exceeded(bytes) /\ rollfile(bytes)
         \/ /\ ~Exceeded(bytes)
            /\ written_bytes' = bytes
            /\ UNCHANGED <<handle, roll_mday, today>>
      /\ UNCHANGED <<heap, shared, new_buffer1, new_buffer2, buffers_to_write>>
      /\ UNCHANGED <<running, front, lines, notices>>
  BY DEF Write
<1>2. Ready(F, W) /\ handle # None
  BY <1>1 DEF Sound, Stage
<1>3. text \in Seq(1 .. lines) /\ text = WorkText /\ Len(text) \in Nat
  <2>1. WorkText \in Seq(1 .. lines)
    BY <1>2, TextTypes DEF WorkTypeOK
  <2>2. text = WorkText
    BY TextNow
  <2> QED BY <2>1, <2>2
<1>4. bytes \in Nat
  BY <1>3 DEF WorkTypeOK
<1> HIDE DEF text, bytes
<1>5. handle' # None /\ written_bytes' \in Nat
  BY <1>1, <1>2, <1>4, Opened
<1>6. Ready(F, W)' /\ FrontText' = FrontText
  BY <1>1, <1>2, SameBuffers
<1>7. Sound(F, W)'
  <2>1. Stage(W)'
    BY <1>1, <1>5 DEF Sound, Stage
  <2> QED BY <2>1, <1>6 DEF Sound
<1>8. HeapTypeOK' /\ WorkTypeOK'
  BY <1>1, <1>5 DEF HeapTypeOK, WorkTypeOK, heap, shared
<1>9. /\ more \in Seq(Rec) /\ Len(more) = Len(text)
      /\ \A i \in 1 .. Len(text) : more[i].line = text[i]
  <2>1. handle \in File \cup {Stdout}
    BY <1>2 DEF FileTypeOK
  <2>2. \A i \in 1 .. Len(text) : [line |-> text[i], file |-> handle] \in Rec
    <3> SUFFICES ASSUME NEW i \in 1 .. Len(text)
                 PROVE  [line |-> text[i], file |-> handle] \in Rec
      OBVIOUS
    <3>1. text[i] \in 1 .. lines
      <4>1. text \in Seq(1 .. lines)
        BY <1>3
      <4> QED BY <4>1, Typed
    <3> QED BY <2>1, <3>1
  <2> HIDE DEF Rec
  <2> QED BY <2>2, <1>3
<1> HIDE DEF more
<1>10. /\ out' \in Seq(Rec) /\ Len(out') = Len(out) + Len(text)
       /\ \A i \in 1 .. Len(out) : out'[i] = out[i]
       /\ \A i \in Len(out) + 1 .. Len(out) + Len(text) : out'[i] = more[i - Len(out)]
  <2>1. out \in Seq(Rec) /\ more \in Seq(Rec)
    BY <1>9 DEF OutTypeOK
  <2> HIDE DEF Rec
  <2> DEFINE all == out \o more
  <2>2. /\ all \in Seq(Rec) /\ Len(all) = Len(out) + Len(more)
        /\ \A i \in 1 .. Len(out) : all[i] = out[i]
        /\ \A i \in Len(out) + 1 .. Len(out) + Len(more) : all[i] = more[i - Len(out)]
    BY <2>1, Concat
  <2>3. out' = all /\ Len(more) = Len(text)
    BY <1>1, <1>9
  <2> HIDE DEF all
  <2> QED BY <2>2, <2>3
<1>11. OutTypeOK'
  BY <1>1, <1>10 DEF OutTypeOK
<1> HIDE DEF Rec
<1>12. Written' = Written \o text
  <2> DEFINE l == Written \o text
  <2>1. /\ Written \in Seq(1 .. lines) /\ Len(Written) = Len(out) /\ Len(out) \in Nat
        /\ \A i \in 1 .. Len(out) : Written[i] = out[i].line
    BY WrittenNow DEF OutTypeOK
  <2>2. /\ l \in Seq(1 .. lines) /\ Len(l) = Len(out) + Len(text)
        /\ \A i \in 1 .. Len(out) : l[i] = Written[i]
        /\ \A i \in Len(out) + 1 .. Len(out) + Len(text) : l[i] = text[i - Len(out)]
    <3>1. /\ l \in Seq(1 .. lines) /\ Len(l) = Len(Written) + Len(text)
          /\ \A i \in 1 .. Len(Written) : l[i] = Written[i]
          /\ \A i \in Len(Written) + 1 .. Len(Written) + Len(text) :
               l[i] = text[i - Len(Written)]
      <4>1. Written \in Seq(1 .. lines) /\ text \in Seq(1 .. lines)
        BY <2>1, <1>3
      <4> QED BY <4>1, Concat
    <3>2. Len(Written) = Len(out)
      BY <2>1
    <3> HIDE DEF l
    <3> QED BY <3>1, <3>2
  <2> HIDE DEF l
  <2>3. Written' = [i \in 1 .. Len(out') |-> out'[i].line]
    BY DEF Written
  <2>4. ASSUME NEW i \in 1 .. Len(out) + Len(text) PROVE out'[i].line = l[i]
    <3>1. CASE i <= Len(out)
      BY <3>1, <2>1, <2>2, <1>10
    <3>2. CASE i > Len(out)
      <4>1. i \in Len(out) + 1 .. Len(out) + Len(text) /\ i - Len(out) \in 1 .. Len(text)
        BY <3>2, <2>1, <1>3
      <4>2. out'[i] = more[i - Len(out)] /\ l[i] = text[i - Len(out)]
        BY <4>1, <2>2, <1>10
      <4> QED BY <4>1, <4>2, <1>9
    <3> QED BY <3>1, <3>2, <2>1, <1>3
  <2>5. l = [i \in 1 .. Len(out) + Len(text) |-> l[i]]
    BY <2>2
  <2>6. Written' = [i \in 1 .. Len(out) + Len(text) |-> out'[i].line]
    BY <2>3, <1>10
  <2> QED BY <2>4, <2>5, <2>6 DEF l
<1> QED BY <1>3, <1>6, <1>7, <1>8, <1>11, <1>12

\* What is left alone, but for the lines there are.
LEMMA OutKept ==
  ASSUME OutTypeOK, lines \in Nat, lines' \in {lines, lines + 1}, out' = out
  PROVE  OutTypeOK' /\ Written' = Written
<1> DEFINE R == [line : 1 .. lines, file : File \cup {Stdout}]
           T == [line : 1 .. lines', file : File \cup {Stdout}]
<1>1. R \subseteq T
  OBVIOUS
<1>2. out \in Seq(R)
  BY DEF OutTypeOK
<1> HIDE DEF R, T
<1>3. out \in Seq(T)
  BY <1>1, <1>2, Wider
<1> QED BY <1>3 DEF OutTypeOK, Written, T
----------------------------------------------------------------------------
(* The invariant, and what each step does to the lines *)

\* The buffers are where they should be.
BuffersOK ==
  /\ HeapTypeOK /\ WorkTypeOK /\ OutTypeOK
  /\ \E F, W : Sound(F, W)

\* Before a cut its notice waits in the front end.
Noted == pc = "cut" => \E m \in notices : m \in ToSet(FrontText)

\* What the worker has yet to write.
Waiting == IF pc = "recycle" THEN <<>> ELSE WorkText

\* A line is accepted behind the others, and before a cut it is the notice;
Accepts ==
  /\ lines' = lines + 1
  /\ Written' = Written /\ Waiting' = Waiting
  /\ FrontText' = FrontText \o <<lines + 1>>
  /\ notices \subseteq notices'
  /\ pc' = "cut" => pc = "cut" \/ lines + 1 \in notices'

\* or the lines stay as they are, whatever list they are in;
Rests ==
  /\ lines' = lines
  /\ Written' = Written /\ Waiting' \o FrontText' = Waiting \o FrontText
  /\ notices' = notices
  /\ pc' = "cut" => pc = "cut" /\ FrontText' = FrontText

\* or the end of what the worker has is thrown away;
Cuts ==
  /\ pc = "cut" /\ pc' = "write"
  /\ lines' = lines
  /\ Written' = Written /\ FrontText' = FrontText
  /\ notices' = notices
  /\ \E a, r \in Seq(1 .. lines) : a # <<>> /\ Waiting = a \o r /\ Waiting' = a

\* or all that the worker has is written.
Writes ==
  /\ pc' # "cut"
  /\ lines' = lines
  /\ Written' = Written \o Waiting /\ Waiting' = <<>> /\ FrontText' = FrontText
  /\ notices' = notices

Moves == Accepts \/ Rests \/ Cuts \/ Writes

\* A step that leaves the buffers and the files alone.
LEMMA RestOK ==
  ASSUME BuffersOK, UNCHANGED <<heap, shared, new_buffer1, new_buffer2, buffers_to_write>>,
         UNCHANGED <<handle, written_bytes, lines, notices, out>>,
         running' \in BOOLEAN, front' \in {"up", "joining", "closed"},
         \/ pc' = pc
         \/ pc = "loop" /\ pc' \in {"lock", "done"}
  PROVE  BuffersOK' /\ Rests
<1>1. PICK F, W : Sound(F, W)
  BY DEF BuffersOK
<1>2. Ready(F, W)' /\ FrontText' = FrontText /\ WorkText' = WorkText
  BY <1>1, SameBuffers DEF Sound
<1>3. Stage(W)'
  BY <1>1 DEF Sound, Stage
<1>4. OutTypeOK' /\ Written' = Written
  BY OutKept DEF BuffersOK, HeapTypeOK
<1>5. HeapTypeOK' /\ WorkTypeOK'
  BY DEF BuffersOK, HeapTypeOK, WorkTypeOK, heap, shared
<1>6. BuffersOK'
  BY <1>2, <1>3, <1>4, <1>5 DEF BuffersOK, Sound
<1>7. Waiting' = Waiting
  BY <1>2 DEF Waiting
<1> QED BY <1>2, <1>4, <1>6, <1>7 DEF Rests

\* A line of the service.
LEMMA LogOK ==
  ASSUME BuffersOK, Log
  PROVE  BuffersOK' /\ Accepts
<1>1. PICK F, W : Sound(F, W)
  BY DEF BuffersOK
<1>2. /\ AppendLine /\ lines' = lines + 1
      /\ UNCHANGED <<pc, new_buffer1, new_buffer2, buffers_to_write>>
      /\ UNCHANGED <<handle, written_bytes, running, front, notices, out>>
  BY DEF Log, AppendLine, worker, file
<1>3. /\ HeapTypeOK' /\ \E G : Ready(G, W)'
      /\ FrontText' = FrontText \o <<lines + 1>>
      /\ WorkText' = WorkText
  BY <1>1, <1>2, AppendOK DEF BuffersOK, WorkTypeOK, Sound
<1>4. Stage(W)'
  BY <1>1, <1>2 DEF Sound, Stage
<1>5. \E G : Sound(G, W)'
  BY <1>3, <1>4 DEF Sound
<1>6. OutTypeOK' /\ Written' = Written
  BY <1>2, OutKept DEF BuffersOK, HeapTypeOK
<1>7. WorkTypeOK'
  <2>1. 1 .. lines \subseteq 1 .. lines'
    BY <1>2 DEF BuffersOK, HeapTypeOK
  <2> QED BY <2>1, <1>2 DEF BuffersOK, WorkTypeOK
<1>8. BuffersOK'
  BY <1>3, <1>5, <1>6, <1>7 DEF BuffersOK
<1>9. Waiting' = Waiting
  BY <1>2, <1>3 DEF Waiting
<1> QED BY <1>2, <1>3, <1>6, <1>8, <1>9 DEF Accepts

\* The notice of the worker.
LEMMA NoticeOK ==
  ASSUME BuffersOK, DropNotice
  PROVE  BuffersOK' /\ Accepts
<1>1. PICK F, W : Sound(F, W)
  BY DEF BuffersOK
<1>2. /\ AppendLine /\ lines' = lines + 1 /\ notices' = notices \cup {lines'}
      /\ pc = "notice" /\ pc' = "cut"
      /\ UNCHANGED <<new_buffer1, new_buffer2, buffers_to_write>>
      /\ UNCHANGED <<handle, written_bytes, running, front, out>>
  BY DEF DropNotice, Notice, AppendLine, file
<1>3. /\ HeapTypeOK' /\ \E G : Ready(G, W)'
      /\ FrontText' = FrontText \o <<lines + 1>>
      /\ WorkText' = WorkText
  BY <1>1, <1>2, AppendOK DEF BuffersOK, WorkTypeOK, Sound
<1>4. Stage(W)'
  BY <1>1, <1>2 DEF Sound, Stage
<1>5. \E G : Sound(G, W)'
  BY <1>3, <1>4 DEF Sound
<1>6. OutTypeOK' /\ Written' = Written
  BY <1>2, OutKept DEF BuffersOK, HeapTypeOK
<1>7. WorkTypeOK'
  <2>1. 1 .. lines \subseteq 1 .. lines' /\ lines' \in 1 .. lines'
    BY <1>2 DEF BuffersOK, HeapTypeOK
  <2> QED BY <2>1, <1>2 DEF BuffersOK, WorkTypeOK
<1>8. BuffersOK'
  BY <1>3, <1>5, <1>6, <1>7 DEF BuffersOK
<1>9. Waiting' = Waiting
  BY <1>2, <1>3 DEF Waiting
<1> QED BY <1>2, <1>3, <1>6, <1>8, <1>9 DEF Accepts

\* So every step is one of the four.
LEMMA MovesOK ==
  ASSUME FileTypeOK, BuffersOK, [Next]_vars
  PROVE  BuffersOK' /\ Moves
<1>0. PICK F, W : Sound(F, W)
  BY DEF BuffersOK
<1>a. HeapTypeOK /\ WorkTypeOK /\ OutTypeOK /\ lines \in Nat
  BY DEF BuffersOK, HeapTypeOK
<1>1. CASE Log
  BY <1>1, LogOK DEF Moves
<1>2. CASE Start
  <2>1. /\ HeapTypeOK' /\ WorkTypeOK' /\ Sound(F, W)'
        /\ FrontText' = FrontText /\ WorkText' = WorkText
    BY <1>0, <1>a, <1>2, StartOK
  <2>2. pc = "start" /\ pc' = "loop" /\ UNCHANGED <<lines, notices, out>>
    BY <1>2 DEF Start
  <2>3. OutTypeOK' /\ Written' = Written
    BY <1>a, <2>2, OutKept
  <2>4. Waiting' = Waiting
    BY <2>1, <2>2 DEF Waiting
  <2> QED BY <2>1, <2>2, <2>3, <2>4 DEF BuffersOK, Moves, Rests
<1>3. CASE Loop
  <2>1. BuffersOK' /\ Rests
    BY <1>3, RestOK DEF Loop, file, BuffersOK, WorkTypeOK
  <2> QED BY <2>1 DEF Moves
<1>4. CASE Swap
  <2>1. /\ HeapTypeOK' /\ WorkTypeOK' /\ \E G : Sound(G, F)'
        /\ FrontText' = <<>> /\ WorkText' = FrontText /\ WorkText = <<>>
    BY <1>0, <1>a, <1>4, SwapOK
  <2>2. pc = "lock" /\ pc' \in {"notice", "write"} /\ UNCHANGED <<lines, notices, out>>
    BY <1>4 DEF Swap
  <2>3. OutTypeOK' /\ Written' = Written
    BY <1>a, <2>2, OutKept
  <2>4. Waiting' = FrontText /\ Waiting = <<>>
    BY <2>1, <2>2 DEF Waiting
  <2>5. FrontText \in Seq(1 .. lines)
    BY <1>0, <1>a, TextTypes DEF Sound, WorkTypeOK
  <2>6. FrontText \o <<>> = <<>> \o FrontText
    BY <2>5
  <2> QED BY <2>1, <2>2, <2>3, <2>4, <2>6 DEF BuffersOK, Moves, Rests
<1>5. CASE DropNotice
  BY <1>5, NoticeOK DEF Moves
<1>6. CASE Cut
  <2>1. /\ HeapTypeOK' /\ WorkTypeOK' /\ \E V : Sound(F, V)'
        /\ FrontText' = FrontText
        /\ \E a, r \in Seq(1 .. lines) : a # <<>> /\ WorkText = a \o r /\ WorkText' = a
    BY <1>0, <1>a, <1>6, CutOK
  <2>2. pc = "cut" /\ pc' = "write" /\ UNCHANGED <<lines, notices, out>>
    BY <1>6 DEF Cut
  <2>3. OutTypeOK' /\ Written' = Written
    BY <1>a, <2>2, OutKept
  <2>4. Waiting' = WorkText' /\ Waiting = WorkText
    BY <2>1, <2>2 DEF Waiting
  <2>5. BuffersOK'
    BY <2>1, <2>3 DEF BuffersOK
  <2>6. Cuts
    BY <2>1, <2>2, <2>3, <2>4 DEF Cuts
  <2> QED BY <2>5, <2>6 DEF Moves
<1>7. CASE Write
  <2>1. /\ HeapTypeOK' /\ WorkTypeOK' /\ OutTypeOK' /\ Sound(F, W)'
        /\ FrontText' = FrontText /\ Written' = Written \o WorkText
    BY <1>0, <1>a, <1>7, WriteOK
  <2>2. pc = "write" /\ pc' = "recycle" /\ UNCHANGED <<lines, notices>>
    BY <1>7 DEF Write
  <2>3. Waiting' = <<>> /\ Waiting = WorkText
    BY <2>2 DEF Waiting
  <2> QED BY <2>1, <2>2, <2>3 DEF BuffersOK, Moves, Writes
<1>8. CASE Recycle
  <2>1. /\ HeapTypeOK' /\ WorkTypeOK' /\ \E V : Sound(F, V)'
        /\ FrontText' = FrontText /\ WorkText' = <<>>
    BY <1>0, <1>a, <1>8, RecycleOK
  <2>2. pc = "recycle" /\ pc' = "loop" /\ UNCHANGED <<lines, notices, out>>
    BY <1>8 DEF Recycle
  <2>3. OutTypeOK' /\ Written' = Written
    BY <1>a, <2>2, OutKept
  <2>4. Waiting' = <<>> /\ Waiting = <<>>
    BY <2>1, <2>2 DEF Waiting
  <2> QED BY <2>1, <2>2, <2>3, <2>4 DEF BuffersOK, Moves, Rests
<1>9. CASE Exit \/ Joined \/ Midnight \/ UNCHANGED vars
  <2>1. /\ UNCHANGED <<heap, shared, new_buffer1, new_buffer2, buffers_to_write>>
        /\ UNCHANGED <<handle, written_bytes, lines, notices, out>>
        /\ pc' = pc
    BY <1>9 DEF Exit, Joined, Midnight, vars, worker, file
  <2>2. running' \in BOOLEAN /\ front' \in {"up", "joining", "closed"}
    BY <1>9, <1>a DEF Exit, Joined, Midnight, vars, WorkTypeOK
  <2>3. BuffersOK' /\ Rests
    BY <2>1, <2>2, RestOK
  <2> QED BY <2>3 DEF Moves
<1> QED BY <1>1, <1>2, <1>3, <1>4, <1>5, <1>6, <1>7, <1>8, <1>9 DEF Next, Work

\* At the start there is one buffer in the front end and one spare.
LEMMA FirstOK == ASSUME Init PROVE BuffersOK /\ Noted
<1>1. PICK b \in Buffer : \E c \in Buffer :
        /\ b = Calloc({}) /\ c = Calloc({b})
        /\ alloc = {b, c} /\ curr_buffer = b /\ next_buffer = c
  BY DEF Init
<1>2. PICK c \in Buffer :
        /\ b = Calloc({}) /\ c = Calloc({b})
        /\ alloc = {b, c} /\ curr_buffer = b /\ next_buffer = c
  BY <1>1
<1>3. b # c
  <2>1. \E x : x \in Buffer \ {b}
    BY LoggerAssumption
  <2> QED BY <2>1, <1>2 DEF Calloc
<1>4. /\ data = [x \in Buffer |-> <<>>] /\ next = [x \in Buffer |-> None]
      /\ buffers = EmptyList /\ buffers_to_write = EmptyList
      /\ pc = "start" /\ new_buffer1 = None /\ new_buffer2 = None
      /\ written_bytes = 0 /\ running = TRUE /\ front = "up"
      /\ lines = 0 /\ notices = {} /\ out = <<>>
  BY DEF Init
<1>5. EmptyList \in List
  BY DEF EmptyList, List
<1>6. HeapTypeOK /\ WorkTypeOK
  <2>1. <<>> \in Seq(1 .. lines)
    OBVIOUS
  <2>2. data \in [Buffer -> Seq(1 .. lines)]
    BY <2>1, <1>4
  <2> QED BY <2>2, <1>2, <1>4, <1>5 DEF HeapTypeOK, WorkTypeOK
<1>7. OutTypeOK
  BY <1>4 DEF OutTypeOK
<1>8. PICK F : F = <<b>>
  OBVIOUS
<1>9. PICK W : W = <<>>
  OBVIOUS
<1>10. /\ F \in Seq(Buffer) /\ Len(F) = 1 /\ F[1] = b /\ DOMAIN F = {1}
       /\ ToSet(F) = {b} /\ IsInjective(F)
  BY <1>8 DEF ToSet, IsInjective
<1>11. /\ W \in Seq(Buffer) /\ Len(W) = 0 /\ DOMAIN W = {}
       /\ ToSet(W) = {} /\ IsInjective(W)
  BY <1>9 DEF ToSet, IsInjective
<1>12. Shape(next, F, W)
  BY <1>4, <1>10, <1>11 DEF Shape, Path
<1>13. FrontIs(buffers, curr_buffer, F) /\ WorkIs(buffers_to_write, W)
  BY <1>2, <1>4, <1>10, <1>11 DEF FrontIs, WorkIs, EmptyList
<1>14. Owned(F, W)
  BY <1>2, <1>3, <1>4, <1>10, <1>11, LoggerAssumption DEF Owned, SpareSet
<1>15. Filled(F) /\ Filled(W)
  BY <1>10, <1>11 DEF Filled
<1>16. Ready(F, W)
  BY <1>2, <1>12, <1>13, <1>14, <1>15, LoggerAssumption DEF Ready
<1>17. Stage(W)
  BY <1>4, <1>11 DEF Stage
<1> QED BY <1>4, <1>6, <1>7, <1>16, <1>17 DEF BuffersOK, Noted, Sound
----------------------------------------------------------------------------
(* The promise *)

\* What waits is what the worker has, then what the front end has.
LEMMA PendingNow ==
  /\ Pending = Waiting \o FrontText
  /\ Pending' = Waiting' \o FrontText'
BY TextNow, TextNext DEF Pending, Waiting

LEMMA Texts ==
  ASSUME BuffersOK
  PROVE  /\ lines \in Nat /\ notices \subseteq 1 .. lines
         /\ FrontText \in Seq(1 .. lines) /\ Waiting \in Seq(1 .. lines)
         /\ Written \in Seq(1 .. lines)
<1>1. PICK F, W : Sound(F, W)
  BY DEF BuffersOK
<1>2. HeapTypeOK /\ WorkTypeOK /\ OutTypeOK
  BY DEF BuffersOK
<1>3. FrontText \in Seq(1 .. lines) /\ WorkText \in Seq(1 .. lines)
  BY <1>1, <1>2, TextTypes DEF Sound, WorkTypeOK
<1>4. <<>> \in Seq(1 .. lines)
  OBVIOUS
<1>5. Waiting \in Seq(1 .. lines)
  BY <1>3, <1>4 DEF Waiting
<1>6. lines \in Nat /\ notices \subseteq 1 .. lines
  BY <1>2 DEF HeapTypeOK, WorkTypeOK
<1> QED BY <1>2, <1>3, <1>5, <1>6, WrittenNow

\* The notice stays in the front end until the cut.
LEMMA NotedOK ==
  ASSUME BuffersOK, Noted, Moves
  PROVE  Noted'
<1>1. CASE Accepts
  <2> DEFINE S == 1 .. lines + 1
             t == <<lines + 1>>
  <2>1. FrontText \in Seq(S) /\ t \in Seq(S) /\ ToSet(t) = {lines + 1}
    <3>1. 1 .. lines \subseteq S /\ lines + 1 \in S /\ FrontText \in Seq(1 .. lines)
      BY Texts
    <3>2. FrontText \in Seq(S)
      <4> HIDE DEF S
      <4> QED BY <3>1, Wider
    <3>3. DOMAIN t = {1} /\ t[1] = lines + 1
      OBVIOUS
    <3> HIDE DEF t
    <3>4. ToSet(t) = {lines + 1}
      BY <3>3 DEF ToSet
    <3> QED BY <3>1, <3>2, <3>4 DEF t
  <2> HIDE DEF S, t
  <2>2. ToSet(FrontText \o t) = ToSet(FrontText) \cup ToSet(t)
    BY <2>1, Both
  <2>3. FrontText' = FrontText \o t
    BY <1>1 DEF Accepts, t
  <2>4. ToSet(FrontText') = ToSet(FrontText) \cup {lines + 1}
    BY <2>1, <2>2, <2>3
  <2> QED BY <1>1, <2>4 DEF Accepts, Noted
<1>2. CASE Rests
  BY <1>2 DEF Rests, Noted
<1>3. CASE Cuts
  BY <1>3 DEF Cuts, Noted
<1>4. CASE Writes
  BY <1>4 DEF Writes, Noted
<1> QED BY <1>1, <1>2, <1>3, <1>4 DEF Moves

\* The two halves of a sequence.
LEMMA Halves ==
  ASSUME NEW S, NEW s \in Seq(S), NEW t \in Seq(S)
  PROVE  /\ Len(s \o t) = Len(s) + Len(t)
         /\ SubSeq(s \o t, 1, Len(s)) = s
         /\ SubSeq(s \o t, Len(s) + 1, Len(s \o t)) = t
<1> DEFINE u == s \o t
           m == Len(s)
           n == Len(t)
<1>1. /\ u \in Seq(S) /\ Len(u) = m + n
      /\ \A i \in 1 .. m : u[i] = s[i]
      /\ \A i \in m + 1 .. m + n : u[i] = t[i - m]
  BY Concat
<1> HIDE DEF u
<1>2. m \in Nat /\ n \in Nat
  OBVIOUS
<1> DEFINE a == SubSeq(u, 1, m)
           b == SubSeq(u, m + 1, m + n)
<1>3. a \in Seq(S) /\ Len(a) = m /\ \A i \in 1 .. m : a[i] = u[i]
  <2> HIDE DEF m, n
  <2>1. 1 \in 1 .. Len(u) + 1 /\ m \in 1 - 1 .. Len(u)
    BY <1>1, <1>2
  <2>2. /\ a \in Seq(S) /\ Len(a) = m - 1 + 1
        /\ \A i \in 1 .. m - 1 + 1 : a[i] = u[1 + i - 1]
    BY <1>1, <2>1, Part
  <2> HIDE DEF a
  <2>3. m - 1 + 1 = m /\ \A i \in 1 .. m : 1 + i - 1 = i
    BY <1>2
  <2> QED BY <2>2, <2>3
<1>4. b \in Seq(S) /\ Len(b) = n /\ \A i \in 1 .. n : b[i] = u[m + i]
  <2> HIDE DEF m, n
  <2>1. m + 1 \in 1 .. Len(u) + 1 /\ m + n \in (m + 1) - 1 .. Len(u)
    BY <1>1, <1>2
  <2>2. PICK k : k = m + 1
    OBVIOUS
  <2>3. PICK l : l = m + n
    OBVIOUS
  <2>4. u \in Seq(S) /\ k \in 1 .. Len(u) + 1 /\ l \in k - 1 .. Len(u)
    BY <1>1, <2>1, <2>2, <2>3
  <2>5. /\ SubSeq(u, k, l) \in Seq(S) /\ Len(SubSeq(u, k, l)) = l - k + 1
        /\ \A i \in 1 .. l - k + 1 : SubSeq(u, k, l)[i] = u[k + i - 1]
    BY <2>4, Part
  <2>6. b = SubSeq(u, k, l)
    BY <2>2, <2>3
  <2> HIDE DEF b
  <2>7. l - k + 1 = n /\ \A i \in 1 .. n : k + i - 1 = m + i
    BY <1>2, <2>2, <2>3
  <2> QED BY <2>5, <2>6, <2>7
<1> HIDE DEF a, b
<1>5. a = s
  BY <1>1, <1>3, Same
<1>6. b = t
  <2>1. ASSUME NEW i \in 1 .. n PROVE b[i] = t[i]
    <3>1. m + i \in m + 1 .. m + n /\ (m + i) - m = i
      BY <1>2
    <3> QED BY <3>1, <1>1, <1>4
  <2> QED BY <2>1, <1>4, Same
<1> QED BY <1>1, <1>5, <1>6 DEF a, b, u

----------------------------------------------------------------------------
(* The promise *)

\* LineLog's own order is inductive once the lines are known to be at most
\* as many as were accepted: accepting a line appends the next number to the
\* log followed by the queue, writing leaves that as it is, and dropping takes
\* a run of elements out of it.
\* The log and the queue behind it.
All == Written \o Pending
Ordered == LinesOnly!TypeOK /\ Increasing(All)

\* At first there is no line.
LEMMA NoLines == LinesOnly!Init => Ordered
  BY DEF LinesOnly!Init, Ordered, LinesOnly!TypeOK, Increasing, All

\* A new line is greater than every line before it.
LEMMA Appending == ASSUME Ordered, LinesOnly!Accept PROVE Ordered'
<1> USE DEF Ordered, LinesOnly!TypeOK, LinesOnly!Accept
<1>1. lines' \in Nat /\ 1 .. lines \subseteq 1 .. lines'
  OBVIOUS
<1>2. Pending \in Seq(1 .. lines') /\ Written \in Seq(1 .. lines')
  BY <1>1
<1>3. Pending' \in Seq(1 .. lines') /\ Written' \in Seq(1 .. lines')
  BY <1>1, <1>2
<1>4. Increasing(All)'
  <2>1. /\ All \in Seq(1 .. lines)
        /\ All' = Append(All, lines + 1)
    BY DEF All
  <2>2. ASSUME NEW i \in 1 .. Len(All'), NEW j \in 1 .. Len(All'), i < j
        PROVE  All'[i] < All'[j]
    <3>1. Len(All) \in Nat /\ Len(All') = Len(All) + 1
      BY <2>1
    <3>2. All'[i] = All[i] /\ i \in 1 .. Len(All)
      BY <2>1, <2>2, <3>1
    <3>3. CASE j <= Len(All)
      BY <2>1, <2>2, <3>1, <3>2, <3>3 DEF Increasing
    <3>4. CASE j = Len(All) + 1
      BY <2>1, <3>1, <3>2, <3>4
    <3> QED BY <3>1, <3>3, <3>4
  <2> QED BY <2>2 DEF Increasing
<1> QED BY <1>1, <1>3, <1>4

\* A write moves lines from the queue to the log and changes no order.
LEMMA Moving == ASSUME Ordered, LinesOnly!Write PROVE Ordered'
<1> USE DEF Ordered, LinesOnly!TypeOK
<1>1. PICK n \in 1 .. Len(Pending) :
        /\ Written' = Written \o SubSeq(Pending, 1, n)
        /\ Pending' = SubSeq(Pending, n + 1, Len(Pending))
        /\ UNCHANGED lines
  BY DEF LinesOnly!Write
<1>2. SubSeq(Pending, 1, n) \in Seq(1 .. lines)
  BY <1>1, Part
<1>3. SubSeq(Pending, n + 1, Len(Pending)) \in Seq(1 .. lines)
  <2>1. n + 1 \in 1 .. Len(Pending) + 1 /\ Len(Pending) \in (n + 1) - 1 .. Len(Pending)
    OBVIOUS
  <2> QED BY <2>1, Part
<1>4. All' = All
  BY <1>1, Split DEF All
<1> QED BY <1>1, <1>2, <1>3, <1>4 DEF Increasing

\* Dropping a run of lines keeps the order of the others: what is at place k
\* afterwards was at place k, or that many places further on.
LEMMA Dropping == ASSUME Ordered, LinesOnly!Drop PROVE Ordered'
<1> USE DEF Ordered, LinesOnly!TypeOK
<1>1. PICK i \in 2 .. Len(Pending) : \E j \in i .. Len(Pending) - 1 :
        /\ Pending' = SubSeq(Pending, 1, i - 1) \o SubSeq(Pending, j + 1, Len(Pending))
        /\ UNCHANGED <<lines, Written>>
  BY DEF LinesOnly!Drop
<1>2. PICK j \in i .. Len(Pending) - 1 :
        /\ Pending' = SubSeq(Pending, 1, i - 1) \o SubSeq(Pending, j + 1, Len(Pending))
        /\ UNCHANGED <<lines, Written>>
  BY <1>1
<1> DEFINE a == SubSeq(Pending, 1, i - 1)
           b == SubSeq(Pending, j + 1, Len(Pending))
           gap == j - i + 1
<1>3. /\ a \in Seq(1 .. lines) /\ Len(a) = i - 1
      /\ \A k \in 1 .. i - 1 : a[k] = Pending[k]
  <2>1. 1 \in 1 .. Len(Pending) + 1 /\ i - 1 \in 1 - 1 .. Len(Pending)
    OBVIOUS
  <2>2. a \in Seq(1 .. lines)
    BY <2>1, Part
  <2>3. Len(a) = (i - 1) - 1 + 1
    BY <2>1, Part
  <2>4. \A k \in 1 .. (i - 1) - 1 + 1 : a[k] = Pending[1 + k - 1]
    BY <2>1, Part
  <2> QED BY <2>2, <2>3, <2>4
<1>4. /\ b \in Seq(1 .. lines) /\ Len(b) = Len(Pending) - j
      /\ \A k \in 1 .. Len(Pending) - j : b[k] = Pending[j + k]
  <2>1. j + 1 \in 1 .. Len(Pending) + 1 /\ Len(Pending) \in (j + 1) - 1 .. Len(Pending)
    OBVIOUS
  <2>2. b \in Seq(1 .. lines)
    BY <2>1, Part
  <2>3. Len(b) = Len(Pending) - (j + 1) + 1
    BY <2>1, Part
  <2>4. \A k \in 1 .. Len(Pending) - (j + 1) + 1 : b[k] = Pending[(j + 1) + k - 1]
    BY <2>1, Part
  <2> QED BY <2>2, <2>3, <2>4
<1>5. Pending' = a \o b
  BY <1>2
<1> HIDE DEF a, b
<1> DEFINE ab == a \o b
<1>6. /\ ab \in Seq(1 .. lines) /\ Len(ab) = Len(a) + Len(b)
      /\ \A k \in 1 .. Len(a) : ab[k] = a[k]
      /\ \A k \in Len(a) + 1 .. Len(a) + Len(b) : ab[k] = b[k - Len(a)]
  <2>1. a \in Seq(1 .. lines) /\ b \in Seq(1 .. lines)
    BY <1>3, <1>4
  <2> QED BY <2>1, Concat
<1> HIDE DEF ab
<1>7. Written \in Seq(1 .. lines) /\ Pending \in Seq(1 .. lines) /\ lines \in Nat
  OBVIOUS
<1>8. Pending' = ab /\ lines' = lines /\ Written' = Written
  BY <1>2, <1>5 DEF ab
<1>9. LinesOnly!TypeOK'
  BY <1>6, <1>8
<1> DEFINE old == Written \o Pending
           new == Written \o ab
<1>10. /\ old \in Seq(1 .. lines) /\ Len(old) = Len(Written) + Len(Pending)
       /\ \A k \in 1 .. Len(Written) : old[k] = Written[k]
       /\ \A k \in Len(Written) + 1 .. Len(Written) + Len(Pending) : old[k] = Pending[k - Len(Written)]
  BY <1>7, Concat
<1>11. /\ new \in Seq(1 .. lines) /\ Len(new) = Len(Written) + Len(ab)
       /\ \A k \in 1 .. Len(Written) : new[k] = Written[k]
       /\ \A k \in Len(Written) + 1 .. Len(Written) + Len(ab) : new[k] = ab[k - Len(Written)]
  <2>1. Written \in Seq(1 .. lines) /\ ab \in Seq(1 .. lines)
    BY <1>6, <1>7
  <2> QED BY <2>1, Concat
<1>12. Increasing(old) /\ All' = new
  BY <1>8 DEF All
<1> HIDE DEF old, new, Ordered, LinesOnly!TypeOK
<1>13. Len(Written) \in Nat /\ Len(Pending) \in Nat
  BY <1>7
<1>14. Len(new) = Len(old) - gap
  <2>1. Len(a) = i - 1 /\ Len(b) = Len(Pending) - j
    BY <1>3, <1>4
  <2>2. Len(ab) = Len(a) + Len(b)
    BY <1>6
  <2>3. Len(old) = Len(Written) + Len(Pending) /\ Len(new) = Len(Written) + Len(ab)
    BY <1>10, <1>11
  <2> QED BY <2>1, <2>2, <2>3, <1>13
<1>15. ASSUME NEW k \in 1 .. Len(new), k < Len(Written) + i PROVE new[k] = old[k]
  <2>1. CASE k <= Len(Written)
    BY <2>1, <1>10, <1>11, <1>13
  <2>2. CASE k > Len(Written)
    <3>1. k - Len(Written) \in 1 .. i - 1
      BY <1>15, <2>2, <1>13
    <3>2. new[k] = ab[k - Len(Written)]
      BY <2>2, <1>11, <1>13
    <3>3. ab[k - Len(Written)] = Pending[k - Len(Written)]
      BY <3>1, <1>3, <1>6
    <3>4. old[k] = Pending[k - Len(Written)]
      <4>1. k \in Len(Written) + 1 .. Len(Written) + Len(Pending)
        BY <3>1, <2>2, <1>13
      <4> QED BY <4>1, <1>10
    <3> QED BY <3>2, <3>3, <3>4
  <2> QED BY <2>1, <2>2, <1>13
<1>16. ASSUME NEW k \in 1 .. Len(new), k >= Len(Written) + i PROVE new[k] = old[k + gap]
  <2>1. k - Len(Written) - (i - 1) \in 1 .. Len(Pending) - j
    <3>1. Len(new) = Len(Written) + ((i - 1) + (Len(Pending) - j))
      BY <1>3, <1>4, <1>6, <1>11
    <3> QED BY <3>1, <1>13, <1>16
  <2>2. k - Len(Written) \in Len(a) + 1 .. Len(a) + Len(b)
    <3>1. Len(a) = i - 1 /\ Len(b) = Len(Pending) - j
      BY <1>3, <1>4
    <3> QED BY <3>1, <1>13, <2>1
  <2>3. new[k] = ab[k - Len(Written)]
    <3>1. Len(ab) = (i - 1) + (Len(Pending) - j)
      BY <1>3, <1>4, <1>6
    <3>2. k \in Len(Written) + 1 .. Len(Written) + Len(ab)
      BY <3>1, <1>11, <1>13, <1>16
    <3> QED BY <3>2, <1>11
  <2>4. ab[k - Len(Written)] = b[k - Len(Written) - (i - 1)]
    BY <2>2, <1>3, <1>6
  <2>5. b[k - Len(Written) - (i - 1)] = Pending[j + (k - Len(Written) - (i - 1))]
    BY <2>1, <1>4
  <2>6. j + (k - Len(Written) - (i - 1)) = k + gap - Len(Written)
    BY <1>13
  <2>7. old[k + gap] = Pending[k + gap - Len(Written)]
    <3>1. k + gap \in Len(Written) + 1 .. Len(Written) + Len(Pending)
      BY <2>1, <1>13
    <3>2. \A m \in Len(Written) + 1 .. Len(Written) + Len(Pending) : old[m] = Pending[m - Len(Written)]
      BY <1>10
    <3> QED BY <3>1, <3>2
  <2> QED BY <2>3, <2>4, <2>5, <2>6, <2>7
<1>17. ASSUME NEW k \in 1 .. Len(new), NEW l \in 1 .. Len(new), k < l
       PROVE  new[k] < new[l]
  <2>1. gap \in Nat /\ Len(old) \in Nat
    BY <1>10
  <2>2. CASE l < Len(Written) + i
    <3>1. k \in 1 .. Len(old) /\ l \in 1 .. Len(old)
      BY <2>1, <1>14
    <3>2. new[k] = old[k] /\ new[l] = old[l]
      BY <2>2, <1>13, <1>15, <1>17
    <3> QED BY <1>17, <3>1, <3>2, <1>12 DEF Increasing
  <2>3. CASE k < Len(Written) + i /\ l >= Len(Written) + i
    <3>1. k \in 1 .. Len(old) /\ l + gap \in 1 .. Len(old) /\ k < l + gap
      BY <2>1, <1>14, <1>17
    <3>2. new[k] = old[k] /\ new[l] = old[l + gap]
      BY <2>3, <1>15, <1>16
    <3> QED BY <3>1, <3>2, <1>12 DEF Increasing
  <2>4. CASE k >= Len(Written) + i
    <3>1. k + gap \in 1 .. Len(old) /\ l + gap \in 1 .. Len(old) /\ k + gap < l + gap
      BY <2>1, <1>14, <1>17
    <3>2. l >= Len(Written) + i
      <4>1. PICK c \in Nat : c = Len(Written)
        BY <1>13
      <4> QED BY <2>4, <1>17, <4>1
    <3>3. new[k] = old[k + gap]
      BY <2>4, <1>16
    <3>4. new[l] = old[l + gap]
      BY <3>2, <1>16
    <3> HIDE DEF gap
    <3> QED BY <3>1, <3>3, <3>4, <1>12 DEF Increasing
  <2> QED BY <2>2, <2>3, <2>4, <1>13
<1>18. Increasing(new)
  BY <1>17 DEF Increasing
<1> QED BY <1>9, <1>12, <1>18 DEF Ordered

\* Every step of the promise.
LEMMA Ordering == ASSUME Ordered, [LinesOnly!Next]_(LinesOnly!vars) PROVE Ordered'
<1>1. CASE LinesOnly!Accept BY <1>1, Appending
<1>2. CASE LinesOnly!Write BY <1>2, Moving
<1>3. CASE LinesOnly!Drop BY <1>3, Dropping
<1>4. CASE UNCHANGED LinesOnly!vars
  BY <1>4 DEF LinesOnly!vars, Ordered, LinesOnly!TypeOK, Increasing, All
<1> QED BY <1>1, <1>2, <1>3, <1>4 DEF LinesOnly!Next

\* The log is in the order of acceptance, without repetition, and so is what
\* waits behind it, whatever the batches and the drops.
LEMMA PromiseIsInOrder == LinesOnly!Spec => []LinesOnly!InOrder
<1>1. Ordered => LinesOnly!InOrder
  BY DEF Ordered, LinesOnly!InOrder, Increasing, All
<1>2. Ordered /\ [LinesOnly!Next]_(LinesOnly!vars) => Ordered'
  BY Ordering
<1> QED BY NoLines, <1>1, <1>2, PTL DEF LinesOnly!Spec

\* Each step is one of the promise, or changes nothing the promise is about.
LEMMA PromiseStep ==
  ASSUME BuffersOK, Noted, Moves
  PROVE  [LinesOnly!Next]_(LinesOnly!vars)
<1> USE PendingNow
<1>0. /\ lines \in Nat /\ FrontText \in Seq(1 .. lines) /\ Waiting \in Seq(1 .. lines)
      /\ Written \in Seq(1 .. lines)
  BY Texts
<1>1. CASE Accepts
  <2> DEFINE S == 1 .. lines + 1
             t == <<lines + 1>>
  <2>1. FrontText \in Seq(S) /\ Waiting \in Seq(S) /\ t \in Seq(S)
    <3>1. 1 .. lines \subseteq S /\ lines + 1 \in S
      BY <1>0
    <3>2. t \in Seq(S)
      BY <3>1
    <3> HIDE DEF S, t
    <3> QED BY <1>0, <3>1, <3>2, Wider
  <2> HIDE DEF S
  <2>2. Associative(S) /\ Pending \in Seq(S)
    BY <2>1, Regroup
  <2>3. Append(Pending, lines + 1) = Pending \o t
    BY <2>2
  <2> HIDE DEF t
  <2>4. (Waiting \o FrontText) \o t = Waiting \o (FrontText \o t)
    BY <2>1, <2>2 DEF Associative
  <2>5. FrontText' = FrontText \o t /\ Waiting' = Waiting /\ Written' = Written
    BY <1>1 DEF Accepts, t
  <2>6. Pending' = Append(Pending, lines + 1)
    BY <2>3, <2>4, <2>5
  <2> QED BY <1>1, <2>5, <2>6 DEF Accepts, LinesOnly!Next, LinesOnly!Accept
<1>2. CASE Rests
  BY <1>2 DEF Rests, LinesOnly!vars
<1>3. CASE Cuts
  <2>1. PICK a, r \in Seq(1 .. lines) : a # <<>> /\ Waiting = a \o r /\ Waiting' = a
    BY <1>3 DEF Cuts
  <2>2. Written' = Written /\ lines' = lines /\ FrontText' = FrontText
    BY <1>3 DEF Cuts
  <2>3. PICK f : f = FrontText
    OBVIOUS
  <2>4. PICK p : p = Pending
    OBVIOUS
  <2>5. f # <<>> /\ f \in Seq(1 .. lines)
    <3>1. \E m \in notices : m \in ToSet(f)
      BY <1>3, <2>3 DEF Cuts, Noted
    <3>2. f \in Seq(1 .. lines)
      BY <1>0, <2>3
    <3>3. f = <<>> => ToSet(f) = {}
      BY DEF ToSet
    <3> QED BY <3>1, <3>2, <3>3
  <2>6. p = (a \o r) \o f /\ Pending' = a \o f
    BY <2>1, <2>2, <2>3, <2>4
  <2>7. PICK S : S = 1 .. lines
    OBVIOUS
  <2>8. a \in Seq(S) /\ r \in Seq(S) /\ f \in Seq(S) /\ Associative(S)
    BY <2>1, <2>5, <2>7, Regroup
  <2>9. /\ Len(a) \in Nat /\ Len(a) > 0 /\ Len(r) \in Nat /\ Len(f) \in Nat /\ Len(f) > 0
    BY <2>1, <2>5, <2>8
  <2> DEFINE ar == a \o r
             rf == r \o f
  <2>10. ar \in Seq(S) /\ rf \in Seq(S) /\ Len(ar) = Len(a) + Len(r)
    BY <2>8, Concat
  <2>11. p = a \o rf
    BY <2>6, <2>8 DEF Associative
  <2>12. SubSeq(p, 1, Len(a)) = a
    <3> HIDE DEF ar, rf
    <3> QED BY <2>8, <2>10, <2>11, Halves
  <2>13. Len(p) = Len(a) + Len(r) + Len(f) /\ SubSeq(p, Len(a) + Len(r) + 1, Len(p)) = f
    <3>1. p = ar \o f
      BY <2>6
    <3> HIDE DEF ar, rf
    <3>2. /\ Len(ar \o f) = Len(ar) + Len(f)
          /\ SubSeq(ar \o f, Len(ar) + 1, Len(ar \o f)) = f
      <4>1. ar \in Seq(S) /\ f \in Seq(S)
        BY <2>8, <2>10
      <4> QED BY <4>1, Halves
    <3>3. Len(p) = Len(ar) + Len(f) /\ SubSeq(p, Len(ar) + 1, Len(p)) = f
      BY <3>1, <3>2
    <3>4. Len(ar) = Len(a) + Len(r)
      BY <2>10
    <3> QED BY <3>3, <3>4
  <2>14. CASE Len(r) = 0
    <3>1. r = <<>>
      BY <2>8, <2>14
    <3>2. a \o r = a
      BY <2>8, <3>1
    <3>3. Pending' = Pending
      BY <3>2, <2>4, <2>6
    <3> QED BY <3>3, <2>2 DEF LinesOnly!vars
  <2>15. CASE Len(r) # 0
    <3> DEFINE i == Len(a) + 1
               j == Len(a) + Len(r)
    <3>1. i \in 2 .. Len(p) /\ j \in i .. Len(p) - 1
      BY <2>9, <2>13, <2>15
    <3>2. SubSeq(p, 1, i - 1) = a
      BY <2>9, <2>12
    <3>3. SubSeq(p, j + 1, Len(p)) = f
      BY <2>13
    <3> HIDE DEF i, j
    <3>4. Pending' = SubSeq(p, 1, i - 1) \o SubSeq(p, j + 1, Len(p))
      BY <2>6, <3>2, <3>3
    <3>5. LinesOnly!Drop
      BY <2>2, <2>4, <3>1, <3>4 DEF LinesOnly!Drop
    <3> QED BY <3>5 DEF LinesOnly!Next
  <2> QED BY <2>14, <2>15
<1>4. CASE Writes
  <2>1. /\ Written' = Written \o Waiting /\ Waiting' = <<>> /\ FrontText' = FrontText
        /\ lines' = lines
    BY <1>4 DEF Writes
  <2>2. Pending' = FrontText
    BY <1>0, <2>1
  <2>3. CASE Waiting = <<>>
    <3>1. Written' = Written /\ Pending' = Pending
      BY <2>1, <2>2, <2>3, <1>0
    <3> QED BY <3>1, <2>1 DEF LinesOnly!vars
  <2>4. CASE Waiting # <<>>
    <3>1. /\ Len(Pending) = Len(Waiting) + Len(FrontText)
          /\ SubSeq(Pending, 1, Len(Waiting)) = Waiting
          /\ SubSeq(Pending, Len(Waiting) + 1, Len(Pending)) = FrontText
      BY <1>0, Halves
    <3>2. Len(Waiting) \in Nat /\ Len(Waiting) > 0 /\ Len(FrontText) \in Nat
      BY <1>0, <2>4
    <3>3. Len(Waiting) \in 1 .. Len(Pending)
      BY <3>1, <3>2
    <3>4. LinesOnly!Write
      BY <2>1, <2>2, <3>1, <3>3 DEF LinesOnly!Write
    <3> QED BY <3>4 DEF LinesOnly!Next
  <2> QED BY <2>3, <2>4
<1> QED BY <1>1, <1>2, <1>3, <1>4 DEF Moves
\* The elements of three sequences, one behind the other.
LEMMA Three ==
  ASSUME NEW S, NEW s \in Seq(S), NEW t \in Seq(S), NEW u \in Seq(S)
  PROVE  ToSet(s \o (t \o u)) = ToSet(s) \cup ToSet(t) \cup ToSet(u)
<1> DEFINE tu == t \o u
<1>1. tu \in Seq(S) /\ ToSet(tu) = ToSet(t) \cup ToSet(u)
  BY Both, Concat
<1> HIDE DEF tu
<1>2. ToSet(s \o tu) = ToSet(s) \cup ToSet(tu)
  BY <1>1, Both
<1> QED BY <1>1, <1>2 DEF tu

\* In increasing order what comes before is less.
LEMMA Before ==
  ASSUME NEW S, NEW s \in Seq(S), NEW t \in Seq(S), Increasing(s \o t),
         NEW x \in ToSet(s), NEW y \in ToSet(t)
  PROVE  x < y
<1> DEFINE u == s \o t
<1>1. /\ u \in Seq(S) /\ Len(u) = Len(s) + Len(t)
      /\ \A i \in 1 .. Len(s) : u[i] = s[i]
      /\ \A i \in Len(s) + 1 .. Len(s) + Len(t) : u[i] = t[i - Len(s)]
  BY Concat
<1>2. Increasing(u)
  OBVIOUS
<1> HIDE DEF u
<1>3. Len(s) \in Nat /\ Len(t) \in Nat
  OBVIOUS
<1>4. PICK i \in 1 .. Len(s) : x = s[i]
  BY Elements
<1>5. PICK j \in 1 .. Len(t) : y = t[j]
  BY Elements
<1>6. /\ Len(s) + j \in Len(s) + 1 .. Len(s) + Len(t)
      /\ Len(s) + j \in 1 .. Len(u) /\ i \in 1 .. Len(u) /\ i < Len(s) + j
      /\ (Len(s) + j) - Len(s) = j
  BY <1>1, <1>3
<1>7. u[i] = x /\ u[Len(s) + j] = y
  BY <1>1, <1>4, <1>5, <1>6
<1> QED BY <1>2, <1>6, <1>7 DEF Increasing

\* In k are the lines that are left of l, in N the notices.
Announced(k, l, N) == \A n \in (1 .. l) \ k : \E m \in N \cap k : m > n

\* A line thrown away is less than the notice, and so is one thrown away
\* before, if its notice is among those thrown away now.
LEMMA DropsOK ==
  ASSUME BuffersOK, Noted, Moves, InOrder, DropsAreNoted
  PROVE  DropsAreNoted'
<1> DEFINE now == Written \o (Waiting \o FrontText)
           then == Written' \o (Waiting' \o FrontText')
<1>0. /\ lines \in Nat /\ FrontText \in Seq(1 .. lines) /\ Waiting \in Seq(1 .. lines)
      /\ Written \in Seq(1 .. lines) /\ notices \subseteq 1 .. lines
  BY Texts
<1>1. /\ Increasing(now)
      /\ Announced(ToSet(now), lines, notices)
  BY PendingNow DEF InOrder, LinesOnly!InOrder, Increasing, DropsAreNoted, Announced
<1> SUFFICES Announced(ToSet(then), lines', notices')
  BY PendingNow DEF DropsAreNoted, Announced
<1> HIDE DEF now, then
<1>2. CASE Accepts
  <2> DEFINE S == 1 .. lines + 1
             t == <<lines + 1>>
             ft == FrontText \o t
  <2>1. /\ FrontText \in Seq(S) /\ Waiting \in Seq(S) /\ Written \in Seq(S)
        /\ t \in Seq(S) /\ ToSet(t) = {lines + 1}
    <3>1. 1 .. lines \subseteq S /\ lines + 1 \in S
      BY <1>0
    <3>2. t \in Seq(S) /\ DOMAIN t = {1} /\ t[1] = lines + 1
      BY <3>1
    <3> HIDE DEF S, t
    <3>3. ToSet(t) = {lines + 1}
      BY <3>2 DEF ToSet
    <3> QED BY <1>0, <3>1, <3>2, <3>3, Wider
  <2>2. FrontText' = ft /\ Waiting' = Waiting /\ Written' = Written
    BY <1>2 DEF Accepts
  <2> HIDE DEF S, t
  <2>3. ft \in Seq(S) /\ ToSet(ft) = ToSet(FrontText) \cup {lines + 1}
    BY <2>1, Both, Concat
  <2> HIDE DEF ft
  <2>4. then = Written \o (Waiting \o ft)
    BY <2>2 DEF then
  <2>5. ToSet(then) = ToSet(Written) \cup ToSet(Waiting) \cup ToSet(ft)
    BY <2>1, <2>3, <2>4, Three
  <2>6. ToSet(now) = ToSet(Written) \cup ToSet(Waiting) \cup ToSet(FrontText)
    BY <2>1, Three DEF now
  <2>7. ToSet(then) = ToSet(now) \cup {lines + 1}
    BY <2>3, <2>5, <2>6
  <2>8. 1 .. lines' = (1 .. lines) \cup {lines + 1} /\ notices \subseteq notices'
    BY <1>0, <1>2 DEF Accepts
  <2> QED BY <1>1, <2>7, <2>8 DEF Announced
<1>3. CASE Rests
  <2>1. then = now
    BY <1>3 DEF Rests, then, now
  <2> QED BY <1>1, <1>3, <2>1 DEF Rests
<1>4. CASE Cuts
  <2>1. PICK S : S = 1 .. lines
    OBVIOUS
  <2>2. PICK a : a \in Seq(S) /\ \E r \in Seq(S) : Waiting = a \o r /\ Waiting' = a
    BY <1>4, <2>1 DEF Cuts
  <2>3. PICK r : r \in Seq(S) /\ Waiting = a \o r /\ Waiting' = a
    BY <2>2
  <2>4. PICK w : w = Written
    OBVIOUS
  <2>5. PICK f : f = FrontText
    OBVIOUS
  <2>6. w \in Seq(S) /\ f \in Seq(S) /\ Associative(S)
    BY <1>0, <2>1, <2>4, <2>5, Regroup
  <2>7. then = w \o (a \o f)
    BY <1>4, <2>3, <2>4, <2>5 DEF then, Cuts
  <2>8. now = w \o ((a \o r) \o f)
    BY <2>3, <2>4, <2>5 DEF now
  <2> DEFINE ar == a \o r
             war == w \o ar
  <2>9. ar \in Seq(S) /\ ToSet(ar) = ToSet(a) \cup ToSet(r)
    BY <2>2, <2>3, Both, Concat
  <2>10. now = w \o (ar \o f)
    BY <2>8
  <2> HIDE DEF ar
  <2>11. war \in Seq(S) /\ ToSet(war) = ToSet(w) \cup ToSet(ar)
    BY <2>6, <2>9, Both, Concat
  <2>12. now = war \o f
    <3> HIDE DEF war
    <3>1. (w \o ar) \o f = w \o (ar \o f)
      <4>1. ar \in Seq(S)
        BY <2>9
      <4>2. w \in Seq(S)
        BY <2>6
      <4>3. f \in Seq(S)
        BY <2>6
      <4> QED BY <4>1, <4>2, <4>3, Grouped
    <3> QED BY <3>1, <2>10 DEF war
  <2> HIDE DEF war
  <2>13. ToSet(now) = ToSet(w) \cup ToSet(a) \cup ToSet(r) \cup ToSet(f)
    BY <2>6, <2>9, <2>11, <2>12, Both
  <2>14. ToSet(then) = ToSet(w) \cup ToSet(a) \cup ToSet(f)
    BY <2>2, <2>6, <2>7, Three
  <2>15. PICK m \in notices : m \in ToSet(f)
    BY <1>4, <2>5 DEF Cuts, Noted
  <2>16. \A n \in ToSet(r) : n < m
    <3>1. Increasing(war \o f)
      BY <1>1, <2>12
    <3>2. ASSUME NEW n \in ToSet(r) PROVE n < m
      <4>1. n \in ToSet(war)
        BY <2>9, <2>11
      <4> QED BY <3>1, <4>1, <2>6, <2>11, <2>15, Before
    <3> QED BY <3>2
  <2>17. notices' = notices /\ lines' = lines
    BY <1>4 DEF Cuts
  <2>18. ASSUME NEW n \in (1 .. lines) \ ToSet(then)
         PROVE  \E k \in notices \cap ToSet(then) : k > n
    <3>1. m \in notices \cap ToSet(then) /\ m \in Nat /\ n \in Nat
      BY <1>0, <2>14, <2>15
    <3>2. CASE n \in ToSet(now)
      <4>1. n < m
        BY <3>2, <2>13, <2>14, <2>16
      <4> QED BY <3>1, <4>1
    <3>3. CASE n \notin ToSet(now)
      <4>1. PICK k \in notices \cap ToSet(now) : k > n
        BY <3>3, <1>1 DEF Announced
      <4>2. CASE k \in ToSet(then)
        BY <4>1, <4>2
      <4>3. CASE k \notin ToSet(then)
        <5>1. k < m /\ k \in Nat
          BY <4>3, <1>0, <2>13, <2>14, <2>16
        <5> QED BY <5>1, <4>1, <3>1
      <4> QED BY <4>2, <4>3
    <3> QED BY <3>2, <3>3
  <2> QED BY <2>17, <2>18 DEF Announced
<1>5. CASE Writes
  <2>1. /\ Written' = Written \o Waiting /\ Waiting' = <<>> /\ FrontText' = FrontText
        /\ lines' = lines /\ notices' = notices
    BY <1>5 DEF Writes
  <2>2. <<>> \o FrontText = FrontText
    BY <1>0
  <2>3. Associative(1 .. lines)
    BY Regroup
  <2>4. then = (Written \o Waiting) \o FrontText
    BY <2>1, <2>2 DEF then
  <2>5. then = now
    BY <2>3, <2>4, <1>0 DEF now, Associative
  <2> QED BY <1>1, <2>1, <2>5
<1> QED BY <1>2, <1>3, <1>4, <1>5 DEF Moves

----------------------------------------------------------------------------
(* The lists *)

\* The chains are the paths.
LEMMA ChainsAre ==
  ASSUME HeapTypeOK, WorkTypeOK, NEW F, NEW W, Ready(F, W)
  PROVE  /\ F \in Seq(Buffer) /\ W \in Seq(Buffer)
         /\ FrontChain = F /\ WorkChain = W
<1>1. /\ Path(next, F) /\ F \in Seq(Buffer) /\ Path(next, W) /\ W \in Seq(Buffer)
      /\ next \in Table /\ Shape(next, F, W)
  BY DEF Ready, Shape, Path, HeapTypeOK, Table
<1>2. Grounded(next)
  BY <1>1, Rooted
<1>3. FrontChain = F
  <2>1. FrontIs(buffers, curr_buffer, F) /\ buffers \in List
    BY DEF Ready, HeapTypeOK
  <2>2. Len(F) > 0 /\ FrontHead = F[1]
    BY <1>1, <2>1, FrontHeads DEF FrontHead
  <2>3. ChainIn(next, F[1]) = F
    BY <1>1, <1>2, <2>2, ChainOfPath
  <2> QED BY <2>2, <2>3, ChainNow DEF FrontChain
<1>4. WorkChain = W
  <2>1. buffers_to_write.head = HeadOf(W)
    BY <1>1, WorkHeads DEF Ready, WorkTypeOK
  <2>2. CASE Len(W) = 0
    <3>1. W = <<>>
      BY <1>1, <2>2
    <3>2. ChainIn(next, None) = <<>>
      BY <1>1, <1>2, Chains
    <3> QED BY <2>1, <2>2, <3>1, <3>2, ChainNow DEF WorkChain, HeadOf
  <2>3. CASE Len(W) # 0
    <3>1. Len(W) > 0
      BY <1>1, <2>3
    <3>2. ChainIn(next, W[1]) = W
      BY <1>1, <1>2, <3>1, ChainOfPath
    <3> QED BY <2>1, <2>3, <3>2, ChainNow DEF WorkChain, HeadOf
  <2> QED BY <2>2, <2>3
<1> QED BY <1>1, <1>3, <1>4

LEMMA OneOK ==
  ASSUME NEW b \in Buffer \cup {None}
  PROVE  /\ One(b) \in Seq(Buffer) /\ IsInjective(One(b))
         /\ ToSet(One(b)) = {b} \ {None}
<1>1. CASE b = None
  <2>1. One(b) = <<>>
    BY <1>1 DEF One
  <2> QED BY <1>1, <2>1 DEF IsInjective, ToSet
<1>2. CASE b # None
  <2>1. One(b) = <<b>>
    BY <1>2 DEF One
  <2> QED BY <1>2, <2>1 DEF IsInjective, ToSet
<1> QED BY <1>1, <1>2

\* The spare buffers, each once.
LEMMA SparesAre ==
  ASSUME HeapTypeOK, WorkTypeOK, NEW F, NEW W, Owned(F, W)
  PROVE  /\ Spares \in Seq(Buffer) /\ IsInjective(Spares)
         /\ ToSet(Spares) = SpareSet
<1>1. PICK x : x = One(next_buffer)
  OBVIOUS
<1>2. PICK y : y = One(new_buffer1)
  OBVIOUS
<1>3. PICK z : z = One(new_buffer2)
  OBVIOUS
<1>4. /\ x \in Seq(Buffer) /\ IsInjective(x) /\ ToSet(x) = {next_buffer} \ {None}
      /\ y \in Seq(Buffer) /\ IsInjective(y) /\ ToSet(y) = {new_buffer1} \ {None}
      /\ z \in Seq(Buffer) /\ IsInjective(z) /\ ToSet(z) = {new_buffer2} \ {None}
  BY <1>1, <1>2, <1>3, OneOK DEF HeapTypeOK, WorkTypeOK
<1>5. /\ ToSet(x) \cap ToSet(y) = {}
      /\ (ToSet(x) \cup ToSet(y)) \cap ToSet(z) = {}
  BY <1>4 DEF Owned
<1> DEFINE xy == x \o y
<1>6. xy \in Seq(Buffer) /\ IsInjective(xy) /\ ToSet(xy) = ToSet(x) \cup ToSet(y)
  <2>1. x \in Seq(Buffer) /\ y \in Seq(Buffer)
    BY <1>4
  <2>2. xy \in Seq(Buffer)
    BY <2>1, Concat
  <2>3. ToSet(xy) = ToSet(x) \cup ToSet(y)
    BY <2>1, Both
  <2>4. IsInjective(x) /\ IsInjective(y) /\ ToSet(x) \cap ToSet(y) = {}
    BY <1>4, <1>5
  <2>5. IsInjective(xy)
    BY <2>1, <2>4, Distinct
  <2> QED BY <2>2, <2>3, <2>5
<1>7. Spares = xy \o z
  BY <1>1, <1>2, <1>3 DEF Spares
<1> HIDE DEF xy
<1>8. Spares \in Seq(Buffer) /\ ToSet(Spares) = ToSet(xy) \cup ToSet(z)
  <2>1. xy \in Seq(Buffer) /\ z \in Seq(Buffer)
    BY <1>4, <1>6
  <2>2. xy \o z \in Seq(Buffer)
    BY <2>1, Concat
  <2>3. ToSet(xy \o z) = ToSet(xy) \cup ToSet(z)
    BY <2>1, Both
  <2> QED BY <2>2, <2>3, <1>7
<1>9. IsInjective(Spares)
  BY <1>4, <1>5, <1>6, <1>7, Distinct
<1> QED BY <1>4, <1>6, <1>8, <1>9 DEF SpareSet

LEMMA OwnedNow == ASSUME BuffersOK PROVE OwnedOnce
<1>1. PICK F, W : Sound(F, W)
  BY DEF BuffersOK
<1>2. /\ HeapTypeOK /\ WorkTypeOK /\ Ready(F, W) /\ Owned(F, W)
      /\ IsInjective(F) /\ IsInjective(W) /\ ToSet(F) \cap ToSet(W) = {}
  BY <1>1 DEF BuffersOK, Sound, Ready, Shape
<1>3. /\ F \in Seq(Buffer) /\ W \in Seq(Buffer) /\ FrontChain = F /\ WorkChain = W
  BY <1>2, ChainsAre
<1>4. /\ Spares \in Seq(Buffer) /\ IsInjective(Spares) /\ ToSet(Spares) = SpareSet
  BY <1>2, SparesAre
<1> DEFINE fw == F \o W
<1>5. fw \in Seq(Buffer) /\ IsInjective(fw) /\ ToSet(fw) = ToSet(F) \cup ToSet(W)
  BY <1>2, <1>3, Both, Concat, Distinct
<1> HIDE DEF fw
<1>6. ToSet(fw) \cap ToSet(Spares) = {}
  BY <1>2, <1>4, <1>5 DEF Owned
<1>7. IsInjective(fw \o Spares)
  BY <1>4, <1>5, <1>6, Distinct
<1>8. ToSet(fw \o Spares) = ToSet(fw) \cup ToSet(Spares)
  BY <1>4, <1>5, Both
<1>9. ToSet(fw \o Spares) = alloc
  BY <1>2, <1>4, <1>5, <1>8 DEF Owned
<1>10. fw = FrontChain \o WorkChain
  BY <1>3 DEF fw
<1> QED BY <1>7, <1>9, <1>10 DEF OwnedOnce

LEMMA SoundNow == ASSUME FileTypeOK, BuffersOK PROVE ListsSound
<1>1. PICK F, W : Sound(F, W)
  BY DEF BuffersOK
<1>2. /\ HeapTypeOK /\ WorkTypeOK /\ OutTypeOK /\ Ready(F, W) /\ Owned(F, W) /\ Stage(W)
      /\ FrontIs(buffers, curr_buffer, F) /\ WorkIs(buffers_to_write, W)
      /\ Shape(next, F, W)
  BY <1>1 DEF BuffersOK, Sound, Ready
<1>3. /\ F \in Seq(Buffer) /\ W \in Seq(Buffer) /\ FrontChain = F /\ WorkChain = W
  BY <1>2, ChainsAre
<1>4. TypeOK
  BY <1>2 DEF TypeOK, HeapTypeOK, WorkTypeOK, OutTypeOK, FileTypeOK
<1>5. /\ Len(F) = buffers.size + 1 /\ Last(F) = curr_buffer
      /\ IF buffers.size = 0 THEN buffers = EmptyList ELSE F[buffers.size] = buffers.tail
  BY <1>2 DEF FrontIs, Last
<1>6. Len(W) = buffers_to_write.size /\ (buffers_to_write.size > 0 => Last(W) = buffers_to_write.tail)
  BY <1>2 DEF WorkIs, Last
<1>7. pc \in {"loop", "lock", "done"} => /\ buffers_to_write = EmptyList
                                         /\ new_buffer1 # None /\ new_buffer2 # None
  BY <1>2 DEF Stage, WorkIs
<1>8. pc = "recycle" => buffers_to_write.size >= IF new_buffer2 = None THEN 2 ELSE 1
  <2>1. Len(W) \in Nat
    BY <1>3
  <2> QED BY <2>1, <1>2, <1>6 DEF Stage
<1>9. \A i \in 1 .. Len(Spares) : data[Spares[i]] = <<>> /\ next[Spares[i]] = None
  <2> SUFFICES ASSUME NEW i \in 1 .. Len(Spares)
               PROVE  data[Spares[i]] = <<>> /\ next[Spares[i]] = None
    OBVIOUS
  <2>1. Spares \in Seq(Buffer) /\ ToSet(Spares) = SpareSet
    BY <1>2, SparesAre
  <2>2. Spares[i] \in SpareSet /\ Spares[i] \in Buffer
    BY <2>1, Elements
  <2>3. Spares[i] \in Buffer \ (ToSet(F) \cup ToSet(W))
    BY <2>2, <1>2 DEF Owned
  <2> QED BY <2>3, <1>2 DEF Owned, Shape
<1> QED BY <1>3, <1>4, <1>5, <1>6, <1>7, <1>8, <1>9 DEF ListsSound
----------------------------------------------------------------------------
LogInv == IInv /\ BuffersOK /\ Noted

LEMMA LogInvOK ==
  /\ Init => LogInv
  /\ LogInv /\ [Next]_vars => LogInv'
<1>1. Init => LogInv
  BY InitOK, FirstOK DEF LogInv
<1>2. ASSUME LogInv, [Next]_vars PROVE LogInv'
  <2>1. IInv /\ FileTypeOK /\ BuffersOK /\ Noted
    BY <1>2 DEF LogInv, IInv
  <2>2. IInv'
    BY <1>2, <2>1, StepOK
  <2>3. BuffersOK' /\ Moves
    BY <1>2, <2>1, MovesOK
  <2>4. Noted'
    BY <2>1, <2>3, NotedOK
  <2> QED BY <2>2, <2>3, <2>4 DEF LogInv
<1> QED BY <1>1, <1>2

LEMMA LogInvariant == Spec => []LogInv
BY LogInvOK, PTL DEF Spec

\* However many buffers there are and however fast the lines come, each
\* buffer that is allocated is in one place: none is leaked, linked twice, or
\* freed or recycled while the front end or the worker still has it.
THEOREM BuffersAreOwnedOnce == Spec => []OwnedOnce
<1>1. LogInv => OwnedOnce
  BY OwnedNow DEF LogInv
<1> QED BY <1>1, LogInvariant, PTL

\* The lists and the spare buffers are what the assertions of lua-log.c take
\* them to be, whatever append() does between two steps of the worker.
THEOREM ListsAreSound == Spec => []ListsSound
<1>1. LogInv => ListsSound
  BY SoundNow DEF LogInv, IInv
<1> QED BY <1>1, LogInvariant, PTL

\* The logger implements LineLog: its buffers, read along their pointers, are
\* a queue of lines.
THEOREM LoggerKeepsPromise == Spec => KeepsLog
<1>1. Init => LinesOnly!Init
  <2> SUFFICES ASSUME Init PROVE LinesOnly!Init
    OBVIOUS
  <2>1. lines = 0 /\ Written = <<>>
    BY DEF Init, Written
  <2>2. pc = "start" /\ buffers_to_write = EmptyList /\ FrontText \in Seq(1 .. 0) /\ Waiting \in Seq(1 .. 0)
    BY <2>1, FirstOK, Texts DEF Init
  <2>3. FrontText = <<>> /\ Waiting = <<>>
    <3>1. \A s \in Seq(1 .. 0) : s = <<>>
      <4>1. 1 .. 0 = {}
        OBVIOUS
      <4>2. \A s \in Seq({}) : s = <<>>
        OBVIOUS
      <4> QED BY <4>1, <4>2
    <3> QED BY <3>1, <2>2
  <2>4. Pending = <<>>
    BY <2>3, PendingNow
  <2> QED BY <2>1, <2>4 DEF LinesOnly!Init
<1>2. LogInv /\ [Next]_vars => [LinesOnly!Next]_(LinesOnly!vars)
  <2> SUFFICES ASSUME LogInv, [Next]_vars PROVE [LinesOnly!Next]_(LinesOnly!vars)
    OBVIOUS
  <2>1. Moves
    BY MovesOK DEF LogInv, IInv
  <2> QED BY <2>1, PromiseStep DEF LogInv
<1> QED BY <1>1, <1>2, LogInvariant, PTL DEF Spec, KeepsLog, LinesOnly!Spec

\* So each line reaches the files once, and in the order of acceptance: what
\* LineLog promises of every queue, of this one.
THEOREM LinesAreInOrder == Spec => []InOrder
  BY LoggerKeepsPromise, PromiseIsInOrder, PTL DEF KeepsLog, InOrder

\* No line vanishes silently, whatever the limit and the number of cuts: a
\* later line that is written, or will be, says that lines were dropped.
THEOREM DropsAreAnnounced == Spec => []DropsAreNoted
<1>1. Init => DropsAreNoted
  BY DEF Init, DropsAreNoted
<1>2. LogInv /\ InOrder /\ DropsAreNoted /\ [Next]_vars => DropsAreNoted'
  <2> SUFFICES ASSUME LogInv, InOrder, DropsAreNoted, [Next]_vars PROVE DropsAreNoted'
    OBVIOUS
  <2>1. Moves
    BY MovesOK DEF LogInv, IInv
  <2> QED BY <2>1, DropsOK DEF LogInv
<1> QED BY <1>1, <1>2, LogInvariant, LinesAreInOrder, PTL DEF Spec
=============================================================================
