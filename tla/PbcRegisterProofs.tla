------------------------- MODULE PbcRegisterProofs --------------------------
(***************************************************************************)
(* Proofs about PbcRegister, for every set of files, whatever they import  *)
(* and in whatever order they come.  First, what a call that has ended     *)
(* says of its files is true: a pass counts the files that miss a          *)
(* dependency and compares the number with that of the pass before; the    *)
(* proof shows what two equal numbers mean.  Then the types themselves:    *)
(* the maps that are filled while a file is registered, the indices that   *)
(* are built of them, and that in every state they are what the registered *)
(* files declare, each field linked to the type it names.                  *)
(***************************************************************************)
EXTENDS PbcRegister, PbcMapProofs, FiniteSetTheorems, TLAPS

\* The places of files that are neither registered nor marked as done, those
\* this pass has been at, and those it has still to come to.
Waits(i) == todo[i] # NULL /\ ~ Exists(todo[i])
Left == {i \in DOMAIN todo : Waits(i)}
Passed == {i \in Left : i < at}
Ahead == {i \in Left : at <= i}

\* A pass has counted each file it has left behind; the count and what lies
\* ahead do not exceed the count of the pass before; and if they are as many,
\* nothing was registered in this pass, so that what was missing still is.
\* There is no verdict yet.
Counted == at # 0 =>
  /\ result = "none"
  /\ todo # <<>> /\ before >= 1 /\ before <= Len(todo)
  /\ Cardinality(Passed) <= found
  /\ found + Cardinality(Ahead) <= before
  /\ found + Cardinality(Ahead) = before =>
       found = Cardinality(Passed) /\ \A i \in Passed : Misses(todo[i])

Places ==
  /\ todo \in Seq(File \cup {NULL})
  /\ at \in 0 .. Len(todo) + 1
  /\ found \in Nat /\ before \in Nat
  /\ at = 0 => todo = <<>>

IInv == Places /\ Counted

-----------------------------------------------------------------------------
\* Places of a list are finitely many, and no more than it is long.
LEMMA SizeOf ==
  ASSUME NEW n \in Nat, NEW S \in SUBSET (1 .. n)
  PROVE  IsFiniteSet(S) /\ Cardinality(S) \in Nat /\ Cardinality(S) <= n
<1>1. /\ IsFiniteSet(1 .. n)
      /\ Cardinality(1 .. n) = IF 1 > n THEN 0 ELSE n - 1 + 1
  BY FS_Interval
<1>2. Cardinality(1 .. n) = n BY <1>1
<1> QED BY <1>1, <1>2, FS_Subset, FS_CardinalityType

\* The three sets are such places.
LEMMA LeftFinite ==
  ASSUME Places
  PROVE  /\ Len(todo) \in Nat
         /\ \A i \in Left : i \in 1 .. Len(todo) /\ i \in Int
         /\ IsFiniteSet(Left) /\ IsFiniteSet(Passed) /\ IsFiniteSet(Ahead)
         /\ Cardinality(Left) \in Nat /\ Cardinality(Left) <= Len(todo)
         /\ Cardinality(Passed) \in Nat /\ Cardinality(Ahead) \in Nat
<1>1. Len(todo) \in Nat /\ DOMAIN todo = 1 .. Len(todo)
  BY DEF Places
<1>2. Left \in SUBSET (1 .. Len(todo)) BY <1>1 DEF Left
<1>3. Passed \in SUBSET (1 .. Len(todo)) /\ Ahead \in SUBSET (1 .. Len(todo))
  BY <1>2 DEF Passed, Ahead
<1>4. \A i \in Left : i \in 1 .. Len(todo) /\ i \in Int BY <1>1, <1>2
<1> QED BY <1>1, <1>2, <1>3, <1>4, SizeOf

\* Without one of its elements a finite set is one less,
LEMMA OneLess ==
  ASSUME NEW S, NEW x \in S, IsFiniteSet(S)
  PROVE  IsFiniteSet(S \ {x}) /\ Cardinality(S \ {x}) = Cardinality(S) - 1
BY FS_RemoveElement

\* and with one that it had not, one more.
LEMMA WithMore ==
  ASSUME NEW S, NEW x, x \notin S, IsFiniteSet(S)
  PROVE  Cardinality(S \cup {x}) = Cardinality(S) + 1
BY FS_AddElement

\* What is at the pass is ahead of it and no place it has passed.
LEMMA AtIsAhead ==
  ASSUME Places, InPass, Waits(at)
  PROVE  at \in Ahead /\ at \notin Passed
<1>1. at \in Int BY DEF Places
<1> QED BY <1>1 DEF InPass, Left, Ahead, Passed

\* Before a pass everything is ahead (S is Left, of this state or the next),
LEMMA AtTheStart ==
  ASSUME NEW S, \A i \in S : i \in Int /\ 1 <= i
  PROVE  {i \in S : i < 1} = {} /\ {i \in S : 1 <= i} = S
OBVIOUS

\* and after it nothing is.
LEMMA AtTheEnd ==
  ASSUME Places, at = Len(todo) + 1
  PROVE  Passed = Left /\ Ahead = {}
<1>1. \A i \in Left : i < Len(todo) + 1 /\ ~ (Len(todo) + 1 <= i)
  BY LeftFinite
<1> QED BY <1>1 DEF Passed, Ahead

-----------------------------------------------------------------------------
LEMMA InitCounts == Init => IInv
BY DEF Init, IInv, Places, Counted

\* A call begins with every file ahead.
LEMMA CallCounts == IInv /\ Call => IInv'
<1> SUFFICES ASSUME IInv, Call PROVE IInv' OBVIOUS
<1>1. PICK set \in Sets :
        /\ at = 0
        /\ IF set = <<>> THEN UNCHANGED <<todo, at, before>>
           ELSE /\ todo' = set /\ at' = 1 /\ before' = Len(set)
                /\ result' = "none"
        /\ found' = 0
  BY DEF Call
<1>2. CASE set = <<>>
  BY <1>1, <1>2 DEF IInv, Places, Counted
<1>3. CASE set # <<>>
  <2>1. set \in Seq(File) BY SetsAssumption
  <2>2. set \in Seq(File \cup {NULL}) /\ Len(set) \in Nat /\ Len(set) >= 1
    BY <1>3, <2>1
  <2>3. Places' BY <1>1, <1>3, <2>2 DEF Places
  <2>4. Passed' = {} /\ Ahead' = Left'
    <3>1. \A i \in Left' : i \in Int /\ 1 <= i
      BY <1>1, <1>3, <2>2 DEF Left
    <3>2. Passed' = {i \in Left' : i < 1} /\ Ahead' = {i \in Left' : 1 <= i}
      BY <1>1, <1>3 DEF Passed, Ahead
    <3> QED BY <3>1, <3>2, AtTheStart
  <2>5. Cardinality(Left') \in Nat /\ Cardinality(Left') <= Len(todo')
    <3>1. Left' \in SUBSET (1 .. Len(set)) /\ Len(todo') = Len(set)
      BY <1>1, <1>3, <2>2 DEF Left
    <3> QED BY <2>2, <3>1, SizeOf
  <2>6. Cardinality({}) = 0 BY FS_EmptySet
  <2>7. Counted'
    <3>1. result' = "none" /\ todo' # <<>> /\ before' >= 1 /\ before' <= Len(todo')
      BY <1>1, <1>3, <2>2
    <3>2. found' = 0 /\ before' = Len(todo') BY <1>1, <1>3
    <3>3. Cardinality(Passed') = 0 /\ Cardinality(Ahead') = Cardinality(Left')
      BY <2>4, <2>6
    <3>4. \A i \in Passed' : Misses(todo[i])' BY <2>4
    <3> QED BY <2>5, <3>1, <3>2, <3>3, <3>4 DEF Counted
  <2> QED BY <2>3, <2>7 DEF IInv
<1> QED BY <1>2, <1>3

\* A file that is done is neither left behind nor ahead.
LEMMA PassCounts == IInv /\ Pass => IInv'
<1> SUFFICES ASSUME IInv, Pass PROVE IInv' OBVIOUS
<1>1. /\ at \in DOMAIN todo /\ ~ Waits(at) /\ at' = at + 1
      /\ UNCHANGED <<files, todo, found, before, result>>
  BY DEF Pass, InPass, Waits
<1>2. Places /\ Counted /\ at \in 1 .. Len(todo) /\ Len(todo) \in Nat
  BY <1>1 DEF IInv, Places
<1>3. Places' BY <1>1, <1>2 DEF Places
<1>4. Left' = Left BY <1>1 DEF Left, Waits, Exists
<1>5. \A i \in Left : i \in Int /\ i # at
  BY <1>1, <1>2, LeftFinite DEF Left
<1>6. Passed' = Passed /\ Ahead' = Ahead
  BY <1>1, <1>2, <1>4, <1>5 DEF Passed, Ahead
<1>7. Counted' BY <1>1, <1>2, <1>6 DEF Counted, Misses
<1> QED BY <1>3, <1>7 DEF IInv

\* A file that misses another is counted when it is left behind.
LEMMA MissCounts == IInv /\ Miss => IInv'
<1> SUFFICES ASSUME IInv, Miss PROVE IInv' OBVIOUS
<1>1. /\ InPass /\ Waits(at) /\ Misses(todo[at]) /\ at' = at + 1
      /\ found' = found + 1 /\ UNCHANGED <<files, todo, before, result>>
  BY DEF Miss, Waits
<1>2. /\ Places /\ Counted /\ at \in 1 .. Len(todo) /\ Len(todo) \in Nat
      /\ found \in Nat /\ before \in Nat
  BY <1>1 DEF IInv, Places, InPass
<1>3. Places' BY <1>1, <1>2 DEF Places
<1>4. Left' = Left BY <1>1 DEF Left, Waits, Exists
<1>5. at \in Left /\ \A i \in Left : i \in Int
  BY <1>1, <1>2, LeftFinite DEF Left, InPass
<1>6. Passed' = Passed \cup {at} /\ Ahead' = Ahead \ {at}
  <2>1. \A i \in Left : /\ i < at + 1 <=> i < at \/ i = at
                        /\ at + 1 <= i <=> at <= i /\ i # at
    BY <1>2, <1>5
  <2>2. /\ Passed' = {i \in Left : i < at + 1}
        /\ Ahead' = {i \in Left : at + 1 <= i}
    BY <1>1, <1>4 DEF Passed, Ahead
  <2>3. Passed' = Passed \cup {at} BY <1>5, <2>1, <2>2 DEF Passed
  <2>4. Ahead' = Ahead \ {at} BY <2>1, <2>2 DEF Ahead
  <2> QED BY <2>3, <2>4
<1>7. at \in Ahead /\ at \notin Passed BY <1>1, <1>2, AtIsAhead
<1>8. /\ IsFiniteSet(Passed) /\ IsFiniteSet(Ahead)
      /\ Cardinality(Passed) \in Nat /\ Cardinality(Ahead) \in Nat
  BY <1>2, LeftFinite
<1>9. /\ Cardinality(Passed') = Cardinality(Passed) + 1
      /\ Cardinality(Ahead') = Cardinality(Ahead) - 1
  BY <1>6, <1>7, <1>8, WithMore, OneLess
<1>10. found' + Cardinality(Ahead') = found + Cardinality(Ahead)
  BY <1>1, <1>2, <1>8, <1>9
<1>11. /\ result = "none" /\ todo # <<>> /\ before >= 1 /\ before <= Len(todo)
       /\ Cardinality(Passed) <= found
       /\ found + Cardinality(Ahead) <= before
       /\ found + Cardinality(Ahead) = before =>
            found = Cardinality(Passed) /\ \A i \in Passed : Misses(todo[i])
  BY <1>2 DEF Counted
<1>12. found' + Cardinality(Ahead') = before' =>
         found' = Cardinality(Passed') /\ \A i \in Passed' : Misses(todo[i])'
  BY <1>1, <1>6, <1>9, <1>10, <1>11 DEF Misses
<1>13. /\ result' = "none" /\ todo' # <<>> /\ before' >= 1 /\ before' <= Len(todo')
       /\ Cardinality(Passed') <= found'
       /\ found' + Cardinality(Ahead') <= before'
  BY <1>1, <1>2, <1>8, <1>9, <1>10, <1>11
<1>14. Counted' BY <1>12, <1>13 DEF Counted
<1> QED BY <1>3, <1>14 DEF IInv

\* A file that is registered lies ahead no longer, and takes others of its
\* name with it, so that from now on the numbers cannot be equal.
LEMMA RegisterCounts == IInv /\ Register => IInv'
<1> SUFFICES ASSUME IInv, Register PROVE IInv' OBVIOUS
<1>1. /\ InPass /\ Waits(at) /\ at' = at + 1
      /\ files' = files \cup {todo[at]} /\ todo' = [todo EXCEPT ![at] = NULL]
      /\ UNCHANGED <<found, before, result>>
  BY DEF Register, Waits
<1>2. /\ Places /\ Counted /\ at \in 1 .. Len(todo) /\ Len(todo) \in Nat
      /\ found \in Nat /\ before \in Nat /\ todo \in Seq(File \cup {NULL})
  BY <1>1 DEF IInv, Places, InPass
<1>3. /\ todo' \in Seq(File \cup {NULL}) /\ Len(todo') = Len(todo)
      /\ DOMAIN todo' = DOMAIN todo
  BY <1>1, <1>2
<1>4. Places' BY <1>1, <1>2, <1>3 DEF Places
<1>5. Left' \subseteq Left \ {at}
  BY <1>1, <1>2, <1>3 DEF Left, Waits, Exists
<1>6. \A i \in Left : i \in Int BY <1>2, LeftFinite
<1>7. Passed' \in SUBSET Passed /\ Ahead' \in SUBSET (Ahead \ {at})
  <2>1. \A i \in Left \ {at} : /\ i < at + 1 => i < at
                               /\ at + 1 <= i => at <= i
    BY <1>2, <1>6
  <2>2. /\ Passed' = {i \in Left' : i < at + 1}
        /\ Ahead' = {i \in Left' : at + 1 <= i}
    BY <1>1 DEF Passed, Ahead
  <2>3. \A i \in Passed' : i \in Passed BY <1>5, <2>1, <2>2 DEF Passed
  <2>4. \A i \in Ahead' : i \in Ahead \ {at} BY <1>5, <2>1, <2>2 DEF Ahead
  <2> QED BY <2>3, <2>4
<1>8. at \in Ahead BY <1>1, <1>2, AtIsAhead
<1>9. /\ IsFiniteSet(Passed) /\ IsFiniteSet(Ahead)
      /\ Cardinality(Passed) \in Nat /\ Cardinality(Ahead) \in Nat
  BY <1>2, LeftFinite
<1>10. /\ IsFiniteSet(Ahead \ {at})
       /\ Cardinality(Ahead \ {at}) = Cardinality(Ahead) - 1
  BY <1>8, <1>9, OneLess
<1>11. /\ Cardinality(Passed') <= Cardinality(Passed)
       /\ Cardinality(Ahead') <= Cardinality(Ahead) - 1
  BY <1>7, <1>9, <1>10, FS_Subset
<1>12. Cardinality(Passed') \in Nat /\ Cardinality(Ahead') \in Nat
  BY <1>7, <1>9, <1>10, FS_Subset, FS_CardinalityType
<1>13. /\ result = "none" /\ todo # <<>> /\ before >= 1 /\ before <= Len(todo)
       /\ Cardinality(Passed) <= found
       /\ found + Cardinality(Ahead) <= before
  BY <1>2 DEF Counted
<1>14. todo' # <<>> /\ result' = "none" BY <1>1, <1>2, <1>3, <1>13
<1>15. /\ before' >= 1 /\ before' <= Len(todo')
       /\ Cardinality(Passed') <= found'
       /\ found' + Cardinality(Ahead') < before'
  BY <1>1, <1>2, <1>3, <1>9, <1>11, <1>12, <1>13
<1>16. Counted' BY <1>1, <1>2, <1>12, <1>14, <1>15 DEF Counted
<1> QED BY <1>4, <1>16 DEF IInv

\* The next pass has to beat the count of the one that ends.
LEMMA FinishCounts == IInv /\ Finish => IInv'
<1> SUFFICES ASSUME IInv, Finish PROVE IInv' OBVIOUS
<1>1. /\ at = Len(todo) + 1 /\ todo # <<>> /\ found' = 0
      /\ UNCHANGED files
  BY DEF Finish
<1>2. /\ Places /\ Counted /\ Len(todo) \in Nat
      /\ found \in Nat /\ before \in Nat
  BY DEF IInv, Places
<1>3. CASE EndPass(found, before)
  <2>1. todo' = <<>> /\ at' = 0 /\ before' = 0 BY <1>3 DEF Finish
  <2> QED BY <1>1, <2>1 DEF IInv, Places, Counted
<1>4. CASE ~ EndPass(found, before)
  <2>1. at' = 1 /\ before' = found /\ todo' = todo /\ found # 0
    BY <1>4 DEF Finish, EndPass
  <2>2. Places' BY <1>1, <1>2, <2>1 DEF Places
  <2>3. Left' = Left BY <1>1, <2>1 DEF Left, Waits, Exists
  <2>4. Passed' = {} /\ Ahead' = Left'
    <3>1. \A i \in Left' : i \in Int /\ 1 <= i BY <1>2, <2>3, LeftFinite
    <3>2. Passed' = {i \in Left' : i < 1} /\ Ahead' = {i \in Left' : 1 <= i}
      BY <2>1 DEF Passed, Ahead
    <3> QED BY <3>1, <3>2, AtTheStart
  <2>5. Passed = Left /\ Ahead = {} BY <1>1, <1>2, AtTheEnd
  <2>6. Cardinality({}) = 0 BY FS_EmptySet
  <2>7. Cardinality(Left) \in Nat BY <1>2, LeftFinite
  <2>8. at # 0 BY <1>1, <1>2
  <2>9. Cardinality(Left) <= found /\ found <= before /\ before <= Len(todo)
    BY <1>2, <2>5, <2>6, <2>8 DEF Counted
  <2>10. Cardinality(Passed') = 0 /\ Cardinality(Ahead') = Cardinality(Left)
    BY <2>3, <2>4, <2>6
  <2>11. \A i \in Passed' : Misses(todo[i])' BY <2>4
  <2>12. /\ before' >= 1 /\ before' <= Len(todo')
         /\ Cardinality(Passed') <= found'
         /\ found' + Cardinality(Ahead') <= before'
         /\ found' = Cardinality(Passed')
    BY <1>1, <1>2, <2>1, <2>7, <2>9, <2>10
  <2>13. todo' # <<>> /\ result' = "none"
    BY <1>1, <1>2, <1>4, <2>1, <2>8 DEF Finish, Counted
  <2>14. Counted' BY <2>11, <2>12, <2>13 DEF Counted
  <2> QED BY <2>2, <2>14 DEF IInv
<1> QED BY <1>3, <1>4

LEMMA StutterCounts == IInv /\ UNCHANGED vars => IInv'
BY DEF IInv, Places, Counted, Passed, Ahead, Left, Waits, Exists, Misses, vars

LEMMA NextCounts == IInv /\ [Next]_vars => IInv'
BY CallCounts, PassCounts, MissCounts, RegisterCounts, FinishCounts,
   StutterCounts DEF Next

\* In every reachable state the counts of a pass mean what they should.
LEMMA Counting == Spec => []IInv
BY InitCounts, NextCounts, PTL DEF Spec

-----------------------------------------------------------------------------
\* A pass that has found nothing has left nothing behind.
LEMMA OkIsComplete ==
  ASSUME IInv, Finish, result' = "ok"
  PROVE  Left = {}
<1>1. /\ Places /\ Counted /\ at = Len(todo) + 1 /\ Len(todo) \in Nat
      /\ found \in Nat /\ before \in Nat
  BY DEF IInv, Places, Finish
<1>2. CASE EndPass(found, before)
  <2>1. found # before
    BY <1>2 DEF Finish
  <2>2. found = 0 BY <1>2, <2>1 DEF EndPass
  <2>3. Passed = Left BY <1>1, AtTheEnd
  <2>4. Cardinality(Left) <= found BY <1>1, <2>3 DEF Counted
  <2>5. Cardinality(Left) = 0 BY <1>1, <2>2, <2>4, LeftFinite
  <2> QED BY <1>1, <2>5, LeftFinite, FS_EmptySet
<1>3. CASE ~ EndPass(found, before)
  <2>1. result' = result BY <1>3 DEF Finish
  <2>2. result = "none" BY <1>1 DEF Counted
  <2> QED BY <2>1, <2>2
<1> QED BY <1>2, <1>3

\* Two passes that found as many have not registered anything in between.
LEMMA DependencyIsMissing ==
  ASSUME IInv, Finish, result' = "dependency"
  PROVE  Left # {} /\ \A i \in Left : Misses(todo[i])
<1>1. /\ Places /\ Counted /\ at = Len(todo) + 1 /\ Len(todo) \in Nat
      /\ found \in Nat /\ before \in Nat
  BY DEF IInv, Places, Finish
<1>2. at # 0 BY <1>1
<1>3. result = "none" BY <1>1, <1>2 DEF Counted
<1>4. EndPass(found, before) /\ found = before
  BY <1>3 DEF Finish
<1>5. Passed = Left /\ Ahead = {} BY <1>1, AtTheEnd
<1>6. Cardinality({}) = 0 BY FS_EmptySet
<1>7. found + Cardinality(Ahead) = before BY <1>1, <1>4, <1>5, <1>6
<1>8. /\ found = Cardinality(Left) /\ before >= 1
      /\ \A i \in Left : Misses(todo[i])
  BY <1>2, <1>1, <1>5, <1>7 DEF Counted
<1>9. Cardinality(Left) # 0 BY <1>1, <1>4, <1>8
<1>10. Left # {} BY <1>6, <1>9
<1> QED BY <1>8, <1>10

\* Verdict: a call of pbc_register that returns success has registered every
\* file it was given, and one that reports a missing dependency has files left,
\* each of which misses one: the loop of register.c:334 gives up only when no
\* further pass could help, for any files in any order, also when a file comes
\* twice or an earlier call has failed.
THEOREM VerdictsAreTrue == Spec => Verdict
<1>1. IInv /\ [Next]_vars =>
        [LET left == {i \in DOMAIN todo : todo[i] # NULL /\ ~ Exists(todo[i])}
         IN  /\ Finish /\ result' = "ok" => left = {}
             /\ Finish /\ result' = "dependency" =>
                  left # {} /\ \A i \in left : Misses(todo[i])]_vars
  <2> SUFFICES ASSUME IInv
               PROVE  LET left == {i \in DOMAIN todo : todo[i] # NULL /\ ~ Exists(todo[i])}
                      IN  /\ Finish /\ result' = "ok" => left = {}
                          /\ Finish /\ result' = "dependency" =>
                               left # {} /\ \A i \in left : Misses(todo[i])
    OBVIOUS
  <2>1. Left = {i \in DOMAIN todo : todo[i] # NULL /\ ~ Exists(todo[i])}
    BY DEF Left, Waits
  <2> QED BY <2>1, OkIsComplete, DependencyIsMissing
<1> QED BY <1>1, Counting, PTL DEF Spec, Verdict

-----------------------------------------------------------------------------
\* Folds.  What the folds of the model do with place j of what they fold; p is
\* what their step depends on.

\* A slot for an entry e of a table, in Build.
Settle(slot, hash, e) ==
  LET home == HomeOf(slot, hash)
      new(next) == [key |-> e.key, ptr |-> e.ptr, next |-> next]
  IN  IF slot[home].ptr = NULL
      THEN [slot EXCEPT ![home] = new(0)]
      ELSE LET i == Least(DOMAIN slot, LAMBDA j : slot[j].ptr = NULL)
           IN  [slot EXCEPT ![i] = new(slot[home].next), ![home].next = i]

\* A field of an extension, in RegisterExtension.
Extend(e, d, i) ==
  LET of == d.fields[i].of
      y  == PushMessage(e, of, d.fields[i].field)
  IN  IF i = 1 \/ d.fields[i - 1].of = of THEN y
      ELSE InitMessage(y, d.fields[i - 1].of)

Turn(what, p, x, j) ==
  CASE what = "slots" -> Settle(x, p.hash[j], p.table[j])
    [] what = "table" -> IF p[j].ptr = NULL THEN x
                         ELSE Append(x, [key |-> p[j].ptr.id, ptr |-> p[j].ptr])
    [] what = "fields" -> PushMessage(x, p.type, p.fields[j])
    [] what = "extensions" -> Extend(x, p, j)
    [] what = "declarations" -> Declare(x, p[j])

\* The function on sets of places that such a fold is defined with,
Round(f, what, p, s, base) ==
  IF s = {} THEN base ELSE Turn(what, p, f[s \ {Max(s)}], Max(s))
Folds(f, what, p, n, base) == f = [s \in SUBSET (1 .. n) |-> Round(f, what, p, s, base)]

\* and the values it goes through.
Turns(t, what, p, n, base) ==
  /\ t[0] = base
  /\ \A k \in 0 .. n : k < n => t[k + 1] = Turn(what, p, t[k], k + 1)

\* There is such a function,
LEMMA FoldThere ==
  ASSUME NEW n \in Nat, NEW what, NEW p, NEW base
  PROVE  \E f : Folds(f, what, p, n, base)
<1> DEFINE D == 1 .. n
           Body(f, s) == Round(f, what, p, s, base)
           To(f, k) == \A s \in SUBSET D : s \subseteq 1 .. k => f[s] = Body(f, s)
           T == {k \in 0 .. n : \E f : To(f, k)}
<1>1. ASSUME NEW s \in SUBSET D, s # {}
      PROVE  Max(s) \in s /\ \A y \in s : y <= Max(s)
  <2>1. s \in SUBSET (0 .. n) OBVIOUS
  <2> QED BY <2>1, <1>1, MaxIs
<1>2. ASSUME NEW f, NEW h, NEW s \in SUBSET D, s # {} => f[s \ {Max(s)}] = h[s \ {Max(s)}]
      PROVE  Body(f, s) = Body(h, s)
  BY <1>2 DEF Round
<1>3. 0 \in T
  <2> DEFINE f == [s \in SUBSET D |-> base]
  <2>1. ASSUME NEW s \in SUBSET D, s \subseteq 1 .. 0 PROVE f[s] = Body(f, s)
    <3>1. s = {} BY <2>1
    <3>2. f[s] = base OBVIOUS
    <3> QED BY <3>1, <3>2 DEF Round
  <2>2. To(f, 0) BY <2>1
  <2> HIDE DEF To, f
  <2> QED BY <2>2
<1>4. ASSUME NEW k \in 0 .. n, k < n, k \in T PROVE k + 1 \in T
  <2>1. PICK f : To(f, k) BY <1>4
  <2> DEFINE h == [s \in SUBSET D |-> IF s \subseteq 1 .. k THEN f[s] ELSE Body(f, s)]
  <2>2. ASSUME NEW s \in SUBSET D, s \subseteq 1 .. k + 1 PROVE h[s] = Body(h, s)
    <3>1. h[s] = Body(f, s)
      <4>1. CASE s \subseteq 1 .. k
        <5>1. h[s] = f[s] BY <4>1
        <5>2. f[s] = Body(f, s) BY <2>1, <4>1
        <5> QED BY <5>1, <5>2
      <4>2. CASE ~ (s \subseteq 1 .. k)
        <5> HIDE DEF D, Body
        <5> QED BY <4>2
      <4> QED BY <4>1, <4>2
    <3>2. ASSUME s # {} PROVE f[s \ {Max(s)}] = h[s \ {Max(s)}]
      <4>1. Max(s) \in s /\ \A y \in s : y <= Max(s) BY <1>1, <3>2
      <4> DEFINE m == Max(s)
      <4> HIDE DEF m
      <4>2. m \in 1 .. k + 1 /\ \A y \in s \ {m} : y \in 1 .. k + 1 /\ y <= m /\ y # m
        BY <2>2, <4>1 DEF m
      <4>3. \A y \in s \ {m} : y \in 1 .. k BY <4>2
      <4>4. s \ {m} \in SUBSET D /\ s \ {m} \subseteq 1 .. k BY <4>3
      <4>5. h[s \ {m}] = f[s \ {m}]
        <5> HIDE DEF D, Body
        <5> QED BY <4>4
      <4> QED BY <4>5 DEF m
    <3> HIDE DEF h, Body
    <3> QED BY <1>2, <3>1, <3>2
  <2>3. To(h, k + 1)
    <3> HIDE DEF h, Body
    <3> QED BY <2>2
  <2>4. k + 1 \in 0 .. n BY <1>4
  <2> HIDE DEF To, h
  <2> QED BY <2>3, <2>4
<1>5. n \in T
  <2> HIDE DEF T
  <2>1. \A i \in 0 .. n : i \in T BY <1>3, <1>4, Upwards
  <2> QED BY <2>1
<1>6. PICK f : To(f, n) BY <1>5
<1> DEFINE g == [s \in SUBSET D |-> Body(f, s)]
<1>7. \A s \in SUBSET D : g[s] = Body(f, s) /\ f[s] = Body(f, s) BY <1>6
<1>8. ASSUME NEW s \in SUBSET D PROVE Body(f, s) = Body(g, s)
  <2>1. s \ {Max(s)} \in SUBSET D OBVIOUS
  <2>2. f[s \ {Max(s)}] = g[s \ {Max(s)}]
    <3> HIDE DEF g, Body
    <3> QED BY <1>7, <2>1
  <2> HIDE DEF g, Body
  <2> QED BY <1>2, <2>2
<1>9. g = [s \in SUBSET D |-> Body(g, s)]
  <2> HIDE DEF Body
  <2> QED BY <1>8
<1> HIDE DEF g
<1> QED BY <1>9 DEF Folds

\* and it goes through the values one expects, place by place.
LEMMA FoldGoes ==
  ASSUME NEW n \in Nat, NEW what, NEW p, NEW base, NEW f, Folds(f, what, p, n, base)
  PROVE  \E t : Turns(t, what, p, n, base) /\ t[n] = f[1 .. n]
<1> DEFINE D == 1 .. n
           t == [k \in 0 .. n |-> f[1 .. k]]
<1>1. \A s \in SUBSET D : f[s] = Round(f, what, p, s, base) BY DEF Folds
<1>2. t[0] = base
  <2>1. 1 .. 0 = {} /\ {} \in SUBSET D OBVIOUS
  <2>2. f[{}] = base BY <1>1, <2>1 DEF Round
  <2>3. t[0] = f[1 .. 0] OBVIOUS
  <2> QED BY <2>1, <2>2, <2>3
<1>3. ASSUME NEW k \in 0 .. n, k < n PROVE t[k + 1] = Turn(what, p, t[k], k + 1)
  <2> DEFINE s == 1 .. k + 1
  <2>1. k + 1 \in s /\ \A y \in s : y <= k + 1 /\ y \in D BY <1>3
  <2>2. s \in SUBSET D /\ s # {} /\ s \in SUBSET (0 .. n)
    <3>1. \A y \in D : y \in 0 .. n OBVIOUS
    <3> HIDE DEF s, D
    <3> QED BY <2>1, <3>1
  <2>3. Max(s) \in s /\ \A y \in s : y <= Max(s)
    <3> HIDE DEF s
    <3> QED BY <2>2, MaxIs
  <2>4. Max(s) = k + 1
    <3> DEFINE m == Max(s)
    <3> HIDE DEF m
    <3>1. m \in 1 .. k + 1 /\ k + 1 <= m BY <2>1, <2>3 DEF m
    <3> QED BY <3>1 DEF m
  <2>5. s \ {k + 1} = 1 .. k OBVIOUS
  <2>6. t[k + 1] = f[s] /\ t[k] = f[1 .. k]
    <3>1. k + 1 \in 0 .. n BY <1>3
    <3> QED BY <3>1
  <2>7. f[s] = Round(f, what, p, s, base) BY <1>1, <2>2
  <2> HIDE DEF s, t
  <2> QED BY <2>2, <2>4, <2>5, <2>6, <2>7 DEF Round
<1>4. t[n] = f[1 .. n] OBVIOUS
<1> HIDE DEF t
<1> QED BY <1>2, <1>3, <1>4 DEF Turns

\* The folds of the model are such functions: the fields of a message,
LEMMA FieldsFold ==
  ASSUME NEW d, NEW n \in Nat, DOMAIN d.fields = 1 .. n, NEW e
  PROVE  \E t : Turns(t, "fields", d, n, e) /\ RegisterMessage(e, d) = InitMessage(t[n], d.type)
<1> DEFINE D == 1 .. n
           Is(f) == f = [s \in SUBSET D |-> IF s = {} THEN e
                            ELSE PushMessage(f[s \ {Max(s)}], d.type, d.fields[Max(s)])]
           iter == CHOOSE f : Is(f)
<1>1. RegisterMessage(e, d) = InitMessage(iter[D], d.type)
  BY DEF RegisterMessage, FoldLeft, MapThenFoldSet
<1>2. \A f : Folds(f, "fields", d, n, e) <=> Is(f)
  BY DEF Folds, Round, Turn
<1>3. Is(iter)
  <2>1. \E f : Is(f) BY <1>2, FoldThere
  <2> HIDE DEF Is
  <2> QED BY <2>1
<1>4. Folds(iter, "fields", d, n, e)
  <2> HIDE DEF Is, iter
  <2> QED BY <1>2, <1>3
<1> HIDE DEF iter, Is
<1>5. PICK t : Turns(t, "fields", d, n, e) /\ t[n] = iter[1 .. n] BY <1>4, FoldGoes
<1> QED BY <1>1, <1>5

\* those of an extension,
LEMMA ExtensionsFold ==
  ASSUME NEW d, NEW n \in Nat, d.fields \in Seq(Range(d.fields)), Len(d.fields) = n, NEW e
  PROVE  \E t : Turns(t, "extensions", d, n, e)
                /\ RegisterExtension(e, d) = InitMessage(t[n], d.fields[n].of)
<1> DEFINE D == 1 .. n
           q == [i \in DOMAIN d.fields |-> i]
           Is(f) == f = [s \in SUBSET D |-> IF s = {} THEN e
                            ELSE Extend(f[s \ {Max(s)}], d, q[Max(s)])]
           iter == CHOOSE f : Is(f)
<1>1. DOMAIN q = D /\ DOMAIN d.fields = D OBVIOUS
<1>2. RegisterExtension(e, d) = InitMessage(iter[D], d.fields[n].of)
  BY <1>1 DEF RegisterExtension, FoldLeft, MapThenFoldSet, Extend
<1>3. \A s \in SUBSET D : s # {} => q[Max(s)] = Max(s)
  <2>1. ASSUME NEW s \in SUBSET D, s # {} PROVE Max(s) \in D
    <3>1. s \in SUBSET (0 .. n) OBVIOUS
    <3> QED BY <2>1, <3>1, MaxIs
  <2> QED BY <1>1, <2>1
<1>4. \A f : Folds(f, "extensions", d, n, e) <=> Is(f)
  <2>1. ASSUME NEW f, NEW s \in SUBSET D
        PROVE  Round(f, "extensions", d, s, e)
                 = IF s = {} THEN e ELSE Extend(f[s \ {Max(s)}], d, q[Max(s)])
    <3>1. s # {} => q[Max(s)] = Max(s) BY <1>3
    <3> HIDE DEF q
    <3> QED BY <3>1 DEF Round, Turn
  <2> HIDE DEF q
  <2> QED BY <2>1 DEF Folds
<1>5. Is(iter)
  <2>1. \E f : Is(f) BY <1>4, FoldThere
  <2> HIDE DEF Is
  <2> QED BY <2>1
<1>6. Folds(iter, "extensions", d, n, e)
  <2> HIDE DEF Is, iter
  <2> QED BY <1>4, <1>5
<1> HIDE DEF iter, Is
<1>7. PICK t : Turns(t, "extensions", d, n, e) /\ t[n] = iter[1 .. n] BY <1>6, FoldGoes
<1> QED BY <1>2, <1>7

\* the declarations of a file,
LEMMA DeclarationsFold ==
  ASSUME NEW p, NEW n \in Nat, DOMAIN p = 1 .. n, NEW e
  PROVE  \E t : Turns(t, "declarations", p, n, e) /\ FoldLeft(Declare, e, p) = t[n]
<1> DEFINE D == 1 .. n
           Is(f) == f = [s \in SUBSET D |-> IF s = {} THEN e
                            ELSE Declare(f[s \ {Max(s)}], p[Max(s)])]
           iter == CHOOSE f : Is(f)
           end == FoldLeft(Declare, e, p)
<1>1. end = iter[D]
  BY DEF FoldLeft, MapThenFoldSet
<1>2. \A f : Folds(f, "declarations", p, n, e) <=> Is(f)
  BY DEF Folds, Round, Turn
<1>3. Is(iter)
  <2>1. \E f : Is(f) BY <1>2, FoldThere
  <2> HIDE DEF Is
  <2> QED BY <2>1
<1>4. Folds(iter, "declarations", p, n, e)
  <2> HIDE DEF Is, iter
  <2> QED BY <1>2, <1>3
<1> HIDE DEF iter, Is, end
<1>5. PICK t : Turns(t, "declarations", p, n, e) /\ t[n] = iter[1 .. n] BY <1>4, FoldGoes
<1>6. end = t[n] BY <1>1, <1>5
<1>7. \E u : Turns(u, "declarations", p, n, e) /\ end = u[n] BY <1>5, <1>6
<1> QED BY <1>7 DEF end

\* the fields of a type,
LEMMA TableFold ==
  ASSUME NEW t, NEW n \in Nat, DOMAIN t.name.slot = 1 .. n
  PROVE  \E u : Turns(u, "table", t.name.slot, n, <<>>) /\ Table(t) = u[n]
<1> DEFINE D == 1 .. n
           p == t.name.slot
           Is(f) == f = [s \in SUBSET D |-> IF s = {} THEN <<>>
                            ELSE Turn("table", p, f[s \ {Max(s)}], Max(s))]
           iter == CHOOSE f : Is(f)
<1>1. Table(t) = iter[D]
  BY DEF Table, FoldLeft, MapThenFoldSet, Turn
<1>2. \A f : Folds(f, "table", p, n, <<>>) <=> Is(f)
  BY DEF Folds, Round
<1>3. Is(iter)
  <2>1. \E f : Is(f) BY <1>2, FoldThere
  <2> HIDE DEF Is
  <2> QED BY <2>1
<1>4. Folds(iter, "table", p, n, <<>>)
  <2> HIDE DEF Is, iter
  <2> QED BY <1>2, <1>3
<1> HIDE DEF iter, Is
<1>5. PICK u : Turns(u, "table", p, n, <<>>) /\ u[n] = iter[1 .. n] BY <1>4, FoldGoes
<1> QED BY <1>1, <1>5

\* and the tables of an enum and of numbers.
Hashed(table, H) == [table |-> table, hash |-> [i \in DOMAIN table |-> H[table[i].key]]]

LEMMA NamesFold ==
  ASSUME NEW n \in Nat, NEW S, NEW table \in [1 .. n -> S]
  PROVE  \E t : Turns(t, "slots", Hashed(table, Hash), n, Slots(n)) /\ SiNew(table) = t[n]
<1> DEFINE D == 1 .. n
           p == Hashed(table, Hash)
           Is(f) == f = [s \in SUBSET D |-> IF s = {} THEN Slots(n)
                            ELSE Settle(f[s \ {Max(s)}], Hash[table[Max(s)].key], table[Max(s)])]
           iter == CHOOSE f : Is(f)
<1>1. Len(table) = n /\ DOMAIN table = D OBVIOUS
<1>2. SiNew(table) = iter[D]
  BY <1>1 DEF SiNew, Build, FoldLeft, MapThenFoldSet, Settle
<1>3. \A f : Folds(f, "slots", p, n, Slots(n)) <=> Is(f)
  <2>1. ASSUME NEW f, NEW s \in SUBSET D
        PROVE  Round(f, "slots", p, s, Slots(n))
                 = IF s = {} THEN Slots(n)
                   ELSE Settle(f[s \ {Max(s)}], Hash[table[Max(s)].key], table[Max(s)])
    <3>1. ASSUME s # {} PROVE Max(s) \in D
      <4>1. s \in SUBSET (0 .. n) OBVIOUS
      <4> QED BY <3>1, <4>1, MaxIs
    <3>2. s # {} => p.hash[Max(s)] = Hash[table[Max(s)].key] /\ p.table = table
      BY <1>1, <3>1 DEF Hashed
    <3> HIDE DEF p
    <3> QED BY <3>2 DEF Round, Turn
  <2> HIDE DEF p
  <2> QED BY <2>1 DEF Folds
<1>4. Is(iter)
  <2>1. \E f : Is(f) BY <1>3, FoldThere
  <2> HIDE DEF Is
  <2> QED BY <2>1
<1>5. Folds(iter, "slots", p, n, Slots(n))
  <2> HIDE DEF Is, iter
  <2> QED BY <1>3, <1>4
<1> HIDE DEF iter, Is
<1>6. PICK t : Turns(t, "slots", p, n, Slots(n)) /\ t[n] = iter[1 .. n] BY <1>5, FoldGoes
<1> QED BY <1>2, <1>6

Mod(size) == [id \in Int |-> UnsignedMod(id, size)]

LEMMA NumbersFold ==
  ASSUME NEW n \in Nat, NEW V, NEW table \in [1 .. n -> [key : Int, ptr : V]],
         \E i \in 1 .. n : table[i].key \notin 0 .. 2 * n
  PROVE  \E t : /\ Turns(t, "slots", Hashed(table, Mod(n)), n, Slots(n))
                /\ IpNew(table) = [array |-> <<>>, slot |-> t[n]]
<1> DEFINE D == 1 .. n
           p == Hashed(table, Mod(n))
           Is(f) == f = [s \in SUBSET D |-> IF s = {} THEN Slots(Len(table))
                           ELSE Settle(f[s \ {Max(s)}], UnsignedMod(table[Max(s)].key, Len(table)),
                                       table[Max(s)])]
           iter == CHOOSE f : Is(f)
<1>1. Len(table) = n /\ DOMAIN table = D /\ \A i \in D : table[i].key \in Int OBVIOUS
<1>2. IpNew(table) = [array |-> <<>>, slot |-> iter[D]]
  <2>1. ~ \A id \in {table[i].key : i \in DOMAIN table} : id \in 0 .. 2 * Len(table)
    BY <1>1
  <2> QED BY <2>1 DEF IpNew, Build, FoldLeft, MapThenFoldSet, Settle
<1>3. \A f : Folds(f, "slots", p, n, Slots(n)) <=> Is(f)
  <2>1. ASSUME NEW f, NEW s \in SUBSET D
        PROVE  Round(f, "slots", p, s, Slots(n))
                 = IF s = {} THEN Slots(Len(table))
                   ELSE Settle(f[s \ {Max(s)}], UnsignedMod(table[Max(s)].key, Len(table)),
                               table[Max(s)])
    <3>1. ASSUME s # {} PROVE Max(s) \in D
      <4>1. s \in SUBSET (0 .. n) OBVIOUS
      <4> QED BY <3>1, <4>1, MaxIs
    <3>2. s # {} => p.hash[Max(s)] = UnsignedMod(table[Max(s)].key, Len(table))
                  /\ p.table = table
      BY <1>1, <3>1 DEF Hashed, Mod
    <3>3. Slots(n) = Slots(Len(table)) BY <1>1
    <3> HIDE DEF p
    <3> QED BY <3>2, <3>3 DEF Round, Turn
  <2> HIDE DEF p
  <2> QED BY <2>1 DEF Folds
<1>4. Is(iter)
  <2>1. \E f : Is(f) BY <1>3, FoldThere
  <2> HIDE DEF Is
  <2> QED BY <2>1
<1>5. Folds(iter, "slots", p, n, Slots(n))
  <2> HIDE DEF Is, iter
  <2> QED BY <1>3, <1>4
<1> HIDE DEF iter, Is
<1>6. PICK t : Turns(t, "slots", p, n, Slots(n)) /\ t[n] = iter[1 .. n] BY <1>5, FoldGoes
<1> QED BY <1>2, <1>6

-----------------------------------------------------------------------------
\* Tables that are built once.  G is the hash of a key.
Homes(G, K, n) == [k \in K |-> (G[k] % n) + 1]

\* The first k entries of a table have been settled in the slots of t.
Settled(table, t, k, n, K, V, G) ==
  /\ Whole(t, n, K, V) /\ Homed(t, n, Homes(G, K, n))
  /\ \A x \in Taken(t, n) : t[x].ptr # NULL
  /\ Cardinality(Taken(t, n)) = k
  /\ \E g : Copies(table, t, k, n, g)

\* Every key has a home,
LEMMA HomesAre ==
  ASSUME NEW n \in Nat, n # 0, NEW K, NEW G \in [K -> Nat]
  PROVE  Homes(G, K, n) \in [K -> 1 .. n]
<1>1. ASSUME NEW k \in K PROVE (G[k] % n) + 1 \in 1 .. n
  <2>1. G[k] \in Nat OBVIOUS
  <2>2. PICK m \in 0 .. n - 1 : m = G[k] % n BY <2>1, Remainders
  <2> QED BY <2>2
<1> QED BY <1>1 DEF Homes

\* and as long as there is a free slot, the entry finds its place.
LEMMA SettlePuts ==
  ASSUME NEW n \in Nat, NEW K, NEW V, NULL \notin V, NEW G \in [K -> Nat],
         NEW slot, Whole(slot, n, K, V), \A x \in Taken(slot, n) : slot[x].ptr # NULL,
         NEW e, e.key \in K, e.ptr \in V, NEW j \in 1 .. n, slot[j].key = NULL
  PROVE  \E i : Puts(slot, Settle(slot, G[e.key], e), n, Homes(G, K, n)[e.key],
                     i, e.key, e.ptr)
<1> DEFINE h == Homes(G, K, n)[e.key]
           Ok(x) == slot[x].ptr = NULL
           i == CHOOSE x \in 1 .. n : Ok(x) /\ \A y \in 1 .. n : Ok(y) => x <= y
           new == Settle(slot, G[e.key], e)
           T == {x \in 1 .. n : Ok(x)}
<1>1. Slotted(slot, n, K, V) BY DEF Whole
<1>2. Len(slot) = n BY <1>1, LenSlots
<1>3. h \in 1 .. n BY HomesAre
<1>4. HomeOf(slot, G[e.key]) = h BY <1>2 DEF HomeOf, Homes
<1>5. DOMAIN slot = 1 .. n /\ slot = [x \in 1 .. n |-> slot[x]] BY <1>1 DEF Slotted
<1>6. \A x \in 1 .. n : slot[x].ptr = NULL <=> slot[x].key = NULL
  BY DEF Taken, Whole, Clean
<1>7. i \in 1 .. n /\ slot[i].key = NULL
  <2>1. j \in T /\ T \subseteq Nat BY <1>6
  <2>2. PICK x \in T : \A y \in T : x <= y
    <3> HIDE DEF T
    <3> QED BY <2>1, Smallest
  <2>3. x \in 1 .. n /\ Ok(x) /\ \A y \in 1 .. n : Ok(y) => x <= y
    <3> HIDE DEF Ok
    <3> QED BY <2>2
  <2>4. i \in 1 .. n /\ Ok(i)
    <3> HIDE DEF Ok
    <3> QED BY <2>3
  <2> HIDE DEF i
  <2> QED BY <1>6, <2>4
<1>8. Least(DOMAIN slot, LAMBDA x : slot[x].ptr = NULL) = i
  BY <1>5 DEF Least
<1>9. new = IF slot[h].ptr = NULL
            THEN [slot EXCEPT ![h] = [key |-> e.key, ptr |-> e.ptr, next |-> 0]]
            ELSE [slot EXCEPT ![i] = [key |-> e.key, ptr |-> e.ptr, next |-> slot[h].next],
                              ![h].next = i]
  <2> HIDE DEF h, i
  <2> QED BY <1>4, <1>8 DEF Settle
<1> HIDE DEF h, i
<1>10. CASE slot[h].key = NULL
  <2>1. new = [slot EXCEPT ![h] = [key |-> e.key, ptr |-> e.ptr, next |-> 0]]
    BY <1>3, <1>6, <1>9, <1>10
  <2>2. slot[h].next = 0 BY <1>3, <1>10 DEF Whole, Clean
  <2>3. Puts(slot, new, n, h, h, e.key, e.ptr)
    <3> HIDE DEF new
    <3> QED BY <1>3, <1>5, <1>10, <2>1, <2>2 DEF Puts
  <2> QED BY <2>3 DEF h
<1>11. CASE slot[h].key # NULL
  <2>1. new = [slot EXCEPT ![i] = [key |-> e.key, ptr |-> e.ptr, next |-> slot[h].next],
                           ![h].next = i]
    BY <1>3, <1>6, <1>9, <1>11
  <2>2. i # h BY <1>7, <1>11
  <2> HIDE DEF new
  <2>3. slot[h] = [key |-> slot[h].key, ptr |-> slot[h].ptr, next |-> slot[h].next]
    BY <1>1, <1>3 DEF Slotted
  <2>4. new[i] = [key |-> e.key, ptr |-> e.ptr, next |-> slot[h].next]
    BY <1>5, <1>7, <2>1, <2>2
  <2>5. new[h] = [key |-> slot[h].key, ptr |-> slot[h].ptr, next |-> i]
    BY <1>3, <1>5, <1>7, <2>1, <2>2, <2>3
  <2>6. DOMAIN new = 1 .. n /\ new = [x \in 1 .. n |-> new[x]]
        /\ \A x \in 1 .. n : x # i /\ x # h => new[x] = slot[x]
    BY <1>3, <1>5, <1>7, <2>1, <2>2
  <2>7. Puts(slot, new, n, h, i, e.key, e.ptr)
    BY <1>7, <1>11, <2>2, <2>4, <2>5, <2>6 DEF Puts
  <2> QED BY <2>7 DEF h, new
<1> QED BY <1>10, <1>11

\* Entry by entry
LEMMA SettleOn ==
  ASSUME NEW n \in Nat, NEW K, NULL \notin K, NEW V, NULL \notin V, NEW G \in [K -> Nat],
         NEW table, NEW t, NEW k \in Nat, k < n, Settled(table, t, k, n, K, V, G),
         table[k + 1].key \in K, table[k + 1].ptr \in V,
         NEW u, u = Settle(t, G[table[k + 1].key], table[k + 1])
  PROVE  Settled(table, u, k + 1, n, K, V, G)
<1> DEFINE e == table[k + 1]
           key == e.key
           ptr == e.ptr
           H == Homes(G, K, n)
           b == Settle(t, G[key], e)
<1>1. /\ Whole(t, n, K, V) /\ Homed(t, n, H) /\ Cardinality(Taken(t, n)) = k
      /\ \A x \in Taken(t, n) : t[x].ptr # NULL
  BY DEF Settled
<1>2. PICK g : Copies(table, t, k, n, g) BY DEF Settled
<1>3. PICK j \in 1 .. n : t[j].key = NULL BY <1>1, OneFree
<1>0. key \in K /\ ptr \in V /\ ptr # NULL /\ ptr \in V \cup {NULL} OBVIOUS
<1>4. H \in [K -> 1 .. n] /\ H[key] \in 1 .. n BY <1>0, <1>3, HomesAre
<1>5. PICK i : Puts(t, b, n, H[key], i, key, ptr)
  BY <1>0, <1>1, <1>3, SettlePuts
<1> HIDE DEF b, H, key, ptr
<1>6. Whole(b, n, K, V) BY <1>0, <1>1, <1>4, <1>5, PutWhole
<1>20. Reaches(t, n, H[key], H[key]) BY ReachesSelf
<1>7. Homed(b, n, H) BY <1>0, <1>1, <1>4, <1>5, <1>20, PutHomed
<1>8. /\ i \in 1 .. n /\ t[i].key = NULL /\ b[i].key = key /\ b[i].ptr = ptr
      /\ \A x \in 1 .. n : x # i => b[x].key = t[x].key /\ b[x].ptr = t[x].ptr
  BY <1>1, <1>4, <1>5, PutNext
<1>9. /\ i \notin Taken(t, n) /\ Taken(b, n) = Taken(t, n) \cup {i}
      /\ \A x \in Taken(t, n) : b[x].key = t[x].key /\ b[x].ptr = t[x].ptr
  BY <1>0, <1>8 DEF Taken
<1>10. Cardinality(Taken(b, n)) = k + 1 BY <1>1, <1>9, TakenFinite, FS_AddElement
<1>11. \A x \in Taken(b, n) : b[x].ptr # NULL BY <1>0, <1>1, <1>8, <1>9
<1> DEFINE h == [x \in 1 .. n |-> IF x = i THEN k + 1 ELSE g[x]]
<1>12. h[i] = k + 1 /\ \A x \in Taken(t, n) : h[x] = g[x] BY <1>8, <1>9 DEF Taken
<1> HIDE DEF h
<1>13. \A x \in Taken(t, n) : /\ g[x] \in 1 .. k /\ g[x] # k + 1 /\ g[x] \in 1 .. k + 1
                              /\ t[x].key = table[g[x]].key /\ t[x].ptr = table[g[x]].ptr
  BY <1>2 DEF Copies
<1>14. k + 1 \in 1 .. k + 1 /\ \A y \in 1 .. k + 1 : y \in 1 .. k \/ y = k + 1 OBVIOUS
<1>15. Copies(table, b, k + 1, n, h)
  <2>1. \A x \in Taken(b, n) : /\ h[x] \in 1 .. k + 1 /\ b[x].key = table[h[x]].key
                               /\ b[x].ptr = table[h[x]].ptr
    BY <1>8, <1>9, <1>12, <1>13, <1>14 DEF key, ptr
  <2>2. \A x, y \in Taken(b, n) : h[x] = h[y] => x = y
    BY <1>2, <1>9, <1>12, <1>13 DEF Copies
  <2>3. \A y \in 1 .. k + 1 : \E x \in Taken(b, n) : h[x] = y
    BY <1>2, <1>9, <1>12, <1>14 DEF Copies
  <2> QED BY <2>1, <2>2, <2>3 DEF Copies
<1>16. Settled(table, b, k + 1, n, K, V, G)
  BY <1>6, <1>7, <1>10, <1>11, <1>15 DEF Settled, H
<1> QED BY <1>16 DEF b, key

\* the table is built.
LEMMA Built ==
  ASSUME NEW n \in Nat, NEW K, NULL \notin K, NEW V, NULL \notin V, NEW G \in [K -> Nat],
         NEW table \in [1 .. n -> [key : K, ptr : V]],
         NEW t, Turns(t, "slots", Hashed(table, G), n, Slots(n))
  PROVE  Settled(table, t[n], n, n, K, V, G)
<1> DEFINE T == {k \in 0 .. n : Settled(table, t[k], k, n, K, V, G)}
<1>1. t[0] = Slots(n) BY DEF Turns
<1>2. 0 \in T
  <2>1. Whole(t[0], n, K, V) /\ Taken(t[0], n) = {} /\ Homed(t[0], n, Homes(G, K, n))
    <3> DEFINE slot == Slots(n)
    <3>1. \A x \in 1 .. n : slot[x] = Free BY DEF Slots
    <3>2. /\ Free.key = NULL /\ Free.ptr = NULL /\ Free.next = 0
          /\ Free \in [key : K \cup {NULL}, ptr : V \cup {NULL}, next : 0 .. n]
      BY DEF Free
    <3>3. Slotted(slot, n, K, V)
      <4>1. slot = [x \in 1 .. n |-> Free] BY DEF Slots
      <4> HIDE DEF slot
      <4> QED BY <3>2, <4>1 DEF Slotted
    <3> HIDE DEF slot
    <3>4. Clean(slot, n) BY <3>1, <3>2 DEF Clean
    <3>5. Acyclic(slot, n)
      <4>1. [x \in 1 .. n |-> 0] \in [1 .. n -> Nat] OBVIOUS
      <4> QED BY <3>1, <3>2, <4>1 DEF Acyclic
    <3>6. Homed(slot, n, Homes(G, K, n)) BY <3>1, <3>2 DEF Homed
    <3>7. Taken(slot, n) = {} BY <3>1, <3>2 DEF Taken
    <3> QED BY <1>1, <3>3, <3>4, <3>5, <3>6, <3>7 DEF Whole, slot
  <2>2. Cardinality(Taken(t[0], n)) = 0 BY <2>1, FS_EmptySet
  <2>3. 1 .. 0 = {} OBVIOUS
  <2>4. Copies(table, t[0], 0, n, <<>>) BY <2>1, <2>3 DEF Copies
  <2>5. Settled(table, t[0], 0, n, K, V, G) BY <2>1, <2>2, <2>4 DEF Settled
  <2> QED BY <2>5
<1>3. ASSUME NEW k \in 0 .. n, k < n, k \in T PROVE k + 1 \in T
  <2>1. k \in Nat /\ k + 1 \in 1 .. n /\ k + 1 \in 0 .. n BY <1>3
  <2>2. Settled(table, t[k], k, n, K, V, G) BY <1>3
  <2>3. table[k + 1].key \in K /\ table[k + 1].ptr \in V BY <2>1
  <2>4. t[k + 1] = Turn("slots", Hashed(table, G), t[k], k + 1) BY <1>3 DEF Turns
  <2>5. t[k + 1] = Settle(t[k], G[table[k + 1].key], table[k + 1])
    BY <2>1, <2>4 DEF Turn, Hashed
  <2>0. k < n BY <1>3
  <2> DEFINE s == t[k]
             u == t[k + 1]
  <2> HIDE DEF T, s, u
  <2>6. Settled(table, u, k + 1, n, K, V, G)
    <3>1. Settled(table, s, k, n, K, V, G) /\ u = Settle(s, G[table[k + 1].key], table[k + 1])
      BY <2>2, <2>5 DEF s, u
    <3> QED BY <2>0, <2>1, <2>3, <3>1, SettleOn
  <2>7. Settled(table, t[k + 1], k + 1, n, K, V, G) BY <2>6 DEF u
  <2> QED BY <2>1, <2>7 DEF T
<1>4. \A i \in 0 .. n : i \in T
  <2> HIDE DEF T
  <2> QED BY <1>2, <1>3, Upwards
<1>5. n \in T BY <1>4
<1> QED BY <1>5

\* What a table says of a key: one of the pointers that it has with it, or
\* none if there is none.
Tells(table, n, key, ptr) ==
  \/ \E i \in 1 .. n : table[i].key = key /\ table[i].ptr = ptr
  \/ ptr = NULL /\ \A i \in 1 .. n : table[i].key # key

\* The slots say what the table does.
LEMMA SlotsTell ==
  ASSUME NEW n \in Nat, n # 0, NEW K, NULL \notin K, NEW V, NULL \notin V,
         NEW G \in [K -> Nat], NEW table, NEW slot,
         Settled(table, slot, n, n, K, V, G), NEW key \in K
  PROVE  Tells(table, n, key, SlotQuery(slot, key, G[key]))
<1> DEFINE a == Homes(G, K, n)[key]
           i == SearchKey(slot, a, key)
<1>1. Whole(slot, n, K, V) /\ Homed(slot, n, Homes(G, K, n)) BY DEF Settled
<1>2. PICK g : Copies(table, slot, n, n, g) BY DEF Settled
<1>3. Len(slot) = n BY <1>1, LenSlots DEF Whole
<1>4. a \in 1 .. n BY HomesAre
<1>5. HomeOf(slot, G[key]) = a BY <1>3 DEF HomeOf, Homes
<1>6. SlotQuery(slot, key, G[key]) = IF i = 0 THEN NULL ELSE slot[i].ptr
  BY <1>5 DEF SlotQuery, SearchKey
<1>7. Result(slot, n, a, key, i)
  <2> HIDE DEF a
  <2> QED BY <1>1, <1>4, SearchFinds
<1> HIDE DEF i
<1>8. CASE IsFirst(slot, n, a, key, i)
  <2>1. i \in Taken(slot, n) /\ i # 0 /\ slot[i].key = key BY <1>8 DEF IsFirst, Taken
  <2>2. g[i] \in 1 .. n /\ key = table[g[i]].key /\ slot[i].ptr = table[g[i]].ptr
    BY <1>2, <2>1 DEF Copies
  <2> QED BY <1>6, <2>1, <2>2 DEF Tells
<1>9. CASE i = 0 /\ IsNowhere(slot, n, a, key)
  <2>1. ASSUME NEW y \in 1 .. n, table[y].key = key PROVE FALSE
    <3>1. PICK x \in Taken(slot, n) : g[x] = y BY <1>2 DEF Copies
    <3>2. x \in 1 .. n /\ slot[x].key = key BY <1>2, <2>1, <3>1 DEF Copies, Taken
    <3>3. Reaches(slot, n, a, x) BY <1>1, <3>2 DEF Homed
    <3> QED BY <1>9, <3>2, <3>3 DEF IsNowhere
  <2> QED BY <1>6, <1>9, <2>1 DEF Tells
<1> QED BY <1>7, <1>8, <1>9 DEF Result

\* So does a map of names that is built of a table,
LEMMA NamesTell ==
  ASSUME NEW n \in Nat, n # 0, NEW V, NULL \notin V,
         NEW table \in [1 .. n -> [key : Name, ptr : V]], NEW key \in Name
  PROVE  Tells(table, n, key, SiQuery(SiNew(table), key))
<1>1. PICK t : Turns(t, "slots", Hashed(table, Hash), n, Slots(n)) /\ SiNew(table) = t[n]
  BY NamesFold
<1>2. Hash \in [Name -> Nat] /\ NULL \notin Name BY HashAssumption
<1>3. Settled(table, t[n], n, n, Name, V, Hash) BY <1>1, <1>2, Built
<1>4. Tells(table, n, key, SlotQuery(t[n], key, Hash[key])) BY <1>2, <1>3, SlotsTell
<1> QED BY <1>1, <1>4 DEF SiQuery

\* The unsigned remainder of any number is one.
LEMMA UnsignedIs ==
  ASSUME NEW n \in Nat, n # 0
  PROVE  Mod(n) \in [Int -> Nat]
<1>1. ASSUME NEW id \in Int PROVE UnsignedMod(id, n) \in Nat
  <2>1. CASE id >= 0 BY <2>1, Remainders DEF UnsignedMod
  <2>2. CASE ~ (id >= 0)
    <3> DEFINE p == id % n
               q == 65536 % n
    <3>1. p \in Nat /\ q \in Nat OBVIOUS
    <3> HIDE DEF p, q
    <3>2. q * q \in Nat BY <3>1
    <3> DEFINE r == q * q
    <3> HIDE DEF r
    <3>3. p + r \in Nat BY <3>1, <3>2 DEF r
    <3> DEFINE s == p + r
    <3> HIDE DEF s
    <3>4. s % n \in Nat
      <4>1. s \in Nat BY <3>3 DEF s
      <4> QED BY <4>1, Remainders
    <3> QED BY <2>2, <3>4 DEF UnsignedMod, p, q, r, s
  <2> QED BY <2>1, <2>2
<1> QED BY <1>1 DEF Mod

\* and one of numbers, be they in an array or in slots.
LEMMA NumbersTell ==
  ASSUME NULL \notin Int, NEW n \in Nat, n # 0, NEW V, NULL \notin V,
         NEW table \in [1 .. n -> [key : Int, ptr : V]], NEW id \in Int
  PROVE  Tells(table, n, id, IpQuery(IpNew(table), id))
<1> DEFINE ids == {table[i].key : i \in DOMAIN table}
<1>1. DOMAIN table = 1 .. n /\ Len(table) = n /\ 1 \in 1 .. n OBVIOUS
<1>2. CASE \A k \in ids : k \in 0 .. 2 * n
  <2> DEFINE at0(k) == {i \in DOMAIN table : table[i].key = k}
             say(k) == IF at0(k) = {} THEN NULL ELSE table[Max(at0(k))].ptr
             map == [array |-> [k \in 0 .. Max(ids) |-> say(k)], slot |-> <<>>]
  <2>1. IpNew(table) = map
    <3> HIDE DEF ids, say
    <3>1. \A k \in ids : k \in 0 .. 2 * Len(table) BY <1>1, <1>2
    <3> QED BY <3>1 DEF IpNew, say, ids
  <2>2. Max(ids) \in ids /\ \A k \in ids : k <= Max(ids)
    <3>1. 2 * n \in Nat /\ ids \in SUBSET (0 .. 2 * n) BY <1>2
    <3>2. table[1].key \in ids BY <1>1
    <3> HIDE DEF ids
    <3> QED BY <3>1, <3>2, MaxIs
  <2>3. IpQuery(map, id) = IF id \in 0 .. Max(ids) THEN say(id) ELSE NULL
    <3> HIDE DEF ids, say
    <3> QED BY DEF IpQuery
  <2>4. CASE at0(id) = {}
    <3>1. \A i \in 1 .. n : table[i].key # id BY <1>1, <2>4
    <3>2. IpQuery(map, id) = NULL BY <2>3, <2>4
    <3> QED BY <2>1, <3>1, <3>2 DEF Tells
  <2>5. CASE at0(id) # {}
    <3> DEFINE m == Max(at0(id))
    <3>1. m \in at0(id)
      <4>1. at0(id) \in SUBSET (0 .. n) BY <1>1
      <4> HIDE DEF at0
      <4> QED BY <2>5, <4>1, MaxIs
    <3>2. m \in 1 .. n /\ table[m].key = id /\ say(id) = table[m].ptr
      BY <1>1, <2>5, <3>1
    <3> HIDE DEF m, say
    <3>3. id \in ids BY <1>1, <3>2
    <3>4. id \in 0 .. Max(ids)
      <4>1. id \in 0 .. 2 * n /\ Max(ids) \in 0 .. 2 * n /\ id <= Max(ids)
        <5> HIDE DEF ids
        <5> QED BY <1>2, <2>2, <3>3
      <4> HIDE DEF ids
      <4> QED BY <4>1
    <3>5. IpQuery(map, id) = table[m].ptr BY <2>3, <3>2, <3>4
    <3> HIDE DEF map
    <3> QED BY <2>1, <3>2, <3>5 DEF Tells
  <2> QED BY <2>4, <2>5
<1>3. CASE ~ \A k \in ids : k \in 0 .. 2 * n
  <2>1. \E i \in 1 .. n : table[i].key \notin 0 .. 2 * n BY <1>1, <1>3
  <2>2. PICK t : /\ Turns(t, "slots", Hashed(table, Mod(n)), n, Slots(n))
                 /\ IpNew(table) = [array |-> <<>>, slot |-> t[n]]
    BY <2>1, NumbersFold
  <2>3. Settled(table, t[n], n, n, Int, V, Mod(n)) BY <2>2, UnsignedIs, Built
  <2>4. Tells(table, n, id, SlotQuery(t[n], id, Mod(n)[id]))
    BY <2>3, UnsignedIs, SlotsTell
  <2>5. Len(t[n]) = n /\ t[n] # <<>>
    <3>1. Slotted(t[n], n, Int, V) BY <2>3 DEF Settled, Whole
    <3>2. Len(t[n]) = n BY <3>1, LenSlots
    <3> QED BY <3>2
  <2>6. IpQuery(IpNew(table), id) = SlotQuery(t[n], id, UnsignedMod(id, n))
    BY <2>2, <2>5 DEF IpQuery
  <2>7. Mod(n)[id] = UnsignedMod(id, n) BY DEF Mod
  <2> QED BY <2>4, <2>6, <2>7
<1> QED BY <1>2, <1>3

-----------------------------------------------------------------------------
\* The maps of a type.  All the fields there are,
Every == {b.field : b \in Declared(File)}

\* and a map of names that has the fields F, each under its name and once.
Named(map, F) ==
  /\ Sound(map, Every)
  /\ \A x, y \in In(map) : map.slot[x].ptr = map.slot[y].ptr => x = y
  /\ \A x \in In(map) : map.slot[x].ptr \in F /\ map.slot[x].key = map.slot[x].ptr.name
  /\ \A f \in F : \E x \in In(map) : map.slot[x].ptr = f

\* A field is a pointer and has a name and a number.
LEMMA FieldIs ==
  ASSUME NEW b \in Declared(File)
  PROVE  /\ b.field.name \in Name /\ b.field.id \in Int /\ b.field # NULL
         /\ b.field.kind \in {"plain", "message", "enum"}
<1>1. PICK file \in File : \E d \in Range(Decls[file]) : b \in Range(Brought(d))
  BY DEF Declared
<1>2. PICK d \in Range(Decls[file]) : b \in Range(Brought(d)) BY <1>1
<1>3. WellFormed(d) BY WrittenAssumption
<1> QED BY <1>2, <1>3 DEF WellFormed

LEMMA EveryIs ==
  /\ NULL \notin Every
  /\ \A f \in Every : f.name \in Name /\ f.id \in Int
BY FieldIs DEF Every

\* A new map has no field.
LEMMA NewNamed == Named(SpNew(0), {})
<1>1. 0 \in Nat /\ 0 <= 2^30
  <2>1. 30 \in Nat OBVIOUS
  <2>2. 2^30 \in Nat BY <2>1, Subsets
  <2> QED BY <2>2
<1>2. Sound(SpNew(0), Every) /\ In(SpNew(0)) = {} BY <1>1, NewSound
<1> QED BY <1>2 DEF Named

\* By the name of a field that it has a field of that name is found.
LEMMA NamedQuery ==
  ASSUME NEW map, NEW F \in SUBSET Every, Named(map, F), NEW f \in F
  PROVE  Query(map, f.name) \in {g \in F : g.name = f.name}
<1>1. Sound(map, Every) /\ f.name \in Name BY EveryIs DEF Named
<1>2. PICK x \in In(map) : map.slot[x].ptr = f BY DEF Named
<1>3. map.slot[x].key = f.name BY <1>2 DEF Named
<1>4. Find(map, f.name) # 0 BY <1>1, <1>3, QueryIs
<1> DEFINE y == Find(map, f.name)
<1>5. y \in In(map) /\ map.slot[y].key = f.name /\ Query(map, f.name) = map.slot[y].ptr
  BY <1>1, <1>4, QueryIs
<1> HIDE DEF y
<1> QED BY <1>5 DEF Named

\* Its size is no more than the number of fields,
LEMMA NamedSize ==
  ASSUME NEW map, NEW F \in SUBSET Every, Named(map, F), IsFiniteSet(F)
  PROVE  map.size <= Cardinality(F)
<1>1. Sound(map, Every) BY DEF Named
<1>2. map.size = Cardinality(In(map)) /\ IsFiniteSet(In(map)) BY <1>1, SoundIs
<1> DEFINE h == [x \in In(map) |-> map.slot[x].ptr]
<1>3. h \in [In(map) -> F] BY DEF Named
<1>4. \A x, y \in In(map) : h[x] = h[y] => x = y BY DEF Named
<1>5. h \in Injection(In(map), F) BY <1>3, <1>4 DEF Injection, IsInjective
<1>6. Cardinality(In(map)) <= Cardinality(F) BY <1>5, FS_Injection
<1> QED BY <1>2, <1>6

\* and room is made while these are few.
LEMMA NamedRoom ==
  ASSUME NEW map, NEW F \in SUBSET Every, Named(map, F), IsFiniteSet(F),
         Cardinality(F) < 2^30
  PROVE  Named(Roomy(map), F) /\ Roomy(map).size < Roomy(map).cap
<1>1. Sound(map, Every) BY DEF Named
<1>2. /\ map.cap \in Nat /\ map.cap # 0 /\ map.size \in Nat /\ map.size <= map.cap
  BY <1>1, SoundIs
<1>3. CASE ~ Full(map)
  <2>1. Roomy(map) = map /\ map.size < map.cap BY <1>2, <1>3 DEF Roomy, Full
  <2> QED BY <2>1
<1>4. CASE Full(map)
  <2> DEFINE new == Rehash(map)
  <2>1. Roomy(map) = new /\ map.size = map.cap BY <1>2, <1>4 DEF Roomy, Full
  <2>2. map.cap < 2^30
    <3>1. map.size <= Cardinality(F) BY NamedSize
    <3>2. Cardinality(F) \in Nat BY FS_CardinalityType
    <3> DEFINE p == 2^30
    <3>3. p \in Nat /\ Cardinality(F) < p BY Subsets
    <3> HIDE DEF p
    <3>4. map.cap < p BY <1>2, <2>1, <3>1, <3>2, <3>3
    <3> QED BY <3>4 DEF p
  <2>3. /\ Sound(new, Every) /\ new.size = map.size /\ new.cap = 2 * map.cap
        /\ \E g : Comes(map, new, g)
    BY <1>1, <2>1, <2>2, Rehashing
  <2> HIDE DEF new
  <2>4. PICK g : Comes(map, new, g) BY <2>3
  <2>5. \A x, y \in In(new) : new.slot[x].ptr = new.slot[y].ptr => x = y
    BY <2>4 DEF Comes, Named
  <2>6. \A x \in In(new) : new.slot[x].ptr \in F /\ new.slot[x].key = new.slot[x].ptr.name
    BY <2>4 DEF Comes, Named
  <2>7. ASSUME NEW f \in F PROVE \E x \in In(new) : new.slot[x].ptr = f
    <3>1. PICK y \in In(map) : map.slot[y].ptr = f BY DEF Named
    <3>2. PICK x \in In(new) : g[x] = y BY <2>4 DEF Comes
    <3>3. new.slot[x].ptr = f BY <2>4, <3>1, <3>2 DEF Comes
    <3> QED BY <3>3
  <2>8. Named(new, F) BY <2>3, <2>5, <2>6, <2>7 DEF Named
  <2>9. new.size < new.cap BY <1>2, <2>1, <2>3
  <2> QED BY <2>1, <2>8, <2>9
<1> QED BY <1>3, <1>4

\* A field more is inserted, whatever its name.
LEMMA NamedInsert ==
  ASSUME NEW map, NEW F \in SUBSET Every, Named(map, F), IsFiniteSet(F),
         Cardinality(F) < 2^30, NEW f \in Every, f \notin F
  PROVE  Named(Insert(map, f.name, f), F \cup {f})
<1> DEFINE to == Roomy(map)
           new == Insert(map, f.name, f)
<1>1. Named(to, F) /\ to.size < to.cap BY NamedRoom
<1>2. new = [cap |-> to.cap, size |-> to.size + 1, slot |-> Place(to.slot, f.name, f)]
  BY DEF Insert
<1> HIDE DEF to, new
<1>3. f.name \in Name /\ f \in Every \cup {NULL} BY EveryIs
<1>4. Sound(to, Every) BY <1>1 DEF Named
<1>5. Adds(to, new, Every, f.name, f) BY <1>1, <1>2, <1>3, <1>4, Adding
<1>6. Sound(new, Every) BY <1>5 DEF Adds
<1>7. PICK g : From(to, new, f.name, f, g) BY <1>5 DEF Adds
<1>8. \A x \in In(new) :
        \/ g[x] = 0 /\ new.slot[x].key = f.name /\ new.slot[x].ptr = f
        \/ /\ g[x] \in In(to) /\ to.slot[g[x]].ptr \in F
           /\ new.slot[x].key = to.slot[g[x]].key /\ new.slot[x].ptr = to.slot[g[x]].ptr
           /\ new.slot[x].ptr # f
  BY <1>1, <1>7 DEF From, Named
<1>9. ASSUME NEW x \in In(new), NEW y \in In(new), new.slot[x].ptr = new.slot[y].ptr
      PROVE  x = y
  <2>1. g[x] = g[y] BY <1>1, <1>8, <1>9 DEF Named
  <2> QED BY <1>7, <2>1 DEF From
<1>10. \A x \in In(new) : /\ new.slot[x].ptr \in F \cup {f}
                          /\ new.slot[x].key = new.slot[x].ptr.name
  BY <1>1, <1>8 DEF Named
<1>11. ASSUME NEW h \in F \cup {f} PROVE \E x \in In(new) : new.slot[x].ptr = h
  <2>1. CASE h \in F
    <3>1. PICK y \in In(to) : to.slot[y].ptr = h BY <1>1, <2>1 DEF Named
    <3>2. PICK x \in In(new) : g[x] = y BY <1>7, <3>1 DEF From
    <3>3. 0 \notin In(to) BY DEF In, Taken
    <3>4. new.slot[x].ptr = h BY <1>8, <3>1, <3>2, <3>3
    <3> QED BY <3>4
  <2>2. CASE h = f
    <3>1. PICK x \in In(new) : g[x] = 0 BY <1>7 DEF From
    <3>2. 0 \notin In(to) BY DEF In, Taken
    <3>3. new.slot[x].ptr = h BY <1>8, <2>2, <3>1, <3>2
    <3> QED BY <3>3
  <2> QED BY <2>1, <2>2
<1>12. Named(new, F \cup {f}) BY <1>6, <1>9, <1>10, <1>11 DEF Named
<1> QED BY <1>12 DEF new

\* An index of numbers that has the fields F and no other.
Numbered(map, F) == \A n \in Int :
  /\ \A f \in F : f.id = n => IpQuery(map, n) = f
  /\ (\A f \in F : f.id # n) => IpQuery(map, n) = NULL

LEMMA NoneNumbered == Numbered(NoMap, {})
BY DEF Numbered, NoMap, IpQuery

\* The table of the fields in a map.
LEMMA TableIs ==
  ASSUME NEW t, NEW F \in SUBSET Every, Named(t.name, F)
  PROVE  \E n \in Nat : /\ Table(t) \in [1 .. n -> [key : Int, ptr : F]]
                        /\ \A i \in 1 .. n : Table(t)[i].key = Table(t)[i].ptr.id
                        /\ \A f \in F : \E i \in 1 .. n : Table(t)[i].ptr = f
<1> DEFINE map == t.name
           slot == map.slot
           m == map.cap
           P == [key : Int, ptr : F]
           Has(q, k) == /\ q \in Seq(P)
                        /\ \A i \in 1 .. Len(q) : q[i].key = q[i].ptr.id
                        /\ \A x \in 1 .. k : slot[x].ptr # NULL =>
                             \E i \in 1 .. Len(q) : q[i].ptr = slot[x].ptr
<1>1. Sound(map, Every) BY DEF Named
<1>2. m \in Nat BY <1>1, SoundIs
<1>3. Slotted(slot, m, Name, Every) /\ Clean(slot, m) BY <1>1 DEF Sound, Kept, Whole
<1>4. DOMAIN slot = 1 .. m BY <1>3 DEF Slotted
<1>5. PICK u : Turns(u, "table", slot, m, <<>>) /\ Table(t) = u[m]
  BY <1>2, <1>4, TableFold
<1>6. \A x \in 1 .. m : slot[x].ptr # NULL => slot[x].ptr \in F
  BY <1>3 DEF Clean, Named, In, Taken
<1> HIDE DEF map, slot, m
<1> DEFINE T == {k \in 0 .. m : Has(u[k], k)}
<1>7. 0 \in T
  <2>1. u[0] = <<>> BY <1>5 DEF Turns
  <2>2. Has(<<>>, 0)
    <3>1. <<>> \in Seq(P) /\ Len(<<>>) = 0 OBVIOUS
    <3>2. \A i \in 1 .. 0 : FALSE OBVIOUS
    <3> HIDE DEF P
    <3> QED BY <3>1, <3>2
  <2> HIDE DEF Has
  <2>3. Has(u[0], 0) /\ 0 \in 0 .. m BY <1>2, <2>1, <2>2
  <2> QED BY <2>3
<1>8. ASSUME NEW k \in 0 .. m, k < m, k \in T PROVE k + 1 \in T
  <2> DEFINE q == u[k]
             r == u[k + 1]
             s == slot[k + 1]
             e == [key |-> s.ptr.id, ptr |-> s.ptr]
  <2>1. Has(q, k) /\ k + 1 \in 1 .. m /\ k + 1 \in 0 .. m BY <1>2, <1>8
  <2>2. r = IF s.ptr = NULL THEN q ELSE Append(q, e) BY <1>5, <1>8 DEF Turns, Turn
  <2>3. s.ptr # NULL => s.ptr \in F /\ e \in P BY <1>6, <2>1, EveryIs
  <2> HIDE DEF q, r
  <2>4. \A x \in 1 .. k + 1 : x \in 1 .. k \/ x = k + 1 BY <1>8
  <2>5. CASE s.ptr = NULL
    <3>1. r = q BY <2>2, <2>5
    <3> HIDE DEF P
    <3>2. Has(r, k + 1) BY <2>1, <2>4, <2>5, <3>1
    <3> QED BY <2>1, <3>2 DEF r
  <2>6. CASE s.ptr # NULL
    <3>1. r = Append(q, e) /\ e \in P BY <2>2, <2>3, <2>6
    <3>6. e.ptr = s.ptr /\ e.key = e.ptr.id OBVIOUS
    <3> HIDE DEF P, e, s
    <3>2. q \in Seq(P) BY <2>1
    <3>3. /\ r \in Seq(P) /\ Len(r) = Len(q) + 1 /\ Len(q) \in Nat
          /\ \A i \in 1 .. Len(q) : r[i] = q[i]
          /\ r[Len(q) + 1] = e
      BY <3>1, <3>2
    <3>4. \A i \in 1 .. Len(q) + 1 : i \in 1 .. Len(q) \/ i = Len(q) + 1 BY <3>3
    <3>7. Len(q) + 1 \in 1 .. Len(r) /\ \A i \in 1 .. Len(q) : i \in 1 .. Len(r) BY <3>3
    <3>8. \A i \in 1 .. Len(r) : r[i].key = r[i].ptr.id BY <2>1, <3>3, <3>4, <3>6
    <3>9. ASSUME NEW x \in 1 .. k + 1, slot[x].ptr # NULL
          PROVE  \E i \in 1 .. Len(r) : r[i].ptr = slot[x].ptr
      <4>1. CASE x \in 1 .. k
        <5>1. PICK i \in 1 .. Len(q) : q[i].ptr = slot[x].ptr BY <2>1, <3>9, <4>1
        <5> QED BY <3>3, <3>7, <5>1
      <4>2. CASE x = k + 1 BY <3>3, <3>6, <3>7, <4>2 DEF s
      <4> QED BY <2>4, <4>1, <4>2
    <3>5. Has(r, k + 1) BY <3>3, <3>8, <3>9
    <3> QED BY <2>1, <3>5 DEF r
  <2> QED BY <2>5, <2>6
<1>9. Has(u[m], m)
  <2>1. \A i \in 0 .. m : i \in T
    <3> HIDE DEF T
    <3> QED BY <1>2, <1>7, <1>8, Upwards
  <2> HIDE DEF Has
  <2>2. m \in T BY <1>2, <2>1
  <2> QED BY <2>2
<1> DEFINE n == Len(u[m])
<1>10. n \in Nat /\ u[m] \in [1 .. n -> P]
  <2>1. u[m] \in Seq(P) BY <1>9
  <2> HIDE DEF P
  <2> QED BY <2>1
<1>11. ASSUME NEW f \in F PROVE \E i \in 1 .. n : u[m][i].ptr = f
  <2>1. PICK x \in 1 .. m : slot[x].ptr = f BY DEF Named, In, Taken, map, slot, m
  <2>2. f # NULL BY EveryIs
  <2> QED BY <1>9, <2>1, <2>2
<1>12. \A i \in 1 .. n : u[m][i].key = u[m][i].ptr.id BY <1>9
<1>13. /\ Table(t) \in [1 .. n -> P]
       /\ \A i \in 1 .. n : Table(t)[i].key = Table(t)[i].ptr.id
       /\ \A f \in F : \E i \in 1 .. n : Table(t)[i].ptr = f
  <2> HIDE DEF n, P, T
  <2> QED BY <1>5, <1>10, <1>11, <1>12
<1> HIDE DEF n, T
<1> QED BY <1>10, <1>13

\* Each field has a number of its own.
Apart(F) == \A f, g \in F : f.id = g.id => f = g

\* The index that is built of the fields has them.
LEMMA TableNumbered ==
  ASSUME NEW t, NEW F \in SUBSET Every, F # {}, Named(t.name, F), Apart(F)
  PROVE  Numbered(IpNew(Table(t)), F)
<1> DEFINE q == Table(t)
<1>1. PICK n \in Nat : /\ q \in [1 .. n -> [key : Int, ptr : F]]
                       /\ \A i \in 1 .. n : q[i].key = q[i].ptr.id
                       /\ \A f \in F : \E i \in 1 .. n : q[i].ptr = f
  BY TableIs
<1>2. n # 0
  <2>1. PICK f \in F : TRUE OBVIOUS
  <2> QED BY <1>1, <2>1
<1>3. NULL \notin Int /\ NULL \notin F BY WrittenAssumption, EveryIs
<1> HIDE DEF q
<1>4. ASSUME NEW id \in Int
      PROVE  /\ \A f \in F : f.id = id => IpQuery(IpNew(q), id) = f
             /\ (\A f \in F : f.id # id) => IpQuery(IpNew(q), id) = NULL
  <2> DEFINE p == IpQuery(IpNew(q), id)
  <2>1. Tells(q, n, id, p) BY <1>1, <1>2, <1>3, NumbersTell
  <2> HIDE DEF p
  <2>2. \A i \in 1 .. n : q[i].ptr \in F BY <1>1
  <2>3. ASSUME NEW f \in F, f.id = id PROVE p = f
    <3>1. PICK i \in 1 .. n : q[i].ptr = f BY <1>1
    <3>2. q[i].key = id BY <1>1, <2>3, <3>1
    <3>3. PICK j \in 1 .. n : q[j].key = id /\ q[j].ptr = p BY <2>1, <3>2 DEF Tells
    <3> QED BY <1>1, <2>2, <2>3, <3>3 DEF Apart
  <2>4. ASSUME \A f \in F : f.id # id PROVE p = NULL
    BY <1>1, <2>1, <2>2, <2>4 DEF Tells
  <2> QED BY <2>3, <2>4 DEF p
<1> QED BY <1>4 DEF Numbered, q

-----------------------------------------------------------------------------
\* Declaration j of a file brings fields.  A field has one place,
Brings(file, j, x) == Brought(Decls[file][j])[x]

LEMMA OncePlace ==
  ASSUME NEW a \in File, NEW j \in DOMAIN Decls[a], NEW x \in DOMAIN Brought(Decls[a][j]),
         NEW c \in File, NEW k \in DOMAIN Decls[c], NEW y \in DOMAIN Brought(Decls[c][k]),
         SameField(Brings(a, j, x), Brings(c, k, y))
  PROVE  a = c /\ j = k /\ x = y
<1>1. SameField(Brought(Decls[a][j])[x], Brought(Decls[c][k])[y]) BY DEF Brings
<1> QED BY <1>1, FieldsAssumption

LEMMA Somewhere ==
  ASSUME NEW S \in SUBSET File, NEW b \in Declared(S)
  PROVE  \E file \in S : \E j \in DOMAIN Decls[file] :
           \E x \in DOMAIN Brought(Decls[file][j]) : Brings(file, j, x) = b
<1>1. PICK file \in S : \E d \in Range(Decls[file]) : b \in Range(Brought(d))
  BY DEF Declared
<1>2. PICK j \in DOMAIN Decls[file] : b \in Range(Brought(Decls[file][j]))
  BY <1>1 DEF Range
<1>3. PICK x \in DOMAIN Brought(Decls[file][j]) : Brought(Decls[file][j])[x] = b
  BY <1>2 DEF Range
<1> QED BY <1>3 DEF Brings

\* so that two fields of a type have different numbers.
LEMMA Once ==
  ASSUME NEW b \in Declared(File), NEW c \in Declared(File), SameField(b, c)
  PROVE  b = c
<1>1. File \in SUBSET File OBVIOUS
<1>2. PICK f1 \in File : \E j \in DOMAIN Decls[f1] :
        \E x \in DOMAIN Brought(Decls[f1][j]) : Brings(f1, j, x) = b
  BY <1>1, Somewhere
<1>3. PICK j \in DOMAIN Decls[f1] :
        \E x \in DOMAIN Brought(Decls[f1][j]) : Brings(f1, j, x) = b
  BY <1>2
<1>4. PICK x \in DOMAIN Brought(Decls[f1][j]) : Brings(f1, j, x) = b BY <1>3
<1>5. PICK f2 \in File : \E k \in DOMAIN Decls[f2] :
        \E y \in DOMAIN Brought(Decls[f2][k]) : Brings(f2, k, y) = c
  BY <1>1, Somewhere
<1>6. PICK k \in DOMAIN Decls[f2] :
        \E y \in DOMAIN Brought(Decls[f2][k]) : Brings(f2, k, y) = c
  BY <1>5
<1>7. PICK y \in DOMAIN Brought(Decls[f2][k]) : Brings(f2, k, y) = c BY <1>6
<1>8. f1 = f2 /\ j = k /\ x = y BY <1>4, <1>7, OncePlace
<1> QED BY <1>4, <1>7, <1>8

\* The fields that the declarations B give a type, and the types that they
\* give some to.
Of(B, type) == {b.field : b \in {b \in B : b.of = type}}
Types(B) == {b.of : b \in B}

\* They are fields, few, and have a number each.
LEMMA OfIs ==
  ASSUME NEW B \in SUBSET Declared(File), NEW type
  PROVE  /\ Of(B, type) \in SUBSET Every /\ Apart(Of(B, type))
         /\ IsFiniteSet(Of(B, type)) /\ Cardinality(Of(B, type)) < 2^30
<1> DEFINE own == {b \in Declared(File) : b.of = type}
           mine == {b \in B : b.of = type}
           F == Of(B, type)
           f == [b \in mine |-> b.field]
<1>1. F \in SUBSET Every BY DEF Of, Every
<1>2. Apart(F)
  <2>1. ASSUME NEW b \in mine, NEW c \in mine, b.field.id = c.field.id
        PROVE  b.field = c.field
    <3>1. b = c BY <2>1, Once DEF SameField
    <3> QED BY <3>1
  <2> QED BY <2>1 DEF Of, Apart
<1>3. IsFiniteSet(own) /\ Cardinality(own) < 2^30
  <2>1. CASE type \in {b.of : b \in Declared(File)} BY <2>1, FewAssumption
  <2>2. CASE type \notin {b.of : b \in Declared(File)}
    <3>1. own = {} BY <2>2
    <3>2. 0 < 2^30 OBVIOUS
    <3> HIDE DEF own
    <3> QED BY <3>1, <3>2, FS_EmptySet
  <2> QED BY <2>1, <2>2
<1>4. IsFiniteSet(mine) /\ Cardinality(mine) <= Cardinality(own)
  <2>1. mine \in SUBSET own OBVIOUS
  <2> HIDE DEF mine, own
  <2> QED BY <1>3, <2>1, FS_Subset
<1>5. f \in Surjection(mine, F) BY DEF Surjection, Of
<1>6. IsFiniteSet(F) /\ Cardinality(F) <= Cardinality(mine)
  <2> HIDE DEF mine, F, f
  <2> QED BY <1>4, <1>5, FS_Surjection
<1>7. /\ Cardinality(own) \in Nat /\ Cardinality(mine) \in Nat /\ Cardinality(F) \in Nat
  BY <1>3, <1>4, <1>6, FS_CardinalityType
<1>8. Cardinality(F) < 2^30
  <2> DEFINE p == 2^30
  <2>1. p \in Nat /\ Cardinality(own) < p BY <1>3, Subsets
  <2> HIDE DEF p, F, mine, own
  <2>2. Cardinality(F) < p BY <1>4, <1>6, <1>7, <2>1
  <2> QED BY <2>2 DEF p
<1> QED BY <1>1, <1>2, <1>6, <1>8

\* One more declaration.
LEMMA OfMore ==
  ASSUME NEW B, NEW b, NEW type
  PROVE  /\ Of(B \cup {b}, b.of) = Of(B, b.of) \cup {b.field}
         /\ type # b.of => Of(B \cup {b}, type) = Of(B, type)
         /\ Types(B \cup {b}) = Types(B) \cup {b.of}
         /\ type \notin Types(B) => Of(B, type) = {}
         /\ type \in Types(B) => Of(B, type) # {}
BY DEF Of, Types

\* The types that have been made of the fields B, the messages M and the enums
\* en; those of X have no index of numbers yet.  What N brought waits.
Typed(t, F, built) ==
  /\ t = [name |-> t.name, id |-> t.id]
  /\ Named(t.name, F)
  /\ built => Numbered(t.id, F)

Waiting == {<<b.of, b.field>> : b \in Declared(File)}
NotPlain(N) == {b \in N : b.field.kind # "plain"}

Made(e, en, B, N, M, X) ==
  /\ e = [msgs |-> e.msgs, enums |-> en, queue |-> e.queue]
  /\ DOMAIN e.msgs = M \cup Types(B)
  /\ \A type \in DOMAIN e.msgs : Typed(e.msgs[type], Of(B, type), type \notin X)
  /\ e.queue \in Seq(Waiting)
  /\ Range(e.queue) = {<<b.of, b.field>> : b \in NotPlain(N)}

\* A type as it is taken up, be it there or new.
LEMMA TypeInIs ==
  ASSUME NEW e, NEW en, NEW B, NEW N, NEW M, NEW X, Made(e, en, B, N, M, X), NEW type
  PROVE  Typed(TypeIn(e, type), Of(B, type), type \notin X)
<1>1. CASE type \in DOMAIN e.msgs BY <1>1 DEF TypeIn, Made
<1>2. CASE type \notin DOMAIN e.msgs
  <2>1. TypeIn(e, type) = [name |-> SpNew(0), id |-> NoMap]
    BY <1>2 DEF TypeIn, NewType
  <2>2. Of(B, type) = {} BY <1>2, OfMore DEF Made
  <2> QED BY <2>1, <2>2, NewNamed, NoneNumbered DEF Typed
<1> QED BY <1>1, <1>2

\* A queue with one more.
LEMMA Queued ==
  ASSUME NEW q \in Seq(Waiting), NEW w \in Waiting
  PROVE  Append(q, w) \in Seq(Waiting) /\ Range(Append(q, w)) = Range(q) \cup {w}
<1>1. /\ Len(q) \in Nat /\ DOMAIN q = 1 .. Len(q)
      /\ DOMAIN Append(q, w) = 1 .. Len(q) + 1
      /\ \A i \in 1 .. Len(q) : Append(q, w)[i] = q[i]
      /\ Append(q, w)[Len(q) + 1] = w
  OBVIOUS
<1>2. \A i \in 1 .. Len(q) + 1 : i \in 1 .. Len(q) \/ i = Len(q) + 1 BY <1>1
<1>3. Len(q) + 1 \in 1 .. Len(q) + 1 /\ \A i \in 1 .. Len(q) : i \in 1 .. Len(q) + 1 BY <1>1
<1> QED BY <1>1, <1>2, <1>3 DEF Range

\* _pbcP_push_message adds a field to its type.
LEMMA Pushed ==
  ASSUME NEW e, NEW en, NEW B \in SUBSET Declared(File), NEW N, NEW M, NEW X,
         Made(e, en, B, N, M, X), NEW b \in Declared(File), b \notin B
  PROVE  Made(PushMessage(e, b.of, b.field), en, B \cup {b}, N \cup {b}, M, X \cup {b.of})
<1> DEFINE of == b.of
           f == b.field
           t == TypeIn(e, of)
           u == [t EXCEPT !.name = Insert(@, f.name, f)]
           r == PushMessage(e, of, f)
           F == Of(B, of)
           B1 == B \cup {b}
           q == IF f.kind = "plain" THEN e.queue ELSE Append(e.queue, <<of, f>>)
           msgs1 == Over([k \in {of} |-> u], e.msgs)
<1>1. Typed(t, F, of \notin X) BY TypeInIs
<1>2. u = [name |-> Insert(t.name, f.name, f), id |-> t.id] BY <1>1 DEF Typed
<1>3. Named(u.name, F \cup {f})
  <2>1. /\ F \in SUBSET Every /\ IsFiniteSet(F) /\ Cardinality(F) < 2^30 BY OfIs
  <2>2. f \in Every BY DEF Every
  <2>3. f \notin F
    <3> SUFFICES ASSUME f \in F PROVE FALSE OBVIOUS
    <3>1. PICK c \in B : c.of = of /\ c.field = f BY DEF Of
    <3> QED BY <3>1, Once DEF SameField
  <2> HIDE DEF F, f, t
  <2>4. Named(t.name, F) BY <1>1 DEF Typed
  <2>5. Named(Insert(t.name, f.name, f), F \cup {f}) BY <2>1, <2>2, <2>3, <2>4, NamedInsert
  <2> QED BY <1>2, <2>5
<1>4. Typed(u, Of(B1, of), FALSE)
  <2>1. Of(B1, of) = F \cup {f} BY OfMore
  <2> HIDE DEF F, f, u, t, B1
  <2> QED BY <1>2, <1>3, <2>1 DEF Typed
<1>5. r = [msgs |-> msgs1, enums |-> en, queue |-> q]
  <2>1. r = [e EXCEPT !.msgs = msgs1, !.queue = q] BY DEF PushMessage
  <2>2. e = [msgs |-> e.msgs, enums |-> en, queue |-> e.queue] BY DEF Made
  <2> DEFINE w == [e EXCEPT !.msgs = msgs1]
  <2> HIDE DEF r, msgs1, q
  <2>3. w = [msgs |-> msgs1, enums |-> en, queue |-> e.queue] BY <2>2
  <2>4. r = [w EXCEPT !.queue = q] BY <2>1
  <2> QED BY <2>3, <2>4
<1>6. /\ DOMAIN msgs1 = DOMAIN e.msgs \cup {of} /\ msgs1[of] = u
      /\ \A x \in DOMAIN e.msgs : x # of => msgs1[x] = e.msgs[x]
  <2> HIDE DEF u
  <2> QED BY DEF Over
<1>7. q \in Seq(Waiting) /\ Range(q) = {<<c.of, c.field>> : c \in NotPlain(N \cup {b})}
  <2>1. e.queue \in Seq(Waiting) /\ Range(e.queue) = {<<c.of, c.field>> : c \in NotPlain(N)}
    BY DEF Made
  <2>2. CASE f.kind = "plain"
    <3>1. NotPlain(N \cup {b}) = NotPlain(N) BY <2>2 DEF NotPlain
    <3> QED BY <2>1, <2>2, <3>1
  <2>3. CASE f.kind # "plain"
    <3>1. NotPlain(N \cup {b}) = NotPlain(N) \cup {b} BY <2>3 DEF NotPlain
    <3>2. <<of, f>> \in Waiting BY DEF Waiting
    <3>3. q = Append(e.queue, <<of, f>>) BY <2>3
    <3>4. q \in Seq(Waiting) /\ Range(q) = Range(e.queue) \cup {<<of, f>>}
      <4> HIDE DEF q, of, f
      <4> QED BY <2>1, <3>2, <3>3, Queued
    <3>5. {<<c.of, c.field>> : c \in NotPlain(N) \cup {b}}
            = {<<c.of, c.field>> : c \in NotPlain(N)} \cup {<<of, f>>}
      OBVIOUS
    <3> HIDE DEF q, of, f
    <3> QED BY <2>1, <3>1, <3>4, <3>5
  <2> QED BY <2>2, <2>3
<1>8. ASSUME NEW type \in DOMAIN msgs1
      PROVE  Typed(msgs1[type], Of(B1, type), type \notin X \cup {of})
  <2>1. CASE type = of
    <3> HIDE DEF u, msgs1, B1, of
    <3>1. (type \notin X \cup {of}) = FALSE BY <2>1
    <3> QED BY <1>4, <1>6, <2>1, <3>1
  <2>2. CASE type # of
    <3>1. type \in DOMAIN e.msgs /\ msgs1[type] = e.msgs[type]
      <4> HIDE DEF u, msgs1
      <4> QED BY <1>6, <2>2
    <3>2. Typed(e.msgs[type], Of(B, type), type \notin X) BY <3>1 DEF Made
    <3>3. Of(B1, type) = Of(B, type) BY <2>2, OfMore
    <3> HIDE DEF u, msgs1, B1, of
    <3> QED BY <2>2, <3>1, <3>2, <3>3 DEF Typed
  <2> QED BY <2>1, <2>2
<1>9. Types(B1) = Types(B) \cup {of} BY OfMore
<1>10. DOMAIN msgs1 = M \cup Types(B1)
  <2> HIDE DEF msgs1, u, B1, of
  <2> QED BY <1>6, <1>9 DEF Made
<1> HIDE DEF msgs1, q, u, B1, of, f, r, t
<1>11. Made(r, en, B1, N \cup {b}, M, X \cup {of})
  BY <1>5, <1>7, <1>8, <1>10 DEF Made
<1> QED BY <1>11 DEF r, of, f, B1

\* _pbcP_init_message builds the index of numbers of a type.
LEMMA Inited ==
  ASSUME NEW e, NEW en, NEW B \in SUBSET Declared(File), NEW N, NEW M, NEW X,
         Made(e, en, B, N, M, X), NEW type, type \in M => type \in Types(B)
  PROVE  Made(InitMessage(e, type), en, B, N, M \cup {type}, X \ {type})
<1> DEFINE t == TypeIn(e, type)
           u == IF type \notin DOMAIN e.msgs THEN t ELSE [t EXCEPT !.id = IpNew(Table(t))]
           msgs1 == Over([k \in {type} |-> u], e.msgs)
           r == InitMessage(e, type)
           F == Of(B, type)
<1>1. Typed(t, F, type \notin X) BY TypeInIs
<1>2. Typed(u, F, TRUE)
  <2>1. CASE type \notin DOMAIN e.msgs
    <3>1. u = [name |-> SpNew(0), id |-> NoMap] BY <2>1 DEF TypeIn, NewType
    <3>2. F = {} BY <2>1, OfMore DEF Made
    <3> HIDE DEF F, u
    <3> QED BY <3>1, <3>2, NewNamed, NoneNumbered DEF Typed
  <2>2. CASE type \in DOMAIN e.msgs
    <3>1. F # {} BY <2>2, OfMore DEF Made
    <3>2. F \in SUBSET Every /\ Apart(F) BY OfIs
    <3> HIDE DEF F, t
    <3>3. u = [name |-> t.name, id |-> IpNew(Table(t))] BY <1>1, <2>2 DEF Typed
    <3> HIDE DEF u
    <3>4. Numbered(IpNew(Table(t)), F) BY <1>1, <3>1, <3>2, TableNumbered DEF Typed
    <3> QED BY <1>1, <3>3, <3>4 DEF Typed
  <2> QED BY <2>1, <2>2
<1>3. r = [msgs |-> msgs1, enums |-> en, queue |-> e.queue] BY DEF InitMessage, Made
<1> HIDE DEF u, F, t
<1>4. /\ DOMAIN msgs1 = DOMAIN e.msgs \cup {type} /\ msgs1[type] = u
      /\ \A x \in DOMAIN e.msgs : x # type => msgs1[x] = e.msgs[x]
  BY DEF Over
<1> HIDE DEF msgs1, r
<1>5. ASSUME NEW x \in DOMAIN msgs1 PROVE Typed(msgs1[x], Of(B, x), x \notin X \ {type})
  <2>1. CASE x = type BY <1>2, <1>4, <2>1 DEF Typed, F
  <2>2. CASE x # type
    <3>1. x \in DOMAIN e.msgs /\ msgs1[x] = e.msgs[x] BY <1>4, <2>2
    <3>2. Typed(e.msgs[x], Of(B, x), x \notin X) BY <3>1 DEF Made
    <3> QED BY <2>2, <3>1, <3>2 DEF Typed
  <2> QED BY <2>1, <2>2
<1>6. DOMAIN msgs1 = (M \cup {type}) \cup Types(B) BY <1>4 DEF Made
<1>7. /\ e.queue \in Seq(Waiting) /\ Range(e.queue) = {<<b.of, b.field>> : b \in NotPlain(N)}
  BY DEF Made
<1>8. Made(r, en, B, N, M \cup {type}, X \ {type}) BY <1>3, <1>5, <1>6, <1>7 DEF Made
<1> QED BY <1>8 DEF r

-----------------------------------------------------------------------------
\* Declarations.  The first k of the fields that one brings,
First(br, k) == {br[i] : i \in 1 .. k}

\* which are fields that are not there yet.
Fresh(br, B) ==
  /\ br \in Seq(Declared(File))
  /\ \A x \in DOMAIN br : br[x] \notin B
  /\ \A x, y \in DOMAIN br : br[x] = br[y] => x = y

LEMMA FirstMore ==
  ASSUME NEW br, NEW B \in SUBSET Declared(File), Fresh(br, B), NEW k \in Nat, k < Len(br)
  PROVE  /\ First(br, k + 1) = First(br, k) \cup {br[k + 1]}
         /\ br[k + 1] \in Declared(File) /\ br[k + 1] \notin B \cup First(br, k)
         /\ B \cup First(br, k) \in SUBSET Declared(File)
         /\ B \cup First(br, k + 1) = (B \cup First(br, k)) \cup {br[k + 1]}
<1>1. br \in Seq(Declared(File)) BY DEF Fresh
<1>2. Len(br) \in Nat /\ DOMAIN br = 1 .. Len(br) BY <1>1
<1>3. /\ k + 1 \in DOMAIN br
      /\ \A i \in 1 .. k : i \in DOMAIN br /\ i # k + 1 /\ i \in 1 .. k + 1
      /\ \A i \in 1 .. k + 1 : i \in 1 .. k \/ i = k + 1
      /\ k + 1 \in 1 .. k + 1
  BY <1>2
<1>4. First(br, k + 1) = First(br, k) \cup {br[k + 1]} BY <1>3 DEF First
<1>5. br[k + 1] \in Declared(File) /\ \A i \in 1 .. k : br[i] \in Declared(File)
  BY <1>1, <1>3
<1>6. br[k + 1] \notin B \cup First(br, k) BY <1>3 DEF First, Fresh
<1>7. B \cup First(br, k) \in SUBSET Declared(File) BY <1>5 DEF First
<1> QED BY <1>4, <1>5, <1>6, <1>7

LEMMA FirstEnds ==
  ASSUME NEW S, NEW br \in Seq(S)
  PROVE  First(br, 0) = {} /\ First(br, Len(br)) = Range(br)
<1>1. DOMAIN br = 1 .. Len(br) /\ 1 .. 0 = {} OBVIOUS
<1> QED BY <1>1 DEF First, Range

\* Some types may be taken to lack their index, and a type that has fields
\* need not be listed.
LEMMA MadeLess ==
  ASSUME NEW e, NEW en, NEW B, NEW N, NEW M, NEW X, Made(e, en, B, N, M, X),
         NEW Y, X \subseteq Y
  PROVE  Made(e, en, B, N, M, Y)
<1>1. ASSUME NEW type \in DOMAIN e.msgs
      PROVE  Typed(e.msgs[type], Of(B, type), type \notin Y)
  <2>1. Typed(e.msgs[type], Of(B, type), type \notin X) BY DEF Made
  <2> QED BY <2>1 DEF Typed
<1> QED BY <1>1 DEF Made

LEMMA MadeListed ==
  ASSUME NEW e, NEW en, NEW B, NEW N, NEW M, NEW X, NEW type \in Types(B),
         Made(e, en, B, N, M \cup {type}, X)
  PROVE  Made(e, en, B, N, M, X)
<1>1. (M \cup {type}) \cup Types(B) = M \cup Types(B) OBVIOUS
<1> QED BY <1>1 DEF Made

\* A message with its fields.
LEMMA MessageMade ==
  ASSUME NEW e, NEW en, NEW B \in SUBSET Declared(File), NEW N, NEW M,
         Made(e, en, B, N, M, {}),
         NEW d, d.what = "message", d.fields \in Seq(Range(d.fields)),
         Fresh(Brought(d), B), d.type \notin M
  PROVE  Made(RegisterMessage(e, d), en, B \cup Range(Brought(d)), N \cup Range(Brought(d)),
              M \cup {d.type}, {})
<1> DEFINE br == Brought(d)
           n == Len(br)
<1>1. br = [i \in DOMAIN d.fields |-> [of |-> d.type, field |-> d.fields[i]]]
  BY DEF Brought
<1>2. br \in Seq(Declared(File)) BY DEF Fresh
<1>3. n \in Nat /\ DOMAIN br = 1 .. n /\ DOMAIN d.fields = 1 .. n
  <2>1. n \in Nat /\ DOMAIN br = 1 .. n BY <1>2
  <2>2. DOMAIN br = DOMAIN d.fields BY <1>1
  <2> QED BY <2>1, <2>2
<1>4. PICK t : /\ Turns(t, "fields", d, n, e)
               /\ RegisterMessage(e, d) = InitMessage(t[n], d.type)
  <2> HIDE DEF br, n
  <2> QED BY <1>3, FieldsFold
<1>5. \A i \in 1 .. n : br[i].of = d.type /\ br[i].field = d.fields[i] BY <1>1, <1>3
<1>0. n = Len(br) OBVIOUS
<1> HIDE DEF n, br
<1> DEFINE Is(k) == Made(t[k], en, B \cup First(br, k), N \cup First(br, k), M, {d.type})
           T == {k \in 0 .. n : Is(k)}
<1>6. 0 \in T
  <2>1. t[0] = e BY <1>4 DEF Turns
  <2>2. Made(e, en, B, N, M, {d.type}) BY MadeLess
  <2>3. First(br, 0) = {} BY <1>2, FirstEnds
  <2>4. B \cup First(br, 0) = B /\ N \cup First(br, 0) = N BY <2>3
  <2>5. Is(0) BY <2>1, <2>2, <2>4
  <2> HIDE DEF Is
  <2> QED BY <1>3, <2>5
<1>7. ASSUME NEW k \in 0 .. n, k < n, k \in T PROVE k + 1 \in T
  <2> DEFINE b == br[k + 1]
             C == B \cup First(br, k)
             L == N \cup First(br, k)
  <2>1. Made(t[k], en, C, L, M, {d.type}) BY <1>7
  <2>2. k \in Nat /\ k < Len(br) /\ k + 1 \in 1 .. n /\ k + 1 \in 0 .. n
    BY <1>0, <1>3, <1>7
  <2>3. /\ First(br, k + 1) = First(br, k) \cup {b}
        /\ b \in Declared(File) /\ b \notin C /\ C \in SUBSET Declared(File)
    BY <2>2, FirstMore DEF br
  <2>4. t[k + 1] = PushMessage(t[k], d.type, d.fields[k + 1])
    BY <1>4, <1>7 DEF Turns, Turn
  <2>5. b.of = d.type /\ b.field = d.fields[k + 1] BY <1>5, <2>2
  <2>6. B \cup First(br, k + 1) = C \cup {b} /\ N \cup First(br, k + 1) = L \cup {b}
    BY <2>3
  <2> HIDE DEF b, C, L
  <2>7. Made(PushMessage(t[k], b.of, b.field), en, C \cup {b}, L \cup {b}, M,
             {d.type} \cup {b.of})
    BY <2>1, <2>3, Pushed
  <2>8. {d.type} \cup {b.of} = {d.type} BY <2>5
  <2>9. Is(k + 1) BY <2>4, <2>5, <2>6, <2>7, <2>8
  <2> HIDE DEF Is
  <2> QED BY <2>2, <2>9
<1>8. Is(n)
  <2>1. \A i \in 0 .. n : i \in T
    <3> HIDE DEF T
    <3> QED BY <1>3, <1>6, <1>7, Upwards
  <2> HIDE DEF Is
  <2> QED BY <1>3, <2>1
<1>9. First(br, n) = Range(br) BY <1>0, <1>2, FirstEnds
<1>10. B \cup Range(br) \in SUBSET Declared(File) BY <1>2 DEF Range
<1> DEFINE C == B \cup Range(br)
           L == N \cup Range(br)
<1>11. Made(t[n], en, C, L, M, {d.type}) BY <1>8, <1>9
<1> HIDE DEF C, L
<1>12. Made(InitMessage(t[n], d.type), en, C, L, M \cup {d.type}, {d.type} \ {d.type})
  BY <1>10, <1>11, Inited DEF C
<1>13. {d.type} \ {d.type} = {} OBVIOUS
<1> QED BY <1>4, <1>12, <1>13 DEF C, L, br

\* Fields that are added to types from outside.
LEMMA ExtensionMade ==
  ASSUME NEW e, NEW en, NEW B \in SUBSET Declared(File), NEW N, NEW M,
         Made(e, en, B, N, M, {}),
         NEW d, d.what = "extend", d.fields # <<>>, Fresh(Brought(d), B)
  PROVE  Made(RegisterExtension(e, d), en, B \cup Range(Brought(d)),
              N \cup Range(Brought(d)), M, {})
<1> DEFINE br == d.fields
           n == Len(br)
<1>1. Brought(d) = br BY DEF Brought
<1>2. br \in Seq(Declared(File)) BY <1>1 DEF Fresh
<1>3. n \in Nat /\ n # 0 /\ DOMAIN br = 1 .. n BY <1>2
<1>4. PICK t : /\ Turns(t, "extensions", d, n, e)
               /\ RegisterExtension(e, d) = InitMessage(t[n], br[n].of)
  <2>1. br \in Seq(Range(br)) BY <1>2 DEF Range
  <2> QED BY <1>3, <2>1, ExtensionsFold
<1>5. Fresh(br, B) BY <1>1
<1> DEFINE X(k) == IF k = 0 THEN {} ELSE {br[k].of}
           Is(k) == Made(t[k], en, B \cup First(br, k), N \cup First(br, k), M, X(k))
           T == {k \in 0 .. n : Is(k)}
<1>0. n = Len(br) OBVIOUS
<1> HIDE DEF n, br
<1>6. 0 \in T
  <2>1. t[0] = e BY <1>4 DEF Turns
  <2>2. First(br, 0) = {} BY <1>2, FirstEnds
  <2>3. B \cup First(br, 0) = B /\ N \cup First(br, 0) = N /\ X(0) = {} BY <2>2
  <2> HIDE DEF X
  <2>4. Is(0) BY <2>1, <2>3
  <2> HIDE DEF Is
  <2> QED BY <1>3, <2>4
<1>7. ASSUME NEW k \in 0 .. n, k < n, k \in T PROVE k + 1 \in T
  <2> DEFINE b == br[k + 1]
             C == B \cup First(br, k)
             L == N \cup First(br, k)
             y == PushMessage(t[k], b.of, b.field)
  <2>1. Made(t[k], en, C, L, M, X(k))
    <3> HIDE DEF X
    <3> QED BY <1>7
  <2>2. k \in Nat /\ k < Len(br) /\ k + 1 \in 1 .. n /\ k + 1 \in 0 .. n
    BY <1>0, <1>3, <1>7
  <2>3. /\ First(br, k + 1) = First(br, k) \cup {b}
        /\ b \in Declared(File) /\ b \notin C /\ C \in SUBSET Declared(File)
    BY <1>5, <2>2, FirstMore
  <2>4. t[k + 1] = IF k + 1 = 1 \/ br[k].of = b.of THEN y ELSE InitMessage(y, br[k].of)
    <3>1. t[k + 1] = Extend(t[k], d, k + 1) BY <1>4, <1>7 DEF Turns, Turn
    <3>2. (k + 1) - 1 = k BY <2>2
    <3> QED BY <3>1, <3>2 DEF Extend, br
  <2>5. B \cup First(br, k + 1) = C \cup {b} /\ N \cup First(br, k + 1) = L \cup {b}
    BY <2>3
  <2>6. X(k + 1) = {b.of} BY <2>2
  <2>7. ASSUME k # 0 PROVE br[k].of \in Types(C \cup {b}) /\ X(k) = {br[k].of}
    <3>1. k \in 1 .. k BY <2>2, <2>7
    <3> QED BY <2>7, <3>1 DEF Types, First
  <2> DEFINE Y == X(k)
  <2>0. Y = X(k) OBVIOUS
  <2>8. k = 0 => Y = {} OBVIOUS
  <2> HIDE DEF b, C, L, X, Y
  <2>9. Made(y, en, C \cup {b}, L \cup {b}, M, Y \cup {b.of})
    BY <2>0, <2>1, <2>3, Pushed
  <2> HIDE DEF y
  <2>10. Made(t[k + 1], en, C \cup {b}, L \cup {b}, M, {b.of})
    <3>1. CASE k + 1 = 1 \/ br[k].of = b.of
      <4>1. Y \cup {b.of} = {b.of}
        <5>1. CASE k = 0 BY <2>8, <5>1
        <5>2. CASE k # 0 BY <2>0, <2>2, <2>7, <3>1, <5>2
        <5> QED BY <5>1, <5>2
      <4> QED BY <2>4, <2>9, <3>1, <4>1
    <3>2. CASE ~ (k + 1 = 1 \/ br[k].of = b.of)
      <4>1. k # 0 /\ br[k].of # b.of BY <2>2, <3>2
      <4>2. t[k + 1] = InitMessage(y, br[k].of) BY <2>4, <3>2
      <4>3. br[k].of \in Types(C \cup {b}) /\ Y = {br[k].of} BY <2>0, <2>7, <4>1
      <4>4. C \cup {b} \in SUBSET Declared(File) BY <2>3
      <4>5. Made(t[k + 1], en, C \cup {b}, L \cup {b}, M \cup {br[k].of},
                 (Y \cup {b.of}) \ {br[k].of})
        BY <2>9, <4>2, <4>3, <4>4, Inited
      <4>6. (Y \cup {b.of}) \ {br[k].of} = {b.of} BY <4>1, <4>3
      <4> QED BY <4>3, <4>5, <4>6, MadeListed
    <3> QED BY <3>1, <3>2
  <2>11. Is(k + 1) BY <2>5, <2>6, <2>10
  <2> HIDE DEF Is
  <2> QED BY <2>2, <2>11
<1>8. Is(n)
  <2>1. \A i \in 0 .. n : i \in T
    <3> HIDE DEF T
    <3> QED BY <1>3, <1>6, <1>7, Upwards
  <2> HIDE DEF Is
  <2> QED BY <1>3, <2>1
<1>9. First(br, n) = Range(br) BY <1>0, <1>2, FirstEnds
<1>10. B \cup Range(br) \in SUBSET Declared(File) BY <1>2 DEF Range
<1> DEFINE C == B \cup Range(br)
           L == N \cup Range(br)
<1>11. Made(t[n], en, C, L, M, {br[n].of}) BY <1>3, <1>8, <1>9
<1>12. br[n].of \in Types(C) BY <1>3 DEF Types, Range
<1> HIDE DEF C, L
<1>13. Made(InitMessage(t[n], br[n].of), en, C, L, M \cup {br[n].of},
            {br[n].of} \ {br[n].of})
  BY <1>10, <1>11, <1>12, Inited DEF C
<1>14. {br[n].of} \ {br[n].of} = {} OBVIOUS
<1>15. Made(InitMessage(t[n], br[n].of), en, C, L, M, {})
  BY <1>12, <1>13, <1>14, MadeListed
<1> QED BY <1>1, <1>4, <1>15 DEF C, L

-----------------------------------------------------------------------------
\* Enums.  What one has been made of: values, of which each name has its
\* number and each number one of its names.
EnumMade(u, values) ==
  /\ \A v \in Range(values) :
       /\ SiQuery(u.name, v.ptr) = v.key
       /\ \E w \in Range(values) : w.key = v.key /\ IpQuery(u.id, v.key) = w.ptr
  /\ u.first = values[1].key

EnumsMade(en, E) ==
  /\ DOMAIN en = {d.type : d \in E}
  /\ \A d \in E : EnumMade(en[d.type], d.values)

LEMMA ValuesMade ==
  ASSUME NEW values \in Seq([key : Int, ptr : Name]), values # <<>>,
         \A i, j \in DOMAIN values : values[i].ptr = values[j].ptr => i = j,
         NEW u, u = [id |-> IpNew(values), first |-> values[1].key,
                     name |-> SiNew([i \in DOMAIN values |->
                                [key |-> values[i].ptr, ptr |-> values[i].key]])]
  PROVE  EnumMade(u, values)
<1> DEFINE n == Len(values)
           names == [i \in DOMAIN values |-> [key |-> values[i].ptr, ptr |-> values[i].key]]
<1>1. n \in Nat /\ n # 0 /\ DOMAIN values = 1 .. n OBVIOUS
<1>2. values \in [1 .. n -> [key : Int, ptr : Name]]
  <2> DEFINE P == [key : Int, ptr : Name]
  <2>1. values \in Seq(P) OBVIOUS
  <2> HIDE DEF P
  <2>2. values \in [1 .. n -> P] BY <2>1
  <2> QED BY <2>2 DEF P
<1>3. names \in [1 .. n -> [key : Name, ptr : Int]]
  <2> HIDE DEF n
  <2>1. \A i \in 1 .. n : values[i] \in [key : Int, ptr : Name] BY <1>2
  <2>2. \A i \in 1 .. n : values[i].key \in Int /\ values[i].ptr \in Name BY <2>1
  <2>3. \A i \in 1 .. n :
          [key |-> values[i].ptr, ptr |-> values[i].key] \in [key : Name, ptr : Int] BY <2>2
  <2>4. names = [i \in 1 .. n |-> [key |-> values[i].ptr, ptr |-> values[i].key]] BY <1>1
  <2> HIDE DEF names
  <2> QED BY <2>3, <2>4
<1>4. \A i \in 1 .. n : names[i].key = values[i].ptr /\ names[i].ptr = values[i].key
  BY <1>1
<1>5. u.id = IpNew(values) /\ u.first = values[1].key /\ u.name = SiNew(names) OBVIOUS
<1>6. NULL \notin Int /\ NULL \notin Name BY WrittenAssumption, HashAssumption
<1> HIDE DEF n, names
<1>7. ASSUME NEW v \in Range(values)
      PROVE  /\ SiQuery(u.name, v.ptr) = v.key
             /\ \E w \in Range(values) : w.key = v.key /\ IpQuery(u.id, v.key) = w.ptr
  <2>1. PICK i \in 1 .. n : values[i] = v BY <1>1 DEF Range
  <2>2. v.key \in Int /\ v.ptr \in Name BY <1>2, <2>1
  <2>3. SiQuery(u.name, v.ptr) = v.key
    <3>1. Tells(names, n, v.ptr, SiQuery(SiNew(names), v.ptr))
      BY <1>1, <1>3, <1>6, <2>2, NamesTell
    <3>2. names[i].key = v.ptr BY <1>4, <2>1
    <3>3. PICK j \in 1 .. n : names[j].key = v.ptr /\ names[j].ptr = SiQuery(SiNew(names), v.ptr)
      BY <3>1, <3>2 DEF Tells
    <3>4. j = i BY <1>1, <1>4, <2>1, <3>3
    <3> QED BY <1>4, <1>5, <2>1, <3>3, <3>4
  <2>4. \E w \in Range(values) : w.key = v.key /\ IpQuery(u.id, v.key) = w.ptr
    <3>1. Tells(values, n, v.key, IpQuery(IpNew(values), v.key))
      BY <1>1, <1>2, <1>6, <2>2, NumbersTell
    <3>2. PICK j \in 1 .. n : /\ values[j].key = v.key
                              /\ values[j].ptr = IpQuery(IpNew(values), v.key)
      BY <2>1, <3>1 DEF Tells
    <3>3. values[j] \in Range(values) BY <1>1 DEF Range
    <3> QED BY <1>5, <3>2, <3>3
  <2> QED BY <2>3, <2>4
<1> QED BY <1>5, <1>7 DEF EnumMade

-----------------------------------------------------------------------------
\* A set D of declarations: the fields it brings, the messages and the enums.
Bring(D) == UNION {Range(Brought(d)) : d \in D}
Messages(D) == {d.type : d \in {d \in D : d.what = "message"}}
Enums(D) == {d \in D : d.what = "enum"}

\* The types as they stand when those have been made.
Stands(e, D, N) ==
  /\ Made(e, e.enums, Bring(D), N, Messages(D), {})
  /\ EnumsMade(e.enums, Enums(D))

\* A declaration that D has not.
Unlike(d, D) ==
  /\ Fresh(Brought(d), Bring(D))
  /\ d.what = "message" => d.type \notin Messages(D)
  /\ d.what = "enum" => \A c \in Enums(D) : c.type # d.type

All(S) == UNION {Range(Decls[file]) : file \in S}

LEMMA BringAll ==
  ASSUME NEW S
  PROVE  Bring(All(S)) = Declared(S)
BY DEF Bring, All, Declared

LEMMA MadeEnums ==
  ASSUME NEW e, NEW en, NEW B, NEW N, NEW M, NEW X, Made(e, en, B, N, M, X)
  PROVE  e.enums = en
<1>1. e = [msgs |-> e.msgs, enums |-> en, queue |-> e.queue] BY DEF Made
<1> DEFINE a == e.msgs
           c == e.queue
<1> HIDE DEF a, c
<1>2. e = [msgs |-> a, enums |-> en, queue |-> c] BY <1>1 DEF a, c
<1> QED BY <1>2

\* One more is made.
LEMMA DeclareMade ==
  ASSUME NEW e, NEW D \in SUBSET All(File), NEW N, Stands(e, D, N),
         NEW d \in All(File), Unlike(d, D)
  PROVE  Stands(Declare(e, d), D \cup {d}, N \cup Range(Brought(d)))
<1> DEFINE D1 == D \cup {d}
           N1 == N \cup Range(Brought(d))
           B == Bring(D)
           B1 == B \cup Range(Brought(d))
           M == Messages(D)
           r == Declare(e, d)
<1>1. d.what \in {"message", "enum", "extend"} /\ WellFormed(d)
  BY WrittenAssumption DEF All
<1>2. Bring(D1) = B1 BY DEF Bring
<1>3. B \in SUBSET Declared(File) BY DEF Bring, All, Declared
<1>4. Made(e, e.enums, B, N, M, {}) /\ EnumsMade(e.enums, Enums(D)) BY DEF Stands
<1>5. Fresh(Brought(d), B) BY DEF Unlike
<1> HIDE DEF B, B1, N1, M, D1, r
<1>6. CASE d.what = "message"
  <2>1. d.fields \in Seq(Range(d.fields)) BY <1>1, <1>6 DEF WellFormed
  <2>2. d.type \notin M BY <1>6 DEF Unlike, M
  <2>3. Made(RegisterMessage(e, d), e.enums, B1, N1, M \cup {d.type}, {})
    BY <1>3, <1>4, <1>5, <1>6, <2>1, <2>2, MessageMade DEF B1, N1
  <2>4. r = RegisterMessage(e, d) BY <1>6 DEF Declare, r
  <2>5. Messages(D1) = M \cup {d.type} BY <1>6 DEF Messages, D1, M
  <2>6. Enums(D1) = Enums(D) BY <1>6 DEF Enums, D1
  <2>7. r.enums = e.enums BY <2>3, <2>4, MadeEnums
  <2>8. Stands(r, D1, N1) BY <1>2, <1>4, <2>3, <2>4, <2>5, <2>6, <2>7 DEF Stands
  <2> QED BY <2>8 DEF r, D1, N1
<1>7. CASE d.what = "extend"
  <2>1. d.fields # <<>> BY <1>1, <1>7 DEF WellFormed
  <2>2. Made(RegisterExtension(e, d), e.enums, B1, N1, M, {})
    BY <1>3, <1>4, <1>5, <1>7, <2>1, ExtensionMade DEF B1, N1
  <2>3. r = RegisterExtension(e, d) BY <1>7 DEF Declare, r
  <2>4. Messages(D1) = M BY <1>7 DEF Messages, D1, M
  <2>5. Enums(D1) = Enums(D) BY <1>7 DEF Enums, D1
  <2>6. r.enums = e.enums BY <2>2, <2>3, MadeEnums
  <2>7. Stands(r, D1, N1) BY <1>2, <1>4, <2>2, <2>3, <2>4, <2>5, <2>6 DEF Stands
  <2> QED BY <2>7 DEF r, D1, N1
<1>8. CASE d.what = "enum"
  <2> DEFINE u == [id |-> IpNew(d.values), first |-> d.values[1].key,
                   name |-> SiNew([i \in DOMAIN d.values |->
                              [key |-> d.values[i].ptr, ptr |-> d.values[i].key]])]
             en == Over([k \in {d.type} |-> u], e.enums)
  <2>1. Brought(d) = <<>> BY <1>8 DEF Brought
  <2>2. Range(Brought(d)) = {} BY <2>1 DEF Range
  <2>3. B1 = B /\ N1 = N BY <2>2 DEF B1, N1
  <2>4. d.type \notin DOMAIN e.enums BY <1>4, <1>8 DEF Unlike, EnumsMade
  <2>5. r = [e EXCEPT !.enums = en]
    <3>1. r = PushEnum(e, d.type, d.values) BY <1>8 DEF Declare, r
    <3> QED BY <2>4, <3>1 DEF PushEnum
  <2>6. EnumMade(u, d.values) BY <1>1, <1>8, ValuesMade DEF WellFormed
  <2> HIDE DEF u
  <2>7. /\ DOMAIN en = DOMAIN e.enums \cup {d.type} /\ en[d.type] = u
        /\ \A x \in DOMAIN e.enums : x # d.type => en[x] = e.enums[x]
    BY DEF Over
  <2> HIDE DEF en
  <2>8. e = [msgs |-> e.msgs, enums |-> e.enums, queue |-> e.queue] BY <1>4 DEF Made
  <2>9. r = [msgs |-> e.msgs, enums |-> en, queue |-> e.queue] BY <2>5, <2>8
  <2>10. r.msgs = e.msgs /\ r.enums = en /\ r.queue = e.queue BY <2>9
  <2>11. Made(r, en, B, N, M, {}) BY <1>4, <2>9, <2>10 DEF Made
  <2>12. Messages(D1) = M BY <1>8 DEF Messages, D1, M
  <2>13. Enums(D1) = Enums(D) \cup {d} BY <1>8 DEF Enums, D1
  <2>14. EnumsMade(en, Enums(D1))
    <3>1. DOMAIN en = {c.type : c \in Enums(D1)} BY <1>4, <2>7, <2>13 DEF EnumsMade
    <3>2. ASSUME NEW c \in Enums(D1) PROVE EnumMade(en[c.type], c.values)
      <4>1. CASE c = d BY <2>6, <2>7, <4>1
      <4>2. CASE c \in Enums(D)
        <5>1. c.type \in DOMAIN e.enums /\ EnumMade(e.enums[c.type], c.values)
          BY <1>4, <4>2 DEF EnumsMade
        <5>2. en[c.type] = e.enums[c.type] BY <2>4, <2>7, <5>1
        <5> QED BY <5>1, <5>2
      <4> QED BY <2>13, <4>1, <4>2
    <3> QED BY <3>1, <3>2 DEF EnumsMade
  <2>15. Stands(r, D1, N1) BY <1>2, <2>3, <2>10, <2>11, <2>12, <2>14 DEF Stands
  <2> QED BY <2>15 DEF r, D1, N1
<1> QED BY <1>1, <1>6, <1>7, <1>8

-----------------------------------------------------------------------------
\* A file: its first k declarations
Some(file, k) == {Decls[file][j] : j \in 1 .. k}

LEMMA DeclsAre ==
  ASSUME NEW file \in File
  PROVE  /\ Len(Decls[file]) \in Nat /\ DOMAIN Decls[file] = 1 .. Len(Decls[file])
         /\ \A j \in DOMAIN Decls[file] : Decls[file][j] \in All(File)
<1>1. Decls[file] \in Seq(Range(Decls[file])) BY WrittenAssumption
<1> DEFINE p == Decls[file]
<1> HIDE DEF p
<1>2. p \in Seq(Range(p)) BY <1>1 DEF p
<1>3. Len(p) \in Nat /\ DOMAIN p = 1 .. Len(p) BY <1>2
<1> QED BY <1>3 DEF p, All, Range

\* A list of fields that a declaration brings.
LEMMA BroughtIs ==
  ASSUME NEW file \in File, NEW j \in DOMAIN Decls[file]
  PROVE  Brought(Decls[file][j]) \in Seq(Declared(File))
<1> DEFINE d == Decls[file][j]
           br == Brought(d)
<1>1. d \in Range(Decls[file]) BY DEF Range
<1>2. d.what \in {"message", "enum", "extend"} /\ WellFormed(d)
  BY <1>1, WrittenAssumption
<1>3. \A x \in DOMAIN br : br[x] \in Declared(File)
  <2>1. \A x \in DOMAIN br : br[x] \in Range(Brought(d)) BY DEF Range
  <2> HIDE DEF br, d
  <2> QED BY <1>1, <2>1 DEF Declared
<1> HIDE DEF d
<1>4. \E n \in Nat : br = [x \in 1 .. n |-> br[x]]
  <2>1. CASE d.what = "message"
    <3>1. d.fields \in Seq(Range(d.fields)) BY <1>2, <2>1 DEF WellFormed
    <3>2. Len(d.fields) \in Nat /\ DOMAIN d.fields = 1 .. Len(d.fields) BY <3>1
    <3>3. br = [i \in DOMAIN d.fields |-> [of |-> d.type, field |-> d.fields[i]]]
      BY <2>1 DEF Brought
    <3> HIDE DEF br
    <3>4. br = [x \in 1 .. Len(d.fields) |-> br[x]] BY <3>2, <3>3
    <3> QED BY <3>2, <3>4
  <2>2. CASE d.what = "enum"
    <3>1. br = <<>> BY <2>2 DEF Brought
    <3>2. 0 \in Nat /\ <<>> = [x \in 1 .. 0 |-> <<>>[x]] OBVIOUS
    <3> HIDE DEF br
    <3> QED BY <3>1, <3>2
  <2>3. CASE d.what = "extend"
    <3>1. d.fields \in Seq(Range(d.fields)) BY <1>2, <2>3 DEF WellFormed
    <3>2. br = d.fields BY <2>3 DEF Brought
    <3> HIDE DEF br
    <3>3. br \in Seq(Range(d.fields)) BY <3>1, <3>2
    <3>4. Len(br) \in Nat /\ br = [x \in 1 .. Len(br) |-> br[x]] BY <3>3
    <3> QED BY <3>4
  <2> QED BY <1>2, <2>1, <2>2, <2>3
<1>5. PICK n \in Nat : br = [x \in 1 .. n |-> br[x]] BY <1>4
<1> HIDE DEF br
<1>6. DOMAIN br = 1 .. n BY <1>5
<1>7. br \in [1 .. n -> Declared(File)] BY <1>3, <1>5, <1>6
<1>8. br \in Seq(Declared(File)) BY <1>7, LenOf
<1> QED BY <1>8 DEF br, d

\* are unlike the next one and unlike those of other files.
LEMMA NextUnlike ==
  ASSUME NEW S \in SUBSET File, NEW file \in File, file \notin S,
         NEW k \in Nat, k + 1 \in DOMAIN Decls[file]
  PROVE  Unlike(Decls[file][k + 1], All(S) \cup Some(file, k))
<1> DEFINE d == Decls[file][k + 1]
           D == All(S) \cup Some(file, k)
           br == Brought(d)
<1>1. br \in Seq(Declared(File)) BY BroughtIs
<1>2. ASSUME NEW c \in D
      PROVE  \E f \in File : \E j \in DOMAIN Decls[f] : /\ c = Decls[f][j]
                                                        /\ ~ (f = file /\ j = k + 1)
  <2>1. CASE c \in All(S) BY <2>1 DEF All, Range
  <2>2. CASE c \in Some(file, k)
    <3>1. PICK j \in 1 .. k : c = Decls[file][j] BY <2>2 DEF Some
    <3>2. j # k + 1 OBVIOUS
    <3>3. j \in DOMAIN Decls[file]
      <4>1. k + 1 \in 1 .. Len(Decls[file]) /\ Len(Decls[file]) \in Nat BY DeclsAre
      <4>2. j \in 1 .. Len(Decls[file]) BY <4>1
      <4> QED BY <4>2, DeclsAre
    <3> QED BY <3>1, <3>2, <3>3
  <2> QED BY <2>1, <2>2
<1>3. \A x, y \in DOMAIN br : br[x] = br[y] => x = y
  <2> SUFFICES ASSUME NEW x \in DOMAIN br, NEW y \in DOMAIN br, br[x] = br[y] PROVE x = y
    OBVIOUS
  <2>1. SameField(Brings(file, k + 1, x), Brings(file, k + 1, y)) BY DEF Brings, SameField
  <2> QED BY <2>1, OncePlace
<1>4. ASSUME NEW x \in DOMAIN br, br[x] \in Bring(D) PROVE FALSE
  <2>1. PICK c \in D : br[x] \in Range(Brought(c)) BY <1>4 DEF Bring
  <2>2. PICK f \in File : \E j \in DOMAIN Decls[f] : c = Decls[f][j] /\ ~ (f = file /\ j = k + 1)
    BY <1>2
  <2>3. PICK j \in DOMAIN Decls[f] : c = Decls[f][j] /\ ~ (f = file /\ j = k + 1) BY <2>2
  <2>4. PICK y \in DOMAIN Brought(Decls[f][j]) : Brought(Decls[f][j])[y] = br[x]
    BY <2>1, <2>3 DEF Range
  <2>5. SameField(Brings(file, k + 1, x), Brings(f, j, y)) BY <2>4 DEF Brings, SameField
  <2>6. file = f /\ k + 1 = j BY <2>5, OncePlace
  <2> QED BY <2>3, <2>6
<1>5. Fresh(br, Bring(D)) BY <1>1, <1>3, <1>4 DEF Fresh
<1>6. ASSUME NEW c \in D, c.what = d.what, c.what # "extend", c.type = d.type PROVE FALSE
  <2>1. PICK f \in File : \E j \in DOMAIN Decls[f] : c = Decls[f][j] /\ ~ (f = file /\ j = k + 1)
    BY <1>2
  <2>2. PICK j \in DOMAIN Decls[f] : c = Decls[f][j] /\ ~ (f = file /\ j = k + 1) BY <2>1
  <2>3. SameType(Decls[f][j], Decls[file][k + 1]) BY <1>6, <2>2 DEF SameType
  <2>4. f = file /\ j = k + 1 BY <2>3, TypesAssumption
  <2> QED BY <2>2, <2>4
<1>7. d.what = "message" => d.type \notin Messages(D) BY <1>6 DEF Messages
<1>8. d.what = "enum" => \A c \in Enums(D) : c.type # d.type BY <1>6 DEF Enums
<1> QED BY <1>5, <1>7, <1>8 DEF Unlike

\* One after the other they are made, till all that the file declares is.
LEMMA FileMade ==
  ASSUME NEW S \in SUBSET File, NEW file \in File, file \notin S,
         NEW e, Stands(e, All(S), {}), NEW r, r = FoldLeft(Declare, e, Decls[file])
  PROVE  Stands(r, All(S \cup {file}), Declared({file}))
<1> DEFINE p == Decls[file]
           n == Len(p)
           A(k) == All(S) \cup Some(file, k)
           Is(t, k) == Stands(t[k], A(k), Bring(Some(file, k)))
<1>1. n \in Nat /\ DOMAIN p = 1 .. n /\ \A j \in 1 .. n : p[j] \in All(File) BY DeclsAre
<1>2. PICK t : Turns(t, "declarations", p, n, e) /\ r = t[n]
  <2> HIDE DEF p, n
  <2> QED BY <1>1, DeclarationsFold DEF p
<1> DEFINE T == {k \in 0 .. n : Is(t, k)}
<1>3. 0 \in T
  <2>1. t[0] = e BY <1>2 DEF Turns
  <2>2. Some(file, 0) = {} BY DEF Some
  <2>3. A(0) = All(S) /\ Bring(Some(file, 0)) = {} BY <2>2 DEF Bring
  <2> HIDE DEF A
  <2>4. Is(t, 0) BY <2>1, <2>3
  <2> HIDE DEF Is
  <2> QED BY <1>1, <2>4
<1>4. ASSUME NEW k \in 0 .. n, k < n, k \in T PROVE k + 1 \in T
  <2> DEFINE d == p[k + 1]
  <2>1. k \in Nat /\ k + 1 \in 1 .. n /\ k + 1 \in 0 .. n BY <1>1, <1>4
  <2>2. t[k + 1] = Declare(t[k], d) BY <1>2, <1>4 DEF Turns, Turn
  <2>3. Unlike(d, A(k)) BY <1>1, <2>1, NextUnlike
  <2>4. A(k) \in SUBSET All(File)
    <3>1. \A j \in 1 .. k : p[j] \in All(File) BY <1>1, <2>1
    <3> QED BY <3>1 DEF All, Some
  <2>5. Some(file, k + 1) = Some(file, k) \cup {d}
    <3>1. \A j \in 1 .. k + 1 : j \in 1 .. k \/ j = k + 1 BY <2>1
    <3>2. k + 1 \in 1 .. k + 1 /\ \A j \in 1 .. k : j \in 1 .. k + 1 BY <2>1
    <3> QED BY <3>1, <3>2 DEF Some
  <2>6. A(k + 1) = A(k) \cup {d} BY <2>5
  <2>7. Bring(Some(file, k + 1)) = Bring(Some(file, k)) \cup Range(Brought(d))
    BY <2>5 DEF Bring
  <2>8. d \in All(File) BY <1>1, <2>1
  <2>9. Stands(t[k], A(k), Bring(Some(file, k))) BY <1>4
  <2> HIDE DEF A, d
  <2>10. Stands(Declare(t[k], d), A(k) \cup {d}, Bring(Some(file, k)) \cup Range(Brought(d)))
    BY <2>3, <2>4, <2>8, <2>9, DeclareMade
  <2>11. Is(t, k + 1) BY <2>2, <2>6, <2>7, <2>10
  <2> HIDE DEF Is
  <2> QED BY <2>1, <2>11
<1>5. Is(t, n)
  <2>1. \A i \in 0 .. n : i \in T
    <3> HIDE DEF T
    <3> QED BY <1>1, <1>3, <1>4, Upwards
  <2> HIDE DEF Is
  <2> QED BY <1>1, <2>1
<1>6. Some(file, n) = Range(p) BY <1>1 DEF Some, Range
<1>7. A(n) = All(S \cup {file}) BY <1>6 DEF All
<1>8. Bring(Some(file, n)) = Declared({file}) BY <1>6 DEF Bring, Declared
<1> HIDE DEF A
<1> QED BY <1>2, <1>5, <1>7, <1>8

-----------------------------------------------------------------------------
\* What a field that names a type came to, when the enums E are known,
LinkedTo(is, f, E) ==
  /\ is.type = f.ref
  /\ f.kind = "enum" =>
       \E d \in E : d.type = f.ref /\ \E v \in Range(d.values) : v.key = is.def

\* for each of the fields B.
LinksMade(l, B, E) ==
  /\ DOMAIN l = {<<b.of, b.field.id>> : b \in NotPlain(B)}
  /\ \A b \in NotPlain(B) : LinkedTo(l[<<b.of, b.field.id>>], b.field, E)

\* set_field_one finds the type where the dependencies have been made.
LEMMA FieldSet ==
  ASSUME NEW S \in SUBSET File, NEW file \in File, file \in S,
         \A x \in S : Deps[x] \subseteq S,
         NEW e, NEW N, Stands(e, All(S), N), NEW b \in NotPlain(Declared({file}))
  PROVE  LinkedTo(SetField(e, b.field), b.field, Enums(All(S)))
<1> DEFINE f == b.field
           is == SetField(e, f)
<1>1. b \in Declared({file}) /\ f.kind # "plain" BY DEF NotPlain
<1>2. b \in Declared(File) BY <1>1 DEF Declared
<1>3. f.kind \in {"message", "enum"} BY <1>1, <1>2, FieldIs
<1>4. PICK x \in S : \E d \in Range(Decls[x]) : Defines(d, f) BY <1>1, RefsAssumption
<1>5. PICK d \in Range(Decls[x]) : Defines(d, f) BY <1>4
<1>6. d \in All(S) /\ d.what = f.kind /\ d.type = f.ref BY <1>5 DEF All, Defines
<1>7. WellFormed(d) BY <1>5, WrittenAssumption
<1>8. d.type # NULL BY <1>3, <1>6, <1>7 DEF WellFormed
<1>9. CASE f.kind = "message"
  <2>1. f.ref \in DOMAIN e.msgs BY <1>6, <1>9 DEF Stands, Made, Messages
  <2>2. is.type = f.ref BY <1>9, <2>1 DEF SetField
  <2> QED BY <1>9, <2>2 DEF LinkedTo
<1>10. CASE f.kind = "enum"
  <2>1. d \in Enums(All(S)) BY <1>6, <1>10 DEF Enums
  <2>2. f.ref \in DOMAIN e.enums /\ EnumMade(e.enums[f.ref], d.values)
    BY <1>6, <2>1 DEF Stands, EnumsMade
  <2>3. /\ is.type = f.ref
        /\ is.def = IF f.def = NULL THEN e.enums[f.ref].first
                    ELSE SiQuery(e.enums[f.ref].name, f.def)
    BY <1>6, <1>8, <1>10, <2>2 DEF SetField
  <2>4. \E v \in Range(d.values) : v.key = is.def
    <3>1. CASE f.def = NULL
      <4>1. is.def = d.values[1].key BY <2>2, <2>3, <3>1 DEF EnumMade
      <4>2. d.values \in Seq([key : Int, ptr : Name]) /\ d.values # <<>>
        BY <1>6, <1>7, <1>10 DEF WellFormed
      <4>3. 1 \in DOMAIN d.values BY <4>2
      <4> QED BY <4>1, <4>3 DEF Range
    <3>2. CASE f.def # NULL
      <4>1. PICK v \in Range(d.values) : v.ptr = f.def
        BY <1>5, <1>10, <3>2 DEF Defines
      <4>2. SiQuery(e.enums[f.ref].name, v.ptr) = v.key BY <2>2 DEF EnumMade
      <4> QED BY <2>3, <3>2, <4>1, <4>2
    <3> QED BY <3>1, <3>2
  <2> QED BY <1>6, <2>1, <2>3, <2>4 DEF LinkedTo
<1> QED BY <1>3, <1>9, <1>10

\* The key of a field that waits, and what the queue comes to.
KeyOf(w) == <<w[1], w[2].id>>
SetAll(e, q) == [k \in {KeyOf(q[i]) : i \in DOMAIN q} |->
  SetField(e, q[CHOOSE i \in DOMAIN q : KeyOf(q[i]) = k][2])]

WaitingOf(N) == {<<b.of, b.field>> : b \in NotPlain(N)}
AreSet(l, e, N) ==
  /\ DOMAIN l = {<<b.of, b.field.id>> : b \in NotPlain(N)}
  /\ \A b \in NotPlain(N) : l[<<b.of, b.field.id>>] = SetField(e, b.field)

\* Each of the fields that wait is set, and under a key of its own.
LEMMA QueueSet ==
  ASSUME NEW N \in SUBSET Declared(File), NEW e, NEW q \in Seq(Waiting),
         Range(q) = WaitingOf(N), NEW l, l = SetAll(e, q)
  PROVE  AreSet(l, e, N)
<1>1. ASSUME NEW i \in DOMAIN q
      PROVE  \E b \in NotPlain(N) : q[i] = <<b.of, b.field>> /\ KeyOf(q[i]) = <<b.of, b.field.id>>
  <2>1. q[i] \in Range(q) BY DEF Range
  <2>2. PICK b \in NotPlain(N) : q[i] = <<b.of, b.field>> BY <2>1 DEF WaitingOf
  <2> QED BY <2>2 DEF KeyOf
<1>2. ASSUME NEW b \in NotPlain(N)
      PROVE  \E i \in DOMAIN q : q[i] = <<b.of, b.field>> /\ KeyOf(q[i]) = <<b.of, b.field.id>>
  <2>1. <<b.of, b.field>> \in Range(q) BY DEF WaitingOf
  <2>2. PICK i \in DOMAIN q : q[i] = <<b.of, b.field>> BY <2>1 DEF Range
  <2> QED BY <2>2 DEF KeyOf
<1>3. DOMAIN l = {KeyOf(q[i]) : i \in DOMAIN q} BY DEF SetAll
<1>4. DOMAIN l = {<<b.of, b.field.id>> : b \in NotPlain(N)}
  <2>1. ASSUME NEW k \in DOMAIN l PROVE \E b \in NotPlain(N) : k = <<b.of, b.field.id>>
    BY <1>1, <1>3
  <2>2. ASSUME NEW b \in NotPlain(N) PROVE <<b.of, b.field.id>> \in DOMAIN l
    BY <1>2, <1>3
  <2> QED BY <2>1, <2>2
<1>5. ASSUME NEW b \in NotPlain(N)
      PROVE  l[<<b.of, b.field.id>>] = SetField(e, b.field)
  <2> DEFINE k == <<b.of, b.field.id>>
             j == CHOOSE i \in DOMAIN q : KeyOf(q[i]) = k
  <2>1. \E i \in DOMAIN q : KeyOf(q[i]) = k BY <1>2
  <2>2. j \in DOMAIN q /\ KeyOf(q[j]) = k BY <2>1
  <2>3. k \in DOMAIN l BY <1>4
  <2>4. l[k] = SetField(e, q[j][2]) BY <1>3, <2>3 DEF SetAll
  <2> HIDE DEF j
  <2>5. PICK c \in NotPlain(N) : q[j] = <<c.of, c.field>> /\ KeyOf(q[j]) = <<c.of, c.field.id>>
    BY <1>1, <2>2
  <2>6. c.of = b.of /\ c.field.id = b.field.id BY <2>2, <2>5
  <2>7. c \in Declared(File) /\ b \in Declared(File) BY DEF NotPlain
  <2>8. c = b BY <2>6, <2>7, Once DEF SameField
  <2>9. q[j][2] = b.field BY <2>5, <2>8
  <2> QED BY <2>4, <2>9
<1> QED BY <1>4, <1>5 DEF AreSet

\* The links of a file are put over those that there are.
LEMMA LinksMore ==
  ASSUME NEW B \in SUBSET Declared(File), NEW N \in SUBSET Declared(File),
         NEW E, NEW E1, E \subseteq E1, NEW old, LinksMade(old, B, E),
         NEW new, LinksMade(new, N, E1)
  PROVE  LinksMade(Over(new, old), B \cup N, E1)
<1> DEFINE l == Over(new, old)
<1>1. /\ DOMAIN l = DOMAIN new \cup DOMAIN old
      /\ \A k \in DOMAIN l : l[k] = IF k \in DOMAIN new THEN new[k] ELSE old[k]
  BY DEF Over
<1> HIDE DEF l
<1>2. NotPlain(B \cup N) = NotPlain(B) \cup NotPlain(N) BY DEF NotPlain
<1>3. DOMAIN l = {<<b.of, b.field.id>> : b \in NotPlain(B \cup N)}
  BY <1>1, <1>2 DEF LinksMade
<1>4. ASSUME NEW b \in NotPlain(B \cup N)
      PROVE  LinkedTo(l[<<b.of, b.field.id>>], b.field, E1)
  <2> DEFINE k == <<b.of, b.field.id>>
  <2>1. k \in DOMAIN l BY <1>3
  <2>2. CASE k \in DOMAIN new
    <3>1. PICK c \in NotPlain(N) : k = <<c.of, c.field.id>> BY <2>2 DEF LinksMade
    <3>2. c \in Declared(File) /\ b \in Declared(File) BY DEF NotPlain
    <3>3. c.of = b.of /\ c.field.id = b.field.id BY <3>1
    <3>4. c = b BY <3>2, <3>3, Once DEF SameField
    <3>5. LinkedTo(new[k], b.field, E1) BY <3>4 DEF LinksMade
    <3> QED BY <1>1, <2>1, <2>2, <3>5
  <2>3. CASE k \notin DOMAIN new
    <3>1. b \notin NotPlain(N) BY <2>3 DEF LinksMade
    <3>2. b \in NotPlain(B) BY <1>2, <3>1
    <3>3. LinkedTo(old[k], b.field, E) BY <3>2 DEF LinksMade
    <3>4. l[k] = old[k] BY <1>1, <2>1, <2>3
    <3> QED BY <3>3, <3>4 DEF LinkedTo
  <2> QED BY <2>2, <2>3
<1> QED BY <1>3, <1>4 DEF LinksMade, l

-----------------------------------------------------------------------------
\* The registered files have their dependencies with them; the types are
\* those that they declare, and so are the links.
TypesNow == [msgs |-> msgs, enums |-> enums, queue |-> <<>>]
Known ==
  /\ files \in SUBSET File
  /\ \A x \in files : Deps[x] \subseteq files
  /\ Stands(TypesNow, All(files), {})
  /\ LinksMade(link, Declared(files), Enums(All(files)))

\* Between calls nothing is counted.
AtRest ==
  /\ at = 0 => found = 0 /\ before = 0
  /\ result \in {"none", "ok", "empty", "dependency"}

LEMMA InitKnown == Init => Known /\ AtRest
<1> SUFFICES ASSUME Init PROVE Known /\ AtRest OBVIOUS
<1>1. /\ files = {} /\ msgs = <<>> /\ enums = <<>> /\ link = <<>>
      /\ at = 0 /\ found = 0 /\ before = 0 /\ result = "none"
  BY DEF Init
<1>2. All(files) = {} /\ Declared(files) = {} BY <1>1 DEF All, Declared
<1>3. Bring({}) = {} /\ Messages({}) = {} /\ Enums({}) = {} /\ NotPlain({}) = {}
      /\ Types({}) = {}
  BY DEF Bring, Messages, Enums, NotPlain, Types
<1>4. DOMAIN <<>> = {} /\ <<>> \in Seq(Waiting) /\ Range(<<>>) = {} BY DEF Range
<1>5. Made(TypesNow, TypesNow.enums, {}, {}, {}, {})
  BY <1>1, <1>3, <1>4 DEF Made, TypesNow
<1>6. EnumsMade(TypesNow.enums, {}) BY <1>1, <1>4 DEF EnumsMade, TypesNow
<1>7. Stands(TypesNow, All(files), {}) BY <1>2, <1>3, <1>5, <1>6 DEF Stands
<1>8. LinksMade(link, Declared(files), Enums(All(files)))
  BY <1>1, <1>2, <1>3, <1>4 DEF LinksMade
<1> QED BY <1>1, <1>7, <1>8 DEF Known, AtRest

\* What the end of the file makes of the queue is there for no later one.
LEMMA QueueLeft ==
  ASSUME NEW e, NEW D, NEW N, Stands(e, D, N)
  PROVE  Stands([msgs |-> e.msgs, enums |-> e.enums, queue |-> <<>>], D, {})
<1> DEFINE r == [msgs |-> e.msgs, enums |-> e.enums, queue |-> <<>>]
<1>1. r.msgs = e.msgs /\ r.enums = e.enums /\ r.queue = <<>> OBVIOUS
<1>2. r = [msgs |-> r.msgs, enums |-> r.enums, queue |-> r.queue] OBVIOUS
<1>3. <<>> \in Seq(Waiting) /\ Range(<<>>) = {} /\ NotPlain({}) = {}
  BY DEF Range, NotPlain
<1> HIDE DEF r
<1>4. Made(r, r.enums, Bring(D), {}, Messages(D), {})
  BY <1>1, <1>2, <1>3 DEF Stands, Made
<1>5. EnumsMade(r.enums, Enums(D)) BY <1>1 DEF Stands
<1> QED BY <1>4, <1>5 DEF Stands, r

\* A file is registered with all that it declares.
LEMMA RegisterKnown == Places /\ Known /\ Register => Known'
<1> SUFFICES ASSUME Places, Known, Register PROVE Known' OBVIOUS
<1> DEFINE file == todo[at]
           S == files \cup {file}
           e == FoldLeft(Declare, TypesNow, Decls[file])
           q == e.queue
           new == SetAll(e, q)
           N == Declared({file})
<1>1. /\ at \in DOMAIN todo /\ file # NULL /\ file \notin files
      /\ Deps[file] \ files = {}
      /\ msgs' = e.msgs /\ enums' = e.enums /\ link' = Over(new, link)
      /\ files' = S
  BY DEF Register, InPass, Exists, Misses, TypesNow, KeyOf, SetAll
<1>2. file \in File BY <1>1 DEF Places
<1>3. files \in SUBSET File /\ (\A x \in files : Deps[x] \subseteq files) BY DEF Known
<1>4. S \in SUBSET File /\ file \in S /\ \A x \in S : Deps[x] \subseteq S
  BY <1>1, <1>2, <1>3
<1>5. Stands(TypesNow, All(files), {}) BY DEF Known
<1>6. N \in SUBSET Declared(File) /\ Declared(files) \in SUBSET Declared(File)
      /\ Declared(S) = Declared(files) \cup N
  BY <1>2, <1>3 DEF Declared
<1>7. Enums(All(files)) \subseteq Enums(All(S)) BY DEF All, Enums
<1>8. LinksMade(link, Declared(files), Enums(All(files))) BY DEF Known
<1>9. new = SetAll(e, q) OBVIOUS
<1>11. e = FoldLeft(Declare, TypesNow, Decls[file]) /\ q = e.queue OBVIOUS
<1> HIDE DEF e, q, new, N, S, file
<1>12. Stands(e, All(S), N)
  <2>1. Stands(e, All(files \cup {file}), Declared({file}))
    BY <1>1, <1>2, <1>3, <1>5, <1>11, FileMade
  <2> QED BY <2>1 DEF S, N
<1>13. q \in Seq(Waiting) /\ Range(q) = WaitingOf(N)
  BY <1>11, <1>12 DEF Stands, Made, WaitingOf
<1>14. AreSet(new, e, N)
  BY <1>6, <1>9, <1>13, QueueSet
<1>15. \A b \in NotPlain(N) : LinkedTo(SetField(e, b.field), b.field, Enums(All(S)))
  BY <1>2, <1>4, <1>12, FieldSet DEF N
<1>16. LinksMade(new, N, Enums(All(S))) BY <1>14, <1>15 DEF LinksMade, AreSet
<1>17. LinksMade(link', Declared(S), Enums(All(S)))
  BY <1>1, <1>6, <1>7, <1>8, <1>16, LinksMore
<1>18. Stands(TypesNow', All(S), {})
  <2>1. TypesNow' = [msgs |-> e.msgs, enums |-> e.enums, queue |-> <<>>]
    BY <1>1 DEF TypesNow
  <2> QED BY <1>12, <2>1, QueueLeft
<1>19. files' \in SUBSET File /\ \A x \in files' : Deps[x] \subseteq files'
  BY <1>1, <1>4
<1> QED BY <1>1, <1>17, <1>18, <1>19 DEF Known

\* No other step touches what is known.
LEMMA OthersKnow ==
  ASSUME Known, UNCHANGED <<files, msgs, enums, link>>
  PROVE  Known'
BY DEF Known, TypesNow

LEMMA NextKnows == IInv /\ Known /\ AtRest /\ [Next]_vars => Known' /\ AtRest'
<1> SUFFICES ASSUME IInv, Known, AtRest, [Next]_vars PROVE Known' /\ AtRest' OBVIOUS
<1>0. Places /\ Counted BY DEF IInv
<1>1. CASE Call
  <2>1. UNCHANGED <<files, msgs, enums, link>> BY <1>1 DEF Call
  <2>2. AtRest' BY <1>1 DEF Call, AtRest
  <2> QED BY <2>1, <2>2, OthersKnow
<1>2. CASE Pass
  <2>1. UNCHANGED <<files, msgs, enums, link>> /\ at' = at + 1 /\ result' = result
    BY <1>2 DEF Pass
  <2>2. AtRest' BY <1>0, <2>1 DEF AtRest, Places
  <2> QED BY <2>1, <2>2, OthersKnow
<1>3. CASE Miss
  <2>1. UNCHANGED <<files, msgs, enums, link>> /\ at' = at + 1 /\ result' = result
    BY <1>3 DEF Miss
  <2>2. AtRest' BY <1>0, <2>1 DEF AtRest, Places
  <2> QED BY <2>1, <2>2, OthersKnow
<1>4. CASE Register
  <2>1. at' = at + 1 /\ result' = result BY <1>4 DEF Register
  <2>2. AtRest' BY <1>0, <2>1 DEF AtRest, Places
  <2> QED BY <1>0, <1>4, <2>2, RegisterKnown
<1>5. CASE Finish
  <2>1. UNCHANGED <<files, msgs, enums, link>> BY <1>5 DEF Finish
  <2>2. AtRest' BY <1>5 DEF Finish, AtRest
  <2> QED BY <2>1, <2>2, OthersKnow
<1>6. CASE UNCHANGED vars
  <2>1. UNCHANGED <<files, msgs, enums, link>> /\ UNCHANGED <<at, found, before, result>>
    BY <1>6 DEF vars
  <2> QED BY <2>1, OthersKnow DEF AtRest
<1> QED BY <1>1, <1>2, <1>3, <1>4, <1>5, <1>6 DEF Next

\* In every reachable state the types are as the registered files declare.
LEMMA Knowing == Spec => [](IInv /\ Known /\ AtRest)
<1>1. Init => IInv /\ Known /\ AtRest BY InitCounts, InitKnown
<1>2. (IInv /\ Known /\ AtRest) /\ [Next]_vars => (IInv /\ Known /\ AtRest)'
  BY NextCounts, NextKnows
<1> QED BY <1>1, <1>2, PTL DEF Spec

-----------------------------------------------------------------------------
\* What is known of a type, in the words of the properties.
LEMMA TypeKnown ==
  ASSUME Known
  PROVE  /\ \A type : Fields(type) = Of(Declared(files), type)
         /\ Declared(files) \in SUBSET Declared(File)
         /\ Types(Declared(files)) \subseteq DOMAIN msgs
         /\ \A type \in DOMAIN msgs :
              Typed(msgs[type], Of(Declared(files), type), TRUE)
<1>1. \A type : Fields(type) = Of(Declared(files), type) BY DEF Fields, Of
<1>2. Declared(files) \in SUBSET Declared(File) BY DEF Known, Declared
<1>3. Made(TypesNow, TypesNow.enums, Declared(files), {}, Messages(All(files)), {})
  BY BringAll DEF Known, Stands
<1>4. TypesNow.msgs = msgs BY DEF TypesNow
<1>5. /\ DOMAIN msgs = Messages(All(files)) \cup Types(Declared(files))
      /\ \A type \in DOMAIN msgs :
           Typed(msgs[type], Of(Declared(files), type), type \notin {})
  BY <1>3, <1>4 DEF Made
<1>6. ASSUME NEW type \in DOMAIN msgs
      PROVE  Typed(msgs[type], Of(Declared(files), type), TRUE)
  <2>1. (type \notin {}) = TRUE OBVIOUS
  <2> QED BY <1>5, <2>1
<1> QED BY <1>1, <1>2, <1>5, <1>6

LEMMA EnumKnown ==
  ASSUME Known, NEW d \in Enums(All(files))
  PROVE  EnumMade(enums[d.type], d.values) /\ \A v \in Range(d.values) : v.ptr \in Name
<1>1. TypesNow.enums = enums BY DEF TypesNow
<1>2. EnumsMade(enums, Enums(All(files))) BY <1>1 DEF Known, Stands
<1>3. EnumMade(enums[d.type], d.values) BY <1>2 DEF EnumsMade
<1>4. d.what = "enum" /\ d \in All(files) BY DEF Enums
<1>5. PICK file \in File : d \in Range(Decls[file]) BY <1>4 DEF All, Known
<1>6. WellFormed(d) BY <1>5, WrittenAssumption
<1>7. d.values \in Seq([key : Int, ptr : Name]) BY <1>4, <1>6 DEF WellFormed
<1>8. \A i \in DOMAIN d.values : d.values[i] \in [key : Int, ptr : Name]
  <2> DEFINE P == [key : Int, ptr : Name]
             q == d.values
  <2>1. q \in Seq(P) BY <1>7
  <2> HIDE DEF P, q
  <2>2. \A i \in DOMAIN q : q[i] \in P BY <2>1
  <2> QED BY <2>2 DEF P, q
<1>9. \A v \in Range(d.values) : v \in [key : Int, ptr : Name] BY <1>8 DEF Range
<1> QED BY <1>3, <1>9

LEMMA KnownTypes ==
  ASSUME IInv, Known, AtRest
  PROVE  TypeOK
<1>1. files \subseteq File BY DEF Known
<1>2. at \in 0 .. Len(todo) + 1 /\ found \in Nat /\ before \in Nat /\ Len(todo) \in Nat
  BY DEF IInv, Places
<1>3. found <= before /\ before <= Len(todo)
  <2>1. CASE at = 0 BY <1>2, <2>1 DEF AtRest
  <2>2. CASE at # 0
    <3>1. found + Cardinality(Ahead) <= before /\ before <= Len(todo)
      BY <2>2 DEF IInv, Counted
    <3>2. Cardinality(Ahead) \in Nat BY LeftFinite DEF IInv
    <3> QED BY <1>2, <3>1, <3>2
  <2> QED BY <2>1, <2>2
<1>4. result \in {"none", "ok", "empty", "dependency"} BY DEF AtRest
<1> DEFINE keys == UNION {
      {<<type, f.id>> : f \in {f \in Fields(type) : f.kind # "plain"}} : type \in DOMAIN msgs}
<1>5. DOMAIN link = keys
  <2>1. DOMAIN link = {<<b.of, b.field.id>> : b \in NotPlain(Declared(files))}
    BY DEF Known, LinksMade
  <2>2. ASSUME NEW k \in DOMAIN link PROVE k \in keys
    <3>1. PICK b \in NotPlain(Declared(files)) : k = <<b.of, b.field.id>> BY <2>1
    <3>2. b \in Declared(files) /\ b.field.kind # "plain" BY DEF NotPlain
    <3>3. b.of \in DOMAIN msgs BY <3>2, TypeKnown DEF Types
    <3>4. b.field \in Fields(b.of) BY <3>2 DEF Fields
    <3> QED BY <3>1, <3>2, <3>3, <3>4
  <2>3. ASSUME NEW k \in keys PROVE k \in DOMAIN link
    <3>1. PICK type \in DOMAIN msgs : \E f \in Fields(type) : f.kind # "plain" /\ k = <<type, f.id>>
      BY <2>3
    <3>2. PICK f \in Fields(type) : f.kind # "plain" /\ k = <<type, f.id>> BY <3>1
    <3>3. PICK b \in Declared(files) : b.of = type /\ b.field = f BY DEF Fields
    <3>4. b \in NotPlain(Declared(files)) BY <3>2, <3>3 DEF NotPlain
    <3> QED BY <2>1, <3>2, <3>3, <3>4
  <2> QED BY <2>2, <2>3
<1> QED BY <1>1, <1>2, <1>3, <1>4, <1>5 DEF TypeOK

\* IndexSound: in every state, whichever files have come in whatever order and
\* whatever calls have failed, a field of a registered type, its own or one
\* that a later file added from outside, is found by its number, and by its
\* name a field of that name; nothing is found under a number that the type
\* has not: what encode and decode look up (proto.c, map.c).
THEOREM IndexIsSound == Spec => []IndexSound
<1>1. IInv /\ Known /\ AtRest => IndexSound
  <2> SUFFICES ASSUME IInv, Known, AtRest PROVE IndexSound OBVIOUS
  <2>1. ASSUME NEW type \in DOMAIN msgs
        PROVE  /\ \A f \in Fields(type) :
                    /\ IpQuery(msgs[type].id, f.id) = f
                    /\ Query(msgs[type].name, f.name)
                         \in {g \in Fields(type) : g.name = f.name}
               /\ \A n \in {0} \cup Numbers :
                    (\A f \in Fields(type) : f.id # n) => IpQuery(msgs[type].id, n) = NULL
    <3> DEFINE F == Of(Declared(files), type)
               t == msgs[type]
    <3>1. Fields(type) = F /\ Typed(t, F, TRUE) BY TypeKnown
    <3>2. F \in SUBSET Every BY TypeKnown, OfIs
    <3>3. \A f \in F : f.id \in Int BY <3>2, EveryIs
    <3>4. \A n \in Numbers : n \in Int
      <4> SUFFICES ASSUME NEW n \in Numbers PROVE n \in Int OBVIOUS
      <4>1. PICK b \in Declared(files) : b.field.id = n BY DEF Numbers, Fields
      <4>2. b \in Declared(File) BY TypeKnown
      <4> QED BY <4>1, <4>2, FieldIs
    <3>5. 0 \in Int OBVIOUS
    <3> HIDE DEF F, t
    <3>6. Named(t.name, F) /\ Numbered(t.id, F) BY <3>1 DEF Typed
    <3>7. \A f \in F : Query(t.name, f.name) \in {g \in F : g.name = f.name}
      BY <3>2, <3>6, NamedQuery
    <3>8. \A f \in F : IpQuery(t.id, f.id) = f BY <3>3, <3>6 DEF Numbered
    <3>9. \A n \in {0} \cup Numbers : (\A f \in F : f.id # n) => IpQuery(t.id, n) = NULL
      BY <3>4, <3>5, <3>6 DEF Numbered
    <3> QED BY <3>1, <3>7, <3>8, <3>9 DEF t
  <2> QED BY <2>1, KnownTypes DEF IndexSound
<1> QED BY <1>1, Knowing, PTL

\* EnumsSound: in every state a name of a registered enum has its number, and
\* a number of it a name with that number, also when several names share one
\* and when numbers are negative (_pbcP_push_enum, proto.c).
THEOREM EnumsAreSound == Spec => []EnumsSound
<1>1. Known => EnumsSound
  <2> SUFFICES ASSUME Known, NEW file \in files, NEW d \in Range(Decls[file]),
                      d.what = "enum", NEW v \in Range(d.values)
               PROVE  /\ SiQuery(enums[d.type].name, v.ptr) = v.key
                      /\ \E w \in Range(d.values) :
                           w.ptr = IpQuery(enums[d.type].id, v.key) /\ w.key = v.key
    BY DEF EnumsSound
  <2>1. d \in Enums(All(files)) BY DEF Enums, All
  <2>2. EnumMade(enums[d.type], d.values) BY <2>1, EnumKnown
  <2> QED BY <2>2 DEF EnumMade
<1> QED BY <1>1, Knowing, PTL

\* Linked: in every state each field of a registered type that names a type is
\* linked to that type, and an absent enum stands for a value that its enum
\* has (set_field_one, bootstrap.c), in whatever order the files came.
THEOREM AllAreLinked == Spec => []Linked
<1>1. Known => Linked
  <2> SUFFICES ASSUME Known, NEW type \in DOMAIN msgs, NEW f \in Fields(type),
                      f.kind # "plain"
               PROVE  /\ link[<<type, f.id>>].type = f.ref
                      /\ f.kind = "enum" =>
                           IpQuery(enums[f.ref].id, link[<<type, f.id>>].def) # NULL
    BY DEF Linked
  <2> DEFINE is == link[<<type, f.id>>]
  <2>1. PICK b \in Declared(files) : b.of = type /\ b.field = f BY DEF Fields
  <2>2. b \in NotPlain(Declared(files)) BY <2>1 DEF NotPlain
  <2>3. LinkedTo(is, f, Enums(All(files))) BY <2>1, <2>2 DEF Known, LinksMade
  <2> HIDE DEF is
  <2>4. ASSUME f.kind = "enum" PROVE IpQuery(enums[f.ref].id, is.def) # NULL
    <3>1. PICK d \in Enums(All(files)) :
            d.type = f.ref /\ \E v \in Range(d.values) : v.key = is.def
      BY <2>3, <2>4 DEF LinkedTo
    <3>2. PICK v \in Range(d.values) : v.key = is.def BY <3>1
    <3>3. EnumMade(enums[f.ref], d.values) /\ \A w \in Range(d.values) : w.ptr \in Name
      BY <3>1, EnumKnown
    <3>4. PICK w \in Range(d.values) : IpQuery(enums[f.ref].id, v.key) = w.ptr
      BY <3>3 DEF EnumMade
    <3>5. NULL \notin Name BY HashAssumption
    <3> QED BY <3>2, <3>3, <3>4, <3>5
  <2> QED BY <2>3, <2>4 DEF LinkedTo, is
<1> QED BY <1>1, Knowing, PTL
=============================================================================
