---------------------------- MODULE DbSyncProofs ----------------------------
(***************************************************************************)
(* Proofs about DbSync: every statement is executed once.  A statement is  *)
(* in one of three places: on its way, in the table, or executed.  That    *)
(* the places exclude each other is not inductive by itself, because the   *)
(* table still has the statement whose execution is just returning; the    *)
(* invariant says which entry that may be, and that the loop variable      *)
(* keeps pointing at it whatever is inserted meanwhile.                    *)
(***************************************************************************)
EXTENDS DbSync, FiniteSetTheorems, SequenceTheorems, TLAPS

Executed == ToSet(executed)

\* The loop variable is a key of the table while a statement is executed, and
\* after an error for good.
KeyThere == pc # "sleep" => key \in Keys

\* What is on its way is there once, is new to the table and not executed.
SentOnce == \A s \in sending :
  /\ s.n <= changes
  /\ s.n \notin Executed
  /\ \A k \in Keys : queue[k].n # s.n
  /\ \A t \in sending : t.n = s.n => t = s

\* The table has a statement once, and one that was executed only under the
\* key whose execution returns next, or failed.
TableOnce == \A k \in Keys :
  /\ queue[k].n <= changes
  /\ \A j \in Keys : queue[j].n = queue[k].n => j = k
  /\ queue[k].n \in Executed => k = key /\ pc \in {"done", "dead"}

DoneOnce ==
  /\ \A n \in Executed : n <= changes
  /\ IsInjective(executed)
  /\ pc = "done" => queue[key].n \in Executed

Sent(n) == \E s \in sending : s.n = n
Queued(n) == \E k \in Keys : queue[k].n = n

NoneLost == \A n \in 1 .. changes : n \in Executed \/ Sent(n) \/ Queued(n)

IInv == TypeOK /\ KeyThere /\ SentOnce /\ TableOnce /\ DoneOnce /\ NoneLost

----------------------------------------------------------------------------
\* What is in a sequence that got one more element at its end.
LEMMA Appended ==
  ASSUME NEW S, NEW s \in Seq(S), NEW e \in S
  PROVE  /\ Append(s, e) \in Seq(S)
         /\ DOMAIN Append(s, e) = DOMAIN s \cup {Len(s) + 1}
         /\ Len(s) + 1 \notin DOMAIN s
         /\ \A i \in DOMAIN s : Append(s, e)[i] = s[i]
         /\ Append(s, e)[Len(s) + 1] = e
  OBVIOUS

\* The same of a function on the first numbers.
LEMMA Longer ==
  ASSUME NEW S, NEW m \in Nat, NEW f \in [1 .. m -> S], NEW e \in S
  PROVE  /\ Append(f, e) \in [1 .. m + 1 -> S]
         /\ Append(f, e)[m + 1] = e
         /\ \A i \in 1 .. m : Append(f, e)[i] = f[i]
<1>1. f \in Seq(S) /\ Len(f) = m /\ DOMAIN f = 1 .. m
  OBVIOUS
<1>2. ASSUME NEW g \in Seq(S), DOMAIN g = 1 .. m + 1 PROVE g \in [1 .. m + 1 -> S]
  BY <1>2
<1>3. Append(f, e) \in Seq(S) /\ DOMAIN Append(f, e) = (1 .. m) \cup {m + 1}
  BY <1>1, Appended
<1>4. Append(f, e) \in [1 .. m + 1 -> S]
  <2>1. (1 .. m) \cup {m + 1} = 1 .. m + 1
    OBVIOUS
  <2>2. DOMAIN Append(f, e) = 1 .. m + 1
    BY <1>3, <2>1, Zenon
  <2>. QED  BY <1>2, <1>3, <2>2
<1>. QED  BY <1>1, <1>4, Appended

\* What a sequence holds is of the set it is over.
LEMMA Elements ==
  ASSUME NEW S, NEW s \in Seq(S)
  PROVE  \A i \in DOMAIN s : s[i] \in S
  OBVIOUS

\* What the places hold are statements, with numbers.
LEMMA Numbers ==
  ASSUME TypeOK
  PROVE  /\ changes \in Nat
         /\ \A k \in Keys : queue[k].n \in 1 .. MaxChange /\ queue[k].row \in Row
         /\ \A s \in sending : s.n \in 1 .. MaxChange
         /\ \A n \in Executed : n \in 1 .. MaxChange
<1>1. changes \in Nat
  BY DEF TypeOK, Value
<1>2. \A k \in Keys : queue[k].n \in 1 .. MaxChange /\ queue[k].row \in Row
  BY DEF TypeOK, Statement
<1>3. \A s \in sending : s.n \in 1 .. MaxChange
  BY DEF TypeOK, Statement
<1>4. \A n \in Executed : n \in 1 .. MaxChange
  <2>1. executed \in Seq(1 .. MaxChange)
    BY DEF TypeOK
  <2>2. \A i \in DOMAIN executed : executed[i] \in 1 .. MaxChange
    BY <2>1, Elements
  <2>. QED  BY <2>2 DEF Executed, ToSet
<1>. QED  BY <1>1, <1>2, <1>3, <1>4

\* What a statement leaves is a value.
LEMMA EffectTyped ==
  ASSUME NEW s \in Statement, NEW v \in Value
  PROVE  Effect(s, v) \in Value
<1>1. s.n \in Value /\ Absent \in Value /\ s.kind \in Kind
  BY DbSyncAssumption DEF Statement, Value, Absent
<1>. QED  BY <1>1 DEF Effect, Kind

\* The statement that is executed joins those that were.
LEMMA ExecutedGrows ==
  ASSUME executed \in Seq(1 .. MaxChange), NEW n \in 1 .. MaxChange,
         executed' = Append(executed, n)
  PROVE  /\ Executed' = Executed \cup {n}
         /\ n \notin Executed /\ IsInjective(executed) => IsInjective(executed)'
<1>1. /\ DOMAIN executed' = DOMAIN executed \cup {Len(executed) + 1}
      /\ \A i \in DOMAIN executed : executed'[i] = executed[i]
      /\ executed'[Len(executed) + 1] = n
  BY Appended
<1>2. Executed' = Executed \cup {n}
  BY <1>1 DEF Executed, ToSet
<1>3. ASSUME n \notin Executed, IsInjective(executed) PROVE IsInjective(executed)'
  <2>1. \A i \in DOMAIN executed : executed[i] # n
    BY <1>3 DEF Executed, ToSet
  <2>. QED  BY <1>1, <1>3, <2>1 DEF IsInjective
<1>. QED  BY <1>2, <1>3

----------------------------------------------------------------------------
LEMMA InitIInv == Init => IInv
<1>. SUFFICES ASSUME Init PROVE IInv
  OBVIOUS
<1>1. Keys = {} /\ IsFiniteSet(Keys)
  BY FS_EmptySet DEF Init, Keys
<1>2. sending = {}
  BY DEF Init
<1>3. Executed = {} /\ executed \in Seq(1 .. MaxChange) /\ IsInjective(executed)
  BY DEF Init, Executed, ToSet, IsInjective
<1>4. TypeOK
  <2>1. redis \in [Row -> Value] /\ mysql \in [Row -> Value]
    BY DbSyncAssumption DEF Init, Value, Absent
  <2>2. /\ changes \in Value
        /\ about \in [1 .. changes -> Row] /\ found \in [1 .. changes -> Value]
    BY DbSyncAssumption DEF Init, Value
  <2>3. due \in [Row -> Value] /\ stray \subseteq Row /\ sending \subseteq Statement
    BY <2>1 DEF Init
  <2>4. grown \in BOOLEAN
    BY DEF Init
  <2>5. pc = "sleep" /\ key = 0 /\ index = 2 /\ reads = 0
    BY DEF Init, NoKey
  <2>. QED
    BY <1>1, <1>3, <2>1, <2>2, <2>3, <2>4, <2>5, DbSyncAssumption DEF TypeOK
<1>. QED
  BY <1>1, <1>2, <1>3, <1>4
  DEF Init, IInv, KeyThere, SentOnce, TableOnce, DoneOnce, NoneLost

\* dbmgr changes a row: the new statement has a number that none has yet.
LEMMA ChangeIInv ==
  ASSUME IInv, NEW kind \in Kind, NEW r \in Row, Change(kind, r)
  PROVE  IInv'
<1>. DEFINE s == [n |-> changes + 1, kind |-> kind, row |-> r]
<1>. USE DEF IInv
<1>1. changes \in Nat /\ changes + 1 \in 1 .. MaxChange /\ changes' = changes + 1
  BY DbSyncAssumption DEF TypeOK, Value, Change
<1>2. s \in Statement /\ s.n = changes + 1
  BY <1>1 DEF Statement
<1>3. sending' = sending \cup {s}
  BY DEF Change
<1>4. UNCHANGED <<queue, Keys, pc, key, executed, Executed, grown, mysql, index, reads>>
  BY DEF Change, Keys, Executed, syncer, pool
<1>5. TypeOK'
  <2>1. redis' \in [Row -> Value]
    <3>. DEFINE v == IF kind = "delete" THEN Absent ELSE changes + 1
    <3>1. v \in Value
      BY <1>1, DbSyncAssumption DEF Value, Absent
    <3>2. redis' = [redis EXCEPT ![r] = v] /\ redis \in [Row -> Value]
      BY DEF TypeOK, Change
    <3>. QED  BY <3>1, <3>2
  <2>2. due \in [Row -> Value] /\ due' \in [Row -> Value]
    <3>1. due \in [Row -> Value] /\ due' = [due EXCEPT ![r] = Effect(s, @)]
      BY DEF TypeOK, Change
    <3>. HIDE DEF s
    <3>2. Effect(s, due[r]) \in Value
      BY <1>2, <3>1, EffectTyped
    <3>. QED  BY <3>1, <3>2
  <2>3. about' \in [1 .. changes' -> Row] /\ found' \in [1 .. changes' -> Value]
    <3>1. /\ about \in [1 .. changes -> Row] /\ about' = Append(about, r)
          /\ found \in [1 .. changes -> Value] /\ found' = Append(found, due[r])
      BY DEF TypeOK, Change
    <3>. QED  BY <1>1, <2>2, <3>1, Longer
  <2>4. changes' \in Value /\ stray' \subseteq Row /\ sending' \subseteq Statement
    BY <1>1, <1>2, <1>3, DbSyncAssumption DEF Value, TypeOK, Change
  <2>. QED  BY <1>4, <2>1, <2>2, <2>3, <2>4 DEF TypeOK
<1>6. /\ \A n \in Executed : n # changes + 1
      /\ \A k \in Keys : queue[k].n # changes + 1
      /\ \A t \in sending : t.n # changes + 1
  BY <1>1, Numbers DEF DoneOnce, TableOnce, SentOnce
<1>. HIDE DEF s
<1>7. SentOnce'
  BY <1>1, <1>2, <1>3, <1>4, <1>6, Numbers DEF SentOnce
<1>8. NoneLost'
  BY <1>1, <1>2, <1>3, <1>4 DEF NoneLost, Sent, Queued
<1>9. KeyThere' /\ TableOnce' /\ DoneOnce'
  BY <1>1, <1>4, Numbers DEF KeyThere, TableOnce, DoneOnce
<1>. QED  BY <1>5, <1>7, <1>8, <1>9

\* dbsync takes a statement into the table, under a key that nothing has.
LEMMA SyncIInv ==
  ASSUME IInv, NEW r \in Row, Sync(r)
  PROVE  IInv'
<1>. USE DEF IInv
<1>1. PICK s \in sending, b \in Nat :
        /\ b + 1 \notin Keys
        /\ queue' = [k \in Keys \cup {b + 1} |-> IF k = b + 1 THEN s ELSE queue[k]]
        /\ sending' = sending \ {s}
  <2>. PICK s \in sending, b \in Keys \cup 0 .. Cardinality(Keys) :
         /\ Border(b)
         /\ queue' = [k \in Keys \cup {b + 1} |-> IF k = b + 1 THEN s ELSE queue[k]]
         /\ sending' = sending \ {s}
    BY DEF Sync
  <2>1. b \in Nat
    BY DEF TypeOK
  <2>. QED  BY <2>1 DEF Border
<1>2. s \in Statement
  BY <1>1 DEF TypeOK
<1>3. /\ Keys' = Keys \cup {b + 1}
      /\ queue'[b + 1] = s
      /\ \A k \in Keys : queue'[k] = queue[k]
  BY <1>1 DEF Keys
<1>4. UNCHANGED <<redis, mysql, changes, about, found, due, stray, pc, key, executed,
                  Executed, index, reads>>
      /\ grown' = TRUE
  BY DEF Sync, Executed, issued, syncer, pool
<1>5. TypeOK'
  <2>1. Keys' \subseteq Nat \ {0} /\ IsFiniteSet(Keys')
    <3>1. Keys \subseteq Nat \ {0} /\ IsFiniteSet(Keys) /\ b + 1 \in Nat \ {0}
      BY DEF TypeOK
    <3>. QED  BY <1>3, <3>1, FS_AddElement
  <2>2. \A k \in Keys' : queue'[k] \in Statement
    BY <1>2, <1>3 DEF TypeOK
  <2>3. grown' \in BOOLEAN /\ sending' \subseteq Statement
    BY <1>1, <1>4 DEF TypeOK
  <2>. QED  BY <1>3, <1>4, <2>1, <2>2, <2>3 DEF TypeOK
<1>6. /\ s.n <= changes /\ s.n \notin Executed
      /\ \A k \in Keys : queue[k].n # s.n
      /\ \A t \in sending' : t \in sending /\ t.n # s.n
  BY <1>1 DEF SentOnce
<1>7. SentOnce'
  BY <1>3, <1>4, <1>6 DEF SentOnce
<1>8. TableOnce'
  BY <1>1, <1>3, <1>4, <1>6 DEF TableOnce
<1>9. NoneLost'
  <2>. SUFFICES ASSUME NEW n \in 1 .. changes PROVE n \in Executed \/ Sent(n)' \/ Queued(n)'
    BY <1>4 DEF NoneLost
  <2>1. ASSUME Queued(n) PROVE Queued(n)'
    BY <1>3, <2>1 DEF Queued
  <2>2. ASSUME Sent(n) PROVE Sent(n)' \/ Queued(n)'
    BY <1>1, <1>3, <2>2 DEF Sent, Queued
  <2>. QED  BY <2>1, <2>2 DEF NoneLost
<1>10. KeyThere' /\ DoneOnce'
  BY <1>1, <1>3, <1>4 DEF KeyThere, DoneOnce
<1>. QED  BY <1>5, <1>7, <1>8, <1>9, <1>10

\* A traversal begins: the loop variable is a key that the table has.
LEMMA WakeIInv ==
  ASSUME IInv, Wake
  PROVE  IInv'
<1>. USE DEF IInv
<1>1. UNCHANGED <<redis, mysql, changes, about, found, due, stray, sending, queue, Keys, executed,
                  Executed, index, reads>> /\ grown' = FALSE
  BY DEF Wake, Keys, Executed, issued, pool
<1>2. pc = "sleep"
  BY DEF Wake, Interval
<1>3. \/ key' \in Keys /\ pc' = "call"
      \/ key' = 0 /\ pc' = "sleep"
  BY DEF Wake, Follows, NoKey, Keys
<1>4. TypeOK'
  <2>1. grown' \in BOOLEAN
    BY <1>1
  <2>2. key' \in Nat
    <3>1. \A k \in Keys : k \in Nat
      BY DEF TypeOK
    <3>2. 0 \in Nat
      OBVIOUS
    <3>. QED  BY <1>3, <3>1, <3>2, Zenon
  <2>. QED  BY <1>1, <1>3, <2>1, <2>2 DEF TypeOK
<1>5. KeyThere' /\ SentOnce' /\ NoneLost'
  BY <1>1, <1>3 DEF KeyThere, SentOnce, NoneLost, Sent, Queued
<1>6. TableOnce' /\ DoneOnce'
  BY <1>1, <1>2, <1>3 DEF TableOnce, DoneOnce
<1>. QED  BY <1>4, <1>5, <1>6

\* A statement has been executed, by a connection that then returns or fails.
LEMMA ExecutedIInv ==
  ASSUME IInv, pc = "call", pc' \in {"done", "dead"},
         mysql' = Applied(queue[key]), executed' = Append(executed, queue[key].n),
         index' = NextIndex,
         UNCHANGED <<redis, issued, sending, queue, key, grown, reads>>
  PROVE  IInv'
<1>. USE DEF IInv
<1>. DEFINE n == queue[key].n
<1>1. UNCHANGED <<redis, changes, about, found, due, stray, sending, queue, Keys, key,
                  grown, reads>>
  BY DEF issued, Keys
<1>2. key \in Keys /\ n \in 1 .. MaxChange /\ n <= changes /\ queue[key].row \in Row
  BY Numbers DEF KeyThere, TableOnce
<1>3. n \notin Executed
  BY <1>2 DEF TableOnce
<1>4. Executed' = Executed \cup {n} /\ IsInjective(executed)'
  BY <1>2, <1>3, ExecutedGrows DEF TypeOK, DoneOnce
<1>5. TypeOK'
  <2>1. executed' \in Seq(1 .. MaxChange)
    BY <1>2 DEF TypeOK
  <2>2. index' \in 2 .. MaxConn
    BY DbSyncAssumption DEF TypeOK, NextIndex
  <2>3. mysql' \in [Row -> Value]
    <3>1. mysql \in [Row -> Value] /\ queue[key] \in Statement
      BY <1>2 DEF TypeOK
    <3>2. Effect(queue[key], mysql[queue[key].row]) \in Value
      BY <1>2, <3>1, EffectTyped
    <3>. QED  BY <3>1, <3>2 DEF Applied
  <2>. QED  BY <1>1, <2>1, <2>2, <2>3, <1>2 DEF TypeOK
<1>6. SentOnce'
  BY <1>1, <1>2, <1>4 DEF SentOnce
<1>7. TableOnce'
  BY <1>1, <1>2, <1>4 DEF TableOnce
<1>8. DoneOnce'
  BY <1>1, <1>2, <1>4 DEF DoneOnce
<1>9. KeyThere' /\ NoneLost'
  BY <1>1, <1>2, <1>4 DEF KeyThere, NoneLost, Sent, Queued
<1>. QED  BY <1>5, <1>6, <1>7, <1>8, <1>9

\* The call returns: what the table loses was executed.
LEMMA DoneIInv ==
  ASSUME IInv, Done
  PROVE  IInv'
<1>. USE DEF IInv
<1>1. UNCHANGED <<redis, mysql, changes, about, found, due, stray, sending, grown, executed,
                  Executed, index, reads>>
  BY DEF Done, Executed, issued, pool
<1>2. pc = "done" /\ key \in Keys /\ queue[key].n \in Executed
  BY DEF Done, KeyThere, DoneOnce
<1>3. /\ Keys' = Keys \ {key}
      /\ \A k \in Keys' : queue'[k] = queue[k]
  BY DEF Done, Cleared, Keys
<1>4. \/ key' \in Keys' /\ pc' = "call"
      \/ key' = 0 /\ pc' = "sleep"
  BY DEF Done, Follows, NoKey, Keys
<1>5. TypeOK'
  <2>1. Keys' \subseteq Nat \ {0} /\ IsFiniteSet(Keys')
    BY <1>3, FS_RemoveElement DEF TypeOK
  <2>2. key' \in Nat
    <3>1. \A k \in Keys' : k \in Nat
      BY <2>1
    <3>2. 0 \in Nat
      OBVIOUS
    <3>. QED  BY <1>4, <3>1, <3>2, Zenon
  <2>3. \A k \in Keys' : queue'[k] \in Statement
    BY <1>3 DEF TypeOK
  <2>. QED  BY <1>1, <1>4, <2>1, <2>2, <2>3 DEF TypeOK
<1>6. SentOnce' /\ KeyThere'
  BY <1>1, <1>3, <1>4 DEF SentOnce, KeyThere
<1>7. TableOnce'
  BY <1>1, <1>2, <1>3 DEF TableOnce
<1>8. DoneOnce'
  BY <1>1, <1>4 DEF DoneOnce
<1>9. NoneLost'
  BY <1>1, <1>2, <1>3 DEF NoneLost, Sent, Queued
<1>. QED  BY <1>5, <1>6, <1>7, <1>8, <1>9

\* The connection fails before the statement was executed, or after it.
LEMMA FailIInv ==
  ASSUME IInv, Fail
  PROVE  IInv'
<1>1. CASE mysql' = Applied(queue[key]) /\ executed' = Append(executed, queue[key].n)
  BY <1>1, ExecutedIInv DEF Fail
<1>2. CASE UNCHANGED <<mysql, executed>>
  <2>. USE DEF IInv
  <2>1. UNCHANGED <<redis, mysql, changes, about, found, due, stray, sending, queue, Keys, key, grown,
                    executed, Executed, reads>> /\ pc = "call" /\ pc' = "dead"
    BY <1>2 DEF Fail, Keys, Executed, issued
  <2>2. index' \in 2 .. MaxConn
    BY DbSyncAssumption DEF Fail, TypeOK, NextIndex
  <2>3. TypeOK'
    BY <2>1, <2>2 DEF TypeOK
  <2>4. KeyThere' /\ SentOnce' /\ TableOnce' /\ DoneOnce' /\ NoneLost'
    BY <2>1 DEF KeyThere, SentOnce, TableOnce, DoneOnce, NoneLost, Sent, Queued
  <2>. QED  BY <2>3, <2>4
<1>. QED  BY <1>1, <1>2 DEF Fail

\* A query that reads takes a connection and no more.
LEMMA ReadIInv ==
  ASSUME IInv, Read
  PROVE  IInv'
<1>. USE DEF IInv
<1>1. UNCHANGED <<redis, mysql, changes, about, found, due, stray, sending, queue, Keys, pc, key, grown,
                  executed, Executed>>
  BY DEF Read, Keys, Executed, issued, syncer
<1>2. index' \in 2 .. MaxConn /\ reads' \in 0 .. MaxRead
  BY DbSyncAssumption DEF Read, TypeOK, NextIndex
<1>3. TypeOK'
  BY <1>1, <1>2 DEF TypeOK
<1>4. KeyThere' /\ SentOnce' /\ TableOnce' /\ DoneOnce' /\ NoneLost'
  BY <1>1 DEF KeyThere, SentOnce, TableOnce, DoneOnce, NoneLost, Sent, Queued
<1>. QED  BY <1>3, <1>4

LEMMA NextIInv == IInv /\ [Next]_vars => IInv'
<1>. SUFFICES ASSUME IInv, [Next]_vars PROVE IInv'
  OBVIOUS
<1>1. ASSUME NEW kind \in Kind, NEW r \in Row, Change(kind, r) PROVE IInv'
  BY <1>1, ChangeIInv
<1>2. ASSUME NEW r \in Row, Sync(r) PROVE IInv'
  BY <1>2, SyncIInv
<1>3. CASE Wake
  BY <1>3, WakeIInv
<1>4. CASE Execute
  BY <1>4, ExecutedIInv DEF Execute
<1>5. CASE Done
  BY <1>5, DoneIInv
<1>6. CASE Fail
  BY <1>6, FailIInv
<1>7. CASE Read
  BY <1>7, ReadIInv
<1>8. CASE UNCHANGED vars
  BY <1>8 DEF IInv, TypeOK, KeyThere, SentOnce, TableOnce, DoneOnce, NoneLost, Sent,
              Queued, Executed, Keys, vars, issued, syncer, pool
<1>. QED  BY <1>1, <1>2, <1>3, <1>4, <1>5, <1>6, <1>7, <1>8 DEF Next, SyncImpl

\* A statement that is executed is not pending, and one that is not is.
LEMMA IInvSuffices == IInv => ExecutedOnce
<1>. SUFFICES ASSUME IInv PROVE ExecutedOnce
  OBVIOUS
<1>. USE DEF IInv
<1>1. ASSUME NEW n \in 1 .. changes
      PROVE  Pending(n) # (n \in Executed) \/ (pc = "dead" /\ queue[key].n = n)
  <2>1. CASE n \in Executed /\ ~ (pc = "dead" /\ queue[key].n = n)
    <3>1. \A s \in sending : s.n # n
      BY <2>1 DEF SentOnce
    <3>2. \A k \in Keys : queue[k].n = n => pc = "done" /\ k = key
      BY <2>1 DEF TableOnce
    <3>. QED  BY <2>1, <3>1, <3>2 DEF Pending
  <2>2. CASE n \notin Executed
    <3>1. Sent(n) \/ Queued(n)
      BY <2>2 DEF NoneLost
    <3>2. pc = "done" => queue[key].n # n
      BY <2>2 DEF DoneOnce
    <3>. QED  BY <2>2, <3>1, <3>2 DEF Pending, Sent, Queued
  <2>. QED  BY <2>1, <2>2
<1>2. \A j, k \in Keys : queue[j].n = queue[k].n => j = k
  BY DEF TableOnce
<1>. QED  BY <1>1, <1>2 DEF ExecutedOnce, Executed, DoneOnce

\* Every statement that dbmgr hands to dbsync is executed once, for any number
\* of rows, changes and connections, whatever border table.insert() takes and
\* whatever order the traversal takes (dbsync.lua:14-26).
THEOREM EachExecutedOnce == Spec => []ExecutedOnce
<1>. QED  BY InitIInv, NextIInv, IInvSuffices, PTL DEF Spec

\* Every state is well typed: the loop variable of sync_impl is the key of an
\* entry as long as it has one to execute, and the connection in turn is one
\* that there is (dbsync.lua:19-23, mysqlpool.lua).
THEOREM TypeCorrect == Spec => []TypeOK
<1>1. IInv => TypeOK
  BY DEF IInv
<1>. QED  BY <1>1, InitIInv, NextIInv, PTL DEF Spec

----------------------------------------------------------------------------
\* mysql ends as the statements say where dbsync has kept their order.  An
\* insert of a row that is there and an update of one that is not do nothing in
\* mysql, so each statement must find there what it would have found if all
\* before it had just been executed; the invariant carries from one statement of
\* a row to the next what that is.

\* The statements that are still to be executed.
Waiting == {s \in Statement :
  /\ s.n \notin Executed
  /\ s \in sending \/ \E k \in Keys : queue[k] = s}

\* The changes of a row.
Of(r) == {n \in 1 .. changes : about[n] = r}

\* A statement leaves what the one after it finds, and the last one what is due
\* of the row; the first one finds what mysql has, if those before it were
\* executed in their order; and when all were, mysql has what is due.  Redis has
\* it unless the row is astray.
RowInv(r) ==
  /\ \A s \in Waiting : s.row = r =>
       /\ s.n \in Of(r)
       /\ \A m \in Of(r) : m > s.n /\ (\A i \in Of(r) : i <= s.n \/ m <= i)
            => found[m] = Effect(s, found[s.n])
       /\ (\A m \in Of(r) : m <= s.n) => due[r] = Effect(s, found[s.n])
       /\ Ordered(r) /\ (\A m \in Of(r) : m < s.n <=> m \in Executed)
            => mysql[r] = found[s.n]
  /\ Ordered(r) /\ Of(r) \subseteq Executed => mysql[r] = due[r]
  /\ r \notin stray => due[r] = redis[r]

OrderInv == IInv /\ (pc # "dead" => \A r \in Row : RowInv(r))

----------------------------------------------------------------------------
\* A step that executes nothing and changes no row.
LEMMA SameRow ==
  ASSUME NEW r \in Row, RowInv(r), Waiting' \subseteq Waiting,
         UNCHANGED <<executed, changes, about, found, due, stray, redis, mysql>>
  PROVE  RowInv(r)'
<1>1. Executed' = Executed /\ Of(r)' = Of(r)
  BY DEF Executed, Of
<1>2. Ordered(r)' = Ordered(r)
  BY DEF Ordered
<1>. QED  BY <1>1, <1>2 DEF RowInv

LEMMA AppliedRow ==
  ASSUME TypeOK, NEW s \in Statement
  PROVE  /\ Applied(s)[s.row] = Effect(s, mysql[s.row])
         /\ \A r \in Row : r # s.row => Applied(s)[r] = mysql[r]
<1>1. mysql \in [Row -> Value] /\ s.row \in Row
  BY DEF TypeOK, Statement
<1>. QED  BY <1>1 DEF Applied

\* One more number at the end of executed: the order of a row can only be
\* lost, and is if the number is about it and not the largest.
LEMMA OrderedGrows ==
  ASSUME TypeOK, NEW n \in 1 .. changes, executed' = Append(executed, n),
         UNCHANGED about, NEW r \in Row, Ordered(r)'
  PROVE  /\ Ordered(r)
         /\ about[n] = r => \A m \in Executed : about[m] = r => m < n
<1>. DEFINE len == Len(executed)
<1>1. executed \in Seq(1 .. MaxChange) /\ n \in 1 .. MaxChange
  BY DbSyncAssumption DEF TypeOK, Value
<1>2. /\ len \in Nat /\ DOMAIN executed = 1 .. len
      /\ DOMAIN executed' = 1 .. len + 1
      /\ \A i \in 1 .. len : executed'[i] = executed[i]
      /\ executed'[len + 1] = n
  BY <1>1
<1>. HIDE DEF len
<1>3. Ordered(r)
  BY <1>2 DEF Ordered
<1>4. ASSUME about[n] = r, NEW i \in 1 .. len, about[executed[i]] = r
      PROVE  executed[i] < n
  BY <1>2, <1>4 DEF Ordered
<1>. QED  BY <1>2, <1>3, <1>4 DEF Executed, ToSet

----------------------------------------------------------------------------
\* A change: its statement waits behind those of its row, and finds what was due
\* of the row so far.
LEMMA ChangeRows ==
  ASSUME IInv, NEW kind \in Kind, NEW r \in Row, Change(kind, r),
         NEW q \in Row, RowInv(q)
  PROVE  RowInv(q)'
<1>. DEFINE s == [n |-> changes + 1, kind |-> kind, row |-> r]
<1>1. /\ changes \in Nat /\ changes' = changes + 1 /\ changes + 1 \in 1 .. MaxChange
      /\ s \in Statement
  BY DbSyncAssumption DEF IInv, TypeOK, Value, Change, Statement
<1>2. /\ about'[changes + 1] = r /\ found'[changes + 1] = due[r]
      /\ \A n \in 1 .. changes : about'[n] = about[n] /\ found'[n] = found[n]
  <2>1. /\ about \in [1 .. changes -> Row] /\ about' = Append(about, r)
        /\ found \in [1 .. changes -> Value] /\ found' = Append(found, due[r])
        /\ due[r] \in Value
    BY DEF IInv, TypeOK, Change
  <2>. QED  BY <1>1, <2>1, Longer
<1>3. UNCHANGED <<executed, Executed, mysql, queue, Keys>>
  BY DEF Change, Executed, Keys
<1>4. Waiting' \subseteq Waiting \cup {s}
  <2>1. sending' = sending \cup {s}
    BY DEF Change
  <2>. HIDE DEF s
  <2>. QED  BY <1>3, <2>1 DEF Waiting
<1>5. \A n \in Executed : n \in 1 .. changes
  BY <1>1, Numbers DEF IInv, DoneOnce
<1>6. Ordered(q)' = Ordered(q)
  <2>1. \A i \in DOMAIN executed : about'[executed[i]] = about[executed[i]]
    BY <1>2, <1>5 DEF Executed, ToSet
  <2>. QED  BY <1>3, <2>1 DEF Ordered
<1>7. \A n \in Of(q) : n \in 1 .. changes /\ found'[n] = found[n]
  BY <1>2 DEF Of
<1>8. CASE q # r
  <2>1. Of(q)' = Of(q) /\ redis'[q] = redis[q] /\ due'[q] = due[q]
        /\ (q \in stray' <=> q \in stray)
    BY <1>1, <1>2, <1>8 DEF Of, Change, IInv, TypeOK
  <2>2. \A w \in Waiting' : w.row = q => w \in Waiting
    BY <1>4, <1>8
  <2>3. \A w, v : Effect(w, v)' = Effect(w, v)
    BY DEF Effect
  <2>. QED  BY <1>3, <1>6, <1>7, <2>1, <2>2 DEF RowInv
<1>9. CASE q = r
  <2>. SUFFICES RowInv(r)'
    BY <1>9
  <2>0. RowInv(r)
    BY <1>9
  <2>1. Of(r)' = Of(r) \cup {changes + 1} /\ \A m \in Of(r) : m \in Nat /\ m <= changes
    BY <1>1, <1>2 DEF Of
  <2>2. due'[r] = Effect(s, due[r]) /\ due[r] \in Value
    BY DEF Change, IInv, TypeOK
  <2>3. s.n = changes + 1 /\ s.row = r /\ s.kind = kind
    OBVIOUS
  <2>4. r \notin stray' => due'[r] = redis'[r]
    <3>1. redis'[r] = IF kind = "delete" THEN Absent ELSE changes + 1
      BY DEF Change, IInv, TypeOK
    <3>2. CASE kind = "delete"
      BY <2>2, <2>3, <3>1, <3>2 DEF Effect
    <3>3. CASE kind # "delete" /\ r \notin stray'
      <4>1. r \notin stray /\ Fits(kind, r)
        BY <3>3 DEF Change
      <4>2. due[r] = redis[r]
        BY <2>0, <4>1 DEF RowInv
      <4>3. CASE kind = "insert"
        BY <2>2, <2>3, <3>1, <4>1, <4>2, <4>3 DEF Effect, Fits
      <4>4. CASE kind = "update"
        BY <2>2, <2>3, <3>1, <4>1, <4>2, <4>4 DEF Effect, Fits
      <4>. QED  BY <3>3, <4>3, <4>4 DEF Kind
    <3>. QED  BY <3>2, <3>3
  <2>. HIDE DEF s
  <2>5. \A w \in Waiting' : w.row = r => w = s \/ (w \in Waiting /\ w.n \in Of(r))
    BY <1>4, <2>0 DEF RowInv
  <2>6. ~ (Of(r)' \subseteq Executed)
    BY <1>1, <1>5, <2>1
  <2>7. ASSUME NEW w \in Waiting', w.row = r
        PROVE  /\ w.n \in Of(r)'
               /\ \A m \in Of(r)' : m > w.n /\ (\A i \in Of(r)' : i <= w.n \/ m <= i)
                    => found'[m] = Effect(w, found'[w.n])
               /\ (\A m \in Of(r)' : m <= w.n) => due'[r] = Effect(w, found'[w.n])
               /\ Ordered(r) /\ (\A m \in Of(r)' : m < w.n <=> m \in Executed)
                    => mysql[r] = found'[w.n]
    <3>1. CASE w = s
      <4>1. w.n = changes + 1 /\ found'[w.n] = due[r]
        BY <1>2, <2>3, <3>1
      <4>2. \A m \in Of(r)' : ~ (m > w.n)
        BY <1>1, <2>1, <4>1
      <4>3. ASSUME Ordered(r), \A m \in Of(r)' : m < w.n <=> m \in Executed
            PROVE  mysql[r] = due[r]
        <5>1. Of(r) \subseteq Executed
          BY <1>1, <2>1, <4>1, <4>3
        <5>. QED  BY <2>0, <4>3, <5>1 DEF RowInv
      <4>. QED  BY <2>1, <2>2, <3>1, <4>1, <4>2, <4>3
    <3>2. CASE w \in Waiting /\ w.n \in Of(r)
      <4>0. w.n \in Nat /\ w.n <= changes /\ found'[w.n] = found[w.n]
        BY <1>7, <1>9, <2>1, <3>2
      <4>1. ~ (\A m \in Of(r)' : m <= w.n)
        BY <1>1, <2>1, <4>0
      <4>2. ASSUME NEW m \in Of(r)', m > w.n, \A i \in Of(r)' : i <= w.n \/ m <= i
            PROVE  found'[m] = Effect(w, found[w.n])
        <5>1. CASE m \in Of(r)
          <6>1. \A i \in Of(r) : i <= w.n \/ m <= i
            BY <2>1, <4>2
          <6>2. found[m] = Effect(w, found[w.n])
            BY <2>0, <2>7, <3>2, <4>2, <5>1, <6>1 DEF RowInv
          <6>. QED  BY <1>7, <1>9, <5>1, <6>2
        <5>2. CASE m = changes + 1
          <6>1. \A i \in Of(r) : i <= w.n
            <7>. SUFFICES ASSUME NEW i \in Of(r) PROVE i <= w.n
              OBVIOUS
            <7>1. i \in Nat /\ i <= changes /\ i \in Of(r)'
              BY <2>1
            <7>. QED  BY <1>1, <4>0, <4>2, <5>2, <7>1
          <6>2. due[r] = Effect(w, found[w.n])
            BY <2>0, <2>7, <3>2, <6>1 DEF RowInv
          <6>. QED  BY <1>2, <5>2, <6>2
        <5>. QED  BY <2>1, <5>1, <5>2
      <4>3. ASSUME Ordered(r), \A m \in Of(r)' : m < w.n <=> m \in Executed
            PROVE  mysql[r] = found[w.n]
        <5>1. \A m \in Of(r) : m < w.n <=> m \in Executed
          BY <2>1, <4>3
        <5>. QED  BY <2>0, <2>7, <3>2, <4>3, <5>1 DEF RowInv
      <4>. QED  BY <2>1, <3>2, <4>0, <4>1, <4>2, <4>3
    <3>. QED  BY <2>5, <2>7, <3>1, <3>2
  <2>. QED  BY <1>3, <1>6, <1>9, <2>4, <2>6, <2>7 DEF RowInv
<1>. QED  BY <1>8, <1>9

\* An execution: the statement is taken from those that wait, and if the
\* row's order is kept it was the first of them.
LEMMA ExecuteRows ==
  ASSUME IInv, pc = "call", mysql' = Applied(queue[key]),
         executed' = Append(executed, queue[key].n),
         UNCHANGED <<redis, issued, sending, queue>>,
         \A q \in Row : RowInv(q), NEW r \in Row
  PROVE  RowInv(r)'
<1>. DEFINE s == queue[key]
            n == queue[key].n
<1>1. key \in Keys /\ s \in Statement /\ n \notin Executed /\ n \in 1 .. changes
  BY Numbers DEF IInv, TypeOK, KeyThere, TableOnce, Statement
<1>2. s \in Waiting
  BY <1>1 DEF Waiting
<1>3. Executed' = Executed \cup {n}
  <2>1. n \in 1 .. MaxChange
    BY <1>1 DEF Statement
  <2>. QED  BY <2>1, ExecutedGrows DEF IInv, TypeOK
<1>4. Waiting' \subseteq Waiting /\ \A w \in Waiting' : w.n # n
  BY <1>3 DEF Waiting, Keys
<1>5. UNCHANGED <<redis, changes, about, found, due, stray>> /\ Of(r)' = Of(r)
  BY DEF issued, Of
<1>6. /\ mysql'[s.row] = Effect(s, mysql[s.row])
      /\ r # s.row => mysql'[r] = mysql[r]
  BY <1>1, AppliedRow DEF IInv
<1>7. Ordered(r)' => /\ Ordered(r)
                     /\ about[n] = r => \A m \in Executed : about[m] = r => m < n
  BY <1>1, <1>5, OrderedGrows DEF IInv
<1>. HIDE DEF s, n
<1>8. CASE r # s.row
  <2>1. \A m \in Of(r) : m # n
    <3>1. s.row \in Row /\ s.n = n
      BY <1>1 DEF s, n, Statement
    <3>. QED  BY <1>2, <1>8, <3>1 DEF RowInv, Of
  <2>. QED  BY <1>3, <1>4, <1>5, <1>6, <1>7, <1>8, <2>1 DEF RowInv
<1>9. CASE r = s.row
  <2>. SUFFICES ASSUME r = s.row PROVE RowInv(r)'
    BY <1>9
  <2>1. s.n = n /\ n \in Of(r) /\ n \in Nat /\ \A m \in Of(r) : m \in Nat
    <3>1. s.n = n /\ n \in Nat
      BY <1>1 DEF s, n
    <3>. QED  BY <1>2, <3>1 DEF RowInv, Of
  <2>2. about[n] = r /\ \A m \in Of(r) : about[m] = r
    BY <2>1 DEF Of
  <2>3. ASSUME Ordered(r)', \A m \in Of(r) : m < n => m \in Executed'
        PROVE  mysql'[r] = Effect(s, found[n])
    <3>1. \A m \in Of(r) : m < n <=> m \in Executed
      <4>. SUFFICES ASSUME NEW m \in Of(r) PROVE m < n <=> m \in Executed
        OBVIOUS
      <4>1. m \in Nat /\ n \in Nat /\ about[m] = r /\ about[n] = r
        BY <2>1, <2>2
      <4>2. m < n => m \in Executed
        BY <1>3, <2>3, <4>1
      <4>3. m \in Executed => m < n
        BY <1>7, <2>3, <4>1
      <4>. QED  BY <4>2, <4>3
    <3>. QED  BY <1>2, <1>6, <1>7, <2>1, <2>3, <3>1 DEF RowInv
  <2>4. ASSUME Ordered(r)', Of(r) \subseteq Executed'
        PROVE  mysql'[r] = due[r]
    <3>1. \A m \in Of(r) : m <= n
      <4>. SUFFICES ASSUME NEW m \in Of(r) PROVE m <= n
        OBVIOUS
      <4>1. m = n \/ m \in Executed
        BY <1>3, <2>4
      <4>2. m \in Executed => m < n
        BY <1>7, <2>2, <2>4
      <4>. QED  BY <2>1, <4>1, <4>2
    <3>. QED  BY <1>2, <2>1, <2>3, <2>4, <3>1 DEF RowInv
  <2>5. ASSUME NEW w \in Waiting', w.row = r, Ordered(r)',
               \A m \in Of(r) : m < w.n <=> m \in Executed'
        PROVE  mysql'[r] = found[w.n]
    <3>1. w \in Waiting /\ w.n \in Of(r) /\ w.n # n
      BY <1>4, <2>5 DEF RowInv
    <3>2. n < w.n
      BY <1>3, <2>1, <2>5
    <3>3. \A m \in Of(r) : m <= n \/ w.n <= m
      <4>. SUFFICES ASSUME NEW m \in Of(r), ~ (w.n <= m) PROVE m <= n
        OBVIOUS
      <4>1. m \in Nat /\ w.n \in Nat
        BY <2>1, <3>1
      <4>2. m < w.n
        BY <4>1
      <4>3. m = n \/ m \in Executed
        BY <1>3, <2>5, <4>2
      <4>4. m \in Executed => m < n
        BY <1>7, <2>2, <2>5
      <4>. QED  BY <2>1, <4>1, <4>3, <4>4
    <3>4. found[w.n] = Effect(s, found[n])
      <4>1. w.n > n
        BY <2>1, <3>1, <3>2
      <4>. QED  BY <1>2, <2>1, <3>1, <3>3, <4>1 DEF RowInv
    <3>5. \A m \in Of(r) : m < n => m \in Executed'
      <4>. SUFFICES ASSUME NEW m \in Of(r), m < n PROVE m \in Executed'
        OBVIOUS
      <4>1. m \in Nat /\ n \in Nat /\ w.n \in Nat
        BY <2>1, <3>1
      <4>2. m < w.n
        BY <3>2, <4>1
      <4>. QED  BY <2>5, <4>2
    <3>. QED  BY <2>3, <2>5, <3>4, <3>5
  <2>6. ASSUME NEW w \in Waiting', w.row = r
        PROVE  /\ w.n \in Of(r)
               /\ \A m \in Of(r) : m > w.n /\ (\A i \in Of(r) : i <= w.n \/ m <= i)
                    => found[m] = Effect(w, found[w.n])
               /\ (\A m \in Of(r) : m <= w.n) => due[r] = Effect(w, found[w.n])
    BY <1>4, <2>6 DEF RowInv
  <2>. QED  BY <1>5, <2>4, <2>5, <2>6 DEF RowInv
<1>. QED  BY <1>8, <1>9

----------------------------------------------------------------------------
LEMMA InitOrder == Init => OrderInv
<1>. SUFFICES ASSUME Init PROVE OrderInv
  OBVIOUS
<1>1. IInv
  BY InitIInv
<1>2. Waiting = {}
  <2>1. Keys = {} /\ sending = {}
    BY DEF Init, Keys
  <2>. QED  BY <2>1 DEF Waiting
<1>3. \A r \in Row : mysql[r] = due[r] /\ due[r] = redis[r]
  BY DEF Init
<1>. QED  BY <1>1, <1>2, <1>3 DEF OrderInv, RowInv

\* What dbsync takes into its table has waited before.
LEMMA SyncWaiting ==
  ASSUME IInv, NEW r \in Row, Sync(r)
  PROVE  Waiting' \subseteq Waiting
<1>1. PICK s \in sending, b \in Keys \cup 0 .. Cardinality(Keys) :
        /\ queue' = [k \in Keys \cup {b + 1} |-> IF k = b + 1 THEN s ELSE queue[k]]
        /\ sending' = sending \ {s}
  BY DEF Sync
<1>2. \A k \in Keys' : queue'[k] = s \/ (k \in Keys /\ queue'[k] = queue[k])
  BY <1>1 DEF Keys
<1>3. Executed' = Executed
  BY DEF Sync, Executed
<1>. QED  BY <1>1, <1>2, <1>3 DEF Waiting

LEMMA NextOrder == OrderInv /\ [Next]_vars => OrderInv'
<1>. SUFFICES ASSUME OrderInv, [Next]_vars PROVE OrderInv'
  OBVIOUS
<1>1. IInv /\ IInv'
  BY NextIInv DEF OrderInv
<1>2. SUFFICES ASSUME pc' # "dead", NEW r \in Row PROVE RowInv(r)'
  BY <1>1 DEF OrderInv
<1>3. ASSUME pc # "dead" PROVE \A q \in Row : RowInv(q)
  BY <1>3 DEF OrderInv
<1>4. ASSUME NEW kind \in Kind, NEW q \in Row, Change(kind, q) PROVE RowInv(r)'
  <2>1. pc # "dead"
    BY <1>2, <1>4 DEF Change, syncer
  <2>. QED  BY <1>1, <1>3, <1>4, <2>1, ChangeRows
<1>5. ASSUME NEW q \in Row, Sync(q) PROVE RowInv(r)'
  <2>1. pc # "dead" /\ UNCHANGED <<executed, changes, about, found, due, stray, redis, mysql>>
    BY <1>2, <1>5 DEF Sync, syncer, issued
  <2>. QED  BY <1>1, <1>3, <1>5, <2>1, SyncWaiting, SameRow
<1>6. CASE Execute
  BY <1>1, <1>3, <1>6, ExecuteRows DEF Execute
<1>7. CASE Done
  <2>1. pc # "dead" /\ UNCHANGED <<executed, changes, about, found, due, stray, redis, mysql, sending>>
    BY <1>7 DEF Done, issued
  <2>2. Keys' \subseteq Keys /\ \A k \in Keys' : queue'[k] = queue[k]
    BY <1>7 DEF Done, Cleared, Keys
  <2>3. Waiting' \subseteq Waiting
    BY <2>1, <2>2 DEF Waiting, Executed
  <2>. QED  BY <1>3, <2>1, <2>3, SameRow
<1>8. CASE Wake \/ Read \/ UNCHANGED vars
  <2>1. /\ pc # "dead"
        /\ UNCHANGED <<executed, changes, about, found, due, stray, redis, mysql, sending, queue>>
    BY <1>2, <1>8 DEF Wake, Interval, Read, vars, issued, syncer
  <2>2. Waiting' \subseteq Waiting
    BY <2>1 DEF Waiting, Executed, Keys
  <2>. QED  BY <1>3, <2>1, <2>2, SameRow
<1>9. CASE Fail
  BY <1>2, <1>9 DEF Fail
<1>. QED  BY <1>4, <1>5, <1>6, <1>7, <1>8, <1>9 DEF Next, SyncImpl

\* A row of which nothing waits has had all its changes executed.
LEMMA OrderSuffices == OrderInv => InOrderConverges
<1>. SUFFICES ASSUME OrderInv, pc # "dead", NEW r \in Row, Settled(r), Ordered(r)
     PROVE  mysql[r] = due[r] /\ (r \notin stray => mysql[r] = redis[r])
  BY DEF InOrderConverges
<1>1. ASSUME NEW n \in 1 .. changes, about[n] = r PROVE n \in Executed
  <2>1. ~ Pending(n)
    BY <1>1 DEF Settled
  <2>2. n \in Executed \/ Sent(n) \/ Queued(n)
    BY DEF OrderInv, IInv, NoneLost
  <2>3. pc = "done" => queue[key].n \in Executed
    BY DEF OrderInv, IInv, DoneOnce
  <2>. QED  BY <2>1, <2>2, <2>3 DEF Pending, Sent, Queued
<1>. QED  BY <1>1 DEF OrderInv, RowInv, Of

\* A row whose statements dbsync has executed in the order of its changes, and
\* all of them, is in mysql what these statements say one after another, for any
\* number of rows and changes, and whatever was asked for; and it is what redis
\* has, unless an insert or update since the row's last delete met a row in
\* redis that it was not made for (dbmgr.lua:416-538, dbsync.lua:14-26).
THEOREM InOrderMysqlIsRedis == Spec => []InOrderConverges
<1>. QED  BY InitOrder, NextOrder, OrderSuffices, PTL DEF Spec
=============================================================================
