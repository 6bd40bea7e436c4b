--------------------------- MODULE UserCacheProofs --------------------------
(***************************************************************************)
(* Proofs that the cache of userdc ends as redis, and that a read sees the *)
(* changes that were answered before it.  Reads are answered in the order  *)
(* in which redis was read, and a change after the reads before it, since  *)
(* dbmgr takes it to dbsync first; so what comes last of all that is on    *)
(* its way to userdc is what redis has.                                    *)
(***************************************************************************)
EXTENDS UserCache, SequenceTheorems, TLAPS

Change == {"insert", "update", "delete"}
PC == Change \cup {"read", "query", "rows", "store", "checked", "done", "failed"}
Op == {"load", "get", "rename", "roleinit", "addvalue", "delete", "unload"}
Item == [op : Op, pc : PC, row : Nat]

TypeInv ==
  /\ recordset \in Nat /\ redis \in Nat /\ mysql \in Nat
  /\ task \in Seq(Item)
  /\ commands \in Seq(Nat) /\ syncing \in Seq(Nat) /\ answers \in Seq(Nat)
  /\ written \in Seq(Nat)
  /\ behind \in Seq([kind : Change, row : Nat])

\* Where a request is: its command on its way to redis, its change on its way
\* to dbsync, its answer on its way back.
Places ==
  /\ \A i \in DOMAIN commands :
       commands[i] \in Task /\ task[commands[i]].pc \in Change \cup {"read", "store"}
  /\ \A i \in DOMAIN answers :
       answers[i] \in Task /\ task[answers[i]].pc \in Change \cup {"read"}
  /\ \A i \in DOMAIN syncing : syncing[i] \in Task /\ task[syncing[i]].pc \in Change

\* It is in one of them.
OnePlace ==
  /\ \A i, j \in DOMAIN commands : commands[i] = commands[j] => i = j
  /\ \A i, j \in DOMAIN answers : answers[i] = answers[j] => i = j
  /\ \A i, j \in DOMAIN syncing : syncing[i] = syncing[j] => i = j
  /\ \A i \in DOMAIN commands : \A j \in DOMAIN answers : commands[i] # answers[j]
  /\ \A i \in DOMAIN commands : \A j \in DOMAIN syncing : commands[i] # syncing[j]
  /\ \A i \in DOMAIN answers : \A j \in DOMAIN syncing : answers[i] # syncing[j]

\* What has changed redis was the last change that goes to dbsync.
LastSyncing == syncing # <<>> =>
  written # <<>> /\ written[Len(written)] = syncing[Len(syncing)]

\* A row that is stored is one; a change that is on its way to redis deletes
\* the row or writes one.
Rows == \A t \in Task : task[t].pc = "store" => task[t].row # Absent

\* An answer that leaves the cache alone: no row was found.
Void(t) == task[t].pc = "read" /\ task[t].row = Absent

\* What the cache will be: the last change on its way to dbsync, or else the
\* last answer that is not void, or else what it is.
Coming ==
  /\ syncing # <<>> => Written(syncing[Len(syncing)]) = redis
  /\ syncing = <<>> =>
       /\ \A i \in DOMAIN answers :
            ~ Void(answers[i]) /\ (\A j \in DOMAIN answers : j > i => Void(answers[j]))
              => Written(answers[i]) = redis
       /\ (\A i \in DOMAIN answers : Void(answers[i])) => recordset \in {Absent, redis}

IInv == /\ TypeInv /\ Places /\ OnePlace /\ LastSyncing /\ Rows
        /\ ~ undone => Coming

----------------------------------------------------------------------------
\* A sequence that got one more element at its end.
LEMMA Appended ==
  ASSUME NEW S, NEW s \in Seq(S), NEW e \in S
  PROVE  /\ Append(s, e) \in Seq(S) /\ Len(Append(s, e)) = Len(s) + 1
         /\ DOMAIN Append(s, e) = 1 .. Len(s) + 1 /\ DOMAIN s = 1 .. Len(s)
         /\ Len(s) \in Nat
         /\ \A i \in 1 .. Len(s) : Append(s, e)[i] = s[i]
         /\ Append(s, e)[Len(s) + 1] = e
  OBVIOUS

\* And one that lost its first.
LEMMA Tailed ==
  ASSUME NEW S, NEW s \in Seq(S), s # <<>>
  PROVE  /\ Tail(s) \in Seq(S) /\ Len(Tail(s)) = Len(s) - 1
         /\ Len(s) \in Nat /\ Len(s) >= 1
         /\ DOMAIN Tail(s) = 1 .. Len(s) - 1 /\ DOMAIN s = 1 .. Len(s)
         /\ \A i \in 1 .. Len(s) - 1 : Tail(s)[i] = s[i + 1]
         /\ Head(s) = s[1] /\ Head(s) \in S
  OBVIOUS

LEMMA TaskType ==
  ASSUME TypeInv
  PROVE  /\ Len(task) \in Nat /\ Task = 1 .. Len(task)
         /\ \A t \in Task : /\ task[t] \in Item /\ task[t].op \in Op
                            /\ task[t].pc \in PC /\ task[t].row \in Nat
<1>1. task \in Seq(Item)
  BY DEF TypeInv
<1>2. Len(task) \in Nat /\ Task = 1 .. Len(task) /\ \A t \in Task : task[t] \in Item
  BY <1>1 DEF Task
<1>. QED  BY <1>2 DEF Item

\* Set changes one request, or adds one.
LEMMA SetTask ==
  ASSUME TypeInv, NEW t \in Task \cup {Len(task) + 1},
         NEW op \in Op, NEW pc \in PC, NEW row \in Nat, Set(t, op, pc, row)
  PROVE  /\ task' \in Seq(Item) /\ Task' = Task \cup {t}
         /\ task'[t] = [op |-> op, pc |-> pc, row |-> row]
         /\ \A u \in Task : u # t => task'[u] = task[u]
<1>. DEFINE new == [op |-> op, pc |-> pc, row |-> row]
<1>1. new \in Item
  BY DEF Item
<1>2. task \in Seq(Item) /\ Len(task) \in Nat /\ Task = 1 .. Len(task)
  BY TaskType DEF TypeInv
<1>3. CASE t \in Task
  <2>1. task' = [task EXCEPT ![t] = new]
    BY <1>3 DEF Set
  <2>. HIDE DEF new
  <2>. QED  BY <1>1, <1>2, <1>3, <2>1 DEF Task, new
<1>4. CASE t = Len(task) + 1
  <2>1. task' = Append(task, new)
    BY <1>2, <1>4 DEF Set
  <2>. HIDE DEF new
  <2>2. /\ task' \in Seq(Item) /\ DOMAIN task' = 1 .. Len(task) + 1
        /\ task'[t] = new /\ \A u \in 1 .. Len(task) : task'[u] = task[u]
    BY <1>1, <1>2, <1>4, <2>1, Appended
  <2>. QED  BY <1>2, <1>4, <2>2 DEF Task, new
<1>. QED  BY <1>3, <1>4

----------------------------------------------------------------------------
\* What a handler leaves: its request is somewhere else, and its command on its
\* way to redis if it has one.
Moved(t, op) == \E pc \in PC, row \in Nat :
  /\ Set(t, op, pc, row)
  /\ pc = "store" => row # Absent
  /\ \/ commands' = commands
     \/ commands' = Append(commands, t) /\ pc \in Change \cup {"read", "store"}

LEMMA EndMoves ==
  ASSUME NEW t, NEW op, NEW pc \in PC \ {"store"}, NEW row \in Nat,
         End(t, op, pc, row)
  PROVE  Moved(t, op)
  BY DEF End, Moved

LEMMA AskMoves ==
  ASSUME NEW t, NEW op, NEW pc \in Change \cup {"read"}, NEW row \in Nat,
         Ask(t, op, pc, row)
  PROVE  Moved(t, op)
<1>1. pc \in PC /\ pc # "store"
  BY DEF PC, Change
<1>. QED  BY <1>1 DEF Ask, Moved

LEMMA AfterMoves ==
  ASSUME NEW t \in Nat, NEW op, NEW row \in Nat, After(t, op, row)
  PROVE  Moved(t, op)
<1>1. {"checked", "failed", "done"} \subseteq PC \ {"store"} /\ "update" \in Change
  BY DEF PC, Change
<1>2. \/ \E pc \in {"checked", "failed", "done"} : End(t, op, pc, row)
      \/ Ask(t, op, "update", t)
  BY DEF After
<1>. QED  BY <1>1, <1>2, EndMoves, AskMoves

LEMMA GetMoves ==
  ASSUME TypeInv, NEW t \in Nat, NEW op, Get(t, op)
  PROVE  Moved(t, op)
  BY AfterMoves, AskMoves DEF Get, TypeInv, Absent

LEMMA CheckedMoves ==
  ASSUME TypeInv, NEW t \in Nat, NEW op, Update(t, op) \/ Add(t, op)
  PROVE  Moved(t, op)
<1>1. "done" \in PC \ {"store"} /\ {"update", "insert"} \subseteq Change /\ Absent \in Nat
  BY DEF PC, Change, Absent
<1>. QED  BY <1>1, EndMoves, AskMoves DEF Update, Add

\* A handler whose request is in no place, after its answer (off = 1) or
\* another one (off = 0), disturbs none of those that are.
LEMMA MovedPlaces ==
  ASSUME IInv, NEW t \in Task \cup {Len(task) + 1}, NEW op \in Op, Moved(t, op),
         NEW off \in {0, 1}, answers' \in Seq(Nat),
         \A i \in DOMAIN answers' :
           i \in Nat /\ i + off \in DOMAIN answers /\ answers'[i] = answers[i + off]
             /\ answers'[i] # t,
         \A i \in DOMAIN commands : commands[i] # t,
         \A i \in DOMAIN syncing : syncing[i] # t,
         UNCHANGED <<redis, mysql, syncing, behind, written>>, recordset' \in Nat
  PROVE  /\ TypeInv' /\ Places' /\ OnePlace' /\ LastSyncing' /\ Rows'
         /\ \A u \in Task : u # t => task'[u] = task[u]
<1>. USE DEF IInv
<1>1. PICK pc \in PC, row \in Nat :
        /\ Set(t, op, pc, row)
        /\ pc = "store" => row # Absent
        /\ \/ commands' = commands
           \/ commands' = Append(commands, t) /\ pc \in Change \cup {"read", "store"}
  BY DEF Moved
<1>2. /\ task' \in Seq(Item) /\ Task' = Task \cup {t}
      /\ task'[t] = [op |-> op, pc |-> pc, row |-> row]
      /\ \A u \in Task : u # t => task'[u] = task[u]
  BY <1>1, SetTask
<1>3. t \in Nat /\ commands \in Seq(Nat) /\ task'[t].pc = pc /\ task'[t].row = row
  BY <1>2, TaskType DEF TypeInv
<1>4. /\ commands' \in Seq(Nat)
      /\ \A i \in DOMAIN commands' :
           \/ i \in DOMAIN commands /\ commands'[i] = commands[i]
           \/ /\ i = Len(commands) + 1 /\ commands'[i] = t
              /\ pc \in Change \cup {"read", "store"}
  <2>1. CASE commands' = commands
    BY <1>3, <2>1
  <2>2. CASE commands' = Append(commands, t) /\ pc \in Change \cup {"read", "store"}
    BY <1>3, <2>2, Appended
  <2>. QED  BY <1>1, <2>1, <2>2
<1>5. TypeInv'
  BY <1>2, <1>4 DEF TypeInv
<1>6. Places'
  <2>1. ASSUME NEW i \in DOMAIN commands'
        PROVE  /\ commands'[i] \in Task'
               /\ task'[commands'[i]].pc \in Change \cup {"read", "store"}
    <3>1. CASE i \in DOMAIN commands /\ commands'[i] = commands[i]
      BY <1>2, <3>1 DEF Places
    <3>2. CASE commands'[i] = t /\ pc \in Change \cup {"read", "store"}
      BY <1>2, <1>3, <3>2
    <3>. QED  BY <1>4, <2>1, <3>1, <3>2
  <2>2. ASSUME NEW i \in DOMAIN answers'
        PROVE  answers'[i] \in Task' /\ task'[answers'[i]].pc \in Change \cup {"read"}
    <3>1. i + off \in DOMAIN answers /\ answers'[i] = answers[i + off] /\ answers'[i] # t
      BY <2>2
    <3>2. answers'[i] \in Task /\ task[answers'[i]].pc \in Change \cup {"read"}
      BY <3>1 DEF Places
    <3>. QED  BY <1>2, <3>1, <3>2
  <2>3. ASSUME NEW i \in DOMAIN syncing
        PROVE  syncing[i] \in Task' /\ task'[syncing[i]].pc \in Change
    BY <1>2, <2>3 DEF Places
  <2>. QED  BY <2>1, <2>2, <2>3 DEF Places
<1>7. OnePlace'
  <2>1. ASSUME NEW i \in DOMAIN commands', NEW j \in DOMAIN commands',
               commands'[i] = commands'[j]
        PROVE  i = j
    BY <1>4, <2>1 DEF OnePlace
  <2>2. ASSUME NEW i \in DOMAIN answers', NEW j \in DOMAIN answers',
               answers'[i] = answers'[j]
        PROVE  i = j
    <3>1. i + off = j + off
      BY <2>2 DEF OnePlace
    <3>2. i \in Nat /\ j \in Nat
      OBVIOUS
    <3>. QED  BY <3>1, <3>2
  <2>3. ASSUME NEW i \in DOMAIN commands', NEW j \in DOMAIN answers'
        PROVE  commands'[i] # answers'[j]
    BY <1>4, <2>3 DEF OnePlace
  <2>4. ASSUME NEW i \in DOMAIN commands', NEW j \in DOMAIN syncing
        PROVE  commands'[i] # syncing[j]
    BY <1>4, <2>4 DEF OnePlace
  <2>5. ASSUME NEW i \in DOMAIN answers', NEW j \in DOMAIN syncing
        PROVE  answers'[i] # syncing[j]
    BY <2>5 DEF OnePlace
  <2>. QED  BY <2>1, <2>2, <2>3, <2>4, <2>5 DEF OnePlace
<1>8. LastSyncing'
  BY DEF LastSyncing
<1>9. Rows'
  BY <1>1, <1>2, <1>3 DEF Rows
<1>. QED  BY <1>2, <1>5, <1>6, <1>7, <1>8, <1>9

\* A request that is in no place moves, and no answer with it: what comes to
\* the cache is what came before.
LEMMA MovedIInv ==
  ASSUME IInv, NEW t \in Task \cup {Len(task) + 1}, NEW op \in Op, Moved(t, op),
         t \in Task => task[t].pc \notin Change \cup {"read", "store"},
         UNCHANGED <<redis, mysql, syncing, answers, behind, written, undone>>,
         recordset' \in {recordset, Absent}
  PROVE  IInv'
<1>. USE DEF IInv
<1>1. t \notin Task => t = Len(task) + 1 /\ Len(task) + 1 \notin Task
  BY TaskType
<1>2. /\ \A i \in DOMAIN commands : commands[i] # t /\ commands[i] \in Task
      /\ \A i \in DOMAIN syncing : syncing[i] # t /\ syncing[i] \in Task
      /\ \A i \in DOMAIN answers : answers[i] # t /\ answers[i] \in Task
  BY <1>1 DEF Places
<1>3. answers \in Seq(Nat) /\ syncing \in Seq(Nat) /\ recordset' \in Nat
  BY DEF TypeInv, Absent
<1>4. \A i \in DOMAIN answers : i \in Nat /\ i + 0 = i
  BY <1>3
<1>5. /\ TypeInv' /\ Places' /\ OnePlace' /\ LastSyncing' /\ Rows'
      /\ \A u \in Task : u # t => task'[u] = task[u]
  <2>1. \A i \in DOMAIN answers' :
           i \in Nat /\ i + 0 \in DOMAIN answers /\ answers'[i] = answers[i + 0]
             /\ answers'[i] # t
    BY <1>2, <1>4
  <2>2. answers' \in Seq(Nat)
    BY <1>3
  <2>. QED  BY <1>2, <1>3, <2>1, <2>2, MovedPlaces
<1>6. ASSUME Coming PROVE Coming'
  <2>1. \A i \in DOMAIN answers : /\ Void(answers[i])' = Void(answers[i])
                                  /\ Written(answers[i])' = Written(answers[i])
    BY <1>2, <1>5 DEF Void, Written
  <2>2. syncing # <<>> => Len(syncing) \in DOMAIN syncing
    BY <1>3
  <2>3. syncing # <<>> => Written(syncing[Len(syncing)])' = Written(syncing[Len(syncing)])
    BY <1>2, <1>5, <2>2 DEF Written
  <2>. QED  BY <1>6, <2>1, <2>3 DEF Coming
<1>. QED  BY <1>5, <1>6

----------------------------------------------------------------------------
LEMMA RequestIInv ==
  ASSUME IInv, Request
  PROVE  IInv'
<1>. USE DEF IInv
<1>. DEFINE t == Len(task) + 1
<1>1. t \in Nat /\ t \notin Task /\ Ops \subseteq Op
  BY TaskType, UserCacheAssumption DEF Op
<1>2. PICK op \in Ops :
        /\ \/ End(t, op, "done", Absent) /\ recordset' = Absent
           \/ Ask(t, op, "delete", Absent) /\ UNCHANGED recordset
           \/ Get(t, op) /\ UNCHANGED recordset
        /\ UNCHANGED <<redis, mysql, syncing, answers, behind, written, undone>>
  BY DEF Request
<1>. HIDE DEF t
<1>3. Moved(t, op)
  <2>1. "done" \in PC \ {"store"} /\ "delete" \in Change /\ Absent \in Nat
    BY DEF PC, Change, Absent
  <2>. QED  BY <1>1, <1>2, <2>1, EndMoves, AskMoves, GetMoves
<1>4. t \in Task \cup {Len(task) + 1} /\ recordset' \in {recordset, Absent}
  BY <1>2 DEF t
<1>. QED  BY <1>1, <1>2, <1>3, <1>4, MovedIInv

LEMMA CheckedIInv ==
  ASSUME IInv, NEW t \in Task, Checked(t)
  PROVE  IInv'
<1>. USE DEF IInv
<1>1. t \in Nat /\ {"rename", "roleinit"} \subseteq Op
  BY TaskType DEF Op
<1>2. PICK op \in {"rename", "roleinit"} : Update(t, op) \/ Add(t, op)
  BY DEF Checked
<1>3. Moved(t, op)
  BY <1>1, <1>2, CheckedMoves
<1>4. task[t].pc \notin Change \cup {"read", "store"}
  BY DEF Checked, Change
<1>. QED  BY <1>1, <1>3, <1>4, MovedIInv DEF Checked, history

LEMMA QueryIInv ==
  ASSUME IInv, NEW t \in Task, Query(t)
  PROVE  IInv'
<1>. USE DEF IInv
<1>1. task[t].op \in Op /\ mysql \in Nat /\ "rows" \in PC
  BY TaskType DEF TypeInv, PC
<1>2. Moved(t, task[t].op)
  BY <1>1 DEF Query, Moved, services
<1>3. task[t].pc \notin Change \cup {"read", "store"}
  BY DEF Query, Change
<1>. QED  BY <1>1, <1>2, <1>3, MovedIInv DEF Query, history, services

\* An answer sets out: its request has come from redis (off), from dbsync
\* (off2), or from mysql.
LEMMA AnsweredPlaces ==
  ASSUME IInv, NEW t \in Task,
         task' \in Seq(Item), Task' = Task, task'[t].pc \in Change \cup {"read"},
         \A u \in Task : u # t => task'[u] = task[u],
         answers' = Append(answers, t), \A i \in DOMAIN answers : answers[i] # t,
         NEW off \in {0, 1}, NEW off2 \in {0, 1},
         \A i \in DOMAIN commands' :
           i \in Nat /\ i + off \in DOMAIN commands /\ commands'[i] = commands[i + off]
             /\ commands'[i] # t,
         \A i \in DOMAIN syncing' :
           i \in Nat /\ i + off2 \in DOMAIN syncing /\ syncing'[i] = syncing[i + off2]
             /\ syncing'[i] # t
  PROVE  Places' /\ OnePlace' /\ Rows' /\ answers' \in Seq(Nat)
<1>. USE DEF IInv
<1>1. t \in Nat /\ answers \in Seq(Nat)
  BY TaskType DEF TypeInv
<1>2. /\ answers' \in Seq(Nat)
      /\ \A i \in DOMAIN answers' :
           \/ i \in DOMAIN answers /\ answers'[i] = answers[i]
           \/ i = Len(answers) + 1 /\ answers'[i] = t
  BY <1>1, Appended
<1>3. Places'
  <2>1. ASSUME NEW i \in DOMAIN commands'
        PROVE  /\ commands'[i] \in Task'
               /\ task'[commands'[i]].pc \in Change \cup {"read", "store"}
    BY <2>1 DEF Places
  <2>2. ASSUME NEW i \in DOMAIN answers'
        PROVE  answers'[i] \in Task' /\ task'[answers'[i]].pc \in Change \cup {"read"}
    <3>1. CASE i \in DOMAIN answers /\ answers'[i] = answers[i]
      BY <3>1 DEF Places
    <3>2. CASE answers'[i] = t
      BY <3>2
    <3>. QED  BY <1>2, <2>2, <3>1, <3>2
  <2>3. ASSUME NEW i \in DOMAIN syncing'
        PROVE  syncing'[i] \in Task' /\ task'[syncing'[i]].pc \in Change
    BY <2>3 DEF Places
  <2>. QED  BY <2>1, <2>2, <2>3 DEF Places
<1>4. OnePlace'
  <2>1. ASSUME NEW i \in DOMAIN commands', NEW j \in DOMAIN commands',
               commands'[i] = commands'[j]
        PROVE  i = j
    <3>1. i + off = j + off /\ i \in Nat /\ j \in Nat
      BY <2>1 DEF OnePlace
    <3>. QED  BY <3>1
  <2>2. ASSUME NEW i \in DOMAIN syncing', NEW j \in DOMAIN syncing',
               syncing'[i] = syncing'[j]
        PROVE  i = j
    <3>1. i + off2 = j + off2 /\ i \in Nat /\ j \in Nat
      BY <2>2 DEF OnePlace
    <3>. QED  BY <3>1
  <2>3. ASSUME NEW i \in DOMAIN answers', NEW j \in DOMAIN answers',
               answers'[i] = answers'[j]
        PROVE  i = j
    BY <1>2, <2>3 DEF OnePlace
  <2>4. ASSUME NEW i \in DOMAIN commands', NEW j \in DOMAIN answers'
        PROVE  commands'[i] # answers'[j]
    BY <1>2, <2>4 DEF OnePlace
  <2>5. ASSUME NEW i \in DOMAIN commands', NEW j \in DOMAIN syncing'
        PROVE  commands'[i] # syncing'[j]
    BY <2>5 DEF OnePlace
  <2>6. ASSUME NEW i \in DOMAIN answers', NEW j \in DOMAIN syncing'
        PROVE  answers'[i] # syncing'[j]
    BY <1>2, <2>6 DEF OnePlace
  <2>. QED  BY <2>1, <2>2, <2>3, <2>4, <2>5, <2>6 DEF OnePlace
<1>5. Rows'
  <2>1. task'[t].pc # "store"
    BY DEF Change
  <2>. QED  BY <2>1 DEF Rows
<1>. QED  BY <1>2, <1>3, <1>4, <1>5

\* What comes to the cache when an answer has set out and no change waits for
\* dbsync: nothing new if it is void, and otherwise that answer.
LEMMA AnsweredComing ==
  ASSUME IInv, NEW t \in Task, syncing' = <<>>, answers' = Append(answers, t),
         \A i \in DOMAIN answers : answers[i] # t,
         \A u \in Task : u # t => task'[u] = task[u],
         \/ ~ Void(t)' /\ Written(t)' = redis'
         \/ Void(t)' /\ syncing = <<>> /\ Coming /\ UNCHANGED <<redis, recordset>>
  PROVE  Coming'
<1>. USE DEF IInv
<1>1. t \in Nat /\ answers \in Seq(Nat) /\ \A i \in DOMAIN answers : answers[i] \in Task
  BY TaskType DEF TypeInv, Places
<1>2. /\ DOMAIN answers' = 1 .. Len(answers) + 1 /\ DOMAIN answers = 1 .. Len(answers)
      /\ Len(answers) \in Nat /\ answers'[Len(answers) + 1] = t
      /\ \A i \in DOMAIN answers : answers'[i] = answers[i]
  BY <1>1, Appended
<1>3. PICK n \in Nat : n = Len(answers)
  BY <1>2
<1>4. \A i \in DOMAIN answers : /\ Void(answers[i])' = Void(answers[i])
                                /\ Written(answers[i])' = Written(answers[i])
  BY <1>1, <1>2 DEF Void, Written
<1>5. CASE ~ Void(t)' /\ Written(t)' = redis'
  <2>1. \A i \in DOMAIN answers' : i = n + 1 \/ n + 1 > i
    BY <1>2, <1>3
  <2>2. n + 1 \in DOMAIN answers' /\ answers'[n + 1] = t
    BY <1>2, <1>3
  <2>3. ~ Void(answers[n + 1])' /\ Written(answers[n + 1])' = redis'
    BY <1>5, <2>2 DEF Void, Written
  <2>. QED  BY <2>1, <2>2, <2>3 DEF Coming
<1>6. CASE Void(t)' /\ syncing = <<>> /\ Coming /\ UNCHANGED <<redis, recordset>>
  <2>1. n + 1 \in DOMAIN answers' /\ Void(answers[n + 1])'
    BY <1>2, <1>6, <1>3 DEF Void
  <2>2. \A i \in DOMAIN answers' : i \in DOMAIN answers \/ i = n + 1
    BY <1>2, <1>3
  <2>3. \A i \in DOMAIN answers : i \in DOMAIN answers'
    BY <1>2
  <2>4. ASSUME NEW i \in DOMAIN answers', ~ Void(answers[i])',
               \A j \in DOMAIN answers' : j > i => Void(answers[j])'
        PROVE  Written(answers[i])' = redis'
    <3>1. i \in DOMAIN answers
      BY <2>1, <2>2, <2>4
    <3>. QED  BY <1>4, <1>6, <2>3, <2>4, <3>1 DEF Coming
  <2>5. ASSUME \A i \in DOMAIN answers' : Void(answers[i])'
        PROVE  recordset' \in {Absent, redis'}
    BY <1>4, <1>6, <2>3, <2>5 DEF Coming
  <2>. QED  BY <2>4, <2>5 DEF Coming
<1>. QED  BY <1>5, <1>6

\* A change that waits for dbsync is what will come, whoever else moves.
LEMMA SyncingComing ==
  ASSUME IInv, Coming, syncing # <<>>, UNCHANGED <<syncing, redis>>, NEW t,
         \A u \in Task : u # t => task'[u] = task[u],
         \A i \in DOMAIN syncing : syncing[i] # t
  PROVE  Coming'
<1>1. syncing \in Seq(Nat) /\ Len(syncing) \in DOMAIN syncing
  BY DEF IInv, TypeInv
<1>2. Written(syncing[Len(syncing)])' = Written(syncing[Len(syncing)])
  BY <1>1 DEF Written, IInv, Places
<1>. QED  BY <1>2 DEF Coming

\* load_data_impl: without a row it answers, with one it has redis store it.
LEMMA LoadIInv ==
  ASSUME IInv, NEW t \in Task, Load(t)
  PROVE  IInv'
<1>. USE DEF IInv
<1>1. task[t].op \in Op /\ task[t].row \in Nat /\ task[t].pc = "rows"
  BY TaskType DEF Load
<1>2. /\ \A i \in DOMAIN commands : commands[i] # t
      /\ \A i \in DOMAIN answers : answers[i] # t
      /\ \A i \in DOMAIN syncing : syncing[i] # t
  BY <1>1 DEF Places, Change
<1>3. CASE task[t].row = Absent
  <2>1. /\ Set(t, task[t].op, "read", Absent) /\ answers' = Append(answers, t)
        /\ UNCHANGED <<recordset, redis, mysql, commands, syncing, behind, written, undone>>
    BY <1>3 DEF Load, history
  <2>2. "read" \in PC /\ Absent \in Nat
    BY DEF PC, Absent
  <2>3. /\ task' \in Seq(Item) /\ Task' = Task /\ task'[t].pc = "read"
        /\ task'[t].row = Absent /\ \A u \in Task : u # t => task'[u] = task[u]
    <3>1. /\ task' \in Seq(Item) /\ Task' = Task \cup {t}
          /\ task'[t] = [op |-> task[t].op, pc |-> "read", row |-> Absent]
          /\ \A u \in Task : u # t => task'[u] = task[u]
      BY <1>1, <2>1, <2>2, SetTask
    <3>. QED  BY <3>1
  <2>4. Places' /\ OnePlace' /\ Rows' /\ answers' \in Seq(Nat)
    <3>1. \A i \in DOMAIN commands' :
            i \in Nat /\ i + 0 \in DOMAIN commands /\ commands'[i] = commands[i + 0]
              /\ commands'[i] # t
      BY <1>2, <2>1 DEF TypeInv
    <3>2. \A i \in DOMAIN syncing' :
            i \in Nat /\ i + 0 \in DOMAIN syncing /\ syncing'[i] = syncing[i + 0]
              /\ syncing'[i] # t
      BY <1>2, <2>1 DEF TypeInv
    <3>. QED  BY <1>2, <2>1, <2>3, <3>1, <3>2, AnsweredPlaces
  <2>5. TypeInv' /\ LastSyncing'
    BY <2>1, <2>3, <2>4 DEF TypeInv, LastSyncing
  <2>6. ASSUME Coming PROVE Coming'
    <3>1. CASE syncing = <<>>
      <4>1. Void(t)'
        BY <2>3 DEF Void
      <4>. QED  BY <1>2, <2>1, <2>3, <2>6, <3>1, <4>1, AnsweredComing
    <3>2. CASE syncing # <<>>
      BY <1>2, <2>1, <2>3, <2>6, <3>2, SyncingComing
    <3>. QED  BY <3>1, <3>2
  <2>. QED  BY <2>1, <2>4, <2>5, <2>6
<1>4. CASE task[t].row # Absent
  <2>1. /\ Ask(t, task[t].op, "store", task[t].row)
        /\ UNCHANGED <<recordset, redis, mysql, syncing, answers, behind, written, undone>>
    BY <1>4 DEF Load, history
  <2>2. Moved(t, task[t].op)
    BY <1>1, <1>4, <2>1 DEF Ask, Moved, PC
  <2>. QED  BY <1>1, <2>1, <2>2, MovedIInv DEF Change
<1>. QED  BY <1>3, <1>4

\* A change has gone to dbsync, and its answer sets out.
LEMMA SyncIInv ==
  ASSUME IInv, Sync
  PROVE  IInv'
<1>. USE DEF IInv
<1>1. syncing \in Seq(Nat) /\ syncing # <<>>
  BY DEF Sync, TypeInv
<1>2. PICK t \in Task : t = Head(syncing) /\ t = syncing[1] /\ task[t].pc \in Change
  BY <1>1 DEF Places
<1>3. /\ syncing' = Tail(syncing) /\ answers' = Append(answers, t)
      /\ behind' = Append(behind, [kind |-> task[t].pc, row |-> Written(t)])
      /\ UNCHANGED <<recordset, redis, mysql, task, commands, written, undone>>
  BY <1>2 DEF Sync, history
<1>4. /\ syncing' \in Seq(Nat) /\ Len(syncing') = Len(syncing) - 1
      /\ Len(syncing) \in Nat /\ Len(syncing) >= 1
      /\ DOMAIN syncing' = 1 .. Len(syncing) - 1 /\ DOMAIN syncing = 1 .. Len(syncing)
      /\ \A i \in DOMAIN syncing' : syncing'[i] = syncing[i + 1]
  BY <1>1, <1>3, Tailed
<1>5. \A i \in DOMAIN syncing' :
        i \in Nat /\ i + 1 \in DOMAIN syncing /\ syncing'[i] = syncing[i + 1]
          /\ syncing'[i] # t
  <2>1. \A i \in DOMAIN syncing' : i \in Nat /\ i + 1 \in DOMAIN syncing /\ i + 1 # 1
    BY <1>4
  <2>2. 1 \in DOMAIN syncing
    BY <1>4
  <2>. QED  BY <1>2, <1>4, <2>1, <2>2 DEF OnePlace
<1>6. \A i \in DOMAIN answers : answers[i] # t
  BY <1>2, <1>4 DEF OnePlace
<1>7. \A i \in DOMAIN commands' :
        i \in Nat /\ i + 0 \in DOMAIN commands /\ commands'[i] = commands[i + 0]
          /\ commands'[i] # t
  <2>1. 1 \in DOMAIN syncing /\ commands \in Seq(Nat)
    BY <1>4 DEF TypeInv
  <2>. QED  BY <1>2, <1>3, <2>1 DEF OnePlace
<1>8. Places' /\ OnePlace' /\ Rows' /\ answers' \in Seq(Nat)
  <2>1. /\ task' \in Seq(Item) /\ Task' = Task /\ task'[t].pc \in Change \cup {"read"}
        /\ \A u \in Task : u # t => task'[u] = task[u]
    BY <1>2, <1>3 DEF TypeInv, Task
  <2>. QED  BY <1>3, <1>5, <1>6, <1>7, <2>1, AnsweredPlaces
<1>9. TypeInv'
  <2>1. task[t].row \in Nat /\ Written(t) \in Nat
    BY TaskType DEF Written, Absent
  <2>2. [kind |-> task[t].pc, row |-> Written(t)] \in [kind : Change, row : Nat]
    BY <1>2, <2>1
  <2>3. behind' \in Seq([kind : Change, row : Nat])
    BY <1>3, <2>2 DEF TypeInv
  <2>. QED  BY <1>3, <1>4, <1>8, <2>3 DEF TypeInv
<1>10. /\ syncing' # <<>> => syncing'[Len(syncing')] = syncing[Len(syncing)]
       /\ syncing' = <<>> => syncing[Len(syncing)] = t
  <2>1. syncing' # <<>> => Len(syncing) - 1 \in DOMAIN syncing'
    BY <1>4
  <2>2. syncing' = <<>> => Len(syncing) = 1
    BY <1>4
  <2>. QED  BY <1>2, <1>4, <2>1, <2>2
<1>11. LastSyncing'
  BY <1>1, <1>3, <1>10 DEF LastSyncing
<1>12. ASSUME Coming PROVE Coming'
  <2>1. Written(syncing[Len(syncing)]) = redis
    BY <1>1, <1>12 DEF Coming
  <2>2. CASE syncing' = <<>>
    <3>1. ~ Void(t)' /\ Written(t)' = redis'
      BY <1>2, <1>3, <1>10, <2>1, <2>2 DEF Void, Written, Change
    <3>2. \A u \in Task : u # t => task'[u] = task[u]
      BY <1>3
    <3>. QED  BY <1>3, <1>6, <2>2, <3>1, <3>2, AnsweredComing
  <2>3. CASE syncing' # <<>>
    BY <1>3, <1>10, <2>1, <2>3 DEF Coming, Written
  <2>. QED  BY <2>2, <2>3
<1>. QED  BY <1>3, <1>8, <1>9, <1>11, <1>12

----------------------------------------------------------------------------
\* The request whose answer arrives is nowhere else, and the other answers
\* move up.
LEMMA HeadAnswer ==
  ASSUME IInv, answers # <<>>, answers' = Tail(answers)
  PROVE  /\ Head(answers) \in Task /\ Head(answers) = answers[1]
         /\ 1 \in DOMAIN answers /\ answers' \in Seq(Nat)
         /\ \A i \in DOMAIN answers' :
              i \in Nat /\ i + 1 \in DOMAIN answers /\ answers'[i] = answers[i + 1]
                /\ answers'[i] # Head(answers)
         /\ \A i \in DOMAIN answers : i \in Nat /\ (i # 1 => i - 1 \in DOMAIN answers')
         /\ \A i \in DOMAIN commands : commands[i] # Head(answers)
         /\ \A i \in DOMAIN syncing : syncing[i] # Head(answers)
<1>1. answers \in Seq(Nat)
  BY DEF IInv, TypeInv
<1>2. /\ answers' \in Seq(Nat) /\ Len(answers) \in Nat /\ Len(answers) >= 1
      /\ DOMAIN answers' = 1 .. Len(answers) - 1 /\ DOMAIN answers = 1 .. Len(answers)
      /\ \A i \in DOMAIN answers' : answers'[i] = answers[i + 1]
      /\ Head(answers) = answers[1]
  BY <1>1, Tailed
<1>3. \A i \in DOMAIN answers' : i \in Nat /\ i + 1 \in DOMAIN answers /\ i + 1 # 1
  BY <1>2
<1>4. 1 \in DOMAIN answers
  BY <1>2
<1>5. \A i \in DOMAIN answers' : answers'[i] # answers[1]
  BY <1>2, <1>3, <1>4 DEF IInv, OnePlace
<1>6. \A i \in DOMAIN answers : i \in Nat /\ (i # 1 => i - 1 \in DOMAIN answers')
  BY <1>2
<1>7. answers[1] \in Task
  BY <1>4 DEF IInv, Places
<1>8. /\ \A i \in DOMAIN commands : commands[i] # answers[1]
      /\ \A i \in DOMAIN syncing : syncing[i] # answers[1]
  BY <1>4 DEF IInv, OnePlace
<1>. QED  BY <1>2, <1>3, <1>4, <1>5, <1>6, <1>7, <1>8

\* What an answer leaves in the cache.
LEMMA AnswerCache ==
  ASSUME IInv, Answer, NEW t \in Task, t = Head(answers)
  PROVE  recordset' = IF Void(t) THEN recordset
                      ELSE IF task[t].pc = "delete" THEN Absent
                      ELSE IF task[t].pc = "update" /\ recordset = Absent THEN Absent
                      ELSE task[t].row
<1>1. task[t].pc \in Change \cup {"read"} /\ answers # <<>>
  BY HeadAnswer DEF IInv, Places, Answer
<1>2. CASE task[t].pc = "update" /\ recordset = Absent
  BY <1>2 DEF Answer, Void
<1>3. CASE ~ (task[t].pc = "update" /\ recordset = Absent)
  <2>1. recordset' = Cached(t, task[t].row)
    BY <1>3 DEF Answer
  <2>2. CASE task[t].pc = "read"
    BY <1>3, <2>1, <2>2 DEF Cached, Void
  <2>3. CASE task[t].pc \in {"insert", "update"}
    BY <1>3, <2>1, <2>3 DEF Cached, Void
  <2>4. CASE task[t].pc = "delete"
    BY <1>3, <2>1, <2>4 DEF Cached, Void
  <2>. QED  BY <1>1, <2>2, <2>3, <2>4 DEF Change
<1>. QED  BY <1>2, <1>3

LEMMA AnswerIInv ==
  ASSUME IInv, Answer
  PROVE  IInv'
<1>. USE DEF IInv
<1>1. /\ answers # <<>> /\ answers' = Tail(answers)
      /\ UNCHANGED <<redis, mysql, syncing, behind, written, undone>>
  BY DEF Answer, history
<1>2. PICK t \in Task : t = Head(answers) /\ t = answers[1]
  BY <1>1, HeadAnswer
<1>3. /\ t \in Nat /\ task[t].op \in Op /\ task[t].row \in Nat
      /\ task[t].pc \in Change \cup {"read"} /\ recordset \in Nat
  BY <1>1, <1>2, HeadAnswer, TaskType DEF Places, TypeInv
<1>4. \/ /\ task[t].pc = "update" /\ recordset = Absent
         /\ End(t, task[t].op, "failed", t) /\ UNCHANGED recordset
      \/ /\ recordset' = Cached(t, task[t].row)
         /\ \/ After(t, task[t].op, task[t].row)
            \/ End(t, task[t].op, "done", task[t].row)
  BY <1>2 DEF Answer
<1>5. Moved(t, task[t].op)
  <2>1. {"failed", "done"} \subseteq PC \ {"store"}
    BY DEF PC, Change
  <2>. QED  BY <1>3, <1>4, <2>1, EndMoves, AfterMoves
<1>6. recordset' = IF Void(t) THEN recordset
                   ELSE IF task[t].pc = "delete" THEN Absent
                   ELSE IF task[t].pc = "update" /\ recordset = Absent THEN Absent
                   ELSE task[t].row
  BY <1>2, AnswerCache
<1>7. recordset' \in Nat
  BY <1>3, <1>6 DEF Absent
<1>8. /\ TypeInv' /\ Places' /\ OnePlace' /\ LastSyncing' /\ Rows'
      /\ \A u \in Task : u # t => task'[u] = task[u]
  BY <1>1, <1>2, <1>3, <1>5, <1>7, HeadAnswer, MovedPlaces
<1>9. ASSUME Coming PROVE Coming'
  <2>1. CASE syncing # <<>>
    <3>1. \A i \in DOMAIN syncing : syncing[i] # t
      BY <1>1, <1>2, HeadAnswer
    <3>. QED  BY <1>1, <1>8, <1>9, <2>1, <3>1, SyncingComing
  <2>2. CASE syncing = <<>>
    <3>1. \A i \in DOMAIN answers' :
            /\ i \in Nat /\ i + 1 \in DOMAIN answers
            /\ Void(answers[i])' = Void(answers[i + 1])
            /\ Written(answers[i])' = Written(answers[i + 1])
      <4>. SUFFICES ASSUME NEW i \in DOMAIN answers'
           PROVE  /\ i \in Nat /\ i + 1 \in DOMAIN answers
                  /\ Void(answers[i])' = Void(answers[i + 1])
                  /\ Written(answers[i])' = Written(answers[i + 1])
        OBVIOUS
      <4>1. i \in Nat /\ i + 1 \in DOMAIN answers /\ answers'[i] = answers[i + 1]
            /\ answers'[i] # t
        BY <1>1, <1>2, HeadAnswer
      <4>2. task'[answers'[i]] = task[answers[i + 1]]
        BY <1>8, <4>1 DEF Places
      <4>. QED  BY <4>1, <4>2 DEF Void, Written
    <3>2. \A i \in DOMAIN answers : i \in Nat /\ (i # 1 => i - 1 \in DOMAIN answers')
      BY <1>1, HeadAnswer
    <3>3. ASSUME NEW i \in DOMAIN answers', ~ Void(answers[i])',
                 \A j \in DOMAIN answers' : j > i => Void(answers[j])'
          PROVE  Written(answers[i])' = redis
      <4>1. ~ Void(answers[i + 1]) /\ i + 1 \in DOMAIN answers /\ i \in Nat
        BY <3>1, <3>3
      <4>2. ASSUME NEW j \in DOMAIN answers, j > i + 1 PROVE Void(answers[j])
        <5>1. j \in Nat /\ j # 1 /\ j - 1 > i /\ (j - 1) + 1 = j
          BY <3>2, <4>1, <4>2
        <5>2. j - 1 \in DOMAIN answers'
          BY <3>2, <5>1
        <5>3. Void(answers[j - 1])'
          BY <3>3, <5>1, <5>2
        <5>. QED  BY <3>1, <5>1, <5>2, <5>3
      <4>. QED  BY <1>9, <2>2, <3>1, <3>3, <4>1, <4>2 DEF Coming
    <3>4. ASSUME \A i \in DOMAIN answers' : Void(answers[i])'
          PROVE  recordset' \in {Absent, redis}
      <4>1. ASSUME NEW j \in DOMAIN answers, j # 1 PROVE Void(answers[j])
        <5>1. j \in Nat /\ (j - 1) + 1 = j /\ j - 1 \in DOMAIN answers'
          BY <3>2, <4>1
        <5>2. Void(answers[j - 1])'
          BY <3>4, <5>1
        <5>. QED  BY <3>1, <5>1, <5>2
      <4>2. CASE Void(t)
        <5>1. recordset \in {Absent, redis}
          BY <1>2, <1>9, <2>2, <4>1, <4>2 DEF Coming
        <5>. QED  BY <1>6, <4>2, <5>1 DEF Void
      <4>3. CASE ~ Void(t)
        <5>1. 1 \in DOMAIN answers /\ \A j \in DOMAIN answers : j > 1 => Void(answers[j])
          BY <1>1, <4>1, HeadAnswer
        <5>2. Written(t) = redis
          BY <1>2, <1>9, <2>2, <4>3, <5>1 DEF Coming
        <5>. QED  BY <1>6, <4>3, <5>2 DEF Void, Written
      <4>. QED  BY <4>2, <4>3
    <3>. QED  BY <1>1, <2>2, <3>3, <3>4 DEF Coming
  <2>. QED  BY <2>1, <2>2
<1>. QED  BY <1>1, <1>8, <1>9

LEMMA BehindIInv ==
  ASSUME IInv, Behind
  PROVE  IInv'
<1>. USE DEF IInv
<1>1. UNCHANGED <<recordset, redis, task, commands, syncing, answers, written, undone>>
  BY DEF Behind, history
<1>2. behind \in Seq([kind : Change, row : Nat]) /\ behind # <<>>
  BY DEF Behind, TypeInv
<1>3. behind' \in Seq([kind : Change, row : Nat])
      /\ Head(behind) \in [kind : Change, row : Nat]
  BY <1>2, Tailed DEF Behind
<1>4. mysql' \in Nat
  <2>1. Head(behind).row \in Nat /\ Head(behind).kind \in Change /\ mysql \in Nat
    BY <1>3 DEF TypeInv
  <2>2. mysql' = Applied(Head(behind))
    BY DEF Behind
  <2>. QED  BY <2>1, <2>2 DEF Applied, Change, Absent
<1>5. TypeInv'
  BY <1>1, <1>3, <1>4 DEF TypeInv
<1>. QED  BY <1>1, <1>5 DEF Places, OnePlace, LastSyncing, Rows, Coming, Void, Written, Task

----------------------------------------------------------------------------
\* And so is the request whose command is executed.
LEMMA HeadCommand ==
  ASSUME IInv, commands # <<>>, commands' = Tail(commands)
  PROVE  /\ Head(commands) \in Task
         /\ task[Head(commands)].pc \in Change \cup {"read", "store"}
         /\ commands' \in Seq(Nat)
         /\ \A i \in DOMAIN commands' :
              i \in Nat /\ i + 1 \in DOMAIN commands /\ commands'[i] = commands[i + 1]
                /\ commands'[i] # Head(commands)
         /\ \A i \in DOMAIN answers : answers[i] # Head(commands)
         /\ \A i \in DOMAIN syncing : syncing[i] # Head(commands)
<1>1. commands \in Seq(Nat)
  BY DEF IInv, TypeInv
<1>2. /\ commands' \in Seq(Nat) /\ Len(commands) \in Nat /\ Len(commands) >= 1
      /\ DOMAIN commands' = 1 .. Len(commands) - 1 /\ DOMAIN commands = 1 .. Len(commands)
      /\ \A i \in DOMAIN commands' : commands'[i] = commands[i + 1]
      /\ Head(commands) = commands[1]
  BY <1>1, Tailed
<1>3. \A i \in DOMAIN commands' : i \in Nat /\ i + 1 \in DOMAIN commands /\ i + 1 # 1
  BY <1>2
<1>4. 1 \in DOMAIN commands
  BY <1>2
<1>5. \A i \in DOMAIN commands' : commands'[i] # commands[1]
  BY <1>2, <1>3, <1>4 DEF IInv, OnePlace
<1>6. commands[1] \in Task /\ task[commands[1]].pc \in Change \cup {"read", "store"}
  BY <1>4 DEF IInv, Places
<1>7. /\ \A i \in DOMAIN answers : answers[i] # commands[1]
      /\ \A i \in DOMAIN syncing : syncing[i] # commands[1]
  BY <1>4 DEF IInv, OnePlace
<1>. QED  BY <1>2, <1>3, <1>5, <1>6, <1>7

\* redis has no row: the request goes on to mysql.
LEMMA MissIInv ==
  ASSUME IInv, commands # <<>>, commands' = Tail(commands),
         NEW t \in Task, t = Head(commands), Set(t, task[t].op, "query", Absent),
         UNCHANGED <<recordset, redis, mysql, syncing, answers, behind, written, undone>>
  PROVE  IInv'
<1>. USE DEF IInv
<1>1. task[t].op \in Op /\ "query" \in PC /\ Absent \in Nat
  BY TaskType DEF PC, Absent
<1>2. /\ task' \in Seq(Item) /\ Task' = Task /\ task'[t].pc = "query"
      /\ \A u \in Task : u # t => task'[u] = task[u]
  <2>1. /\ task' \in Seq(Item) /\ Task' = Task \cup {t}
        /\ task'[t] = [op |-> task[t].op, pc |-> "query", row |-> Absent]
        /\ \A u \in Task : u # t => task'[u] = task[u]
    BY <1>1, SetTask
  <2>. QED  BY <2>1
<1>3. /\ commands' \in Seq(Nat)
      /\ \A i \in DOMAIN commands' :
           i \in Nat /\ i + 1 \in DOMAIN commands /\ commands'[i] = commands[i + 1]
             /\ commands'[i] # t
      /\ \A i \in DOMAIN answers : answers[i] # t
      /\ \A i \in DOMAIN syncing : syncing[i] # t
  BY HeadCommand
<1>4. TypeInv' /\ LastSyncing' /\ Rows'
  BY <1>2, <1>3 DEF TypeInv, LastSyncing, Rows
<1>5. Places'
  <2>1. ASSUME NEW i \in DOMAIN commands'
        PROVE  /\ commands'[i] \in Task'
               /\ task'[commands'[i]].pc \in Change \cup {"read", "store"}
    <3>1. commands'[i] \in Task /\ commands'[i] # t
          /\ task[commands'[i]].pc \in Change \cup {"read", "store"}
      BY <1>3, <2>1 DEF Places
    <3>. QED  BY <1>2, <3>1
  <2>2. ASSUME NEW i \in DOMAIN answers'
        PROVE  answers'[i] \in Task' /\ task'[answers'[i]].pc \in Change \cup {"read"}
    <3>1. answers[i] \in Task /\ answers[i] # t
          /\ task[answers[i]].pc \in Change \cup {"read"}
      BY <1>3, <2>2 DEF Places
    <3>. QED  BY <1>2, <3>1
  <2>3. ASSUME NEW i \in DOMAIN syncing'
        PROVE  syncing'[i] \in Task' /\ task'[syncing'[i]].pc \in Change
    <3>1. syncing[i] \in Task /\ syncing[i] # t /\ task[syncing[i]].pc \in Change
      BY <1>3, <2>3 DEF Places
    <3>. QED  BY <1>2, <3>1
  <2>. QED  BY <2>1, <2>2, <2>3 DEF Places
<1>6. OnePlace'
  <2>1. ASSUME NEW i \in DOMAIN commands', NEW j \in DOMAIN commands',
               commands'[i] = commands'[j]
        PROVE  i = j
    <3>1. i + 1 = j + 1 /\ i \in Nat /\ j \in Nat
      BY <1>3, <2>1 DEF OnePlace
    <3>. QED  BY <3>1
  <2>. QED  BY <1>3, <2>1 DEF OnePlace
<1>7. ASSUME Coming PROVE Coming'
  <2>1. CASE syncing # <<>>
    BY <1>2, <1>3, <1>7, <2>1, SyncingComing
  <2>2. CASE syncing = <<>>
    <3>1. \A i \in DOMAIN answers : /\ Void(answers[i])' = Void(answers[i])
                                    /\ Written(answers[i])' = Written(answers[i])
      BY <1>2, <1>3 DEF Places, Void, Written
    <3>. QED  BY <1>7, <2>2, <3>1 DEF Coming
  <2>. QED  BY <2>1, <2>2
<1>. QED  BY <1>4, <1>5, <1>6, <1>7

\* A row is read, or stored: its answer sets out.
LEMMA HitIInv ==
  ASSUME IInv, commands # <<>>, commands' = Tail(commands),
         NEW t \in Task, t = Head(commands), NEW row \in Nat, row # Absent,
         Set(t, task[t].op, "read", row), answers' = Append(answers, t), redis' = row,
         UNCHANGED <<recordset, mysql, syncing, behind, written>>,
         ~ undone' => /\ ~ undone
                      /\ redis = row \/ written = <<>> \/ row = Written(written[Len(written)])
  PROVE  IInv'
<1>. USE DEF IInv
<1>1. task[t].op \in Op /\ "read" \in PC
  BY TaskType DEF PC
<1>2. /\ task' \in Seq(Item) /\ Task' = Task
      /\ task'[t].pc = "read" /\ task'[t].row = row
      /\ \A u \in Task : u # t => task'[u] = task[u]
  <2>1. /\ task' \in Seq(Item) /\ Task' = Task \cup {t}
        /\ task'[t] = [op |-> task[t].op, pc |-> "read", row |-> row]
        /\ \A u \in Task : u # t => task'[u] = task[u]
    BY <1>1, SetTask
  <2>. QED  BY <2>1
<1>3. /\ commands' \in Seq(Nat)
      /\ \A i \in DOMAIN commands' :
           i \in Nat /\ i + 1 \in DOMAIN commands /\ commands'[i] = commands[i + 1]
             /\ commands'[i] # t
      /\ \A i \in DOMAIN answers : answers[i] # t
      /\ \A i \in DOMAIN syncing : syncing[i] # t
  BY HeadCommand
<1>4. syncing \in Seq(Nat)
  BY DEF TypeInv
<1>5. Places' /\ OnePlace' /\ Rows' /\ answers' \in Seq(Nat)
  <2>1. \A i \in DOMAIN syncing' :
          i \in Nat /\ i + 0 \in DOMAIN syncing /\ syncing'[i] = syncing[i + 0]
            /\ syncing'[i] # t
    BY <1>3, <1>4
  <2>. QED  BY <1>2, <1>3, <2>1, AnsweredPlaces
<1>6. TypeInv' /\ LastSyncing'
  BY <1>2, <1>3, <1>5 DEF TypeInv, LastSyncing
<1>7. ASSUME ~ undone' PROVE Coming'
  <2>1. CASE syncing = <<>>
    <3>1. ~ Void(t)' /\ Written(t)' = redis'
      BY <1>2 DEF Void, Written
    <3>. QED  BY <1>2, <1>3, <2>1, <3>1, AnsweredComing
  <2>2. CASE syncing # <<>>
    <3>1. Len(syncing) \in DOMAIN syncing
      BY <1>4, <2>2
    <3>2. Written(syncing[Len(syncing)]) = redis
      BY <1>7, <2>2 DEF Coming
    <3>3. Written(syncing[Len(syncing)]) = row
      BY <1>7, <2>2, <3>2 DEF LastSyncing
    <3>4. Written(syncing[Len(syncing)])' = Written(syncing[Len(syncing)])
      BY <1>2, <1>3, <3>1 DEF Places, Written
    <3>. QED  BY <2>2, <3>3, <3>4 DEF Coming
  <2>. QED  BY <2>1, <2>2
<1>. QED  BY <1>5, <1>6, <1>7

\* redis is changed, and the change goes to dbsync behind the others.
LEMMA ChangedIInv ==
  ASSUME IInv, commands # <<>>, commands' = Tail(commands),
         NEW t \in Task, t = Head(commands), task[t].pc \in Change,
         redis' = Written(t), written' = Append(written, t),
         syncing' = Append(syncing, t),
         UNCHANGED <<recordset, mysql, task, answers, behind, undone>>
  PROVE  IInv'
<1>. USE DEF IInv
<1>1. /\ commands' \in Seq(Nat)
      /\ \A i \in DOMAIN commands' :
           i \in Nat /\ i + 1 \in DOMAIN commands /\ commands'[i] = commands[i + 1]
             /\ commands'[i] # t
      /\ \A i \in DOMAIN answers : answers[i] # t
      /\ \A i \in DOMAIN syncing : syncing[i] # t
  BY HeadCommand
<1>2. t \in Nat /\ task[t].row \in Nat /\ Task' = Task
      /\ syncing \in Seq(Nat) /\ written \in Seq(Nat)
  BY TaskType DEF TypeInv, Task
<1>3. /\ syncing' \in Seq(Nat) /\ Len(syncing') = Len(syncing) + 1
      /\ syncing'[Len(syncing')] = t /\ syncing' # <<>>
      /\ \A i \in DOMAIN syncing' :
           \/ i \in DOMAIN syncing /\ syncing'[i] = syncing[i]
           \/ i = Len(syncing) + 1 /\ syncing'[i] = t
  <2>1. /\ syncing' \in Seq(Nat) /\ Len(syncing') = Len(syncing) + 1
        /\ DOMAIN syncing' = 1 .. Len(syncing) + 1 /\ DOMAIN syncing = 1 .. Len(syncing)
        /\ Len(syncing) \in Nat
        /\ \A i \in 1 .. Len(syncing) : syncing'[i] = syncing[i]
        /\ syncing'[Len(syncing) + 1] = t
    BY <1>2, Appended
  <2>2. syncing' # <<>>
    BY <2>1
  <2>3. ASSUME NEW i \in DOMAIN syncing'
        PROVE  \/ i \in DOMAIN syncing /\ syncing'[i] = syncing[i]
               \/ i = Len(syncing) + 1 /\ syncing'[i] = t
    <3>1. i \in 1 .. Len(syncing) \/ i = Len(syncing) + 1
      BY <2>1
    <3>. QED  BY <2>1, <3>1
  <2>. QED  BY <2>1, <2>2, <2>3
<1>4. written' \in Seq(Nat) /\ written'[Len(written')] = t /\ written' # <<>>
  BY <1>2, Appended
<1>5. TypeInv'
  <2>1. redis' \in Nat
    BY <1>2 DEF Written, Absent
  <2>. QED  BY <1>1, <1>3, <1>4, <2>1 DEF TypeInv
<1>6. Places'
  <2>1. ASSUME NEW i \in DOMAIN commands'
        PROVE  /\ commands'[i] \in Task'
               /\ task'[commands'[i]].pc \in Change \cup {"read", "store"}
    <3>1. i + 1 \in DOMAIN commands /\ commands'[i] = commands[i + 1]
      BY <1>1, <2>1
    <3>. QED  BY <1>2, <3>1 DEF Places
  <2>2. ASSUME NEW i \in DOMAIN answers'
        PROVE  answers'[i] \in Task' /\ task'[answers'[i]].pc \in Change \cup {"read"}
    BY <1>2, <2>2 DEF Places
  <2>3. ASSUME NEW i \in DOMAIN syncing'
        PROVE  syncing'[i] \in Task' /\ task'[syncing'[i]].pc \in Change
    <3>1. CASE i \in DOMAIN syncing /\ syncing'[i] = syncing[i]
      BY <1>2, <3>1 DEF Places
    <3>2. CASE syncing'[i] = t
      BY <1>2, <3>2
    <3>. QED  BY <1>3, <2>3, <3>1, <3>2
  <2>. QED  BY <2>1, <2>2, <2>3 DEF Places
<1>7. OnePlace'
  <2>1. ASSUME NEW i \in DOMAIN commands', NEW j \in DOMAIN commands',
               commands'[i] = commands'[j]
        PROVE  i = j
    <3>1. i + 1 = j + 1 /\ i \in Nat /\ j \in Nat
      BY <1>1, <2>1 DEF OnePlace
    <3>. QED  BY <3>1
  <2>2. ASSUME NEW i \in DOMAIN syncing', NEW j \in DOMAIN syncing',
               syncing'[i] = syncing'[j]
        PROVE  i = j
    BY <1>1, <1>3, <2>2 DEF OnePlace
  <2>3. ASSUME NEW i \in DOMAIN commands', NEW j \in DOMAIN syncing'
        PROVE  commands'[i] # syncing'[j]
    <3>1. /\ i + 1 \in DOMAIN commands /\ commands'[i] = commands[i + 1]
          /\ commands'[i] # t
      BY <1>1, <2>3
    <3>2. CASE j \in DOMAIN syncing /\ syncing'[j] = syncing[j]
      BY <3>1, <3>2 DEF OnePlace
    <3>3. CASE syncing'[j] = t
      BY <3>1, <3>3
    <3>. QED  BY <1>3, <2>3, <3>2, <3>3
  <2>4. ASSUME NEW i \in DOMAIN answers', NEW j \in DOMAIN syncing'
        PROVE  answers'[i] # syncing'[j]
    BY <1>1, <1>3, <2>4 DEF OnePlace
  <2>. QED  BY <1>1, <2>1, <2>2, <2>3, <2>4 DEF OnePlace
<1>8. LastSyncing' /\ Rows'
  BY <1>2, <1>3, <1>4 DEF LastSyncing, Rows
<1>9. Coming'
  BY <1>3 DEF Coming, Written
<1>. QED  BY <1>5, <1>6, <1>7, <1>8, <1>9

LEMMA ExecuteIInv ==
  ASSUME IInv, Execute
  PROVE  IInv'
<1>1. commands # <<>> /\ commands' = Tail(commands)
  BY DEF Execute
<1>2. PICK t \in Task : t = Head(commands)
  BY <1>1, HeadCommand
<1>3. UNCHANGED <<recordset, mysql, behind>>
  BY DEF Execute
<1>4. redis \in Nat /\ task[t].row \in Nat
  BY TaskType DEF IInv, TypeInv
<1>5. CASE /\ task[t].pc = "read" /\ redis = Absent
           /\ Set(t, task[t].op, "query", Absent) /\ UNCHANGED answers
           /\ UNCHANGED <<redis, syncing, written, undone>>
  BY <1>1, <1>2, <1>3, <1>5, MissIInv
<1>6. CASE /\ task[t].pc = "read" /\ redis # Absent
           /\ Set(t, task[t].op, "read", redis) /\ answers' = Append(answers, t)
           /\ UNCHANGED <<redis, syncing, written, undone>>
  BY <1>1, <1>2, <1>3, <1>4, <1>6, HitIInv
<1>7. CASE /\ task[t].pc \in Change /\ redis' = Written(t)
           /\ written' = Append(written, t) /\ syncing' = Append(syncing, t)
           /\ UNCHANGED <<task, answers, undone>>
  BY <1>1, <1>2, <1>3, <1>7, ChangedIInv
<1>8. CASE /\ task[t].pc = "store" /\ redis' = task[t].row
           /\ undone' = (undone \/ /\ written # <<>>
                                   /\ task[t].row # Written(Last(written)))
           /\ Set(t, task[t].op, "read", task[t].row)
           /\ answers' = Append(answers, t) /\ UNCHANGED <<syncing, written>>
  <2>1. task[t].row # Absent
    BY <1>8 DEF IInv, Rows
  <2>2. ~ undone' => ~ undone /\ (written = <<>> \/ task[t].row = Written(written[Len(written)]))
    BY <1>8 DEF Last
  <2>. QED  BY <1>1, <1>2, <1>3, <1>4, <1>8, <2>1, <2>2, HitIInv
<1>. QED  BY <1>2, <1>5, <1>6, <1>7, <1>8 DEF Execute, Change

----------------------------------------------------------------------------
LEMMA InitIInv == Init => IInv
<1>. SUFFICES ASSUME Init PROVE IInv
  OBVIOUS
<1>1. mysql \in Nat
  BY UserCacheAssumption DEF Init, Absent, Old
<1>2. TypeInv
  BY <1>1 DEF Init, TypeInv, Absent
<1>3. /\ DOMAIN commands = {} /\ DOMAIN answers = {} /\ DOMAIN syncing = {} /\ Task = {}
      /\ syncing = <<>> /\ recordset = Absent
  BY DEF Init, Task
<1>. QED  BY <1>2, <1>3 DEF IInv, Places, OnePlace, LastSyncing, Rows, Coming

LEMMA NextIInv == IInv /\ [Next]_vars => IInv'
<1>. SUFFICES ASSUME IInv, [Next]_vars PROVE IInv'
  OBVIOUS
<1>1. CASE Request
  BY <1>1, RequestIInv
<1>2. ASSUME NEW t \in Task, Handle(t) PROVE IInv'
  BY <1>2, CheckedIInv, QueryIInv, LoadIInv DEF Handle
<1>3. CASE Answer
  BY <1>3, AnswerIInv
<1>4. CASE Execute
  BY <1>4, ExecuteIInv
<1>5. CASE Sync
  BY <1>5, SyncIInv
<1>6. CASE Behind
  BY <1>6, BehindIInv
<1>7. CASE UNCHANGED vars
  BY <1>7 DEF IInv, TypeInv, Places, OnePlace, LastSyncing, Rows, Coming, Void, Written,
              Task, vars, services, history
<1>. QED  BY <1>1, <1>2, <1>3, <1>4, <1>5, <1>6, <1>7 DEF Next

\* When no request is under way nothing is on its way to the cache.
LEMMA IInvSuffices == IInv => CacheIsRedis
<1>. SUFFICES ASSUME IInv, Busy = {}, ~ undone PROVE recordset \in {Absent, redis}
  BY DEF CacheIsRedis
<1>1. \A t \in Task : task[t].pc \in {"done", "failed"}
  BY DEF Busy
<1>2. DOMAIN answers = {} /\ DOMAIN syncing = {}
  BY <1>1 DEF IInv, Places, Change
<1>3. syncing = <<>>
  BY <1>2 DEF IInv, TypeInv
<1>. QED  BY <1>2, <1>3 DEF IInv, Coming

\* The cache of a player's row is empty or what redis has whenever no request
\* is under way, for any number of requests of any kind at once, as long as
\* no load from mysql has undone a change (UserSingleEntity.lua, dbmgr.lua).
THEOREM CacheEndsAsRedis == Spec => []CacheIsRedis
<1>. QED  BY InitIInv, NextIInv, IInvSuffices, PTL DEF Spec

----------------------------------------------------------------------------
(***************************************************************************)
(* The same order makes reads fresh.  redis always has the row of the last *)
(* change; what is read there, or not found there, is as fresh as all the  *)
(* changes so far, and the answer to a change arrives after those of every *)
(* read and change before it, so that the cache never falls behind what is *)
(* answered.  A row is as fresh as a set K of changes if redis has had it  *)
(* when all of them were made.                                             *)
(***************************************************************************)

\* The requests that have changed redis.
Changes == ToSet(written)

\* redis has had the row v, and every change in K was made by then.
Fresh(v, K) == \E i \in DOMAIN written :
  /\ task[written[i]].row = v
  /\ \A j \in DOMAIN written : written[j] \in K => j <= i

\* What a request knew when it began was in redis.
Knowns == /\ known \in Seq(SUBSET Nat) /\ DOMAIN known = Task
          /\ \A t \in Task : known[t] \subseteq Changes

\* One that has changed redis waits for its answer, or has it.
Changers == \A t \in Changes :
  /\ t \in Task /\ task[t].pc \in Change \cup {"done", "failed"}
  /\ \A i \in DOMAIN commands : commands[i] # t

\* The changes that have not gone to dbsync are the last ones, in order.
Suffix == \E n \in Nat :
  /\ Len(written) = n + Len(syncing)
  /\ \A i \in DOMAIN syncing : n + i \in DOMAIN written /\ syncing[i] = written[n + i]

\* An update writes a row of its own, a deletion none, and a read neither.
Kind(t) == /\ task[t].pc = "update" => task[t].row = t
           /\ task[t].pc = "delete" => task[t].row = Absent
           /\ task[t].op = "get" => task[t].pc \notin Change \cup {"checked"}

Base == Knowns /\ Changers /\ Suffix /\ \A t \in Task : Kind(t)

\* The changes that are answered, and those that are when the first k answers
\* on their way have arrived.
Done == {u \in Changes : task[u].pc = "done"}
Due(k) == {u \in Changes : \/ task[u].pc = "done"
                           \/ /\ task[u].pc \in Change
                              /\ \E j \in DOMAIN answers : j <= k /\ answers[j] = u}

\* redis has what was written last; the cache, and then each answer that
\* arrives, has a row as fresh as the changes that are answered by then.
RedisFresh == written # <<>> => redis = task[written[Len(written)]].row
CacheFresh == recordset # Absent /\ Done # {} => Fresh(recordset, Done)
AnswerFresh(k) == ~ Void(answers[k]) /\ Due(k) # {} =>
  Fresh(task[answers[k]].row, Due(k))

\* A read for which redis had no row has missed nothing that it knew of, and
\* the row that it is answered with is as fresh as that.
ReadFresh(t) == task[t].op = "get" /\ known[t] # {} =>
  /\ task[t].pc \in {"query", "rows"} => Fresh(Absent, known[t])
  /\ task[t].pc = "done" \/ (\E i \in DOMAIN answers : answers[i] = t) =>
       Fresh(task[t].row, known[t])

AllFresh == /\ RedisFresh /\ CacheFresh
            /\ \A k \in DOMAIN answers : AnswerFresh(k)
            /\ \A t \in Task : ReadFresh(t)

FInv == Base /\ (~ undone => AllFresh)

----------------------------------------------------------------------------
\* What stays of written when a step is taken: its elements and their rows, and
\* what is new was not there.
Grows ==
  /\ \A i \in DOMAIN written :
       /\ i \in DOMAIN written' /\ written'[i] = written[i]
       /\ task'[written[i]].row = task[written[i]].row
  /\ \A i \in DOMAIN written' : i \in DOMAIN written \/ written'[i] \notin Changes

LEMMA FreshStays ==
  ASSUME Grows, NEW v, NEW K, K \subseteq Changes, Fresh(v, K)
  PROVE  Fresh(v, K)'
  BY DEF Grows, Fresh

LEMMA FreshLess ==
  ASSUME NEW v, NEW K, NEW L, L \subseteq K, Fresh(v, K)
  PROVE  Fresh(v, L)
  BY DEF Fresh

\* What was written last is as fresh as can be.
LEMMA FreshTop ==
  ASSUME IInv, RedisFresh, NEW K, K \subseteq Changes, K # {}
  PROVE  Fresh(redis, K)
<1>1. written \in Seq(Nat) /\ written # <<>>
  BY DEF IInv, TypeInv, Changes, ToSet
<1>2. Len(written) \in DOMAIN written /\ \A j \in DOMAIN written : j <= Len(written)
  BY <1>1
<1>3. redis = task[written[Len(written)]].row
  BY <1>1 DEF RedisFresh
<1>. QED  BY <1>2, <1>3 DEF Fresh

\* A change writes its row.
LEMMA WrittenRow ==
  ASSUME NEW t, Kind(t)
  PROVE  Written(t) = task[t].row
  BY DEF Kind, Written

LEMMA WrittenIsChange ==
  ASSUME NEW i \in DOMAIN written
  PROVE  written[i] \in Changes
  BY DEF Changes, ToSet

----------------------------------------------------------------------------
\* A request t moves, and what it has written to redis stays.
LEMMA BaseStays ==
  ASSUME Base, NEW t \in Nat, Task' = Task \cup {t},
         \A u \in Task : u # t => task'[u] = task[u],
         UNCHANGED <<written, syncing>>, Knowns', Kind(t)',
         t \in Changes =>
           task'[t].pc \in {"done", "failed"} /\ task'[t].row = task[t].row,
         \A j \in DOMAIN commands' :
           \/ commands'[j] = t /\ t \notin Changes
           \/ \E i \in DOMAIN commands : commands'[j] = commands[i]
  PROVE  Base' /\ Grows
<1>1. Changes' = Changes /\ Suffix'
  BY DEF Changes, Base, Suffix
<1>2. Changers'
  <2>. SUFFICES ASSUME NEW u \in Changes
       PROVE  /\ u \in Task' /\ task'[u].pc \in Change \cup {"done", "failed"}
              /\ \A i \in DOMAIN commands' : commands'[i] # u
    BY <1>1 DEF Changers
  <2>1. /\ u \in Task /\ task[u].pc \in Change \cup {"done", "failed"}
        /\ \A i \in DOMAIN commands : commands[i] # u
    BY DEF Base, Changers
  <2>2. task'[u].pc \in Change \cup {"done", "failed"}
    BY <2>1
  <2>3. \A i \in DOMAIN commands' : commands'[i] # u
    BY <2>1
  <2>. QED  BY <2>1, <2>2, <2>3
<1>3. \A u \in Task' : Kind(u)'
  <2>. SUFFICES ASSUME NEW u \in Task, u # t PROVE Kind(u)'
    OBVIOUS
  <2>1. Kind(u) /\ task'[u] = task[u]
    BY DEF Base
  <2>. QED  BY <2>1 DEF Kind
<1>4. Grows
  <2>. SUFFICES ASSUME NEW i \in DOMAIN written
       PROVE  task'[written[i]].row = task[written[i]].row
    BY DEF Grows
  <2>1. written[i] \in Changes /\ written[i] \in Task
    BY WrittenIsChange DEF Base, Changers
  <2>. QED  BY <2>1
<1>. QED  BY <1>1, <1>2, <1>3, <1>4 DEF Base

\* A read that does not move is as fresh as it was.
LEMMA ReadStays ==
  ASSUME Base, Grows, NEW u \in Task, ReadFresh(u), task'[u] = task[u], known'[u] = known[u],
         \A i \in DOMAIN answers' : answers'[i] = u => \E j \in DOMAIN answers : answers[j] = u
  PROVE  ReadFresh(u)'
<1>1. PICK K : K = known[u] /\ K \subseteq Changes
  BY DEF Base, Knowns
<1>2. PICK v : v = task[u].row
  OBVIOUS
<1>3. Fresh(Absent, K) => Fresh(Absent, K)'
  BY <1>1, FreshStays DEF Absent
<1>4. Fresh(v, K) => Fresh(v, K)'
  BY <1>1, FreshStays
<1>5. task'[u].op = "get" /\ known'[u] # {} =>
       /\ task'[u].pc \in {"query", "rows"} => Fresh(Absent, K)'
       /\ task'[u].pc = "done" \/ (\E i \in DOMAIN answers' : answers'[i] = u) => Fresh(v, K)'
  BY <1>1, <1>2, <1>3, <1>4 DEF ReadFresh
<1>6. task'[u].row = v /\ known'[u] = K
  BY <1>1, <1>2
<1>. QED  BY <1>5, <1>6 DEF ReadFresh, Absent

\* A step of a request that has not changed redis, and whose answer does not
\* arrive or set out: only what it has read itself is to be looked at.
LEMMA QuietFresh ==
  ASSUME IInv, Base, AllFresh, Grows, NEW t, Task' = Task \cup {t}, t \notin Changes,
         \A i \in DOMAIN answers : answers[i] # t,
         \A u \in Task : u # t => task'[u] = task[u] /\ known'[u] = known[u],
         UNCHANGED <<redis, answers, written>>, recordset' \in {recordset, Absent},
         ReadFresh(t)'
  PROVE  AllFresh'
<1>. USE DEF AllFresh
<1>1. \A u \in Changes : u # t /\ u \in Task /\ task'[u] = task[u]
  BY DEF Base, Changers
<1>2. Changes' = Changes /\ Done' = Done /\ \A k : Due(k)' = Due(k)
  BY <1>1 DEF Changes, Done, Due
<1>3. RedisFresh'
  <2>1. written # <<>> => Len(written) \in DOMAIN written
    BY DEF IInv, TypeInv
  <2>. QED  BY <1>1, <2>1, WrittenIsChange DEF RedisFresh
<1>4. CacheFresh'
  <2>. SUFFICES ASSUME recordset' # Absent, Done # {} PROVE Fresh(recordset, Done)'
    BY <1>2 DEF CacheFresh, Absent
  <2>1. PICK v, K : v = recordset /\ K = Done
    OBVIOUS
  <2>2. Fresh(v, K) /\ K \subseteq Changes
    BY <2>1 DEF CacheFresh, Done
  <2>3. Fresh(v, K)'
    BY <2>2, FreshStays
  <2>. QED  BY <1>2, <2>1, <2>3
<1>5. ASSUME NEW k \in DOMAIN answers' PROVE AnswerFresh(k)'
  <2>1. PICK v, K : v = task[answers[k]].row /\ K = Due(k)
    OBVIOUS
  <2>2. answers[k] \in Task /\ answers[k] # t /\ task'[answers[k]] = task[answers[k]]
    BY DEF IInv, Places
  <2>3. task'[answers'[k]].row = v /\ Due(k)' = K /\ Void(answers[k])' = Void(answers[k])
    BY <1>2, <2>1, <2>2 DEF Void
  <2>4. K \subseteq Changes
    BY <2>1 DEF Due
  <2>5. Fresh(v, K) => Fresh(v, K)'
    BY <2>4, FreshStays
  <2>. QED  BY <2>1, <2>3, <2>5 DEF AnswerFresh
<1>6. ASSUME NEW u \in Task, u # t PROVE ReadFresh(u)'
  BY <1>6, ReadStays
<1>. QED  BY <1>3, <1>4, <1>5, <1>6

----------------------------------------------------------------------------
\* Where a handler leaves its request, whose row is v if it was a read.
Sets(t, op, v) ==
  \E pc \in {"checked", "failed", "done", "insert", "update", "delete", "read"}, row \in Nat :
    /\ Set(t, op, pc, row)
    /\ pc = "update" => row = t
    /\ pc = "delete" => row = Absent
    /\ op = "get" => pc = "read" \/ (pc = "done" /\ row = v)
    /\ commands' = commands \/ commands' = Append(commands, t)

LEMMA AfterSets ==
  ASSUME NEW t \in Nat, NEW op, NEW row \in Nat, After(t, op, row)
  PROVE  Sets(t, op, row)
  BY DEF After, Sets, End, Ask, Absent

LEMMA GetSets ==
  ASSUME TypeInv, NEW t \in Nat, NEW op, Get(t, op)
  PROVE  Sets(t, op, recordset)
<1>1. CASE recordset # Absent
  BY <1>1, AfterSets DEF Get, TypeInv
<1>2. CASE Ask(t, op, "read", Absent)
  <2>1. Set(t, op, "read", Absent) /\ commands' = Append(commands, t) /\ Absent \in Nat
    BY <1>2 DEF Ask, Absent
  <2>2. "read" # "update" /\ "read" # "delete"
    OBVIOUS
  <2>. QED  BY <2>1, <2>2 DEF Sets
<1>. QED  BY <1>1, <1>2 DEF Get

LEMMA CheckedSets ==
  ASSUME NEW t \in Nat, NEW op \in {"rename", "roleinit"}, NEW v, Update(t, op) \/ Add(t, op)
  PROVE  Sets(t, op, v)
  BY DEF Update, Add, Sets, End, Ask, Absent

\* What that is for its request and for the others.
LEMMA SetsTask ==
  ASSUME TypeInv, NEW t \in Task \cup {Len(task) + 1}, NEW op \in Op, NEW v, Sets(t, op, v)
  PROVE  /\ t \in Nat /\ Task' = Task \cup {t} /\ \A u \in Task : u # t => task'[u] = task[u]
         /\ Kind(t)'
         /\ task'[t].op = op /\ task'[t].pc \notin {"query", "rows"}
         /\ op = "get" => task'[t].pc = "read" \/ task'[t].row = v
         /\ \A j \in DOMAIN commands' :
              commands'[j] = t \/ \E i \in DOMAIN commands : commands'[j] = commands[i]
<1>1. PICK pc \in {"checked", "failed", "done", "insert", "update", "delete", "read"},
           row \in Nat :
        /\ Set(t, op, pc, row)
        /\ pc = "update" => row = t
        /\ pc = "delete" => row = Absent
        /\ op = "get" => pc = "read" \/ (pc = "done" /\ row = v)
        /\ commands' = commands \/ commands' = Append(commands, t)
  BY DEF Sets
<1>2. pc \in PC
  BY <1>1 DEF PC, Change
<1>3. /\ Task' = Task \cup {t} /\ task'[t] = [op |-> op, pc |-> pc, row |-> row]
      /\ \A u \in Task : u # t => task'[u] = task[u]
  BY <1>1, <1>2, SetTask
<1>4. t \in Nat /\ commands \in Seq(Nat)
  BY TaskType DEF TypeInv
<1>5. Kind(t)'
  BY <1>1, <1>3 DEF Kind, Absent, Change
<1>6. \A j \in DOMAIN commands' :
        commands'[j] = t \/ \E i \in DOMAIN commands : commands'[j] = commands[i]
  <2>1. CASE commands' = Append(commands, t)
    <3>1. /\ DOMAIN commands' = 1 .. Len(commands) + 1 /\ DOMAIN commands = 1 .. Len(commands)
          /\ Len(commands) \in Nat /\ commands'[Len(commands) + 1] = t
          /\ \A i \in 1 .. Len(commands) : commands'[i] = commands[i]
      BY <1>4, <2>1, Appended
    <3>2. \A j \in 1 .. Len(commands) + 1 : j = Len(commands) + 1 \/ j \in 1 .. Len(commands)
      BY <3>1
    <3>. QED  BY <3>1, <3>2
  <2>. QED  BY <1>1, <2>1
<1>. QED  BY <1>1, <1>3, <1>4, <1>5, <1>6

\* A new request knows the changes that are answered; a row from the cache is
\* as fresh.
LEMMA RequestFInv ==
  ASSUME IInv, FInv, Request
  PROVE  FInv'
<1>. USE DEF FInv
<1>0. PICK t : t = Len(task) + 1
  OBVIOUS
<1>1. t \in Nat /\ t \notin Task /\ Ops \subseteq Op /\ TypeInv /\ Task = 1 .. Len(task)
      /\ Len(task) \in Nat
  BY <1>0, TaskType, UserCacheAssumption DEF IInv, Op
<1>2. PICK op \in Ops :
        /\ \/ End(t, op, "done", Absent) /\ recordset' = Absent /\ op = "unload"
           \/ Ask(t, op, "delete", Absent) /\ UNCHANGED recordset /\ op = "delete"
           \/ Get(t, op) /\ UNCHANGED recordset
        /\ known' = Append(known, {u \in Task : Finished(u)})
        /\ UNCHANGED <<redis, mysql, syncing, answers, behind, written, undone>>
  BY <1>0 DEF Request
<1>3. {u \in Task : Finished(u)} = Done
  BY DEF Finished, Done, Changes, Base, Changers
<1>4. Sets(t, op, recordset)
  <2>1. CASE End(t, op, "done", Absent) /\ op = "unload"
    <3>1. Set(t, op, "done", Absent) /\ commands' = commands /\ Absent \in Nat
      BY <2>1 DEF End, Absent
    <3>. QED  BY <2>1, <3>1 DEF Sets
  <2>2. CASE Ask(t, op, "delete", Absent) /\ op = "delete"
    <3>1. Set(t, op, "delete", Absent) /\ commands' = Append(commands, t) /\ Absent \in Nat
      BY <2>2 DEF Ask, Absent
    <3>. QED  BY <2>2, <3>1 DEF Sets
  <2>. QED  BY <1>1, <1>2, <2>1, <2>2, GetSets
<1>5. t \in Task \cup {Len(task) + 1} /\ op \in Op
  BY <1>0, <1>1, <1>2
<1>6. /\ Task' = Task \cup {t} /\ \A u \in Task : u # t => task'[u] = task[u]
      /\ Kind(t)' /\ task'[t].op = op /\ task'[t].pc \notin {"query", "rows"}
      /\ op = "get" => task'[t].pc = "read" \/ task'[t].row = recordset
      /\ \A j \in DOMAIN commands' :
           commands'[j] = t \/ \E i \in DOMAIN commands : commands'[j] = commands[i]
  BY <1>1, <1>4, <1>5, SetsTask
<1>7. ASSUME op = "get", recordset = Absent PROVE task'[t].pc = "read"
  <2>1. Set(t, op, "read", Absent)
    BY <1>2, <1>7 DEF Get, Ask
  <2>2. "read" \in PC /\ Absent \in Nat
    BY DEF PC, Absent
  <2>3. task'[t] = [op |-> op, pc |-> "read", row |-> Absent]
    BY <1>1, <1>5, <2>1, <2>2, SetTask
  <2>. QED  BY <2>3
<1>8. t \notin Changes /\ Changes \subseteq Nat /\ \A i \in DOMAIN answers : answers[i] # t
  BY <1>1 DEF Base, Changers, IInv, Places
<1>9. /\ known' \in Seq(SUBSET Nat) /\ DOMAIN known' = Task \cup {t} /\ known'[t] = Done
      /\ \A u \in Task : known'[u] = known[u]
  <2>1. known \in Seq(SUBSET Nat) /\ DOMAIN known = 1 .. Len(task) /\ Done \in SUBSET Nat
    BY <1>1, <1>8 DEF Base, Knowns, Done
  <2>2. Len(known) = Len(task)
    BY <1>1, <2>1
  <2>3. /\ known' \in Seq(SUBSET Nat)
        /\ DOMAIN known' = 1 .. Len(known) + 1
        /\ \A i \in 1 .. Len(known) : known'[i] = known[i]
        /\ known'[Len(known) + 1] = Done
    BY <1>2, <1>3, <2>1, Appended
  <2>. QED  BY <1>0, <1>1, <2>1, <2>2, <2>3
<1>10. Base' /\ Grows
  <2>1. Knowns'
    <3>1. Changes' = Changes /\ Done \subseteq Changes
      BY <1>2 DEF Changes, Done
    <3>. QED  BY <1>6, <1>9, <3>1 DEF Knowns, Base
  <2>. QED  BY <1>1, <1>2, <1>6, <1>8, <2>1, BaseStays
<1>11. ASSUME AllFresh PROVE AllFresh'
  <2>1. PICK v, K : v = recordset /\ K = Done
    OBVIOUS
  <2>2. ReadFresh(t)'
    <3>. SUFFICES ASSUME op = "get", K # {}, task'[t].pc = "done"
         PROVE  Fresh(v, K)' /\ task'[t].row = v
      BY <1>2, <1>6, <1>8, <1>9, <2>1 DEF ReadFresh
    <3>1. recordset # Absent
      BY <1>7
    <3>2. Fresh(v, K) /\ K \subseteq Changes
      BY <1>11, <2>1, <3>1 DEF AllFresh, CacheFresh, Done
    <3>. QED  BY <1>6, <1>10, <2>1, <3>2, FreshStays
  <2>. QED  BY <1>2, <1>6, <1>8, <1>9, <1>10, <1>11, <2>2, QuietFresh
<1>. QED  BY <1>2, <1>10, <1>11

----------------------------------------------------------------------------
\* The steps that only move a request which is not answered yet.
LEMMA QuietFInv ==
  ASSUME IInv, FInv, NEW t \in Task, Task' = Task, t \notin Changes,
         \A i \in DOMAIN answers : answers[i] # t,
         \A u \in Task : u # t => task'[u] = task[u],
         UNCHANGED <<recordset, redis, answers, syncing, written, known, undone>>,
         Kind(t)',
         \A j \in DOMAIN commands' :
           commands'[j] = t \/ \E i \in DOMAIN commands : commands'[j] = commands[i],
         AllFresh /\ Grows => ReadFresh(t)'
  PROVE  FInv'
<1>. USE DEF FInv
<1>1. t \in Nat /\ Task' = Task \cup {t}
  BY TaskType DEF IInv
<1>2. Knowns'
  BY DEF Base, Knowns, Changes
<1>3. Base' /\ Grows
  BY <1>1, <1>2, BaseStays
<1>4. ASSUME AllFresh PROVE AllFresh'
  BY <1>1, <1>3, <1>4, QuietFresh
<1>. QED  BY <1>3, <1>4

LEMMA CheckedFInv ==
  ASSUME IInv, FInv, NEW t \in Task, Checked(t)
  PROVE  FInv'
<1>1. TypeInv /\ t \in Nat /\ {"rename", "roleinit"} \subseteq Op
  BY TaskType DEF IInv, Op
<1>2. PICK op \in {"rename", "roleinit"} : Update(t, op) \/ Add(t, op)
  BY DEF Checked
<1>3. Sets(t, op, Absent)
  BY <1>1, <1>2, CheckedSets
<1>4. /\ Task' = Task \cup {t} /\ \A u \in Task : u # t => task'[u] = task[u]
      /\ Kind(t)' /\ task'[t].op = op
      /\ \A j \in DOMAIN commands' :
           commands'[j] = t \/ \E i \in DOMAIN commands : commands'[j] = commands[i]
  BY <1>1, <1>2, <1>3, SetsTask
<1>5. task[t].pc = "checked" /\ t \notin Changes /\ \A i \in DOMAIN answers : answers[i] # t
  BY DEF Checked, FInv, Base, Changers, Change, IInv, Places
<1>6. ReadFresh(t)'
  BY <1>4 DEF ReadFresh
<1>. QED  BY <1>4, <1>5, <1>6, QuietFInv DEF Checked, history

\* Where a request of dbmgr goes on.
LEMMA SetAt ==
  ASSUME IInv, NEW t \in Task, NEW pc \in PC, NEW row \in Nat, Set(t, task[t].op, pc, row)
  PROVE  /\ Task' = Task /\ \A u \in Task : u # t => task'[u] = task[u]
         /\ task'[t].op = task[t].op /\ task'[t].pc = pc /\ task'[t].row = row
<1>1. TypeInv /\ task[t].op \in Op
  BY TaskType DEF IInv
<1>2. /\ Task' = Task \cup {t} /\ \A u \in Task : u # t => task'[u] = task[u]
      /\ task'[t] = [op |-> task[t].op, pc |-> pc, row |-> row]
  BY <1>1, SetTask
<1>. QED  BY <1>2

LEMMA QueryFInv ==
  ASSUME IInv, FInv, NEW t \in Task, Query(t)
  PROVE  FInv'
<1>1. mysql \in Nat /\ "rows" \in PC /\ Set(t, task[t].op, "rows", mysql)
  BY DEF IInv, TypeInv, PC, Query
<1>2. /\ Task' = Task /\ \A u \in Task : u # t => task'[u] = task[u]
      /\ task'[t].op = task[t].op /\ task'[t].pc = "rows"
  BY <1>1, SetAt
<1>3. task[t].pc = "query" /\ t \notin Changes /\ \A i \in DOMAIN answers : answers[i] # t
  BY DEF Query, FInv, Base, Changers, Change, IInv, Places
<1>4. Kind(t)'
  BY <1>2 DEF Kind, Change
<1>5. ASSUME AllFresh, Grows PROVE ReadFresh(t)'
  <2>1. PICK K : K = known[t] /\ K \subseteq Changes
    BY DEF FInv, Base, Knowns
  <2>2. task[t].op = "get" /\ K # {} => Fresh(Absent, K)'
    BY <1>3, <1>5, <2>1, FreshStays DEF AllFresh, ReadFresh, Absent
  <2>3. known'[t] = K /\ answers' = answers
    BY <2>1 DEF Query, history, services
  <2>. QED  BY <1>2, <1>3, <2>2, <2>3 DEF ReadFresh, Absent
<1>. QED  BY <1>2, <1>3, <1>4, <1>5, QuietFInv DEF Query, history, services

----------------------------------------------------------------------------
\* The answer of t sets out.
LEMMA AnsweredFresh ==
  ASSUME IInv, Base, AllFresh, Grows, NEW t \in Task, Task' = Task,
         \A i \in DOMAIN answers : answers[i] # t,
         \A u \in Task : u # t => task'[u] = task[u],
         task[t].pc # "done", task'[t].pc # "done",
         answers' = Append(answers, t), UNCHANGED <<recordset, written, known>>,
         NEW n \in Nat, n = Len(answers),
         RedisFresh', AnswerFresh(n + 1)', ReadFresh(t)'
  PROVE  AllFresh'
<1>. USE DEF AllFresh
<1>1. t \in Nat /\ answers \in Seq(Nat)
  BY TaskType DEF IInv, TypeInv
<1>2. /\ DOMAIN answers' = 1 .. n + 1 /\ DOMAIN answers = 1 .. n
      /\ answers'[n + 1] = t /\ \A i \in 1 .. n : answers'[i] = answers[i]
  BY <1>1, Appended
<1>3. Changes' = Changes /\ \A u \in Changes : u \in Task
  BY DEF Changes, Base, Changers
<1>4. Done' = Done
  BY <1>3 DEF Done
<1>5. ASSUME NEW k \in 1 .. n PROVE Due(k)' = Due(k)
  <2>. SUFFICES ASSUME NEW u \in Changes PROVE u \in Due(k)' <=> u \in Due(k)
    BY <1>3 DEF Due
  <2>1. (\E j \in DOMAIN answers' : j <= k /\ answers'[j] = u)
          <=> (\E j \in DOMAIN answers : j <= k /\ answers[j] = u)
    <3>1. \A j \in 1 .. n + 1 : j <= k => j \in 1 .. n
      OBVIOUS
    <3>2. \A j \in 1 .. n : j \in 1 .. n + 1
      OBVIOUS
    <3>. QED  BY <1>2, <3>1, <3>2
  <2>2. CASE u = t
    BY <1>2, <1>3, <2>1, <2>2 DEF Due
  <2>3. CASE u # t
    BY <1>3, <2>1, <2>3 DEF Due
  <2>. QED  BY <2>2, <2>3
<1>6. CacheFresh'
  <2>. SUFFICES ASSUME recordset # Absent, Done # {} PROVE Fresh(recordset, Done)'
    BY <1>4 DEF CacheFresh, Absent
  <2>1. PICK v, K : v = recordset /\ K = Done
    OBVIOUS
  <2>2. Fresh(v, K) /\ K \subseteq Changes
    BY <2>1 DEF CacheFresh, Done
  <2>3. Fresh(v, K)'
    BY <2>2, FreshStays
  <2>. QED  BY <1>4, <2>1, <2>3
<1>7. ASSUME NEW k \in 1 .. n PROVE AnswerFresh(k)'
  <2>1. PICK v, K : v = task[answers[k]].row /\ K = Due(k)
    OBVIOUS
  <2>2. answers[k] \in Task /\ answers[k] # t /\ task'[answers[k]] = task[answers[k]]
    BY <1>2 DEF IInv, Places
  <2>3. /\ answers'[k] = answers[k] /\ task'[answers'[k]].row = v /\ Due(k)' = K
        /\ Void(answers[k])' = Void(answers[k])
    BY <1>2, <1>5, <2>1, <2>2 DEF Void
  <2>4. K \subseteq Changes
    BY <2>1 DEF Due
  <2>5. Fresh(v, K) => Fresh(v, K)'
    BY <2>4, FreshStays
  <2>6. AnswerFresh(k)
    BY <1>2
  <2>. QED  BY <2>1, <2>3, <2>5, <2>6 DEF AnswerFresh
<1>8. ASSUME NEW u \in Task, u # t PROVE ReadFresh(u)'
  <2>1. \A i \in DOMAIN answers' : answers'[i] = u => \E j \in DOMAIN answers : answers[j] = u
    <3>1. \A i \in 1 .. n + 1 : i = n + 1 \/ i \in 1 .. n
      OBVIOUS
    <3>. QED  BY <1>2, <1>8, <3>1
  <2>2. known'[u] = known[u] /\ task'[u] = task[u] /\ ReadFresh(u)
    BY <1>8
  <2>. QED  BY <2>1, <2>2, ReadStays
<1>9. \A k \in DOMAIN answers' : AnswerFresh(k)'
  <2>1. \A k \in 1 .. n + 1 : k = n + 1 \/ k \in 1 .. n
    OBVIOUS
  <2>. QED  BY <1>2, <1>7, <2>1
<1>. QED  BY <1>6, <1>8, <1>9

\* load_data_impl: a row that was found nowhere is none that a change known to
\* the read has left.
LEMMA LoadFInv ==
  ASSUME IInv, FInv, NEW t \in Task, Load(t)
  PROVE  FInv'
<1>1. task[t].pc = "rows" /\ t \notin Changes /\ \A i \in DOMAIN answers : answers[i] # t
  BY DEF Load, FInv, Base, Changers, Change, IInv, Places
<1>2. t \in Nat /\ task[t].row \in Nat /\ {"read", "store"} \subseteq PC /\ Absent \in Nat
  BY TaskType DEF IInv, PC, Absent
<1>3. CASE task[t].row = Absent
  <2>1. /\ Set(t, task[t].op, "read", Absent) /\ answers' = Append(answers, t)
        /\ UNCHANGED <<recordset, redis, commands, syncing, written, known, undone>>
    BY <1>3 DEF Load, history
  <2>2. /\ Task' = Task /\ \A u \in Task : u # t => task'[u] = task[u]
        /\ task'[t].op = task[t].op /\ task'[t].pc = "read" /\ task'[t].row = Absent
    BY <1>2, <2>1, SetAt
  <2>3. Kind(t)' /\ Void(t)'
    BY <2>2 DEF Kind, Void, Change
  <2>4. Knowns'
    BY <2>1, <2>2 DEF FInv, Base, Knowns, Changes
  <2>5. Base' /\ Grows
    BY <1>1, <1>2, <2>1, <2>2, <2>3, <2>4, BaseStays DEF FInv
  <2>6. ASSUME AllFresh PROVE AllFresh'
    <3>1. PICK n \in Nat : n = Len(answers)
      BY DEF IInv, TypeInv
    <3>2. answers'[n + 1] = t
      BY <1>2, <2>1, <3>1, Appended DEF IInv, TypeInv
    <3>3. AnswerFresh(n + 1)'
      BY <2>3, <3>2 DEF AnswerFresh, Void
    <3>4. RedisFresh'
      <4>1. written # <<>> => Len(written) \in DOMAIN written
        BY DEF IInv, TypeInv
      <4>. QED  BY <2>1, <2>5, <2>6, <4>1 DEF RedisFresh, Grows, AllFresh
    <3>5. ReadFresh(t)'
      <4>1. PICK K : K = known[t] /\ K \subseteq Changes
        BY DEF FInv, Base, Knowns
      <4>2. task[t].op = "get" /\ K # {} => Fresh(Absent, K)'
        BY <1>1, <2>5, <2>6, <4>1, FreshStays DEF AllFresh, ReadFresh, Absent
      <4>3. known'[t] = K
        BY <2>1, <4>1
      <4>. QED  BY <2>2, <4>2, <4>3 DEF ReadFresh, Absent
    <3>. QED  BY <1>1, <2>1, <2>2, <2>5, <2>6, <3>1, <3>3, <3>4, <3>5, AnsweredFresh DEF FInv
  <2>. QED  BY <2>1, <2>5, <2>6 DEF FInv
<1>4. CASE task[t].row # Absent
  <2>1. /\ Set(t, task[t].op, "store", task[t].row) /\ commands' = Append(commands, t)
        /\ UNCHANGED <<recordset, redis, answers, syncing, written, known, undone>>
    BY <1>4 DEF Load, Ask, history
  <2>2. /\ Task' = Task /\ \A u \in Task : u # t => task'[u] = task[u]
        /\ task'[t].pc = "store"
    BY <1>2, <2>1, SetAt
  <2>3. Kind(t)'
    BY <2>2 DEF Kind, Change
  <2>4. \A j \in DOMAIN commands' :
          commands'[j] = t \/ \E i \in DOMAIN commands : commands'[j] = commands[i]
    <3>1. /\ DOMAIN commands' = 1 .. Len(commands) + 1 /\ DOMAIN commands = 1 .. Len(commands)
          /\ Len(commands) \in Nat /\ commands'[Len(commands) + 1] = t
          /\ \A i \in 1 .. Len(commands) : commands'[i] = commands[i]
      BY <1>2, <2>1, Appended DEF IInv, TypeInv
    <3>2. \A j \in 1 .. Len(commands) + 1 : j = Len(commands) + 1 \/ j \in 1 .. Len(commands)
      BY <3>1
    <3>. QED  BY <3>1, <3>2
  <2>5. ReadFresh(t)'
    BY <1>1, <2>1, <2>2 DEF ReadFresh
  <2>. QED  BY <1>1, <2>1, <2>2, <2>3, <2>4, <2>5, QuietFInv
<1>. QED  BY <1>3, <1>4

----------------------------------------------------------------------------
\* The request at the head of commands has changed nothing yet.
LEMMA HeadUnwritten ==
  ASSUME IInv, Base, commands # <<>>, commands' = Tail(commands), NEW t, t = Head(commands)
  PROVE  /\ t \notin Changes /\ \A i \in DOMAIN answers : answers[i] # t
         /\ \A j \in DOMAIN commands' : \E i \in DOMAIN commands : commands'[j] = commands[i]
<1>1. /\ \A i \in DOMAIN answers : answers[i] # t
      /\ \A j \in DOMAIN commands' : j + 1 \in DOMAIN commands /\ commands'[j] = commands[j + 1]
  BY HeadCommand
<1>2. commands \in Seq(Nat)
  BY DEF IInv, TypeInv
<1>3. 1 \in DOMAIN commands /\ commands[1] = t
  BY <1>2, Tailed
<1>. QED  BY <1>1, <1>3 DEF Base, Changers

\* redis has no row: the last change that the read knows of, or one after it,
\* was a deletion.
LEMMA MissFInv ==
  ASSUME IInv, FInv, commands # <<>>, commands' = Tail(commands),
         NEW t \in Task, t = Head(commands), Set(t, task[t].op, "query", Absent),
         redis = Absent,
         UNCHANGED <<recordset, redis, answers, syncing, written, known, undone>>
  PROVE  FInv'
<1>1. "query" \in PC /\ Absent \in Nat
  BY DEF PC, Absent
<1>2. /\ Task' = Task /\ \A u \in Task : u # t => task'[u] = task[u]
      /\ task'[t].op = task[t].op /\ task'[t].pc = "query"
  BY <1>1, SetAt
<1>3. /\ t \notin Changes /\ \A i \in DOMAIN answers : answers[i] # t
      /\ \A j \in DOMAIN commands' : \E i \in DOMAIN commands : commands'[j] = commands[i]
  BY HeadUnwritten DEF FInv
<1>4. Kind(t)'
  BY <1>2 DEF Kind, Change
<1>5. ASSUME AllFresh, Grows PROVE ReadFresh(t)'
  <2>1. PICK K : K = known[t] /\ K \subseteq Changes
    BY DEF FInv, Base, Knowns
  <2>2. K # {} => Fresh(Absent, K)
    BY <1>5, <2>1, FreshTop DEF AllFresh
  <2>3. K # {} => Fresh(Absent, K)'
    BY <1>5, <2>1, <2>2, FreshStays DEF Absent
  <2>4. known'[t] = K
    BY <2>1
  <2>. QED  BY <1>2, <1>3, <2>3, <2>4 DEF ReadFresh, Absent
<1>. QED  BY <1>2, <1>3, <1>4, <1>5, QuietFInv

\* A row is read, or stored when it is the one that was written last: it is as
\* fresh as can be.
LEMMA HitFInv ==
  ASSUME IInv, FInv, commands # <<>>, commands' = Tail(commands),
         NEW t \in Task, t = Head(commands), NEW row \in Nat,
         Set(t, task[t].op, "read", row), answers' = Append(answers, t), redis' = row,
         UNCHANGED <<recordset, syncing, written, known>>,
         ~ undone' => /\ ~ undone
                      /\ redis = row \/ written = <<>> \/ row = Written(written[Len(written)])
  PROVE  FInv'
<1>1. "read" \in PC /\ t \in Nat
  BY TaskType DEF IInv, PC
<1>2. /\ Task' = Task /\ \A u \in Task : u # t => task'[u] = task[u]
      /\ task'[t].op = task[t].op /\ task'[t].pc = "read" /\ task'[t].row = row
  BY <1>1, SetAt
<1>3. /\ t \notin Changes /\ \A i \in DOMAIN answers : answers[i] # t
      /\ \A j \in DOMAIN commands' : \E i \in DOMAIN commands : commands'[j] = commands[i]
  BY HeadUnwritten DEF FInv
<1>4. Kind(t)'
  BY <1>2 DEF Kind, Change
<1>5. Knowns'
  BY <1>2 DEF FInv, Base, Knowns, Changes
<1>6. Base' /\ Grows
  BY <1>1, <1>2, <1>3, <1>4, <1>5, BaseStays DEF FInv
<1>7. ASSUME ~ undone' PROVE AllFresh'
  <2>1. AllFresh
    BY <1>7 DEF FInv
  <2>2. written # <<>> => Len(written) \in DOMAIN written
    BY DEF IInv, TypeInv
  <2>3. written # <<>> => redis = row
    <3>. SUFFICES ASSUME written # <<>>, row = Written(written[Len(written)])
         PROVE  redis = row
      BY <1>7
    <3>1. written[Len(written)] \in Changes
      BY <2>2, WrittenIsChange
    <3>2. Kind(written[Len(written)])
      BY <3>1 DEF FInv, Base, Changers
    <3>. QED  BY <2>1, <3>2, WrittenRow DEF AllFresh, RedisFresh
  <2>4. ASSUME NEW K, K \subseteq Changes, K # {} PROVE Fresh(row, K)'
    <3>1. written # <<>>
      BY <2>4 DEF Changes, ToSet
    <3>2. Fresh(row, K)
      BY <2>1, <2>3, <2>4, <3>1, FreshTop DEF AllFresh
    <3>. QED  BY <1>6, <2>4, <3>2, FreshStays
  <2>5. PICK n \in Nat : n = Len(answers)
    BY DEF IInv, TypeInv
  <2>6. AnswerFresh(n + 1)'
    <3>1. answers'[n + 1] = t
      BY <1>1, <2>5, Appended DEF IInv, TypeInv
    <3>2. PICK K : K = Due(n + 1)'
      OBVIOUS
    <3>3. K \subseteq Changes
      BY <3>2 DEF Due, Changes
    <3>. QED  BY <1>2, <2>4, <3>1, <3>2, <3>3 DEF AnswerFresh
  <2>7. RedisFresh'
    BY <1>6, <2>1, <2>2, <2>3 DEF RedisFresh, Grows, AllFresh
  <2>8. ReadFresh(t)'
    <3>1. PICK K : K = known[t] /\ K \subseteq Changes
      BY DEF FInv, Base, Knowns
    <3>. QED  BY <1>2, <2>4, <3>1 DEF ReadFresh
  <2>9. task[t].pc # "done" /\ task'[t].pc # "done"
    BY <1>2, HeadCommand DEF Change
  <2>. QED  BY <1>2, <1>3, <1>6, <2>1, <2>5, <2>6, <2>7, <2>8, <2>9, AnsweredFresh DEF FInv
<1>. QED  BY <1>6, <1>7 DEF FInv

\* redis is changed: nothing that is answered is newer, and nothing else moves.
LEMMA ChangedFInv ==
  ASSUME IInv, FInv, commands # <<>>, commands' = Tail(commands),
         NEW t \in Task, t = Head(commands), task[t].pc \in Change,
         redis' = Written(t), written' = Append(written, t),
         syncing' = Append(syncing, t),
         UNCHANGED <<recordset, task, answers, known, undone>>
  PROVE  FInv'
<1>1. /\ t \notin Changes /\ \A i \in DOMAIN answers : answers[i] # t
      /\ \A j \in DOMAIN commands' : \E i \in DOMAIN commands : commands'[j] = commands[i]
      /\ \A j \in DOMAIN commands' : commands'[j] # t
  BY HeadUnwritten, HeadCommand DEF FInv
<1>2. t \in Nat /\ written \in Seq(Nat) /\ syncing \in Seq(Nat)
  BY TaskType DEF IInv, TypeInv
<1>3. /\ DOMAIN written' = 1 .. Len(written) + 1 /\ DOMAIN written = 1 .. Len(written)
      /\ Len(written) \in Nat /\ Len(written') = Len(written) + 1
      /\ written'[Len(written) + 1] = t
      /\ \A i \in 1 .. Len(written) : written'[i] = written[i]
  BY <1>2, Appended
<1>4. \A i \in 1 .. Len(written) + 1 : i = Len(written) + 1 \/ i \in 1 .. Len(written)
  BY <1>3
<1>5. \A i \in 1 .. Len(written) : i \in 1 .. Len(written) + 1
  BY <1>3
<1>6. Changes' = Changes \cup {t}
  <2>1. Len(written) + 1 \in 1 .. Len(written) + 1
    BY <1>3
  <2>. QED  BY <1>3, <1>4, <1>5, <2>1 DEF Changes, ToSet
<1>7. Grows
  BY <1>1, <1>3, <1>4, <1>5 DEF Grows
<1>8. Base'
  <2>1. Knowns'
    BY <1>6 DEF FInv, Base, Knowns, Task
  <2>2. Changers'
    BY <1>1, <1>6 DEF FInv, Base, Changers, Task
  <2>3. Suffix'
    <3>1. PICK n \in Nat :
            /\ Len(written) = n + Len(syncing)
            /\ \A i \in DOMAIN syncing : n + i \in DOMAIN written /\ syncing[i] = written[n + i]
      BY DEF FInv, Base, Suffix
    <3>2. /\ DOMAIN syncing' = 1 .. Len(syncing) + 1 /\ DOMAIN syncing = 1 .. Len(syncing)
          /\ Len(syncing) \in Nat /\ Len(syncing') = Len(syncing) + 1
          /\ syncing'[Len(syncing) + 1] = t
          /\ \A i \in 1 .. Len(syncing) : syncing'[i] = syncing[i]
      BY <1>2, Appended
    <3>3. Len(written') = n + Len(syncing')
      BY <1>3, <3>1, <3>2
    <3>4. ASSUME NEW i \in DOMAIN syncing'
          PROVE  n + i \in DOMAIN written' /\ syncing'[i] = written'[n + i]
      <4>1. CASE i \in 1 .. Len(syncing)
        BY <1>3, <1>5, <3>1, <3>2, <4>1
      <4>2. CASE i = Len(syncing) + 1
        <5>1. n + i = Len(written) + 1
          BY <3>1, <3>2, <4>2
        <5>. QED  BY <1>3, <3>2, <4>2, <5>1
      <4>3. i \in 1 .. Len(syncing) \/ i = Len(syncing) + 1
        BY <3>2
      <4>. QED  BY <4>1, <4>2, <4>3
    <3>. QED  BY <3>3, <3>4 DEF Suffix
  <2>4. \A u \in Task' : Kind(u)'
    BY DEF FInv, Base, Kind, Task
  <2>. QED  BY <2>1, <2>2, <2>3, <2>4 DEF Base
<1>9. ASSUME AllFresh PROVE AllFresh'
  <2>1. Done' = Done /\ \A k : Due(k)' = Due(k)
    BY <1>1, <1>6 DEF Done, Due, Change
  <2>2. RedisFresh'
    <3>1. Kind(t)
      BY DEF FInv, Base
    <3>2. redis' = task[t].row
      BY <3>1, WrittenRow
    <3>. QED  BY <1>3, <3>2 DEF RedisFresh
  <2>3. CacheFresh'
    <3>1. PICK v, K : v = recordset /\ K = Done
      OBVIOUS
    <3>2. recordset # Absent /\ Done # {} => Fresh(v, K)'
      BY <1>7, <1>9, <3>1, FreshStays DEF AllFresh, CacheFresh, Done
    <3>3. recordset' = v /\ Done' = K
      BY <2>1, <3>1
    <3>. QED  BY <3>1, <3>2, <3>3 DEF CacheFresh, Absent
  <2>4. ASSUME NEW k \in DOMAIN answers' PROVE AnswerFresh(k)'
    <3>1. PICK v, K : v = task[answers[k]].row /\ K = Due(k)
      OBVIOUS
    <3>2. ~ Void(answers[k]) /\ K # {} => Fresh(v, K)'
      BY <1>7, <1>9, <3>1, FreshStays DEF AllFresh, AnswerFresh, Due
    <3>3. task'[answers'[k]].row = v /\ Due(k)' = K /\ Void(answers[k])' = Void(answers[k])
      BY <2>1, <3>1 DEF Void
    <3>. QED  BY <3>2, <3>3 DEF AnswerFresh
  <2>5. ASSUME NEW u \in Task PROVE ReadFresh(u)'
    BY <1>7, <1>9, ReadStays DEF AllFresh, FInv
  <2>6. Task' = Task
    BY DEF Task
  <2>. QED  BY <2>2, <2>3, <2>4, <2>5, <2>6 DEF AllFresh
<1>. QED  BY <1>8, <1>9 DEF FInv

LEMMA ExecuteFInv ==
  ASSUME IInv, FInv, Execute
  PROVE  FInv'
<1>1. commands # <<>> /\ commands' = Tail(commands)
  BY DEF Execute
<1>2. PICK t \in Task : t = Head(commands)
  BY <1>1, HeadCommand
<1>3. UNCHANGED <<recordset, mysql, behind, known>>
  BY DEF Execute
<1>4. redis \in Nat /\ task[t].row \in Nat
  BY TaskType DEF IInv, TypeInv
<1>5. CASE /\ task[t].pc = "read" /\ redis = Absent
           /\ Set(t, task[t].op, "query", Absent) /\ UNCHANGED answers
           /\ UNCHANGED <<redis, syncing, written, undone>>
  BY <1>1, <1>2, <1>3, <1>5, MissFInv
<1>6. CASE /\ task[t].pc = "read" /\ redis # Absent
           /\ Set(t, task[t].op, "read", redis) /\ answers' = Append(answers, t)
           /\ UNCHANGED <<redis, syncing, written, undone>>
  BY <1>1, <1>2, <1>3, <1>4, <1>6, HitFInv
<1>7. CASE /\ task[t].pc \in Change /\ redis' = Written(t)
           /\ written' = Append(written, t) /\ syncing' = Append(syncing, t)
           /\ UNCHANGED <<task, answers, undone>>
  BY <1>1, <1>2, <1>3, <1>7, ChangedFInv
<1>8. CASE /\ task[t].pc = "store" /\ redis' = task[t].row
           /\ undone' = (undone \/ /\ written # <<>>
                                   /\ task[t].row # Written(Last(written)))
           /\ Set(t, task[t].op, "read", task[t].row)
           /\ answers' = Append(answers, t) /\ UNCHANGED <<syncing, written>>
  <2>1. ~ undone' => ~ undone /\ (written = <<>> \/ task[t].row = Written(written[Len(written)]))
    BY <1>8 DEF Last
  <2>. QED  BY <1>1, <1>2, <1>3, <1>4, <1>8, <2>1, HitFInv
<1>. QED  BY <1>2, <1>5, <1>6, <1>7, <1>8 DEF Execute, Change

----------------------------------------------------------------------------
\* A change sets out to be answered: those after it still wait for dbsync, so
\* that nothing which is answered by then was made after it.
LEMMA SyncFInv ==
  ASSUME IInv, FInv, Sync
  PROVE  FInv'
<1>1. syncing \in Seq(Nat) /\ syncing # <<>>
  BY DEF Sync, IInv, TypeInv
<1>2. PICK t \in Task : t = Head(syncing) /\ t = syncing[1] /\ task[t].pc \in Change
  BY <1>1 DEF IInv, Places
<1>3. /\ syncing' = Tail(syncing) /\ answers' = Append(answers, t)
      /\ UNCHANGED <<recordset, redis, task, commands, known, written, undone>>
  BY <1>2 DEF Sync, history
<1>4. /\ Len(syncing') = Len(syncing) - 1 /\ Len(syncing) \in Nat /\ Len(syncing) >= 1
      /\ DOMAIN syncing' = 1 .. Len(syncing) - 1 /\ DOMAIN syncing = 1 .. Len(syncing)
      /\ \A i \in DOMAIN syncing' : syncing'[i] = syncing[i + 1]
  BY <1>1, <1>3, Tailed
<1>5. PICK m \in Nat :
        /\ Len(written) = m + Len(syncing)
        /\ \A i \in DOMAIN syncing : m + i \in DOMAIN written /\ syncing[i] = written[m + i]
  BY DEF FInv, Base, Suffix
<1>6. \A i \in DOMAIN answers : answers[i] # t
  <2>1. 1 \in DOMAIN syncing
    BY <1>4
  <2>. QED  BY <1>2, <2>1 DEF IInv, OnePlace
<1>7. Grows
  BY <1>3 DEF Grows
<1>8. Suffix'
  <2>1. m + 1 \in Nat /\ Len(written') = (m + 1) + Len(syncing')
    <3>1. Len(written') = Len(written)
      BY <1>3
    <3>2. m + Len(syncing) = (m + 1) + (Len(syncing) - 1)
      BY <1>4
    <3>. QED  BY <1>4, <1>5, <3>1, <3>2
  <2>2. ASSUME NEW i \in DOMAIN syncing'
        PROVE  (m + 1) + i \in DOMAIN written' /\ syncing'[i] = written'[(m + 1) + i]
    <3>1. i \in Nat /\ i + 1 \in DOMAIN syncing /\ m + (i + 1) = (m + 1) + i
      BY <1>4
    <3>. QED  BY <1>3, <1>4, <1>5, <3>1
  <2>. QED  BY <2>1, <2>2 DEF Suffix
<1>9. Base'
  BY <1>3, <1>8 DEF FInv, Base, Knowns, Changers, Changes, Kind, Task
<1>10. ASSUME AllFresh PROVE AllFresh'
  <2>1. PICK n \in Nat : n = Len(answers)
    BY DEF IInv, TypeInv
  <2>2. /\ answers \in Seq(Nat) /\ t \in Nat
        /\ DOMAIN answers' = 1 .. n + 1 /\ DOMAIN answers = 1 .. n
        /\ answers'[n + 1] = t /\ \A i \in 1 .. n : answers'[i] = answers[i]
    <3>1. answers \in Seq(Nat) /\ t \in Nat
      BY TaskType DEF IInv, TypeInv
    <3>. QED  BY <1>3, <2>1, <3>1, Appended
  <2>3. 1 \in DOMAIN syncing /\ m + 1 \in DOMAIN written /\ written[m + 1] = t
    BY <1>2, <1>4, <1>5
  <2>4. ASSUME NEW j \in DOMAIN written, j > m + 1 PROVE written[j] \notin Due(n + 1)'
    <3>1. /\ j - m \in DOMAIN syncing /\ j - m # 1
          /\ syncing[j - m] = written[j]
      <4>1. DOMAIN written = 1 .. Len(written) /\ Len(written) \in Nat
        BY DEF IInv, TypeInv
      <4>2. j - m \in 1 .. Len(syncing) /\ j - m # 1 /\ m + (j - m) = j
        BY <1>4, <1>5, <2>4, <4>1
      <4>. QED  BY <1>4, <1>5, <4>2
    <3>2. task[written[j]].pc \in Change /\ written[j] # t
      BY <1>2, <2>3, <3>1 DEF IInv, Places, OnePlace
    <3>3. \A i \in DOMAIN answers : answers[i] # written[j]
      BY <3>1 DEF IInv, OnePlace
    <3>4. \A i \in 1 .. n + 1 : i = n + 1 \/ i \in 1 .. n
      OBVIOUS
    <3>5. \A i \in DOMAIN answers' : answers'[i] # written[j]
      BY <2>2, <3>2, <3>3, <3>4
    <3>. QED  BY <1>3, <3>2, <3>5 DEF Due, Change
  <2>5. Fresh(task[t].row, Due(n + 1))'
    <3>1. PICK K : K = Due(n + 1)'
      OBVIOUS
    <3>2. \A j \in DOMAIN written : written[j] \in K => j <= m + 1
      <4>1. \A j \in DOMAIN written : j \in Nat
        BY DEF IInv, TypeInv
      <4>. QED  BY <2>4, <3>1, <4>1
    <3>. QED  BY <1>3, <2>3, <3>1, <3>2 DEF Fresh
  <2>6. AnswerFresh(n + 1)'
    BY <2>2, <2>5 DEF AnswerFresh
  <2>7. RedisFresh'
    BY <1>3, <1>10 DEF AllFresh, RedisFresh
  <2>8. ReadFresh(t)'
    BY <1>2, <1>3 DEF ReadFresh, FInv, Base, Kind
  <2>9. Task' = Task /\ \A u \in Task : task'[u] = task[u]
    BY <1>3 DEF Task
  <2>10. task[t].pc # "done" /\ task'[t].pc # "done"
    BY <1>2, <1>3 DEF Change
  <2>. QED  BY <1>3, <1>6, <1>7, <1>10, <2>1, <2>6, <2>7, <2>8, <2>9, <2>10, AnsweredFresh DEF FInv
<1>. QED  BY <1>3, <1>9, <1>10 DEF FInv

----------------------------------------------------------------------------
\* What an answer does to its request: one that has changed redis keeps its row.
LEMMA AnswerTask ==
  ASSUME IInv, FInv, Answer, NEW t \in Task, t = Head(answers)
  PROVE  /\ Task' = Task /\ \A u \in Task : u # t => task'[u] = task[u]
         /\ Kind(t)' /\ task'[t].pc \notin {"query", "rows"}
         /\ task'[t].op = "get" => /\ task[t].op = "get"
                                   /\ task'[t].pc = "read" \/ task'[t].row = task[t].row
         /\ t \in Changes =>
              /\ task[t].pc \in Change /\ task'[t].pc \in {"done", "failed"}
              /\ task'[t].row = task[t].row
         /\ \A j \in DOMAIN commands' :
              \/ commands'[j] = t /\ t \notin Changes
              \/ \E i \in DOMAIN commands : commands'[j] = commands[i]
<1>1. task[t].pc \in Change \cup {"read"} /\ answers # <<>> /\ TypeInv /\ Kind(t)
  BY HeadAnswer DEF IInv, Places, Answer, FInv, Base
<1>2. t \in Nat /\ task[t].op \in Op /\ task[t].row \in Nat
  BY <1>1, TaskType
<1>3. t \in Changes => task[t].pc \in Change
  BY <1>1 DEF FInv, Base, Changers
<1>4. CASE task[t].pc = "read"
  <2>1. After(t, task[t].op, task[t].row)
    BY <1>4 DEF Answer
  <2>2. Sets(t, task[t].op, task[t].row)
    BY <1>2, <2>1, AfterSets
  <2>3. /\ Task' = Task \cup {t} /\ \A u \in Task : u # t => task'[u] = task[u]
        /\ Kind(t)' /\ task'[t].op = task[t].op /\ task'[t].pc \notin {"query", "rows"}
        /\ task[t].op = "get" => task'[t].pc = "read" \/ task'[t].row = task[t].row
        /\ \A j \in DOMAIN commands' :
             commands'[j] = t \/ \E i \in DOMAIN commands : commands'[j] = commands[i]
    BY <1>1, <1>2, <2>2, SetsTask
  <2>4. t \notin Changes
    BY <1>3, <1>4 DEF Change
  <2>. QED  BY <2>3, <2>4
<1>5. CASE task[t].pc \in Change
  <2>1. PICK pc \in {"done", "failed"} : End(t, task[t].op, pc, task[t].row)
    <3>1. CASE task[t].pc = "update" /\ recordset = Absent
      <4>1. task[t].row = t
        BY <1>1, <3>1 DEF Kind
      <4>. QED  BY <3>1, <4>1 DEF Answer
    <3>2. CASE ~ (task[t].pc = "update" /\ recordset = Absent)
      BY <1>5, <3>2 DEF Answer, Change
    <3>. QED  BY <3>1, <3>2
  <2>2. pc \in PC /\ Set(t, task[t].op, pc, task[t].row) /\ commands' = commands
    BY <2>1 DEF PC, End
  <2>3. /\ Task' = Task /\ \A u \in Task : u # t => task'[u] = task[u]
        /\ task'[t].op = task[t].op /\ task'[t].pc = pc /\ task'[t].row = task[t].row
    BY <1>2, <2>2, SetAt
  <2>4. Kind(t)'
    BY <2>3 DEF Kind, Change
  <2>. QED  BY <1>5, <2>2, <2>3, <2>4
<1>. QED  BY <1>1, <1>4, <1>5

\* An answer arrives: the changes that are answered now were due with it.
LEMMA AnswerFInv ==
  ASSUME IInv, FInv, Answer
  PROVE  FInv'
<1>1. /\ answers # <<>> /\ answers' = Tail(answers)
      /\ UNCHANGED <<redis, syncing, known, written, undone>>
  BY DEF Answer, history
<1>2. PICK t \in Task : t = Head(answers) /\ t = answers[1]
  BY <1>1, HeadAnswer
<1>3. /\ 1 \in DOMAIN answers
      /\ \A i \in DOMAIN answers' :
           i \in Nat /\ i + 1 \in DOMAIN answers /\ answers'[i] = answers[i + 1]
             /\ answers'[i] # t
  BY <1>1, <1>2, HeadAnswer
<1>4. /\ Task' = Task /\ \A u \in Task : u # t => task'[u] = task[u]
      /\ Kind(t)' /\ task'[t].pc \notin {"query", "rows"}
      /\ task'[t].op = "get" => /\ task[t].op = "get"
                                /\ task'[t].pc = "read" \/ task'[t].row = task[t].row
      /\ t \in Changes =>
           /\ task[t].pc \in Change /\ task'[t].pc \in {"done", "failed"}
           /\ task'[t].row = task[t].row
      /\ \A j \in DOMAIN commands' :
           \/ commands'[j] = t /\ t \notin Changes
           \/ \E i \in DOMAIN commands : commands'[j] = commands[i]
  BY <1>2, AnswerTask
<1>5. Changes' = Changes /\ \A u \in Changes : u \in Task
  BY <1>1 DEF FInv, Base, Changers, Changes
<1>6. Base' /\ Grows
  <2>1. Knowns'
    BY <1>1, <1>4, <1>5 DEF FInv, Base, Knowns
  <2>2. t \in Nat /\ Task' = Task \cup {t}
    BY <1>4, TaskType DEF IInv
  <2>3. t \in Changes => task'[t].pc \in {"done", "failed"} /\ task'[t].row = task[t].row
    BY <1>4
  <2>. QED  BY <1>1, <1>4, <2>1, <2>2, <2>3, BaseStays DEF FInv
<1>7. ASSUME NEW u \in Done' PROVE u \in Due(1)
  BY <1>2, <1>3, <1>4, <1>5, <1>7 DEF Done, Due
<1>8. ASSUME t \notin Changes, NEW u \in Done' PROVE u \in Done
  BY <1>4, <1>5, <1>8 DEF Done
<1>9. ASSUME NEW k \in Nat, k >= 1, NEW u \in Due(k)' PROVE u \in Due(k + 1)
  <2>1. u \in Changes /\ u \in Task
    BY <1>5, <1>9 DEF Due
  <2>2. CASE u = t
    <3>1. 1 <= k + 1
      BY <1>9
    <3>. QED  BY <1>2, <1>3, <1>4, <2>1, <2>2, <3>1 DEF Due
  <2>3. CASE u # t
    <3>1. task'[u] = task[u]
      BY <1>4, <2>1, <2>3
    <3>2. ASSUME NEW j \in DOMAIN answers', j <= k, answers'[j] = u
          PROVE  \E i \in DOMAIN answers : i <= k + 1 /\ answers[i] = u
      <4>1. j + 1 \in DOMAIN answers /\ answers[j + 1] = u /\ j + 1 <= k + 1
        BY <1>3, <3>2
      <4>. QED  BY <4>1
    <3>. QED  BY <1>9, <2>1, <3>1, <3>2 DEF Due
  <2>. QED  BY <2>2, <2>3
<1>10. ASSUME AllFresh PROVE AllFresh'
  <2>1. RedisFresh'
    <3>1. written # <<>> => Len(written) \in DOMAIN written
      BY DEF IInv, TypeInv
    <3>. QED  BY <1>1, <1>6, <1>10, <3>1 DEF RedisFresh, Grows, AllFresh
  <2>2. CacheFresh'
    <3>. SUFFICES ASSUME recordset' # Absent, Done' # {} PROVE Fresh(recordset, Done)'
      BY DEF CacheFresh, Absent
    <3>1. PICK v, K : v = recordset' /\ K = Done'
      OBVIOUS
    <3>2. K \subseteq Changes /\ K # {}
      BY <1>5, <3>1 DEF Done
    <3>3. Fresh(v, K)
      <4>1. CASE Void(t)
        <5>1. t \notin Changes
          BY <1>4, <4>1 DEF Void, Change
        <5>2. K \subseteq Done /\ v = recordset
          BY <1>2, <1>8, <3>1, <4>1, <5>1, AnswerCache
        <5>3. Fresh(v, Done)
          BY <1>10, <3>1, <3>2, <5>2 DEF AllFresh, CacheFresh
        <5>. QED  BY <5>2, <5>3, FreshLess
      <4>2. CASE ~ Void(t)
        <5>1. v = task[t].row
          BY <1>2, <3>1, <4>2, AnswerCache
        <5>2. K \subseteq Due(1)
          BY <1>7, <3>1
        <5>3. Fresh(v, Due(1))
          BY <1>2, <1>3, <1>10, <3>2, <4>2, <5>1, <5>2 DEF AllFresh, AnswerFresh
        <5>. QED  BY <5>2, <5>3, FreshLess
      <4>. QED  BY <4>1, <4>2
    <3>4. Fresh(v, K)'
      BY <1>6, <3>2, <3>3, FreshStays
    <3>. QED  BY <3>1, <3>4
  <2>3. ASSUME NEW k \in DOMAIN answers' PROVE AnswerFresh(k)'
    <3>1. k \in Nat /\ k >= 1 /\ k + 1 \in DOMAIN answers /\ answers'[k] = answers[k + 1]
          /\ answers'[k] # t
      <4>1. answers' \in Seq(Nat)
        BY <1>1, HeadAnswer
      <4>. QED  BY <1>3, <4>1
    <3>2. PICK v, K : v = task[answers[k + 1]].row /\ K = Due(k)'
      OBVIOUS
    <3>3. answers[k + 1] \in Task /\ task'[answers'[k]] = task[answers[k + 1]]
      BY <1>4, <3>1 DEF IInv, Places
    <3>4. K \subseteq Due(k + 1) /\ K \subseteq Changes
      BY <1>5, <1>9, <3>1, <3>2 DEF Due
    <3>5. ~ Void(answers[k + 1]) /\ K # {} => Fresh(v, Due(k + 1))
      BY <1>10, <3>1, <3>2, <3>4 DEF AllFresh, AnswerFresh
    <3>6. ~ Void(answers[k + 1]) /\ K # {} => Fresh(v, K)'
      BY <1>6, <3>4, <3>5, FreshLess, FreshStays
    <3>7. Void(answers[k])' = Void(answers[k + 1]) /\ task'[answers'[k]].row = v
      BY <3>2, <3>3 DEF Void
    <3>. QED  BY <3>2, <3>6, <3>7 DEF AnswerFresh
  <2>4. ReadFresh(t)'
    <3>. SUFFICES ASSUME task[t].op = "get", known[t] # {}, task'[t].row = task[t].row
         PROVE  Fresh(task[t].row, known[t])'
      BY <1>1, <1>3, <1>4 DEF ReadFresh
    <3>1. PICK v, K : v = task[t].row /\ K = known[t]
      OBVIOUS
    <3>2. Fresh(v, K) /\ K \subseteq Changes
      BY <1>2, <1>3, <1>10, <3>1 DEF AllFresh, ReadFresh, FInv, Base, Knowns
    <3>3. Fresh(v, K)'
      BY <1>6, <3>2, FreshStays
    <3>. QED  BY <1>1, <3>1, <3>3
  <2>5. ASSUME NEW u \in Task, u # t PROVE ReadFresh(u)'
    <3>1. \A i \in DOMAIN answers' : answers'[i] = u => \E j \in DOMAIN answers : answers[j] = u
      BY <1>3
    <3>2. task'[u] = task[u] /\ known'[u] = known[u]
      BY <1>1, <1>4, <2>5
    <3>. QED  BY <1>6, <1>10, <2>5, <3>1, <3>2, ReadStays DEF AllFresh, FInv
  <2>. QED  BY <1>4, <2>1, <2>2, <2>3, <2>4, <2>5 DEF AllFresh
<1>. QED  BY <1>1, <1>6, <1>10 DEF FInv

----------------------------------------------------------------------------
LEMMA InitFInv == Init => FInv
<1>. SUFFICES ASSUME Init PROVE FInv
  OBVIOUS
<1>1. /\ Task = {} /\ Changes = {} /\ DOMAIN answers = {} /\ written = <<>>
      /\ known = <<>> /\ syncing = <<>> /\ recordset = Absent /\ DOMAIN syncing = {}
  BY DEF Init, Task, Changes, ToSet
<1>2. Knowns
  BY <1>1 DEF Knowns
<1>3. Suffix
  <2>1. Len(written) = 0 + Len(syncing) /\ 0 \in Nat
    BY <1>1
  <2>. QED  BY <1>1, <2>1 DEF Suffix
<1>4. Base
  BY <1>1, <1>2, <1>3 DEF Base, Changers
<1>. QED  BY <1>1, <1>4 DEF FInv, AllFresh, RedisFresh, CacheFresh

LEMMA NextFInv == IInv /\ FInv /\ [Next]_vars => FInv'
<1>. SUFFICES ASSUME IInv, FInv, [Next]_vars PROVE FInv'
  OBVIOUS
<1>1. CASE Request
  BY <1>1, RequestFInv
<1>2. ASSUME NEW t \in Task, Handle(t) PROVE FInv'
  BY <1>2, CheckedFInv, QueryFInv, LoadFInv DEF Handle
<1>3. CASE Answer
  BY <1>3, AnswerFInv
<1>4. CASE Execute
  BY <1>4, ExecuteFInv
<1>5. CASE Sync
  BY <1>5, SyncFInv
<1>6. CASE Behind \/ UNCHANGED vars
  <2>1. UNCHANGED <<recordset, redis, task, commands, syncing, answers, written, known, undone>>
    BY <1>6 DEF Behind, vars, services, history
  <2>2. Base'
    BY <2>1 DEF FInv, Base, Knowns, Changers, Changes, Suffix, Kind, Task
  <2>3. ASSUME AllFresh PROVE AllFresh'
    BY <2>1, <2>3 DEF AllFresh, RedisFresh, CacheFresh, AnswerFresh, ReadFresh, Fresh, Done,
                      Due, Void, Changes, Task
  <2>. QED  BY <2>1, <2>2, <2>3 DEF FInv
<1>. QED  BY <1>1, <1>2, <1>3, <1>4, <1>5, <1>6 DEF Next

LEMMA FInvSuffices == FInv => FreshReads
<1>. SUFFICES ASSUME FInv, ~ undone, NEW t \in Task,
                     task[t].op = "get", task[t].pc = "done", known[t] # {}
              PROVE  \E i \in DOMAIN written :
                       /\ Written(written[i]) = task[t].row
                       /\ \A j \in DOMAIN written : written[j] \in known[t] => j <= i
  BY DEF FreshReads
<1>1. Fresh(task[t].row, known[t])
  BY DEF FInv, AllFresh, ReadFresh
<1>2. \A i \in DOMAIN written : Written(written[i]) = task[written[i]].row
  BY WrittenIsChange, WrittenRow DEF FInv, Base, Changers
<1>. QED  BY <1>1, <1>2 DEF Fresh

\* A request that reads sees every change that was answered before it began,
\* whether its row comes from the cache, from redis or from mysql, for any
\* number of requests of any kind at once, as long as no load from mysql has
\* undone a change (UserSingleEntity.lua, dbmgr.lua, userdc.lua).
THEOREM ReadsAreFresh == Spec => []FreshReads
<1>. QED  BY InitIInv, NextIInv, InitFInv, NextFInv, FInvSuffices, PTL DEF Spec
=============================================================================
