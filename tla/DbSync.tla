------------------------------- MODULE DbSync -------------------------------
(***************************************************************************)
(* The write-behind path of the data layer.  dbmgr changes a row in redis  *)
(* and hands the SQL statement to the dbsync service, which keeps it in a  *)
(* Lua table; a coroutine of dbsync traverses the table every five seconds *)
(* and has mysqlpool execute what it finds (common/dbmgr.lua 415-538,      *)
(* common/dbsync.lua, common/mysqlpool.lua).                               *)
(*                                                                         *)
(* The table has holes while it is traversed, and Lua promises little then:*)
(* table.insert() takes any border of the table, pairs() any order, and a  *)
(* traversal during which a key was added may miss keys.  All that is left *)
(* open here.  The redis commands about one row keep their order (one      *)
(* connection), and mostly the statements too; those of different rows     *)
(* need not.  A row has one field, which every insert and update writes;   *)
(* its value is the number of the change that wrote it.                    *)
(*                                                                         *)
(* The entities ask for any change of any row: they look for it in their   *)
(* cache, which says nothing of the changes that are under way.            *)
(***************************************************************************)
EXTENDS Naturals, FiniteSets, Sequences, SequencesExt

CONSTANTS
  Row,        \* rows, by primary key
  MaxConn,    \* mysql_maxconn, at least 2 (mysqlpool.lua 26-27)
  MaxChange,  \* bound: changes of rows
  MaxRead,    \* bound: queries that read
  InOrder     \* whether a traversal takes the keys in ascending order

ASSUME DbSyncAssumption ==
  /\ MaxConn \in Nat /\ MaxConn >= 2
  /\ MaxChange \in Nat /\ MaxRead \in Nat
  /\ InOrder \in BOOLEAN

VARIABLES
  redis,     \* the value of each row in redis, 0 if there is none
  mysql,     \* and in mysql
  changes,   \* the number of changes made so far
  about,     \* the row each of them was about
  found,     \* what each finds in mysql if all before it were executed in order
  due,       \* what all changes of a row leave of it then
  stray,     \* rows with an insert or update that was not made for what redis had
  sending,   \* statements on their way from dbmgr to dbsync
  queue,     \* the Lua table: a function from the keys it has
  pc, key,   \* where sync_impl is, and its loop variable
  grown,     \* whether a key was added since its traversal began
  executed,  \* the numbers of the statements executed, in that order
  index,     \* mysqlpool: the connection the next query takes
  reads      \* queries that read so far

issued == <<changes, about, found, due, stray>>
syncer == <<pc, key>>
pool == <<index, reads>>
vars == <<redis, mysql, issued, sending, queue, syncer, grown, executed, pool>>

Absent == 0
Value == 0 .. MaxChange
Kind == {"insert", "update", "delete"}
Statement == [n : 1 .. MaxChange, kind : Kind, row : Row]

NoKey == 0
Keys == DOMAIN queue

TypeOK ==
  /\ redis \in [Row -> Value] /\ mysql \in [Row -> Value]
  /\ changes \in Value /\ about \in [1 .. changes -> Row]
  /\ found \in [1 .. changes -> Value] /\ due \in [Row -> Value]
  /\ stray \subseteq Row
  /\ sending \subseteq Statement
  /\ Keys \subseteq Nat \ {0} /\ IsFiniteSet(Keys)
  /\ \A k \in Keys : queue[k] \in Statement
  /\ pc \in {"sleep", "call", "done", "dead"}
  /\ key \in Nat /\ (pc \in {"call", "done"} => key \in Keys)
  /\ grown \in BOOLEAN
  /\ executed \in Seq(1 .. MaxChange)
  /\ index \in 2 .. MaxConn
  /\ reads \in 0 .. MaxRead

Init ==
  /\ redis = [r \in Row |-> Absent] /\ mysql = redis
  /\ changes = 0 /\ about = <<>> /\ found = <<>>
  /\ due = mysql /\ stray = {}
  /\ sending = {}
  /\ queue = <<>>
  /\ pc = "sleep" /\ key = NoKey /\ grown = FALSE
  /\ executed = <<>>
  /\ index = 2 /\ reads = 0

\* Defects: a statement stays in the table when it was executed; no traversal
\* follows the first; a traversal clears the table when its first statement was
\* executed.
Cleared_Never(k) == queue
Interval_Once == pc = "sleep" /\ executed = <<>>
Cleared_All(k) == <<>>

----------------------------------------------------------------------------
(* dbmgr *)

\* What mysql does with a statement to a row with value v: an insert of a row
\* that is there is an error that nobody looks at, an update of one that is not
\* does nothing.
Effect(s, v) ==
  CASE s.kind = "insert" -> IF v = Absent THEN s.n ELSE v
    [] s.kind = "update" -> IF v = Absent THEN v ELSE s.n
    [] s.kind = "delete" -> Absent

\* A row that is not there is inserted, one that is there is updated.
Fits(kind, r) ==
  /\ kind = "insert" => redis[r] = Absent
  /\ kind = "update" => redis[r] # Absent

\* CMD.add, CMD.update, CMD.delete: redis first, then the statement is sent.
\* hmset and del do not look whether the row is there.
Change(kind, r) ==
  LET s == [n |-> changes + 1, kind |-> kind, row |-> r]
  IN  /\ changes < MaxChange
      /\ changes' = s.n
      /\ about' = Append(about, r)
      /\ found' = Append(found, due[r])
      /\ due' = [due EXCEPT ![r] = Effect(s, @)]
      /\ stray' = IF kind = "delete" THEN stray \ {r}
                  ELSE IF Fits(kind, r) THEN stray ELSE stray \cup {r}
      /\ redis' = [redis EXCEPT ![r] = IF kind = "delete" THEN Absent ELSE s.n]
      /\ sending' = sending \cup {s}
      /\ UNCHANGED <<mysql, queue, syncer, grown, executed, pool>>

----------------------------------------------------------------------------
(* dbsync *)

\* #queue: an index that is there, or 0, and whose successor is not.
Border(b) == b \in Keys \cup {0} /\ b + 1 \notin Keys

\* The statements about a row come in the order of its changes, except that
\* in a table with an index an insert or delete makes a second call of redis
\* before it is sent (dbmgr.lua:438, 489), and an update may overtake it.
Ready(s) == \A t \in sending : t.row = s.row /\ t.n < s.n =>
  s.kind = "update" /\ t.kind # "update"

\* CMD.sync: table.insert(queue, sql).
Sync(r) == \E s \in sending, b \in Keys \cup 0 .. Cardinality(Keys) :
  /\ s.row = r /\ Ready(s)
  /\ Border(b)
  /\ queue' = [k \in Keys \cup {b + 1} |-> IF k = b + 1 THEN s ELSE queue[k]]
  /\ sending' = sending \ {s}
  /\ grown' = TRUE
  /\ UNCHANGED <<redis, mysql, issued, syncer, executed, pool>>

\* next(): of a table t, the key after k, if there is one.  Lua leaves the
\* order open; the keys of the array part of a table, where dbsync's usually
\* are, come in ascending order.  A traversal ends when nothing is left of the
\* table, or before that when a key was added to it.
Follows(t, k) ==
  \/ \E j \in DOMAIN t :
       /\ InOrder => j > k /\ \A i \in DOMAIN t : i > k => j <= i
       /\ key' = j /\ pc' = "call"
  \/ /\ DOMAIN t = {} \/ grown'
     /\ InOrder => \A j \in DOMAIN t : j < k
     /\ key' = NoKey /\ pc' = "sleep"

\* skynet.sleep returns, and the next traversal begins.
Interval == pc = "sleep"

Wake ==
  /\ Interval
  /\ grown' = FALSE
  /\ Follows(queue, NoKey)
  /\ UNCHANGED <<redis, mysql, issued, sending, queue, executed, pool>>

\* mysqlpool.execute without `sync`: connections 2 to maxconn in turn.
NextIndex == IF index + 1 > MaxConn THEN 2 ELSE index + 1

Applied(s) == [mysql EXCEPT ![s.row] = Effect(s, @)]

Execute ==
  /\ pc = "call"
  /\ mysql' = Applied(queue[key])
  /\ executed' = Append(executed, queue[key].n)
  /\ index' = NextIndex
  /\ pc' = "done"
  /\ UNCHANGED <<redis, issued, sending, queue, key, grown, reads>>

\* The call returns: queue[k] = nil, and the traversal goes on at once.
Cleared(k) == [j \in Keys \ {k} |-> queue[j]]

Done ==
  /\ pc = "done"
  /\ queue' = Cleared(key)
  /\ UNCHANGED grown
  /\ Follows(queue', key)
  /\ UNCHANGED <<redis, mysql, issued, sending, executed, pool>>

\* The connection fails: the call raises an error, which ends sync_impl.
Fail ==
  /\ pc = "call"
  /\ pc' = "dead"
  /\ index' = NextIndex
  /\ \/ mysql' = Applied(queue[key]) /\ executed' = Append(executed, queue[key].n)
     \/ UNCHANGED <<mysql, executed>>
  /\ UNCHANGED <<redis, issued, sending, queue, key, grown, reads>>

\* A query that reads (load_data_impl and others) takes its turn.
Read ==
  /\ reads < MaxRead
  /\ reads' = reads + 1
  /\ index' = NextIndex
  /\ UNCHANGED <<redis, mysql, issued, sending, queue, syncer, grown, executed>>

SyncImpl == Wake \/ Execute \/ Done

Next ==
  \/ \E kind \in Kind, r \in Row : Change(kind, r)
  \/ \E r \in Row : Sync(r)
  \/ SyncImpl \/ Fail \/ Read

Spec == Init /\ [][Next]_vars

\* skynet delivers every message and resumes a coroutine whose answer is
\* there or whose time has come.
FairSpec == Spec /\ WF_vars(SyncImpl) /\ \A r \in Row : WF_vars(Sync(r))

----------------------------------------------------------------------------
(* Properties *)

\* Statement n is on its way to dbsync, or in the table and not yet executed.
Pending(n) ==
  \/ \E s \in sending : s.n = n
  \/ \E k \in Keys : queue[k].n = n /\ ~(pc = "done" /\ k = key)

\* Every statement is executed once: until then it is on its way or in the
\* table, under one key, and after that it is in neither.  No insertion
\* overwrites an entry and no traversal forgets one (dbsync.lua:15-22).  Only
\* a failure leaves it open whether its statement was executed.
ExecutedOnce ==
  /\ TypeOK
  /\ \A n \in 1 .. changes :
       \/ Pending(n) # (n \in ToSet(executed))
       \/ pc = "dead" /\ queue[key].n = n
  /\ \A j, k \in Keys : queue[j].n = queue[k].n => j = k
  /\ IsInjective(executed)

\* The statements about a row were executed in the order of its changes.
Ordered(r) == \A i, j \in DOMAIN executed :
  i < j /\ about[executed[i]] = r /\ about[executed[j]] = r
    => executed[i] < executed[j]

\* Every change of the row has been executed.
Settled(r) == \A n \in 1 .. changes : about[n] = r => ~Pending(n)

\* A row that dbsync has nothing left for, and whose statements it executed in
\* order, is in mysql what those statements say, whatever became of the other
\* rows; and that is what redis has, if each insert and update was made for a
\* row as redis had it then, or a delete has ended the matter since
\* (dbmgr.lua:416-538).
InOrderConverges == pc # "dead" =>
  \A r \in Row : Settled(r) /\ Ordered(r) =>
    /\ mysql[r] = due[r]
    /\ r \notin stray => mysql[r] = redis[r]

\* Every change is executed, unless the connection fails: no traversal that
\* ends early and no entry behind it leaves one in the table (dbsync.lua:18-26).
Drains == \A n \in 1 .. MaxChange :
  changes >= n ~> (n \in ToSet(executed) \/ pc = "dead")

\* "Update a row in redis, and sync it to mysql" (dbmgr.lua:501): a row that
\* dbsync has nothing left for is in mysql what it is in redis.  It is not:
\* a new statement may get a key behind the traversal and the next one a key
\* ahead of it, so that the older value is written last.
Converges == \A r \in Row : Settled(r) => mysql[r] = redis[r]
=============================================================================
