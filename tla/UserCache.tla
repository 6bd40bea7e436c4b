------------------------------ MODULE UserCache -----------------------------
(***************************************************************************)
(* The row of a player and where it is kept: the cache of the data centre  *)
(* userdc (UserSingleEntity.lua), redis, and mysql, which follows behind.  *)
(* userdc serves each request in a coroutine; one that has to ask dbmgr    *)
(* yields, and others run until its answer comes.  The commands about a    *)
(* player go through one connection to redis, and messages between two     *)
(* services keep their order: what is read from redis comes back in order. *)
(* What dbmgr loads from mysql does not, and neither does the answer to a  *)
(* change, which dbmgr has taken to dbsync first.                          *)
(*                                                                         *)
(* dbsync is taken to execute statements in order (module DbSync is about  *)
(* that).  A row is one field, its value the request that wrote it.        *)
(***************************************************************************)
EXTENDS Naturals, Sequences, SequencesExt

CONSTANTS
  Ops,    \* the requests that are made
  Tasks   \* bound: their number

ASSUME UserCacheAssumption ==
  /\ Ops \subseteq {"load", "get", "rename", "roleinit", "addvalue", "delete", "unload"}
  /\ Tasks \in Nat

VARIABLES
  recordset, \* the row in the cache of userdc
  redis, mysql,
  task,      \* the requests so far: [op, pc, row: what it has read or writes]
  commands,  \* tasks whose command is on its way to redis
  syncing,   \* tasks whose change is made and goes to dbsync
  answers,   \* tasks whose answer is on its way to userdc
  behind,    \* statements that dbsync has to execute
  written,   \* the tasks that have changed redis, in that order
  known,     \* for each task, those whose change was answered when it began
  undone     \* whether a row from mysql has replaced a change in redis

services == <<commands, syncing, answers, behind>>
history == <<written, known, undone>>
vars == <<recordset, redis, mysql, task, services, history>>

Task == DOMAIN task
Absent == 0
Old == Tasks + 1

Init ==
  /\ recordset = Absent /\ redis = Absent
  /\ mysql \in {Absent, Old}
  /\ task = <<>>
  /\ commands = <<>> /\ syncing = <<>> /\ answers = <<>> /\ behind = <<>>
  /\ written = <<>> /\ known = <<>> /\ undone = FALSE

----------------------------------------------------------------------------
(* userdc.  A handler runs up to its next call of dbmgr. *)

\* The request of task t, which may be a new one, is where pc says.
Set(t, op, pc, row) ==
  LET new == [op |-> op, pc |-> pc, row |-> row]
  IN  task' = IF t \in Task THEN [task EXCEPT ![t] = new] ELSE Append(task, new)

End(t, op, pc, row) == Set(t, op, pc, row) /\ UNCHANGED commands

\* It goes to dbmgr and at once to redis.
Ask(t, op, pc, row) == Set(t, op, pc, row) /\ commands' = Append(commands, t)

\* update: a row that is not in the cache is not changed.
Update(t, op) == IF recordset # Absent THEN Ask(t, op, "update", t)
                                       ELSE End(t, op, "done", Absent)

\* add: one that is there is not added.
Add(t, op) == IF recordset = Absent THEN Ask(t, op, "insert", t)
                                    ELSE End(t, op, "done", Absent)

\* What follows when the row is known: a role is renamed if there is one and
\* added if there is none, by modules that send another request for it; a
\* value is added to by the same handler, which fails when there is none.
After(t, op, row) ==
  CASE op = "rename" /\ row # Absent -> End(t, op, "checked", row)
    [] op = "roleinit" /\ row = Absent -> End(t, op, "checked", row)
    [] op = "addvalue" /\ row = Absent -> End(t, op, "failed", row)
    [] op = "addvalue" /\ row # Absent -> Ask(t, op, "update", t)
    [] OTHER -> End(t, op, "done", row)

\* load and get.
Get(t, op) == IF recordset # Absent THEN After(t, op, recordset)
                                    ELSE Ask(t, op, "read", Absent)

Finished(t) == task[t].pc = "done" /\ t \in ToSet(written)

Request == \E op \in Ops :
  LET t == Len(task) + 1
  IN  /\ t <= Tasks
      /\ CASE op = "unload" -> End(t, op, "done", Absent) /\ recordset' = Absent
           [] op = "delete" -> Ask(t, op, "delete", Absent) /\ UNCHANGED recordset
           [] OTHER -> Get(t, op) /\ UNCHANGED recordset
      /\ known' = Append(known, {u \in Task : Finished(u)})
      /\ UNCHANGED <<redis, mysql, syncing, answers, behind, written, undone>>

\* The second request of RoleRenameRequest and roleinit.
Checked(t) ==
  /\ task[t].pc = "checked"
  /\ IF task[t].op = "rename" THEN Update(t, "rename") ELSE Add(t, "roleinit")
  /\ UNCHANGED <<recordset, redis, mysql, syncing, answers, behind, history>>

\* An update is left to redis.
Cached_NotUpdated(t, row) ==
  CASE task[t].pc = "read" -> IF row = Absent THEN recordset ELSE row
    [] task[t].pc = "insert" -> row
    [] task[t].pc = "update" -> recordset
    [] task[t].pc = "delete" -> Absent

\* A deleted row stays in the cache.
Cached_NotDeleted(t, row) ==
  CASE task[t].pc = "read" -> IF row = Absent THEN recordset ELSE row
    [] task[t].pc \in {"insert", "update"} -> row
    [] task[t].pc = "delete" -> recordset

\* What is in the cache when a read or a change is answered.  A row that was
\* not found leaves it alone; a row that was unloaded cannot be updated.
Cached(t, row) ==
  CASE task[t].pc = "read" -> IF row = Absent THEN recordset ELSE row
    [] task[t].pc \in {"insert", "update"} -> row
    [] task[t].pc = "delete" -> Absent

Answer ==
  /\ answers # <<>>
  /\ answers' = Tail(answers)
  /\ LET t == Head(answers)
         row == task[t].row
     IN  IF task[t].pc = "update" /\ recordset = Absent
         THEN End(t, task[t].op, "failed", t) /\ UNCHANGED recordset
         ELSE /\ recordset' = Cached(t, row)
              /\ IF task[t].pc = "read" THEN After(t, task[t].op, row)
                                        ELSE End(t, task[t].op, "done", row)
  /\ UNCHANGED <<redis, mysql, syncing, behind, history>>

----------------------------------------------------------------------------
(* dbmgr and redis *)

\* hmset writes what it is given, del removes the key.
Written(t) == IF task[t].pc = "delete" THEN Absent ELSE task[t].row

\* The oldest command on its way is executed; its answer comes to dbmgr.
Execute == commands # <<>> /\
  LET t == Head(commands)
  IN  /\ commands' = Tail(commands)
      /\ \/ /\ task[t].pc = "read"
            /\ IF redis = Absent
               THEN Set(t, task[t].op, "query", Absent) /\ UNCHANGED answers
               ELSE Set(t, task[t].op, "read", redis) /\ answers' = Append(answers, t)
            /\ UNCHANGED <<redis, syncing, written, undone>>
         \/ /\ task[t].pc \in {"insert", "update", "delete"}
            /\ redis' = Written(t)
            /\ written' = Append(written, t)
            /\ syncing' = Append(syncing, t)
            /\ UNCHANGED <<task, answers, undone>>
         \/ /\ task[t].pc = "store"
            /\ redis' = task[t].row
            /\ undone' = (undone \/ /\ written # <<>>
                                    /\ task[t].row # Written(Last(written)))
            /\ Set(t, task[t].op, "read", task[t].row) /\ answers' = Append(answers, t)
            /\ UNCHANGED <<syncing, written>>
      /\ UNCHANGED <<recordset, mysql, behind, known>>

\* load_data_impl, when redis has no row: the query of mysql, and the hmset
\* of the row it has found, which both yield.
Query(t) ==
  /\ task[t].pc = "query"
  /\ Set(t, task[t].op, "rows", mysql)
  /\ UNCHANGED <<recordset, redis, mysql, services, history>>

Load(t) ==
  /\ task[t].pc = "rows"
  /\ IF task[t].row = Absent
     THEN Set(t, task[t].op, "read", Absent) /\ answers' = Append(answers, t) /\ UNCHANGED commands
     ELSE Ask(t, task[t].op, "store", task[t].row) /\ UNCHANGED answers
  /\ UNCHANGED <<recordset, redis, mysql, syncing, behind, history>>

\* A change is handed to dbsync before it is answered.
Sync ==
  /\ syncing # <<>>
  /\ syncing' = Tail(syncing)
  /\ LET t == Head(syncing)
     IN  /\ behind' = Append(behind, [kind |-> task[t].pc, row |-> Written(t)])
         /\ answers' = Append(answers, t)
  /\ UNCHANGED <<recordset, redis, mysql, task, commands, history>>

\* mysql: an insert of a row that is there is an error that nobody looks at,
\* an update of one that is not does nothing.
Applied(s) ==
  CASE s.kind = "insert" -> IF mysql = Absent THEN s.row ELSE mysql
    [] s.kind = "update" -> IF mysql = Absent THEN mysql ELSE s.row
    [] s.kind = "delete" -> Absent

Behind ==
  /\ behind # <<>>
  /\ behind' = Tail(behind)
  /\ mysql' = Applied(Head(behind))
  /\ UNCHANGED <<recordset, redis, task, commands, syncing, answers, history>>

Handle(t) == Checked(t) \/ Query(t) \/ Load(t)
Next == Request \/ (\E t \in Task : Handle(t)) \/ Answer \/ Execute \/ Sync \/ Behind

Spec == Init /\ [][Next]_vars

----------------------------------------------------------------------------
\* The requests that have not been answered.
Busy == {t \in Task : task[t].pc \notin {"done", "failed"}}

\* The cache is redis' row whenever no request is under way, whatever was
\* loaded, changed, unloaded and read in between, unless a load from mysql
\* has undone a change.
CacheIsRedis == Busy = {} /\ ~ undone => recordset \in {Absent, redis}

\* A request that reads sees every change that was answered before it began,
\* from wherever the row came, unless a load has undone one.
FreshReads == ~ undone => \A t \in Task :
  task[t].op = "get" /\ task[t].pc = "done" /\ known[t] # {} =>
    \E i \in DOMAIN written :
      /\ Written(written[i]) = task[t].row
      /\ \A j \in DOMAIN written : written[j] \in known[t] => j <= i

\* "Loading repeatedly is harmless" (msgagent.lua:114): a row that is loaded
\* from mysql replaces no change in redis.  It does: dbmgr looks whether redis
\* has the row long before it stores it.
LoadIsHarmless == ~ undone

\* "Add a row to redis, and sync it to mysql" (dbmgr.lua:415): with no request
\* and no statement under way mysql has the row that redis was given last.  It
\* has not: the agents of two sessions of a new player, the first of which was
\* kicked during its handshake, add the role twice, because each looks for it
\* before it yields; redis takes the second row and mysql does not.
MysqlFollows ==
  Busy = {} /\ behind = <<>> /\ written # <<>> /\ ~ undone => mysql = redis
=============================================================================
