# metoo: a verification project

metoo is a game server on skynet: a login server, any number of game servers,
and a data layer of redis in front of mysql. This directory models its core in
TLA+, checks the models with TLC on small instances and proves the results that
matter most with TLAPS for every instance.

## 1. The system

### 1.1 How it runs

A skynet process holds *services*. A service has its own Lua state and runs one
handler at a time; a handler gives way to others only where it calls another
service (`skynet.call`, `cluster.call`), sleeps or waits for a socket. All the
interleavings of this code are therefore between such yields, and an action of
the models is the code between two of them. Processes (`login`, `game`) talk
through `cluster`. The only threads with shared memory are those of the log.

### 1.2 Components

| Component | Code | State | Operations | Hard because |
| --- | --- | --- | --- | --- |
| login master | `lualib/snax/login_server.lua`, `login/logind.lua` | `user_login` (locks), `user_online` (where each player is) | accept, login_handler, logout | one coroutine per client over two cluster calls; logouts arrive in between; the process may die with its tables |
| login slaves, accounts | the same, `common/datacenter/accountdc.lua`, `common/entitybase/CommonEntity.lua` | account rows in memory, redis, mysql | auth, register | look up, then create, with yields between |
| gate | `game/gated.lua`, `lualib/snax/msg_server.lua` | `users`, `username_map`, `agent_pool`, `curr_agent`, `internal_id`; `user_online`, `connection`, `handshake` | login, logout, kick, disconnect, handshake, request | agents are taken from the pool, given to players and put back across yields |
| agent | `game/msgagent.lua` | gate, UID, SUB_ID, `afktime`, `running`, `worker_co` | login, auth, online, logout, afk, client requests, idle timer | commands run in a critical section, requests and timer outside it |
| game services | `game/{main,online,dcmgr}.lua`, `game/user`, `game/building` | who is online; which data is loaded | online, load, unload, role functions | load and unload of one player may overlap |
| entities, data centres | `common/entitybase`, `common/datacenter` | rows of players, of the configuration and common rows | load, unload, get, set, add, update, delete | a cache that is filled across yields |
| database manager | `common/dbmgr.lua`, `common/redispool.lua` | schema; connections | load, get, add, update, delete on redis | several redis commands per operation, each may fail |
| write-behind queue | `common/dbsync.lua`, `common/mysqlpool.lua` | the queue; connections | sync, the draining coroutine | the queue is changed while it is traversed |
| log | `lualib-src/lua-log.c`, `common/log.lua` | buffers, a thread, a file | append, swap, roll, exit | two threads, bounded buffers, shutdown |
| protocol buffers | `lualib-src/pbc/src`, `lualib-src/pbc/binding/lua53`, `lualib/protobuf.lua` | registered types; the messages being written or read, each on a heap of its own | register; encode, decode, lazy access, pack, unpack | one writer and three readers that must agree about every type, sign and default; buffers, arrays and maps that grow in the middle of an operation |
| utilities | `global/`, `lualib/random.lua` | none | | |
| other | the pbc binding for Lua 5.1 (not compiled), `client.lua`, `test`, `tools`, configuration | | | |

### 1.3 How a player's session runs

1. A client connects to the login server. A slave authenticates it; `accept()`
   takes the player's lock in `user_login` (or answers 406) and calls
   `login_handler`.
2. `login_handler` has the server the player is on, if any, *kick* him, then has
   the server he asks for *log him in*, and records it in `user_online`. The
   client is told 200 and a subid, or 403.
3. The gate's `login` takes an agent from its pool, or creates one, tells it the
   player and records the session in `users` and `username_map`.
4. The client connects to the gate with a handshake. The agent's `auth` loads
   the player's data and starts the timer coroutine; `online` registers him.
5. The session ends by the client's LogoutRequest, by the timer a minute after
   the client has gone, or by a kick. In every case the agent runs `logout()`,
   which calls the gate's `logout`, which drops the session, tells the login
   server and puts the agent back in the pool.

What makes the components correct:

* **login master** - logins of a player exclude each other; the record of a
  player is written only where there was none and says where he is; every login
  is answered; a player is on one server at most.
* **gate** - an agent serves one player at most, none is lost, and the one that
  a logout returns is the one it took; the subid a client is told is its
  session's; nothing deadlocks on the agents and the login server.
* **agent** - it acts for the player its gate gave it to; every logout ends; a
  player who has gone leaves and one who is there does not.
* **data layer** - mysql comes to hold what redis holds; caches agree with the
  database; no update is lost. Of these the first and the last hold under
  conditions only (section 5).
* **log** - every line is written once, in the order of the calls.
* **protocol buffers** - whatever is written is read as it was, by every reader,
  also by one with an older schema; nothing is written outside of its memory; the
  types and fields of a set of files are found whatever order they came in.

## 2. Modules

| Module | Models | Variables |
| --- | --- | --- |
| `Skynet` | calls, mailboxes, the order of messages, faults of the network (external: from how `src/` uses skynet) | `call`, `notifyq`, `acked`, `mbox`, `sent` |
| `LoginMaster` | `accept`, `login_handler`, `CMD.logout` | `user_login`, `user_online`, `conn` |
| `Gated` | the handlers of `gated.lua`, connections of `msg_server.lua` | `users`, `username_map`, `pool`, `created`, `internal_id`, `pending`, `leave`, `fd`, `shake`, `version` |
| `MsgAgent` | `msgagent.lua` | `bound`, `afk`, `running`, `worker_co`, `co`, `csop`, `csq` |
| `PlayerDirectory` | what the login server and the gates promise the clients: a directory of where each player is (abstract) | `home`, `known`, `client` |
| `Session` | the three composed, with clients, faults, fairness and the properties; shown to implement `PlayerDirectory` | `lost`, `crash` |
| `SessionProofs` | the theorems about `Session`: types, agents, login lock, who an agent acts for, records, the directory | |
| `MCSession` | instances for TLC | |
| `LineLog` | what the log promises: lines are written once, in order, and only a run in the middle may be thrown away (abstract) | `accepted`, `queue`, `log` |
| `Logger` | `lua-log.c`: `append`, `worker_func`, `rollfile`, `log_exit`; shown to implement `LineLog` | the heap (`alloc`, `data`, `next`), the fields of `inst`, the worker's place and locals, `today`, `out` |
| `LoggerProofs` | the theorems about the two | |
| `UserCache` | the requests of `userdc.lua` about one row, `UserSingleEntity.lua`, `dbmgr.lua` between redis and mysql | `recordset`, `redis`, `mysql`, `task`, what is on its way between them, and a history |
| `UserCacheProofs` | the theorems about it | |
| `PbcVarint`, `PbcWire` | `varint.c`; the atoms of a buffer (`context.c`), the fields of a schema | none: operators |
| `PbcMessage` | `wmessage.c`, and the writers of `protobuf.lua` and the binding | `m`, `said`, `phase`, `out`, `seen` |
| `PbcPattern` | the packing of `pattern.c`, beside the messages of `PbcMessage` on the same wire; the specification of the codec | and `pat`, `data`, `cap` |
| `PbcReader` | the three readers: `rmessage.c`, `decode.c` and the unpacking of `pattern.c`, with what `protobuf.lua` and the binding do with them; what they must read | |
| `PbcMap` | `map.c` | none: operators |
| `NameStore` | what the containers promise: a list of values under each name (abstract) | `contents` |
| `PbcStore` | `alloc.c`, `array.c` and `map.c` as a message uses them; shown to implement `NameStore` | `heap`, `map`, `values`, `left`, `index`, `repeated` |
| `PbcRegister` | `register.c`, `proto.c`, `bootstrap.c`: the registration of sets of `.proto` files | the types, the files, the call under way |
| `PbcMapProofs` | lemmas about the operators of `PbcMap`: chains, placing a key, rehash, traversal | |
| `PbcProofs` | the theorems about the heap and `PbcStore` | |
| `PbcCodecProofs` | the theorems about numbers and the writers: that they stay inside their memory, and that `pack` ends | |
| `PbcRegisterProofs` | the theorems about `PbcRegister`: its verdict, the indices of types and enums, the links of fields | |
| `MCPbc`, `MCPbcStore`, `MCPbcRegister` | instances for TLC | |
| `DbSync` | the changes of `dbmgr.lua`, `dbsync.lua`, the choice of a connection in `mysqlpool.lua` | `redis`, `mysql`, `sending`, `queue`, `pc`, `key`, `grown`, `index` |
| `DbSyncProofs` | the theorems about it | |

Correspondence, `Session`. A coroutine is a record or a place: `conn[c]` is the coroutine
of `accept` for connection `c`, with what it has passed to `login_handler`;
`pending[c]` is the gate's `login_handler` that serves it, with its local
variables; `leave[a, k]` is the gate's `logout_handler` that coroutine `k` of
agent `a` called; `co[a, k]` says where that coroutine of the agent has yielded;
`csop`, `csq` are the holder and the waiters of `skynet.queue`. `call[c]` is the
cluster call a login waits for. `pool` counts how often an agent is in
`agent_pool` (a bag: which one `table.remove` takes is left open), `created` are
the agents that `curr_agent` counts. The `subid` of a login and of a session is the number
in its username, made before `newservice` yields; what the agent is told, and what is
answered, is the gate's counter at that later time.

`PlayerDirectory` knows no calls, messages, agents or locks. Its `home` is where a player
is in the tables `users` of the gates (`HomeOf`), its `known` is `user_online`, and its
`client` is what has become of each login (`LoginOf`): a login is *placed* once the gate's
answer is on its way to the login server and *told* when the login server has it. So the
gate's last step of a login is `Enter`, the login server's return `Tell`, the step of
`logout_handler` that empties the tables `Leave`, and `CMD.logout`, or the end of a kick
that failed, `Forget`; a login's own checks and refusals are `Ask`, `Deny` and `Fail`, and
all else is a stutter. What it forbids is in the guards: that a player who is somewhere, or
believed to be, is placed; that a place is given twice; that the login server forgets one
who has not left.

Correspondence, `Logger`. A critical section under the mutex is one action and
so is what the worker does on its own data between two of them: `AppendFits` and
`AppendFull` are the branches of `append()`, `Swap` the worker's critical
section with the roll by day, `DropNotice` the `append()` of the worker's own
notice, `Cut` and `Recycle` the lists it shortens and clears. Buffers are
addresses with a `next` pointer, because the lists of `lua-log.c` are: the swap
makes the current buffer the tail of the list without linking it, and relies on
the link that `append()` made.

Correspondence, `DbSync`. `queue` is the Lua table as a function from the keys it
has; `pc` and `key` are `sync_impl` and its loop variable. `Execute` is the call
to `mysqlpool`; `Done` is its return, the assignment `queue[k] = nil` and the
step of `pairs()` that follows without a yield. `Change` is any of the commands about
any row: the entities look for the row in a cache that knows nothing of the changes
under way (`UserMultiEntity.lua:62-131`, `UserSingleEntity.lua:54,94`) and `dbmgr` does not
look at all, so nothing keeps an insert from a row that is there or an update from one
that was deleted. `found`, `due` and `stray` are no part of the code: they record what each
statement would find in mysql if all were executed in the order of the changes, what
they would leave, and the rows that redis was given by an insert or update that mysql ignores.
A statement about a row may be overtaken before it is queued, by an update that passes an
insert or a delete which makes a second call of redis (`Ready`).

Correspondence, `UserCache`. A request is a coroutine of `userdc`: `task[t]` says
where it has yielded and what it has read. `commands`, `syncing` and `answers`
are the messages between `userdc`, `dbmgr`, redis and `dbsync`, each in the order
in which it is sent; a query of mysql (`Query`, `Load`) is outside of these
queues, and a change goes through `dbsync` before it is answered, which is how an
answer can overtake another. A row is one field, and its value the request that
wrote it.

Each of `PbcWire`, `PbcMessage`, `PbcPattern`, `PbcReader` and `MCPbc` extends the one
before it. The readers follow messages into messages by recursive operators; they
come last so that what is before them can be proved about.

Correspondence, `Pbc*`. A machine word is the set of the positions of its one
bits and a byte a word of eight of them, so that shifting, masking, truncation
and sign extension are what they are in C and 64 bits need no large numbers. A
message under construction is `m[k]`: its buffer, its capacity, the packed lists
that wait and its sub-messages; `over` records a write behind the capacity.
`said` is what the program asked to be written, which no code has: the
properties compare the readers with it. `RMessage` and `RmessageView` are the
lazy reader, `DecodeView` the table that a callback per atom fills, and
`PatternUnpack` the variables of a pattern. The items of an array reach a pattern as
`_get_array_value` pushes them (`ArrayItem`): signed numbers of 32 bits are extended, 64-bit and
unsigned ones go through a double, which keeps 53 bits of them, and what the C cast makes of a
negative one is open (`Wraps`: as on the machines the library is built for, or nothing). In `PbcMap` and `PbcStore` a slot is
a record with the number of the next one, a pointer is a position in `values`,
and a heap is its pages and what was taken from them. In `PbcRegister` a file is
a list of declarations; `Pass`, `Miss` and `Register` are the steps of
`_register_no_dependency` for one file.

Each definition with an alternative named `X_Something` beside it (`Lock` and
`Lock_Forgotten`) comes with the defect that the properties must be able to
detect.

What is abstracted: secrets, tokens and the wire format; the pool's order; the
minute after which an idle player is logged out (it may pass at any time once
`afktime` is set); what `dcmgr`, the `user` module and `online` do when the agent
calls them (a wait that ends at any time); requests other than LogoutRequest;
a second socket of the same session. In `Logger`: every line has length 1 (a line
fits if one more byte would); `calloc` returns any free address, always the same
one; the wait on the condition may end at any moment, so it is the worker staying
where it is; the level filter; an exit of the process because the log directory
cannot be made. In `DbSync`: a row has one field, which every insert and update
writes; what Lua leaves open in a table with holes that changes during a
traversal is open here (any border, any order, an early end). In `UserCache`: `dbsync` executes its
statements in order (`DbSync` is about when it does not), and the connection to
redis that a player's commands use keeps their order. In `Pbc*`: names are model
values with given hashes, characters stand for themselves, floats are a table of
a few numbers; what `protobuf.lua` caches is computed anew; defaults of fields
other than enums are given rather than parsed. Writer and reader agree on the
type of a field they share, and a reader may lack fields; buffers that no writer
of the library makes are not among the inputs, so that what the readers do about
them (`Malformed`) is there but does not happen but for packed data in
`PbcStore`.

What orders messages: what a gate sends an agent, what an agent sends its gate,
and the logout calls of a node to the login server are each first in, first out,
as one skynet service to another or one cluster channel is; everything else may
overtake.

## 3. Runs

The bounds. `Conn` is the number of logins, `Client` the LogoutRequests an agent
serves at once, `Worker` its timer coroutines (`CMD.auth` needs a free one),
`MaxIndex` the handshakes of a login, `MaxLost` and `MaxCrash` the faults,
`MaxAgent` the cap of the gate. Two logins of a player are needed for a kick;
three logins of two players for an agent to be reused by another player while
one more login waits; two LogoutRequests of one agent for the return of the second to
meet the next session; two agents for one to be in the pool while the other is
used. Connections and players are symmetric, but not in `liveness`, where TLC
cannot use it: it has one agent, which serves the sessions of two players, one after the other or
refused while the other lasts, with two LogoutRequests. A client that comes back with a second handshake is
not in that run; for `AwayLeaves` alone the same with one player and a second handshake was checked
(253,000 states), which is too long together with the other two.

| Run | Distinct states | Asks |
| --- | --- | --- |
| `one_player` | 277,000 | types; that records and agents agree, and that the player is on one server, through login, kick, logout (also twice) and reconnection of one player who may choose between two servers; that all of it implements `PlayerDirectory` |
| `two_players` | 152,000 | that no agent is lost, none acts for another player, and the login lock works, from an empty pool and with more simultaneous logins than the cap |
| `faults` | 150,000 | that agents stay exclusive and records are not replaced when either server dies and calls are lost |
| `liveness` | 42,000 | that every login is answered, every logout ends, and a player who has gone is logged out if his agent knows his session, with two players, one agent and two LogoutRequests in it |
| `logger` | 88,000 | that buffers are owned once, the lists are what they say, dropped lines are noted, the logger implements `LineLog` and never goes back to a file it has left; that lines are written in the end and a stop ends |
| `dbsync` | 198,000 | that each statement is executed once; that in order they leave in mysql what they say, which is what redis has of a row that got no insert or update it could not take; that the queue drains |
| `user_cache` | 335,000 | that the cache ends as redis and a reader sees what was answered before, with three requests at once |
| `pbc_codec` | 4,000 | that what was written is read as it was by three readers, that no write leaves its buffer, and that trying with larger buffers ends |
| `pbc_store` | 5,000 | that chains stay whole, blocks stay apart, `next` visits all, and map, array and heap implement `NameStore` |
| `pbc_register` | 450 | that fields, enum values and referenced types are found whatever order the files came in, and that each call ends with the right verdict |
| `two_homes` | | violated: the wrong subid makes a kick fail and the player ends up on two servers |
| `repeated_load` | | violated: of two loads at once the later one undoes a change |

`CHECK_DEADLOCK FALSE` except in the runs of `Pbc*`: once every login, line or change has been used
the system stops, as it should; a logger that is told to stop ends.

Bounds of the log. `logger` has 12 buffers, of which at most 10 are ever
allocated, so that memory is never the limit; two bytes of `BufferSize` make a
new buffer of every line; `Limit` is 2 instead of 25, so that six lines are
enough for a list to be cut and for lines to arrive during a cut. Two lines reach
the roll size and midnight comes once, so that a file may roll by size, by day
and by both, with `fopen` failing at any of them.

Bounds of the queue. Three changes of two rows make every border: a table with a
hole at the front, an entry behind it and a new one on either side. Three changes of one row
are an insert, a delete and an update that should have met the row. Three
connections are the fewest for which the index wraps.

Bounds of the cache. Three requests are what a lost change needs: one that reads,
one that changes, one that looks. With four more than 30 million states were
seen without a violation, which is too long for a run. `LoadIsHarmless` needs
two, one of which is only a load and the other also renames.

Bounds of protocol buffers. The schema of `MCPbc` has a field of nearly every
type and label, and a message inside it. Values are at the ends of their ranges;
a text of 130 bytes has a length of two bytes, one of 111 and thirteen minus ones
in a packed list are just where a buffer grows and where a length guessed for it
is wrong. Two keys in a message are enough for one to be written behind another
that has filled the buffer, or into a message inside it; three messages for a
list of two. A buffer of 8 bytes is doubled up to five times by `pack`; `Enough`, the
size in which `PackEnds` looks how long the result is, is a megabyte.
`MCPbcStore` has names that collide in every map that is made, six of them for
two doublings, and pages of 256 bytes for new pages in the middle of an operation
and for a block larger than a page. `MCPbcRegister` has imports in a line, in a
ring and to files that are missing, extensions across files, and brings the sets
one after another in any order.

Some properties hold under a condition worth knowing. `RecordTracksSession` and
`KeepsDirectory` hold with one player; with two who log in at once the first is told the
subid of the second (section 5), and `SingleSession` is lost with them, and so is `KnowsItsSubid`.
`NoCrossTalk`, which the run has two players for, therefore says of the subid only that it is
the session's or a later one of the same gate. `ReturnsItself` is not asked under faults: when
the gate goes on with a login whose call has failed, two of a player's logins overlap, and the
agent of a session that was overwritten may have been told the subid of the one that overwrote it.
`AwayLeaves` speaks of an agent that knows whose session it serves; a player whose agent
has forgotten stays away for ever (section 5). `SubidAgrees` and
`PlacedByLogin` follow from `KeepsDirectory` and `SingleSession` and are not asked on their own. `AgentsNotLost` is not asked
under crashes: a login server that is started again lets a second login of the
same player overwrite a session that is just being made, whose agent then
belongs to nobody.

Fairness. `FairSpec` gives weak fairness to each coroutine of the servers: to
the login's, gate's and agent's handlers of each connection, to the agent's
coroutines and to the login server's logout command. skynet dispatches every
message that has arrived and resumes every coroutine whose answer is there; a
client's requests cannot hold it up because each has a coroutine of its own.
Fairness of whole services would be too weak to say that: endless requests of
one client could starve the others. Nothing is assumed of clients or of faults.

The worker of the log is a thread of its own with a timed wait, so it goes on
whatever the services do, and `pthread_join` returns when it has ended. The
draining coroutine of `dbsync` is resumed when its answer is there or its sleep
is over, and every message to it arrives. `Drains` is asked of finitely many
changes: an endless stream of new ones could keep an entry behind the traversal.
`Verdict` and `CallEnds` of `PbcRegister` assume that a call to `pbc_register`
goes on once it has begun: it is a loop that nothing interrupts.
`Settles` excepts a logger that is stopped: the worker does not look at the
buffers again after it has read the flag, and what was appended since is lost.

## 4. Proofs

The theorems hold for every value of the constants that satisfies the named
assumptions of the modules, which TLC evaluates in the runs:

* `Skynet`: the home of an agent is a server, precreated agents are agents, `None`
  is no value of any other kind, coroutines have distinct names
  (`CoAssumption`) and are no connections (`CallerAssumption`).
* `Logger`: two buffers at least, as `log_init` allocates two; a buffer takes more
  than one byte and a list is cut at two or more (`LoggerAssumption`).
* `PbcMap`: a hash is a number, `NULL` is neither a name nor a position.
  `PbcStore`: there are fewer than 2^30 atoms (`SizesAssumption`). The size
  of a buffer is an `int` and an atom takes two of its bytes, so this is what the code
  can meet; without it `cap *= 2` would overflow.
* `PbcWire`: there are finitely many fields, the number of each has 29 bits and is no
  other field's of the message, and packed fields hold numbers (`FieldAssumption`): `protoc`
  refuses other files. `PbcMessage`: a message has room for a byte at first; the
  numbers of an enum have 32 bits, and an absent enum has a value of its own; the program
  gives a field values of its type, one if it is no list (`MessageAssumption`).
  `PbcPattern`: the first buffer has a byte at least, and patterns ask for fields with C
  types of their own (`PatternAssumption`), whichever: `CheckCtype` is in the model. `Enough`,
  which is in `PackEnds` only, is below 2^30, as sizes are of type `int`.
* `PbcRegister`: a set of files is a list of files (`SetsAssumption`), imports are files or the
  descriptor file (`DepsAssumption`). The next four say what `protoc` has seen to before it
  wrote the files, having seen all of them together, as `register.c` trusts them: declarations are well formed
  (`WrittenAssumption`); a message or an enum is declared once, and so is the number of
  a field of a type (`TypesAssumption`, `FieldsAssumption`); what a field refers to, and
  the name of an enum's default, is declared where the imports lead
  (`RefsAssumption`). Nothing is said of the names of fields: a file without a package may
  extend a type by a field with a name that the type has. `ExtendeeAssumption` is more than
  `protoc` asks: a type is declared before fields are added to it from outside. A nested `extend`
  may come before its message in a file; the library then keeps the type under a name in memory that it
  frees (`proto.c:98,102`, `register.c:337`). A type has fewer than 2^30 fields (`FewAssumption`), so that its map can
  be doubled; a number of a field has 29 bits.

Where a run checks the property, the theorem says of every instance what the run
says of one.

### 4.1 Session

`SessionProofs` proves, with every fault unless said otherwise:

| Theorem | Says |
| --- | --- |
| `TypeCorrect` | `TypeOK`, together with `FdMapped`: a connected client has a session |
| `AgentsAreExclusive` | `AgentsExclusive` |
| `LoginsExclude` | `LoginExclusive` |
| `RecordsAreNotReplaced` | `NeverReplaced`, an action property |
| `AgentsDoNotMixPlayers` | `NoCrossTalk`: an agent acts for the player of its session or for nobody |
| `AgentsReturnThemselves` | `ReturnsItself`: a logout puts back the agent it came from, as long as nothing has failed |
| `NoAgentIsLost` | `AgentsNotLost`, as long as nothing has failed |
| `AgentsKnowTheirSubid` | `KnowsItsSubid`: the gate accepts the logout of every session's agent, while no login is disturbed |
| `RecordsFollowSessions` | `RecordTracksSession` and `SubidAgrees`, while nothing fails and no login is disturbed |
| `PlayersAreOnOneServer` | `SingleSession`, likewise |
| `OnePlayerIsFollowed` | the last three for a player who is alone, as long as nothing has failed |
| `DirectoryIsKept` | `KeepsDirectory`: `Session` implements `PlayerDirectory`, under the same condition |
| `SessionsArePlaced` | `PlacedByLogin`: each session is the place one client was told, or is going to be |
| `OnePlayerHasADirectory` | the last two for a player who is alone, as long as nothing has failed |

*Types.* `TypeOK` is not inductive: `Disconnect` forwards to the agent found in
`username_map`, which is one only because a client that is connected has an
entry there. The invariant is `TypeOK /\ FdMapped`. One lemma per action proves
the types, over lemmas on queues and calls.

*Agents.* `AgentsExclusive` says that the four places an agent can be in (pool,
session, login, logout) exclude each other. It is not inductive for two reasons:
a server that dies empties its own tables, so an agent must be in those of its
own server only (`AtHome`); and an agent that is created must not be anywhere
yet (`Fresh`). `Books` is the three together; seven actions touch the books.

*Logins.* `NeverReplaced` holds since a login that waits for the game server
still finds no record (`Nowhere`), and that because no other login of the player
runs (`LoginExclusive`). The lock is given back by the login that took it.

*Whom an agent acts for.* `NoCrossTalk` relates what an agent believes to the gate's
tables, and between the two are queues: the agent's mailbox, the waiters of its
critical section, the calls it has sent and their answers. The invariant
`Knowledge` says of all of these at once what may be in them. `Logins`: an agent is told
of a login once, the gate is waiting for that answer while it is told, and an agent
that has answered is bound to that session or already to none. The subid it was told is that of
the login or a later one of the gate, as the counter is read again after `newservice` has
yielded. `OneLogin`: a connection logs in once, which rules out that a late
answer is taken for that of a later login.

*Who is put back.* Two agents may well have been told the same number; but not for the same player.
`Subids` says who may know a player and a subid together: whatever an agent knows, from its
binding, a message or the gate's tables (`Knows`), no other agent of its server does
(`SubidOwned`); and while a player's login waits for an agent, all that is known of him
is older than that login (`SubidKept`). So the agent that a logout finds by player and subid is the one
that sent it, even if it was told another login's number, and `ReturnsItself` follows. This needs that
a player has one login at a time in a gate, which the lock of the login server
gives as long as no call and no process fails. Each action is described by how the
knowledge of the agents changes (`Forgets`, `Learns`), so that most actions need one line.

*No agent is lost.* A step takes an agent from one place and must put it in another;
what could drop one is a login that ends where a session already is. `Serving` says
that there is none: the gate serves a login only while the login server waits for it.
A cluster call that fails breaks exactly that, as the gate goes on serving, so the
theorem is said of `NoFault`. The run `two_players` has no faults either. That an agent is on the
books does not mean that it will be free again: a session whose agent was told another login's
subid keeps it for good, as the gate refuses its logout (section 5). `AgentsKnowTheirSubid` says that nothing
but a login that moves the counter in between can do this (`Undisturbed`, below).

*Records.* That the login server knows where a player is cannot be kept by looking
at the two tables, as they change at different times. `Tracking` says what is on its way:
the login server has the session of a seat or the answer that brings it is there
(`Follows`); a logout call on its way is of a player who is on no server by then, and is made
by a kick that is being served or by a logout whose record still stands (`Noticed`);
of two such calls of a player the logout's is the first (`Apart`); and a kick is either
passed to the agent or told the login server, never both (`KicksOnce`), for otherwise a
second call would clear the record of the next session. The
hypothesis `Undisturbed` is that no other login moves the gate's counter between the moment
a login gets its subid and the moment it is answered. The code does not see to that:
`two_homes` is a behaviour without faults in which it fails and `SingleSession` with it.
`OnePlayerIsFollowed` shows that it is the only thing missing: with one player it is a
consequence of the lock, for any number of his logins, servers and agents.

*The directory.* Each action of `Session` is an action of `PlayerDirectory` or a stutter
(`DirectoryStep`), with one lemma for each that is not always a stutter. `Tracking` does most of it: it
says that a player who is placed was nowhere, and that one who is forgotten has left. What is
left is that a place was nobody's before, which compares it with the answers that clients have been
given and not with the sessions there are. `Numbered` says it: a subid that a client was given is
one that its gate has given out, and that of a login at a gate is given to no one else yet. It
holds only as long as the answer carries the subid of the session, which is `Undisturbed`
again. `SessionsArePlaced` follows from the refinement alone (`DirectoryPlaces`): `Placed`, together with that no two
clients have one place and that a player has one login at a time (`Entries`), is an
invariant of any directory, and is proved of the abstract module's steps without a look at the servers.

### 4.2 Log

`LoggerProofs` proves of the heap with its two threads:

| Theorem | Says |
| --- | --- |
| `FilesFollow` | `FilesInOrder`, an action property |
| `BuffersAreOwnedOnce` | `OwnedOnce`: no buffer is leaked, shared or freed in use |
| `ListsAreSound` | `ListsSound`: the heads, tails and sizes are those of the chains |
| `LoggerKeepsPromise` | `KeepsLog`: `Logger` implements `LineLog` |
| `LinesAreInOrder` | `InOrder`, by the refinement and what `LineLog` promises of any queue |
| `DropsAreAnnounced` | `DropsAreNoted`: a line that was thrown away is followed by a notice |

*Files.* That the next file comes later is not a
matter of the step alone: number 0 of today must not follow number 1 of today. It
rests on `DaysOrdered`: the day of the open file is at most `roll_mday`, which is
at most today; and on the size roll, which gives number 1 whatever was open.

*Buffers.* `Chain` and `Contents` of `Logger` follow the next pointers by recursion, and no
induction over them is available. The proof describes the heap by two sequences
instead: `F`, the buffers of the front end with the current one last, and `W`, those
of the worker. `Shape` says that the two share nothing, that the pointers are those of the two paths, and
that there are no others; then the recursive functions exist and
are what the paths say, shown by taking a counterexample of the lowest rank (`Collected`,
and the lemmas after it). The inductive invariant is `Sound`: `Ready`, which `append()` needs and
keeps (the heads, tails and sizes are those of the paths; every allocated buffer is in
one path or spare; all but the last have lines), and `Stage`, what the worker has at each of its places.
The swap is where this pays: it hands over the
current buffer as the tail of a list without linking it, and it is the last of `F` all the same,
since `append()` linked it when it became current.

*Refinement.* Every step of the logger does one of four things to the lines (`Moves`):
one line more behind the others, lines that change their list but not their order, the
end of the worker's lines thrown away, all of the worker's lines written. Each is a step
of `LineLog` or a stutter. `LineLog` in its turn writes each line once and in the order
of acceptance (`PromiseIsInOrder`): `InOrder` is inductive with the types alone once it is said
of `log \o queue`, since `Accept` appends a larger number, `Write` leaves that sequence as
it is, and `Drop` removes elements from it. `Noted`, that the notice of a cut is in the front end before
the cut is made, is what `DropsAreNoted` needs in addition to `InOrder`.

### 4.3 Write-behind queue

`DbSyncProofs` proves `EachExecutedOnce` (and `TypeCorrect` with it): for any number of changes, rows and
connections, and with errors that end the traversal, no statement is executed
twice. `ExecutedOnce` is not inductive. `IInv` says that a statement is in
one place only, on its way to the queue, in it under one key, or executed, and
that the key of the loop is that of an entry. While the call to `mysqlpool` is out
the statement is in two of these, executed and still in the table, and
`queue[k] = nil` must take away that entry and no other.

It also proves `InOrderMysqlIsRedis`, the invariant `InOrderConverges`: a
row whose statements were all executed, and in the order of its changes, is in mysql what those
statements say, whatever became of other rows; and that is what redis has if each insert and
update was made for a row as redis had it. That condition is the caller's, and the entities do not see to
it: mysql takes no notice of an insert of a row that is there or an update of one that is
not, and redis takes both. `RowInv` carries what each statement is to find from `dbmgr` to `mysqlpool`: a waiting
statement leaves what the next one of its row finds, the last one what is due; and the
first finds what mysql has, if those before it were executed in order. A statement
that is executed in order is the first of its row (`OrderedGrows`).

### 4.4 Cache

`UserCacheProofs` proves `CacheEndsAsRedis`, the invariant `CacheIsRedis`: whenever no
request is under way the cache of a player's row is empty or what redis has, for any
number of requests at once (TLC has three), unless a load from mysql has undone a
change. The invariant says something only of states at rest, so `IInv` must say what
the cache is going to be: the last change on its way to `dbsync` has what redis has;
if there is none, the last answer on its way to `userdc` that found a row; if there
is none either, the cache already (`Coming`). Answers are handled in the order in which
they are given, and a change is answered after the reads of redis that precede it,
as `dbmgr` takes it to `dbsync` first. That a request is in one place only
(`OnePlace`) keeps the rows that are on their way from being changed by other
requests; `LastSyncing` ties the last change on its way to the history that defines
when a change has been undone.

`ReadsAreFresh` is the invariant `FreshReads`: a read sees every change that was answered before
it began, under the same condition. A row is *as fresh as* a set of changes if redis has
had it when all of them were made (`Fresh`). redis has the row of the last change; the
cache is as fresh as what is answered; and the `k`-th answer on its way is as fresh as what
will be answered when the first `k` have arrived (`Due`), so that the cache can take it
over. A read that finds nothing in redis and goes on to mysql knows that the absence
was as fresh as that (`ReadFresh`): what mysql has then can only be a row that an answered
change had deleted, and taking it is what undoes the change. That the changes which
have yet to go to `dbsync` are the last ones (`Suffix`) puts answers in the order of changes.

### 4.5 Protocol buffers

*Numbers.* `PbcCodecProofs` proves `DecodesWhatWasEncoded`: what `_pbcV_decode` returns of a
buffer that begins with a number that was encoded is that number and the length
that was written, whatever bytes follow; and `ZigZag64Undone`, `ZigZag32Undone`: the
zigzag of a signed number is undone. Words are sets of bit positions, so that
these are statements about all of the 2^64 numbers. A varint of ten bytes is
taken apart group by group, which needs no induction.

*Writers.* It also proves, for every schema, all values and patterns, and any first size of a buffer:

| Theorem | Says |
| --- | --- |
| `WritersStayInside` | `StaysInside`: no write of `wmessage.c` or of `pbc_pattern_pack` is behind the end of its memory |
| `RetriesEnd` | `PackEnds`: the size that `_pattern_pack` tries is less than twice what the result and one length take |

The first is proved under `NoPackedWords`: no packed field has items of four bytes. It is
false otherwise, as `_pack_packed_32` puts the items eight bytes apart in room for
four each (section 5). Patterns write such fields well, and `RetriesEnd` has no such
hypothesis.

The writers ask `_expand_message` for a number of bytes and write an amount that depends on
the values: a tag and a length take five bytes at most, a number ten (`TagBytes`, `LengthBytes`),
and the doubling ends at a capacity that suffices. A message is `Safe` when nothing was put
behind its capacity. What is hard is the packed varint field, where the items are written
behind a guessed length, each with a check of its own, and are then moved up by the
difference of the two lengths, for which room is asked once more; and the flush, which
puts sub-messages into their parents: `Heaps` says that a message is created before
those inside it, and the backward order of `Flush` meets each when it is complete.
The invariant is `CodecInv`, with what is known of a pattern: the types of its keys passed
`CheckCtype`, without which a message could be packed as a number; and its variables hold
values of them (`Holds`).

*Retries.* A slice is `Fitting`: what was written and the room that is left make up its
buffer. Two slices `Agree` when the one in the larger buffer did not fail and holds the same.
That a result of `b` bytes fits a buffer of `b` bytes is false: `_pack_packed_fixed` asks for
the room of its length a second time when it has been written (`pattern.c:639`). The proof
shows that a length's worth of bytes beyond the result is always enough (`PatternSame`), also where
items are written behind the length that was guessed: they take a byte each at least, so that the
guess is never the longer one. That is shown for one field and then for the keys of a pattern,
one after another by their numbers: `MapThenFoldSet` takes the highest of a set last, and `KeysUp`
goes from the empty set up, by the number of keys. `Tried` carries the rest: the size before this one was too short.

`PbcProofs` is about the containers. It proves, for every hash, every number of names and atoms, and all sizes:

| Theorem | Says |
| --- | --- |
| `NewHeapSound`, `AllocSound` | a heap asked for any sizes, one after another, keeps its blocks within their pages and apart |
| `BlocksStayApart` | `BlocksApart`, the same of the heap of a message |
| `ChainsAreSound` | `ChainsSound`: every name is found from its home slot and chains end |
| `EachIsVisited` | `VisitsEach`: `next` and `foreach` visit each name with a value once |
| `StoreKeepsContents` | `KeepsContents`: `PbcStore` implements `NameStore` |

*Heap.* `Apart` alone is not kept: that nothing on the current page lies
behind `used` (`BehindUsed`), and that `used` and the page size are within the page
(`HeapOK`), are part of what every allocation needs and leaves.

*Maps.* `PbcMapProofs` has the lemmas. A chain is described without recursion: the slots
reached from one are those that no set closed under `next` can be without (`Reaches`), and it ends because each
step goes to a slot of higher rank (`Acyclic`). A key that is placed takes its home slot if that is free, and otherwise any free
slot, which is linked behind one of the chain that begins in its home, whoever sits there: behind the
first by `insert` and behind the last by `query_insert`, which has gone to the end in search of the key
(`Placed`, `PlacedLast`, `ChainEnd`); either way
every other key is still reached from its own home (`Puts`). `rehash` is a fold over the
old slots; it is shown to be a sequence of such steps, each of which leaves a sound
table with one key more. From that come the operators: `Query` after an insertion
finds the new key and what it found before (`Finds`, `Adds`).

*Messages.* The invariant of `PbcStore` is `IInv`, of `StoreOK` and `HeapSound`, which TLC checked
before it was proved. Its parts: the map is sound (`Sound`); no
value is in two slots, no list's name in two (`MapOK`); what the map, and every list, may still grow by stays below 2^30, and the index of an
rmessage never grows at all, as it was made for all its atoms and could not be rehashed with a single name in it twice; a list has
the room that its length tells (`HaveRoom`), on which `_pbcA_push` relies when it doubles at a
power of two. Each action adds a value to a list (`AddStep`), takes one
that came to nothing (`RejectStep`), stores a single value (`PutStep`) or begins another
message (`Ended`), and is a step of `NameStore` or a stutter. `VisitsEach` counts the
filled slots up to the one where the traversal is.

*Registration.* `PbcRegisterProofs` proves, for any files and whatever they import:

| Theorem | Says |
| --- | --- |
| `VerdictsAreTrue` | `Verdict`, an action property: success and failure of a call are what they say |
| `IndexIsSound` | `IndexSound`: a field of a registered type is found by its number, and under its name one of that name |
| `EnumsAreSound` | `EnumsSound`: names and numbers of an enum lead to each other |
| `AllAreLinked` | `Linked`: a field that names a type is linked to it, an absent enum has a value of its own |

*The verdict.* A call that ends well has
registered its files, one that fails has files left that each miss a
dependency, whatever files there are. The loop compares the number of files missed in a pass with
that of the pass before, so the proof must show what two equal numbers mean: that nothing was
registered in between, which is why a file missed early in the pass still misses the same
(`Counted`). A set may hold a file twice; the number counts places, not files.

*The types.* Registering a file is a fold over its declarations, inside which there are folds over the
fields of a message, over the slots of a map and over the entries of a table. Each fold is
shown to be a sequence of turns (`Turns`, `DeclarationsFold`, `FieldsFold`, `TableFold`...), and a
fact that every turn keeps holds at the end (`Upwards`); no induction over lists is
needed. What a turn keeps is, from the inside out: `Settled`, the slots of an index have
the entries so far, each on the chain of its home; `Named` and `Numbered`, a map of names has
just the fields F, and an index of numbers tells them and no other; `Made`, all the types have the fields
that were pushed so far, except that the index of the type in hand may not be built yet; `Stands`, the same
with the enums, between two declarations. The extensions are where this could go
wrong: the index of an extendee is built when the next extendee begins, so at every moment the types
whose index is behind are at most the one (`ExtensionMade`).

The inductive invariant is `Known`: with a registered file its dependencies are registered, the types
stand as all registered files declare them, and each field that names a type is linked. The first part is
what makes `set_field_one` succeed: the queue of a file is worked off when everything that it
imports is there (`FieldSet`). The proof uses that no two fields of a type share a number: so the index
of numbers tells each of them, and later fields do not overwrite earlier links. Two may share a name;
`insert` never looks whether a key is there, so that the map has both, and `query` finds one (`Named`).

### 4.6 What stays with TLC

* The liveness properties: fairness and `ENABLED` are out of the prover's reach.
  They are `LoginAnswered`, `LogoutEnds`, `AwayLeaves`, `Settles`, `StopEnds`, `Drains` and `CallEnds`.
* `RmessageReads`, `DecodeReads` and `PatternReads`, that what was written is read again. The
  readers take a buffer apart by recursive operators, as messages contain messages, and those
  cannot be proved about; of the round trip only the numbers are proved.
* `StaysInside` of schemas with packed fields of four bytes, where it does not hold.

Induction over data is not available; where a proof needs it, as for the folds of `PbcMap`,
`PbcRegister`, `PbcCodecProofs` and `Logger`, it is replaced by the least number for which a fact fails.


## 5. Findings

Two runs end in a violation, of what the code says of itself:

* `two_homes`: `logind.lua:80-83` forgets where a player is when the kick fails,
  and `gated.lua:80` makes it fail: it returns the counter that other logins have
  moved on, so that a client is told another player's subid.
* `repeated_load`: `dbmgr.lua` looks whether redis has a row, asks mysql, and
  stores what mysql had whatever redis has been given meanwhile. With two loads
  at once, which `msgagent.lua:114` calls harmless, a rename made after the first
  of them is lost in redis and in the cache.

`PROJECT.json` quotes the lines. Other statements one would like to make of the
code are false of it too. They are written down beside the properties, without a
run of their own:

* `AgentKnowsItsUser` (`Session`): `logout()` of `msgagent.lua:60-81` may run twice
  at once, and the second one, on its return, forgets the player that the agent
  has been given in between. Since `UID` is set to nil before it is used,
  `dcmgr` is asked to unload the data of nobody.
* `KnowsItsSubid` (`Session`): `gated.lua` makes a session's username from its counter before it waits
  for a new agent (line 52), and tells the agent the counter after that (lines 68 and 72). When the gate creates
  agents for two players at once, the first is told the second one's subid. The gate refuses
  its logout and its kick by the asserts of lines 89 and 106: the session stays, and the
  player is "already login" until the server is started again. TLC finds it with two players, two
  connections and an empty pool.
* `AwayIsLoggedOut` (`Session`): `logout()` of `msgagent.lua` clears `gate`, `UID` and `SUB_ID` when the gate
  has answered, and with two LogoutRequests the second answer may come when the agent
  has been given its next session. When that client goes, the timer runs
  `logout()`, which finds no gate to call (line 66): the player is never logged out, though
  line 86 says that he is after a minute. The kick of his next login comes to nothing in the same way,
  and `logind.lua` refuses that login. TLC finds it in the instance of `liveness`, in 45 states;
  `AwayLeaves` excepts a player whose agent has forgotten him.
* `IdleMeansAway` (`Session`): `msgagent.lua:84-90` logs out a player whose client
  has come back, since nothing resets `afktime`.
* `PooledIsStopped` (`Session`): a kick that overtakes a handshake leaves the timer
  running in a pooled agent.
* `RollsBySize`, `CountsTheFile`, `RollsByDay` (`Logger`): `rollfile()` stops at
  number 1, so that the second time in a day that the roll size is reached the
  full file is opened again; a new day's file inherits the byte count of the day
  before; midnight between the two readings of the clock leaves a day in the file
  of the day before.
* `Converges` (`DbSync`): `dbsync.lua:15` fills the holes that the traversal leaves
  behind it, so that the older of two statements about a row may be executed
  last. With the border search of Lua 5.3 three new statements during the
  execution of key 2 of two are enough: they get the keys 3, 1 and 4, and are
  executed as 3, 4, 1. And even in order they differ when an update is made of a row that
  a delete has just taken away: redis has it again, mysql has not (`stray`; `buildingdc` has such rows,
  and `MysqlFollows` is the same of an insert).
* `MysqlFollows` (`UserCache`): `CMD.add` of `dbmgr.lua` writes the row over one that is there. Two agents that
  initialise the role of a new player at once, as when a session was kicked during its handshake
  and its agent goes on with it while the next session begins, both see no role and add one: redis takes
  the second row, mysql refuses it and keeps the first (`dbmgr.lua:415` says that the row goes to both).
  TLC finds it with two requests `roleinit`.
* `RmessageReadsSigns` (`PbcReader`): a negative `sint32` read through an rmessage
  is a positive 64-bit number, as the high word is made of a bit of the number
  before it is decoded (`varint.c:110`), and `int32` and `sfixed32` likewise as
  nothing extends the sign.
* `UnpackSucceeds` (`PbcReader`): a pattern never reads a `sint64`, which it looks
  for in a slice (`pattern.c:321`).

The arrays of a pattern lose bits before anything is written: `pbc-lua53.c:527` takes an
`int64`, `fixed64` or unsigned item through a double, which rounds it to 53 bits and is undefined for
negative ones. The values of the instance include one that loses its lowest bit (`Big` of `MCPbc`); `RmessageReads`,
`DecodeReads` and `PatternReads` ask of a pattern only what has come through (`Lossless`),
and of messages everything. A field number of 2^28 or more is written, but read as a negative
one, since `context.h` keeps it in an `int` that was shifted (`WiretypeDecode`), so that no
reader finds the field.

The codec's instance leaves out what the code writes wrongly, as no reader could
agree about it: packed fields of 32 bits, whose items are put eight bytes apart
(`wmessage.c:383`, modelled in `PackPacked32`; the last of four or more may lie behind
the buffer, so that `StaysInside` fails too); `int16` variables of patterns, of
which one byte is written (`pattern.c:124`, `WriteNumber`). Also met on the way:
`pbc_wmessage_buffer` called twice appends the packed lists twice
(`wmessage.c:493`); bytes are elided when empty whatever their default is
(`wmessage.c:290`); `encode` with an unknown enum name never deletes its message
(`pbc-lua53.c:213`, `EncodeError`); `next` never ends when a single value has come
twice (`map.c:430`, excepted in `VisitsEach`); a file that imports the descriptor
file counts as one whose import is missing (`bootstrap.c:281`).

## 6. Plan

Done: `Skynet`, `LoginMaster`, `Gated`, `MsgAgent`, `PlayerDirectory`, `Session`; `LineLog` and `Logger`,
`DbSync`, `UserCache` and the `Pbc` modules, with their proofs. Left, in the order of
what matters most:

1. `MsgServer`: several sockets per session, handshakes in progress, requests, over
   an abstract connection of a session (one socket at a time).
2. `UserCache` for tables with several rows of a player (`UserMultiEntity.lua`);
   `Account`: the slaves' look-up and registration.


## 7. Not modelled

* Handshake cryptography, sockets and packet formats of the two servers; the
  slaves, which keep no state; the accounts they look up and register.
* Tables of the database with several rows per player, and those that are read
  whole at the start (`CommonEntity.lua`, `ConfigEntity.lua`); the schema.
* Of protocol buffers: string pools (`stringpool.c`), `_pbcC_open_packed` and
  `_pbcM_ip_combine`, which nothing calls, maps and arrays without a
  heap, the parsing of default values of numbers, the finalizers of the binding,
  and its version for Lua 5.1, which the Makefile does not build.
* Configuration, the test client, the unit tests and the pure helpers of
  `global/`: no state or no part of the running servers.

`PROJECT.json` lists every part with what is left out of it.
