------------------------------- MODULE Gated --------------------------------
(***************************************************************************)
(* The gate of a game server: the handlers of game/gated.lua and, of       *)
(* lualib/snax/msg_server.lua, which client is connected to which session. *)
(* Every handler runs in a coroutine of its own and yields when it calls   *)
(* an agent or the login server.  The pool is a bag of agents: which one a *)
(* login takes from it is left open.                                       *)
(***************************************************************************)
EXTENDS Skynet

CONSTANTS
  MaxAgent,  \* how many agents a gate may create
  MaxIndex   \* how often the client of a session connects: a bound

ASSUME MaxAgentAssumption == MaxAgent \in [Server -> Nat]
ASSUME MaxIndexAssumption == MaxIndex \in Nat

VARIABLES
  users,        \* the session of each player on each gate
  username_map, \* the session of each login (a username is used once)
  pool,         \* how many times each agent is in its gate's agent_pool
  created,      \* the agents that exist (curr_agent counts them)
  internal_id,  \* the last subid given out by each gate
  pending,      \* the login_handler that serves each connection's login
  leave,        \* the agent that each agent coroutine's logout_handler holds
  fd,           \* the client of a login is connected to its session
  shake,        \* the coroutine of the client's last handshake
  version       \* the index of the client's last handshake

gateVars == <<users, username_map, pool, created, internal_id, pending,
              leave, fd, shake, version>>

NoPending == [st |-> "none", server |-> None, uid |-> None, subid |-> 0,
              agent |-> None]

GateTypeOK ==
  /\ users \in [Server \X Uid ->
                  [agent : Agent, subid : Nat, name : Conn] \cup {None}]
  /\ username_map \in [Conn -> [agent : Agent, subid : Nat] \cup {None}]
  /\ pool \in [Agent -> Nat]
  /\ created \subseteq Agent
  /\ internal_id \in [Server -> Nat]
  /\ pending \in [Conn -> {NoPending}
       \cup [st : {"spawn"}, server : Server, uid : Uid, subid : Nat,
             agent : {None}]
       \cup [st : {"login"}, server : Server, uid : Uid, subid : Nat,
             agent : Agent]]
  /\ leave \in [Agent \X Co -> Agent \cup {None}]
  /\ fd \in [Conn -> BOOLEAN]
  /\ shake \in [Conn -> {"none", "auth", "online"}]
  /\ version \in [Conn -> Nat]

\* init_handler: the pool holds the agents created in advance.
GateInit ==
  /\ users = [p \in Server \X Uid |-> None]
  /\ username_map = [c \in Conn |-> None]
  /\ pool = [a \in Agent |-> IF a \in Precreated THEN 1 ELSE 0]
  /\ created = Precreated
  /\ internal_id = [s \in Server |-> 0]
  /\ pending = [c \in Conn |-> NoPending]
  /\ leave = [p \in Agent \X Co |-> None]
  /\ fd = [c \in Conn |-> FALSE]
  /\ shake = [c \in Conn |-> "none"]
  /\ version = [c \in Conn |-> 0]

\* Defects: any agent is taken for a free one; the username is not compared;
\* an agent is read from the pool and left there, or not put back; a session
\* is not removed.
Pooled_All(s)         == {a \in created : Home[a] = s}
Has_AnySubid(s, u, n) == users[s, u] # None
FromPool_Kept(a)      == UNCHANGED pool
ToPool_Lost(a)        == UNCHANGED pool
Drop_Forgotten(s, u)  == UNCHANGED users

\* users[uid] is there, with this username.
Has(s, u, n)  == users[s, u] # None /\ users[s, u].subid = n
Drop(s, u)    == users' = [users EXCEPT ![<<s, u>>] = None]

FromPool(a)   == pool' = [pool EXCEPT ![a] = @ - 1]
ToPool(a)     == pool' = [pool EXCEPT ![a] = @ + 1]

Pooled(s)     == {a \in Agent : Home[a] = s /\ pool[a] > 0}
curr_agent(s) == Cardinality({a \in created : Home[a] = s})

\* Defect: the counter is read before it is incremented.
NextId_Old(s) == internal_id[s]

\* The subid of the next login.
NextId(s) == internal_id[s] + 1

\* login_handler up to its first yield: it gives out a subid, and has the
\* agent a, or none yet.
NewLogin(c, st, a) ==
  LET s == call[c].server
      u == call[c].uid
  IN
  /\ Called(c, "login") /\ users[s, u] = None
  /\ internal_id' = [internal_id EXCEPT ![s] = @ + 1]
  /\ pending' = [pending EXCEPT ![c] =
       [st |-> st, server |-> s, uid |-> u, subid |-> NextId(s), agent |-> a]]
  /\ Serve(c)

\* login_handler takes an agent from the pool,
GateLogin(c, a) ==
  /\ NewLogin(c, "login", a)
  /\ a \in Pooled(call[c].server)
  /\ FromPool(a)
  /\ Post(a, LoginMsg(c, call[c].uid, NextId(call[c].server)))
  /\ UNCHANGED <<users, username_map, created, leave, fd, shake, version,
                 notifyq, acked, sent>>

\* or has one created while there are too few,
GateSpawn(c) ==
  /\ NewLogin(c, "spawn", None)
  /\ Pooled(call[c].server) = {}
  /\ curr_agent(call[c].server) < MaxAgent[call[c].server]
  /\ UNCHANGED <<users, username_map, pool, created, leave, fd, shake, version,
                 notifyq, acked, mbox, sent>>

\* or raises an error: the player is here already, or no agent is left.  The
\* subid is used up in that case.
GateLoginError(c) ==
  LET s == call[c].server IN
  /\ Called(c, "login")
  /\ \/ /\ users[s, call[c].uid] # None
        /\ UNCHANGED internal_id
     \/ /\ users[s, call[c].uid] = None
        /\ Pooled(s) = {} /\ curr_agent(s) >= MaxAgent[s]
        /\ internal_id' = [internal_id EXCEPT ![s] = @ + 1]
  /\ Refuse(c)
  /\ UNCHANGED <<users, username_map, pool, created, pending, leave, fd, shake,
                 version, notifyq, acked, mbox, sent>>

\* skynet.newservice has returned: the new agent is counted and told the
\* gate's counter, as it is by now.
GateSpawned(c) ==
  /\ pending[c].st = "spawn"
  /\ \E a \in Agent \ created :
       /\ Home[a] = pending[c].server
       /\ created' = created \cup {a}
       /\ pending' = [pending EXCEPT ![c].st = "login", ![c].agent = a]
       /\ Post(a, LoginMsg(c, pending[c].uid, internal_id[pending[c].server]))
  /\ UNCHANGED <<users, username_map, pool, internal_id, leave, fd, shake,
                 version, call, notifyq, acked, sent>>

\* The agent has answered login_handler.  The subid it returns is the
\* gate's counter, as it is by now.
GateLoginDone(c) ==
  LET p == pending[c] IN
  /\ p.st = "login"
  /\ Sent(p.agent, Reply("login", c)) /\ Receive(p.agent)
  /\ users' = [users EXCEPT ![<<p.server, p.uid>>] =
                 [agent |-> p.agent, subid |-> p.subid, name |-> c]]
  /\ username_map' = [username_map EXCEPT ![c] =
                        [agent |-> p.agent, subid |-> p.subid]]
  /\ Answer(c, "login", internal_id[p.server])
  /\ pending' = [pending EXCEPT ![c] = NoPending]
  /\ UNCHANGED <<pool, created, internal_id, leave, fd, shake, version,
                 notifyq, acked, mbox>>

\* logout_handler, called by coroutine k of agent a: nothing to do for a
\* player it has not, an error for another subid; else the session ends, its
\* client is disconnected, and the login server is told.
GateLogout(a, k) ==
  LET l == Head(sent[a])
      s == Home[a]
      u == users[s, l.uid]
  IN
  /\ sent[a] # <<>> /\ l.op = "leave" /\ l.co = k
  /\ Receive(a)
  /\ \/ /\ ~Has(s, l.uid, l.subid)
        /\ Post(a, LeftMsg(k, u = None))
        /\ UNCHANGED <<users, username_map, leave, fd, notifyq>>
     \/ /\ Has(s, l.uid, l.subid)
        /\ Drop(s, l.uid)
        /\ username_map' = [username_map EXCEPT ![u.name] = None]
        /\ fd' = [fd EXCEPT ![u.name] = FALSE]
        /\ leave' = [leave EXCEPT ![<<a, k>>] = u.agent]
        /\ Notify(s, l.uid, <<a, k>>)
        /\ UNCHANGED mbox
  /\ UNCHANGED <<pool, created, internal_id, pending, shake, version,
                 call, acked>>

\* The login server has been told: the agent goes back to the pool.
GateLogoutDone(a, k) ==
  /\ leave[a, k] # None /\ <<a, k>> \in acked
  /\ acked' = acked \ {<<a, k>>}
  /\ ToPool(leave[a, k])
  /\ leave' = [leave EXCEPT ![<<a, k>>] = None]
  /\ Post(a, LeftMsg(k, TRUE))
  /\ UNCHANGED <<users, username_map, created, internal_id, pending, fd, shake,
                 version, call, notifyq, sent>>

\* kick_handler: an error for another subid; has the agent log out; or tells
\* the login server that the player is not here.
GateKick(c) ==
  LET s == call[c].server
      u == users[s, call[c].uid]
  IN
  /\ Called(c, "kick")
  /\ \/ /\ u # None /\ ~Has(s, call[c].uid, call[c].subid)
        /\ Refuse(c)
        /\ UNCHANGED <<mbox, notifyq>>
     \/ /\ Has(s, call[c].uid, call[c].subid)
        /\ Serve(c)
        /\ Post(u.agent, KickMsg(c))
        /\ UNCHANGED notifyq
     \/ /\ u = None
        /\ Serve(c)
        /\ Notify(s, call[c].uid, c)
        /\ UNCHANGED mbox
  /\ UNCHANGED <<gateVars, acked, sent>>

GateKickDone(c) ==
  /\ \/ /\ \E a \in Agent : Sent(a, Reply("logout", c)) /\ Receive(a)
        /\ UNCHANGED acked
     \/ /\ c \in acked
        /\ acked' = acked \ {c}
        /\ UNCHANGED sent
  /\ Answer(c, "kick", 0)
  /\ UNCHANGED <<gateVars, notifyq, mbox>>

\* The client of login c, who was told the session (s, u, n), connects with
\* an index above the last one.  auth_handler tells the player's agent.
Handshake(c, s, u, n) ==
  /\ ~fd[c] /\ shake[c] = "none" /\ version[c] < MaxIndex
  /\ username_map[c] # None /\ username_map[c].subid = n
  /\ users[s, u] # None
  /\ fd' = [fd EXCEPT ![c] = TRUE]
  /\ version' = [version EXCEPT ![c] = @ + 1]
  /\ shake' = [shake EXCEPT ![c] = "auth"]
  /\ Post(users[s, u].agent, AuthMsg(c))
  /\ UNCHANGED <<users, username_map, pool, created, internal_id, pending,
                 leave, call, notifyq, acked, sent>>

\* The agent has answered auth_handler: 200 for the client, and the player
\* is put online, if still there.
GateAuthed(c, s, u) ==
  /\ \E a \in Agent : Sent(a, Reply("auth", c)) /\ Receive(a)
  /\ \/ /\ users[s, u] # None
        /\ Post(users[s, u].agent, OnlineMsg(c))
        /\ shake' = [shake EXCEPT ![c] = "online"]
     \/ /\ users[s, u] = None
        /\ shake' = [shake EXCEPT ![c] = "none"]
        /\ UNCHANGED mbox
  /\ UNCHANGED <<users, username_map, pool, created, internal_id, pending,
                 leave, fd, version, call, notifyq, acked>>

GateOnlined(c) ==
  /\ \E a \in Agent : Sent(a, Reply("online", c)) /\ Receive(a)
  /\ shake' = [shake EXCEPT ![c] = "none"]
  /\ UNCHANGED <<users, username_map, pool, created, internal_id, pending,
                 leave, fd, version, call, notifyq, acked, mbox>>

\* disconnect_handler: the agent learns that its client has left.
Disconnect(c) ==
  /\ fd[c]
  /\ fd' = [fd EXCEPT ![c] = FALSE]
  /\ Post(username_map[c].agent, AfkMsg)
  /\ UNCHANGED <<users, username_map, pool, created, internal_id, pending,
                 leave, shake, version, call, notifyq, acked, sent>>

\* request_handler forwards the client's LogoutRequest, which coroutine k
\* of the agent will serve.
ClientLogout(c, k) ==
  /\ fd[c] /\ shake[c] = "none"
  /\ \A i \in 1..Len(mbox[username_map[c].agent]) :
       mbox[username_map[c].agent][i] # ClientMsg(k)
  /\ Post(username_map[c].agent, ClientMsg(k))
  /\ UNCHANGED <<gateVars, call, notifyq, acked, sent>>

\* The node of server s dies and starts again: the gate is as new, its clients
\* are disconnected, what it was doing, for the clients C too, is lost and
\* the calls it was serving fail.  A logout call it had sent may still
\* arrive.  Its agents are new services too.
GateCrash(s, C) ==
  LET dead == {a \in Agent : Home[a] = s}
      gone(c) == username_map[c] # None /\ username_map[c].agent \in dead
  IN
  /\ users' = [p \in Server \X Uid |-> IF p[1] = s THEN None ELSE users[p]]
  /\ pool' = [a \in Agent |-> IF a \notin dead THEN pool[a]
                              ELSE IF a \in Precreated THEN 1 ELSE 0]
  /\ created' = (created \ dead) \cup (Precreated \cap dead)
  /\ internal_id' = [internal_id EXCEPT ![s] = 0]
  /\ username_map' = [c \in Conn |-> IF gone(c) THEN None ELSE username_map[c]]
  /\ pending' = [c \in Conn |-> IF pending[c].server = s THEN NoPending
                                ELSE pending[c]]
  /\ fd' = [c \in Conn |-> fd[c] /\ ~gone(c)]
  /\ shake' = [c \in Conn |-> IF c \in C THEN "none" ELSE shake[c]]
  /\ call' = [c \in Conn |->
       IF call[c].server = s /\ call[c].st = "serving"
       THEN [call[c] EXCEPT !.st = "fail"] ELSE call[c]]
  /\ notifyq' = [notifyq EXCEPT ![s] =
       [i \in 1..Len(@) |-> [@[i] EXCEPT !.by = None]]]
  /\ acked' = acked \ (dead \X Co)
  /\ mbox' = [a \in Agent |-> IF a \in dead THEN <<>> ELSE mbox[a]]
  /\ leave' = [p \in Agent \X Co |-> IF p[1] \in dead THEN None ELSE leave[p]]
  /\ sent' = [a \in Agent |-> IF a \in dead THEN <<>> ELSE sent[a]]
  /\ UNCHANGED version
=============================================================================
