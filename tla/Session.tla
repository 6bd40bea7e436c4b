------------------------------ MODULE Session -------------------------------
(***************************************************************************)
(* A player's session across the login server, the gates of the game       *)
(* servers and their agents: LoginMaster, Gated and MsgAgent composed over *)
(* the calls and messages of Skynet, with the clients and the faults of    *)
(* the network and of the processes.                                       *)
(***************************************************************************)
EXTENDS LoginMaster, Gated, MsgAgent

CONSTANTS
  MaxLost,   \* how many calls the network fails: a bound
  MaxCrash   \* how many times a process dies: a bound

ASSUME MaxLostAssumption == MaxLost \in Nat
ASSUME MaxCrashAssumption == MaxCrash \in Nat

VARIABLES
  lost,   \* calls the network has failed
  crash   \* processes that have died

vars == <<fabricVars, loginVars, gateVars, agentVars, lost, crash>>

TypeOK ==
  /\ FabricTypeOK
  /\ LoginTypeOK
  /\ GateTypeOK
  /\ AgentTypeOK
  /\ lost \in Nat
  /\ crash \in Nat

Init ==
  /\ FabricInit
  /\ LoginInit
  /\ GateInit
  /\ AgentInit
  /\ lost = 0
  /\ crash = 0

-----------------------------------------------------------------------------
\* The steps of each service, and what they leave alone.

\* Login c was answered 200: its client knows a session.
Told(c) == conn[c].st = "ok"

OnlyLogin == UNCHANGED <<gateVars, agentVars, lost, crash>>
OnlyGate  == UNCHANGED <<loginVars, agentVars, lost, crash>>
OnlyAgent == UNCHANGED <<loginVars, gateVars, lost, crash>>

LoginHandler(c) == (KickReturn(c) \/ LoginReturn(c)) /\ OnlyLogin
LogoutCommand(s) == Logout(s) /\ OnlyLogin

GateHandler(c) ==
  /\ \/ \E a \in Agent : GateLogin(c, a)
     \/ GateSpawn(c) \/ GateLoginError(c)
     \/ GateSpawned(c) \/ GateLoginDone(c)
     \/ GateKick(c) \/ GateKickDone(c)
  /\ OnlyGate
GateShake(c) ==
  /\ \/ Told(c) /\ GateAuthed(c, conn[c].server, conn[c].uid)
     \/ GateOnlined(c)
  /\ OnlyGate
GateLeave(a, k) == (GateLogout(a, k) \/ GateLogoutDone(a, k)) /\ OnlyGate

AgentTurn(a)     == Turn(a) /\ OnlyAgent
AgentResume(a)   == Resume(a) /\ OnlyAgent
AgentCo(a, k)    == ResumeCo(a, k) /\ OnlyAgent

Services ==
  \/ \E c \in Conn : LoginHandler(c) \/ GateHandler(c) \/ GateShake(c)
  \/ \E s \in Server : LogoutCommand(s)
  \/ \E a \in Agent : \/ AgentTurn(a) \/ AgentResume(a)
                      \/ \E k \in Co : GateLeave(a, k) \/ AgentCo(a, k)

\* A coroutine of the agent that no request occupies.
Free(a, k) == At(a, k, "none")

\* What clients do: log in, connect to the gate they were told, ask to be
\* logged out, disconnect.
Player(c) ==
  \/ /\ \E u \in Uid, s \in Server : Accept(c, u, s)
     /\ OnlyLogin
  \/ /\ \/ Told(c) /\ Handshake(c, conn[c].server, conn[c].uid, conn[c].subid)
        \/ Disconnect(c)
        \/ \E k \in Client : ClientLogout(c, k) /\ Free(username_map[c].agent, k)
     /\ OnlyGate

\* What goes wrong.
NetworkFault ==
  /\ lost < MaxLost /\ lost' = lost + 1
  /\ \/ \E c \in Conn : CallFails(c)
     \/ \E s \in Server : LoseNotify(s)
  /\ UNCHANGED <<loginVars, gateVars, agentVars, crash>>

Crash ==
  /\ crash < MaxCrash /\ crash' = crash + 1
  /\ \/ LoginCrash /\ UNCHANGED <<gateVars, agentVars>>
     \/ /\ \E s \in Server :
             /\ GateCrash(s, {c \in Conn : Told(c) /\ conn[c].server = s})
             /\ AgentCrash({a \in Agent : Home[a] = s})
        /\ UNCHANGED loginVars
  /\ UNCHANGED lost

Next ==
  \/ Services
  \/ \E c \in Conn : Player(c)
  \/ NetworkFault
  \/ Crash

Spec == Init /\ [][Next]_vars

\* skynet resumes every coroutine whose answer has come, takes every message
\* and fires every timer.  Nothing is asked of the clients, and faults need
\* not happen.
Fairness ==
  /\ \A c \in Conn : /\ WF_vars(LoginHandler(c))
                     /\ WF_vars(GateHandler(c))
                     /\ WF_vars(GateShake(c))
  /\ \A s \in Server : WF_vars(LogoutCommand(s))
  /\ \A a \in Agent :
       /\ WF_vars(AgentTurn(a))
       /\ WF_vars(AgentResume(a))
       /\ \A k \in Co : WF_vars(GateLeave(a, k)) /\ WF_vars(AgentCo(a, k))

FairSpec == Spec /\ Fairness

-----------------------------------------------------------------------------
\* Who has an agent: the pool, a player's session, a login in progress, or a
\* logout in progress.

InPool(a)        == pool[a] > 0
InUsers(a, p)    == users[p] # None /\ users[p].agent = a
InLoginOf(a, c)  == pending[c].st = "login" /\ pending[c].agent = a
InLogoutOf(a, p) == leave[p] = a

Seat == Server \X Uid
Leaver == Agent \X Co

\* No agent is ever given to two players, and none enters the pool twice: a
\* gate's handlers yield between taking an agent and recording it, and
\* between dropping a session and putting its agent back (gated.lua:53-95).
PoolOnce   == \A a \in Agent : pool[a] =< 1
PoolFree   == \A a \in Agent : InPool(a) =>
                /\ \A p \in Seat : ~InUsers(a, p)
                /\ \A c \in Conn : ~InLoginOf(a, c)
                /\ \A p \in Leaver : ~InLogoutOf(a, p)
OneHolder  == \A a \in Agent :
                /\ \A p, q \in Seat : InUsers(a, p) /\ InUsers(a, q) => p = q
                /\ \A c, d \in Conn : InLoginOf(a, c) /\ InLoginOf(a, d) => c = d
                /\ \A p, q \in Leaver : InLogoutOf(a, p) /\ InLogoutOf(a, q) => p = q
OneRole    == \A a \in Agent :
                /\ \A p \in Seat, c \in Conn : ~(InUsers(a, p) /\ InLoginOf(a, c))
                /\ \A p \in Seat, q \in Leaver : ~(InUsers(a, p) /\ InLogoutOf(a, q))
                /\ \A c \in Conn, q \in Leaver : ~(InLoginOf(a, c) /\ InLogoutOf(a, q))
AgentsExclusive == PoolOnce /\ PoolFree /\ OneHolder /\ OneRole

\* No agent is lost: one that exists stays on its gate's books, in the pool, in
\* a session, or with the login or logout that is about to put it there
\* (gated.lua:53-95).
AgentsNotLost == \A a \in created :
  \/ InPool(a)
  \/ \E p \in Seat : InUsers(a, p)
  \/ \E c \in Conn : InLoginOf(a, c)
  \/ \E p \in Leaver : InLogoutOf(a, p)

\* The agent a logout returns to the pool is the one that asked for it, and
\* not the one that serves the same player by now (gated.lua:85-96).
ReturnsItself == \A p \in Leaver : leave[p] \in {p[1], None}

\* While a player's login runs, no other login of the same player does, and
\* the lock is held exactly then (login_server.lua:144-157).
LoginExclusive ==
  /\ \A u \in Uid : Locked(u) <=> \E c \in Conn : InLogin(c) /\ conn[c].uid = u
  /\ \A c, d \in Conn :
       InLogin(c) /\ InLogin(d) /\ conn[c].uid = conn[d].uid => c = d

\* login_handler checks that the player is nowhere before it yields and
\* writes the record after (logind.lua:87-100): it never replaces one.
NeverReplaced == [][\A u \in Uid :
  user_online[u] # None /\ user_online'[u] # None
    => user_online'[u] = user_online[u]]_vars

\* What the agent of a session knows is that session or nothing, but for the
\* subid: one created while other logins ran may have been told the number of
\* one of them (gated.lua:68-72).  No late answer or queued command makes it
\* act for another player, or for an earlier session of the same one.
NoCrossTalk == \A p \in Seat :
  LET known == bound[users[p].agent] IN
  users[p] # None /\ known # None =>
    known.uid = p[2] /\ known.subid \in users[p].subid .. internal_id[p[1]]

\* The agent of a session knows its very subid, so that the gate accepts its
\* logout: "login server disallow multi login, so login_handler never be
\* reentry" (gated.lua:40).
KnowsItsSubid == \A p \in Seat : users[p] # None =>
  bound[users[p].agent] \in {None, [uid |-> p[2], subid |-> users[p].subid]}

\* The subid the login server keeps, and tells the client, is the session's:
\* "you should return unique subid" (gated.lua:79).
SubidAgrees == \A u \in Uid : user_online[u] # None =>
  LET u1 == users[user_online[u].server, u]
  IN  u1 # None => u1.subid = user_online[u].subid

\* A player is on one server at a time: "only one can login, because
\* disallow multilogin" (logind.lua:75).
SingleSession == \A u \in Uid : \A s, t \in Server :
  users[s, u] # None /\ users[t, u] # None => s = t

\* When no login of a player runs, the login server knows where he is.
RecordTracksSession == \A p \in Seat :
  users[p] # None /\ ~Locked(p[2]) =>
    user_online[p[2]] = [server |-> p[1], subid |-> users[p].subid]

\* Where a player is, as a directory of the servers would say, and what has
\* become of each client's login: one whose answer is on its way to the login
\* server has placed its player already.
Place(s, n)  == [server |-> s, subid |-> n]
HomeOf(u)    == IF \E s \in Server : users[s, u] # None
                THEN LET s == CHOOSE s \in Server : users[s, u] # None
                     IN  Place(s, users[s, u].subid)
                ELSE None
LoginOf(c) ==
  LET st == conn[c].st
      is(name, place) == [st |-> name, uid |-> conn[c].uid, place |-> place]
  IN  IF st = "ok" THEN is("told", Place(conn[c].server, conn[c].subid))
      ELSE IF st = "login" /\ call[c].st = "ok"
        THEN is("placed", Place(call[c].server, call[c].subid))
      ELSE is(IF InLogin(c) THEN "asks" ELSE st, None)

Directory == INSTANCE PlayerDirectory WITH
  home <- [u \in Uid |-> HomeOf(u)], known <- user_online,
  client <- [c \in Conn |-> LoginOf(c)]

\* The servers keep a directory of the players: each login that is answered
\* gives its player a place of his own, of which its client is told, and no
\* late logout or kick makes the login server forget a player who is there
\* (logind.lua:74-117, gated.lua:44-114).
KeepsDirectory == Directory!Spec

\* Each session of a gate is the place that one client has been told, or is
\* going to be told (logind.lua:97-100, gated.lua:60-83).
PlacedByLogin == Directory!PlacedByLogin

\* The agent of a session knows whose it is: "The logout MAY be reentry"
\* (msgagent.lua:136).
AgentKnowsItsUser == \A p \in Seat : users[p] # None =>
  bound[users[p].agent] = [uid |-> p[2], subid |-> users[p].subid]

\* The timer forces a logout on a player who has been away, not on one whose
\* client is back: "the user may back" (msgagent.lua:142).
Connected(a) == \E c \in Conn :
  fd[c] /\ shake[c] = "none" /\ username_map[c].agent = a
IdleMeansAway == [][\A a \in Agent, w \in Worker :
  IdleLogout(a, w) => ~Connected(a)]_vars

\* An agent in the pool runs no timer: logout has told it to end
\* (msgagent.lua:61-64).
PooledIsStopped == \A a \in Agent : InPool(a) => ~running[a] \/ csop[a] # None

\* Every login is answered.
LoginAnswered == \A c \in Conn : InLogin(c) ~> ~InLogin(c)

\* Every logout ends, whoever runs it.
LogoutEnds == \A a \in Agent, k \in Co :
  co[a, k] \in {"leave", "unload"} ~> co[a, k] \notin {"leave", "unload"}

\* Client c's session has been authenticated and its connection is broken; its
\* agent knows whose session it is.
Away(c) == username_map[c] # None /\ version[c] > 0 /\ ~fd[c]
KnownByAgent(c) ==
  bound[username_map[c].agent] = [uid |-> conn[c].uid,
                                  subid |-> username_map[c].subid]

\* A player who has left without logging out is logged out in the end or comes
\* back, as long as his agent knows whose session it is: the return of a late
\* logout makes it forget (msgagent.lua:65-77).
AwayLeaves == \A c \in Conn :
  (Away(c) /\ KnownByAgent(c)) ~> (~Away(c) \/ ~KnownByAgent(c))

\* He is logged out in the end or comes back, whatever the agent knows: "a
\* forced logout one minute after the player disconnects" (msgagent.lua:86).
AwayIsLoggedOut == \A c \in Conn : Away(c) ~> ~Away(c)
=============================================================================
