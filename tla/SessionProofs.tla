--------------------------- MODULE SessionProofs ----------------------------
(***************************************************************************)
(* Proofs about Session, for every number of servers, players, logins and  *)
(* agents and with every fault.  First types, that agents are exclusive,   *)
(* and that logins of a player exclude each other.  Then what the agents   *)
(* know of their players: a gate gives a subid out once, and everything    *)
(* that names it afterwards, a message, a binding, a session or a login,   *)
(* belongs to one agent.  From this follow that an agent which ends a      *)
(* session returns itself to the pool, that it never acts for another      *)
(* player than its gate thinks, and, without faults, that no agent is lost.*)
(* Then the login server's records: they follow the sessions of the gates  *)
(* as long as no fault occurs and no login of another player moves the     *)
(* counter that login_handler returns as the subid; the run two_homes      *)
(* shows what happens otherwise.  At last, and under the same conditions,  *)
(* that all of it together keeps a directory of the players.               *)
(***************************************************************************)
EXTENDS Session, Functions, TLAPS

-----------------------------------------------------------------------------
\* Types.  One lemma per action, over lemmas about the fabric's queues.

\* A call of login_handler is a well-typed call.
LEMMA CallType ==
  ASSUME FabricTypeOK, NEW c \in Conn, NEW op \in {"kick", "login"},
         NEW s \in Server, NEW u \in Uid, NEW n \in Nat, Call(c, op, s, u, n)
  PROVE  call' \in [Conn -> CallRec \cup {NoCall}]
BY DEF Call, FabricTypeOK, CallRec

\* A call with a name is a call record, not NoCall;
LEMMA CalledType ==
  ASSUME FabricTypeOK, NEW c \in Conn, call[c].op \in {"kick", "login"}
  PROVE  call[c] \in CallRec
BY DEF FabricTypeOK, NoCall

\* so is a call that has been made.
LEMMA CallStType ==
  ASSUME FabricTypeOK, NEW c \in Conn, call[c].st \in {"sent", "serving", "ok", "fail"}
  PROVE  call[c] \in CallRec
BY DEF FabricTypeOK, NoCall

\* A connection that has been accepted has a login record.
LEMMA ConnType ==
  ASSUME LoginTypeOK, NEW c \in Conn, conn[c].st \in {"kick", "login", "ok", "refused"}
  PROVE  conn[c] \in [st : {"kick", "login", "ok", "refused"}, uid : Uid,
                        server : Server, subid : Nat]
BY DEF LoginTypeOK, NoLogin

\* The steps of login_handler after the kick and after the login keep the types.
LEMMA LoginHandlerType ==
  ASSUME TypeOK, NEW c \in Conn, LoginHandler(c) PROVE TypeOK'
<1> FabricTypeOK /\ LoginTypeOK BY DEF TypeOK
<1>1. CASE KickReturn(c)
  <2>1. conn[c].uid \in Uid /\ conn[c].server \in Server
     BY <1>1, ConnType DEF KickReturn
  <2>2. call' \in [Conn -> CallRec \cup {NoCall}]
     BY <1>1, <2>1, CallType DEF KickReturn, FabricTypeOK
  <2>3. user_login' \subseteq Uid BY <1>1 DEF KickReturn, LoginTypeOK, Unlock
  <2>4. user_online' \in [Uid -> [server : Server, subid : Nat] \cup {None}]
     BY <1>1, <2>1 DEF KickReturn, AfterKick, LoginTypeOK
  <2>5. conn' \in [Conn -> [st : {"kick", "login", "ok", "refused"}, uid : Uid,
                        server : Server, subid : Nat] \cup {NoLogin}]
     BY <1>1, <2>1, ConnType DEF KickReturn, LoginTypeOK
  <2> QED BY <2>2, <2>3, <2>4, <2>5, <1>1 DEF KickReturn, LoginHandler, OnlyLogin,
        TypeOK, FabricTypeOK, LoginTypeOK, GateTypeOK, AgentTypeOK, gateVars, agentVars
<1>2. CASE LoginReturn(c)
  <2>1. conn[c].uid \in Uid /\ conn[c].server \in Server
     BY <1>2, ConnType DEF LoginReturn
  <2>2. call[c].st = "ok" => call[c].subid \in Nat
     BY CallStType DEF CallRec
  <2>3. user_login' \subseteq Uid BY <1>2 DEF LoginReturn, LoginTypeOK, Unlock
  <2>4. user_online' \in [Uid -> [server : Server, subid : Nat] \cup {None}]
     BY <1>2, <2>1, <2>2 DEF LoginReturn, Record, LoginTypeOK
  <2>5. conn' \in [Conn -> [st : {"kick", "login", "ok", "refused"}, uid : Uid,
                        server : Server, subid : Nat] \cup {NoLogin}]
     BY <1>2, <2>2, ConnType DEF LoginReturn, LoginTypeOK
  <2> QED BY <2>3, <2>4, <2>5, <1>2 DEF LoginReturn, LoginHandler, OnlyLogin,
        TypeOK, FabricTypeOK, LoginTypeOK, GateTypeOK, AgentTypeOK, gateVars, agentVars, fabricVars
<1> QED BY <1>1, <1>2 DEF LoginHandler

\* The head and the tail of a queue that is not empty.
LEMMA SeqHeadTail ==
  ASSUME NEW S, NEW q \in Seq(S), q # <<>>
  PROVE  Head(q) \in S /\ Tail(q) \in Seq(S)
OBVIOUS

\* A queue with one more element.
LEMMA SeqAppend ==
  ASSUME NEW S, NEW q \in Seq(S), NEW e \in S
  PROVE  Append(q, e) \in Seq(S)
OBVIOUS

\* A function with one value replaced.
LEMMA Update ==
  ASSUME NEW D, NEW R, NEW f \in [D -> R], NEW d \in D, NEW r \in R
  PROVE  [f EXCEPT ![d] = r] \in [D -> R]
OBVIOUS

\* A message put in a mailbox keeps its type,
LEMMA PostType ==
  ASSUME FabricTypeOK, NEW a \in Agent, NEW m \in Msg, Post(a, m)
  PROVE  mbox' \in [Agent -> Seq(Msg)]
BY DEF FabricTypeOK, Post

\* a logout call keeps that of the queue to the login server,
LEMMA NotifyType ==
  ASSUME FabricTypeOK, NEW s \in Server, NEW u \in Uid, NEW by \in Caller,
         Notify(s, u, by)
  PROVE  notifyq' \in [Server -> Seq(NotifyMsg)]
<1>1. [uid |-> u, by |-> by] \in NotifyMsg BY DEF NotifyMsg
<1>2. notifyq[s] \in Seq(NotifyMsg) BY DEF FabricTypeOK
<1>3. Append(notifyq[s], [uid |-> u, by |-> by]) \in Seq(NotifyMsg)
   BY <1>1, <1>2, SeqAppend
<1> QED BY <1>3 DEF FabricTypeOK, Notify

\* the first logout call is one,
LEMMA HeadNotify ==
  ASSUME FabricTypeOK, NEW s \in Server, notifyq[s] # <<>>
  PROVE  /\ Head(notifyq[s]) \in NotifyMsg
         /\ Tail(notifyq[s]) \in Seq(NotifyMsg)
BY SeqHeadTail DEF FabricTypeOK

\* those who are told that theirs returned are callers,
LEMMA AckType ==
  ASSUME FabricTypeOK, NEW B, B \subseteq Caller \cup {None}, Ack(B)
  PROVE  acked' \subseteq Caller
BY DEF FabricTypeOK, Ack

\* what a gate receives from an agent is a message to a gate,
LEMMA ReceiveType ==
  ASSUME FabricTypeOK, NEW a \in Agent, sent[a] # <<>>, Receive(a)
  PROVE  /\ sent' \in [Agent -> Seq(GateMsg)]
         /\ Head(sent[a]) \in GateMsg
BY DEF FabricTypeOK, Receive

\* what an agent sends keeps the type of what it sent,
LEMMA SendType ==
  ASSUME FabricTypeOK, NEW a \in Agent, NEW m \in GateMsg, Send(a, m)
  PROVE  sent' \in [Agent -> Seq(GateMsg)]
BY DEF FabricTypeOK, Send

\* and so does taking a message from a mailbox.
LEMMA TakeType ==
  ASSUME FabricTypeOK, NEW a \in Agent, mbox[a] # <<>>
  PROVE  /\ Take(a) => mbox' \in [Agent -> Seq(Msg)]
         /\ Head(mbox[a]) \in Msg
<1>1. mbox[a] \in Seq(Msg) BY DEF FabricTypeOK
<1>2. Head(mbox[a]) \in Msg /\ Tail(mbox[a]) \in Seq(Msg) BY <1>1, SeqHeadTail
<1> QED BY <1>2 DEF FabricTypeOK, Take

\* A call that is answered keeps its type,
LEMMA AnswerType ==
  ASSUME FabricTypeOK, NEW c \in Conn, NEW op \in {"kick", "login"},
         NEW n \in Nat, Answer(c, op, n)
  PROVE  call' \in [Conn -> CallRec \cup {NoCall}]
<1>1. CASE call[c].op = op /\ call[c].st = "serving"
  <2>1. call[c] \in CallRec BY <1>1, CallStType
  <2>2. [call[c] EXCEPT !.st = "ok", !.subid = n] \in CallRec BY <2>1 DEF CallRec
  <2>3. call' = [call EXCEPT ![c] = [call[c] EXCEPT !.st = "ok", !.subid = n]]
     BY <1>1 DEF Answer, FabricTypeOK
  <2>4. call \in [Conn -> CallRec \cup {NoCall}] BY DEF FabricTypeOK
  <2>5. [call EXCEPT ![c] = [call[c] EXCEPT !.st = "ok", !.subid = n]]
           \in [Conn -> CallRec \cup {NoCall}]
     BY <2>2, <2>4, Update
  <2> QED BY <2>3, <2>5
<1>2. CASE ~(call[c].op = op /\ call[c].st = "serving")
  BY <1>2 DEF Answer, FabricTypeOK
<1> QED BY <1>1, <1>2

\* one that is taken up or refused too.
LEMMA ServeType ==
  ASSUME FabricTypeOK, NEW c \in Conn, call[c].st \in {"sent", "serving"},
         Serve(c) \/ Refuse(c)
  PROVE  call' \in [Conn -> CallRec \cup {NoCall}]
<1>1. call[c] \in CallRec BY CallStType
<1>2. \A st \in {"serving", "fail"} : [call[c] EXCEPT !.st = st] \in CallRec
   BY <1>1 DEF CallRec
<1>3. call \in [Conn -> CallRec \cup {NoCall}] BY DEF FabricTypeOK
<1>4. \A st \in {"serving", "fail"} :
        [call EXCEPT ![c] = [call[c] EXCEPT !.st = st]]
           \in [Conn -> CallRec \cup {NoCall}]
   BY <1>2, <1>3, Update
<1> QED BY <1>4 DEF Serve, Refuse

\* CMD.logout of logind keeps the types.
LEMMA LogoutCommandType ==
  ASSUME TypeOK, NEW s \in Server, LogoutCommand(s) PROVE TypeOK'
<1> FabricTypeOK /\ LoginTypeOK BY DEF TypeOK
<1> Logout(s) BY DEF LogoutCommand
<1>1. Head(notifyq[s]) \in NotifyMsg /\ Tail(notifyq[s]) \in Seq(NotifyMsg)
   BY HeadNotify DEF Logout
<1>2. notifyq' \in [Server -> Seq(NotifyMsg)] BY <1>1 DEF Logout, FabricTypeOK
<1>3. acked' \subseteq Caller BY <1>1, AckType DEF Logout, NotifyMsg
<1>4. user_online' \in [Uid -> [server : Server, subid : Nat] \cup {None}]
   BY DEF Logout, LoginTypeOK
<1> QED BY <1>2, <1>3, <1>4 DEF Logout, LogoutCommand, OnlyLogin, TypeOK,
     FabricTypeOK, LoginTypeOK, GateTypeOK, AgentTypeOK, gateVars, agentVars

\* accept() of login_server keeps the types.
LEMMA AcceptType ==
  ASSUME TypeOK, NEW c \in Conn, NEW u \in Uid, NEW s \in Server,
         Accept(c, u, s), OnlyLogin
  PROVE  TypeOK'
<1> FabricTypeOK /\ LoginTypeOK BY DEF TypeOK
<1>1. call' \in [Conn -> CallRec \cup {NoCall}]
  <2>1. CASE Locked(u) BY <2>1 DEF Accept, FabricTypeOK
  <2>2. CASE ~Locked(u) /\ user_online[u] = None
     BY <2>2, CallType DEF Accept
  <2>3. CASE ~Locked(u) /\ user_online[u] # None
    <3>1. user_online[u].server \in Server /\ user_online[u].subid \in Nat
       BY <2>3 DEF LoginTypeOK
    <3> QED BY <2>3, <3>1, CallType DEF Accept
  <2> QED BY <2>1, <2>2, <2>3
<1>2. user_login' \subseteq Uid BY DEF Accept, Lock, LoginTypeOK
<1>3. conn' \in [Conn -> [st : {"kick", "login", "ok", "refused"}, uid : Uid,
                      server : Server, subid : Nat] \cup {NoLogin}]
   BY DEF Accept, Becomes, LoginTypeOK
<1> QED BY <1>1, <1>2, <1>3 DEF Accept, OnlyLogin, TypeOK,
     FabricTypeOK, LoginTypeOK, GateTypeOK, AgentTypeOK, gateVars, agentVars

\* The values of pending, and a session record of users.
PendingRec ==
  {NoPending}
    \cup [st : {"spawn"}, server : Server, uid : Uid, subid : Nat, agent : {None}]
    \cup [st : {"login"}, server : Server, uid : Uid, subid : Nat, agent : Agent]

\* What login_handler does before its first yield keeps the types,
LEMMA NewLoginType ==
  ASSUME FabricTypeOK, GateTypeOK, NEW c \in Conn, NEW st, NEW a,
         NewLogin(c, st, a),
         \/ st = "login" /\ a \in Agent
         \/ st = "spawn" /\ a = None
  PROVE  /\ call[c] \in CallRec
         /\ NextId(call[c].server) \in Nat
         /\ call' \in [Conn -> CallRec \cup {NoCall}]
         /\ internal_id' \in [Server -> Nat]
         /\ pending' \in [Conn -> PendingRec]
<1> DEFINE s == call[c].server
<1>1. call[c] \in CallRec BY CalledType DEF NewLogin, Called
<1>2. s \in Server /\ call[c].uid \in Uid BY <1>1 DEF CallRec
<1>3. call' \in [Conn -> CallRec \cup {NoCall}]
   BY ServeType DEF NewLogin, Called
<1>4. internal_id[s] \in Nat /\ NextId(s) \in Nat
   BY <1>2 DEF NextId, GateTypeOK
<1>5. internal_id' \in [Server -> Nat]
  <2>1. internal_id' = [internal_id EXCEPT ![s] = internal_id[s] + 1]
     BY DEF NewLogin
  <2>2. internal_id[s] + 1 \in Nat BY <1>4
  <2>3. internal_id \in [Server -> Nat] BY DEF GateTypeOK
  <2> QED BY <1>2, <2>1, <2>2, <2>3, Update
<1>6. [st |-> st, server |-> s, uid |-> call[c].uid, subid |-> NextId(s), agent |-> a]
        \in PendingRec
   BY <1>2, <1>4 DEF PendingRec
<1>7. pending' \in [Conn -> PendingRec]
   BY <1>6, Update DEF NewLogin, GateTypeOK, PendingRec
<1> QED BY <1>1, <1>3, <1>4, <1>5, <1>7

\* with an agent of the pool or none yet,
LEMMA GateLoginType ==
  ASSUME TypeOK, NEW c \in Conn, OnlyGate,
         (\E a \in Agent : GateLogin(c, a)) \/ GateSpawn(c)
  PROVE  TypeOK'
<1> FabricTypeOK /\ GateTypeOK BY DEF TypeOK
<1>1. ASSUME NEW a \in Agent, GateLogin(c, a) PROVE TypeOK'
  <2>1. NewLogin(c, "login", a) BY <1>1 DEF GateLogin
  <2>2. /\ call[c] \in CallRec
        /\ NextId(call[c].server) \in Nat
        /\ call' \in [Conn -> CallRec \cup {NoCall}]
        /\ internal_id' \in [Server -> Nat]
        /\ pending' \in [Conn -> PendingRec]
     BY <2>1, NewLoginType
  <2>3. pool' \in [Agent -> Nat]
    <3>1. pool[a] \in Nat /\ pool[a] > 0
       BY <1>1 DEF GateLogin, Pooled, GateTypeOK
    <3> QED BY <1>1, <3>1 DEF GateLogin, FromPool, GateTypeOK
  <2>4. mbox' \in [Agent -> Seq(Msg)]
    <3>1. LoginMsg(c, call[c].uid, NextId(call[c].server)) \in Msg
       BY <2>2 DEF LoginMsg, Msg, CsMsg, CallRec
    <3> QED BY <1>1, <3>1, PostType DEF GateLogin
  <2> QED BY <1>1, <2>2, <2>3, <2>4 DEF GateLogin, OnlyGate, TypeOK,
       FabricTypeOK, LoginTypeOK, GateTypeOK, AgentTypeOK, loginVars, agentVars, PendingRec
<1>2. CASE GateSpawn(c)
  <2>1. NewLogin(c, "spawn", None) BY <1>2 DEF GateSpawn
  <2>2. /\ call' \in [Conn -> CallRec \cup {NoCall}]
        /\ internal_id' \in [Server -> Nat]
        /\ pending' \in [Conn -> PendingRec]
     BY <2>1, NewLoginType
  <2> QED BY <1>2, <2>2 DEF GateSpawn, OnlyGate, TypeOK,
       FabricTypeOK, LoginTypeOK, GateTypeOK, AgentTypeOK, loginVars, agentVars, PendingRec
<1> QED BY <1>1, <1>2

\* and when it raises an error.
LEMMA GateLoginErrorType ==
  ASSUME TypeOK, NEW c \in Conn, OnlyGate, GateLoginError(c) PROVE TypeOK'
<1> FabricTypeOK /\ GateTypeOK BY DEF TypeOK
<1> DEFINE s == call[c].server
<1>1. call[c] \in CallRec BY CalledType DEF GateLoginError, Called
<1>2. s \in Server BY <1>1 DEF CallRec
<1>3. call' \in [Conn -> CallRec \cup {NoCall}]
   BY ServeType DEF GateLoginError, Called
<1>4. internal_id' \in [Server -> Nat]
  <2>1. internal_id \in [Server -> Nat] /\ internal_id[s] + 1 \in Nat
     BY <1>2 DEF GateTypeOK
  <2>2. \/ internal_id' = internal_id
        \/ internal_id' = [internal_id EXCEPT ![s] = internal_id[s] + 1]
     BY DEF GateLoginError
  <2> QED BY <1>2, <2>1, <2>2, Update
<1> QED BY <1>3, <1>4 DEF GateLoginError, OnlyGate, TypeOK,
     FabricTypeOK, LoginTypeOK, GateTypeOK, AgentTypeOK, loginVars, agentVars

\* A login that waits for newservice has no agent yet;
LEMMA PendingSpawn ==
  ASSUME GateTypeOK, NEW c \in Conn, pending[c].st = "spawn"
  PROVE  /\ pending[c].server \in Server /\ pending[c].uid \in Uid
         /\ pending[c].subid \in Nat
         /\ \A a \in Agent :
              [pending[c] EXCEPT !.st = "login", !.agent = a] \in PendingRec
<1>1. pending[c] \in [st : {"spawn"}, server : Server, uid : Uid, subid : Nat,
                      agent : {None}]
   BY DEF GateTypeOK, NoPending
<1> QED BY <1>1 DEF PendingRec

\* one that waits for its agent has it.
LEMMA PendingLogin ==
  ASSUME GateTypeOK, NEW c \in Conn, pending[c].st = "login"
  PROVE  /\ pending[c].server \in Server /\ pending[c].uid \in Uid
         /\ pending[c].subid \in Nat /\ pending[c].agent \in Agent
BY DEF GateTypeOK, NoPending

\* login_handler after newservice keeps the types,
LEMMA GateSpawnedType ==
  ASSUME TypeOK, NEW c \in Conn, OnlyGate, GateSpawned(c) PROVE TypeOK'
<1> FabricTypeOK /\ GateTypeOK BY DEF TypeOK
<1>1. PICK a \in Agent \ created :
        /\ Home[a] = pending[c].server
        /\ created' = created \cup {a}
        /\ pending' = [pending EXCEPT ![c].st = "login", ![c].agent = a]
        /\ Post(a, LoginMsg(c, pending[c].uid, internal_id[pending[c].server]))
   BY DEF GateSpawned
<1>2. pending[c].st = "spawn" BY DEF GateSpawned
<1>3. mbox' \in [Agent -> Seq(Msg)]
  <2>1. pending[c].server \in Server /\ pending[c].uid \in Uid BY <1>2, PendingSpawn
  <2>2. internal_id[pending[c].server] \in Nat BY <2>1 DEF GateTypeOK
  <2>3. LoginMsg(c, pending[c].uid, internal_id[pending[c].server]) \in Msg
     BY <2>1, <2>2 DEF LoginMsg, Msg, CsMsg
  <2> QED BY <1>1, <2>3, PostType
<1>4. pending' \in [Conn -> PendingRec]
  <2>1. pending' = [pending EXCEPT ![c] = [pending[c] EXCEPT !.st = "login", !.agent = a]]
     BY <1>1 DEF GateTypeOK
  <2>2. [pending[c] EXCEPT !.st = "login", !.agent = a] \in PendingRec
     BY <1>2, PendingSpawn
  <2>3. pending \in [Conn -> PendingRec] BY DEF GateTypeOK, PendingRec
  <2> QED BY <2>1, <2>2, <2>3, Update
<1>5. created' \subseteq Agent BY <1>1 DEF GateTypeOK
<1> QED BY <1>3, <1>4, <1>5 DEF GateSpawned, OnlyGate, TypeOK,
     FabricTypeOK, LoginTypeOK, GateTypeOK, AgentTypeOK, loginVars, agentVars, PendingRec

UserRec == [agent : Agent, subid : Nat, name : Conn]

\* and when the agent has answered.
LEMMA GateLoginDoneType ==
  ASSUME TypeOK, NEW c \in Conn, OnlyGate, GateLoginDone(c) PROVE TypeOK'
<1> FabricTypeOK /\ GateTypeOK BY DEF TypeOK
<1> DEFINE p == pending[c]
<1>1. /\ p.server \in Server /\ p.uid \in Uid
      /\ p.subid \in Nat /\ p.agent \in Agent
   BY PendingLogin DEF GateLoginDone
<1>2. sent' \in [Agent -> Seq(GateMsg)]
   BY <1>1, ReceiveType DEF GateLoginDone, Sent
<1>3. call' \in [Conn -> CallRec \cup {NoCall}]
  <2>1. internal_id[p.server] \in Nat BY <1>1 DEF GateTypeOK
  <2> QED BY <2>1, AnswerType DEF GateLoginDone
<1>4. users' \in [Server \X Uid -> UserRec \cup {None}]
   BY <1>1 DEF GateLoginDone, GateTypeOK, UserRec
<1>5. username_map' \in [Conn -> [agent : Agent, subid : Nat] \cup {None}]
   BY <1>1 DEF GateLoginDone, GateTypeOK
<1>6. pending' \in [Conn -> PendingRec]
   BY DEF GateLoginDone, GateTypeOK, PendingRec
<1> QED BY <1>2, <1>3, <1>4, <1>5, <1>6 DEF GateLoginDone, OnlyGate, TypeOK,
     FabricTypeOK, LoginTypeOK, GateTypeOK, AgentTypeOK, loginVars, agentVars, PendingRec, UserRec

\* The logout call of an agent names a coroutine, a player and a subid.
LEMMA HeadLeave ==
  ASSUME FabricTypeOK, NEW a \in Agent, sent[a] # <<>>, Head(sent[a]).op = "leave"
  PROVE  /\ Head(sent[a]).co \in Co /\ Head(sent[a]).uid \in Uid
         /\ Head(sent[a]).subid \in Nat
<1>1. Head(sent[a]) \in GateMsg BY SeqHeadTail DEF FabricTypeOK
<1> QED BY <1>1 DEF GateMsg

\* logout_handler keeps the types before it calls the login server,
LEMMA GateLogoutType ==
  ASSUME TypeOK, NEW a \in Agent, NEW k \in Co, OnlyGate, GateLogout(a, k)
  PROVE  TypeOK'
<1> FabricTypeOK /\ GateTypeOK BY DEF TypeOK
<1> DEFINE l == Head(sent[a])
           s == Home[a]
           u == users[s, l.uid]
<1>1. s \in Server BY HomeAssumption
<1>2. l.uid \in Uid BY HeadLeave DEF GateLogout
<1>3. sent' \in [Agent -> Seq(GateMsg)] BY ReceiveType DEF GateLogout
<1>4. CASE ~Has(s, l.uid, l.subid)
  <2>1. LeftMsg(k, u = None) \in Msg BY DEF LeftMsg, Msg
  <2>2. mbox' \in [Agent -> Seq(Msg)] BY <1>4, <2>1, PostType DEF GateLogout
  <2> QED BY <1>3, <1>4, <2>2 DEF GateLogout, OnlyGate, TypeOK,
     FabricTypeOK, LoginTypeOK, GateTypeOK, AgentTypeOK, loginVars, agentVars
<1>5. CASE Has(s, l.uid, l.subid)
  <2>1. u \in UserRec BY <1>1, <1>2, <1>5 DEF Has, GateTypeOK, UserRec
  <2>2. u.agent \in Agent /\ u.name \in Conn BY <2>1 DEF UserRec
  <2>3. users' \in [Server \X Uid -> UserRec \cup {None}]
     BY <1>5 DEF GateLogout, Drop, GateTypeOK, UserRec
  <2>4. username_map' \in [Conn -> [agent : Agent, subid : Nat] \cup {None}]
     BY <1>5 DEF GateLogout, GateTypeOK
  <2>5. fd' \in [Conn -> BOOLEAN] BY <1>5 DEF GateLogout, GateTypeOK
  <2>6. leave' \in [Agent \X Co -> Agent \cup {None}]
     BY <1>5, <2>2 DEF GateLogout, GateTypeOK
  <2>7. notifyq' \in [Server -> Seq(NotifyMsg)]
    <3>1. <<a, k>> \in Caller BY DEF Caller
    <3>2. Notify(s, l.uid, <<a, k>>) BY <1>5 DEF GateLogout
    <3> HIDE DEF l, s
    <3> QED BY <1>1, <1>2, <3>1, <3>2, NotifyType
  <2> QED BY <1>3, <1>5, <2>3, <2>4, <2>5, <2>6, <2>7 DEF GateLogout, OnlyGate,
     TypeOK, FabricTypeOK, LoginTypeOK, GateTypeOK, AgentTypeOK, loginVars, agentVars, UserRec
<1> QED BY <1>4, <1>5

\* and after.
LEMMA GateLogoutDoneType ==
  ASSUME TypeOK, NEW a \in Agent, NEW k \in Co, OnlyGate, GateLogoutDone(a, k)
  PROVE  TypeOK'
<1> FabricTypeOK /\ GateTypeOK BY DEF TypeOK
<1>1. leave[a, k] \in Agent BY DEF GateLogoutDone, GateTypeOK
<1>2. pool' \in [Agent -> Nat]
  <2>0. pool \in [Agent -> Nat] BY DEF GateTypeOK
  <2>1. \A b \in Agent : pool[b] + 1 \in Nat BY <2>0
  <2>2. pool' = [pool EXCEPT ![leave[a, k]] = pool[leave[a, k]] + 1]
     BY DEF GateLogoutDone, ToPool
  <2> QED BY <1>1, <2>0, <2>1, <2>2, Update
<1>3. leave' \in [Agent \X Co -> Agent \cup {None}]
   BY DEF GateLogoutDone, GateTypeOK
<1>4. mbox' \in [Agent -> Seq(Msg)]
  <2>1. LeftMsg(k, TRUE) \in Msg BY DEF LeftMsg, Msg
  <2> QED BY <2>1, PostType DEF GateLogoutDone
<1>5. acked' \subseteq Caller BY DEF GateLogoutDone, FabricTypeOK
<1> QED BY <1>2, <1>3, <1>4, <1>5 DEF GateLogoutDone, OnlyGate, TypeOK,
     FabricTypeOK, LoginTypeOK, GateTypeOK, AgentTypeOK, loginVars, agentVars

\* A player who is on a gate has a session record.
LEMMA UserType ==
  ASSUME GateTypeOK, NEW s \in Server, NEW u \in Uid, users[s, u] # None
  PROVE  users[s, u] \in UserRec
BY DEF GateTypeOK, UserRec

\* kick_handler keeps the types,
LEMMA GateKickType ==
  ASSUME TypeOK, NEW c \in Conn, OnlyGate, GateKick(c) PROVE TypeOK'
<1> FabricTypeOK /\ GateTypeOK BY DEF TypeOK
<1> DEFINE s == call[c].server
           u == users[s, call[c].uid]
<1>1. call[c] \in CallRec BY CalledType DEF GateKick, Called
<1>2. s \in Server /\ call[c].uid \in Uid BY <1>1 DEF CallRec
<1>3. call' \in [Conn -> CallRec \cup {NoCall}]
   BY ServeType DEF GateKick, Called
<1>4. mbox' \in [Agent -> Seq(Msg)]
  <2>1. CASE UNCHANGED mbox BY <2>1 DEF FabricTypeOK
  <2>2. CASE Has(s, call[c].uid, call[c].subid) /\ Post(u.agent, KickMsg(c))
    <3>1. u.agent \in Agent BY <1>2, <2>2, UserType DEF Has, UserRec
    <3>2. KickMsg(c) \in Msg BY DEF KickMsg, Msg, CsMsg, HeldMsg
    <3> QED BY <2>2, <3>1, <3>2, PostType
  <2> QED BY <2>1, <2>2 DEF GateKick
<1>5. notifyq' \in [Server -> Seq(NotifyMsg)]
  <2>1. CASE UNCHANGED notifyq BY <2>1 DEF FabricTypeOK
  <2>2. CASE Notify(s, call[c].uid, c)
    <3>1. c \in Caller BY DEF Caller
    <3> HIDE DEF s
    <3> QED BY <1>2, <2>2, <3>1, NotifyType
  <2> QED BY <2>1, <2>2 DEF GateKick
<1> QED BY <1>3, <1>4, <1>5 DEF GateKick, OnlyGate, TypeOK, FabricTypeOK,
     LoginTypeOK, GateTypeOK, AgentTypeOK, gateVars, loginVars, agentVars

\* also when the agent or the login server has answered.
LEMMA GateKickDoneType ==
  ASSUME TypeOK, NEW c \in Conn, OnlyGate, GateKickDone(c) PROVE TypeOK'
<1> FabricTypeOK /\ GateTypeOK BY DEF TypeOK
<1>1. call' \in [Conn -> CallRec \cup {NoCall}] BY AnswerType DEF GateKickDone
<1>2. sent' \in [Agent -> Seq(GateMsg)]
  <2>1. CASE UNCHANGED sent BY <2>1 DEF FabricTypeOK
  <2>2. CASE \E a \in Agent : Sent(a, Reply("logout", c)) /\ Receive(a)
     BY <2>2, ReceiveType DEF Sent
  <2> QED BY <2>1, <2>2 DEF GateKickDone
<1>3. acked' \subseteq Caller BY DEF GateKickDone, FabricTypeOK
<1> QED BY <1>1, <1>2, <1>3 DEF GateKickDone, OnlyGate, TypeOK, FabricTypeOK,
     LoginTypeOK, GateTypeOK, AgentTypeOK, gateVars, loginVars, agentVars

\* auth() of msg_server keeps the types once the agent has answered.
LEMMA GateShakeType ==
  ASSUME TypeOK, NEW c \in Conn, GateShake(c) PROVE TypeOK'
<1> FabricTypeOK /\ GateTypeOK BY DEF TypeOK
<1>1. CASE Told(c) /\ GateAuthed(c, conn[c].server, conn[c].uid)
  <2>1. sent' \in [Agent -> Seq(GateMsg)]
     BY <1>1, ReceiveType DEF GateAuthed, Sent
  <2>2. shake' \in [Conn -> {"none", "auth", "online"}]
     BY <1>1 DEF GateAuthed, GateTypeOK
  <2>3. mbox' \in [Agent -> Seq(Msg)]
    <3>1. CASE UNCHANGED mbox BY <3>1 DEF FabricTypeOK
    <3> DEFINE u == users[conn[c].server, conn[c].uid]
    <3>2. CASE u # None /\ Post(u.agent, OnlineMsg(c))
      <4>1. OnlineMsg(c) \in Msg BY DEF OnlineMsg, Msg, CsMsg, HeldMsg
      <4>2. conn[c].server \in Server /\ conn[c].uid \in Uid
         BY <1>1, ConnType DEF Told, TypeOK
      <4>3. u.agent \in Agent BY <3>2, <4>2, UserType DEF UserRec
      <4> QED BY <3>2, <4>1, <4>3, PostType
    <3> QED BY <3>1, <3>2, <1>1 DEF GateAuthed
  <2> QED BY <1>1, <2>1, <2>2, <2>3 DEF GateAuthed, GateShake, OnlyGate, TypeOK,
       FabricTypeOK, LoginTypeOK, GateTypeOK, AgentTypeOK, loginVars, agentVars
<1>2. CASE GateOnlined(c)
  <2>1. sent' \in [Agent -> Seq(GateMsg)]
     BY <1>2, ReceiveType DEF GateOnlined, Sent
  <2>2. shake' \in [Conn -> {"none", "auth", "online"}]
     BY <1>2 DEF GateOnlined, GateTypeOK
  <2> QED BY <1>2, <2>1, <2>2 DEF GateOnlined, GateShake, OnlyGate, TypeOK,
       FabricTypeOK, LoginTypeOK, GateTypeOK, AgentTypeOK, loginVars, agentVars
<1> QED BY <1>1, <1>2 DEF GateShake

\* A handshake keeps the types.
LEMMA HandshakeType ==
  ASSUME TypeOK, NEW c \in Conn, Told(c), OnlyGate,
         Handshake(c, conn[c].server, conn[c].uid, conn[c].subid)
  PROVE  TypeOK'
<1> FabricTypeOK /\ LoginTypeOK /\ GateTypeOK BY DEF TypeOK
<1> DEFINE u == users[conn[c].server, conn[c].uid]
<1>1. conn[c].server \in Server /\ conn[c].uid \in Uid BY ConnType DEF Told
<1>2. u.agent \in Agent BY <1>1, UserType DEF Handshake, UserRec
<1>3. AuthMsg(c) \in Msg BY DEF AuthMsg, Msg, CsMsg, HeldMsg
<1>4. mbox' \in [Agent -> Seq(Msg)] BY <1>2, <1>3, PostType DEF Handshake
<1>5. version' \in [Conn -> Nat]
  <2>1. version \in [Conn -> Nat] /\ version[c] + 1 \in Nat BY DEF GateTypeOK
  <2>2. version' = [version EXCEPT ![c] = version[c] + 1] BY DEF Handshake
  <2> QED BY <2>1, <2>2, Update
<1>6. fd' \in [Conn -> BOOLEAN] BY DEF Handshake, GateTypeOK
<1>7. shake' \in [Conn -> {"none", "auth", "online"}]
   BY DEF Handshake, GateTypeOK
<1> QED BY <1>4, <1>5, <1>6, <1>7 DEF Handshake, OnlyGate, TypeOK, FabricTypeOK,
     LoginTypeOK, GateTypeOK, AgentTypeOK, loginVars, agentVars

\* A client that is connected to a session has one (msg_server.lua:189-204,
\* 143-159): gated forwards what it sends to the agent found there.
FdMapped == \A c \in Conn : fd[c] => username_map[c] # None

\* A client that is connected has an agent to forward to.
LEMMA MappedType ==
  ASSUME GateTypeOK, FdMapped, NEW c \in Conn, fd[c]
  PROVE  username_map[c].agent \in Agent
BY DEF GateTypeOK, FdMapped

\* What a connected client does keeps the types.
LEMMA ConnectedType ==
  ASSUME TypeOK, FdMapped, NEW c \in Conn, OnlyGate,
         Disconnect(c) \/ \E k \in Client : ClientLogout(c, k)
  PROVE  TypeOK'
<1> FabricTypeOK /\ GateTypeOK BY DEF TypeOK
<1>1. CASE Disconnect(c)
  <2>1. AfkMsg \in Msg BY DEF AfkMsg, Msg, CsMsg
  <2>2. mbox' \in [Agent -> Seq(Msg)]
     BY <1>1, <2>1, MappedType, PostType DEF Disconnect
  <2>3. fd' \in [Conn -> BOOLEAN] BY <1>1 DEF Disconnect, GateTypeOK
  <2> QED BY <1>1, <2>2, <2>3 DEF Disconnect, OnlyGate, TypeOK, FabricTypeOK,
       LoginTypeOK, GateTypeOK, AgentTypeOK, loginVars, agentVars
<1>2. ASSUME NEW k \in Client, ClientLogout(c, k) PROVE TypeOK'
  <2>1. ClientMsg(k) \in Msg BY DEF ClientMsg, Msg
  <2>2. mbox' \in [Agent -> Seq(Msg)]
     BY <1>2, <2>1, MappedType, PostType DEF ClientLogout
  <2> QED BY <1>2, <2>2 DEF ClientLogout, OnlyGate, TypeOK, FabricTypeOK,
       LoginTypeOK, GateTypeOK, AgentTypeOK, loginVars, gateVars, agentVars
<1> QED BY <1>1, <1>2

\* The command that enters an agent's critical section is a command.
LEMMA CommandType ==
  ASSUME FabricTypeOK, AgentTypeOK, NEW a \in Agent, NEW op, Enter(a, op),
         op \in {"login", "auth", "online", "logout", "afk"}
  PROVE  /\ Command(a) \in CsMsg
         /\ Command(a).op = op
         /\ mbox' \in [Agent -> Seq(Msg)]
         /\ csq' \in [Agent -> Seq(CsMsg)]
<1>1. CASE csq[a] # <<>>
  <2>1. csq[a] \in Seq(CsMsg) BY DEF AgentTypeOK
  <2>2. Head(csq[a]) \in CsMsg /\ Tail(csq[a]) \in Seq(CsMsg)
     BY <1>1, <2>1, SeqHeadTail
  <2>3. csq \in [Agent -> Seq(CsMsg)] /\ mbox \in [Agent -> Seq(Msg)]
     BY DEF AgentTypeOK, FabricTypeOK
  <2>4. csq' = [csq EXCEPT ![a] = Tail(csq[a])] /\ mbox' = mbox
     BY <1>1 DEF Enter
  <2>5. csq' \in [Agent -> Seq(CsMsg)] BY <2>2, <2>3, <2>4, Update
  <2>6. Command(a) = Head(csq[a]) /\ Command(a).op = op
     BY <1>1 DEF Enter, Command
  <2> QED BY <2>2, <2>3, <2>4, <2>5, <2>6
<1>2. CASE csq[a] = <<>>
  <2>1. mbox[a] # <<>> BY <1>2 DEF Enter
  <2>2. Head(mbox[a]) \in Msg /\ mbox' \in [Agent -> Seq(Msg)]
     BY <1>2, <2>1, TakeType DEF Enter
  <2>3. Command(a) = Head(mbox[a]) BY <1>2 DEF Command, Msg1
  <2>4. Head(mbox[a]) \in CsMsg BY <2>2, <2>3 DEF Enter, Msg
  <2> QED BY <1>2, <2>2, <2>3, <2>4 DEF Enter, AgentTypeOK
<1> QED BY <1>1, <1>2

\* A command that waits for the critical section keeps the types.
LEMMA EnqueueType ==
  ASSUME TypeOK, NEW a \in Agent, OnlyAgent, Enqueue(a) PROVE TypeOK'
<1> FabricTypeOK /\ AgentTypeOK BY DEF TypeOK
<1>1. Head(mbox[a]) \in Msg /\ mbox' \in [Agent -> Seq(Msg)]
   BY TakeType DEF Enqueue, HasMsg
<1>2. Head(mbox[a]) \in CsMsg BY <1>1 DEF Enqueue, HasMsg, Msg1, Msg
<1>3. csq' \in [Agent -> Seq(CsMsg)]
  <2>1. csq \in [Agent -> Seq(CsMsg)] BY DEF AgentTypeOK
  <2>2. Append(csq[a], Head(mbox[a])) \in Seq(CsMsg) BY <1>2, <2>1, SeqAppend
  <2>3. csq' = [csq EXCEPT ![a] = Append(csq[a], Head(mbox[a]))]
     BY DEF Enqueue, Msg1
  <2> QED BY <2>1, <2>2, <2>3, Update
<1> QED BY <1>1, <1>3 DEF Enqueue, OnlyAgent, TypeOK, FabricTypeOK,
     LoginTypeOK, GateTypeOK, AgentTypeOK, loginVars, gateVars

\* The answer to the command inside is a message to the gate.
LEMMA ReleaseType ==
  ASSUME FabricTypeOK, AgentTypeOK, NEW a \in Agent, Release(a)
  PROVE  /\ sent' \in [Agent -> Seq(GateMsg)]
         /\ csop' \in [Agent -> HeldMsg \cup {None}]
<1>1. csop[a] \in HeldMsg BY DEF Release, AgentTypeOK
<1>2. Reply(csop[a].op, csop[a].conn) \in GateMsg
   BY <1>1 DEF Reply, GateMsg, HeldMsg
<1> QED BY <1>2, SendType DEF Release, AgentTypeOK

\* The command inside the critical section is one that holds it.
LEMMA HeldType ==
  ASSUME AgentTypeOK, NEW a \in Agent, NEW m \in CsMsg,
         m.op \in {"auth", "online", "logout"}, csop' = [csop EXCEPT ![a] = m]
  PROVE  csop' \in [Agent -> HeldMsg \cup {None}]
<1>1. m \in HeldMsg BY DEF CsMsg
<1> QED BY <1>1 DEF AgentTypeOK

\* A coroutine that yields keeps the types.
LEMMA GotoType ==
  ASSUME AgentTypeOK, NEW a \in Agent, NEW k \in Co,
         NEW st \in {"none", "sleep", "leave", "unload", "load", "init", "online"},
         Goto(a, k, st)
  PROVE  co' \in [Agent \X Co -> {"none", "sleep", "leave", "unload",
                                  "load", "init", "online"}]
BY DEF Goto, AgentTypeOK

\* Commands, clients' requests and timers run in coroutines.
LEMMA CsCo == "cs" \in Co /\ Client \subseteq Co /\ Worker \subseteq Co
BY DEF Co

\* CMD.login, CMD.afk, CMD.online and CMD.auth keep the types,
LEMMA CommandsType ==
  ASSUME TypeOK, NEW a \in Agent, OnlyAgent,
         Login(a) \/ Afk(a) \/ Online(a) \/ Auth(a)
  PROVE  TypeOK'
<1> FabricTypeOK /\ AgentTypeOK BY DEF TypeOK
<1>1. CASE Login(a)
  <2>1. /\ Command(a) \in CsMsg /\ Command(a).op = "login"
        /\ mbox' \in [Agent -> Seq(Msg)] /\ csq' \in [Agent -> Seq(CsMsg)]
     BY <1>1, CommandType DEF Login
  <2>2. Command(a).uid \in Uid /\ Command(a).subid \in Nat /\ Command(a).conn \in Conn
     BY <2>1 DEF CsMsg, HeldMsg
  <2>3. bound' \in [Agent -> [uid : Uid, subid : Nat] \cup {None}]
     BY <1>1, <2>2 DEF Login, AgentTypeOK
  <2>4. afk' \in [Agent -> BOOLEAN] BY <1>1 DEF Login, AgentTypeOK
  <2>5. sent' \in [Agent -> Seq(GateMsg)]
    <3>1. Reply("login", Command(a).conn) \in GateMsg BY <2>2 DEF Reply, GateMsg
    <3> QED BY <1>1, <3>1, SendType DEF Login
  <2> QED BY <1>1, <2>1, <2>3, <2>4, <2>5 DEF Login, OnlyAgent, TypeOK,
       FabricTypeOK, LoginTypeOK, GateTypeOK, AgentTypeOK, loginVars, gateVars
<1>2. CASE Afk(a)
  <2>1. mbox' \in [Agent -> Seq(Msg)] /\ csq' \in [Agent -> Seq(CsMsg)]
     BY <1>2, CommandType DEF Afk
  <2>2. afk' \in [Agent -> BOOLEAN] BY <1>2 DEF Afk, AgentTypeOK
  <2> QED BY <1>2, <2>1, <2>2 DEF Afk, OnlyAgent, TypeOK,
       FabricTypeOK, LoginTypeOK, GateTypeOK, AgentTypeOK, loginVars, gateVars
<1>3. CASE Online(a)
  <2>1. /\ Command(a) \in CsMsg /\ Command(a).op = "online"
        /\ mbox' \in [Agent -> Seq(Msg)] /\ csq' \in [Agent -> Seq(CsMsg)]
     BY <1>3, CommandType DEF Online
  <2>2. csop' \in [Agent -> HeldMsg \cup {None}] BY <1>3, <2>1, HeldType DEF Online
  <2>3. co' \in [Agent \X Co -> {"none", "sleep", "leave", "unload",
                                 "load", "init", "online"}]
     BY <1>3, GotoType, CsCo DEF Online
  <2> QED BY <1>3, <2>1, <2>2, <2>3 DEF Online, OnlyAgent, TypeOK,
       FabricTypeOK, LoginTypeOK, GateTypeOK, AgentTypeOK, loginVars, gateVars
<1>4. CASE Auth(a)
  <2>1. /\ Command(a) \in CsMsg /\ Command(a).op = "auth"
        /\ mbox' \in [Agent -> Seq(Msg)] /\ csq' \in [Agent -> Seq(CsMsg)]
     BY <1>4, CommandType DEF Auth
  <2>2. csop' \in [Agent -> HeldMsg \cup {None}] BY <1>4, <2>1, HeldType DEF Auth
  <2>3. co' \in [Agent \X Co -> {"none", "sleep", "leave", "unload",
                                 "load", "init", "online"}]
     BY <1>4, GotoType, CsCo DEF Auth
  <2> QED BY <1>4, <2>1, <2>2, <2>3 DEF Auth, OnlyAgent, TypeOK,
       FabricTypeOK, LoginTypeOK, GateTypeOK, AgentTypeOK, loginVars, gateVars
<1> QED BY <1>1, <1>2, <1>3, <1>4

\* also when what they called has answered.
LEMMA ResumeType ==
  ASSUME TypeOK, NEW a \in Agent, AgentResume(a) PROVE TypeOK'
<1> FabricTypeOK /\ AgentTypeOK BY DEF TypeOK
<1>1. CASE OnlineDone(a) \/ AuthDone(a)
  <2>1. Goto(a, "cs", "none") /\ Release(a) BY <1>1 DEF OnlineDone, AuthDone
  <2>2. /\ sent' \in [Agent -> Seq(GateMsg)]
        /\ csop' \in [Agent -> HeldMsg \cup {None}]
     BY <2>1, ReleaseType
  <2>3. co' \in [Agent \X Co -> {"none", "sleep", "leave", "unload",
                                 "load", "init", "online"}]
     BY <2>1, GotoType, CsCo
  <2> QED BY <1>1, <2>2, <2>3 DEF OnlineDone, AuthDone, AgentResume, OnlyAgent,
       TypeOK, FabricTypeOK, LoginTypeOK, GateTypeOK, AgentTypeOK, loginVars, gateVars
<1>2. CASE AuthLoaded(a)
  <2>1. co' \in [Agent \X Co -> {"none", "sleep", "leave", "unload",
                                 "load", "init", "online"}]
     BY <1>2, GotoType, CsCo DEF AuthLoaded, AgentTypeOK
  <2>2. running' \in [Agent -> BOOLEAN] BY <1>2 DEF AuthLoaded, AgentTypeOK
  <2>3. worker_co' \in [Agent -> Worker \cup {None}]
    <3>1. CASE UNCHANGED worker_co
      BY <3>1 DEF AgentTypeOK
    <3>2. ASSUME NEW w \in Worker, worker_co' = [worker_co EXCEPT ![a] = w]
          PROVE  worker_co' \in [Agent -> Worker \cup {None}]
      BY <3>2 DEF AgentTypeOK
    <3> QED BY <1>2, <3>1, <3>2 DEF AuthLoaded
  <2>4. AgentTypeOK'
     BY <1>2, <2>1, <2>2, <2>3 DEF AuthLoaded, AgentTypeOK
  <2>5. UNCHANGED <<fabricVars, loginVars, gateVars>> /\ lost' = lost /\ crash' = crash
     BY <1>2 DEF AuthLoaded, AgentResume, OnlyAgent
  <2>6. FabricTypeOK' /\ LoginTypeOK' /\ GateTypeOK'
     BY <2>5 DEF fabricVars, loginVars, gateVars, TypeOK, FabricTypeOK, LoginTypeOK, GateTypeOK
  <2> QED BY <2>4, <2>5, <2>6 DEF TypeOK
<1> QED BY <1>1, <1>2 DEF AgentResume, Resume

\* What logout() does before its first yield keeps the types,
LEMMA BeginLogoutType ==
  ASSUME FabricTypeOK, AgentTypeOK, NEW a \in Agent, NEW k \in Co, BeginLogout(a, k)
  PROVE  /\ running' \in [Agent -> BOOLEAN]
         /\ afk' \in [Agent -> BOOLEAN]
         /\ co' \in [Agent \X Co -> {"none", "sleep", "leave", "unload",
                                     "load", "init", "online"}]
         /\ sent' \in [Agent -> Seq(GateMsg)]
<1>1. running' \in [Agent -> BOOLEAN] BY DEF BeginLogout, AgentTypeOK
<1>2. afk' \in [Agent -> BOOLEAN] BY DEF BeginLogout, AgentTypeOK
<1>3. co' \in [Agent \X Co -> {"none", "sleep", "leave", "unload",
                               "load", "init", "online"}]
   BY DEF BeginLogout, AgentTypeOK
<1>4. sent' \in [Agent -> Seq(GateMsg)]
  <2>1. CASE UNCHANGED sent BY <2>1 DEF FabricTypeOK
  <2>2. CASE /\ bound[a] # None
             /\ Send(a, LeaveMsg(k, bound[a].uid, bound[a].subid))
    <3>1. bound[a] \in [uid : Uid, subid : Nat] BY <2>2 DEF AgentTypeOK
    <3>2. LeaveMsg(k, bound[a].uid, bound[a].subid) \in GateMsg
       BY <3>1 DEF LeaveMsg, GateMsg
    <3> QED BY <2>2, <3>2, SendType
  <2> QED BY <2>1, <2>2 DEF BeginLogout
<1> QED BY <1>1, <1>2, <1>3, <1>4

\* for a kick, for a client's request and for the timer.
LEMMA LogoutsType ==
  ASSUME TypeOK, NEW a \in Agent, OnlyAgent,
         \/ Kicked(a)
         \/ \E k \in Client : Requested(a, k)
         \/ \E w \in Worker : IdleLogout(a, w)
  PROVE  TypeOK'
<1> FabricTypeOK /\ AgentTypeOK BY DEF TypeOK
<1>1. PICK k \in Co : BeginLogout(a, k)
   BY CsCo DEF Kicked, Requested, IdleLogout
<1>2. /\ running' \in [Agent -> BOOLEAN]
      /\ afk' \in [Agent -> BOOLEAN]
      /\ co' \in [Agent \X Co -> {"none", "sleep", "leave", "unload",
                                  "load", "init", "online"}]
      /\ sent' \in [Agent -> Seq(GateMsg)]
   BY <1>1, BeginLogoutType
<1>3. /\ mbox' \in [Agent -> Seq(Msg)] /\ csq' \in [Agent -> Seq(CsMsg)]
      /\ csop' \in [Agent -> HeldMsg \cup {None}]
  <2>1. CASE Kicked(a)
    <3>1. /\ Command(a) \in CsMsg /\ Command(a).op = "logout"
          /\ mbox' \in [Agent -> Seq(Msg)] /\ csq' \in [Agent -> Seq(CsMsg)]
       BY <2>1, CommandType DEF Kicked
    <3> QED BY <2>1, <3>1, HeldType DEF Kicked
  <2>2. ASSUME NEW c \in Client, Requested(a, c)
        PROVE  mbox' \in [Agent -> Seq(Msg)] /\ UNCHANGED <<csop, csq>>
     BY <2>2, TakeType DEF Requested, HasMsg
  <2>3. ASSUME NEW w \in Worker, IdleLogout(a, w)
        PROVE  UNCHANGED <<mbox, csop, csq>>
     BY <2>3 DEF IdleLogout
  <2> QED BY <2>1, <2>2, <2>3 DEF FabricTypeOK, AgentTypeOK
<1> QED BY <1>1, <1>2, <1>3 DEF BeginLogout, OnlyAgent, TypeOK, FabricTypeOK,
     LoginTypeOK, GateTypeOK, AgentTypeOK, loginVars, gateVars

\* logout() after the gate's answer keeps the types,
LEMMA LeftType ==
  ASSUME TypeOK, NEW a \in Agent, OnlyAgent, Left(a) \/ LeftError(a)
  PROVE  TypeOK'
<1> FabricTypeOK /\ AgentTypeOK BY DEF TypeOK
<1>1. Msg1(a) \in Msg /\ mbox' \in [Agent -> Seq(Msg)] /\ Msg1(a).op = "left"
   BY TakeType DEF Left, LeftError, HasMsg, Msg1
<1>2. Msg1(a).co \in Co BY <1>1 DEF Msg, CsMsg, HeldMsg
<1>3. co' \in [Agent \X Co -> {"none", "sleep", "leave", "unload",
                               "load", "init", "online"}]
   BY <1>2, GotoType DEF Left, LeftError
<1>4. CASE Left(a)
   BY <1>1, <1>3, <1>4 DEF Left, OnlyAgent, TypeOK, FabricTypeOK, LoginTypeOK,
     GateTypeOK, AgentTypeOK, loginVars, gateVars
<1>5. CASE LeftError(a)
  <2>1. /\ sent' \in [Agent -> Seq(GateMsg)]
        /\ csop' \in [Agent -> HeldMsg \cup {None}]
     BY <1>5, ReleaseType DEF LeftError, FabricTypeOK, AgentTypeOK
  <2> QED BY <1>1, <1>3, <1>5, <2>1 DEF LeftError, OnlyAgent, TypeOK, FabricTypeOK,
       LoginTypeOK, GateTypeOK, AgentTypeOK, loginVars, gateVars
<1> QED BY <1>4, <1>5

\* and so does the end of a coroutine.
LEMMA CoEndsType ==
  ASSUME TypeOK, NEW a \in Agent, NEW k \in Co, OnlyAgent,
         Unloaded(a, k) \/ WorkerExit(a, k)
  PROVE  TypeOK'
<1> FabricTypeOK /\ AgentTypeOK BY DEF TypeOK
<1>1. co' \in [Agent \X Co -> {"none", "sleep", "leave", "unload",
                               "load", "init", "online"}]
   BY GotoType DEF Unloaded, WorkerExit
<1>2. CASE Unloaded(a, k)
  <2>1. /\ sent' \in [Agent -> Seq(GateMsg)]
        /\ csop' \in [Agent -> HeldMsg \cup {None}]
     BY <1>2, ReleaseType DEF Unloaded, FabricTypeOK, AgentTypeOK
  <2> QED BY <1>1, <1>2, <2>1 DEF Unloaded, OnlyAgent, TypeOK, FabricTypeOK,
       LoginTypeOK, GateTypeOK, AgentTypeOK, loginVars, gateVars
<1>3. CASE WorkerExit(a, k)
   BY <1>1, <1>3 DEF WorkerExit, OnlyAgent, TypeOK, FabricTypeOK,
     LoginTypeOK, GateTypeOK, AgentTypeOK, loginVars, gateVars, fabricVars
<1> QED BY <1>2, <1>3

\* A call that the network fails keeps the types.
LEMMA NetworkFaultType == TypeOK /\ NetworkFault => TypeOK'
<1> SUFFICES ASSUME TypeOK, NetworkFault PROVE TypeOK'
   OBVIOUS
<1> FabricTypeOK BY DEF TypeOK
<1> lost' \in Nat BY DEF NetworkFault, TypeOK
<1>1. ASSUME NEW c \in Conn, CallFails(c) PROVE TypeOK'
  <2>1. call' \in [Conn -> CallRec \cup {NoCall}] BY <1>1, ServeType DEF CallFails
  <2> QED BY <1>1, <2>1 DEF CallFails, NetworkFault, TypeOK, FabricTypeOK,
       LoginTypeOK, GateTypeOK, AgentTypeOK, loginVars, gateVars, agentVars
<1>2. ASSUME NEW s \in Server, LoseNotify(s) PROVE TypeOK'
  <2>1. Head(notifyq[s]) \in NotifyMsg /\ Tail(notifyq[s]) \in Seq(NotifyMsg)
     BY <1>2, HeadNotify DEF LoseNotify
  <2>2. notifyq' \in [Server -> Seq(NotifyMsg)]
     BY <1>2, <2>1, Update DEF LoseNotify, FabricTypeOK
  <2>3. acked' \subseteq Caller BY <1>2, <2>1, AckType DEF LoseNotify, NotifyMsg
  <2> QED BY <1>2, <2>2, <2>3 DEF LoseNotify, NetworkFault, TypeOK, FabricTypeOK,
       LoginTypeOK, GateTypeOK, AgentTypeOK, loginVars, gateVars, agentVars
<1> QED BY <1>1, <1>2 DEF NetworkFault

\* The start of a new login server keeps the types,
LEMMA LoginCrashType ==
  ASSUME TypeOK, Crash, LoginCrash, UNCHANGED <<gateVars, agentVars>>
  PROVE  TypeOK'
<1> FabricTypeOK /\ LoginTypeOK BY DEF TypeOK
<1>1. crash' \in Nat /\ lost' \in Nat BY DEF Crash, TypeOK
<1>2. acked' \subseteq Caller
  <2>1. {p \in Caller : \E s \in Server : \E i \in 1..Len(notifyq[s]) :
            notifyq[s][i].by = p} \subseteq Caller \cup {None}
     OBVIOUS
  <2> QED BY <2>1, AckType DEF LoginCrash
<1>3. notifyq' \in [Server -> Seq(NotifyMsg)]
  <2>1. <<>> \in Seq(NotifyMsg) OBVIOUS
  <2> QED BY <2>1 DEF LoginCrash
<1>4. conn' \in [Conn -> [st : {"kick", "login", "ok", "refused"}, uid : Uid,
                      server : Server, subid : Nat] \cup {NoLogin}]
  <2>1. ASSUME NEW c \in Conn, InLogin(c)
        PROVE  [conn[c] EXCEPT !.st = "refused"]
                 \in [st : {"kick", "login", "ok", "refused"}, uid : Uid,
                      server : Server, subid : Nat]
     BY <2>1, ConnType DEF InLogin
  <2> QED BY <2>1 DEF LoginCrash, LoginTypeOK
<1>5. user_login' \subseteq Uid /\
      user_online' \in [Uid -> [server : Server, subid : Nat] \cup {None}]
   BY DEF LoginCrash
<1> QED BY <1>1, <1>2, <1>3, <1>4, <1>5 DEF LoginCrash, TypeOK, FabricTypeOK,
     LoginTypeOK, GateTypeOK, AgentTypeOK, gateVars, agentVars

\* that of a game server too.
LEMMA GateCrashType ==
  ASSUME TypeOK, Crash, NEW s \in Server, NEW C,
         GateCrash(s, C), AgentCrash({a \in Agent : Home[a] = s}),
         UNCHANGED loginVars
  PROVE  TypeOK'
<1> FabricTypeOK /\ GateTypeOK /\ AgentTypeOK BY DEF TypeOK
<1> DEFINE dead == {a \in Agent : Home[a] = s}
<1>1. crash' \in Nat /\ lost' \in Nat BY DEF Crash, TypeOK
<1>2. LoginTypeOK' BY DEF TypeOK, LoginTypeOK, loginVars
<1>3. GateTypeOK'
  <2>1. users' \in [Server \X Uid -> UserRec \cup {None}]
     BY DEF GateCrash, GateTypeOK, UserRec
  <2>2. username_map' \in [Conn -> [agent : Agent, subid : Nat] \cup {None}]
     BY DEF GateCrash, GateTypeOK
  <2>3. pool' \in [Agent -> Nat]
    <3>1. pool \in [Agent -> Nat] BY DEF GateTypeOK
    <3>2. pool' = [a \in Agent |-> IF a \notin dead THEN pool[a]
                                   ELSE IF a \in Precreated THEN 1 ELSE 0]
       BY DEF GateCrash
    <3> QED BY <3>1, <3>2
  <2>4. created' \subseteq Agent BY PrecreatedAssumption DEF GateCrash, GateTypeOK
  <2>5. internal_id' \in [Server -> Nat] BY DEF GateCrash, GateTypeOK
  <2>6. pending' \in [Conn -> PendingRec]
    <3>1. pending \in [Conn -> PendingRec] BY DEF GateTypeOK, PendingRec
    <3>2. NoPending \in PendingRec BY DEF PendingRec
    <3> QED BY <3>1, <3>2 DEF GateCrash
  <2>7. leave' \in [Agent \X Co -> Agent \cup {None}]
    <3>1. leave \in [Agent \X Co -> Agent \cup {None}] BY DEF GateTypeOK
    <3> QED BY <3>1 DEF GateCrash
  <2>8. fd' \in [Conn -> BOOLEAN] BY DEF GateCrash, GateTypeOK
  <2>9. shake' \in [Conn -> {"none", "auth", "online"}]
     BY DEF GateCrash, GateTypeOK
  <2> QED BY <2>1, <2>2, <2>3, <2>4, <2>5, <2>6, <2>7, <2>8, <2>9
     DEF GateCrash, GateTypeOK, UserRec, PendingRec
<1>4. AgentTypeOK'
  <2>1. csq' \in [Agent -> Seq(CsMsg)]
    <3>1. <<>> \in Seq(CsMsg) /\ csq \in [Agent -> Seq(CsMsg)] BY DEF AgentTypeOK
    <3> QED BY <3>1 DEF AgentCrash
  <2>2. co' \in [Agent \X Co -> {"none", "sleep", "leave", "unload",
                                 "load", "init", "online"}]
     BY DEF AgentCrash, AgentTypeOK
  <2>3. bound' \in [Agent -> [uid : Uid, subid : Nat] \cup {None}]
     BY DEF AgentCrash, AgentTypeOK
  <2>4. csop' \in [Agent -> HeldMsg \cup {None}] BY DEF AgentCrash, AgentTypeOK
  <2>5. afk' \in [Agent -> BOOLEAN] /\ running' \in [Agent -> BOOLEAN]
     BY DEF AgentCrash, AgentTypeOK
  <2>6. worker_co' \in [Agent -> Worker \cup {None}] BY DEF AgentCrash, AgentTypeOK
  <2> QED BY <2>1, <2>2, <2>3, <2>4, <2>5, <2>6 DEF AgentTypeOK
<1>5. FabricTypeOK'
  <2>1. call' \in [Conn -> CallRec \cup {NoCall}]
    <3>1. ASSUME NEW c \in Conn, call[c].st = "serving"
          PROVE  [call[c] EXCEPT !.st = "fail"] \in CallRec
       BY <3>1, CallStType DEF CallRec
    <3> QED BY <3>1 DEF GateCrash, FabricTypeOK
  <2>2. notifyq' \in [Server -> Seq(NotifyMsg)]
    <3> DEFINE q == [i \in 1..Len(notifyq[s]) |-> [notifyq[s][i] EXCEPT !.by = None]]
    <3>1. notifyq \in [Server -> Seq(NotifyMsg)] BY DEF FabricTypeOK
    <3>2. \A i \in 1..Len(notifyq[s]) : notifyq[s][i] \in NotifyMsg BY <3>1
    <3>3. \A m \in NotifyMsg : [m EXCEPT !.by = None] \in NotifyMsg
       BY DEF NotifyMsg
    <3>4. Len(notifyq[s]) \in Nat BY <3>1
    <3>5. q \in [1..Len(notifyq[s]) -> NotifyMsg] BY <3>2, <3>3
    <3>6. q \in Seq(NotifyMsg)
      <4> DEFINE n == Len(notifyq[s])
      <4> HIDE DEF q, n
      <4>1. n \in Nat /\ q \in [1..n -> NotifyMsg] BY <3>4, <3>5 DEF n
      <4> QED BY <4>1
    <3>7. notifyq' = [notifyq EXCEPT ![s] = q] BY DEF GateCrash
    <3> QED BY <3>1, <3>6, <3>7, Update
  <2>3. acked' \subseteq Caller BY DEF GateCrash, FabricTypeOK
  <2>4. mbox' \in [Agent -> Seq(Msg)]
    <3>1. <<>> \in Seq(Msg) /\ mbox \in [Agent -> Seq(Msg)] BY DEF FabricTypeOK
    <3> QED BY <3>1 DEF GateCrash
  <2>5. sent' \in [Agent -> Seq(GateMsg)]
    <3>1. <<>> \in Seq(GateMsg) /\ sent \in [Agent -> Seq(GateMsg)] BY DEF FabricTypeOK
    <3> QED BY <3>1 DEF GateCrash
  <2> QED BY <2>1, <2>2, <2>3, <2>4, <2>5 DEF FabricTypeOK
<1> QED BY <1>1, <1>2, <1>3, <1>4, <1>5 DEF TypeOK

\* No step leaves a client connected to a session that is gone.
LEMMA MappedStep ==
  ASSUME TypeOK, FdMapped, [Next]_vars PROVE FdMapped'
<1> GateTypeOK BY DEF TypeOK
<1>1. CASE UNCHANGED <<fd, username_map>> BY <1>1 DEF FdMapped
<1>2. ASSUME NEW c \in Conn, GateLoginDone(c) PROVE FdMapped'
   BY <1>2, NoneAssumption, PendingLogin DEF GateLoginDone, FdMapped, GateTypeOK
<1>3. ASSUME NEW a \in Agent, NEW k \in Co, GateLogout(a, k) PROVE FdMapped'
  <2> DEFINE l == Head(sent[a])
             u == users[Home[a], l.uid]
  <2>1. CASE UNCHANGED <<fd, username_map>> BY <2>1, <1>1
  <2>2. CASE /\ username_map' = [username_map EXCEPT ![u.name] = None]
             /\ fd' = [fd EXCEPT ![u.name] = FALSE]
     BY <2>2 DEF FdMapped, GateTypeOK
  <2> QED BY <1>3, <2>1, <2>2 DEF GateLogout
<1>4. ASSUME NEW c \in Conn, NEW s, NEW u, NEW n, Handshake(c, s, u, n)
      PROVE  FdMapped'
   BY <1>4 DEF Handshake, FdMapped, GateTypeOK
<1>5. ASSUME NEW c \in Conn, Disconnect(c) PROVE FdMapped'
   BY <1>5 DEF Disconnect, FdMapped, GateTypeOK
<1>6. ASSUME NEW s \in Server, NEW C, GateCrash(s, C) PROVE FdMapped'
   BY <1>6 DEF GateCrash, FdMapped, GateTypeOK
<1>7. CASE Services
  <2>1. ASSUME NEW c \in Conn, LoginHandler(c) PROVE FdMapped'
     BY <2>1, <1>1 DEF LoginHandler, OnlyLogin, gateVars
  <2>2. ASSUME NEW c \in Conn, GateHandler(c) PROVE FdMapped'
     BY <2>2, <1>1, <1>2 DEF GateHandler, GateLogin, GateSpawn, GateLoginError,
       GateSpawned, GateKick, GateKickDone, gateVars
  <2>3. ASSUME NEW c \in Conn, GateShake(c) PROVE FdMapped'
     BY <2>3, <1>1 DEF GateShake, GateAuthed, GateOnlined
  <2>4. ASSUME NEW s \in Server, LogoutCommand(s) PROVE FdMapped'
     BY <2>4, <1>1 DEF LogoutCommand, OnlyLogin, gateVars
  <2>5. ASSUME NEW a \in Agent, AgentTurn(a) \/ AgentResume(a) PROVE FdMapped'
     BY <2>5, <1>1 DEF AgentTurn, AgentResume, OnlyAgent, gateVars
  <2>6. ASSUME NEW a \in Agent, NEW k \in Co, GateLeave(a, k) \/ AgentCo(a, k)
        PROVE  FdMapped'
     BY <2>6, <1>1, <1>3 DEF GateLeave, GateLogoutDone, AgentCo, OnlyAgent, gateVars
  <2> QED BY <1>7, <2>1, <2>2, <2>3, <2>4, <2>5, <2>6 DEF Services
<1>8. ASSUME NEW c \in Conn, Player(c) PROVE FdMapped'
  <2>1. ASSUME NEW k \in Client, ClientLogout(c, k) PROVE FdMapped'
     BY <2>1, <1>1 DEF ClientLogout, gateVars
  <2> QED BY <1>8, <1>1, <1>4, <1>5, <2>1 DEF Player, OnlyLogin, gateVars
<1>9. CASE NetworkFault BY <1>9, <1>1 DEF NetworkFault, gateVars
<1>10. CASE Crash BY <1>10, <1>1, <1>6 DEF Crash, gateVars
<1>11. CASE UNCHANGED vars BY <1>11, <1>1 DEF vars, gateVars
<1> QED BY <1>7, <1>8, <1>9, <1>10, <1>11 DEF Next

\* The servers start well typed.
LEMMA TypeInit == Init => TypeOK /\ FdMapped
<1> SUFFICES ASSUME Init PROVE TypeOK /\ FdMapped
   OBVIOUS
<1>1. FabricTypeOK
  <2>1. \A S : <<>> \in Seq(S) OBVIOUS
  <2> QED BY <2>1 DEF Init, FabricInit, FabricTypeOK
<1>2. LoginTypeOK BY DEF Init, LoginInit, LoginTypeOK
<1>3. GateTypeOK
   BY PrecreatedAssumption DEF Init, GateInit, GateTypeOK
<1>4. AgentTypeOK
  <2>1. \A S : <<>> \in Seq(S) OBVIOUS
  <2> QED BY <2>1 DEF Init, AgentInit, AgentTypeOK
<1>5. FdMapped BY DEF Init, GateInit, FdMapped
<1> QED BY <1>1, <1>2, <1>3, <1>4, <1>5 DEF TypeOK, Init

\* Every step keeps the types.
LEMMA TypeStep == TypeOK /\ FdMapped /\ [Next]_vars => TypeOK'
<1> SUFFICES ASSUME TypeOK, FdMapped, [Next]_vars PROVE TypeOK'
   OBVIOUS
<1>1. CASE Services
  <2>1. ASSUME NEW c \in Conn, LoginHandler(c) \/ GateHandler(c) \/ GateShake(c)
        PROVE  TypeOK'
     BY <2>1, LoginHandlerType, GateLoginType, GateLoginErrorType, GateSpawnedType,
       GateLoginDoneType, GateKickType, GateKickDoneType, GateShakeType
     DEF GateHandler
  <2>2. ASSUME NEW s \in Server, LogoutCommand(s) PROVE TypeOK'
     BY <2>2, LogoutCommandType
  <2>3. ASSUME NEW a \in Agent, AgentTurn(a) PROVE TypeOK'
     BY <2>3, EnqueueType, CommandsType, LogoutsType, LeftType DEF AgentTurn, Turn
  <2>4. ASSUME NEW a \in Agent, AgentResume(a) PROVE TypeOK'
     BY <2>4, ResumeType
  <2>5. ASSUME NEW a \in Agent, NEW k \in Co, GateLeave(a, k) PROVE TypeOK'
     BY <2>5, GateLogoutType, GateLogoutDoneType DEF GateLeave
  <2>6. ASSUME NEW a \in Agent, NEW k \in Co, AgentCo(a, k) PROVE TypeOK'
     BY <2>6, CoEndsType, LogoutsType DEF AgentCo, ResumeCo
  <2> QED BY <1>1, <2>1, <2>2, <2>3, <2>4, <2>5, <2>6 DEF Services
<1>2. ASSUME NEW c \in Conn, Player(c) PROVE TypeOK'
   BY <1>2, AcceptType, HandshakeType, ConnectedType DEF Player
<1>3. CASE NetworkFault BY <1>3, NetworkFaultType
<1>4. CASE Crash
   BY <1>4, LoginCrashType, GateCrashType DEF Crash
<1>5. CASE UNCHANGED vars
   BY <1>5 DEF vars, TypeOK, FabricTypeOK, LoginTypeOK, GateTypeOK, AgentTypeOK,
     fabricVars, loginVars, gateVars, agentVars
<1> QED BY <1>1, <1>2, <1>3, <1>4, <1>5 DEF Next

\* Every reachable state is well typed, whatever the number of servers,
\* players, connections and agents.
THEOREM TypeCorrect == Spec => [](TypeOK /\ FdMapped)
<1>1. Init => TypeOK /\ FdMapped BY TypeInit
<1>2. TypeOK /\ FdMapped /\ [Next]_vars => (TypeOK /\ FdMapped)'
   BY TypeStep, MappedStep
<1> QED BY <1>1, <1>2, PTL DEF Spec

-----------------------------------------------------------------------------
\* Agents are exclusive.  The invariant is not inductive alone: a crash of
\* one server must not leave an agent of its own in the books of another, and
\* an agent that does not exist yet must not be in any.

\* What a gate's tables name is an agent of its own server.
AtHome ==
  /\ \A p \in Seat : users[p] # None => Home[users[p].agent] = p[1]
  /\ \A c \in Conn : pending[c].st = "login" =>
                       Home[pending[c].agent] = pending[c].server
  /\ \A p \in Leaver : leave[p] # None => Home[leave[p]] = Home[p[1]]

\* An agent that was not created is nowhere.
Fresh == \A a \in Agent \ created :
  /\ pool[a] = 0
  /\ \A p \in Seat : ~InUsers(a, p)
  /\ \A c \in Conn : ~InLoginOf(a, c)
  /\ \A p \in Leaver : ~InLogoutOf(a, p)

\* The books of the gates are in order.
Books == AgentsExclusive /\ AtHome /\ Fresh

\* The tables of the gates that agents are kept in.
bookVars == <<users, pool, created, pending, leave>>

\* A step that touches no table of the gates keeps their books.
LEMMA BooksSame ==
  ASSUME Books, UNCHANGED bookVars PROVE Books'
BY DEF Books, bookVars, AgentsExclusive, PoolOnce, PoolFree, OneHolder, OneRole,
  AtHome, Fresh, InPool, InUsers, InLoginOf, InLogoutOf

\* An agent that was with nobody, or in the pool, is given to one login.
LEMMA TakenExclusive ==
  ASSUME AgentsExclusive, NEW c \in Conn, NEW a \in Agent,
         UNCHANGED <<users, leave>>,
         \A p \in Seat : ~InUsers(a, p),
         \A d \in Conn : ~InLoginOf(a, d),
         \A p \in Leaver : ~InLogoutOf(a, p),
         \A b \in Agent, d \in Conn :
           InLoginOf(b, d)' => InLoginOf(b, d) \/ (b = a /\ d = c),
         \A b \in Agent : InPool(b)' => InPool(b) /\ b # a,
         PoolOnce'
  PROVE  AgentsExclusive'
<1>1. \A b \in Agent, p \in Seat : InUsers(b, p)' <=> InUsers(b, p)
   BY DEF InUsers
<1>2. \A b \in Agent, p \in Leaver : InLogoutOf(b, p)' <=> InLogoutOf(b, p)
   BY DEF InLogoutOf
<1>3. PoolFree' BY <1>1, <1>2 DEF AgentsExclusive, PoolFree
<1>4. OneHolder' BY <1>1, <1>2 DEF AgentsExclusive, OneHolder
<1>5. OneRole' BY <1>1, <1>2 DEF AgentsExclusive, OneRole
<1> QED BY <1>3, <1>4, <1>5 DEF AgentsExclusive

\* login_handler takes an agent from the pool,
LEMMA LoginBooks ==
  ASSUME TypeOK, Books, NEW c \in Conn, NEW a \in Agent, GateLogin(c, a)
  PROVE  Books'
<1> GateTypeOK /\ FabricTypeOK BY DEF TypeOK
<1>1. pool[a] = 1 /\ Home[a] = call[c].server
   BY DEF GateLogin, Pooled, Books, AgentsExclusive, PoolOnce, GateTypeOK
<1>2. /\ pending' = [pending EXCEPT ![c] = pending'[c]]
      /\ pending'[c].st = "login" /\ pending'[c].agent = a
      /\ pending'[c].server = call[c].server
   BY DEF GateLogin, NewLogin, GateTypeOK
<1>3. pool' = [pool EXCEPT ![a] = 0]
   BY <1>1 DEF GateLogin, FromPool
<1>4. UNCHANGED <<users, created, leave>> BY DEF GateLogin
<1>5. AgentsExclusive'
  <2>1. PoolOnce' BY <1>3 DEF Books, AgentsExclusive, PoolOnce, GateTypeOK
  <2>2. InPool(a) BY <1>1 DEF InPool
  <2>3. \A b \in Agent, d \in Conn :
          InLoginOf(b, d)' => InLoginOf(b, d) \/ (b = a /\ d = c)
     BY <1>2 DEF InLoginOf, GateTypeOK
  <2>4. \A b \in Agent : InPool(b)' => InPool(b) /\ b # a
     BY <1>3 DEF InPool, GateTypeOK
  <2>5. /\ \A p \in Seat : ~InUsers(a, p)
        /\ \A d \in Conn : ~InLoginOf(a, d)
        /\ \A p \in Leaver : ~InLogoutOf(a, p)
     BY <2>2 DEF Books, AgentsExclusive, PoolFree
  <2>6. AgentsExclusive /\ UNCHANGED <<users, leave>> BY <1>4 DEF Books
  <2> QED BY <2>1, <2>3, <2>4, <2>5, <2>6, TakenExclusive
<1>6. AtHome' BY <1>1, <1>2, <1>4 DEF Books, AtHome, GateTypeOK
<1>7. a \in created BY <1>1 DEF Books, Fresh
<1>8. Fresh' BY <1>2, <1>3, <1>4, <1>7 DEF Books, Fresh, InUsers, InLoginOf,
        InLogoutOf, GateTypeOK
<1> QED BY <1>5, <1>6, <1>8 DEF Books

\* or decides to create one, which nobody has yet,
LEMMA SpawnBooks ==
  ASSUME TypeOK, Books, NEW c \in Conn, GateSpawn(c) PROVE Books'
<1> GateTypeOK BY DEF TypeOK
<1>1. /\ pending' = [pending EXCEPT ![c] = pending'[c]]
      /\ pending'[c].st = "spawn"
   BY DEF GateSpawn, NewLogin, GateTypeOK
<1>2. UNCHANGED <<users, pool, created, leave>> BY DEF GateSpawn
<1>3. \A b \in Agent, d \in Conn : InLoginOf(b, d)' => InLoginOf(b, d)
   BY <1>1 DEF InLoginOf, GateTypeOK
<1>4. AgentsExclusive'
   BY <1>2, <1>3 DEF Books, AgentsExclusive, PoolOnce, PoolFree, OneHolder,
     OneRole, InPool, InUsers, InLogoutOf
<1>5. AtHome' BY <1>1, <1>2 DEF Books, AtHome, GateTypeOK
<1>6. Fresh' BY <1>2, <1>3 DEF Books, Fresh, InUsers, InLogoutOf
<1> QED BY <1>4, <1>5, <1>6 DEF Books

\* or has it created.
LEMMA SpawnedBooks ==
  ASSUME TypeOK, Books, NEW c \in Conn, GateSpawned(c) PROVE Books'
<1> GateTypeOK BY DEF TypeOK
<1>1. PICK a \in Agent \ created :
        /\ Home[a] = pending[c].server
        /\ created' = created \cup {a}
        /\ pending' = [pending EXCEPT ![c].st = "login", ![c].agent = a]
   BY DEF GateSpawned
<1>2. /\ pool[a] = 0
      /\ \A p \in Seat : ~InUsers(a, p)
      /\ \A d \in Conn : ~InLoginOf(a, d)
      /\ \A p \in Leaver : ~InLogoutOf(a, p)
   BY DEF Books, Fresh
<1>3. /\ pending' = [pending EXCEPT ![c] = pending'[c]]
      /\ pending'[c].st = "login" /\ pending'[c].agent = a
      /\ pending'[c].server = pending[c].server
  <2>1. pending[c] \in [st : {"spawn"}, server : Server, uid : Uid, subid : Nat,
                        agent : {None}]
     BY DEF GateSpawned, GateTypeOK, NoPending
  <2>2. pending' = [pending EXCEPT
                      ![c] = [pending[c] EXCEPT !.st = "login", !.agent = a]]
     BY <1>1 DEF GateTypeOK
  <2> HIDE <1>1
  <2> QED BY <2>1, <2>2 DEF GateTypeOK
<1>4. UNCHANGED <<users, pool, leave>> BY DEF GateSpawned
<1>5. AgentsExclusive'
  <2>1. PoolOnce' BY <1>4 DEF Books, AgentsExclusive, PoolOnce
  <2>2. \A b \in Agent, d \in Conn :
          InLoginOf(b, d)' => InLoginOf(b, d) \/ (b = a /\ d = c)
     BY <1>3 DEF InLoginOf, GateTypeOK
  <2>3. \A b \in Agent : InPool(b)' => InPool(b) /\ b # a
     BY <1>2, <1>4 DEF InPool
  <2>4. AgentsExclusive /\ UNCHANGED <<users, leave>> BY <1>4 DEF Books
  <2> QED BY <1>2, <2>1, <2>2, <2>3, <2>4, TakenExclusive
<1>6. AtHome' BY <1>1, <1>3, <1>4 DEF Books, AtHome, GateTypeOK
<1>7. Fresh' BY <1>1, <1>3, <1>4 DEF Books, Fresh, InUsers, InLoginOf,
        InLogoutOf, GateTypeOK
<1> QED BY <1>5, <1>6, <1>7 DEF Books

\* The agent of a login becomes that of a session.
LEMMA LoginDoneBooks ==
  ASSUME TypeOK, Books, NEW c \in Conn, GateLoginDone(c) PROVE Books'
<1> GateTypeOK BY DEF TypeOK
<1> DEFINE q == <<pending[c].server, pending[c].uid>>
           a == pending[c].agent
<1>1. q \in Seat /\ a \in Agent /\ InLoginOf(a, c)
   BY PendingLogin DEF GateLoginDone, Seat, InLoginOf
<1>2. /\ users' = [users EXCEPT ![q] = users'[q]]
      /\ users'[q].agent = a /\ users'[q] # None
   BY <1>1, NoneAssumption, PendingLogin DEF GateLoginDone, GateTypeOK, Seat
<1>3. pending' = [pending EXCEPT ![c] = NoPending] BY DEF GateLoginDone
<1>4. UNCHANGED <<pool, created, leave>> BY DEF GateLoginDone
<1>5. Home[a] = pending[c].server BY <1>1 DEF Books, AtHome, InLoginOf
<1>6. \A b \in Agent, p \in Seat : InUsers(b, p)' => InUsers(b, p) \/ (b = a /\ p = q)
  <2> HIDE DEF q, a
  <2> QED BY <1>2 DEF InUsers, GateTypeOK, Seat
<1>7. \A b \in Agent, d \in Conn : InLoginOf(b, d)' => InLoginOf(b, d) /\ d # c
   BY <1>3 DEF InLoginOf, GateTypeOK, NoPending
<1>8. \A b \in Agent, p \in Leaver : InLogoutOf(b, p)' <=> InLogoutOf(b, p)
   BY <1>4 DEF InLogoutOf
<1>9. /\ \A b \in Agent : InPool(b)' <=> InPool(b)
      /\ PoolOnce'
   BY <1>4 DEF InPool, Books, AgentsExclusive, PoolOnce
<1>10. AgentsExclusive'
  <2> HIDE DEF q, a
  <2>1. PoolFree' BY <1>1, <1>6, <1>7, <1>8, <1>9 DEF Books, AgentsExclusive, PoolFree
  <2>2. OneHolder' BY <1>1, <1>6, <1>7, <1>8 DEF Books, AgentsExclusive, OneHolder, OneRole
  <2>3. OneRole' BY <1>1, <1>6, <1>7, <1>8 DEF Books, AgentsExclusive, OneHolder, OneRole
  <2> QED BY <1>9, <2>1, <2>2, <2>3 DEF AgentsExclusive
<1>11. AtHome'
  <2>1. \A p \in Seat : users'[p] # None => Home[users'[p].agent] = p[1]
    <3>1. q[1] = pending[c].server OBVIOUS
    <3> HIDE DEF q, a
    <3> QED BY <1>1, <1>2, <1>5, <3>1 DEF Books, AtHome, GateTypeOK, Seat
  <2>2. \A d \in Conn : pending'[d].st = "login" =>
                       Home[pending'[d].agent] = pending'[d].server
     BY <1>3 DEF Books, AtHome, GateTypeOK, NoPending
  <2> QED BY <2>1, <2>2, <1>4 DEF Books, AtHome
<1>12. Fresh'
  <2> HIDE DEF q, a
  <2>1. a \in created BY <1>1 DEF Books, Fresh
  <2> QED BY <1>4, <1>6, <1>7, <1>8, <2>1 DEF Books, Fresh
<1> QED BY <1>10, <1>11, <1>12 DEF Books

\* The agent of a session becomes that of a logout.
LEMMA LogoutBooks ==
  ASSUME TypeOK, Books, NEW x \in Agent, NEW k \in Co, GateLogout(x, k)
  PROVE  Books'
<1> GateTypeOK /\ FabricTypeOK BY DEF TypeOK
<1> DEFINE l == Head(sent[x])
           s == Home[x]
           q == <<s, l.uid>>
           a == users[q].agent
<1>1. CASE UNCHANGED bookVars BY <1>1, BooksSame
<1>2. CASE Has(s, l.uid, l.subid)
  <2>1. q \in Seat /\ l.uid \in Uid
     BY HeadLeave, HomeAssumption DEF GateLogout, Seat
  <2>2. users[q] # None /\ users[q] \in UserRec
     BY <1>2, <2>1, UserType DEF Has, Seat
  <2>3. a \in Agent /\ InUsers(a, q) BY <2>2 DEF UserRec, InUsers
  <2>4. <<x, k>> \in Leaver BY DEF Leaver
  <2>5. users' = [users EXCEPT ![q] = None] BY <1>2 DEF GateLogout, Drop
  <2>6. leave' = [leave EXCEPT ![<<x, k>>] = a] BY <1>2 DEF GateLogout
  <2>7. UNCHANGED <<pool, created, pending>> BY DEF GateLogout
  <2>8. Home[a] = Home[x] BY <2>1, <2>2 DEF Books, AtHome
  <2>9. a # None BY <2>3, NoneAssumption
  <2> HIDE DEF q, a, s, l
  <2>10. \A b \in Agent, p \in Seat : InUsers(b, p)' => InUsers(b, p) /\ p # q
     BY <2>1, <2>5 DEF InUsers, GateTypeOK, Seat
  <2>11. \A b \in Agent, p \in Leaver :
           InLogoutOf(b, p)' => InLogoutOf(b, p) \/ (b = a /\ p = <<x, k>>)
     BY <2>6 DEF InLogoutOf, GateTypeOK, Leaver
  <2>12. /\ \A b \in Agent, d \in Conn : InLoginOf(b, d)' <=> InLoginOf(b, d)
         /\ \A b \in Agent : InPool(b)' <=> InPool(b)
         /\ PoolOnce'
     BY <2>7 DEF InLoginOf, InPool, Books, AgentsExclusive, PoolOnce
  <2>13. /\ ~InPool(a)
         /\ \A p \in Seat : InUsers(a, p) => p = q
         /\ \A d \in Conn : ~InLoginOf(a, d)
         /\ \A p \in Leaver : ~InLogoutOf(a, p)
     BY <2>1, <2>3 DEF Books, AgentsExclusive, PoolFree, OneHolder, OneRole
  <2>14. AgentsExclusive'
    <3>1. PoolFree' BY <2>10, <2>11, <2>12, <2>13
       DEF Books, AgentsExclusive, PoolFree
    <3>2. OneHolder' BY <2>10, <2>11, <2>12, <2>13
       DEF Books, AgentsExclusive, OneHolder
    <3>3. OneRole' BY <2>10, <2>11, <2>12, <2>13
       DEF Books, AgentsExclusive, OneRole
    <3> QED BY <2>12, <3>1, <3>2, <3>3 DEF AgentsExclusive
  <2>15. AtHome'
    <3>1. \A p \in Seat : users'[p] # None => Home[users'[p].agent] = p[1]
       BY <2>1, <2>5 DEF Books, AtHome, GateTypeOK, Seat
    <3>2. \A p \in Leaver : leave'[p] # None => Home[leave'[p]] = Home[p[1]]
       BY <2>6, <2>8 DEF Books, AtHome, GateTypeOK, Leaver
    <3> QED BY <3>1, <3>2, <2>7 DEF Books, AtHome
  <2>16. Fresh'
    <3>1. a \in created BY <2>1, <2>3 DEF Books, Fresh
    <3> QED BY <3>1, <2>7, <2>10, <2>11, <2>12 DEF Books, Fresh
  <2> QED BY <2>14, <2>15, <2>16 DEF Books
<1> QED BY <1>1, <1>2 DEF GateLogout, bookVars

\* The agent of a logout goes back to the pool.
LEMMA LogoutDoneBooks ==
  ASSUME TypeOK, Books, NEW x \in Agent, NEW k \in Co, GateLogoutDone(x, k)
  PROVE  Books'
<1> GateTypeOK BY DEF TypeOK
<1> DEFINE q == <<x, k>>
           a == leave[q]
<1>1. q \in Leaver /\ a \in Agent /\ InLogoutOf(a, q)
   BY DEF GateLogoutDone, GateTypeOK, Leaver, InLogoutOf
<1>2. pool' = [pool EXCEPT ![a] = pool[a] + 1] BY DEF GateLogoutDone, ToPool
<1>3. leave' = [leave EXCEPT ![q] = None] BY DEF GateLogoutDone
<1>4. UNCHANGED <<users, created, pending>> BY DEF GateLogoutDone
<1>5. a # None BY <1>1, NoneAssumption
<1> HIDE DEF q, a
<1>6. \A b \in Agent, p \in Leaver : InLogoutOf(b, p)' => InLogoutOf(b, p) /\ p # q
   BY <1>1, <1>3, NoneAssumption DEF InLogoutOf, GateTypeOK, Leaver
<1>7. \A b \in Agent : InPool(b)' => InPool(b) \/ b = a
   BY <1>1, <1>2 DEF InPool, GateTypeOK
<1>8. /\ \A b \in Agent, p \in Seat : InUsers(b, p)' <=> InUsers(b, p)
      /\ \A b \in Agent, d \in Conn : InLoginOf(b, d)' <=> InLoginOf(b, d)
   BY <1>4 DEF InUsers, InLoginOf
<1>9. /\ \A p \in Seat : ~InUsers(a, p)
      /\ \A d \in Conn : ~InLoginOf(a, d)
      /\ \A p \in Leaver : InLogoutOf(a, p) => p = q
      /\ ~InPool(a)
   BY <1>1 DEF Books, AgentsExclusive, PoolFree, OneHolder, OneRole
<1>10. AgentsExclusive'
  <2>1. PoolOnce'
    <3>1. pool \in [Agent -> Nat] /\ \A b \in Agent : pool[b] =< 1
       BY DEF GateTypeOK, Books, AgentsExclusive, PoolOnce
    <3>2. pool[a] = 0 BY <1>1, <1>9, <3>1 DEF InPool
    <3> QED BY <1>1, <1>2, <3>1, <3>2 DEF PoolOnce
  <2>2. PoolFree' BY <1>6, <1>7, <1>8, <1>9 DEF Books, AgentsExclusive, PoolFree
  <2>3. OneHolder' BY <1>6, <1>8 DEF Books, AgentsExclusive, OneHolder
  <2>4. OneRole' BY <1>6, <1>8 DEF Books, AgentsExclusive, OneRole
  <2> QED BY <2>1, <2>2, <2>3, <2>4 DEF AgentsExclusive
<1>11. AtHome'
  <2>1. \A p \in Leaver : leave'[p] # None => Home[leave'[p]] = Home[p[1]]
     BY <1>3 DEF Books, AtHome, GateTypeOK, Leaver
  <2> QED BY <1>4, <2>1 DEF Books, AtHome
<1>12. Fresh'
  <2>1. a \in created BY <1>1 DEF Books, Fresh
  <2>2. \A b \in Agent \ created : pool'[b] = 0
     BY <1>2, <2>1 DEF Books, Fresh, GateTypeOK
  <2> QED BY <1>4, <1>6, <1>8, <2>2 DEF Books, Fresh
<1> QED BY <1>10, <1>11, <1>12 DEF Books

\* A game server that dies takes its agents, and no other, with it.
LEMMA CrashBooks ==
  ASSUME TypeOK, Books, NEW s \in Server, NEW C, GateCrash(s, C)
  PROVE  Books'
<1> GateTypeOK BY DEF TypeOK
<1> DEFINE dead == {a \in Agent : Home[a] = s}
<1>1. \A b \in Agent, p \in Seat : InUsers(b, p)' <=> InUsers(b, p) /\ b \notin dead
  <2>1. users' = [p \in Server \X Uid |-> IF p[1] = s THEN None ELSE users[p]]
     BY DEF GateCrash
  <2> QED BY <2>1 DEF InUsers, Books, AtHome, Seat
<1>2. \A b \in Agent, d \in Conn : InLoginOf(b, d)' <=> InLoginOf(b, d) /\ b \notin dead
  <2>1. pending' = [c \in Conn |-> IF pending[c].server = s THEN NoPending
                                   ELSE pending[c]]
     BY DEF GateCrash
  <2> QED BY <2>1 DEF InLoginOf, Books, AtHome, NoPending
<1>3. \A b \in Agent, p \in Leaver :
        InLogoutOf(b, p)' <=> InLogoutOf(b, p) /\ b \notin dead
  <2>1. leave' = [p \in Agent \X Co |-> IF p[1] \in dead THEN None ELSE leave[p]]
     BY DEF GateCrash
  <2>2. None \notin Agent BY NoneAssumption
  <2> QED BY <2>1, <2>2 DEF InLogoutOf, Books, AtHome, Leaver
<1>4. pool' = [a \in Agent |-> IF a \notin dead THEN pool[a]
                               ELSE IF a \in Precreated THEN 1 ELSE 0]
   BY DEF GateCrash
<1>5. \A b \in Agent : InPool(b)' => InPool(b) \/ b \in dead
   BY <1>4 DEF InPool
<1>6. created' = (created \ dead) \cup (Precreated \cap dead) BY DEF GateCrash
<1>7. AgentsExclusive'
  <2>1. PoolOnce' BY <1>4 DEF Books, AgentsExclusive, PoolOnce
  <2> HIDE DEF dead
  <2>2. PoolFree' BY <1>1, <1>2, <1>3, <1>5 DEF Books, AgentsExclusive, PoolFree
  <2>3. OneHolder' BY <1>1, <1>2, <1>3 DEF Books, AgentsExclusive, OneHolder
  <2>4. OneRole' BY <1>1, <1>2, <1>3 DEF Books, AgentsExclusive, OneRole
  <2> QED BY <2>1, <2>2, <2>3, <2>4 DEF AgentsExclusive
<1>8. AtHome'
  <2>1. \A p \in Seat : users'[p] # None => Home[users'[p].agent] = p[1]
     BY DEF GateCrash, Books, AtHome, Seat
  <2>2. \A d \in Conn : pending'[d].st = "login" =>
                     Home[pending'[d].agent] = pending'[d].server
     BY DEF GateCrash, Books, AtHome, NoPending
  <2>3. \A p \in Leaver : leave'[p] # None => Home[leave'[p]] = Home[p[1]]
     BY DEF GateCrash, Books, AtHome, Leaver
  <2> QED BY <2>1, <2>2, <2>3 DEF AtHome
<1>9. Fresh'
  <2>1. \A b \in Agent \ created' : pool'[b] = 0
     BY <1>4, <1>6 DEF Books, Fresh
  <2>2. \A b \in Agent \ created' : b \notin created \/ b \in dead BY <1>6
  <2> HIDE DEF dead
  <2> QED BY <1>1, <1>2, <1>3, <2>1, <2>2 DEF Books, Fresh
<1> QED BY <1>7, <1>8, <1>9 DEF Books

\* At the start the agents are in the pool or do not exist.
LEMMA BooksInit == Init => Books
<1> SUFFICES ASSUME Init PROVE Books
   OBVIOUS
<1>1. /\ \A b \in Agent, p \in Seat : ~InUsers(b, p)
      /\ \A b \in Agent, d \in Conn : ~InLoginOf(b, d)
   BY DEF Init, GateInit, InUsers, InLoginOf, Seat, NoPending
<1>2. \A b \in Agent, p \in Leaver : ~InLogoutOf(b, p)
   BY NoneAssumption DEF Init, GateInit, InLogoutOf, Leaver
<1>3. AgentsExclusive
  <2>1. PoolOnce BY DEF Init, GateInit, PoolOnce
  <2> QED BY <1>1, <1>2, <2>1 DEF AgentsExclusive, PoolFree, OneHolder, OneRole
<1>4. AtHome BY DEF Init, GateInit, AtHome, Seat, Leaver, NoPending
<1>5. Fresh BY <1>1, <1>2 DEF Fresh, Init, GateInit
<1> QED BY <1>3, <1>4, <1>5 DEF Books

\* Every step keeps the books of the gates.
LEMMA BooksStep ==
  ASSUME TypeOK, Books, [Next]_vars PROVE Books'
<1>1. CASE UNCHANGED bookVars BY <1>1, BooksSame
<1>2. CASE Services
  <2>1. ASSUME NEW c \in Conn, LoginHandler(c) PROVE Books'
     BY <2>1, <1>1 DEF LoginHandler, OnlyLogin, gateVars, bookVars
  <2>2. ASSUME NEW c \in Conn, GateHandler(c) PROVE Books'
    <3>1. CASE GateLoginError(c) \/ GateKick(c) \/ GateKickDone(c)
       BY <3>1, <1>1 DEF GateLoginError, GateKick, GateKickDone, gateVars, bookVars
    <3> QED BY <2>2, <3>1, LoginBooks, SpawnBooks, SpawnedBooks, LoginDoneBooks
        DEF GateHandler
  <2>3. ASSUME NEW c \in Conn, GateShake(c) PROVE Books'
     BY <2>3, <1>1 DEF GateShake, GateAuthed, GateOnlined, bookVars
  <2>4. ASSUME NEW s \in Server, LogoutCommand(s) PROVE Books'
     BY <2>4, <1>1 DEF LogoutCommand, OnlyLogin, gateVars, bookVars
  <2>5. ASSUME NEW a \in Agent, AgentTurn(a) \/ AgentResume(a) PROVE Books'
     BY <2>5, <1>1 DEF AgentTurn, AgentResume, OnlyAgent, gateVars, bookVars
  <2>6. ASSUME NEW a \in Agent, NEW k \in Co, AgentCo(a, k) PROVE Books'
     BY <2>6, <1>1 DEF AgentCo, OnlyAgent, gateVars, bookVars
  <2>7. ASSUME NEW a \in Agent, NEW k \in Co, GateLeave(a, k) PROVE Books'
     BY <2>7, LogoutBooks, LogoutDoneBooks DEF GateLeave
  <2> QED BY <1>2, <2>1, <2>2, <2>3, <2>4, <2>5, <2>6, <2>7 DEF Services
<1>3. ASSUME NEW c \in Conn, Player(c) PROVE Books'
  <2>1. ASSUME NEW s, NEW u, NEW n, Handshake(c, s, u, n) PROVE Books'
     BY <2>1, <1>1 DEF Handshake, bookVars
  <2>2. CASE Disconnect(c) BY <2>2, <1>1 DEF Disconnect, bookVars
  <2>3. ASSUME NEW k \in Client, ClientLogout(c, k) PROVE Books'
     BY <2>3, <1>1 DEF ClientLogout, gateVars, bookVars
  <2>4. CASE OnlyLogin BY <2>4, <1>1 DEF OnlyLogin, gateVars, bookVars
  <2> QED BY <1>3, <2>1, <2>2, <2>3, <2>4 DEF Player
<1>4. CASE NetworkFault BY <1>4, <1>1 DEF NetworkFault, gateVars, bookVars
<1>5. CASE Crash BY <1>5, <1>1, CrashBooks DEF Crash, gateVars, bookVars
<1>6. CASE UNCHANGED vars BY <1>6, <1>1 DEF vars, gateVars, bookVars
<1> QED BY <1>2, <1>3, <1>4, <1>5, <1>6 DEF Next

\* On every gate, in every execution and whatever dies or is lost, no agent is
\* given to two players at once, and none is in the pool while a player, a
\* login or a logout has it.
THEOREM AgentsAreExclusive == Spec => []AgentsExclusive
<1>1. Init => TypeOK /\ FdMapped /\ Books BY TypeInit, BooksInit
<1>2. TypeOK /\ FdMapped /\ Books /\ [Next]_vars => (TypeOK /\ FdMapped /\ Books)'
   BY TypeStep, MappedStep, BooksStep
<1>3. Books => AgentsExclusive BY DEF Books
<1> QED BY <1>1, <1>2, <1>3, PTL DEF Spec

-----------------------------------------------------------------------------
\* Logins exclude each other.  The record of a player is written by a login
\* that found none, so what is needed is that a login which has not returned
\* still finds none.

\* The record of a player whose login waits for the game server is empty.
Nowhere == \A c \in Conn : conn[c].st = "login" => user_online[conn[c].uid] = None

\* The tables of the login server are in order.
Registry == LoginExclusive /\ Nowhere

\* What a step must not do to a record: the body of NeverReplaced.
Unreplaced == \A u \in Uid :
  user_online[u] # None /\ user_online'[u] # None => user_online'[u] = user_online[u]

\* A step of another service does not touch the login server's tables.
LEMMA RegistrySame ==
  ASSUME Registry, UNCHANGED loginVars PROVE Registry' /\ Unreplaced
BY DEF Registry, LoginExclusive, Nowhere, InLogin, Locked, loginVars, Unreplaced

\* A login that ends gives the lock back, and no other login had it.
LEMMA LoginEnds ==
  ASSUME LoginTypeOK, LoginExclusive, NEW c \in Conn, InLogin(c),
         Unlock(conn[c].uid),
         NEW r, conn' = [conn EXCEPT ![c] = r], r.st \notin {"kick", "login"}
  PROVE  LoginExclusive'
<1>1. \A d \in Conn : InLogin(d)' <=> InLogin(d) /\ d # c
   BY DEF InLogin, LoginTypeOK
<1>2. \A d \in Conn : InLogin(d)' => conn'[d].uid = conn[d].uid
   BY <1>1 DEF LoginTypeOK
<1>3. \A u \in Uid : Locked(u)' <=> Locked(u) /\ u # conn[c].uid
   BY DEF Unlock, Locked
<1> QED BY <1>1, <1>2, <1>3 DEF LoginExclusive

\* login_handler after the kick gives up, or finds no record.
LEMMA KickReturnRegistry ==
  ASSUME TypeOK, Registry, NEW c \in Conn, KickReturn(c)
  PROVE  Registry' /\ Unreplaced
<1> LoginTypeOK BY DEF TypeOK
<1> DEFINE u == conn[c].uid
<1>1. u \in Uid BY ConnType DEF KickReturn
<1>2. \A v \in Uid : user_online'[v] = user_online[v] \/ user_online'[v] = None
   BY <1>1 DEF KickReturn, AfterKick, LoginTypeOK
<1>3. LoginExclusive'
  <2>1. CASE Unlock(u) /\ conn' = [conn EXCEPT ![c].st = "refused"]
    <3>1. conn' = [conn EXCEPT ![c] = [conn[c] EXCEPT !.st = "refused"]]
       BY <2>1 DEF LoginTypeOK
    <3>2. [conn[c] EXCEPT !.st = "refused"].st = "refused"
       BY ConnType DEF KickReturn
    <3> QED BY <2>1, <3>1, <3>2, LoginEnds DEF KickReturn, InLogin, Registry
  <2>2. CASE UNCHANGED user_login /\ conn' = [conn EXCEPT ![c].st = "login"]
    <3>1. \A d \in Conn : (InLogin(d)' <=> InLogin(d)) /\ conn'[d].uid = conn[d].uid
      <4>1. conn[c] \in [st : {"kick", "login", "ok", "refused"}, uid : Uid,
                         server : Server, subid : Nat] /\ InLogin(c)
         BY ConnType DEF KickReturn, InLogin
      <4> QED BY <2>2, <4>1 DEF InLogin, LoginTypeOK
    <3> QED BY <2>2, <3>1 DEF Registry, LoginExclusive, Locked
  <2> QED BY <2>1, <2>2 DEF KickReturn
<1>4. Nowhere'
  <2>1. \A d \in Conn : conn'[d].uid = conn[d].uid /\
          (conn'[d].st = "login" => conn[d].st = "login" \/ d = c)
     BY ConnType DEF KickReturn, LoginTypeOK
  <2>2. conn'[c].st = "login" => user_online'[u] = None
    <3>1. CASE conn' = [conn EXCEPT ![c].st = "refused"]
       BY <3>1, ConnType DEF KickReturn, LoginTypeOK
    <3>2. CASE AfterKick(c)[u] = None BY <3>2 DEF KickReturn
    <3> QED BY <3>1, <3>2 DEF KickReturn
  <2>3. ASSUME NEW d \in Conn, conn[d].st = "login"
        PROVE  user_online'[conn[d].uid] = None
     BY <2>3, <1>2, ConnType DEF Registry, Nowhere
  <2> QED BY <2>1, <2>2, <2>3 DEF Nowhere
<1>5. Unreplaced BY <1>2 DEF Unreplaced
<1> QED BY <1>3, <1>4, <1>5 DEF Registry

\* login_handler after the login records the player where none was.
LEMMA LoginReturnRegistry ==
  ASSUME TypeOK, Registry, NEW c \in Conn, LoginReturn(c)
  PROVE  Registry' /\ Unreplaced
<1> LoginTypeOK BY DEF TypeOK
<1> DEFINE u == conn[c].uid
<1>1. u \in Uid /\ conn[c].st = "login" BY ConnType DEF LoginReturn
<1>2. \A v \in Uid : v # u => user_online'[v] = user_online[v]
   BY <1>1 DEF LoginReturn, Record, LoginTypeOK
<1>3. PICK r : conn' = [conn EXCEPT ![c] = r] /\ r.st \in {"ok", "refused"}
  <2>1. conn[c] \in [st : {"kick", "login", "ok", "refused"}, uid : Uid,
                     server : Server, subid : Nat]
     BY <1>1, ConnType
  <2>2. CASE conn' = [conn EXCEPT ![c].st = "refused"]
    <3>1. conn' = [conn EXCEPT ![c] = [conn[c] EXCEPT !.st = "refused"]]
       BY <2>2 DEF LoginTypeOK
    <3>2. [conn[c] EXCEPT !.st = "refused"].st = "refused" BY <2>1
    <3> QED BY <3>1, <3>2
  <2>3. CASE conn' = [conn EXCEPT ![c].st = "ok", ![c].subid = call[c].subid]
    <3>1. conn' = [conn EXCEPT
                     ![c] = [conn[c] EXCEPT !.st = "ok", !.subid = call[c].subid]]
       BY <2>3 DEF LoginTypeOK
    <3>2. [conn[c] EXCEPT !.st = "ok", !.subid = call[c].subid].st = "ok" BY <2>1
    <3> QED BY <3>1, <3>2
  <2> QED BY <2>2, <2>3 DEF LoginReturn
<1>4. LoginExclusive'
   BY <1>1, <1>3, LoginEnds DEF LoginReturn, InLogin, Registry
<1>5. Nowhere'
  <2>1. ASSUME NEW d \in Conn, conn'[d].st = "login"
        PROVE  user_online'[conn'[d].uid] = None
    <3>1. d # c /\ conn'[d] = conn[d] BY <2>1, <1>3 DEF LoginTypeOK
    <3>2. conn[d].uid \in Uid /\ user_online[conn[d].uid] = None
       BY <2>1, <3>1, ConnType DEF Registry, Nowhere
    <3>3. conn[d].uid # u
       BY <1>1, <2>1, <3>1 DEF Registry, LoginExclusive, InLogin
    <3> QED BY <1>2, <3>1, <3>2, <3>3
  <2> QED BY <2>1 DEF Nowhere
<1>6. Unreplaced
  <2>1. user_online[u] = None BY <1>1 DEF Registry, Nowhere
  <2> QED BY <1>2, <2>1 DEF Unreplaced
<1> QED BY <1>4, <1>5, <1>6 DEF Registry

\* accept() takes the lock of a player that nobody logs in.
LEMMA AcceptRegistry ==
  ASSUME TypeOK, Registry, NEW c \in Conn, NEW u \in Uid, NEW s \in Server,
         Accept(c, u, s)
  PROVE  Registry' /\ Unreplaced
<1> LoginTypeOK BY DEF TypeOK
<1>1. UNCHANGED user_online /\ ~InLogin(c) BY DEF Accept, InLogin
<1>2. PICK st \in {"kick", "login", "refused"} :
        /\ Becomes(c, st, u, s)
        /\ st = "refused" => UNCHANGED user_login
        /\ st # "refused" => Lock(u) /\ ~Locked(u)
        /\ st = "login" => user_online[u] = None
   BY DEF Accept
<1>3. /\ conn'[c].st = st /\ conn'[c].uid = u
      /\ \A d \in Conn : d # c => conn'[d] = conn[d]
   BY <1>2 DEF Becomes, LoginTypeOK
<1>4. LoginExclusive'
  <2>1. CASE st = "refused"
    <3>1. \A d \in Conn : (InLogin(d)' <=> InLogin(d)) /\
                          (InLogin(d) => conn'[d].uid = conn[d].uid)
       BY <2>1, <1>1, <1>3 DEF InLogin
    <3> QED BY <2>1, <3>1, <1>2 DEF Registry, LoginExclusive, Locked
  <2>2. CASE st # "refused"
    <3>1. \A d \in Conn : (InLogin(d)' <=> InLogin(d) \/ d = c) /\
                          (InLogin(d) => conn'[d].uid = conn[d].uid)
       BY <2>2, <1>1, <1>3 DEF InLogin
    <3>2. \A v \in Uid : Locked(v)' <=> Locked(v) \/ v = u
       BY <2>2, <1>2 DEF Lock, Locked
    <3>3. \A d \in Conn : InLogin(d) => conn[d].uid # u
       BY <2>2, <1>2 DEF Registry, LoginExclusive
    <3> QED BY <3>1, <3>2, <3>3, <1>1, <1>3 DEF Registry, LoginExclusive
  <2> QED BY <2>1, <2>2
<1>5. Nowhere' BY <1>1, <1>2, <1>3 DEF Registry, Nowhere
<1>6. Unreplaced BY <1>1 DEF Unreplaced
<1> QED BY <1>4, <1>5, <1>6 DEF Registry

\* CMD.logout only removes a record.
LEMMA LogoutRegistry ==
  ASSUME TypeOK, Registry, NEW s \in Server, Logout(s)
  PROVE  Registry' /\ Unreplaced
<1> LoginTypeOK /\ FabricTypeOK BY DEF TypeOK
<1>1. \A v \in Uid : user_online'[v] = user_online[v] \/ user_online'[v] = None
   BY DEF Logout, LoginTypeOK
<1>2. UNCHANGED <<user_login, conn>> BY DEF Logout
<1>3. LoginExclusive'
   BY <1>2 DEF Registry, LoginExclusive, InLogin, Locked
<1>4. Nowhere' BY <1>1, <1>2, ConnType DEF Registry, Nowhere
<1>5. Unreplaced BY <1>1 DEF Unreplaced
<1> QED BY <1>3, <1>4, <1>5 DEF Registry

\* A new login server has no login, no lock and no record.
LEMMA LoginCrashRegistry ==
  ASSUME TypeOK, LoginCrash PROVE Registry' /\ Unreplaced
<1> LoginTypeOK BY DEF TypeOK
<1>1. \A d \in Conn : ~InLogin(d)'
   BY ConnType DEF LoginCrash, InLogin
<1>2. LoginExclusive' BY <1>1 DEF LoginCrash, LoginExclusive, Locked
<1>3. Nowhere' BY <1>1 DEF Nowhere, InLogin
<1>4. Unreplaced BY DEF LoginCrash, Unreplaced
<1> QED BY <1>2, <1>3, <1>4 DEF Registry

\* At the start nobody logs in.
LEMMA RegistryInit == Init => Registry
BY DEF Init, LoginInit, Registry, LoginExclusive, Nowhere, InLogin, Locked, NoLogin

\* Every step keeps logins apart and replaces no record.
LEMMA RegistryStep ==
  ASSUME TypeOK, Registry, [Next]_vars PROVE Registry' /\ Unreplaced
<1>1. CASE UNCHANGED loginVars BY <1>1, RegistrySame
<1>2. CASE Services
  <2>1. ASSUME NEW c \in Conn, LoginHandler(c) PROVE Registry' /\ Unreplaced
     BY <2>1, KickReturnRegistry, LoginReturnRegistry DEF LoginHandler
  <2>2. ASSUME NEW c \in Conn, GateHandler(c) \/ GateShake(c)
        PROVE  Registry' /\ Unreplaced
     BY <2>2, <1>1 DEF GateHandler, GateShake, OnlyGate
  <2>3. ASSUME NEW s \in Server, LogoutCommand(s) PROVE Registry' /\ Unreplaced
     BY <2>3, LogoutRegistry DEF LogoutCommand
  <2>4. ASSUME NEW a \in Agent, AgentTurn(a) \/ AgentResume(a)
        PROVE  Registry' /\ Unreplaced
     BY <2>4, <1>1 DEF AgentTurn, AgentResume, OnlyAgent
  <2>5. ASSUME NEW a \in Agent, NEW k \in Co, GateLeave(a, k) \/ AgentCo(a, k)
        PROVE  Registry' /\ Unreplaced
     BY <2>5, <1>1 DEF GateLeave, AgentCo, OnlyGate, OnlyAgent
  <2> QED BY <1>2, <2>1, <2>2, <2>3, <2>4, <2>5 DEF Services
<1>3. ASSUME NEW c \in Conn, Player(c) PROVE Registry' /\ Unreplaced
  <2>1. CASE OnlyGate BY <2>1, <1>1 DEF OnlyGate
  <2> QED BY <1>3, <2>1, AcceptRegistry DEF Player
<1>4. CASE NetworkFault BY <1>4, <1>1 DEF NetworkFault
<1>5. CASE Crash BY <1>5, <1>1, LoginCrashRegistry DEF Crash
<1>6. CASE UNCHANGED vars BY <1>6, <1>1 DEF vars
<1> QED BY <1>2, <1>3, <1>4, <1>5, <1>6 DEF Next

\* Two logins of one player never run at once, also when the login server is
\* started again in the middle of one.
THEOREM LoginsExclude == Spec => []LoginExclusive
<1>1. Init => TypeOK /\ FdMapped /\ Registry BY TypeInit, RegistryInit
<1>2. TypeOK /\ FdMapped /\ Registry /\ [Next]_vars
        => (TypeOK /\ FdMapped /\ Registry)'
   BY TypeStep, MappedStep, RegistryStep
<1>3. Registry => LoginExclusive BY DEF Registry
<1> QED BY <1>1, <1>2, <1>3, PTL DEF Spec

\* The login server never writes a player's record over another one.
THEOREM RecordsAreNotReplaced == Spec => NeverReplaced
<1>1. Init => TypeOK /\ FdMapped /\ Registry BY TypeInit, RegistryInit
<1>2. TypeOK /\ FdMapped /\ Registry /\ [Next]_vars
        => (TypeOK /\ FdMapped /\ Registry)'
   BY TypeStep, MappedStep, RegistryStep
<1>3. TypeOK /\ FdMapped /\ Registry /\ [Next]_vars => [Unreplaced]_vars
   BY RegistryStep
<1> QED BY <1>1, <1>2, <1>3, PTL DEF Spec, NeverReplaced, Unreplaced

-----------------------------------------------------------------------------
\* Queues of messages, of which at most one may be a login.

\* At most one message of q is a login.
Once(q) == \A i, j \in DOMAIN q : q[i].op = "login" /\ q[j].op = "login" => i = j

\* A message of q is a login.
HasLogin(q) == \E m \in Range(q) : m.op = "login"

\* A queue that was r has become q, and no login came in.
Quiet(q, r) ==
  /\ Once(r) => Once(q)
  /\ \A m \in Range(q) : m.op = "login" => m \in Range(r)

\* The messages of a queue with one more,
LEMMA RangeAppend ==
  ASSUME NEW S, NEW q \in Seq(S), NEW e \in S
  PROVE  Range(Append(q, e)) = Range(q) \cup {e}
<1>1. DOMAIN Append(q, e) = 1..(Len(q) + 1) /\ DOMAIN q = 1..Len(q) OBVIOUS
<1>2. Append(q, e)[Len(q) + 1] = e /\ \A i \in 1..Len(q) : Append(q, e)[i] = q[i]
   OBVIOUS
<1> QED BY <1>1, <1>2 DEF Range

\* or without its first.
LEMMA RangeTail ==
  ASSUME NEW S, NEW q \in Seq(S), q # <<>>
  PROVE  /\ Range(Tail(q)) \subseteq Range(q)
         /\ Head(q) \in Range(q)
<1>1. DOMAIN Tail(q) = 1..(Len(q) - 1) /\ DOMAIN q = 1..Len(q) /\ Len(q) \in Nat \ {0}
   OBVIOUS
<1>2. Head(q) = q[1] /\ \A i \in 1..(Len(q) - 1) : Tail(q)[i] = q[i+1] OBVIOUS
<1> QED BY <1>1, <1>2 DEF Range

\* A queue behind another: a message more,
LEMMA LineAppend ==
  ASSUME NEW S, NEW s \in Seq(S), NEW q \in Seq(S), NEW e \in S
  PROVE  s \o Append(q, e) = Append(s \o q, e)
OBVIOUS

\* the first one moved to the other queue,
LEMMA LineMove ==
  ASSUME NEW S, NEW s \in Seq(S), NEW q \in Seq(S), q # <<>>
  PROVE  Append(s, Head(q)) \o Tail(q) = s \o q
OBVIOUS

\* and the first of all taken.
LEMMA LineHead ==
  ASSUME NEW S, NEW s \in Seq(S), NEW q \in Seq(S), s # <<>>
  PROVE  Head(s \o q) = Head(s) /\ Tail(s \o q) = Tail(s) \o q /\ s \o q # <<>>
OBVIOUS

\* Another message than a login comes,
LEMMA QuietAppend ==
  ASSUME NEW S, NEW q \in Seq(S), NEW e \in S, e.op # "login"
  PROVE  Quiet(Append(q, e), q)
<1>1. Once(q) => Once(Append(q, e)) BY DEF Once
<1>2. Range(Append(q, e)) = Range(q) \cup {e} BY RangeAppend
<1> QED BY <1>1, <1>2 DEF Quiet

\* the first message of a queue is taken,
LEMMA QuietTail ==
  ASSUME NEW S, NEW q \in Seq(S), q # <<>>
  PROVE  Quiet(Tail(q), q)
<1>1. Once(q) => Once(Tail(q)) BY DEF Once
<1> QED BY <1>1, RangeTail DEF Quiet

\* or the first behind another queue.
LEMMA QuietRemove ==
  ASSUME NEW S, NEW s \in Seq(S), NEW q \in Seq(S), q # <<>>
  PROVE  Quiet(s \o Tail(q), s \o q)
<1> DEFINE up(n) == IF n <= Len(s) THEN n ELSE n + 1
<1>1. Len(s) \in Nat /\ Len(q) \in Nat \ {0} OBVIOUS
<1>2. /\ DOMAIN (s \o Tail(q)) = 1..(Len(s) + Len(q) - 1)
      /\ DOMAIN (s \o q) = 1..(Len(s) + Len(q))
   OBVIOUS
<1>3. \A i \in DOMAIN (s \o Tail(q)) : /\ up(i) \in DOMAIN (s \o q)
                                       /\ (s \o Tail(q))[i] = (s \o q)[up(i)]
   BY <1>1, <1>2
<1>4. ASSUME Once(s \o q), NEW i \in DOMAIN (s \o Tail(q)),
             NEW j \in DOMAIN (s \o Tail(q)),
             (s \o Tail(q))[i].op = "login", (s \o Tail(q))[j].op = "login"
      PROVE  i = j
  <2>1. up(i) = up(j) BY <1>3, <1>4 DEF Once
  <2> QED BY <2>1, <1>1, <1>2
<1>5. Range(s \o Tail(q)) \subseteq Range(s \o q) BY <1>3 DEF Range
<1> QED BY <1>4, <1>5 DEF Quiet, Once

\* A login comes into a queue that has none.
LEMMA OnceAppend ==
  ASSUME NEW S, NEW q \in Seq(S), NEW e \in S, ~HasLogin(q)
  PROVE  Once(Append(q, e))
BY DEF Once, HasLogin, Range

\* When the login at the head is taken, none is left.
LEMMA OnceTail ==
  ASSUME NEW S, NEW q \in Seq(S), q # <<>>, Once(q), Head(q).op = "login"
  PROVE  ~HasLogin(Tail(q))
<1> SUFFICES ASSUME NEW i \in DOMAIN Tail(q), Tail(q)[i].op = "login" PROVE FALSE
   BY DEF HasLogin, Range
<1>1. i + 1 \in DOMAIN q /\ 1 \in DOMAIN q /\ q[i + 1] = Tail(q)[i] /\ q[1] = Head(q)
   OBVIOUS
<1>2. i + 1 = 1 BY <1>1 DEF Once
<1> QED BY <1>2

-----------------------------------------------------------------------------
\* What an agent knows, and the invariant.

\* The messages an agent has yet to act on: the commands that wait for its
\* critical section, and its mailbox behind them.
Line(a) == csq[a] \o mbox[a]

\* i names the session that the login of connection c is going to be, by its
\* subid or one that the gate has given out since.
Of(i, c) ==
  /\ i.uid = pending[c].uid
  /\ i.subid \in pending[c].subid .. internal_id[pending[c].server]

\* A connection logs in once, so what serves its login is not replaced.
OneLogin == \A c \in Conn :
  /\ conn[c].st = "new" => call[c].op = "none"
  /\ call[c].op = "login" => conn[c].st \notin {"new", "kick"}
  /\ pending[c].st # "none" => call[c].op = "login" /\ call[c].st # "sent"

\* An agent is told of a login, or has answered one, at most once; the gate
\* waits for that answer; and once it has answered, it is bound to that
\* session or to none.  The gate has given out the subid of each login.
LoginsOnce == \A a \in Agent :
  /\ Once(Line(a))
  /\ Once(sent[a])
  /\ ~(HasLogin(Line(a)) /\ HasLogin(sent[a]))
LoginsAwaited == \A a \in Agent :
  /\ \A m \in Range(Line(a)) : m.op = "login" =>
       InLoginOf(a, m.conn) /\ Of(m, m.conn)
  /\ \A m \in Range(sent[a]) : m.op = "login" =>
       InLoginOf(a, m.conn) /\ (bound[a] # None => Of(bound[a], m.conn))
GivenOut == \A c \in Conn : pending[c].st # "none" =>
  pending[c].subid =< internal_id[pending[c].server]
Logins == LoginsOnce /\ LoginsAwaited /\ GivenOut /\ NoCrossTalk

\* Player i.uid and subid i.subid are known to agent a together: its binding,
\* a message from or to it, or its gate's tables name the two.
Ident == [uid : Uid, subid : Nat]
Knows(a, i) ==
  \/ bound[a] = i
  \/ \E m \in Range(Line(a)) :
       m.op = "login" /\ m.uid = i.uid /\ m.subid = i.subid
  \/ \E m \in Range(sent[a]) :
       m.op = "leave" /\ m.uid = i.uid /\ m.subid = i.subid
  \/ \E c \in Conn :
       InLoginOf(a, c) /\ pending[c].uid = i.uid /\ pending[c].subid = i.subid
  \/ \E p \in Seat :
       InUsers(a, p) /\ p[2] = i.uid /\ users[p].subid = i.subid

\* A gate has given out the subids that its agents know; one agent knows a
\* player by a subid; and none knows a player who waits for newservice by the
\* subid of that login or one since.  A player who logs in twice at a time may
\* have two agents that are told the same, so each gate has one login of his.
SubidGiven == \A a \in Agent, i \in Ident :
  Knows(a, i) => i.subid =< internal_id[Home[a]]
SubidOwned == \A a, b \in Agent, i \in Ident :
  Knows(a, i) /\ Knows(b, i) /\ Home[a] = Home[b] => a = b
SubidKept == \A c \in Conn : pending[c].st = "spawn" =>
  \A a \in Agent, i \in Ident :
    Home[a] = pending[c].server /\ Knows(a, i) /\ i.uid = pending[c].uid
      => i.subid < pending[c].subid
Subids == SubidGiven /\ SubidOwned /\ SubidKept
OneEach == \A c, d \in Conn :
  pending[c].st # "none" /\ pending[d].st # "none" /\ pending[c].uid = pending[d].uid
    => c = d

\* What an agent waits for and has sent are queues of messages.
LEMMA LineType ==
  ASSUME TypeOK, NEW a \in Agent
  PROVE  /\ csq[a] \in Seq(Msg) /\ mbox[a] \in Seq(Msg) /\ Line(a) \in Seq(Msg)
         /\ sent[a] \in Seq(GateMsg)
<1>1. csq[a] \in Seq(CsMsg) /\ mbox[a] \in Seq(Msg) /\ sent[a] \in Seq(GateMsg)
   BY DEF TypeOK, FabricTypeOK, AgentTypeOK
<1>2. CsMsg \subseteq Msg BY DEF Msg
<1>3. csq[a] \in Seq(Msg) BY <1>1, <1>2
<1> QED BY <1>1, <1>3 DEF Line

\* A login message names a connection, a player and a subid.
LEMMA LoginMsgType ==
  ASSUME NEW m \in Msg, m.op = "login"
  PROVE  m.conn \in Conn /\ m.uid \in Uid /\ m.subid \in Nat
BY DEF Msg, CsMsg, HeldMsg

\* The answer to a login names a connection.
LEMMA LoginReplyType ==
  ASSUME NEW m \in GateMsg, m.op = "login" PROVE m.conn \in Conn
BY DEF GateMsg

\* A session of a gate's table names an agent and a subid.
LEMMA SeatType ==
  ASSUME TypeOK, NEW p \in Seat, users[p] # None PROVE users[p] \in UserRec
BY DEF TypeOK, GateTypeOK, Seat, UserRec

\* The messages in a queue are messages.
LEMMA RangeType ==
  ASSUME NEW S, NEW q \in Seq(S) PROVE Range(q) \subseteq S
BY DEF Range

-----------------------------------------------------------------------------
\* Steps in which no agent learns anything.

\* No login has come to an agent or gone from it, and what else it sent is a
\* logout call with its own subid.
LineQuiet == \A a \in Agent : Quiet(Line(a)', Line(a))
SentQuiet == \A a \in Agent :
  /\ Quiet(sent'[a], sent[a])
  /\ \A m \in Range(sent'[a]) : m.op = "leave" =>
       \/ m \in Range(sent[a])
       \/ bound[a] # None /\ m.uid = bound[a].uid /\ m.subid = bound[a].subid

\* A message other than a login is put in a mailbox,
LEMMA PostQuiet ==
  ASSUME TypeOK, NEW b \in Agent, NEW e \in Msg, e.op # "login",
         Post(b, e), UNCHANGED csq
  PROVE  LineQuiet
<1> SUFFICES ASSUME NEW a \in Agent PROVE Quiet(Line(a)', Line(a)) BY DEF LineQuiet
<1>1. csq[a] \in Seq(Msg) /\ mbox[a] \in Seq(Msg) /\ Line(a) \in Seq(Msg) BY LineType
<1>2. CASE a = b
  <2>1. mbox'[a] = Append(mbox[a], e) BY <1>2 DEF Post, TypeOK, FabricTypeOK
  <2>2. Line(a)' = csq[a] \o Append(mbox[a], e) BY <2>1 DEF Line
  <2>3. csq[a] \o Append(mbox[a], e) = Append(csq[a] \o mbox[a], e)
     <3>1. \A s, q \in Seq(Msg) : s \o Append(q, e) = Append(s \o q, e) BY LineAppend
     <3> QED BY <1>1, <3>1, Zenon
  <2>4. Line(a) = csq[a] \o mbox[a] BY DEF Line
  <2>5. Line(a)' = Append(Line(a), e) BY <2>2, <2>3, <2>4
  <2>6. Quiet(Append(Line(a), e), Line(a)) BY <1>1, QuietAppend
  <2> QED BY <2>5, <2>6
<1>3. CASE a # b
  <2>1. mbox'[a] = mbox[a] BY <1>3 DEF Post, TypeOK, FabricTypeOK
  <2> QED BY <2>1 DEF Line, Quiet
<1> QED BY <1>2, <1>3

\* or nothing;
LEMMA LineSame == UNCHANGED <<mbox, csq>> => LineQuiet
BY DEF LineQuiet, Line, Quiet

\* a message is taken from a mailbox out of turn;
LEMMA TakeQuiet ==
  ASSUME TypeOK, NEW b \in Agent, mbox[b] # <<>>, Take(b), UNCHANGED csq
  PROVE  LineQuiet
<1> SUFFICES ASSUME NEW a \in Agent PROVE Quiet(Line(a)', Line(a)) BY DEF LineQuiet
<1>1. csq[a] \in Seq(Msg) /\ mbox[a] \in Seq(Msg) BY LineType
<1>2. CASE a = b
  <2>1. mbox'[a] = Tail(mbox[a]) BY <1>2 DEF Take, TypeOK, FabricTypeOK
  <2>2. Quiet(csq[a] \o Tail(mbox[a]), csq[a] \o mbox[a]) BY <1>1, <1>2, QuietRemove
  <2> QED BY <2>1, <2>2 DEF Line
<1>3. CASE a # b
  <2>1. mbox'[a] = mbox[a] BY <1>3 DEF Take, TypeOK, FabricTypeOK
  <2> QED BY <2>1 DEF Line, Quiet
<1> QED BY <1>2, <1>3

\* a command waits for the critical section: the line stays as it is;
LEMMA EnqueueLine ==
  ASSUME TypeOK, NEW b \in Agent, Enqueue(b)
  PROVE  LineQuiet
<1> SUFFICES ASSUME NEW a \in Agent PROVE Line(a)' = Line(a) BY DEF LineQuiet, Quiet
<1>1. csq[a] \in Seq(Msg) /\ mbox[a] \in Seq(Msg) BY LineType
<1>2. CASE a = b
  <2>1. /\ mbox[a] # <<>> /\ mbox'[a] = Tail(mbox[a])
        /\ csq'[a] = Append(csq[a], Head(mbox[a]))
     BY <1>2 DEF Enqueue, HasMsg, Msg1, Take, TypeOK, FabricTypeOK, AgentTypeOK
  <2>2. Append(csq[a], Head(mbox[a])) \o Tail(mbox[a]) = csq[a] \o mbox[a]
     BY <1>1, <2>1, LineMove
  <2> QED BY <2>1, <2>2 DEF Line
<1>3. CASE a # b
  <2>1. mbox'[a] = mbox[a] /\ csq'[a] = csq[a]
     BY <1>3 DEF Enqueue, Take, TypeOK, FabricTypeOK, AgentTypeOK
  <2> QED BY <2>1 DEF Line
<1> QED BY <1>2, <1>3

\* the first of the line enters it.
LEMMA EnterLine ==
  ASSUME TypeOK, NEW b \in Agent, NEW op, Enter(b, op)
  PROVE  /\ Line(b) # <<>> /\ Head(Line(b)) = Command(b) /\ Command(b).op = op
         /\ Line(b)' = Tail(Line(b))
         /\ \A a \in Agent \ {b} : Line(a)' = Line(a)
<1>1. csq[b] \in Seq(Msg) /\ mbox[b] \in Seq(Msg) BY LineType
<1>2. CASE csq[b] # <<>>
  <2>1. csq'[b] = Tail(csq[b]) /\ mbox' = mbox /\ Command(b) = Head(csq[b])
     BY <1>2 DEF Enter, Command, TypeOK, AgentTypeOK
  <2>2. /\ Head(csq[b] \o mbox[b]) = Head(csq[b]) /\ csq[b] \o mbox[b] # <<>>
        /\ Tail(csq[b] \o mbox[b]) = Tail(csq[b]) \o mbox[b]
     BY <1>1, <1>2, LineHead
  <2>3. \A a \in Agent \ {b} : csq'[a] = csq[a]
     BY <1>2 DEF Enter, TypeOK, AgentTypeOK
  <2> QED BY <2>1, <2>2, <2>3 DEF Enter, Line
<1>3. CASE csq[b] = <<>>
  <2>1. /\ mbox'[b] = Tail(mbox[b]) /\ csq' = csq /\ Command(b) = Head(mbox[b])
        /\ mbox[b] # <<>>
     BY <1>3 DEF Enter, Command, Msg1, Take, TypeOK, FabricTypeOK
  <2>2. <<>> \o mbox[b] = mbox[b] /\ <<>> \o Tail(mbox[b]) = Tail(mbox[b])
     BY <1>1, <2>1
  <2>3. \A a \in Agent \ {b} : mbox'[a] = mbox[a]
     BY <1>3 DEF Enter, Take, TypeOK, FabricTypeOK
  <2> QED BY <1>3, <2>1, <2>2, <2>3 DEF Enter, Line
<1> QED BY <1>2, <1>3

LEMMA EnterQuiet ==
  ASSUME TypeOK, NEW b \in Agent, NEW op, Enter(b, op)
  PROVE  LineQuiet
<1> SUFFICES ASSUME NEW a \in Agent PROVE Quiet(Line(a)', Line(a)) BY DEF LineQuiet
<1>1. Line(b) \in Seq(Msg) /\ Line(b) # <<>> BY LineType, EnterLine
<1>2. Quiet(Tail(Line(b)), Line(b)) BY <1>1, QuietTail
<1> QED BY <1>2, EnterLine DEF Quiet

\* An agent sends something other than a login, and its own subid if a leave;
LEMMA SendQuiet ==
  ASSUME TypeOK, NEW b \in Agent, NEW e \in GateMsg, e.op # "login", Send(b, e),
         e.op = "leave" => bound[b] # None /\ e.uid = bound[b].uid /\ e.subid = bound[b].subid
  PROVE  SentQuiet
<1>1. sent[b] \in Seq(GateMsg) BY LineType
<1>2. sent'[b] = Append(sent[b], e) /\ \A a \in Agent \ {b} : sent'[a] = sent[a]
   BY DEF Send, TypeOK, FabricTypeOK
<1>3. Quiet(Append(sent[b], e), sent[b]) BY <1>1, QuietAppend
<1>4. Range(Append(sent[b], e)) = Range(sent[b]) \cup {e} BY <1>1, RangeAppend
<1> QED BY <1>2, <1>3, <1>4 DEF SentQuiet, Quiet

\* or nothing; or its gate receives.
LEMMA SentSame == UNCHANGED sent => SentQuiet
BY DEF SentQuiet, Quiet

LEMMA ReceiveQuiet ==
  ASSUME TypeOK, NEW b \in Agent, sent[b] # <<>>, Receive(b)
  PROVE  SentQuiet
<1>1. sent[b] \in Seq(GateMsg) BY LineType
<1>2. sent'[b] = Tail(sent[b]) /\ \A a \in Agent \ {b} : sent'[a] = sent[a]
   BY DEF Receive, TypeOK, FabricTypeOK
<1>3. Quiet(Tail(sent[b]), sent[b]) BY <1>1, QuietTail
<1>4. Range(Tail(sent[b])) \subseteq Range(sent[b]) BY <1>1, RangeTail
<1> QED BY <1>2, <1>3, <1>4 DEF SentQuiet, Quiet

\* What an agent knows after a step in which it learns nothing.
Forgets == \A a \in Agent, i \in Ident : Knows(a, i)' => Knows(a, i)

LEMMA QuietForgets ==
  ASSUME TypeOK, LineQuiet, SentQuiet,
         \A a \in Agent : bound'[a] \in {None, bound[a]},
         \A p \in Seat : users'[p] \in {None, users[p]},
         \A c \in Conn : pending'[c] \in {NoPending, pending[c]}
  PROVE  Forgets
<1> SUFFICES ASSUME NEW a \in Agent, NEW i \in Ident, Knows(a, i)' PROVE Knows(a, i)
   BY DEF Forgets
<1>1. ASSUME bound'[a] = i PROVE Knows(a, i)
  <2>1. i # None BY NoneAssumption DEF Ident
  <2> QED BY <1>1, <2>1 DEF Knows
<1>2. ASSUME NEW m \in Range(Line(a)'), m.op = "login", m.uid = i.uid, m.subid = i.subid
      PROVE  Knows(a, i)
   BY <1>2 DEF Knows, LineQuiet, Quiet
<1>3. ASSUME NEW m \in Range(sent'[a]), m.op = "leave", m.uid = i.uid, m.subid = i.subid
      PROVE  Knows(a, i)
  <2>1. CASE m \in Range(sent[a]) BY <1>3, <2>1 DEF Knows
  <2>2. CASE bound[a] # None /\ m.uid = bound[a].uid /\ m.subid = bound[a].subid
    <3>1. bound[a] \in Ident BY <2>2 DEF Ident, TypeOK, AgentTypeOK
    <3>2. bound[a].uid = i.uid /\ bound[a].subid = i.subid BY <1>3, <2>2
    <3>3. bound[a] = i
      <4>1. \A x, y \in Ident : x.uid = y.uid /\ x.subid = y.subid => x = y BY DEF Ident
      <4> QED BY <3>1, <3>2, <4>1
    <3> QED BY <3>3 DEF Knows
  <2> QED BY <1>3, <2>1, <2>2 DEF SentQuiet
<1>4. ASSUME NEW c \in Conn, InLoginOf(a, c)', pending'[c].uid = i.uid,
             pending'[c].subid = i.subid
      PROVE  Knows(a, i)
  <2>1. pending'[c] = pending[c] BY <1>4 DEF InLoginOf, NoPending
  <2>2. InLoginOf(a, c) BY <1>4, <2>1 DEF InLoginOf
  <2> QED BY <1>4, <2>1, <2>2 DEF Knows
<1>5. ASSUME NEW p \in Seat, InUsers(a, p)', p[2] = i.uid, users'[p].subid = i.subid
      PROVE  Knows(a, i)
  <2>1. users'[p] = users[p] BY <1>5 DEF InUsers
  <2>2. InUsers(a, p) BY <1>5, <2>1 DEF InUsers
  <2> QED BY <1>5, <2>1, <2>2 DEF Knows
<1> QED BY <1>1, <1>2, <1>3, <1>4, <1>5 DEF Knows

\* What the agents know after a step that tells agent a of the sessions I.
Learns(a, I) == \A b \in Agent, i \in Ident :
  Knows(b, i)' => Knows(b, i) \/ (b = a /\ i \in I)

\* The subids stay apart when what an agent learns is known to no other, when
\* no counter goes back, and when no player that waits is told of.
LEMMA SubidsLearn ==
  ASSUME TypeOK, Subids, NEW a \in Agent, NEW I \in SUBSET Ident, Learns(a, I),
         internal_id' \in [Server -> Nat],
         \A s \in Server : internal_id[s] =< internal_id'[s],
         \A i \in I : i.subid =< internal_id'[Home[a]],
         \A b \in Agent \ {a}, i \in I : Home[b] = Home[a] => ~Knows(b, i),
         \A c \in Conn : pending'[c].st = "spawn" =>
           /\ pending'[c].server \in Server /\ pending'[c].subid \in Nat
           /\ \/ pending'[c] = pending[c]
              \/ internal_id[pending'[c].server] < pending'[c].subid
           /\ \A i \in I : pending'[c].server = Home[a] => i.uid # pending'[c].uid
  PROVE  Subids'
<1>1. /\ internal_id \in [Server -> Nat] /\ \A b \in Agent : Home[b] \in Server
      /\ \A i \in Ident : i.subid \in Nat
   BY HomeAssumption DEF TypeOK, GateTypeOK, Ident
<1>2. SubidGiven'
  <2> SUFFICES ASSUME NEW b \in Agent, NEW i \in Ident, Knows(b, i)'
               PROVE  i.subid =< internal_id'[Home[b]]
     BY DEF SubidGiven
  <2>1. CASE b = a /\ i \in I BY <2>1
  <2>2. CASE Knows(b, i)
    <3>1. i.subid =< internal_id[Home[b]] BY <2>2 DEF Subids, SubidGiven
    <3>2. internal_id[Home[b]] \in Nat /\ internal_id'[Home[b]] \in Nat BY <1>1
    <3> QED BY <1>1, <3>1, <3>2
  <2> QED BY <2>1, <2>2 DEF Learns
<1>3. SubidOwned'
  <2> SUFFICES ASSUME NEW b \in Agent, NEW d \in Agent, NEW i \in Ident,
                      Knows(b, i)', Knows(d, i)', Home[b] = Home[d]
               PROVE  b = d
     BY DEF SubidOwned
  <2>1. /\ Knows(b, i) \/ (b = a /\ i \in I)
        /\ Knows(d, i) \/ (d = a /\ i \in I)
     BY DEF Learns
  <2> QED BY <2>1 DEF Subids, SubidOwned
<1>4. SubidKept'
  <2> SUFFICES ASSUME NEW c \in Conn, pending'[c].st = "spawn", NEW b \in Agent,
                      NEW i \in Ident, Home[b] = pending'[c].server, Knows(b, i)',
                      i.uid = pending'[c].uid
               PROVE  i.subid < pending'[c].subid
     BY DEF SubidKept
  <2>1. Knows(b, i) BY DEF Learns
  <2>2. CASE pending'[c] = pending[c] BY <2>1, <2>2 DEF Subids, SubidKept
  <2>3. CASE internal_id[pending'[c].server] < pending'[c].subid
    <3>1. i.subid =< internal_id[pending'[c].server] BY <2>1 DEF Subids, SubidGiven
    <3>2. internal_id[pending'[c].server] \in Nat BY <1>1
    <3> QED BY <1>1, <2>3, <3>1, <3>2
  <2> QED BY <2>2, <2>3
<1> QED BY <1>2, <1>3, <1>4 DEF Subids

\* So they do when nobody learns anything.
LEMMA SubidsForget ==
  ASSUME TypeOK, TypeOK', Subids, Forgets,
         \A s \in Server : internal_id[s] =< internal_id'[s],
         \A c \in Conn : pending'[c].st = "spawn" => pending'[c] = pending[c]
  PROVE  Subids'
<1>1. CASE Agent = {} BY <1>1 DEF Subids, SubidGiven, SubidOwned, SubidKept
<1>2. ASSUME NEW a \in Agent PROVE Subids'
  <2>1. Learns(a, {}) BY DEF Forgets, Learns
  <2>2. internal_id' \in [Server -> Nat] BY DEF TypeOK, GateTypeOK
  <2>3. \A c \in Conn : pending'[c].st = "spawn" =>
          pending'[c].server \in Server /\ pending'[c].subid \in Nat
     BY PendingSpawn DEF TypeOK
  <2> DEFINE I == {}
  <2>4. I \in SUBSET Ident /\ \A i \in I : FALSE OBVIOUS
  <2>5. Learns(a, I) BY <2>1
  <2> HIDE DEF I
  <2> QED BY <2>2, <2>3, <2>4, <2>5, SubidsLearn
<1> QED BY <1>1, <1>2

\* What names the session of a login still does when the counter goes on.
LEMMA OfKept ==
  ASSUME TypeOK, TypeOK', NEW c \in Conn, pending[c].st # "none", pending'[c] = pending[c],
         internal_id[pending[c].server] =< internal_id'[pending[c].server],
         NEW i, Of(i, c)
  PROVE  Of(i, c)'
<1>1. pending[c].server \in Server /\ pending[c].subid \in Nat
   BY DEF TypeOK, GateTypeOK, NoPending
<1>2. /\ internal_id[pending[c].server] \in Nat
      /\ internal_id'[pending[c].server] \in Nat
   BY <1>1 DEF TypeOK, GateTypeOK
<1> QED BY <1>1, <1>2 DEF Of

\* A session's agent still knows it, or nothing.
LEMMA TalkKept ==
  ASSUME TypeOK, TypeOK', NoCrossTalk, NEW p \in Seat, users'[p] # None,
         users'[p] = users[p], bound'[users[p].agent] \in {None, bound[users[p].agent]},
         internal_id[p[1]] =< internal_id'[p[1]],
         bound'[users'[p].agent] # None
  PROVE  /\ bound'[users'[p].agent].uid = p[2]
         /\ bound'[users'[p].agent].subid \in users'[p].subid .. internal_id'[p[1]]
<1>1. users[p] \in UserRec /\ p[1] \in Server BY SeatType DEF Seat
<1>2. /\ internal_id[p[1]] \in Nat /\ internal_id'[p[1]] \in Nat
      /\ users[p].subid \in Nat
   BY <1>1 DEF TypeOK, GateTypeOK, UserRec
<1>3. /\ bound[users[p].agent].uid = p[2]
      /\ bound[users[p].agent].subid \in users[p].subid .. internal_id[p[1]]
   BY DEF NoCrossTalk
<1> QED BY <1>2, <1>3

\* The logins stay as they are when none comes or goes.
LEMMA LoginsQuiet ==
  ASSUME TypeOK, TypeOK', Logins, LineQuiet, SentQuiet, GivenOut',
         \A a \in Agent : bound'[a] \in {None, bound[a]},
         \A p \in Seat : \/ users'[p] = None
                         \/ users'[p] = users[p] /\ internal_id[p[1]] =< internal_id'[p[1]],
         \A a \in Agent, c \in Conn : InLoginOf(a, c) =>
           \/ /\ pending'[c] = pending[c]
              /\ internal_id[pending[c].server] =< internal_id'[pending[c].server]
           \/ Line(a)' = <<>> /\ sent'[a] = <<>>
  PROVE  Logins'
<1>1. LoginsOnce'
  <2> SUFFICES ASSUME NEW a \in Agent
               PROVE  /\ Once(Line(a)') /\ Once(sent'[a])
                      /\ ~(HasLogin(Line(a)') /\ HasLogin(sent'[a]))
     BY DEF LoginsOnce
  <2>1. Quiet(Line(a)', Line(a)) /\ Quiet(sent'[a], sent[a]) BY DEF LineQuiet, SentQuiet
  <2> QED BY <2>1 DEF Logins, LoginsOnce, Quiet, HasLogin
<1>2. \A q \in {<<>>} : Range(q) = {} BY DEF Range
<1>3. LoginsAwaited'
  <2>1. ASSUME NEW a \in Agent, NEW m \in Range(Line(a)'), m.op = "login"
        PROVE  InLoginOf(a, m.conn)' /\ Of(m, m.conn)'
    <3>1. m \in Range(Line(a)) BY <2>1 DEF LineQuiet, Quiet
    <3>2. m.conn \in Conn BY <2>1, <3>1, LineType, RangeType, LoginMsgType
    <3>3. InLoginOf(a, m.conn) /\ Of(m, m.conn) BY <2>1, <3>1 DEF Logins, LoginsAwaited
    <3>4. /\ pending'[m.conn] = pending[m.conn]
          /\ internal_id[pending[m.conn].server] =< internal_id'[pending[m.conn].server]
       BY <1>2, <2>1, <3>2, <3>3
    <3>5. InLoginOf(a, m.conn)' BY <3>3, <3>4 DEF InLoginOf
    <3>6. Of(m, m.conn)' BY <3>2, <3>3, <3>4, OfKept DEF InLoginOf
    <3> QED BY <3>5, <3>6
  <2>2. ASSUME NEW a \in Agent, NEW m \in Range(sent'[a]), m.op = "login"
        PROVE  InLoginOf(a, m.conn)' /\ (bound'[a] # None => Of(bound[a], m.conn)')
    <3>1. m \in Range(sent[a]) BY <2>2 DEF SentQuiet, Quiet
    <3>2. m.conn \in Conn BY <2>2, <3>1, LineType, RangeType, LoginReplyType
    <3>3. InLoginOf(a, m.conn) /\ (bound[a] # None => Of(bound[a], m.conn))
       BY <2>2, <3>1 DEF Logins, LoginsAwaited
    <3>4. /\ pending'[m.conn] = pending[m.conn]
          /\ internal_id[pending[m.conn].server] =< internal_id'[pending[m.conn].server]
       BY <1>2, <2>2, <3>2, <3>3
    <3>5. InLoginOf(a, m.conn)' BY <3>3, <3>4 DEF InLoginOf
    <3>6. ASSUME bound'[a] # None PROVE Of(bound[a], m.conn)'
      <4>1. PICK i : i = bound[a] /\ i = bound'[a] BY <3>6
      <4>2. Of(i, m.conn) BY <3>3, <3>6, <4>1
      <4>3. Of(i, m.conn)' BY <3>2, <3>3, <3>4, <4>2, OfKept DEF InLoginOf
      <4> QED BY <4>1, <4>3 DEF Of
    <3> QED BY <3>5, <3>6
  <2> QED BY <2>1, <2>2 DEF LoginsAwaited
<1>4. NoCrossTalk'
  <2> SUFFICES ASSUME NEW p \in Seat, users'[p] # None, bound'[users'[p].agent] # None
               PROVE  /\ bound'[users'[p].agent].uid = p[2]
                      /\ bound'[users'[p].agent].subid \in users'[p].subid .. internal_id'[p[1]]
     BY DEF NoCrossTalk
  <2>1. users[p].agent \in Agent BY SeatType DEF UserRec
  <2> QED BY <2>1, TalkKept DEF Logins
<1> QED BY <1>1, <1>3, <1>4 DEF Logins

-----------------------------------------------------------------------------
\* A connection logs in once.

\* A step that touches no login keeps this.
LEMMA OneLoginSame == OneLogin /\ UNCHANGED <<conn, call, pending>> => OneLogin'
BY DEF OneLogin

\* Calls and connections are tables; a login starts without a call, and what
\* serves no login is NoPending.
LEMMA OneLoginTables ==
  ASSUME TypeOK
  PROVE  /\ DOMAIN call = Conn /\ DOMAIN conn = Conn /\ DOMAIN pending = Conn
         /\ \A c \in Conn : pending[c].st = "none" => pending[c] = NoPending
BY DEF TypeOK, FabricTypeOK, LoginTypeOK, GateTypeOK, NoPending

\* A step that concerns one connection.
LEMMA OneLoginAt ==
  ASSUME OneLogin, NEW c \in Conn,
         \A d \in Conn \ {c} : /\ conn'[d] = conn[d] /\ call'[d] = call[d]
                               /\ pending'[d] = pending[d],
         conn'[c].st = "new" => call'[c].op = "none",
         call'[c].op = "login" => conn'[c].st \notin {"new", "kick"},
         pending'[c].st # "none" => call'[c].op = "login" /\ call'[c].st # "sent"
  PROVE  OneLogin'
BY DEF OneLogin

\* login_handler, accept() and the network keep it,
LEMMA OneLoginMaster ==
  ASSUME TypeOK, OneLogin, NEW c \in Conn,
         \/ KickReturn(c) \/ LoginReturn(c)
         \/ \E u \in Uid, s \in Server : Accept(c, u, s)
         \/ CallFails(c) /\ UNCHANGED loginVars,
         UNCHANGED pending
  PROVE  OneLogin'
<1> DOMAIN call = Conn /\ DOMAIN conn = Conn BY OneLoginTables
<1>1. CASE KickReturn(c)
  <2>1. conn'[c].st \in {"refused", "login"}
     BY <1>1, ConnType DEF KickReturn, TypeOK
  <2>2. \/ call'[c] = call[c] /\ conn[c].st = "kick"
        \/ conn'[c].st = "login"
     BY <1>1, ConnType DEF KickReturn, TypeOK
  <2>3. \A d \in Conn \ {c} : conn'[d] = conn[d] /\ call'[d] = call[d]
     BY <1>1 DEF KickReturn, Call
  <2> QED BY <1>1, <2>1, <2>2, <2>3, OneLoginAt DEF OneLogin, KickReturn
<1>2. CASE LoginReturn(c)
  <2>1. conn'[c].st \in {"refused", "ok"} /\ UNCHANGED call
     BY <1>2, ConnType DEF LoginReturn, TypeOK, fabricVars
  <2>2. \A d \in Conn \ {c} : conn'[d] = conn[d]
     BY <1>2 DEF LoginReturn
  <2> QED BY <2>1, <2>2, OneLoginAt DEF OneLogin
<1>3. ASSUME NEW u \in Uid, NEW s \in Server, Accept(c, u, s) PROVE OneLogin'
   BY <1>3, OneLoginAt DEF Accept, Becomes, Call, OneLogin
<1>4. CASE CallFails(c) /\ UNCHANGED loginVars
   BY <1>4, OneLoginAt DEF CallFails, Refuse, loginVars, OneLogin
<1> QED BY <1>1, <1>2, <1>3, <1>4

\* the handlers of a gate too,
LEMMA OneLoginGate ==
  ASSUME TypeOK, OneLogin, NEW c \in Conn, GateHandler(c)
  PROVE  OneLogin'
<1> DOMAIN call = Conn /\ DOMAIN pending = Conn BY OneLoginTables
<1>1. UNCHANGED conn BY DEF GateHandler, OnlyGate, loginVars
<1>2. ASSUME NEW st, NEW a, NewLogin(c, st, a) PROVE OneLogin'
  <2>1. call' = [call EXCEPT ![c].st = "serving"] /\ call[c].op = "login"
     BY <1>2 DEF NewLogin, Called, Serve
  <2>2. \A d \in Conn \ {c} : pending'[d] = pending[d] BY <1>2 DEF NewLogin
  <2>3. call'[c].op = "login" /\ call'[c].st = "serving"
     BY <2>1, CalledType DEF TypeOK, CallRec
  <2> QED BY <1>1, <2>1, <2>2, <2>3, OneLoginAt DEF OneLogin
<1>3. CASE GateLoginError(c) \/ GateKick(c)
  <2>1. /\ call' = [call EXCEPT ![c].st = "fail"] \/ call' = [call EXCEPT ![c].st = "serving"]
        /\ UNCHANGED pending
     BY <1>3 DEF GateLoginError, GateKick, Serve, Refuse, gateVars
  <2>2. call[c] \in CallRec
     BY <1>3, CalledType DEF GateLoginError, GateKick, Called, TypeOK
  <2>3. call'[c].op = call[c].op /\ call'[c].st # "sent" BY <2>1, <2>2 DEF CallRec
  <2> QED BY <1>1, <2>1, <2>3, OneLoginAt DEF OneLogin
<1>4. CASE GateSpawned(c)
  <2>1. /\ UNCHANGED call /\ pending[c].st = "spawn"
        /\ \A d \in Conn \ {c} : pending'[d] = pending[d]
     BY <1>4 DEF GateSpawned
  <2> QED BY <1>1, <2>1, OneLoginAt DEF OneLogin
<1>5. CASE GateLoginDone(c) \/ GateKickDone(c)
  <2>1. /\ \A d \in Conn \ {c} : pending'[d] = pending[d]
        /\ pending'[c] \in {NoPending, pending[c]}
     BY <1>5 DEF GateLoginDone, GateKickDone, gateVars
  <2>2. PICK op, n : Answer(c, op, n)
     BY <1>5 DEF GateLoginDone, GateKickDone
  <2>3. call[c].st = "serving" => call[c] \in CallRec BY CallStType DEF TypeOK
  <2>4. /\ \A d \in Conn \ {c} : call'[d] = call[d]
        /\ call'[c].op = call[c].op /\ (call'[c].st = call[c].st \/ call'[c].st = "ok")
     BY <2>2, <2>3 DEF Answer, CallRec
  <2> QED BY <1>1, <2>1, <2>4, OneLoginAt DEF OneLogin, NoPending
<1> QED BY <1>2, <1>3, <1>4, <1>5 DEF GateHandler, GateLogin, GateSpawn

\* and so does a process that dies.
LEMMA OneLoginCrash ==
  ASSUME TypeOK, OneLogin, Crash PROVE OneLogin'
<1> USE OneLoginTables DEF OneLogin
<1>1. CASE LoginCrash /\ UNCHANGED gateVars
   BY <1>1 DEF LoginCrash, InLogin, gateVars
<1>2. ASSUME NEW s \in Server, NEW C, GateCrash(s, C), UNCHANGED loginVars
      PROVE  OneLogin'
   BY <1>2 DEF GateCrash, loginVars, NoPending
<1> QED BY <1>1, <1>2 DEF Crash

LEMMA OneLoginStep ==
  ASSUME TypeOK, OneLogin, [Next]_vars PROVE OneLogin'
<1>1. CASE UNCHANGED <<conn, call, pending>> BY <1>1, OneLoginSame
<1>2. CASE Services
  <2>1. ASSUME NEW c \in Conn, LoginHandler(c) PROVE OneLogin'
     BY <2>1, OneLoginMaster DEF LoginHandler, OnlyLogin, gateVars
  <2>2. ASSUME NEW c \in Conn, GateHandler(c) PROVE OneLogin' BY <2>2, OneLoginGate
  <2>3. ASSUME NEW c \in Conn, GateShake(c) PROVE OneLogin'
     BY <2>3, <1>1 DEF GateShake, GateAuthed, GateOnlined, OnlyGate, loginVars
  <2>4. ASSUME NEW s \in Server, LogoutCommand(s) PROVE OneLogin'
     BY <2>4, <1>1 DEF LogoutCommand, Logout, OnlyLogin, gateVars
  <2>5. ASSUME NEW a \in Agent, AgentTurn(a) \/ AgentResume(a) PROVE OneLogin'
    <3>1. UNCHANGED <<conn, pending>>
       BY <2>5 DEF AgentTurn, AgentResume, OnlyAgent, loginVars, gateVars
    <3>2. UNCHANGED call
       BY <2>5 DEF AgentTurn, AgentResume, Turn, Resume, Enqueue, Login, Afk, Online,
         Auth, Kicked, Left, LeftError, Requested, BeginLogout, OnlineDone, AuthLoaded,
         AuthDone, fabricVars
    <3> QED BY <3>1, <3>2, <1>1
  <2>6. ASSUME NEW a \in Agent, NEW k \in Co, AgentCo(a, k) PROVE OneLogin'
     BY <2>6, <1>1 DEF AgentCo, ResumeCo, Unloaded, IdleLogout, WorkerExit, BeginLogout,
       fabricVars, OnlyAgent, loginVars, gateVars
  <2>7. ASSUME NEW a \in Agent, NEW k \in Co, GateLeave(a, k) PROVE OneLogin'
     BY <2>7, <1>1 DEF GateLeave, GateLogout, GateLogoutDone, OnlyGate, loginVars
  <2> QED BY <1>2, <2>1, <2>2, <2>3, <2>4, <2>5, <2>6, <2>7 DEF Services
<1>3. ASSUME NEW c \in Conn, Player(c) PROVE OneLogin'
  <2>1. CASE \E u \in Uid, s \in Server : Accept(c, u, s) /\ OnlyLogin
     BY <2>1, OneLoginMaster DEF OnlyLogin, gateVars
  <2>2. ASSUME NEW s, NEW u, NEW n, Handshake(c, s, u, n), OnlyGate PROVE OneLogin'
     BY <2>2, <1>1 DEF Handshake, OnlyGate, loginVars
  <2>3. CASE Disconnect(c) /\ OnlyGate
     BY <2>3, <1>1 DEF Disconnect, OnlyGate, loginVars
  <2>4. ASSUME NEW k \in Client, ClientLogout(c, k), OnlyGate PROVE OneLogin'
     BY <2>4, <1>1 DEF ClientLogout, OnlyGate, loginVars, gateVars
  <2> QED BY <1>3, <2>1, <2>2, <2>3, <2>4 DEF Player
<1>4. CASE NetworkFault
   BY <1>4, <1>1, OneLoginMaster DEF NetworkFault, LoseNotify, gateVars, loginVars
<1>5. CASE Crash BY <1>5, OneLoginCrash
<1>6. CASE UNCHANGED vars
   BY <1>6, <1>1 DEF vars, fabricVars, loginVars, gateVars
<1> QED BY <1>2, <1>3, <1>4, <1>5, <1>6 DEF Next

-----------------------------------------------------------------------------
\* The steps in which no agent learns anything, one by one.

\* What such a step leaves of the bindings and the gates' tables.
Steady ==
  /\ \A a \in Agent : bound'[a] \in {None, bound[a]}
  /\ \A p \in Seat : users'[p] \in {None, users[p]}
  /\ UNCHANGED pending
  /\ \A s \in Server : internal_id[s] =< internal_id'[s]

LEMMA SteadySame ==
  TypeOK /\ UNCHANGED <<bound, users, pending, internal_id>> => Steady
BY DEF Steady, TypeOK, GateTypeOK

LEMMA QuietStep ==
  ASSUME TypeOK, TypeOK', Logins, LineQuiet, SentQuiet, Steady
  PROVE  Logins' /\ (Subids => Subids')
<1>1. \A s \in Server : internal_id[s] \in Nat /\ internal_id'[s] \in Nat
   BY DEF TypeOK, GateTypeOK
<1>2. \A c \in Conn : pending[c].st # "none" =>
        pending[c].server \in Server /\ pending[c].subid \in Nat
   BY DEF TypeOK, GateTypeOK, NoPending
<1>3. GivenOut' BY <1>1, <1>2 DEF GivenOut, Logins, Steady
<1>4. \A p \in Seat : p[1] \in Server BY DEF Seat
<1>5. Logins' BY <1>2, <1>3, <1>4, LoginsQuiet DEF Steady, InLoginOf
<1>6. Forgets BY QuietForgets DEF Steady
<1>7. Subids => Subids' BY <1>6, SubidsForget DEF Steady
<1> QED BY <1>5, <1>7

\* The messages of a gate to an agent, other than a login, and the messages of
\* an agent to its gate.
LEMMA OtherMsgs ==
  /\ \A c \in Conn : /\ AuthMsg(c) \in Msg /\ AuthMsg(c).op # "login"
                     /\ OnlineMsg(c) \in Msg /\ OnlineMsg(c).op # "login"
                     /\ KickMsg(c) \in Msg /\ KickMsg(c).op # "login"
  /\ AfkMsg \in Msg /\ AfkMsg.op # "login"
  /\ \A k \in Client : ClientMsg(k) \in Msg /\ ClientMsg(k).op # "login"
  /\ \A k \in Co, ok \in BOOLEAN : LeftMsg(k, ok) \in Msg /\ LeftMsg(k, ok).op # "login"
BY DEF AuthMsg, OnlineMsg, KickMsg, AfkMsg, ClientMsg, LeftMsg, Msg, CsMsg, HeldMsg

\* kick_handler, and a login that fails,
LEMMA GateQuiet ==
  ASSUME TypeOK, NEW c \in Conn, GateLoginError(c) \/ GateKick(c) \/ GateKickDone(c), OnlyGate
  PROVE  LineQuiet /\ SentQuiet /\ Steady
<1> USE DEF OnlyGate, agentVars
<1>1. CASE GateLoginError(c)
  <2>1. LineQuiet /\ SentQuiet BY <1>1, LineSame, SentSame DEF GateLoginError
  <2>2. call[c].server \in Server
     BY <1>1, CalledType DEF GateLoginError, Called, TypeOK, CallRec
  <2>3. \A s \in Server : internal_id[s] =< internal_id'[s]
    <3>1. internal_id' \in {internal_id, [internal_id EXCEPT ![call[c].server] = @ + 1]}
       BY <1>1 DEF GateLoginError
    <3> QED BY <3>1, <2>2 DEF TypeOK, GateTypeOK
  <2> QED BY <1>1, <2>1, <2>3 DEF GateLoginError, Steady
<1>2. CASE GateKick(c)
  <2>1. Steady BY <1>2, SteadySame DEF GateKick, gateVars
  <2>2. SentQuiet BY <1>2, SentSame DEF GateKick
  <2>3. LineQuiet
    <3>1. CASE UNCHANGED mbox BY <3>1, LineSame
    <3>2. CASE Has(call[c].server, call[c].uid, call[c].subid)
      <4>1. call[c].server \in Server /\ call[c].uid \in Uid
         BY <1>2, CalledType DEF GateKick, Called, TypeOK, CallRec
      <4>2. users[call[c].server, call[c].uid].agent \in Agent
         BY <3>2, <4>1, UserType DEF Has, TypeOK, UserRec
      <4> DEFINE u == users[call[c].server, call[c].uid]
      <4>3. \/ Post(u.agent, KickMsg(c)) \/ UNCHANGED mbox
         BY <1>2 DEF GateKick
      <4> HIDE DEF u
      <4>4. u.agent \in Agent BY <4>2 DEF u
      <4> QED BY <4>3, <4>4, <3>1, PostQuiet, OtherMsgs
    <3> QED BY <1>2, <3>1, <3>2 DEF GateKick
  <2> QED BY <2>1, <2>2, <2>3
<1>3. CASE GateKickDone(c)
  <2>1. Steady /\ LineQuiet BY <1>3, SteadySame, LineSame DEF GateKickDone, gateVars
  <2>2. SentQuiet BY <1>3, ReceiveQuiet, SentSame DEF GateKickDone, Sent
  <2> QED BY <2>1, <2>2
<1> QED BY <1>1, <1>2, <1>3

\* auth() of msg_server once the agent has answered,
LEMMA ShakeQuiet ==
  ASSUME TypeOK, NEW c \in Conn, GateShake(c)
  PROVE  LineQuiet /\ SentQuiet /\ Steady
<1> USE DEF OnlyGate, agentVars, GateShake
<1>1. Steady BY SteadySame DEF GateAuthed, GateOnlined
<1>2. SentQuiet BY ReceiveQuiet DEF GateAuthed, GateOnlined, Sent
<1>3. LineQuiet
  <2>1. CASE UNCHANGED mbox BY <2>1, LineSame
  <2> DEFINE u == users[conn[c].server, conn[c].uid]
  <2>2. CASE Told(c) /\ u # None /\ Post(u.agent, OnlineMsg(c))
    <3>1. conn[c].server \in Server /\ conn[c].uid \in Uid
       BY <2>2, ConnType DEF Told, TypeOK
    <3>2. u.agent \in Agent BY <2>2, <3>1, UserType DEF TypeOK, UserRec
    <3> HIDE DEF u
    <3> QED BY <2>2, <3>2, PostQuiet, OtherMsgs
  <2> QED BY <2>1, <2>2 DEF GateAuthed, GateOnlined
<1> QED BY <1>1, <1>2, <1>3

\* what a client does,
LEMMA ClientQuiet ==
  ASSUME TypeOK, FdMapped, NEW c \in Conn, Player(c)
  PROVE  LineQuiet /\ SentQuiet /\ Steady
<1> USE DEF OnlyGate, agentVars
<1>1. CASE \E u \in Uid, s \in Server : Accept(c, u, s) /\ OnlyLogin
   BY <1>1, LineSame, SentSame, SteadySame DEF Accept, OnlyLogin, gateVars
<1>2. CASE Told(c) /\ Handshake(c, conn[c].server, conn[c].uid, conn[c].subid) /\ OnlyGate
  <2> DEFINE u == users[conn[c].server, conn[c].uid]
  <2>1. conn[c].server \in Server /\ conn[c].uid \in Uid
     BY <1>2, ConnType DEF Told, TypeOK
  <2>2. u.agent \in Agent BY <1>2, <2>1, UserType DEF Handshake, TypeOK, UserRec
  <2>3. Post(u.agent, AuthMsg(c)) /\ UNCHANGED csq BY <1>2 DEF Handshake
  <2> HIDE DEF u
  <2>4. LineQuiet BY <2>2, <2>3, PostQuiet, OtherMsgs
  <2> QED BY <1>2, <2>4, SentSame, SteadySame DEF Handshake
<1>3. ASSUME fd[c] PROVE username_map[c].agent \in Agent BY <1>3, MappedType DEF TypeOK
<1>4. CASE Disconnect(c) /\ OnlyGate
  <2>1. LineQuiet BY <1>3, <1>4, PostQuiet, OtherMsgs DEF Disconnect
  <2> QED BY <1>4, <2>1, SentSame, SteadySame DEF Disconnect
<1>5. ASSUME NEW k \in Client, ClientLogout(c, k), OnlyGate
      PROVE  LineQuiet /\ SentQuiet /\ Steady
  <2>1. LineQuiet BY <1>3, <1>5, PostQuiet, OtherMsgs DEF ClientLogout
  <2> QED BY <1>5, <2>1, SentSame, SteadySame DEF ClientLogout, gateVars
<1> QED BY <1>1, <1>2, <1>4, <1>5 DEF Player

\* logout_handler,
LEMMA LeaveQuiet ==
  ASSUME TypeOK, NEW a \in Agent, NEW k \in Co, GateLeave(a, k)
  PROVE  LineQuiet /\ SentQuiet /\ Steady
<1> USE DEF OnlyGate, agentVars
<1>1. CASE GateLogout(a, k) /\ OnlyGate
  <2>1. SentQuiet BY <1>1, ReceiveQuiet DEF GateLogout
  <2>2. LineQuiet
    <3>1. \/ UNCHANGED mbox
          \/ \E ok \in BOOLEAN : Post(a, LeftMsg(k, ok))
       BY <1>1 DEF GateLogout
    <3> QED BY <1>1, <3>1, LineSame, PostQuiet, OtherMsgs
  <2>3. Steady
    <3>1. \A p \in Seat : users'[p] \in {None, users[p]}
       BY <1>1 DEF GateLogout, Drop, Seat, TypeOK, GateTypeOK
    <3>2. UNCHANGED <<bound, pending, internal_id>> BY <1>1 DEF GateLogout
    <3> QED BY <3>1, <3>2 DEF Steady, TypeOK, GateTypeOK
  <2> QED BY <2>1, <2>2, <2>3
<1>2. CASE GateLogoutDone(a, k) /\ OnlyGate
  <2>1. LineQuiet BY <1>2, PostQuiet, OtherMsgs DEF GateLogoutDone
  <2> QED BY <1>2, <2>1, SentSame, SteadySame DEF GateLogoutDone
<1> QED BY <1>1, <1>2 DEF GateLeave

\* a command that has ended, and what logout() does before it yields.
LEMMA ReleaseQuiet ==
  ASSUME TypeOK, NEW a \in Agent, Release(a) PROVE SentQuiet
<1>1. csop[a] \in HeldMsg BY DEF Release, TypeOK, AgentTypeOK
<1>2. /\ Reply(csop[a].op, csop[a].conn) \in GateMsg
      /\ Reply(csop[a].op, csop[a].conn).op \notin {"login", "leave"}
   BY <1>1 DEF HeldMsg, Reply, GateMsg
<1> QED BY <1>2, SendQuiet DEF Release

LEMMA BeginLogoutQuiet ==
  ASSUME TypeOK, NEW a \in Agent, NEW k \in Co, BeginLogout(a, k) PROVE SentQuiet
<1>1. CASE bound[a] # None /\ Send(a, LeaveMsg(k, bound[a].uid, bound[a].subid))
  <2>1. bound[a].uid \in Uid /\ bound[a].subid \in Nat
     BY <1>1 DEF TypeOK, AgentTypeOK
  <2>2. /\ LeaveMsg(k, bound[a].uid, bound[a].subid) \in GateMsg
        /\ LeaveMsg(k, bound[a].uid, bound[a].subid).op = "leave"
        /\ LeaveMsg(k, bound[a].uid, bound[a].subid).uid = bound[a].uid
        /\ LeaveMsg(k, bound[a].uid, bound[a].subid).subid = bound[a].subid
     BY <2>1 DEF LeaveMsg, GateMsg
  <2> QED BY <1>1, <2>2, SendQuiet
<1>2. CASE UNCHANGED sent BY <1>2, SentSame
<1> QED BY <1>1, <1>2 DEF BeginLogout

\* The steps of an agent other than a login.
LEMMA AgentQuiet ==
  ASSUME TypeOK, NEW a \in Agent,
         \/ AgentTurn(a) /\ ~Login(a)
         \/ AgentResume(a)
         \/ \E k \in Co : AgentCo(a, k)
  PROVE  LineQuiet /\ SentQuiet /\ Steady
<1>1. UNCHANGED <<users, pending, internal_id>>
   BY DEF AgentTurn, AgentResume, AgentCo, OnlyAgent, gateVars
<1>2. CASE Enqueue(a)
   BY <1>1, <1>2, EnqueueLine, SentSame, SteadySame DEF Enqueue
<1>3. CASE Afk(a) \/ Online(a) \/ Auth(a)
   BY <1>1, <1>3, EnterQuiet, SentSame, SteadySame DEF Afk, Online, Auth
<1>4. CASE Kicked(a)
  <2>1. SentQuiet BY <1>4, BeginLogoutQuiet, CsCo DEF Kicked
  <2> QED BY <1>1, <1>4, <2>1, EnterQuiet, SteadySame DEF Kicked, BeginLogout
<1>5. CASE Left(a)
  <2>1. Steady
    <3>1. \A b \in Agent : bound'[b] \in {None, bound[b]}
       BY <1>5 DEF Left, TypeOK, AgentTypeOK
    <3> QED BY <1>1, <3>1 DEF Steady, TypeOK, GateTypeOK
  <2> QED BY <1>5, <2>1, TakeQuiet, SentSame DEF Left, HasMsg
<1>6. CASE LeftError(a)
  <2>1. SentQuiet BY <1>6, ReleaseQuiet, SentSame DEF LeftError
  <2> QED BY <1>1, <1>6, <2>1, TakeQuiet, SteadySame DEF LeftError, HasMsg
<1>7. ASSUME NEW k \in Client, Requested(a, k) PROVE LineQuiet /\ SentQuiet /\ Steady
  <2>1. SentQuiet BY <1>7, BeginLogoutQuiet, CsCo DEF Requested
  <2> QED BY <1>1, <1>7, <2>1, TakeQuiet, SteadySame DEF Requested, BeginLogout, HasMsg
<1>8. CASE AgentResume(a)
  <2>1. LineQuiet
     BY <1>8, LineSame DEF AgentResume, Resume, OnlineDone, AuthLoaded, AuthDone, fabricVars
  <2>2. SentQuiet
     BY <1>8, ReleaseQuiet, SentSame
     DEF AgentResume, Resume, OnlineDone, AuthLoaded, AuthDone, fabricVars
  <2>3. UNCHANGED bound
     BY <1>8 DEF AgentResume, Resume, OnlineDone, AuthLoaded, AuthDone
  <2> QED BY <1>1, <2>1, <2>2, <2>3, SteadySame
<1>9. ASSUME NEW k \in Co, AgentCo(a, k) PROVE LineQuiet /\ SentQuiet /\ Steady
  <2>1. LineQuiet /\ UNCHANGED bound
     BY <1>9, LineSame
     DEF AgentCo, ResumeCo, Unloaded, IdleLogout, WorkerExit, BeginLogout, fabricVars
  <2>2. SentQuiet
     BY <1>9, ReleaseQuiet, BeginLogoutQuiet, SentSame
     DEF AgentCo, ResumeCo, Unloaded, IdleLogout, WorkerExit, fabricVars
  <2> QED BY <1>1, <2>1, <2>2, SteadySame
<1> QED BY <1>2, <1>3, <1>4, <1>5, <1>6, <1>7, <1>8, <1>9 DEF AgentTurn, Turn

-----------------------------------------------------------------------------
\* The steps in which an agent learns of a session.

\* CMD.login binds the agent to the session its gate waits for.
LEMMA LoginLearns ==
  ASSUME TypeOK, TypeOK', Books, Logins, NEW a \in Agent, Login(a), OnlyAgent
  PROVE  Logins' /\ Forgets
<1> DEFINE m == Command(a)
<1>1. /\ Line(a) \in Seq(Msg) /\ Line(a) # <<>> /\ Head(Line(a)) = m /\ m.op = "login"
      /\ Line(a)' = Tail(Line(a))
      /\ \A b \in Agent \ {a} : Line(b)' = Line(b)
   BY EnterLine, LineType DEF Login
<1>2. m \in Range(Line(a)) BY <1>1, RangeTail
<1>3. m \in Msg BY <1>1, <1>2, RangeType
<1>4. m.conn \in Conn /\ m.uid \in Uid /\ m.subid \in Nat BY <1>1, <1>3, LoginMsgType
<1>5. /\ InLoginOf(a, m.conn) /\ Of(m, m.conn)
      /\ Once(Line(a)) /\ Once(sent[a])
      /\ ~(HasLogin(Line(a)) /\ HasLogin(sent[a]))
   BY <1>1, <1>2 DEF Logins, LoginsAwaited, LoginsOnce
<1>6. /\ bound'[a] = [uid |-> m.uid, subid |-> m.subid]
      /\ \A b \in Agent \ {a} : bound'[b] = bound[b]
   BY DEF Login, TypeOK, AgentTypeOK
<1>7. /\ sent'[a] = Append(sent[a], Reply("login", m.conn))
      /\ \A b \in Agent \ {a} : sent'[b] = sent[b]
   BY DEF Login, Send, TypeOK, FabricTypeOK
<1>8. UNCHANGED <<users, pending, internal_id>> BY DEF OnlyAgent, gateVars
<1>9. /\ Reply("login", m.conn) \in GateMsg /\ Reply("login", m.conn).op = "login"
      /\ Reply("login", m.conn).conn = m.conn
   BY <1>4 DEF Reply, GateMsg
<1> HIDE DEF m
<1>10. ~HasLogin(sent[a]) BY <1>1, <1>2, <1>5 DEF HasLogin
<1>11. sent[a] \in Seq(GateMsg) BY LineType
<1>12. /\ Range(Append(sent[a], Reply("login", m.conn)))
            = Range(sent[a]) \cup {Reply("login", m.conn)}
       /\ Once(Append(sent[a], Reply("login", m.conn)))
   BY <1>9, <1>10, <1>11, RangeAppend, OnceAppend
<1>13. ~HasLogin(Tail(Line(a))) /\ Quiet(Tail(Line(a)), Line(a))
       /\ Range(Tail(Line(a))) \subseteq Range(Line(a))
   BY <1>1, <1>5, OnceTail, QuietTail, RangeTail
<1>14. LoginsOnce'
  <2> SUFFICES ASSUME NEW b \in Agent
               PROVE  /\ Once(Line(b)') /\ Once(sent'[b])
                      /\ ~(HasLogin(Line(b)') /\ HasLogin(sent'[b]))
     BY DEF LoginsOnce
  <2>1. CASE b = a BY <2>1, <1>1, <1>5, <1>7, <1>12, <1>13 DEF Quiet
  <2>2. CASE b # a BY <2>2, <1>1, <1>7 DEF Logins, LoginsOnce
  <2> QED BY <2>1, <2>2
<1>15. LoginsAwaited'
  <2>1. \A b \in Agent : \A c : InLoginOf(b, c)' = InLoginOf(b, c)
     BY <1>8 DEF InLoginOf
  <2>3. ASSUME NEW b \in Agent, NEW e \in Range(Line(b)'), e.op = "login"
        PROVE  InLoginOf(b, e.conn)' /\ Of(e, e.conn)'
    <3>1. e \in Range(Line(b)) BY <2>3, <1>1, <1>13
    <3>2. InLoginOf(b, e.conn) /\ Of(e, e.conn) BY <3>1, <2>3 DEF Logins, LoginsAwaited
    <3> QED BY <3>2, <2>1, <1>8 DEF Of
  <2>4. ASSUME NEW b \in Agent, NEW e \in Range(sent'[b]), e.op = "login"
        PROVE  InLoginOf(b, e.conn)' /\ (bound'[b] # None => Of(bound[b], e.conn)')
    <3>1. CASE b = a
      <4>1. e = Reply("login", m.conn) BY <2>4, <3>1, <1>7, <1>10, <1>12 DEF HasLogin
      <4>2. e.conn = m.conn /\ bound'[b] = [uid |-> m.uid, subid |-> m.subid]
         BY <4>1, <3>1, <1>6, <1>9
      <4>3. InLoginOf(b, e.conn)' BY <4>2, <3>1, <2>1, <1>5
      <4>4. Of(bound[b], e.conn)' BY <4>2, <1>5, <1>8 DEF Of
      <4> QED BY <4>3, <4>4
    <3>2. CASE b # a
      <4>1. /\ InLoginOf(b, e.conn) /\ bound'[b] = bound[b]
            /\ bound[b] # None => Of(bound[b], e.conn)
         BY <3>2, <2>4, <1>6, <1>7 DEF Logins, LoginsAwaited
      <4> QED BY <4>1, <2>1, <1>8 DEF Of
    <3> QED BY <3>1, <3>2
  <2> QED BY <2>3, <2>4 DEF LoginsAwaited
<1>16. NoCrossTalk'
  <2> SUFFICES ASSUME NEW p \in Seat, users'[p] # None, bound'[users'[p].agent] # None
               PROVE  /\ bound'[users'[p].agent].uid = p[2]
                      /\ bound'[users'[p].agent].subid \in users'[p].subid .. internal_id'[p[1]]
     BY DEF NoCrossTalk
  <2>1. users'[p] = users[p] /\ users[p].agent \in Agent
     BY <1>8, SeatType DEF UserRec
  <2>2. users[p].agent # a
     BY <1>4, <1>5, <2>1 DEF Books, AgentsExclusive, OneRole, InUsers
  <2> QED BY <2>1, <2>2, <1>6, <1>8 DEF Logins, NoCrossTalk
<1>17. Forgets
  <2> SUFFICES ASSUME NEW b \in Agent, NEW i \in Ident, Knows(b, i)' PROVE Knows(b, i)
     BY DEF Forgets
  <2>1. ASSUME bound'[b] = i PROVE Knows(b, i)
    <3>1. CASE b = a
      <4>1. m.uid = i.uid /\ m.subid = i.subid BY <2>1, <3>1, <1>6
      <4> QED BY <4>1, <3>1, <1>1, <1>2 DEF Knows
    <3>2. CASE b # a BY <2>1, <3>2, <1>6 DEF Knows
    <3> QED BY <3>1, <3>2
  <2>2. ASSUME NEW e \in Range(Line(b)'), e.op = "login", e.uid = i.uid, e.subid = i.subid
        PROVE  Knows(b, i)
    <3>1. e \in Range(Line(b)) BY <2>2, <1>1, <1>13
    <3> QED BY <3>1, <2>2 DEF Knows
  <2>3. ASSUME NEW e \in Range(sent'[b]), e.op = "leave", e.uid = i.uid, e.subid = i.subid
        PROVE  Knows(b, i)
    <3>1. e \in Range(sent[b]) BY <2>3, <1>7, <1>9, <1>12
    <3> QED BY <3>1, <2>3 DEF Knows
  <2>4. \A c \in Conn : InLoginOf(b, c)' /\ pending'[c].uid = i.uid
                          /\ pending'[c].subid = i.subid => Knows(b, i)
     BY <1>8 DEF Knows, InLoginOf
  <2>5. \A p \in Seat : InUsers(b, p)' /\ p[2] = i.uid /\ users'[p].subid = i.subid
                          => Knows(b, i)
     BY <1>8 DEF Knows, InUsers
  <2> QED BY <2>1, <2>2, <2>3, <2>4, <2>5 DEF Knows
<1>18. GivenOut' BY <1>8 DEF GivenOut, Logins
<1> QED BY <1>14, <1>15, <1>16, <1>17, <1>18 DEF Logins

\* A login is a message for agent a, which had none: the gate waits for it.
LEMMA GivenLogins ==
  ASSUME TypeOK, TypeOK', Logins, NEW a \in Agent, NEW c \in Conn, NEW u \in Uid,
         NEW n \in Nat, NEW k \in Nat,
         \A d \in Conn : ~InLoginOf(a, d),
         pending[c].st # "login", \A p \in Seat : ~InUsers(a, p),
         pending'[c].st = "login", pending'[c].agent = a,
         pending'[c].uid = u, pending'[c].subid = n,
         \A d \in Conn \ {c} : pending'[d] = pending[d],
         n =< k, k = internal_id'[pending'[c].server],
         \A s \in Server : internal_id[s] =< internal_id'[s],
         Post(a, LoginMsg(c, u, k)),
         UNCHANGED <<users, sent, bound, csq>>
  PROVE  Logins' /\ Learns(a, {[uid |-> u, subid |-> n], [uid |-> u, subid |-> k]})
<1> DEFINE e == LoginMsg(c, u, k)
<1>1. /\ e \in Msg /\ e.op = "login" /\ e.conn = c
      /\ e.uid = u /\ e.subid = k
   BY DEF LoginMsg, Msg, CsMsg
<1> HIDE DEF e
<1>2. Line(a) \in Seq(Msg) /\ csq[a] \in Seq(Msg) /\ mbox[a] \in Seq(Msg) BY LineType
<1>3. Line(a)' = Append(Line(a), e) /\ \A b \in Agent \ {a} : Line(b)' = Line(b)
  <2>1. mbox'[a] = Append(mbox[a], e) /\ \A b \in Agent \ {a} : mbox'[b] = mbox[b]
     BY DEF Post, TypeOK, FabricTypeOK, e
  <2>2. Line(a)' = csq[a] \o Append(mbox[a], e) BY <2>1 DEF Line
  <2>3. csq[a] \o Append(mbox[a], e) = Append(csq[a] \o mbox[a], e)
    <3>1. \A s, q \in Seq(Msg) : s \o Append(q, e) = Append(s \o q, e) BY <1>1, LineAppend
    <3> QED BY <1>2, <3>1, Zenon
  <2>4. Line(a) = csq[a] \o mbox[a] BY DEF Line
  <2>5. Line(a)' = Append(Line(a), e) BY <2>2, <2>3, <2>4
  <2>6. \A b \in Agent \ {a} : Line(b)' = Line(b) BY <2>1 DEF Line
  <2> QED BY <2>5, <2>6
<1>4. ~HasLogin(Line(a)) /\ ~HasLogin(sent[a])
  <2>1. \A m \in Range(Line(a)) : m.op = "login" => m.conn \in Conn
     BY <1>2, RangeType, LoginMsgType
  <2>2. \A m \in Range(sent[a]) : m.op = "login" => m.conn \in Conn
     BY LineType, RangeType, LoginReplyType
  <2> QED BY <2>1, <2>2 DEF Logins, LoginsAwaited, HasLogin
<1>5. Once(Append(Line(a), e)) /\ Range(Append(Line(a), e)) = Range(Line(a)) \cup {e}
   BY <1>1, <1>2, <1>4, OnceAppend, RangeAppend
<1>6. LoginsOnce' BY <1>3, <1>4, <1>5 DEF Logins, LoginsOnce
<1>7. \A d \in Conn : pending[d].st # "none" =>
        pending[d].server \in Server /\ pending[d].subid \in Nat
   BY DEF TypeOK, GateTypeOK, NoPending
<1>8. \A b \in Agent, d \in Conn : InLoginOf(b, d) =>
        InLoginOf(b, d)' /\ \A i : Of(i, d) => Of(i, d)'
  <2> SUFFICES ASSUME NEW b \in Agent, NEW d \in Conn, InLoginOf(b, d)
               PROVE  InLoginOf(b, d)' /\ \A i : Of(i, d) => Of(i, d)'
     OBVIOUS
  <2>1. pending'[d] = pending[d] /\ pending[d].st = "login" BY DEF InLoginOf
  <2>2. InLoginOf(b, d)' BY <2>1 DEF InLoginOf
  <2>3. ASSUME NEW i, Of(i, d) PROVE Of(i, d)' BY <1>7, <2>1, <2>3, OfKept
  <2> QED BY <2>2, <2>3
<1>9. LoginsAwaited'
  <2>1. ASSUME NEW b \in Agent, NEW m \in Range(Line(b)'), m.op = "login"
        PROVE  InLoginOf(b, m.conn)' /\ Of(m, m.conn)'
    <3>1. CASE m \in Range(Line(b))
      <4>1. m.conn \in Conn BY <2>1, <3>1, LineType, RangeType, LoginMsgType
      <4>2. InLoginOf(b, m.conn) /\ Of(m, m.conn) BY <2>1, <3>1 DEF Logins, LoginsAwaited
      <4> QED BY <4>1, <4>2, <1>8
    <3>2. CASE b = a /\ m = e BY <3>2, <1>1 DEF InLoginOf, Of
    <3>3. CASE b = a
      <4>1. m \in Range(Line(a)) \cup {e} BY <3>3, <1>3, <1>5
      <4> QED BY <3>1, <3>2, <3>3, <4>1
    <3>4. CASE b # a
      <4>1. m \in Range(Line(b)) BY <3>4, <1>3
      <4> QED BY <3>1, <4>1
    <3> QED BY <3>3, <3>4
  <2>2. ASSUME NEW b \in Agent, NEW m \in Range(sent'[b]), m.op = "login"
        PROVE  InLoginOf(b, m.conn)' /\ (bound'[b] # None => Of(bound[b], m.conn)')
    <3>1. m \in Range(sent[b]) OBVIOUS
    <3>2. m.conn \in Conn BY <2>2, <3>1, LineType, RangeType, LoginReplyType
    <3>3. InLoginOf(b, m.conn) /\ (bound[b] # None => Of(bound[b], m.conn))
       BY <2>2, <3>1 DEF Logins, LoginsAwaited
    <3>4. PICK i : i = bound[b] /\ i = bound'[b] OBVIOUS
    <3>5. InLoginOf(b, m.conn)' /\ (i # None => Of(i, m.conn)')
       BY <3>2, <3>3, <3>4, <1>8
    <3> QED BY <3>4, <3>5 DEF Of
  <2> QED BY <2>1, <2>2 DEF LoginsAwaited
<1>10. GivenOut'
  <2> SUFFICES ASSUME NEW d \in Conn, d # c, pending[d].st # "none"
               PROVE  pending[d].subid =< internal_id'[pending[d].server]
     BY DEF GivenOut
  <2>1. pending[d].subid =< internal_id[pending[d].server] BY DEF Logins, GivenOut
  <2>2. /\ internal_id[pending[d].server] \in Nat
        /\ internal_id'[pending[d].server] \in Nat
     BY <1>7 DEF TypeOK, GateTypeOK
  <2> QED BY <1>7, <2>1, <2>2
<1>11. NoCrossTalk'
  <2> SUFFICES ASSUME NEW p \in Seat, users'[p] # None, bound'[users'[p].agent] # None
               PROVE  /\ bound'[users'[p].agent].uid = p[2]
                      /\ bound'[users'[p].agent].subid \in users'[p].subid .. internal_id'[p[1]]
     BY DEF NoCrossTalk
  <2>1. p[1] \in Server BY DEF Seat
  <2> QED BY <2>1, TalkKept DEF Logins
<1>12. Learns(a, {[uid |-> u, subid |-> n], [uid |-> u, subid |-> k]})
  <2> SUFFICES ASSUME NEW b \in Agent, NEW i \in Ident, Knows(b, i)',
                      ~(b = a /\ i.uid = u /\ i.subid \in {n, k})
               PROVE  Knows(b, i)
     BY DEF Learns, Ident
  <2>1. bound'[b] = i => Knows(b, i) BY DEF Knows
  <2>2. ASSUME NEW m \in Range(Line(b)'), m.op = "login", m.uid = i.uid, m.subid = i.subid
        PROVE  Knows(b, i)
    <3>1. m \in Range(Line(b)) BY <2>2, <1>1, <1>3, <1>5
    <3> QED BY <2>2, <3>1 DEF Knows
  <2>3. \A m \in Range(sent'[b]) :
          m.op = "leave" /\ m.uid = i.uid /\ m.subid = i.subid => Knows(b, i)
     BY DEF Knows
  <2>4. \A d \in Conn : InLoginOf(b, d)' /\ pending'[d].uid = i.uid
                          /\ pending'[d].subid = i.subid => Knows(b, i)
     BY DEF Knows, InLoginOf
  <2>5. \A p \in Seat : InUsers(b, p)' /\ p[2] = i.uid /\ users'[p].subid = i.subid
                          => Knows(b, i)
     BY DEF Knows, InUsers
  <2> QED BY <2>1, <2>2, <2>3, <2>4, <2>5 DEF Knows
<1> QED BY <1>6, <1>9, <1>10, <1>11, <1>12 DEF Logins

\* The counter of a gate goes on by one.
LEMMA NextSubid ==
  ASSUME TypeOK, TypeOK', NEW c \in Conn, NEW st, NEW a, NewLogin(c, st, a)
  PROVE  /\ call[c].server \in Server /\ call[c].uid \in Uid
         /\ internal_id[call[c].server] \in Nat
         /\ NextId(call[c].server) \in Nat
         /\ NextId(call[c].server) = internal_id[call[c].server] + 1
         /\ internal_id'[call[c].server] = NextId(call[c].server)
         /\ \A s \in Server : internal_id[s] =< internal_id'[s]
<1>1. call[c].op = "login" BY DEF NewLogin, Called
<1>2. call[c] \in CallRec BY <1>1, CalledType DEF TypeOK
<1>3. call[c].server \in Server /\ call[c].uid \in Uid BY <1>2 DEF CallRec
<1>4. /\ internal_id \in [Server -> Nat]
      /\ internal_id' = [internal_id EXCEPT ![call[c].server] = @ + 1]
   BY DEF TypeOK, GateTypeOK, NewLogin
<1> QED BY <1>3, <1>4 DEF NextId

\* login_handler gives a subid out: to an agent of the pool,
LEMMA GateLoginLearns ==
  ASSUME TypeOK, TypeOK', Books, OneLogin, Logins, NEW c \in Conn, NEW a \in Agent,
         GateLogin(c, a), OnlyGate
  PROVE  Logins' /\ (Subids /\ OneEach' => Subids')
<1> DEFINE s == call[c].server
           u == call[c].uid
           n == NextId(s)
           I == {[uid |-> u, subid |-> n], [uid |-> u, subid |-> n]}
<1>1. /\ s \in Server /\ u \in Uid /\ n \in Nat /\ internal_id[s] \in Nat
      /\ n = internal_id[s] + 1 /\ internal_id'[s] = n
      /\ \A t \in Server : internal_id[t] =< internal_id'[t]
   BY NextSubid DEF GateLogin
<1>2. /\ pending' = [pending EXCEPT ![c] = [st |-> "login", server |-> s,
                       uid |-> u, subid |-> n, agent |-> a]]
      /\ Home[a] = s /\ InPool(a) /\ Post(a, LoginMsg(c, u, n))
      /\ UNCHANGED <<users, sent, bound, csq>>
   BY DEF GateLogin, NewLogin, Pooled, InPool, OnlyGate, agentVars
<1>3. pending[c].st = "none" BY DEF GateLogin, NewLogin, Called, OneLogin
<1> HIDE DEF s, u, n
<1>4. /\ pending'[c].st = "login" /\ pending'[c].agent = a /\ pending'[c].server = s
      /\ pending'[c].uid = u /\ pending'[c].subid = n
      /\ \A d \in Conn \ {c} : pending'[d] = pending[d]
   BY <1>2 DEF TypeOK, GateTypeOK
<1>5. Logins' /\ Learns(a, I)
  <2>1. /\ \A d \in Conn : ~InLoginOf(a, d)
        /\ \A p \in Seat : ~InUsers(a, p)
     BY <1>2 DEF Books, AgentsExclusive, PoolFree
  <2>2. n =< n /\ n = internal_id'[pending'[c].server] BY <1>1, <1>4
  <2> QED BY <1>1, <1>2, <1>3, <1>4, <2>1, <2>2, GivenLogins
<1>6. I \in SUBSET Ident /\ \A i \in I : i.uid = u /\ i.subid = n
   BY <1>1 DEF Ident
<1> HIDE DEF I
<1>7. ASSUME Subids, OneEach' PROVE Subids'
  <2>1. \A b \in Agent \ {a}, i \in I : Home[b] = Home[a] => ~Knows(b, i)
    <3> SUFFICES ASSUME NEW b \in Agent, NEW i \in I, Home[b] = s, Knows(b, i) PROVE FALSE
       BY <1>2
    <3>1. i.subid =< internal_id[s] BY <1>6, <1>7 DEF Subids, SubidGiven
    <3> QED BY <1>1, <1>6, <3>1
  <2>2. \A d \in Conn : pending'[d].st = "spawn" =>
          /\ pending'[d] = pending[d] /\ pending'[d].uid # u
          /\ pending'[d].server \in Server /\ pending'[d].subid \in Nat
     BY <1>4, <1>7, PendingSpawn DEF OneEach, TypeOK
  <2>3. internal_id' \in [Server -> Nat] BY DEF TypeOK, GateTypeOK
  <2>4. \A i \in I : i.subid =< internal_id'[Home[a]] BY <1>1, <1>2, <1>6
  <2> QED BY <1>1, <1>5, <1>6, <1>7, <2>1, <2>2, <2>3, <2>4, SubidsLearn
<1> QED BY <1>5, <1>7

\* or to nobody yet,
LEMMA GateSpawnLearns ==
  ASSUME TypeOK, TypeOK', OneLogin, Logins, NEW c \in Conn, GateSpawn(c), OnlyGate
  PROVE  Logins' /\ (Subids => Subids')
<1> DEFINE s == call[c].server
           n == NextId(s)
<1>1. /\ s \in Server /\ n \in Nat /\ internal_id[s] \in Nat
      /\ n = internal_id[s] + 1 /\ internal_id'[s] = n
      /\ \A t \in Server : internal_id[t] =< internal_id'[t]
   BY NextSubid DEF GateSpawn
<1>2. /\ pending' = [pending EXCEPT ![c] = [st |-> "spawn", server |-> s,
                       uid |-> call[c].uid, subid |-> n, agent |-> None]]
      /\ UNCHANGED <<users, sent, bound, csq, mbox>>
   BY DEF GateSpawn, NewLogin, OnlyGate, agentVars
<1>3. pending[c].st = "none" BY DEF GateSpawn, NewLogin, Called, OneLogin
<1> HIDE DEF s, n
<1>4. /\ pending'[c].st = "spawn" /\ pending'[c].server = s /\ pending'[c].subid = n
      /\ \A d \in Conn \ {c} : pending'[d] = pending[d]
   BY <1>2 DEF TypeOK, GateTypeOK
<1>5. \A d \in Conn : pending[d].st # "none" =>
        pending[d].server \in Server /\ pending[d].subid \in Nat
   BY DEF TypeOK, GateTypeOK, NoPending
<1>6. \A b \in Agent, d \in Conn : InLoginOf(b, d) =>
        /\ pending'[d] = pending[d]
        /\ internal_id[pending[d].server] =< internal_id'[pending[d].server]
   BY <1>1, <1>3, <1>4, <1>5 DEF InLoginOf
<1>7. GivenOut'
  <2> SUFFICES ASSUME NEW d \in Conn, pending'[d].st # "none"
               PROVE  pending'[d].subid =< internal_id'[pending'[d].server]
     BY DEF GivenOut
  <2>1. CASE d = c BY <2>1, <1>1, <1>4
  <2>2. CASE d # c
    <3>1. pending'[d] = pending[d] /\ pending[d].st # "none" BY <2>2, <1>4
    <3>2. pending[d].subid =< internal_id[pending[d].server] BY <3>1 DEF Logins, GivenOut
    <3>3. /\ internal_id[pending[d].server] \in Nat
          /\ internal_id'[pending[d].server] \in Nat
       BY <1>5, <3>1 DEF TypeOK, GateTypeOK
    <3> QED BY <1>1, <1>5, <3>1, <3>2, <3>3
  <2> QED BY <2>1, <2>2
<1>8. Logins'
  <2>1. LineQuiet /\ SentQuiet BY <1>2, LineSame, SentSame
  <2>2. \A p \in Seat : p[1] \in Server BY DEF Seat
  <2> QED BY <1>1, <1>2, <1>6, <1>7, <2>1, <2>2, LoginsQuiet
<1>9. Forgets
  <2>1. \A b \in Agent, d \in Conn :
          InLoginOf(b, d)' => InLoginOf(b, d) /\ pending'[d] = pending[d]
     BY <1>4 DEF InLoginOf
  <2> QED BY <1>2, <2>1 DEF Forgets, Knows, InUsers, Line
<1>10. ASSUME Subids PROVE Subids'
  <2>1. CASE Agent = {} BY <2>1 DEF Subids, SubidGiven, SubidOwned, SubidKept
  <2>2. ASSUME NEW a \in Agent PROVE Subids'
    <3> DEFINE I == {}
    <3>1. /\ I \in SUBSET Ident /\ \A i \in I : FALSE
          /\ Learns(a, I)
       BY <1>9 DEF Forgets, Learns
    <3> HIDE DEF I
    <3>2. \A d \in Conn : pending'[d].st = "spawn" =>
            /\ pending'[d].server \in Server /\ pending'[d].subid \in Nat
            /\ \/ pending'[d] = pending[d]
               \/ internal_id[pending'[d].server] < pending'[d].subid
       BY <1>1, <1>4, <1>5
    <3>3. internal_id' \in [Server -> Nat] BY DEF TypeOK, GateTypeOK
    <3> QED BY <1>1, <1>10, <3>1, <3>2, <3>3, SubidsLearn
  <2> QED BY <2>1, <2>2
<1> QED BY <1>8, <1>10

\* and then to the agent it has created, which is told another one when the
\* counter has gone on.
LEMMA GateSpawnedLearns ==
  ASSUME TypeOK, TypeOK', Books, Logins, NEW c \in Conn, GateSpawned(c), OnlyGate
  PROVE  Logins' /\ (Subids /\ OneEach => Subids')
<1> DEFINE s == pending[c].server
           u == pending[c].uid
           n == pending[c].subid
           k == internal_id[s]
<1>1. /\ pending[c].st = "spawn" /\ n \in Nat /\ u \in Uid /\ s \in Server
   BY PendingSpawn DEF GateSpawned, TypeOK
<1>2. k \in Nat /\ n =< k
   BY <1>1 DEF TypeOK, GateTypeOK, Logins, GivenOut
<1>3. PICK a \in Agent \ created :
        /\ Home[a] = s
        /\ pending' = [pending EXCEPT ![c].st = "login", ![c].agent = a]
        /\ Post(a, LoginMsg(c, u, k))
   BY DEF GateSpawned
<1>4. /\ pending'[c].st = "login" /\ pending'[c].agent = a /\ pending'[c].subid = n
      /\ pending'[c].uid = u /\ pending'[c].server = s
      /\ \A d \in Conn \ {c} : pending'[d] = pending[d]
  <2>1. pending[c] \in [st : {"spawn"}, server : Server, uid : Uid, subid : Nat,
                        agent : {None}]
     BY <1>1 DEF TypeOK, GateTypeOK, NoPending
  <2> QED BY <1>3, <2>1 DEF TypeOK, GateTypeOK
<1>5. UNCHANGED <<users, sent, bound, csq, internal_id>>
   BY DEF GateSpawned, OnlyGate, agentVars
<1>6. k = internal_id'[s] /\ \A t \in Server : internal_id[t] =< internal_id'[t]
   BY <1>5 DEF TypeOK, GateTypeOK
<1> DEFINE I == {[uid |-> u, subid |-> n], [uid |-> u, subid |-> k]}
<1> HIDE DEF s, u, n, k
<1>7. Logins' /\ Learns(a, I)
  <2>1. /\ \A d \in Conn : ~InLoginOf(a, d)
        /\ \A p \in Seat : ~InUsers(a, p)
     BY DEF Books, Fresh
  <2>2. pending[c].st # "login" /\ k = internal_id'[pending'[c].server] BY <1>1, <1>4, <1>6
  <2> QED BY <1>1, <1>2, <1>3, <1>4, <1>5, <1>6, <2>1, <2>2, GivenLogins
<1>8. I \in SUBSET Ident /\ \A i \in I : i.uid = u /\ n =< i.subid /\ i.subid =< k
   BY <1>1, <1>2 DEF Ident
<1> HIDE DEF I
<1>9. ASSUME Subids, OneEach PROVE Subids'
  <2>1. \A b \in Agent \ {a}, i \in I : Home[b] = Home[a] => ~Knows(b, i)
    <3> SUFFICES ASSUME NEW b \in Agent, NEW i \in I, Home[b] = s, Knows(b, i) PROVE FALSE
       BY <1>3
    <3>1. i \in Ident /\ i.subid \in Nat /\ i.uid = u /\ n =< i.subid BY <1>8 DEF Ident
    <3>2. i.subid < n BY <1>1, <1>9, <3>1 DEF Subids, SubidKept, s, u, n
    <3> QED BY <1>1, <3>1, <3>2
  <2>2. \A d \in Conn : pending'[d].st = "spawn" =>
          /\ pending'[d] = pending[d] /\ pending'[d].uid # u
          /\ pending'[d].server \in Server /\ pending'[d].subid \in Nat
     BY <1>1, <1>4, <1>9, PendingSpawn DEF OneEach, TypeOK, u
  <2>3. internal_id' \in [Server -> Nat] BY DEF TypeOK, GateTypeOK
  <2>4. \A i \in I : i.subid =< internal_id'[Home[a]] BY <1>3, <1>6, <1>8
  <2> QED BY <1>6, <1>7, <1>8, <1>9, <2>1, <2>2, <2>3, <2>4, SubidsLearn
<1> QED BY <1>7, <1>9

\* The agent's answer makes the login the session of that agent, which is
\* bound to it or to nothing.
LEMMA LoginDoneLearns ==
  ASSUME TypeOK, TypeOK', Books, Logins, NEW c \in Conn, GateLoginDone(c), OnlyGate
  PROVE  Logins' /\ (Subids => Subids')
<1> DEFINE a == pending[c].agent
           seat == <<pending[c].server, pending[c].uid>>
<1>1. /\ pending[c].st = "login" /\ a \in Agent /\ pending[c].server \in Server
      /\ pending[c].uid \in Uid /\ pending[c].subid \in Nat
   BY PendingLogin DEF GateLoginDone, TypeOK
<1>2. /\ sent[a] # <<>> /\ Head(sent[a]) = Reply("login", c)
      /\ Receive(a)
   BY DEF GateLoginDone, Sent
<1>3. /\ users' = [users EXCEPT ![seat] =
                     [agent |-> a, subid |-> pending[c].subid, name |-> c]]
      /\ pending' = [pending EXCEPT ![c] = NoPending]
      /\ UNCHANGED <<mbox, csq, bound, internal_id>>
   BY DEF GateLoginDone, OnlyGate, agentVars
<1> HIDE DEF a
<1>4. seat \in Seat BY <1>1 DEF Seat
<1>5. /\ users'[seat].agent = a /\ users'[seat].subid = pending[c].subid
      /\ \A p \in Seat \ {seat} : users'[p] = users[p]
   BY <1>3, <1>4 DEF Seat, TypeOK, GateTypeOK
<1>6. seat[1] = pending[c].server /\ seat[2] = pending[c].uid OBVIOUS
<1> HIDE DEF seat
<1>7. /\ pending'[c] = NoPending /\ \A d \in Conn \ {c} : pending'[d] = pending[d]
   BY <1>3 DEF TypeOK, GateTypeOK
<1>8. sent[a] \in Seq(GateMsg) BY <1>1, LineType
<1>9. sent'[a] = Tail(sent[a]) /\ \A b \in Agent \ {a} : sent'[b] = sent[b]
   BY <1>1, <1>2 DEF Receive, TypeOK, FabricTypeOK
<1>10. Head(sent[a]).op = "login" /\ Head(sent[a]).conn = c /\ Head(sent[a]) \in Range(sent[a])
   BY <1>2, <1>8, RangeTail DEF Reply
<1>11. InLoginOf(a, c) /\ (bound[a] # None => Of(bound[a], c))
   BY <1>1, <1>10 DEF Logins, LoginsAwaited
<1>12. /\ LineQuiet /\ SentQuiet /\ ~HasLogin(sent'[a])
  <2>1. LineQuiet /\ SentQuiet BY <1>1, <1>2, <1>3, LineSame, ReceiveQuiet
  <2>2. Once(sent[a]) BY <1>1 DEF Logins, LoginsOnce
  <2> QED BY <2>1, <2>2, <1>2, <1>8, <1>9, <1>10, OnceTail
<1>13. ~HasLogin(Line(a))
  <2>1. HasLogin(sent[a]) BY <1>10 DEF HasLogin
  <2> QED BY <2>1, <1>1 DEF Logins, LoginsOnce
<1>14. LoginsOnce'
  <2> SUFFICES ASSUME NEW b \in Agent
               PROVE  /\ Once(Line(b)') /\ Once(sent'[b])
                      /\ ~(HasLogin(Line(b)') /\ HasLogin(sent'[b]))
     BY DEF LoginsOnce
  <2>1. Quiet(Line(b)', Line(b)) /\ Quiet(sent'[b], sent[b])
     BY <1>12 DEF LineQuiet, SentQuiet
  <2> QED BY <2>1 DEF Logins, LoginsOnce, Quiet, HasLogin
<1>15. \A b \in Agent, d \in Conn : b # a /\ InLoginOf(b, d) =>
         InLoginOf(b, d)' /\ \A i : Of(i, d) => Of(i, d)'
   BY <1>3, <1>7, <1>11 DEF InLoginOf, Of
<1>16. LoginsAwaited'
  <2>1. ASSUME NEW b \in Agent, NEW m \in Range(Line(b)'), m.op = "login"
        PROVE  InLoginOf(b, m.conn)' /\ Of(m, m.conn)'
    <3>1. m \in Range(Line(b)) BY <1>3, <2>1 DEF Line
    <3>2. b # a BY <1>13, <2>1, <3>1 DEF HasLogin
    <3>3. m.conn \in Conn BY <2>1, <3>1, LineType, RangeType, LoginMsgType
    <3>4. InLoginOf(b, m.conn) /\ Of(m, m.conn) BY <2>1, <3>1 DEF Logins, LoginsAwaited
    <3> QED BY <3>2, <3>3, <3>4, <1>15
  <2>2. ASSUME NEW b \in Agent, NEW m \in Range(sent'[b]), m.op = "login"
        PROVE  InLoginOf(b, m.conn)' /\ (bound'[b] # None => Of(bound[b], m.conn)')
    <3>1. b # a BY <1>12, <2>2 DEF HasLogin
    <3>2. m \in Range(sent[b]) BY <3>1, <2>2, <1>9
    <3>3. m.conn \in Conn BY <2>2, <3>2, LineType, RangeType, LoginReplyType
    <3>4. InLoginOf(b, m.conn) /\ (bound[b] # None => Of(bound[b], m.conn))
       BY <2>2, <3>2 DEF Logins, LoginsAwaited
    <3>5. PICK i : i = bound[b] /\ i = bound'[b] BY <1>3
    <3>6. InLoginOf(b, m.conn)' /\ (i # None => Of(i, m.conn)')
       BY <3>1, <3>3, <3>4, <3>5, <1>15
    <3> QED BY <3>5, <3>6 DEF Of
  <2> QED BY <2>1, <2>2 DEF LoginsAwaited
<1>17. NoCrossTalk'
  <2> SUFFICES ASSUME NEW p \in Seat, users'[p] # None, bound[users'[p].agent] # None
               PROVE  /\ bound[users'[p].agent].uid = p[2]
                      /\ bound[users'[p].agent].subid \in users'[p].subid .. internal_id[p[1]]
     BY <1>3 DEF NoCrossTalk
  <2>1. CASE p = seat BY <2>1, <1>5, <1>6, <1>11 DEF Of
  <2>2. CASE p # seat BY <2>2, <1>3, <1>5 DEF Logins, NoCrossTalk
  <2> QED BY <2>1, <2>2
<1>18. GivenOut' BY <1>3, <1>7 DEF GivenOut, Logins, NoPending
<1>19. Forgets
  <2> SUFFICES ASSUME NEW b \in Agent, NEW i \in Ident, Knows(b, i)' PROVE Knows(b, i)
     BY DEF Forgets
  <2>1. bound'[b] = i => Knows(b, i) BY <1>3 DEF Knows
  <2>2. \A m \in Range(Line(b)') :
          m.op = "login" /\ m.uid = i.uid /\ m.subid = i.subid => Knows(b, i)
     BY <1>3 DEF Knows, Line
  <2>3. ASSUME NEW m \in Range(sent'[b]), m.op = "leave", m.uid = i.uid, m.subid = i.subid
        PROVE  Knows(b, i)
    <3>1. Range(Tail(sent[a])) \subseteq Range(sent[a]) BY <1>2, <1>8, RangeTail
    <3>2. m \in Range(sent[b]) BY <2>3, <3>1, <1>9
    <3> QED BY <2>3, <3>2 DEF Knows
  <2>4. ASSUME NEW d \in Conn, InLoginOf(b, d)', pending'[d].uid = i.uid,
               pending'[d].subid = i.subid
        PROVE  Knows(b, i)
    <3>1. pending'[d] = pending[d] BY <2>4, <1>7 DEF InLoginOf, NoPending
    <3> QED BY <2>4, <3>1 DEF Knows, InLoginOf
  <2>5. ASSUME NEW p \in Seat, InUsers(b, p)', p[2] = i.uid, users'[p].subid = i.subid
        PROVE  Knows(b, i)
    <3>1. CASE p = seat
      <4>1. b = a /\ i.uid = pending[c].uid /\ i.subid = pending[c].subid
         BY <2>5, <3>1, <1>5, <1>6 DEF InUsers
      <4> QED BY <4>1, <1>11 DEF Knows
    <3>2. CASE p # seat BY <2>5, <3>2, <1>5 DEF InUsers, Knows
    <3> QED BY <3>1, <3>2
  <2> QED BY <2>1, <2>2, <2>3, <2>4, <2>5 DEF Knows
<1>20. Subids => Subids'
  <2>1. \A d \in Conn : pending'[d].st = "spawn" => pending'[d] = pending[d]
     BY <1>7 DEF NoPending
  <2>2. \A s \in Server : internal_id[s] =< internal_id'[s]
     BY <1>3 DEF TypeOK, GateTypeOK
  <2> QED BY <1>19, <2>1, <2>2, SubidsForget
<1> QED BY <1>14, <1>16, <1>17, <1>18, <1>20 DEF Logins

\* A game server that dies forgets its logins, and so do all its agents.
LEMMA CrashLearns ==
  ASSUME TypeOK, TypeOK', Books, Logins, NEW s \in Server, NEW C, GateCrash(s, C),
         AgentCrash({a \in Agent : Home[a] = s})
  PROVE  Logins'
<1> DEFINE dead == {a \in Agent : Home[a] = s}
<1>1. /\ users' = [p \in Server \X Uid |-> IF p[1] = s THEN None ELSE users[p]]
      /\ pending' = [c \in Conn |-> IF pending[c].server = s THEN NoPending ELSE pending[c]]
      /\ internal_id' = [internal_id EXCEPT ![s] = 0]
      /\ mbox' = [a \in Agent |-> IF a \in dead THEN <<>> ELSE mbox[a]]
      /\ sent' = [a \in Agent |-> IF a \in dead THEN <<>> ELSE sent[a]]
      /\ bound' = [a \in Agent |-> IF a \in dead THEN None ELSE bound[a]]
      /\ csq' = [a \in Agent |-> IF a \in dead THEN <<>> ELSE csq[a]]
   BY DEF GateCrash, AgentCrash
<1>2. /\ \A p \in Seat : users'[p] = IF p[1] = s THEN None ELSE users[p]
      /\ \A c \in Conn : pending'[c] = IF pending[c].server = s THEN NoPending ELSE pending[c]
      /\ internal_id'[s] = 0 /\ \A t \in Server \ {s} : internal_id'[t] = internal_id[t]
   BY <1>1 DEF Seat, TypeOK, GateTypeOK
<1>3. \A a \in Agent : IF Home[a] = s
        THEN bound'[a] = None /\ sent'[a] = <<>> /\ csq'[a] = <<>> /\ mbox'[a] = <<>>
        ELSE bound'[a] = bound[a] /\ sent'[a] = sent[a] /\ csq'[a] = csq[a] /\ mbox'[a] = mbox[a]
   BY <1>1
<1> HIDE DEF dead
<1>4. \A a \in Agent : IF Home[a] = s THEN Line(a)' = <<>> ELSE Line(a)' = Line(a)
  <2>1. <<>> \o <<>> = <<>> OBVIOUS
  <2> QED BY <2>1, <1>3 DEF Line
<1>5. Range(<<>>) = {} /\ Once(<<>>) BY DEF Range, Once
<1>6. LineQuiet /\ SentQuiet
  <2>1. \A q : Quiet(<<>>, q) BY <1>5 DEF Quiet
  <2>2. LineQuiet
    <3> SUFFICES ASSUME NEW a \in Agent PROVE Quiet(Line(a)', Line(a)) BY DEF LineQuiet
    <3>1. CASE Home[a] = s BY <2>1, <3>1, <1>4
    <3>2. CASE Home[a] # s BY <3>2, <1>4 DEF Quiet
    <3> QED BY <3>1, <3>2
  <2>3. SentQuiet
    <3> SUFFICES ASSUME NEW a \in Agent
                 PROVE  /\ Quiet(sent'[a], sent[a])
                        /\ \A m \in Range(sent'[a]) : m.op = "leave" =>
                             \/ m \in Range(sent[a])
                             \/ bound[a] # None /\ m.uid = bound[a].uid /\ m.subid = bound[a].subid
       BY DEF SentQuiet
    <3>1. CASE Home[a] = s BY <2>1, <3>1, <1>3, <1>5
    <3>2. CASE Home[a] # s BY <3>2, <1>3 DEF Quiet
    <3> QED BY <3>1, <3>2
  <2> QED BY <2>2, <2>3
<1>7. \A a \in Agent, c \in Conn : InLoginOf(a, c) =>
        (pending[c].server = s <=> Home[a] = s)
   BY DEF InLoginOf, Books, AtHome
<1>8. \A t \in Server \ {s} : internal_id[t] =< internal_id'[t]
   BY <1>2 DEF TypeOK, GateTypeOK
<1>9. \A a \in Agent : bound'[a] \in {None, bound[a]} BY <1>3
<1>10. \A p \in Seat : \/ users'[p] = None
                       \/ users'[p] = users[p] /\ internal_id[p[1]] =< internal_id'[p[1]]
   BY <1>2, <1>8 DEF Seat
<1>11. \A c \in Conn : pending[c].st # "none" => pending[c].server \in Server
   BY DEF TypeOK, GateTypeOK, NoPending
<1>12. \A a \in Agent, c \in Conn : InLoginOf(a, c) =>
         \/ /\ pending'[c] = pending[c]
            /\ internal_id[pending[c].server] =< internal_id'[pending[c].server]
         \/ Line(a)' = <<>> /\ sent'[a] = <<>>
   BY <1>2, <1>3, <1>4, <1>7, <1>8, <1>11 DEF InLoginOf
<1>13. GivenOut' BY <1>2, <1>11 DEF GivenOut, Logins, NoPending
<1> QED BY <1>6, <1>9, <1>10, <1>12, <1>13, LoginsQuiet

-----------------------------------------------------------------------------
\* Every step.

\* At the start nobody knows anything.
LEMMA LearnsInit == Init => OneLogin /\ Logins /\ Subids
<1> SUFFICES ASSUME Init PROVE OneLogin /\ Logins /\ Subids OBVIOUS
<1> USE DEF Init
<1>1. OneLogin
   BY DEF FabricInit, LoginInit, GateInit, OneLogin, NoLogin, NoCall, NoPending
<1>2. Range(<<>>) = {} /\ Once(<<>>) /\ <<>> \o <<>> = <<>> BY DEF Range, Once
<1>3. /\ \A a \in Agent : Line(a) = <<>> /\ sent[a] = <<>> /\ bound[a] = None
      /\ \A p \in Seat : users[p] = None
      /\ \A c \in Conn : pending[c].st = "none"
   BY <1>2 DEF FabricInit, AgentInit, GateInit, Line, Seat, NoPending
<1>4. Logins
   BY <1>2, <1>3 DEF Logins, LoginsOnce, LoginsAwaited, GivenOut, NoCrossTalk, HasLogin
<1>5. \A a \in Agent, i \in Ident : ~Knows(a, i)
   BY <1>2, <1>3, NoneAssumption DEF Knows, InLoginOf, InUsers, Ident
<1>6. Subids BY <1>3, <1>5 DEF Subids, SubidGiven, SubidOwned, SubidKept
<1> QED BY <1>1, <1>4, <1>6

\* Every step keeps what the agents know in order.
LEMMA LearnsStep ==
  ASSUME TypeOK, TypeOK', FdMapped, Books, OneLogin, Logins, [Next]_vars
  PROVE  Logins' /\ (Subids /\ OneEach /\ OneEach' /\ ~Crash => Subids')
<1> DEFINE Kept == Logins' /\ (Subids /\ OneEach /\ OneEach' => Subids')
<1>1. ASSUME LineQuiet, SentQuiet, Steady PROVE Kept BY <1>1, QuietStep
<1>2. ASSUME UNCHANGED <<mbox, csq, sent, bound, users, pending, internal_id>> PROVE Kept
   BY <1>1, <1>2, LineSame, SentSame, SteadySame
<1>3. CASE Services
  <2>1. ASSUME NEW c \in Conn, LoginHandler(c) PROVE Kept
     BY <2>1, <1>2 DEF LoginHandler, KickReturn, LoginReturn, fabricVars, OnlyLogin,
       gateVars, agentVars
  <2>2. ASSUME NEW c \in Conn, GateHandler(c) PROVE Kept
     BY <2>2, <1>1, GateQuiet, GateLoginLearns, GateSpawnLearns, GateSpawnedLearns,
        LoginDoneLearns DEF GateHandler
  <2>3. ASSUME NEW c \in Conn, GateShake(c) PROVE Kept
     BY <2>3, <1>1, ShakeQuiet
  <2>4. ASSUME NEW s \in Server, LogoutCommand(s) PROVE Kept
     BY <2>4, <1>2 DEF LogoutCommand, Logout, OnlyLogin, gateVars, agentVars
  <2>5. ASSUME NEW a \in Agent, AgentTurn(a) PROVE Kept
    <3>1. CASE Login(a)
      <4>1. Logins' /\ Forgets BY <2>5, <3>1, LoginLearns DEF AgentTurn
      <4>2. UNCHANGED <<pending, internal_id>>
         BY <2>5 DEF AgentTurn, OnlyAgent, gateVars
      <4>3. Subids => Subids' BY <4>1, <4>2, SubidsForget DEF TypeOK, GateTypeOK
      <4> QED BY <4>1, <4>3
    <3>2. CASE ~Login(a) BY <2>5, <3>2, <1>1, AgentQuiet
    <3> QED BY <3>1, <3>2
  <2>6. ASSUME NEW a \in Agent, AgentResume(a) PROVE Kept
     BY <2>6, <1>1, AgentQuiet
  <2>7. ASSUME NEW a \in Agent, NEW k \in Co, AgentCo(a, k) PROVE Kept
     BY <2>7, <1>1, AgentQuiet
  <2>8. ASSUME NEW a \in Agent, NEW k \in Co, GateLeave(a, k) PROVE Kept
     BY <2>8, <1>1, LeaveQuiet
  <2> QED BY <1>3, <2>1, <2>2, <2>3, <2>4, <2>5, <2>6, <2>7, <2>8 DEF Services
<1>4. ASSUME NEW c \in Conn, Player(c) PROVE Kept
   BY <1>4, <1>1, ClientQuiet
<1>5. CASE NetworkFault
   BY <1>5, <1>2 DEF NetworkFault, CallFails, LoseNotify, gateVars, agentVars
<1>6. CASE Crash
  <2>1. CASE LoginCrash /\ UNCHANGED <<gateVars, agentVars>>
     BY <2>1, <1>2 DEF LoginCrash, gateVars, agentVars
  <2>2. ASSUME NEW s \in Server, NEW C, GateCrash(s, C),
               AgentCrash({a \in Agent : Home[a] = s})
        PROVE  Logins'
     BY <2>2, CrashLearns
  <2> QED BY <1>6, <2>1, <2>2 DEF Crash
<1>7. CASE UNCHANGED vars
   BY <1>7, <1>2 DEF vars, fabricVars, gateVars, agentVars
<1> QED BY <1>3, <1>4, <1>5, <1>6, <1>7 DEF Next

-----------------------------------------------------------------------------
\* The theorems.

\* The invariant of the session: the books of the gates, and what the agents
\* know.
Knowledge == TypeOK /\ FdMapped /\ Books /\ OneLogin /\ Logins

LEMMA KnowledgeInit == Init => Knowledge
BY TypeInit, BooksInit, LearnsInit DEF Knowledge

LEMMA KnowledgeStep == Knowledge /\ [Next]_vars => Knowledge'
<1> SUFFICES ASSUME Knowledge, [Next]_vars PROVE Knowledge' OBVIOUS
<1>1. TypeOK' /\ FdMapped' BY TypeStep, MappedStep DEF Knowledge
<1>2. Books' /\ OneLogin' BY BooksStep, OneLoginStep DEF Knowledge
<1>3. Logins' BY <1>1, LearnsStep DEF Knowledge
<1> QED BY <1>1, <1>2, <1>3 DEF Knowledge

\* The agent of a session acts for that session's player or for nobody, and
\* what subid it was told is the session's or one given out since, whatever
\* fails and for every number of servers, players and logins.
THEOREM AgentsDoNotMixPlayers == Spec => []NoCrossTalk
<1>1. Knowledge => NoCrossTalk BY DEF Knowledge, Logins
<1> QED BY <1>1, KnowledgeInit, KnowledgeStep, PTL DEF Spec

\* A logout that finds a session finds the agent's own: no other agent knows
\* its player by the subid it names.
LEMMA LeaveFindsItself ==
  ASSUME Knowledge, Subids, NEW a \in Agent, NEW k \in Co, GateLogout(a, k),
         Has(Home[a], Head(sent[a]).uid, Head(sent[a]).subid)
  PROVE  /\ <<Home[a], Head(sent[a]).uid>> \in Seat
         /\ InUsers(a, <<Home[a], Head(sent[a]).uid>>)
<1> DEFINE l == Head(sent[a])
<1>1. sent[a] # <<>> /\ l.op = "leave" BY DEF GateLogout
<1>2. sent[a] \in Seq(GateMsg) /\ l \in GateMsg
   BY <1>1, LineType, SeqHeadTail DEF Knowledge
<1>3. l.uid \in Uid /\ l.subid \in Nat BY <1>1, <1>2 DEF GateMsg
<1>4. l \in Range(sent[a]) BY <1>1, <1>2, RangeTail
<1> DEFINE p == <<Home[a], l.uid>>
<1> HIDE DEF l
<1>5. p \in Seat BY <1>3, HomeAssumption DEF Seat
<1>6. users[p] # None /\ users[p].subid = l.subid BY DEF Has, l
<1>7. p[1] = Home[a] OBVIOUS
<1> HIDE DEF p
<1>8. users[p].agent \in Agent /\ Home[users[p].agent] = Home[a]
   BY <1>5, <1>6, <1>7, SeatType DEF Knowledge, Books, AtHome, UserRec
<1> DEFINE i == [uid |-> l.uid, subid |-> l.subid]
<1>9. i \in Ident /\ Knows(a, i) BY <1>1, <1>3, <1>4 DEF Knows, Ident
<1>10. Knows(users[p].agent, i)
  <2>1. p[2] = l.uid BY DEF p
  <2> QED BY <1>5, <1>6, <2>1 DEF Knows, InUsers
<1> HIDE DEF i
<1>11. users[p].agent = a BY <1>8, <1>9, <1>10 DEF Subids, SubidOwned
<1>12. InUsers(a, p) BY <1>6, <1>11 DEF InUsers
<1> QED BY <1>5, <1>12 DEF p, l

\* Every step of a logout keeps the agent that called it, or none.
LEMMA ReturnsStep ==
  ASSUME Knowledge, Subids, ReturnsItself, [Next]_vars PROVE ReturnsItself'
<1>1. CASE UNCHANGED leave BY <1>1 DEF ReturnsItself
<1>2. ASSUME NEW a \in Agent, NEW k \in Co, GateLeave(a, k) PROVE ReturnsItself'
  <2>1. leave \in [Agent \X Co -> Agent \cup {None}]
     BY DEF Knowledge, TypeOK, GateTypeOK
  <2>2. CASE GateLogoutDone(a, k)
     BY <2>1, <2>2 DEF GateLogoutDone, ReturnsItself, Leaver
  <2>3. CASE GateLogout(a, k)
    <3> DEFINE l == Head(sent[a])
    <3>1. CASE Has(Home[a], l.uid, l.subid)
      <4>1. users[Home[a], l.uid].agent = a
         BY <2>3, <3>1, LeaveFindsItself DEF InUsers
      <4>2. leave' = [leave EXCEPT ![<<a, k>>] = users[Home[a], l.uid].agent]
         BY <2>3, <3>1 DEF GateLogout
      <4>3. leave' = [leave EXCEPT ![<<a, k>>] = a] BY <4>1, <4>2
      <4> QED BY <2>1, <4>3 DEF ReturnsItself, Leaver
    <3>2. CASE ~Has(Home[a], l.uid, l.subid)
       BY <2>3, <3>2, <1>1 DEF GateLogout
    <3> QED BY <3>1, <3>2
  <2> QED BY <1>2, <2>2, <2>3 DEF GateLeave
<1>3. ASSUME NEW s \in Server, NEW C, GateCrash(s, C) PROVE ReturnsItself'
   BY <1>3 DEF GateCrash, ReturnsItself, Leaver
<1>4. CASE Services
  <2>1. ASSUME NEW c \in Conn, LoginHandler(c) \/ GateHandler(c) \/ GateShake(c)
        PROVE  UNCHANGED leave
     BY <2>1 DEF LoginHandler, GateHandler, GateShake, OnlyLogin, gateVars, GateLogin,
       GateSpawn, GateLoginError, GateSpawned, GateLoginDone, GateKick, GateKickDone,
       GateAuthed, GateOnlined
  <2>2. ASSUME NEW s \in Server, LogoutCommand(s) PROVE UNCHANGED leave
     BY <2>2 DEF LogoutCommand, OnlyLogin, gateVars
  <2>3. ASSUME NEW a \in Agent, AgentTurn(a) \/ AgentResume(a) \/ \E k \in Co : AgentCo(a, k)
        PROVE  UNCHANGED leave
     BY <2>3 DEF AgentTurn, AgentResume, AgentCo, OnlyAgent, gateVars
  <2> QED BY <1>1, <1>2, <1>4, <2>1, <2>2, <2>3 DEF Services
<1>5. ASSUME NEW c \in Conn, Player(c) PROVE UNCHANGED leave
   BY <1>5 DEF Player, Handshake, Disconnect, ClientLogout, OnlyLogin, gateVars
<1>6. CASE NetworkFault BY <1>1, <1>6 DEF NetworkFault, gateVars
<1>7. CASE Crash BY <1>1, <1>3, <1>7 DEF Crash, gateVars
<1>8. CASE UNCHANGED vars BY <1>1, <1>8 DEF vars, gateVars
<1> QED BY <1>1, <1>4, <1>5, <1>6, <1>7, <1>8 DEF Next

-----------------------------------------------------------------------------
\* No agent is lost, as long as nothing fails.  A call that fails while its
\* gate still serves it lets the player log in again, and the second login
\* replaces the session of the first, whose agent nobody has then.

NoFault == lost = 0 /\ crash = 0

\* A gate serves a login only while the login server waits for it, and its
\* player is not on that gate before the login ends.
Waits(c) ==
  call[c].op = "login" /\ call[c].st \in {"sent", "serving"} =>
    conn[c].st = "login" /\ conn[c].uid = call[c].uid
Serves(c) ==
  pending[c].st # "none" =>
    /\ call[c].st = "serving"
    /\ pending[c].uid = call[c].uid /\ pending[c].server = call[c].server
    /\ users[pending[c].server, pending[c].uid] = None
Serving == \A c \in Conn : Waits(c) /\ Serves(c)

\* Where an agent is found again.
Held(a) ==
  \/ InPool(a)
  \/ \E p \in Seat : InUsers(a, p)
  \/ \E c \in Conn : InLoginOf(a, c)
  \/ \E p \in Leaver : InLogoutOf(a, p)

\* Faults are counted.
LEMMA FaultsCount ==
  ASSUME TypeOK, [Next]_vars, NoFault'
  PROVE  NoFault /\ ~NetworkFault /\ ~Crash
<1>1. lost \in Nat /\ crash \in Nat BY DEF TypeOK
<1>2. ~NetworkFault /\ ~Crash BY <1>1 DEF NetworkFault, Crash, NoFault
<1>3. UNCHANGED <<lost, crash>>
   BY <1>2 DEF Next, Services, LoginHandler, GateHandler, GateShake, LogoutCommand,
     AgentTurn, AgentResume, AgentCo, GateLeave, Player, OnlyLogin, OnlyGate, OnlyAgent, vars
<1> QED BY <1>2, <1>3 DEF NoFault

\* Two logins that gates serve are of two players.
LEMMA ServedApart ==
  ASSUME OneLogin, Serving, LoginExclusive, NEW c \in Conn, NEW d \in Conn,
         pending[c].st # "none", pending[d].st # "none",
         pending[c].uid = pending[d].uid
  PROVE  c = d
<1>1. /\ call[c].op = "login" /\ call[c].st = "serving" /\ pending[c].uid = call[c].uid
      /\ call[d].op = "login" /\ call[d].st = "serving" /\ pending[d].uid = call[d].uid
   BY DEF OneLogin, Serving, Serves
<1>2. /\ conn[c].st = "login" /\ conn[c].uid = call[c].uid
      /\ conn[d].st = "login" /\ conn[d].uid = call[d].uid
   BY <1>1 DEF Serving, Waits
<1>3. InLogin(c) /\ InLogin(d) /\ conn[c].uid = conn[d].uid BY <1>1, <1>2 DEF InLogin
<1> QED BY <1>3, Zenon DEF LoginExclusive

\* A step that concerns one connection and adds no session.
LEMMA ServingAt ==
  ASSUME Serving, NEW c \in Conn,
         \A d \in Conn \ {c} : /\ conn'[d] = conn[d] /\ call'[d] = call[d]
                               /\ pending'[d] = pending[d],
         UNCHANGED users,
         Waits(c)', Serves(c)'
  PROVE  Serving'
<1> SUFFICES ASSUME NEW d \in Conn, d # c PROVE Waits(d)' /\ Serves(d)'
   BY DEF Serving
<1>1. Waits(d) /\ Serves(d) BY DEF Serving
<1>2. conn'[d] = conn[d] /\ call'[d] = call[d] /\ pending'[d] = pending[d] OBVIOUS
<1>3. Waits(d)' BY <1>1, <1>2 DEF Waits
<1>4. Serves(d)' BY <1>1, <1>2 DEF Serves
<1> QED BY <1>3, <1>4

LEMMA ServingSame ==
  Serving /\ UNCHANGED <<conn, call, pending, users>> => Serving'
BY DEF Serving, Waits, Serves

\* login_handler and accept() keep it,
LEMMA ServingMaster ==
  ASSUME TypeOK, OneLogin, Serving, NEW c \in Conn,
         \/ LoginHandler(c)
         \/ \E u \in Uid, s \in Server : Accept(c, u, s) /\ OnlyLogin
  PROVE  Serving'
<1> DOMAIN call = Conn /\ DOMAIN conn = Conn BY OneLoginTables
<1> UNCHANGED <<pending, users>> BY DEF LoginHandler, OnlyLogin, gateVars
<1>1. CASE KickReturn(c)
  <2>1. \A d \in Conn \ {c} : conn'[d] = conn[d] /\ call'[d] = call[d]
     BY <1>1 DEF KickReturn, Call
  <2>2. pending[c].st = "none" /\ call[c].op # "login"
     BY <1>1 DEF KickReturn, OneLogin
  <2>3. \/ call'[c] = call[c]
        \/ conn'[c].st = "login" /\ conn'[c].uid = call'[c].uid
     BY <1>1, ConnType DEF KickReturn, Call, TypeOK
  <2>4. Waits(c)' BY <2>2, <2>3 DEF Waits
  <2>5. Serves(c)' BY <2>2 DEF Serves
  <2> QED BY <2>1, <2>4, <2>5, ServingAt
<1>2. CASE LoginReturn(c)
  <2>1. UNCHANGED call /\ call[c].st \notin {"sent", "serving"}
     BY <1>2 DEF LoginReturn, fabricVars
  <2>2. \A d \in Conn \ {c} : conn'[d] = conn[d] BY <1>2 DEF LoginReturn
  <2>3. Waits(c)' BY <2>1 DEF Waits
  <2>4. Serves(c)' BY <2>1 DEF Serves, Serving
  <2> QED BY <2>1, <2>2, <2>3, <2>4, ServingAt
<1>3. ASSUME NEW u \in Uid, NEW s \in Server, Accept(c, u, s) PROVE Serving'
  <2>1. \A d \in Conn \ {c} : conn'[d] = conn[d] /\ call'[d] = call[d]
     BY <1>3 DEF Accept, Becomes, Call
  <2>2. pending[c].st = "none" /\ call[c].op # "login"
     BY <1>3 DEF Accept, OneLogin
  <2>3. \/ call'[c].op # "login"
        \/ conn'[c].st = "login" /\ conn'[c].uid = call'[c].uid
     BY <1>3, <2>2 DEF Accept, Becomes, Call
  <2>4. Waits(c)' BY <2>3 DEF Waits
  <2>5. Serves(c)' BY <2>2 DEF Serves
  <2> QED BY <2>1, <2>4, <2>5, ServingAt
<1> QED BY <1>1, <1>2, <1>3 DEF LoginHandler

\* the handlers of a gate too.
LEMMA ServingGate ==
  ASSUME TypeOK, OneLogin, Serving, LoginExclusive, NEW c \in Conn, GateHandler(c)
  PROVE  Serving'
<1> DOMAIN call = Conn /\ DOMAIN pending = Conn BY OneLoginTables
<1> UNCHANGED conn BY DEF GateHandler, OnlyGate, loginVars
<1>1. ASSUME NEW st, NEW a, NewLogin(c, st, a), UNCHANGED users PROVE Serving'
  <2>1. /\ call' = [call EXCEPT ![c].st = "serving"] /\ call[c].op = "login"
        /\ call[c].st = "sent" /\ users[call[c].server, call[c].uid] = None
     BY <1>1 DEF NewLogin, Called, Serve
  <2>2. /\ \A d \in Conn \ {c} : pending'[d] = pending[d]
        /\ pending'[c].uid = call[c].uid /\ pending'[c].server = call[c].server
     BY <1>1 DEF NewLogin
  <2>3. /\ \A d \in Conn \ {c} : call'[d] = call[d]
        /\ call'[c].op = "login" /\ call'[c].st = "serving"
        /\ call'[c].uid = call[c].uid /\ call'[c].server = call[c].server
     BY <2>1, CalledType DEF TypeOK, CallRec
  <2>4. Waits(c)' BY <2>1, <2>3 DEF Waits, Serving
  <2>5. Serves(c)' BY <1>1, <2>1, <2>2, <2>3 DEF Serves
  <2> QED BY <1>1, <2>2, <2>3, <2>4, <2>5, ServingAt
<1>2. CASE GateLoginError(c) \/ GateKick(c)
  <2>1. /\ call' = [call EXCEPT ![c].st = "fail"] \/ call' = [call EXCEPT ![c].st = "serving"]
        /\ UNCHANGED <<pending, users>>
        /\ call[c].st = "sent" /\ call[c].op \in {"kick", "login"}
        /\ call[c].op = "login" => call' = [call EXCEPT ![c].st = "fail"]
     BY <1>2 DEF GateLoginError, GateKick, Serve, Refuse, gateVars, Called
  <2>2. call[c] \in CallRec BY <2>1, CalledType DEF TypeOK
  <2>3. /\ \A d \in Conn \ {c} : call'[d] = call[d]
        /\ call'[c].op = "login" => call'[c].st = "fail"
     BY <2>1, <2>2 DEF CallRec
  <2>4. pending[c].st = "none" BY <2>1 DEF OneLogin
  <2>5. Waits(c)' BY <2>3 DEF Waits
  <2>6. Serves(c)' BY <2>1, <2>4 DEF Serves
  <2> QED BY <2>1, <2>3, <2>5, <2>6, ServingAt
<1>3. CASE GateSpawned(c)
  <2>1. /\ UNCHANGED <<call, users>> /\ pending[c].st = "spawn"
        /\ \A d \in Conn \ {c} : pending'[d] = pending[d]
     BY <1>3 DEF GateSpawned
  <2>2. pending'[c].uid = pending[c].uid /\ pending'[c].server = pending[c].server
    <3>1. pending[c] \in [st : {"spawn"}, server : Server, uid : Uid, subid : Nat,
                          agent : {None}]
       BY <2>1 DEF TypeOK, GateTypeOK, NoPending
    <3>2. PICK a : pending' = [pending EXCEPT ![c].st = "login", ![c].agent = a]
       BY <1>3 DEF GateSpawned
    <3> QED BY <3>1, <3>2
  <2>3. Waits(c)' BY <2>1 DEF Waits, Serving
  <2>4. Serves(c)' BY <2>1, <2>2 DEF Serves, Serving
  <2> QED BY <2>1, <2>3, <2>4, ServingAt
<1>4. CASE GateLoginDone(c)
  <2> DEFINE seat == <<pending[c].server, pending[c].uid>>
  <2>1. /\ pending[c].st = "login" /\ pending' = [pending EXCEPT ![c] = NoPending]
        /\ Answer(c, "login", internal_id[pending[c].server])
        /\ users' = [users EXCEPT ![seat] = [agent |-> pending[c].agent,
                                       subid |-> pending[c].subid, name |-> c]]
     BY <1>4 DEF GateLoginDone
  <2>2. call[c].op = "login" /\ call[c].st = "serving" /\ call[c] \in CallRec
     BY <2>1, CallStType DEF OneLogin, Serving, Serves, TypeOK
  <2>3. call'[c].st = "ok" /\ \A d \in Conn \ {c} : call'[d] = call[d]
     BY <2>1, <2>2 DEF Answer, CallRec
  <2>4. pending'[c].st = "none" /\ \A d \in Conn \ {c} : pending'[d] = pending[d]
     BY <2>1 DEF NoPending
  <2>5. ASSUME NEW d \in Conn \ {c}, pending[d].st # "none"
        PROVE  users'[pending[d].server, pending[d].uid] = None
    <3>1. pending[d].uid # pending[c].uid BY <2>1, <2>5, ServedApart
    <3>2. users[pending[d].server, pending[d].uid] = None
       BY <2>5 DEF Serving, Serves
    <3>3. <<pending[d].server, pending[d].uid>> # seat BY <3>1
    <3>4. pending[d].server \in Server /\ pending[d].uid \in Uid
       BY <2>5 DEF TypeOK, GateTypeOK, NoPending
    <3> QED BY <2>1, <3>2, <3>3, <3>4 DEF TypeOK, GateTypeOK
  <2>6. \A d \in Conn : Waits(d)' BY <2>3 DEF Serving, Waits
  <2>7. \A d \in Conn : Serves(d)'
    <3> SUFFICES ASSUME NEW d \in Conn PROVE Serves(d)' OBVIOUS
    <3>1. CASE d = c BY <3>1, <2>4 DEF Serves
    <3>2. CASE d # c BY <3>2, <2>3, <2>4, <2>5 DEF Serves, Serving
    <3> QED BY <3>1, <3>2
  <2> QED BY <2>6, <2>7 DEF Serving
<1>5. CASE GateKickDone(c)
  <2>1. UNCHANGED <<pending, users>> /\ Answer(c, "kick", 0)
     BY <1>5 DEF GateKickDone, gateVars
  <2>2. CASE call[c].op = "kick" /\ call[c].st = "serving"
    <3>1. call[c] \in CallRec BY <2>2, CallStType DEF TypeOK
    <3>2. call'[c].op = "kick" /\ \A d \in Conn \ {c} : call'[d] = call[d]
       BY <2>1, <2>2, <3>1 DEF Answer, CallRec
    <3>3. pending[c].st = "none" BY <2>2 DEF OneLogin
    <3>4. Waits(c)' BY <3>2 DEF Waits
    <3>5. Serves(c)' BY <2>1, <3>3 DEF Serves
    <3> QED BY <2>1, <3>2, <3>4, <3>5, ServingAt
  <2>3. CASE UNCHANGED call BY <2>1, <2>3, ServingSame
  <2> QED BY <2>1, <2>2, <2>3 DEF Answer
<1> QED BY <1>1, <1>2, <1>3, <1>4, <1>5 DEF GateHandler, GateLogin, GateSpawn

LEMMA ServingStep ==
  ASSUME Knowledge, Registry, Serving, [Next]_vars, ~NetworkFault, ~Crash
  PROVE  Serving'
<1> TypeOK /\ OneLogin /\ LoginExclusive BY DEF Knowledge, Registry
<1>1. CASE UNCHANGED <<conn, call, pending, users>> BY <1>1, ServingSame
<1>2. CASE Services
  <2>1. ASSUME NEW c \in Conn, LoginHandler(c) PROVE Serving' BY <2>1, ServingMaster
  <2>2. ASSUME NEW c \in Conn, GateHandler(c) PROVE Serving' BY <2>2, ServingGate
  <2>3. ASSUME NEW c \in Conn, GateShake(c) PROVE Serving'
     BY <2>3, <1>1 DEF GateShake, GateAuthed, GateOnlined, OnlyGate, loginVars
  <2>4. ASSUME NEW s \in Server, LogoutCommand(s) PROVE Serving'
     BY <2>4, <1>1 DEF LogoutCommand, Logout, OnlyLogin, gateVars
  <2>5. ASSUME NEW a \in Agent, AgentTurn(a) \/ AgentResume(a) PROVE Serving'
    <3>1. UNCHANGED <<conn, pending, users>>
       BY <2>5 DEF AgentTurn, AgentResume, OnlyAgent, loginVars, gateVars
    <3>2. UNCHANGED call
       BY <2>5 DEF AgentTurn, AgentResume, Turn, Resume, Enqueue, Login, Afk, Online,
         Auth, Kicked, Left, LeftError, Requested, BeginLogout, OnlineDone, AuthLoaded,
         AuthDone, fabricVars
    <3> QED BY <3>1, <3>2, <1>1
  <2>6. ASSUME NEW a \in Agent, NEW k \in Co, AgentCo(a, k) PROVE Serving'
     BY <2>6, <1>1 DEF AgentCo, ResumeCo, Unloaded, IdleLogout, WorkerExit, BeginLogout,
       fabricVars, OnlyAgent, loginVars, gateVars
  <2>7. ASSUME NEW a \in Agent, NEW k \in Co, GateLeave(a, k) PROVE Serving'
    <3>1. UNCHANGED <<conn, call, pending>>
       BY <2>7 DEF GateLeave, GateLogout, GateLogoutDone, OnlyGate, loginVars
    <3>2. \A p \in Seat : users'[p] \in {None, users[p]}
       BY <2>7, LeaveQuiet DEF Steady
    <3> SUFFICES ASSUME NEW c \in Conn PROVE Waits(c)' /\ Serves(c)' BY DEF Serving
    <3>3. Waits(c)' BY <3>1 DEF Waits, Serving
    <3>4. Serves(c)'
      <4> SUFFICES ASSUME pending[c].st # "none"
                   PROVE  users'[pending[c].server, pending[c].uid] = None
         BY <3>1 DEF Serves, Serving
      <4>1. <<pending[c].server, pending[c].uid>> \in Seat
         BY DEF Seat, TypeOK, GateTypeOK, NoPending
      <4>2. users[pending[c].server, pending[c].uid] = None BY DEF Serving, Serves
      <4> QED BY <3>2, <4>1, <4>2
    <3> QED BY <3>3, <3>4
  <2> QED BY <1>2, <2>1, <2>2, <2>3, <2>4, <2>5, <2>6, <2>7 DEF Services
<1>3. ASSUME NEW c \in Conn, Player(c) PROVE Serving'
  <2>1. CASE \E u \in Uid, s \in Server : Accept(c, u, s) /\ OnlyLogin
     BY <2>1, ServingMaster
  <2>2. ASSUME NEW s, NEW u, NEW n, Handshake(c, s, u, n), OnlyGate PROVE Serving'
     BY <2>2, <1>1 DEF Handshake, OnlyGate, loginVars
  <2>3. CASE Disconnect(c) /\ OnlyGate
     BY <2>3, <1>1 DEF Disconnect, OnlyGate, loginVars
  <2>4. ASSUME NEW k \in Client, ClientLogout(c, k), OnlyGate PROVE Serving'
     BY <2>4, <1>1 DEF ClientLogout, OnlyGate, loginVars, gateVars
  <2> QED BY <1>3, <2>1, <2>2, <2>3, <2>4 DEF Player
<1>4. CASE UNCHANGED vars BY <1>4, <1>1 DEF vars, fabricVars, loginVars, gateVars
<1> QED BY <1>2, <1>3, <1>4 DEF Next

\* An agent is held where it was when the tables of the gates stay.
LEMMA HeldSame ==
  ASSUME UNCHANGED bookVars, NEW a, Held(a) PROVE Held(a)'
BY DEF Held, bookVars, InPool, InUsers, InLoginOf, InLogoutOf

\* An agent goes from the pool to a login, from a login to a session, from a
\* session to a logout and back to the pool.
LEMMA LoginHolds ==
  ASSUME Knowledge, NEW c \in Conn, NEW b \in Agent, Held(b),
         \/ \E a \in Agent : GateLogin(c, a)
         \/ GateSpawn(c)
  PROVE  Held(b)'
<1> DOMAIN pending = Conn BY OneLoginTables DEF Knowledge
<1>1. /\ UNCHANGED <<users, leave>> /\ pending[c].st = "none"
      /\ \A d \in Conn \ {c} : pending'[d] = pending[d]
   BY DEF GateLogin, GateSpawn, NewLogin, Called, Knowledge, OneLogin
<1>2. CASE \E p \in Seat : InUsers(b, p) BY <1>1, <1>2 DEF Held, InUsers
<1>3. CASE \E p \in Leaver : InLogoutOf(b, p) BY <1>1, <1>3 DEF Held, InLogoutOf
<1>4. CASE \E d \in Conn : InLoginOf(b, d) BY <1>1, <1>4 DEF Held, InLoginOf
<1>5. CASE InPool(b)
  <2>1. CASE GateSpawn(c) BY <2>1, <1>5 DEF GateSpawn, Held, InPool
  <2>2. ASSUME NEW a \in Agent, GateLogin(c, a) PROVE Held(b)'
    <3>1. CASE b = a
      <4>1. pending'[c].st = "login" /\ pending'[c].agent = a
         BY <2>2 DEF GateLogin, NewLogin
      <4> QED BY <3>1, <4>1 DEF Held, InLoginOf
    <3>2. CASE b # a
      <4>1. pool'[b] = pool[b]
         BY <2>2, <3>2 DEF GateLogin, FromPool, Knowledge, TypeOK, GateTypeOK
      <4> QED BY <4>1, <1>5 DEF Held, InPool
    <3> QED BY <3>1, <3>2
  <2> QED BY <2>1, <2>2
<1> QED BY <1>2, <1>3, <1>4, <1>5 DEF Held

LEMMA SpawnedHolds ==
  ASSUME Knowledge, AgentsNotLost, NEW c \in Conn, GateSpawned(c)
  PROVE  AgentsNotLost'
<1> DOMAIN pending = Conn BY OneLoginTables DEF Knowledge
<1>1. PICK a \in Agent \ created :
        /\ created' = created \cup {a}
        /\ pending' = [pending EXCEPT ![c].st = "login", ![c].agent = a]
   BY DEF GateSpawned
<1>2. pending[c].st = "spawn" /\ UNCHANGED <<users, leave, pool>> BY DEF GateSpawned
<1>3. pending[c] \in [st : {"spawn"}, server : Server, uid : Uid, subid : Nat,
                      agent : {None}]
   BY <1>2 DEF Knowledge, TypeOK, GateTypeOK, NoPending
<1>4. /\ pending'[c].st = "login" /\ pending'[c].agent = a
      /\ \A d \in Conn \ {c} : pending'[d] = pending[d]
   BY <1>1, <1>3
<1> SUFFICES ASSUME NEW b \in created' PROVE Held(b)'
   BY DEF AgentsNotLost, Held
<1>5. CASE b = a BY <1>4, <1>5 DEF Held, InLoginOf
<1>6. CASE b # a
  <2>1. Held(b) BY <1>1, <1>6 DEF AgentsNotLost, Held
  <2> QED BY <2>1, <1>2, <1>4 DEF Held, InPool, InUsers, InLoginOf, InLogoutOf
<1> QED BY <1>5, <1>6

LEMMA DoneHolds ==
  ASSUME Knowledge, Serving, NEW c \in Conn, GateLoginDone(c), NEW b \in Agent, Held(b)
  PROVE  Held(b)'
<1> DEFINE seat == <<pending[c].server, pending[c].uid>>
<1>1. /\ pending[c].st = "login" /\ pending' = [pending EXCEPT ![c] = NoPending]
      /\ users' = [users EXCEPT ![seat] = [agent |-> pending[c].agent,
                                     subid |-> pending[c].subid, name |-> c]]
      /\ UNCHANGED <<pool, leave>>
   BY DEF GateLoginDone
<1>2. seat \in Seat
   BY <1>1, PendingLogin DEF Seat, Knowledge, TypeOK
<1>3. users[seat] = None BY <1>1 DEF Serving, Serves
<1> HIDE DEF seat
<1>4. /\ users'[seat] = [agent |-> pending[c].agent, subid |-> pending[c].subid, name |-> c]
      /\ \A p \in Seat \ {seat} : users'[p] = users[p]
   BY <1>1, <1>2 DEF Seat, Knowledge, TypeOK, GateTypeOK
<1>5. \A d \in Conn \ {c} : pending'[d] = pending[d]
   BY <1>1 DEF Knowledge, TypeOK, GateTypeOK
<1>6. CASE InPool(b) BY <1>1, <1>6 DEF Held, InPool
<1>7. CASE \E p \in Leaver : InLogoutOf(b, p) BY <1>1, <1>7 DEF Held, InLogoutOf
<1>8. ASSUME NEW p \in Seat, InUsers(b, p) PROVE Held(b)'
   BY <1>3, <1>4, <1>8 DEF Held, InUsers
<1>9. ASSUME NEW d \in Conn, InLoginOf(b, d) PROVE Held(b)'
  <2>1. CASE d = c
    <3>1. users'[seat] # None
       BY <1>4, <1>1, PendingLogin, NoneAssumption DEF Knowledge, TypeOK
    <3> QED BY <1>2, <1>4, <1>9, <2>1, <3>1 DEF Held, InUsers, InLoginOf
  <2>2. CASE d # c BY <1>5, <1>9, <2>2 DEF Held, InLoginOf
  <2> QED BY <2>1, <2>2
<1> QED BY <1>6, <1>7, <1>8, <1>9 DEF Held

LEMMA LeaveHolds ==
  ASSUME Knowledge, Subids, ReturnsItself, NEW a \in Agent, NEW k \in Co,
         GateLogout(a, k) \/ GateLogoutDone(a, k), NEW b \in Agent, Held(b)
  PROVE  Held(b)'
<1>1. CASE GateLogoutDone(a, k)
  <2>1. /\ leave[<<a, k>>] = a /\ leave' = [leave EXCEPT ![<<a, k>>] = None]
        /\ pool' = [pool EXCEPT ![a] = @ + 1] /\ UNCHANGED <<users, pending>>
     BY <1>1 DEF GateLogoutDone, ToPool, ReturnsItself, Leaver
  <2>2. pool \in [Agent -> Nat] /\ leave \in [Leaver -> Agent \cup {None}]
     BY DEF Knowledge, TypeOK, GateTypeOK, Leaver
  <2>3. CASE b = a
    <3>1. pool'[b] > 0 BY <2>1, <2>2, <2>3
    <3> QED BY <3>1 DEF Held, InPool
  <2>4. CASE b # a
    <3>1. pool'[b] = pool[b] BY <2>1, <2>2, <2>4
    <3>2. \A p \in Leaver : InLogoutOf(b, p) => InLogoutOf(b, p)'
       BY <2>1, <2>2, <2>4 DEF InLogoutOf
    <3> QED BY <2>1, <3>1, <3>2 DEF Held, InPool, InUsers, InLoginOf
  <2> QED BY <2>3, <2>4
<1>2. CASE GateLogout(a, k)
  <2> DEFINE l == Head(sent[a])
             p == <<Home[a], l.uid>>
  <2>1. CASE Has(Home[a], l.uid, l.subid)
    <3>1. p \in Seat /\ InUsers(a, p) BY <1>2, <2>1, LeaveFindsItself
    <3>2. /\ users' = [users EXCEPT ![p] = None]
          /\ leave' = [leave EXCEPT ![<<a, k>>] = users[p].agent]
          /\ UNCHANGED <<pool, pending>>
       BY <1>2, <2>1 DEF GateLogout, Drop
    <3> HIDE DEF p
    <3>3. users[p].agent = a BY <3>1 DEF InUsers
    <3>4. leave'[<<a, k>>] = a /\ \A q \in Leaver \ {<<a, k>>} : leave'[q] = leave[q]
       BY <3>2, <3>3 DEF Leaver, Knowledge, TypeOK, GateTypeOK
    <3>5. \A q \in Seat \ {p} : users'[q] = users[q]
       BY <3>1, <3>2 DEF Seat, Knowledge, TypeOK, GateTypeOK
    <3>6. <<a, k>> \in Leaver BY DEF Leaver
    <3>7. CASE b = a BY <3>4, <3>6, <3>7 DEF Held, InLogoutOf
    <3>8. CASE b # a
      <4>1. \A q \in Leaver : InLogoutOf(b, q) => InLogoutOf(b, q)'
        <5> SUFFICES ASSUME NEW q \in Leaver, leave[q] = b PROVE leave'[q] = b
           BY DEF InLogoutOf
        <5>1. leave[<<a, k>>] \in {a, None} BY <3>6 DEF ReturnsItself
        <5>2. q # <<a, k>> BY <5>1, <3>8, NoneAssumption
        <5> QED BY <5>2, <3>4
      <4>2. \A q \in Seat : InUsers(b, q) => InUsers(b, q)'
         BY <3>3, <3>5, <3>8 DEF InUsers
      <4> QED BY <3>2, <4>1, <4>2 DEF Held, InPool, InLoginOf
    <3> QED BY <3>7, <3>8
  <2>2. CASE ~Has(Home[a], l.uid, l.subid)
     BY <1>2, <2>2, HeldSame DEF GateLogout, bookVars
  <2> QED BY <2>1, <2>2
<1> QED BY <1>1, <1>2

LEMMA HoldsStep ==
  ASSUME Knowledge, Subids, ReturnsItself, Serving, AgentsNotLost, [Next]_vars,
         ~NetworkFault, ~Crash
  PROVE  AgentsNotLost'
<1>1. CASE UNCHANGED bookVars
   BY <1>1, HeldSame DEF AgentsNotLost, Held, bookVars
<1>2. ASSUME UNCHANGED created, \A b \in Agent : Held(b) => Held(b)' PROVE AgentsNotLost'
  <2>1. created \subseteq Agent BY DEF Knowledge, TypeOK, GateTypeOK
  <2> QED BY <1>2, <2>1 DEF AgentsNotLost, Held
<1>3. CASE Services
  <2>1. ASSUME NEW c \in Conn, LoginHandler(c) PROVE AgentsNotLost'
     BY <2>1, <1>1 DEF LoginHandler, OnlyLogin, gateVars, bookVars
  <2>2. ASSUME NEW c \in Conn, GateHandler(c) PROVE AgentsNotLost'
    <3>1. CASE GateLoginError(c) \/ GateKick(c) \/ GateKickDone(c)
       BY <3>1, <1>1 DEF GateLoginError, GateKick, GateKickDone, gateVars, bookVars
    <3>2. CASE (\E a \in Agent : GateLogin(c, a)) \/ GateSpawn(c)
       BY <3>2, <1>2, LoginHolds DEF GateLogin, GateSpawn
    <3>3. CASE GateSpawned(c) BY <3>3, SpawnedHolds
    <3>4. CASE GateLoginDone(c) BY <3>4, <1>2, DoneHolds DEF GateLoginDone
    <3> QED BY <2>2, <3>1, <3>2, <3>3, <3>4 DEF GateHandler
  <2>3. ASSUME NEW c \in Conn, GateShake(c) PROVE AgentsNotLost'
     BY <2>3, <1>1 DEF GateShake, GateAuthed, GateOnlined, bookVars
  <2>4. ASSUME NEW s \in Server, LogoutCommand(s) PROVE AgentsNotLost'
     BY <2>4, <1>1 DEF LogoutCommand, OnlyLogin, gateVars, bookVars
  <2>5. ASSUME NEW a \in Agent, AgentTurn(a) \/ AgentResume(a) PROVE AgentsNotLost'
     BY <2>5, <1>1 DEF AgentTurn, AgentResume, OnlyAgent, gateVars, bookVars
  <2>6. ASSUME NEW a \in Agent, NEW k \in Co, AgentCo(a, k) PROVE AgentsNotLost'
     BY <2>6, <1>1 DEF AgentCo, OnlyAgent, gateVars, bookVars
  <2>7. ASSUME NEW a \in Agent, NEW k \in Co, GateLeave(a, k) PROVE AgentsNotLost'
     BY <2>7, <1>2, LeaveHolds DEF GateLeave, GateLogout, GateLogoutDone
  <2> QED BY <1>3, <2>1, <2>2, <2>3, <2>4, <2>5, <2>6, <2>7 DEF Services
<1>4. ASSUME NEW c \in Conn, Player(c) PROVE AgentsNotLost'
  <2>1. ASSUME NEW s, NEW u, NEW n, Handshake(c, s, u, n) PROVE AgentsNotLost'
     BY <2>1, <1>1 DEF Handshake, bookVars
  <2>2. CASE Disconnect(c) BY <2>2, <1>1 DEF Disconnect, bookVars
  <2>3. ASSUME NEW k \in Client, ClientLogout(c, k) PROVE AgentsNotLost'
     BY <2>3, <1>1 DEF ClientLogout, gateVars, bookVars
  <2>4. CASE OnlyLogin BY <2>4, <1>1 DEF OnlyLogin, gateVars, bookVars
  <2> QED BY <1>4, <2>1, <2>2, <2>3, <2>4 DEF Player
<1>5. CASE UNCHANGED vars BY <1>5, <1>1 DEF vars, gateVars, bookVars
<1> QED BY <1>3, <1>4, <1>5 DEF Next

\* The login in progress, and the agents, while nothing has failed.
Orderly ==
  /\ Knowledge
  /\ Registry
  /\ NoFault => Serving /\ Subids /\ ReturnsItself /\ AgentsNotLost

LEMMA OrderlyInit == Init => Orderly
<1> SUFFICES ASSUME Init PROVE Orderly OBVIOUS
<1>1. Knowledge /\ Registry BY KnowledgeInit, RegistryInit
<1>2. ReturnsItself BY DEF Init, GateInit, ReturnsItself, Leaver
<1>3. Serving
   BY DEF Init, FabricInit, GateInit, Serving, Waits, Serves, NoCall, NoPending
<1>4. AgentsNotLost
   BY PrecreatedAssumption DEF Init, GateInit, AgentsNotLost, InPool
<1> QED BY <1>1, <1>2, <1>3, <1>4, LearnsInit DEF Orderly

LEMMA OrderlyStep == Orderly /\ [Next]_vars => Orderly'
<1> SUFFICES ASSUME Orderly, [Next]_vars PROVE Orderly' OBVIOUS
<1>1. Knowledge' BY KnowledgeStep DEF Orderly
<1>2. Registry' BY RegistryStep DEF Orderly, Knowledge
<1>3. ASSUME NoFault' PROVE Serving' /\ Subids' /\ ReturnsItself' /\ AgentsNotLost'
  <2>1. NoFault /\ ~NetworkFault /\ ~Crash BY <1>3, FaultsCount DEF Orderly, Knowledge
  <2>2. Serving' BY <2>1, ServingStep DEF Orderly
  <2>3. OneEach
     BY <2>1, ServedApart DEF OneEach, Orderly, Knowledge, Registry
  <2>4. OneEach'
    <3>1. OneLogin' /\ Serving' /\ LoginExclusive'
       BY <1>1, <1>2, <2>2 DEF Knowledge, Registry
    <3> SUFFICES ASSUME NEW c \in Conn, NEW d \in Conn, pending'[c].st # "none",
                        pending'[d].st # "none", pending'[c].uid = pending'[d].uid
                 PROVE  c = d
       BY DEF OneEach
    <3>2. InLogin(c)' /\ InLogin(d)' /\ conn'[c].uid = conn'[d].uid
       BY <3>1 DEF OneLogin, Serving, Serves, Waits, InLogin
    <3> QED BY <3>1, <3>2, Zenon DEF LoginExclusive
  <2>5. Subids' BY <1>1, <2>1, <2>3, <2>4, LearnsStep DEF Orderly, Knowledge
  <2> QED BY <2>1, <2>2, <2>5, ReturnsStep, HoldsStep DEF Orderly
<1> QED BY <1>1, <1>2, <1>3 DEF Orderly

\* As long as no call and no process has failed, an agent that ends its session
\* puts itself back into the pool, and never the agent that serves the same
\* player by then: not even one that was told another login's subid.
THEOREM AgentsReturnThemselves == Spec => [](NoFault => ReturnsItself)
<1>1. Orderly => (NoFault => ReturnsItself) BY DEF Orderly
<1> QED BY <1>1, OrderlyInit, OrderlyStep, PTL DEF Spec

\* As long as no call and no process has failed, no agent that exists drops out
\* of its gate's books: it is in the pool, or has a player, a login or a
\* logout.  Whether its player's logout is accepted is AgentsKnowTheirSubid.
THEOREM NoAgentIsLost == Spec => [](NoFault => AgentsNotLost)
<1>1. Orderly => (NoFault => AgentsNotLost) BY DEF Orderly
<1> QED BY <1>1, OrderlyInit, OrderlyStep, PTL DEF Spec

-----------------------------------------------------------------------------
\* Where a kick is once its gate has passed it on to the agent: among the
\* commands that wait, in the mailbox, inside the critical section, or on its
\* way back as an answer.

IsKick(m, c) == m.op = "logout" /\ m.conn = c
KickIn(q, c) == \E m \in Range(q) : IsKick(m, c)
KickWaits(a, c) == KickIn(csq[a], c) \/ KickIn(mbox[a], c)
KickTaken(a, c) == KickIn(sent[a], c) \/ (csop[a] # None /\ IsKick(csop[a], c))
KickAt(a, c) == KickWaits(a, c) \/ KickTaken(a, c)

\* A step in which no kick comes to an agent.
NoneWaits == \A a \in Agent, c \in Conn : KickWaits(a, c)' => KickWaits(a, c)
NoneTaken == \A a \in Agent, c \in Conn : KickTaken(a, c)' => KickTaken(a, c)
NoKick    == \A a \in Agent, c \in Conn : KickAt(a, c)' => KickAt(a, c)

LEMMA NoKickParts == NoneWaits /\ NoneTaken => NoKick
BY DEF NoneWaits, NoneTaken, NoKick, KickAt

LEMMA NoKickSame == UNCHANGED <<mbox, csq, sent, csop>> => NoKick
BY DEF NoKick, KickAt, KickWaits, KickTaken

LEMMA NoneWaitsSame == UNCHANGED <<mbox, csq>> => NoneWaits
BY DEF NoneWaits, KickWaits

LEMMA NoneTakenSame == UNCHANGED <<sent, csop>> => NoneTaken
BY DEF NoneTaken, KickTaken

\* A queue with one message more, and without its first.
LEMMA KickAppend ==
  ASSUME NEW S, NEW q \in Seq(S), NEW e \in S, NEW c, KickIn(Append(q, e), c)
  PROVE  KickIn(q, c) \/ IsKick(e, c)
BY RangeAppend DEF KickIn

LEMMA KickTail ==
  ASSUME NEW S, NEW q \in Seq(S), q # <<>>, NEW c
  PROVE  /\ KickIn(Tail(q), c) => KickIn(q, c)
         /\ IsKick(Head(q), c) => KickIn(q, c)
BY RangeTail DEF KickIn

\* Messages other than kicks.
LEMMA OtherKicks ==
  /\ \A c, d \in Conn : ~IsKick(AuthMsg(c), d) /\ ~IsKick(OnlineMsg(c), d)
  /\ \A c \in Conn : ~IsKick(AfkMsg, c)
  /\ \A k \in Client, c \in Conn : ~IsKick(ClientMsg(k), c)
  /\ \A k \in Co, ok \in BOOLEAN, c \in Conn : ~IsKick(LeftMsg(k, ok), c)
  /\ \A c, d \in Conn : \A u, n : ~IsKick(LoginMsg(c, u, n), d)
  /\ \A k, u, n : \A c \in Conn : ~IsKick(LeaveMsg(k, u, n), c)
BY DEF IsKick, AuthMsg, OnlineMsg, AfkMsg, ClientMsg, LeftMsg, LoginMsg, LeaveMsg

\* A message is put in a mailbox,
LEMMA PostKicks ==
  ASSUME TypeOK, NEW b \in Agent, NEW e \in Msg, Post(b, e), UNCHANGED csq,
         NEW a \in Agent, NEW c \in Conn, KickWaits(a, c)'
  PROVE  KickWaits(a, c) \/ IsKick(e, c)
<1>1. mbox[a] \in Seq(Msg) BY LineType
<1>2. mbox'[a] = mbox[a] \/ mbox'[a] = Append(mbox[a], e)
   BY DEF Post, TypeOK, FabricTypeOK
<1>3. KickIn(Append(mbox[a], e), c) => KickIn(mbox[a], c) \/ IsKick(e, c)
   BY <1>1, KickAppend
<1> QED BY <1>2, <1>3 DEF KickWaits

LEMMA PostOther ==
  ASSUME TypeOK, NEW b \in Agent, NEW e \in Msg, Post(b, e), UNCHANGED csq,
         \A c \in Conn : ~IsKick(e, c)
  PROVE  NoneWaits
BY PostKicks DEF NoneWaits

\* taken from one,
LEMMA TakeKicks ==
  ASSUME TypeOK, NEW b \in Agent, mbox[b] # <<>>, Take(b)
  PROVE  /\ \A a \in Agent, c \in Conn : KickIn(mbox'[a], c) => KickIn(mbox[a], c)
         /\ \A c \in Conn : IsKick(Head(mbox[b]), c) => KickIn(mbox[b], c)
<1>1. mbox[b] \in Seq(Msg) BY LineType
<1>2. \A a \in Agent : mbox'[a] = mbox[a] \/ (a = b /\ mbox'[a] = Tail(mbox[b]))
   BY DEF Take, TypeOK, FabricTypeOK
<1>3. \A c : KickIn(Tail(mbox[b]), c) => KickIn(mbox[b], c) BY <1>1, KickTail
<1>4. \A c : IsKick(Head(mbox[b]), c) => KickIn(mbox[b], c) BY <1>1, KickTail
<1> QED BY <1>2, <1>3, <1>4

LEMMA TakeOther ==
  ASSUME TypeOK, NEW b \in Agent, mbox[b] # <<>>, Take(b), UNCHANGED csq
  PROVE  NoneWaits
BY TakeKicks DEF NoneWaits, KickWaits

\* or moved behind the commands that wait.
LEMMA EnqueueKicks ==
  ASSUME TypeOK, NEW b \in Agent, Enqueue(b) PROVE NoneWaits
<1>1. mbox[b] # <<>> /\ Take(b) BY DEF Enqueue, HasMsg
<1>2. mbox[b] \in Seq(Msg) /\ csq[b] \in Seq(Msg) BY LineType
<1>3. Head(mbox[b]) \in Msg BY <1>1, <1>2
<1>4. \A a \in Agent : csq'[a] = csq[a] \/ (a = b /\ csq'[a] = Append(csq[b], Head(mbox[b])))
   BY DEF Enqueue, Msg1, TypeOK, AgentTypeOK
<1>5. \A c : KickIn(Append(csq[b], Head(mbox[b])), c) =>
               KickIn(csq[b], c) \/ IsKick(Head(mbox[b]), c)
   BY <1>2, <1>3, KickAppend
<1>6. /\ \A a \in Agent, c \in Conn : KickIn(mbox'[a], c) => KickIn(mbox[a], c)
      /\ \A c \in Conn : IsKick(Head(mbox[b]), c) => KickIn(mbox[b], c)
   BY <1>1, TakeKicks
<1> QED BY <1>4, <1>5, <1>6 DEF NoneWaits, KickWaits

\* The first of those that wait enters the critical section.
LEMMA EnterKicks ==
  ASSUME TypeOK, NEW b \in Agent, NEW op, Enter(b, op)
  PROVE  /\ NoneWaits
         /\ \A c \in Conn : IsKick(Command(b), c) => KickWaits(b, c)
<1>1. CASE csq[b] # <<>>
  <2>1. csq[b] \in Seq(Msg) BY LineType
  <2>2. \A a \in Agent : csq'[a] = csq[a] \/ (a = b /\ csq'[a] = Tail(csq[b]))
     BY <1>1 DEF Enter, TypeOK, AgentTypeOK
  <2>3. UNCHANGED mbox /\ Command(b) = Head(csq[b]) BY <1>1 DEF Enter, Command
  <2>4. \A c : KickIn(Tail(csq[b]), c) => KickIn(csq[b], c) BY <1>1, <2>1, KickTail
  <2>5. \A c : IsKick(Head(csq[b]), c) => KickIn(csq[b], c) BY <1>1, <2>1, KickTail
  <2> QED BY <2>2, <2>3, <2>4, <2>5 DEF NoneWaits, KickWaits
<1>2. CASE csq[b] = <<>>
  <2>1. mbox[b] # <<>> /\ Take(b) /\ UNCHANGED csq /\ Command(b) = Head(mbox[b])
     BY <1>2 DEF Enter, Command, Msg1
  <2> QED BY <2>1, TakeKicks DEF NoneWaits, KickWaits
<1> QED BY <1>1, <1>2

\* An agent sends its gate a message,
LEMMA SendOther ==
  ASSUME TypeOK, NEW b \in Agent, NEW e \in GateMsg, Send(b, e),
         \A c \in Conn : ~IsKick(e, c), UNCHANGED csop
  PROVE  NoneTaken
<1>1. sent[b] \in Seq(GateMsg) BY LineType
<1>2. \A a \in Agent : sent'[a] = sent[a] \/ (a = b /\ sent'[a] = Append(sent[b], e))
   BY DEF Send, TypeOK, FabricTypeOK
<1>3. \A c : KickIn(Append(sent[b], e), c) => KickIn(sent[b], c) \/ IsKick(e, c)
   BY <1>1, KickAppend
<1> QED BY <1>2, <1>3 DEF NoneTaken, KickTaken

\* the gate receives it,
LEMMA ReceiveKicks ==
  ASSUME TypeOK, NEW b \in Agent, sent[b] # <<>>, Receive(b), UNCHANGED csop
  PROVE  NoneTaken
<1>1. sent[b] \in Seq(GateMsg) BY LineType
<1>2. \A a \in Agent : sent'[a] = sent[a] \/ (a = b /\ sent'[a] = Tail(sent[b]))
   BY DEF Receive, TypeOK, FabricTypeOK
<1>3. \A c : KickIn(Tail(sent[b]), c) => KickIn(sent[b], c) BY <1>1, KickTail
<1> QED BY <1>2, <1>3 DEF NoneTaken, KickTaken

\* and a command inside the critical section is answered.
LEMMA ReleaseKicks ==
  ASSUME TypeOK, NEW b \in Agent, Release(b) PROVE NoneTaken
<1> DEFINE e == Reply(csop[b].op, csop[b].conn)
<1>1. sent[b] \in Seq(GateMsg) BY LineType
<1>2. csop[b] \in HeldMsg /\ csop[b] # None BY DEF Release, TypeOK, AgentTypeOK
<1>3. e \in GateMsg /\ e.op = csop[b].op /\ e.conn = csop[b].conn
   BY <1>2 DEF HeldMsg, Reply, GateMsg
<1>4. \A a \in Agent : sent'[a] = sent[a] \/ (a = b /\ sent'[a] = Append(sent[b], e))
   BY DEF Release, Send, TypeOK, FabricTypeOK
<1>5. \A a \in Agent : csop'[a] \in {None, csop[a]}
   BY DEF Release, TypeOK, AgentTypeOK
<1> HIDE DEF e
<1>6. \A c : KickIn(Append(sent[b], e), c) => KickIn(sent[b], c) \/ IsKick(e, c)
   BY <1>1, <1>3, KickAppend
<1>7. \A c : IsKick(e, c) => IsKick(csop[b], c) BY <1>3 DEF IsKick
<1> QED BY <1>2, <1>4, <1>5, <1>6, <1>7 DEF NoneTaken, KickTaken

\* logout() before it yields.
LEMMA BeginKicks ==
  ASSUME TypeOK, NEW b \in Agent, NEW k \in Co, BeginLogout(b, k)
  PROVE  \A a \in Agent, c \in Conn : KickIn(sent'[a], c) => KickIn(sent[a], c)
<1>1. CASE UNCHANGED sent BY <1>1
<1>2. CASE bound[b] # None /\ Send(b, LeaveMsg(k, bound[b].uid, bound[b].subid))
  <2> DEFINE e == LeaveMsg(k, bound[b].uid, bound[b].subid)
  <2>1. sent[b] \in Seq(GateMsg) BY LineType
  <2>2. bound[b].uid \in Uid /\ bound[b].subid \in Nat
     BY <1>2 DEF TypeOK, AgentTypeOK
  <2>3. e \in GateMsg BY <2>2 DEF LeaveMsg, GateMsg
  <2>4. \A c \in Conn : ~IsKick(e, c) BY OtherKicks
  <2>5. \A a \in Agent : sent'[a] = sent[a] \/ (a = b /\ sent'[a] = Append(sent[b], e))
     BY <1>2 DEF Send, TypeOK, FabricTypeOK
  <2> HIDE DEF e
  <2>6. \A c : KickIn(Append(sent[b], e), c) => KickIn(sent[b], c) \/ IsKick(e, c)
     BY <2>1, <2>3, KickAppend
  <2> QED BY <2>4, <2>5, <2>6
<1> QED BY <1>1, <1>2 DEF BeginLogout

\* No step of an agent makes a kick of anything else.
LEMMA AgentKicks ==
  ASSUME TypeOK, NEW a \in Agent,
         AgentTurn(a) \/ AgentResume(a) \/ \E k \in Co : AgentCo(a, k)
  PROVE  NoKick
<1>1. CASE Enqueue(a)
   BY <1>1, EnqueueKicks, NoneTakenSame, NoKickParts DEF Enqueue
<1>2. CASE Login(a)
  <2>1. Reply("login", Command(a).conn) \in GateMsg
    <3>1. Line(a) \in Seq(Msg) /\ Line(a) # <<>> /\ Head(Line(a)) = Command(a)
       BY <1>2, EnterLine, LineType DEF Login
    <3>2. Command(a) \in Msg /\ Command(a).op = "login"
       BY <3>1, <1>2 DEF Login, Enter
    <3> QED BY <3>2, LoginMsgType DEF Reply, GateMsg
  <2>2. \A c \in Conn : ~IsKick(Reply("login", Command(a).conn), c) BY DEF IsKick, Reply
  <2> QED BY <1>2, <2>1, <2>2, EnterKicks, SendOther, NoKickParts DEF Login
<1>3. CASE Afk(a) BY <1>3, EnterKicks, NoneTakenSame, NoKickParts DEF Afk
<1>4. ASSUME NEW op, op # "logout", Enter(a, op), csop' = [csop EXCEPT ![a] = Command(a)],
             UNCHANGED sent
      PROVE  NoKick
  <2>1. Command(a).op # "logout" BY <1>4 DEF Enter
  <2>2. NoneTaken
    <3>1. \A b \in Agent : csop'[b] = csop[b] \/ csop'[b] = Command(a)
       BY <1>4 DEF TypeOK, AgentTypeOK
    <3> QED BY <1>4, <2>1, <3>1 DEF NoneTaken, KickTaken, IsKick
  <2> QED BY <1>4, <2>2, EnterKicks, NoKickParts
<1>5. CASE Online(a) \/ Auth(a) BY <1>5, <1>4 DEF Online, Auth
<1>6. CASE Kicked(a)
  <2>1. NoneWaits /\ \A c \in Conn : IsKick(Command(a), c) => KickWaits(a, c)
     BY <1>6, EnterKicks DEF Kicked
  <2>2. \A b \in Agent, c \in Conn : KickIn(sent'[b], c) => KickIn(sent[b], c)
     BY <1>6, BeginKicks, CsCo DEF Kicked
  <2>3. \A b \in Agent : csop'[b] = csop[b] \/ (b = a /\ csop'[b] = Command(a))
     BY <1>6 DEF Kicked, TypeOK, AgentTypeOK
  <2> QED BY <2>1, <2>2, <2>3 DEF NoneWaits, NoKick, KickAt, KickTaken
<1>7. CASE Left(a)
   BY <1>7, TakeOther, NoneTakenSame, NoKickParts DEF Left, HasMsg
<1>8. CASE LeftError(a)
  <2>1. NoneTaken BY <1>8, ReleaseKicks, NoneTakenSame DEF LeftError
  <2> QED BY <1>8, <2>1, TakeOther, NoKickParts DEF LeftError, HasMsg
<1>9. ASSUME NEW k \in Client, Requested(a, k) PROVE NoKick
  <2>1. \A b \in Agent, c \in Conn : KickIn(sent'[b], c) => KickIn(sent[b], c)
     BY <1>9, BeginKicks, CsCo DEF Requested
  <2>2. NoneTaken BY <1>9, <2>1 DEF Requested, NoneTaken, KickTaken
  <2> QED BY <1>9, <2>2, TakeOther, NoKickParts DEF Requested, HasMsg
<1>10. CASE AgentResume(a)
  <2>1. NoneWaits
     BY <1>10, NoneWaitsSame
     DEF AgentResume, Resume, OnlineDone, AuthLoaded, AuthDone, fabricVars
  <2>2. NoneTaken
     BY <1>10, ReleaseKicks, NoneTakenSame
     DEF AgentResume, Resume, OnlineDone, AuthLoaded, AuthDone, fabricVars
  <2> QED BY <2>1, <2>2, NoKickParts
<1>11. ASSUME NEW k \in Co, AgentCo(a, k) PROVE NoKick
  <2>1. NoneWaits
     BY <1>11, NoneWaitsSame
     DEF AgentCo, ResumeCo, Unloaded, IdleLogout, WorkerExit, BeginLogout, fabricVars
  <2>2. CASE IdleLogout(a, k)
    <3>1. \A b \in Agent, c \in Conn : KickIn(sent'[b], c) => KickIn(sent[b], c)
       BY <2>2, BeginKicks DEF IdleLogout
    <3> QED BY <2>1, <2>2, <3>1, NoKickParts DEF IdleLogout, NoneTaken, KickTaken
  <2>3. CASE Unloaded(a, k) \/ WorkerExit(a, k)
    <3>1. NoneTaken
       BY <2>3, ReleaseKicks, NoneTakenSame DEF Unloaded, WorkerExit, fabricVars
    <3> QED BY <2>1, <3>1, NoKickParts
  <2> QED BY <1>11, <2>2, <2>3 DEF AgentCo, ResumeCo
<1> QED BY <1>1, <1>2, <1>3, <1>5, <1>6, <1>7, <1>8, <1>9, <1>10, <1>11
     DEF AgentTurn, Turn

\* What a gate sends an agent, other than a kick, and what it receives of one.
LEMMA GateKicks ==
  ASSUME TypeOK, NEW c \in Conn, OnlyGate,
         \/ \E a \in Agent : GateLogin(c, a)
         \/ GateSpawn(c) \/ GateLoginError(c) \/ GateSpawned(c)
         \/ GateLoginDone(c) \/ GateKickDone(c)
  PROVE  NoKick
<1>1. UNCHANGED <<csq, csop>> BY DEF OnlyGate, agentVars
<1>2. ASSUME NEW a \in Agent, GateLogin(c, a) PROVE NoKick
  <2>1. LoginMsg(c, call[c].uid, NextId(call[c].server)) \in Msg
    <3>1. call[c] \in CallRec /\ NextId(call[c].server) \in Nat
       BY <1>2, NewLoginType DEF GateLogin, TypeOK
    <3> QED BY <3>1 DEF LoginMsg, Msg, CsMsg, CallRec
  <2>2. NoneWaits
     BY <1>1, <1>2, <2>1, PostOther, OtherKicks DEF GateLogin
  <2> QED BY <1>1, <1>2, <2>2, NoneTakenSame, NoKickParts DEF GateLogin
<1>3. CASE GateSpawn(c) \/ GateLoginError(c)
   BY <1>1, <1>3, NoKickSame DEF GateSpawn, GateLoginError
<1>4. CASE GateSpawned(c)
  <2>1. LoginMsg(c, pending[c].uid, internal_id[pending[c].server]) \in Msg
     BY <1>4, PendingSpawn DEF GateSpawned, TypeOK, GateTypeOK, LoginMsg, Msg, CsMsg
  <2>2. NoneWaits
     BY <1>1, <1>4, <2>1, PostOther, OtherKicks DEF GateSpawned
  <2> QED BY <1>1, <1>4, <2>2, NoneTakenSame, NoKickParts DEF GateSpawned
<1>5. CASE GateLoginDone(c)
  <2>1. pending[c].agent \in Agent BY <1>5, PendingLogin DEF GateLoginDone, TypeOK
  <2> QED BY <1>1, <1>5, <2>1, ReceiveKicks, NoneWaitsSame, NoKickParts
       DEF GateLoginDone, Sent
<1>6. CASE GateKickDone(c)
  <2>1. NoneTaken
     BY <1>1, <1>6, ReceiveKicks, NoneTakenSame DEF GateKickDone, Sent
  <2> QED BY <1>1, <1>6, <2>1, NoneWaitsSame, NoKickParts DEF GateKickDone
<1> QED BY <1>2, <1>3, <1>4, <1>5, <1>6

\* kick_handler passes the kick of one connection on.
LEMMA KickKicks ==
  ASSUME TypeOK, NEW c \in Conn, GateKick(c), OnlyGate
  PROVE  /\ \A a \in Agent, d \in Conn \ {c} : KickAt(a, d)' => KickAt(a, d)
         /\ UNCHANGED mbox => NoKick
<1>1. UNCHANGED <<csq, csop, sent>> BY DEF GateKick, OnlyGate, agentVars
<1>2. UNCHANGED mbox => NoKick BY <1>1, NoKickSame
<1>3. CASE UNCHANGED mbox BY <1>2, <1>3 DEF NoKick
<1>4. CASE Has(call[c].server, call[c].uid, call[c].subid)
  <2> DEFINE u == users[call[c].server, call[c].uid]
  <2>1. call[c] \in CallRec BY CalledType DEF GateKick, Called, TypeOK
  <2>2. u.agent \in Agent BY <1>4, <2>1, UserType DEF Has, TypeOK, UserRec, CallRec
  <2>3. Post(u.agent, KickMsg(c)) BY <1>4 DEF GateKick, Has
  <2>4. \A d \in Conn \ {c} : ~IsKick(KickMsg(c), d) BY DEF IsKick, KickMsg
  <2> HIDE DEF u
  <2>5. \A a \in Agent, d \in Conn \ {c} : KickWaits(a, d)' => KickWaits(a, d)
     BY <1>1, <2>2, <2>3, <2>4, PostKicks, OtherMsgs
  <2>6. NoneTaken BY <1>1, NoneTakenSame
  <2> QED BY <1>2, <2>5, <2>6 DEF KickAt, NoneTaken
<1> QED BY <1>2, <1>3, <1>4 DEF GateKick

\* auth() of msg_server and the clients,
LEMMA ClientKicks ==
  ASSUME TypeOK, FdMapped, NEW c \in Conn, GateShake(c) \/ (Player(c) /\ OnlyGate)
  PROVE  NoKick
<1>1. UNCHANGED <<csq, csop>> BY DEF GateShake, OnlyGate, agentVars
<1>2. CASE GateShake(c)
  <2>1. NoneTaken BY <1>1, <1>2, ReceiveKicks DEF GateShake, GateAuthed, GateOnlined, Sent
  <2> DEFINE u == users[conn[c].server, conn[c].uid]
  <2>2. CASE Told(c) /\ u # None /\ Post(u.agent, OnlineMsg(c))
    <3>1. conn[c].server \in Server /\ conn[c].uid \in Uid
       BY <2>2, ConnType DEF Told, TypeOK
    <3>2. u.agent \in Agent BY <2>2, <3>1, UserType DEF TypeOK, UserRec
    <3> HIDE DEF u
    <3>3. NoneWaits BY <1>1, <2>2, <3>2, PostOther, OtherMsgs, OtherKicks
    <3> QED BY <2>1, <3>3, NoKickParts
  <2>3. CASE UNCHANGED mbox BY <1>1, <2>1, <2>3, NoneWaitsSame, NoKickParts
  <2> QED BY <1>2, <2>2, <2>3 DEF GateShake, GateAuthed, GateOnlined
<1>3. CASE Told(c) /\ Handshake(c, conn[c].server, conn[c].uid, conn[c].subid)
  <2> DEFINE u == users[conn[c].server, conn[c].uid]
  <2>1. conn[c].server \in Server /\ conn[c].uid \in Uid
     BY <1>3, ConnType DEF Told, TypeOK
  <2>2. u.agent \in Agent BY <1>3, <2>1, UserType DEF Handshake, TypeOK, UserRec
  <2>3. Post(u.agent, AuthMsg(c)) /\ UNCHANGED sent BY <1>3 DEF Handshake
  <2> HIDE DEF u
  <2>4. NoneWaits BY <1>1, <2>2, <2>3, PostOther, OtherMsgs, OtherKicks
  <2> QED BY <1>1, <2>3, <2>4, NoneTakenSame, NoKickParts
<1>4. ASSUME fd[c] PROVE username_map[c].agent \in Agent BY <1>4, MappedType DEF TypeOK
<1>5. CASE Disconnect(c)
  <2>1. NoneWaits BY <1>1, <1>4, <1>5, PostOther, OtherMsgs, OtherKicks DEF Disconnect
  <2> QED BY <1>1, <1>5, <2>1, NoneTakenSame, NoKickParts DEF Disconnect
<1>6. ASSUME NEW k \in Client, ClientLogout(c, k) PROVE NoKick
  <2>1. NoneWaits BY <1>1, <1>4, <1>6, PostOther, OtherMsgs, OtherKicks DEF ClientLogout
  <2> QED BY <1>1, <1>6, <2>1, NoneTakenSame, NoKickParts DEF ClientLogout
<1>7. CASE OnlyLogin /\ \E u \in Uid, s \in Server : Accept(c, u, s)
   BY <1>1, <1>7, NoKickSame DEF Accept
<1> QED BY <1>2, <1>3, <1>5, <1>6, <1>7 DEF Player

\* logout_handler,
LEMMA LeaveKicks ==
  ASSUME TypeOK, NEW a \in Agent, NEW k \in Co, GateLeave(a, k)
  PROVE  NoKick
<1>1. UNCHANGED <<csq, csop>> BY DEF GateLeave, OnlyGate, agentVars
<1>2. NoneTaken
   BY <1>1, ReceiveKicks, NoneTakenSame DEF GateLeave, GateLogout, GateLogoutDone
<1>3. UNCHANGED mbox \/ \E ok \in BOOLEAN : Post(a, LeftMsg(k, ok))
   BY DEF GateLeave, GateLogout, GateLogoutDone
<1>4. NoneWaits BY <1>1, <1>3, PostOther, OtherMsgs, OtherKicks, NoneWaitsSame
<1> QED BY <1>2, <1>4, NoKickParts

\* and the login server.
LEMMA MasterKicks ==
  ASSUME \/ \E s \in Server : LogoutCommand(s)
         \/ \E c \in Conn :
              \/ LoginHandler(c)
              \/ OnlyLogin /\ \E u \in Uid, s \in Server : Accept(c, u, s)
  PROVE  NoKick
BY NoKickSame
   DEF LoginHandler, KickReturn, LoginReturn, LogoutCommand, Logout, Accept, OnlyLogin,
       agentVars, fabricVars

-----------------------------------------------------------------------------
\* The invariant: what the login server knows, has been told, or is going to
\* be told of every session.

\* Every login is answered with the subid of its session: no other login has
\* moved the counter of its gate since it got that subid.
Undisturbed == \A c \in Conn :
  pending[c].st # "none" => pending[c].subid = internal_id[pending[c].server]

\* The answer that connection c has logged the player of seat p in is on its
\* way to the login server.
Here(c, p) == /\ conn[c].st = "login" /\ conn[c].uid = p[2]
              /\ call[c].st = "ok" /\ call[c].server = p[1]

\* The login server has the session of seat p, or is going to.
Followed(p) ==
  \/ user_online[p[2]] = [server |-> p[1], subid |-> users[p].subid]
  \/ \E c \in Conn : Here(c, p) /\ call[c].subid = users[p].subid
Follows == \A p \in Seat : users[p] # None => Followed(p)

\* A login asks for what its client wants, and for a kick of the session that
\* the login server knew and may have been told the end of.
Asks(c) ==
  /\ conn[c].st = "login" =>
       call[c].op = "login" /\ call[c].uid = conn[c].uid /\ call[c].server = conn[c].server
  /\ conn[c].st = "kick" =>
       call[c].op = "kick" /\ call[c].uid = conn[c].uid /\ call[c].st # "fail"
  /\ call[c].op = "kick" /\ call[c].st \in {"sent", "serving"} =>
       /\ conn[c].st = "kick"
       /\ user_online[conn[c].uid] \in
            {None, [server |-> call[c].server, subid |-> call[c].subid]}
Asked == \A c \in Conn : Asks(c)

\* A logout call n from gate s is made by a kick that is being served, or by a
\* logout of the session that the login server knows or is going to.
Kicks(n, s) ==
  /\ n.by \in Conn
  /\ conn[n.by].st = "kick" /\ conn[n.by].uid = n.uid
  /\ call[n.by].st = "serving" /\ call[n.by].server = s
Leaves(n, s) ==
  /\ n.by \in Leaver
  /\ \/ user_online[n.uid] # None /\ user_online[n.uid].server = s
     \/ \E c \in Conn : Here(c, <<s, n.uid>>)
Tells(n, s) ==
  /\ \A t \in Server : users[t, n.uid] = None
  /\ Kicks(n, s) \/ Leaves(n, s)
Noticed == \A s \in Server : \A i \in DOMAIN notifyq[s] : Tells(notifyq[s][i], s)

\* Of two logout calls of a player the first is the logout's.
Apart == \A s \in Server : \A i, j \in DOMAIN notifyq[s] :
  i < j /\ notifyq[s][i].uid = notifyq[s][j].uid =>
    notifyq[s][i].by \in Leaver /\ notifyq[s][j].by \in Conn

\* A kick is either passed on to the agent or told the login server: what
\* waits for one answer does not get the other's.
Unkicked(c) == c \notin acked /\ \A a \in Agent : ~KickAt(a, c)
Names(c) == \E s \in Server : \E i \in DOMAIN notifyq[s] : notifyq[s][i].by = c
KicksOnce == \A c \in Conn :
  /\ conn[c].st = "new" => Unkicked(c)
  /\ call[c].op = "kick" /\ call[c].st = "sent" => Unkicked(c)
  /\ Names(c) => Unkicked(c)

Tracking == Follows /\ Asked /\ Noticed /\ Apart /\ KicksOnce

\* A kick that has made a logout call is being served.
LEMMA NamesKick ==
  ASSUME Noticed, NEW c \in Conn, Names(c)
  PROVE  conn[c].st = "kick" /\ call[c].st = "serving"
<1>1. PICK s \in Server : \E i \in DOMAIN notifyq[s] : notifyq[s][i].by = c
   BY DEF Names
<1>2. PICK i \in DOMAIN notifyq[s] : notifyq[s][i].by = c BY <1>1
<1>3. c \notin Leaver BY CallerAssumption DEF Leaver
<1>4. Tells(notifyq[s][i], s) BY DEF Noticed
<1>5. Kicks(notifyq[s][i], s) BY <1>2, <1>3, <1>4 DEF Tells, Leaves
<1> QED BY <1>2, <1>5 DEF Kicks

\* A step in which no kick is passed on or answered.
LEMMA UnkickedSame ==
  ASSUME NoKick, NEW c \in Conn, c \in acked' => c \in acked, Unkicked(c)
  PROVE  Unkicked(c)'
BY DEF NoKick, Unkicked

\* A step that changes none of this,
LEMMA TrackSame ==
  ASSUME Tracking, NoKick, \A c \in Conn : c \in acked' => c \in acked,
         UNCHANGED <<users, user_online, conn, call, notifyq>>
  PROVE  Tracking'
<1>1. Follows' BY DEF Tracking, Follows, Followed, Here
<1>2. Asked' BY DEF Tracking, Asked, Asks
<1>3. Noticed'
  <2> SUFFICES ASSUME NEW s \in Server, NEW i \in DOMAIN notifyq[s]
               PROVE  Tells(notifyq[s][i], s)'
     BY DEF Noticed
  <2>1. Tells(notifyq[s][i], s) BY DEF Tracking, Noticed
  <2> QED BY <2>1 DEF Tells, Kicks, Leaves, Here
<1>4. Apart' BY DEF Tracking, Apart
<1>5. KicksOnce'
  <2> SUFFICES ASSUME NEW c \in Conn
               PROVE  /\ (conn[c].st = "new" => Unkicked(c))'
                      /\ (call[c].op = "kick" /\ call[c].st = "sent" => Unkicked(c))'
                      /\ (Names(c) => Unkicked(c))'
     BY DEF KicksOnce
  <2>1. Unkicked(c) => Unkicked(c)' BY UnkickedSame
  <2>2. Names(c)' => Names(c) BY DEF Names
  <2> QED BY <2>1, <2>2 DEF Tracking, KicksOnce
<1> QED BY <1>1, <1>2, <1>3, <1>4, <1>5 DEF Tracking

\* and one that concerns a login or a kick which no session and no logout call
\* depends on.
LEMMA TrackAt ==
  ASSUME Tracking, NEW c \in Conn, UNCHANGED <<users, user_online, notifyq>>,
         \A d \in Conn \ {c} : conn'[d] = conn[d] /\ call'[d] = call[d],
         ~(conn[c].st = "login" /\ call[c].st = "ok"),
         ~Names(c),
         \A d \in Conn \ {c} : Unkicked(d) => Unkicked(d)',
         Asks(c)',
         conn'[c].st # "new",
         call'[c].op = "kick" /\ call'[c].st = "sent" => Unkicked(c)'
  PROVE  Tracking'
<1>1. \A d \in Conn : \A p : Here(d, p) => Here(d, p)' /\ call'[d].subid = call[d].subid
  <2> SUFFICES ASSUME NEW d \in Conn, NEW p, Here(d, p)
               PROVE  Here(d, p)' /\ call'[d].subid = call[d].subid
     OBVIOUS
  <2>1. d # c BY DEF Here
  <2>2. conn'[d] = conn[d] /\ call'[d] = call[d] BY <2>1
  <2> QED BY <2>2 DEF Here
<1>2. Follows'
  <2> SUFFICES ASSUME NEW p \in Seat, users[p] # None PROVE Followed(p)'
     BY DEF Follows
  <2>1. Followed(p) BY DEF Tracking, Follows
  <2> QED BY <2>1, <1>1 DEF Followed
<1>3. Asked'
  <2> SUFFICES ASSUME NEW d \in Conn, d # c PROVE Asks(d)' BY DEF Asked
  <2>1. conn'[d] = conn[d] /\ call'[d] = call[d] /\ Asks(d) BY DEF Tracking, Asked
  <2> QED BY <2>1 DEF Asks
<1>4. Noticed'
  <2> SUFFICES ASSUME NEW s \in Server, NEW i \in DOMAIN notifyq[s]
               PROVE  Tells(notifyq[s][i], s)'
     BY DEF Noticed
  <2> DEFINE n == notifyq[s][i]
  <2>1. Tells(n, s) BY DEF Tracking, Noticed
  <2>2. n.by # c BY DEF Names
  <2>3. n' = n OBVIOUS
  <2> HIDE DEF n
  <2>4. CASE Kicks(n, s)
    <3>1. n.by \in Conn \ {c} BY <2>2, <2>4 DEF Kicks
    <3>2. conn'[n.by] = conn[n.by] /\ call'[n.by] = call[n.by] BY <3>1
    <3>3. Kicks(n, s)' BY <2>3, <2>4, <3>2 DEF Kicks
    <3> QED BY <2>1, <2>3, <3>3 DEF Tells, n
  <2>5. CASE Leaves(n, s)
    <3>1. Leaves(n, s)' BY <2>3, <2>5, <1>1 DEF Leaves
    <3> QED BY <2>1, <2>3, <3>1 DEF Tells, n
  <2> QED BY <2>1, <2>4, <2>5 DEF Tells
<1>5. Apart' BY DEF Tracking, Apart
<1>6. KicksOnce'
  <2> SUFFICES ASSUME NEW d \in Conn
               PROVE  /\ conn'[d].st = "new" => Unkicked(d)'
                      /\ call'[d].op = "kick" /\ call'[d].st = "sent" => Unkicked(d)'
                      /\ Names(d)' => Unkicked(d)'
     BY DEF KicksOnce
  <2>1. Names(d)' => Names(d) BY DEF Names
  <2>2. CASE d = c BY <2>1, <2>2
  <2>3. CASE d # c
    <3>1. conn'[d] = conn[d] /\ call'[d] = call[d] /\ (Unkicked(d) => Unkicked(d)')
       BY <2>3
    <3> QED BY <2>1, <3>1 DEF Tracking, KicksOnce
  <2> QED BY <2>2, <2>3
<1> QED BY <1>2, <1>3, <1>4, <1>5, <1>6 DEF Tracking

\* A player has one session.
LEMMA OneSeat ==
  ASSUME TypeOK, Tracking, Registry, NEW p \in Seat, NEW q \in Seat, p[2] = q[2],
         users[p] # None, users[q] # None
  PROVE  p = q
<1>1. Followed(p) /\ Followed(q) BY DEF Tracking, Follows
<1>2. ASSUME NEW c \in Conn, Here(c, p)
      PROVE  /\ user_online[p[2]] = None
             /\ \A d \in Conn : Here(d, q) => d = c
  <2>1. conn[c].st = "login" /\ conn[c].uid = p[2] BY <1>2 DEF Here
  <2>2. user_online[p[2]] = None BY <2>1 DEF Registry, Nowhere
  <2>3. ASSUME NEW d \in Conn, Here(d, q) PROVE d = c
    <3>1. InLogin(c) /\ InLogin(d) /\ conn[c].uid = conn[d].uid
       BY <2>1, <2>3 DEF Here, InLogin
    <3> QED BY <3>1, Zenon DEF Registry, LoginExclusive
  <2> QED BY <2>2, <2>3
<1>3. ASSUME NEW c \in Conn, Here(c, q) PROVE user_online[p[2]] = None
   BY <1>3 DEF Here, Registry, Nowhere
<1>4. \A c \in Conn : Here(c, p) /\ Here(c, q) => p[1] = q[1] BY DEF Here
<1>5. p[1] = q[1]
  <2>1. CASE user_online[p[2]] # None
    <3>1. /\ user_online[p[2]] = [server |-> p[1], subid |-> users[p].subid]
          /\ user_online[q[2]] = [server |-> q[1], subid |-> users[q].subid]
       BY <1>1, <1>2, <1>3, <2>1 DEF Followed
    <3> QED BY <3>1
  <2>2. CASE user_online[p[2]] = None
    <3>1. users[p].subid \in Nat /\ users[q].subid \in Nat
          /\ p[1] \in Server /\ q[1] \in Server
       BY SeatType DEF Seat, UserRec
    <3>2. /\ [server |-> p[1], subid |-> users[p].subid] # None
          /\ [server |-> q[1], subid |-> users[q].subid] # None
       BY <3>1, NoneAssumption
    <3> QED BY <1>1, <1>2, <1>4, <2>2, <3>2 DEF Followed
  <2> QED BY <2>1, <2>2
<1> QED BY <1>5 DEF Seat

-----------------------------------------------------------------------------
\* The steps.

\* A kick and a login of one player do not run at once, nor do two of either.
LEMMA SamePlayer ==
  ASSUME Registry, NEW c \in Conn, NEW d \in Conn,
         conn[c].st \in {"kick", "login"}, conn[d].st \in {"kick", "login"},
         conn[c].uid = conn[d].uid
  PROVE  c = d
<1>1. InLogin(c) /\ InLogin(d) BY DEF InLogin
<1> QED BY <1>1, Zenon DEF Registry, LoginExclusive

\* accept() starts a login or a kick, or neither,
LEMMA TrackAccept ==
  ASSUME TypeOK, Tracking, OneLogin, NEW c \in Conn, NEW u \in Uid, NEW s \in Server,
         Accept(c, u, s), OnlyLogin
  PROVE  Tracking'
<1> DOMAIN call = Conn /\ DOMAIN conn = Conn BY OneLoginTables
<1>1. conn[c].st = "new" /\ call[c].op = "none" /\ Unkicked(c)
   BY DEF Accept, OneLogin, Tracking, KicksOnce
<1>2. UNCHANGED <<users, user_online, notifyq, acked>>
   BY DEF Accept, OnlyLogin, gateVars
<1>3. NoKick BY MasterKicks
<1>4. \A d \in Conn : Unkicked(d) => Unkicked(d)' BY <1>2, <1>3, UnkickedSame
<1>5. \A d \in Conn \ {c} : conn'[d] = conn[d] /\ call'[d] = call[d]
   BY DEF Accept, Becomes, Call
<1>6. ~Names(c) BY <1>1, NamesKick DEF Tracking
<1>7. conn'[c].st \in {"refused", "login", "kick"} /\ conn'[c].uid = u /\ conn'[c].server = s
   BY DEF Accept, Becomes
<1>8. Asks(c)'
  <2>1. CASE conn'[c].st = "refused" /\ UNCHANGED call BY <1>1, <2>1 DEF Asks
  <2>2. CASE conn'[c].st = "login" /\ Call(c, "login", s, u, 0)
     BY <1>7, <2>2 DEF Asks, Call
  <2>3. CASE /\ conn'[c].st = "kick" /\ user_online[u] # None
             /\ Call(c, "kick", user_online[u].server, u, user_online[u].subid)
    <3>1. user_online[u] \in [server : Server, subid : Nat]
       BY <2>3 DEF TypeOK, LoginTypeOK
    <3>2. user_online[u] = [server |-> user_online[u].server, subid |-> user_online[u].subid]
       BY <3>1
    <3>3. /\ call'[c].op = "kick" /\ call'[c].st = "sent" /\ call'[c].uid = u
          /\ call'[c].server = user_online[u].server
          /\ call'[c].subid = user_online[u].subid
       BY <2>3 DEF Call
    <3> QED BY <1>2, <1>7, <2>3, <3>2, <3>3 DEF Asks
  <2> QED BY <2>1, <2>2, <2>3 DEF Accept, Becomes
<1> QED BY <1>1, <1>2, <1>4, <1>5, <1>6, <1>7, <1>8, TrackAt

\* the kick has returned,
LEMMA TrackKickReturn ==
  ASSUME TypeOK, Tracking, NEW c \in Conn, KickReturn(c), OnlyLogin
  PROVE  Tracking'
<1> DOMAIN call = Conn /\ DOMAIN conn = Conn BY OneLoginTables
<1>1. conn[c].st = "kick" /\ call[c].st = "ok" /\ call[c].op = "kick"
   BY DEF KickReturn, Tracking, Asked, Asks
<1>2. UNCHANGED <<users, user_online, notifyq, acked>>
   BY <1>1 DEF KickReturn, AfterKick, OnlyLogin, gateVars
<1>3. conn[c] \in [st : {"kick", "login", "ok", "refused"}, uid : Uid,
                   server : Server, subid : Nat]
   BY <1>1, ConnType DEF TypeOK
<1>4. NoKick BY <1>3, MasterKicks DEF LoginHandler
<1>5. \A d \in Conn : Unkicked(d) => Unkicked(d)' BY <1>2, <1>4, UnkickedSame
<1>6. \A d \in Conn \ {c} : conn'[d] = conn[d] /\ call'[d] = call[d]
   BY DEF KickReturn, Call
<1>7. ~Names(c) BY <1>1, NamesKick DEF Tracking
<1>8. /\ conn'[c].uid = conn[c].uid /\ conn'[c].server = conn[c].server
      /\ conn'[c].st \in {"refused", "login"}
      /\ conn'[c].st = "refused" => UNCHANGED call
      /\ conn'[c].st = "login" => Call(c, "login", conn[c].server, conn[c].uid, 0)
   BY <1>3 DEF KickReturn
<1>9. call'[c].st = "ok" \/ call'[c].op = "login" BY <1>1, <1>8 DEF Call
<1>10. Asks(c)' BY <1>1, <1>8 DEF Asks, Call
<1>11. /\ ~(conn[c].st = "login" /\ call[c].st = "ok") /\ conn'[c].st # "new"
       /\ ~(call'[c].op = "kick" /\ call'[c].st = "sent")
   BY <1>1, <1>8, <1>9
<1> QED BY <1>2, <1>5, <1>6, <1>7, <1>10, <1>11, TrackAt

\* a gate takes a login up or refuses it,
LEMMA TrackNewLogin ==
  ASSUME TypeOK, Tracking, OneLogin, NEW c \in Conn, OnlyGate,
         (\E a \in Agent : GateLogin(c, a)) \/ GateSpawn(c) \/ GateLoginError(c)
  PROVE  Tracking'
<1> DOMAIN call = Conn BY OneLoginTables
<1>1. call[c].op = "login" /\ call[c].st = "sent"
   BY DEF GateLogin, GateSpawn, GateLoginError, NewLogin, Called
<1>2. UNCHANGED <<users, user_online, conn, notifyq, acked>>
   BY DEF GateLogin, GateSpawn, GateLoginError, OnlyGate, loginVars
<1>3. NoKick BY GateKicks
<1>4. \A d \in Conn : Unkicked(d) => Unkicked(d)' BY <1>2, <1>3, UnkickedSame
<1>5. \/ call' = [call EXCEPT ![c].st = "serving"]
      \/ call' = [call EXCEPT ![c].st = "fail"]
   BY DEF GateLogin, GateSpawn, GateLoginError, NewLogin, Serve, Refuse
<1>6. \A d \in Conn \ {c} : call'[d] = call[d] BY <1>5
<1>7. call[c] \in CallRec BY <1>1, CalledType DEF TypeOK
<1>8. /\ call'[c].op = "login" /\ call'[c].uid = call[c].uid
      /\ call'[c].server = call[c].server
   BY <1>1, <1>5, <1>7 DEF CallRec
<1>9. conn[c].st # "new" BY <1>1 DEF OneLogin
<1>10. ~Names(c) BY <1>1, NamesKick DEF Tracking
<1>11. Asks(c)'
  <2>1. Asks(c) BY DEF Tracking, Asked
  <2> QED BY <1>1, <1>2, <1>8, <2>1 DEF Asks
<1> QED BY <1>1, <1>2, <1>4, <1>6, <1>8, <1>9, <1>10, <1>11, TrackAt

\* a kick has been carried out,
LEMMA TrackKickDone ==
  ASSUME TypeOK, Tracking, NEW c \in Conn, GateKickDone(c), OnlyGate
  PROVE  Tracking'
<1> DOMAIN call = Conn BY OneLoginTables
<1>1. UNCHANGED <<users, user_online, conn, notifyq>>
   BY DEF GateKickDone, OnlyGate, loginVars, gateVars
<1>2. NoKick BY GateKicks
<1>3. \A d \in Conn : d \in acked' => d \in acked BY DEF GateKickDone
<1>4. \A d \in Conn : Unkicked(d) => Unkicked(d)' BY <1>2, <1>3, UnkickedSame
<1>5. CASE UNCHANGED call BY <1>1, <1>2, <1>3, <1>5, TrackSame
<1>6. CASE call[c].op = "kick" /\ call[c].st = "serving"
  <2>1. call[c] \in CallRec BY <1>6, CallStType DEF TypeOK
  <2>2. /\ \A d \in Conn \ {c} : call'[d] = call[d]
        /\ call'[c].op = "kick" /\ call'[c].st = "ok" /\ call'[c].uid = call[c].uid
     BY <1>6, <2>1 DEF GateKickDone, Answer, CallRec
  <2>3. conn[c].st = "kick" /\ call[c].uid = conn[c].uid
     BY <1>6 DEF Tracking, Asked, Asks
  <2>4. ~Unkicked(c)
    <3>1. CASE c \in acked BY <3>1 DEF Unkicked
    <3>2. ASSUME NEW a \in Agent, Sent(a, Reply("logout", c)) PROVE ~Unkicked(c)
      <4>1. sent[a] \in Seq(GateMsg) /\ sent[a] # <<>> /\ Head(sent[a]) = Reply("logout", c)
         BY <3>2, LineType DEF Sent
      <4>2. Reply("logout", c) \in Range(sent[a]) BY <4>1, RangeTail
      <4>3. KickAt(a, c)
         BY <4>2 DEF KickAt, KickTaken, KickIn, IsKick, Reply
      <4> QED BY <4>3 DEF Unkicked
    <3> QED BY <3>1, <3>2 DEF GateKickDone
  <2>5. ~Names(c) BY <2>4 DEF Tracking, KicksOnce
  <2>6. Asks(c)' BY <1>1, <2>2, <2>3 DEF Asks
  <2> QED BY <1>1, <1>4, <2>2, <2>3, <2>5, <2>6, TrackAt
<1> QED BY <1>5, <1>6 DEF GateKickDone, Answer

\* the login server has recorded the player, or given up.
LEMMA TrackLoginReturn ==
  ASSUME TypeOK, Tracking, Registry, NEW c \in Conn, LoginReturn(c), OnlyLogin
  PROVE  Tracking'
<1> DOMAIN conn = Conn /\ DOMAIN user_online = Uid
   BY OneLoginTables DEF TypeOK, LoginTypeOK
<1> DEFINE u == conn[c].uid
           rec == [server |-> conn[c].server, subid |-> call[c].subid]
<1>1. /\ conn[c].st = "login"
      /\ UNCHANGED <<call, users, notifyq, acked>>
   BY DEF LoginReturn, OnlyLogin, fabricVars, gateVars
<1>2. conn[c] \in [st : {"kick", "login", "ok", "refused"}, uid : Uid,
                   server : Server, subid : Nat]
   BY <1>1, ConnType DEF TypeOK
<1>3. call[c].op = "login" /\ call[c].uid = u /\ call[c].server = conn[c].server
   BY <1>1 DEF Tracking, Asked, Asks
<1>4. NoKick BY <1>2, MasterKicks DEF LoginHandler
<1>5. \A d \in Conn : Unkicked(d) => Unkicked(d)' BY <1>1, <1>4, UnkickedSame
<1>6. \A d \in Conn \ {c} : conn'[d] = conn[d] BY DEF LoginReturn
<1>7. ~Names(c) BY <1>1, NamesKick DEF Tracking
<1>8. CASE call[c].st = "fail"
  <2>1. UNCHANGED user_online /\ conn'[c].st = "refused"
     BY <1>2, <1>8 DEF LoginReturn
  <2>2. Asks(c)' BY <1>1, <1>3, <2>1 DEF Asks
  <2> QED BY <1>1, <1>3, <1>5, <1>6, <1>7, <1>8, <2>1, <2>2, TrackAt
<1>9. CASE call[c].st = "ok"
  <2>1. call[c] \in CallRec BY <1>9, CallStType DEF TypeOK
  <2>2. /\ rec # None /\ rec.server = conn[c].server
        /\ user_online[u] = None /\ u \in Uid
        /\ \A s \in Server, n \in Nat : [server |-> s, subid |-> n] # None
     BY <1>1, <1>2, <2>1, NoneAssumption DEF Registry, Nowhere, CallRec
  <2>3. /\ user_online'[u] = rec
        /\ \A v \in Uid \ {u} : user_online'[v] = user_online[v]
        /\ conn'[c].st = "ok"
     BY <1>2, <1>9 DEF LoginReturn, Record
  <2> HIDE DEF u, rec
  <2>4. ASSUME NEW d \in Conn, NEW p, Here(d, p)
        PROVE  /\ p[2] = u => d = c /\ p[1] = conn[c].server
               /\ p[2] # u => Here(d, p)'
    <3>1. d = c => p[2] = u /\ p[1] = conn[c].server BY <2>4, <1>3 DEF Here, u
    <3>2. p[2] = u => d = c BY <2>4, <1>1, SamePlayer DEF Here, u
    <3>3. d # c => Here(d, p)' BY <2>4, <1>1, <1>6 DEF Here
    <3> QED BY <3>1, <3>2, <3>3
  <2>5. Follows'
    <3> SUFFICES ASSUME NEW p \in Seat, users[p] # None PROVE Followed(p)'
       BY <1>1 DEF Follows
    <3>1. Followed(p) /\ p[2] \in Uid /\ p[1] \in Server /\ users[p].subid \in Nat
       BY SeatType DEF Tracking, Follows, Seat, UserRec
    <3>2. CASE p[2] = u
      <4>1. PICK d \in Conn : Here(d, p) /\ call[d].subid = users[p].subid
         BY <2>2, <3>1, <3>2 DEF Followed
      <4>2. d = c /\ p[1] = conn[c].server BY <2>4, <3>2, <4>1
      <4>3. rec = [server |-> p[1], subid |-> users[p].subid] BY <4>1, <4>2 DEF rec
      <4> QED BY <1>1, <2>3, <3>2, <4>3 DEF Followed
    <3>3. CASE p[2] # u
      <4>1. user_online'[p[2]] = user_online[p[2]] BY <2>3, <3>1, <3>3
      <4>2. \A d \in Conn : Here(d, p) => Here(d, p)' BY <2>4, <3>3
      <4> QED BY <1>1, <3>1, <4>1, <4>2 DEF Followed
    <3> QED BY <3>2, <3>3
  <2>6. Asked'
    <3> SUFFICES ASSUME NEW d \in Conn PROVE Asks(d)' BY DEF Asked
    <3>1. CASE d = c BY <1>1, <1>3, <2>3, <3>1 DEF Asks
    <3>2. CASE d # c
      <4>1. conn'[d] = conn[d] /\ Asks(d) BY <1>6, <3>2 DEF Tracking, Asked
      <4>2. ASSUME conn[d].st = "kick"
            PROVE  user_online'[conn[d].uid] = user_online[conn[d].uid]
        <5>1. conn[d].uid \in Uid BY <4>2, ConnType DEF TypeOK
        <5>2. conn[d].uid # u BY <1>1, <3>2, <4>2, SamePlayer DEF u
        <5> QED BY <2>3, <5>1, <5>2
      <4> QED BY <1>1, <4>1, <4>2 DEF Asks
    <3> QED BY <3>1, <3>2
  <2>7. Noticed'
    <3> SUFFICES ASSUME NEW s \in Server, NEW i \in DOMAIN notifyq[s], NEW n,
                        n = notifyq[s][i]
                 PROVE  Tells(n, s)'
       BY <1>1 DEF Noticed
    <3>1. Tells(n, s) /\ n.uid \in Uid
      <4>1. notifyq[s] \in Seq(NotifyMsg) BY DEF TypeOK, FabricTypeOK
      <4>2. n \in NotifyMsg BY <4>1
      <4> QED BY <4>2 DEF Tracking, Noticed, NotifyMsg
    <3>2. CASE Kicks(n, s)
      <4>1. n.by \in Conn /\ n.by # c BY <1>1, <3>2 DEF Kicks
      <4>2. conn'[n.by] = conn[n.by] BY <1>6, <4>1
      <4>3. Kicks(n, s)' BY <1>1, <3>2, <4>2 DEF Kicks
      <4> QED BY <1>1, <3>1, <4>3 DEF Tells
    <3>3. CASE Leaves(n, s)
      <4>1. CASE n.uid = u
        <5>1. PICK d \in Conn : Here(d, <<s, n.uid>>)
           BY <2>2, <3>3, <4>1 DEF Leaves
        <5>2. s = conn[c].server BY <2>4, <4>1, <5>1
        <5>3. Leaves(n, s)' BY <2>2, <2>3, <3>3, <4>1, <5>2 DEF Leaves
        <5> QED BY <1>1, <3>1, <5>3 DEF Tells
      <4>2. CASE n.uid # u
        <5>1. user_online'[n.uid] = user_online[n.uid] BY <2>3, <3>1, <4>2
        <5>2. \A d \in Conn : Here(d, <<s, n.uid>>) => Here(d, <<s, n.uid>>)'
           BY <2>4, <4>2
        <5>3. Leaves(n, s)' BY <3>3, <5>1, <5>2 DEF Leaves
        <5> QED BY <1>1, <3>1, <5>3 DEF Tells
      <4> QED BY <4>1, <4>2
    <3> QED BY <3>1, <3>2, <3>3 DEF Tells
  <2>8. Apart' BY <1>1 DEF Tracking, Apart
  <2>9. KicksOnce'
    <3> SUFFICES ASSUME NEW d \in Conn
                 PROVE  /\ conn'[d].st = "new" => Unkicked(d)'
                        /\ call'[d].op = "kick" /\ call'[d].st = "sent" => Unkicked(d)'
                        /\ Names(d)' => Unkicked(d)'
       BY DEF KicksOnce
    <3>1. Names(d)' => Names(d) BY <1>1 DEF Names
    <3>2. conn'[d].st = "new" => conn[d].st = "new" BY <1>6, <2>3
    <3> QED BY <1>1, <1>5, <3>1, <3>2 DEF Tracking, KicksOnce
  <2> QED BY <2>5, <2>6, <2>7, <2>8, <2>9 DEF Tracking
<1> QED BY <1>8, <1>9 DEF LoginReturn

\* All logout calls of a player come from one gate.
LEMMA OneGate ==
  ASSUME Tracking, Registry, NEW s \in Server, NEW t \in Server, NEW m, NEW n,
         Tells(m, s), Tells(n, t), m.uid = n.uid
  PROVE  s = t
<1> DEFINE u == m.uid
<1>1. ASSUME NEW c \in Conn, NEW p, Here(c, p)
      PROVE  conn[c].st = "login" /\ conn[c].uid = p[2] /\ user_online[p[2]] = None
             /\ call[c].server = p[1]
   BY <1>1 DEF Here, Registry, Nowhere
<1>2. ASSUME NEW a \in Server, NEW b \in Server, NEW k, NEW l,
             Kicks(k, a), k.uid = u, l.uid = u, Kicks(l, b) \/ Leaves(l, b)
      PROVE  a = b
  <2>1. /\ k.by \in Conn /\ conn[k.by].st = "kick" /\ conn[k.by].uid = u
        /\ call[k.by].st = "serving" /\ call[k.by].server = a
     BY <1>2 DEF Kicks
  <2>2. user_online[u] # None => user_online[u].server = a
    <3>1. call[k.by].op = "kick" BY <2>1 DEF Tracking, Asked, Asks
    <3>2. user_online[u] \in {None, [server |-> a, subid |-> call[k.by].subid]}
       BY <2>1, <3>1 DEF Tracking, Asked, Asks
    <3> QED BY <3>2
  <2>3. CASE Kicks(l, b)
    <3>1. l.by \in Conn /\ conn[l.by].st = "kick" /\ conn[l.by].uid = u /\ call[l.by].server = b
       BY <1>2, <2>3 DEF Kicks
    <3>2. k.by = l.by BY <2>1, <3>1, SamePlayer
    <3> QED BY <2>1, <3>1, <3>2
  <2>4. ASSUME NEW c \in Conn, Here(c, <<b, l.uid>>) PROVE FALSE
    <3>1. conn[c].st = "login" /\ conn[c].uid = u BY <1>1, <1>2, <2>4
    <3>2. c = k.by BY <2>1, <3>1, SamePlayer
    <3> QED BY <2>1, <3>1, <3>2
  <2> QED BY <1>2, <2>2, <2>3, <2>4 DEF Leaves
<1>3. CASE Kicks(m, s) BY <1>2, <1>3 DEF Tells
<1>4. CASE Kicks(n, t) BY <1>2, <1>4 DEF Tells
<1>5. CASE Leaves(m, s) /\ Leaves(n, t)
  <2>1. CASE user_online[u] # None
    <3>1. \A c \in Conn : \A a : ~Here(c, <<a, u>>) BY <1>1, <2>1
    <3> QED BY <1>5, <3>1 DEF Leaves
  <2>2. CASE user_online[u] = None
    <3>1. PICK c \in Conn : Here(c, <<s, u>>) BY <1>5, <2>2 DEF Leaves
    <3>2. PICK d \in Conn : Here(d, <<t, u>>) BY <1>5, <2>2 DEF Leaves
    <3>3. /\ conn[c].st = "login" /\ conn[c].uid = u /\ call[c].server = s
          /\ conn[d].st = "login" /\ conn[d].uid = u /\ call[d].server = t
       BY <1>1, <3>1, <3>2
    <3>4. c = d BY <3>3, SamePlayer
    <3> QED BY <3>3, <3>4
  <2> QED BY <2>1, <2>2
<1> QED BY <1>3, <1>4, <1>5 DEF Tells

\* A logout call that has been carried out leaves no other one of the player
\* but that of a kick.
LEMMA TrackLogout ==
  ASSUME TypeOK, Tracking, Registry, NEW s \in Server, LogoutCommand(s)
  PROVE  Tracking'
<1> DEFINE h == Head(notifyq[s])
           u == h.uid
<1>1. /\ notifyq[s] # <<>> /\ acked' = acked \cup ({h.by} \ {None})
      /\ UNCHANGED <<users, conn, call>>
   BY DEF LogoutCommand, Logout, Ack, OnlyLogin, gateVars
<1>2. notifyq[s] \in Seq(NotifyMsg) /\ h \in NotifyMsg
   BY <1>1, HeadNotify DEF TypeOK, FabricTypeOK
<1>3. /\ user_online'[u] = None
      /\ \A v \in Uid \ {u} : user_online'[v] = user_online[v]
   BY <1>2 DEF LogoutCommand, Logout, TypeOK, LoginTypeOK, NotifyMsg
<1>4. /\ notifyq'[s] = Tail(notifyq[s])
      /\ \A t \in Server \ {s} : notifyq'[t] = notifyq[t]
   BY DEF LogoutCommand, Logout, TypeOK, FabricTypeOK
<1>5. /\ 1 \in DOMAIN notifyq[s] /\ notifyq[s][1] = h
      /\ \A i \in DOMAIN Tail(notifyq[s]) :
           i + 1 \in DOMAIN notifyq[s] /\ Tail(notifyq[s])[i] = notifyq[s][i + 1] /\ i \in Nat \ {0}
   BY <1>1, <1>2
<1> DEFINE at(t, i) == IF t = s THEN i + 1 ELSE i
<1>6. \A t \in Server : \A i \in DOMAIN notifyq'[t] :
        /\ at(t, i) \in DOMAIN notifyq[t] /\ notifyq'[t][i] = notifyq[t][at(t, i)]
        /\ i \in Nat
  <2>1. \A t \in Server : \A i \in DOMAIN notifyq[t] : i \in Nat
     BY DEF TypeOK, FabricTypeOK
  <2> QED BY <1>4, <1>5, <2>1
<1>7. Tells(h, s) BY <1>5 DEF Tracking, Noticed
<1>8. NoKick BY MasterKicks
<1> HIDE DEF at, h, u
<1>9. ASSUME NEW t \in Server, NEW i \in DOMAIN notifyq'[t], NEW n, n = notifyq'[t][i]
      PROVE  Tells(n, t) /\ n.uid \in Uid /\ (n.uid = u => Kicks(n, t) /\ t = s)
  <2>1. at(t, i) \in DOMAIN notifyq[t] /\ n = notifyq[t][at(t, i)] BY <1>6, <1>9
  <2>2. Tells(n, t) BY <2>1 DEF Tracking, Noticed
  <2>3. n.uid \in Uid
    <3>1. notifyq[t] \in Seq(NotifyMsg) BY DEF TypeOK, FabricTypeOK
    <3>2. n \in NotifyMsg BY <2>1, <3>1
    <3> QED BY <3>2 DEF NotifyMsg
  <2>4. ASSUME n.uid = u PROVE t = s /\ Kicks(n, t)
    <3>1. t = s BY <1>7, <2>2, <2>4, OneGate DEF u
    <3>2. 1 < at(t, i) /\ at(t, i) \in DOMAIN notifyq[s]
      <4>1. at(t, i) = i + 1 /\ i \in DOMAIN Tail(notifyq[s]) BY <1>4, <3>1 DEF at
      <4> QED BY <1>5, <4>1
    <3>3. n.by \in Conn
       BY <1>5, <2>1, <2>4, <3>1, <3>2 DEF Tracking, Apart, u
    <3>4. n.by \notin Leaver BY <3>3, CallerAssumption DEF Leaver
    <3> QED BY <2>2, <3>1, <3>4 DEF Tells, Leaves
  <2> QED BY <2>2, <2>3, <2>4
<1>10. \A c \in Conn : \A p : Here(c, p)' <=> Here(c, p) BY <1>1 DEF Here
<1>11. Follows'
  <2> SUFFICES ASSUME NEW p \in Seat, users[p] # None PROVE Followed(p)'
     BY <1>1 DEF Follows
  <2>1. Followed(p) /\ p[2] \in Uid /\ p[1] \in Server /\ p = <<p[1], p[2]>>
     BY DEF Tracking, Follows, Seat
  <2>2. p[2] # u BY <1>7, <2>1 DEF Tells, u
  <2>3. user_online'[p[2]] = user_online[p[2]] BY <1>3, <2>1, <2>2
  <2> QED BY <1>1, <1>10, <2>1, <2>3 DEF Followed
<1>12. Asked'
  <2> SUFFICES ASSUME NEW c \in Conn PROVE Asks(c)' BY DEF Asked
  <2>1. Asks(c) BY DEF Tracking, Asked
  <2>2. conn[c].st = "kick" => conn[c].uid \in Uid BY ConnType DEF TypeOK
  <2>3. conn[c].st = "kick" => user_online'[conn[c].uid] \in {None, user_online[conn[c].uid]}
     BY <1>3, <2>2
  <2> QED BY <1>1, <2>1, <2>3 DEF Asks
<1>13. Noticed'
  <2> SUFFICES ASSUME NEW t \in Server, NEW i \in DOMAIN notifyq'[t], NEW n,
                      n = notifyq'[t][i]
               PROVE  Tells(n, t)'
     BY DEF Noticed
  <2>1. Tells(n, t) /\ n.uid \in Uid /\ (n.uid = u => Kicks(n, t)) BY <1>9
  <2>2. CASE Kicks(n, t) BY <1>1, <2>1, <2>2 DEF Kicks, Tells
  <2>3. CASE Leaves(n, t) /\ n.uid # u
    <3>1. user_online'[n.uid] = user_online[n.uid] BY <1>3, <2>1, <2>3
    <3>2. Leaves(n, t)' BY <1>10, <2>3, <3>1 DEF Leaves
    <3> QED BY <1>1, <2>1, <3>2 DEF Tells
  <2> QED BY <2>1, <2>2, <2>3 DEF Tells
<1>14. Apart'
  <2> SUFFICES ASSUME NEW t \in Server, NEW i \in DOMAIN notifyq'[t],
                      NEW j \in DOMAIN notifyq'[t], i < j,
                      notifyq'[t][i].uid = notifyq'[t][j].uid
               PROVE  notifyq'[t][i].by \in Leaver /\ notifyq'[t][j].by \in Conn
     BY DEF Apart
  <2>1. at(t, i) < at(t, j) BY <1>6 DEF at
  <2> QED BY <1>6, <2>1 DEF Tracking, Apart
<1>15. KicksOnce'
  <2> SUFFICES ASSUME NEW c \in Conn
               PROVE  /\ conn[c].st = "new" => Unkicked(c)'
                      /\ call[c].op = "kick" /\ call[c].st = "sent" => Unkicked(c)'
                      /\ Names(c)' => Unkicked(c)'
     BY <1>1 DEF KicksOnce
  <2>1. Names(c)' => Names(c) BY <1>6 DEF Names
  <2>2. CASE h.by = c
    <3>1. Names(c) BY <1>5, <2>2 DEF Names
    <3>2. conn[c].st = "kick" /\ call[c].st = "serving" BY <3>1, NamesKick DEF Tracking
    <3>3. ASSUME NEW t \in Server, NEW i \in DOMAIN notifyq'[t], notifyq'[t][i].by = c
          PROVE  FALSE
      <4>1. c \notin Leaver BY CallerAssumption DEF Leaver
      <4>2. Tells(notifyq'[t][i], t) BY <1>9
      <4>3. Kicks(notifyq'[t][i], t) /\ Kicks(h, s)
         BY <1>7, <2>2, <3>3, <4>1, <4>2 DEF Tells, Leaves
      <4>4. t = s /\ notifyq'[t][i].uid = h.uid BY <2>2, <3>3, <4>3 DEF Kicks
      <4>5. /\ 1 < at(t, i) /\ at(t, i) \in DOMAIN notifyq[s]
            /\ notifyq'[t][i] = notifyq[s][at(t, i)]
        <5>1. at(t, i) = i + 1 /\ i \in DOMAIN Tail(notifyq[s]) BY <1>4, <4>4 DEF at
        <5> QED BY <1>5, <1>6, <4>4, <5>1
      <4>6. h.by \in Leaver BY <1>5, <4>4, <4>5 DEF Tracking, Apart
      <4> QED BY <2>2, <4>1, <4>6
    <3>4. ~Names(c)' BY <3>3 DEF Names
    <3> QED BY <3>2, <3>4
  <2>3. CASE h.by # c
    <3>1. Unkicked(c) => Unkicked(c)' BY <1>1, <1>8, <2>3, UnkickedSame
    <3> QED BY <2>1, <3>1 DEF Tracking, KicksOnce
  <2> QED BY <2>2, <2>3
<1> QED BY <1>11, <1>12, <1>13, <1>14, <1>15 DEF Tracking

\* A logout call is sent behind the others.
LEMMA NotifyTells ==
  ASSUME TypeOK, Tracking, NEW s \in Server, NEW u \in Uid, NEW by \in Caller,
         Notify(s, u, by),
         \A t \in Server : \A i \in DOMAIN notifyq[t] : \A n :
           n = notifyq[t][i] => Tells(n, t)',
         \A n : n = [uid |-> u, by |-> by] => Tells(n, s)',
         \A i \in DOMAIN notifyq[s] :
           notifyq[s][i].uid = u => notifyq[s][i].by \in Leaver /\ by \in Conn
  PROVE  /\ Noticed' /\ Apart'
         /\ \A c \in Conn : Names(c)' => Names(c) \/ c = by
<1> DEFINE m == [uid |-> u, by |-> by]
<1>1. notifyq'[s] = Append(notifyq[s], m) /\ \A t \in Server \ {s} : notifyq'[t] = notifyq[t]
   BY DEF Notify, TypeOK, FabricTypeOK
<1>2. notifyq[s] \in Seq(NotifyMsg) /\ m.uid = u /\ m.by = by
   BY DEF TypeOK, FabricTypeOK
<1> HIDE DEF m
<1>3. \A t \in Server : \A i \in DOMAIN notifyq'[t] :
        \/ i \in DOMAIN notifyq[t] /\ notifyq'[t][i] = notifyq[t][i]
        \/ t = s /\ i = Len(notifyq[s]) + 1 /\ notifyq'[t][i] = m
  <2>1. \A i \in DOMAIN Append(notifyq[s], m) :
          \/ i \in DOMAIN notifyq[s] /\ Append(notifyq[s], m)[i] = notifyq[s][i]
          \/ i = Len(notifyq[s]) + 1 /\ Append(notifyq[s], m)[i] = m
     BY <1>2
  <2> QED BY <1>1, <2>1
<1>4. Noticed'
  <2> SUFFICES ASSUME NEW t \in Server, NEW i \in DOMAIN notifyq'[t], NEW n,
                      n = notifyq'[t][i]
               PROVE  Tells(n, t)'
     BY DEF Noticed
  <2> QED BY <1>3 DEF m
<1>5. Apart'
  <2> SUFFICES ASSUME NEW t \in Server, NEW i \in DOMAIN notifyq'[t],
                      NEW j \in DOMAIN notifyq'[t], i < j,
                      notifyq'[t][i].uid = notifyq'[t][j].uid
               PROVE  notifyq'[t][i].by \in Leaver /\ notifyq'[t][j].by \in Conn
     BY DEF Apart
  <2>1. DOMAIN notifyq[s] = 1..Len(notifyq[s]) /\ Len(notifyq[s]) \in Nat BY <1>2
  <2>2. CASE j \in DOMAIN notifyq[t] /\ notifyq'[t][j] = notifyq[t][j]
    <3>1. ~(t = s /\ i = Len(notifyq[s]) + 1) BY <2>1, <2>2
    <3>2. i \in DOMAIN notifyq[t] /\ notifyq'[t][i] = notifyq[t][i] BY <1>3, <3>1
    <3> QED BY <2>2, <3>2 DEF Tracking, Apart
  <2>3. CASE t = s /\ j = Len(notifyq[s]) + 1 /\ notifyq'[t][j] = m
    <3>1. i \in DOMAIN notifyq[s] /\ notifyq'[t][i] = notifyq[s][i]
       BY <1>3, <2>1, <2>3
    <3> QED BY <1>2, <2>3, <3>1
  <2> QED BY <1>3, <2>2, <2>3
<1>6. ASSUME NEW c \in Conn, Names(c)' PROVE Names(c) \/ c = by
   BY <1>2, <1>3, <1>6 DEF Names
<1> QED BY <1>4, <1>5, <1>6

\* kick_handler passes a kick on, or tells the login server; it never finds
\* another session than the one asked for.
LEMMA TrackKick ==
  ASSUME TypeOK, Tracking, Registry, NEW c \in Conn, GateKick(c), OnlyGate
  PROVE  Tracking'
<1> DOMAIN call = Conn BY OneLoginTables
<1>1. /\ call[c].op = "kick" /\ call[c].st = "sent"
      /\ UNCHANGED <<users, user_online, conn, acked>>
   BY DEF GateKick, Called, OnlyGate, loginVars, gateVars
<1>2. PICK s \in Server, u \in Uid : s = call[c].server /\ u = call[c].uid
  <2>1. call[c] \in CallRec BY <1>1, CalledType DEF TypeOK
  <2> QED BY <2>1 DEF CallRec
<1>3. /\ conn[c].st = "kick" /\ conn[c].uid = u
      /\ user_online[u] \in {None, [server |-> s, subid |-> call[c].subid]}
   BY <1>1, <1>2 DEF Tracking, Asked, Asks
<1>4. Unkicked(c) BY <1>1 DEF Tracking, KicksOnce
<1>5. ~Names(c) BY <1>1, NamesKick DEF Tracking
<1>6. \A d \in Conn : \A p : p[2] = u => ~Here(d, p)
  <2> SUFFICES ASSUME NEW d \in Conn, NEW p, p[2] = u, Here(d, p) PROVE FALSE OBVIOUS
  <2>1. conn[d].st = "login" /\ conn[d].uid = u BY DEF Here
  <2>2. d = c BY <1>3, <2>1, SamePlayer
  <2> QED BY <1>3, <2>1, <2>2
<1>7. ASSUME NEW t \in Server, users[t, u] # None
      PROVE  t = s /\ users[t, u].subid = call[c].subid
  <2> DEFINE p == <<t, u>>
  <2>1. p \in Seat /\ p[1] = t /\ p[2] = u BY <1>2 DEF Seat
  <2>2. Followed(p) BY <1>7, <2>1 DEF Tracking, Follows
  <2>3. user_online[u] = [server |-> t, subid |-> users[p].subid]
     BY <1>6, <2>1, <2>2 DEF Followed
  <2>4. users[p].subid \in Nat BY <1>7, <2>1, SeatType DEF UserRec
  <2>5. user_online[u] # None BY <2>3, <2>4, NoneAssumption
  <2>6. [server |-> t, subid |-> users[p].subid] = [server |-> s, subid |-> call[c].subid]
     BY <1>3, <2>3, <2>5
  <2> QED BY <2>6
<1>8. ~(users[s, u] # None /\ ~Has(s, u, call[c].subid)) BY <1>2, <1>7 DEF Has
<1>9. Serve(c) BY <1>2, <1>8 DEF GateKick
<1>10. /\ \A d \in Conn \ {c} : call'[d] = call[d]
       /\ call'[c].op = "kick" /\ call'[c].st = "serving" /\ call'[c].uid = u
       /\ call'[c].server = s /\ call'[c].subid = call[c].subid
  <2>1. call[c] \in CallRec BY <1>1, CalledType DEF TypeOK
  <2> QED BY <1>1, <1>2, <1>9, <2>1 DEF Serve, CallRec
<1>11. \A d \in Conn \ {c} : Unkicked(d) => Unkicked(d)'
   BY <1>1, KickKicks DEF Unkicked
<1>12. Asks(c)' BY <1>1, <1>3, <1>10 DEF Asks
<1>13. CASE UNCHANGED notifyq
   BY <1>1, <1>3, <1>5, <1>10, <1>11, <1>12, <1>13, TrackAt
<1>14. CASE users[s, u] = None /\ Notify(s, u, c) /\ UNCHANGED mbox
  <2>1. Unkicked(c)'
    <3>1. NoKick BY <1>14, KickKicks
    <3> QED BY <1>1, <1>4, <3>1, UnkickedSame
  <2>2. \A d \in Conn : \A p : Here(d, p) => Here(d, p)' /\ d # c
    <3> SUFFICES ASSUME NEW d \in Conn, NEW p, Here(d, p) PROVE Here(d, p)' /\ d # c
       OBVIOUS
    <3>1. d # c BY <1>3 DEF Here
    <3> QED BY <1>1, <1>10, <3>1 DEF Here
  <2>3. Follows'
    <3> SUFFICES ASSUME NEW p \in Seat, users[p] # None PROVE Followed(p)'
       BY <1>1 DEF Follows
    <3>1. Followed(p) BY DEF Tracking, Follows
    <3> QED BY <1>1, <1>10, <2>2, <3>1 DEF Followed
  <2>4. Asked'
    <3> SUFFICES ASSUME NEW d \in Conn, d # c PROVE Asks(d)' BY <1>12 DEF Asked
    <3>1. call'[d] = call[d] /\ Asks(d) BY <1>10 DEF Tracking, Asked
    <3> QED BY <1>1, <3>1 DEF Asks
  <2>5. ASSUME NEW t \in Server, NEW i \in DOMAIN notifyq[t], NEW n, n = notifyq[t][i]
        PROVE  Tells(n, t)'
    <3>1. Tells(n, t) /\ n.by # c BY <1>5, <2>5 DEF Tracking, Noticed, Names
    <3>2. Kicks(n, t) => Kicks(n, t)' BY <1>1, <1>10, <3>1 DEF Kicks
    <3>3. Leaves(n, t) => Leaves(n, t)' BY <1>1, <2>2 DEF Leaves
    <3> QED BY <1>1, <3>1, <3>2, <3>3 DEF Tells
  <2>6. ASSUME NEW n, n = [uid |-> u, by |-> c] PROVE Tells(n, s)'
    <3>1. \A t \in Server : users[t, u] = None BY <1>7, <1>14
    <3> QED BY <1>1, <1>3, <1>10, <2>6, <3>1 DEF Tells, Kicks
  <2>7. ASSUME NEW i \in DOMAIN notifyq[s], notifyq[s][i].uid = u
        PROVE  notifyq[s][i].by \in Leaver
    <3> DEFINE n == notifyq[s][i]
    <3>1. Tells(n, s) /\ n.by # c BY <1>2, <1>5 DEF Tracking, Noticed, Names
    <3>2. ~Kicks(n, s)
      <4> SUFFICES ASSUME Kicks(n, s) PROVE FALSE OBVIOUS
      <4>1. n.by \in Conn /\ conn[n.by].st = "kick" /\ conn[n.by].uid = u
         BY <2>7 DEF Kicks
      <4>2. n.by = c BY <1>3, <4>1, SamePlayer
      <4> QED BY <3>1, <4>2
    <3> QED BY <3>1, <3>2 DEF Tells, Leaves
  <2>8. c \in Caller BY DEF Caller
  <2>9. /\ Noticed' /\ Apart'
        /\ \A d \in Conn : Names(d)' => Names(d) \/ d = c
     BY <1>2, <1>14, <2>5, <2>6, <2>7, <2>8, NotifyTells
  <2>10. KicksOnce'
    <3> SUFFICES ASSUME NEW d \in Conn
                 PROVE  /\ conn[d].st = "new" => Unkicked(d)'
                        /\ call'[d].op = "kick" /\ call'[d].st = "sent" => Unkicked(d)'
                        /\ Names(d)' => Unkicked(d)'
       BY <1>1 DEF KicksOnce
    <3>1. CASE d = c BY <2>1, <3>1
    <3>2. CASE d # c
      <4>1. call'[d] = call[d] /\ (Unkicked(d) => Unkicked(d)') /\ (Names(d)' => Names(d))
         BY <1>10, <1>11, <2>9, <3>2
      <4> QED BY <4>1 DEF Tracking, KicksOnce
    <3> QED BY <3>1, <3>2
  <2> QED BY <2>3, <2>4, <2>9, <2>10 DEF Tracking
<1> QED BY <1>2, <1>8, <1>13, <1>14 DEF GateKick

\* login_handler has the answer of the agent, and returns the subid of the
\* session: nobody has moved the counter.
LEMMA TrackLoginDone ==
  ASSUME TypeOK, OneLogin, Tracking, Registry, Serving, Undisturbed,
         NEW c \in Conn, GateLoginDone(c), OnlyGate
  PROVE  Tracking'
<1> DOMAIN call = Conn BY OneLoginTables
<1>1. /\ pending[c].st = "login"
      /\ UNCHANGED <<user_online, conn, notifyq, acked>>
   BY DEF GateLoginDone, OnlyGate, loginVars
<1>2. PICK s \in Server, u \in Uid : s = pending[c].server /\ u = pending[c].uid
   BY <1>1, PendingLogin DEF TypeOK
<1>3. /\ call[c].op = "login" /\ call[c].st = "serving"
      /\ call[c].uid = u /\ call[c].server = s
      /\ conn[c].st = "login" /\ conn[c].uid = u
  <2>1. /\ call[c].op = "login" /\ call[c].st = "serving"
        /\ call[c].uid = u /\ call[c].server = s
     BY <1>1, <1>2 DEF OneLogin, Serving, Serves
  <2> QED BY <2>1 DEF Serving, Waits
<1>4. user_online[u] = None BY <1>3 DEF Registry, Nowhere
<1>5. /\ \A d \in Conn \ {c} : call'[d] = call[d]
      /\ call'[c].op = "login" /\ call'[c].st = "ok" /\ call'[c].uid = u
      /\ call'[c].server = s /\ call'[c].subid = pending[c].subid
  <2>1. call[c] \in CallRec BY <1>3, CallStType DEF TypeOK
  <2>2. internal_id[s] = pending[c].subid BY <1>1, <1>2 DEF Undisturbed
  <2>3. call' = [call EXCEPT ![c].st = "ok", ![c].subid = pending[c].subid]
     BY <1>2, <1>3, <2>2 DEF GateLoginDone, Answer
  <2> QED BY <1>3, <2>1, <2>3 DEF CallRec
<1>6. NoKick BY GateKicks
<1>7. \A d \in Conn : Unkicked(d) => Unkicked(d)' BY <1>1, <1>6, UnkickedSame
<1>8. /\ users'[<<s, u>>].subid = pending[c].subid
      /\ \A p \in Seat \ {<<s, u>>} : users'[p] = users[p]
  <2>1. users' = [users EXCEPT ![<<s, u>>] =
                    [agent |-> pending[c].agent, subid |-> pending[c].subid, name |-> c]]
     BY <1>2 DEF GateLoginDone
  <2> QED BY <2>1 DEF Seat, TypeOK, GateTypeOK
<1>9. Here(c, <<s, u>>)' BY <1>1, <1>3, <1>5 DEF Here
<1>10. ASSUME NEW d \in Conn, NEW p, Here(d, p)
       PROVE  Here(d, p)' /\ call'[d].subid = call[d].subid /\ p[2] # u
  <2>1. d # c BY <1>3, <1>10 DEF Here
  <2>2. p[2] # u BY <1>3, <1>10, <2>1, SamePlayer DEF Here
  <2> QED BY <1>1, <1>5, <1>10, <2>1, <2>2 DEF Here
<1>11. Follows'
  <2> SUFFICES ASSUME NEW p \in Seat, users'[p] # None PROVE Followed(p)'
     BY DEF Follows
  <2>1. CASE p = <<s, u>> BY <1>5, <1>8, <1>9, <2>1 DEF Followed
  <2>2. CASE p # <<s, u>>
    <3>1. users'[p] = users[p] /\ Followed(p) BY <1>8, <2>2 DEF Tracking, Follows
    <3> QED BY <1>1, <1>10, <3>1 DEF Followed
  <2> QED BY <2>1, <2>2
<1>12. Asked'
  <2> SUFFICES ASSUME NEW d \in Conn PROVE Asks(d)' BY DEF Asked
  <2>1. Asks(d) BY DEF Tracking, Asked
  <2>2. CASE d = c BY <1>1, <1>3, <1>5, <2>1, <2>2 DEF Asks
  <2>3. CASE d # c
    <3>1. call'[d] = call[d] BY <1>5, <2>3
    <3> QED BY <1>1, <2>1, <3>1 DEF Asks
  <2> QED BY <2>2, <2>3
<1>13. Noticed'
  <2> SUFFICES ASSUME NEW t \in Server, NEW i \in DOMAIN notifyq[t], NEW n,
                      n = notifyq[t][i]
               PROVE  Tells(n, t)'
     BY <1>1 DEF Noticed
  <2>1. Tells(n, t) /\ n.uid \in Uid
    <3>1. notifyq[t] \in Seq(NotifyMsg) BY DEF TypeOK, FabricTypeOK
    <3>2. n \in NotifyMsg BY <3>1
    <3> QED BY <3>2 DEF Tracking, Noticed, NotifyMsg
  <2>2. Kicks(n, t) => Kicks(n, t)' /\ n.uid # u
    <3> SUFFICES ASSUME Kicks(n, t) PROVE Kicks(n, t)' /\ n.uid # u OBVIOUS
    <3>1. n.by \in Conn /\ conn[n.by].st = "kick" /\ conn[n.by].uid = n.uid BY DEF Kicks
    <3>2. n.by # c BY <1>3, <3>1
    <3>3. n.uid # u BY <1>3, <3>1, <3>2, SamePlayer
    <3>4. call'[n.by] = call[n.by] BY <1>5, <3>1, <3>2
    <3> QED BY <1>1, <3>3, <3>4 DEF Kicks
  <2>3. Leaves(n, t) => Leaves(n, t)' /\ n.uid # u
    <3> SUFFICES ASSUME Leaves(n, t) PROVE Leaves(n, t)' /\ n.uid # u OBVIOUS
    <3>1. CASE user_online[n.uid] # None /\ user_online[n.uid].server = t
       BY <1>1, <1>4, <3>1 DEF Leaves
    <3>2. ASSUME NEW d \in Conn, Here(d, <<t, n.uid>>)
          PROVE  Leaves(n, t)' /\ n.uid # u
      <4>1. Here(d, <<t, n.uid>>)' /\ n.uid # u BY <1>10, <3>2
      <4> QED BY <1>1, <4>1 DEF Leaves
    <3> QED BY <3>1, <3>2 DEF Leaves
  <2>4. n.uid # u BY <2>1, <2>2, <2>3 DEF Tells
  <2>5. \A q \in Server : users'[q, n.uid] = None
    <3> SUFFICES ASSUME NEW q \in Server PROVE users'[q, n.uid] = None OBVIOUS
    <3>1. <<q, n.uid>> \in Seat \ {<<s, u>>} BY <2>1, <2>4 DEF Seat
    <3> QED BY <1>8, <2>1, <3>1 DEF Tells
  <2> QED BY <2>1, <2>2, <2>3, <2>5 DEF Tells
<1>14. Apart' BY <1>1 DEF Tracking, Apart
<1>15. KicksOnce'
  <2> SUFFICES ASSUME NEW d \in Conn
               PROVE  /\ conn[d].st = "new" => Unkicked(d)'
                      /\ call'[d].op = "kick" /\ call'[d].st = "sent" => Unkicked(d)'
                      /\ Names(d)' => Unkicked(d)'
     BY <1>1 DEF KicksOnce
  <2>1. Names(d)' => Names(d) BY <1>1 DEF Names
  <2>2. call'[d].op = "kick" => call'[d] = call[d] BY <1>5
  <2> QED BY <1>7, <2>1, <2>2 DEF Tracking, KicksOnce
<1> QED BY <1>11, <1>12, <1>13, <1>14, <1>15 DEF Tracking

\* logout_handler ends the session that the login server has, or is going to.
LEMMA TrackLeave ==
  ASSUME TypeOK, Tracking, Registry, NEW a \in Agent, NEW k \in Co, GateLeave(a, k)
  PROVE  Tracking'
<1>1. NoKick BY LeaveKicks
<1>2. /\ UNCHANGED <<user_online, conn, call>>
      /\ \A c \in Conn : c \in acked' => c \in acked
   BY DEF GateLeave, GateLogout, GateLogoutDone, OnlyGate, loginVars
<1>3. CASE UNCHANGED <<users, notifyq>> BY <1>1, <1>2, <1>3, TrackSame
<1>4. CASE GateLogout(a, k) /\ Has(Home[a], Head(sent[a]).uid, Head(sent[a]).subid)
  <2>1. PICK s \in Server, u \in Uid : s = Home[a] /\ u = Head(sent[a]).uid
     BY <1>4, HomeAssumption, HeadLeave DEF GateLogout, TypeOK
  <2>2. PICK by \in Leaver : by = <<a, k>> BY DEF Leaver
  <2>3. users[s, u] # None /\ Notify(s, u, by)
     BY <1>4, <2>1, <2>2 DEF GateLogout, Has
  <2>4. <<s, u>> \in Seat BY DEF Seat
  <2>5. /\ users'[<<s, u>>] = None
        /\ \A p \in Seat \ {<<s, u>>} : users'[p] = users[p]
    <3>1. users' = [users EXCEPT ![<<s, u>>] = None]
       BY <1>4, <2>1 DEF GateLogout, Drop
    <3> QED BY <2>4, <3>1 DEF Seat, TypeOK, GateTypeOK
  <2>6. \A t \in Server : users'[t, u] = None
    <3> SUFFICES ASSUME NEW t \in Server, t # s PROVE users[t, u] = None
       BY <2>5 DEF Seat
    <3>1. <<t, u>> \in Seat /\ <<t, u>>[2] = <<s, u>>[2] /\ <<t, u>> # <<s, u>>
       BY DEF Seat
    <3> QED BY <2>3, <2>4, <3>1, OneSeat
  <2>7. \A c \in Conn : \A p : Here(c, p)' <=> Here(c, p) BY <1>2 DEF Here
  <2>8. Follows'
    <3> SUFFICES ASSUME NEW p \in Seat, users'[p] # None PROVE Followed(p)'
       BY DEF Follows
    <3>1. users'[p] = users[p] BY <2>5
    <3>2. Followed(p) BY <3>1 DEF Tracking, Follows
    <3> QED BY <1>2, <2>7, <3>1, <3>2 DEF Followed
  <2>9. Asked'
    <3> SUFFICES ASSUME NEW c \in Conn PROVE Asks(c)' BY DEF Asked
    <3> QED BY <1>2 DEF Tracking, Asked, Asks
  <2>10. ASSUME NEW t \in Server, NEW i \in DOMAIN notifyq[t], NEW n, n = notifyq[t][i]
         PROVE  Tells(n, t)' /\ n.uid # u
    <3>1. Tells(n, t) /\ n.uid \in Uid
      <4>1. notifyq[t] \in Seq(NotifyMsg) BY DEF TypeOK, FabricTypeOK
      <4>2. n \in NotifyMsg BY <2>10, <4>1
      <4> QED BY <2>10, <4>2 DEF Tracking, Noticed, NotifyMsg
    <3>2. n.uid # u BY <2>3, <3>1 DEF Tells
    <3>3. \A q \in Server : users'[q, n.uid] = None
      <4> SUFFICES ASSUME NEW q \in Server PROVE users'[q, n.uid] = None OBVIOUS
      <4>1. <<q, n.uid>> \in Seat \ {<<s, u>>} BY <3>1, <3>2 DEF Seat
      <4> QED BY <2>5, <3>1, <4>1 DEF Tells
    <3>4. Kicks(n, t) => Kicks(n, t)' BY <1>2 DEF Kicks
    <3>5. Leaves(n, t) => Leaves(n, t)' BY <1>2, <2>7 DEF Leaves
    <3> QED BY <3>1, <3>2, <3>3, <3>4, <3>5 DEF Tells
  <2>11. ASSUME NEW n, n = [uid |-> u, by |-> by] PROVE Tells(n, s)'
    <3>1. Followed(<<s, u>>) BY <2>3, <2>4 DEF Tracking, Follows
    <3>2. users[<<s, u>>].subid \in Nat BY <2>3, <2>4, SeatType DEF UserRec
    <3>3. [server |-> s, subid |-> users[<<s, u>>].subid] # None
       BY <3>2, NoneAssumption
    <3>4. \/ user_online[u] # None /\ user_online[u].server = s
          \/ \E c \in Conn : Here(c, <<s, u>>)
       BY <3>1, <3>3 DEF Followed
    <3>5. Leaves(n, s)' BY <1>2, <2>7, <2>11, <3>4 DEF Leaves
    <3> QED BY <2>6, <2>11, <3>5 DEF Tells
  <2>12. by \in Caller BY DEF Caller, Leaver
  <2>13. /\ Noticed' /\ Apart'
         /\ \A c \in Conn : Names(c)' => Names(c) \/ c = by
     BY <2>3, <2>10, <2>11, <2>12, NotifyTells
  <2>14. KicksOnce'
    <3> SUFFICES ASSUME NEW c \in Conn
                 PROVE  /\ conn[c].st = "new" => Unkicked(c)'
                        /\ call[c].op = "kick" /\ call[c].st = "sent" => Unkicked(c)'
                        /\ Names(c)' => Unkicked(c)'
       BY <1>2 DEF KicksOnce
    <3>1. c # by BY CallerAssumption DEF Leaver
    <3>2. Unkicked(c) => Unkicked(c)' BY <1>1, <1>2, UnkickedSame
    <3> QED BY <2>13, <3>1, <3>2 DEF Tracking, KicksOnce
  <2> QED BY <2>8, <2>9, <2>13, <2>14 DEF Tracking
<1> QED BY <1>3, <1>4 DEF GateLeave, GateLogout, GateLogoutDone

-----------------------------------------------------------------------------
\* The theorems.

LEMMA TrackInit == Init => Tracking
<1> SUFFICES ASSUME Init PROVE Tracking OBVIOUS
<1> USE DEF Init, FabricInit, LoginInit, GateInit, AgentInit
<1>1. Follows BY DEF Follows, Seat
<1>2. Asked BY DEF Asked, Asks, NoCall, NoLogin
<1>3. Noticed /\ Apart BY DEF Noticed, Apart
<1>4. KicksOnce
   BY DEF KicksOnce, Unkicked, KickAt, KickWaits, KickTaken, KickIn, Range, Names
<1> QED BY <1>1, <1>2, <1>3, <1>4 DEF Tracking

LEMMA TrackStep ==
  ASSUME Knowledge, Registry, Serving, Undisturbed, Tracking, [Next]_vars,
         ~NetworkFault, ~Crash
  PROVE  Tracking'
<1> TypeOK /\ OneLogin /\ FdMapped BY DEF Knowledge
<1>1. ASSUME NoKick, UNCHANGED <<acked, users, user_online, conn, call, notifyq>>
      PROVE  Tracking'
   BY <1>1, TrackSame
<1>2. CASE Services
  <2>1. ASSUME NEW c \in Conn, LoginHandler(c) PROVE Tracking'
     BY <2>1, TrackKickReturn, TrackLoginReturn DEF LoginHandler
  <2>2. ASSUME NEW c \in Conn, GateHandler(c) PROVE Tracking'
    <3> OnlyGate BY <2>2 DEF GateHandler
    <3>1. CASE GateSpawned(c)
      <4>1. NoKick BY <3>1, GateKicks
      <4> QED BY <3>1, <4>1, <1>1 DEF GateSpawned, OnlyGate, loginVars
    <3> QED BY <2>2, <3>1, TrackNewLogin, TrackLoginDone, TrackKick, TrackKickDone
         DEF GateHandler
  <2>3. ASSUME NEW c \in Conn, GateShake(c) PROVE Tracking'
    <3>1. NoKick BY <2>3, ClientKicks
    <3> QED BY <2>3, <3>1, <1>1 DEF GateShake, GateAuthed, GateOnlined, OnlyGate, loginVars
  <2>4. ASSUME NEW s \in Server, LogoutCommand(s) PROVE Tracking' BY <2>4, TrackLogout
  <2>5. ASSUME NEW a \in Agent,
               AgentTurn(a) \/ AgentResume(a) \/ \E k \in Co : AgentCo(a, k)
        PROVE  Tracking'
    <3>1. NoKick BY <2>5, AgentKicks
    <3>2. UNCHANGED <<users, user_online, conn>>
       BY <2>5 DEF AgentTurn, AgentResume, AgentCo, OnlyAgent, loginVars, gateVars
    <3>3. CASE AgentTurn(a)
       BY <3>1, <3>2, <3>3, <1>1 DEF AgentTurn, Turn, Enqueue, Login, Afk, Online, Auth,
         Kicked, Left, LeftError, Requested, BeginLogout, fabricVars
    <3>4. CASE AgentResume(a)
       BY <3>1, <3>2, <3>4, <1>1 DEF AgentResume, Resume, OnlineDone, AuthLoaded, AuthDone,
         fabricVars
    <3>5. ASSUME NEW k \in Co, AgentCo(a, k) PROVE Tracking'
       BY <3>1, <3>2, <3>5, <1>1 DEF AgentCo, ResumeCo, Unloaded, IdleLogout, WorkerExit,
         BeginLogout, fabricVars
    <3> QED BY <2>5, <3>3, <3>4, <3>5
  <2>6. ASSUME NEW a \in Agent, NEW k \in Co, GateLeave(a, k) PROVE Tracking'
     BY <2>6, TrackLeave
  <2> QED BY <1>2, <2>1, <2>2, <2>3, <2>4, <2>5, <2>6 DEF Services
<1>3. ASSUME NEW c \in Conn, Player(c) PROVE Tracking'
  <2>1. CASE OnlyLogin /\ \E u \in Uid, s \in Server : Accept(c, u, s)
     BY <2>1, TrackAccept
  <2>2. CASE OnlyGate
    <3>1. NoKick BY <1>3, <2>2, ClientKicks
    <3>2. UNCHANGED <<user_online, conn>> BY <2>2 DEF OnlyGate, loginVars
    <3>3. ASSUME NEW s, NEW u, NEW n, Handshake(c, s, u, n) PROVE Tracking'
       BY <3>1, <3>2, <3>3, <1>1 DEF Handshake
    <3>4. CASE Disconnect(c) BY <3>1, <3>2, <3>4, <1>1 DEF Disconnect
    <3>5. ASSUME NEW k \in Client, ClientLogout(c, k) PROVE Tracking'
       BY <3>1, <3>2, <3>5, <1>1 DEF ClientLogout, gateVars
    <3> QED BY <1>3, <2>1, <3>3, <3>4, <3>5 DEF Player
  <2> QED BY <1>3, <2>1, <2>2 DEF Player
<1>4. CASE UNCHANGED vars
   BY <1>4, <1>1, NoKickSame DEF vars, fabricVars, loginVars, gateVars, agentVars
<1> QED BY <1>2, <1>3, <1>4 DEF Next

\* What is wanted of the records follows from it.
LEMMA Tracked ==
  ASSUME TypeOK, Tracking, Registry
  PROVE  SubidAgrees /\ RecordTracksSession /\ SingleSession
<1>1. SubidAgrees
  <2>0. SUFFICES ASSUME NEW u \in Uid, user_online[u] # None,
                        NEW s, s = user_online[u].server, users[s, u] # None
                 PROVE  users[s, u].subid = user_online[u].subid
     BY DEF SubidAgrees
  <2>1. user_online[u] \in [server : Server, subid : Nat]
     BY <2>0 DEF TypeOK, LoginTypeOK
  <2>2. <<s, u>> \in Seat BY <2>0, <2>1 DEF Seat
  <2>3. Followed(<<s, u>>) BY <2>0, <2>2 DEF Tracking, Follows
  <2>4. \A c \in Conn : ~Here(c, <<s, u>>) BY <2>0 DEF Here, Registry, Nowhere
  <2>5. user_online[u] = [server |-> s, subid |-> users[s, u].subid]
     BY <2>3, <2>4 DEF Followed
  <2>6. user_online[u].subid = users[s, u].subid
    <3> DEFINE n == users[s, u].subid
    <3>1. user_online[u] = [server |-> s, subid |-> n] BY <2>5
    <3> HIDE DEF n
    <3>2. user_online[u].subid = n BY <3>1
    <3> QED BY <3>2 DEF n
  <2> QED BY <2>6
<1>2. RecordTracksSession
  <2> SUFFICES ASSUME NEW p \in Seat, users[p] # None, ~Locked(p[2])
               PROVE  user_online[p[2]] = [server |-> p[1], subid |-> users[p].subid]
     BY DEF RecordTracksSession
  <2>1. Followed(p) /\ p[2] \in Uid BY DEF Tracking, Follows, Seat
  <2>2. ~\E c \in Conn : InLogin(c) /\ conn[c].uid = p[2]
     BY <2>1, Zenon DEF Registry, LoginExclusive
  <2>3. \A c \in Conn : ~Here(c, p) BY <2>2 DEF Here, InLogin
  <2> QED BY <2>1, <2>3 DEF Followed
<1>3. SingleSession
  <2> SUFFICES ASSUME NEW u \in Uid, NEW s \in Server, NEW t \in Server,
                      users[s, u] # None, users[t, u] # None
               PROVE  s = t
     BY DEF SingleSession
  <2>1. <<s, u>> \in Seat /\ <<t, u>> \in Seat /\ <<s, u>>[2] = <<t, u>>[2] BY DEF Seat
  <2>2. <<s, u>> = <<t, u>> BY <2>1, OneSeat
  <2> QED BY <2>2
<1> QED BY <1>1, <1>2, <1>3

\* It holds while no call and no process fails and no login of another player
\* moves a gate's counter before an agent has answered.
LEMMA Followable == Spec /\ [](NoFault /\ Undisturbed) => [](Orderly /\ Tracking)
<1>1. Init => Orderly /\ Tracking BY OrderlyInit, TrackInit
<1>2. Orderly /\ Tracking /\ NoFault /\ Undisturbed /\ NoFault' /\ [Next]_vars
        => Orderly' /\ Tracking'
  <2> SUFFICES ASSUME Orderly, Tracking, NoFault, Undisturbed, NoFault', [Next]_vars
               PROVE  Orderly' /\ Tracking'
     OBVIOUS
  <2>1. ~NetworkFault /\ ~Crash BY FaultsCount DEF Orderly, Knowledge
  <2> QED BY <2>1, OrderlyStep, TrackStep DEF Orderly
<1> QED BY <1>1, <1>2, PTL DEF Spec

\* Then the login server knows the session of every player who is not logging
\* in, and the subid it keeps is the session's,
THEOREM RecordsFollowSessions ==
  Spec /\ [](NoFault /\ Undisturbed) => [](RecordTracksSession /\ SubidAgrees)
<1>1. Orderly /\ Tracking => RecordTracksSession /\ SubidAgrees
   BY Tracked DEF Orderly, Knowledge
<1> QED BY <1>1, Followable, PTL

\* and a player is on one server.
THEOREM PlayersAreOnOneServer ==
  Spec /\ [](NoFault /\ Undisturbed) => []SingleSession
<1>1. Orderly /\ Tracking => SingleSession BY Tracked DEF Orderly, Knowledge
<1> QED BY <1>1, Followable, PTL

-----------------------------------------------------------------------------
\* The subid an agent is told is its session's, when no counter has moved.

\* It stays so when no session and no binding is new.
LEMMA KnowsSame ==
  ASSUME TypeOK, KnowsItsSubid,
         \A a \in Agent : bound'[a] \in {None, bound[a]},
         \A p \in Seat : users'[p] \in {None, users[p]}
  PROVE  KnowsItsSubid'
<1> SUFFICES ASSUME NEW p \in Seat, users'[p] # None
             PROVE  bound'[users'[p].agent]
                      \in {None, [uid |-> p[2], subid |-> users'[p].subid]}
   BY DEF KnowsItsSubid
<1>1. users'[p] = users[p] /\ users[p].agent \in Agent BY SeatType DEF UserRec
<1> QED BY <1>1 DEF KnowsItsSubid

\* An agent that is told of a login serves no session yet,
LEMMA LoginTellsSubid ==
  ASSUME Knowledge, KnowsItsSubid, NEW a \in Agent, Login(a), OnlyAgent
  PROVE  KnowsItsSubid'
<1>1. /\ Command(a) \in Range(Line(a)) /\ Command(a).op = "login"
      /\ Line(a) \in Seq(Msg)
   BY EnterLine, LineType, RangeTail DEF Login, Knowledge
<1>2. InLoginOf(a, Command(a).conn) /\ Command(a).conn \in Conn
   BY <1>1, RangeType, LoginMsgType DEF Knowledge, Logins, LoginsAwaited
<1>3. /\ UNCHANGED users
      /\ \A b \in Agent \ {a} : bound'[b] = bound[b]
   BY DEF Login, OnlyAgent, gateVars, Knowledge, TypeOK, AgentTypeOK
<1> SUFFICES ASSUME NEW p \in Seat, users[p] # None
             PROVE  bound'[users[p].agent]
                      \in {None, [uid |-> p[2], subid |-> users[p].subid]}
   BY <1>3 DEF KnowsItsSubid
<1>4. users[p].agent \in Agent BY SeatType DEF Knowledge, UserRec
<1>5. users[p].agent # a
   BY <1>2 DEF Knowledge, Books, AgentsExclusive, OneRole, InUsers
<1> QED BY <1>3, <1>4, <1>5 DEF KnowsItsSubid

\* and the agent whose answer makes a session was told the counter, which is
\* still the subid of that login.
LEMMA DoneTellsSubid ==
  ASSUME Knowledge, Undisturbed, KnowsItsSubid, NEW c \in Conn, GateLoginDone(c), OnlyGate
  PROVE  KnowsItsSubid'
<1> DEFINE a == pending[c].agent
           seat == <<pending[c].server, pending[c].uid>>
<1>1. /\ pending[c].st = "login" /\ a \in Agent /\ pending[c].server \in Server
      /\ pending[c].uid \in Uid /\ pending[c].subid \in Nat
   BY PendingLogin DEF GateLoginDone, Knowledge, TypeOK
<1>2. sent[a] \in Seq(GateMsg) BY <1>1, LineType DEF Knowledge
<1>3. /\ Reply("login", c) \in Range(sent[a]) /\ Reply("login", c).op = "login"
      /\ Reply("login", c).conn = c
   BY <1>2, RangeTail DEF GateLoginDone, Sent, Reply
<1>4. bound[a] # None => Of(bound[a], c)
   BY <1>1, <1>3 DEF Knowledge, Logins, LoginsAwaited
<1>5. pending[c].subid = internal_id[pending[c].server] BY <1>1 DEF Undisturbed
<1>6. bound[a] \in {None, [uid |-> pending[c].uid, subid |-> pending[c].subid]}
  <2>1. bound[a] \in Ident \cup {None} BY <1>1 DEF Knowledge, TypeOK, AgentTypeOK, Ident
  <2>2. CASE bound[a] # None
    <3>1. bound[a].uid = pending[c].uid /\ bound[a].subid = pending[c].subid
       BY <1>1, <1>4, <1>5, <2>2 DEF Of
    <3> QED BY <2>1, <2>2, <3>1 DEF Ident
  <2> QED BY <2>2
<1>7. /\ users' = [users EXCEPT ![seat] =
                     [agent |-> a, subid |-> pending[c].subid, name |-> c]]
      /\ UNCHANGED bound
   BY DEF GateLoginDone, OnlyGate, agentVars
<1>8. seat \in Seat /\ seat[2] = pending[c].uid BY <1>1 DEF Seat
<1> HIDE DEF a, seat
<1>9. /\ users'[seat].agent = a /\ users'[seat].subid = pending[c].subid
      /\ \A p \in Seat \ {seat} : users'[p] = users[p]
   BY <1>7, <1>8 DEF Seat, Knowledge, TypeOK, GateTypeOK
<1> SUFFICES ASSUME NEW p \in Seat, users'[p] # None
             PROVE  bound[users'[p].agent]
                      \in {None, [uid |-> p[2], subid |-> users'[p].subid]}
   BY <1>7 DEF KnowsItsSubid
<1>10. CASE p = seat BY <1>6, <1>8, <1>9, <1>10
<1>11. CASE p # seat BY <1>9, <1>11 DEF KnowsItsSubid
<1> QED BY <1>10, <1>11

LEMMA KnowsStep ==
  ASSUME Knowledge, Undisturbed, KnowsItsSubid, [Next]_vars
  PROVE  KnowsItsSubid'
<1> TypeOK BY DEF Knowledge
<1>1. ASSUME Steady PROVE KnowsItsSubid' BY <1>1, KnowsSame DEF Steady
<1>2. ASSUME UNCHANGED <<bound, users>> PROVE KnowsItsSubid' BY <1>2 DEF KnowsItsSubid
<1>3. CASE Services
  <2>1. ASSUME NEW c \in Conn, LoginHandler(c) PROVE KnowsItsSubid'
     BY <2>1, <1>2 DEF LoginHandler, OnlyLogin, gateVars, agentVars
  <2>2. ASSUME NEW c \in Conn, GateHandler(c) PROVE KnowsItsSubid'
    <3>1. OnlyGate BY <2>2 DEF GateHandler
    <3>2. CASE (\E a \in Agent : GateLogin(c, a)) \/ GateSpawn(c) \/ GateSpawned(c)
       BY <3>1, <3>2, <1>2 DEF GateLogin, GateSpawn, GateSpawned, OnlyGate, agentVars
    <3> QED BY <2>2, <3>1, <3>2, <1>1, GateQuiet, DoneTellsSubid DEF GateHandler
  <2>3. ASSUME NEW c \in Conn, GateShake(c) PROVE KnowsItsSubid'
     BY <2>3, <1>1, ShakeQuiet
  <2>4. ASSUME NEW s \in Server, LogoutCommand(s) PROVE KnowsItsSubid'
     BY <2>4, <1>2 DEF LogoutCommand, OnlyLogin, gateVars, agentVars
  <2>5. ASSUME NEW a \in Agent, AgentTurn(a) PROVE KnowsItsSubid'
    <3>1. CASE Login(a) BY <2>5, <3>1, LoginTellsSubid DEF AgentTurn
    <3>2. CASE ~Login(a) BY <2>5, <3>2, <1>1, AgentQuiet
    <3> QED BY <3>1, <3>2
  <2>6. ASSUME NEW a \in Agent, AgentResume(a) PROVE KnowsItsSubid'
     BY <2>6, <1>1, AgentQuiet
  <2>7. ASSUME NEW a \in Agent, NEW k \in Co, AgentCo(a, k) PROVE KnowsItsSubid'
     BY <2>7, <1>1, AgentQuiet
  <2>8. ASSUME NEW a \in Agent, NEW k \in Co, GateLeave(a, k) PROVE KnowsItsSubid'
     BY <2>8, <1>1, LeaveQuiet
  <2> QED BY <1>3, <2>1, <2>2, <2>3, <2>4, <2>5, <2>6, <2>7, <2>8 DEF Services
<1>4. ASSUME NEW c \in Conn, Player(c) PROVE KnowsItsSubid'
   BY <1>4, <1>1, ClientQuiet DEF Knowledge
<1>5. CASE NetworkFault BY <1>5, <1>2 DEF NetworkFault, gateVars, agentVars
<1>6. CASE Crash
  <2>1. CASE LoginCrash /\ UNCHANGED <<gateVars, agentVars>>
     BY <2>1, <1>2 DEF gateVars, agentVars
  <2>2. ASSUME NEW s \in Server, NEW C, GateCrash(s, C),
               AgentCrash({a \in Agent : Home[a] = s})
        PROVE  KnowsItsSubid'
     BY <2>2, KnowsSame DEF GateCrash, AgentCrash, Seat, TypeOK, GateTypeOK, AgentTypeOK
  <2> QED BY <1>6, <2>1, <2>2 DEF Crash
<1>7. CASE UNCHANGED vars BY <1>7, <1>2 DEF vars, gateVars, agentVars
<1> QED BY <1>3, <1>4, <1>5, <1>6, <1>7 DEF Next

\* While no login moves a gate's counter before another one's agent has
\* answered, the agent of every session knows its subid, so that no logout of
\* it is refused, whatever else fails.
THEOREM AgentsKnowTheirSubid == Spec /\ []Undisturbed => []KnowsItsSubid
<1>1. Init => KnowsItsSubid BY DEF Init, GateInit, KnowsItsSubid, Seat
<1>2. Knowledge /\ KnowsItsSubid /\ Undisturbed /\ [Next]_vars
        => Knowledge' /\ KnowsItsSubid'
   BY KnowledgeStep, KnowsStep
<1> QED BY <1>1, <1>2, KnowledgeInit, PTL DEF Spec

-----------------------------------------------------------------------------
\* A player who is alone disturbs nobody: his logins exclude each other.

Alone == \A u, v \in Uid : u = v

LEMMA AloneStep ==
  ASSUME Alone, Knowledge, Registry, Serving, Undisturbed, [Next]_vars,
         ~NetworkFault, ~Crash
  PROVE  Undisturbed'
<1> TypeOK /\ OneLogin BY DEF Knowledge
<1> DOMAIN pending = Conn /\ internal_id \in [Server -> Nat]
   BY OneLoginTables DEF TypeOK, GateTypeOK
<1>1. CASE UNCHANGED <<pending, internal_id>> BY <1>1 DEF Undisturbed
<1>2. ASSUME NEW c \in Conn, Called(c, "login") PROVE \A d \in Conn : pending[d].st = "none"
  <2> SUFFICES ASSUME NEW d \in Conn, pending[d].st # "none" PROVE FALSE OBVIOUS
  <2>1. call[d].op = "login" /\ call[d].st = "serving"
     BY DEF OneLogin, Serving, Serves
  <2>2. conn[c].st = "login" /\ conn[d].st = "login"
     BY <1>2, <2>1 DEF Called, Serving, Waits
  <2>3. conn[c].uid = conn[d].uid BY <2>2, ConnType DEF TypeOK, Alone
  <2>4. c = d BY <2>2, <2>3, SamePlayer
  <2> QED BY <1>2, <2>1, <2>4 DEF Called
<1>3. ASSUME NEW c \in Conn, GateHandler(c) PROVE Undisturbed'
  <2>1. ASSUME NEW st, NEW a, NewLogin(c, st, a) PROVE Undisturbed'
    <3>1. \A d \in Conn : pending[d].st = "none" BY <1>2, <2>1 DEF NewLogin
    <3>2. call[c].server \in Server
       BY <2>1, CalledType DEF NewLogin, Called, TypeOK, CallRec
    <3>3. /\ pending'[c].server = call[c].server
          /\ pending'[c].subid = internal_id'[call[c].server]
          /\ \A d \in Conn \ {c} : pending'[d].st = "none"
       BY <2>1, <3>1, <3>2 DEF NewLogin, NextId
    <3> QED BY <3>3 DEF Undisturbed
  <2>2. CASE GateLoginError(c)
     BY <1>2, <2>2 DEF GateLoginError, Undisturbed
  <2>3. CASE GateSpawned(c)
    <3>1. PICK a \in Agent : pending' = [pending EXCEPT ![c].st = "login", ![c].agent = a]
       BY <2>3 DEF GateSpawned
    <3>2. pending[c] \in [st : {"spawn"}, server : Server, uid : Uid, subid : Nat,
                          agent : {None}]
       BY <2>3, NoneAssumption DEF GateSpawned, TypeOK, GateTypeOK, NoPending
    <3>3. /\ pending'[c].server = pending[c].server /\ pending'[c].subid = pending[c].subid
          /\ \A d \in Conn \ {c} : pending'[d] = pending[d]
       BY <3>1, <3>2
    <3> QED BY <2>3, <3>3 DEF GateSpawned, Undisturbed
  <2>4. CASE GateLoginDone(c)
     BY <2>4 DEF GateLoginDone, Undisturbed, NoPending
  <2>5. CASE GateKick(c) \/ GateKickDone(c)
     BY <2>5, <1>1 DEF GateKick, GateKickDone, gateVars
  <2> QED BY <1>3, <2>1, <2>2, <2>3, <2>4, <2>5 DEF GateHandler, GateLogin, GateSpawn
<1>4. CASE Services
  <2>1. ASSUME NEW c \in Conn, LoginHandler(c) \/ GateShake(c) PROVE Undisturbed'
     BY <2>1, <1>1 DEF LoginHandler, OnlyLogin, gateVars, GateShake, GateAuthed, GateOnlined
  <2>2. ASSUME NEW s \in Server, LogoutCommand(s) PROVE Undisturbed'
     BY <2>2, <1>1 DEF LogoutCommand, OnlyLogin, gateVars
  <2>3. ASSUME NEW a \in Agent,
               AgentTurn(a) \/ AgentResume(a) \/ \E k \in Co : AgentCo(a, k)
        PROVE  Undisturbed'
     BY <2>3, <1>1 DEF AgentTurn, AgentResume, AgentCo, OnlyAgent, gateVars
  <2>4. ASSUME NEW a \in Agent, NEW k \in Co, GateLeave(a, k) PROVE Undisturbed'
     BY <2>4, <1>1 DEF GateLeave, GateLogout, GateLogoutDone
  <2> QED BY <1>3, <1>4, <2>1, <2>2, <2>3, <2>4 DEF Services
<1>5. ASSUME NEW c \in Conn, Player(c) PROVE Undisturbed'
   BY <1>5, <1>1 DEF Player, OnlyLogin, gateVars, Handshake, Disconnect, ClientLogout
<1>6. CASE UNCHANGED vars BY <1>6, <1>1 DEF vars, gateVars
<1> QED BY <1>4, <1>5, <1>6 DEF Next

LEMMA AloneFollowed ==
  ASSUME Alone
  PROVE  Spec => [](Orderly /\ (NoFault => Tracking /\ Undisturbed))
<1>1. Init => Orderly /\ (NoFault => Tracking /\ Undisturbed)
  <2>1. Init => Undisturbed BY DEF Init, GateInit, Undisturbed, NoPending
  <2> QED BY <2>1, OrderlyInit, TrackInit
<1>2. Orderly /\ (NoFault => Tracking /\ Undisturbed) /\ [Next]_vars
        => (Orderly /\ (NoFault => Tracking /\ Undisturbed))'
  <2> SUFFICES ASSUME Orderly, NoFault => Tracking /\ Undisturbed, [Next]_vars, NoFault'
               PROVE  Tracking' /\ Undisturbed'
     BY OrderlyStep
  <2>1. NoFault /\ ~NetworkFault /\ ~Crash BY FaultsCount DEF Orderly, Knowledge
  <2> QED BY <2>1, TrackStep, AloneStep DEF Orderly
<1> QED BY <1>1, <1>2, PTL DEF Spec

\* One player, with any number of servers, agents and logins: while no call
\* and no process fails, the login server knows his session and its subid, and
\* he is on one server.
THEOREM OnePlayerIsFollowed ==
  ASSUME Alone
  PROVE  Spec => [](NoFault => SubidAgrees /\ RecordTracksSession /\ SingleSession)
<1>1. Orderly /\ (NoFault => Tracking /\ Undisturbed)
        => (NoFault => SubidAgrees /\ RecordTracksSession /\ SingleSession)
   BY Tracked DEF Orderly, Knowledge
<1> QED BY <1>1, AloneFollowed, PTL

-----------------------------------------------------------------------------
\* The login server and its gates keep a directory of the players: every step
\* of them is a step of PlayerDirectory, or none, over the places that are
\* read off the tables of the gates and off the answers of the logins.

HomeMap  == [u \in Uid |-> HomeOf(u)]
LoginMap == [c \in Conn |-> LoginOf(c)]

\* The place the login of connection c has given its player, and the one that
\* the login a gate serves is going to give.
PlaceOf(c)  == LoginOf(c).place
PlaceFor(c) == Place(pending[c].server, pending[c].subid)

\* No place is given twice: a gate has given out every subid that a client
\* has, and to nobody else.
Numbered ==
  /\ \A c \in Conn : PlaceOf(c) # None =>
       PlaceOf(c).subid =< internal_id[PlaceOf(c).server]
  /\ \A c, d \in Conn : pending[d].st # "none" => PlaceOf(c) # PlaceFor(d)
  /\ \A c, d \in Conn : pending[c].st # "none" /\ pending[d].st # "none"
       /\ PlaceFor(c) = PlaceFor(d) => c = d

\* The login of a connection, as the directory has it.
LEMMA LoginIs ==
  ASSUME TypeOK, NEW c \in Conn
  PROVE  /\ LoginOf(c) = [st |-> LoginOf(c).st, uid |-> conn[c].uid, place |-> PlaceOf(c)]
         /\ InLogin(c) <=> LoginOf(c).st \in {"asks", "placed"}
         /\ LoginOf(c).st \in {"new", "asks", "refused"} => PlaceOf(c) = None
         /\ PlaceOf(c) \in [server : Server, subid : Nat] \cup {None}
         /\ conn[c].st = "new" <=> LoginOf(c).st = "new"
<1>1. conn[c].st \in {"new", "kick", "login", "ok", "refused"}
   BY DEF TypeOK, LoginTypeOK, NoLogin
<1>2. conn[c].st = "ok" => conn[c].server \in Server /\ conn[c].subid \in Nat
   BY ConnType DEF TypeOK
<1>3. call[c].st = "ok" => call[c].server \in Server /\ call[c].subid \in Nat
   BY CallStType DEF TypeOK, CallRec
<1> QED BY <1>1, <1>2, <1>3 DEF LoginOf, PlaceOf, Place, InLogin

\* A login that neither the login server nor its gate touches stays.
LEMMA LoginSame ==
  ASSUME NEW c \in Conn, conn'[c] = conn[c], call'[c] = call[c]
  PROVE  LoginOf(c)' = LoginOf(c)
BY DEF LoginOf, InLogin

\* A place is not None.
LEMMA PlaceIs ==
  ASSUME NEW s \in Server, NEW n \in Nat
  PROVE  Place(s, n) # None /\ Place(s, n) \in Directory!Place
BY NoneAssumption DEF Place, Directory!Place

\* A player with one seat is there.
LEMMA SeatChosen ==
  ASSUME NEW us, NEW u, NEW s \in Server, us[s, u] # None,
         \A t \in Server : us[t, u] # None => t = s
  PROVE  (CHOOSE t \in Server : us[t, u] # None) = s
OBVIOUS

\* A step that moves one player leaves the others where they are.
LEMMA HomeMoves ==
  ASSUME NEW u \in Uid,
         \A v \in Uid \ {u} : \A s \in Server : users'[s, v] = users[s, v]
  PROVE  \A v \in Uid \ {u} : HomeOf(v)' = HomeOf(v)
<1> SUFFICES ASSUME NEW v \in Uid \ {u} PROVE HomeOf(v)' = HomeOf(v) OBVIOUS
<1>1. \A s \in Server : users'[s, v] = users[s, v] OBVIOUS
<1>2. (\E s \in Server : users'[s, v] # None) <=> (\E s \in Server : users[s, v] # None)
   BY <1>1
<1>3. (CHOOSE s \in Server : users'[s, v] # None) = (CHOOSE s \in Server : users[s, v] # None)
   BY <1>1
<1>4. ASSUME \E s \in Server : users[s, v] # None
      PROVE  (CHOOSE s \in Server : users[s, v] # None) \in Server
   BY <1>4
<1> QED BY <1>1, <1>2, <1>3, <1>4 DEF HomeOf, Place

-----------------------------------------------------------------------------
\* The steps of the directory.

DirStep == [Directory!Next]_(Directory!vars)

\* No login gets a place, or another.
KeepsPlaces == \A c \in Conn : PlaceOf(c)' = PlaceOf(c)

\* Most steps do not touch it.
LEMMA DirSame == UNCHANGED <<users, user_online, conn, call>> => DirStep /\ KeepsPlaces
<1> SUFFICES ASSUME UNCHANGED <<users, user_online, conn, call>>
             PROVE  DirStep /\ KeepsPlaces
   OBVIOUS
<1>1. \A c \in Conn : LoginOf(c)' = LoginOf(c) BY LoginSame
<1>2. UNCHANGED HomeMap BY DEF HomeMap, HomeOf
<1>3. DirStep BY <1>1, <1>2 DEF DirStep, Directory!vars, HomeMap
<1>4. KeepsPlaces BY <1>1 DEF KeepsPlaces, PlaceOf
<1> QED BY <1>3, <1>4

\* A step of one login changes what the directory has of that login,
LEMMA LoginMoves ==
  ASSUME NEW c \in Conn, \A d \in Conn \ {c} : conn'[d] = conn[d] /\ call'[d] = call[d]
  PROVE  /\ LoginMap' = [LoginMap EXCEPT ![c] = LoginOf(c)']
         /\ PlaceOf(c)' = PlaceOf(c) => KeepsPlaces
<1>1. \A d \in Conn \ {c} : LoginOf(d)' = LoginOf(d) BY LoginSame
<1>2. LoginMap' = [LoginMap EXCEPT ![c] = LoginOf(c)'] BY <1>1 DEF LoginMap
<1>3. PlaceOf(c)' = PlaceOf(c) => KeepsPlaces BY <1>1 DEF KeepsPlaces, PlaceOf
<1> QED BY <1>2, <1>3

\* which is nothing when it goes on as before.
LEMMA LoginStays ==
  ASSUME NEW c \in Conn, \A d \in Conn \ {c} : conn'[d] = conn[d] /\ call'[d] = call[d],
         LoginOf(c)' = LoginOf(c), UNCHANGED <<users, user_online>>
  PROVE  DirStep /\ KeepsPlaces
<1>1. UNCHANGED LoginMap BY LoginMoves DEF LoginMap
<1>2. UNCHANGED HomeMap BY DEF HomeMap, HomeOf
<1>3. DirStep BY <1>1, <1>2 DEF DirStep, Directory!vars, LoginMap, HomeMap
<1>4. KeepsPlaces BY LoginMoves DEF PlaceOf
<1> QED BY <1>3, <1>4

\* accept() asks for the player, or denies him.
LEMMA DirAccept ==
  ASSUME TypeOK, Registry, NEW c \in Conn, NEW u \in Uid, NEW s \in Server,
         Accept(c, u, s), OnlyLogin
  PROVE  DirStep /\ KeepsPlaces
<1> DOMAIN call = Conn /\ DOMAIN conn = Conn BY OneLoginTables
<1>1. conn[c].st = "new" /\ LoginOf(c).st = "new" BY LoginIs DEF Accept
<1>2. UNCHANGED <<users, user_online>> BY DEF Accept, OnlyLogin, gateVars
<1>3. \A d \in Conn \ {c} : conn'[d] = conn[d] /\ call'[d] = call[d]
   BY DEF Accept, Becomes, Call
<1>4. /\ LoginMap' = [LoginMap EXCEPT ![c] = LoginOf(c)']
      /\ PlaceOf(c)' = None => KeepsPlaces
   BY <1>1, <1>3, LoginMoves, LoginIs
<1>5. UNCHANGED HomeMap BY <1>2 DEF HomeMap, HomeOf
<1>6. Locked(u) <=> \E d \in Conn : LoginOf(d).st \in {"asks", "placed"} /\ LoginOf(d).uid = u
  <2>1. Locked(u) <=> \E d \in Conn : InLogin(d) /\ conn[d].uid = u
     BY Zenon DEF Registry, LoginExclusive
  <2>2. \A d \in Conn : /\ InLogin(d) <=> LoginOf(d).st \in {"asks", "placed"}
                        /\ LoginOf(d).uid = conn[d].uid
    <3> SUFFICES ASSUME NEW d \in Conn
                 PROVE  /\ InLogin(d) <=> LoginOf(d).st \in {"asks", "placed"}
                        /\ LoginOf(d).uid = conn[d].uid
       OBVIOUS
    <3>1. LoginOf(d) = [st |-> LoginOf(d).st, uid |-> conn[d].uid, place |-> PlaceOf(d)]
       BY LoginIs
    <3>2. LoginOf(d).uid = conn[d].uid BY <3>1
    <3> QED BY <3>2, LoginIs
  <2> QED BY <2>1, <2>2
<1>7. Locked(u) <=> Directory!Busy(u)
   BY <1>6 DEF Directory!Busy, Directory!Logging
<1>8. CASE Locked(u)
  <2>1. LoginOf(c)' = [st |-> "refused", uid |-> u, place |-> None]
     BY <1>8 DEF Accept, Becomes, LoginOf, InLogin
  <2>2. Directory!Deny(c, u)
     BY <1>1, <1>2, <1>4, <1>5, <1>7, <1>8, <2>1 DEF Directory!Deny, LoginMap, HomeMap
  <2>3. KeepsPlaces BY <1>4, <2>1 DEF PlaceOf
  <2> QED BY <2>2, <2>3 DEF DirStep, Directory!Next
<1>9. CASE ~Locked(u)
  <2>1. LoginOf(c)' = [st |-> "asks", uid |-> u, place |-> None]
     BY <1>9 DEF Accept, Becomes, Call, LoginOf, InLogin
  <2>2. Directory!Ask(c, u)
     BY <1>1, <1>2, <1>4, <1>5, <1>7, <1>9, <2>1 DEF Directory!Ask, LoginMap, HomeMap
  <2>3. KeepsPlaces BY <1>4, <2>1 DEF PlaceOf
  <2> QED BY <2>2, <2>3 DEF DirStep, Directory!Next
<1> QED BY <1>8, <1>9

\* A login that asks may fail.
LEMMA DirFail ==
  ASSUME TypeOK, NEW c \in Conn, \A d \in Conn \ {c} : conn'[d] = conn[d] /\ call'[d] = call[d],
         LoginOf(c).st = "asks", conn'[c].st = "refused", conn'[c].uid = conn[c].uid,
         UNCHANGED <<users, user_online>>
  PROVE  DirStep /\ KeepsPlaces
<1>1. LoginOf(c) = [st |-> "asks", uid |-> conn[c].uid, place |-> None]
   BY LoginIs
<1>2. LoginOf(c)' = [st |-> "refused", uid |-> conn[c].uid, place |-> None]
   BY DEF LoginOf, InLogin
<1>3. LoginMap' = [LoginMap EXCEPT ![c].st = "refused"]
  <2>1. LoginMap' = [LoginMap EXCEPT ![c] = LoginOf(c)'] BY LoginMoves
  <2>2. LoginMap[c] = LoginOf(c) BY DEF LoginMap
  <2>3. LoginOf(c)' = [LoginMap[c] EXCEPT !.st = "refused"] BY <1>1, <1>2, <2>2
  <2> QED BY <2>1, <2>3
<1>4. UNCHANGED HomeMap BY DEF HomeMap, HomeOf
<1>5. Directory!Fail(c) BY <1>3, <1>4 DEF Directory!Fail, LoginMap, HomeMap
<1>6. KeepsPlaces BY <1>1, <1>2, LoginMoves DEF PlaceOf
<1> QED BY <1>5, <1>6 DEF DirStep, Directory!Next

\* The kick has returned: the login goes on, or fails.
LEMMA DirKickReturn ==
  ASSUME TypeOK, Asked, NEW c \in Conn, KickReturn(c), OnlyLogin
  PROVE  DirStep /\ KeepsPlaces
<1> DOMAIN call = Conn /\ DOMAIN conn = Conn BY OneLoginTables
<1>1. conn[c].st = "kick" /\ call[c].st = "ok" /\ call[c].op = "kick"
   BY DEF KickReturn, Asked, Asks
<1>2. UNCHANGED <<users, user_online>>
   BY <1>1 DEF KickReturn, AfterKick, OnlyLogin, gateVars
<1>3. conn[c] \in [st : {"kick", "login", "ok", "refused"}, uid : Uid,
                   server : Server, subid : Nat]
   BY <1>1, ConnType DEF TypeOK
<1>4. \A d \in Conn \ {c} : conn'[d] = conn[d] /\ call'[d] = call[d]
   BY DEF KickReturn, Call
<1>5. /\ conn'[c].uid = conn[c].uid /\ conn'[c].server = conn[c].server
      /\ \/ conn'[c].st = "refused"
         \/ conn'[c].st = "login" /\ call'[c].st = "sent"
   BY <1>3 DEF KickReturn, Call
<1>6. LoginOf(c) = [st |-> "asks", uid |-> conn[c].uid, place |-> None]
   BY <1>1 DEF LoginOf, InLogin
<1>7. CASE conn'[c].st = "refused" BY <1>2, <1>4, <1>5, <1>6, <1>7, DirFail
<1>8. CASE conn'[c].st = "login" /\ call'[c].st = "sent"
  <2>1. LoginOf(c)' = LoginOf(c) BY <1>5, <1>6, <1>8 DEF LoginOf, InLogin
  <2> QED BY <1>2, <1>4, <2>1, LoginStays
<1> QED BY <1>5, <1>7, <1>8

\* The login has returned: its client is told the place, or it fails.
LEMMA DirLoginReturn ==
  ASSUME TypeOK, Asked, Registry, NEW c \in Conn, LoginReturn(c), OnlyLogin
  PROVE  DirStep /\ KeepsPlaces
<1> DOMAIN conn = Conn /\ DOMAIN user_online = Uid
   BY OneLoginTables DEF TypeOK, LoginTypeOK
<1>1. conn[c].st = "login" /\ UNCHANGED <<call, users>>
   BY DEF LoginReturn, OnlyLogin, fabricVars, gateVars
<1>2. conn[c] \in [st : {"kick", "login", "ok", "refused"}, uid : Uid,
                   server : Server, subid : Nat]
   BY <1>1, ConnType DEF TypeOK
<1>3. \A d \in Conn \ {c} : conn'[d] = conn[d] /\ call'[d] = call[d]
   BY <1>1 DEF LoginReturn
<1>4. CASE call[c].st = "fail" /\ conn' = [conn EXCEPT ![c].st = "refused"] /\ UNCHANGED user_online
  <2>1. LoginOf(c).st = "asks" BY <1>1, <1>4 DEF LoginOf, InLogin
  <2>2. conn'[c].st = "refused" /\ conn'[c].uid = conn[c].uid BY <1>2, <1>4
  <2> QED BY <1>1, <1>3, <1>4, <2>1, <2>2, DirFail
<1>5. CASE /\ call[c].st = "ok" /\ user_online' = Record(c)
           /\ conn' = [conn EXCEPT ![c].st = "ok", ![c].subid = call[c].subid]
  <2> DEFINE u == conn[c].uid
             p == Place(call[c].server, call[c].subid)
  <2>1. u \in Uid /\ user_online[u] = None
     BY <1>1, <1>2 DEF Registry, Nowhere
  <2>2. LoginOf(c) = [st |-> "placed", uid |-> u, place |-> p]
     BY <1>1, <1>5 DEF LoginOf
  <2>3. conn'[c].st = "ok" /\ conn'[c].uid = u /\ conn'[c].subid = call[c].subid
        /\ conn'[c].server = call[c].server
     BY <1>1, <1>2, <1>5 DEF Asked, Asks
  <2>4. LoginOf(c)' = [st |-> "told", uid |-> u, place |-> p]
     BY <2>3 DEF LoginOf
  <2>5. LoginMap' = [LoginMap EXCEPT ![c].st = "told"]
    <3>1. LoginMap' = [LoginMap EXCEPT ![c] = LoginOf(c)'] BY <1>3, LoginMoves
    <3>2. LoginMap[c] = LoginOf(c) BY DEF LoginMap
    <3>3. LoginOf(c)' = [LoginMap[c] EXCEPT !.st = "told"] BY <2>2, <2>4, <3>2
    <3> QED BY <3>1, <3>3
  <2>6. user_online' = [user_online EXCEPT ![u] = p]
     BY <1>1, <1>5 DEF Record, Place, Asked, Asks
  <2>7. UNCHANGED HomeMap BY <1>1 DEF HomeMap, HomeOf
  <2>8. Directory!Tell(c)
    <3>1. LoginMap[c].st = "placed" /\ LoginMap[c].uid = u /\ LoginMap[c].place = p
       BY <2>2 DEF LoginMap
    <3> HIDE DEF u, p
    <3> QED BY <2>1, <2>5, <2>6, <2>7, <3>1 DEF Directory!Tell, LoginMap, HomeMap
  <2>9. KeepsPlaces
    <3>1. PlaceOf(c)' = PlaceOf(c) BY <2>2, <2>4 DEF PlaceOf
    <3> QED BY <1>3, <3>1, LoginMoves
  <2> QED BY <2>8, <2>9 DEF DirStep, Directory!Next
<1> QED BY <1>4, <1>5 DEF LoginReturn

\* A logout call finds that the player has left.
LEMMA DirLogout ==
  ASSUME TypeOK, Tracking, NEW s \in Server, Logout(s), OnlyLogin
  PROVE  DirStep /\ KeepsPlaces
<1> DEFINE u == Head(notifyq[s]).uid
<1>1. Tells(Head(notifyq[s]), s) /\ u \in Uid
  <2>1. notifyq[s] \in Seq(NotifyMsg) /\ notifyq[s] # <<>>
     BY DEF Logout, TypeOK, FabricTypeOK
  <2>2. 1 \in DOMAIN notifyq[s] /\ Head(notifyq[s]) = notifyq[s][1] /\ notifyq[s][1] \in NotifyMsg
     BY <2>1
  <2> QED BY <2>2 DEF Tracking, Noticed, NotifyMsg
<1>2. UNCHANGED <<users, conn, call>> BY DEF Logout, OnlyLogin, gateVars
<1>3. UNCHANGED LoginMap /\ KeepsPlaces BY <1>2, LoginSame DEF LoginMap, KeepsPlaces, PlaceOf
<1>4. UNCHANGED HomeMap BY <1>2 DEF HomeMap, HomeOf
<1>5. HomeMap[u] = None BY <1>1 DEF HomeMap, HomeOf, Tells
<1>6. user_online' = [user_online EXCEPT ![u] = None] BY DEF Logout
<1> HIDE DEF u
<1>7. Directory!Forget(u)
   BY <1>3, <1>4, <1>5, <1>6 DEF Directory!Forget, LoginMap, HomeMap
<1> QED BY <1>1, <1>3, <1>7 DEF DirStep, Directory!Next

\* A gate takes a login up or refuses it, or does so with a kick: the login
\* still asks.
LEMMA DirServe ==
  ASSUME TypeOK, Asked, NEW c \in Conn, OnlyGate,
         \/ \E a \in Agent : GateLogin(c, a)
         \/ GateSpawn(c) \/ GateLoginError(c) \/ GateKick(c) \/ GateKickDone(c)
  PROVE  DirStep /\ KeepsPlaces
<1> DOMAIN call = Conn BY OneLoginTables
<1>1. UNCHANGED <<users, user_online, conn>>
   BY DEF GateLogin, GateSpawn, GateLoginError, GateKick, GateKickDone, OnlyGate,
     loginVars, gateVars
<1>2. CASE UNCHANGED call BY <1>1, <1>2, DirSame
<1>3. CASE /\ call[c].st = "sent" /\ call[c].op \in {"login", "kick"}
           /\ \/ call' = [call EXCEPT ![c].st = "serving"]
              \/ call' = [call EXCEPT ![c].st = "fail"]
  <2>1. call[c] \in CallRec BY <1>3, CallStType DEF TypeOK
  <2>2. call'[c].st # "ok" /\ \A d \in Conn \ {c} : call'[d] = call[d]
     BY <1>3, <2>1 DEF CallRec
  <2>3. LoginOf(c)' = LoginOf(c) BY <1>1, <1>3, <2>2 DEF LoginOf, InLogin
  <2> QED BY <1>1, <2>2, <2>3, LoginStays
<1>4. CASE /\ call[c].op = "kick" /\ call[c].st = "serving"
           /\ call' = [call EXCEPT ![c].st = "ok", ![c].subid = 0]
  <2>1. conn[c].st = "kick" BY <1>4 DEF Asked, Asks
  <2>2. \A d \in Conn \ {c} : call'[d] = call[d] BY <1>4
  <2>3. LoginOf(c)' = LoginOf(c) BY <1>1, <2>1 DEF LoginOf, InLogin
  <2> QED BY <1>1, <2>2, <2>3, LoginStays
<1> QED BY <1>2, <1>3, <1>4 DEF GateLogin, GateSpawn, GateLoginError, GateKick,
     GateKickDone, NewLogin, Called, Serve, Refuse, Answer

\* What a login that is about to be answered finds.
LEMMA AboutToEnter ==
  ASSUME TypeOK, OneLogin, Serving, Registry, Tracking, Undisturbed,
         NEW c \in Conn, GateLoginDone(c), OnlyGate,
         NEW s, NEW u, s = pending[c].server, u = pending[c].uid
  PROVE  /\ s \in Server /\ u \in Uid
         /\ LoginOf(c) = [st |-> "asks", uid |-> u, place |-> None]
         /\ LoginOf(c)' = [st |-> "placed", uid |-> u, place |-> PlaceFor(c)]
         /\ LoginMap' = [LoginMap EXCEPT ![c] = LoginOf(c)']
         /\ user_online[u] = None /\ UNCHANGED user_online
         /\ \A t \in Server : users[t, u] = None
<1> DOMAIN call = Conn BY OneLoginTables
<1>1. pending[c].st = "login" /\ UNCHANGED <<user_online, conn>>
   BY DEF GateLoginDone, OnlyGate, loginVars
<1>2. s \in Server /\ u \in Uid BY <1>1, PendingLogin DEF TypeOK
<1>3. /\ call[c].op = "login" /\ call[c].st = "serving"
      /\ call[c].uid = u /\ call[c].server = s
      /\ conn[c].st = "login" /\ conn[c].uid = u
  <2>1. /\ call[c].op = "login" /\ call[c].st = "serving"
        /\ call[c].uid = u /\ call[c].server = s
     BY <1>1 DEF OneLogin, Serving, Serves
  <2> QED BY <2>1 DEF Serving, Waits
<1>4. user_online[u] = None BY <1>3 DEF Registry, Nowhere
<1>5. /\ \A d \in Conn \ {c} : call'[d] = call[d]
      /\ call'[c].st = "ok" /\ call'[c].server = s /\ call'[c].subid = pending[c].subid
  <2>1. call[c] \in CallRec BY <1>3, CallStType DEF TypeOK
  <2>2. internal_id[s] = pending[c].subid BY <1>1 DEF Undisturbed
  <2>3. call' = [call EXCEPT ![c].st = "ok", ![c].subid = pending[c].subid]
     BY <1>3, <2>2 DEF GateLoginDone, Answer
  <2> QED BY <1>3, <2>1, <2>3 DEF CallRec
<1>6. LoginOf(c) = [st |-> "asks", uid |-> u, place |-> None]
   BY <1>3 DEF LoginOf, InLogin
<1>7. LoginOf(c)' = [st |-> "placed", uid |-> u, place |-> PlaceFor(c)]
   BY <1>1, <1>3, <1>5 DEF LoginOf, PlaceFor, Place
<1>8. LoginMap' = [LoginMap EXCEPT ![c] = LoginOf(c)'] BY <1>1, <1>5, LoginMoves
<1>9. ASSUME NEW t \in Server PROVE users[t, u] = None
  <2> SUFFICES ASSUME users[t, u] # None PROVE FALSE OBVIOUS
  <2>1. <<t, u>> \in Seat BY <1>2 DEF Seat
  <2>2. Followed(<<t, u>>) BY <2>1 DEF Tracking, Follows
  <2>3. users[<<t, u>>].subid \in Nat BY <2>1, SeatType DEF UserRec
  <2>4. [server |-> t, subid |-> users[<<t, u>>].subid] # None BY <2>3, PlaceIs DEF Place
  <2>5. PICK d \in Conn : Here(d, <<t, u>>) BY <1>4, <2>2, <2>4 DEF Followed
  <2>6. d = c BY <1>3, <2>5, SamePlayer DEF Here
  <2> QED BY <1>3, <2>5, <2>6 DEF Here
<1> QED BY <1>1, <1>2, <1>4, <1>6, <1>7, <1>8, <1>9

\* The agent has answered: the player, who was nowhere, has a new place.
LEMMA DirEnter ==
  ASSUME TypeOK, OneLogin, Serving, Registry, Tracking, Undisturbed, Numbered,
         NEW c \in Conn, GateLoginDone(c), OnlyGate
  PROVE  DirStep /\ PlaceOf(c)' = PlaceFor(c) /\ \A d \in Conn \ {c} : PlaceOf(d)' = PlaceOf(d)
<1>1. PICK s, u : s = pending[c].server /\ u = pending[c].uid OBVIOUS
<1>2. /\ s \in Server /\ u \in Uid
      /\ LoginOf(c) = [st |-> "asks", uid |-> u, place |-> None]
      /\ LoginOf(c)' = [st |-> "placed", uid |-> u, place |-> PlaceFor(c)]
      /\ LoginMap' = [LoginMap EXCEPT ![c] = LoginOf(c)']
      /\ user_online[u] = None /\ UNCHANGED user_online
      /\ \A t \in Server : users[t, u] = None
   BY <1>1, AboutToEnter
<1>3. pending[c].st = "login" /\ pending[c].subid \in Nat
   BY PendingLogin DEF GateLoginDone, TypeOK
<1>4. PlaceFor(c) \in Directory!Place BY <1>1, <1>2, <1>3 DEF PlaceFor, Place, Directory!Place
<1>5. \A d \in Conn : PlaceOf(d) # PlaceFor(c) BY <1>3 DEF Numbered
<1>6. /\ users'[s, u] # None /\ users'[s, u].subid = pending[c].subid
      /\ \A p \in Seat \ {<<s, u>>} : users'[p] = users[p]
  <2> DEFINE r == [agent |-> pending[c].agent, subid |-> pending[c].subid, name |-> c]
  <2>1. users' = [users EXCEPT ![<<s, u>>] = r] BY <1>1 DEF GateLoginDone
  <2>2. r # None BY <1>3, PendingLogin, NoneAssumption DEF TypeOK
  <2>3. <<s, u>> \in DOMAIN users BY <1>2 DEF TypeOK, GateTypeOK
  <2>4. users'[<<s, u>>] = r /\ \A p \in Seat \ {<<s, u>>} : users'[p] = users[p]
     BY <2>1, <2>3 DEF Seat, TypeOK, GateTypeOK
  <2>5. r.subid = pending[c].subid OBVIOUS
  <2> HIDE DEF r
  <2> QED BY <2>2, <2>4, <2>5
<1>7. HomeOf(u) = None BY <1>2 DEF HomeOf
<1>8. HomeOf(u)' = PlaceFor(c)
  <2>1. \A t \in Server : users'[t, u] # None => t = s BY <1>2, <1>6 DEF Seat
  <2>2. (CHOOSE t \in Server : users'[t, u] # None) = s
    <3>1. users'[s, u] # None BY <1>6
    <3> QED BY <1>2, <2>1, <3>1, SeatChosen
  <2> QED BY <1>1, <1>2, <1>6, <2>2 DEF HomeOf, PlaceFor, Place
<1>9. HomeMap' = [HomeMap EXCEPT ![u] = PlaceFor(c)]
  <2>1. \A v \in Uid \ {u} : HomeOf(v)' = HomeOf(v)
    <3>1. \A v \in Uid \ {u} : \A t \in Server : users'[t, v] = users[t, v]
       BY <1>6 DEF Seat
    <3> QED BY <1>2, <3>1, HomeMoves
  <2> QED BY <1>2, <1>8, <2>1 DEF HomeMap
<1>10. LoginMap[c].st = "asks" /\ LoginMap[c].uid = u
  <2>1. LoginMap[c] = [st |-> "asks", uid |-> u, place |-> None] BY <1>2 DEF LoginMap
  <2> QED BY <2>1
<1>11. /\ LoginMap' = [LoginMap EXCEPT ![c] =
                         [st |-> "placed", uid |-> LoginMap[c].uid, place |-> PlaceFor(c)]]
       /\ LoginMap'[c].place = PlaceFor(c)
  <2> DEFINE r == [st |-> "placed", uid |-> u, place |-> PlaceFor(c)]
  <2>1. LoginMap' = [LoginMap EXCEPT ![c] = r] BY <1>2
  <2>2. LoginMap'[c] = r BY <2>1 DEF LoginMap
  <2> QED BY <1>10, <2>1, <2>2
<1>12. Directory!Enter(c)
   BY <1>2, <1>4, <1>5, <1>7, <1>9, <1>10, <1>11
      DEF Directory!Enter, LoginMap, HomeMap, PlaceOf
<1>13. PlaceOf(c)' = PlaceFor(c) /\ \A d \in Conn \ {c} : PlaceOf(d)' = PlaceOf(d)
  <2>1. \A d \in Conn : LoginOf(d) = LoginMap[d] /\ LoginOf(d)' = LoginMap'[d] BY DEF LoginMap
  <2>2. \A d \in Conn \ {c} : LoginMap'[d] = LoginMap[d] BY <1>2 DEF LoginMap
  <2> QED BY <1>11, <2>1, <2>2 DEF PlaceOf
<1> QED BY <1>12, <1>13 DEF DirStep, Directory!Next

\* logout_handler: the player leaves, or is not there.
LEMMA DirLeave ==
  ASSUME TypeOK, Tracking, Registry, NEW a \in Agent, NEW k \in Co, GateLeave(a, k)
  PROVE  DirStep /\ KeepsPlaces
<1>1. UNCHANGED <<user_online, conn, call>>
   BY DEF GateLeave, GateLogout, GateLogoutDone, OnlyGate, loginVars
<1>2. CASE UNCHANGED users BY <1>1, <1>2, DirSame
<1>3. CASE GateLogout(a, k) /\ Has(Home[a], Head(sent[a]).uid, Head(sent[a]).subid)
  <2>1. PICK s \in Server, u \in Uid : s = Home[a] /\ u = Head(sent[a]).uid
     BY <1>3, HomeAssumption, HeadLeave DEF GateLogout, TypeOK
  <2>2. users[s, u] # None BY <1>3, <2>1 DEF Has
  <2>3. <<s, u>> \in Seat BY DEF Seat
  <2>4. /\ users'[<<s, u>>] = None
        /\ \A p \in Seat \ {<<s, u>>} : users'[p] = users[p]
    <3>1. users' = [users EXCEPT ![<<s, u>>] = None]
       BY <1>3, <2>1 DEF GateLogout, Drop
    <3> QED BY <2>3, <3>1 DEF Seat, TypeOK, GateTypeOK
  <2>5. \A t \in Server : t # s => users[t, u] = None
    <3> SUFFICES ASSUME NEW t \in Server, t # s, users[t, u] # None PROVE FALSE OBVIOUS
    <3>1. <<t, u>> \in Seat /\ <<t, u>>[2] = <<s, u>>[2] /\ <<t, u>> # <<s, u>>
       BY DEF Seat
    <3> QED BY <2>2, <2>3, <3>1, OneSeat
  <2>6. HomeOf(u) # None
    <3>1. \A t \in Server : users[t, u] # None => t = s BY <2>5
    <3>2. (CHOOSE t \in Server : users[t, u] # None) = s BY <2>2, <3>1, SeatChosen
    <3>3. users[<<s, u>>].subid \in Nat BY <2>2, <2>3, SeatType DEF UserRec
    <3>4. HomeOf(u) = Place(s, users[<<s, u>>].subid) BY <2>2, <3>2 DEF HomeOf
    <3> QED BY <3>3, <3>4, PlaceIs
  <2>7. HomeOf(u)' = None
    <3>1. ASSUME NEW t \in Server PROVE users'[<<t, u>>] = None
      <4>1. CASE t = s BY <2>4, <4>1
      <4>2. CASE t # s
        <5>1. <<t, u>> \in Seat \ {<<s, u>>} BY <4>2 DEF Seat
        <5>2. users'[<<t, u>>] = users[<<t, u>>] BY <2>4, <5>1
        <5>3. users[t, u] = None BY <2>5, <4>2
        <5> QED BY <5>2, <5>3
      <4> QED BY <4>1, <4>2
    <3> QED BY <3>1 DEF HomeOf
  <2>8. HomeMap' = [HomeMap EXCEPT ![u] = None]
    <3>1. \A v \in Uid \ {u} : \A t \in Server : users'[t, v] = users[t, v]
       BY <2>4 DEF Seat
    <3>2. \A v \in Uid \ {u} : HomeOf(v)' = HomeOf(v) BY <3>1, HomeMoves
    <3> QED BY <2>7, <3>2 DEF HomeMap
  <2>9. UNCHANGED LoginMap /\ KeepsPlaces BY <1>1, LoginSame DEF LoginMap, KeepsPlaces, PlaceOf
  <2>10. Directory!Leave(u)
     BY <1>1, <2>6, <2>8, <2>9 DEF Directory!Leave, LoginMap, HomeMap
  <2> QED BY <2>9, <2>10 DEF DirStep, Directory!Next
<1> QED BY <1>2, <1>3 DEF GateLeave, GateLogout, GateLogoutDone

-----------------------------------------------------------------------------
\* The places stay numbered.

\* The place of a login that a gate serves.
LEMMA PendingPlace ==
  ASSUME TypeOK, NEW c \in Conn, pending[c].st # "none"
  PROVE  /\ pending[c].server \in Server /\ pending[c].subid \in Nat
         /\ PlaceFor(c).server = pending[c].server /\ PlaceFor(c).subid = pending[c].subid
         /\ PlaceFor(c) # None
<1>1. pending[c].st \in {"spawn", "login"}
   BY DEF TypeOK, GateTypeOK, NoPending
<1>2. pending[c].server \in Server /\ pending[c].subid \in Nat
   BY <1>1, PendingLogin, PendingSpawn DEF TypeOK
<1> QED BY <1>2, PlaceIs DEF PlaceFor, Place

\* A step that gives out no place.
LEMMA NumberedKept ==
  ASSUME TypeOK, TypeOK', Numbered, KeepsPlaces,
         \A c \in Conn : pending'[c].st # "none" =>
           pending[c].st # "none" /\ PlaceFor(c)' = PlaceFor(c),
         \A s \in Server : internal_id[s] =< internal_id'[s]
  PROVE  Numbered'
<1>1. ASSUME NEW c \in Conn, PlaceOf(c)' # None
      PROVE  PlaceOf(c)'.subid =< internal_id'[PlaceOf(c)'.server]
  <2>1. PlaceOf(c) # None /\ PlaceOf(c)' = PlaceOf(c) BY <1>1 DEF KeepsPlaces
  <2>2. PICK s \in Server, n \in Nat : s = PlaceOf(c).server /\ n = PlaceOf(c).subid
     BY <2>1, LoginIs
  <2>3. n =< internal_id[s] /\ internal_id[s] =< internal_id'[s]
     BY <2>1, <2>2 DEF Numbered
  <2>4. internal_id[s] \in Nat /\ internal_id'[s] \in Nat BY DEF TypeOK, GateTypeOK
  <2>5. n =< internal_id'[s] BY <2>3, <2>4
  <2> QED BY <2>1, <2>2, <2>5
<1>2. ASSUME NEW c \in Conn, NEW d \in Conn, pending'[d].st # "none"
      PROVE  PlaceOf(c)' # PlaceFor(d)'
   BY <1>2 DEF Numbered, KeepsPlaces
<1>3. ASSUME NEW c \in Conn, NEW d \in Conn, pending'[c].st # "none", pending'[d].st # "none",
             PlaceFor(c)' = PlaceFor(d)'
      PROVE  c = d
   BY <1>3 DEF Numbered
<1> QED BY <1>1, <1>2, <1>3 DEF Numbered

\* login_handler gives out the next one,
LEMMA NewLoginNumbered ==
  ASSUME TypeOK, TypeOK', Numbered, Undisturbed, KeepsPlaces, NEW c \in Conn, NEW st, NEW a,
         NewLogin(c, st, a)
  PROVE  Numbered'
<1> DOMAIN pending = Conn BY OneLoginTables
<1>1. PICK s \in Server : s = call[c].server
   BY CalledType DEF NewLogin, Called, TypeOK, CallRec
<1>2. internal_id \in [Server -> Nat] BY DEF TypeOK, GateTypeOK
<1>3. /\ internal_id'[s] = internal_id[s] + 1
      /\ \A t \in Server : t # s => internal_id'[t] = internal_id[t]
   BY <1>1, <1>2 DEF NewLogin
<1>4. /\ \A d \in Conn \ {c} : pending'[d] = pending[d]
      /\ pending'[c].server = s /\ pending'[c].subid = internal_id[s] + 1
   BY <1>1 DEF NewLogin, NextId
<1>5. PlaceFor(c)' = Place(s, internal_id[s] + 1) BY <1>4 DEF PlaceFor
<1>6. \A d \in Conn \ {c} : PlaceFor(d)' = PlaceFor(d) BY <1>4 DEF PlaceFor
<1>7. ASSUME NEW d \in Conn, PlaceOf(d) # None
      PROVE  /\ PlaceOf(d) # PlaceFor(c)'
             /\ PlaceOf(d).subid =< internal_id'[PlaceOf(d).server]
  <2>1. PICK t \in Server, n \in Nat :
          PlaceOf(d) = [server |-> t, subid |-> n]
     BY <1>7, LoginIs
  <2>2. n =< internal_id[t]
    <3>1. PlaceOf(d).subid = n /\ PlaceOf(d).server = t BY <2>1
    <3> QED BY <1>7, <3>1 DEF Numbered
  <2>3. n # internal_id[s] + 1 \/ t # s BY <1>2, <2>2
  <2>4. n =< internal_id'[t] BY <1>2, <1>3, <2>2
  <2> QED BY <1>5, <2>1, <2>3, <2>4 DEF Place
<1>8. ASSUME NEW d \in Conn \ {c}, pending[d].st # "none" PROVE PlaceFor(d) # PlaceFor(c)'
  <2>1. pending[d].subid = internal_id[pending[d].server] BY <1>8 DEF Undisturbed
  <2>2. pending[d].server = s => pending[d].subid # internal_id[s] + 1 BY <1>2, <2>1
  <2> QED BY <1>5, <2>2 DEF PlaceFor, Place
<1>9. PlaceFor(c)' # None BY <1>2, <1>5, PlaceIs
<1>10. ASSUME NEW d \in Conn, NEW e \in Conn, pending'[e].st # "none"
       PROVE  PlaceOf(d) # PlaceFor(e)'
  <2>1. CASE e = c BY <1>7, <1>9, <2>1
  <2>2. CASE e # c BY <1>4, <1>6, <1>10, <2>2 DEF Numbered
  <2> QED BY <2>1, <2>2
<1>11. ASSUME NEW d \in Conn, NEW e \in Conn, pending'[d].st # "none", pending'[e].st # "none",
              PlaceFor(d)' = PlaceFor(e)'
       PROVE  d = e
  <2>1. CASE d # c /\ e # c
    <3>1. /\ PlaceFor(d) = PlaceFor(e)
          /\ pending[d].st # "none" /\ pending[e].st # "none"
       BY <1>4, <1>6, <1>11, <2>1
    <3> QED BY <3>1 DEF Numbered
  <2>2. CASE d = c /\ e # c BY <1>4, <1>6, <1>8, <1>11, <2>2
  <2>3. CASE d # c /\ e = c BY <1>4, <1>6, <1>8, <1>11, <2>3
  <2> QED BY <2>1, <2>2, <2>3
<1> QED BY <1>7, <1>10, <1>11 DEF Numbered, KeepsPlaces

\* and the login has it when the agent has answered.
LEMMA LoginDoneNumbered ==
  ASSUME TypeOK, Numbered, Undisturbed, NEW c \in Conn, GateLoginDone(c),
         PlaceOf(c)' = PlaceFor(c), \A d \in Conn \ {c} : PlaceOf(d)' = PlaceOf(d)
  PROVE  Numbered'
<1> DOMAIN pending = Conn BY OneLoginTables
<1>1. /\ \A d \in Conn \ {c} : pending'[d] = pending[d]
      /\ pending[c].st # "none" /\ pending'[c].st = "none"
      /\ UNCHANGED internal_id
   BY DEF GateLoginDone, NoPending
<1>2. \A d \in Conn \ {c} : PlaceFor(d)' = PlaceFor(d) BY <1>1 DEF PlaceFor
<1>3. PlaceFor(c).subid =< internal_id[PlaceFor(c).server]
  <2>1. pending[c].subid = internal_id[pending[c].server] BY <1>1 DEF Undisturbed
  <2> QED BY <1>1, <2>1, PendingPlace
<1>4. ASSUME NEW d \in Conn, PlaceOf(d)' # None
      PROVE  PlaceOf(d)'.subid =< internal_id'[PlaceOf(d)'.server]
  <2>1. CASE d = c BY <1>1, <1>3, <2>1
  <2>2. CASE d # c
    <3>1. PlaceOf(d)' = PlaceOf(d) BY <2>2
    <3> QED BY <1>1, <1>4, <3>1 DEF Numbered
  <2> QED BY <2>1, <2>2
<1>5. ASSUME NEW d \in Conn, NEW e \in Conn, pending'[e].st # "none"
      PROVE  PlaceOf(d)' # PlaceFor(e)'
  <2>1. e # c /\ pending[e].st # "none" /\ PlaceFor(e)' = PlaceFor(e) BY <1>1, <1>2, <1>5
  <2>2. CASE d = c BY <1>1, <2>1, <2>2 DEF Numbered
  <2>3. CASE d # c BY <2>1, <2>3 DEF Numbered
  <2> QED BY <2>2, <2>3
<1>6. ASSUME NEW d \in Conn, NEW e \in Conn, pending'[d].st # "none", pending'[e].st # "none",
             PlaceFor(d)' = PlaceFor(e)'
      PROVE  d = e
   BY <1>1, <1>2, <1>6 DEF Numbered
<1> QED BY <1>4, <1>5, <1>6 DEF Numbered

\* Every step is a step of the directory, and keeps the places numbered.
LEMMA DirectoryStep ==
  ASSUME Orderly, TypeOK', Serving, Tracking, Undisturbed, Numbered, [Next]_vars,
         ~NetworkFault, ~Crash
  PROVE  DirStep /\ Numbered'
<1> TypeOK /\ OneLogin /\ Registry BY DEF Orderly, Knowledge
<1> DOMAIN pending = Conn BY OneLoginTables
<1>1. ASSUME DirStep, KeepsPlaces, UNCHANGED <<pending, internal_id>>
      PROVE  DirStep /\ Numbered'
  <2>1. \A s \in Server : internal_id[s] =< internal_id[s]
     BY DEF TypeOK, GateTypeOK
  <2>2. \A c \in Conn : PlaceFor(c)' = PlaceFor(c) BY <1>1 DEF PlaceFor
  <2> QED BY <1>1, <2>1, <2>2, NumberedKept
<1>2. ASSUME UNCHANGED <<users, user_online, conn, call, pending, internal_id>>
      PROVE  DirStep /\ Numbered'
   BY <1>1, <1>2, DirSame
<1>3. ASSUME NEW c \in Conn, GateHandler(c) PROVE DirStep /\ Numbered'
  <2> OnlyGate BY <1>3 DEF GateHandler
  <2> Asked BY DEF Tracking
  <2>1. ASSUME NEW st, NEW a, NewLogin(c, st, a),
               (\E b \in Agent : GateLogin(c, b)) \/ GateSpawn(c)
        PROVE  DirStep /\ Numbered'
    <3>1. DirStep /\ KeepsPlaces BY <2>1, DirServe
    <3> QED BY <2>1, <3>1, NewLoginNumbered
  <2>2. CASE GateLoginError(c)
    <3>1. DirStep /\ KeepsPlaces BY <2>2, DirServe
    <3>2. UNCHANGED pending BY <2>2 DEF GateLoginError
    <3>3. \A s \in Server : internal_id[s] =< internal_id'[s]
      <4>1. internal_id \in [Server -> Nat] BY DEF TypeOK, GateTypeOK
      <4>2. PICK t : \/ UNCHANGED internal_id
                     \/ internal_id' = [internal_id EXCEPT ![t] = @ + 1]
         BY <2>2 DEF GateLoginError
      <4> QED BY <4>1, <4>2
    <3>4. \A d \in Conn : PlaceFor(d)' = PlaceFor(d) BY <3>2 DEF PlaceFor
    <3> QED BY <3>1, <3>2, <3>3, <3>4, NumberedKept
  <2>3. CASE GateSpawned(c)
    <3>1. DirStep /\ KeepsPlaces
       BY <2>3, DirSame DEF GateSpawned, OnlyGate, loginVars
    <3>2. PICK a \in Agent : pending' = [pending EXCEPT ![c].st = "login", ![c].agent = a]
       BY <2>3 DEF GateSpawned
    <3>3. pending[c] \in [st : {"spawn"}, server : Server, uid : Uid, subid : Nat,
                          agent : {None}]
       BY <2>3, NoneAssumption DEF GateSpawned, TypeOK, GateTypeOK, NoPending
    <3>4. /\ pending'[c].server = pending[c].server /\ pending'[c].subid = pending[c].subid
          /\ pending[c].st # "none"
          /\ \A d \in Conn \ {c} : pending'[d] = pending[d]
       BY <3>2, <3>3
    <3>5. \A d \in Conn : PlaceFor(d)' = PlaceFor(d) BY <3>4 DEF PlaceFor
    <3>6. \A s \in Server : internal_id[s] =< internal_id'[s]
       BY <2>3 DEF GateSpawned, TypeOK, GateTypeOK
    <3> QED BY <3>1, <3>4, <3>5, <3>6, NumberedKept
  <2>4. CASE GateLoginDone(c)
    <3>1. /\ DirStep /\ PlaceOf(c)' = PlaceFor(c)
          /\ \A d \in Conn \ {c} : PlaceOf(d)' = PlaceOf(d)
       BY <2>4, DirEnter
    <3> QED BY <2>4, <3>1, LoginDoneNumbered
  <2>5. CASE GateKick(c) \/ GateKickDone(c)
    <3>1. DirStep /\ KeepsPlaces BY <2>5, DirServe
    <3> QED BY <2>5, <3>1, <1>1 DEF GateKick, GateKickDone, gateVars
  <2> QED BY <1>3, <2>1, <2>2, <2>3, <2>4, <2>5 DEF GateHandler, GateLogin, GateSpawn
<1>4. CASE Services
  <2>1. ASSUME NEW c \in Conn, LoginHandler(c) PROVE DirStep /\ Numbered'
    <3>1. DirStep /\ KeepsPlaces
       BY <2>1, DirKickReturn, DirLoginReturn DEF LoginHandler, Tracking
    <3> QED BY <2>1, <3>1, <1>1 DEF LoginHandler, OnlyLogin, gateVars
  <2>2. ASSUME NEW c \in Conn, GateShake(c) PROVE DirStep /\ Numbered'
     BY <2>2, <1>2 DEF GateShake, GateAuthed, GateOnlined, OnlyGate, loginVars
  <2>3. ASSUME NEW s \in Server, LogoutCommand(s) PROVE DirStep /\ Numbered'
    <3>1. DirStep /\ KeepsPlaces BY <2>3, DirLogout DEF LogoutCommand
    <3> QED BY <2>3, <3>1, <1>1 DEF LogoutCommand, OnlyLogin, gateVars
  <2>4. ASSUME NEW a \in Agent,
               AgentTurn(a) \/ AgentResume(a) \/ \E k \in Co : AgentCo(a, k)
        PROVE  DirStep /\ Numbered'
    <3>1. UNCHANGED <<users, user_online, conn, pending, internal_id>>
       BY <2>4 DEF AgentTurn, AgentResume, AgentCo, OnlyAgent, loginVars, gateVars
    <3>2. CASE AgentTurn(a)
       BY <3>1, <3>2, <1>2 DEF AgentTurn, Turn, Enqueue, Login, Afk, Online, Auth,
         Kicked, Left, LeftError, Requested, BeginLogout, fabricVars
    <3>3. CASE AgentResume(a)
       BY <3>1, <3>3, <1>2 DEF AgentResume, Resume, OnlineDone, AuthLoaded, AuthDone,
         fabricVars
    <3>4. ASSUME NEW k \in Co, AgentCo(a, k) PROVE DirStep /\ Numbered'
       BY <3>1, <3>4, <1>2 DEF AgentCo, ResumeCo, Unloaded, IdleLogout, WorkerExit,
         BeginLogout, fabricVars
    <3> QED BY <2>4, <3>2, <3>3, <3>4
  <2>5. ASSUME NEW a \in Agent, NEW k \in Co, GateLeave(a, k) PROVE DirStep /\ Numbered'
    <3>1. DirStep /\ KeepsPlaces BY <2>5, DirLeave
    <3> QED BY <2>5, <3>1, <1>1 DEF GateLeave, GateLogout, GateLogoutDone
  <2> QED BY <1>3, <1>4, <2>1, <2>2, <2>3, <2>4, <2>5 DEF Services
<1>5. ASSUME NEW c \in Conn, Player(c) PROVE DirStep /\ Numbered'
  <2>1. ASSUME NEW u \in Uid, NEW s \in Server, Accept(c, u, s), OnlyLogin
        PROVE  DirStep /\ Numbered'
    <3>1. DirStep /\ KeepsPlaces BY <2>1, DirAccept
    <3> QED BY <2>1, <3>1, <1>1 DEF OnlyLogin, gateVars
  <2>2. CASE OnlyGate
    <3>1. UNCHANGED <<user_online, conn>> BY <2>2 DEF OnlyGate, loginVars
    <3>2. ASSUME NEW s, NEW u, NEW n, Handshake(c, s, u, n) PROVE DirStep /\ Numbered'
       BY <3>1, <3>2, <1>2 DEF Handshake
    <3>3. CASE Disconnect(c) BY <3>1, <3>3, <1>2 DEF Disconnect
    <3>4. ASSUME NEW k \in Client, ClientLogout(c, k) PROVE DirStep /\ Numbered'
       BY <3>1, <3>4, <1>2 DEF ClientLogout, gateVars
    <3> QED BY <1>5, <2>1, <3>2, <3>3, <3>4 DEF Player
  <2> QED BY <1>5, <2>1, <2>2 DEF Player
<1>6. CASE UNCHANGED vars
   BY <1>6, <1>2 DEF vars, fabricVars, loginVars, gateVars, agentVars
<1> QED BY <1>4, <1>5, <1>6 DEF Next

\* At first everybody is nowhere.
LEMMA DirectoryInit == Init => Directory!Init /\ Numbered
<1> SUFFICES ASSUME Init PROVE Directory!Init /\ Numbered OBVIOUS
<1> USE DEF Init, FabricInit, LoginInit, GateInit
<1>1. \A c \in Conn : LoginOf(c) = [st |-> "new", uid |-> None, place |-> None]
   BY DEF LoginOf, InLogin, NoLogin
<1>2. \A u \in Uid : HomeOf(u) = None BY DEF HomeOf
<1>3. Directory!Init BY <1>1, <1>2 DEF Directory!Init
<1>4. Numbered BY <1>1 DEF Numbered, PlaceOf, NoPending
<1> QED BY <1>3, <1>4

\* While no call and no process fails and no login of another player moves the
\* counter of a gate before an agent has answered, the servers keep the
\* directory: a place is given to one login, its client is told that place,
\* and the login server forgets no player who is there (logind.lua:74-117,
\* gated.lua:44-114).
THEOREM DirectoryIsKept == Spec /\ [](NoFault /\ Undisturbed) => KeepsDirectory
<1>1. Init => Directory!Init /\ Numbered BY DirectoryInit
<1>2. Orderly /\ Tracking /\ Numbered /\ NoFault /\ Undisturbed
        /\ Orderly' /\ NoFault' /\ [Next]_vars
        => DirStep /\ Numbered'
  <2> SUFFICES ASSUME Orderly, Tracking, Numbered, NoFault, Undisturbed,
                      Orderly', NoFault', [Next]_vars
               PROVE  DirStep /\ Numbered'
     OBVIOUS
  <2>1. ~NetworkFault /\ ~Crash BY FaultsCount DEF Orderly, Knowledge
  <2> QED BY <2>1, DirectoryStep DEF Orderly, Knowledge
<1> QED BY <1>1, <1>2, Followable, PTL DEF Spec, KeepsDirectory, Directory!Spec, DirStep

-----------------------------------------------------------------------------
\* What a directory promises, of this one.

\* The entries of a directory: a client has a place once its login is
\* answered, and no two have the same; one login of a player runs at a time,
\* and as long as it does the player's place is not known.
Entries ==
  /\ user_online \in [Uid -> Directory!Place \cup {None}]
  /\ \A c \in Conn : LoginMap[c].place \in Directory!Place \cup {None}
  /\ \A c \in Conn : LoginMap[c].st \notin {"placed", "told"} => LoginMap[c].place = None
  /\ \A c, d \in Conn : LoginMap[c].place # None /\ LoginMap[c].place = LoginMap[d].place
       => c = d
  /\ \A c, d \in Conn :
       /\ LoginMap[c].st \in {"asks", "placed"} /\ LoginMap[d].st \in {"asks", "placed"}
       /\ LoginMap[c].uid = LoginMap[d].uid
       => c = d
  /\ \A c \in Conn : LoginMap[c].st = "placed" => user_online[LoginMap[c].uid] = None

\* The place of a player is a login's.
Given(u, c) ==
  /\ LoginMap[c].uid = u /\ LoginMap[c].place = HomeMap[u]
  /\ user_online[u] = HomeMap[u] \/ LoginMap[c].st = "placed"
Placed == \A u \in Uid : HomeMap[u] # None => \E c \in Conn : Given(u, c)

\* The entry of a login is a record of three fields.
LEMMA EntryShape ==
  ASSUME NEW c \in Conn
  PROVE  LoginMap[c] = [st |-> LoginMap[c].st, uid |-> LoginMap[c].uid,
                        place |-> LoginMap[c].place]
BY DEF LoginMap, LoginOf

\* Together they say where each player is.
LEMMA PlacedMeans == Entries /\ Placed => PlacedByLogin
<1> SUFFICES ASSUME Entries, Placed, NEW u \in Uid, HomeMap[u] # None
             PROVE  \E c \in Conn : /\ Given(u, c)
                                    /\ \A d \in Conn : LoginMap[d].place = HomeMap[u] => d = c
                                    /\ LoginMap[c].st = "placed" => user_online[u] = None
   BY DEF PlacedByLogin, Directory!PlacedByLogin, Given, HomeMap, LoginMap
<1>1. PICK c \in Conn : Given(u, c) BY DEF Placed
<1>2. \A d \in Conn : LoginMap[d].place = HomeMap[u] => d = c BY <1>1 DEF Entries, Given
<1>3. LoginMap[c].st = "placed" => user_online[u] = None BY <1>1 DEF Entries, Given
<1> QED BY <1>1, <1>2, <1>3

\* A step that changes the entry of one login and no place.
LEMMA EntriesAt ==
  ASSUME Entries, Placed, NEW c \in Conn, NEW r, LoginMap' = [LoginMap EXCEPT ![c] = r],
         UNCHANGED <<HomeMap, user_online>>,
         LoginMap[c].st # "placed", LoginMap[c].place = None,
         r.place = None, r.st \in {"asks", "refused"},
         r.st = "asks" => \A d \in Conn :
           LoginMap[d].st \in {"asks", "placed"} => LoginMap[d].uid # r.uid
  PROVE  Entries' /\ Placed'
<1>1. LoginMap'[c] = r /\ \A d \in Conn \ {c} : LoginMap'[d] = LoginMap[d] BY DEF LoginMap
<1>2. Entries'
  <2>1. /\ user_online' \in [Uid -> Directory!Place \cup {None}]
        /\ \A d \in Conn : LoginMap'[d].place \in Directory!Place \cup {None}
     BY <1>1 DEF Entries, Directory!Place
  <2>2. \A d \in Conn : LoginMap'[d].st \notin {"placed", "told"} => LoginMap'[d].place = None
     BY <1>1 DEF Entries
  <2>3. \A d, e \in Conn : LoginMap'[d].place # None /\ LoginMap'[d].place = LoginMap'[e].place
          => d = e
     BY <1>1 DEF Entries
  <2>4. \A d, e \in Conn :
          /\ LoginMap'[d].st \in {"asks", "placed"} /\ LoginMap'[e].st \in {"asks", "placed"}
          /\ LoginMap'[d].uid = LoginMap'[e].uid
          => d = e
     BY <1>1 DEF Entries
  <2>5. \A d \in Conn : LoginMap'[d].st = "placed" => user_online'[LoginMap'[d].uid] = None
     BY <1>1 DEF Entries
  <2> QED BY <2>1, <2>2, <2>3, <2>4, <2>5 DEF Entries, Directory!Place
<1>3. Placed'
  <2> SUFFICES ASSUME NEW u \in Uid, HomeMap[u] # None PROVE \E d \in Conn : Given(u, d)'
     BY DEF Placed
  <2>1. PICK d \in Conn : Given(u, d) BY DEF Placed
  <2>2. d # c BY <2>1 DEF Given
  <2> QED BY <1>1, <2>1, <2>2 DEF Given
<1> QED BY <1>2, <1>3

\* Every step of a directory keeps its entries.
LEMMA EntriesStep == Entries /\ Placed /\ DirStep => Entries' /\ Placed'
<1> SUFFICES ASSUME Entries, Placed, DirStep PROVE Entries' /\ Placed' OBVIOUS
<1> USE DEF LoginMap, HomeMap
<1>1. ASSUME NEW c \in Conn, NEW u \in Uid, Directory!Ask(c, u) PROVE Entries' /\ Placed'
  <2> DEFINE r == [st |-> "asks", uid |-> u, place |-> None]
  <2>1. /\ LoginMap' = [LoginMap EXCEPT ![c] = r] /\ UNCHANGED <<HomeMap, user_online>>
        /\ LoginMap[c].st = "new"
        /\ \A d \in Conn : LoginMap[d].st \in {"asks", "placed"} => LoginMap[d].uid # u
     BY <1>1 DEF Directory!Ask, Directory!Busy, Directory!Logging
  <2>2. r.st = "asks" /\ r.uid = u /\ r.place = None OBVIOUS
  <2>3. LoginMap[c].place = None BY <2>1 DEF Entries
  <2> HIDE DEF r, LoginMap, HomeMap
  <2> QED BY <2>1, <2>2, <2>3, EntriesAt
<1>2. ASSUME NEW c \in Conn, NEW u \in Uid, Directory!Deny(c, u) PROVE Entries' /\ Placed'
  <2> DEFINE r == [st |-> "refused", uid |-> u, place |-> None]
  <2>1. /\ LoginMap' = [LoginMap EXCEPT ![c] = r] /\ UNCHANGED <<HomeMap, user_online>>
        /\ LoginMap[c].st = "new"
     BY <1>2 DEF Directory!Deny
  <2>2. r.st = "refused" /\ r.place = None OBVIOUS
  <2>3. LoginMap[c].place = None BY <2>1 DEF Entries
  <2> HIDE DEF r, LoginMap, HomeMap
  <2> QED BY <2>1, <2>2, <2>3, EntriesAt
<1>3. ASSUME NEW c \in Conn, Directory!Fail(c) PROVE Entries' /\ Placed'
  <2> DEFINE r == [LoginMap[c] EXCEPT !.st = "refused"]
  <2>1. /\ LoginMap' = [LoginMap EXCEPT ![c] = r] /\ UNCHANGED <<HomeMap, user_online>>
        /\ LoginMap[c].st = "asks"
     BY <1>3 DEF Directory!Fail
  <2>2. LoginMap[c].place = None BY <2>1 DEF Entries
  <2>3. r.st = "refused" /\ r.place = None
    <3> HIDE DEF LoginMap
    <3> QED BY <2>2, EntryShape
  <2> HIDE DEF r, LoginMap, HomeMap
  <2> QED BY <2>1, <2>2, <2>3, EntriesAt
<1>4. ASSUME NEW c \in Conn, Directory!Enter(c) PROVE Entries' /\ Placed'
  <2> DEFINE u == LoginMap[c].uid
             p == LoginMap'[c].place
             r == [st |-> "placed", uid |-> u, place |-> p]
  <2>1. /\ LoginMap' = [LoginMap EXCEPT ![c] = r] /\ HomeMap' = [HomeMap EXCEPT ![u] = p]
        /\ UNCHANGED user_online
        /\ LoginMap[c].st = "asks" /\ HomeMap[u] = None /\ user_online[u] = None
        /\ p \in Directory!Place /\ \A d \in Conn : LoginMap[d].place # p
     BY <1>4 DEF Directory!Enter
  <2>2. r.st = "placed" /\ r.uid = u /\ r.place = p OBVIOUS
  <2>3. /\ LoginMap'[c] = r /\ \A d \in Conn \ {c} : LoginMap'[d] = LoginMap[d]
     BY <2>1
  <2>4. \A v \in Uid : HomeMap'[v] = IF v = u THEN p ELSE HomeMap[v] BY <2>1
  <2> HIDE DEF r, u, p, LoginMap, HomeMap
  <2>5. Entries'
    <3>1. /\ user_online' \in [Uid -> Directory!Place \cup {None}]
          /\ \A d \in Conn : LoginMap'[d].place \in Directory!Place \cup {None}
       BY <2>1, <2>2, <2>3 DEF Entries
    <3>2. \A d \in Conn : LoginMap'[d].st \notin {"placed", "told"} => LoginMap'[d].place = None
       BY <2>2, <2>3 DEF Entries
    <3>3. \A d, e \in Conn : LoginMap'[d].place # None /\ LoginMap'[d].place = LoginMap'[e].place
            => d = e
       BY <2>1, <2>2, <2>3 DEF Entries
    <3>4. \A d, e \in Conn :
            /\ LoginMap'[d].st \in {"asks", "placed"} /\ LoginMap'[e].st \in {"asks", "placed"}
            /\ LoginMap'[d].uid = LoginMap'[e].uid
            => d = e
       BY <2>1, <2>2, <2>3 DEF Entries, u
    <3>5. \A d \in Conn : LoginMap'[d].st = "placed" => user_online'[LoginMap'[d].uid] = None
       BY <2>1, <2>2, <2>3 DEF Entries
    <3> QED BY <3>1, <3>2, <3>3, <3>4, <3>5 DEF Entries, Directory!Place
  <2>6. Placed'
    <3> SUFFICES ASSUME NEW v \in Uid, HomeMap'[v] # None PROVE \E d \in Conn : Given(v, d)'
       BY DEF Placed
    <3>1. CASE v = u BY <2>2, <2>3, <2>4, <3>1 DEF Given
    <3>2. CASE v # u
      <4>1. HomeMap'[v] = HomeMap[v] BY <2>4, <3>2
      <4>2. PICK d \in Conn : Given(v, d) BY <4>1 DEF Placed
      <4>3. d # c BY <3>2, <4>2 DEF Given, u
      <4> QED BY <2>1, <2>3, <4>1, <4>2, <4>3 DEF Given
    <3> QED BY <3>1, <3>2
  <2> QED BY <2>5, <2>6
<1>5. ASSUME NEW c \in Conn, Directory!Tell(c) PROVE Entries' /\ Placed'
  <2> DEFINE u == LoginMap[c].uid
             p == LoginMap[c].place
             r == [LoginMap[c] EXCEPT !.st = "told"]
  <2>1. /\ LoginMap' = [LoginMap EXCEPT ![c] = r] /\ UNCHANGED HomeMap
        /\ user_online' = [user_online EXCEPT ![u] = p]
        /\ LoginMap[c].st = "placed" /\ user_online[u] = None
     BY <1>5 DEF Directory!Tell
  <2>2. r.st = "told" /\ r.uid = u /\ r.place = p
    <3> HIDE DEF LoginMap
    <3> QED BY EntryShape
  <2>3. /\ LoginMap'[c] = r /\ \A d \in Conn \ {c} : LoginMap'[d] = LoginMap[d]
     BY <2>1
  <2> HIDE DEF r, u, p, LoginMap, HomeMap
  <2>4. p \in Directory!Place \cup {None} BY DEF Entries, p
  <2>5. \A v \in Uid : v # u => user_online'[v] = user_online[v] BY <2>1 DEF Entries
  <2>6. ASSUME NEW d \in Conn, LoginMap[d].st \in {"asks", "placed"}, LoginMap[d].uid = u
        PROVE  d = c
     BY <2>1, <2>6 DEF Entries, u
  <2>7. Entries'
    <3>1. /\ user_online' \in [Uid -> Directory!Place \cup {None}]
          /\ \A d \in Conn : LoginMap'[d].place \in Directory!Place \cup {None}
       BY <2>1, <2>2, <2>3, <2>4 DEF Entries
    <3>2. \A d \in Conn : LoginMap'[d].st \notin {"placed", "told"} => LoginMap'[d].place = None
       BY <2>2, <2>3 DEF Entries
    <3>3. \A d \in Conn : LoginMap'[d].place = LoginMap[d].place BY <2>2, <2>3 DEF p
    <3>4. \A d, e \in Conn : LoginMap'[d].place # None /\ LoginMap'[d].place = LoginMap'[e].place
            => d = e
       BY <3>3 DEF Entries
    <3>5. \A d \in Conn : LoginMap'[d].st \in {"asks", "placed"} =>
            LoginMap[d].st \in {"asks", "placed"} /\ LoginMap'[d].uid = LoginMap[d].uid /\ d # c
       BY <2>2, <2>3
    <3>6. \A d, e \in Conn :
            /\ LoginMap'[d].st \in {"asks", "placed"} /\ LoginMap'[e].st \in {"asks", "placed"}
            /\ LoginMap'[d].uid = LoginMap'[e].uid
            => d = e
       BY <3>5 DEF Entries
    <3>7. ASSUME NEW d \in Conn, LoginMap'[d].st = "placed"
          PROVE  user_online'[LoginMap'[d].uid] = None
      <4>1. d # c /\ LoginMap'[d] = LoginMap[d] BY <3>5, <3>7, <2>3
      <4>2. LoginMap[d].uid # u BY <2>6, <3>7, <4>1
      <4>3. user_online[LoginMap[d].uid] = None BY <3>7, <4>1 DEF Entries
      <4> QED BY <2>1, <4>1, <4>2, <4>3 DEF Entries
    <3> QED BY <3>1, <3>2, <3>4, <3>6, <3>7 DEF Entries, Directory!Place
  <2>8. Placed'
    <3> SUFFICES ASSUME NEW v \in Uid, HomeMap[v] # None PROVE \E d \in Conn : Given(v, d)'
       BY <2>1 DEF Placed
    <3>1. PICK d \in Conn : Given(v, d) BY DEF Placed
    <3>2. CASE d = c
      <4>1. v = u /\ HomeMap[v] = p BY <3>1, <3>2 DEF Given, u, p
      <4>2. user_online'[v] = p BY <2>1, <4>1 DEF Entries
      <4> QED BY <2>1, <2>2, <2>3, <4>1, <4>2 DEF Given
    <3>3. CASE d # c
      <4>1. LoginMap'[d] = LoginMap[d] BY <2>3, <3>3
      <4>2. v # u
        <5> SUFFICES ASSUME v = u PROVE FALSE OBVIOUS
        <5>1. LoginMap[d].st = "placed" BY <2>1, <3>1 DEF Given
        <5> QED BY <2>6, <3>1, <3>3, <5>1 DEF Given
      <4> QED BY <2>1, <2>5, <3>1, <4>1, <4>2 DEF Given
    <3> QED BY <3>2, <3>3
  <2> QED BY <2>7, <2>8
<1>6. ASSUME NEW u \in Uid, Directory!Leave(u) PROVE Entries' /\ Placed'
  <2>1. /\ UNCHANGED <<LoginMap, user_online>>
        /\ \A v \in Uid : HomeMap'[v] # None => HomeMap'[v] = HomeMap[v]
     BY <1>6 DEF Directory!Leave
  <2> HIDE DEF LoginMap, HomeMap
  <2>2. Entries' BY <2>1 DEF Entries, Directory!Place
  <2>3. Placed' BY <2>1 DEF Placed, Given
  <2> QED BY <2>2, <2>3
<1>7. ASSUME NEW u \in Uid, Directory!Forget(u) PROVE Entries' /\ Placed'
  <2>1. /\ UNCHANGED <<LoginMap, HomeMap>> /\ HomeMap[u] = None
        /\ user_online' = [user_online EXCEPT ![u] = None]
     BY <1>7 DEF Directory!Forget
  <2> HIDE DEF LoginMap, HomeMap
  <2>2. Entries' BY <2>1 DEF Entries, Directory!Place
  <2>3. \A v \in Uid : v # u => user_online'[v] = user_online[v] BY <2>1 DEF Entries
  <2>4. Placed' BY <2>1, <2>3 DEF Placed, Given
  <2> QED BY <2>2, <2>4
<1>8. CASE UNCHANGED Directory!vars
  <2>1. UNCHANGED <<LoginMap, HomeMap, user_online>> BY <1>8 DEF Directory!vars
  <2> HIDE DEF LoginMap, HomeMap
  <2> QED BY <2>1 DEF Entries, Placed, Given, Directory!Place
<1> QED BY <1>1, <1>2, <1>3, <1>4, <1>5, <1>6, <1>7, <1>8 DEF DirStep, Directory!Next

\* An empty directory has them.
LEMMA EntriesInit == Directory!Init => Entries /\ Placed
<1> SUFFICES ASSUME Directory!Init PROVE Entries /\ Placed OBVIOUS
<1>1. /\ HomeMap = [u \in Uid |-> None] /\ user_online = [u \in Uid |-> None]
      /\ LoginMap = [c \in Conn |-> [st |-> "new", uid |-> None, place |-> None]]
   BY DEF Directory!Init, HomeMap, LoginMap
<1> QED BY <1>1 DEF Entries, Placed

\* A directory has every player at a place that one login has, and is known
\* to the login server once that login's client has been told.
LEMMA DirectoryPlaces == KeepsDirectory => []PlacedByLogin
<1>1. Directory!Init => Entries /\ Placed BY EntriesInit
<1>2. Entries /\ Placed /\ DirStep => Entries' /\ Placed' BY EntriesStep
<1>3. Entries /\ Placed => PlacedByLogin BY PlacedMeans
<1> QED BY <1>1, <1>2, <1>3, PTL DEF KeepsDirectory, Directory!Spec, DirStep

\* Hence each session of a gate is the place that one client has been told or
\* is going to be told (logind.lua:97-100, gated.lua:60-83), under the same
\* conditions,
THEOREM SessionsArePlaced == Spec /\ [](NoFault /\ Undisturbed) => []PlacedByLogin
BY DirectoryIsKept, DirectoryPlaces, PTL

\* and one player, with any number of servers, agents and logins, has both
\* without the condition on the counters.
THEOREM OnePlayerHasADirectory ==
  ASSUME Alone
  PROVE  Spec /\ []NoFault => KeepsDirectory /\ []PlacedByLogin
BY AloneFollowed, DirectoryIsKept, SessionsArePlaced, PTL
=============================================================================
