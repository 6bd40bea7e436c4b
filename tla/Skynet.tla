------------------------------- MODULE Skynet -------------------------------
(***************************************************************************)
(* The message fabric under the login server and the game servers: what    *)
(* the repository takes from skynet (an external git submodule), modelled  *)
(* as its services use it.                                                 *)
(*                                                                         *)
(* A service runs one handler at a time and another handler may run only   *)
(* where the first one yields, at skynet.call, cluster.call or             *)
(* skynet.sleep.  An action of the modules built on this one is therefore  *)
(* the code between two yields, and a call is a message whose answer       *)
(* resumes the caller.  What a gate sends an agent, what an agent sends    *)
(* its gate and the logout calls of a node to the login server arrive in   *)
(* order; nothing else is ordered.                                         *)
(***************************************************************************)
EXTENDS Naturals, Sequences, FiniteSets

CONSTANTS
  Server,      \* game servers: the nodes of clustername.lua that run a gate
  Uid,         \* players
  Conn,        \* client connections to the login server, one login each
  Agent,       \* the msgagent services the gates may own
  Home,        \* the game server of each agent
  Precreated,  \* the agents a gate creates when it starts
  Client,      \* coroutines of an agent that serve a client's request
  Worker,      \* timer coroutines an agent may have forked
  None         \* no value (nil)

ASSUME HomeAssumption == Home \in [Agent -> Server]
ASSUME PrecreatedAssumption == Precreated \subseteq Agent
ASSUME CoAssumption ==
  /\ "cs" \notin Client \cup Worker
  /\ Client \cap Worker = {}
ASSUME NoneAssumption ==
  /\ None \notin Server \cup Uid \cup Conn \cup Agent \cup Worker
  /\ None \notin [agent : Agent, subid : Nat, name : Conn]
  /\ None \notin [agent : Agent, subid : Nat]
  /\ None \notin [server : Server, subid : Nat]
  /\ None \notin [uid : Uid, subid : Nat]

\* The coroutines of an agent that can run logout(): the one inside its
\* critical section, those of client requests and those of the timer.
Co == {"cs"} \cup Client \cup Worker

\* Who may be waiting for the login server to confirm a logout: a
\* logout_handler, named by the agent coroutine that called it, or the
\* kick_handler of a connection.  None once its gate has died.
Caller == Conn \cup (Agent \X Co)

\* A connection is not a coroutine of an agent.
ASSUME CallerAssumption == Conn \cap (Agent \X Co) = {}

VARIABLES
  call,     \* the cluster.call a connection's login_handler is waiting for
  notifyq,  \* logout calls on their way from each gate to the login server
  acked,    \* callers whose logout call has returned
  mbox,     \* mailbox of each agent
  sent      \* what each agent has sent its gate

fabricVars == <<call, notifyq, acked, mbox, sent>>

\* Messages of an agent's mailbox: the commands of the gate, a client's
\* LogoutRequest, and the answers to the agent's own calls.
LoginMsg(c, u, n) == [op |-> "login", conn |-> c, uid |-> u, subid |-> n]
AuthMsg(c)        == [op |-> "auth", conn |-> c]
OnlineMsg(c)      == [op |-> "online", conn |-> c]
KickMsg(c)        == [op |-> "logout", conn |-> c]
AfkMsg            == [op |-> "afk"]
ClientMsg(k)      == [op |-> "client", co |-> k]
LeftMsg(k, ok)    == [op |-> "left", co |-> k, ok |-> ok]

HeldMsg == [op : {"auth", "online", "logout"}, conn : Conn]
CsMsg == [op : {"login"}, conn : Conn, uid : Uid, subid : Nat]
           \cup HeldMsg \cup [op : {"afk"}]
Msg   == CsMsg \cup [op : {"client"}, co : Client]
               \cup [op : {"left"}, co : Co, ok : BOOLEAN]

\* What an agent sends its gate: the "logout" call of a coroutine, and the
\* answers to the gate's commands.
LeaveMsg(k, u, n) == [op |-> "leave", co |-> k, uid |-> u, subid |-> n]
Reply(cmd, c)     == [op |-> cmd, conn |-> c]

GateMsg == [op : {"leave"}, co : Co, uid : Uid, subid : Nat]
             \cup [op : {"login", "auth", "online", "logout"}, conn : Conn]

\* A logout call to the login server.
NotifyMsg == [uid : Uid, by : Caller \cup {None}]

NoCall == [op |-> "none", st |-> "none", server |-> None, uid |-> None,
           subid |-> 0]

CallRec == [op : {"kick", "login"}, st : {"sent", "serving", "ok", "fail"},
            server : Server, uid : Uid, subid : Nat]

FabricTypeOK ==
  /\ call \in [Conn -> CallRec \cup {NoCall}]
  /\ notifyq \in [Server -> Seq(NotifyMsg)]
  /\ acked \subseteq Caller
  /\ mbox \in [Agent -> Seq(Msg)]
  /\ sent \in [Agent -> Seq(GateMsg)]

FabricInit ==
  /\ call = [c \in Conn |-> NoCall]
  /\ notifyq = [s \in Server |-> <<>>]
  /\ acked = {}
  /\ mbox = [a \in Agent |-> <<>>]
  /\ sent = [a \in Agent |-> <<>>]

\* cluster.call(s, "gated", op, u, n) by the login_handler of connection c.
Call(c, op, s, u, n) ==
  call' = [call EXCEPT ![c] = [op |-> op, st |-> "sent", server |-> s,
                               uid |-> u, subid |-> n]]

\* A gate takes a call up and yields, or answers it.  The answer to a call
\* its caller no longer waits for is dropped.
Called(c, op) == call[c].op = op /\ call[c].st = "sent"
Serve(c)      == call' = [call EXCEPT ![c].st = "serving"]
Refuse(c)     == call' = [call EXCEPT ![c].st = "fail"]
Answer(c, op, n) ==
  call' = IF call[c].op = op /\ call[c].st = "serving"
          THEN [call EXCEPT ![c].st = "ok", ![c].subid = n] ELSE call

\* cluster.call("login", ".login_master", "logout", u, n) by a gate.
Notify(s, u, by) ==
  notifyq' = [notifyq EXCEPT ![s] = Append(@, [uid |-> u, by |-> by])]

\* Defect: the answer to a logout call is never sent.
Ack_Lost(B) == UNCHANGED acked

\* The logout calls of B return.
Ack(B) == acked' = acked \cup (B \ {None})

\* A message is put in an agent's mailbox.
Post(a, m) == mbox' = [mbox EXCEPT ![a] = Append(@, m)]

\* An agent sends its gate a message, which the gate takes in its turn.
Send(a, m)     == sent' = [sent EXCEPT ![a] = Append(@, m)]
Sent(a, m)     == sent[a] # <<>> /\ Head(sent[a]) = m
Receive(a)     == sent' = [sent EXCEPT ![a] = Tail(@)]

\* The network fails a call of the login server, before or after the gate
\* has taken it up: the caller sees an error, the gate nothing.
CallFails(c) ==
  /\ call[c].st \in {"sent", "serving"}
  /\ Refuse(c)
  /\ UNCHANGED <<notifyq, acked, mbox, sent>>

\* The network loses a logout call of a gate: its pcall returns.
LoseNotify(s) ==
  /\ notifyq[s] # <<>>
  /\ notifyq' = [notifyq EXCEPT ![s] = Tail(@)]
  /\ Ack({Head(notifyq[s]).by})
  /\ UNCHANGED <<call, mbox, sent>>
=============================================================================
