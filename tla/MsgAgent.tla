------------------------------ MODULE MsgAgent ------------------------------
(***************************************************************************)
(* A msgagent service (game/msgagent.lua): the server side of one player   *)
(* at a time, reused for the next one after a logout.  The gate's commands *)
(* run one after another in the critical section `cs`; a client's request  *)
(* and the timer coroutine run outside it, so that logout() may run in     *)
(* several coroutines at once.  What the agent asks of dcmgr, of the user  *)
(* module and of online ends at any time and is otherwise left out.        *)
(***************************************************************************)
EXTENDS Skynet

VARIABLES
  bound,      \* the session the agent serves: its gate, UID and SUB_ID
  afk,        \* afktime > 0: the client has left
  running,    \* the timer coroutine is to go on
  worker_co,  \* the timer coroutine forked last
  co,         \* where each coroutine has yielded
  csop,       \* the command inside the critical section
  csq         \* the commands that wait to enter it

agentVars == <<bound, afk, running, worker_co, co, csop, csq>>

AgentTypeOK ==
  /\ bound \in [Agent -> [uid : Uid, subid : Nat] \cup {None}]
  /\ afk \in [Agent -> BOOLEAN]
  /\ running \in [Agent -> BOOLEAN]
  /\ worker_co \in [Agent -> Worker \cup {None}]
  /\ co \in [Agent \X Co -> {"none", "sleep", "leave", "unload",
                             "load", "init", "online"}]
  /\ csop \in [Agent -> HeldMsg \cup {None}]
  /\ csq \in [Agent -> Seq(CsMsg)]

\* A service that has just started.
AgentInit ==
  /\ bound = [a \in Agent |-> None]
  /\ afk = [a \in Agent |-> FALSE]
  /\ running = [a \in Agent |-> FALSE]
  /\ worker_co = [a \in Agent |-> None]
  /\ co = [p \in Agent \X Co |-> "none"]
  /\ csop = [a \in Agent |-> None]
  /\ csq = [a \in Agent |-> <<>>]

At(a, k, st)  == co[a, k] = st
Goto(a, k, st) == co' = [co EXCEPT ![<<a, k>>] = st]

\* A message is taken when no coroutine has just been handed the critical
\* section: that one runs first.
Idle(a)        == csop[a] # None \/ csq[a] = <<>>
Msg1(a)        == Head(mbox[a])
HasMsg(a, ops) == Idle(a) /\ mbox[a] # <<>> /\ Msg1(a).op \in ops
Take(a)        == mbox' = [mbox EXCEPT ![a] = Tail(@)]

\* cs(f, ...) while another command is inside: the coroutine waits.
Enqueue(a) ==
  /\ HasMsg(a, {"login", "auth", "online", "logout", "afk"})
  /\ csop[a] # None
  /\ Take(a)
  /\ csq' = [csq EXCEPT ![a] = Append(@, Msg1(a))]
  /\ UNCHANGED <<bound, afk, running, worker_co, co, csop,
                 call, notifyq, acked, sent>>

\* The command that may enter the critical section: the first that waits,
\* or the one that comes when none does.
Command(a) == IF csq[a] # <<>> THEN Head(csq[a]) ELSE Msg1(a)

Enter(a, op) ==
  /\ csop[a] = None
  /\ csq[a] # <<>> \/ mbox[a] # <<>>
  /\ Command(a).op = op
  /\ IF csq[a] # <<>>
     THEN csq' = [csq EXCEPT ![a] = Tail(@)] /\ UNCHANGED mbox
     ELSE Take(a) /\ UNCHANGED csq

\* Defects: a command ends without an answer; the afk command is ignored.
Release_Silent(a) == csop' = [csop EXCEPT ![a] = None] /\ UNCHANGED sent
Afk_Ignored(a) ==
  /\ Enter(a, "afk")
  /\ UNCHANGED <<bound, afk, running, worker_co, co, csop,
                 call, notifyq, acked, sent>>

\* The command inside has ended.
Release(a) ==
  /\ csop[a] # None
  /\ csop' = [csop EXCEPT ![a] = None]
  /\ Send(a, Reply(csop[a].op, csop[a].conn))

\* CMD.login: the agent is bound to a session.
Login(a) ==
  /\ Enter(a, "login")
  /\ bound' = [bound EXCEPT ![a] = [uid |-> Command(a).uid,
                                    subid |-> Command(a).subid]]
  /\ afk' = [afk EXCEPT ![a] = FALSE]
  /\ Send(a, Reply("login", Command(a).conn))
  /\ UNCHANGED <<running, worker_co, co, csop, call, notifyq, acked>>

\* CMD.afk: the client's connection is broken.
Afk(a) ==
  /\ Enter(a, "afk")
  /\ afk' = [afk EXCEPT ![a] = TRUE]
  /\ UNCHANGED <<bound, running, worker_co, co, csop,
                 call, notifyq, acked, sent>>

\* CMD.online calls the online service.
Online(a) ==
  /\ Enter(a, "online")
  /\ csop' = [csop EXCEPT ![a] = Command(a)]
  /\ Goto(a, "cs", "online")
  /\ UNCHANGED <<bound, afk, running, worker_co,
                 call, notifyq, acked, sent>>

OnlineDone(a) ==
  /\ At(a, "cs", "online")
  /\ Goto(a, "cs", "none")
  /\ Release(a)
  /\ UNCHANGED <<bound, afk, running, worker_co, csq,
                 call, notifyq, acked, mbox>>

\* CMD.auth: has the player's data loaded,
Auth(a) ==
  /\ Enter(a, "auth")
  /\ csop' = [csop EXCEPT ![a] = Command(a)]
  /\ Goto(a, "cs", "load")
  /\ UNCHANGED <<bound, afk, running, worker_co,
                 call, notifyq, acked, sent>>

\* starts the timer unless one is running,
AuthLoaded(a) ==
  /\ At(a, "cs", "load")
  /\ \/ /\ running[a]
        /\ Goto(a, "cs", "init")
        /\ UNCHANGED <<running, worker_co>>
     \/ /\ ~running[a]
        /\ running' = [running EXCEPT ![a] = TRUE]
        /\ \E w \in Worker :
             /\ At(a, w, "none")
             /\ worker_co' = [worker_co EXCEPT ![a] = w]
             /\ co' = [co EXCEPT ![<<a, "cs">>] = "init", ![<<a, w>>] = "sleep"]
  /\ UNCHANGED <<bound, afk, csop, csq, fabricVars>>

\* and has the role created.
AuthDone(a) ==
  /\ At(a, "cs", "init")
  /\ Goto(a, "cs", "none")
  /\ Release(a)
  /\ UNCHANGED <<bound, afk, running, worker_co, csq,
                 call, notifyq, acked, mbox>>

\* logout(), run by coroutine k, up to its first yield: the call to the
\* gate, or to dcmgr when the agent has no gate.  A sleeping timer is woken
\* and ends.
BeginLogout(a, k) ==
  LET w     == worker_co[a]
      woken == running[a] /\ w # None /\ w # k /\ co[a, w] = "sleep"
  IN  /\ running' = [running EXCEPT ![a] = FALSE]
      /\ co' = [p \in Agent \X Co |->
                  IF p = <<a, k>> THEN IF bound[a] = None THEN "unload" ELSE "leave"
                  ELSE IF woken /\ p = <<a, w>> THEN "none"
                  ELSE co[p]]
      /\ \/ /\ bound[a] # None
            /\ Send(a, LeaveMsg(k, bound[a].uid, bound[a].subid))
            /\ UNCHANGED afk
         \/ /\ bound[a] = None
            /\ afk' = [afk EXCEPT ![a] = FALSE]
            /\ UNCHANGED sent
      /\ UNCHANGED <<bound, worker_co, call, notifyq, acked>>

\* logout() as CMD.logout, inside the critical section,
Kicked(a) ==
  /\ Enter(a, "logout")
  /\ csop' = [csop EXCEPT ![a] = Command(a)]
  /\ BeginLogout(a, "cs")

\* for a client's LogoutRequest,
Requested(a, k) ==
  /\ HasMsg(a, {"client"}) /\ Msg1(a).co = k
  /\ Take(a)
  /\ BeginLogout(a, k)
  /\ UNCHANGED <<csop, csq>>

\* and for the timer of a player who has been away for a minute.
IdleLogout(a, w) ==
  /\ Idle(a) /\ At(a, w, "sleep") /\ running[a] /\ afk[a]
  /\ BeginLogout(a, w)
  /\ UNCHANGED <<csop, csq, mbox>>

\* The gate has answered logout(): the agent forgets its player, whoever it
\* is by now, and has dcmgr unload the data.
Left(a) ==
  /\ HasMsg(a, {"left"}) /\ Msg1(a).ok
  /\ Take(a)
  /\ bound' = [bound EXCEPT ![a] = None]
  /\ afk' = [afk EXCEPT ![a] = FALSE]
  /\ Goto(a, Msg1(a).co, "unload")
  /\ UNCHANGED <<running, worker_co, csop, csq, call, notifyq, acked, sent>>

\* The gate has refused: the error ends the coroutine.
LeftError(a) ==
  /\ HasMsg(a, {"left"}) /\ ~Msg1(a).ok
  /\ Take(a)
  /\ Goto(a, Msg1(a).co, "none")
  /\ \/ /\ Msg1(a).co = "cs"
        /\ Release(a)
     \/ /\ Msg1(a).co # "cs"
        /\ UNCHANGED <<csop, sent>>
  /\ UNCHANGED <<bound, afk, running, worker_co, csq, call, notifyq, acked>>

\* logout() has returned to the command, the request or the timer.
Unloaded(a, k) ==
  /\ Idle(a) /\ At(a, k, "unload")
  /\ Goto(a, k, IF k \in Worker THEN "sleep" ELSE "none")
  /\ \/ /\ k = "cs"
        /\ Release(a)
     \/ /\ k # "cs"
        /\ UNCHANGED <<csop, sent>>
  /\ UNCHANGED <<bound, afk, running, worker_co, csq,
                 call, notifyq, acked, mbox>>

\* A timer coroutine wakes up and finds that it should not go on.
WorkerExit(a, w) ==
  /\ Idle(a) /\ At(a, w, "sleep") /\ ~running[a]
  /\ Goto(a, w, "none")
  /\ UNCHANGED <<bound, afk, running, worker_co, csop, csq, fabricVars>>

\* What an agent does next: take a message, go on with the command inside
\* the critical section, or go on with coroutine k.
Turn(a) ==
  \/ Enqueue(a) \/ Login(a) \/ Afk(a) \/ Online(a) \/ Auth(a) \/ Kicked(a)
  \/ Left(a) \/ LeftError(a)
  \/ \E k \in Client : Requested(a, k)

Resume(a) == OnlineDone(a) \/ AuthLoaded(a) \/ AuthDone(a)

ResumeCo(a, k) ==
  \/ Unloaded(a, k)
  \/ k \in Worker /\ (IdleLogout(a, k) \/ WorkerExit(a, k))

\* The node of the agents A dies and starts again.
AgentCrash(A) ==
  /\ bound' = [a \in Agent |-> IF a \in A THEN None ELSE bound[a]]
  /\ afk' = [a \in Agent |-> a \notin A /\ afk[a]]
  /\ running' = [a \in Agent |-> a \notin A /\ running[a]]
  /\ worker_co' = [a \in Agent |-> IF a \in A THEN None ELSE worker_co[a]]
  /\ co' = [p \in Agent \X Co |-> IF p[1] \in A THEN "none" ELSE co[p]]
  /\ csop' = [a \in Agent |-> IF a \in A THEN None ELSE csop[a]]
  /\ csq' = [a \in Agent |-> IF a \in A THEN <<>> ELSE csq[a]]
=============================================================================
