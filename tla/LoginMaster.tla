---------------------------- MODULE LoginMaster -----------------------------
(***************************************************************************)
(* The login master: accept() of lualib/snax/login_server.lua once a slave *)
(* has authenticated the client, with the login_handler and the logout     *)
(* command of login/logind.lua.  One coroutine runs per client connection  *)
(* and yields at its two cluster calls, the kick and the login.            *)
(***************************************************************************)
EXTENDS Skynet

VARIABLES
  user_login,   \* players in the middle of a login
  user_online,  \* where the login server believes each player is
  conn          \* the login of each connection, and the client's answer

loginVars == <<user_login, user_online, conn>>

NoLogin == [st |-> "new", uid |-> None, server |-> None, subid |-> 0]

LoginTypeOK ==
  /\ user_login \subseteq Uid
  /\ user_online \in [Uid -> [server : Server, subid : Nat] \cup {None}]
  /\ conn \in [Conn -> [st : {"kick", "login", "ok", "refused"}, uid : Uid,
                        server : Server, subid : Nat] \cup {NoLogin}]

LoginInit ==
  /\ user_login = {}
  /\ user_online = [u \in Uid |-> None]
  /\ conn = [c \in Conn |-> NoLogin]

InLogin(c) == conn[c].st \in {"kick", "login"}

\* Defects: the lock is not looked at, or not taken; the player's server is
\* not recorded.
Locked_Never(u)   == FALSE
Lock_Forgotten(u) == UNCHANGED user_login
Record_Kept(c)    == user_online

\* The lock that accept() takes before login_handler, and gives back after.
Locked(u)   == u \in user_login
Lock(u)     == user_login' = user_login \cup {u}
Unlock(u)   == user_login' = user_login \ {u}

\* What becomes of the login that connection c asks for.
Becomes(c, st, u, s) ==
  conn' = [conn EXCEPT ![c] = [st |-> st, uid |-> u, server |-> s, subid |-> 0]]

\* A slave has authenticated client c as player u, who asks for server s.
\* A player already in login gets 406; login_handler starts for the others.
Accept(c, u, s) ==
  /\ conn[c].st = "new"
  /\ \/ /\ Locked(u)
        /\ Becomes(c, "refused", u, s)
        /\ UNCHANGED <<call, user_login>>
     \/ /\ ~Locked(u) /\ user_online[u] = None
        /\ Lock(u)
        /\ Becomes(c, "login", u, s)
        /\ Call(c, "login", s, u, 0)
     \/ /\ ~Locked(u) /\ user_online[u] # None
        /\ Lock(u)
        /\ Becomes(c, "kick", u, s)
        /\ Call(c, "kick", user_online[u].server, u, user_online[u].subid)
  /\ UNCHANGED <<user_online, notifyq, acked, mbox, sent>>

\* What login_handler knows of the player after the kick: a kick that
\* failed makes it forget where the player was.
AfterKick(c) ==
  IF call[c].st = "fail" THEN [user_online EXCEPT ![conn[c].uid] = None]
                         ELSE user_online

\* The kick has returned.
KickReturn(c) ==
  /\ conn[c].st = "kick" /\ call[c].st \in {"ok", "fail"}
  /\ user_online' = AfterKick(c)
  /\ \/ /\ AfterKick(c)[conn[c].uid] # None
        /\ Unlock(conn[c].uid)
        /\ conn' = [conn EXCEPT ![c].st = "refused"]
        /\ UNCHANGED call
     \/ /\ AfterKick(c)[conn[c].uid] = None
        /\ conn' = [conn EXCEPT ![c].st = "login"]
        /\ Call(c, "login", conn[c].server, conn[c].uid, 0)
        /\ UNCHANGED user_login
  /\ UNCHANGED <<notifyq, acked, mbox, sent>>

\* Where the player is after the login on the game server.
Record(c) ==
  [user_online EXCEPT ![conn[c].uid] =
     [server |-> conn[c].server, subid |-> call[c].subid]]

\* The login on the game server has returned: 200 with the subid, or 403.
LoginReturn(c) ==
  /\ conn[c].st = "login"
  /\ \/ /\ call[c].st = "ok"
        /\ user_online' = Record(c)
        /\ conn' = [conn EXCEPT ![c].st = "ok", ![c].subid = call[c].subid]
     \/ /\ call[c].st = "fail"
        /\ conn' = [conn EXCEPT ![c].st = "refused"]
        /\ UNCHANGED user_online
  /\ Unlock(conn[c].uid)
  /\ UNCHANGED fabricVars

\* CMD.logout, called by the gate of server s.  It clears the player's
\* record whatever the subid is.
Logout(s) ==
  /\ notifyq[s] # <<>>
  /\ user_online' = [user_online EXCEPT ![Head(notifyq[s]).uid] = None]
  /\ notifyq' = [notifyq EXCEPT ![s] = Tail(@)]
  /\ Ack({Head(notifyq[s]).by})
  /\ UNCHANGED <<user_login, conn, call, mbox, sent>>

\* The login server dies and starts again: its tables are empty, its
\* clients disconnected, and the logout calls it was sent fail at the gates.
LoginCrash ==
  /\ user_login' = {}
  /\ user_online' = [u \in Uid |-> None]
  /\ conn' = [c \in Conn |-> IF InLogin(c) THEN [conn[c] EXCEPT !.st = "refused"]
                             ELSE conn[c]]
  /\ Ack({p \in Caller : \E s \in Server : \E i \in 1..Len(notifyq[s]) :
                            notifyq[s][i].by = p})
  /\ notifyq' = [s \in Server |-> <<>>]
  /\ UNCHANGED <<call, mbox, sent>>
=============================================================================
