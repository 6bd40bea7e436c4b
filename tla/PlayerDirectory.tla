-------------------------- MODULE PlayerDirectory ---------------------------
(***************************************************************************)
(* What the login server and the gates promise the clients, without their  *)
(* calls, messages, agents and locks: a directory of where each player is. *)
(* A player has one place at most, a session of one server that no client  *)
(* had before.  A login makes it and tells its client that place; what the *)
(* login server knows lags behind, and a place it does not know of yet     *)
(* belongs to a login that has not been answered.                          *)
(***************************************************************************)
EXTENDS Naturals

CONSTANTS
  Server,  \* the game servers
  Uid,     \* players
  Conn,    \* clients, each of which logs in once
  None     \* no place

VARIABLES
  home,    \* the place of each player
  known,   \* where the login server believes each player is
  client   \* the login of each client: [st, uid, place]

vars == <<home, known, client>>

Place == [server : Server, subid : Nat]

Logging(c) == client[c].st \in {"asks", "placed"}
Busy(u)    == \E c \in Conn : Logging(c) /\ client[c].uid = u

TypeOK ==
  /\ home \in [Uid -> Place \cup {None}]
  /\ known \in [Uid -> Place \cup {None}]
  /\ client \in [Conn ->
       [st : {"new"}, uid : {None}, place : {None}]
         \cup [st : {"asks", "refused"}, uid : Uid, place : {None}]
         \cup [st : {"placed", "told"}, uid : Uid, place : Place]]

Init ==
  /\ home = [u \in Uid |-> None]
  /\ known = [u \in Uid |-> None]
  /\ client = [c \in Conn |-> [st |-> "new", uid |-> None, place |-> None]]

\* Client c asks for a login of a player who is not logging in,
Ask(c, u) ==
  /\ client[c].st = "new" /\ ~Busy(u)
  /\ client' = [client EXCEPT ![c] = [st |-> "asks", uid |-> u, place |-> None]]
  /\ UNCHANGED <<home, known>>

\* or of one who is.
Deny(c, u) ==
  /\ client[c].st = "new" /\ Busy(u)
  /\ client' = [client EXCEPT ![c] = [st |-> "refused", uid |-> u, place |-> None]]
  /\ UNCHANGED <<home, known>>

\* The login fails,
Fail(c) ==
  /\ client[c].st = "asks"
  /\ client' = [client EXCEPT ![c].st = "refused"]
  /\ UNCHANGED <<home, known>>

\* or gives the player, who is nowhere, a place that nobody had before,
Enter(c) == LET p == client'[c].place IN
  /\ client[c].st = "asks"
  /\ home[client[c].uid] = None /\ known[client[c].uid] = None
  /\ p \in Place /\ \A d \in Conn : client[d].place # p
  /\ home' = [home EXCEPT ![client[c].uid] = p]
  /\ client' = [client EXCEPT ![c] = [st |-> "placed", uid |-> @.uid, place |-> p]]
  /\ UNCHANGED known

\* and the client is told of it, who may have left it by then.
Tell(c) ==
  /\ client[c].st = "placed" /\ known[client[c].uid] = None
  /\ known' = [known EXCEPT ![client[c].uid] = client[c].place]
  /\ client' = [client EXCEPT ![c].st = "told"]
  /\ UNCHANGED home

Leave(u) ==
  /\ home[u] # None
  /\ home' = [home EXCEPT ![u] = None]
  /\ UNCHANGED <<known, client>>

\* The login server forgets a player only after he has left.
Forget(u) ==
  /\ home[u] = None
  /\ known' = [known EXCEPT ![u] = None]
  /\ UNCHANGED <<home, client>>

Next ==
  \/ \E c \in Conn : \/ \E u \in Uid : Ask(c, u) \/ Deny(c, u)
                     \/ Fail(c) \/ Enter(c) \/ Tell(c)
  \/ \E u \in Uid : Leave(u) \/ Forget(u)

Spec == Init /\ [][Next]_vars

-----------------------------------------------------------------------------
\* A player is where a login has placed him: the one client who has been told
\* the place, or is going to be, asked for that player; and the login server
\* knows the place, or nothing of the player while that login still runs.
PlacedByLogin == \A u \in Uid : home[u] # None =>
  \E c \in Conn :
    /\ client[c].uid = u /\ client[c].place = home[u]
    /\ \A d \in Conn : client[d].place = home[u] => d = c
    /\ \/ known[u] = home[u]
       \/ client[c].st = "placed" /\ known[u] = None
=============================================================================
