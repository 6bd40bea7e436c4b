----------------------------- MODULE MCSession ------------------------------
(***************************************************************************)
(* Instances of Session for TLC: one or two game servers, and how many     *)
(* agents each may create.                                                 *)
(***************************************************************************)
EXTENDS Session, TLC

CONSTANTS s1, s2, a1, a2, a3

\* One server with every agent, or two with a3 alone on the second.
OneServer  == [a \in Agent |-> s1]
TwoServers == [a \in Agent |-> IF a = a3 THEN s2 ELSE s1]

OneAgentEach  == [s \in Server |-> 1]
TwoAgentsEach == [s \in Server |-> 2]

\* Connections are interchangeable, and so are players.
Symmetry == Permutations(Conn) \cup Permutations(Uid)
=============================================================================
