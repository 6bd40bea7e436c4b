\* Two players and three logins on one server that starts with no agent.
SPECIFICATION Spec
CONSTANTS
  None = None
  s1 = s1
  s2 = s2
  a1 = a1
  a2 = a2
  a3 = a3
  Server = {s1}
  Uid = {u1, u2}
  Conn = {c1, c2, c3}
  Agent = {a1, a2}
  Home <- OneServer
  Precreated = {}
  Client = {k1}
  Worker = {w1, w2}
  MaxAgent <- OneAgentEach
  MaxIndex = 1
  MaxLost = 0
  MaxCrash = 0
SYMMETRY Symmetry
INVARIANTS
  AgentsNotLost
  NoCrossTalk
  LoginExclusive
CHECK_DEADLOCK FALSE
