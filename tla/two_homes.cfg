\* Two players on two servers.
SPECIFICATION Spec
CONSTANTS
  None = None
  s1 = s1
  s2 = s2
  a1 = a1
  a2 = a2
  a3 = a3
  Server = {s1, s2}
  Uid = {u1, u2}
  Conn = {c1, c2, c3}
  Agent = {a1, a2, a3}
  Home <- TwoServers
  Precreated = {a1, a2, a3}
  Client = {}
  Worker = {w1}
  MaxAgent <- TwoAgentsEach
  MaxIndex = 1
  MaxLost = 0
  MaxCrash = 0
SYMMETRY Symmetry
INVARIANTS
  SingleSession
CHECK_DEADLOCK FALSE
