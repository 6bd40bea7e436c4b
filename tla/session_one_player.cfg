\* One player logging in twice, on one of two servers each time, with every way to log out.
SPECIFICATION Spec
CONSTANTS
  None = None
  s1 = s1
  s2 = s2
  a1 = a1
  a2 = a2
  a3 = a3
  Server = {s1, s2}
  Uid = {u1}
  Conn = {c1, c2}
  Agent = {a1, a2, a3}
  Home <- TwoServers
  Precreated = {a1, a3}
  Client = {k1, k2}
  Worker = {w1, w2}
  MaxAgent <- TwoAgentsEach
  MaxIndex = 1
  MaxLost = 0
  MaxCrash = 0
SYMMETRY Symmetry
INVARIANTS
  TypeOK
  RecordTracksSession
  ReturnsItself
  SingleSession
PROPERTIES
  KeepsDirectory
CHECK_DEADLOCK FALSE
