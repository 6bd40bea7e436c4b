\* A process dies and the network fails a call at any time.
SPECIFICATION Spec
CONSTANTS
  None = None
  s1 = s1
  s2 = s2
  a1 = a1
  a2 = a2
  a3 = a3
  Server = {s1}
  Uid = {u1}
  Conn = {c1, c2}
  Agent = {a1, a2}
  Home <- OneServer
  Precreated = {a1}
  Client = {k1}
  Worker = {w1}
  MaxAgent <- TwoAgentsEach
  MaxIndex = 1
  MaxLost = 1
  MaxCrash = 1
SYMMETRY Symmetry
INVARIANTS
  AgentsExclusive
PROPERTIES
  NeverReplaced
CHECK_DEADLOCK FALSE
