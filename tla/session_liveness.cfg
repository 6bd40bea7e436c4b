\* Two players whose sessions one agent serves, with two LogoutRequests; every coroutine that can go on does.
SPECIFICATION FairSpec
CONSTANTS
  None = None
  s1 = s1
  s2 = s2
  a1 = a1
  a2 = a2
  a3 = a3
  Server = {s1}
  Uid = {u1, u2}
  Conn = {c1, c2}
  Agent = {a1}
  Home <- OneServer
  Precreated = {a1}
  Client = {k1, k2}
  Worker = {w1, w2}
  MaxAgent <- OneAgentEach
  MaxIndex = 1
  MaxLost = 0
  MaxCrash = 0
PROPERTIES
  LoginAnswered
  LogoutEnds
  AwayLeaves
CHECK_DEADLOCK FALSE
