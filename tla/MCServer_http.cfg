SPECIFICATION MCFair
CONSTANTS
  PlayerIds = {p1, p2}
  NoPlayer = NoPlayer
  Handlers = {h1, h2}
  Conns = {c1, c2}
  NoConn = NoConn
  p1 = p1
  p2 = p2
  h1 = h1
  h2 = h2
  c1 = c1
  c2 = c2
  DebugBuild = TRUE
  SentVals = {}
  Attentive = {}
  MaxInbox = 0
  MaxMissions = 0
INVARIANTS
  ServerTypeOK
PROPERTIES
  LockLostBy
  ImplementsGame
  HandlersFinish
CHECK_DEADLOCK FALSE
