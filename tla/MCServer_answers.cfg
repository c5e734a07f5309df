SPECIFICATION TableSpec
CONSTANTS
  PlayerIds = {p1, p2}
  NoPlayer = NoPlayer
  Handlers = {h1}
  Conns = {c1}
  NoConn = NoConn
  p1 = p1
  p2 = p2
  h1 = h1
  c1 = c1
  DebugBuild = TRUE
  SentVals = {"ok", "lyckas", "malformed"}
  Attentive = {p1}
  MaxInbox = 1
  MaxMissions = 1
INVARIANTS
  PendingIsSeated
PROPERTIES
  AnswersCount
CHECK_DEADLOCK FALSE
