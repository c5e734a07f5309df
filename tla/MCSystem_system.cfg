SPECIFICATION MCSpec
CONSTANTS
  PlayerIds = {p1, e}
  NoPlayer = NoPlayer
  Handlers = {h1, h2}
  Conns = {c1}
  NoConn = NoConn
  Devices = {d1, d2}
  NoDevice = NoDevice
  Unnamed = e
  p1 = p1
  e = e
  h1 = h1
  h2 = h2
  c1 = c1
  d1 = d1
  d2 = d2
  DebugBuild = TRUE
  Choices = {"ok", "lyckas", "sabotage"}
  SentVals = {"ok", "lyckas", "sabotera", "other"}
  Attentive = {}
  MaxInbox = 1
  MaxMissions = 1
  LinkHolds = TRUE
  Steady = {d2}
SYMMETRY AlikeHandlers
INVARIANTS
  SystemTypeOK
  CertifiedIsSeated
  StrangersWereKicked
  StartsHavePlayers
  MuteHasCause
PROPERTIES
  ImplementsServer
  ImplementsClients
CHECK_DEADLOCK FALSE
