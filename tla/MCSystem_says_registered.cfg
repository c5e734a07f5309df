SPECIFICATION MCSpec
CONSTANTS
  PlayerIds = {p1, e}
  NoPlayer = NoPlayer
  Handlers = {h1, h2}
  Conns = {c1, c2}
  NoConn = NoConn
  Devices = {d1}
  NoDevice = NoDevice
  Unnamed = e
  p1 = p1
  e = e
  h1 = h1
  h2 = h2
  c1 = c1
  c2 = c2
  d1 = d1
  DebugBuild = TRUE
  Choices = {"ok", "lyckas", "sabotage"}
  SentVals = {"ok", "lyckas", "sabotera", "other"}
  Attentive = {}
  MaxInbox = 1
  MaxMissions = 1
  LinkHolds = TRUE
  Steady = {}
PROPERTIES
  OnlyStrangersAreRefused
CHECK_DEADLOCK FALSE
