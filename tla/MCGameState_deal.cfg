SPECIFICATION DealSpec
CONSTANTS
  PlayerIds = {p1, p2, p3, p4, p5}
  NoPlayer = NoPlayer
  p1 = p1
  p2 = p2
  p3 = p3
  p4 = p4
  p5 = p5
  DebugBuild = FALSE
  MaxMissions = 0
PROPERTIES
  DealIsComplete
CHECK_DEADLOCK FALSE
