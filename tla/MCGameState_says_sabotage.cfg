SPECIFICATION MCSpec
CONSTANTS
  PlayerIds = {p1, p2}
  NoPlayer = NoPlayer
  p1 = p1
  p2 = p2
  DebugBuild = TRUE
  MaxMissions = 2
INVARIANTS
  SabotageHasSaboteur
CHECK_DEADLOCK FALSE
