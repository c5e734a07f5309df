SPECIFICATION MCSpec
CONSTANTS
  PlayerIds = {p1, p2, p3}
  NoPlayer = NoPlayer
  p1 = p1
  p2 = p2
  p3 = p3
  DebugBuild = TRUE
  MaxMissions = 2
INVARIANTS
  TypeOK
  PlayersFitThePhase
  SomeoneAwaited
  LeaderIsSeated
PROPERTIES
  OnlyTheLeaderIsKicked
  MissionNeedsApproval
  MajorityCarries
  QuestionsStartClean
  ImplementsRounds
CHECK_DEADLOCK FALSE
