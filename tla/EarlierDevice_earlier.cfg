SPECIFICATION FairEarlier
CONSTANTS
  PlayerIds = {n1, n2}
  LongIds = {n2}
  n1 = n1
  n2 = n2
  NoName = NoName
  Lines = {"ok", "chat"}
  MaxAttempt = 2
  MaxPieces = 2
  MaxTyped = 2
  MaxEvents = 3
INVARIANTS
  EarlierTypeOK
  NobodyElsesMutex
  ConnectsAsCertified
PROPERTIES
  SerialIsHeard
  ClientGetsThrough
  ImplementsClient
