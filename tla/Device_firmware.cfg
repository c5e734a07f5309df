SPECIFICATION FairDevice
CONSTANTS
  PlayerIds = {n1, n2}
  LongIds = {n2}
  n1 = n1
  n2 = n2
  NoName = NoName
  Commands = {"reg", "csr", "start", "ok"}
  MaxAttempt = 2
  MaxPieces = 2
  MaxTyped = 2
  MaxEvents = 3
INVARIANTS
  DeviceTypeOK
  RepliesDoNotMix
  PublishesAsCertified
PROPERTIES
  RetriesWhatItHad
  CommandsCarryOn
  ImplementsClient
