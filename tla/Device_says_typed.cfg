SPECIFICATION DeviceSpec
CONSTANTS
  PlayerIds = {n1, n2}
  LongIds = {n2}
  n1 = n1
  n2 = n2
  NoName = NoName
  Commands = {"reg", "csr", "start"}
  MaxAttempt = 2
  MaxPieces = 2
  MaxTyped = 2
  MaxEvents = 3
PROPERTIES
  CommandsAreProcessed
