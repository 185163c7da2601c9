SPECIFICATION FeedSpec
CONSTANTS
  Capacity = 2
  MaxLag = 3
  LagThreshold = 1
  MaxEvents = 5
  MaxDrops = 2
  MaxEvictions = 1
CHECK_DEADLOCK FALSE
INVARIANTS
  FeedTypeOK
  WindowIsTail
  LiveHintsArrive
PROPERTY
  Drains
