SPECIFICATION Spec
CONSTANTS
  MaxEpochs = 4
  MaxTries = 2
  MaxCrashes = 1
  PeerReasons = {1, 2}
INVARIANTS
  TypeOK
  KeysAreAccepted
  FullMeansCurrent
PROPERTIES
  DropIsSettled
CHECK_DEADLOCK FALSE
