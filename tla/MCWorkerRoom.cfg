SPECIFICATION Spec
CONSTANTS
  Leaves = {l1, l2}
  MaxEpochs = 4
  MaxMessages = 1
  MaxGov = 2
  MaxFaults = 1
INVARIANTS TypeOK EpochsKept SerialAcksKept
PROPERTIES Resolves
CHECK_DEADLOCK FALSE
