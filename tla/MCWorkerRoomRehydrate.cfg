SPECIFICATION Spec
CONSTANTS
  Leaves = {l1, l2}
  MaxEpochs = 3
  MaxMessages = 1
  MaxGov = 2
  MaxFaults = 0
INVARIANTS Rehydrates
CHECK_DEADLOCK FALSE
