SPECIFICATION Spec
CONSTANTS
  PeerIds = {1, 2}
  OwnIds = {3}
  MaxEpoch = 2
  MaxClock = 2
  Skew = 1
  MaxChanges = 1
  MaxFailures = 1
INVARIANTS ShownOnce PollAlive
PROPERTIES Delivered
