SPECIFICATION JournalSpec
CONSTANTS
  Epochs = {e1, e2, e3}
  Keys = {k1, k2}
  BodyLen = 2
  MaxTears = 2
INVARIANT
  AckedSurviveRestart
