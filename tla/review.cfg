SPECIFICATION Spec
CONSTANTS
  MaxRelease = 1
  From <- AnyStart
  Folder = {d1, d2}
  GameFile = {f1}
  MaxVersion = 1
  MaxAttempt = 2
  MaxTxn = 2
  MaxSession = 2
  Unset = Unset
  Absent = Absent
  Foreign = Foreign
  MaxEdits = 1
  MaxCrashes = 2
  MaxFaults = 1
INVARIANTS
  OneTransactionPerReview
  RestoredIsUndone
PROPERTIES
  BaselineUndoable
CHECK_DEADLOCK FALSE
