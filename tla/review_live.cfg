SPECIFICATION FairSpec
CONSTANTS
  MaxRelease = 2
  From = {1}
  Folder = {d1}
  GameFile = {f1}
  MaxVersion = 1
  MaxAttempt = 2
  MaxTxn = 2
  MaxSession = 2
  Unset = Unset
  Absent = Absent
  Foreign = Foreign
  MaxEdits = 1
  MaxCrashes = 2
  MaxFaults = 0
PROPERTIES
  KeptUntilRestored
  AllowancesShrink
  EveryReviewEnds
CHECK_DEADLOCK FALSE
