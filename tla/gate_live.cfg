\* One command beside the verification; a launch may be killed and a call fail.
SPECIFICATION FairSpec
CONSTANTS
  a = a
  b = b
  Slot = {a, b}
  MaxStage = 2
  MaxCommand = 1
  MaxCrash = 1
  MaxFault = 1
  MaxEdit = 0
PROPERTIES
  WarningClears
CHECK_DEADLOCK FALSE
