\* An edit lands between the end of the verification and its record.
SPECIFICATION Spec
CONSTANTS
  a = a
  Slot = {a}
  MaxStage = 1
  MaxCommand = 0
  MaxCrash = 0
  MaxFault = 0
  MaxEdit = 1
INVARIANTS
  FreshMeansPassed
CHECK_DEADLOCK FALSE
