\* Two launches at a time, one command beside the verification.
SPECIFICATION Spec
CONSTANTS
  a = a
  b = b
  Slot = {a, b}
  MaxStage = 1
  MaxCommand = 2
  MaxCrash = 1
  MaxFault = 1
  MaxEdit = 1
SYMMETRY SlotSymmetry
INVARIANTS
  TypeOK
  OneEngine
  FreshMeansUndisturbed
PROPERTIES
  ClearedByProof
  ConfirmedRetry
CHECK_DEADLOCK FALSE
