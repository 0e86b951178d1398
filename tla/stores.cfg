SPECIFICATION Spec
CONSTANTS
  p1 = p1
  p2 = p2
  n1 = n1
  n2 = n2
  MaxPlan = 2
  MaxIntent = 2
  MaxRuling = 3
  MaxRevision = 2
  Process = {p1, p2}
  MaxDecision = 2
  MaxEdit = 1
  MaxMishap = 1
  MaxSteal = 1
  Writer = {p1, p2}
  Finding = {n1, n2}
  MaxDecided = 2
  MaxDisturb = 1
  OneLockPlace = TRUE
  Closer = {p1, p2}
  Note = {n1, n2}
  MaxVersion = 2
  MaxPack = 2
  MaxFault = 2
  MaxRob = 1
  MaxGroup = 3
  MaxStage = 2
  MaxUpset = 1
  Packer = {p1, p2}
  Piece = {v, f}
  VersionFile = v
  MaxText = 2
  MaxCommit = 2
  MaxMeddle = 2
SYMMETRY Symmetry
CHECK_DEADLOCK FALSE
INVARIANTS
  StoresTypeOK
  RulingsHold
  DecisionIntact EditsSeen
  LedgerKeeps
  CloseSafe
  
  PackagesSafe
