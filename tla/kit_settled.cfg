SPECIFICATION KitSpec
CONSTANTS
  Txn = {t1, t2}
  NoTxn = none
  Owned = {marker, launcher}
  Blocks = {agents}
  Config = {}
  Retired = {old}
  Marker = marker
  Inside = {launcher}
  Current = current
  Member = {m1, m2}
  MaxRelease = 2
  MaxEdits = 0
  MaxCrashes = 2
  MaxFaults = 1
  MaxLaunch = 1
  Caller = {t1, t2}
  MaxBoard = 2
  MaxRetro = 2
  MaxUpdate = 1
  MaxDowning = 1
  MaxSlip = 1
  s1 = s1
  s2 = s2
  strict = strict
  Tester = {t1, t2}
  Stuff = {m1, m2}
  MaxEdition = 2
  Spot = {s1, s2, strict}
  StrictSpot = {strict}
  MaxMark = 2
  MaxKept = 1
  MaxLog = 3
  MaxTry = 1
  MaxSnag = 2
SYMMETRY KitSymmetry
CHECK_DEADLOCK FALSE
INVARIANTS
  PartialCoreOwned ChangesAreSerial ActivationLast
  BoardSafe LaunchSafe TestsSafe
PROPERTIES RollbackRemovesCore
