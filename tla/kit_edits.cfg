SPECIFICATION Spec
CONSTANTS
  Txn = {t1, t2}
  NoTxn = none
  Owned = {marker}
  Blocks = {agents}
  Config = {config}
  Retired = {}
  Marker = marker
  Inside = {}
  Current = current
  Member = {m1, m2}
  MaxRelease = 2
  MaxEdits = 1
  MaxCrashes = 1
  MaxFaults = 1
SYMMETRY Symmetry
CHECK_DEADLOCK FALSE
INVARIANTS TypeOK SelectedCorePresent BackupKept WriteAhead
PROPERTIES HumanBytesSurvive ImplementsUndoLog
