SPECIFICATION MCBoardSpec
CONSTANTS
  Caller = {p1}
  MaxBoard = 2
  MaxRetro = 1
  MaxUpdate = 0
  MaxDowning = 1
  MaxSlip = 0
CHECK_DEADLOCK FALSE
INVARIANTS RefusedForActiveRun
