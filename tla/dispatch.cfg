SPECIFICATION Spec
CONSTANTS
  Finding = {f1, f2}
  Request = {q1, q2}
  Board = board
  Nobody = nobody
  Text = {t1}
  MaxRuns = 2
  MaxCrashes = 1
  MaxCommits = 1
  MaxDeaths = 1
SYMMETRY Symmetry
CHECK_DEADLOCK FALSE
INVARIANTS TypeOK ReplaySafe OneRunAtATime
PROPERTIES ResultStands StopsAtFailure
