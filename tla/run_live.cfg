SPECIFICATION FairSpec
CONSTANTS
  Finding = {f1, f2}
  Request = {q1}
  Board = board
  Nobody = nobody
  Text = {t1}
  MaxRuns = 2
  MaxCrashes = 1
  MaxCommits = 0
  MaxDeaths = 0
CHECK_DEADLOCK FALSE
PROPERTIES RunsSettle
