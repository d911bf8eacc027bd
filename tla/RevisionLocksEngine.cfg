\* Engine binaries: two operators side by side, one child at a time.
SPECIFICATION FairSpec
CONSTANTS
  Family = "engine"
  Deployments = {d1, d2}
  Revisions = {r1, r2}
  Operators = {o1, o2}
  Children = {c1}
  None = None
  MaxLaunches = 3
  MaxMoves = 1
PROPERTIES RunningRevisionUntouched LaunchesEnd
CHECK_DEADLOCK FALSE
