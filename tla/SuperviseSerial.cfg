\* One operator at a time, pid reuse, crashes anywhere.
SPECIFICATION Spec
CONSTANTS
  Pids = {p1, p2, p3}
  NoPid = NoPid
  Launchers = {l1}
  Commands = {"start", "stop", "restart"}
  MaxCommands = 3
  MaxAttempts = 2
  PidReuse = TRUE
  Overlap = FALSE
INVARIANTS TypeOK PidFileExclusion PidFileNamesSupervise
PROPERTIES MalformedFailsClosed
SYMMETRY Symmetry
CHECK_DEADLOCK FALSE
