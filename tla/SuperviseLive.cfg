\* Two operators side by side; operators and launched shells overlap.
SPECIFICATION FairSpec
CONSTANTS
  Pids = {p1, p2}
  NoPid = NoPid
  Launchers = {l1, l2}
  Commands = {"start", "stop", "restart"}
  MaxCommands = 2
  MaxAttempts = 2
  PidReuse = FALSE
  Overlap = TRUE
PROPERTY CommandsTerminate
CHECK_DEADLOCK FALSE
