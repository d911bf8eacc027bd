\* Two publishers; deaths, or a launchctl that fails at every call.
SPECIFICATION FairSpec
CONSTANTS
  Publishers = {p1, p2}
  Generations = {"g1", "g2", "g3", "g4", "g5", "g6"}
  None = "none"
  Files = {"profile", "agent"}
  Agent = "agent"
  FaultCases <- MCFaultCases
  MaxPublications = 3
INVARIANTS TypeOK OneGeneration SelectedWhole ScheduledKept FailureRestores
PROPERTY PublicationsEnd
CHECK_DEADLOCK FALSE
