\* One publisher; the removal of an old generation may fail.
SPECIFICATION Spec
CONSTANTS
  Publishers = {p1}
  Generations = {"g1", "g2", "g3", "g4"}
  None = "none"
  Files = {"profile", "agent"}
  Agent = "agent"
  FaultCases <- MCPruneCase
  MaxPublications = 2
INVARIANT SelectedWhole
CHECK_DEADLOCK FALSE
