\* Three invocations, none of them killed.
SPECIFICATION Spec
CONSTANTS
  Invocations = {i1, i2, i3}
  Revisions = {"r1"}
  Root = "r0"
  None = "none"
  MaxMoves = 0
  MaxFaults = 0
  MaxKilled = 0
INVARIANT OnePublisher
