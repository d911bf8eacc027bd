\* Two invocations over and over, one may be killed; the pin moves once.
SPECIFICATION FairSpec
CONSTANTS
  Invocations = {i1, i2}
  Revisions = {"r0", "r1", "r2"}
  Root = "r0"
  None = "none"
  MaxMoves = 1
  MaxFaults = 1
  MaxKilled = 1
INVARIANTS PublishedIsPreflighted StagingRemoved
PROPERTY PinPublished
