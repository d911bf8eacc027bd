\* One hydration by itself, not killed.
SPECIFICATION FairBuildSpec
CONSTANTS
  Hydrations = {"h"}
  Builders = {}
  Declared <- MCDeclared
  Revisions = {"r1", "r2"}
  Checkouts = {"c1"}
  Commands = {"k"}
  Variants = {1, 2}
  None = None
  MaxBuilds = 1
  MaxBuildFaults = 0
  MaxSweeps = 0
PROPERTY BuildsEnd
CHECK_DEADLOCK FALSE
