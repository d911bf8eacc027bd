\* Eight tools side by side.
SPECIFICATION FairSpec
CONSTANTS
  None = None
  Absent = Absent
  Torn = Torn
  Malformed = Malformed
  NoPid = NoPid
  \* EngineBuild: a hydration of two deployments, and the provider
  Hydrations = {"h"}
  Builders = {"b"}
  Declared <- MCBuilds
  Revisions = {"r1", "r2"}
  Checkouts = {"c1", "c2"}
  Commands = {"k"}
  Variants = {1, 2}
  MaxBuilds = 2
  MaxBuildFaults = 1
  MaxSweeps = 1
  \* BranchCheckout
  Refreshers = {"h1", "h2"}
  Branches = {"run", "topic"}
  Run = "run"
  MaxPush = 2
  MaxOwn = 1
  MaxSwitch = 1
  \* Declaration
  Inputs <- MCInputs
  Lock <- MCLock
  Holds <- MCHolds
  Derives <- MCDerives
  Published <- MCPublished
  Bot <- MCBot
  MaxGenerations = 2
  MaxEdits = 1
  MaxFailures = 1
  \* Credentials
  Calls = {"c1", "c2"}
  Tokens = {"k1", "k2"}
  First = "k1"
  Targets = {"g"}
  TTL = 1
  MaxClock = 1
  MaxBoots = 1
  MaxChanges = 1
  Troubles = {"slow", "broken", "limit"}
  \* the probes
  Pids = {"p1", "p2"}
  MaxBirths = 2
  MaxLosses = 1
  MaxProbes = 1
  Root = "root"
  Dirs = {"sub"}
  Names = {"a"}
  MaxWrites = 2
  MaxWalks = 1
  MaxRevisions = 2
  MaxAsked = 1
  \* Board
  Runs = {"a", "b"}
  Observations <- MCObservations
  CacheTTL = 0
  Stall = 0
  MaxTime = 1
  MaxNews = 1
INVARIANTS
  TypeOK CurrentIsBuilt DoneIsPublished Refreshed PublishedIsSound BindingsServed GateFirst
  IssuedIsVerified UntroubledUnhealthyIsRefuted HealthyIsQuiet
PROPERTIES
  BytesStay BuildsEnd WorkKept ProcessEvidence PresentWasClaimed ActivityEvidence FactEvidence
CHECK_DEADLOCK FALSE
