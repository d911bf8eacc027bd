\* One call, while requests take longer than the proxy waits.
SPECIFICATION CredentialSpec
CONSTANTS
  Calls = {c1}
  Tokens = {"k1"}
  First = "k1"
  Targets = {"g"}
  None = None
  TTL = 1
  MaxClock = 1
  MaxBoots = 1
  MaxChanges = 1
  Troubles = {"slow"}
INVARIANT UnhealthyIsRefuted
CHECK_DEADLOCK FALSE
