\* Platform snapshots: two operators, two children, a declaration that moves.
CONSTANTS
  Family = "platform"
  Deployments = {d1, d2}
  Revisions = {r1, r2}
  Operators = {o1, o2}
  Children = {c1, c2}
  None = None
  MaxLaunches = 4
  MaxMoves = 1
SPECIFICATION Spec
INVARIANTS TypeOK LockIdentity
PROPERTY RunningRevisionUntouched
SYMMETRY Symmetry
CHECK_DEADLOCK FALSE
