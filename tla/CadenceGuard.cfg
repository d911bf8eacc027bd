\* One declaration with two deployments, four records, deaths anywhere.
SPECIFICATION Spec
CONSTANTS
  Declarations = {"a"}
  Deployments = {"d1", "d2"}
  Declares <- MCDeclares
  NoId = "none"
  Limit = 2
  MaxRecords = 4
INVARIANTS TypeOK AttemptsBounded
PROPERTIES BudgetIsolated RestartIsRecorded
CHECK_DEADLOCK FALSE
