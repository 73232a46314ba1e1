SPECIFICATION Spec
CONSTANTS
  Ids <- StepIds
  Plans <- Workflows
  TextKinds = {"text", "list"}
  MaxItems = 2
  MaxVisits = 2
INVARIANTS
  TypeOK
  NamesAgreeWithIds
  UnresolvedIsKnown
  WellFormedResolves
CHECK_DEADLOCK FALSE
