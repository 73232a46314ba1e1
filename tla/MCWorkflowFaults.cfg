SPECIFICATION Spec
CONSTANTS
  Clients = {c1}
  Workers = {w1}
  Executions = {e1}
  NoExecution = NoExecution
  Plans <- AllPlans
  MessageLengths = {"short", "long", "huge"}
  MaxItems = 2
  MaxJobs = 6
  MaxFaults = 1
  MaxClientCrashes = 1
  MaxWorkerCrashes = 1
  MaxExtraMessages = 0
  MaxMishaps = 3
INVARIANTS
  TypeOK
  CompletionMeansAllWork
CHECK_DEADLOCK FALSE
