SPECIFICATION FairSpec
CONSTANTS
  Clients = {c1}
  Workers = {w1}
  Executions = {e1}
  NoExecution = NoExecution
  Plans <- ShortPlans
  MessageLengths = {"short"}
  MaxItems = 1
  MaxJobs = 6
  MaxFaults = 0
  MaxClientCrashes = 0
  MaxWorkerCrashes = 1
  MaxExtraMessages = 1
  MaxMishaps = 1
INVARIANTS
  NothingLeftRunning
  AuditCatchesUp
PROPERTIES
  EnqueuedIsExecuted
  StepFailureIsRecorded
CHECK_DEADLOCK FALSE
