SPECIFICATION FairSpec
CONSTANTS
  Clients = {c1}
  Workers = {w1}
  Executions = {e1}
  NoExecution = NoExecution
  Plans <- OnePlan
  MessageLengths = {"short", "huge"}
  MaxItems = 1
  MaxJobs = 2
  MaxFaults = 0
  MaxClientCrashes = 0
  MaxWorkerCrashes = 0
  MaxExtraMessages = 0
  MaxMishaps = 1
PROPERTIES
  StepFailureIsRecorded
CHECK_DEADLOCK FALSE
