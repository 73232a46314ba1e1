SPECIFICATION AutoSpec
CONSTANTS
  Clients = {c1}
  Workers = {w1}
  Executions = {e1}
  NoExecution = NoExecution
  Plans <- LoopedVideo
  MessageLengths = {"short"}
  MaxItems = 1
  MaxJobs = 6
  MaxFaults = 0
  MaxClientCrashes = 0
  MaxWorkerCrashes = 1
  MaxExtraMessages = 0
  MaxMishaps = 1
INVARIANTS
  OnePublicationPerExecution
CHECK_DEADLOCK FALSE
