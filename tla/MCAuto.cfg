SPECIFICATION AutoSpec
CONSTANTS
  Clients = {c1}
  Workers = {w1}
  Executions = {e1}
  NoExecution = NoExecution
  Plans <- LoopedVideo
  MessageLengths = {"short"}
  MaxItems = 2
  MaxJobs = 4
  MaxFaults = 1
  MaxClientCrashes = 1
  MaxWorkerCrashes = 0
  MaxExtraMessages = 1
  MaxMishaps = 1
INVARIANTS
  AutoTypeOK
  PublishedVideoIsFinal
  PublishingKeepsCompleted
  DispatchedOnce
CHECK_DEADLOCK FALSE
