SPECIFICATION FairSpec
CONSTANTS
  Environments <- NearlyReady
  MaxFaults = 1
  MaxPolls = 2
  MaxChanges = 1
INVARIANTS
  TypeOK
  NothingLeftUnreported
  ReportIsTrue
  GateSuffices
PROPERTIES
  EndsWithVerdict
CHECK_DEADLOCK FALSE
