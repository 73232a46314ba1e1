SPECIFICATION Spec
CONSTANTS
  Environments <- OnlyReady
  MaxFaults = 0
  MaxPolls = 3
  MaxChanges = 0
INVARIANTS
  TimeoutIsTrue
CHECK_DEADLOCK FALSE
