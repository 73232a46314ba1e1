SPECIFICATION FairSpec
CONSTANTS
  Pubs = {p1}
  NoPub = NoPub
  Clients = {c1, c2}
  Workers = {w1, w2}
  MaxTime = 1
  MaxFaults = 2
  MaxClientCrashes = 1
  MaxWorkerCrashes = 1
  MaxRedeliveries = 1
INVARIANTS
  AtMostOneUpload
  OneClaimant
  ClaimInv
  PublishedIsUploaded
  QueueErrorMeansNotUploaded
  NotBeforeSchedule
  ResponseFindsItsClaim
  QueuedHasTask
PROPERTIES
  SettledRowsAreFinal
  LifecycleSpec
  QueuedIsTakenUp
  AcceptedSettles
CHECK_DEADLOCK FALSE
