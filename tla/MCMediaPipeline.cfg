SPECIFICATION Spec
CONSTANTS
  Assets = {a1, a2, a3}
  NoAsset = NoAsset
  NoContent = NoContent
  Handlers = {h1, h2}
  Runs = {r1}
  Pubs = {p1}
  MaxDbFaults = 1
  MaxStorageFaults = 1
  MaxCrashes = 1
SYMMETRY Symmetry
INVARIANTS
  HandedOutIsServed
  UploadsLeaveNoOrphan
  AcceptedVideoIsUploadable
  FailureTellsReceipt
  ServedApiHasBucket
CHECK_DEADLOCK FALSE
