SPECIFICATION Spec
CONSTANTS
  Connections = {a, b, c}
  NoConnection = NoConnection
  Handlers = {h1, h2}
  MaxAborts = 1
  MaxDisconnects = 1
SYMMETRY Symmetry
INVARIANTS
  StateIsUsedOnce
  AtMostOneConnected
  CredentialFollowsStatus
PROPERTIES
  SwitchIsSeamless
CHECK_DEADLOCK FALSE
