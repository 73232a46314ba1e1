SPECIFICATION Spec
CONSTANTS
  Connections = {a, b}
  NoConnection = NoConnection
  Handlers = {h1, h2}
  MaxAborts = 0
  MaxDisconnects = 0
INVARIANTS
  NewestIsActive
CHECK_DEADLOCK FALSE
