CONSTANTS
  Conn = {c1, c2}
  NoConn = NoConn
  worker_connections = 1
  MaxFds = 2
  MaxRequests = 1
SPECIFICATION LCSpec
INVARIANT
  TotalsFallShort
PROPERTIES
  RefusedOnlyAtLimit
  BacklogServed
  ServedSocketClosed
