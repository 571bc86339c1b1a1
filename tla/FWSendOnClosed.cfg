SPECIFICATION Spec
CONSTANTS
  c1 = c1
  c2 = c2
  Conns = {c1}
  AuxConns = {c1}
  Kinds = {}
  Apps = {}
  Requests = {"syncApplication"}
  MaxVersion = 1
  Faults = {"leave","api"}
  NoConn = NoConn
  NoFeed = NoFeed
CHECK_DEADLOCK FALSE
INVARIANTS NoSendOnClosed
