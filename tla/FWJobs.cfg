SPECIFICATION FairSpec
CONSTANTS
  c1 = c1
  c2 = c2
  Conns = {c1}
  AuxConns = {c1}
  Kinds = {"flow"}
  Apps = {}
  Requests = {"containerLog", "syncApplication"}
  MaxVersion = 2
  Faults = {"leave", "abort", "api", "relist"}
  NoConn = NoConn
  NoFeed = NoFeed
CHECK_DEADLOCK FALSE
INVARIANTS NoDoubleClose
PROPERTIES NoGoroutineLeak ErrorCloses
