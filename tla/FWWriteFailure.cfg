SPECIFICATION FairSpec
CONSTANTS
  c1 = c1
  c2 = c2
  Conns = {c1}
  AuxConns = {}
  Kinds = {"flow"}
  Apps = {}
  Requests = {}
  MaxVersion = 2
  Faults = {"leave"}
  NoConn = NoConn
  NoFeed = NoFeed
CHECK_DEADLOCK FALSE
PROPERTIES FailedWriteCloses
