SPECIFICATION FairSpec
CONSTANTS
  c1 = c1
  c2 = c2
  Conns = {c1}
  AuxConns = {}
  Kinds = {"flow", "rollout"}
  Apps = {"app"}
  Requests = {"containerLog"}
  MaxVersion = 2
  Faults = {}
  NoConn = NoConn
  NoFeed = NoFeed
CHECK_DEADLOCK FALSE
PROPERTIES HubReturns RegisterCompletes Converges
