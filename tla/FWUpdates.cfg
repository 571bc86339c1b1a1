SPECIFICATION Spec
CONSTANTS
  c1 = c1
  c2 = c2
  Conns = {c1, c2}
  AuxConns = {}
  Kinds = {"flow"}
  Apps = {"app"}
  Requests = {}
  MaxVersion = 2
  Faults = {"leave", "write", "list"}
  NoConn = NoConn
  NoFeed = NoFeed
CHECK_DEADLOCK FALSE
INVARIANTS TypeOK NoDoubleClose HubSendsToOpenChannel NoLostUpdate
PROPERTIES StaleSubscriptionsPruned ImplementsLifecycle
