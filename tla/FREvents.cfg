SPECIFICATION Spec
CONSTANTS
  Flows = {"push"}
  Namespaces = {"ns"}
  Apps = {"app"}
  Projects = {"org"}
  Repos = {"r1"}
  AppSpecs = {"v1", "v2"}
  Events = {"opened", "closed"}
  NamespaceOf <- MCNamespaceOf
  SpecsOf <- MCEvents
  InitialVals <- MCNewOnly
  Tampering <- MCTampering
  None = None
  Resyncs = FALSE
  MaxVersion = 3
  MaxEdits = 2
  MaxTampers = 0
  MaxFaults = 0
  MaxRestarts = 0
CHECK_DEADLOCK FALSE
INVARIANTS EventsAsListed
