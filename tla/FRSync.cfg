SPECIFICATION Spec
CONSTANTS
  Flows = {"push", "pr"}
  Namespaces = {"ns"}
  Apps = {"app"}
  Projects = {"org"}
  Repos = {"r1", "r2"}
  AppSpecs = {"v1", "v2"}
  Events = {"opened"}
  NamespaceOf <- MCNamespaceOf
  SpecsOf <- MCTwoFlows
  InitialVals <- MCOldOnly
  Tampering <- MCTampering
  None = None
  Resyncs = FALSE
  MaxVersion = 3
  MaxEdits = 2
  MaxTampers = 0
  MaxFaults = 1
  MaxRestarts = 1
CHECK_DEADLOCK FALSE
INVARIANTS TypeOK SyncedMeansApplied NothingForgotten
PROPERTIES ReposKept
