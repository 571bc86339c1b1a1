SPECIFICATION FairSpec
CONSTANTS
  Flows = {"push"}
  Namespaces = {"ns"}
  Apps = {"app"}
  Projects = {"org"}
  Repos = {"r1"}
  AppSpecs = {"v1", "v2"}
  Events = {"opened", "closed"}
  NamespaceOf <- MCNamespaceOf
  SpecsOf <- MCEdited
  InitialVals <- MCSyncedOnly
  Tampering <- MCTampering
  None = None
  Resyncs = TRUE
  MaxVersion = 3
  MaxEdits = 2
  MaxTampers = 1
  MaxFaults = 1
  MaxRestarts = 0
CHECK_DEADLOCK FALSE
INVARIANTS SensorSettled
PROPERTIES ReadyOnCurrentSpec Converges AppsConverge
