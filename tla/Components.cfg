SPECIFICATION Spec
CONSTANTS
  Flows <- AllFlows
  Events <- GitHubEvents
  PageSize = 2
  MaxEdits = 2
  MaxFailures = 2
  EditedFlags = {"allowAutoMerge"}
  EditedLeaves = {"exclude"}
  MaxLines = 4
  Callers = {c1, c2}
  Threshold = 2
  Validity = 4
  MaxTime = 7
  NoCaller = none
INVARIANTS BuildTypeOK SearchMeetsReference ParametersFilled AppsMatchTasks DeploysOnlyBuilt SuccessMeansDeployed GhTypeOK SyncedMeansRight SecondPassQuiet LogTypeOK EndMarkerLast ArgoTypeOK
PROPERTIES RunsIffWellFormed KeepsOthers GhSettles LinesFlushed StreamReleased TokenFresh SessionsApart SyncReturns
CHECK_DEADLOCK FALSE
