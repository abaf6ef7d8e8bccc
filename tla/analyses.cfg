SPECIFICATION Spec
CONSTANTS
  NoHash = NoHash
  NoContentHash = NoHash
  Symbols = {"a", "b", "c", "d", "e"}
  CoreSymbols = {"e"}
  NoRatio = NoRatio
  LowThreshold = 2
  HighThreshold = 4
  ManyModules = 4
  Missing = Missing
  Snapshots <- MCSnapshots
  Databases <- MCDatabases
  Impacts <- MCImpacts
  Edits <- MCEdits
  Walks <- MCWalks
  Layouts <- MCLayouts
  Topologies <- MCTopologies
  Logs <- MCLogs
  Debts <- MCDebts
  NoAnswer = NoAnswer
  ToolCallBudget = 3
  NavigationCap = 2
  Orientations <- MCOrientations
  RequestedModel = "m"
  Pilots <- MCPilots
  Unanswered = Unanswered
INVARIANTS
  BrokenChainsComplete EmptyDiffMeansSame CompareMissesOnlyDangling FalseBreaksAreHomonyms
  CallersComplete LowMeansFewCallers AttributionIsExact TraversalIsReach DepsFindsStructure
  FallbackAgrees CommitsCountedOnce WorseNeverScoresBetter
  OneCallCertifies FaultsStopThePilot RightAgentCompletes
  PilotStopsAtFirstFault AuditConfirms HonestCohortPasses
CHECK_DEADLOCK FALSE
