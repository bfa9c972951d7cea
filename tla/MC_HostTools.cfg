SPECIFICATION HostSpec
CONSTANTS
  Audits = {a1, a2, a3}
  Checks = {v1}
  ConfigFiles = {f1}
  MaxChanges = 1
  MaxEdits = 1
  MaxCrashes = 1
  Syncs = {s1, s2}
  Sources <- MCSources
  MaxUpdates = 1
  MaxFaults = 1
  RuleFiles <- MCRuleFiles
  HandNames = {"agent.yaml"}
  Policies <- MCPolicies
  FirstPolicy <- MCFirstPolicy
  MaxCurations = 2
  MaxPolicies = 1
  MaxKills = 1
  Services = {"openobserve", "collector"}
  Exempt = {}
  RamBudget <- MCRamBudget
  WriteBudget <- MCWriteBudget
  RamTotal = 1
  WriteTotal = 2
  Second = 1
  Durations = {0, 30, 60, 90}
  MaxRam = 1
  MaxWritten = 2
  MaxSamples = 2
  MaxRestarts = 1
  AlertIds = {1, 2, 3}
  Names = {"sudo", "falco", "agent"}
  AgentNames = {"agent"}
  InitialFile <- MCInitialFile
  MaxUserEdits = 1
  MaxCommands = 3
  MaxRequests = 1
  Alerts = {alert1, alert2}
  FileNames = {1, 2}
  MaxSendFaults = 1
  MaxStops = 1
  Invocations = {i1, i2}
  Pids = {1, 2}
INVARIANTS
  TypeOK
  ToolsTypeOK
  OnlyVerifiedChainsGrow
  NoFalseAlarm
  CommittedStays
  IntelFilesAgree
  WatchedFilesExist
  DisabledRulesAreOut
  CurationIsComplete
  FailureIsReal
  ShortPassIsReal
  QueriesNameTheStream
  FileAndStoreAgree
  NamesAreUnique
  NothingElseIsLost
  SingleNamedObserver
PROPERTIES
  OutageKeepsIndicators
  StopSparesOthers
  AlertsReachTheDesktop
CHECK_DEADLOCK FALSE
