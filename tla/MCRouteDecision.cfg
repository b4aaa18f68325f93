SPECIFICATION Spec
CONSTANTS
  NoIP = NoIP
  V4 = {"v4a", "v4b"}
  V6 = {"v6a"}
  Requests = {"r1", "r2"}
  Targets <- MCTargets
  Configs <- MCConfigs
  Answers <- MCAnswers
  OsAnswers <- MCOsAnswers
  Scripts <- MCScripts
  SystemResults <- MCSystemResults
  MaxCandidates = 3
  NoTarget = NoTarget
  NoOne = NoOne
  Error = Error
INVARIANTS  NoImplicitDirect InterruptIsolated
