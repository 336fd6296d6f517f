SPECIFICATION FairSpec
CONSTANTS
  FileNames <- MCFileNames
  Sections = {"s"}
  CaseNames = {"a", "b"}
  Values = {"true", "other", "error"}
  Types = {"int", "dyn"}
  SkippedFiles = {"proto2"}
  FileEnvs <- MCFileEnvs
  RegisteredEnvs <- MCEnvs
  OracleEnvs <- MCEnvs
  Scenarios <- MCScenarios
  Configurations <- MCConfigurations
  Installations <- MCInstallations
CHECK_DEADLOCK FALSE
INVARIANTS TypeOK ReportAddsUp PassedOnEvidence SameJudgement SkipsAreForced PublishedTogether
PROPERTY Finishes
