SPECIFICATION Spec
CONSTANTS
  Releases = {1, 2}
  Files <- MCFiles
  CoreFiles <- MCCoreFiles
  Exts <- MCExts
  OwnEnvs = {"consumer"}
  Refs <- MCRefs
  ConsumerRefs = {}
  Consumers = {}
  ExtRefs <- MCExtRefs
  Kind <- MCKind
  Impl <- MCImpl
  Partial <- MCPartial
  ConsumerMay <- NothingMay
  Artifacts <- MCArtifacts
  Body <- MCBody
  Idle = Idle
  Shipping = {"full"}
  WithCaptured = {}
  Modes = {"bundle"}
  MaxRuns = 3
  MaxCrashes = 0
CHECK_DEADLOCK FALSE
INVARIANTS RowsAtVersion
