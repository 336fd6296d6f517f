SPECIFICATION Spec
CONSTANTS
  Releases = {1, 2}
  Files <- MCFiles
  CoreFiles <- MCCoreFiles
  Exts <- MCExts
  OwnEnvs = {"consumer"}
  Refs <- MCRefs
  ConsumerRefs = {"consumer_type"}
  Consumers = {"consumer_type"}
  ExtRefs <- MCExtRefs
  Kind <- MCKind
  Impl <- MCImpl
  Partial <- MCPartial
  ConsumerMay <- NothingMay
  Artifacts <- MCArtifacts
  Body <- MCBody
  Idle = Idle
  Shipping = {"full"}
  WithCaptured = {}
  Modes = {"bundle"}
  MaxRuns = 3
  MaxCrashes = 0
CHECK_DEADLOCK FALSE
INVARIANTS NothingForeign
