SPECIFICATION Spec
CONSTANTS
  Releases = {1, 2}
  Files <- MCFiles
  CoreFiles <- MCCoreFiles
  Exts <- MCExts
  OwnEnvs = {"consumer"}
  Refs <- MCRefs
  ConsumerRefs = {"math_square"}
  Consumers = {"math_square"}
  ExtRefs <- MCExtRefs
  Kind <- MCKind
  Impl <- MCImpl
  Partial <- MCPartial
  ConsumerMay <- CapturedMay
  Artifacts <- MCArtifacts
  Body <- MCBody
  Idle = Idle
  Shipping = {"full"}
  WithCaptured = {"math_square"}
  Modes = {"bundle"}
  MaxRuns = 3
  MaxCrashes = 0
CHECK_DEADLOCK FALSE
INVARIANTS EverythingKept
