SPECIFICATION HealSpec
CONSTANTS
  Releases = {1, 2}
  Files <- MCFiles
  CoreFiles <- MCCoreFiles
  Exts <- MCExts
  OwnEnvs = {"consumer"}
  Refs <- MCRefs
  ConsumerRefs = {"math_square", "consumer_type"}
  Consumers = {"math_square", "consumer_type"}
  ExtRefs <- MCExtRefs
  Kind <- MCKind
  Impl <- MCImpl
  Partial <- MCPartial
  ConsumerMay <- HealMay
  Artifacts <- MCArtifacts
  Body <- MCBody
  Idle = Idle
  Shipping = {"full"}
  WithCaptured = {"math_square"}
  Modes = {"statement"}
  MaxRuns = 4
  MaxCrashes = 2
CHECK_DEADLOCK FALSE
INVARIANTS HealsInTwoRuns OwnedSurvive ConsumerConfined
