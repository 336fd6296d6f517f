SPECIFICATION FairSpec
CONSTANTS
  Known = {"standard", "optionals", "site"}
  Unknown = {"typo"}
  Graphs <- MCGraphs
  Setters = {"optionals", "site"}
  MaxGiven = 3
  MaxItems = 4
CHECK_DEADLOCK FALSE
INVARIANTS NoDuplicates FlagPrecedence
PROPERTIES ComputesUnion
