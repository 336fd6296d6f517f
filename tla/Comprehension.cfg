SPECIFICATION Spec
CONSTANTS
  Kinds = {"all", "exists", "exists_one", "map", "filter", "map_filter", "bind",
           "transformMap", "transformMap_filter", "transformMapEntry", "transformMapEntry_filter"}
  Predicates <- MCPredicates
  Transforms <- MCTransforms
  Entries <- MCEntries
  Strays <- MCStrays
  MaxLen = 3
CHECK_DEADLOCK FALSE
INVARIANTS TypeOK AnswerDeclared StopsWhenDecided SoundWhenPartial
