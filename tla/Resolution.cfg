SPECIFICATION Spec
CONSTANTS
  a = a
  b = b
  Hidden = Hidden
  Segments = {a, b}
  MaxGlobals = 2
  MaxBound = 2
  Globals <- MCGlobals
  Activations <- MCActivations
  Containers <- MCContainers
  Chains <- MCChains
  Scopes <- MCScopes
CHECK_DEADLOCK FALSE
INVARIANTS ChecksMeaning RunsAsResolved UncheckedAgrees
