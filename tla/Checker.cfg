SPECIFICATION Spec
CONSTANTS
  Leaves <- MCLeaves
  Functions <- MCFunctions
  Overloads <- MCOverloads
  Grounds <- MCGrounds
  Nodes = 6
CHECK_DEADLOCK FALSE
INVARIANTS TypeOK Acyclic RejectsOnlyMisfits NothingMore NothingLess
