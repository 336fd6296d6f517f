SPECIFICATION Spec
CONSTANTS
  Bindings <- ExprValues
  Declarations <- Decls
  Expectations <- Values
  Nano = 4
  IntLimit = 16
CHECK_DEADLOCK FALSE
INVARIANTS SameMeaning RefusedOnlyUnseen KeepsItsType
