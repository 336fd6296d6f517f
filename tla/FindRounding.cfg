SPECIFICATION Spec
CONSTANTS
  Base = 4
  Sig = 1
  P = 4
  E = 10
  F = 5
  Dig = 1
  W = 6
  TinyNum = 29
  TinyDen = 64
  Ops = {"round"}
CHECK_DEADLOCK FALSE
INVARIANTS RoundsHalfAway
