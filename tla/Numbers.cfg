SPECIFICATION Spec
CONSTANTS
  Base = 4
  Sig = 1
  P = 4
  E = 10
  F = 5
  Dig = 1
  W = 6
  TinyNum = 29
  TinyDen = 64
  Ops = {"+", "-", "*", "/", "%", "neg", "<", "<=", ">", ">=", "==", "int", "uint", "double",
         "ceil", "floor", "round", "trunc", "greatest", "least", "abs", "sign", "shl", "shr",
         "and", "or", "xor", "not"}
CHECK_DEADLOCK FALSE
INVARIANTS QuotientNearlyExact RoundedLikeIeee RelationsNumeric ConversionsAgree MathExact
