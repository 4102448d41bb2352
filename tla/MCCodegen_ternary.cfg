SPECIFICATION Spec
CONSTANTS
  Program <- Ternary
  Data = {v, w}
  None = none
  Null = null
INVARIANTS AlwaysVerifies
CHECK_DEADLOCK FALSE
