SPECIFICATION Spec
CONSTANTS
  Program <- All
  Data = {v, w}
  None = none
  Null = null
INVARIANTS TypeOK Accepted
PROPERTY Implements
CHECK_DEADLOCK FALSE
