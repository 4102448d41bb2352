SPECIFICATION Spec
CONSTANTS
  f = f
  h = h
  x = x
  g = g
  None = none
  Unset = unset
  Name = {g, x}
  Data = {}
  Function = {f, h}
  Params <- MCParams
  Locals <- MCLocals
  MaxDepth = 3
  MaxStack = 2
  MaxCount = 3
INVARIANTS TypeOK OnlySharedDangle BorrowedIsHeld GlobalsCurrent OnlyLocalsAndPopsLeak
CHECK_DEADLOCK FALSE

