SPECIFICATION Spec
CONSTANTS
  Obj = {o1, o2, o3}
  Slot = {s1}
  Immortal = {}
  Nil = nil
  Name = {x, y}
  Builtin = {b}
  Lost = {t}
  MaxDepth = 1
  Sharing = FALSE
  Root <- MCRoot
PROPERTY KeepsPromise
CHECK_DEADLOCK FALSE
