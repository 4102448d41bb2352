SPECIFICATION Spec
CONSTANTS
  Obj = {o1, o2, o3}
  Slot = {s1}
  Immortal = {true}
  Nil = nil
  Name = {x, y}
  Builtin = {b}
  Lost = {t}
  MaxDepth = 2
  Sharing = TRUE
  Root <- MCRoot
INVARIANTS TypeOK ReturnSafe RaiseSafe NamesFreed OnlyCyclesRemain
PROPERTY Terminates
CHECK_DEADLOCK FALSE
