SPECIFICATION Spec
CONSTANTS
  Obj = {o1, o2, o3}
  Slot = {s1, s2}
  Immortal = {true}
  Nil = nil
  Name = {x}
  Builtin = {}
  Temp = {t1, t2}
  MaxLoops = 0
  MaxRefs = 2
  Root <- MCRoot
  Uses = {"LOAD_CONST", "LOAD_NAME", "STORE_NAME", "BUILD_LIST", "POP_TOP", "RAISE", "BUILD_SET", "LIST_APPEND"}
SYMMETRY Symmetry
INVARIANTS ExactCounts NothingLeftBehind
CHECK_DEADLOCK FALSE
