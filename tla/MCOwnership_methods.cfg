SPECIFICATION Spec
CONSTANTS
  Obj = {o1, o2, o3}
  Slot = {s1}
  Immortal = {true}
  Nil = nil
  Name = {x}
  Builtin = {}
  Temp = {t1, t2, t3}
  MaxLoops = 2
  MaxRefs = 3
  Root <- MCRoot
  Uses = {"LOAD_CONST", "LOAD_NAME", "STORE_NAME", "BUILD_LIST", "LOAD_ATTR", "CALL_METHOD", "LIST_APPEND", "LIST_EXTEND", "GET_ITER", "BREAK", "RAISE", "CALL_CONVERT", "BINARY_OP", "BINARY_SUBSCR", "STORE_SUBSCR", "COMPARE_OP", "CALL_BUILTIN", "UNARY_OP", "POP_JUMP"}
SYMMETRY Symmetry
INVARIANTS MemorySafe ExactCounts NothingLeftBehind IteratorOwnedOnce
CHECK_DEADLOCK FALSE
