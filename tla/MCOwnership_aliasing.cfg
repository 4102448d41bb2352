SPECIFICATION Spec
CONSTANTS
  Obj = {o1, o2, o3, o4}
  Slot = {s1}
  Immortal = {true}
  Nil = nil
  Name = {x}
  Builtin = {b}
  Temp = {t1, t2, t3}
  MaxLoops = 0
  MaxRefs = 3
  Root <- MCRoot
  Uses = {"LOAD_CONST", "LOAD_NAME", "STORE_NAME", "BUILD_LIST", "COPY", "CALL_INT", "TUPLE_ADD", "LOAD_BUILTIN"}
SYMMETRY Symmetry
INVARIANTS TypeOK Confined
CHECK_DEADLOCK FALSE
