-------------------------- MODULE RuntimeInterface --------------------------
(***************************************************************************)
(* The two interfaces the lowering stands between: the operands and        *)
(* attributes of the PyIR dialect (pyir.td) and the C declarations of the  *)
(* runtime library (pystd/include).  They are written independently, and   *)
(* the linker checks nothing but the names of the functions.               *)
(***************************************************************************)
EXTENDS Sequences

\* A C declaration: what it returns and its parameters <<type, name>>.
Sig(returns, params) == [returns |-> returns, params |-> params]
Ptr(name) == <<"ptr", name>>
Size(name) == <<"i64", name>>

BinaryFn ==
  {"pyir_add", "pyir_sub", "pyir_mul", "pyir_div", "pyir_floorDiv", "pyir_exp", "pyir_mod", "pyir_xor",
   "pyir_pipe", "pyir_ampersand", "pyir_eq", "pyir_ne", "pyir_lt", "pyir_le", "pyir_gt", "pyir_ge"}
UnaryFn   == {"pyir_unaryNegative", "pyir_unaryNot", "pyir_unaryInvert", "pyir_toBool", "pyir_formatSimple"}
LogicalFn == BinaryFn \cup UnaryFn \cup {"pyir_isTruthy", "pyir_idx", "pyir_in"}

LogicalHeader(f) ==
  CASE f \in BinaryFn      -> Sig("ptr", <<Ptr("lhs"), Ptr("rhs")>>)
    [] f \in UnaryFn       -> Sig("ptr", <<Ptr("val")>>)
    [] f = "pyir_isTruthy" -> Sig("i8", <<Ptr("val")>>)
    [] f = "pyir_idx"      -> Sig("ptr", <<Ptr("obj"), Ptr("idx")>>)
    [] f = "pyir_in"       -> Sig("ptr", <<Ptr("container"), Ptr("element")>>)

NameFn   == {"pyir_loadFast", "pyir_loadFastAndClear", "pyir_loadName"}
BindFn   == {"pyir_storeFast", "pyir_storeName"}
ConstFn  == {"pyir_loadConstStr", "pyir_loadConstInt", "pyir_loadConstFloat", "pyir_loadConstBool",
             "pyir_loadConstNone", "pyir_loadConstTuple"}
MemoryFn == NameFn \cup BindFn \cup ConstFn \cup {"pyir_loadAttr", "pyir_storeSubscr"}

MemoryHeader(f) ==
  CASE f \in NameFn              -> Sig("ptr", <<Ptr("name")>>)
    [] f \in BindFn              -> Sig("void", <<Ptr("name"), Ptr("val")>>)
    [] f = "pyir_loadConstStr"   -> Sig("ptr", <<Ptr("str")>>)
    [] f = "pyir_loadConstInt"   -> Sig("ptr", <<Size("val")>>)
    [] f = "pyir_loadConstFloat" -> Sig("ptr", <<<<"f64", "val">>>>)
    [] f = "pyir_loadConstBool"  -> Sig("ptr", <<<<"i8", "val">>>>)
    [] f = "pyir_loadConstNone"  -> Sig("ptr", <<>>)
    [] f = "pyir_loadConstTuple" -> Sig("ptr", <<Ptr("items"), Size("count")>>)
    [] f = "pyir_loadAttr"       -> Sig("ptr", <<Ptr("obj"), Ptr("name")>>)
    [] f = "pyir_storeSubscr"    -> Sig("void", <<Ptr("container"), Ptr("idx"), Ptr("value")>>)

PartsFn   == {"pyir_buildString", "pyir_buildList", "pyir_buildSet", "pyir_buildMap"}
BuilderFn ==
  PartsFn \cup {"pyir_listExtend", "pyir_listAppend", "pyir_setUpdate", "pyir_setAdd", "pyir_mapAdd"}

BuilderHeader(f) ==
  CASE f \in PartsFn         -> Sig("ptr", <<Ptr("parts"), Size("count")>>)
    [] f = "pyir_listExtend" -> Sig("void", <<Ptr("list"), Ptr("items")>>)
    [] f = "pyir_listAppend" -> Sig("void", <<Ptr("list"), Ptr("item")>>)
    [] f = "pyir_setUpdate"  -> Sig("void", <<Ptr("set"), Ptr("items")>>)
    [] f = "pyir_setAdd"     -> Sig("void", <<Ptr("set"), Ptr("item")>>)
    [] f = "pyir_mapAdd"     -> Sig("void", <<Ptr("dict"), Ptr("key"), Ptr("value")>>)

FunctionFn == {"pyir_pushScope", "pyir_popScope", "pyir_makeFunction", "pyir_call", "pyir_decref"}

FunctionHeader(f) ==
  CASE f \in {"pyir_pushScope", "pyir_popScope"} -> Sig("void", <<>>)
    [] f = "pyir_makeFunction" -> Sig("ptr", <<Ptr("fnName"), Ptr("fn_ptr")>>)
    [] f = "pyir_call"         -> Sig("ptr", <<Ptr("callee"), Ptr("args"), Size("argc")>>)
    [] f = "pyir_decref"       -> Sig("void", <<Ptr("v")>>)

ControlFlowFn == {"pyir_getIter", "pyir_forIter", "pyir_popIter"}

ControlFlowHeader(f) ==
  CASE f = "pyir_getIter" -> Sig("ptr", <<Ptr("container")>>)
    [] f = "pyir_forIter" -> Sig("ptr", <<Ptr("iterator")>>)
    [] f = "pyir_popIter" -> Sig("ptr", <<>>)

BuiltinFn == {"pyir_initModule", "pyir_destroyModule"}

BuiltinHeader(f) ==
  CASE f = "pyir_initModule"    -> Sig("void", <<Ptr("file"), Ptr("name")>>)
    [] f = "pyir_destroyModule" -> Sig("void", <<>>)

RuntimeFn == LogicalFn \cup MemoryFn \cup BuilderFn \cup FunctionFn \cup ControlFlowFn \cup BuiltinFn
Header ==
  [f \in RuntimeFn |->
     CASE f \in LogicalFn     -> LogicalHeader(f)
       [] f \in MemoryFn      -> MemoryHeader(f)
       [] f \in BuilderFn     -> BuilderHeader(f)
       [] f \in FunctionFn    -> FunctionHeader(f)
       [] f \in ControlFlowFn -> ControlFlowHeader(f)
       [] f \in BuiltinFn     -> BuiltinHeader(f)]

(***************************************************************************)
(* The operands of each PyIR operation, in the order of its definition.    *)
(* Variadic operands (of build_*, call and for_iter) come after them.      *)
(***************************************************************************)
PlainOp ==
  {"init_module", "destroy_module", "push_null", "load_name", "load_fast", "load_fast_and_clear",
   "load_const", "make_function", "push_scope", "pop_scope", "load_deref", "pop_iter"}
StoreOp == {"pop_top", "store_name", "store_fast", "store_deref", "return_value"}
ScopeOp == PlainOp \cup StoreOp \cup {"load_arg", "load_attr", "call"}

ScopeOperands(o) ==
  CASE o \in PlainOp   -> <<>>
    [] o \in StoreOp   -> <<"value">>
    [] o = "load_arg"  -> <<"args_ptr">>
    [] o = "load_attr" -> <<"object">>
    [] o = "call"      -> <<"callee">>

UnaryOp   == {"to_bool", "is_truthy", "unary_not", "unary_negative", "unary_invert", "format_simple"}
LogicalOp == UnaryOp \cup {"binary_op", "compare_op", "contains_op"}

LogicalOperands(o) ==
  CASE o \in UnaryOp -> <<"value">>
    [] o \in {"binary_op", "compare_op"} -> <<"lhs", "rhs">>
    [] o = "contains_op" -> <<"container", "element">>

BuildOp     == {"build_string", "build_list", "build_set", "build_map"}
ContainerOp == BuildOp \cup {"list_extend", "list_append", "set_update", "set_add", "map_add",
                             "store_subscr", "get_iter", "for_iter"}

ContainerOperands(o) ==
  CASE o \in BuildOp -> <<>>
    [] o = "list_extend"  -> <<"list", "items">>
    [] o = "list_append"  -> <<"list", "item">>
    [] o = "set_update"   -> <<"set", "items">>
    [] o = "set_add"      -> <<"set", "item">>
    [] o = "map_add"      -> <<"map", "key", "value">>
    [] o = "store_subscr" -> <<"collection", "idx", "value">>
    [] o = "get_iter"     -> <<"container">>
    [] o = "for_iter"     -> <<"iterator">>

Operands ==
  [o \in ScopeOp \cup LogicalOp \cup ContainerOp |->
     CASE o \in ScopeOp     -> ScopeOperands(o)
       [] o \in LogicalOp   -> LogicalOperands(o)
       [] o \in ContainerOp -> ContainerOperands(o)]

\* The parameter names a dialect name may stand for.
Means(name) ==
  CASE name = "value"      -> {"value", "val", "v"}
    [] name = "object"     -> {"obj"}
    [] name = "collection" -> {"container"}
    [] name = "map"        -> {"dict"}
    [] name = "lhs"        -> {"lhs", "obj"}
    [] name = "rhs"        -> {"rhs", "idx"}
    [] name \in {"var_name", "attr_name"} -> {"name"}
    [] name = "fn_name"    -> {"fnName"}
    [] OTHER -> {name}
===============================================================================
