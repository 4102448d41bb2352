------------------------------ MODULE Lowering ------------------------------
(***************************************************************************)
(* The conversion of PyIR to the LLVM dialect (pyir_lowering.cpp and the   *)
(* files of lowering/): every operation becomes calls of the runtime       *)
(* library.  Runtime functions are declared and string constants defined   *)
(* in the module the first time they are asked for, under names the        *)
(* lowering makes up; later requests take what is there under that name.   *)
(*                                                                         *)
(* An operation is a record: its mnemonic in `name`, its attribute in      *)
(* `text` (names and operators), `const` (the Python constant it came      *)
(* from) or `index`, and in `n` the number of its variadic operands.       *)
(***************************************************************************)
EXTENDS Constants, RuntimeInterface

CONSTANTS
  Op,        \* the operations programs are made of (LoweringAssumption)
  MaxOps,    \* and how many
  Hash(_)    \* std::hash of a string

VARIABLES
  prog,      \* the operations of the module
  code,      \* for each converted operation the calls it became
  decls,     \* runtime functions declared in the module: name -> type
  globals,   \* string constants of the module: symbol -> text
  outcome    \* "decoding", "refused", "lowering", "lowered", "failed" or "crashed"

vars == <<prog, code, decls, globals, outcome>>

Init ==
  /\ prog \in UNION {[1..n -> Op] : n \in 1..MaxOps}
  /\ code = <<>> /\ decls = << >> /\ globals = << >>
  /\ outcome = "decoding"

\* generatePythonByteCode decodes the constants of the whole module before
\* anything is converted, and throws at one it does not know or cannot follow.
GeneratePythonByteCode ==
  /\ outcome = "decoding"
  /\ outcome' = IF \E i \in DOMAIN prog : prog[i].name = "load_const" /\ Decode(prog[i].const) = Unknown
                THEN "refused" ELSE "lowering"
  /\ UNCHANGED <<prog, code, decls, globals>>

-------------------------------------------------------------------------------
(* LLVM values: what each is, its type, and for the properties its name in *)
(* the dialect and the text it should point to.                            *)

Arg(class, type, role) == [class |-> class, type |-> type, role |-> role]
Operand(role)          == Arg("operand", "ptr", role)
Null(role)             == Arg("null", "ptr", role)
Bits(type, value, role) == [class |-> "bits", type |-> type, role |-> role, value |-> value]
Array(elems, role)     == [class |-> "array", type |-> "ptr", role |-> role, elems |-> elems]
Symbol(symbol, text, role) ==
  [class |-> "symbol", type |-> "ptr", role |-> role, symbol |-> symbol, text |-> text]

OperandsOf(op) ==
  [i \in DOMAIN Operands[op.name] |-> Operand(Operands[op.name][i])]
    \o (IF "n" \in DOMAIN op THEN [i \in 1..op.n |-> Operand(i)] ELSE <<>>)

Call(fn, returns, params, args) == [fn |-> fn, type |-> <<returns, params>>, args |-> args]

-------------------------------------------------------------------------------
(* The calls of an operation ask in turn for their functions and for the   *)
(* symbols among their arguments, which are at positions <<call, argument>>. *)

Earliest(P) == CHOOSE p \in P : \A q \in P : p[1] < q[1] \/ (p[1] = q[1] /\ p[2] <= q[2])

CallsOf(calls, fn) == {p \in (DOMAIN calls) \X {0} : calls[p[1]].fn = fn}

GetOrInsertRuntimeFn(calls) ==
  [fn \in DOMAIN decls \cup {calls[i].fn : i \in DOMAIN calls} |->
     IF fn \in DOMAIN decls THEN decls[fn] ELSE calls[Earliest(CallsOf(calls, fn))[1]].type]

ArgAt(calls, p)  == calls[p[1]].args[p[2]]
Requests(calls)  ==
  UNION {{i} \X {j \in DOMAIN calls[i].args : calls[i].args[j].class = "symbol"} : i \in DOMAIN calls}
RequestsOf(calls, symbol) == {p \in Requests(calls) : ArgAt(calls, p).symbol = symbol}

GetOrInsertStringConstant(calls) ==
  [symbol \in DOMAIN globals \cup {ArgAt(calls, p).symbol : p \in Requests(calls)} |->
     IF symbol \in DOMAIN globals THEN globals[symbol]
     ELSE ArgAt(calls, Earliest(RequestsOf(calls, symbol))).text]

\* The operation under conversion, and its replacement by `calls`.
Now == prog[Len(code) + 1]
At(names) == outcome = "lowering" /\ Now.name \in names

Emit(calls) ==
  /\ code' = Append(code, calls)
  /\ decls' = GetOrInsertRuntimeFn(calls) /\ globals' = GetOrInsertStringConstant(calls)
  /\ outcome' = IF Len(code') = Len(prog) THEN "lowered" ELSE "lowering"
  /\ UNCHANGED prog

\* applyFullConversion fails as a whole.
Fail(how) == outcome' = how /\ UNCHANGED <<prog, code, decls, globals>>

InsertRuntimeFunc(fn, hasReturn) ==
  LET args == OperandsOf(Now)
  IN  Emit(<<Call(fn, IF hasReturn THEN "ptr" ELSE "void", [i \in DOMAIN args |-> "ptr"], args)>>)

-------------------------------------------------------------------------------
(* Operations that are one call with their operands. *)

ReturnsNothing ==
  [destroy_module |-> "pyir_destroyModule", pop_top |-> "pyir_decref",
   push_scope |-> "pyir_pushScope", pop_scope |-> "pyir_popScope", pop_iter |-> "pyir_popIter"]

BuilderStatement ==
  [list_extend |-> "pyir_listExtend", list_append |-> "pyir_listAppend",
   set_update |-> "pyir_setUpdate", set_add |-> "pyir_setAdd", map_add |-> "pyir_mapAdd"]

ReturnsObject ==
  [to_bool |-> "pyir_toBool", unary_invert |-> "pyir_unaryInvert", unary_negative |-> "pyir_unaryNegative",
   unary_not |-> "pyir_unaryNot", format_simple |-> "pyir_formatSimple", get_iter |-> "pyir_getIter"]

LowerStatement  ==
  \/ At(DOMAIN ReturnsNothing) /\ InsertRuntimeFunc(ReturnsNothing[Now.name], FALSE)
  \/ At(DOMAIN BuilderStatement) /\ InsertRuntimeFunc(BuilderStatement[Now.name], FALSE)
LowerExpression == At(DOMAIN ReturnsObject) /\ InsertRuntimeFunc(ReturnsObject[Now.name], TRUE)

\* Operators: an operator without a runtime function fails the conversion.
LowerOperator(name, opToFn, operator) ==
  /\ At({name})
  /\ IF operator \in DOMAIN opToFn THEN InsertRuntimeFunc(opToFn[operator], TRUE)
     ELSE Fail("failed")

BinaryOpToFn ==
  [o \in {"+", "+=", "-", "-=", "*", "*=", "/", "/=", "^", "^=", "//", "//=", "**", "**=", "%", "%=",
          "[]", "|", "|=", "&", "&="} |->
     CASE o \in {"+", "+="}   -> "pyir_add"      [] o \in {"-", "-="}   -> "pyir_sub"
       [] o \in {"*", "*="}   -> "pyir_mul"      [] o \in {"/", "/="}   -> "pyir_div"
       [] o \in {"//", "//="} -> "pyir_floorDiv" [] o \in {"**", "**="} -> "pyir_exp"
       [] o \in {"%", "%="}   -> "pyir_mod"      [] o \in {"^", "^="}   -> "pyir_xor"
       [] o \in {"|", "|="}   -> "pyir_pipe"     [] o \in {"&", "&="}   -> "pyir_ampersand"
       [] o = "[]"            -> "pyir_idx"]

CompareOpToFn ==
  [o \in {"==", "!=", "<", "<=", ">", ">="} |->
     CASE o = "==" -> "pyir_eq" [] o = "!=" -> "pyir_ne" [] o = "<"  -> "pyir_lt"
       [] o = "<=" -> "pyir_le" [] o = ">"  -> "pyir_gt" [] o = ">=" -> "pyir_ge"]

ContainsOpToFn == [o \in {"in"} |-> "pyir_in"]

\* Mutant: the wrapper stays.
Wrapped(text) == text[1]

\* The operator of COMPARE_OP is "<" or "bool(<)", here <<"bool(", "<", ")">>.
Stripped(text) == IF "bool(" \in Range(text) THEN Tail(Front(text))[1] ELSE text[1]

LowerBinaryOp   == LowerOperator("binary_op", BinaryOpToFn, Now.text[1])
LowerCompareOp  == LowerOperator("compare_op", CompareOpToFn, Stripped(Now.text))
LowerContainsOp == LowerOperator("contains_op", ContainsOpToFn, Now.text[1])

\* The call returns i8, truncated to i1 for the branch.
LowerIsTruthy ==
  /\ At({"is_truthy"})
  /\ Emit(<<Call("pyir_isTruthy", "i8", <<"ptr">>, OperandsOf(Now))>>)

-------------------------------------------------------------------------------
(* Names. *)

NameSymbol(text, role) == Symbol(<<"__pyir_str_">> \o text, text, role)

LoadFn  == [load_fast |-> "pyir_loadFast", load_fast_and_clear |-> "pyir_loadFastAndClear",
            load_name |-> "pyir_loadName"]
StoreFn == [store_fast |-> "pyir_storeFast", store_name |-> "pyir_storeName"]

LowerLoad ==
  /\ At(DOMAIN LoadFn)
  /\ Emit(<<Call(LoadFn[Now.name], "ptr", <<"ptr">>, <<NameSymbol(Now.text, "var_name")>>)>>)

\* Mutant: the arguments in the order of store_subscr.
StoreArgsSwapped(op) == <<OperandsOf(op)[1], NameSymbol(op.text, "var_name")>>

StoreArgs(op) == <<NameSymbol(op.text, "var_name"), OperandsOf(op)[1]>>

LowerStore ==
  /\ At(DOMAIN StoreFn)
  /\ Emit(<<Call(StoreFn[Now.name], "void", <<"ptr", "ptr">>, StoreArgs(Now))>>)

LowerLoadAttr ==
  /\ At({"load_attr"})
  /\ Emit(<<Call("pyir_loadAttr", "ptr", <<"ptr", "ptr">>,
                 <<OperandsOf(Now)[1], NameSymbol(Now.text, "attr_name")>>)>>)

LowerInitModule ==
  /\ At({"init_module"})
  /\ Emit(<<Call("pyir_initModule", "void", <<"ptr", "ptr">>,
                 <<NameSymbol(Now.text, "file"), NameSymbol(Now.moduleName, "name")>>)>>)

LowerMakeFunction ==
  /\ At({"make_function"})
  /\ Emit(<<Call("pyir_makeFunction", "ptr", <<"ptr", "ptr">>,
                 <<Symbol(<<"__pyir_str_", "fn_">> \o Now.text, Now.text, "fn_name"),
                   Arg("function", "ptr", "fn_ptr")>>)>>)

-------------------------------------------------------------------------------
(* Containers, calls, parameters. *)

\* A stack array of the operands and their number.
Parts(elems, role)        == Array(elems, role)
PartsOrNull(elems, role)  == IF elems = <<>> THEN Null(role) ELSE Array(elems, role)
Count(elems, role)        == Bits("i64", Len(elems), role)

BuildFn == [build_string |-> "pyir_buildString", build_list |-> "pyir_buildList",
            build_set |-> "pyir_buildSet", build_map |-> "pyir_buildMap"]

LowerBuild ==
  /\ At(DOMAIN BuildFn)
  /\ LET parts == OperandsOf(Now)
     IN  Emit(<<Call(BuildFn[Now.name], "ptr", <<"ptr", "i64">>,
                     <<Parts(parts, "parts"), Count(parts, "count")>>)>>)

LowerCall ==
  /\ At({"call"})
  /\ LET args == Tail(OperandsOf(Now))
     IN  Emit(<<Call("pyir_call", "ptr", <<"ptr", "ptr", "i64">>,
                     <<OperandsOf(Now)[1], PartsOrNull(args, "args"), Count(args, "argc")>>)>>)

LowerStoreSubscr ==
  /\ At({"store_subscr"})
  /\ Emit(<<Call("pyir_storeSubscr", "void", <<"ptr", "ptr", "ptr">>, OperandsOf(Now))>>)

\* The branches of for_iter are in Codegen; the call sees the iterator only.
LowerForIter ==
  /\ At({"for_iter"})
  /\ Emit(<<Call("pyir_forIter", "ptr", <<"ptr">>, <<OperandsOf(Now)[1]>>)>>)

\* Operations without a call: a null pointer, a load from the argument array,
\* a return.
LowerNoCall == At({"push_null", "load_arg", "return_value"}) /\ Emit(<<>>)

\* No pattern exists for the cell variables of closures.
LowerDeref == At({"load_deref", "store_deref"}) /\ Fail("failed")

-------------------------------------------------------------------------------
(* Constants. *)

\* Mutant: the hash is left out.
StringSymbolUnhashed(str) == <<"__pyir_const_str_">>

StringSymbol(str) == <<"__pyir_const_str_", Hash(str)>>

LoadStringConst(str) ==
  Call("pyir_loadConstStr", "ptr", <<"ptr">>, <<Symbol(StringSymbol(str), str, "str")>>)
LoadBoolConst(b)   == Call("pyir_loadConstBool", "ptr", <<"i8">>, <<Bits("i8", b, "val")>>)
LoadIntConst(n)    == Call("pyir_loadConstInt", "ptr", <<"i64">>, <<Bits("i64", n, "val")>>)
LoadFloatConst(x)  == Call("pyir_loadConstFloat", "ptr", <<"f64">>, <<Bits("f64", x, "val")>>)
LoadNoneConst      == Call("pyir_loadConstNone", "ptr", <<>>, <<>>)

\* The attributes an element may be; dyn_cast of the null attribute of None
\* is undefined, and otherwise the loop throws.
ScalarClass == {"String", "Integer", "Float"}
CrashesOn(a) == a[1] = "Array" /\ \E i \in DOMAIN a[2] : a[2][i][1] \notin ScalarClass

\* Mutant: IntegerAttr is asked for before BoolAttr.
LoadScalarConstIntegerFirst(a) ==
  IF a[1] = "String" THEN LoadStringConst(a[2])
  ELSE IF IsIntegerAttr(a) THEN LoadIntConst(GetInt(a))
  ELSE LoadFloatConst(a[2])

LoadScalarConst(a) ==
  IF a[1] = "String" THEN LoadStringConst(a[2])
  ELSE IF IsBoolAttr(a) THEN LoadBoolConst(a[2][2])
  ELSE IF IsIntegerAttr(a) THEN LoadIntConst(GetInt(a))
  ELSE LoadFloatConst(a[2])

LoadTupleConst(elems) ==
  LET calls == [i \in DOMAIN elems |-> LoadScalarConst(elems[i])]
  IN  Append(calls, Call("pyir_loadConstTuple", "ptr", <<"ptr", "i64">>,
                         <<PartsOrNull(calls, "items"), Count(calls, "count")>>))

\* A code object becomes a function of its own; push_null stands for it.
LowerCode == At({"load_const"}) /\ Now.const[1] = "code" /\ Emit(<<>>)

LowerLoadConst ==
  LET a == ConstAttr(Decode(Now.const))
  IN  /\ At({"load_const"}) /\ Now.const[1] # "code"
      /\ IF CrashesOn(a) THEN Fail("crashed")
         ELSE Emit(IF a[1] = "None" THEN <<LoadNoneConst>>
                   ELSE IF a[1] = "Array" THEN LoadTupleConst(a[2])
                   ELSE <<LoadScalarConst(a)>>)

-------------------------------------------------------------------------------
(* The operations the conversion of bytecode makes.  The operators are     *)
(* those of CPython.                                                       *)

Unary    == DOMAIN ReturnsNothing \cup DOMAIN BuilderStatement \cup DOMAIN ReturnsObject
              \cup {"is_truthy", "store_subscr", "push_null", "load_arg", "return_value",
                    "load_deref", "store_deref"}
Nominal  == DOMAIN LoadFn \cup DOMAIN StoreFn \cup {"load_attr", "make_function"}
Variadic == DOMAIN BuildFn \cup {"call", "for_iter"}

Unconverted == {"@", "<<", ">>", "@=", "<<=", ">>="}
BinaryText   == {<<o>> : o \in DOMAIN BinaryOpToFn \cup Unconverted}
CompareText  == {<<o>> : o \in DOMAIN CompareOpToFn} \cup {<<"bool(", o, ")">> : o \in DOMAIN CompareOpToFn}
ContainsText == {<<"in">>, <<"not in">>}

Operation ==
  [name : Unary] \cup [name : Nominal, text : Seq(STRING)] \cup [name : Variadic, n : Nat]
    \cup [name : {"init_module"}, text : Seq(STRING), moduleName : Seq(STRING)]
    \cup [name : {"binary_op"}, text : BinaryText] \cup [name : {"compare_op"}, text : CompareText]
    \cup [name : {"contains_op"}, text : ContainsText]
    \cup [name : {"load_const"}, const : Constant]

ASSUME LoweringAssumption == Op \subseteq Operation /\ MaxOps \in Nat

-------------------------------------------------------------------------------
Next ==
  \/ GeneratePythonByteCode
  \/ LowerStatement \/ LowerExpression \/ LowerBinaryOp \/ LowerCompareOp \/ LowerContainsOp
  \/ LowerIsTruthy \/ LowerLoad \/ LowerStore \/ LowerLoadAttr \/ LowerInitModule
  \/ LowerMakeFunction \/ LowerBuild \/ LowerCall \/ LowerStoreSubscr \/ LowerForIter
  \/ LowerNoCall \/ LowerDeref \/ LowerCode \/ LowerLoadConst

\* Every operation has a pattern, or there is nothing left to convert.
Done == outcome \notin {"decoding", "lowering"} /\ UNCHANGED vars

Spec == Init /\ [][Next \/ Done]_vars

-------------------------------------------------------------------------------
(* What the generated code does, in the runtime library. *)

\* The object a call of one of the scalar load functions makes.
RunScalar(call) ==
  LET arg == call.args[1]
  IN  CASE call.fn = "pyir_loadConstNone"  -> <<"None", 0>>
        [] call.fn = "pyir_loadConstStr"   -> <<"str", CString(globals[arg.symbol])>>
        [] call.fn = "pyir_loadConstInt"   -> <<"int", arg.value>>
        [] call.fn = "pyir_loadConstFloat" -> <<"float", arg.value>>
        [] call.fn = "pyir_loadConstBool"  -> <<"bool", arg.value # 0>>

RunConst(calls) ==
  LET call == calls[Len(calls)]
  IN  IF call.fn # "pyir_loadConstTuple" THEN RunScalar(call)
      ELSE <<"tuple", [i \in 1..call.args[2].value |-> RunScalar(call.args[1].elems[i])]>>

-------------------------------------------------------------------------------
Calls == UNION {Range(code[i]) : i \in DOMAIN code}
Symbols == {a \in UNION {Range(c.args) : c \in Calls} : a.class = "symbol"}

\* Two strings of the module hash alike, or a variable has the name of a
\* function with fn_ before it.
Ambiguous ==
  \E a, b \in Symbols :
    \/ a.role = "str" /\ b.role = "str" /\ a.text # b.text /\ Hash(a.text) = Hash(b.text)
    \/ a.role = "fn_name" /\ b.role # "str" /\ b.text = <<"fn_">> \o a.text

\* Every symbol a call refers to is defined, and unless two strings get the
\* same symbol it holds the string of the operation it was made for, whatever
\* was defined before (getOrInsertStringConstant compares names only).
OwnText == \A a \in Symbols : a.symbol \in DOMAIN globals /\ (Ambiguous \/ globals[a.symbol] = a.text)

\* The module declares each runtime function with the C types of its header,
\* calls it with arguments of those types, and gives every parameter the operand
\* meant for it.  A declaration may drop a result (pyir_popIter).
CallsMatchRuntime ==
  \A c \in Calls :
    /\ c.fn \in DOMAIN Header
    /\ LET h == Header[c.fn]
       IN  /\ decls[c.fn][1] \in {h.returns, "void"}
           /\ decls[c.fn][2] = [i \in DOMAIN h.params |-> h.params[i][1]]
           /\ Len(c.args) = Len(h.params)
           /\ \A i \in DOMAIN c.args : c.args[i].type = h.params[i][1]
                                       /\ h.params[i][2] \in Means(c.args[i].role)

\* A constant that fits int64_t and C strings is loaded with the type and value
\* it has in Python, alone or in a tuple, after PyObject -> argval -> attribute
\* -> runtime call; a frozenset is loaded as a tuple.
Preserved ==
  \A i \in DOMAIN code :
    prog[i].name = "load_const" /\ prog[i].const[1] # "code" /\ Representable(prog[i].const) /\ ~Ambiguous
      => RunConst(code[i]) = Meant(prog[i].const)

\* The operations that cannot be compiled: Python operators without a runtime
\* function, closures, constants that are none of the compiler's (bytes, a tuple in a
\* tuple), functions nested too deeply, and constant tuples that hold None.
Unsupported(op) ==
  \/ op.name = "binary_op" /\ op.text[1] \in Unconverted
  \/ op.name = "contains_op" /\ op.text[1] = "not in"
  \/ op.name \in {"load_deref", "store_deref"}
  \/ op.name = "load_const" /\ ~Accepted(op.const)

\* The front end refuses a module only if one of these operations is in it, and the
\* pass gives up only at one; a module that has one never gets through both.
OnlyUnsupportedFails ==
  /\ outcome = "refused" => \E i \in DOMAIN prog : Unsupported(prog[i])
  /\ outcome \in {"failed", "crashed"} => Unsupported(Now)
  /\ outcome = "lowered" => \A i \in DOMAIN prog : ~Unsupported(prog[i])
===============================================================================
