------------------------------ MODULE Constants ------------------------------
(***************************************************************************)
(* The way of a Python constant into the compiled program: CPython object  *)
(* -> argval (bytecode.cpp) -> MLIR attribute (memory_codegen.cpp).  The   *)
(* last leg, attribute -> runtime call -> object, is in Lowering.          *)
(*                                                                         *)
(* Constants, argvals and attributes are pairs <<class, value>>.  A string *)
(* is a sequence of characters, a tuple or frozenset the sequence of its   *)
(* elements (in iteration order), a code object the number of code objects *)
(* nested in it.  Anything else CPython puts in co_consts (bytes, complex, *)
(* Ellipsis), and a tuple in a tuple, is <<"other", 0>>.                   *)
(***************************************************************************)
EXTENDS Integers, Sequences, SequencesExt

CONSTANTS
  Width,       \* bits of a C long, of int64_t and of an MLIR integer: 64
  Nul,         \* the character U+0000
  NestedFunctionDepth  \* how deep code objects are followed: 16

\* The elements of a tuple, and all constants.  The datum of a float is a number
\* that stands for it.
Scalars  == ({"bool"} \X BOOLEAN) \cup ({"int", "float"} \X Int) \cup ({"str"} \X Seq(STRING))
              \cup ({"None", "other"} \X {0})
Constant == Scalars \cup ({"tuple", "frozenset"} \X Seq(Scalars)) \cup ({"code"} \X Nat)

\* An integer of width 1 would be a BoolAttr.
ASSUME ConstantsAssumption == Width \in Nat \ {0, 1} /\ Nul \in STRING /\ NestedFunctionDepth \in Nat

Long == -(2^(Width - 1)) .. 2^(Width - 1) - 1

\* What C code reads of a string given as a char*.
CString(s) ==
  IF Nul \in Range(s) THEN SubSeq(s, 1, (CHOOSE i \in DOMAIN s : s[i] = Nul /\ \A j \in 1..i-1 : s[j] # Nul) - 1)
  ELSE s

-------------------------------------------------------------------------------
(* CPython's checks; a bool is an int (external). *)
PyBoolCheck(c) == c[1] = "bool"
PyLongCheck(c) == c[1] \in {"bool", "int"}

\* PyLong_AsLong gives -1 for an int that does not fit, and raises an
\* exception nobody clears (external).
PyLongAsLong(n) == IF n \in Long THEN n ELSE -1

ToInt(c) == IF c[1] = "bool" THEN (IF c[2] THEN 1 ELSE 0) ELSE c[2]

Unknown == <<"unknown", 0>>

\* One element of decodeTupleStr and of decodeFrozenSet.
DecodePrimitive(c) ==
  IF PyBoolCheck(c) THEN <<"Bool", c[2]>>
  ELSE IF PyLongCheck(c) THEN <<"Int", PyLongAsLong(ToInt(c))>>
  ELSE IF c[1] = "float" THEN <<"Float", c[2]>>
  ELSE IF c[1] = "str" THEN <<"Str", CString(c[2])>>
  ELSE IF c[1] = "None" THEN <<"None", 0>>
  ELSE Unknown

DecodeTupleStr(c) ==
  LET elems == [i \in DOMAIN c[2] |-> DecodePrimitive(c[2][i])]
  IN  IF Unknown \in Range(elems) THEN Unknown ELSE <<"TupleStr", elems>>

DecodeFrozenSet(c) ==
  LET elems == [i \in DOMAIN c[2] |-> DecodePrimitive(c[2][i])]
  IN  IF Unknown \in Range(elems) THEN Unknown ELSE <<"FrozenSet", elems>>

\* Mutant: the maximal depth itself is refused.
FollowedTooShallow(c) ==
  IF c[2] + 1 >= NestedFunctionDepth THEN Unknown ELSE <<"Code", c[2]>>

\* generatePythonByteCode throws below the maximal depth; the constants of a
\* module are at depth 1.
Followed(c) ==
  IF c[2] + 1 > NestedFunctionDepth THEN Unknown ELSE <<"Code", c[2]>>

\* The argval of decodeByteCodeInstruction; Unknown where it throws.
Decode(c) ==
  IF c[1] \in {"bool", "int", "float", "str"} THEN DecodePrimitive(c)
  ELSE IF c[1] = "tuple" THEN DecodeTupleStr(c)
  ELSE IF c[1] = "frozenset" THEN DecodeFrozenSet(c)
  ELSE IF c[1] = "code" THEN Followed(c)
  ELSE IF c[1] = "None" THEN <<"None", 0>>
  ELSE Unknown

-------------------------------------------------------------------------------
(***************************************************************************)
(* MLIR attributes.  BoolAttr is an IntegerAttr of width 1; NoneAttr{} is  *)
(* a null attribute, NoneAttr::get(ctx) is not.                            *)
(***************************************************************************)
BoolAttr(b)    == <<"Integer", <<1, IF b THEN 1 ELSE 0>>>>
IntAttr(n)     == <<"Integer", <<Width, n>>>>
IsIntegerAttr(a) == a[1] = "Integer"
IsBoolAttr(a)  == IsIntegerAttr(a) /\ a[2][1] = 1
NullAttr       == <<"null", 0>>

\* getInt() sign-extends: the only bit of a true BoolAttr is its sign.
GetInt(a) == IF a[2][1] = 1 THEN -a[2][2] ELSE a[2][2]

ScalarAttr(v) ==
  CASE v[1] = "Str"   -> <<"String", v[2]>>
    [] v[1] = "Int"   -> IntAttr(v[2])
    [] v[1] = "Float" -> <<"Float", v[2]>>
    [] v[1] = "Bool"  -> BoolAttr(v[2])

ArrayAttr(elems) ==
  <<"Array", [i \in DOMAIN elems |-> IF elems[i][1] = "None" THEN NullAttr ELSE ScalarAttr(elems[i])]>>

\* loadConstCodegen in a function (a module pushes no None).
ConstAttr(v) ==
  IF v[1] = "None" THEN <<"None", 0>>
  ELSE IF v[1] \in {"TupleStr", "FrozenSet"} THEN ArrayAttr(v[2])
  ELSE ScalarAttr(v)

-------------------------------------------------------------------------------
(* What Python means, for the properties. *)

\* The value a compiled program should load: a frozenset becomes a tuple.
Meant(c) == IF c[1] = "frozenset" THEN <<"tuple", c[2]>> ELSE c

Primitive(c) == c[1] \in {"bool", "int", "float", "str", "None"}

\* int64_t and C strings can hold the constant.
Representable(c) ==
  LET fits(e) == (e[1] = "int" => e[2] \in Long) /\ (e[1] = "str" => Nul \notin Range(e[2]))
  IN  IF c[1] \in {"tuple", "frozenset"} THEN \A i \in DOMAIN c[2] : fits(c[2][i]) ELSE fits(c)

\* The constants the compiler accepts: primitives, and tuples and frozensets
\* of primitives other than None.
Accepted(c) ==
  \/ Primitive(c)
  \/ c[1] \in {"tuple", "frozenset"} /\ \A i \in DOMAIN c[2] : Primitive(c[2][i]) /\ c[2][i][1] # "None"
  \/ c[1] = "code" /\ c[2] < NestedFunctionDepth
===============================================================================
