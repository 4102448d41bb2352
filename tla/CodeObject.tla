------------------------------ MODULE CodeObject ------------------------------
(***************************************************************************)
(* What CPython's compiler promises of a code object, which the conversion *)
(* to PyIR relies on without a check (external to this repository): where  *)
(* jumps go, and that the evaluation stack has one depth at every          *)
(* instruction, from whichever side control comes.                         *)
(*                                                                         *)
(* Instructions are those of EvalStack; fn is FALSE for a module.          *)
(***************************************************************************)
EXTENDS Integers, Sequences

Instruction == [op : STRING, n : Nat, to : Nat]
Code        == [body : Seq(Instruction), fn : BOOLEAN]

OpAt(p, i) == p.body[i].op

Jumps       == {"JUMP_FORWARD", "JUMP_BACKWARD", "POP_JUMP_IF", "FOR_ITER"}
Conditional == {"POP_JUMP_IF", "FOR_ITER"}
Terminators == {"JUMP_FORWARD", "JUMP_BACKWARD", "RETURN_VALUE"}
Opcodes     ==
  Jumps \cup Terminators \cup
  {"NOP", "LOAD", "LOAD_NONE", "PUSH_NULL", "LOAD_GLOBAL", "LOAD_ATTR", "OPERATE", "CALL",
   "MAKE_FUNCTION", "STORE", "ADD", "MAP_ADD", "POP_TOP", "COPY", "SWAP", "STORE_LOAD"}

Targets(p) == {p.body[i].to : i \in {j \in DOMAIN p.body : OpAt(p, j) \in Jumps}}

\* Control may come to i from the instruction above it; it may come to i at all.
FallsIn(p, i) ==
  \A j \in 1..i-1 : OpAt(p, j) \in Terminators => \E l \in j+1..i-1 : l \in Targets(p)
Live(p, i) == i \in Targets(p) \/ FallsIn(p, i)

-------------------------------------------------------------------------------
(* Stack effects. *)

\* How many values an instruction takes or looks at,
Reach(I) ==
  CASE I.op \in {"OPERATE", "STORE", "COPY", "SWAP"} -> I.n
    [] I.op \in {"CALL", "MAP_ADD"} -> I.n + 2
    [] I.op = "ADD" -> I.n + 1
    [] I.op \in {"POP_TOP", "LOAD_ATTR", "STORE_LOAD", "MAKE_FUNCTION", "RETURN_VALUE"} \cup Conditional -> 1
    [] OTHER -> 0

\* and how many more there are when control goes on below it, or jumps.
Growth(I) ==
  CASE I.op \in {"LOAD", "LOAD_NONE", "PUSH_NULL", "LOAD_ATTR", "COPY", "FOR_ITER"} -> 1
    [] I.op = "LOAD_GLOBAL" -> 2
    [] I.op = "OPERATE" -> 1 - I.n
    [] I.op = "CALL" -> -(I.n + 1)
    [] I.op = "STORE" -> -I.n
    [] I.op \in {"ADD", "POP_TOP", "POP_JUMP_IF"} -> -1
    [] I.op = "MAP_ADD" -> -2
    [] OTHER -> 0
JumpGrowth(I) == IF I.op \in Conditional THEN -1 ELSE 0

-------------------------------------------------------------------------------
\* Jumps stay in the code.  A loop is entered from above; what follows a jump is
\* the target of another.
LaidOut(p) ==
  \A i \in DOMAIN p.body : OpAt(p, i) \in Jumps =>
    LET to == p.body[i].to
    IN  /\ to \in DOMAIN p.body
        /\ IF OpAt(p, i) = "JUMP_BACKWARD" THEN to <= i /\ FallsIn(p, to) ELSE to > i
        /\ OpAt(p, i) \notin Conditional /\ i < Len(p.body) => i + 1 \in Targets(p)

\* LOAD_GLOBAL and LOAD_ATTR load what is called, STORE_FAST_LOAD_FAST loads the
\* variable it stores.
Operand(I) ==
  /\ I.op \in {"COPY", "SWAP"} => I.n >= 1
  /\ I.op \in {"LOAD_GLOBAL", "LOAD_ATTR", "STORE_LOAD"} => I.n = 1

\* depth[i] is the depth of the stack at i.
Deep(p, depth, i) ==
  LET I == p.body[i]
  IN  /\ I.op \in Opcodes /\ Operand(I) /\ Reach(I) <= depth[i]
      /\ I.op \notin Terminators => i < Len(p.body) /\ depth[i + 1] = depth[i] + Growth(I)
      /\ I.op \in Jumps => depth[I.to] = depth[i] + JumpGrowth(I)

\* Values that a jump brings come with a conditional one, or from above as well.
Entered(p, depth) ==
  \A l \in Targets(p) :
    \/ FallsIn(p, l) \/ depth[l] = 0
    \/ \E j \in 1..l-1 : Live(p, j) /\ OpAt(p, j) \in Conditional /\ p.body[j].to = l

\* A module uses the constant None for its return only.
NoneReturned(p, depth) ==
  ~p.fn =>
    /\ \A i \in DOMAIN p.body : OpAt(p, i) = "LOAD_NONE" =>
         i < Len(p.body) /\ OpAt(p, i + 1) = "RETURN_VALUE" /\ i + 1 \notin Targets(p)
    /\ \A i \in DOMAIN p.body : OpAt(p, i) = "RETURN_VALUE" /\ Live(p, i) =>
         i > 1 /\ OpAt(p, i - 1) = "LOAD_NONE" /\ depth[i] = 1

WellFormed(p, depth) ==
  /\ p.body # <<>> /\ depth[1] = 0
  /\ LaidOut(p) /\ Entered(p, depth) /\ NoneReturned(p, depth)
  /\ \A i \in DOMAIN p.body : Live(p, i) => Deep(p, depth, i)
===============================================================================
