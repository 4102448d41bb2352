------------------------------ MODULE EvalStack ------------------------------
(***************************************************************************)
(* What a code object means: CPython's evaluation stack machine, as far as *)
(* the conversion to PyIR reads it (external to this repository).          *)
(*                                                                         *)
(* An instruction is a record [op, n, to]: n is the number of operands it  *)
(* takes off the stack or the depth it looks at, to the target of a jump.  *)
(* Instructions that do the same to the stack share an op:                 *)
(*   LOAD     LOAD_NAME, LOAD_FAST, LOAD_DEREF, LOAD_SMALL_INT, a constant *)
(*   OPERATE  BINARY_OP, COMPARE_OP, TO_BOOL, GET_ITER, BUILD_LIST, ...    *)
(*   STORE    STORE_NAME, STORE_FAST, STORE_DEREF, STORE_SUBSCR            *)
(*   ADD      LIST_APPEND, LIST_EXTEND, SET_ADD, SET_UPDATE                *)
(*   NOP      RESUME, NOT_TAKEN, END_FOR, POP_ITER                         *)
(* Operands are kept in stack order.                                       *)
(***************************************************************************)
EXTENDS Naturals, Sequences

CONSTANTS
  Program,  \* the code objects: [body: sequence of instructions, fn: BOOLEAN]
  Data,     \* the objects a program computes
  None,     \* the constant None
  Null      \* the NULL below the arguments of a call

VARIABLES
  code,  \* the code object
  pc,    \* the next instruction, 0 when it has returned
  stk,   \* the evaluation stack
  used   \* the operands of the last instruction

vars == <<code, pc, stk, used>>

Value == Data \cup {None, Null}

Is(op)   == pc # 0 /\ code.body[pc].op = op
N        == code.body[pc].n
Target   == code.body[pc].to
Top(n)   == SubSeq(stk, Len(stk) - n + 1, Len(stk))
Below(n) == SubSeq(stk, 1, Len(stk) - n)
At(k)    == stk[Len(stk) - k + 1]

Does(operands, s, to) == used' = operands /\ stk' = s /\ pc' = to /\ UNCHANGED code

Init == code \in Program /\ pc = 1 /\ stk = <<>> /\ used = <<>>

Nop       == Is("NOP") /\ Does(<<>>, stk, pc + 1)
Load      == Is("LOAD") /\ \E v \in Data : Does(<<>>, Append(stk, v), pc + 1)
LoadNone  == Is("LOAD_NONE") /\ Does(<<>>, Append(stk, None), pc + 1)
PushNull  == Is("PUSH_NULL") /\ Does(<<>>, Append(stk, Null), pc + 1)
\* LOAD_GLOBAL and LOAD_ATTR; n = 1 when the value is to be called.
LoadCallee(op, k) ==
  /\ Is(op)
  /\ \E v \in Data : Does(Top(k), Below(k) \o IF N = 1 THEN <<v, Null>> ELSE <<v>>, pc + 1)
Operate   == Is("OPERATE") /\ \E v \in Data : Does(Top(N), Append(Below(N), v), pc + 1)
Call      == /\ Is("CALL")
             /\ \E v \in Data : Does(<<At(N + 2)>> \o Top(N), Append(Below(N + 2), v), pc + 1)
\* The operand is the code object, known when the program is compiled.
MakeFunction == Is("MAKE_FUNCTION") /\ \E v \in Data : Does(<<>>, Append(Below(1), v), pc + 1)
Store     == Is("STORE") /\ Does(Top(N), Below(N), pc + 1)
Add(k)    == /\ Is(<<"ADD", "MAP_ADD">>[k])
             /\ Does(<<At(N + k)>> \o Top(k), Below(k), pc + 1)
PopTop    == Is("POP_TOP") /\ Does(<<>>, Below(1), pc + 1)
Copy      == Is("COPY") /\ Does(<<>>, Append(stk, At(N)), pc + 1)
Swap      == /\ Is("SWAP")
             /\ Does(<<>>, [stk EXCEPT ![Len(stk)] = At(N), ![Len(stk) - N + 1] = At(1)], pc + 1)
\* STORE_FAST_LOAD_FAST: n = 1 when it loads the variable it stores, and
\* n = 0 when it loads one with another value.
StoreLoad == /\ Is("STORE_LOAD")
             /\ \E v \in IF N = 1 THEN {At(1)} ELSE Data \ {At(1)} :
                  Does(Top(1), Append(Below(1), v), pc + 1)
Jump      == (Is("JUMP_FORWARD") \/ Is("JUMP_BACKWARD")) /\ Does(<<>>, stk, Target)
PopJumpIf == Is("POP_JUMP_IF") /\ \E to \in {pc + 1, Target} : Does(Top(1), Below(1), to)
\* The iterator leaves the stack with the loop: POP_ITER follows END_FOR.
ForIter   == /\ Is("FOR_ITER")
             /\ \/ \E v \in Data : Does(Top(1), Append(stk, v), pc + 1)
                \/ Does(Top(1), Below(1), Target)
\* What a module returns is discarded.
Return    == Is("RETURN_VALUE") /\ Does(IF code.fn THEN Top(1) ELSE <<>>, <<>>, 0)

Next ==
  \/ Nop \/ Load \/ LoadNone \/ PushNull
  \/ LoadCallee("LOAD_GLOBAL", 0) \/ LoadCallee("LOAD_ATTR", 1)
  \/ Operate \/ Call \/ MakeFunction \/ Store \/ Add(1) \/ Add(2) \/ PopTop \/ Copy \/ Swap
  \/ StoreLoad \/ Jump \/ PopJumpIf \/ ForIter \/ Return

Spec == Init /\ [][Next]_vars
==============================================================================
