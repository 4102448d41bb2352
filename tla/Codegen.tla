------------------------------- MODULE Codegen -------------------------------
(***************************************************************************)
(* The translation of a code object to PyIR (pycompile/src/conversion/),   *)
(* and the program that comes out of it.                                   *)
(*                                                                         *)
(* buildMLIRModule walks the instructions once, with a stack of SSA values *)
(* in place of CPython's evaluation stack.  Every offset that is jumped to *)
(* starts a block; the block gets the stack as block arguments from the    *)
(* first branch to it that carries any.  Then MLIR's verifier accepts the  *)
(* function or not, and an accepted one runs: SSA values have values at    *)
(* run time.  The run is meant to be EvalStack's.                          *)
(*                                                                         *)
(* An SSA value is <<i, 0>>, the result of instruction i, or <<i, k>>, the *)
(* k-th argument of the block at instruction i.                            *)
(***************************************************************************)
EXTENDS CodeObject, Functions

CONSTANTS Program, Data, None, Null  \* as in EvalStack

ASSUME CodegenAssumption == Program \subseteq Code /\ Data # {}

VARIABLES
  code,     \* the code object
  phase,    \* "translate", "undefined", "rejected" or "run"
  next,     \* the instruction being translated
  stack,    \* meta.stack
  here,     \* whether switchToOffsetBlock was called for next
  open,     \* the insertion block has no terminator yet
  complete, \* blockComplete
  width,    \* [Labels -> Nat]: getNumArguments() of the block at an offset
  falls,    \* operands of the branch into it from the block above, if any
  pir,      \* the operation emitted for each instruction
  pc, env,  \* run time: the instruction, and what the SSA values in use are
  used      \* run time: the operands of the last instruction

vars == <<code, phase, next, stack, here, open, complete, width, falls, pir, pc, env, used>>

Size    == Len(code.body)
NullRef == <<0, 0>>   \* the results of PushNull

\* The pre-pass of buildMLIRModule: every offset that is jumped to gets a
\* block.  FOR_ITER jumps to its END_FOR.
Labels == Targets(code)

Operation == [kind |-> "call", before |-> <<>>, uses |-> <<>>, result |-> {}, out |-> <<>>]

Init ==
  /\ code \in Program
  /\ phase = "translate" /\ next = 1 /\ stack = <<>>
  /\ here = FALSE /\ open = TRUE /\ complete = FALSE
  /\ width = [l \in Labels |-> 0] /\ falls = <<>>
  /\ pir = [i \in DOMAIN code.body |-> Operation]
  /\ pc = 1 /\ env = <<>> /\ used = <<>>

-------------------------------------------------------------------------------
(* Blocks.                                                                   *)

\* A block without arguments gets one for every operand of the branch.
Widened(l, operands) ==
  IF width[l] = 0 THEN [width EXCEPT ![l] = Len(operands)] ELSE width

\* switchToOffsetBlock: an open block branches to the new one with the stack;
\* the stack is replaced by the arguments of the new block.
Switch ==
  /\ phase = "translate" /\ next \in Labels /\ ~here
  /\ IF open
     THEN /\ width' = Widened(next, stack)
          /\ falls' = [l \in DOMAIN falls \cup {next} |-> IF l = next THEN stack ELSE falls[l]]
     ELSE UNCHANGED <<width, falls>>
  /\ stack' = [k \in 1..width'[next] |-> <<next, k>>]
  /\ here' = TRUE /\ open' = TRUE /\ complete' = FALSE
  /\ UNCHANGED <<code, phase, next, pir, pc, env, used>>

-------------------------------------------------------------------------------
(* buildMLIRInstruction: one handler for each group of instructions.         *)

I        == code.body[next]
Result   == <<next, 0>>
Top(n)   == SubSeq(stack, Len(stack) - n + 1, Len(stack))
Below(n) == SubSeq(stack, 1, Len(stack) - n)
At(k)    == stack[Len(stack) - k + 1]

\* How many values of the stack the handler pops or looks at.
Wants ==
  CASE I.op \in {"OPERATE", "STORE", "COPY", "SWAP"} -> I.n
    [] I.op = "CALL" -> I.n + 2
    [] I.op = "ADD" -> I.n + 1
    [] I.op = "MAP_ADD" -> I.n + 2
    [] I.op \in {"POP_TOP", "LOAD_ATTR", "STORE_LOAD", "MAKE_FUNCTION", "POP_JUMP_IF",
                "FOR_ITER"} -> 1
    [] OTHER -> 0

Due    == phase = "translate" /\ next <= Size /\ (next \in Labels => here)
Is(op) == Due /\ ~complete /\ I.op = op /\ Wants <= Len(stack)

\* An operation is emitted, and s is the stack after it.
Emit(kind, uses, result, out, s) ==
  /\ pir' = [pir EXCEPT ![next] = [kind |-> kind, before |-> stack, uses |-> uses,
                                   result |-> result, out |-> out]]
  /\ stack' = s /\ next' = next + 1 /\ here' = FALSE
  /\ UNCHANGED <<code, phase, falls, pc, env, used>>

\* One in the middle of a block.
Op(uses, result, s) ==
  Emit("call", uses, result, <<>>, s) /\ UNCHANGED <<open, complete, width>>

EmitNop  == Is("NOP") /\ Op(<<>>, {}, stack)
EmitLoad == Is("LOAD") /\ Op(<<>>, Data, Append(stack, Result))

\* LOAD_CONST None: a module pushes nothing.
EmitLoadNone ==
  /\ Is("LOAD_NONE")
  /\ IF code.fn THEN Op(<<>>, {None}, Append(stack, Result)) ELSE Op(<<>>, {}, stack)

EmitPushNull == Is("PUSH_NULL") /\ Op(<<>>, {}, Append(stack, NullRef))

\* LOAD_GLOBAL and LOAD_ATTR push the NULL of a call, asked for or not.
EmitLoadGlobal == Is("LOAD_GLOBAL") /\ Op(<<>>, Data, stack \o <<Result, NullRef>>)
EmitLoadAttr   == Is("LOAD_ATTR") /\ Op(Top(1), Data, Below(1) \o <<Result, NullRef>>)

EmitOperate == Is("OPERATE") /\ Op(Top(I.n), Data, Append(Below(I.n), Result))

EmitCall ==
  Is("CALL") /\ Op(<<At(I.n + 2)>> \o Top(I.n), Data, Append(Below(I.n + 2), Result))

EmitMakeFunction == Is("MAKE_FUNCTION") /\ Op(<<>>, Data, Append(Below(1), Result))

EmitStore  == Is("STORE") /\ Op(Top(I.n), {}, Below(I.n))
EmitAdd(k) == /\ Is(<<"ADD", "MAP_ADD">>[k])
              /\ Op(<<At(I.n + k)>> \o Top(k), {}, Below(k))

EmitPopTop == Is("POP_TOP") /\ Op(<<>>, {}, Below(1))
EmitCopy   == Is("COPY") /\ Op(<<>>, {}, Append(stack, At(I.n)))
EmitSwap   ==
  /\ Is("SWAP")
  /\ Op(<<>>, {}, [stack EXCEPT ![Len(stack)] = At(I.n), ![Len(stack) - I.n + 1] = At(1)])

\* The stored value is pushed again, whatever variable is to be loaded.
EmitStoreLoad == Is("STORE_LOAD") /\ Op(Top(1), {}, stack)

\* The branch of JUMP_FORWARD has no operands.
EmitJumpForward ==
  /\ Is("JUMP_FORWARD")
  /\ Emit("jump", <<>>, {}, <<>>, stack)
  /\ open' = FALSE /\ UNCHANGED <<complete, width>>

EmitJumpBackward ==
  /\ Is("JUMP_BACKWARD")
  /\ Emit("jump", <<>>, {}, stack, stack)
  /\ width' = Widened(I.to, stack)
  /\ open' = FALSE /\ UNCHANGED complete

\* popJumpIfCodegen: the code goes on in a new block without arguments.
EmitPopJumpIf ==
  /\ Is("POP_JUMP_IF")
  /\ Emit("branch", Top(1), {}, Below(1), Below(1))
  /\ width' = Widened(I.to, Below(1))
  /\ UNCHANGED <<open, complete>>

\* Mutant: the iterator is passed to the exit block.
EmitForIterKeepsIterator ==
  /\ Is("FOR_ITER")
  /\ Emit("iter", Top(1), Data, stack, Append(stack, Result))
  /\ width' = Widened(I.to, stack)
  /\ UNCHANGED <<open, complete>>

\* The code goes on in the body block, whose argument is the next element.
EmitForIter ==
  /\ Is("FOR_ITER")
  /\ Emit("iter", Top(1), Data, Below(1), Append(stack, Result))
  /\ width' = Widened(I.to, Below(1))
  /\ UNCHANGED <<open, complete>>

\* Mutant: blockComplete is not set.
EmitReturnContinues ==
  /\ Is("RETURN_VALUE")
  /\ LET n == IF stack = <<>> THEN 0 ELSE 1 IN Emit("return", Top(n), {}, <<>>, Below(n))
  /\ open' = FALSE /\ UNCHANGED <<complete, width>>

EmitReturn ==
  /\ Is("RETURN_VALUE")
  /\ LET n == IF stack = <<>> THEN 0 ELSE 1 IN Emit("return", Top(n), {}, <<>>, Below(n))
  /\ open' = FALSE /\ complete' = TRUE /\ UNCHANGED width

\* Mutant: the loop over the instructions has no end.
SkipPastEnd ==
  /\ phase = "translate" /\ complete /\ (next \in Labels => here)
  /\ next' = next + 1 /\ here' = FALSE
  /\ UNCHANGED <<code, phase, stack, open, complete, width, falls, pir, pc, env, used>>

\* After RETURN_VALUE nothing is emitted until the next block.
Skip ==
  /\ Due /\ complete
  /\ next' = next + 1 /\ here' = FALSE
  /\ UNCHANGED <<code, phase, stack, open, complete, width, falls, pir, pc, env, used>>

\* A handler pops from an empty vector, or indexes below its bottom.
Underflow ==
  /\ Due /\ ~complete /\ Wants > Len(stack)
  /\ phase' = "undefined"
  /\ UNCHANGED <<code, next, stack, here, open, complete, width, falls, pir, pc, env, used>>

-------------------------------------------------------------------------------
\* mlir::verify in generatePyIR: a branch has an operand for every argument
\* of the block it goes to, and every block ends in a terminator.
Verified ==
  /\ ~open
  /\ \A i \in DOMAIN pir :
       pir[i].kind \in {"jump", "branch"} => Len(pir[i].out) = width[code.body[i].to]
  /\ \A l \in DOMAIN falls : Len(falls[l]) = width[l]

Verify ==
  /\ phase = "translate" /\ next > Size
  /\ phase' = IF Verified THEN "run" ELSE "rejected"
  /\ UNCHANGED <<code, next, stack, here, open, complete, width, falls, pir, pc, env, used>>

-------------------------------------------------------------------------------
(* The compiled program.                                                     *)

P         == pir[pc]
Val(e, s) == IF s = NullRef THEN Null ELSE e[s]
Vals(e, q) == [k \in DOMAIN q |-> Val(e, q[k])]
With(v)   == [s \in DOMAIN env \cup {<<pc, 0>>} |-> IF s = <<pc, 0>> THEN v ELSE env[s]]

\* A branch to the block at l with the given operands; the SSA values that
\* are no longer on the stack are not kept.
Enter(l, operands) ==
  /\ pc' = l /\ env' = [s \in {l} \X (1..width[l]) |-> operands[s[2]]]

\* The next instruction is in the same block, or the block branches to it.
Continue(e) ==
  IF pc + 1 \in Labels
  THEN Enter(pc + 1, Vals(e, falls[pc + 1]))
  ELSE pc' = pc + 1 /\ env' = Restrict(e, DOMAIN e \cap Range(pir[pc + 1].before))

Running(kind) == phase = "run" /\ pc # 0 /\ P.kind = kind /\ used' = Vals(env, P.uses)
Compiled == UNCHANGED <<code, phase, next, stack, here, open, complete, width, falls, pir>>

RunCall ==
  /\ Running("call") /\ Compiled
  /\ \E e \in IF P.result = {} THEN {env} ELSE {With(v) : v \in P.result} : Continue(e)

RunJump == Running("jump") /\ Compiled /\ Enter(code.body[pc].to, Vals(env, P.out))

RunBranch ==
  /\ Running("branch") /\ Compiled
  /\ Enter(code.body[pc].to, Vals(env, P.out)) \/ Continue(env)

RunForIter ==
  /\ Running("iter") /\ Compiled
  /\ Enter(code.body[pc].to, Vals(env, P.out)) \/ \E v \in P.result : Continue(With(v))

RunReturn == Running("return") /\ Compiled /\ pc' = 0 /\ env' = <<>>

Translate ==
  \/ Switch \/ Skip \/ Underflow \/ Verify
  \/ EmitNop \/ EmitLoad \/ EmitLoadNone \/ EmitPushNull
  \/ EmitLoadGlobal \/ EmitLoadAttr \/ EmitOperate \/ EmitCall \/ EmitMakeFunction \/ EmitStore \/ \E k \in {1, 2} : EmitAdd(k)
  \/ EmitPopTop \/ EmitCopy \/ EmitSwap \/ EmitStoreLoad
  \/ EmitJumpForward \/ EmitJumpBackward \/ EmitPopJumpIf \/ EmitForIter \/ EmitReturn

Next == Translate \/ RunCall \/ RunJump \/ RunBranch \/ RunForIter \/ RunReturn

Spec == Init /\ [][Next]_vars

-------------------------------------------------------------------------------
\* The types of the variables; an SSA value on the stack was made before.
TypeOK ==
  /\ code \in Program /\ phase \in {"translate", "undefined", "rejected", "run"}
  /\ next \in 1..Size + 1 /\ pc \in 0..Size
  /\ here \in BOOLEAN /\ open \in BOOLEAN /\ complete \in BOOLEAN
  /\ \A k \in DOMAIN stack : stack[k] = NullRef \/ stack[k][1] \in 1..next
  /\ width \in [Labels -> Nat] /\ DOMAIN falls \subseteq Labels
  /\ DOMAIN pir = DOMAIN code.body

(***************************************************************************)
(* Accepted: the only code the translation does not carry through is a     *)
(* module that uses the constant None for anything but its returns, and    *)
(* code with a JUMP_FORWARD over which values stay on the stack: stack     *)
(* depths agree on every other way into a block, loops and short circuits  *)
(* included.  A module from which a None is missing is not accepted: what  *)
(* takes a value in its place makes a later handler underflow or an edge   *)
(* carry too few operands, so that no program runs on the wrong ones.      *)
(***************************************************************************)
NoneAsValue ==
  ~code.fn /\ \E i \in 1..Size :
    code.body[i].op = "LOAD_NONE" /\ (i = Size \/ code.body[i + 1].op # "RETURN_VALUE")

Accepted ==
  IF NoneAsValue THEN phase # "run"
  ELSE /\ phase # "undefined"
       /\ phase = "rejected" =>
            \E i \in DOMAIN pir : code.body[i].op = "JUMP_FORWARD" /\ pir[i].before # <<>>

(***************************************************************************)
(* Implements: a compiled program takes the steps of the code object on    *)
(* CPython's evaluation stack, each on the same operands.  The stack of    *)
(* an instruction is what the SSA values on meta.stack are at run time,    *)
(* and the None that a module does not push.                               *)
(***************************************************************************)
SkippedNone == pc > 1 /\ code.body[pc - 1].op = "LOAD_NONE" /\ ~code.fn

Stk == IF phase # "run" \/ pc = 0 THEN <<>>
       ELSE Vals(env, P.before) \o (IF SkippedNone THEN <<None>> ELSE <<>>)

Python == INSTANCE EvalStack WITH stk <- Stk

Implements == Python!Spec

\* AlwaysVerifies: every translation ends in a module that "is well-formed"
\* (pyir_codegen.cpp:305), whatever jumps the code has.
AlwaysVerifies == phase # "rejected"
==============================================================================
