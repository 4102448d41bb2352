------------------------------ MODULE MCCodegen ------------------------------
(***************************************************************************)
(* Code objects for Codegen: what CPython 3.14 compiles small Python       *)
(* programs to (external).  A fragment is a sequence of instructions whose *)
(* jumps are relative, so that fragments can be concatenated.              *)
(***************************************************************************)
EXTENDS Codegen, Integers

In(op, n)       == <<[op |-> op, n |-> n, to |-> 0]>>
JumpBy(op, rel) == <<[op |-> op, n |-> 0, to |-> rel]>>

Absolute(f) == [i \in DOMAIN f |-> [f[i] EXCEPT !.to = IF f[i].op \in Jumps THEN i + @ ELSE 0]]
Module(f)   == [body |-> Absolute(f \o In("LOAD_NONE", 0) \o In("RETURN_VALUE", 0)), fn |-> FALSE]
Function(f) == [body |-> Absolute(f \o In("RETURN_VALUE", 0)), fn |-> TRUE]

\* Expressions.
a               == In("LOAD", 0)
Binary(e, f)    == e \o f \o In("OPERATE", 2)
Call(e)         == a \o In("PUSH_NULL", 0) \o e \o In("CALL", 1)
Global(e)       == In("LOAD_GLOBAL", 1) \o e \o In("CALL", 1)
Method(e)       == a \o In("LOAD_ATTR", 1) \o e \o In("CALL", 1)
Lambda          == In("LOAD", 0) \o In("MAKE_FUNCTION", 0)
\* e and f
Both(e, f)      == e \o In("COPY", 1) \o In("OPERATE", 1) \o JumpBy("POP_JUMP_IF", 3 + Len(f))
                     \o In("NOP", 0) \o In("POP_TOP", 0) \o f
\* e if c else f
Choice(c, e, f) == c \o JumpBy("POP_JUMP_IF", 3 + Len(e)) \o In("NOP", 0) \o e
                     \o JumpBy("JUMP_FORWARD", 1 + Len(f)) \o f
\* [e for i in s], or a dict comprehension
ListOf(s, load, add) ==
  s \o In("OPERATE", 1) \o In("LOAD", 0) \o In("SWAP", 2) \o In("OPERATE", 0) \o In("SWAP", 2)
    \o JumpBy("FOR_ITER", 3 + Len(load)) \o load \o add
    \o JumpBy("JUMP_BACKWARD", -(2 + Len(load)))
    \o In("NOP", 0) \o In("NOP", 0) \o In("SWAP", 2) \o In("STORE", 1)

\* Statements; Test is a condition, which leaves a bool.
Test            == a \o In("OPERATE", 1)
Assign(e)       == e \o In("STORE", 1)
Expr(e)         == e \o In("POP_TOP", 0)
SetItem(e)      == e \o a \o a \o In("STORE", 3)
Chained(e)      == e \o In("COPY", 1) \o In("STORE", 1) \o In("STORE", 1)   \* x = y = e
If(s)           == Test \o JumpBy("POP_JUMP_IF", 2 + Len(s)) \o In("NOP", 0) \o s
IfElse(s, t)    == Choice(Test, s, t)
While(s)        == Test \o JumpBy("POP_JUMP_IF", 3 + Len(s)) \o In("NOP", 0) \o s
                     \o JumpBy("JUMP_BACKWARD", -(Len(Test) + 2 + Len(s)))
For(e, s)       == e \o In("OPERATE", 1) \o JumpBy("FOR_ITER", 3 + Len(s)) \o In("STORE", 1) \o s
                     \o JumpBy("JUMP_BACKWARD", -(2 + Len(s))) \o In("NOP", 0) \o In("NOP", 0)
\* for x in e: if c: break; s
ForBreak(e, s)  ==
  For(e, Test \o JumpBy("POP_JUMP_IF", 4) \o In("NOP", 0) \o In("POP_TOP", 0)
           \o JumpBy("JUMP_FORWARD", 4 + Len(s)) \o s)
\* for x in e: if c: s else: t
ForIfElse(e, s, t) ==
  For(e, Test \o JumpBy("POP_JUMP_IF", 3 + Len(s)) \o In("NOP", 0) \o s
           \o JumpBy("JUMP_BACKWARD", -(Len(Test) + 4 + Len(s))) \o t)
\* if x < y < z: s
IfBetween(s)    ==
  a \o a \o In("SWAP", 2) \o In("COPY", 2) \o In("OPERATE", 2) \o JumpBy("POP_JUMP_IF", 6)
    \o In("NOP", 0) \o a \o In("OPERATE", 2) \o JumpBy("POP_JUMP_IF", 4 + Len(s))
    \o JumpBy("JUMP_FORWARD", 3) \o In("POP_TOP", 0) \o JumpBy("JUMP_FORWARD", 1 + Len(s)) \o s

\* if c: s, at the end of a module, or before t if s ends it: the return of each branch
Leave(s)        == Test \o JumpBy("POP_JUMP_IF", 4 + Len(s)) \o In("NOP", 0) \o s
                     \o In("LOAD_NONE", 0) \o In("RETURN_VALUE", 0)

\* The clean-up of a comprehension, which only an exception reaches.
CleanUp == In("SWAP", 2) \o In("POP_TOP", 0) \o In("RERAISE", 0)

Items  == {ListOf(a, In("STORE_LOAD", 1), In("ADD", 2)),
           ListOf(a, In("STORE_LOAD", 1) \o a, In("MAP_ADD", 2))}
Exprs  == {a, a \o a \o a \o In("OPERATE", 3), Both(a, a), Method(a), Global(a), Call(Both(a, a)), Lambda}
            \cup Items
Simple == {Assign(e) : e \in Exprs} \cup {Expr(Call(a)), SetItem(a), Chained(a)}
More   == Expr(Call(Both(a, a)))
Blocks == UNION {{If(s), While(s), For(a, s), For(a, s \o s), ForBreak(a, s), IfBetween(s),
                  IfElse(s, Assign(a)), ForIfElse(a, s, Assign(a))} : s \in Simple}

\* Modules, with one exit and with two, and functions.
Accept ==
  {Module(Leave(s)) : s \in Simple \cup Blocks} \cup {Module(Leave(s) \o More) : s \in Simple}
    \cup {Module(s \o More) : s \in Blocks} \cup {Module(For(a, s \o More)) : s \in Blocks}
    \cup {Module(For(a, For(a, s))) : s \in Blocks} \cup {Module(While(s \o More)) : s \in Blocks}
    \cup {Function(s \o More \o In("LOAD_NONE", 0)) : s \in Blocks}
    \cup {[Function(Binary(i, a)) EXCEPT !.body = @ \o CleanUp] : i \in Items}

\* None as a value of a module, alone and where it takes what an enclosing loop keeps
\* on the stack, and a conditional expression.
Nothing == In("LOAD_NONE", 0)
Nones   == {Nothing, Call(Nothing), Method(Nothing), Binary(a, Nothing), Both(a, Nothing), Both(Nothing, a),
            Choice(Test, Nothing, Nothing), Choice(Test, a, Nothing), ListOf(a, In("STORE", 1) \o Nothing, In("ADD", 2)),
            ListOf(a, In("STORE_LOAD", 1) \o Nothing, In("MAP_ADD", 2)),
            ListOf(Nothing, In("STORE_LOAD", 1), In("ADD", 2))}
Missing == {Assign(e) : e \in Nones} \cup {Expr(e) : e \in Nones} \cup {SetItem(Nothing), Chained(Nothing), For(Nothing, <<>>)}
Refuse  == {Module(s \o t) : s \in Missing, t \in {<<>>, More}} \cup {Module(Leave(s)) : s \in Missing}
             \cup {Module(For(a, s)) : s \in Missing} \cup {Module(For(a, For(a, s))) : s \in Missing}
             \cup {Module(For(a, If(s))) : s \in Missing} \cup {Module(For(a, IfElse(s, s))) : s \in Missing}
             \cup {Module(For(a, While(s))) : s \in Missing} \cup {Module(ForBreak(a, s)) : s \in Missing}
             \cup {Module(Assign(Choice(Test, a, a)) \o More)}

\* print(x if c else y), and more
Ternary == {Module(Expr(Call(Choice(Test, a, a))) \o More)}

All == Accept \cup Refuse

\* The depth of the evaluation stack before each instruction, from the first
\* instruction control comes from.
Depths(p) ==
  LET d[i \in DOMAIN p.body] ==
        IF i = 1 \/ ~Live(p, i) THEN 0
        ELSE IF FallsIn(p, i) THEN d[i - 1] + Growth(p.body[i - 1])
        ELSE LET from == {j \in 1..i-1 : Live(p, j) /\ OpAt(p, j) \in Jumps /\ p.body[j].to = i}
             IN  IF from = {} THEN 0
                 ELSE LET j == CHOOSE j \in from : TRUE IN d[j] + JumpGrowth(p.body[j])
  IN  d

\* The programs are what the proofs take code objects to be, but for x < y < z in
\* a loop: its JUMP_FORWARD over the iterator is the only way to its target.
ASSUME WellFormedPrograms ==
  /\ \A p \in Accept \cup Ternary : Entered(p, Depths(p)) => WellFormed(p, Depths(p))
  /\ \A s \in Blocks : Entered(Module(s \o More), Depths(Module(s \o More)))
  /\ \A s \in Simple : LET p == Module(Leave(s)) IN WellFormed(p, Depths(p))
==============================================================================
