---------------------------- MODULE Codegen_proofs ----------------------------
(***************************************************************************)
(* What holds of the translation of every well-formed code object, and of  *)
(* the program that comes out of it.                                       *)
(***************************************************************************)
EXTENDS Codegen, TLAPS

(***************************************************************************)
(* The translation of an instruction, as a function of the instruction and *)
(* the SSA values on the stack before it.                                  *)
(***************************************************************************)
Res(i)      == <<i, 0>>
Args(l, n)  == [k \in 1..n |-> <<l, k>>]
Tops(s, n)  == SubSeq(s, Len(s) - n + 1, Len(s))
Rest(s, n)  == SubSeq(s, 1, Len(s) - n)
Deeper(s, n) == s[Len(s) - n + 1]
Swapped(s, n) == [s EXCEPT ![Len(s)] = Deeper(s, n), ![Len(s) - n + 1] = Deeper(s, 1)]

\* An instruction's operation, and the stack after it.
Becomes(kind, uses, result, out, after) ==
  [kind |-> kind, uses |-> uses, result |-> result, out |-> out, after |-> after]
Calls(uses, result, after) == Becomes("call", uses, result, <<>>, after)

Handled(p, i, s) ==
  LET op == OpAt(p, i)
      n  == p.body[i].n
  IN
  CASE op = "LOAD"         -> Calls(<<>>, Data, Append(s, Res(i)))
    [] op = "LOAD_NONE"    -> IF p.fn THEN Calls(<<>>, {None}, Append(s, Res(i))) ELSE Calls(<<>>, {}, s)
    [] op = "PUSH_NULL"    -> Calls(<<>>, {}, Append(s, NullRef))
    [] op = "LOAD_GLOBAL"  -> Calls(<<>>, Data, s \o <<Res(i), NullRef>>)
    [] op = "LOAD_ATTR"    -> Calls(Tops(s, 1), Data, Rest(s, 1) \o <<Res(i), NullRef>>)
    [] op = "OPERATE"      -> Calls(Tops(s, n), Data, Append(Rest(s, n), Res(i)))
    [] op = "CALL"         -> Calls(<<Deeper(s, n + 2)>> \o Tops(s, n), Data, Append(Rest(s, n + 2), Res(i)))
    [] op = "MAKE_FUNCTION" -> Calls(<<>>, Data, Append(Rest(s, 1), Res(i)))
    [] op = "STORE"        -> Calls(Tops(s, n), {}, Rest(s, n))
    [] op = "ADD"          -> Calls(<<Deeper(s, n + 1)>> \o Tops(s, 1), {}, Rest(s, 1))
    [] op = "MAP_ADD"      -> Calls(<<Deeper(s, n + 2)>> \o Tops(s, 2), {}, Rest(s, 2))
    [] op = "POP_TOP"      -> Calls(<<>>, {}, Rest(s, 1))
    [] op = "COPY"         -> Calls(<<>>, {}, Append(s, Deeper(s, n)))
    [] op = "SWAP"         -> Calls(<<>>, {}, Swapped(s, n))
    [] op = "STORE_LOAD"   -> Calls(Tops(s, 1), {}, s)
    [] op = "JUMP_FORWARD" -> Becomes("jump", <<>>, {}, <<>>, s)
    [] op = "JUMP_BACKWARD" -> Becomes("jump", <<>>, {}, s, s)
    [] op = "POP_JUMP_IF"  -> Becomes("branch", Tops(s, 1), {}, Rest(s, 1), Rest(s, 1))
    [] op = "FOR_ITER"     -> Becomes("iter", Tops(s, 1), Data, Rest(s, 1), Append(s, Res(i)))
    [] op = "RETURN_VALUE" ->
         LET m == IF s = <<>> THEN 0 ELSE 1 IN Becomes("return", Tops(s, m), {}, <<>>, Rest(s, m))
    [] OTHER -> Calls(<<>>, {}, s)   \* NOP

\* The instructions that have a result.
Makes(p, i) ==
  \/ OpAt(p, i) \in {"LOAD", "LOAD_GLOBAL", "LOAD_ATTR", "OPERATE", "CALL", "MAKE_FUNCTION", "FOR_ITER"}
  \/ OpAt(p, i) = "LOAD_NONE" /\ p.fn

-------------------------------------------------------------------------------
(***************************************************************************)
(* What holds while a well-formed code object is translated.  d is the     *)
(* depth of CPython's stack at every instruction.                          *)
(***************************************************************************)

\* The None a module does not push is missing.
NotPushed(p, i) == ~p.fn /\ i > 1 /\ OpAt(p, i - 1) = "LOAD_NONE"
Depth(p, d, i)  == IF NotPushed(p, i) THEN d[i] - 1 ELSE d[i]

\* The SSA values an instruction may find: results of those above it, arguments
\* of blocks, NullRef.
Ref(i) == {NullRef} \cup {r \in (1..i) \X Nat : r[2] = 0 => r[1] < i}

\* The last instruction whose block, if it starts one, has been switched to.
Reached == IF here THEN next ELSE next - 1

\* The stack that control brings from above, and the stack at i.
Incoming(i) == IF i = 1 THEN <<>> ELSE Handled(code, i - 1, pir[i - 1].before).after
Expected(d, i) == IF i \in Labels THEN Args(i, d[i]) ELSE Incoming(i)

Types ==
  /\ next \in 1..Size + 1 /\ stack \in Seq(Ref(next))
  /\ here \in BOOLEAN /\ open \in BOOLEAN /\ complete \in BOOLEAN
  /\ width \in [Labels -> Nat] /\ DOMAIN falls \subseteq Labels /\ DOMAIN pir = DOMAIN code.body
  /\ here => next \in Labels

\* A block is open exactly where control may come from above, and what is not
\* translated follows a return.
Opens ==
  IF here THEN open /\ ~complete
  ELSE /\ open <=> FallsIn(code, next)
       /\ next \notin Labels /\ next <= Size => (complete <=> ~open)

Stacks(d) ==
  here \/ FallsIn(code, next) => stack = IF here THEN Args(next, d[next]) ELSE Incoming(next)

\* The operation of a translated instruction.
Fits(d, i) ==
  LET b == pir[i].before
      H == Handled(code, i, b)
  IN  /\ b = Expected(d, i) /\ b \in Seq(Ref(i)) /\ Len(b) = Depth(code, d, i)
      /\ pir[i].kind = H.kind /\ pir[i].uses = H.uses /\ pir[i].result = H.result /\ pir[i].out = H.out
Translated(d) ==
  \A i \in 1..Size : IF i < next /\ Live(code, i) THEN Fits(d, i) ELSE pir[i].kind = "call"

\* The arguments of a block are as many as the stack is deep, once it is known.
Branches(l) == \E j \in 1..next-1 : Live(code, j) /\ OpAt(code, j) \in Conditional /\ code.body[j].to = l
Widths(d) ==
  \A l \in Labels :
    /\ width[l] \in {0, d[l]}
    /\ l <= Reached \/ Branches(l) => width[l] = d[l]

Falls(d) ==
  \A l \in Labels :
    /\ l \in DOMAIN falls <=> l <= Reached /\ FallsIn(code, l)
    /\ l \in DOMAIN falls => falls[l] = Incoming(l) /\ Len(falls[l]) = d[l]

\* The program starts when the translation has been verified, and the values
\* that an instruction finds on the stack are there at run time.
Phases ==
  /\ phase \in {"translate", "rejected", "run"}
  /\ phase # "run" => pc = 1 /\ env = <<>> /\ used = <<>>
  /\ phase # "translate" => next = Size + 1
  /\ phase = "rejected" => ~Verified
  /\ phase = "run" => Verified
Value     == Data \cup {None, Null}
Ready(e)  == {NullRef} \cup DOMAIN e
Values(e) == \A r \in DOMAIN e : e[r] \in Value
Defined ==
  phase = "run" /\ pc # 0 =>
    pc \in 1..Size /\ Live(code, pc) /\ P.before \in Seq(Ready(env)) /\ Values(env)

TInv(d) ==
  /\ Types /\ Opens /\ Stacks(d) /\ Translated(d) /\ Widths(d) /\ Falls(d) /\ Phases /\ Defined

-------------------------------------------------------------------------------
(* Code objects.                                                           *)

\* Control falls into an instruction below one that is live and no terminator.
LEMMA FallsInNext ==
  ASSUME NEW i \in Nat \ {0}
  PROVE  FallsIn(code, i + 1) <=> Live(code, i) /\ OpAt(code, i) \notin Terminators
  <1>1. ASSUME FallsIn(code, i + 1)
        PROVE  Live(code, i) /\ OpAt(code, i) \notin Terminators
    <2>1. OpAt(code, i) \notin Terminators
      BY <1>1 DEF FallsIn
    <2>2. ASSUME i \notin Targets(code), NEW j \in 1..i-1, OpAt(code, j) \in Terminators
          PROVE  \E l \in j+1..i-1 : l \in Targets(code)
      <3>1. PICK l \in j+1..(i+1)-1 : l \in Targets(code)
        BY <1>1, <2>2 DEF FallsIn
      <3> QED BY <2>2, <3>1
    <2> QED BY <2>1, <2>2 DEF Live, FallsIn
  <1>2. ASSUME Live(code, i), OpAt(code, i) \notin Terminators,
               NEW j \in 1..(i+1)-1, OpAt(code, j) \in Terminators
        PROVE  \E l \in j+1..(i+1)-1 : l \in Targets(code)
    <2>1. j \in 1..i-1
      BY <1>2
    <2>2. CASE i \in Targets(code)
      BY <2>1, <2>2
    <2>3. CASE FallsIn(code, i)
      <3>1. PICK l \in j+1..i-1 : l \in Targets(code)
        BY <1>2, <2>1, <2>3 DEF FallsIn
      <3> QED BY <3>1
    <2> QED BY <1>2, <2>2, <2>3 DEF Live
  <1> QED BY <1>1, <1>2 DEF FallsIn

\* Control comes to the first instruction.
LEMMA FallsInFirst == FallsIn(code, 1)
  BY DEF FallsIn

Formed(d) == code \in Code /\ d \in [DOMAIN code.body -> Nat] /\ WellFormed(code, d)

\* What the proofs use of a code object: its instructions, and that jumps stay in it.
LEMMA CodeFacts ==
  ASSUME NEW d, Formed(d)
  PROVE  /\ Size \in Nat \ {0} /\ DOMAIN code.body = 1..Size
         /\ \A i \in 1..Size : code.body[i] \in Instruction /\ OpAt(code, i) \in STRING
              /\ code.body[i].n \in Nat /\ code.body[i].to \in Nat /\ d[i] \in Nat
         /\ Labels \subseteq 1..Size /\ Labels = Targets(code)
         /\ \A i \in 1..Size : OpAt(code, i) \in Jumps => code.body[i].to \in Labels
  <1>1. code.body \in Seq(Instruction)
    BY DEF Formed, Code
  <1>2. /\ Size \in Nat /\ DOMAIN code.body = 1..Size
        /\ \A i \in 1..Size : code.body[i] \in Instruction
    BY <1>1 DEF Size
  <1>3. Size # 0
    BY <1>1, <1>2 DEF Formed, WellFormed, Size
  <1>4. \A i \in 1..Size : OpAt(code, i) \in STRING /\ code.body[i].n \in Nat /\ code.body[i].to \in Nat /\ d[i] \in Nat
    BY <1>2 DEF Instruction, OpAt, Formed
  <1>5. \A i \in 1..Size : OpAt(code, i) \in Jumps => code.body[i].to \in 1..Size
    BY <1>2 DEF Formed, WellFormed, LaidOut
  <1>6. Labels \subseteq 1..Size /\ \A i \in 1..Size : OpAt(code, i) \in Jumps => code.body[i].to \in Labels
    BY <1>2, <1>5 DEF Labels, Targets
  <1> QED BY <1>2, <1>3, <1>4, <1>6 DEF Labels

\* No control falls off the end.
LEMMA EndIsClosed ==
  ASSUME NEW d, Formed(d)
  PROVE  ~FallsIn(code, Size + 1)
  <1>1. Size \in Nat \ {0} /\ Size \in DOMAIN code.body /\ Size = Len(code.body)
    BY CodeFacts DEF Size
  <1>2. Live(code, Size) => OpAt(code, Size) \in Terminators
    BY <1>1 DEF Formed, WellFormed, Deep, OpAt
  <1> QED BY <1>1, <1>2, FallsInNext

\* An instruction without the None it expects is the return of a module.
LEMMA NotPushedReturns ==
  ASSUME NEW d, Formed(d), NEW i \in 1..Size, NotPushed(code, i)
  PROVE  OpAt(code, i) = "RETURN_VALUE" /\ i \notin Labels
  <1>1. i - 1 \in DOMAIN code.body /\ (i - 1) + 1 = i
    BY CodeFacts DEF NotPushed
  <1> QED BY <1>1 DEF NotPushed, Formed, WellFormed, NoneReturned, Labels

\* Modules of CPython have the None of each of their exits, and no other.
LEMMA NoneIsReturned ==
  ASSUME NEW d, Formed(d)
  PROVE  ~NoneAsValue
  <1>1. DOMAIN code.body = 1..Size
    BY CodeFacts
  <1>2. ASSUME ~code.fn, NEW i \in 1..Size, OpAt(code, i) = "LOAD_NONE"
        PROVE  i < Size /\ OpAt(code, i + 1) = "RETURN_VALUE"
    BY <1>1, <1>2 DEF Formed, WellFormed, NoneReturned, Size
  <1> QED BY <1>2 DEF NoneAsValue, OpAt

-------------------------------------------------------------------------------
(* Stacks.                                                                 *)

\* The two parts of a stack.
LEMMA TopsFacts ==
  ASSUME NEW T, NEW s \in Seq(T), NEW n \in Nat, n <= Len(s)
  PROVE  /\ Tops(s, n) \in Seq(T) /\ Len(Tops(s, n)) = n
         /\ Rest(s, n) \in Seq(T) /\ Len(Rest(s, n)) = Len(s) - n
  BY DEF Tops, Rest

\* A value further down, and the exchange of it with the top.
LEMMA DeeperFacts ==
  ASSUME NEW T, NEW s \in Seq(T), NEW n \in 1..Len(s)
  PROVE  Deeper(s, n) \in T /\ Swapped(s, n) \in Seq(T) /\ Len(Swapped(s, n)) = Len(s)
  <1>1. Len(s) - n + 1 \in 1..Len(s) /\ Len(s) \in 1..Len(s)
    OBVIOUS
  <1>2. \A k \in 1..Len(s) : s[k] \in T
    OBVIOUS
  <1>3. Deeper(s, n) \in T /\ Deeper(s, 1) \in T
    BY <1>1, <1>2 DEF Deeper
  <1> QED BY <1>1, <1>3 DEF Swapped

\* The SSA values an instruction may find, and those the next one may find.
LEMMA RefFacts ==
  ASSUME NEW i \in Nat \ {0}
  PROVE  /\ NullRef \in Ref(i) /\ NullRef \in Ref(i + 1) /\ Res(i) \in Ref(i + 1) /\ Res(i) \notin Ref(i)
         /\ Res(i) # NullRef
         /\ \A s \in Seq(Ref(i)) : s \in Seq(Ref(i + 1))
         /\ \A n \in Nat : Args(i, n) \in Seq(Ref(i)) /\ Len(Args(i, n)) = n
  <1>1. /\ NullRef \in Ref(i) /\ NullRef \in Ref(i + 1) /\ Res(i) \in Ref(i + 1) /\ Res(i) \notin Ref(i)
        /\ Res(i) # NullRef
    BY DEF NullRef, Res, Ref
  <1>2. Ref(i) \subseteq Ref(i + 1)
    BY DEF Ref
  <1>3. \A s \in Seq(Ref(i)) : s \in Seq(Ref(i + 1))
    BY <1>2
  <1>4. ASSUME NEW n \in Nat PROVE Args(i, n) \in Seq(Ref(i)) /\ Len(Args(i, n)) = n
    <2>1. \A k \in 1..n : <<i, k>> \in Ref(i)
      BY DEF Ref
    <2> QED BY <2>1 DEF Args
  <1> QED BY <1>1, <1>3, <1>4

\* What an instruction leaves is as deep as CPython's stack is below it and at the
\* target of a jump.
LEMMA HandledIn ==
  ASSUME NEW d, Formed(d), NEW i \in 1..Size, Live(code, i),
         NEW T, NEW T1, NEW s \in Seq(T), Len(s) = Depth(code, d, i),
         T \subseteq T1, NullRef \in T, Makes(code, i) => Res(i) \in T1
  PROVE  LET H == Handled(code, i, s)
             op == OpAt(code, i)
         IN  /\ H.after \in Seq(T1) /\ H.uses \in Seq(T) /\ H.out \in Seq(T)
             /\ op \notin Terminators => i < Size /\ Len(H.after) = Depth(code, d, i + 1)
             /\ op \in Conditional \cup {"JUMP_BACKWARD"} => Len(H.out) = d[code.body[i].to]
             /\ op = "JUMP_FORWARD" => d[code.body[i].to] = d[i]
  <1> DEFINE H  == Handled(code, i, s)
             op == OpAt(code, i)
             n  == code.body[i].n
  <1>1. /\ i \in DOMAIN code.body /\ Size = Len(code.body) /\ Size \in Nat /\ i \in Nat \ {0} /\ n \in Nat
        /\ d[i] \in Nat
    BY CodeFacts DEF Size
  <1>2. Deep(code, d, i)
    BY <1>1 DEF Formed, WellFormed
  <1> DEFINE Ins == code.body[i]
             Good(h) ==
               /\ h.after \in Seq(T1) /\ h.uses \in Seq(T) /\ h.out \in Seq(T)
               /\ op \notin Terminators => i < Size /\ Len(h.after) = Depth(code, d, i + 1)
               /\ op \in Conditional \cup {"JUMP_BACKWARD"} => Len(h.out) = d[Ins.to]
               /\ op = "JUMP_FORWARD" => d[Ins.to] = d[i]
  <1>3. op = Ins.op /\ op \in Opcodes /\ Reach(Ins) <= d[i] /\ Operand(Ins)
    BY <1>2 DEF Deep, OpAt
  <1>4. op # "RETURN_VALUE" => Len(s) = d[i]
    BY NotPushedReturns DEF Depth
  <1>5. ASSUME op \notin Terminators
        PROVE  i < Size /\ Depth(code, d, i + 1) = Len(s) + (IF ~code.fn /\ op = "LOAD_NONE" THEN 0 ELSE Growth(Ins))
    <2>1. i < Size /\ d[i + 1] = d[i] + Growth(Ins)
      BY <1>1, <1>2, <1>5 DEF Deep, OpAt
    <2>2. NotPushed(code, i + 1) <=> ~code.fn /\ op = "LOAD_NONE"
      BY <1>1 DEF NotPushed
    <2>3. Len(s) = d[i]
      BY <1>4, <1>5 DEF Terminators
    <2>4. CASE ~code.fn /\ op = "LOAD_NONE"
      <3>1. Growth(Ins) = 1
        BY <1>3, <2>4 DEF Growth
      <3> QED BY <1>1, <2>1, <2>2, <2>3, <2>4, <3>1 DEF Depth
    <2>5. CASE ~(~code.fn /\ op = "LOAD_NONE")
      BY <1>1, <2>1, <2>2, <2>3, <2>5 DEF Depth
    <2> QED BY <2>4, <2>5
  <1>6. op \in Jumps => d[Ins.to] = d[i] + JumpGrowth(Ins)
    BY <1>2 DEF Deep, OpAt
  <1>7. s \in Seq(T1) /\ NullRef \in T1 /\ <<>> \in Seq(T) /\ <<>> \in Seq(T1) /\ Len(s) \in Nat
    OBVIOUS
  <1>8. ASSUME NEW m \in Nat, m <= Len(s)
        PROVE  /\ Tops(s, m) \in Seq(T) /\ Rest(s, m) \in Seq(T) /\ Rest(s, m) \in Seq(T1)
               /\ Len(Tops(s, m)) = m /\ Len(Rest(s, m)) = Len(s) - m
    <2>1. /\ Tops(s, m) \in Seq(T) /\ Rest(s, m) \in Seq(T)
          /\ Len(Tops(s, m)) = m /\ Len(Rest(s, m)) = Len(s) - m
      BY <1>8, TopsFacts
    <2>2. Rest(s, m) \in Seq(T1)
      BY <1>7, <1>8, TopsFacts
    <2> QED BY <2>1, <2>2
  <1>9. ASSUME NEW m \in 1..Len(s)
        PROVE  /\ Deeper(s, m) \in T /\ Deeper(s, m) \in T1
               /\ Swapped(s, m) \in Seq(T1) /\ Len(Swapped(s, m)) = Len(s)
    BY <1>7, DeeperFacts
  <1>10. ASSUME NEW uses \in Seq(T), NEW result, NEW after \in Seq(T1),
                op \notin Jumps, op \notin Terminators, H = Calls(uses, result, after),
                Len(after) = Len(s) + (IF ~code.fn /\ op = "LOAD_NONE" THEN 0 ELSE Growth(Ins))
         PROVE  Good(H)
    <2>1. H.after = after /\ H.uses = uses /\ H.out = <<>>
      BY <1>10 DEF Calls, Becomes
    <2>2. i < Size /\ Len(after) = Depth(code, d, i + 1)
      BY <1>5, <1>10
    <2>3. op \notin Conditional \cup {"JUMP_BACKWARD"} /\ op # "JUMP_FORWARD"
      BY <1>10 DEF Jumps, Conditional
    <2> QED BY <1>7, <2>1, <2>2, <2>3
  <1>11. ASSUME NEW q \in Seq(T1), NEW r \in T1
         PROVE  /\ Append(q, r) \in Seq(T1) /\ Len(Append(q, r)) = Len(q) + 1
                /\ q \o <<r, NullRef>> \in Seq(T1) /\ Len(q \o <<r, NullRef>>) = Len(q) + 2
    BY <1>7
  <1>12. ASSUME NEW q \in Seq(T), NEW r \in T
         PROVE  <<r>> \o q \in Seq(T)
    OBVIOUS
  <1>13. CASE op = "NOP"
    <2>1. H = Calls(<<>>, {}, s)
      BY <1>13 DEF Handled
    <2>2. op \notin Terminators /\ op \notin Jumps /\ Growth(Ins) = 0
      BY <1>3, <1>13 DEF Growth, Terminators, Jumps, Conditional
    <2>4. <<>> \in Seq(T) /\ s \in Seq(T1) /\ Len(s) = Len(s) + Growth(Ins)
      BY <1>1, <1>7, <2>2
    <2> QED BY <1>10, <1>13, <2>1, <2>2, <2>4
  <1>14. CASE op = "LOAD"
    <2>0. Res(i) \in T1
      BY <1>14 DEF Makes
    <2>1. H = Calls(<<>>, Data, Append(s, Res(i)))
      BY <1>14 DEF Handled
    <2>2. op \notin Terminators /\ op \notin Jumps /\ Growth(Ins) = 1
      BY <1>3, <1>14 DEF Growth, Terminators, Jumps, Conditional
    <2>4. <<>> \in Seq(T) /\ Append(s, Res(i)) \in Seq(T1) /\ Len(Append(s, Res(i))) = Len(s) + Growth(Ins)
      BY <1>1, <1>7, <1>11, <2>0, <2>2
    <2> QED BY <1>10, <1>14, <2>1, <2>2, <2>4
  <1>15. CASE op = "PUSH_NULL"
    <2>1. H = Calls(<<>>, {}, Append(s, NullRef))
      BY <1>15 DEF Handled
    <2>2. op \notin Terminators /\ op \notin Jumps /\ Growth(Ins) = 1
      BY <1>3, <1>15 DEF Growth, Terminators, Jumps, Conditional
    <2>4. <<>> \in Seq(T) /\ Append(s, NullRef) \in Seq(T1) /\ Len(Append(s, NullRef)) = Len(s) + Growth(Ins)
      BY <1>1, <1>7, <1>11, <2>2
    <2> QED BY <1>10, <1>15, <2>1, <2>2, <2>4
  <1>16. CASE op = "LOAD_GLOBAL"
    <2>0. Res(i) \in T1
      BY <1>16 DEF Makes
    <2>1. H = Calls(<<>>, Data, s \o <<Res(i), NullRef>>)
      BY <1>16 DEF Handled
    <2>2. op \notin Terminators /\ op \notin Jumps /\ Growth(Ins) = 2
      BY <1>3, <1>16 DEF Growth, Terminators, Jumps, Conditional
    <2>4. /\ <<>> \in Seq(T) /\ s \o <<Res(i), NullRef>> \in Seq(T1)
          /\ Len(s \o <<Res(i), NullRef>>) = Len(s) + Growth(Ins)
      BY <1>1, <1>7, <1>11, <2>0, <2>2
    <2> QED BY <1>10, <1>16, <2>1, <2>2, <2>4
  <1>17. CASE op = "LOAD_ATTR"
    <2>0. Res(i) \in T1
      BY <1>17 DEF Makes
    <2>1. H = Calls(Tops(s, 1), Data, Rest(s, 1) \o <<Res(i), NullRef>>)
      BY <1>17 DEF Handled
    <2>2. op \notin Terminators /\ op \notin Jumps /\ Growth(Ins) = 1
      BY <1>3, <1>17 DEF Growth, Terminators, Jumps, Conditional
    <2>3. 1 \in Nat /\ 1 <= Len(s)
      BY <1>1, <1>3, <1>4, <1>7, <1>17 DEF Reach, Operand, Conditional
    <2>4. /\ Tops(s, 1) \in Seq(T) /\ Rest(s, 1) \o <<Res(i), NullRef>> \in Seq(T1)
          /\ Len(Rest(s, 1) \o <<Res(i), NullRef>>) = Len(s) + Growth(Ins)
      BY <1>1, <1>7, <1>8, <1>11, <2>0, <2>2, <2>3
    <2> QED BY <1>10, <1>17, <2>1, <2>2, <2>4
  <1>18. CASE op = "OPERATE"
    <2>0. Res(i) \in T1
      BY <1>18 DEF Makes
    <2>1. H = Calls(Tops(s, n), Data, Append(Rest(s, n), Res(i)))
      BY <1>18 DEF Handled
    <2>2. op \notin Terminators /\ op \notin Jumps /\ Growth(Ins) = 1 - n
      BY <1>3, <1>18 DEF Growth, Terminators, Jumps, Conditional
    <2>3. n \in Nat /\ n <= Len(s)
      BY <1>1, <1>3, <1>4, <1>7, <1>18 DEF Reach, Operand, Conditional
    <2>4. /\ Tops(s, n) \in Seq(T) /\ Append(Rest(s, n), Res(i)) \in Seq(T1)
          /\ Len(Append(Rest(s, n), Res(i))) = Len(s) + Growth(Ins)
      <3>1. /\ Tops(s, n) \in Seq(T) /\ Rest(s, n) \in Seq(T1)
            /\ Len(Rest(s, n)) = Len(s) - n
        BY <1>8, <2>3
      <3>2. Append(Rest(s, n), Res(i)) \in Seq(T1) /\ Len(Append(Rest(s, n), Res(i))) = Len(Rest(s, n)) + 1
        BY <1>7, <1>11, <2>0, <3>1
      <3>3. Len(Rest(s, n)) + 1 = Len(s) + Growth(Ins)
        BY <1>7, <2>2, <2>3, <3>1
      <3> QED BY <3>1, <3>2, <3>3
    <2> QED BY <1>10, <1>18, <2>1, <2>2, <2>4
  <1>19. CASE op = "CALL"
    <2>0. Res(i) \in T1
      BY <1>19 DEF Makes
    <2>1. H = Calls(<<Deeper(s, n + 2)>> \o Tops(s, n), Data, Append(Rest(s, n + 2), Res(i)))
      BY <1>19 DEF Handled
    <2>2. op \notin Terminators /\ op \notin Jumps /\ Growth(Ins) = -(n + 1)
      BY <1>3, <1>19 DEF Growth, Terminators, Jumps, Conditional
    <2>3. n \in Nat /\ n <= Len(s) /\ n + 2 \in Nat /\ n + 2 <= Len(s) /\ n + 2 \in 1..Len(s)
      BY <1>1, <1>3, <1>4, <1>7, <1>19 DEF Reach, Operand, Conditional
    <2>4. /\ <<Deeper(s, n + 2)>> \o Tops(s, n) \in Seq(T)
          /\ Append(Rest(s, n + 2), Res(i)) \in Seq(T1)
          /\ Len(Append(Rest(s, n + 2), Res(i))) = Len(s) + Growth(Ins)
      <3>1. /\ Tops(s, n) \in Seq(T) /\ Rest(s, n + 2) \in Seq(T1)
            /\ Len(Rest(s, n + 2)) = Len(s) - (n + 2) /\ Deeper(s, n + 2) \in T
        BY <1>8, <1>9, <2>3
      <3>2. /\ Append(Rest(s, n + 2), Res(i)) \in Seq(T1)
            /\ Len(Append(Rest(s, n + 2), Res(i))) = Len(Rest(s, n + 2)) + 1
        BY <1>7, <1>11, <2>0, <3>1
      <3>3. Len(Rest(s, n + 2)) + 1 = Len(s) + Growth(Ins)
        <4>1. Len(s) \in Nat /\ n \in Nat /\ Growth(Ins) = -(n + 1)
          BY <1>7, <2>2, <2>3
        <4>2. Len(s) - (n + 2) + 1 = Len(s) + (-(n + 1))
          BY <4>1
        <4> QED BY <3>1, <4>1, <4>2
      <3>4. <<Deeper(s, n + 2)>> \o Tops(s, n) \in Seq(T)
        <4>1. Tops(s, n) \in Seq(T)
          BY <1>8, <2>3
        <4> QED BY <1>12, <3>1, <4>1
      <3> QED BY <3>2, <3>3, <3>4
    <2> QED BY <1>10, <1>19, <2>1, <2>2, <2>4
  <1>20. CASE op = "MAKE_FUNCTION"
    <2>0. Res(i) \in T1
      BY <1>20 DEF Makes
    <2>1. H = Calls(<<>>, Data, Append(Rest(s, 1), Res(i)))
      BY <1>20 DEF Handled
    <2>2. op \notin Terminators /\ op \notin Jumps /\ Growth(Ins) = 0
      BY <1>3, <1>20 DEF Growth, Terminators, Jumps, Conditional
    <2>3. 1 \in Nat /\ 1 <= Len(s)
      BY <1>1, <1>3, <1>4, <1>7, <1>20 DEF Reach, Operand, Conditional
    <2>4. /\ <<>> \in Seq(T) /\ Append(Rest(s, 1), Res(i)) \in Seq(T1)
          /\ Len(Append(Rest(s, 1), Res(i))) = Len(s) + Growth(Ins)
      BY <1>1, <1>7, <1>8, <1>11, <2>0, <2>2, <2>3
    <2> QED BY <1>10, <1>20, <2>1, <2>2, <2>4
  <1>21. CASE op = "STORE"
    <2>1. H = Calls(Tops(s, n), {}, Rest(s, n))
      BY <1>21 DEF Handled
    <2>2. op \notin Terminators /\ op \notin Jumps /\ Growth(Ins) = -n
      BY <1>3, <1>21 DEF Growth, Terminators, Jumps, Conditional
    <2>3. n \in Nat /\ n <= Len(s)
      BY <1>1, <1>3, <1>4, <1>7, <1>21 DEF Reach, Operand, Conditional
    <2>4. Tops(s, n) \in Seq(T) /\ Rest(s, n) \in Seq(T1) /\ Len(Rest(s, n)) = Len(s) + Growth(Ins)
      BY <1>1, <1>7, <1>8, <2>2, <2>3
    <2> QED BY <1>10, <1>21, <2>1, <2>2, <2>4
  <1>22. CASE op = "ADD"
    <2>1. H = Calls(<<Deeper(s, n + 1)>> \o Tops(s, 1), {}, Rest(s, 1))
      BY <1>22 DEF Handled
    <2>2. op \notin Terminators /\ op \notin Jumps /\ Growth(Ins) = -1
      BY <1>3, <1>22 DEF Growth, Terminators, Jumps, Conditional
    <2>3. 1 \in Nat /\ 1 <= Len(s) /\ n + 1 \in 1..Len(s)
      BY <1>1, <1>3, <1>4, <1>7, <1>22 DEF Reach, Operand, Conditional
    <2>4. /\ <<Deeper(s, n + 1)>> \o Tops(s, 1) \in Seq(T) /\ Rest(s, 1) \in Seq(T1)
          /\ Len(Rest(s, 1)) = Len(s) + Growth(Ins)
      BY <1>1, <1>7, <1>8, <1>9, <1>12, <2>2, <2>3
    <2> QED BY <1>10, <1>22, <2>1, <2>2, <2>4
  <1>23. CASE op = "MAP_ADD"
    <2>1. H = Calls(<<Deeper(s, n + 2)>> \o Tops(s, 2), {}, Rest(s, 2))
      BY <1>23 DEF Handled
    <2>2. op \notin Terminators /\ op \notin Jumps /\ Growth(Ins) = -2
      BY <1>3, <1>23 DEF Growth, Terminators, Jumps, Conditional
    <2>3. 2 \in Nat /\ 2 <= Len(s) /\ n + 2 \in 1..Len(s)
      BY <1>1, <1>3, <1>4, <1>7, <1>23 DEF Reach, Operand, Conditional
    <2>4. /\ <<Deeper(s, n + 2)>> \o Tops(s, 2) \in Seq(T) /\ Rest(s, 2) \in Seq(T1)
          /\ Len(Rest(s, 2)) = Len(s) + Growth(Ins)
      BY <1>1, <1>7, <1>8, <1>9, <1>12, <2>2, <2>3
    <2> QED BY <1>10, <1>23, <2>1, <2>2, <2>4
  <1>24. CASE op = "POP_TOP"
    <2>1. H = Calls(<<>>, {}, Rest(s, 1))
      BY <1>24 DEF Handled
    <2>2. op \notin Terminators /\ op \notin Jumps /\ Growth(Ins) = -1
      BY <1>3, <1>24 DEF Growth, Terminators, Jumps, Conditional
    <2>3. 1 \in Nat /\ 1 <= Len(s)
      BY <1>1, <1>3, <1>4, <1>7, <1>24 DEF Reach, Operand, Conditional
    <2>4. <<>> \in Seq(T) /\ Rest(s, 1) \in Seq(T1) /\ Len(Rest(s, 1)) = Len(s) + Growth(Ins)
      BY <1>1, <1>7, <1>8, <2>2, <2>3
    <2> QED BY <1>10, <1>24, <2>1, <2>2, <2>4
  <1>25. CASE op = "COPY"
    <2>1. H = Calls(<<>>, {}, Append(s, Deeper(s, n)))
      BY <1>25 DEF Handled
    <2>2. op \notin Terminators /\ op \notin Jumps /\ Growth(Ins) = 1
      BY <1>3, <1>25 DEF Growth, Terminators, Jumps, Conditional
    <2>3. n \in 1..Len(s)
      BY <1>1, <1>3, <1>4, <1>7, <1>25 DEF Reach, Operand, Conditional
    <2>4. /\ <<>> \in Seq(T) /\ Append(s, Deeper(s, n)) \in Seq(T1)
          /\ Len(Append(s, Deeper(s, n))) = Len(s) + Growth(Ins)
      BY <1>1, <1>7, <1>9, <1>11, <2>2, <2>3
    <2> QED BY <1>10, <1>25, <2>1, <2>2, <2>4
  <1>26. CASE op = "SWAP"
    <2>1. H = Calls(<<>>, {}, Swapped(s, n))
      BY <1>26 DEF Handled
    <2>2. op \notin Terminators /\ op \notin Jumps /\ Growth(Ins) = 0
      BY <1>3, <1>26 DEF Growth, Terminators, Jumps, Conditional
    <2>3. n \in 1..Len(s)
      BY <1>1, <1>3, <1>4, <1>7, <1>26 DEF Reach, Operand, Conditional
    <2>4. <<>> \in Seq(T) /\ Swapped(s, n) \in Seq(T1) /\ Len(Swapped(s, n)) = Len(s) + Growth(Ins)
      BY <1>1, <1>7, <1>9, <2>2, <2>3
    <2> QED BY <1>10, <1>26, <2>1, <2>2, <2>4
  <1>27. CASE op = "STORE_LOAD"
    <2>1. H = Calls(Tops(s, 1), {}, s)
      BY <1>27 DEF Handled
    <2>2. op \notin Terminators /\ op \notin Jumps /\ Growth(Ins) = 0
      BY <1>3, <1>27 DEF Growth, Terminators, Jumps, Conditional
    <2>3. 1 \in Nat /\ 1 <= Len(s)
      BY <1>1, <1>3, <1>4, <1>7, <1>27 DEF Reach, Operand, Conditional
    <2>4. Tops(s, 1) \in Seq(T) /\ s \in Seq(T1) /\ Len(s) = Len(s) + Growth(Ins)
      BY <1>1, <1>7, <1>8, <2>2, <2>3
    <2> QED BY <1>10, <1>27, <2>1, <2>2, <2>4
  <1>28. CASE op = "LOAD_NONE"
    <2>1. op \notin Terminators /\ op \notin Jumps /\ Growth(Ins) = 1
      BY <1>3, <1>28 DEF Growth, Terminators, Jumps, Conditional
    <2>2. CASE code.fn
      <3>1. H = Calls(<<>>, {None}, Append(s, Res(i)))
        BY <1>28, <2>2 DEF Handled
      <3>2. Res(i) \in T1
        BY <1>28, <2>2 DEF Makes
      <3> QED BY <1>7, <1>10, <1>11, <2>1, <2>2, <3>1, <3>2
    <2>3. CASE ~code.fn
      <3>1. H = Calls(<<>>, {}, s)
        BY <1>28, <2>3 DEF Handled
      <3>2. Len(s) = Len(s) + (IF ~code.fn /\ op = "LOAD_NONE" THEN 0 ELSE Growth(Ins))
        BY <1>7, <1>28, <2>3
      <3> QED BY <1>7, <1>10, <2>1, <3>1, <3>2
    <2> QED BY <2>2, <2>3
  <1>29. CASE op = "JUMP_FORWARD"
    <2>1. H = Becomes("jump", <<>>, {}, <<>>, s)
      BY <1>29 DEF Handled
    <2> QED BY <1>1, <1>3, <1>6, <1>7, <1>29, <2>1 DEF Becomes, JumpGrowth, Jumps, Conditional, Terminators
  <1>30. CASE op = "JUMP_BACKWARD"
    <2>1. H = Becomes("jump", <<>>, {}, s, s)
      BY <1>30 DEF Handled
    <2> QED BY <1>1, <1>3, <1>4, <1>6, <1>7, <1>30, <2>1 DEF Becomes, JumpGrowth, Jumps, Conditional,
               Terminators
  <1>31. CASE op = "POP_JUMP_IF"
    <2>1. H = Becomes("branch", Tops(s, 1), {}, Rest(s, 1), Rest(s, 1))
      BY <1>31 DEF Handled
    <2>2. 1 <= Len(s) /\ op \notin Terminators /\ op \in Jumps /\ Growth(Ins) = -1 /\ JumpGrowth(Ins) = -1
      BY <1>3, <1>4, <1>31 DEF Reach, Terminators, Conditional, Jumps, Growth, JumpGrowth
    <2>3. i < Size /\ Len(Rest(s, 1)) = Depth(code, d, i + 1) /\ Len(Rest(s, 1)) = d[Ins.to]
      <3>1. i < Size /\ Depth(code, d, i + 1) = Len(s) - 1
        BY <1>5, <1>7, <1>31, <2>2
      <3>2. Len(Rest(s, 1)) = Len(s) - 1
        BY <1>7, <1>8, <2>2
      <3>3. d[Ins.to] = d[i] - 1 /\ d[i] = Len(s)
        BY <1>1, <1>4, <1>6, <1>31, <2>2
      <3> QED BY <3>1, <3>2, <3>3
    <2> QED BY <1>7, <1>8, <1>31, <2>1, <2>2, <2>3 DEF Becomes
  <1>32. CASE op = "FOR_ITER"
    <2>0. Res(i) \in T1
      BY <1>32 DEF Makes
    <2>1. H = Becomes("iter", Tops(s, 1), Data, Rest(s, 1), Append(s, Res(i)))
      BY <1>32 DEF Handled
    <2>2. 1 <= Len(s) /\ op \notin Terminators /\ op \in Jumps /\ Growth(Ins) = 1 /\ JumpGrowth(Ins) = -1
      BY <1>3, <1>4, <1>32 DEF Reach, Terminators, Conditional, Jumps, Growth, JumpGrowth
    <2>3. i < Size /\ Len(Append(s, Res(i))) = Depth(code, d, i + 1) /\ Len(Rest(s, 1)) = d[Ins.to]
      <3>1. i < Size /\ Depth(code, d, i + 1) = Len(s) + 1
        BY <1>5, <1>32, <2>2
      <3>2. Len(Append(s, Res(i))) = Len(s) + 1 /\ Len(Rest(s, 1)) = Len(s) - 1
        BY <1>7, <1>8, <1>11, <2>0, <2>2
      <3>3. d[Ins.to] = d[i] - 1 /\ d[i] = Len(s)
        BY <1>1, <1>4, <1>6, <1>32, <2>2
      <3> QED BY <3>1, <3>2, <3>3
    <2> QED BY <1>7, <1>8, <1>11, <2>0, <1>32, <2>1, <2>2, <2>3 DEF Becomes
  <1>33. CASE op = "RETURN_VALUE"
    <2>1. H = LET m == IF s = <<>> THEN 0 ELSE 1 IN Becomes("return", Tops(s, m), {}, <<>>, Rest(s, m))
      BY <1>33 DEF Handled
    <2>2. (IF s = <<>> THEN 0 ELSE 1) \in Nat /\ (IF s = <<>> THEN 0 ELSE 1) <= Len(s)
      OBVIOUS
    <2> QED BY <1>7, <1>8, <1>33, <2>1, <2>2 DEF Becomes, Terminators, Conditional
  <1> QED BY <1>3, <1>13, <1>14, <1>15, <1>16, <1>17, <1>18, <1>19, <1>20, <1>21, <1>22, <1>23, <1>24,
             <1>25, <1>26, <1>27, <1>28, <1>29, <1>30, <1>31, <1>32, <1>33 DEF Opcodes, Jumps, Terminators

\* The same of the SSA values there may be at i,
LEMMA HandledFacts ==
  ASSUME NEW d, Formed(d), NEW i \in 1..Size, Live(code, i),
         NEW s \in Seq(Ref(i)), Len(s) = Depth(code, d, i)
  PROVE  LET H == Handled(code, i, s)
             op == OpAt(code, i)
         IN  /\ H.after \in Seq(Ref(i + 1)) /\ H.uses \in Seq(Ref(i)) /\ H.out \in Seq(Ref(i))
             /\ op \notin Terminators => i < Size /\ Len(H.after) = Depth(code, d, i + 1)
             /\ op \in Conditional \cup {"JUMP_BACKWARD"} => Len(H.out) = d[code.body[i].to]
             /\ op = "JUMP_FORWARD" => d[code.body[i].to] = d[i]
  <1>1. i \in Nat \ {0}
    BY CodeFacts
  <1>2. NullRef \in Ref(i) /\ Res(i) \in Ref(i + 1)
    BY <1>1, RefFacts
  <1>3. Ref(i) \subseteq Ref(i + 1)
    BY <1>1 DEF Ref
  <1> QED BY <1>2, <1>3, HandledIn

\* and of those that have a value at run time.
LEMMA HandledReady ==
  ASSUME NEW d, Formed(d), NEW i \in 1..Size, Live(code, i),
         NEW e, NEW f, DOMAIN e \subseteq DOMAIN f, Makes(code, i) => Res(i) \in DOMAIN f,
         NEW s \in Seq(Ready(e)), Len(s) = Depth(code, d, i)
  PROVE  LET H == Handled(code, i, s)
         IN  H.after \in Seq(Ready(f)) /\ H.uses \in Seq(Ready(e)) /\ H.out \in Seq(Ready(e))
  <1> DEFINE T == Ready(e)
             T1 == Ready(f)
  <1>1. T \subseteq T1 /\ NullRef \in T /\ (Makes(code, i) => Res(i) \in T1) /\ s \in Seq(T)
    BY DEF Ready
  <1> HIDE DEF T, T1
  <1>2. LET H == Handled(code, i, s)
        IN  H.after \in Seq(T1) /\ H.uses \in Seq(T) /\ H.out \in Seq(T)
    BY <1>1, HandledIn
  <1> QED BY <1>2 DEF T, T1

\* The values an instruction computes.
LEMMA ResultFacts ==
  ASSUME NEW i, NEW s
  PROVE  Handled(code, i, s).result =
           IF ~Makes(code, i) THEN {} ELSE IF OpAt(code, i) = "LOAD_NONE" THEN {None} ELSE Data
  <1> DEFINE op == OpAt(code, i)
             R  == Handled(code, i, s).result
  <1>1. CASE op \in {"LOAD", "LOAD_GLOBAL", "LOAD_ATTR"}
    BY <1>1 DEF Handled, Calls, Becomes, Makes
  <1>2. CASE op \in {"OPERATE", "CALL", "MAKE_FUNCTION"}
    BY <1>2 DEF Handled, Calls, Becomes, Makes
  <1>3. CASE op = "FOR_ITER"
    BY <1>3 DEF Handled, Calls, Becomes, Makes
  <1>4. CASE op = "LOAD_NONE"
    BY <1>4 DEF Handled, Calls, Becomes, Makes
  <1>5. CASE op \notin {"LOAD", "LOAD_GLOBAL", "LOAD_ATTR", "OPERATE", "CALL", "MAKE_FUNCTION", "FOR_ITER", "LOAD_NONE"}
    <2>1. R = {}
      BY <1>5 DEF Handled, Calls, Becomes
    <2>2. ~Makes(code, i)
      BY <1>5 DEF Makes
    <2> QED BY <2>1, <2>2
  <1> QED BY <1>1, <1>2, <1>3, <1>4, <1>5

\* What an instruction is says what its operation is.
LEMMA KindFacts ==
  ASSUME NEW d, Formed(d), NEW i \in 1..Size, Live(code, i), NEW s
  PROVE  LET kind == Handled(code, i, s).kind
             op   == OpAt(code, i)
         IN  /\ op \in Opcodes
             /\ kind = "jump" <=> op \in {"JUMP_FORWARD", "JUMP_BACKWARD"}
             /\ kind = "branch" <=> op = "POP_JUMP_IF"
             /\ kind = "iter" <=> op = "FOR_ITER"
             /\ kind = "return" <=> op = "RETURN_VALUE"
             /\ kind = "call" <=> op \notin Jumps \cup Terminators
  <1> DEFINE op == OpAt(code, i)
             H  == Handled(code, i, s)
  <1>1. op \in Opcodes
    BY CodeFacts DEF Formed, WellFormed, Deep, OpAt
  <1>2. CASE op \in {"JUMP_FORWARD", "JUMP_BACKWARD"}
    BY <1>1, <1>2 DEF Handled, Becomes, Jumps, Terminators
  <1>3. CASE op = "POP_JUMP_IF"
    BY <1>1, <1>3 DEF Handled, Becomes, Jumps, Terminators
  <1>4. CASE op = "FOR_ITER"
    BY <1>1, <1>4 DEF Handled, Becomes, Jumps, Terminators
  <1>5. CASE op = "RETURN_VALUE"
    BY <1>1, <1>5 DEF Handled, Becomes, Jumps, Terminators
  <1>6. CASE op \notin Jumps \cup Terminators
    <2>1. H.kind = "call"
      BY <1>6 DEF Handled, Calls, Becomes, Jumps, Terminators
    <2> QED BY <1>1, <1>6, <2>1 DEF Jumps, Terminators
  <1> QED BY <1>2, <1>3, <1>4, <1>5, <1>6 DEF Jumps, Terminators

-------------------------------------------------------------------------------
(* What the handlers have in common.                                       *)

Emission ==
  LET H  == Handled(code, next, stack)
      op == OpAt(code, next)
  IN  /\ Due /\ ~complete
      /\ pir' = [pir EXCEPT ![next] = [kind |-> H.kind, before |-> stack, uses |-> H.uses,
                                       result |-> H.result, out |-> H.out]]
      /\ stack' = H.after /\ next' = next + 1 /\ here' = FALSE
      /\ open' = (open /\ op \notin Terminators) /\ complete' = (op = "RETURN_VALUE")
      /\ width' = IF op \in Conditional \cup {"JUMP_BACKWARD"}
                  THEN Widened(code.body[next].to, H.out) ELSE width
      /\ UNCHANGED <<code, phase, falls, pc, env, used>>

Emitting ==
  \/ EmitNop \/ EmitLoad \/ EmitLoadNone \/ EmitPushNull \/ EmitLoadGlobal \/ EmitLoadAttr
  \/ EmitOperate \/ EmitCall \/ EmitMakeFunction \/ EmitStore \/ EmitAdd(1) \/ EmitAdd(2)
  \/ EmitPopTop \/ EmitCopy \/ EmitSwap \/ EmitStoreLoad
  \/ EmitJumpForward \/ EmitJumpBackward \/ EmitPopJumpIf \/ EmitForIter \/ EmitReturn

\* The handlers of the code are the translation above.
LEMMA EmittingFacts ==
  ASSUME open \in BOOLEAN, complete \in BOOLEAN, Emitting
  PROVE  Emission
  <1> DEFINE op == OpAt(code, next)
             n  == code.body[next].n
             H  == Handled(code, next, stack)
  <1>1. CASE EmitNop
    <2>1. Is("NOP") /\ Op(<<>>, {}, stack)
      BY <1>1 DEF EmitNop, I
    <2>2. op = "NOP" /\ op \notin Terminators /\ op \notin Conditional \cup {"JUMP_BACKWARD"}
      BY <2>1 DEF Is, I, OpAt, Terminators, Conditional
    <2>3. H = [kind |-> "call", uses |-> <<>>, result |-> {}, out |-> <<>>, after |-> stack]
      BY <2>2 DEF Handled, Calls, Becomes
    <2> QED BY <2>1, <2>2, <2>3 DEF Emission, Is, Op, Emit
  <1>2. CASE EmitLoad
    <2>1. Is("LOAD") /\ Op(<<>>, Data, Append(stack, Result))
      BY <1>2 DEF EmitLoad, I
    <2>2. op = "LOAD" /\ op \notin Terminators /\ op \notin Conditional \cup {"JUMP_BACKWARD"}
      BY <2>1 DEF Is, I, OpAt, Terminators, Conditional
    <2>3. H = [kind |-> "call", uses |-> <<>>,
               result |-> Data, out |-> <<>>, after |-> Append(stack, Result)]
      BY <2>2 DEF Handled, Calls, Becomes, Result, Res
    <2> QED BY <2>1, <2>2, <2>3 DEF Emission, Is, Op, Emit
  <1>3. CASE EmitPushNull
    <2>1. Is("PUSH_NULL") /\ Op(<<>>, {}, Append(stack, NullRef))
      BY <1>3 DEF EmitPushNull, I
    <2>2. op = "PUSH_NULL" /\ op \notin Terminators /\ op \notin Conditional \cup {"JUMP_BACKWARD"}
      BY <2>1 DEF Is, I, OpAt, Terminators, Conditional
    <2>3. H = [kind |-> "call", uses |-> <<>>,
               result |-> {}, out |-> <<>>, after |-> Append(stack, NullRef)]
      BY <2>2 DEF Handled, Calls, Becomes
    <2> QED BY <2>1, <2>2, <2>3 DEF Emission, Is, Op, Emit
  <1>4. CASE EmitLoadGlobal
    <2>1. Is("LOAD_GLOBAL") /\ Op(<<>>, Data, stack \o <<Result, NullRef>>)
      BY <1>4 DEF EmitLoadGlobal, I
    <2>2. op = "LOAD_GLOBAL" /\ op \notin Terminators /\ op \notin Conditional \cup {"JUMP_BACKWARD"}
      BY <2>1 DEF Is, I, OpAt, Terminators, Conditional
    <2>3. H = [kind |-> "call", uses |-> <<>>,
               result |-> Data, out |-> <<>>, after |-> stack \o <<Result, NullRef>>]
      BY <2>2 DEF Handled, Calls, Becomes, Result, Res
    <2> QED BY <2>1, <2>2, <2>3 DEF Emission, Is, Op, Emit
  <1>5. CASE EmitLoadAttr
    <2>1. Is("LOAD_ATTR") /\ Op(Top(1), Data, Below(1) \o <<Result, NullRef>>)
      BY <1>5 DEF EmitLoadAttr, I
    <2>2. op = "LOAD_ATTR" /\ op \notin Terminators /\ op \notin Conditional \cup {"JUMP_BACKWARD"}
      BY <2>1 DEF Is, I, OpAt, Terminators, Conditional
    <2>3. H = [kind |-> "call", uses |-> Top(1),
               result |-> Data, out |-> <<>>, after |-> Below(1) \o <<Result, NullRef>>]
      BY <2>2 DEF Handled, Calls, Becomes, Result, Res, Top, Tops, Below, Rest
    <2> QED BY <2>1, <2>2, <2>3 DEF Emission, Is, Op, Emit
  <1>6. CASE EmitOperate
    <2>1. Is("OPERATE") /\ Op(Top(n), Data, Append(Below(n), Result))
      BY <1>6 DEF EmitOperate, I
    <2>2. op = "OPERATE" /\ op \notin Terminators /\ op \notin Conditional \cup {"JUMP_BACKWARD"}
      BY <2>1 DEF Is, I, OpAt, Terminators, Conditional
    <2>3. H = [kind |-> "call", uses |-> Top(n),
               result |-> Data, out |-> <<>>, after |-> Append(Below(n), Result)]
      BY <2>2 DEF Handled, Calls, Becomes, Result, Res, Top, Tops, Below, Rest
    <2> QED BY <2>1, <2>2, <2>3 DEF Emission, Is, Op, Emit
  <1>7. CASE EmitCall
    <2>1. Is("CALL") /\ Op(<<At(n + 2)>> \o Top(n), Data, Append(Below(n + 2), Result))
      BY <1>7 DEF EmitCall, I
    <2>2. op = "CALL" /\ op \notin Terminators /\ op \notin Conditional \cup {"JUMP_BACKWARD"}
      BY <2>1 DEF Is, I, OpAt, Terminators, Conditional
    <2>3. H = [kind |-> "call", uses |-> <<At(n + 2)>> \o Top(n),
               result |-> Data, out |-> <<>>, after |-> Append(Below(n + 2), Result)]
      BY <2>2 DEF Handled, Calls, Becomes, Result, Res, Top, Tops, Below, Rest, At, Deeper
    <2> QED BY <2>1, <2>2, <2>3 DEF Emission, Is, Op, Emit
  <1>8. CASE EmitMakeFunction
    <2>1. Is("MAKE_FUNCTION") /\ Op(<<>>, Data, Append(Below(1), Result))
      BY <1>8 DEF EmitMakeFunction, I
    <2>2. op = "MAKE_FUNCTION" /\ op \notin Terminators /\ op \notin Conditional \cup {"JUMP_BACKWARD"}
      BY <2>1 DEF Is, I, OpAt, Terminators, Conditional
    <2>3. H = [kind |-> "call", uses |-> <<>>,
               result |-> Data, out |-> <<>>, after |-> Append(Below(1), Result)]
      BY <2>2 DEF Handled, Calls, Becomes, Result, Res, Below, Rest
    <2> QED BY <2>1, <2>2, <2>3 DEF Emission, Is, Op, Emit
  <1>9. CASE EmitStore
    <2>1. Is("STORE") /\ Op(Top(n), {}, Below(n))
      BY <1>9 DEF EmitStore, I
    <2>2. op = "STORE" /\ op \notin Terminators /\ op \notin Conditional \cup {"JUMP_BACKWARD"}
      BY <2>1 DEF Is, I, OpAt, Terminators, Conditional
    <2>3. H = [kind |-> "call", uses |-> Top(n), result |-> {}, out |-> <<>>, after |-> Below(n)]
      BY <2>2 DEF Handled, Calls, Becomes, Top, Tops, Below, Rest
    <2> QED BY <2>1, <2>2, <2>3 DEF Emission, Is, Op, Emit
  <1>10. CASE EmitAdd(1)
    <2>1. Is("ADD") /\ Op(<<At(n + 1)>> \o Top(1), {}, Below(1))
      BY <1>10 DEF EmitAdd, I
    <2>2. op = "ADD" /\ op \notin Terminators /\ op \notin Conditional \cup {"JUMP_BACKWARD"}
      BY <2>1 DEF Is, I, OpAt, Terminators, Conditional
    <2>3. H = [kind |-> "call", uses |-> <<At(n + 1)>> \o Top(1),
               result |-> {}, out |-> <<>>, after |-> Below(1)]
      BY <2>2 DEF Handled, Calls, Becomes, Top, Tops, Below, Rest, At, Deeper
    <2> QED BY <2>1, <2>2, <2>3 DEF Emission, Is, Op, Emit
  <1>11. CASE EmitAdd(2)
    <2>1. Is("MAP_ADD") /\ Op(<<At(n + 2)>> \o Top(2), {}, Below(2))
      BY <1>11 DEF EmitAdd, I
    <2>2. op = "MAP_ADD" /\ op \notin Terminators /\ op \notin Conditional \cup {"JUMP_BACKWARD"}
      BY <2>1 DEF Is, I, OpAt, Terminators, Conditional
    <2>3. H = [kind |-> "call", uses |-> <<At(n + 2)>> \o Top(2),
               result |-> {}, out |-> <<>>, after |-> Below(2)]
      BY <2>2 DEF Handled, Calls, Becomes, Top, Tops, Below, Rest, At, Deeper
    <2> QED BY <2>1, <2>2, <2>3 DEF Emission, Is, Op, Emit
  <1>12. CASE EmitPopTop
    <2>1. Is("POP_TOP") /\ Op(<<>>, {}, Below(1))
      BY <1>12 DEF EmitPopTop, I
    <2>2. op = "POP_TOP" /\ op \notin Terminators /\ op \notin Conditional \cup {"JUMP_BACKWARD"}
      BY <2>1 DEF Is, I, OpAt, Terminators, Conditional
    <2>3. H = [kind |-> "call", uses |-> <<>>, result |-> {}, out |-> <<>>, after |-> Below(1)]
      BY <2>2 DEF Handled, Calls, Becomes, Below, Rest
    <2> QED BY <2>1, <2>2, <2>3 DEF Emission, Is, Op, Emit
  <1>13. CASE EmitCopy
    <2>1. Is("COPY") /\ Op(<<>>, {}, Append(stack, At(n)))
      BY <1>13 DEF EmitCopy, I
    <2>2. op = "COPY" /\ op \notin Terminators /\ op \notin Conditional \cup {"JUMP_BACKWARD"}
      BY <2>1 DEF Is, I, OpAt, Terminators, Conditional
    <2>3. H = [kind |-> "call", uses |-> <<>>,
               result |-> {}, out |-> <<>>, after |-> Append(stack, At(n))]
      BY <2>2 DEF Handled, Calls, Becomes, At, Deeper
    <2> QED BY <2>1, <2>2, <2>3 DEF Emission, Is, Op, Emit
  <1>14. CASE EmitSwap
    <2>1. Is("SWAP") /\ Op(<<>>, {}, [stack EXCEPT ![Len(stack)] = At(n), ![Len(stack) - n + 1] = At(1)])
      BY <1>14 DEF EmitSwap, I
    <2>2. op = "SWAP" /\ op \notin Terminators /\ op \notin Conditional \cup {"JUMP_BACKWARD"}
      BY <2>1 DEF Is, I, OpAt, Terminators, Conditional
    <2>3. H = [kind |-> "call", uses |-> <<>>,
               result |-> {}, out |-> <<>>, after |-> [stack EXCEPT ![Len(stack)] = At(n), ![Len(stack) - n + 1] = At(1)]]
      BY <2>2 DEF Handled, Calls, Becomes, At, Deeper, Swapped
    <2> QED BY <2>1, <2>2, <2>3 DEF Emission, Is, Op, Emit
  <1>15. CASE EmitStoreLoad
    <2>1. Is("STORE_LOAD") /\ Op(Top(1), {}, stack)
      BY <1>15 DEF EmitStoreLoad, I
    <2>2. op = "STORE_LOAD" /\ op \notin Terminators /\ op \notin Conditional \cup {"JUMP_BACKWARD"}
      BY <2>1 DEF Is, I, OpAt, Terminators, Conditional
    <2>3. H = [kind |-> "call", uses |-> Top(1), result |-> {}, out |-> <<>>, after |-> stack]
      BY <2>2 DEF Handled, Calls, Becomes, Top, Tops
    <2> QED BY <2>1, <2>2, <2>3 DEF Emission, Is, Op, Emit
  <1>16. CASE EmitLoadNone
    <2>1. op = "LOAD_NONE" /\ op \notin Terminators /\ op \notin Conditional \cup {"JUMP_BACKWARD"}
      BY <1>16 DEF EmitLoadNone, Is, I, OpAt, Terminators, Conditional
    <2>2. CASE code.fn
      <3>1. Is("LOAD_NONE") /\ Op(<<>>, {None}, Append(stack, Result))
        BY <1>16, <2>2 DEF EmitLoadNone
      <3>2. H = [kind |-> "call", uses |-> <<>>,
                 result |-> {None}, out |-> <<>>, after |-> Append(stack, Result)]
        BY <2>1, <2>2 DEF Handled, Calls, Becomes, Result, Res
      <3> QED BY <2>1, <3>1, <3>2 DEF Emission, Is, Op, Emit
    <2>3. CASE ~code.fn
      <3>1. Is("LOAD_NONE") /\ Op(<<>>, {}, stack)
        BY <1>16, <2>3 DEF EmitLoadNone
      <3>2. H = [kind |-> "call", uses |-> <<>>, result |-> {}, out |-> <<>>, after |-> stack]
        BY <2>1, <2>3 DEF Handled, Calls, Becomes, Result, Res
      <3> QED BY <2>1, <3>1, <3>2 DEF Emission, Is, Op, Emit
    <2> QED BY <2>2, <2>3
  <1>17. CASE EmitJumpForward
    <2>1. Is("JUMP_FORWARD") /\ Emit("jump", <<>>, {}, <<>>, stack)
      BY <1>17 DEF EmitJumpForward
    <2>2. op = "JUMP_FORWARD" /\ op \in Terminators /\ op \notin Conditional \cup {"JUMP_BACKWARD"}
      BY <2>1 DEF Is, I, OpAt, Terminators, Conditional
    <2>3. H = [kind |-> "jump", uses |-> <<>>, result |-> {}, out |-> <<>>, after |-> stack]
      BY <2>2 DEF Handled, Calls, Becomes
    <2>4. open' = (open /\ op \notin Terminators)
      BY <1>17, <2>2 DEF EmitJumpForward
    <2>5. complete' = (op = "RETURN_VALUE")
      BY <1>17, <2>1, <2>2 DEF EmitJumpForward, Is
    <2> QED BY <1>17, <2>1, <2>2, <2>3, <2>4, <2>5 DEF EmitJumpForward, Emission, Is, I, Emit
  <1>18. CASE EmitJumpBackward
    <2>1. Is("JUMP_BACKWARD") /\ Emit("jump", <<>>, {}, stack, stack)
      BY <1>18 DEF EmitJumpBackward
    <2>2. op = "JUMP_BACKWARD" /\ op \in Terminators /\ op \in Conditional \cup {"JUMP_BACKWARD"}
      BY <2>1 DEF Is, I, OpAt, Terminators, Conditional
    <2>3. H = [kind |-> "jump", uses |-> <<>>, result |-> {}, out |-> stack, after |-> stack]
      BY <2>2 DEF Handled, Calls, Becomes
    <2>4. open' = (open /\ op \notin Terminators)
      BY <1>18, <2>2 DEF EmitJumpBackward
    <2>5. complete' = (op = "RETURN_VALUE")
      BY <1>18, <2>1, <2>2 DEF EmitJumpBackward, Is
    <2> QED BY <1>18, <2>1, <2>2, <2>3, <2>4, <2>5 DEF EmitJumpBackward, Emission, Is, I, Emit
  <1>19. CASE EmitPopJumpIf
    <2>1. Is("POP_JUMP_IF") /\ Emit("branch", Top(1), {}, Below(1), Below(1))
      BY <1>19 DEF EmitPopJumpIf
    <2>2. op = "POP_JUMP_IF" /\ op \notin Terminators /\ op \in Conditional \cup {"JUMP_BACKWARD"}
      BY <2>1 DEF Is, I, OpAt, Terminators, Conditional
    <2>3. H = [kind |-> "branch", uses |-> Top(1), result |-> {}, out |-> Below(1), after |-> Below(1)]
      BY <2>2 DEF Handled, Calls, Becomes, Top, Tops, Below, Rest
    <2> QED BY <1>19, <2>1, <2>2, <2>3 DEF EmitPopJumpIf, Emission, Is, I, Emit
  <1>20. CASE EmitForIter
    <2>1. Is("FOR_ITER") /\ Emit("iter", Top(1), Data, Below(1), Append(stack, Result))
      BY <1>20 DEF EmitForIter
    <2>2. op = "FOR_ITER" /\ op \notin Terminators /\ op \in Conditional \cup {"JUMP_BACKWARD"}
      BY <2>1 DEF Is, I, OpAt, Terminators, Conditional
    <2>3. H = [kind |-> "iter", uses |-> Top(1),
               result |-> Data, out |-> Below(1), after |-> Append(stack, Result)]
      BY <2>2 DEF Handled, Calls, Becomes, Result, Res, Top, Tops, Below, Rest
    <2> QED BY <1>20, <2>1, <2>2, <2>3 DEF EmitForIter, Emission, Is, I, Emit
  <1>21. CASE EmitReturn
    <2> DEFINE m == IF stack = <<>> THEN 0 ELSE 1
    <2>1. Is("RETURN_VALUE") /\ Emit("return", Top(m), {}, <<>>, Below(m))
      BY <1>21 DEF EmitReturn
    <2>2. op = "RETURN_VALUE" /\ op \in Terminators /\ op \notin Conditional \cup {"JUMP_BACKWARD"}
      BY <2>1 DEF Is, I, OpAt, Terminators, Conditional
    <2>3. H = [kind |-> "return", uses |-> Top(m), result |-> {}, out |-> <<>>, after |-> Below(m)]
      BY <2>2 DEF Handled, Calls, Becomes, Top, Tops, Below, Rest
    <2>4. open' = (open /\ op \notin Terminators)
      BY <1>21, <2>2 DEF EmitReturn
    <2>5. complete' = (op = "RETURN_VALUE")
      BY <1>21, <2>1, <2>2 DEF EmitReturn, Is
    <2> QED BY <1>21, <2>1, <2>2, <2>3, <2>4, <2>5 DEF EmitReturn, Emission, Is, I, Emit
  <1> QED BY <1>1, <1>2, <1>3, <1>4, <1>5, <1>6, <1>7, <1>8, <1>9, <1>10, <1>11, <1>12, <1>13, <1>14,
             <1>15, <1>16, <1>17, <1>18, <1>19, <1>20, <1>21 DEF Emitting

-------------------------------------------------------------------------------
(* The invariant: translation.                                             *)

\* What comes from above is as deep as CPython's stack is, but for a None that is not pushed.
LEMMA IncomingFacts ==
  ASSUME NEW d, Formed(d), Translated(d), next \in Nat,
         NEW i \in 1..Size, i <= next, FallsIn(code, i)
  PROVE  Incoming(i) \in Seq(Ref(i)) /\ Len(Incoming(i)) = Depth(code, d, i)
  <1>1. CASE i = 1
    <2>1. Incoming(i) = <<>> /\ Depth(code, d, i) = 0
      BY <1>1 DEF Incoming, Depth, NotPushed, Formed, WellFormed
    <2> QED BY <2>1
  <1>2. CASE i # 1
    <2>1. i - 1 \in 1..Size /\ i - 1 < next /\ i - 1 \in Nat \ {0} /\ (i - 1) + 1 = i
      BY <1>2, CodeFacts
    <2>2. Live(code, i - 1) /\ OpAt(code, i - 1) \notin Terminators
      BY <2>1, FallsInNext
    <2>3. Fits(d, i - 1)
      BY <2>1, <2>2 DEF Translated
    <2> DEFINE b == pir[i - 1].before
    <2>4. b \in Seq(Ref(i - 1)) /\ Len(b) = Depth(code, d, i - 1)
      BY <2>3 DEF Fits
    <2>5. /\ Handled(code, i - 1, b).after \in Seq(Ref(i))
          /\ Len(Handled(code, i - 1, b).after) = Depth(code, d, i)
      BY <2>1, <2>2, <2>4, HandledFacts
    <2> QED BY <1>2, <2>5 DEF Incoming
  <1> QED BY <1>1, <1>2

\* The handlers find CPython's stack, unless what is next follows a return.
LEMMA DueFacts ==
  ASSUME NEW d, Formed(d), TInv(d), Due
  PROVE  /\ next \in 1..Size /\ next \in Nat \ {0} /\ phase = "translate"
         /\ \A l \in Labels : l <= Reached <=> l <= next
         /\ complete => ~here /\ ~open /\ ~Live(code, next)
         /\ ~complete =>
              /\ Live(code, next) /\ open /\ stack = Expected(d, next)
              /\ stack \in Seq(Ref(next)) /\ Len(stack) = Depth(code, d, next)
  <1>1. next \in 1..Size /\ next \in Nat \ {0} /\ phase = "translate" /\ (next \in Labels => here)
    BY CodeFacts DEF Due, TInv, Types
  <1>2. (here => next \in Labels) /\ here \in BOOLEAN /\ open \in BOOLEAN /\ complete \in BOOLEAN
    BY DEF TInv, Types
  <1>3. \A l \in Labels : l <= Reached <=> l <= next
    BY <1>1, <1>2, CodeFacts DEF Reached
  <1>4. ASSUME complete PROVE ~here /\ ~open /\ ~Live(code, next)
    BY <1>1, <1>2, <1>4 DEF TInv, Opens, Live, Labels
  <1>5. ASSUME ~complete
        PROVE  /\ Live(code, next) /\ open /\ stack = Expected(d, next)
               /\ stack \in Seq(Ref(next)) /\ Len(stack) = Depth(code, d, next)
    <2>1. CASE here
      <3>1. open /\ Live(code, next) /\ stack = Args(next, d[next]) /\ next \in Labels
        BY <1>2, <2>1 DEF TInv, Opens, Stacks, Live, Labels
      <3>2. d[next] \in Nat
        BY <1>1, CodeFacts
      <3>3. stack \in Seq(Ref(next)) /\ Len(stack) = d[next]
        BY <1>1, <3>1, <3>2, RefFacts
      <3>4. Depth(code, d, next) = d[next]
        BY <1>1, <3>1, NotPushedReturns DEF Depth
      <3> QED BY <3>1, <3>3, <3>4 DEF Expected
    <2>2. CASE ~here
      <3>1. open /\ FallsIn(code, next) /\ next \notin Labels
        BY <1>1, <1>2, <1>5, <2>2 DEF TInv, Opens
      <3>2. stack = Incoming(next)
        BY <2>2, <3>1 DEF TInv, Stacks
      <3>3. Incoming(next) \in Seq(Ref(next)) /\ Len(Incoming(next)) = Depth(code, d, next)
        BY <1>1, <3>1, IncomingFacts DEF TInv
      <3> QED BY <3>1, <3>2, <3>3 DEF Expected, Live
    <2> QED BY <2>1, <2>2
  <1> QED BY <1>1, <1>3, <1>4, <1>5

\* What does not change of an instruction that is not translated in this step.
LEMMA SameIncoming ==
  ASSUME NEW d, code' = code, NEW i \in Nat \ {0}, i > 1 => pir'[i - 1] = pir[i - 1]
  PROVE  Incoming(i)' = Incoming(i) /\ Expected(d, i)' = Expected(d, i)
  BY DEF Incoming, Expected, Labels

\* The same of the operation.
LEMMA SameFits ==
  ASSUME NEW d, code' = code, NEW i \in Nat \ {0}, pir'[i] = pir[i], i > 1 => pir'[i - 1] = pir[i - 1]
  PROVE  Fits(d, i)' = Fits(d, i)
  <1>1. Expected(d, i)' = Expected(d, i)
    BY SameIncoming
  <1> QED BY <1>1 DEF Fits

\* The handlers keep the invariant,
LEMMA EmitInv ==
  ASSUME NEW d, Formed(d), TInv(d), Emission
  PROVE  TInv(d)'
  <1> DEFINE H  == Handled(code, next, stack)
             op == OpAt(code, next)
             to == code.body[next].to
  <1>1. /\ next \in 1..Size /\ next \in Nat \ {0} /\ phase = "translate"
        /\ \A l \in Labels : l <= Reached <=> l <= next
        /\ Live(code, next) /\ open /\ stack = Expected(d, next)
        /\ stack \in Seq(Ref(next)) /\ Len(stack) = Depth(code, d, next)
    BY DueFacts DEF Emission
  <1>2. /\ H.after \in Seq(Ref(next + 1))
        /\ op \notin Terminators => next < Size
        /\ op \in Conditional \cup {"JUMP_BACKWARD"} => Len(H.out) = d[to]
    BY <1>1, HandledFacts
  <1>3. /\ code' = code /\ phase' = phase /\ falls' = falls /\ pc' = pc /\ env' = env /\ used' = used
        /\ stack' = H.after /\ next' = next + 1 /\ here' = FALSE
        /\ open' = (open /\ op \notin Terminators) /\ complete' = (op = "RETURN_VALUE")
        /\ width' = IF op \in Conditional \cup {"JUMP_BACKWARD"} THEN Widened(to, H.out) ELSE width
        /\ pir' = [pir EXCEPT ![next] = [kind |-> H.kind, before |-> stack, uses |-> H.uses,
                                         result |-> H.result, out |-> H.out]]
    BY DEF Emission
  <1>4. /\ Labels' = Labels /\ Size' = Size /\ Size \in Nat \ {0} /\ Labels \subseteq 1..Size
        /\ DOMAIN pir = 1..Size
    BY <1>3, CodeFacts DEF Labels, Size, TInv, Types
  <1>5. /\ pir'[next].before = stack /\ pir'[next].kind = H.kind /\ pir'[next].uses = H.uses
        /\ pir'[next].result = H.result /\ pir'[next].out = H.out /\ DOMAIN pir' = DOMAIN pir
        /\ \A i \in 1..Size : i # next => pir'[i] = pir[i]
    BY <1>1, <1>3, <1>4
  <1>6. FallsIn(code, next + 1) <=> op \notin Terminators
    BY <1>1, FallsInNext
  <1>7. op \in Conditional \cup {"JUMP_BACKWARD"} => to \in Labels
    BY <1>1, CodeFacts DEF Jumps, Conditional
  <1>8. Types'
    <2>1. width' \in [Labels -> Nat]
      <3>1. width \in [Labels -> Nat]
        BY DEF TInv, Types
      <3>2. op \in Conditional \cup {"JUMP_BACKWARD"} => Len(H.out) \in Nat
        BY <1>1, <1>2, <1>4, <1>7, CodeFacts
      <3> QED BY <1>3, <3>1, <3>2 DEF Widened
    <2>2. next' \in 1..Size + 1
      BY <1>1, <1>3, <1>4
    <2>3. open' \in BOOLEAN /\ complete' \in BOOLEAN /\ here' \in BOOLEAN
      BY <1>3
    <2> QED BY <1>2, <1>3, <1>4, <1>5, <2>1, <2>2, <2>3 DEF TInv, Types
  <1>9. Opens'
    <2>1. open' <=> op \notin Terminators
      BY <1>1, <1>3
    <2>2. ASSUME next + 1 \notin Labels, next + 1 <= Size, op \in Terminators
          PROVE  op = "RETURN_VALUE"
      <3>1. next \in DOMAIN code.body /\ next < Len(code.body) /\ op \notin Conditional
        BY <1>1, <2>2, CodeFacts DEF Size, Terminators, Conditional
      <3>2. op \in Jumps => next + 1 \in Labels
        BY <3>1 DEF Formed, WellFormed, LaidOut, Labels
      <3> QED BY <2>2, <3>2 DEF Terminators, Jumps
    <2>3. op = "RETURN_VALUE" => op \in Terminators
      BY DEF Terminators
    <2>4. ~here' /\ next' = next + 1 /\ code' = code /\ (complete' <=> op = "RETURN_VALUE")
      BY <1>3
    <2> QED BY <1>4, <1>6, <2>1, <2>2, <2>3, <2>4 DEF Opens
  <1>10. Stacks(d)'
    <2>1. next' # 1 /\ next' - 1 = next
      BY <1>1, <1>3
    <2>2. Incoming(next)' = H.after
      BY <1>3, <1>5, <2>1 DEF Incoming
    <2>3. ~here' /\ stack' = H.after
      BY <1>3
    <2> QED BY <2>2, <2>3 DEF Stacks
  <1>11. \A i \in 1..Size : i <= next => Incoming(i)' = Incoming(i) /\ Expected(d, i)' = Expected(d, i)
    <2> SUFFICES ASSUME NEW i \in 1..Size, i <= next
                 PROVE  Incoming(i)' = Incoming(i) /\ Expected(d, i)' = Expected(d, i)
      OBVIOUS
    <2>1. i \in Nat \ {0} /\ (i > 1 => i - 1 \in 1..Size /\ i - 1 # next)
      BY <1>1, <1>4
    <2> QED BY <1>3, <1>5, <2>1, SameIncoming
  <1>12. Translated(d)'
    <2> SUFFICES ASSUME NEW i \in 1..Size
                 PROVE  IF i < next + 1 /\ Live(code, i) THEN Fits(d, i)' ELSE pir'[i].kind = "call"
      BY <1>3, <1>4 DEF Translated
    <2>1. IF i < next /\ Live(code, i) THEN Fits(d, i) ELSE pir[i].kind = "call"
      BY DEF TInv, Translated
    <2>2. CASE i = next
      <3>1. Expected(d, i)' = stack
        BY <1>1, <1>11, <2>2
      <3>2. Fits(d, i)'
        BY <1>1, <1>3, <1>5, <2>2, <3>1 DEF Fits
      <3> QED BY <1>1, <2>2, <3>2
    <2>3. CASE i < next
      <3>1. i \in Nat \ {0} /\ i # next /\ (i > 1 => i - 1 \in 1..Size /\ i - 1 # next) /\ i < next + 1
        BY <1>1, <1>4, <2>3
      <3>2. pir'[i] = pir[i] /\ Fits(d, i)' = Fits(d, i)
        BY <1>3, <1>5, <3>1, SameFits
      <3> QED BY <2>1, <2>3, <3>1, <3>2
    <2>4. CASE i > next
      <3>1. i # next /\ ~(i < next) /\ ~(i < next + 1)
        BY <1>1, <1>4, <2>4
      <3> QED BY <1>5, <2>1, <3>1
    <2> QED BY <1>1, <1>4, <2>2, <2>3, <2>4
  <1>13. Widths(d)'
    <2> SUFFICES ASSUME NEW l \in Labels
                 PROVE  width'[l] \in {0, d[l]} /\ (l <= Reached' \/ Branches(l)' => width'[l] = d[l])
      BY <1>4 DEF Widths
    <2>1. width[l] \in {0, d[l]} /\ (l <= Reached \/ Branches(l) => width[l] = d[l])
      BY DEF TInv, Widths
    <2>2. width'[l] = width[l] \/ (width[l] = 0 /\ width'[l] = d[l])
      BY <1>2, <1>3 DEF Widened, TInv, Types
    <2>3. op \in Conditional /\ to = l => width'[l] = d[l]
      BY <1>2, <1>3, <2>1 DEF Widened, TInv, Types
    <2>4. Reached' = next
      BY <1>1, <1>3 DEF Reached
    <2>5. l <= Reached' => l <= Reached
      BY <1>1, <2>4
    <2>6. Branches(l)' => Branches(l) \/ (op \in Conditional /\ to = l)
      BY <1>1, <1>3 DEF Branches
    <2>7. d[l] = 0 \/ width[l] # d[l] \/ width[l] # 0
      OBVIOUS
    <2> QED BY <2>1, <2>2, <2>3, <2>5, <2>6
  <1>14. Falls(d)'
    <2> SUFFICES ASSUME NEW l \in Labels
                 PROVE  /\ l \in DOMAIN falls <=> l <= Reached' /\ FallsIn(code, l)
                        /\ l \in DOMAIN falls => falls[l] = Incoming(l)' /\ Len(falls[l]) = d[l]
      BY <1>3, <1>4 DEF Falls
    <2>1. /\ l \in DOMAIN falls <=> l <= Reached /\ FallsIn(code, l)
          /\ l \in DOMAIN falls => falls[l] = Incoming(l) /\ Len(falls[l]) = d[l]
      BY DEF TInv, Falls
    <2>2. Reached' = next
      BY <1>1, <1>3 DEF Reached
    <2> QED BY <1>1, <1>4, <1>11, <2>1, <2>2
  <1>15. Phases' /\ Defined'
    <2>1. phase' = "translate"
      BY <1>1, <1>3
    <2>2. pc = 1 /\ env = <<>> /\ used = <<>>
      BY <1>1 DEF TInv, Phases
    <2>3. pc' = 1 /\ env' = <<>> /\ used' = <<>> /\ phase' # "run" /\ phase' # "rejected"
      BY <1>3, <2>1, <2>2
    <2> QED BY <2>1, <2>3 DEF Phases, Defined
  <1> QED BY <1>8, <1>9, <1>10, <1>12, <1>13, <1>14, <1>15 DEF TInv

\* the start of a block does,
LEMMA SwitchInv ==
  ASSUME NEW d, Formed(d), TInv(d), Switch
  PROVE  TInv(d)'
  <1>1. /\ phase = "translate" /\ next \in Labels /\ ~here /\ here' /\ open' /\ ~complete'
        /\ here' \in BOOLEAN /\ open' \in BOOLEAN /\ complete' \in BOOLEAN
        /\ stack' = Args(next, width'[next])
        /\ code' = code /\ phase' = phase /\ next' = next /\ pir' = pir /\ pc' = pc
        /\ env' = env /\ used' = used
    BY DEF Switch, Args
  <1>2. /\ Labels' = Labels /\ Size' = Size /\ Size \in Nat \ {0} /\ Labels \subseteq 1..Size
        /\ next \in Nat \ {0} /\ next \in 1..Size /\ d[next] \in Nat
    BY <1>1, CodeFacts DEF Labels, Size
  <1>3. Reached = next - 1 /\ Reached' = next
    BY <1>1 DEF Reached
  <1>4. width \in [Labels -> Nat] /\ DOMAIN falls \subseteq Labels /\ (open <=> FallsIn(code, next))
    BY <1>1 DEF TInv, Types, Opens
  <1>5. width[next] \in {0, d[next]} /\ (Branches(next) => width[next] = d[next])
    BY <1>1 DEF TInv, Widths
  <1>6. ASSUME open
        PROVE  stack = Incoming(next) /\ Len(stack) = d[next]
    <2>1. stack = Incoming(next)
      BY <1>1, <1>4, <1>6 DEF TInv, Stacks
    <2>2. Len(stack) = Depth(code, d, next)
      BY <1>2, <1>4, <1>6, <2>1, IncomingFacts DEF TInv
    <2>3. ~NotPushed(code, next)
      BY <1>1, <1>2, NotPushedReturns
    <2> QED BY <2>1, <2>2, <2>3 DEF Depth
  <1>7. /\ width'[next] = d[next] /\ width' \in [Labels -> Nat]
        /\ \A l \in Labels : l # next => width'[l] = width[l]
    <2>1. CASE open
      <3>1. width' = Widened(next, stack)
        BY <2>1 DEF Switch
      <3> QED BY <1>1, <1>2, <1>4, <1>5, <1>6, <2>1, <3>1 DEF Widened
    <2>2. CASE ~open
      <3>1. width' = width
        BY <2>2 DEF Switch
      <3>2. d[next] = 0 \/ \E j \in 1..next-1 : Live(code, j) /\ OpAt(code, j) \in Conditional /\ code.body[j].to = next
        BY <1>1, <1>4, <2>2 DEF Formed, WellFormed, Entered, Labels
      <3>3. d[next] = 0 \/ Branches(next)
        BY <3>2 DEF Branches
      <3> QED BY <1>4, <1>5, <3>1, <3>3
    <2> QED BY <2>1, <2>2
  <1>8. /\ DOMAIN falls' \subseteq Labels
        /\ \A l \in Labels : l # next => (l \in DOMAIN falls' <=> l \in DOMAIN falls)
        /\ \A l \in DOMAIN falls : l # next => falls'[l] = falls[l]
        /\ next \in DOMAIN falls' <=> FallsIn(code, next)
        /\ next \in DOMAIN falls' => falls'[next] = stack
    <2>1. CASE open
      <3>1. falls' = [l \in DOMAIN falls \cup {next} |-> IF l = next THEN stack ELSE falls[l]]
        BY <2>1 DEF Switch
      <3> QED BY <1>1, <1>4, <2>1, <3>1
    <2>2. CASE ~open
      <3>1. falls' = falls
        BY <2>2 DEF Switch
      <3>2. next \notin DOMAIN falls
        BY <1>1, <1>2, <1>3 DEF TInv, Falls
      <3> QED BY <1>4, <2>2, <3>1, <3>2
    <2> QED BY <2>1, <2>2
  <1>9. Types'
    <2>1. stack' \in Seq(Ref(next))
      BY <1>1, <1>2, <1>7, RefFacts
    <2> QED BY <1>1, <1>2, <1>7, <1>8, <2>1 DEF TInv, Types
  <1>10. Opens' /\ Stacks(d)'
    BY <1>1, <1>7 DEF Opens, Stacks
  <1>11. \A i \in 1..Size : Incoming(i)' = Incoming(i) /\ Fits(d, i)' = Fits(d, i)
    <2> SUFFICES ASSUME NEW i \in 1..Size
                 PROVE  Incoming(i)' = Incoming(i) /\ Fits(d, i)' = Fits(d, i)
      OBVIOUS
    <2>1. i \in Nat \ {0}
      OBVIOUS
    <2> QED BY <1>1, <2>1, SameIncoming, SameFits
  <1>12. Translated(d)'
    BY <1>1, <1>2, <1>11 DEF TInv, Translated
  <1>13. Widths(d)'
    <2> SUFFICES ASSUME NEW l \in Labels
                 PROVE  width'[l] \in {0, d[l]} /\ (l <= Reached' \/ Branches(l)' => width'[l] = d[l])
      BY <1>2 DEF Widths
    <2>1. width[l] \in {0, d[l]} /\ (l <= Reached \/ Branches(l) => width[l] = d[l])
      BY DEF TInv, Widths
    <2>2. Branches(l)' = Branches(l)
      BY <1>1 DEF Branches
    <2> QED BY <1>2, <1>3, <1>7, <2>1, <2>2
  <1>14. Falls(d)'
    <2> SUFFICES ASSUME NEW l \in Labels
                 PROVE  /\ l \in DOMAIN falls' <=> l <= Reached' /\ FallsIn(code, l)
                        /\ l \in DOMAIN falls' => falls'[l] = Incoming(l)' /\ Len(falls'[l]) = d[l]
      BY <1>1, <1>2 DEF Falls
    <2>1. /\ l \in DOMAIN falls <=> l <= Reached /\ FallsIn(code, l)
          /\ l \in DOMAIN falls => falls[l] = Incoming(l) /\ Len(falls[l]) = d[l]
      BY DEF TInv, Falls
    <2>2. CASE l = next
      BY <1>2, <1>3, <1>4, <1>6, <1>8, <1>11, <2>2
    <2>3. CASE l # next
      BY <1>2, <1>3, <1>8, <1>11, <2>1, <2>3
    <2> QED BY <2>2, <2>3
  <1>15. Phases' /\ Defined'
    <2>1. phase' = "translate" /\ pc' = 1 /\ env' = <<>> /\ used' = <<>>
      BY <1>1 DEF TInv, Phases
    <2> QED BY <2>1 DEF Phases, Defined
  <1> QED BY <1>9, <1>10, <1>12, <1>13, <1>14, <1>15 DEF TInv

\* and an instruction that is not translated.
LEMMA SkipInv ==
  ASSUME NEW d, Formed(d), TInv(d), Skip
  PROVE  TInv(d)'
  <1>1. /\ next \in 1..Size /\ next \in Nat \ {0} /\ phase = "translate" /\ ~Live(code, next)
        /\ ~here /\ ~open
        /\ complete /\ \A l \in Labels : l <= Reached <=> l <= next
    BY DueFacts DEF Skip
  <1>2. /\ next' = next + 1 /\ ~here' /\ ~open' /\ complete' /\ code' = code /\ phase' = phase
        /\ stack' = stack
        /\ width' = width /\ falls' = falls /\ pir' = pir /\ pc' = pc /\ env' = env /\ used' = used
        /\ open' = open /\ complete' = complete /\ here' \in BOOLEAN
    BY <1>1 DEF Skip
  <1>3. /\ Labels' = Labels /\ Size' = Size /\ Size \in Nat \ {0} /\ Labels \subseteq 1..Size
        /\ Reached' = next
    BY <1>1, <1>2, CodeFacts DEF Labels, Size, Reached
  <1>4. ~FallsIn(code, next + 1) /\ next \notin Labels
    BY <1>1, FallsInNext DEF Live, Labels
  <1>5. Types'
    <2>1. stack \in Seq(Ref(next + 1))
      BY <1>1, RefFacts DEF TInv, Types
    <2>2. next' \in 1..Size + 1
      BY <1>1, <1>2, <1>3
    <2> QED BY <1>2, <1>3, <2>1, <2>2 DEF TInv, Types
  <1>6. Opens' /\ Stacks(d)'
    BY <1>2, <1>4 DEF Opens, Stacks
  <1>7. \A i \in 1..Size : Incoming(i)' = Incoming(i) /\ Fits(d, i)' = Fits(d, i)
    <2> SUFFICES ASSUME NEW i \in 1..Size
                 PROVE  Incoming(i)' = Incoming(i) /\ Fits(d, i)' = Fits(d, i)
      OBVIOUS
    <2>1. i \in Nat \ {0}
      OBVIOUS
    <2> QED BY <1>2, <2>1, SameIncoming, SameFits
  <1>8. Translated(d)'
    <2> SUFFICES ASSUME NEW i \in 1..Size
                 PROVE  IF i < next + 1 /\ Live(code, i) THEN Fits(d, i)' ELSE pir[i].kind = "call"
      BY <1>2, <1>3 DEF Translated
    <2>1. IF i < next /\ Live(code, i) THEN Fits(d, i) ELSE pir[i].kind = "call"
      BY DEF TInv, Translated
    <2>2. i < next + 1 /\ Live(code, i) <=> i < next /\ Live(code, i)
      BY <1>1, <1>3
    <2> QED BY <1>7, <2>1, <2>2
  <1>9. Widths(d)'
    <2> SUFFICES ASSUME NEW l \in Labels
                 PROVE  width[l] \in {0, d[l]} /\ (l <= next \/ Branches(l)' => width[l] = d[l])
      BY <1>2, <1>3 DEF Widths
    <2>1. width[l] \in {0, d[l]} /\ (l <= Reached \/ Branches(l) => width[l] = d[l])
      BY DEF TInv, Widths
    <2>2. Branches(l)' => Branches(l)
      BY <1>1, <1>2 DEF Branches
    <2> QED BY <1>1, <2>1, <2>2
  <1>10. Falls(d)'
    <2> SUFFICES ASSUME NEW l \in Labels
                 PROVE  /\ l \in DOMAIN falls <=> l <= next /\ FallsIn(code, l)
                        /\ l \in DOMAIN falls => falls[l] = Incoming(l)' /\ Len(falls[l]) = d[l]
      BY <1>2, <1>3 DEF Falls
    <2> QED BY <1>1, <1>3, <1>7 DEF TInv, Falls
  <1>11. Phases' /\ Defined'
    <2>1. phase' = "translate" /\ pc' = 1 /\ env' = <<>> /\ used' = <<>>
      BY <1>1, <1>2 DEF TInv, Phases
    <2> QED BY <2>1 DEF Phases, Defined
  <1> QED BY <1>5, <1>6, <1>8, <1>9, <1>10, <1>11 DEF TInv

\* The stack of SSA values is as deep as a handler wants.
LEMMA NoUnderflow ==
  ASSUME NEW d, Formed(d), TInv(d)
  PROVE  ~Underflow
  <1> SUFFICES ASSUME Due, ~complete, Wants > Len(stack)
               PROVE  FALSE
    BY DEF Underflow
  <1>1. next \in 1..Size /\ Live(code, next) /\ Len(stack) = Depth(code, d, next) /\ Len(stack) \in Nat
    BY DueFacts
  <1>2. I.n \in Nat /\ d[next] \in Nat /\ I.op = OpAt(code, next)
    BY <1>1, CodeFacts DEF I, OpAt
  <1>3. Reach(I) <= d[next]
    BY <1>1, CodeFacts DEF Formed, WellFormed, Deep, I
  <1>4. Wants = IF I.op = "RETURN_VALUE" THEN 0 ELSE Reach(I)
    BY DEF Wants, Reach, Conditional
  <1>5. I.op # "RETURN_VALUE" => Len(stack) = d[next]
    BY <1>1, <1>2, NotPushedReturns DEF Depth
  <1>6. CASE I.op = "RETURN_VALUE"
    BY <1>1, <1>4, <1>6
  <1>7. CASE I.op # "RETURN_VALUE"
    <2>1. Wants <= Len(stack)
      BY <1>3, <1>4, <1>5, <1>7
    <2>2. Wants \in Nat
      BY <1>2 DEF Wants
    <2> QED BY <1>1, <2>1, <2>2
  <1> QED BY <1>6, <1>7

-------------------------------------------------------------------------------
(* The invariant: the verifier, and the compiled program.                  *)

\* When all is translated, every instruction control comes to fits.
LEMMA TranslatedFits ==
  ASSUME NEW d, Formed(d), TInv(d), phase # "translate"
  PROVE  /\ \A i \in 1..Size : Live(code, i) => Fits(d, i)
         /\ \A l \in Labels : width[l] = d[l]
         /\ \A l \in Labels : l \in DOMAIN falls <=> FallsIn(code, l)
  <1>1. next = Size + 1 /\ Size \in Nat \ {0} /\ Labels \subseteq 1..Size
    BY CodeFacts DEF TInv, Phases
  <1>2. ~here
    BY <1>1 DEF TInv, Types
  <1>3. Reached = Size
    BY <1>1, <1>2 DEF Reached
  <1>4. \A i \in 1..Size : i < next
    BY <1>1
  <1>5. \A l \in Labels : l <= Reached
    BY <1>1, <1>3
  <1> QED BY <1>4, <1>5 DEF TInv, Translated, Widths, Falls

\* The first instruction finds nothing.
LEMMA FirstFits ==
  ASSUME NEW d, Formed(d), NEW e, pir[1].before \in Seq(e), Len(pir[1].before) = Depth(code, d, 1)
  PROVE  pir[1].before = <<>>
  BY DEF Depth, NotPushed, Formed, WellFormed

\* The verifier keeps the invariant,
LEMMA VerifyInv ==
  ASSUME NEW d, Formed(d), TInv(d), Verify
  PROVE  TInv(d)'
  <1>1. /\ phase = "translate" /\ next > Size /\ phase' = (IF Verified THEN "run" ELSE "rejected")
        /\ code' = code /\ next' = next /\ stack' = stack /\ here' = here /\ open' = open
        /\ complete' = complete
        /\ width' = width /\ falls' = falls /\ pir' = pir /\ pc' = pc /\ env' = env /\ used' = used
    BY DEF Verify
  <1>2. next = Size + 1 /\ Size \in Nat \ {0} /\ 1 \in 1..Size /\ Labels' = Labels /\ Size' = Size
    BY <1>1, CodeFacts DEF TInv, Types, Labels, Size
  <1>3. Verified' = Verified
    BY <1>1 DEF Verified
  <1>4. pc = 1 /\ env = <<>> /\ used = <<>>
    BY <1>1 DEF TInv, Phases
  <1>5. Types' /\ Opens' /\ Widths(d)'
    BY <1>1, <1>2 DEF TInv, Types, Opens, Widths, Reached, Branches
  <1>6. \A i \in 1..Size : Incoming(i)' = Incoming(i) /\ Fits(d, i)' = Fits(d, i)
    <2> SUFFICES ASSUME NEW i \in 1..Size
                 PROVE  Incoming(i)' = Incoming(i) /\ Fits(d, i)' = Fits(d, i)
      OBVIOUS
    <2>1. i \in Nat \ {0}
      OBVIOUS
    <2> QED BY <1>1, <2>1, SameIncoming, SameFits
  <1>7. Stacks(d)'
    BY <1>1, EndIsClosed, <1>2 DEF Stacks, TInv, Types
  <1>8. Translated(d)'
    BY <1>1, <1>2, <1>6 DEF TInv, Translated
  <1>9. Falls(d)'
    <2> SUFFICES ASSUME NEW l \in Labels
                 PROVE  /\ l \in DOMAIN falls <=> l <= Reached /\ FallsIn(code, l)
                        /\ l \in DOMAIN falls => falls[l] = Incoming(l)' /\ Len(falls[l]) = d[l]
      BY <1>1, <1>2 DEF Falls, Reached
    <2>1. l \in 1..Size
      BY CodeFacts
    <2> QED BY <1>6, <2>1 DEF TInv, Falls
  <1>10. Phases'
    BY <1>1, <1>2, <1>3, <1>4 DEF Phases
  <1>11. Defined'
    <2>1. Live(code, 1)
      BY FallsInFirst DEF Live
    <2>2. Fits(d, 1)
      BY <1>2, <2>1 DEF TInv, Translated
    <2>3. pir[1].before = <<>>
      BY <2>2, FirstFits DEF Fits
    <2>4. P'.before = <<>> /\ pc' = 1 /\ env' = <<>>
      BY <1>1, <1>4, <2>3 DEF P
    <2>5. <<>> \in Seq(Ready(<<>>)) /\ Values(<<>>)
      BY DEF Values
    <2> QED BY <1>1, <1>2, <2>1, <2>4, <2>5 DEF Defined
  <1> QED BY <1>5, <1>7, <1>8, <1>9, <1>10, <1>11 DEF TInv

\* and it holds before the first instruction.
LEMMA InitInv ==
  ASSUME NEW d, Formed(d), Init
  PROVE  TInv(d)
  <1>1. /\ phase = "translate" /\ next = 1 /\ stack = <<>> /\ here = FALSE /\ open = TRUE
        /\ complete = FALSE
        /\ width = [l \in Labels |-> 0] /\ falls = <<>> /\ pir = [i \in DOMAIN code.body |-> Operation]
        /\ pc = 1 /\ env = <<>> /\ used = <<>>
    BY DEF Init
  <1>2. /\ Size \in Nat \ {0} /\ DOMAIN code.body = 1..Size /\ Labels \subseteq 1..Size
        /\ \A i \in 1..Size : d[i] \in Nat
    BY CodeFacts
  <1>3. Types
    <2>1. stack \in Seq(Ref(next)) /\ DOMAIN falls = {} /\ width \in [Labels -> Nat]
      BY <1>1
    <2>2. next \in 1..Size + 1 /\ DOMAIN pir = DOMAIN code.body
      BY <1>1, <1>2
    <2> QED BY <1>1, <2>1, <2>2 DEF Types
  <1>4. Opens /\ Stacks(d)
    BY <1>1, FallsInFirst DEF Opens, Stacks, Incoming
  <1>5. Translated(d)
    BY <1>1, <1>2 DEF Translated, Operation
  <1>6. Widths(d) /\ Falls(d)
    <2>1. Reached = 0 /\ \A l \in Labels : ~Branches(l)
      BY <1>1 DEF Reached, Branches
    <2>2. \A l \in Labels : ~(l <= Reached)
      BY <1>2, <2>1
    <2> QED BY <1>1, <2>1, <2>2 DEF Widths, Falls
  <1>7. Phases /\ Defined
    BY <1>1 DEF Phases, Defined
  <1> QED BY <1>3, <1>4, <1>5, <1>6, <1>7 DEF TInv

-------------------------------------------------------------------------------
(* What the SSA values on a stack are at run time.                         *)

\* Sequences are equal when they are as long and their elements are equal.
LEMMA SameSeq ==
  ASSUME NEW S, NEW s \in Seq(S), NEW t \in Seq(S), Len(s) = Len(t), \A k \in 1..Len(s) : s[k] = t[k]
  PROVE  s = t
  OBVIOUS

\* SSA values that are defined have values of the program,
LEMMA ValsFacts ==
  ASSUME NEW e, Values(e), NEW q \in Seq(Ready(e))
  PROVE  /\ Vals(e, q) \in Seq(Value) /\ Len(Vals(e, q)) = Len(q)
         /\ \A k \in 1..Len(q) : Vals(e, q)[k] = Val(e, q[k])
  <1>1. ASSUME NEW r \in Ready(e) PROVE Val(e, r) \in Value
    BY DEF Val, Ready, Values, Value
  <1>2. Len(q) \in Nat /\ DOMAIN q = 1..Len(q) /\ \A k \in 1..Len(q) : q[k] \in Ready(e)
    OBVIOUS
  <1>3. Vals(e, q) = [k \in 1..Len(q) |-> Val(e, q[k])]
    BY <1>2 DEF Vals
  <1>4. \A k \in 1..Len(q) : Val(e, q[k]) \in Value
    BY <1>1, <1>2
  <1> HIDE DEF Value
  <1> QED BY <1>2, <1>3, <1>4

\* those of the two parts of a stack are the parts of theirs,
LEMMA ValsTops ==
  ASSUME NEW e, Values(e), NEW q \in Seq(Ready(e)), NEW n \in Nat, n <= Len(q)
  PROVE  Vals(e, Tops(q, n)) = Tops(Vals(e, q), n) /\ Vals(e, Rest(q, n)) = Rest(Vals(e, q), n)
  <1> DEFINE v == Vals(e, q)
  <1>1. v \in Seq(Value) /\ Len(v) = Len(q) /\ \A k \in 1..Len(q) : v[k] = Val(e, q[k])
    BY ValsFacts
  <1>2. /\ Tops(q, n) \in Seq(Ready(e)) /\ Len(Tops(q, n)) = n
        /\ Rest(q, n) \in Seq(Ready(e)) /\ Len(Rest(q, n)) = Len(q) - n
    BY TopsFacts
  <1>3. /\ Tops(v, n) \in Seq(Value) /\ Len(Tops(v, n)) = n
        /\ Rest(v, n) \in Seq(Value) /\ Len(Rest(v, n)) = Len(q) - n
    BY <1>1, TopsFacts
  <1>4. /\ \A k \in 1..n : Tops(q, n)[k] = q[Len(q) - n + k] /\ Tops(v, n)[k] = v[Len(q) - n + k]
        /\ \A k \in 1..Len(q) - n : Rest(q, n)[k] = q[k] /\ Rest(v, n)[k] = v[k]
    BY <1>1 DEF Tops, Rest
  <1>5. Vals(e, Tops(q, n)) = Tops(v, n)
    <2>1. /\ Vals(e, Tops(q, n)) \in Seq(Value) /\ Len(Vals(e, Tops(q, n))) = n
          /\ \A k \in 1..n : Vals(e, Tops(q, n))[k] = Val(e, Tops(q, n)[k])
      BY <1>2, ValsFacts
    <2>2. \A k \in 1..n : Len(q) - n + k \in 1..Len(q)
      OBVIOUS
    <2>3. \A k \in 1..n : Vals(e, Tops(q, n))[k] = Tops(v, n)[k]
      BY <1>1, <1>4, <2>1, <2>2
    <2> QED BY <1>3, <2>1, <2>3, SameSeq
  <1>6. Vals(e, Rest(q, n)) = Rest(v, n)
    <2>1. /\ Vals(e, Rest(q, n)) \in Seq(Value) /\ Len(Vals(e, Rest(q, n))) = Len(q) - n
          /\ \A k \in 1..Len(q) - n : Vals(e, Rest(q, n))[k] = Val(e, Rest(q, n)[k])
      BY <1>2, ValsFacts
    <2>2. \A k \in 1..Len(q) - n : k \in 1..Len(q)
      OBVIOUS
    <2>3. \A k \in 1..Len(q) - n : Vals(e, Rest(q, n))[k] = Rest(v, n)[k]
      BY <1>1, <1>4, <2>1, <2>2
    <2> QED BY <1>3, <2>1, <2>3, SameSeq
  <1> QED BY <1>5, <1>6

\* and so further down the stack,
LEMMA ValsDeeper ==
  ASSUME NEW e, Values(e), NEW q \in Seq(Ready(e)), NEW n \in 1..Len(q)
  PROVE  /\ Deeper(q, n) \in Ready(e) /\ Val(e, Deeper(q, n)) = Deeper(Vals(e, q), n)
         /\ Vals(e, Swapped(q, n)) = Swapped(Vals(e, q), n)
  <1> DEFINE v == Vals(e, q)
             m == Len(q) - n + 1
  <1>1. v \in Seq(Value) /\ Len(v) = Len(q) /\ \A k \in 1..Len(q) : v[k] = Val(e, q[k])
    BY ValsFacts
  <1>2. m \in 1..Len(q) /\ 1 \in 1..Len(q) /\ Len(q) \in 1..Len(q) /\ Len(q) - 1 + 1 = Len(q)
    OBVIOUS
  <1>3. /\ Deeper(q, n) = q[m] /\ Deeper(v, n) = v[m]
        /\ Deeper(q, 1) = q[Len(q)] /\ Deeper(v, 1) = v[Len(q)]
    BY <1>1, <1>2 DEF Deeper
  <1>4. Deeper(q, n) \in Ready(e) /\ Val(e, Deeper(q, n)) = Deeper(v, n)
    <2>1. q[m] \in Ready(e)
      BY <1>2
    <2> QED BY <1>1, <1>2, <1>3, <2>1
  <1>5. Vals(e, Swapped(q, n)) = Swapped(v, n)
    <2>1. Swapped(q, n) \in Seq(Ready(e)) /\ Len(Swapped(q, n)) = Len(q)
      BY DeeperFacts
    <2>2. Swapped(v, n) \in Seq(Value) /\ Len(Swapped(v, n)) = Len(q)
      BY <1>1, DeeperFacts
    <2>3. Vals(e, Swapped(q, n)) \in Seq(Value) /\ Len(Vals(e, Swapped(q, n))) = Len(q)
      BY <2>1, ValsFacts
    <2>4. ASSUME NEW k \in 1..Len(q)
          PROVE  Vals(e, Swapped(q, n))[k] = Swapped(v, n)[k]
      <3>1. Vals(e, Swapped(q, n))[k] = Val(e, Swapped(q, n)[k])
        BY <2>1, ValsFacts
      <3>2. Swapped(q, n)[k] = IF k = m THEN q[Len(q)] ELSE IF k = Len(q) THEN q[m] ELSE q[k]
        BY <1>2, <1>3 DEF Swapped
      <3>3. Swapped(v, n)[k] = IF k = m THEN v[Len(q)] ELSE IF k = Len(q) THEN v[m] ELSE v[k]
        BY <1>1, <1>2, <1>3 DEF Swapped
      <3> QED BY <1>1, <1>2, <3>1, <3>2, <3>3
    <2> QED BY <2>2, <2>3, <2>4, SameSeq
  <1> QED BY <1>4, <1>5

\* and after a push.
LEMMA ValsAppend ==
  ASSUME NEW e, Values(e), NEW q \in Seq(Ready(e)), NEW r \in Ready(e)
  PROVE  /\ Vals(e, Append(q, r)) = Append(Vals(e, q), Val(e, r))
         /\ Vals(e, q \o <<r, NullRef>>) = Vals(e, q) \o <<Val(e, r), Null>>
         /\ Vals(e, <<r>> \o q) = <<Val(e, r)>> \o Vals(e, q)
  <1> DEFINE v == Vals(e, q)
             x == Val(e, r)
  <1>1. v \in Seq(Value) /\ Len(v) = Len(q) /\ \A k \in 1..Len(q) : v[k] = Val(e, q[k])
    BY ValsFacts
  <1>2. x \in Value /\ Null \in Value /\ NullRef \in Ready(e) /\ Val(e, NullRef) = Null
    BY DEF Val, Ready, Values, Value
  <1>3. Vals(e, Append(q, r)) = Append(v, x)
    <2>1. Append(q, r) \in Seq(Ready(e)) /\ Len(Append(q, r)) = Len(q) + 1
      OBVIOUS
    <2>2. Append(v, x) \in Seq(Value) /\ Len(Append(v, x)) = Len(q) + 1
      BY <1>1, <1>2
    <2>3. /\ Vals(e, Append(q, r)) \in Seq(Value) /\ Len(Vals(e, Append(q, r))) = Len(q) + 1
          /\ \A k \in 1..Len(q) + 1 : Vals(e, Append(q, r))[k] = Val(e, Append(q, r)[k])
      BY <2>1, ValsFacts
    <2>4. \A k \in 1..Len(q) + 1 : Vals(e, Append(q, r))[k] = Append(v, x)[k]
      BY <1>1, <1>2, <2>3
    <2> QED BY <2>2, <2>3, <2>4, SameSeq
  <1>4. Vals(e, q \o <<r, NullRef>>) = v \o <<x, Null>>
    <2> DEFINE q2 == q \o <<r, NullRef>>
    <2>1. q2 \in Seq(Ready(e)) /\ Len(q2) = Len(q) + 2
      BY <1>2
    <2>2. v \o <<x, Null>> \in Seq(Value) /\ Len(v \o <<x, Null>>) = Len(q) + 2
      BY <1>1, <1>2
    <2>3. /\ Vals(e, q2) \in Seq(Value) /\ Len(Vals(e, q2)) = Len(q) + 2
          /\ \A k \in 1..Len(q) + 2 : Vals(e, q2)[k] = Val(e, q2[k])
      BY <2>1, ValsFacts
    <2>4. ASSUME NEW k \in 1..Len(q) + 2
          PROVE  Vals(e, q2)[k] = (v \o <<x, Null>>)[k]
      <3>1. q2[k] = IF k <= Len(q) THEN q[k] ELSE IF k = Len(q) + 1 THEN r ELSE NullRef
        OBVIOUS
      <3>2. (v \o <<x, Null>>)[k] = IF k <= Len(q) THEN v[k] ELSE IF k = Len(q) + 1 THEN x ELSE Null
        BY <1>1
      <3>3. Vals(e, q2)[k] = Val(e, q2[k])
        BY <2>3
      <3>4. CASE k <= Len(q)
        <4>1. k \in 1..Len(q)
          BY <3>4
        <4> QED BY <1>1, <3>1, <3>2, <3>3, <3>4, <4>1
      <3>5. CASE ~(k <= Len(q))
        BY <1>2, <3>1, <3>2, <3>3, <3>5
      <3> QED BY <3>4, <3>5
    <2> QED BY <2>2, <2>3, <2>4, SameSeq
  <1>5. Vals(e, <<r>> \o q) = <<x>> \o v
    <2> DEFINE q2 == <<r>> \o q
    <2>1. q2 \in Seq(Ready(e)) /\ Len(q2) = Len(q) + 1
      OBVIOUS
    <2>2. <<x>> \o v \in Seq(Value) /\ Len(<<x>> \o v) = Len(q) + 1
      BY <1>1, <1>2
    <2>3. /\ Vals(e, q2) \in Seq(Value) /\ Len(Vals(e, q2)) = Len(q) + 1
          /\ \A k \in 1..Len(q) + 1 : Vals(e, q2)[k] = Val(e, q2[k])
      BY <2>1, ValsFacts
    <2>4. ASSUME NEW k \in 1..Len(q) + 1
          PROVE  Vals(e, q2)[k] = (<<x>> \o v)[k]
      <3>1. q2[k] = IF k = 1 THEN r ELSE q[k - 1]
        OBVIOUS
      <3>2. (<<x>> \o v)[k] = IF k = 1 THEN x ELSE v[k - 1]
        BY <1>1
      <3>3. k = 1 \/ k - 1 \in 1..Len(q)
        OBVIOUS
      <3> QED BY <1>1, <2>3, <3>1, <3>2, <3>3
    <2> QED BY <2>2, <2>3, <2>4, SameSeq
  <1> QED BY <1>3, <1>4, <1>5

\* The values of a stack depend on nothing else.
LEMMA ValsAgree ==
  ASSUME NEW e, NEW f, NEW q, \A k \in DOMAIN q : q[k] = NullRef \/ e[q[k]] = f[q[k]]
  PROVE  Vals(e, q) = Vals(f, q)
  BY DEF Vals, Val

-------------------------------------------------------------------------------
(* Where a step of the compiled program goes.                              *)

Arrived(l, q) == [s \in {l} \X (1..width[l]) |-> q[s[2]]]
Onward(e) ==
  IF pc + 1 \in Labels THEN Arrived(pc + 1, Vals(e, falls[pc + 1]))
  ELSE Restrict(e, DOMAIN e \cap Range(pir[pc + 1].before))

\* The instruction that runs was translated to what fits it.
LEMMA RunFacts ==
  ASSUME NEW d, Formed(d), TInv(d), phase = "run", pc # 0
  PROVE  LET H == Handled(code, pc, P.before)
         IN  /\ pc \in 1..Size /\ pc \in Nat \ {0} /\ Live(code, pc)
             /\ P.before \in Seq(Ready(env)) /\ Values(env)
             /\ P.before \in Seq(Ref(pc)) /\ Len(P.before) = Depth(code, d, pc)
             /\ P.kind = H.kind /\ P.uses = H.uses /\ P.result = H.result /\ P.out = H.out
             /\ P.uses \in Seq(Ready(env)) /\ P.out \in Seq(Ready(env))
  <1> DEFINE H == Handled(code, pc, P.before)
  <1>1. pc \in 1..Size /\ Live(code, pc) /\ P.before \in Seq(Ready(env)) /\ Values(env)
    BY DEF TInv, Defined
  <1>2. pc \in Nat \ {0}
    BY <1>1, CodeFacts
  <1>3. Fits(d, pc)
    BY <1>1, TranslatedFits
  <1>4. /\ P.before \in Seq(Ref(pc)) /\ Len(P.before) = Depth(code, d, pc)
        /\ P.kind = H.kind /\ P.uses = H.uses /\ P.result = H.result /\ P.out = H.out
    BY <1>3 DEF Fits, P
  <1>5. NullRef \in Ready(env)
    BY DEF Ready
  <1>6. H.uses \in Seq(Ready(env)) /\ H.out \in Seq(Ready(env))
    <2> DEFINE f == [r \in DOMAIN env \cup {Res(pc)} |-> Null]
    <2>1. DOMAIN env \subseteq DOMAIN f /\ Res(pc) \in DOMAIN f
      OBVIOUS
    <2> QED BY <1>1, <1>4, <2>1, HandledReady
  <1> QED BY <1>1, <1>2, <1>4, <1>6

\* A branch brings the block its arguments.
LEMMA ArrivedFacts ==
  ASSUME NEW d, Formed(d), TInv(d), phase = "run", NEW l \in Labels,
         NEW q \in Seq(Value), Len(q) = d[l]
  PROVE  /\ l \in 1..Size /\ Live(code, l) /\ ~NotPushed(code, l)
         /\ pir[l].before \in Seq(Ready(Arrived(l, q))) /\ Values(Arrived(l, q))
         /\ Vals(Arrived(l, q), pir[l].before) = q
  <1>1. l \in 1..Size /\ l \in Nat \ {0} /\ Live(code, l) /\ d[l] \in Nat
    BY CodeFacts DEF Live
  <1>2. ~NotPushed(code, l)
    BY <1>1, NotPushedReturns
  <1>3. Fits(d, l) /\ width[l] = d[l]
    BY <1>1, TranslatedFits
  <1>4. pir[l].before = Args(l, d[l])
    BY <1>3 DEF Fits, Expected
  <1> DEFINE e == Arrived(l, q)
  <1>5. /\ DOMAIN e = {l} \X (1..d[l])
        /\ \A k \in 1..d[l] : <<l, k>> \in DOMAIN e /\ e[<<l, k>>] = q[k]
    BY <1>3 DEF Arrived
  <1>6. Values(e)
    <2> SUFFICES ASSUME NEW r \in DOMAIN e PROVE e[r] \in Value
      BY DEF Values
    <2>1. PICK k \in 1..d[l] : r = <<l, k>>
      BY <1>5
    <2>2. q[k] \in Value
      BY <2>1
    <2> QED BY <1>5, <2>1, <2>2
  <1>7. \A k \in 1..d[l] : <<l, k>> \in Ready(e) /\ <<l, k>> # NullRef /\ Val(e, <<l, k>>) = q[k]
    BY <1>1, <1>5 DEF Ready, NullRef, Val
  <1> HIDE DEF e
  <1>8. /\ Args(l, d[l]) \in Seq(Ready(e)) /\ Len(Args(l, d[l])) = d[l]
        /\ \A k \in 1..d[l] : Args(l, d[l])[k] = <<l, k>>
    BY <1>1, <1>7 DEF Args
  <1>9. Vals(e, Args(l, d[l])) = q
    <2>1. /\ Vals(e, Args(l, d[l])) \in Seq(Value) /\ Len(Vals(e, Args(l, d[l]))) = d[l]
          /\ \A k \in 1..d[l] : Vals(e, Args(l, d[l]))[k] = q[k]
      <3>1. /\ Vals(e, Args(l, d[l])) \in Seq(Value) /\ Len(Vals(e, Args(l, d[l]))) = Len(Args(l, d[l]))
            /\ \A k \in 1..Len(Args(l, d[l])) : Vals(e, Args(l, d[l]))[k] = Val(e, Args(l, d[l])[k])
        BY <1>6, <1>8, ValsFacts
      <3> QED BY <1>7, <1>8, <3>1
    <2> QED BY <2>1, SameSeq
  <1> QED BY <1>1, <1>2, <1>4, <1>6, <1>8, <1>9 DEF e

\* What an instruction leaves on the stack is there for the one below it.
LEMMA OnwardFacts ==
  ASSUME NEW d, Formed(d), TInv(d), phase = "run", pc # 0, P.kind \in {"call", "branch", "iter"},
         NEW e, Values(e), DOMAIN env \subseteq DOMAIN e, Makes(code, pc) => Res(pc) \in DOMAIN e
  PROVE  LET after == Handled(code, pc, P.before).after
         IN  /\ pc + 1 \in 1..Size /\ Live(code, pc + 1) /\ after \in Seq(Ready(e))
             /\ pir[pc + 1].before \in Seq(Ready(Onward(e))) /\ Values(Onward(e))
             /\ Vals(Onward(e), pir[pc + 1].before) = Vals(e, after)
  <1> DEFINE after == Handled(code, pc, P.before).after
             l == pc + 1
  <1>1. /\ pc \in 1..Size /\ pc \in Nat \ {0} /\ Live(code, pc) /\ Size \in Nat
        /\ P.before \in Seq(Ready(env)) /\ Len(P.before) = Depth(code, d, pc)
        /\ P.kind = Handled(code, pc, P.before).kind /\ P.result = Handled(code, pc, P.before).result
    BY RunFacts, CodeFacts
  <1>2. OpAt(code, pc) \notin Terminators
    BY <1>1, KindFacts DEF Terminators
  <1>3. Ready(env) \subseteq Ready(e) /\ NullRef \in Ready(env) /\ (Makes(code, pc) => Res(pc) \in Ready(e))
    BY DEF Ready
  <1>4. after \in Seq(Ready(e)) /\ pc < Size /\ Len(after) = Depth(code, d, l)
    <2>1. after \in Seq(Ready(e))
      BY <1>1, HandledReady
    <2>2. pc < Size /\ Len(after) = Depth(code, d, l)
      BY <1>1, <1>2, RunFacts, HandledFacts
    <2> QED BY <2>1, <2>2
  <1>5. l \in 1..Size /\ l \in Nat \ {0} /\ l # 1 /\ l - 1 = pc
    BY <1>1, <1>4
  <1>6. FallsIn(code, l) /\ Live(code, l)
    BY <1>1, <1>2, FallsInNext DEF Live
  <1>7. Incoming(l) = after
    BY <1>5 DEF Incoming, P
  <1>8. Vals(e, after) \in Seq(Value) /\ Len(Vals(e, after)) = Len(after)
    BY <1>4, ValsFacts
  <1>9. CASE l \in Labels
    <2>1. falls[l] = after
      BY <1>6, <1>7, <1>9, TranslatedFits DEF TInv, Falls
    <2>2. Len(after) = d[l]
      BY <1>4, <1>5, <1>9, NotPushedReturns DEF Depth
    <2>3. Onward(e) = Arrived(l, Vals(e, after))
      BY <1>9, <2>1 DEF Onward
    <2> QED BY <1>4, <1>5, <1>6, <1>8, <1>9, <2>2, <2>3, ArrivedFacts
  <1>10. CASE l \notin Labels
    <2>1. pir[l].before = after
      BY <1>5, <1>6, <1>7, <1>10, TranslatedFits DEF Fits, Expected
    <2> DEFINE f == Onward(e)
    <2>2. f = [r \in DOMAIN e \cap Range(after) |-> e[r]]
      BY <1>10, <2>1 DEF Onward, Restrict
    <2>3. DOMAIN f = DOMAIN e \cap Range(after) /\ \A r \in DOMAIN f : f[r] = e[r]
      BY <2>2
    <2>4. Values(f)
      BY <2>3 DEF Values
    <2>5. \A k \in 1..Len(after) : after[k] \in Ready(e) /\ after[k] \in Range(after)
      BY <1>4 DEF Range
    <2> HIDE DEF f, after
    <2>6. \A k \in 1..Len(after) : after[k] \in Ready(f) /\ (after[k] = NullRef \/ f[after[k]] = e[after[k]])
      BY <2>3, <2>5 DEF Ready
    <2>7. after \in Seq(Ready(f)) /\ DOMAIN after = 1..Len(after)
      BY <1>4, <2>6
    <2>8. Vals(f, after) = Vals(e, after)
      BY <2>6, <2>7, ValsAgree
    <2> QED BY <1>4, <1>5, <1>6, <2>1, <2>4, <2>7, <2>8 DEF f, after
  <1> QED BY <1>9, <1>10

\* A run changes nothing of the translation.
LEMMA CompiledSame ==
  ASSUME NEW d, Formed(d), TInv(d), phase = "run", Compiled, Defined'
  PROVE  TInv(d)'
  <1>1. /\ code' = code /\ phase' = phase /\ next' = next /\ stack' = stack /\ here' = here /\ open' = open
        /\ complete' = complete /\ width' = width /\ falls' = falls /\ pir' = pir
    BY DEF Compiled
  <1>2. Labels' = Labels /\ Size' = Size /\ Verified' = Verified
    BY <1>1 DEF Labels, Size, Verified
  <1>3. Types' /\ Opens' /\ Widths(d)' /\ Phases'
    BY <1>1, <1>2 DEF TInv, Types, Opens, Widths, Reached, Branches, Phases
  <1>4. Stacks(d)' /\ Falls(d)'
    BY <1>1, <1>2 DEF TInv, Stacks, Falls, Incoming, Reached
  <1>5. Translated(d)'
    BY <1>1, <1>2 DEF TInv, Translated, Fits, Expected, Incoming
  <1> QED BY <1>3, <1>4, <1>5 DEF TInv

-------------------------------------------------------------------------------
(* The steps of the compiled program.                                      *)

Pushed(p, i) == IF NotPushed(p, i) THEN <<None>> ELSE <<>>

\* CPython's stack is what the SSA values on meta.stack are, and a None not pushed.
LEMMA StkFacts ==
  ASSUME NEW d, Formed(d), TInv(d), phase = "run", pc # 0
  PROVE  /\ Stk = Vals(env, P.before) \o Pushed(code, pc)
         /\ OpAt(code, pc) # "RETURN_VALUE" => Stk = Vals(env, P.before)
         /\ Vals(env, P.before) \in Seq(Value) /\ Len(Vals(env, P.before)) = Len(P.before)
  <1>1. SkippedNone <=> NotPushed(code, pc)
    BY DEF SkippedNone, NotPushed, OpAt
  <1>2. Stk = Vals(env, P.before) \o Pushed(code, pc)
    BY <1>1 DEF Stk, Pushed
  <1>3. Vals(env, P.before) \in Seq(Value) /\ Len(Vals(env, P.before)) = Len(P.before)
    BY RunFacts, ValsFacts
  <1>4. OpAt(code, pc) # "RETURN_VALUE" => ~NotPushed(code, pc)
    BY RunFacts, NotPushedReturns
  <1>5. OpAt(code, pc) # "RETURN_VALUE" => Stk = Vals(env, P.before)
    BY <1>2, <1>3, <1>4 DEF Pushed
  <1> QED BY <1>2, <1>3, <1>5

\* A step to the target of a jump, with what the jump brings.
LEMMA ArrivedStep ==
  ASSUME NEW d, Formed(d), TInv(d), phase = "run", Compiled, NEW l \in Labels,
         NEW q \in Seq(Value), Len(q) = d[l], pc' = l, env' = Arrived(l, q)
  PROVE  Defined' /\ Stk' = q
  <1>1. code' = code /\ phase' = phase /\ pir' = pir /\ Size' = Size
    BY DEF Compiled, Size
  <1>2. /\ l \in 1..Size /\ Live(code, l) /\ ~NotPushed(code, l)
        /\ pir[l].before \in Seq(Ready(env')) /\ Values(env') /\ Vals(env', pir[l].before) = q
    BY ArrivedFacts
  <1>3. P' = pir[l] /\ pc' # 0
    BY <1>1, <1>2, CodeFacts DEF P
  <1>4. Defined'
    BY <1>1, <1>2, <1>3 DEF Defined
  <1>5. ~SkippedNone'
    BY <1>1, <1>2 DEF SkippedNone, NotPushed, OpAt
  <1>6. Stk' = Vals(env', P'.before) \o <<>>
    BY <1>1, <1>3, <1>5 DEF Stk
  <1> QED BY <1>2, <1>3, <1>4, <1>6

\* A step to the instruction below, with what is left on the stack.
LEMMA OnwardStep ==
  ASSUME NEW d, Formed(d), TInv(d), phase = "run", pc # 0, P.kind \in {"call", "branch", "iter"}, Compiled,
         NEW e, Values(e), DOMAIN env \subseteq DOMAIN e, Makes(code, pc) => Res(pc) \in DOMAIN e,
         pc' = pc + 1, env' = Onward(e)
  PROVE  LET after == Handled(code, pc, P.before).after
         IN  Defined' /\ after \in Seq(Ready(e)) /\ Stk' = Vals(e, after) \o Pushed(code, pc + 1)
  <1> DEFINE after == Handled(code, pc, P.before).after
             l == pc + 1
  <1>1. code' = code /\ phase' = phase /\ pir' = pir /\ Size' = Size
    BY DEF Compiled, Size
  <1>2. /\ l \in 1..Size /\ Live(code, l) /\ after \in Seq(Ready(e))
        /\ pir[l].before \in Seq(Ready(env')) /\ Values(env') /\ Vals(env', pir[l].before) = Vals(e, after)
    BY OnwardFacts
  <1>3. P' = pir[l] /\ pc' # 0
    BY <1>1, <1>2, CodeFacts DEF P
  <1>4. Defined'
    BY <1>1, <1>2, <1>3 DEF Defined
  <1>5. SkippedNone' <=> NotPushed(code, l)
    BY <1>1 DEF SkippedNone, NotPushed, OpAt
  <1>6. Stk' = Vals(e, after) \o Pushed(code, l)
    BY <1>1, <1>2, <1>3, <1>5 DEF Stk, Pushed
  <1> QED BY <1>2, <1>4, <1>6

\* The result of an instruction changes no other SSA value.
LEMMA WithFacts ==
  ASSUME NEW d, Formed(d), TInv(d), phase = "run", pc # 0, NEW v \in Value
  PROVE  /\ Values(With(v)) /\ DOMAIN env \subseteq DOMAIN With(v) /\ Res(pc) \in DOMAIN With(v)
         /\ Val(With(v), Res(pc)) = v
         /\ \A q \in Seq(Ref(pc)) : q \in Seq(Ready(env)) =>
              q \in Seq(Ready(With(v))) /\ Vals(With(v), q) = Vals(env, q)
  <1>1. pc \in Nat \ {0} /\ Values(env)
    BY RunFacts
  <1>2. /\ DOMAIN With(v) = DOMAIN env \cup {Res(pc)} /\ With(v)[Res(pc)] = v
        /\ \A r \in DOMAIN env : r # Res(pc) => With(v)[r] = env[r]
    BY DEF With, Res
  <1>3. Values(With(v))
    BY <1>1, <1>2 DEF Values
  <1>4. Val(With(v), Res(pc)) = v
    BY <1>1, <1>2, RefFacts DEF Val
  <1>5. ASSUME NEW q \in Seq(Ref(pc)), q \in Seq(Ready(env))
        PROVE  q \in Seq(Ready(With(v))) /\ Vals(With(v), q) = Vals(env, q)
    <2>1. Ready(env) \subseteq Ready(With(v))
      BY <1>2 DEF Ready
    <2>2. q \in Seq(Ready(With(v)))
      BY <1>5, <2>1
    <2>3. \A k \in DOMAIN q : q[k] \in Ref(pc) /\ q[k] \in Ready(env)
      BY <1>5
    <2>4. Res(pc) \notin Ref(pc)
      BY <1>1, RefFacts
    <2>5. \A k \in DOMAIN q : q[k] = NullRef \/ With(v)[q[k]] = env[q[k]]
      BY <1>2, <2>3, <2>4 DEF Ready
    <2> QED BY <2>2, <2>5, ValsAgree
  <1> QED BY <1>2, <1>3, <1>4, <1>5

\* What a call does to the values on the stack: e are the SSA values after it.
LEMMA CallStep ==
  ASSUME NEW d, Formed(d), TInv(d), RunCall
  PROVE  LET after == Handled(code, pc, P.before).after
         IN  \E e :
               /\ Values(e) /\ P.before \in Seq(Ready(e)) /\ Vals(e, P.before) = Vals(env, P.before)
               /\ IF Makes(code, pc) THEN Res(pc) \in Ready(e) /\ Val(e, Res(pc)) \in P.result ELSE e = env
               /\ Defined' /\ pc' = pc + 1 /\ Stk' = Vals(e, after) \o Pushed(code, pc + 1)
               /\ after \in Seq(Ready(e))
  <1> DEFINE after == Handled(code, pc, P.before).after
  <1>1. phase = "run" /\ pc # 0 /\ P.kind = "call" /\ Compiled
    BY DEF RunCall, Running
  <1>2. /\ P.before \in Seq(Ready(env)) /\ P.before \in Seq(Ref(pc)) /\ Values(env)
        /\ P.result = Handled(code, pc, P.before).result
    BY <1>1, RunFacts
  <1>3. PICK e \in IF P.result = {} THEN {env} ELSE {With(v) : v \in P.result} : Continue(e)
    BY DEF RunCall
  <1>4. pc' = pc + 1 /\ env' = Onward(e)
    BY <1>3 DEF Continue, Enter, Onward, Arrived
  <1>5. P.result = IF ~Makes(code, pc) THEN {} ELSE IF OpAt(code, pc) = "LOAD_NONE" THEN {None} ELSE Data
    BY <1>2, ResultFacts
  <1>6. CASE ~Makes(code, pc)
    <2>1. e = env
      BY <1>3, <1>5, <1>6
    <2> QED BY <1>1, <1>2, <1>4, <1>6, <2>1, OnwardStep
  <1>7. CASE Makes(code, pc)
    <2>1. P.result # {} /\ P.result \subseteq Value
      BY <1>5, <1>7, CodegenAssumption DEF Value
    <2>2. PICK v \in P.result : e = With(v)
      BY <1>3, <2>1
    <2>3. /\ Values(e) /\ DOMAIN env \subseteq DOMAIN e /\ Res(pc) \in DOMAIN e /\ Val(e, Res(pc)) = v
          /\ P.before \in Seq(Ready(e)) /\ Vals(e, P.before) = Vals(env, P.before)
      BY <1>1, <1>2, <2>1, <2>2, WithFacts
    <2>4. Res(pc) \in Ready(e)
      BY <2>3 DEF Ready
    <2>5. Defined' /\ after \in Seq(Ready(e)) /\ Stk' = Vals(e, after) \o Pushed(code, pc + 1)
      BY <1>1, <1>4, <2>3, OnwardStep
    <2> QED BY <1>4, <1>7, <2>2, <2>3, <2>4, <2>5
  <1> QED BY <1>6, <1>7

-------------------------------------------------------------------------------
(* They are the steps of CPython's stack machine.                          *)

\* MAP_ADD reaches past the pair it pops for the map below it.
LEMMA MapAddReach ==
  ASSUME NEW J, J.op = "MAP_ADD" PROVE Reach(J) = J.n + 2
  BY DEF Reach, Conditional

\* It is the step CPython takes,
LEMMA CallMeans ==
  ASSUME NEW d, Formed(d), TInv(d), RunCall
  PROVE  Python!Next
  <1> DEFINE q  == P.before
             w  == Stk
             H  == Handled(code, pc, q)
             op == OpAt(code, pc)
             n  == code.body[pc].n
             r  == Res(pc)
  <1>1. phase = "run" /\ pc # 0 /\ P.kind = "call" /\ code' = code /\ used' = Vals(env, P.uses)
    BY DEF RunCall, Running, Compiled
  <1>2. /\ pc \in 1..Size /\ Live(code, pc) /\ q \in Seq(Ready(env)) /\ Values(env)
        /\ Len(q) = Depth(code, d, pc)
        /\ P.kind = H.kind /\ P.uses = H.uses /\ P.result = H.result
    BY <1>1, RunFacts
  <1>3. op \in Opcodes /\ op \notin Jumps \cup Terminators
    BY <1>1, <1>2, KindFacts
  <1>4. w = Vals(env, q) /\ w \in Seq(Value) /\ Len(w) = Len(q)
    BY <1>1, <1>3, StkFacts DEF Terminators
  <1>5. n \in Nat /\ Len(q) \in Nat /\ pc # 0 /\ code.body[pc].op = op
    BY <1>1, <1>2, CodeFacts DEF OpAt
  <1>6. Reach(code.body[pc]) <= Len(q) /\ Operand(code.body[pc])
    <2>1. pc \in DOMAIN code.body /\ d[pc] \in Nat
      BY <1>2, CodeFacts
    <2>2. Deep(code, d, pc)
      BY <1>2, <2>1 DEF Formed, WellFormed
    <2>3. Len(q) = d[pc]
      BY <1>2, <1>3, NotPushedReturns DEF Depth, Terminators
    <2> QED BY <2>2, <2>3 DEF Deep
  <1>7. PICK e : /\ Values(e) /\ q \in Seq(Ready(e)) /\ Vals(e, q) = w
                 /\ IF Makes(code, pc) THEN r \in Ready(e) /\ Val(e, r) \in H.result ELSE e = env
                 /\ pc' = pc + 1 /\ Stk' = Vals(e, H.after) \o Pushed(code, pc + 1)
                 /\ H.after \in Seq(Ready(e))
    BY <1>2, <1>4, CallStep
  <1> DEFINE v == Val(e, r)
  <1>8. ASSUME NEW m \in Nat, m <= Len(q)
        PROVE  /\ Vals(env, Tops(q, m)) = Tops(w, m) /\ Tops(q, m) \in Seq(Ready(env))
               /\ Vals(e, Rest(q, m)) = Rest(w, m) /\ Rest(q, m) \in Seq(Ready(e))
    <2>1. Tops(q, m) \in Seq(Ready(env)) /\ Rest(q, m) \in Seq(Ready(e))
      BY <1>2, <1>7, <1>8, TopsFacts
    <2>2. Vals(env, Tops(q, m)) = Tops(w, m)
      BY <1>2, <1>4, <1>8, ValsTops
    <2>3. Vals(e, Rest(q, m)) = Rest(w, m)
      BY <1>7, <1>8, ValsTops
    <2> QED BY <2>1, <2>2, <2>3
  <1>9. ASSUME NEW m \in 1..Len(q)
        PROVE  /\ Deeper(q, m) \in Ready(env) /\ Val(env, Deeper(q, m)) = Deeper(w, m)
               /\ Deeper(q, m) \in Ready(e) /\ Val(e, Deeper(q, m)) = Deeper(w, m)
               /\ Vals(e, Swapped(q, m)) = Swapped(w, m)
    <2>1. Deeper(q, m) \in Ready(env) /\ Val(env, Deeper(q, m)) = Deeper(w, m)
      BY <1>2, <1>4, ValsDeeper
    <2>2. /\ Deeper(q, m) \in Ready(e) /\ Val(e, Deeper(q, m)) = Deeper(w, m)
          /\ Vals(e, Swapped(q, m)) = Swapped(w, m)
      BY <1>7, ValsDeeper
    <2> QED BY <2>1, <2>2
  <1>10. ASSUME NEW a \in Seq(Ready(e)), NEW c \in Ready(e)
         PROVE  /\ Vals(e, Append(a, c)) = Append(Vals(e, a), Val(e, c))
                /\ Vals(e, a \o <<c, NullRef>>) = Vals(e, a) \o <<Val(e, c), Null>>
    BY <1>7, ValsAppend
  <1>11. ASSUME NEW a \in Seq(Ready(env)), NEW c \in Ready(env)
         PROVE  Vals(env, <<c>> \o a) = <<Val(env, c)>> \o Vals(env, a)
    BY <1>2, ValsAppend
  <1>12. Vals(env, <<>>) = <<>> /\ Vals(e, H.after) \in Seq(Value)
    <2>1. Vals(env, <<>>) = <<>>
      BY DEF Vals
    <2> QED BY <1>7, <2>1, ValsFacts
  <1>13. op # "LOAD_NONE" \/ code.fn => Stk' = Vals(e, H.after)
    <2>1. NotPushed(code, pc + 1) => op = "LOAD_NONE" /\ ~code.fn
      BY <1>2, CodeFacts DEF NotPushed
    <2> QED BY <1>7, <1>12, <2>1 DEF Pushed
  <1>14. NullRef \in Ready(e) /\ Val(e, NullRef) = Null
    BY DEF Ready, Val
  <1>15. CASE op = "NOP"
    <2>1. H.uses = <<>> /\ H.after = q /\ H.result = {}
      BY <1>15 DEF Handled, Calls, Becomes
    <2>2. used' = <<>>
      BY <1>1, <1>2, <1>12, <2>1
    <2>3. Stk' = w
      BY <1>7, <1>13, <1>15, <2>1
    <2>4. Python!Nop
      BY <1>1, <1>5, <1>7, <1>15, <2>2, <2>3 DEF Python!Nop, Python!Is, Python!Does
    <2> QED BY <2>4 DEF Python!Next
  <1>16. CASE op = "LOAD"
    <2>1. H.uses = <<>> /\ H.after = Append(q, r) /\ H.result = Data
      BY <1>16 DEF Handled, Calls, Becomes
    <2>2. r \in Ready(e) /\ v \in Data
      BY <1>7, <1>16, <2>1 DEF Makes
    <2>3. used' = <<>>
      BY <1>1, <1>2, <1>12, <2>1
    <2>4. Stk' = Append(w, v)
      BY <1>7, <1>13, <1>10, <1>16, <2>1, <2>2
    <2>5. Python!Load
      BY <1>1, <1>5, <1>7, <1>16, <2>3, <2>4, <2>2 DEF Python!Load, Python!Is, Python!Does
    <2> QED BY <2>5 DEF Python!Next
  <1>17. CASE op = "PUSH_NULL"
    <2>1. H.uses = <<>> /\ H.after = Append(q, NullRef) /\ H.result = {}
      BY <1>17 DEF Handled, Calls, Becomes
    <2>2. used' = <<>>
      BY <1>1, <1>2, <1>12, <2>1
    <2>3. Stk' = Append(w, Null)
      BY <1>7, <1>13, <1>10, <1>14, <1>17, <2>1
    <2>4. Python!PushNull
      BY <1>1, <1>5, <1>7, <1>17, <2>2, <2>3 DEF Python!PushNull, Python!Is, Python!Does
    <2> QED BY <2>4 DEF Python!Next
  <1>18. CASE op = "LOAD_GLOBAL"
    <2>1. H.uses = <<>> /\ H.after = q \o <<r, NullRef>> /\ H.result = Data
      BY <1>18 DEF Handled, Calls, Becomes
    <2>2. r \in Ready(e) /\ v \in Data
      BY <1>7, <1>18, <2>1 DEF Makes
    <2>3. used' = <<>>
      BY <1>1, <1>2, <1>12, <2>1
    <2>4. Stk' = w \o <<v, Null>>
      BY <1>7, <1>13, <1>10, <1>14, <1>18, <2>1, <2>2
    <2>5. n = 1
      BY <1>5, <1>6, <1>18 DEF Operand
    <2>6. Tops(w, 0) = <<>> /\ Rest(w, 0) = w
      BY <1>4 DEF Tops, Rest
    <2>7. Python!LoadCallee("LOAD_GLOBAL", 0)
      BY <1>1, <1>5, <1>7, <1>18, <2>3, <2>4, <2>2, <2>5, <2>6 DEF Python!LoadCallee, Python!Is,
         Python!Does, Python!Top, Python!Below, Python!N, Tops, Rest
    <2> QED BY <2>7 DEF Python!Next
  <1>19. CASE op = "LOAD_ATTR"
    <2>1. H.uses = Tops(q, 1) /\ H.after = Rest(q, 1) \o <<r, NullRef>> /\ H.result = Data
      BY <1>19 DEF Handled, Calls, Becomes
    <2>2. 1 \in Nat /\ 1 <= Len(q)
      BY <1>5, <1>6, <1>19 DEF Reach, Operand, Conditional
    <2>3. r \in Ready(e) /\ v \in Data
      BY <1>7, <1>19, <2>1 DEF Makes
    <2>4. used' = Tops(w, 1)
      BY <1>1, <1>2, <1>8, <2>1, <2>2
    <2>5. Stk' = Rest(w, 1) \o <<v, Null>>
      BY <1>7, <1>13, <1>8, <1>10, <1>14, <1>19, <2>1, <2>2, <2>3
    <2>6. n = 1
      BY <1>5, <1>6, <1>19 DEF Operand
    <2>7. Python!LoadCallee("LOAD_ATTR", 1)
      BY <1>1, <1>5, <1>7, <1>19, <2>4, <2>5, <2>3, <2>6 DEF Python!LoadCallee, Python!Is, Python!Does,
         Python!Top, Python!Below, Python!N, Tops, Rest
    <2> QED BY <2>7 DEF Python!Next
  <1>20. CASE op = "OPERATE"
    <2>1. H.uses = Tops(q, n) /\ H.after = Append(Rest(q, n), r) /\ H.result = Data
      BY <1>20 DEF Handled, Calls, Becomes
    <2>2. n \in Nat /\ n <= Len(q)
      BY <1>5, <1>6, <1>20 DEF Reach, Operand, Conditional
    <2>3. r \in Ready(e) /\ v \in Data
      BY <1>7, <1>20, <2>1 DEF Makes
    <2>4. used' = Tops(w, n)
      BY <1>1, <1>2, <1>8, <2>1, <2>2
    <2>5. Stk' = Append(Rest(w, n), v)
      BY <1>7, <1>13, <1>8, <1>10, <1>20, <2>1, <2>2, <2>3
    <2>6. Python!Operate
      BY <1>1, <1>5, <1>7, <1>20, <2>4, <2>5, <2>3 DEF Python!Operate, Python!Is, Python!Does,
         Python!Top, Python!Below, Python!N, Tops, Rest
    <2> QED BY <2>6 DEF Python!Next
  <1>21. CASE op = "CALL"
    <2>1. /\ H.uses = <<Deeper(q, n + 2)>> \o Tops(q, n) /\ H.after = Append(Rest(q, n + 2), r)
          /\ H.result = Data
      BY <1>21 DEF Handled, Calls, Becomes
    <2>2. n \in Nat /\ n <= Len(q) /\ n + 2 \in Nat /\ n + 2 <= Len(q) /\ n + 2 \in 1..Len(q)
      BY <1>5, <1>6, <1>21 DEF Reach, Operand, Conditional
    <2>3. r \in Ready(e) /\ v \in Data
      BY <1>7, <1>21, <2>1 DEF Makes
    <2>4. used' = <<Deeper(w, n + 2)>> \o Tops(w, n)
      <3>1. Tops(q, n) \in Seq(Ready(env)) /\ Vals(env, Tops(q, n)) = Tops(w, n)
        BY <1>8, <2>2
      <3>2. Deeper(q, n + 2) \in Ready(env) /\ Val(env, Deeper(q, n + 2)) = Deeper(w, n + 2)
        BY <1>9, <2>2
      <3> QED BY <1>1, <1>2, <1>11, <2>1, <3>1, <3>2
    <2>5. Stk' = Append(Rest(w, n + 2), v)
      BY <1>7, <1>13, <1>8, <1>10, <1>21, <2>1, <2>2, <2>3
    <2>6. Python!Call
      BY <1>1, <1>5, <1>7, <1>21, <2>4, <2>5, <2>3 DEF Python!Call, Python!Is, Python!Does, Python!Top,
         Python!Below, Python!At, Python!N, Tops, Rest, Deeper
    <2> QED BY <2>6 DEF Python!Next
  <1>22. CASE op = "MAKE_FUNCTION"
    <2>1. H.uses = <<>> /\ H.after = Append(Rest(q, 1), r) /\ H.result = Data
      BY <1>22 DEF Handled, Calls, Becomes
    <2>2. 1 \in Nat /\ 1 <= Len(q)
      BY <1>5, <1>6, <1>22 DEF Reach, Operand, Conditional
    <2>3. r \in Ready(e) /\ v \in Data
      BY <1>7, <1>22, <2>1 DEF Makes
    <2>4. used' = <<>>
      BY <1>1, <1>2, <1>12, <2>1
    <2>5. Stk' = Append(Rest(w, 1), v)
      BY <1>7, <1>13, <1>8, <1>10, <1>22, <2>1, <2>2, <2>3
    <2>6. Python!MakeFunction
      BY <1>1, <1>5, <1>7, <1>22, <2>4, <2>5, <2>3 DEF Python!MakeFunction, Python!Is, Python!Does,
         Python!Below, Rest
    <2> QED BY <2>6 DEF Python!Next
  <1>23. CASE op = "STORE"
    <2>1. H.uses = Tops(q, n) /\ H.after = Rest(q, n) /\ H.result = {}
      BY <1>23 DEF Handled, Calls, Becomes
    <2>2. n \in Nat /\ n <= Len(q)
      BY <1>5, <1>6, <1>23 DEF Reach, Operand, Conditional
    <2>3. used' = Tops(w, n)
      BY <1>1, <1>2, <1>8, <2>1, <2>2
    <2>4. Stk' = Rest(w, n)
      BY <1>7, <1>13, <1>8, <1>23, <2>1, <2>2
    <2>5. Python!Store
      BY <1>1, <1>5, <1>7, <1>23, <2>3, <2>4 DEF Python!Store, Python!Is, Python!Does, Python!Top,
         Python!Below, Python!N, Tops, Rest
    <2> QED BY <2>5 DEF Python!Next
  <1>24. CASE op = "ADD"
    <2>1. H.uses = <<Deeper(q, n + 1)>> \o Tops(q, 1) /\ H.after = Rest(q, 1) /\ H.result = {}
      BY <1>24 DEF Handled, Calls, Becomes
    <2>2. 1 \in Nat /\ 1 <= Len(q) /\ n + 1 \in 1..Len(q)
      BY <1>5, <1>6, <1>24 DEF Reach, Operand, Conditional
    <2>3. used' = <<Deeper(w, n + 1)>> \o Tops(w, 1)
      <3>1. Tops(q, 1) \in Seq(Ready(env)) /\ Vals(env, Tops(q, 1)) = Tops(w, 1)
        BY <1>8, <2>2
      <3>2. Deeper(q, n + 1) \in Ready(env) /\ Val(env, Deeper(q, n + 1)) = Deeper(w, n + 1)
        BY <1>9, <2>2
      <3> QED BY <1>1, <1>2, <1>11, <2>1, <3>1, <3>2
    <2>4. Stk' = Rest(w, 1)
      BY <1>7, <1>13, <1>8, <1>24, <2>1, <2>2
    <2>5. Python!Add(1)
      BY <1>1, <1>5, <1>7, <1>24, <2>3, <2>4 DEF Python!Add, Python!Is, Python!Does, Python!Top,
         Python!Below, Python!At, Python!N, Tops, Rest, Deeper
    <2> QED BY <2>5 DEF Python!Next
  <1>25. CASE op = "MAP_ADD"
    <2>1. H.uses = <<Deeper(q, n + 2)>> \o Tops(q, 2) /\ H.after = Rest(q, 2) /\ H.result = {}
      BY <1>25 DEF Handled, Calls, Becomes
    <2>2. 2 \in Nat /\ 2 <= Len(q) /\ n + 2 \in 1..Len(q)
      <3>1. Reach(code.body[pc]) = n + 2
        BY <1>5, <1>25, MapAddReach
      <3> QED BY <1>5, <1>6, <3>1
    <2>3. used' = <<Deeper(w, n + 2)>> \o Tops(w, 2)
      <3>1. Tops(q, 2) \in Seq(Ready(env)) /\ Vals(env, Tops(q, 2)) = Tops(w, 2)
        BY <1>8, <2>2
      <3>2. Deeper(q, n + 2) \in Ready(env) /\ Val(env, Deeper(q, n + 2)) = Deeper(w, n + 2)
        BY <1>9, <2>2
      <3> QED BY <1>1, <1>2, <1>11, <2>1, <3>1, <3>2
    <2>4. Stk' = Rest(w, 2)
      BY <1>7, <1>13, <1>8, <1>25, <2>1, <2>2
    <2>5. Python!Add(2)
      BY <1>1, <1>5, <1>7, <1>25, <2>3, <2>4 DEF Python!Add, Python!Is, Python!Does, Python!Top,
         Python!Below, Python!At, Python!N, Tops, Rest, Deeper
    <2> QED BY <2>5 DEF Python!Next
  <1>26. CASE op = "POP_TOP"
    <2>1. H.uses = <<>> /\ H.after = Rest(q, 1) /\ H.result = {}
      BY <1>26 DEF Handled, Calls, Becomes
    <2>2. 1 \in Nat /\ 1 <= Len(q)
      BY <1>5, <1>6, <1>26 DEF Reach, Operand, Conditional
    <2>3. used' = <<>>
      BY <1>1, <1>2, <1>12, <2>1
    <2>4. Stk' = Rest(w, 1)
      BY <1>7, <1>13, <1>8, <1>26, <2>1, <2>2
    <2>5. Python!PopTop
      BY <1>1, <1>5, <1>7, <1>26, <2>3, <2>4 DEF Python!PopTop, Python!Is, Python!Does, Python!Below, Rest
    <2> QED BY <2>5 DEF Python!Next
  <1>27. CASE op = "COPY"
    <2>1. H.uses = <<>> /\ H.after = Append(q, Deeper(q, n)) /\ H.result = {}
      BY <1>27 DEF Handled, Calls, Becomes
    <2>2. n \in 1..Len(q)
      BY <1>5, <1>6, <1>27 DEF Reach, Operand, Conditional
    <2>3. used' = <<>>
      BY <1>1, <1>2, <1>12, <2>1
    <2>4. Stk' = Append(w, Deeper(w, n))
      BY <1>7, <1>13, <1>9, <1>10, <1>27, <2>1, <2>2
    <2>5. Python!Copy
      BY <1>1, <1>5, <1>7, <1>27, <2>3, <2>4 DEF Python!Copy, Python!Is, Python!Does, Python!At,
         Python!N, Deeper
    <2> QED BY <2>5 DEF Python!Next
  <1>28. CASE op = "SWAP"
    <2>1. H.uses = <<>> /\ H.after = Swapped(q, n) /\ H.result = {}
      BY <1>28 DEF Handled, Calls, Becomes
    <2>2. n \in 1..Len(q)
      BY <1>5, <1>6, <1>28 DEF Reach, Operand, Conditional
    <2>3. used' = <<>>
      BY <1>1, <1>2, <1>12, <2>1
    <2>4. Stk' = Swapped(w, n)
      BY <1>7, <1>13, <1>9, <1>28, <2>1, <2>2
    <2>5. Python!Swap
      BY <1>1, <1>5, <1>7, <1>28, <2>3, <2>4 DEF Python!Swap, Python!Is, Python!Does, Python!At,
         Python!N, Deeper, Swapped
    <2> QED BY <2>5 DEF Python!Next
  <1>29. CASE op = "STORE_LOAD"
    <2>1. H.uses = Tops(q, 1) /\ H.after = q /\ H.result = {}
      BY <1>29 DEF Handled, Calls, Becomes
    <2>2. 1 \in Nat /\ 1 <= Len(q)
      BY <1>5, <1>6, <1>29 DEF Reach, Operand, Conditional
    <2>3. used' = Tops(w, 1)
      BY <1>1, <1>2, <1>8, <2>1, <2>2
    <2>4. Stk' = w
      BY <1>7, <1>13, <1>29, <2>1, <2>2
    <2>5. n = 1
      BY <1>5, <1>6, <1>29 DEF Operand
    <2>6. Append(Rest(w, 1), Deeper(w, 1)) = w
      BY <1>4, <2>2 DEF Rest, Deeper
    <2>7. Python!StoreLoad
      BY <1>1, <1>5, <1>7, <1>29, <2>3, <2>4, <2>5, <2>6 DEF Python!StoreLoad, Python!Is, Python!Does,
         Python!Top, Python!Below, Python!At, Python!N, Tops, Rest, Deeper
    <2> QED BY <2>7 DEF Python!Next
  <1>30. CASE op = "LOAD_NONE"
    <2>1. used' = <<>>
      <3>1. H.uses = <<>>
        BY <1>30 DEF Handled, Calls, Becomes
      <3> QED BY <1>1, <1>2, <1>12, <3>1
    <2>2. Stk' = Append(w, None)
      <3>1. CASE code.fn
        <4>1. H.after = Append(q, r) /\ H.result = {None}
          BY <1>30, <3>1 DEF Handled, Calls, Becomes
        <4>2. r \in Ready(e) /\ v = None
          BY <1>7, <1>30, <3>1, <4>1 DEF Makes
        <4> QED BY <1>7, <1>10, <1>13, <3>1, <4>1, <4>2
      <3>2. CASE ~code.fn
        <4>1. H.after = q
          BY <1>30, <3>2 DEF Handled, Calls, Becomes
        <4>2. NotPushed(code, pc + 1)
          BY <1>2, <1>30, <3>2, CodeFacts DEF NotPushed
        <4>3. Stk' = w \o <<None>>
          BY <1>7, <4>1, <4>2 DEF Pushed
        <4>4. None \in Value
          BY DEF Value
        <4> QED BY <1>4, <4>3, <4>4
      <3> QED BY <3>1, <3>2
    <2>3. Python!LoadNone
      BY <1>1, <1>5, <1>7, <1>30, <2>1, <2>2 DEF Python!LoadNone, Python!Is, Python!Does
    <2> QED BY <2>3 DEF Python!Next
  <1> QED BY <1>3, <1>15, <1>16, <1>17, <1>18, <1>19, <1>20, <1>21, <1>22, <1>23, <1>24, <1>25, <1>26,
             <1>27, <1>28, <1>29, <1>30 DEF Opcodes

\* The other instructions, and what they have in common.
LEMMA JumpFacts ==
  ASSUME NEW d, Formed(d), TInv(d), phase = "run", pc # 0, P.kind \in {"jump", "branch", "iter"}
  PROVE  LET to == code.body[pc].to
         IN  /\ to \in Labels /\ Vals(env, P.out) \in Seq(Value) /\ Len(Vals(env, P.out)) = d[to]
             /\ OpAt(code, pc) \in {"JUMP_FORWARD", "JUMP_BACKWARD"} =>
                  Vals(env, P.out) = Vals(env, P.before) /\ Vals(env, P.uses) = <<>>
             /\ OpAt(code, pc) \in Conditional =>
                  /\ Vals(env, P.out) = Rest(Stk, 1) /\ Vals(env, P.uses) = Tops(Stk, 1)
                  /\ P.before \in Seq(Ready(env)) /\ Len(P.before) >= 1
  <1> DEFINE q  == P.before
             w  == Vals(env, q)
             H  == Handled(code, pc, q)
             op == OpAt(code, pc)
             to == code.body[pc].to
  <1>1. /\ pc \in 1..Size /\ Live(code, pc) /\ q \in Seq(Ready(env)) /\ Values(env)
        /\ q \in Seq(Ref(pc)) /\ Len(q) = Depth(code, d, pc)
        /\ P.kind = H.kind /\ P.uses = H.uses /\ P.result = H.result /\ P.out = H.out
        /\ P.out \in Seq(Ready(env))
    BY RunFacts
  <1>2. op \in Jumps /\ op # "RETURN_VALUE"
    BY <1>1, KindFacts DEF Jumps
  <1>3. to \in Labels /\ pc \in DOMAIN code.body /\ d[pc] \in Nat
    BY <1>1, <1>2, CodeFacts
  <1>4. Vals(env, P.out) \in Seq(Value) /\ Len(Vals(env, P.out)) = Len(P.out)
    BY <1>1, ValsFacts
  <1>5. Len(q) = d[pc] /\ Reach(code.body[pc]) <= d[pc] /\ code.body[pc].op = op
    BY <1>1, <1>2, <1>3, NotPushedReturns DEF Depth, Formed, WellFormed, Deep, OpAt
  <1>6. Vals(env, <<>>) = <<>>
    BY DEF Vals
  <1>7. CASE op \in Conditional
    <2>1. H.out = Rest(q, 1) /\ H.uses = Tops(q, 1)
      BY <1>7 DEF Handled, Becomes, Conditional
    <2>2. Len(q) >= 1 /\ 1 \in Nat
      BY <1>5, <1>7 DEF Reach, Conditional
    <2>3. Len(H.out) = d[to]
      BY <1>1, <1>7, HandledFacts
    <2>4. Stk = w
      BY <1>2, StkFacts
    <2>5. Vals(env, Rest(q, 1)) = Rest(w, 1) /\ Vals(env, Tops(q, 1)) = Tops(w, 1)
      BY <1>1, <2>2, ValsTops
    <2>6. op \notin {"JUMP_FORWARD", "JUMP_BACKWARD"}
      BY <1>7 DEF Conditional
    <2> QED BY <1>1, <1>3, <1>4, <2>1, <2>2, <2>3, <2>4, <2>5, <2>6
  <1>8. CASE op = "JUMP_BACKWARD"
    <2>1. H.out = q /\ H.uses = <<>>
      BY <1>8 DEF Handled, Becomes
    <2>2. Len(H.out) = d[to]
      BY <1>1, <1>8, HandledFacts
    <2>3. op \notin Conditional
      BY <1>8 DEF Conditional
    <2> QED BY <1>1, <1>3, <1>4, <1>6, <2>1, <2>2, <2>3
  <1>9. CASE op = "JUMP_FORWARD"
    <2>1. H.out = <<>> /\ H.uses = <<>> /\ H.kind = "jump"
      BY <1>9 DEF Handled, Becomes
    <2>2. pc \in DOMAIN pir /\ pir[pc].kind = "jump" /\ pir[pc].out = <<>>
      BY <1>1, <1>3, <2>1 DEF TInv, Types, P
    <2>3. Len(<<>>) = width[to]
      BY <2>2 DEF TInv, Phases, Verified
    <2>4. d[to] = 0
      BY <1>3, <2>3, TranslatedFits
    <2>5. d[pc] = 0
      BY <1>1, <1>9, <2>4, HandledFacts
    <2>6. q = <<>>
      BY <1>1, <1>5, <2>5
    <2>7. op \notin Conditional
      BY <1>9 DEF Conditional
    <2> QED BY <1>1, <1>3, <1>4, <1>6, <2>1, <2>4, <2>6, <2>7
  <1> QED BY <1>2, <1>7, <1>8, <1>9 DEF Jumps, Conditional

\* a jump is CPython's jump,
LEMMA JumpMeans ==
  ASSUME NEW d, Formed(d), TInv(d), RunJump
  PROVE  Python!Next /\ Defined'
  <1>1. phase = "run" /\ pc # 0 /\ P.kind = "jump" /\ Compiled /\ code' = code /\ used' = Vals(env, P.uses)
    BY DEF RunJump, Running, Compiled
  <1> DEFINE to == code.body[pc].to
             op == OpAt(code, pc)
  <1>2. pc' = to /\ env' = Arrived(to, Vals(env, P.out))
    BY DEF RunJump, Enter, Arrived
  <1>3. op \in {"JUMP_FORWARD", "JUMP_BACKWARD"} /\ code.body[pc].op = op
    BY <1>1, RunFacts, KindFacts DEF OpAt
  <1>4. /\ to \in Labels /\ Vals(env, P.out) \in Seq(Value) /\ Len(Vals(env, P.out)) = d[to]
        /\ Vals(env, P.out) = Vals(env, P.before) /\ Vals(env, P.uses) = <<>>
    BY <1>1, <1>3, JumpFacts
  <1>5. Defined' /\ Stk' = Vals(env, P.before)
    BY <1>1, <1>2, <1>4, ArrivedStep
  <1>6. Stk = Vals(env, P.before)
    BY <1>1, <1>3, StkFacts
  <1>7. Python!Jump
    BY <1>1, <1>2, <1>3, <1>4, <1>5, <1>6 DEF Python!Jump, Python!Is, Python!Does, Python!Target
  <1> QED BY <1>5, <1>7 DEF Python!Next

\* so is either way of a conditional one,
LEMMA BranchMeans ==
  ASSUME NEW d, Formed(d), TInv(d), RunBranch
  PROVE  Python!Next /\ Defined'
  <1>1. /\ phase = "run" /\ pc # 0 /\ P.kind = "branch" /\ Compiled /\ code' = code
        /\ used' = Vals(env, P.uses)
    BY DEF RunBranch, Running, Compiled
  <1> DEFINE to == code.body[pc].to
             op == OpAt(code, pc)
             after == Handled(code, pc, P.before).after
  <1>2. op = "POP_JUMP_IF" /\ code.body[pc].op = op /\ op \in Conditional
    BY <1>1, RunFacts, KindFacts DEF OpAt, Conditional
  <1>3. /\ to \in Labels /\ Vals(env, P.out) \in Seq(Value) /\ Len(Vals(env, P.out)) = d[to]
        /\ Vals(env, P.out) = Rest(Stk, 1) /\ used' = Tops(Stk, 1)
    BY <1>1, <1>2, JumpFacts
  <1>4. ASSUME Defined', Stk' = Rest(Stk, 1), pc' \in {pc + 1, to}
        PROVE  Python!Next /\ Defined'
    <2>1. Python!PopJumpIf
      BY <1>1, <1>2, <1>3, <1>4
         DEF Python!PopJumpIf, Python!Is, Python!Does, Python!Target, Python!Top, Python!Below, Tops, Rest
    <2> QED BY <1>4, <2>1 DEF Python!Next
  <1>5. CASE Enter(to, Vals(env, P.out))
    <2>1. pc' = to /\ env' = Arrived(to, Vals(env, P.out))
      BY <1>5 DEF Enter, Arrived
    <2>2. Defined' /\ Stk' = Rest(Stk, 1)
      BY <1>1, <1>3, <2>1, ArrivedStep
    <2> QED BY <1>4, <2>1, <2>2
  <1>6. CASE Continue(env)
    <2>1. pc' = pc + 1 /\ env' = Onward(env)
      BY <1>6 DEF Continue, Enter, Onward, Arrived
    <2>2. ~Makes(code, pc) /\ Values(env)
      BY <1>1, <1>2, RunFacts DEF Makes
    <2>3. Defined' /\ after \in Seq(Ready(env)) /\ Stk' = Vals(env, after) \o Pushed(code, pc + 1)
      BY <1>1, <2>1, <2>2, OnwardStep
    <2>4. after = P.out
      BY <1>1, <1>2, RunFacts DEF Handled, Becomes
    <2>5. Pushed(code, pc + 1) = <<>>
      BY <1>1, <1>2, RunFacts, CodeFacts DEF Pushed, NotPushed
    <2>6. Stk' = Rest(Stk, 1)
      BY <1>3, <2>3, <2>4, <2>5
    <2> QED BY <1>4, <2>1, <2>3, <2>6
  <1> QED BY <1>5, <1>6 DEF RunBranch

\* an iteration is CPython's, with the same element or to the same exit,
LEMMA ForIterMeans ==
  ASSUME NEW d, Formed(d), TInv(d), RunForIter
  PROVE  Python!Next /\ Defined'
  <1>1. phase = "run" /\ pc # 0 /\ P.kind = "iter" /\ Compiled /\ code' = code /\ used' = Vals(env, P.uses)
    BY DEF RunForIter, Running, Compiled
  <1> DEFINE to == code.body[pc].to
             op == OpAt(code, pc)
             after == Handled(code, pc, P.before).after
  <1>2. op = "FOR_ITER" /\ code.body[pc].op = op /\ op \in Conditional /\ Makes(code, pc)
    BY <1>1, RunFacts, KindFacts DEF OpAt, Conditional, Makes
  <1>3. /\ to \in Labels /\ Vals(env, P.out) \in Seq(Value) /\ Len(Vals(env, P.out)) = d[to]
        /\ Vals(env, P.out) = Rest(Stk, 1) /\ used' = Tops(Stk, 1)
    BY <1>1, <1>2, JumpFacts
  <1>4. CASE Enter(to, Vals(env, P.out))
    <2>1. pc' = to /\ env' = Arrived(to, Vals(env, P.out))
      BY <1>4 DEF Enter, Arrived
    <2>2. Defined' /\ Stk' = Rest(Stk, 1)
      BY <1>1, <1>3, <2>1, ArrivedStep
    <2>3. Python!ForIter
      BY <1>1, <1>2, <1>3, <2>1, <2>2
         DEF Python!ForIter, Python!Is, Python!Does, Python!Target, Python!Top, Python!Below, Tops, Rest
    <2> QED BY <2>2, <2>3 DEF Python!Next
  <1>5. ASSUME NEW v \in P.result, Continue(With(v))
        PROVE  Python!Next /\ Defined'
    <2>1. pc' = pc + 1 /\ env' = Onward(With(v))
      BY <1>5 DEF Continue, Enter, Onward, Arrived
    <2>2. /\ P.result = Handled(code, pc, P.before).result
          /\ P.before \in Seq(Ref(pc)) /\ P.before \in Seq(Ready(env))
      BY <1>1, RunFacts
    <2>3. v \in Data /\ v \in Value
      BY <1>2, <1>5, <2>2, ResultFacts DEF Value
    <2> DEFINE e == With(v)
    <2>4. /\ Values(e) /\ DOMAIN env \subseteq DOMAIN e /\ Res(pc) \in DOMAIN e /\ Val(e, Res(pc)) = v
          /\ P.before \in Seq(Ready(e)) /\ Vals(e, P.before) = Vals(env, P.before)
      BY <1>1, <2>2, <2>3, WithFacts
    <2>5. Defined' /\ after \in Seq(Ready(e)) /\ Stk' = Vals(e, after) \o Pushed(code, pc + 1)
      BY <1>1, <2>1, <2>4, OnwardStep
    <2>6. after = Append(P.before, Res(pc))
      BY <1>2 DEF Handled, Becomes
    <2>7. Pushed(code, pc + 1) = <<>>
      BY <1>1, <1>2, RunFacts, CodeFacts DEF Pushed, NotPushed
    <2>8. Vals(e, after) = Append(Stk, v)
      <3>1. Stk = Vals(env, P.before)
        BY <1>1, <1>2, StkFacts
      <3>2. Res(pc) \in Ready(e)
        BY <2>4 DEF Ready
      <3> QED BY <2>4, <2>6, <3>1, <3>2, ValsAppend
    <2>9. Vals(e, after) \in Seq(Value)
      BY <2>4, <2>5, ValsFacts
    <2>10. Stk' = Append(Stk, v)
      BY <2>5, <2>7, <2>8, <2>9
    <2>11. Python!ForIter
      BY <1>1, <1>2, <1>3, <2>1, <2>3, <2>10
         DEF Python!ForIter, Python!Is, Python!Does, Python!Target, Python!Top, Python!Below, Tops, Rest
    <2> QED BY <2>5, <2>11 DEF Python!Next
  <1> QED BY <1>4, <1>5 DEF RunForIter

\* and a return ends both with the same value.
LEMMA ReturnMeans ==
  ASSUME NEW d, Formed(d), TInv(d), RunReturn
  PROVE  Python!Next /\ Defined'
  <1>1. /\ phase = "run" /\ pc # 0 /\ P.kind = "return" /\ code' = code /\ used' = Vals(env, P.uses)
        /\ pc' = 0 /\ phase' = phase
    BY DEF RunReturn, Running, Compiled
  <1> DEFINE q == P.before
             H == Handled(code, pc, q)
             m == IF q = <<>> THEN 0 ELSE 1
  <1>2. /\ pc \in 1..Size /\ Live(code, pc) /\ q \in Seq(Ready(env)) /\ Values(env)
        /\ Len(q) = Depth(code, d, pc) /\ P.kind = H.kind /\ P.uses = H.uses
    BY <1>1, RunFacts
  <1>3. /\ OpAt(code, pc) = "RETURN_VALUE" /\ code.body[pc].op = "RETURN_VALUE"
        /\ pc \in DOMAIN code.body /\ d[pc] \in Nat
    BY <1>1, <1>2, KindFacts, CodeFacts DEF OpAt
  <1>4. Defined' /\ Stk' = <<>>
    BY <1>1 DEF Defined, Stk
  <1>5. H.uses = Tops(q, m)
    BY <1>3 DEF Handled, Becomes
  <1>6. used' = IF code.fn THEN Tops(Stk, 1) ELSE <<>>
    <2>1. CASE code.fn
      <3>1. Len(q) = d[pc] /\ ~NotPushed(code, pc)
        BY <1>2, <2>1 DEF Depth, NotPushed
      <3>2. d[pc] >= 1
        BY <1>2, <1>3 DEF Formed, WellFormed, Deep, Reach
      <3>3. m = 1 /\ 1 <= Len(q) /\ 1 \in Nat
        BY <3>1, <3>2
      <3>4. Stk = Vals(env, q)
        BY <1>1, <3>1, StkFacts DEF Pushed
      <3>5. Vals(env, Tops(q, 1)) = Tops(Stk, 1)
        BY <1>2, <3>3, <3>4, ValsTops
      <3> QED BY <1>1, <1>2, <1>5, <2>1, <3>3, <3>5
    <2>2. CASE ~code.fn
      <3>1. pc > 1 /\ OpAt(code, pc - 1) = "LOAD_NONE" /\ d[pc] = 1
        BY <1>2, <1>3, <2>2 DEF Formed, WellFormed, NoneReturned
      <3>2. Len(q) = 0
        BY <1>2, <2>2, <3>1 DEF Depth, NotPushed
      <3>3. q = <<>>
        BY <1>2, <3>2
      <3>4. Tops(q, m) = <<>> /\ Vals(env, <<>>) = <<>>
        BY <3>3 DEF Tops, Vals
      <3> QED BY <1>1, <1>2, <1>5, <2>2, <3>4
    <2> QED BY <2>1, <2>2
  <1>7. Python!Return
    BY <1>1, <1>3, <1>4, <1>6 DEF Python!Return, Python!Is, Python!Does, Python!Top, Tops
  <1> QED BY <1>4, <1>7 DEF Python!Next

-------------------------------------------------------------------------------
(***************************************************************************)
(* Every step keeps the invariant, and means to the code object nothing or *)
(* one step of CPython's.                                                  *)
(***************************************************************************)

\* While it is translated, a code object stands at its start with an empty stack.
LEMMA NotRunning ==
  ASSUME NEW d, Formed(d), TInv(d), Translate
  PROVE  TInv(d)' /\ UNCHANGED Python!vars
  <1>1. phase = "translate" /\ UNCHANGED <<code, pc, env, used>>
    BY DEF Translate, Switch, Skip, Underflow, Verify, Due, Is, Op, Emit,
       EmitNop, EmitLoad, EmitLoadNone, EmitPushNull, EmitLoadGlobal, EmitLoadAttr, EmitOperate,
       EmitCall, EmitMakeFunction, EmitStore, EmitAdd, EmitPopTop, EmitCopy, EmitSwap, EmitStoreLoad,
       EmitJumpForward, EmitJumpBackward, EmitPopJumpIf, EmitForIter, EmitReturn
  <1>2. TInv(d)'
    <2>1. CASE Switch
      BY <2>1, SwitchInv
    <2>2. CASE Skip
      BY <2>2, SkipInv
    <2>3. CASE Underflow
      BY <2>3, NoUnderflow
    <2>4. CASE Verify
      BY <2>4, VerifyInv
    <2>5. CASE Emitting
      <3>1. open \in BOOLEAN /\ complete \in BOOLEAN
        BY DEF TInv, Types
      <3>2. Emission
        BY <2>5, <3>1, EmittingFacts
      <3> QED BY <3>2, EmitInv
    <2>6. (\E k \in {1, 2} : EmitAdd(k)) => EmitAdd(1) \/ EmitAdd(2)
      OBVIOUS
    <2> QED BY <2>1, <2>2, <2>3, <2>4, <2>5, <2>6 DEF Translate, Emitting
  <1>3. Stk = <<>> /\ pc = 1 /\ env = <<>>
    BY <1>1 DEF Stk, TInv, Phases
  <1>4. Stk' = <<>>
    <2>1. CASE phase' # "run"
      BY <2>1 DEF Stk
    <2>2. CASE phase' = "run"
      <3>1. pc' = 1 /\ env' = <<>> /\ code' = code
        BY <1>1, <1>3
      <3>2. 1 \in 1..Size /\ Size' = Size
        BY <3>1, CodeFacts DEF Size
      <3>3. 1 < next' /\ Live(code, 1)
        BY <1>2, <2>2, <3>2, FallsInFirst, CodeFacts DEF TInv, Phases, Live
      <3>4. Fits(d, 1)'
        BY <1>2, <3>1, <3>2, <3>3 DEF TInv, Translated
      <3>5. pir'[1].before = <<>>
        BY <3>1, <3>4 DEF Fits, Depth, NotPushed, Formed, WellFormed
      <3>6. ~SkippedNone'
        BY <3>1 DEF SkippedNone
      <3> QED BY <3>1, <3>5, <3>6 DEF Stk, P, Vals
    <2> QED BY <2>1, <2>2
  <1> QED BY <1>1, <1>2, <1>3, <1>4 DEF Python!vars

\* A step of the compiled program is CPython's step.
LEMMA RunningMeans ==
  ASSUME NEW d, Formed(d), TInv(d), RunCall \/ RunJump \/ RunBranch \/ RunForIter \/ RunReturn
  PROVE  TInv(d)' /\ Python!Next
  <1>1. phase = "run" /\ Compiled
    BY DEF RunCall, RunJump, RunBranch, RunForIter, RunReturn, Running
  <1>2. Python!Next /\ Defined'
    <2>1. CASE RunCall
      BY <2>1, CallMeans, CallStep
    <2>2. CASE RunJump
      BY <2>2, JumpMeans
    <2>3. CASE RunBranch
      BY <2>3, BranchMeans
    <2>4. CASE RunForIter
      BY <2>4, ForIterMeans
    <2>5. CASE RunReturn
      BY <2>5, ReturnMeans
    <2> QED BY <2>1, <2>2, <2>3, <2>4, <2>5
  <1> QED BY <1>1, <1>2, CompiledSame

\* A stuttering step is one of CPython's as well.
LEMMA StutterMeans ==
  ASSUME NEW d, TInv(d), UNCHANGED vars
  PROVE  TInv(d)' /\ UNCHANGED Python!vars
  <1>1. /\ code' = code /\ phase' = phase /\ next' = next /\ stack' = stack /\ here' = here /\ open' = open
        /\ complete' = complete /\ width' = width /\ falls' = falls /\ pir' = pir /\ pc' = pc /\ env' = env
        /\ used' = used
    BY DEF vars
  <1>2. TInv(d)'
    BY <1>1 DEF TInv, Types, Opens, Stacks, Translated, Widths, Falls, Phases, Defined,
       Size, Labels, Reached, Incoming, Fits, Expected, Branches, Verified, P
  <1>3. Stk' = Stk
    BY <1>1 DEF Stk, P, SkippedNone
  <1> QED BY <1>1, <1>2, <1>3 DEF Python!vars

\* The programs are code objects as CPython's compiler makes them.
FromCPython == \A p \in Program : \E depth \in [DOMAIN p.body -> Nat] : WellFormed(p, depth)

\* The invariant: there are depths for the code object, and what has been
\* translated agrees with them.
IInv == code \in Program /\ \E d : Formed(d) /\ TInv(d)

\* It holds of every code object that may be compiled,
LEMMA InitIInv ==
  ASSUME FromCPython, Init
  PROVE  IInv
  <1>1. code \in Program /\ code \in Code
    BY CodegenAssumption DEF Init
  <1>2. PICK d \in [DOMAIN code.body -> Nat] : WellFormed(code, d)
    BY <1>1 DEF FromCPython
  <1>3. Formed(d)
    BY <1>1, <1>2 DEF Formed
  <1> QED BY <1>1, <1>3, InitInv DEF IInv

\* and every step keeps it and is CPython's step or none.
LEMMA StepIInv ==
  ASSUME IInv, [Next]_vars
  PROVE  IInv' /\ [Python!Next]_(Python!vars)
  <1>1. PICK d : Formed(d) /\ TInv(d)
    BY DEF IInv
  <1>2. TInv(d)' /\ [Python!Next]_(Python!vars)
    <2>1. CASE Translate
      BY <1>1, <2>1, NotRunning
    <2>2. CASE RunCall \/ RunJump \/ RunBranch \/ RunForIter \/ RunReturn
      BY <1>1, <2>2, RunningMeans
    <2>3. CASE UNCHANGED vars
      BY <1>1, <2>3, StutterMeans
    <2> QED BY <2>1, <2>2, <2>3 DEF Next
  <1>3. code' = code
    BY <1>1 DEF Next, vars, Translate, Switch, Skip, Underflow, Verify, Is, Op, Emit,
       EmitNop, EmitLoad, EmitLoadNone, EmitPushNull, EmitLoadGlobal, EmitLoadAttr, EmitOperate,
       EmitCall, EmitMakeFunction, EmitStore, EmitAdd, EmitPopTop, EmitCopy, EmitSwap, EmitStoreLoad,
       EmitJumpForward, EmitJumpBackward, EmitPopJumpIf, EmitForIter, EmitReturn,
       RunCall, RunJump, RunBranch, RunForIter, RunReturn, Compiled
  <1>4. Formed(d)'
    BY <1>1, <1>3 DEF Formed
  <1> QED BY <1>2, <1>3, <1>4 DEF IInv

\* The invariant holds throughout the compilation and the run of a code object.
THEOREM Invariant == FromCPython => (Spec => []IInv)
  <1> SUFFICES ASSUME FromCPython PROVE Spec => []IInv
    OBVIOUS
  <1>1. Init => IInv
    BY InitIInv
  <1>2. IInv /\ [Next]_vars => IInv'
    BY StepIInv
  <1> QED BY <1>1, <1>2, PTL DEF Spec

\* The invariant implies the types,
LEMMA InvariantTypes ==
  ASSUME IInv
  PROVE  TypeOK
  <1>1. PICK d : Formed(d) /\ TInv(d)
    BY DEF IInv
  <1>2. /\ Types /\ Phases /\ Defined /\ Size \in Nat \ {0} /\ code \in Program
    BY <1>1, CodeFacts DEF TInv, IInv
  <1>3. ASSUME NEW k \in DOMAIN stack
        PROVE  stack[k] = NullRef \/ stack[k][1] \in 1..next
    <2>1. stack[k] \in Ref(next)
      BY <1>2, <1>3 DEF Types
    <2> QED BY <2>1 DEF Ref
  <1>4. pc \in 0..Size
    BY <1>2 DEF Phases, Defined
  <1> QED BY <1>2, <1>3, <1>4 DEF TypeOK, Types, Phases

\* and that only a JUMP_FORWARD over values is rejected: everything else the
\* verifier compares is the depth of CPython's stack.
LEMMA InvariantAccepts ==
  ASSUME IInv
  PROVE  ~NoneAsValue /\ Accepted
  <1>1. PICK d : Formed(d) /\ TInv(d)
    BY DEF IInv
  <1>2. phase # "undefined" /\ DOMAIN pir = 1..Size /\ Size \in Nat \ {0}
    BY <1>1, CodeFacts DEF TInv, Phases, Types
  <1>3. ASSUME phase = "rejected"
        PROVE  \E i \in DOMAIN pir : code.body[i].op = "JUMP_FORWARD" /\ pir[i].before # <<>>
    <2>1. ~Verified /\ next = Size + 1 /\ phase # "translate"
      BY <1>1, <1>3 DEF TInv, Phases
    <2>2. ~open
      <3>1. next \notin Labels
        BY <1>1, <1>2, <2>1, CodeFacts
      <3>2. ~here
        BY <1>1, <3>1 DEF TInv, Types
      <3> QED BY <1>1, <2>1, <3>2, EndIsClosed DEF TInv, Opens
    <2>3. /\ \A i \in 1..Size : Live(code, i) => Fits(d, i)
          /\ \A l \in Labels : width[l] = d[l]
      BY <1>1, <2>1, TranslatedFits
    <2>4. \A l \in DOMAIN falls : Len(falls[l]) = width[l]
      <3>1. DOMAIN falls \subseteq Labels
        BY <1>1 DEF TInv, Types
      <3> QED BY <1>1, <2>3, <3>1 DEF TInv, Falls
    <2>5. PICK i \in DOMAIN pir :
            pir[i].kind \in {"jump", "branch"} /\ Len(pir[i].out) # width[code.body[i].to]
      BY <2>1, <2>2, <2>4 DEF Verified
    <2> DEFINE b  == pir[i].before
               op == OpAt(code, i)
               to == code.body[i].to
    <2>6. Live(code, i) /\ i \in 1..Size
      BY <1>1, <1>2, <2>1, <2>5 DEF TInv, Translated
    <2>7. /\ b \in Seq(Ref(i)) /\ Len(b) = Depth(code, d, i)
          /\ pir[i].kind = Handled(code, i, b).kind /\ pir[i].out = Handled(code, i, b).out
      BY <2>3, <2>6 DEF Fits
    <2>8. op \in {"JUMP_FORWARD", "JUMP_BACKWARD", "POP_JUMP_IF"}
      BY <1>1, <2>5, <2>6, <2>7, KindFacts
    <2>9. to \in Labels /\ width[to] = d[to] /\ d[i] \in Nat
      BY <1>1, <2>3, <2>6, <2>8, CodeFacts DEF Jumps
    <2>10. op = "JUMP_FORWARD"
      BY <1>1, <2>5, <2>6, <2>7, <2>8, <2>9, HandledFacts DEF Conditional
    <2>11. d[i] # 0
      <3>1. Handled(code, i, b).out = <<>>
        BY <2>10 DEF Handled, Becomes
      <3>2. d[to] = d[i]
        BY <1>1, <2>6, <2>7, <2>10, HandledFacts
      <3> QED BY <2>5, <2>7, <2>9, <3>1, <3>2
    <2>12. Len(b) = d[i]
      BY <1>1, <2>6, <2>7, <2>10, NotPushedReturns DEF Depth
    <2>13. b # <<>>
      BY <2>11, <2>12
    <2> QED BY <2>10, <2>13 DEF OpAt
  <1>4. ~NoneAsValue
    BY <1>1, NoneIsReturned
  <1> QED BY <1>2, <1>3, <1>4 DEF Accepted

\* A code object before its translation is one before its run.
LEMMA InitMeans ==
  ASSUME Init
  PROVE  Python!Init
  BY DEF Init, Python!Init, Stk

(***************************************************************************)
(* The types of the translation's state.                                   *)
(***************************************************************************)
THEOREM TypeCorrect == FromCPython => (Spec => []TypeOK)
  <1>1. IInv => TypeOK
    BY InvariantTypes
  <1> QED BY <1>1, Invariant, PTL

(***************************************************************************)
(* No handler finds the stack of SSA values too short, and what the        *)
(* verifier rejects has a JUMP_FORWARD over values, whatever the code: a   *)
(* module may have any number of exits, since the None of a return is      *)
(* never the value that Accepted makes an exception of.                    *)
(***************************************************************************)
THEOREM AcceptedAlways == FromCPython => (Spec => [](Accepted /\ ~NoneAsValue))
  <1>1. IInv => Accepted /\ ~NoneAsValue
    BY InvariantAccepts
  <1> QED BY <1>1, Invariant, PTL

(***************************************************************************)
(* A compiled program takes the code object's steps on CPython's stack.    *)
(***************************************************************************)
THEOREM Implementation == FromCPython => (Spec => Implements)
  <1> SUFFICES ASSUME FromCPython PROVE Spec => Implements
    OBVIOUS
  <1>1. Init => Python!Init
    BY InitMeans
  <1>2. IInv /\ [Next]_vars => [Python!Next]_(Python!vars)
    BY StepIInv
  <1> QED BY <1>1, <1>2, Invariant, PTL DEF Spec, Implements, Python!Spec
===============================================================================
