
---------------------------- MODULE Lowering_proofs ----------------------------
(***************************************************************************)
(* What holds of the lowering of every module: each operation becomes      *)
(* calls that match the runtime library, its symbols keep their texts, its *)
(* constants their values, and nothing fails but what is unsupported.      *)
(***************************************************************************)
EXTENDS Lowering, WellFoundedInduction, TLAPS

-------------------------------------------------------------------------------
(* Positions.                                                              *)

LEMMA Smallest ==
  ASSUME NEW T \in SUBSET Nat, T # {}
  PROVE  \E x \in T : \A y \in T : x <= y
  <1> DEFINE R == OpToRel(<, Nat)
  <1>1. IsWellFoundedOn(R, Nat) BY NatLessThanWellFounded, Zenon
  <1>2. \A x, y \in Nat : <<x, y>> \in R <=> x < y BY DEF OpToRel
  <1> HIDE DEF R
  <1>3. \E x \in T : \A y \in T : ~ (<<y, x>> \in R) BY <1>1, WFMin
  <1>4. PICK x \in T : \A y \in T : ~ (<<y, x>> \in R) BY <1>3
  <1>5. ASSUME NEW y \in T PROVE x <= y
    <2>1. x \in Nat /\ y \in Nat OBVIOUS
    <2>2. ~ (y < x) BY <1>2, <1>4, <2>1
    <2> QED BY <2>1, <2>2
  <1> QED BY <1>5

\* One of the positions comes first.
LEMMA EarliestIn ==
  ASSUME NEW P \in SUBSET (Nat \X Nat), P # {}
  PROVE  Earliest(P) \in P
  <1> DEFINE F == {p[1] : p \in P}
  <1>1. F \in SUBSET Nat /\ F # {} OBVIOUS
  <1>2. PICK x \in F : \A y \in F : x <= y
    <2> HIDE DEF F
    <2> QED BY <1>1, Smallest
  <1> DEFINE G == {p[2] : p \in {q \in P : q[1] = x}}
  <1>3. G \in SUBSET Nat /\ G # {} OBVIOUS
  <1>4. PICK z \in G : \A y \in G : z <= y
    <2> HIDE DEF G
    <2> QED BY <1>3, Smallest
  <1>5. PICK p \in P : p[1] = x /\ p[2] = z OBVIOUS
  <1>6. ASSUME NEW q \in P PROVE p[1] < q[1] \/ (p[1] = q[1] /\ p[2] <= q[2])
    <2>1. q[1] \in Nat /\ q[2] \in Nat /\ p[1] \in Nat /\ p[2] \in Nat OBVIOUS
    <2>2. q[1] \in F OBVIOUS
    <2>3. p[1] <= q[1] BY <1>2, <1>5, <2>2
    <2>4. CASE q[1] = x
      <3>1. q[2] \in G BY <2>4
      <3> QED BY <1>4, <1>5, <2>4, <3>1
    <2>5. CASE q[1] # x BY <1>5, <2>1, <2>3, <2>5
    <2> QED BY <2>4, <2>5
  <1> QED BY <1>5, <1>6 DEF Earliest

-------------------------------------------------------------------------------
(* Operations.                                                             *)

\* What an operation is made of goes by its name.
LEMMA Kinds ==
  ASSUME NEW op \in Operation
  PROVE  /\ op.name \in Unary => "n" \notin DOMAIN op
         /\ op.name \in Nominal => "n" \notin DOMAIN op /\ op.text \in Seq(STRING)
         /\ op.name \in Variadic => "n" \in DOMAIN op /\ op.n \in Nat
         /\ op.name = "init_module" => op.text \in Seq(STRING) /\ op.moduleName \in Seq(STRING)
         /\ op.name = "binary_op" => "n" \notin DOMAIN op /\ op.text \in BinaryText
         /\ op.name = "compare_op" => "n" \notin DOMAIN op /\ op.text \in CompareText
         /\ op.name = "contains_op" => "n" \notin DOMAIN op /\ op.text \in ContainsText
         /\ op.name = "load_const" => op.const \in Constant
  BY DEF Operation, Unary, Nominal, Variadic, ReturnsNothing, BuilderStatement, ReturnsObject, LoadFn, StoreFn, BuildFn

\* The operands of an operation that has no variadic ones.
LEMMA FixedOperands ==
  ASSUME NEW op \in Operation, "n" \notin DOMAIN op, NEW S, NEW names \in Seq(S), Operands[op.name] = names
  PROVE  OperandsOf(op) = [i \in 1..Len(names) |-> Operand(names[i])]
  <1>1. [i \in DOMAIN names |-> Operand(names[i])] \in Seq({Operand(names[i]) : i \in DOMAIN names})
    OBVIOUS
  <1>2. OperandsOf(op) = [i \in DOMAIN names |-> Operand(names[i])] \o <<>> BY DEF OperandsOf
  <1> QED BY <1>1, <1>2

\* The first operand is there in any case.
LEMMA FirstOperand ==
  ASSUME NEW op \in Operation, "n" \in DOMAIN op => op.n \in Nat,
         NEW A, NEW names \in Seq(A), names # <<>>, Operands[op.name] = names
  PROVE  OperandsOf(op)[1] = Operand(names[1])
  <1> DEFINE s == [i \in DOMAIN names |-> Operand(names[i])]
             t == IF "n" \in DOMAIN op THEN [i \in 1..op.n |-> Operand(i)] ELSE <<>>
             S == {Operand(names[i]) : i \in DOMAIN names}
             T == {Operand(i) : i \in Nat}
  <1>1. s \in Seq(S) /\ Len(s) = Len(names) /\ s[1] = Operand(names[1]) OBVIOUS
  <1>2. t \in Seq(T) OBVIOUS
  <1>3. OperandsOf(op) = s \o t BY DEF OperandsOf
  <1>4. Len(s) >= 1 BY <1>1
  <1> HIDE DEF s, t, S, T
  <1>5. s \in Seq(S \cup T) /\ t \in Seq(S \cup T) BY <1>1, <1>2
  <1> QED BY <1>1, <1>3, <1>4, <1>5

-------------------------------------------------------------------------------
(* Calls.                                                                  *)

\* What the runtime library asks of a call and its declaration.
Matches(c) ==
  LET h == Header[c.fn]
  IN  /\ c.fn \in DOMAIN Header
      /\ c.type[1] \in {h.returns, "void"}
      /\ c.type[2] = [i \in DOMAIN h.params |-> h.params[i][1]]
      /\ Len(c.args) = Len(h.params) /\ DOMAIN c.args \subseteq Nat
      /\ \A i \in DOMAIN c.args : c.args[i].type = h.params[i][1]
                                   /\ h.params[i][2] \in Means(c.args[i].role)

\* The symbols that are made.
Made(a) ==
  \/ a.role = "str" /\ a.symbol = StringSymbol(a.text)
  \/ /\ a.text \in Seq(STRING)
     /\ \/ a.role = "fn_name" /\ a.symbol = <<"__pyir_str_", "fn_">> \o a.text
        \/ a.role \in {"var_name", "attr_name", "file", "name"} /\ a.symbol = <<"__pyir_str_">> \o a.text

Good(c) == Matches(c) /\ \A i \in DOMAIN c.args : c.args[i].class = "symbol" => Made(c.args[i])

Fills(arg, param) ==
  /\ arg.type = param[1] /\ param[2] \in Means(arg.role)
  /\ arg.class = "symbol" => Made(arg)

Returns(fn, type) == type \in {Header[fn].returns, "void"}

\* A call with an argument for every parameter,
LEMMA CallFits ==
  ASSUME NEW fn \in RuntimeFn, NEW ret, Returns(fn, ret), NEW P, NEW params \in Seq(P),
         Header[fn].params = params, NEW T, NEW types \in Seq(T), Len(types) = Len(params),
         NEW S, NEW args \in Seq(S), Len(args) = Len(params),
         \A i \in 1..Len(params) : types[i] = params[i][1] /\ Fills(args[i], params[i])
  PROVE  Good(Call(fn, ret, types, args))
  <1> DEFINE c == Call(fn, ret, types, args)
             n == Len(params)
  <1>1. c.fn = fn /\ c.type[1] = ret /\ c.type[2] = types /\ c.args = args BY DEF Call
  <1>2. fn \in DOMAIN Header BY DEF Header
  <1>3. DOMAIN params = 1..n /\ DOMAIN args = 1..n /\ n \in Nat OBVIOUS
  <1>4. types = [i \in DOMAIN params |-> params[i][1]]
    <2>1. types = [i \in 1..Len(types) |-> types[i]] OBVIOUS
    <2> QED BY <1>3, <2>1
  <1>5. \A i \in 1..n : Fills(args[i], params[i]) OBVIOUS
  <1> HIDE DEF c, n
  <1>6. Matches(c)
    <2>1. c.fn \in DOMAIN Header /\ Header[c.fn].params = params BY <1>1, <1>2
    <2>2. c.type[1] \in {Header[c.fn].returns, "void"} BY <1>1 DEF Returns
    <2>3. Len(c.args) = Len(params) /\ DOMAIN c.args \subseteq Nat BY <1>1, <1>3
    <2>4. \A i \in DOMAIN c.args : c.args[i].type = params[i][1] /\ params[i][2] \in Means(c.args[i].role)
      BY <1>1, <1>3, <1>5 DEF Fills
    <2> QED BY <1>1, <1>4, <2>1, <2>2, <2>3, <2>4 DEF Matches
  <1>7. Good(c) BY <1>1, <1>3, <1>5, <1>6 DEF Good, Fills
  <1> QED BY <1>7 DEF c

\* of which there are none, one, two or three.
LEMMA CallOfNone ==
  ASSUME NEW fn \in RuntimeFn, NEW ret, Header[fn].params = <<>>, Returns(fn, ret)
  PROVE  Good(Call(fn, ret, <<>>, <<>>))
  <1> DEFINE e == <<>>
  <1>1. e \in Seq({}) /\ Len(e) = 0 OBVIOUS
  <1> HIDE DEF e
  <1>2. Header[fn].params = e BY DEF e
  <1>3. \A i \in 1..Len(e) : FALSE BY <1>1
  <1>4. Good(Call(fn, ret, e, e)) BY <1>1, <1>2, <1>3, CallFits
  <1> QED BY <1>4 DEF e

LEMMA CallOfOne ==
  ASSUME NEW fn \in RuntimeFn, NEW ret, Returns(fn, ret), NEW a, NEW p,
         Header[fn].params = <<p>>, Fills(a, p)
  PROVE  Good(Call(fn, ret, <<p[1]>>, <<a>>))
  <1> DEFINE t == <<p[1]>>
             s == <<a>>
             h == <<p>>
  <1>1. h \in Seq({p}) /\ Len(h) = 1 /\ h[1] = p OBVIOUS
  <1>2. t \in Seq({p[1]}) /\ Len(t) = 1 /\ t[1] = p[1] OBVIOUS
  <1>3. s \in Seq({a}) /\ Len(s) = 1 /\ s[1] = a OBVIOUS
  <1>4. Header[fn].params = h OBVIOUS
  <1> HIDE DEF t, s, h
  <1>5. \A i \in 1..Len(h) : i = 1 BY <1>1
  <1>6. \A i \in 1..Len(h) : t[i] = h[i][1] /\ Fills(s[i], h[i]) BY <1>1, <1>2, <1>3, <1>5
  <1>7. Len(t) = Len(h) /\ Len(s) = Len(h) BY <1>1, <1>2, <1>3
  <1>8. Good(Call(fn, ret, t, s)) BY <1>1, <1>2, <1>3, <1>4, <1>6, <1>7, CallFits
  <1> QED BY <1>8 DEF t, s

LEMMA CallOfTwo ==
  ASSUME NEW fn \in RuntimeFn, NEW ret, Returns(fn, ret), NEW a, NEW b,
         NEW p, NEW q,
         Header[fn].params = <<p, q>>, Fills(a, p), Fills(b, q)
  PROVE  Good(Call(fn, ret, <<p[1], q[1]>>, <<a, b>>))
  <1> DEFINE t == <<p[1], q[1]>>
             s == <<a, b>>
             h == <<p, q>>
  <1>1. h \in Seq({p, q}) /\ Len(h) = 2 /\ h[1] = p /\ h[2] = q OBVIOUS
  <1>2. t \in Seq({p[1], q[1]}) /\ Len(t) = 2 /\ t[1] = p[1] /\ t[2] = q[1] OBVIOUS
  <1>3. s \in Seq({a, b}) /\ Len(s) = 2 /\ s[1] = a /\ s[2] = b OBVIOUS
  <1>4. Header[fn].params = h OBVIOUS
  <1> HIDE DEF t, s, h
  <1>5. \A i \in 1..Len(h) : i = 1 \/ i = 2 BY <1>1
  <1>6. \A i \in 1..Len(h) : t[i] = h[i][1] /\ Fills(s[i], h[i]) BY <1>1, <1>2, <1>3, <1>5
  <1>7. Len(t) = Len(h) /\ Len(s) = Len(h) BY <1>1, <1>2, <1>3
  <1>8. Good(Call(fn, ret, t, s)) BY <1>1, <1>2, <1>3, <1>4, <1>6, <1>7, CallFits
  <1> QED BY <1>8 DEF t, s

LEMMA CallOfThree ==
  ASSUME NEW fn \in RuntimeFn, NEW ret, Returns(fn, ret), NEW a, NEW b, NEW d,
         NEW p, NEW q, NEW r,
         Header[fn].params = <<p, q, r>>, Fills(a, p), Fills(b, q), Fills(d, r)
  PROVE  Good(Call(fn, ret, <<p[1], q[1], r[1]>>, <<a, b, d>>))
  <1> DEFINE t == <<p[1], q[1], r[1]>>
             s == <<a, b, d>>
             h == <<p, q, r>>
  <1>1. h \in Seq({p, q, r}) /\ Len(h) = 3 /\ h[1] = p /\ h[2] = q /\ h[3] = r OBVIOUS
  <1>2. t \in Seq({p[1], q[1], r[1]}) /\ Len(t) = 3 /\ t[1] = p[1] /\ t[2] = q[1] /\ t[3] = r[1] OBVIOUS
  <1>3. s \in Seq({a, b, d}) /\ Len(s) = 3 /\ s[1] = a /\ s[2] = b /\ s[3] = d OBVIOUS
  <1>4. Header[fn].params = h OBVIOUS
  <1> HIDE DEF t, s, h
  <1>5. \A i \in 1..Len(h) : i = 1 \/ i = 2 \/ i = 3 BY <1>1
  <1>6. \A i \in 1..Len(h) : t[i] = h[i][1] /\ Fills(s[i], h[i]) BY <1>1, <1>2, <1>3, <1>5
  <1>7. Len(t) = Len(h) /\ Len(s) = Len(h) BY <1>1, <1>2, <1>3
  <1>8. Good(Call(fn, ret, t, s)) BY <1>1, <1>2, <1>3, <1>4, <1>6, <1>7, CallFits
  <1> QED BY <1>8 DEF t, s

-------------------------------------------------------------------------------
(* The headers and the dialect.                                            *)

LEMMA Apart ==
  /\ LogicalFn \cap (MemoryFn \cup BuilderFn \cup FunctionFn \cup ControlFlowFn \cup BuiltinFn) = {}
  /\ MemoryFn \cap (BuilderFn \cup FunctionFn \cup ControlFlowFn \cup BuiltinFn) = {}
  /\ BuilderFn \cap (FunctionFn \cup ControlFlowFn \cup BuiltinFn) = {}
  /\ FunctionFn \cap (ControlFlowFn \cup BuiltinFn) = {} /\ ControlFlowFn \cap BuiltinFn = {}
  BY DEF LogicalFn, BinaryFn, UnaryFn, MemoryFn, NameFn, BindFn, ConstFn, BuilderFn, PartsFn, FunctionFn,
         ControlFlowFn, BuiltinFn

LEMMA HeaderFiles ==
  /\ \A f \in LogicalFn : f \in RuntimeFn /\ Header[f] = LogicalHeader(f)
  /\ \A f \in MemoryFn : f \in RuntimeFn /\ Header[f] = MemoryHeader(f)
  /\ \A f \in BuilderFn : f \in RuntimeFn /\ Header[f] = BuilderHeader(f)
  /\ \A f \in FunctionFn : f \in RuntimeFn /\ Header[f] = FunctionHeader(f)
  /\ \A f \in ControlFlowFn : f \in RuntimeFn /\ Header[f] = ControlFlowHeader(f)
  /\ \A f \in BuiltinFn : f \in RuntimeFn /\ Header[f] = BuiltinHeader(f)
  <1>1. ASSUME NEW f \in LogicalFn PROVE f \in RuntimeFn /\ Header[f] = LogicalHeader(f)
    BY Apart DEF RuntimeFn, Header
  <1>2. ASSUME NEW f \in MemoryFn PROVE f \in RuntimeFn /\ Header[f] = MemoryHeader(f)
    BY Apart DEF RuntimeFn, Header
  <1>3. ASSUME NEW f \in BuilderFn PROVE f \in RuntimeFn /\ Header[f] = BuilderHeader(f)
    BY Apart DEF RuntimeFn, Header
  <1>4. ASSUME NEW f \in FunctionFn PROVE f \in RuntimeFn /\ Header[f] = FunctionHeader(f)
    BY Apart DEF RuntimeFn, Header
  <1>5. ASSUME NEW f \in ControlFlowFn PROVE f \in RuntimeFn /\ Header[f] = ControlFlowHeader(f)
    BY Apart DEF RuntimeFn, Header
  <1>6. ASSUME NEW f \in BuiltinFn PROVE f \in RuntimeFn /\ Header[f] = BuiltinHeader(f)
    BY Apart DEF RuntimeFn, Header
  <1> QED BY <1>1, <1>2, <1>3, <1>4, <1>5, <1>6

LEMMA LogicalHeaders ==
  /\ \A f \in LogicalFn : f \in RuntimeFn /\ Header[f] = LogicalHeader(f)
  /\ \A f \in BinaryFn : f \in LogicalFn /\ LogicalHeader(f) = Sig("ptr", <<Ptr("lhs"), Ptr("rhs")>>)
  /\ \A f \in UnaryFn : f \in LogicalFn /\ LogicalHeader(f) = Sig("ptr", <<Ptr("val")>>)
  /\ {"pyir_isTruthy", "pyir_idx", "pyir_in"} \subseteq LogicalFn
  /\ LogicalHeader("pyir_isTruthy") = Sig("i8", <<Ptr("val")>>)
  /\ LogicalHeader("pyir_idx") = Sig("ptr", <<Ptr("obj"), Ptr("idx")>>)
  /\ LogicalHeader("pyir_in") = Sig("ptr", <<Ptr("container"), Ptr("element")>>)
  <1>1. \A f \in LogicalFn : f \in RuntimeFn /\ Header[f] = LogicalHeader(f) BY HeaderFiles
  <1>2. ASSUME NEW f \in BinaryFn PROVE f \in LogicalFn /\ LogicalHeader(f) = Sig("ptr", <<Ptr("lhs"), Ptr("rhs")>>)
    BY DEF LogicalFn, LogicalHeader, BinaryFn, UnaryFn
  <1>4. ASSUME NEW f \in UnaryFn PROVE f \in LogicalFn /\ LogicalHeader(f) = Sig("ptr", <<Ptr("val")>>)
    BY DEF LogicalFn, LogicalHeader, BinaryFn, UnaryFn
  <1>5. {"pyir_isTruthy", "pyir_idx", "pyir_in"} \subseteq LogicalFn BY DEF LogicalFn
  <1>6. /\ LogicalHeader("pyir_isTruthy") = Sig("i8", <<Ptr("val")>>)
        /\ LogicalHeader("pyir_idx") = Sig("ptr", <<Ptr("obj"), Ptr("idx")>>)
        /\ LogicalHeader("pyir_in") = Sig("ptr", <<Ptr("container"), Ptr("element")>>)
    BY DEF LogicalHeader, BinaryFn, UnaryFn
  <1> QED BY <1>1, <1>2, <1>4, <1>5, <1>6

LEMMA MemoryHeaders ==
  /\ \A f \in MemoryFn : f \in RuntimeFn /\ Header[f] = MemoryHeader(f)
  /\ \A f \in NameFn : f \in MemoryFn /\ MemoryHeader(f) = Sig("ptr", <<Ptr("name")>>)
  /\ \A f \in BindFn : f \in MemoryFn /\ MemoryHeader(f) = Sig("void", <<Ptr("name"), Ptr("val")>>)
  /\ ConstFn \cup {"pyir_loadAttr", "pyir_storeSubscr"} \subseteq MemoryFn
  /\ MemoryHeader("pyir_loadConstStr") = Sig("ptr", <<Ptr("str")>>)
  /\ MemoryHeader("pyir_loadConstInt") = Sig("ptr", <<Size("val")>>)
  /\ MemoryHeader("pyir_loadConstFloat") = Sig("ptr", <<<<"f64", "val">>>>)
  /\ MemoryHeader("pyir_loadConstBool") = Sig("ptr", <<<<"i8", "val">>>>)
  /\ MemoryHeader("pyir_loadConstNone") = Sig("ptr", <<>>)
  /\ MemoryHeader("pyir_loadConstTuple") = Sig("ptr", <<Ptr("items"), Size("count")>>)
  /\ MemoryHeader("pyir_loadAttr") = Sig("ptr", <<Ptr("obj"), Ptr("name")>>)
  /\ MemoryHeader("pyir_storeSubscr") = Sig("void", <<Ptr("container"), Ptr("idx"), Ptr("value")>>)
  <1>2. \A f \in MemoryFn : f \in RuntimeFn /\ Header[f] = MemoryHeader(f) BY HeaderFiles
  <1>3. ASSUME NEW f \in NameFn PROVE f \in MemoryFn /\ MemoryHeader(f) = Sig("ptr", <<Ptr("name")>>)
    BY DEF MemoryFn, MemoryHeader, NameFn, BindFn
  <1>4. ASSUME NEW f \in BindFn PROVE f \in MemoryFn /\ MemoryHeader(f) = Sig("void", <<Ptr("name"), Ptr("val")>>)
    BY DEF MemoryFn, MemoryHeader, NameFn, BindFn
  <1>5. ConstFn \cup {"pyir_loadAttr", "pyir_storeSubscr"} \subseteq MemoryFn BY DEF MemoryFn
  <1>6. /\ MemoryHeader("pyir_loadConstStr") = Sig("ptr", <<Ptr("str")>>)
        /\ MemoryHeader("pyir_loadConstInt") = Sig("ptr", <<Size("val")>>)
        /\ MemoryHeader("pyir_loadConstFloat") = Sig("ptr", <<<<"f64", "val">>>>)
        /\ MemoryHeader("pyir_loadConstBool") = Sig("ptr", <<<<"i8", "val">>>>)
    BY DEF MemoryHeader, NameFn, BindFn
  <1>7. /\ MemoryHeader("pyir_loadConstNone") = Sig("ptr", <<>>)
        /\ MemoryHeader("pyir_loadConstTuple") = Sig("ptr", <<Ptr("items"), Size("count")>>)
        /\ MemoryHeader("pyir_loadAttr") = Sig("ptr", <<Ptr("obj"), Ptr("name")>>)
        /\ MemoryHeader("pyir_storeSubscr") = Sig("void", <<Ptr("container"), Ptr("idx"), Ptr("value")>>)
    BY DEF MemoryHeader, NameFn, BindFn
  <1> QED BY <1>2, <1>3, <1>4, <1>5, <1>6, <1>7

LEMMA BuilderHeaders ==
  /\ \A f \in BuilderFn : f \in RuntimeFn /\ Header[f] = BuilderHeader(f)
  /\ \A f \in PartsFn : f \in BuilderFn /\ BuilderHeader(f) = Sig("ptr", <<Ptr("parts"), Size("count")>>)
  /\ {"pyir_listExtend", "pyir_listAppend", "pyir_setUpdate", "pyir_setAdd", "pyir_mapAdd"} \subseteq BuilderFn
  /\ BuilderHeader("pyir_listExtend") = Sig("void", <<Ptr("list"), Ptr("items")>>)
  /\ BuilderHeader("pyir_listAppend") = Sig("void", <<Ptr("list"), Ptr("item")>>)
  /\ BuilderHeader("pyir_setUpdate") = Sig("void", <<Ptr("set"), Ptr("items")>>)
  /\ BuilderHeader("pyir_setAdd") = Sig("void", <<Ptr("set"), Ptr("item")>>)
  /\ BuilderHeader("pyir_mapAdd") = Sig("void", <<Ptr("dict"), Ptr("key"), Ptr("value")>>)
  <1>3. \A f \in BuilderFn : f \in RuntimeFn /\ Header[f] = BuilderHeader(f) BY HeaderFiles
  <1>4. ASSUME NEW f \in PartsFn
        PROVE  f \in BuilderFn /\ BuilderHeader(f) = Sig("ptr", <<Ptr("parts"), Size("count")>>)
    BY DEF BuilderFn, BuilderHeader, PartsFn
  <1>5. {"pyir_listExtend", "pyir_listAppend", "pyir_setUpdate", "pyir_setAdd", "pyir_mapAdd"} \subseteq BuilderFn
    BY DEF BuilderFn
  <1>6. /\ BuilderHeader("pyir_listExtend") = Sig("void", <<Ptr("list"), Ptr("items")>>)
        /\ BuilderHeader("pyir_listAppend") = Sig("void", <<Ptr("list"), Ptr("item")>>)
        /\ BuilderHeader("pyir_setUpdate") = Sig("void", <<Ptr("set"), Ptr("items")>>)
        /\ BuilderHeader("pyir_setAdd") = Sig("void", <<Ptr("set"), Ptr("item")>>)
        /\ BuilderHeader("pyir_mapAdd") = Sig("void", <<Ptr("dict"), Ptr("key"), Ptr("value")>>)
    BY DEF BuilderHeader, PartsFn
  <1> QED BY <1>3, <1>4, <1>5, <1>6

LEMMA OtherHeaders ==
  /\ FunctionFn \cup ControlFlowFn \cup BuiltinFn \subseteq RuntimeFn
  /\ Header["pyir_pushScope"] = Sig("void", <<>>)
  /\ Header["pyir_popScope"] = Sig("void", <<>>)
  /\ Header["pyir_makeFunction"] = Sig("ptr", <<Ptr("fnName"), Ptr("fn_ptr")>>)
  /\ Header["pyir_call"] = Sig("ptr", <<Ptr("callee"), Ptr("args"), Size("argc")>>)
  /\ Header["pyir_decref"] = Sig("void", <<Ptr("v")>>)
  /\ Header["pyir_getIter"] = Sig("ptr", <<Ptr("container")>>)
  /\ Header["pyir_forIter"] = Sig("ptr", <<Ptr("iterator")>>)
  /\ Header["pyir_popIter"] = Sig("ptr", <<>>)
  /\ Header["pyir_initModule"] = Sig("void", <<Ptr("file"), Ptr("name")>>)
  /\ Header["pyir_destroyModule"] = Sig("void", <<>>)
  <1>3. /\ \A f \in FunctionFn : f \in RuntimeFn /\ Header[f] = FunctionHeader(f)
        /\ \A f \in ControlFlowFn : f \in RuntimeFn /\ Header[f] = ControlFlowHeader(f)
        /\ \A f \in BuiltinFn : f \in RuntimeFn /\ Header[f] = BuiltinHeader(f)
    BY HeaderFiles
  <1>4. /\ Header["pyir_pushScope"] = Sig("void", <<>>)
        /\ Header["pyir_popScope"] = Sig("void", <<>>)
        /\ Header["pyir_makeFunction"] = Sig("ptr", <<Ptr("fnName"), Ptr("fn_ptr")>>)
        /\ Header["pyir_call"] = Sig("ptr", <<Ptr("callee"), Ptr("args"), Size("argc")>>)
        /\ Header["pyir_decref"] = Sig("void", <<Ptr("v")>>)
    BY <1>3 DEF FunctionFn, FunctionHeader
  <1>5. /\ Header["pyir_getIter"] = Sig("ptr", <<Ptr("container")>>)
        /\ Header["pyir_forIter"] = Sig("ptr", <<Ptr("iterator")>>)
        /\ Header["pyir_popIter"] = Sig("ptr", <<>>)
    BY <1>3 DEF ControlFlowFn, ControlFlowHeader
  <1>6. /\ Header["pyir_initModule"] = Sig("void", <<Ptr("file"), Ptr("name")>>)
        /\ Header["pyir_destroyModule"] = Sig("void", <<>>)
    BY <1>3 DEF BuiltinFn, BuiltinHeader
  <1> QED BY <1>3, <1>4, <1>5, <1>6

LEMMA Dialect ==
  /\ \A o \in PlainOp : Operands[o] = <<>>
  /\ \A o \in StoreOp : Operands[o] = <<"value">>
  /\ Operands["load_attr"] = <<"object">> /\ Operands["call"] = <<"callee">>
  /\ \A o \in UnaryOp : Operands[o] = <<"value">>
  /\ Operands["binary_op"] = <<"lhs", "rhs">> /\ Operands["compare_op"] = <<"lhs", "rhs">>
  /\ Operands["contains_op"] = <<"container", "element">>
  /\ \A o \in BuildOp : Operands[o] = <<>>
  /\ Operands["list_extend"] = <<"list", "items">> /\ Operands["list_append"] = <<"list", "item">>
  /\ Operands["set_update"] = <<"set", "items">> /\ Operands["set_add"] = <<"set", "item">>
  /\ Operands["map_add"] = <<"map", "key", "value">>
  /\ Operands["store_subscr"] = <<"collection", "idx", "value">>
  /\ Operands["get_iter"] = <<"container">> /\ Operands["for_iter"] = <<"iterator">>
  <1>1. ScopeOp \cap LogicalOp = {} /\ ScopeOp \cap ContainerOp = {} /\ LogicalOp \cap ContainerOp = {}
    BY DEF ScopeOp, PlainOp, StoreOp, LogicalOp, UnaryOp, ContainerOp, BuildOp
  <1>2. /\ \A o \in ScopeOp : Operands[o] = ScopeOperands(o)
        /\ \A o \in LogicalOp : Operands[o] = LogicalOperands(o)
        /\ \A o \in ContainerOp : Operands[o] = ContainerOperands(o)
    BY <1>1 DEF Operands
  <1>3. ASSUME NEW o \in PlainOp PROVE Operands[o] = <<>>
    BY <1>2 DEF ScopeOp, ScopeOperands, PlainOp, StoreOp
  <1>4. ASSUME NEW o \in StoreOp PROVE Operands[o] = <<"value">>
    BY <1>2 DEF ScopeOp, ScopeOperands, PlainOp, StoreOp
  <1>5. Operands["load_attr"] = <<"object">> /\ Operands["call"] = <<"callee">>
    BY <1>2 DEF ScopeOp, PlainOp, StoreOp, ScopeOperands
  <1>6. ASSUME NEW o \in UnaryOp PROVE Operands[o] = <<"value">> BY <1>2 DEF LogicalOp, LogicalOperands, UnaryOp
  <1>7. /\ Operands["binary_op"] = <<"lhs", "rhs">> /\ Operands["compare_op"] = <<"lhs", "rhs">>
        /\ Operands["contains_op"] = <<"container", "element">>
    BY <1>2 DEF LogicalOp, UnaryOp, LogicalOperands
  <1>8. ASSUME NEW o \in BuildOp PROVE Operands[o] = <<>> BY <1>2 DEF ContainerOp, ContainerOperands, BuildOp
  <1>9. /\ Operands["list_extend"] = <<"list", "items">> /\ Operands["list_append"] = <<"list", "item">>
        /\ Operands["set_update"] = <<"set", "items">> /\ Operands["set_add"] = <<"set", "item">>
        /\ Operands["map_add"] = <<"map", "key", "value">>
    BY <1>2 DEF ContainerOp, BuildOp, ContainerOperands
  <1>10. /\ Operands["store_subscr"] = <<"collection", "idx", "value">>
         /\ Operands["get_iter"] = <<"container">> /\ Operands["for_iter"] = <<"iterator">>
    BY <1>2 DEF ContainerOp, BuildOp, ContainerOperands
  <1> QED BY <1>3, <1>4, <1>5, <1>6, <1>7, <1>8, <1>9, <1>10

LEMMA Meanings ==
  /\ "val" \in Means("value") /\ "v" \in Means("value") /\ "value" \in Means("value")
  /\ "obj" \in Means("object") /\ "container" \in Means("collection") /\ "dict" \in Means("map")
  /\ "lhs" \in Means("lhs") /\ "obj" \in Means("lhs") /\ "rhs" \in Means("rhs") /\ "idx" \in Means("rhs")
  /\ "name" \in Means("var_name") /\ "name" \in Means("attr_name") /\ "fnName" \in Means("fn_name")
  /\ \A n \in {"container", "element", "list", "item", "items", "set", "key", "idx", "iterator", "callee",
               "args", "argc", "parts", "count", "file", "name", "str", "val", "fn_ptr"} : n \in Means(n)
  BY DEF Means

-------------------------------------------------------------------------------
(* Calls with the operands of the operation.                               *)

IsSeq(s) == s \in Seq(Range(s))

LEMMA RangeSeq ==
  ASSUME NEW S, NEW s \in Seq(S) PROVE IsSeq(s)
  <1>1. s = [i \in 1..Len(s) |-> s[i]] OBVIOUS
  <1>2. Len(s) \in Nat /\ \A i \in 1..Len(s) : s[i] \in Range(s) BY DEF Range
  <1> DEFINE t == [i \in 1..Len(s) |-> s[i]]
  <1>3. t \in Seq(Range(s)) BY <1>2
  <1> HIDE DEF t
  <1>4. s = t BY <1>1 DEF t
  <1> QED BY <1>3, <1>4 DEF IsSeq

\* The operands of op are the arguments that fn takes.
Suits(op, fn) ==
  LET names  == Operands[op.name]
      params == Header[fn].params
  IN  /\ op \in Operation /\ "n" \notin DOMAIN op /\ fn \in RuntimeFn
      /\ IsSeq(names) /\ IsSeq(params) /\ Len(names) = Len(params)
      /\ \A i \in 1..Len(params) : params[i][1] = "ptr" /\ params[i][2] \in Means(names[i])

LEMMA SuitsNone ==
  ASSUME NEW op \in Operation, "n" \notin DOMAIN op, NEW fn \in RuntimeFn,
         Operands[op.name] = <<>>, Header[fn].params = <<>>
  PROVE  Suits(op, fn)
  <1> DEFINE e == <<>>
  <1>1. e \in Seq({}) /\ Len(e) = 0 OBVIOUS
  <1>2. Operands[op.name] = e /\ Header[fn].params = e OBVIOUS
  <1> HIDE DEF e
  <1>3. IsSeq(e) BY <1>1, RangeSeq
  <1> QED BY <1>1, <1>2, <1>3 DEF Suits

LEMMA SuitsOne ==
  ASSUME NEW op \in Operation, "n" \notin DOMAIN op, NEW fn \in RuntimeFn,
         NEW a, NEW p, Operands[op.name] = <<a>>, Header[fn].params = <<Ptr(p)>>,
         p \in Means(a)
  PROVE  Suits(op, fn)
  <1> DEFINE s == <<a>>
             h == <<Ptr(p)>>
  <1>1. s \in Seq({a}) /\ Len(s) = 1 /\ s[1] = a OBVIOUS
  <1>2. h \in Seq({Ptr(p)}) /\ Len(h) = 1 /\ h[1][1] = "ptr" /\ h[1][2] = p BY DEF Ptr
  <1>3. Operands[op.name] = s /\ Header[fn].params = h OBVIOUS
  <1> HIDE DEF s, h
  <1>4. \A i \in 1..Len(h) : i = 1 BY <1>2
  <1>5. IsSeq(s) /\ IsSeq(h) BY <1>1, <1>2, RangeSeq
  <1> QED BY <1>1, <1>2, <1>3, <1>4, <1>5 DEF Suits

LEMMA SuitsTwo ==
  ASSUME NEW op \in Operation, "n" \notin DOMAIN op, NEW fn \in RuntimeFn,
         NEW a, NEW b, NEW p, NEW q,
         Operands[op.name] = <<a, b>>, Header[fn].params = <<Ptr(p), Ptr(q)>>,
         p \in Means(a), q \in Means(b)
  PROVE  Suits(op, fn)
  <1> DEFINE s == <<a, b>>
             h == <<Ptr(p), Ptr(q)>>
  <1>1. s \in Seq({a, b}) /\ Len(s) = 2 /\ s[1] = a /\ s[2] = b OBVIOUS
  <1>2. /\ h \in Seq({Ptr(p), Ptr(q)}) /\ Len(h) = 2
        /\ h[1][1] = "ptr" /\ h[1][2] = p /\ h[2][1] = "ptr" /\ h[2][2] = q
    BY DEF Ptr
  <1>3. Operands[op.name] = s /\ Header[fn].params = h OBVIOUS
  <1> HIDE DEF s, h
  <1>4. \A i \in 1..Len(h) : i = 1 \/ i = 2 BY <1>2
  <1>5. IsSeq(s) /\ IsSeq(h) BY <1>1, <1>2, RangeSeq
  <1> QED BY <1>1, <1>2, <1>3, <1>4, <1>5 DEF Suits

LEMMA SuitsThree ==
  ASSUME NEW op \in Operation, "n" \notin DOMAIN op, NEW fn \in RuntimeFn,
         NEW a, NEW b, NEW d,
         NEW p, NEW q, NEW r,
         Operands[op.name] = <<a, b, d>>, Header[fn].params = <<Ptr(p), Ptr(q), Ptr(r)>>,
         p \in Means(a), q \in Means(b), r \in Means(d)
  PROVE  Suits(op, fn)
  <1> DEFINE s == <<a, b, d>>
             h == <<Ptr(p), Ptr(q), Ptr(r)>>
  <1>1. s \in Seq({a, b, d}) /\ Len(s) = 3 /\ s[1] = a /\ s[2] = b /\ s[3] = d OBVIOUS
  <1>2. /\ h \in Seq({Ptr(p), Ptr(q), Ptr(r)}) /\ Len(h) = 3
        /\ h[1][1] = "ptr" /\ h[1][2] = p /\ h[2][1] = "ptr" /\ h[2][2] = q
        /\ h[3][1] = "ptr" /\ h[3][2] = r
    BY DEF Ptr
  <1>3. Operands[op.name] = s /\ Header[fn].params = h OBVIOUS
  <1> HIDE DEF s, h
  <1>4. \A i \in 1..Len(h) : i = 1 \/ i = 2 \/ i = 3 BY <1>2
  <1>5. IsSeq(s) /\ IsSeq(h) BY <1>1, <1>2, RangeSeq
  <1> QED BY <1>1, <1>2, <1>3, <1>4, <1>5 DEF Suits

\* The call that insertRuntimeFunc makes is good.
LEMMA DirectGood ==
  ASSUME NEW op, NEW fn, Suits(op, fn), NEW ret, Returns(fn, ret)
  PROVE  Good(Call(fn, ret, [i \in DOMAIN OperandsOf(op) |-> "ptr"], OperandsOf(op)))
  <1> DEFINE names  == Operands[op.name]
             params == Header[fn].params
             args   == OperandsOf(op)
             types  == [i \in DOMAIN args |-> "ptr"]
             n      == Len(params)
  <1>1. /\ op \in Operation /\ "n" \notin DOMAIN op /\ fn \in RuntimeFn
        /\ IsSeq(names) /\ IsSeq(params) /\ Len(names) = n /\ n \in Nat
        /\ \A i \in 1..n : params[i][1] = "ptr" /\ params[i][2] \in Means(names[i])
    BY DEF Suits, IsSeq
  <1>2. args = [i \in 1..n |-> Operand(names[i])]
    <2>1. args = [i \in 1..Len(names) |-> Operand(names[i])] BY <1>1, FixedOperands DEF IsSeq
    <2> HIDE DEF names, params
    <2> QED BY <1>1, <2>1
  <1> HIDE DEF args, names, params, n
  <1>3. args \in Seq({Operand(names[i]) : i \in 1..n}) /\ Len(args) = n /\ DOMAIN args = 1..n BY <1>1, <1>2
  <1>4. types \in Seq({"ptr"}) /\ Len(types) = n /\ \A i \in 1..n : types[i] = "ptr" BY <1>1, <1>3
  <1> HIDE DEF types
  <1>5. \A i \in 1..n : types[i] = params[i][1] /\ Fills(args[i], params[i])
    BY <1>1, <1>2, <1>4 DEF Fills, Operand, Arg
  <1>6. Good(Call(fn, ret, types, args))
    BY <1>1, <1>3, <1>4, <1>5, CallFits DEF IsSeq, params, n
  <1> QED BY <1>6 DEF types, args

\* The functions that insertRuntimeFunc is asked for.
LEMMA StatementSuits ==
  ASSUME NEW op \in Operation, op.name \in DOMAIN ReturnsNothing
  PROVE  Suits(op, ReturnsNothing[op.name])
  <1>1. "n" \notin DOMAIN op BY Kinds DEF Unary
  <1>2. CASE op.name = "pop_top"
    <2>1. Operands[op.name] = <<"value">> BY <1>2, Dialect DEF StoreOp
    <2>2. ReturnsNothing[op.name] = "pyir_decref" BY <1>2 DEF ReturnsNothing
    <2>3. Header["pyir_decref"].params = <<Ptr("v")>> /\ "pyir_decref" \in RuntimeFn
      BY OtherHeaders DEF Sig, FunctionFn
    <2> QED BY <1>1, <2>1, <2>2, <2>3, Meanings, SuitsOne
  <1>3. CASE op.name # "pop_top"
    <2>1. Operands[op.name] = <<>> BY <1>3, Dialect DEF ReturnsNothing, PlainOp
    <2>2. ReturnsNothing[op.name] \in {"pyir_destroyModule", "pyir_pushScope", "pyir_popScope", "pyir_popIter"}
      BY <1>3 DEF ReturnsNothing
    <2>3. ReturnsNothing[op.name] \in RuntimeFn /\ Header[ReturnsNothing[op.name]].params = <<>>
      BY <2>2, OtherHeaders DEF Sig, FunctionFn, ControlFlowFn, BuiltinFn
    <2> QED BY <1>1, <2>1, <2>3, SuitsNone
  <1> QED BY <1>2, <1>3

LEMMA BuilderSuits ==
  ASSUME NEW op \in Operation, op.name \in DOMAIN BuilderStatement
  PROVE  Suits(op, BuilderStatement[op.name])
  <1>1. "n" \notin DOMAIN op BY Kinds DEF Unary
  <1>2. \A f \in {"pyir_listExtend", "pyir_listAppend", "pyir_setUpdate", "pyir_setAdd", "pyir_mapAdd"} :
           f \in RuntimeFn /\ Header[f] = BuilderHeader(f)
    BY BuilderHeaders
  <1>3. CASE op.name = "list_extend"
    <2>1. BuilderStatement[op.name] = "pyir_listExtend" BY <1>3 DEF BuilderStatement
    <2>2. Header["pyir_listExtend"].params = <<Ptr("list"), Ptr("items")>> BY <1>2, BuilderHeaders DEF Sig
    <2> QED BY <1>1, <1>2, <1>3, <2>1, <2>2, Dialect, Meanings, SuitsTwo
  <1>4. CASE op.name = "list_append"
    <2>1. BuilderStatement[op.name] = "pyir_listAppend" BY <1>4 DEF BuilderStatement
    <2>2. Header["pyir_listAppend"].params = <<Ptr("list"), Ptr("item")>> BY <1>2, BuilderHeaders DEF Sig
    <2> QED BY <1>1, <1>2, <1>4, <2>1, <2>2, Dialect, Meanings, SuitsTwo
  <1>5. CASE op.name = "set_update"
    <2>1. BuilderStatement[op.name] = "pyir_setUpdate" BY <1>5 DEF BuilderStatement
    <2>2. Header["pyir_setUpdate"].params = <<Ptr("set"), Ptr("items")>> BY <1>2, BuilderHeaders DEF Sig
    <2> QED BY <1>1, <1>2, <1>5, <2>1, <2>2, Dialect, Meanings, SuitsTwo
  <1>6. CASE op.name = "set_add"
    <2>1. BuilderStatement[op.name] = "pyir_setAdd" BY <1>6 DEF BuilderStatement
    <2>2. Header["pyir_setAdd"].params = <<Ptr("set"), Ptr("item")>> BY <1>2, BuilderHeaders DEF Sig
    <2> QED BY <1>1, <1>2, <1>6, <2>1, <2>2, Dialect, Meanings, SuitsTwo
  <1>7. CASE op.name = "map_add"
    <2>1. BuilderStatement[op.name] = "pyir_mapAdd" BY <1>7 DEF BuilderStatement
    <2>2. Header["pyir_mapAdd"].params = <<Ptr("dict"), Ptr("key"), Ptr("value")>>
      BY <1>2, BuilderHeaders DEF Sig
    <2> QED BY <1>1, <1>2, <1>7, <2>1, <2>2, Dialect, Meanings, SuitsThree
  <1> QED BY <1>3, <1>4, <1>5, <1>6, <1>7 DEF BuilderStatement

LEMMA ExpressionSuits ==
  ASSUME NEW op \in Operation, op.name \in DOMAIN ReturnsObject
  PROVE  Suits(op, ReturnsObject[op.name]) /\ Header[ReturnsObject[op.name]].returns = "ptr"
  <1>1. "n" \notin DOMAIN op BY Kinds DEF Unary
  <1>2. CASE op.name = "get_iter"
    <2>1. ReturnsObject[op.name] = "pyir_getIter" BY <1>2 DEF ReturnsObject
    <2>2. /\ Header["pyir_getIter"].params = <<Ptr("container")>> /\ Header["pyir_getIter"].returns = "ptr"
          /\ "pyir_getIter" \in RuntimeFn
      BY OtherHeaders DEF Sig, ControlFlowFn
    <2> QED BY <1>1, <1>2, <2>1, <2>2, Dialect, Meanings, SuitsOne
  <1>3. CASE op.name # "get_iter"
    <2>1. Operands[op.name] = <<"value">> BY <1>3, Dialect DEF ReturnsObject, UnaryOp
    <2>2. ReturnsObject[op.name] \in UnaryFn BY <1>3 DEF ReturnsObject, UnaryFn
    <2>3. /\ ReturnsObject[op.name] \in RuntimeFn
          /\ Header[ReturnsObject[op.name]].params = <<Ptr("val")>>
          /\ Header[ReturnsObject[op.name]].returns = "ptr"
      BY <2>2, LogicalHeaders DEF Sig
    <2> QED BY <1>1, <2>1, <2>3, Meanings, SuitsOne
  <1> QED BY <1>2, <1>3

\* A binary operator works on two objects, or is a subscript.
LEMMA OperatorSuits ==
  ASSUME NEW op \in Operation, op.name \in {"binary_op", "compare_op"}, NEW fn \in BinaryFn \cup {"pyir_idx"}
  PROVE  Suits(op, fn) /\ Header[fn].returns = "ptr"
  <1>1. "n" \notin DOMAIN op BY Kinds
  <1>2. Operands[op.name] = <<"lhs", "rhs">> BY Dialect
  <1>3. CASE fn \in BinaryFn
    <2>1. /\ fn \in RuntimeFn /\ Header[fn].params = <<Ptr("lhs"), Ptr("rhs")>>
          /\ Header[fn].returns = "ptr"
      BY <1>3, LogicalHeaders DEF Sig
    <2> QED BY <1>1, <1>2, <2>1, Meanings, SuitsTwo
  <1>4. CASE fn = "pyir_idx"
    <2>1. /\ fn \in RuntimeFn /\ Header[fn].params = <<Ptr("obj"), Ptr("idx")>>
          /\ Header[fn].returns = "ptr"
      BY <1>4, LogicalHeaders DEF Sig
    <2> QED BY <1>1, <1>2, <2>1, Meanings, SuitsTwo
  <1> QED BY <1>3, <1>4

LEMMA ContainsSuits ==
  ASSUME NEW op \in Operation, op.name = "contains_op"
  PROVE  Suits(op, "pyir_in") /\ Header["pyir_in"].returns = "ptr"
  <1>1. "n" \notin DOMAIN op BY Kinds
  <1>2. /\ "pyir_in" \in RuntimeFn /\ Header["pyir_in"].params = <<Ptr("container"), Ptr("element")>>
        /\ Header["pyir_in"].returns = "ptr"
    BY LogicalHeaders DEF Sig
  <1> QED BY <1>1, <1>2, Dialect, Meanings, SuitsTwo

-------------------------------------------------------------------------------
(* The invariant.                                                          *)

\* The calls of a constant.
ConstCalls(c) ==
  LET a == ConstAttr(Decode(c))
  IN  IF c[1] = "code" THEN <<>>
      ELSE IF a[1] = "None" THEN <<LoadNoneConst>>
      ELSE IF a[1] = "Array" THEN LoadTupleConst(a[2])
      ELSE <<LoadScalarConst(a)>>

\* What the front end accepts and the pass loads.
Decodes(op)  == op.name = "load_const" => Decode(op.const) # Unknown
Loadable(c)  == Decode(c) # Unknown /\ c[1] # "code"

Declares(fn, type) ==
  /\ fn \in DOMAIN Header /\ Returns(fn, type[1])
  /\ type[2] = [i \in DOMAIN Header[fn].params |-> Header[fn].params[i][1]]

\* What has been converted, and how far the pass has come;
Shape ==
  /\ prog \in Seq(Operation) /\ IsSeq(code) /\ Len(code) <= Len(prog)
  /\ \A i \in DOMAIN code : IsSeq(code[i])

Outcomes ==
  /\ outcome \in {"decoding", "refused", "lowering", "lowered", "failed", "crashed"}
  /\ outcome = "refused" => \E i \in DOMAIN prog : Unsupported(prog[i])
  /\ outcome \in {"decoding", "refused"} => code = <<>>
  /\ outcome \notin {"decoding", "refused"} => \A i \in DOMAIN prog : Decodes(prog[i])
  /\ outcome = "lowered" => Len(code) = Len(prog)
  /\ outcome # "lowered" => Len(code) < Len(prog)
  /\ outcome \in {"failed", "crashed"} => Unsupported(Now)

Converted ==
  \A i \in DOMAIN code :
    /\ ~ Unsupported(prog[i])
    /\ prog[i].name = "load_const" => code[i] = ConstCalls(prog[i].const)

\* the declarations and the strings of the module, which are what the calls
\* asked for.
Declarations ==
  /\ \A c \in Calls : Good(c) /\ c.fn \in DOMAIN decls
  /\ \A fn \in DOMAIN decls : Declares(fn, decls[fn])

Strings ==
  /\ \A a \in Symbols : a.symbol \in DOMAIN globals
  /\ \A s \in DOMAIN globals : \E a \in Symbols : a.symbol = s /\ globals[s] = a.text

IInv == Shape /\ Outcomes /\ Converted /\ Declarations /\ Strings

LEMMA InitInv == Init => IInv
  <1> SUFFICES ASSUME Init PROVE IInv OBVIOUS
  <1>1. PICK n \in 1..MaxOps : prog \in [1..n -> Op] BY DEF Init
  <1>2. n \in Nat /\ n >= 1 /\ Op \subseteq Operation BY LoweringAssumption
  <1>3. prog \in Seq(Operation) /\ Len(prog) = n
    <2>1. prog \in [1..n -> Operation] BY <1>1, <1>2
    <2> QED BY <1>2, <2>1
  <1>4. code = <<>> /\ decls = <<>> /\ globals = <<>> /\ outcome = "decoding" BY DEF Init
  <1>5. code \in Seq({}) /\ Len(code) = 0 /\ DOMAIN code = {} BY <1>4
  <1>6. DOMAIN decls = {} /\ DOMAIN globals = {} BY <1>4
  <1>7. Calls = {} BY <1>5 DEF Calls
  <1>8. Symbols = {} BY <1>7 DEF Symbols
  <1>9. Shape
    <2>1. IsSeq(code) BY <1>5, RangeSeq
    <2> QED BY <1>2, <1>3, <1>5, <2>1 DEF Shape
  <1> QED BY <1>2, <1>3, <1>4, <1>5, <1>6, <1>7, <1>8, <1>9 DEF IInv, Outcomes, Converted, Declarations, Strings

\* A symbol is an argument of a call.
LEMMA SymbolsOfCalls ==
  \A a : a \in Symbols <=> a.class = "symbol" /\ \E c \in Calls : \E j \in DOMAIN c.args : a = c.args[j]
  BY DEF Symbols, Range

\* What the calls of an operation add.
LEMMA EmitAdds ==
  ASSUME Shape, NEW calls, IsSeq(calls), Emit(calls)
  PROVE  /\ Shape' \/ Len(code) >= Len(prog)
         /\ Len(code') = Len(code) + 1 /\ DOMAIN code = 1..Len(code) /\ DOMAIN code' = 1..(Len(code) + 1)
         /\ Len(code) \in Nat /\ code'[Len(code) + 1] = calls
         /\ \A i \in DOMAIN code : i \in 1..Len(code) /\ code'[i] = code[i]
         /\ \A c : c \in Calls' <=> c \in Calls \/ \E i \in DOMAIN calls : c = calls[i]
  <1> DEFINE n == Len(code)
  <1>1. code' = Append(code, calls) /\ prog' = prog BY DEF Emit
  <1>2. IsSeq(code) /\ n \in Nat /\ DOMAIN code = 1..n BY DEF Shape, IsSeq
  <1>3. /\ code' \in Seq(Range(code) \cup {calls}) /\ Len(code') = n + 1 /\ DOMAIN code' = 1..(n + 1)
        /\ code'[n + 1] = calls /\ \A i \in 1..n : code'[i] = code[i]
    <2>1. code \in Seq(Range(code) \cup {calls}) BY <1>2 DEF IsSeq
    <2> QED BY <1>1, <1>2, <2>1
  <1>4. IsSeq(code') BY <1>3, RangeSeq
  <1> HIDE DEF n
  <1>5. Shape' \/ n >= Len(prog)
    <2>1. Len(prog) \in Nat BY DEF Shape
    <2>2. \A i \in DOMAIN code' : IsSeq(code'[i])
      <3>1. ASSUME NEW i \in 1..(n + 1) PROVE IsSeq(code'[i])
        <4>1. CASE i = n + 1 BY <1>3, <4>1
        <4>2. CASE i \in 1..n BY <1>2, <1>3, <4>2 DEF Shape
        <4> QED BY <1>2, <4>1, <4>2
      <3> QED BY <1>3, <3>1
    <2>3. prog' \in Seq(Operation) /\ Len(prog') = Len(prog) BY <1>1 DEF Shape
    <2> QED BY <1>2, <1>3, <1>4, <2>1, <2>2, <2>3 DEF Shape
  <1>6. \A c : c \in Calls' <=> c \in Calls \/ \E i \in DOMAIN calls : c = calls[i]
    <2>1. Calls = UNION {Range(code[i]) : i \in 1..n} BY <1>2 DEF Calls
    <2>2. Calls' = UNION {Range(code'[i]) : i \in 1..(n + 1)} BY <1>3 DEF Calls
    <2>3. ASSUME NEW c \in Calls' PROVE c \in Calls \/ \E i \in DOMAIN calls : c = calls[i]
      <3>1. PICK i \in 1..(n + 1) : c \in Range(code'[i]) BY <2>2
      <3>2. CASE i \in 1..n BY <1>3, <2>1, <3>1, <3>2
      <3>3. CASE i = n + 1 BY <1>3, <3>1, <3>3 DEF Range
      <3> QED BY <1>2, <3>2, <3>3
    <2>4. ASSUME NEW c \in Calls PROVE c \in Calls'
      <3>1. PICK i \in 1..n : c \in Range(code[i]) BY <2>1
      <3>2. i \in 1..(n + 1) BY <1>2
      <3> QED BY <1>3, <2>2, <3>1, <3>2
    <2>5. ASSUME NEW i \in DOMAIN calls PROVE calls[i] \in Calls'
      <3>1. n + 1 \in 1..(n + 1) /\ calls[i] \in Range(code'[n + 1]) BY <1>2, <1>3 DEF Range
      <3> QED BY <2>2, <3>1
    <2> QED BY <2>3, <2>4, <2>5
  <1> QED BY <1>2, <1>3, <1>5, <1>6 DEF n

\* The function of every call is declared with the type the first one gave.
LEMMA EmitDeclares ==
  ASSUME Shape, Declarations, NEW calls, IsSeq(calls), \A i \in DOMAIN calls : Good(calls[i]), Emit(calls)
  PROVE  Declarations'
  <1> DEFINE D == DOMAIN decls \cup {calls[i].fn : i \in DOMAIN calls}
  <1>1. /\ DOMAIN decls' = D
        /\ \A fn \in D : decls'[fn] = IF fn \in DOMAIN decls THEN decls[fn]
                                      ELSE calls[Earliest(CallsOf(calls, fn))[1]].type
    BY DEF Emit, GetOrInsertRuntimeFn
  <1>2. DOMAIN calls \subseteq Nat BY DEF IsSeq
  <1>3. ASSUME NEW c \in Calls' PROVE Good(c) /\ c.fn \in DOMAIN decls'
    BY <1>1, EmitAdds DEF Declarations
  <1>4. ASSUME NEW fn \in D PROVE Declares(fn, decls'[fn])
    <2>1. CASE fn \in DOMAIN decls BY <1>1, <2>1 DEF Declarations
    <2>2. CASE fn \notin DOMAIN decls
      <3> DEFINE P == CallsOf(calls, fn)
      <3>1. PICK i \in DOMAIN calls : calls[i].fn = fn BY <2>2
      <3>2. <<i, 0>> \in P BY <3>1 DEF CallsOf
      <3>3. P \in SUBSET (Nat \X Nat) BY <1>2 DEF CallsOf
      <3>4. Earliest(P) \in P
        <4> HIDE DEF P
        <4> QED BY <3>2, <3>3, EarliestIn
      <3>5. PICK k \in DOMAIN calls : Earliest(P)[1] = k /\ calls[k].fn = fn BY <3>4 DEF CallsOf
      <3> HIDE DEF P
      <3>6. decls'[fn] = calls[k].type BY <1>1, <2>2, <3>5 DEF P
      <3> QED BY <3>5, <3>6 DEF Good, Matches, Declares, Returns
    <2> QED BY <2>1, <2>2
  <1> HIDE DEF D
  <1> QED BY <1>1, <1>3, <1>4 DEF Declarations

\* Every symbol of a call is defined, with the text the first one gave.
LEMMA EmitDefines ==
  ASSUME Shape, Strings, NEW calls, IsSeq(calls), \A i \in DOMAIN calls : Good(calls[i]), Emit(calls)
  PROVE  Strings'
  <1> DEFINE D == DOMAIN globals \cup {ArgAt(calls, p).symbol : p \in Requests(calls)}
  <1>1. /\ DOMAIN globals' = D
        /\ \A s \in D : globals'[s] = IF s \in DOMAIN globals THEN globals[s]
                                      ELSE ArgAt(calls, Earliest(RequestsOf(calls, s))).text
    BY DEF Emit, GetOrInsertStringConstant
  <1>2. Requests(calls) \in SUBSET (Nat \X Nat)
    <2>1. DOMAIN calls \subseteq Nat BY DEF IsSeq
    <2>2. \A i \in DOMAIN calls : DOMAIN calls[i].args \subseteq Nat BY DEF Good, Matches
    <2> QED BY <2>1, <2>2 DEF Requests
  <1>3. \A p \in Requests(calls) : /\ p[1] \in DOMAIN calls /\ p[2] \in DOMAIN calls[p[1]].args
                                   /\ ArgAt(calls, p).class = "symbol"
    BY DEF Requests, ArgAt
  <1>4. \A a : a \in Symbols' <=> a.class = "symbol" /\ \E c \in Calls' : \E j \in DOMAIN c.args : a = c.args[j]
    BY DEF Symbols, Range
  <1>5. \A p \in Requests(calls) : ArgAt(calls, p) \in Symbols'
    <2>1. \A p \in Requests(calls) : calls[p[1]] \in Calls' BY <1>3, EmitAdds
    <2> QED BY <1>3, <1>4, <2>1 DEF ArgAt
  <1>6. Symbols \subseteq Symbols' BY <1>4, SymbolsOfCalls, EmitAdds
  <1>7. ASSUME NEW a \in Symbols' PROVE a.symbol \in D
    <2>1. PICK c \in Calls' : \E j \in DOMAIN c.args : a = c.args[j] BY <1>4
    <2>2. PICK j \in DOMAIN c.args : a = c.args[j] BY <2>1
    <2>3. a.class = "symbol" BY <1>4
    <2>4. CASE c \in Calls
      <3>1. a \in Symbols BY <2>2, <2>3, <2>4, SymbolsOfCalls
      <3> QED BY <3>1 DEF Strings
    <2>5. CASE \E i \in DOMAIN calls : c = calls[i]
      <3>1. PICK i \in DOMAIN calls : c = calls[i] BY <2>5
      <3>2. <<i, j>> \in Requests(calls) BY <2>2, <2>3, <3>1 DEF Requests
      <3>3. ArgAt(calls, <<i, j>>) = a BY <2>2, <3>1 DEF ArgAt
      <3> QED BY <3>2, <3>3
    <2> QED BY <2>4, <2>5, EmitAdds
  <1>8. ASSUME NEW s \in D PROVE \E a \in Symbols' : a.symbol = s /\ globals'[s] = a.text
    <2>1. CASE s \in DOMAIN globals BY <1>1, <1>6, <2>1 DEF Strings
    <2>2. CASE s \notin DOMAIN globals
      <3> DEFINE P == RequestsOf(calls, s)
      <3>1. P # {} BY <2>2 DEF RequestsOf
      <3>2. P \subseteq Requests(calls) BY DEF RequestsOf
      <3>3. Earliest(P) \in P
        <4>1. P \in SUBSET (Nat \X Nat) BY <1>2, <3>2
        <4> HIDE DEF P
        <4> QED BY <3>1, <4>1, EarliestIn
      <3>4. ArgAt(calls, Earliest(P)).symbol = s BY <3>3 DEF RequestsOf
      <3> HIDE DEF P
      <3>5. globals'[s] = ArgAt(calls, Earliest(P)).text BY <1>1, <2>2 DEF P
      <3> QED BY <1>5, <3>2, <3>3, <3>4, <3>5
    <2> QED BY <2>1, <2>2
  <1> HIDE DEF D
  <1> QED BY <1>1, <1>7, <1>8 DEF Strings

\* What every step of the lowering does that converts an operation, or fails.
Converts ==
  \E calls :
    /\ Emit(calls) /\ IsSeq(calls) /\ \A i \in DOMAIN calls : Good(calls[i])
    /\ ~ Unsupported(Now)
    /\ Now.name = "load_const" => calls = ConstCalls(Now.const)

GivesUp == \E how \in {"failed", "crashed"} : Fail(how) /\ Unsupported(Now)

LEMMA ConvertsInv ==
  ASSUME IInv, outcome = "lowering", Converts
  PROVE  IInv'
  <1> USE DEF IInv
  <1>1. PICK calls :
          /\ Emit(calls) /\ IsSeq(calls) /\ \A i \in DOMAIN calls : Good(calls[i])
          /\ ~ Unsupported(Now)
          /\ Now.name = "load_const" => calls = ConstCalls(Now.const)
    BY DEF Converts
  <1> DEFINE n == Len(code)
  <1>2. /\ Len(code') = n + 1 /\ DOMAIN code = 1..n /\ DOMAIN code' = 1..(n + 1)
        /\ n \in Nat /\ code'[n + 1] = calls
        /\ \A i \in DOMAIN code : i \in 1..n /\ code'[i] = code[i]
    BY <1>1, EmitAdds
  <1>3. n < Len(prog) /\ Len(prog) \in Nat BY DEF Outcomes, Shape
  <1>4. Shape' BY <1>1, <1>2, <1>3, EmitAdds
  <1>5. Declarations' BY <1>1, EmitDeclares
  <1>6. Strings' BY <1>1, EmitDefines
  <1>7. prog' = prog /\ outcome' = IF n + 1 = Len(prog) THEN "lowered" ELSE "lowering" BY <1>1, <1>2 DEF Emit
  <1>8. Now = prog[n + 1] BY DEF Now
  <1> HIDE DEF n
  <1>9. Outcomes' BY <1>2, <1>3, <1>7 DEF Outcomes
  <1>10. Converted'
    <2>1. ASSUME NEW i \in 1..(n + 1)
          PROVE  /\ ~ Unsupported(prog[i])
                 /\ prog[i].name = "load_const" => code'[i] = ConstCalls(prog[i].const)
      <3>1. CASE i \in 1..n BY <1>2, <3>1 DEF Converted
      <3>2. CASE i = n + 1 BY <1>1, <1>2, <1>8, <3>2
      <3> QED BY <1>2, <3>1, <3>2
    <2> QED BY <1>2, <1>7, <2>1 DEF Converted
  <1> QED BY <1>4, <1>5, <1>6, <1>9, <1>10

LEMMA GivesUpInv ==
  ASSUME IInv, outcome = "lowering", GivesUp
  PROVE  IInv'
  <1>1. PICK how \in {"failed", "crashed"} : Fail(how) /\ Unsupported(Now) BY DEF GivesUp
  <1>2. UNCHANGED <<prog, code, decls, globals>> /\ outcome' = how BY <1>1 DEF Fail
  <1>3. Now' = Now /\ Calls' = Calls BY <1>2 DEF Now, Calls
  <1>4. Symbols' = Symbols BY <1>3 DEF Symbols
  <1>5. Outcomes' BY <1>1, <1>2, <1>3 DEF IInv, Outcomes
  <1>6. Shape' /\ Converted' BY <1>2 DEF IInv, Shape, Converted
  <1>7. Declarations' /\ Strings' BY <1>2, <1>3, <1>4 DEF IInv, Declarations, Strings
  <1> QED BY <1>5, <1>6, <1>7 DEF IInv

-------------------------------------------------------------------------------
(* The operations: each becomes good calls.                                *)

Ready == IInv /\ outcome = "lowering"

LEMMA NowIsOperation == ASSUME Ready PROVE Now \in Operation
  <1>1. /\ prog \in Seq(Operation) /\ Len(code) < Len(prog) /\ Len(code) \in Nat
    BY DEF Ready, IInv, Shape, Outcomes, IsSeq
  <1>2. Len(code) + 1 \in 1..Len(prog) BY <1>1
  <1> QED BY <1>1, <1>2 DEF Now

LEMMA NowDecodes == ASSUME Ready PROVE Decodes(Now)
  <1>1. /\ prog \in Seq(Operation) /\ Len(code) < Len(prog) /\ Len(code) \in Nat
        /\ \A i \in DOMAIN prog : Decodes(prog[i])
    BY DEF Ready, IInv, Shape, Outcomes, IsSeq
  <1>2. Len(code) + 1 \in DOMAIN prog BY <1>1
  <1> QED BY <1>1, <1>2 DEF Now

\* Most make one call,
LEMMA OneCall ==
  ASSUME NEW c, Good(c), Emit(<<c>>), ~ Unsupported(Now), Now.name # "load_const"
  PROVE  Converts
  <1> DEFINE calls == <<c>>
  <1>1. calls \in Seq({c}) /\ \A i \in DOMAIN calls : calls[i] = c OBVIOUS
  <1>2. Emit(calls) OBVIOUS
  <1> HIDE DEF calls
  <1>3. IsSeq(calls) BY <1>1, RangeSeq
  <1> QED BY <1>1, <1>2, <1>3 DEF Converts

\* with the operands of the operation.
LEMMA DirectConverts ==
  ASSUME NEW fn, Suits(Now, fn), NEW hasReturn, hasReturn => Header[fn].returns = "ptr",
         InsertRuntimeFunc(fn, hasReturn), ~ Unsupported(Now), Now.name # "load_const"
  PROVE  Converts
  <1> DEFINE ret == IF hasReturn THEN "ptr" ELSE "void"
  <1>1. Returns(fn, ret) BY DEF Returns
  <1> HIDE DEF ret
  <1>2. Good(Call(fn, ret, [i \in DOMAIN OperandsOf(Now) |-> "ptr"], OperandsOf(Now))) BY <1>1, DirectGood
  <1>3. Emit(<<Call(fn, ret, [i \in DOMAIN OperandsOf(Now) |-> "ptr"], OperandsOf(Now))>>)
    BY DEF InsertRuntimeFunc, ret
  <1> QED BY <1>2, <1>3, OneCall

LEMMA StatementConverts == ASSUME Ready, LowerStatement PROVE Converts
  <1>1. Now \in Operation BY NowIsOperation
  <1>2. CASE At(DOMAIN ReturnsNothing) /\ InsertRuntimeFunc(ReturnsNothing[Now.name], FALSE)
    <2>1. Now.name \in DOMAIN ReturnsNothing BY <1>2 DEF At
    <2>2. ~ Unsupported(Now) /\ Now.name # "load_const" BY <2>1 DEF Unsupported, ReturnsNothing
    <2>3. Suits(Now, ReturnsNothing[Now.name]) BY <1>1, <2>1, StatementSuits
    <2> QED BY <1>2, <2>2, <2>3, DirectConverts
  <1>3. CASE At(DOMAIN BuilderStatement) /\ InsertRuntimeFunc(BuilderStatement[Now.name], FALSE)
    <2>1. Now.name \in DOMAIN BuilderStatement BY <1>3 DEF At
    <2>2. ~ Unsupported(Now) /\ Now.name # "load_const" BY <2>1 DEF Unsupported, BuilderStatement
    <2>3. Suits(Now, BuilderStatement[Now.name]) BY <1>1, <2>1, BuilderSuits
    <2> QED BY <1>3, <2>2, <2>3, DirectConverts
  <1> QED BY <1>2, <1>3 DEF LowerStatement

LEMMA ExpressionConverts == ASSUME Ready, LowerExpression PROVE Converts
  <1>1. Now \in Operation BY NowIsOperation
  <1>2. Now.name \in DOMAIN ReturnsObject /\ InsertRuntimeFunc(ReturnsObject[Now.name], TRUE)
    BY DEF LowerExpression, At
  <1>3. ~ Unsupported(Now) /\ Now.name # "load_const" BY <1>2 DEF Unsupported, ReturnsObject
  <1>4. Suits(Now, ReturnsObject[Now.name]) /\ Header[ReturnsObject[Now.name]].returns = "ptr"
    BY <1>1, <1>2, ExpressionSuits
  <1> QED BY <1>2, <1>3, <1>4, DirectConverts

\* The operators that have a function.
LEMMA OperatorFunctions ==
  /\ \A o \in DOMAIN BinaryOpToFn : BinaryOpToFn[o] \in BinaryFn \cup {"pyir_idx"}
  /\ \A o \in DOMAIN CompareOpToFn : CompareOpToFn[o] \in BinaryFn
  /\ DOMAIN BinaryOpToFn \cap Unconverted = {}
  <1>1. ASSUME NEW o \in DOMAIN BinaryOpToFn PROVE BinaryOpToFn[o] \in BinaryFn \cup {"pyir_idx"}
    BY DEF BinaryOpToFn, BinaryFn
  <1>2. ASSUME NEW o \in DOMAIN CompareOpToFn PROVE CompareOpToFn[o] \in BinaryFn
    BY DEF CompareOpToFn, BinaryFn
  <1>3. DOMAIN BinaryOpToFn \cap Unconverted = {} BY DEF BinaryOpToFn, Unconverted
  <1> QED BY <1>1, <1>2, <1>3

LEMMA BinaryConverts == ASSUME Ready, LowerBinaryOp PROVE Converts \/ GivesUp
  <1> DEFINE o == Now.text[1]
  <1>1. Now \in Operation /\ Now.name = "binary_op" BY NowIsOperation DEF LowerBinaryOp, LowerOperator, At
  <1>2. o \in DOMAIN BinaryOpToFn \cup Unconverted
    <2>1. Now.text \in BinaryText BY <1>1, Kinds
    <2> QED BY <2>1 DEF BinaryText
  <1>3. CASE o \in DOMAIN BinaryOpToFn
    <2>1. InsertRuntimeFunc(BinaryOpToFn[o], TRUE) BY <1>3 DEF LowerBinaryOp, LowerOperator
    <2>2. ~ Unsupported(Now) /\ Now.name # "load_const" BY <1>1, <1>3, OperatorFunctions DEF Unsupported
    <2>3. BinaryOpToFn[o] \in BinaryFn \cup {"pyir_idx"} BY <1>3, OperatorFunctions
    <2> HIDE DEF o
    <2>4. Suits(Now, BinaryOpToFn[o]) /\ Header[BinaryOpToFn[o]].returns = "ptr" BY <1>1, <2>3, OperatorSuits
    <2> QED BY <2>1, <2>2, <2>4, DirectConverts
  <1>4. CASE o \notin DOMAIN BinaryOpToFn
    <2>1. Fail("failed") BY <1>4 DEF LowerBinaryOp, LowerOperator
    <2>2. Unsupported(Now) BY <1>1, <1>2, <1>4 DEF Unsupported
    <2> QED BY <2>1, <2>2 DEF GivesUp
  <1> QED BY <1>3, <1>4

LEMMA CompareConverts == ASSUME Ready, LowerCompareOp PROVE Converts
  <1> DEFINE o == Stripped(Now.text)
  <1>1. Now \in Operation /\ Now.name = "compare_op" BY NowIsOperation DEF LowerCompareOp, LowerOperator, At
  <1>2. o \in DOMAIN CompareOpToFn
    <2>1. Now.text \in CompareText BY <1>1, Kinds
    <2>2. CASE \E x \in DOMAIN CompareOpToFn : Now.text = <<x>>
      <3>1. PICK x \in DOMAIN CompareOpToFn : Now.text = <<x>> BY <2>2
      <3>2. Range(<<x>>) = {x} BY DEF Range
      <3>3. x # "bool(" BY DEF CompareOpToFn
      <3>4. o = x BY <3>1, <3>2, <3>3 DEF Stripped
      <3> QED BY <3>4
    <2>3. CASE \E x \in DOMAIN CompareOpToFn : Now.text = <<"bool(", x, ")">>
      <3>1. PICK x \in DOMAIN CompareOpToFn : Now.text = <<"bool(", x, ")">> BY <2>3
      <3> DEFINE t == <<"bool(", x, ")">>
      <3>2. t \in Seq({"bool(", x, ")"}) /\ Len(t) = 3 /\ t[1] = "bool(" /\ t[2] = x OBVIOUS
      <3>3. Now.text = t BY <3>1
      <3> HIDE DEF t
      <3>4. "bool(" \in Range(t) BY <3>2 DEF Range
      <3>5. /\ Front(t) \in Seq({"bool(", x, ")"}) /\ Len(Front(t)) = 2 /\ Front(t)[2] = x
        BY <3>2 DEF Front
      <3>6. Tail(Front(t))[1] = x BY <3>5
      <3> QED BY <3>3, <3>4, <3>6 DEF Stripped
    <2> QED BY <2>1, <2>2, <2>3 DEF CompareText
  <1> HIDE DEF o
  <1>3. InsertRuntimeFunc(CompareOpToFn[o], TRUE) BY <1>2 DEF LowerCompareOp, LowerOperator, o
  <1>4. ~ Unsupported(Now) /\ Now.name # "load_const" BY <1>1 DEF Unsupported
  <1>5. Suits(Now, CompareOpToFn[o]) /\ Header[CompareOpToFn[o]].returns = "ptr"
    BY <1>1, <1>2, OperatorFunctions, OperatorSuits
  <1> QED BY <1>3, <1>4, <1>5, DirectConverts

LEMMA ContainsConverts == ASSUME Ready, LowerContainsOp PROVE Converts \/ GivesUp
  <1>1. Now \in Operation /\ Now.name = "contains_op" BY NowIsOperation DEF LowerContainsOp, LowerOperator, At
  <1>2. Now.text[1] = "in" \/ Now.text[1] = "not in"
    <2>1. Now.text \in ContainsText BY <1>1, Kinds
    <2>2. <<"in">>[1] = "in" /\ <<"not in">>[1] = "not in" OBVIOUS
    <2>3. Now.text = <<"in">> \/ Now.text = <<"not in">> BY <2>1 DEF ContainsText
    <2> QED BY <2>2, <2>3
  <1>3. CASE Now.text[1] = "in"
    <2>1. InsertRuntimeFunc("pyir_in", TRUE) BY <1>3 DEF LowerContainsOp, LowerOperator, ContainsOpToFn
    <2>2. ~ Unsupported(Now) /\ Now.name # "load_const" BY <1>1, <1>3 DEF Unsupported
    <2>3. Suits(Now, "pyir_in") /\ Header["pyir_in"].returns = "ptr" BY <1>1, ContainsSuits
    <2> QED BY <2>1, <2>2, <2>3, DirectConverts
  <1>4. CASE Now.text[1] = "not in"
    <2>1. Fail("failed") BY <1>4 DEF LowerContainsOp, LowerOperator, ContainsOpToFn
    <2>2. Unsupported(Now) BY <1>1, <1>4 DEF Unsupported
    <2> QED BY <2>1, <2>2 DEF GivesUp
  <1> QED BY <1>2, <1>3, <1>4

\* Calls with arguments of their own.
LEMMA OperandsListed ==
  ASSUME NEW op \in Operation, "n" \notin DOMAIN op, NEW S, NEW names \in Seq(S), Operands[op.name] = names
  PROVE  /\ OperandsOf(op) \in Seq({Operand(x) : x \in S}) /\ Len(OperandsOf(op)) = Len(names)
         /\ \A i \in 1..Len(names) : OperandsOf(op)[i] = Operand(names[i])
  <1>1. OperandsOf(op) = [i \in 1..Len(names) |-> Operand(names[i])] BY FixedOperands
  <1>2. \A i \in 1..Len(names) : names[i] \in S OBVIOUS
  <1> QED BY <1>1, <1>2

LEMMA OneOperand ==
  ASSUME NEW op \in Operation, "n" \notin DOMAIN op, NEW a, Operands[op.name] = <<a>>
  PROVE  OperandsOf(op) = <<Operand(a)>> /\ OperandsOf(op)[1] = Operand(a)
  <1> DEFINE s == <<a>>
             S == {a}
  <1>1. s \in Seq(S) /\ Len(s) = 1 /\ s[1] = a OBVIOUS
  <1>2. Operands[op.name] = s OBVIOUS
  <1> HIDE DEF s, S
  <1>3. /\ OperandsOf(op) \in Seq({Operand(x) : x \in S}) /\ Len(OperandsOf(op)) = Len(s)
        /\ \A i \in 1..Len(s) : OperandsOf(op)[i] = Operand(s[i])
    BY <1>1, <1>2, OperandsListed
  <1>4. Len(OperandsOf(op)) = 1 /\ OperandsOf(op)[1] = Operand(a) BY <1>1, <1>3
  <1> QED BY <1>3, <1>4

LEMMA ThreeOperands ==
  ASSUME NEW op \in Operation, "n" \notin DOMAIN op, NEW a, NEW b, NEW d, Operands[op.name] = <<a, b, d>>
  PROVE  OperandsOf(op) = <<Operand(a), Operand(b), Operand(d)>>
  <1> DEFINE s == <<a, b, d>>
             S == {a, b, d}
  <1>1. s \in Seq(S) /\ Len(s) = 3 /\ s[1] = a /\ s[2] = b /\ s[3] = d OBVIOUS
  <1>2. Operands[op.name] = s OBVIOUS
  <1> HIDE DEF s, S
  <1>3. /\ OperandsOf(op) \in Seq({Operand(x) : x \in S}) /\ Len(OperandsOf(op)) = 3
        /\ OperandsOf(op)[1] = Operand(a) /\ OperandsOf(op)[2] = Operand(b) /\ OperandsOf(op)[3] = Operand(d)
    BY <1>1, <1>2, OperandsListed
  <1> QED BY <1>3

LEMMA NameFills ==
  ASSUME NEW text \in Seq(STRING), NEW role, NEW p, p \in Means(role),
         role \in {"var_name", "attr_name", "file", "name"}
  PROVE  Fills(NameSymbol(text, role), Ptr(p))
  BY DEF Fills, NameSymbol, Symbol, Ptr, Made

LEMMA OperandFills ==
  ASSUME NEW role, NEW p, p \in Means(role)
  PROVE  Fills(Operand(role), Ptr(p))
  BY DEF Fills, Operand, Arg, Ptr

LEMMA PartsFill ==
  ASSUME NEW elems, NEW role, NEW p, p \in Means(role)
  PROVE  /\ Fills(Parts(elems, role), Ptr(p)) /\ Fills(PartsOrNull(elems, role), Ptr(p))
         /\ Fills(Count(elems, role), Size(p))
  BY DEF Fills, Parts, PartsOrNull, Count, Array, Null, Arg, Bits, Ptr, Size

LEMMA TypesOfParams == \A p : Ptr(p)[1] = "ptr" /\ Size(p)[1] = "i64"
  BY DEF Ptr, Size

LEMMA IsTruthyConverts == ASSUME Ready, LowerIsTruthy PROVE Converts
  <1>1. Now \in Operation /\ Now.name = "is_truthy" BY NowIsOperation DEF LowerIsTruthy, At
  <1>2. "n" \notin DOMAIN Now BY <1>1, Kinds DEF Unary
  <1>3. Operands[Now.name] = <<"value">> BY <1>1, Dialect DEF UnaryOp
  <1>4. OperandsOf(Now) = <<Operand("value")>> BY <1>1, <1>2, <1>3, OneOperand
  <1>5. /\ "pyir_isTruthy" \in RuntimeFn /\ Header["pyir_isTruthy"].params = <<Ptr("val")>>
        /\ Returns("pyir_isTruthy", "i8")
    BY LogicalHeaders DEF Sig, Returns
  <1>6. Fills(Operand("value"), Ptr("val")) BY Meanings, OperandFills
  <1>7. Good(Call("pyir_isTruthy", "i8", <<Ptr("val")[1]>>, <<Operand("value")>>)) BY <1>5, <1>6, CallOfOne
  <1>8. Emit(<<Call("pyir_isTruthy", "i8", <<"ptr">>, <<Operand("value")>>)>>) BY <1>4 DEF LowerIsTruthy
  <1>9. ~ Unsupported(Now) /\ Now.name # "load_const" BY <1>1 DEF Unsupported
  <1> QED BY <1>7, <1>8, <1>9, OneCall, TypesOfParams

LEMMA LoadConverts == ASSUME Ready, LowerLoad PROVE Converts
  <1> DEFINE fn == LoadFn[Now.name]
             a  == NameSymbol(Now.text, "var_name")
  <1>1. Now \in Operation /\ Now.name \in DOMAIN LoadFn BY NowIsOperation DEF LowerLoad, At
  <1>2. Now.text \in Seq(STRING) BY <1>1, Kinds DEF Nominal
  <1>3. fn \in NameFn BY <1>1 DEF LoadFn, NameFn
  <1> HIDE DEF fn
  <1>4. fn \in RuntimeFn /\ Header[fn].params = <<Ptr("name")>> /\ Returns(fn, "ptr")
    BY <1>3, MemoryHeaders DEF Sig, Returns
  <1>5. Fills(a, Ptr("name")) BY <1>2, Meanings, NameFills
  <1> HIDE DEF a
  <1>6. Good(Call(fn, "ptr", <<Ptr("name")[1]>>, <<a>>)) BY <1>4, <1>5, CallOfOne
  <1>7. Emit(<<Call(fn, "ptr", <<"ptr">>, <<a>>)>>) BY DEF LowerLoad, fn, a
  <1>8. ~ Unsupported(Now) /\ Now.name # "load_const" BY <1>1 DEF Unsupported, LoadFn
  <1> QED BY <1>6, <1>7, <1>8, OneCall, TypesOfParams

LEMMA StoreConverts == ASSUME Ready, LowerStore PROVE Converts
  <1> DEFINE fn == StoreFn[Now.name]
             a  == NameSymbol(Now.text, "var_name")
             b  == Operand("value")
  <1>1. Now \in Operation /\ Now.name \in DOMAIN StoreFn BY NowIsOperation DEF LowerStore, At
  <1>2. Now.text \in Seq(STRING) /\ "n" \notin DOMAIN Now BY <1>1, Kinds DEF Nominal
  <1>3. fn \in BindFn BY <1>1 DEF StoreFn, BindFn
  <1>4. Operands[Now.name] = <<"value">> BY <1>1, Dialect DEF StoreFn, StoreOp
  <1>5. StoreArgs(Now) = <<a, b>>
    <2>1. OperandsOf(Now)[1] = b BY <1>1, <1>2, <1>4, OneOperand
    <2> QED BY <2>1 DEF StoreArgs
  <1> HIDE DEF fn
  <1>6. fn \in RuntimeFn /\ Header[fn].params = <<Ptr("name"), Ptr("val")>> /\ Returns(fn, "void")
    BY <1>3, MemoryHeaders DEF Sig, Returns
  <1>7. Fills(a, Ptr("name")) /\ Fills(b, Ptr("val")) BY <1>2, Meanings, NameFills, OperandFills
  <1> HIDE DEF a, b
  <1>8. Good(Call(fn, "void", <<Ptr("name")[1], Ptr("val")[1]>>, <<a, b>>)) BY <1>6, <1>7, CallOfTwo
  <1>9. Emit(<<Call(fn, "void", <<"ptr", "ptr">>, <<a, b>>)>>) BY <1>5 DEF LowerStore, fn
  <1>10. ~ Unsupported(Now) /\ Now.name # "load_const" BY <1>1 DEF Unsupported, StoreFn
  <1> QED BY <1>8, <1>9, <1>10, OneCall, TypesOfParams

LEMMA LoadAttrConverts == ASSUME Ready, LowerLoadAttr PROVE Converts
  <1> DEFINE fn == "pyir_loadAttr"
             a  == Operand("object")
             b  == NameSymbol(Now.text, "attr_name")
  <1>1. Now \in Operation /\ Now.name = "load_attr" BY NowIsOperation DEF LowerLoadAttr, At
  <1>2. Now.text \in Seq(STRING) /\ "n" \notin DOMAIN Now BY <1>1, Kinds DEF Nominal
  <1>3. OperandsOf(Now)[1] = a BY <1>1, <1>2, Dialect, OneOperand
  <1>4. fn \in RuntimeFn /\ Header[fn].params = <<Ptr("obj"), Ptr("name")>> /\ Returns(fn, "ptr")
    BY MemoryHeaders DEF Sig, Returns
  <1>5. Fills(a, Ptr("obj")) /\ Fills(b, Ptr("name")) BY <1>2, Meanings, NameFills, OperandFills
  <1>6. Emit(<<Call(fn, "ptr", <<"ptr", "ptr">>, <<a, b>>)>>) BY <1>3 DEF LowerLoadAttr
  <1> HIDE DEF a, b, fn
  <1>7. Good(Call(fn, "ptr", <<Ptr("obj")[1], Ptr("name")[1]>>, <<a, b>>)) BY <1>4, <1>5, CallOfTwo
  <1>8. ~ Unsupported(Now) /\ Now.name # "load_const" BY <1>1 DEF Unsupported
  <1> QED BY <1>6, <1>7, <1>8, OneCall, TypesOfParams

LEMMA InitModuleConverts == ASSUME Ready, LowerInitModule PROVE Converts
  <1> DEFINE fn == "pyir_initModule"
             a  == NameSymbol(Now.text, "file")
             b  == NameSymbol(Now.moduleName, "name")
  <1>1. Now \in Operation /\ Now.name = "init_module" BY NowIsOperation DEF LowerInitModule, At
  <1>2. Now.text \in Seq(STRING) /\ Now.moduleName \in Seq(STRING) BY <1>1, Kinds
  <1>3. fn \in RuntimeFn /\ Header[fn].params = <<Ptr("file"), Ptr("name")>> /\ Returns(fn, "void")
    BY OtherHeaders DEF Sig, Returns, BuiltinFn
  <1>4. Fills(a, Ptr("file")) /\ Fills(b, Ptr("name")) BY <1>2, Meanings, NameFills
  <1>5. Emit(<<Call(fn, "void", <<"ptr", "ptr">>, <<a, b>>)>>) BY DEF LowerInitModule
  <1> HIDE DEF a, b, fn
  <1>6. Good(Call(fn, "void", <<Ptr("file")[1], Ptr("name")[1]>>, <<a, b>>)) BY <1>3, <1>4, CallOfTwo
  <1>7. ~ Unsupported(Now) /\ Now.name # "load_const" BY <1>1 DEF Unsupported
  <1> QED BY <1>5, <1>6, <1>7, OneCall, TypesOfParams

LEMMA MakeFunctionConverts == ASSUME Ready, LowerMakeFunction PROVE Converts
  <1> DEFINE fn == "pyir_makeFunction"
             a  == Symbol(<<"__pyir_str_", "fn_">> \o Now.text, Now.text, "fn_name")
             b  == Arg("function", "ptr", "fn_ptr")
  <1>1. Now \in Operation /\ Now.name = "make_function" BY NowIsOperation DEF LowerMakeFunction, At
  <1>2. Now.text \in Seq(STRING) BY <1>1, Kinds DEF Nominal
  <1>3. fn \in RuntimeFn /\ Header[fn].params = <<Ptr("fnName"), Ptr("fn_ptr")>> /\ Returns(fn, "ptr")
    BY OtherHeaders DEF Sig, Returns, FunctionFn
  <1>4. Fills(a, Ptr("fnName")) /\ Fills(b, Ptr("fn_ptr"))
    BY <1>2, Meanings DEF Fills, Symbol, Arg, Ptr, Made
  <1>5. Emit(<<Call(fn, "ptr", <<"ptr", "ptr">>, <<a, b>>)>>) BY DEF LowerMakeFunction
  <1> HIDE DEF a, b, fn
  <1>6. Good(Call(fn, "ptr", <<Ptr("fnName")[1], Ptr("fn_ptr")[1]>>, <<a, b>>)) BY <1>3, <1>4, CallOfTwo
  <1>7. ~ Unsupported(Now) /\ Now.name # "load_const" BY <1>1 DEF Unsupported
  <1> QED BY <1>5, <1>6, <1>7, OneCall, TypesOfParams

LEMMA BuildConverts == ASSUME Ready, LowerBuild PROVE Converts
  <1> DEFINE fn == BuildFn[Now.name]
             a  == Parts(OperandsOf(Now), "parts")
             b  == Count(OperandsOf(Now), "count")
  <1>1. Now.name \in DOMAIN BuildFn BY DEF LowerBuild, At
  <1>2. fn \in PartsFn BY <1>1 DEF BuildFn, PartsFn
  <1>3. Emit(<<Call(fn, "ptr", <<"ptr", "i64">>, <<a, b>>)>>) BY DEF LowerBuild
  <1> HIDE DEF fn
  <1>4. fn \in RuntimeFn /\ Header[fn].params = <<Ptr("parts"), Size("count")>> /\ Returns(fn, "ptr")
    BY <1>2, BuilderHeaders DEF Sig, Returns
  <1>5. Fills(a, Ptr("parts")) /\ Fills(b, Size("count")) BY Meanings, PartsFill
  <1> HIDE DEF a, b
  <1>6. Good(Call(fn, "ptr", <<Ptr("parts")[1], Size("count")[1]>>, <<a, b>>)) BY <1>4, <1>5, CallOfTwo
  <1>7. ~ Unsupported(Now) /\ Now.name # "load_const" BY <1>1 DEF Unsupported, BuildFn
  <1> QED BY <1>3, <1>6, <1>7, OneCall, TypesOfParams

LEMMA CallConverts == ASSUME Ready, LowerCall PROVE Converts
  <1> DEFINE fn   == "pyir_call"
             args == Tail(OperandsOf(Now))
             a    == Operand("callee")
             b    == PartsOrNull(args, "args")
             d    == Count(args, "argc")
  <1>1. Now \in Operation /\ Now.name = "call" BY NowIsOperation DEF LowerCall, At
  <1>2. OperandsOf(Now)[1] = a
    <2> DEFINE s == <<"callee">>
    <2>1. s \in Seq({"callee"}) /\ s # <<>> /\ s[1] = "callee" OBVIOUS
    <2>2. Operands[Now.name] = s BY <1>1, Dialect
    <2>3. Now.n \in Nat BY <1>1, Kinds DEF Variadic
    <2> HIDE DEF s
    <2>4. OperandsOf(Now)[1] = Operand(s[1]) BY <1>1, <2>1, <2>2, <2>3, FirstOperand
    <2> QED BY <2>1, <2>4
  <1>3. fn \in RuntimeFn /\ Header[fn].params = <<Ptr("callee"), Ptr("args"), Size("argc")>> /\ Returns(fn, "ptr")
    BY OtherHeaders DEF Sig, Returns, FunctionFn
  <1>4. Emit(<<Call(fn, "ptr", <<"ptr", "ptr", "i64">>, <<a, b, d>>)>>) BY <1>2 DEF LowerCall
  <1> HIDE DEF args, fn
  <1>5. Fills(a, Ptr("callee")) /\ Fills(b, Ptr("args")) /\ Fills(d, Size("argc"))
    BY Meanings, OperandFills, PartsFill
  <1> HIDE DEF a, b, d
  <1>6. Good(Call(fn, "ptr", <<Ptr("callee")[1], Ptr("args")[1], Size("argc")[1]>>, <<a, b, d>>))
    BY <1>3, <1>5, CallOfThree
  <1>7. ~ Unsupported(Now) /\ Now.name # "load_const" BY <1>1 DEF Unsupported
  <1> QED BY <1>4, <1>6, <1>7, OneCall, TypesOfParams

LEMMA StoreSubscrConverts == ASSUME Ready, LowerStoreSubscr PROVE Converts
  <1> DEFINE fn == "pyir_storeSubscr"
             a  == Operand("collection")
             b  == Operand("idx")
             d  == Operand("value")
  <1>1. Now \in Operation /\ Now.name = "store_subscr" BY NowIsOperation DEF LowerStoreSubscr, At
  <1>2. OperandsOf(Now) = <<a, b, d>>
    <2>1. "n" \notin DOMAIN Now BY <1>1, Kinds DEF Unary
    <2>2. Operands[Now.name] = <<"collection", "idx", "value">> BY <1>1, Dialect
    <2> QED BY <1>1, <2>1, <2>2, ThreeOperands
  <1>3. /\ fn \in RuntimeFn /\ Header[fn].params = <<Ptr("container"), Ptr("idx"), Ptr("value")>>
        /\ Returns(fn, "void")
    BY MemoryHeaders DEF Sig, Returns
  <1>4. Emit(<<Call(fn, "void", <<"ptr", "ptr", "ptr">>, <<a, b, d>>)>>) BY <1>2 DEF LowerStoreSubscr
  <1>5. Fills(a, Ptr("container")) /\ Fills(b, Ptr("idx")) /\ Fills(d, Ptr("value")) BY Meanings, OperandFills
  <1> HIDE DEF a, b, d, fn
  <1>6. Good(Call(fn, "void", <<Ptr("container")[1], Ptr("idx")[1], Ptr("value")[1]>>, <<a, b, d>>))
    BY <1>3, <1>5, CallOfThree
  <1>7. ~ Unsupported(Now) /\ Now.name # "load_const" BY <1>1 DEF Unsupported
  <1> QED BY <1>4, <1>6, <1>7, OneCall, TypesOfParams

LEMMA ForIterConverts == ASSUME Ready, LowerForIter PROVE Converts
  <1> DEFINE fn == "pyir_forIter"
             a  == Operand("iterator")
  <1>1. Now \in Operation /\ Now.name = "for_iter" BY NowIsOperation DEF LowerForIter, At
  <1>2. OperandsOf(Now)[1] = a
    <2> DEFINE s == <<"iterator">>
    <2>1. s \in Seq({"iterator"}) /\ s # <<>> /\ s[1] = "iterator" OBVIOUS
    <2>2. Operands[Now.name] = s BY <1>1, Dialect
    <2>3. Now.n \in Nat BY <1>1, Kinds DEF Variadic
    <2> HIDE DEF s
    <2>4. OperandsOf(Now)[1] = Operand(s[1]) BY <1>1, <2>1, <2>2, <2>3, FirstOperand
    <2> QED BY <2>1, <2>4
  <1>3. fn \in RuntimeFn /\ Header[fn].params = <<Ptr("iterator")>> /\ Returns(fn, "ptr")
    BY OtherHeaders DEF Sig, Returns, ControlFlowFn
  <1>4. Emit(<<Call(fn, "ptr", <<"ptr">>, <<a>>)>>) BY <1>2 DEF LowerForIter
  <1>5. Fills(a, Ptr("iterator")) BY Meanings, OperandFills
  <1> HIDE DEF a, fn
  <1>6. Good(Call(fn, "ptr", <<Ptr("iterator")[1]>>, <<a>>)) BY <1>3, <1>5, CallOfOne
  <1>7. ~ Unsupported(Now) /\ Now.name # "load_const" BY <1>1 DEF Unsupported
  <1> QED BY <1>4, <1>6, <1>7, OneCall, TypesOfParams

LEMMA NoCallConverts == ASSUME Ready, LowerNoCall PROVE Converts
  <1>1. Now.name \in {"push_null", "load_arg", "return_value"} /\ Emit(<<>>) BY DEF LowerNoCall, At
  <1>2. ~ Unsupported(Now) /\ Now.name # "load_const" BY <1>1 DEF Unsupported
  <1> DEFINE calls == <<>>
  <1>3. calls \in Seq({}) /\ DOMAIN calls = {} /\ Emit(calls) BY <1>1
  <1> HIDE DEF calls
  <1>4. IsSeq(calls) BY <1>3, RangeSeq
  <1> QED BY <1>2, <1>3, <1>4 DEF Converts

LEMMA DerefGivesUp == ASSUME LowerDeref PROVE GivesUp
  BY DEF LowerDeref, At, GivesUp, Unsupported

-------------------------------------------------------------------------------
(* Constants.                                                              *)

LEMMA ScalarKinds ==
  ASSUME NEW c \in Scalars
  PROVE  /\ c = <<c[1], c[2]>>
         /\ c[1] \in {"bool", "int", "float", "str", "None", "other"}
         /\ c[1] = "bool" => c[2] \in BOOLEAN
         /\ c[1] = "int" => c[2] \in Int
         /\ c[1] = "str" => c[2] \in Seq(STRING)
         /\ c[1] \in {"None", "other"} => c[2] = 0
  BY DEF Scalars

LEMMA ConstantKinds ==
  ASSUME NEW c \in Constant
  PROVE  \/ c \in Scalars
         \/ c[1] \in {"tuple", "frozenset"} /\ c[2] \in Seq(Scalars) /\ c = <<c[1], c[2]>>
         \/ c[1] = "code" /\ c[2] \in Nat
  BY DEF Constant

\* The argval and the attribute of an element.
LEMMA Primitives ==
  ASSUME NEW c \in Scalars
  PROVE  /\ c[1] = "bool" => DecodePrimitive(c) = <<"Bool", c[2]>>
         /\ c[1] = "int" => DecodePrimitive(c) = <<"Int", PyLongAsLong(c[2])>>
         /\ c[1] = "float" => DecodePrimitive(c) = <<"Float", c[2]>>
         /\ c[1] = "str" => DecodePrimitive(c) = <<"Str", CString(c[2])>>
         /\ c[1] = "None" => DecodePrimitive(c) = <<"None", 0>>
         /\ c[1] = "other" => DecodePrimitive(c) = Unknown
  BY DEF DecodePrimitive, PyBoolCheck, PyLongCheck, ToInt

LEMMA Attributes ==
  /\ \A b : ScalarAttr(<<"Bool", b>>) = BoolAttr(b)
  /\ \A n : ScalarAttr(<<"Int", n>>) = IntAttr(n)
  /\ \A x : ScalarAttr(<<"Float", x>>) = <<"Float", x>>
  /\ \A s : ScalarAttr(<<"Str", s>>) = <<"String", s>>
  <1>1. ASSUME NEW b PROVE ScalarAttr(<<"Bool", b>>) = BoolAttr(b) BY DEF ScalarAttr
  <1>2. ASSUME NEW n PROVE ScalarAttr(<<"Int", n>>) = IntAttr(n) BY DEF ScalarAttr
  <1>3. ASSUME NEW x PROVE ScalarAttr(<<"Float", x>>) = <<"Float", x>> BY DEF ScalarAttr
  <1>4. ASSUME NEW s PROVE ScalarAttr(<<"Str", s>>) = <<"String", s>> BY DEF ScalarAttr
  <1> QED BY <1>1, <1>2, <1>3, <1>4

\* The attribute of a primitive other than None is one that an element may be.
LEMMA PrimitiveAttribute ==
  ASSUME NEW c \in Scalars, Primitive(c), c[1] # "None"
  PROVE  /\ ScalarAttr(DecodePrimitive(c))[1] \in ScalarClass
         /\ DecodePrimitive(c)[1] \in {"Bool", "Int", "Float", "Str"}
         /\ DecodePrimitive(c) # Unknown
  <1>1. CASE c[1] = "bool" BY <1>1, Primitives, Attributes DEF BoolAttr, ScalarClass, Unknown
  <1>2. CASE c[1] = "int" BY <1>2, Primitives, Attributes DEF IntAttr, ScalarClass, Unknown
  <1>3. CASE c[1] = "float" BY <1>3, Primitives, Attributes DEF ScalarClass, Unknown
  <1>4. CASE c[1] = "str" BY <1>4, Primitives, Attributes DEF ScalarClass, Unknown
  <1> QED BY <1>1, <1>2, <1>3, <1>4 DEF Primitive

\* What is loaded for it.
LEMMA LoadGood ==
  ASSUME NEW a
  PROVE  Good(LoadScalarConst(a))
  <1>1. /\ ConstFn \subseteq RuntimeFn
        /\ \A f \in ConstFn : Header[f] = MemoryHeader(f)
    BY MemoryHeaders
  <1>2. ASSUME NEW s PROVE Good(LoadStringConst(s))
    <2> DEFINE x == Symbol(StringSymbol(s), s, "str")
    <2>1. /\ "pyir_loadConstStr" \in RuntimeFn /\ Header["pyir_loadConstStr"].params = <<Ptr("str")>>
          /\ Returns("pyir_loadConstStr", "ptr")
      BY <1>1, MemoryHeaders DEF ConstFn, Sig, Returns
    <2>2. Fills(x, Ptr("str")) BY Meanings DEF Fills, Symbol, Ptr, Made
    <2> HIDE DEF x
    <2>3. Good(Call("pyir_loadConstStr", "ptr", <<Ptr("str")[1]>>, <<x>>)) BY <2>1, <2>2, CallOfOne
    <2> QED BY <2>3, TypesOfParams DEF LoadStringConst, x
  <1>3. ASSUME NEW b PROVE Good(LoadBoolConst(b))
    <2> DEFINE x == Bits("i8", b, "val")
               p == <<"i8", "val">>
    <2>1. /\ "pyir_loadConstBool" \in RuntimeFn /\ Header["pyir_loadConstBool"].params = <<p>>
          /\ Returns("pyir_loadConstBool", "ptr")
      BY <1>1, MemoryHeaders DEF ConstFn, Sig, Returns
    <2>2. Fills(x, p) BY Meanings DEF Fills, Bits
    <2> HIDE DEF x, p
    <2>3. Good(Call("pyir_loadConstBool", "ptr", <<p[1]>>, <<x>>)) BY <2>1, <2>2, CallOfOne
    <2>4. p[1] = "i8" BY DEF p
    <2> QED BY <2>3, <2>4 DEF LoadBoolConst, x
  <1>4. ASSUME NEW n PROVE Good(LoadIntConst(n))
    <2> DEFINE x == Bits("i64", n, "val")
    <2>1. /\ "pyir_loadConstInt" \in RuntimeFn /\ Header["pyir_loadConstInt"].params = <<Size("val")>>
          /\ Returns("pyir_loadConstInt", "ptr")
      BY <1>1, MemoryHeaders DEF ConstFn, Sig, Returns
    <2>2. Fills(x, Size("val")) BY Meanings DEF Fills, Bits, Size
    <2> HIDE DEF x
    <2>3. Good(Call("pyir_loadConstInt", "ptr", <<Size("val")[1]>>, <<x>>)) BY <2>1, <2>2, CallOfOne
    <2> QED BY <2>3, TypesOfParams DEF LoadIntConst, x
  <1>5. ASSUME NEW y PROVE Good(LoadFloatConst(y))
    <2> DEFINE x == Bits("f64", y, "val")
               p == <<"f64", "val">>
    <2>1. /\ "pyir_loadConstFloat" \in RuntimeFn /\ Header["pyir_loadConstFloat"].params = <<p>>
          /\ Returns("pyir_loadConstFloat", "ptr")
      BY <1>1, MemoryHeaders DEF ConstFn, Sig, Returns
    <2>2. Fills(x, p) BY Meanings DEF Fills, Bits
    <2> HIDE DEF x, p
    <2>3. Good(Call("pyir_loadConstFloat", "ptr", <<p[1]>>, <<x>>)) BY <2>1, <2>2, CallOfOne
    <2>4. p[1] = "f64" BY DEF p
    <2> QED BY <2>3, <2>4 DEF LoadFloatConst, x
  <1> QED BY <1>2, <1>3, <1>4, <1>5 DEF LoadScalarConst

\* An element becomes one call that makes the value it had in Python.
LEMMA ScalarPreserved ==
  ASSUME NEW c \in Scalars, Primitive(c), c[1] # "None",
         c[1] = "int" => c[2] \in Long, c[1] = "str" => Nul \notin Range(c[2]),
         LET call == LoadScalarConst(ScalarAttr(DecodePrimitive(c)))
         IN  c[1] = "str" => globals[call.args[1].symbol] = call.args[1].text
  PROVE  LET call == LoadScalarConst(ScalarAttr(DecodePrimitive(c)))
         IN  RunScalar(call) = c /\ call.fn # "pyir_loadConstTuple"
  <1> DEFINE a    == ScalarAttr(DecodePrimitive(c))
             call == LoadScalarConst(a)
  <1>1. c = <<c[1], c[2]>> BY ScalarKinds
  <1>2. CASE c[1] = "bool"
    <2>1. a = <<"Integer", <<1, IF c[2] THEN 1 ELSE 0>>>> BY <1>2, Primitives, Attributes DEF BoolAttr
    <2> DEFINE v == IF c[2] THEN 1 ELSE 0
    <2>2. call = LoadBoolConst(v) BY <2>1 DEF LoadScalarConst, IsBoolAttr, IsIntegerAttr
    <2>3. call.fn = "pyir_loadConstBool" /\ call.args[1].value = v BY <2>2 DEF LoadBoolConst, Call, Bits
    <2>4. RunScalar(call) = <<"bool", v # 0>> BY <2>3 DEF RunScalar
    <2>5. (v # 0) = c[2] BY <1>2, ScalarKinds
    <2> QED BY <1>1, <1>2, <2>3, <2>4, <2>5
  <1>3. CASE c[1] = "int"
    <2>1. a = <<"Integer", <<Width, c[2]>>>> BY <1>3, Primitives, Attributes DEF IntAttr, PyLongAsLong
    <2>2. Width # 1 BY ConstantsAssumption
    <2>3. call = LoadIntConst(c[2]) BY <2>1, <2>2 DEF LoadScalarConst, IsBoolAttr, IsIntegerAttr, GetInt
    <2>4. call.fn = "pyir_loadConstInt" /\ call.args[1].value = c[2] BY <2>3 DEF LoadIntConst, Call, Bits
    <2>5. RunScalar(call) = <<"int", c[2]>> BY <2>4 DEF RunScalar
    <2> QED BY <1>1, <1>3, <2>4, <2>5
  <1>4. CASE c[1] = "float"
    <2>1. a = <<"Float", c[2]>> BY <1>4, Primitives, Attributes
    <2>2. call = LoadFloatConst(c[2]) BY <2>1 DEF LoadScalarConst, IsBoolAttr, IsIntegerAttr
    <2>3. call.fn = "pyir_loadConstFloat" /\ call.args[1].value = c[2] BY <2>2 DEF LoadFloatConst, Call, Bits
    <2>4. RunScalar(call) = <<"float", c[2]>> BY <2>3 DEF RunScalar
    <2> QED BY <1>1, <1>4, <2>3, <2>4
  <1>5. CASE c[1] = "str"
    <2>1. CString(c[2]) = c[2] BY <1>5 DEF CString
    <2>2. a = <<"String", c[2]>> BY <1>5, <2>1, Primitives, Attributes
    <2>3. call = LoadStringConst(c[2]) BY <2>2 DEF LoadScalarConst
    <2>4. call.fn = "pyir_loadConstStr" /\ call.args[1].text = c[2] BY <2>3 DEF LoadStringConst, Call, Symbol
    <2>5. RunScalar(call) = <<"str", CString(globals[call.args[1].symbol])>> BY <2>4 DEF RunScalar
    <2> QED BY <1>1, <1>5, <2>1, <2>4, <2>5
  <1> QED BY <1>2, <1>3, <1>4, <1>5 DEF Primitive

\* The attribute of a constant that the front end can decode.
LEMMA ScalarConst ==
  ASSUME NEW c \in Scalars, Loadable(c)
  PROVE  /\ Primitive(c) /\ Accepted(c)
         /\ c[1] = "None" => ConstAttr(Decode(c)) = <<"None", 0>>
         /\ c[1] # "None" => /\ ConstAttr(Decode(c)) = ScalarAttr(DecodePrimitive(c))
                             /\ ConstAttr(Decode(c))[1] \in ScalarClass
  <1>1. CASE c[1] = "other"
    <2>1. Decode(c) = Unknown BY <1>1 DEF Decode
    <2> QED BY <2>1 DEF Loadable
  <1>2. CASE c[1] = "None"
    <2>1. Decode(c) = <<"None", 0>> BY <1>2 DEF Decode
    <2> QED BY <1>2, <2>1 DEF ConstAttr, Primitive, Accepted
  <1>3. CASE c[1] \in {"bool", "int", "float", "str"}
    <2>1. Primitive(c) BY <1>3 DEF Primitive
    <2>2. Decode(c) = DecodePrimitive(c) BY <1>3 DEF Decode
    <2>3. /\ ScalarAttr(DecodePrimitive(c))[1] \in ScalarClass
          /\ DecodePrimitive(c)[1] \in {"Bool", "Int", "Float", "Str"}
      BY <1>3, <2>1, PrimitiveAttribute
    <2>4. ConstAttr(Decode(c)) = ScalarAttr(DecodePrimitive(c)) BY <2>2, <2>3 DEF ConstAttr
    <2> QED BY <1>3, <2>1, <2>3, <2>4 DEF Accepted
  <1> QED BY <1>1, <1>2, <1>3, ScalarKinds

LEMMA TupleConst ==
  ASSUME NEW c, c[1] \in {"tuple", "frozenset"}, c[2] \in Seq(Scalars), Loadable(c)
  PROVE  LET a == ConstAttr(Decode(c))
         IN  /\ a[1] = "Array" /\ DOMAIN a[2] = 1..Len(c[2])
             /\ \A i \in 1..Len(c[2]) :
                  /\ c[2][i] \in Scalars /\ Primitive(c[2][i])
                  /\ a[2][i] = IF c[2][i][1] = "None" THEN NullAttr ELSE ScalarAttr(DecodePrimitive(c[2][i]))
  <1> DEFINE e == [i \in DOMAIN c[2] |-> DecodePrimitive(c[2][i])]
             n == Len(c[2])
             a == ConstAttr(Decode(c))
  <1>1. DOMAIN c[2] = 1..n /\ \A i \in 1..n : c[2][i] \in Scalars OBVIOUS
  <1>2. DOMAIN e = 1..n /\ \A i \in 1..n : e[i] = DecodePrimitive(c[2][i]) BY <1>1
  <1>3. Decode(c) \in {Unknown, <<"TupleStr", e>>, <<"FrozenSet", e>>}
        /\ (Unknown \in Range(e) => Decode(c) = Unknown)
    BY DEF Decode, DecodeTupleStr, DecodeFrozenSet
  <1>4. Decode(c) # Unknown BY DEF Loadable
  <1> HIDE DEF e
  <1>5. a = ArrayAttr(e) BY <1>3, <1>4 DEF ConstAttr
  <1>6. a = <<"Array", [i \in 1..n |-> IF e[i][1] = "None" THEN NullAttr ELSE ScalarAttr(e[i])]>>
    BY <1>2, <1>5 DEF ArrayAttr
  <1> HIDE DEF a, n
  <1>7. a[1] = "Array" /\ DOMAIN a[2] = 1..n BY <1>6
  <1>8. ASSUME NEW i \in 1..n
        PROVE  /\ c[2][i] \in Scalars /\ Primitive(c[2][i])
               /\ a[2][i] = IF c[2][i][1] = "None" THEN NullAttr ELSE ScalarAttr(DecodePrimitive(c[2][i]))
    <2>1. e[i] # Unknown BY <1>2, <1>3, <1>4 DEF Range
    <2>2. c[2][i] \in Scalars BY <1>1
    <2>3. c[2][i][1] # "other" BY <1>2, <2>1, <2>2, Primitives
    <2>4. Primitive(c[2][i]) BY <2>2, <2>3, ScalarKinds DEF Primitive
    <2>5. a[2][i] = IF e[i][1] = "None" THEN NullAttr ELSE ScalarAttr(e[i]) BY <1>6
    <2>6. e[i][1] = "None" <=> c[2][i][1] = "None"
      <3>1. CASE c[2][i][1] = "None" BY <1>2, <2>2, <3>1, Primitives
      <3>2. CASE c[2][i][1] # "None" BY <1>2, <2>2, <2>4, <3>2, PrimitiveAttribute
      <3> QED BY <3>1, <3>2
    <2> QED BY <1>2, <2>2, <2>4, <2>5, <2>6
  <1> QED BY <1>7, <1>8 DEF a, n

LEMMA LoadableKinds ==
  ASSUME NEW c \in Constant, Loadable(c)
  PROVE  \/ c \in Scalars
         \/ c[1] \in {"tuple", "frozenset"} /\ c[2] \in Seq(Scalars) /\ c = <<c[1], c[2]>>
  BY ConstantKinds DEF Loadable

\* The front end follows the functions it can, and refuses nothing that is a
\* constant of the compiler's.
LEMMA FollowsAccepted ==
  ASSUME NEW c \in Constant, c[1] = "code"
  PROVE  Decode(c) # Unknown <=> Accepted(c)
  <1>1. c[2] \in Nat BY ConstantKinds, ScalarKinds
  <1>2. Decode(c) = IF c[2] + 1 > NestedFunctionDepth THEN Unknown ELSE <<"Code", c[2]>>
    BY DEF Decode, Followed
  <1>3. Decode(c) # Unknown <=> c[2] < NestedFunctionDepth
    BY <1>1, <1>2, ConstantsAssumption DEF Unknown
  <1> QED BY <1>3 DEF Accepted, Primitive

LEMMA DecodesAccepted ==
  ASSUME NEW c \in Constant, Decode(c) = Unknown
  PROVE  ~ Accepted(c)
  <1>1. CASE c \in Scalars
    <2>1. ASSUME c[1] \in {"bool", "int", "float", "str"} PROVE FALSE
      <3>1. Decode(c) = DecodePrimitive(c) BY <2>1 DEF Decode
      <3>2. DecodePrimitive(c)[1] \in {"Bool", "Int", "Float", "Str"}
        BY <1>1, <2>1, PrimitiveAttribute DEF Primitive
      <3> QED BY <3>1, <3>2 DEF Unknown
    <2>2. c[1] # "None" BY DEF Decode, Unknown
    <2>3. c[1] = "other" BY <1>1, <2>1, <2>2, ScalarKinds
    <2> QED BY <2>3 DEF Accepted, Primitive
  <1>2. CASE c[1] \in {"tuple", "frozenset"} /\ c[2] \in Seq(Scalars)
    <2> DEFINE e == [i \in DOMAIN c[2] |-> DecodePrimitive(c[2][i])]
    <2>1. Decode(c) \in {Unknown, <<"TupleStr", e>>, <<"FrozenSet", e>>}
          /\ (Unknown \notin Range(e) => Decode(c) \in {<<"TupleStr", e>>, <<"FrozenSet", e>>})
      BY <1>2 DEF Decode, DecodeTupleStr, DecodeFrozenSet
    <2>2. Unknown \in Range(e)
      <3> HIDE DEF e
      <3> QED BY <2>1 DEF Unknown
    <2>3. PICK i \in DOMAIN c[2] : DecodePrimitive(c[2][i]) = Unknown BY <2>2 DEF Range
    <2>4. c[2][i] \in Scalars BY <1>2
    <2>5. ~ Primitive(c[2][i]) \/ c[2][i][1] = "None"
      BY <2>3, <2>4, PrimitiveAttribute DEF Unknown
    <2>6. c[1] # "code" /\ ~ Primitive(c) BY <1>2 DEF Primitive
    <2> QED BY <2>3, <2>5, <2>6 DEF Accepted
  <1>3. CASE c[1] = "code" BY <1>3, FollowsAccepted
  <1> QED BY <1>1, <1>2, <1>3, ConstantKinds

\* The pass crashes on the constants that hold None, and on no other.
LEMMA CrashesOnNone ==
  ASSUME NEW c \in Constant, Loadable(c)
  PROVE  CrashesOn(ConstAttr(Decode(c))) <=> ~ Accepted(c)
  <1> DEFINE a == ConstAttr(Decode(c))
  <1>1. CASE c \in Scalars
    <2>1. a[1] # "Array" BY <1>1, ScalarConst DEF ScalarClass
    <2> QED BY <1>1, <2>1, ScalarConst DEF CrashesOn
  <1>2. CASE c[1] \in {"tuple", "frozenset"} /\ c[2] \in Seq(Scalars)
    <2> DEFINE n == Len(c[2])
    <2>1. /\ a[1] = "Array" /\ DOMAIN a[2] = 1..n
          /\ \A i \in 1..n :
               /\ c[2][i] \in Scalars /\ Primitive(c[2][i])
               /\ a[2][i] = IF c[2][i][1] = "None" THEN NullAttr ELSE ScalarAttr(DecodePrimitive(c[2][i]))
      BY <1>2, TupleConst
    <2>2. DOMAIN c[2] = 1..n BY <1>2
    <2> HIDE DEF a, n
    <2>3. ASSUME NEW i \in 1..n PROVE a[2][i][1] \notin ScalarClass <=> c[2][i][1] = "None"
      <3>1. CASE c[2][i][1] = "None" BY <2>1, <3>1 DEF NullAttr, ScalarClass
      <3>2. CASE c[2][i][1] # "None" BY <2>1, <3>2, PrimitiveAttribute
      <3> QED BY <3>1, <3>2
    <2>4. CrashesOn(a) <=> \E i \in 1..n : c[2][i][1] = "None" BY <2>1, <2>3 DEF CrashesOn
    <2>5. Accepted(c) <=> \A i \in 1..n : c[2][i][1] # "None" BY <1>2, <2>1, <2>2 DEF Accepted, Primitive
    <2> QED BY <2>4, <2>5 DEF a
  <1> QED BY <1>1, <1>2, LoadableKinds

\* The calls of a tuple are those of its elements and its own.
LEMMA TupleCalls ==
  ASSUME NEW elems, NEW n \in Nat, DOMAIN elems = 1..n
  PROVE  LET calls == [i \in DOMAIN elems |-> LoadScalarConst(elems[i])]
             own   == Call("pyir_loadConstTuple", "ptr", <<"ptr", "i64">>,
                           <<PartsOrNull(calls, "items"), Count(calls, "count")>>)
             all   == LoadTupleConst(elems)
         IN  /\ IsSeq(all) /\ Len(all) = n + 1 /\ DOMAIN all = 1..(n + 1)
             /\ all[n + 1] = own /\ Good(own) /\ Len(calls) = n
             /\ \A i \in 1..n : calls[i] = LoadScalarConst(elems[i]) /\ all[i] = calls[i]
  <1> DEFINE calls == [i \in DOMAIN elems |-> LoadScalarConst(elems[i])]
             a     == PartsOrNull(calls, "items")
             b     == Count(calls, "count")
             own   == Call("pyir_loadConstTuple", "ptr", <<"ptr", "i64">>, <<a, b>>)
             all   == LoadTupleConst(elems)
             S     == {LoadScalarConst(elems[i]) : i \in 1..n} \cup {own}
  <1>1. all = Append(calls, own) BY DEF LoadTupleConst
  <1>2. Good(own)
    <2>1. /\ "pyir_loadConstTuple" \in RuntimeFn /\ Returns("pyir_loadConstTuple", "ptr")
          /\ Header["pyir_loadConstTuple"].params = <<Ptr("items"), Size("count")>>
      BY MemoryHeaders DEF ConstFn, Sig, Returns
    <2>2. Fills(a, Ptr("items")) /\ Fills(b, Size("count")) BY Meanings, PartsFill
    <2> HIDE DEF a, b
    <2>3. Good(Call("pyir_loadConstTuple", "ptr", <<Ptr("items")[1], Size("count")[1]>>, <<a, b>>))
      BY <2>1, <2>2, CallOfTwo
    <2> QED BY <2>3, TypesOfParams
  <1> HIDE DEF own, all
  <1>3. calls = [i \in 1..n |-> LoadScalarConst(elems[i])] OBVIOUS
  <1>4. \A i \in 1..n : LoadScalarConst(elems[i]) \in S OBVIOUS
  <1>5. own \in S OBVIOUS
  <1> HIDE DEF calls, S
  <1>6. calls \in Seq(S) /\ Len(calls) = n /\ \A i \in 1..n : calls[i] = LoadScalarConst(elems[i])
    BY <1>3, <1>4
  <1>7. /\ all \in Seq(S) /\ Len(all) = n + 1 /\ DOMAIN all = 1..(n + 1)
        /\ all[n + 1] = own /\ \A i \in 1..n : all[i] = calls[i]
    BY <1>1, <1>5, <1>6
  <1>8. IsSeq(all) BY <1>7, RangeSeq
  <1> QED BY <1>2, <1>6, <1>7, <1>8 DEF calls, own, all

LEMMA LoadNoneGood == Good(LoadNoneConst)
  <1>1. /\ "pyir_loadConstNone" \in RuntimeFn /\ Header["pyir_loadConstNone"].params = <<>>
        /\ Returns("pyir_loadConstNone", "ptr")
    BY MemoryHeaders DEF ConstFn, Sig, Returns
  <1> QED BY <1>1, CallOfNone DEF LoadNoneConst

LEMMA OneGood ==
  ASSUME NEW c, Good(c)
  PROVE  IsSeq(<<c>>) /\ \A i \in DOMAIN <<c>> : Good(<<c>>[i])
  <1>1. <<c>> \in Seq({c}) /\ DOMAIN <<c>> = {1} /\ <<c>>[1] = c OBVIOUS
  <1>2. IsSeq(<<c>>)
    <2> DEFINE s == <<c>>
    <2>1. s \in Seq({c}) OBVIOUS
    <2> HIDE DEF s
    <2>2. IsSeq(s) BY <2>1, RangeSeq
    <2> QED BY <2>2 DEF s
  <1> QED BY <1>1, <1>2

LEMMA ConstCallsGood ==
  ASSUME NEW c \in Constant, Loadable(c)
  PROVE  IsSeq(ConstCalls(c)) /\ \A i \in DOMAIN ConstCalls(c) : Good(ConstCalls(c)[i])
  <1> DEFINE a == ConstAttr(Decode(c))
  <1>1. CASE c \in Scalars
    <2>1. a[1] # "Array" BY <1>1, ScalarConst DEF ScalarClass
    <2>2. ConstCalls(c) = <<LoadNoneConst>> \/ ConstCalls(c) = <<LoadScalarConst(a)>> BY <2>1 DEF ConstCalls, Loadable
    <2> HIDE DEF a
    <2> QED BY <2>2, LoadNoneGood, LoadGood, OneGood
  <1>2. CASE c[1] \in {"tuple", "frozenset"} /\ c[2] \in Seq(Scalars)
    <2> DEFINE n   == Len(c[2])
               all == LoadTupleConst(a[2])
    <2>1. a[1] = "Array" /\ DOMAIN a[2] = 1..n /\ n \in Nat BY <1>2, TupleConst
    <2>2. ConstCalls(c) = all BY <2>1 DEF ConstCalls, Loadable
    <2> HIDE DEF a, n
    <2>3. /\ IsSeq(all) /\ DOMAIN all = 1..(n + 1) /\ Good(all[n + 1])
          /\ \A i \in 1..n : all[i] = LoadScalarConst(a[2][i])
      BY <2>1, TupleCalls
    <2> HIDE DEF all
    <2>4. ASSUME NEW i \in 1..(n + 1) PROVE Good(all[i])
      <3>1. CASE i = n + 1 BY <2>3, <3>1
      <3>2. CASE i \in 1..n BY <2>3, <3>2, LoadGood
      <3> QED BY <2>1, <3>1, <3>2
    <2> QED BY <2>2, <2>3, <2>4
  <1> QED BY <1>1, <1>2, LoadableKinds

LEMMA CodeConverts == ASSUME Ready, LowerCode PROVE Converts
  <1> DEFINE c     == Now.const
             calls == <<>>
  <1>1. Now \in Operation /\ Now.name = "load_const" /\ c[1] = "code" /\ Emit(calls)
    BY NowIsOperation DEF LowerCode, At
  <1>2. c \in Constant /\ Decode(c) # Unknown BY <1>1, Kinds, NowDecodes DEF Decodes
  <1>3. Accepted(c) BY <1>1, <1>2, FollowsAccepted
  <1>4. ~ Unsupported(Now) BY <1>1, <1>3 DEF Unsupported
  <1>5. ConstCalls(c) = calls BY <1>1 DEF ConstCalls
  <1>6. calls \in Seq({}) /\ DOMAIN calls = {} OBVIOUS
  <1> HIDE DEF calls
  <1>7. IsSeq(calls) BY <1>6, RangeSeq
  <1> QED BY <1>1, <1>4, <1>5, <1>6, <1>7 DEF Converts

LEMMA LoadConstConverts == ASSUME Ready, LowerLoadConst PROVE Converts \/ GivesUp
  <1> DEFINE c == Now.const
             a == ConstAttr(Decode(c))
  <1>1. Now \in Operation /\ Now.name = "load_const" /\ c[1] # "code"
    BY NowIsOperation DEF LowerLoadConst, At
  <1>2. c \in Constant /\ Loadable(c) BY <1>1, Kinds, NowDecodes DEF Loadable, Decodes
  <1>3. CrashesOn(a) <=> ~ Accepted(c) BY <1>2, CrashesOnNone
  <1>4. Unsupported(Now) <=> ~ Accepted(c) BY <1>1 DEF Unsupported
  <1>5. IF CrashesOn(a) THEN Fail("crashed") ELSE Emit(ConstCalls(c)) BY <1>1 DEF LowerLoadConst, ConstCalls
  <1> HIDE DEF c, a
  <1>6. CASE CrashesOn(a) BY <1>3, <1>4, <1>5, <1>6 DEF GivesUp
  <1>7. CASE ~ CrashesOn(a)
    <2>1. IsSeq(ConstCalls(c)) /\ \A i \in DOMAIN ConstCalls(c) : Good(ConstCalls(c)[i])
      BY <1>2, ConstCallsGood
    <2> QED BY <1>3, <1>4, <1>5, <1>7, <2>1 DEF Converts, c
  <1> QED BY <1>6, <1>7

-------------------------------------------------------------------------------
(* Every step keeps the invariant.                                         *)

LEMMA DecodingInv == ASSUME IInv, GeneratePythonByteCode PROVE IInv'
  <1> DEFINE bad(i) == prog[i].name = "load_const" /\ Decode(prog[i].const) = Unknown
  <1>1. /\ UNCHANGED <<prog, code, decls, globals>> /\ outcome = "decoding"
        /\ outcome' = IF \E i \in DOMAIN prog : bad(i) THEN "refused" ELSE "lowering"
    BY DEF GeneratePythonByteCode
  <1>2. Calls' = Calls BY <1>1 DEF Calls
  <1>3. Symbols' = Symbols BY <1>2 DEF Symbols
  <1>4. Shape' /\ Converted' /\ Declarations' /\ Strings'
    BY <1>1, <1>2, <1>3 DEF IInv, Shape, Converted, Declarations, Strings
  <1>5. code = <<>> /\ Len(code) < Len(prog) BY <1>1 DEF IInv, Outcomes
  <1>6. ASSUME NEW i \in DOMAIN prog, bad(i) PROVE Unsupported(prog[i])
    <2>1. prog[i] \in Operation BY <1>6 DEF IInv, Shape
    <2>2. prog[i].const \in Constant BY <1>6, <2>1, Kinds
    <2> QED BY <1>6, <2>2, DecodesAccepted DEF Unsupported
  <1>7. Outcomes'
    <2>1. CASE \E i \in DOMAIN prog : bad(i)
      <3>1. outcome' = "refused" /\ \E i \in DOMAIN prog : Unsupported(prog[i]) BY <1>1, <1>6, <2>1
      <3> QED BY <1>1, <1>5, <3>1 DEF Outcomes
    <2>2. CASE ~ \E i \in DOMAIN prog : bad(i)
      <3>1. outcome' = "lowering" /\ \A i \in DOMAIN prog : Decodes(prog[i]) BY <1>1, <2>2 DEF Decodes
      <3> QED BY <1>1, <1>5, <3>1 DEF Outcomes
    <2> QED BY <2>1, <2>2
  <1> QED BY <1>4, <1>7 DEF IInv

LEMMA NextInv == IInv /\ [Next \/ Done]_vars => IInv'
  <1> SUFFICES ASSUME IInv, [Next \/ Done]_vars PROVE IInv' OBVIOUS
  <1>1. CASE UNCHANGED vars
    <2>1. UNCHANGED <<prog, code, decls, globals, outcome>> BY <1>1 DEF vars
    <2>2. Now' = Now /\ Calls' = Calls BY <2>1 DEF Now, Calls
    <2>3. Symbols' = Symbols BY <2>2 DEF Symbols
    <2>4. Shape' /\ Outcomes' /\ Converted' BY <2>1, <2>2 DEF IInv, Shape, Outcomes, Converted
    <2>5. Declarations' /\ Strings' BY <2>1, <2>2, <2>3 DEF IInv, Declarations, Strings
    <2> QED BY <2>4, <2>5 DEF IInv
  <1>2. CASE Done BY <1>1, <1>2 DEF Done
  <1>4. CASE GeneratePythonByteCode BY <1>4, DecodingInv
  <1>3. CASE Next /\ ~ GeneratePythonByteCode
    <2>1. outcome = "lowering"
      BY <1>3 DEF Next, LowerStatement, LowerExpression, LowerBinaryOp, LowerCompareOp, LowerContainsOp,
         LowerOperator, LowerIsTruthy, LowerLoad, LowerStore, LowerLoadAttr, LowerInitModule,
         LowerMakeFunction, LowerBuild, LowerCall, LowerStoreSubscr, LowerForIter, LowerNoCall, LowerDeref,
         LowerCode, LowerLoadConst, At
    <2>2. Ready BY <2>1 DEF Ready
    <2>3. Converts \/ GivesUp
      <3>1. CASE LowerStatement BY <2>2, <3>1, StatementConverts
      <3>2. CASE LowerExpression BY <2>2, <3>2, ExpressionConverts
      <3>3. CASE LowerBinaryOp BY <2>2, <3>3, BinaryConverts
      <3>4. CASE LowerCompareOp BY <2>2, <3>4, CompareConverts
      <3>5. CASE LowerContainsOp BY <2>2, <3>5, ContainsConverts
      <3>6. CASE LowerIsTruthy BY <2>2, <3>6, IsTruthyConverts
      <3>7. CASE LowerLoad BY <2>2, <3>7, LoadConverts
      <3>8. CASE LowerStore BY <2>2, <3>8, StoreConverts
      <3>9. CASE LowerLoadAttr BY <2>2, <3>9, LoadAttrConverts
      <3>10. CASE LowerInitModule BY <2>2, <3>10, InitModuleConverts
      <3>11. CASE LowerMakeFunction BY <2>2, <3>11, MakeFunctionConverts
      <3>12. CASE LowerBuild BY <2>2, <3>12, BuildConverts
      <3>13. CASE LowerCall BY <2>2, <3>13, CallConverts
      <3>14. CASE LowerStoreSubscr BY <2>2, <3>14, StoreSubscrConverts
      <3>15. CASE LowerForIter BY <2>2, <3>15, ForIterConverts
      <3>16. CASE LowerNoCall BY <2>2, <3>16, NoCallConverts
      <3>17. CASE LowerDeref BY <3>17, DerefGivesUp
      <3>19. CASE LowerCode BY <2>2, <3>19, CodeConverts
      <3>18. CASE LowerLoadConst BY <2>2, <3>18, LoadConstConverts
      <3> QED BY <1>3, <3>1, <3>2, <3>3, <3>4, <3>5, <3>6, <3>7, <3>8, <3>9, <3>10, <3>11, <3>12, <3>13,
                 <3>14, <3>15, <3>16, <3>17, <3>18, <3>19 DEF Next
    <2> QED BY <2>1, <2>3, ConvertsInv, GivesUpInv
  <1> QED BY <1>1, <1>2, <1>3, <1>4

\* What has been converted, declared and defined is what the operations
\* converted so far ask for, and the pass has come as far as it says.
THEOREM Invariant == Spec => []IInv
  <1> QED BY InitInv, NextInv, PTL DEF Spec

-------------------------------------------------------------------------------
(* The symbols.                                                            *)

LEMMA MadeOfCalls == ASSUME IInv, NEW a \in Symbols PROVE Made(a)
  <1>1. PICK c \in Calls : \E j \in DOMAIN c.args : a = c.args[j] BY SymbolsOfCalls
  <1>2. a.class = "symbol" BY SymbolsOfCalls
  <1> QED BY <1>1, <1>2 DEF IInv, Declarations, Good

\* What is prepended to a sequence can be taken off again.
LEMMA ConcatLen ==
  ASSUME NEW T, NEW q \in Seq(T), NEW s \in Seq(T)
  PROVE  q \o s \in Seq(T) /\ Len(q \o s) = Len(q) + Len(s)
  OBVIOUS
LEMMA ConcatAt ==
  ASSUME NEW T, NEW q \in Seq(T), NEW s \in Seq(T), NEW i \in 1..Len(s)
  PROVE  (q \o s)[Len(q) + i] = s[i]
  OBVIOUS
LEMMA Cancel ==
  ASSUME NEW S, NEW p, NEW s \in Seq(S), NEW t \in Seq(S), <<p>> \o s = <<p>> \o t
  PROVE  s = t
  <1> DEFINE T == S \cup {p}
             q == <<p>>
  <1>1. q \in Seq(T) /\ Len(q) = 1 /\ s \in Seq(T) /\ t \in Seq(T) OBVIOUS
  <1>2. q \o s = q \o t OBVIOUS
  <1> HIDE DEF T, q
  <1>3. Len(q \o s) = Len(q) + Len(s) /\ Len(q \o t) = Len(q) + Len(t) BY <1>1, ConcatLen
  <1>4. Len(s) = Len(t)
     <2>1. Len(s) \in Nat /\ Len(t) \in Nat OBVIOUS
     <2> QED BY <1>2, <1>3, <2>1, <1>1
  <1>5. ASSUME NEW i \in 1..Len(s) PROVE s[i] = t[i]
    <2>1. (q \o s)[Len(q) + i] = s[i] BY <1>1, ConcatAt
    <2>2. i \in 1..Len(t) BY <1>4
    <2>3. (q \o t)[Len(q) + i] = t[i] BY <1>1, <2>2, ConcatAt
    <2> QED BY <1>2, <2>1, <2>3
  <1> QED BY <1>1, <1>4, <1>5

\* The same symbol is made from different texts only where Ambiguous says so.
LEMMA SymbolsDetermine ==
  ASSUME NEW a \in Symbols, NEW b \in Symbols, Made(a), Made(b), a.symbol = b.symbol
  PROVE  a.text = b.text \/ Ambiguous
  <1> DEFINE Str(x)  == x.role = "str" /\ x.symbol = StringSymbol(x.text)
             Fn(x)   == /\ x.role = "fn_name" /\ x.text \in Seq(STRING)
                        /\ x.symbol = <<"__pyir_str_", "fn_">> \o x.text
             Name(x) == /\ x.role \in {"var_name", "attr_name", "file", "name"} /\ x.text \in Seq(STRING)
                        /\ x.symbol = <<"__pyir_str_">> \o x.text
  <1>1. (Str(a) \/ Fn(a) \/ Name(a)) /\ (Str(b) \/ Fn(b) \/ Name(b)) BY DEF Made
  <1>2. ASSUME NEW t \in Seq(STRING)
        PROVE  /\ (<<"__pyir_str_", "fn_">> \o t)[1] = "__pyir_str_" /\ (<<"__pyir_str_">> \o t)[1] = "__pyir_str_"
               /\ <<"__pyir_str_", "fn_">> \o t = <<"__pyir_str_">> \o (<<"fn_">> \o t)
    <2> DEFINE T == STRING \cup {"__pyir_str_", "fn_"}
    <2>1. t \in Seq(T) /\ <<"__pyir_str_", "fn_">> \in Seq(T) /\ <<"__pyir_str_">> \in Seq(T) /\ <<"fn_">> \in Seq(T)
      OBVIOUS
    <2> HIDE DEF T
    <2> QED BY <2>1
  <1>3. ASSUME NEW x, Str(x) PROVE x.symbol[1] = "__pyir_const_str_" /\ x.symbol[2] = Hash(x.text)
    BY <1>3 DEF StringSymbol
  <1> HIDE DEF Str, Fn, Name
  <1>5. CASE Str(a) /\ Str(b)
    <2>1. Hash(a.text) = Hash(b.text) BY <1>3, <1>5
    <2> QED BY <1>5, <2>1 DEF Ambiguous, Str
  <1>6. ASSUME NEW x, NEW y, Str(x), Fn(y) \/ Name(y), x.symbol = y.symbol PROVE FALSE
    <2>1. y.symbol[1] = "__pyir_str_" BY <1>2, <1>6 DEF Fn, Name
    <2> QED BY <1>3, <1>6, <2>1
  <1>7. ASSUME NEW x \in Symbols, NEW y \in Symbols, Fn(x), Name(y), x.symbol = y.symbol PROVE Ambiguous
    <2> DEFINE u == <<"fn_">> \o x.text
               T == STRING \cup {"fn_"}
    <2>1. u \in Seq(T) /\ y.text \in Seq(T)
      <3>1. x.text \in Seq(T) /\ y.text \in Seq(T) /\ <<"fn_">> \in Seq(T) BY <1>7 DEF Fn, Name
      <3> HIDE DEF T
      <3> QED BY <3>1
    <2>2. <<"__pyir_str_">> \o u = <<"__pyir_str_">> \o y.text BY <1>2, <1>7 DEF Fn, Name
    <2> HIDE DEF T, u
    <2>3. u = y.text BY Cancel, <2>1, <2>2
    <2> QED BY <1>7, <2>3 DEF Ambiguous, Fn, Name, u
  <1>8. CASE Name(a) /\ Name(b) BY Cancel, <1>8 DEF Name
  <1>9. CASE Fn(a) /\ Fn(b)
    <2> DEFINE T == STRING \cup {"fn_"}
               u == <<"fn_">> \o a.text
               v == <<"fn_">> \o b.text
    <2>1. u \in Seq(T) /\ v \in Seq(T)
      <3>1. a.text \in Seq(T) /\ b.text \in Seq(T) /\ <<"fn_">> \in Seq(T) BY <1>9 DEF Fn
      <3> HIDE DEF T
      <3> QED BY <3>1
    <2>2. <<"__pyir_str_">> \o u = <<"__pyir_str_">> \o v BY <1>2, <1>9 DEF Fn
    <2>3. u = v
      <3> HIDE DEF T, u, v
      <3> QED BY Cancel, <2>1, <2>2
    <2> QED BY Cancel, <1>9, <2>3 DEF Fn
  <1> QED BY <1>1, <1>5, <1>6, <1>7, <1>8, <1>9

LEMMA OwnTextInv == IInv => OwnText
  <1> SUFFICES ASSUME IInv, NEW a \in Symbols
               PROVE  a.symbol \in DOMAIN globals /\ (Ambiguous \/ globals[a.symbol] = a.text)
    BY DEF OwnText
  <1>1. a.symbol \in DOMAIN globals BY DEF IInv, Strings
  <1>2. PICK b \in Symbols : b.symbol = a.symbol /\ globals[a.symbol] = b.text BY <1>1 DEF IInv, Strings
  <1>3. a.text = b.text \/ Ambiguous BY <1>2, MadeOfCalls, SymbolsDetermine
  <1> QED BY <1>1, <1>2, <1>3

\* Every symbol a call refers to is defined, and holds the string of the
\* operation it was made for unless two strings get the same symbol.
THEOREM SymbolsOwnText == Spec => []OwnText
  <1> QED BY Invariant, OwnTextInv, PTL

-------------------------------------------------------------------------------
(* The runtime library.                                                    *)

LEMMA CallsMatchInv == IInv => CallsMatchRuntime
  <1> SUFFICES ASSUME IInv PROVE CallsMatchRuntime OBVIOUS
  <1>1. ASSUME NEW c \in Calls
        PROVE  /\ c.fn \in DOMAIN Header
               /\ LET h == Header[c.fn]
                  IN  /\ decls[c.fn][1] \in {h.returns, "void"}
                      /\ decls[c.fn][2] = [i \in DOMAIN h.params |-> h.params[i][1]]
                      /\ Len(c.args) = Len(h.params)
                      /\ \A i \in DOMAIN c.args : c.args[i].type = h.params[i][1]
                                                  /\ h.params[i][2] \in Means(c.args[i].role)
    <2>1. Matches(c) BY DEF IInv, Declarations, Good
    <2>2. Declares(c.fn, decls[c.fn]) BY DEF IInv, Declarations
    <2> QED BY <2>1, <2>2 DEF Matches, Declares, Returns
  <1> QED BY <1>1 DEF CallsMatchRuntime

\* Every call has a declaration and arguments that match the header of its
\* function, each operand at the parameter meant for it.
THEOREM EveryCallMatches == Spec => []CallsMatchRuntime
  <1> QED BY Invariant, CallsMatchInv, PTL

-------------------------------------------------------------------------------
(* What fails.                                                             *)

LEMMA OnlyUnsupportedInv == IInv => OnlyUnsupportedFails
  <1> SUFFICES ASSUME IInv PROVE OnlyUnsupportedFails OBVIOUS
  <1>1. DOMAIN code = 1..Len(code) /\ DOMAIN prog = 1..Len(prog) BY DEF IInv, Shape, IsSeq
  <1> QED BY <1>1 DEF IInv, Outcomes, Converted, OnlyUnsupportedFails

\* The pass fails or crashes only at an operation it does not support, and a
\* module with one is never lowered.
THEOREM FailsOnlyOnUnsupported == Spec => []OnlyUnsupportedFails
  <1> QED BY Invariant, OnlyUnsupportedInv, PTL

-------------------------------------------------------------------------------
(* The constants.                                                          *)

LEMMA PreservedInv == IInv => Preserved
  <1> SUFFICES ASSUME IInv, NEW i \in DOMAIN code,
                      prog[i].name = "load_const", prog[i].const[1] # "code", Representable(prog[i].const), ~ Ambiguous
               PROVE  RunConst(code[i]) = Meant(prog[i].const)
    BY DEF Preserved
  <1> DEFINE c    == prog[i].const
             a    == ConstAttr(Decode(c))
             load == code[i]
  <1>1. prog[i] \in Operation
    <2>1. /\ prog \in Seq(Operation) /\ Len(code) <= Len(prog) /\ Len(code) \in Nat /\ DOMAIN code = 1..Len(code)
      BY DEF IInv, Shape, IsSeq
    <2>2. i \in 1..Len(prog) BY <2>1
    <2> QED BY <2>1, <2>2
  <1>2. c \in Constant /\ Loadable(c)
    <2>1. Decodes(prog[i])
      <3>1. /\ prog \in Seq(Operation) /\ Len(code) <= Len(prog) /\ Len(code) \in Nat /\ DOMAIN code = 1..Len(code)
        BY DEF IInv, Shape, IsSeq
      <3>2. i \in DOMAIN prog BY <3>1
      <3>3. code # <<>> OBVIOUS
      <3> QED BY <3>2, <3>3 DEF IInv, Outcomes
    <2> QED BY <1>1, <2>1, Kinds DEF Loadable, Decodes
  <1>3. load = ConstCalls(c) /\ Accepted(c) BY DEF IInv, Converted, Unsupported
  <1>4. ASSUME NEW k \in DOMAIN load, NEW j \in DOMAIN load[k].args, load[k].args[j].class = "symbol"
        PROVE  globals[load[k].args[j].symbol] = load[k].args[j].text
    <2>1. load[k] \in Calls BY DEF Calls, Range
    <2>2. load[k].args[j] \in Symbols BY <1>4, <2>1, SymbolsOfCalls
    <2> QED BY <2>2, OwnTextInv DEF OwnText
  <1>5. ASSUME NEW s \in Scalars, Primitive(s), s[1] # "None", s[1] = "int" => s[2] \in Long,
               s[1] = "str" => Nul \notin Range(s[2]),
               NEW k \in DOMAIN load, load[k] = LoadScalarConst(ScalarAttr(DecodePrimitive(s)))
        PROVE  RunScalar(load[k]) = s /\ load[k].fn # "pyir_loadConstTuple"
    <2>1. ASSUME s[1] = "str" PROVE globals[load[k].args[1].symbol] = load[k].args[1].text
      <3>1. ScalarAttr(DecodePrimitive(s)) = <<"String", CString(s[2])>> BY <2>1, Primitives, Attributes
      <3>2. load[k] = LoadStringConst(CString(s[2])) BY <1>5, <3>1 DEF LoadScalarConst
      <3>3. 1 \in DOMAIN load[k].args /\ load[k].args[1].class = "symbol"
        BY <3>2 DEF LoadStringConst, Call, Symbol
      <3> QED BY <1>4, <3>3
    <2> HIDE DEF load
    <2> QED BY <1>5, <2>1, ScalarPreserved
  <1> HIDE DEF c, load
  <1>6. CASE c \in Scalars
    <2>1. Meant(c) = c BY <1>6, ScalarKinds DEF Meant
    <2>2. a[1] # "Array" BY <1>2, <1>6, ScalarConst DEF ScalarClass
    <2>3. CASE c[1] = "None"
      <3>1. load = <<LoadNoneConst>> BY <1>2, <1>3, <1>6, <2>3, ScalarConst DEF ConstCalls
      <3>2. RunConst(load) = RunScalar(LoadNoneConst) BY <3>1 DEF RunConst, LoadNoneConst, Call
      <3>3. RunScalar(LoadNoneConst) = <<"None", 0>> BY DEF RunScalar, LoadNoneConst, Call
      <3>4. c = <<"None", 0>> BY <1>6, <2>3, ScalarKinds
      <3> QED BY <2>1, <3>2, <3>3, <3>4 DEF c, load
    <2>4. CASE c[1] # "None"
      <3> DEFINE own == LoadScalarConst(ScalarAttr(DecodePrimitive(c)))
      <3>1. a = ScalarAttr(DecodePrimitive(c)) /\ a[1] # "None" /\ Primitive(c)
        BY <1>2, <1>6, <2>4, ScalarConst DEF ScalarClass
      <3>2. load = <<own>> BY <1>2, <1>3, <2>2, <3>1 DEF ConstCalls, Loadable
      <3> HIDE DEF own
      <3>3. Len(load) = 1 /\ 1 \in DOMAIN load /\ load[1] = own BY <3>2
      <3>4. (c[1] = "int" => c[2] \in Long) /\ (c[1] = "str" => Nul \notin Range(c[2]))
        BY <1>6, ScalarKinds DEF Representable, c
      <3>5. RunScalar(load[1]) = c /\ load[1].fn # "pyir_loadConstTuple"
        BY <1>5, <1>6, <2>4, <3>1, <3>3, <3>4 DEF own
      <3>6. RunConst(load) = c BY <3>3, <3>5 DEF RunConst
      <3> QED BY <2>1, <3>6 DEF c, load
    <2> QED BY <2>3, <2>4
  <1>7. CASE c[1] \in {"tuple", "frozenset"} /\ c[2] \in Seq(Scalars) /\ c = <<c[1], c[2]>>
    <2> DEFINE n     == Len(c[2])
               elems == a[2]
               calls == [k \in DOMAIN elems |-> LoadScalarConst(elems[k])]
               own   == Call("pyir_loadConstTuple", "ptr", <<"ptr", "i64">>,
                             <<PartsOrNull(calls, "items"), Count(calls, "count")>>)
    <2>1. /\ a[1] = "Array" /\ DOMAIN elems = 1..n /\ n \in Nat
          /\ \A k \in 1..n :
               /\ c[2][k] \in Scalars /\ Primitive(c[2][k])
               /\ elems[k] = IF c[2][k][1] = "None" THEN NullAttr ELSE ScalarAttr(DecodePrimitive(c[2][k]))
      BY <1>2, <1>7, TupleConst
    <2>2. load = LoadTupleConst(elems) BY <1>2, <1>3, <2>1 DEF ConstCalls, Loadable
    <2>3. DOMAIN c[2] = 1..n /\ c[2] = [k \in 1..n |-> c[2][k]] BY <1>7
    <2>4. \A k \in 1..n : c[2][k][1] # "None" BY <1>3, <1>7, <2>3 DEF Accepted, Primitive
    <2>5. \A k \in 1..n : /\ c[2][k][1] = "int" => c[2][k][2] \in Long
                          /\ c[2][k][1] = "str" => Nul \notin Range(c[2][k][2])
      BY <1>7, <2>3 DEF Representable, c
    <2> HIDE DEF n, elems
    <2>6. /\ IsSeq(load) /\ Len(load) = n + 1 /\ DOMAIN load = 1..(n + 1) /\ load[n + 1] = own /\ Len(calls) = n
          /\ \A k \in 1..n : calls[k] = LoadScalarConst(elems[k]) /\ load[k] = calls[k]
      BY <2>1, <2>2, TupleCalls
    <2>7. ASSUME NEW k \in 1..n PROVE RunScalar(calls[k]) = c[2][k]
      <3>1. k \in DOMAIN load BY <2>1, <2>6
      <3>2. load[k] = LoadScalarConst(ScalarAttr(DecodePrimitive(c[2][k]))) BY <2>1, <2>4, <2>6
      <3> HIDE DEF calls
      <3>3. RunScalar(load[k]) = c[2][k] BY <1>5, <2>1, <2>4, <2>5, <3>1, <3>2
      <3> QED BY <2>6, <3>3
    <2>8. own.fn = "pyir_loadConstTuple" /\ own.args[2].value = n
      <3> HIDE DEF calls
      <3> QED BY <2>6 DEF Call, Count, Bits
    <2>9. n # 0 => own.args[1].elems = calls
      <3>1. n # 0 => calls # <<>> BY <2>6
      <3> HIDE DEF calls
      <3> QED BY <3>1 DEF Call, PartsOrNull, Array
    <2> HIDE DEF own, calls
    <2>10. RunConst(load) = <<"tuple", [k \in 1..n |-> RunScalar(own.args[1].elems[k])]>>
      BY <2>1, <2>6, <2>8 DEF RunConst
    <2>11. \A k \in 1..n : RunScalar(own.args[1].elems[k]) = c[2][k] BY <2>1, <2>7, <2>9
    <2>12. [k \in 1..n |-> RunScalar(own.args[1].elems[k])] = [k \in 1..n |-> c[2][k]] BY <2>11
    <2>13. RunConst(load) = <<"tuple", c[2]>> BY <2>3, <2>10, <2>12
    <2>14. Meant(c) = <<"tuple", c[2]>> BY <1>7 DEF Meant
    <2> QED BY <2>13, <2>14 DEF c, load
  <1> QED BY <1>2, <1>6, <1>7, LoadableKinds

\* A constant that int64_t and C strings can hold is loaded with the type and
\* value it has in Python.
THEOREM ConstantsPreserved == Spec => []Preserved
  <1> QED BY Invariant, PreservedInv, PTL
===============================================================================
