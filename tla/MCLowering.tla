----------------------------- MODULE MCLowering -----------------------------
(* Instances of Lowering for TLC: 8-bit integers, functions nested three   *)
(* deep, strings over two letters and the NUL, two of which hash alike.    *)
EXTENDS Lowering

Ints    == {-129, -128, -1, 0, 1, 127, 128}
Texts   == {<<>>, <<"a">>, <<"b">>, <<"b", "a">>, <<"a", Nul>>}
Scalar1 == {<<"int", n>> : n \in Ints} \cup {<<"str", s>> : s \in Texts}
             \cup {<<"bool", b>> : b \in BOOLEAN} \cup {<<"float", 3>>, <<"None", 0>>}
Elems   == {<<"int", 1>>, <<"bool", TRUE>>, <<"str", <<"a">>>>, <<"float", 3>>, <<"None", 0>>}
Consts  == Scalar1 \cup {<<"other", 0>>} \cup ({"code"} \X (0..2))
             \cup {<<"tuple", t>> : t \in {<<>>} \cup {<<e>> : e \in Elems} \cup {<<e, <<"bool", TRUE>>>> : e \in Elems}}
             \cup {<<"frozenset", t>> : t \in {<<<<"str", <<"b">>>>, <<"int", 128>>>>, <<<<"None", 0>>>>, <<<<"other", 0>>>>}}

\* std::hash: the strings b and ba collide.
MCHash(s) == IF Len(s) > 0 THEN s[1] ELSE "0"

\* The name of the variable <<"fn_", "f">> makes the symbol of function f.
Names == {<<"x">>, <<"fn_", "f">>}

WithText(names, texts) == {[name |-> n, text |-> t] : n \in names, t \in texts}
WithParts(names)       == {[name |-> n, n |-> k] : n \in names, k \in {0, 2}}

MCOp ==
  {[name |-> "load_const", const |-> c] : c \in Consts}
  \cup WithText(DOMAIN LoadFn \cup DOMAIN StoreFn \cup {"load_attr"}, Names)
  \cup WithText({"make_function"}, {<<"f">>})
  \cup WithText({"binary_op"}, {<<"+">>, <<"+=">>, <<"[]">>, <<"<<">>, <<"**">>})
  \cup WithText({"compare_op"}, {<<"<=">>, <<"bool(", "==", ")">>})
  \cup WithText({"contains_op"}, {<<"in">>, <<"not in">>})
  \cup {[name |-> "init_module", text |-> <<"x">>, moduleName |-> <<"m">>]}
  \cup WithParts(DOMAIN BuildFn \cup {"call", "for_iter"})
  \cup {[name |-> n] : n \in DOMAIN ReturnsNothing \cup DOMAIN BuilderStatement \cup DOMAIN ReturnsObject
          \cup {"is_truthy", "store_subscr", "push_null", "load_arg", "return_value", "load_deref"}}
===============================================================================
