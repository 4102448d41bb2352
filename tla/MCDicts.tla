------------------------------- MODULE MCDicts -------------------------------
(* Instances of Dicts for TLC: 1, True (equal to it) and a string as keys.  *)
EXTENDS Dicts

CONSTANTS one, true, a, v, w

MCValueOf == (one :> <<"int", 2>>) @@ (true :> <<"bool", 2>>) @@ (a :> <<"str", 0>>)

\* Doubles with two bits: a sample of what can be compared, on which the order is
\* partial, and its smallest numbers beyond the doubles.
Sample == ({"bool"} \X {0, 1}) \cup ({"float"} \X Double) \cup ({"int"} \X Whole)
            \cup {<<"NoneType", 0>>, <<"str", 0>>, <<"str", 1>>, <<"tuple", <<>> >>, <<"list", << <<"int", 5>> >> >>}

ASSUME SampleIsOrdered ==
  \A x, y \in Sample :
    /\ ~Less(x, x)
    /\ Less(x, y) => \A z \in Sample : Less(y, z) => Less(x, z)
    /\ EqualInPython(x, y) => SameKey(x, y)

ASSUME FourAndFive ==
  /\ \A n \in {4, 5, -5} : ToDouble(n) = IF n < 0 THEN -4 ELSE 4
  /\ ToDouble(7) = 8 /\ ToDouble(11) = 12 /\ ToDouble(13) = 12 /\ ToDouble(14) = 16
  /\ SameKey(<<"int", 4>>, <<"float", 4>>) /\ SameKey(<<"float", 4>>, <<"int", 5>>)
  /\ ~SameKey(<<"int", 4>>, <<"int", 5>>) /\ ~EqualInPython(<<"float", 4>>, <<"int", 5>>)

Symmetry == Permutations(Val)
===============================================================================
