------------------------------- MODULE KeyOrder -------------------------------
(***************************************************************************)
(* How runtime objects compare: operator<=> and operator== of the types,   *)
(* and PyObjPtrCompare, the order of the std::map behind a dict.           *)
(*                                                                         *)
(* An object's value is <<type name, datum>>: a number for bool, int and   *)
(* float (as a multiple of some power of two, 1/2 say; no NaN), the rank   *)
(* of a str among strings, the sequence of the elements of a tuple or      *)
(* list, the identity of a function.  Elements of tuples and lists are     *)
(* scalars.                                                                *)
(***************************************************************************)
EXTENDS Integers, Sequences

CONSTANTS
  Significand,  \* what the bits of a double's significand count to: 2^53
  Exponent      \* doubles go up to Significand * 2^Exponent, beyond any int64_t

ASSUME KeyOrderAssumption == Significand \in Nat \ {0} /\ Exponent \in Nat

\* The numbers a double_t can be, and those an int64_t can be, of which most are
\* not: Significand + 1 is the first.
Double == {m * 2^e : m \in -Significand..Significand, e \in 0..Exponent}
Whole  == -(Significand * 2^Exponent)..(Significand * 2^Exponent)

\* static_cast<double_t> of an int64_t: the nearest double, and of two the one
\* with the even significand.
Below(n) == CHOOSE d \in Double : d <= n /\ \A e \in Double : e <= n => e <= d
Above(n) == CHOOSE d \in Double : n <= d /\ \A e \in Double : n <= e => d <= e

ToDouble(n) ==
  LET low  == Below(n)
      high == Above(n)
  IN  IF \/ low = high \/ 2 * n < low + high
         \/ 2 * n = low + high /\ low % (2 * (high - low)) = 0
        THEN low ELSE high

TypeName == {"NoneType", "bool", "float", "function", "int", "list", "str", "tuple"}

\* The alphabetical order of the type names (std::string::operator<).
Position(type) ==
  CASE type = "NoneType" -> 1 [] type = "bool" -> 2 [] type = "float" -> 3 [] type = "function" -> 4
    [] type = "int" -> 5 [] type = "list" -> 6 [] type = "str" -> 7 [] type = "tuple" -> 8

\* The objects that can be ordered: all but functions, of which no two compare.
Scalar ==
  {<<"NoneType", 0>>} \cup ({"bool", "float"} \X Double) \cup ({"int"} \X Whole) \cup ({"str"} \X Int)
Comparable == Scalar \cup ({"list", "tuple"} \X Seq(Scalar))

IsNumber(a)   == a[1] \in {"bool", "int", "float"}
IsSequence(a) == a[1] \in {"list", "tuple"}

Three(m, n) == IF m < n THEN "less" ELSE IF m > n THEN "greater" ELSE "equivalent"

\* A bool converts to 0 or 1.
AsDouble(a) == IF a[1] = "int" THEN ToDouble(a[2]) ELSE a[2]

SpaceshipNumber(a, b) ==
  IF ~IsNumber(b) THEN "unordered"
  ELSE IF "float" \in {a[1], b[1]} THEN Three(AsDouble(a), AsDouble(b))
  ELSE Three(a[2], b[2])
SpaceshipStr(a, b)    == IF b[1] = "str" THEN Three(a[2], b[2]) ELSE "unordered"
SpaceshipNone(a, b)   == IF b[1] = "NoneType" THEN "equivalent" ELSE "unordered"
SpaceshipFunction(a, b) == "unordered"

ScalarSpaceship(a, b) ==
  IF IsNumber(a) THEN SpaceshipNumber(a, b)
  ELSE IF a[1] = "str" THEN SpaceshipStr(a, b)
  ELSE IF a[1] = "NoneType" THEN SpaceshipNone(a, b)
  ELSE SpaceshipFunction(a, b)

\* Shorter sequences come first; different ones of one length are unordered.
SpaceshipSequence(a, b) ==
  IF b[1] # a[1] THEN "unordered"
  ELSE IF Len(a[2]) # Len(b[2]) THEN Three(Len(a[2]), Len(b[2]))
  ELSE IF \A i \in 1..Len(a[2]) : ScalarSpaceship(a[2][i], b[2][i]) = "equivalent" THEN "equivalent"
  ELSE "unordered"

Spaceship(a, b) == IF IsSequence(a) THEN SpaceshipSequence(a, b) ELSE ScalarSpaceship(a, b)

\* operator== of every type.
Equals(a, b) == Spaceship(a, b) = "equivalent"

\* Mutant: objects of different types are equivalent.
LessInType(a, b) == Spaceship(a, b) = "less"

\* PyObjPtrCompare: unordered objects are ordered by their type names.
Less(a, b) ==
  LET order == Spaceship(a, b)
  IN  IF order = "unordered" THEN Position(a[1]) < Position(b[1]) ELSE order = "less"

\* What std::map takes for one key.
SameKey(a, b) == ~Less(a, b) /\ ~Less(b, a)
===============================================================================
