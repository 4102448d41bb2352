----------------------------- MODULE Dicts_proofs -----------------------------
(* The order of the keys, and the dicts that are built on it.              *)
EXTENDS Dicts, WellFoundedInduction, SequenceTheorems, FiniteSetTheorems, TLAPS

-------------------------------------------------------------------------------
(* Induction over the natural numbers for sets, and recursive functions.   *)

\* A set of natural numbers has a least element.
LEMMA Least ==
  ASSUME NEW T \in SUBSET Nat, T # {}
  PROVE  \E x \in T : \A y \in T : x <= y
  <1> DEFINE R == OpToRel(<, Nat)
  <1>1. IsWellFoundedOn(R, Nat) BY NatLessThanWellFounded, Zenon
  <1>2. \A x, y \in Nat : <<x, y>> \in R <=> x < y BY DEF OpToRel
  <1> HIDE DEF R
  <1>3. \E x \in T : \A y \in T : ~ (<<y, x>> \in R) BY <1>1, WFMin
  <1>4. PICK x \in T : \A y \in T : ~ (<<y, x>> \in R) BY <1>3
  <1>5. ASSUME NEW y \in T PROVE x <= y
    <2>1. x \in Nat /\ y \in Nat OBVIOUS
    <2>2. ~ (y < x) BY <1>2, <1>4, <2>1
    <2> QED BY <2>1, <2>2
  <1> QED BY <1>5

\* One with an upper bound has a greatest.
LEMMA Greatest ==
  ASSUME NEW T \in SUBSET Nat, T # {}, NEW n \in Nat, \A t \in T : t <= n
  PROVE  \E x \in T : \A y \in T : y <= x
  <1> DEFINE U == {n - t : t \in T}
  <1>1. U \in SUBSET Nat /\ U # {}
    <2>1. \A t \in T : n - t \in Nat OBVIOUS
    <2> QED BY <2>1
  <1> HIDE DEF U
  <1>2. PICK u \in U : \A v \in U : u <= v BY <1>1, Least
  <1>3. PICK x \in T : u = n - x BY DEF U
  <1>4. ASSUME NEW y \in T PROVE y <= x
    <2>1. n - y \in U BY DEF U
    <2>2. u <= n - y BY <1>2, <2>1
    <2> QED BY <1>3, <2>2
  <1> QED BY <1>4

\* A set that has 0 and the successor of each of its numbers has them all.
LEMMA SetInduction ==
  ASSUME NEW S, 0 \in S, \A n \in Nat : n \in S => n + 1 \in S
  PROVE  Nat \subseteq S
  <1> DEFINE T == {n \in Nat : n \notin S}
  <1> SUFFICES ASSUME T # {} PROVE FALSE OBVIOUS
  <1>1. PICK x \in T : \A y \in T : x <= y BY Least
  <1>2. x # 0 /\ x \in Nat BY <1>1
  <1>3. x - 1 \in Nat /\ x - 1 \notin T BY <1>1, <1>2
  <1>4. x - 1 \in S BY <1>3
  <1>5. (x - 1) + 1 \in S BY <1>3, <1>4
  <1> QED BY <1>2, <1>5

\* So does a set of the numbers up to n.
LEMMA UpTo ==
  ASSUME NEW n \in Nat, NEW S, 0 \in S, \A i \in Nat : i < n /\ i \in S => i + 1 \in S
  PROVE  0..n \subseteq S
  <1> DEFINE T == {i \in Nat : i <= n => i \in S}
  <1>1. 0 \in T OBVIOUS
  <1>2. \A i \in Nat : i \in T => i + 1 \in T OBVIOUS
  <1> HIDE DEF T
  <1>3. Nat \subseteq T BY <1>1, <1>2, SetInduction
  <1> QED BY <1>3 DEF T

\* A function on 0..n is given by its value at 0 and a step.
Steps(n, V) == [1..n -> [V -> V]]
Follows(g, n, V, a, step) ==
  g \in [0..n -> V] /\ g[0] = a /\ \A i \in 1..n : g[i] = step[i][g[i - 1]]

LEMMA Recursion ==
  ASSUME NEW V, NEW n \in Nat, NEW a \in V, NEW step \in Steps(n, V)
  PROVE  \E g : Follows(g, n, V, a, step)
  <1> DEFINE P(m) == \E g \in [0..m -> V] : g[0] = a /\ \A i \in 1..m : g[i] = step[i][g[i - 1]]
             S == {m \in Nat : m <= n => P(m)}
  <1> USE DEF Steps
  <1>1. 0 \in S
    <2>1. [i \in 0..0 |-> a] \in [0..0 -> V] OBVIOUS
    <2>2. 0 \in 0..0 /\ 1..0 = {} OBVIOUS
    <2>3. [i \in 0..0 |-> a][0] = a BY <2>2
    <2>4. P(0) BY <2>1, <2>2, <2>3
    <2> QED BY <2>4
  <1>2. ASSUME NEW m \in Nat, m \in S PROVE m + 1 \in S
    <2> SUFFICES ASSUME m + 1 <= n PROVE P(m + 1) OBVIOUS
    <2>1. PICK g \in [0..m -> V] : g[0] = a /\ \A i \in 1..m : g[i] = step[i][g[i - 1]] BY <1>2
    <2> DEFINE h == [i \in 0..(m + 1) |-> IF i <= m THEN g[i] ELSE step[m + 1][g[m]]]
    <2>2. g[m] \in V /\ m + 1 \in 1..n OBVIOUS
    <2>3. step[m + 1][g[m]] \in V BY <2>2
    <2>4. h \in [0..(m + 1) -> V] BY <2>3
    <2>5. h[0] = a BY <2>1
    <2>6. ASSUME NEW i \in 1..(m + 1) PROVE h[i] = step[i][h[i - 1]]
      <3>1. CASE i <= m BY <3>1, <2>1
      <3>2. CASE i = m + 1 BY <3>2
      <3> QED BY <3>1, <3>2
    <2>7. \A i \in 1..(m + 1) : h[i] = step[i][h[i - 1]] BY <2>6
    <2> HIDE DEF h
    <2> QED BY <2>4, <2>5, <2>7
  <1> HIDE DEF S
  <1>3. Nat \subseteq S BY <1>1, <1>2, SetInduction
  <1>4. P(n) BY <1>3 DEF S
  <1> QED BY <1>4 DEF Follows

\* Whatever follows a step stays where the steps lead.
LEMMA Within ==
  ASSUME NEW V, NEW n \in Nat, NEW a \in V, NEW step \in Steps(n, V), NEW g,
         g[0] = a, \A i \in 1..n : g[i - 1] \in V => g[i] = step[i][g[i - 1]]
  PROVE  \A i \in 0..n : g[i] \in V
  <1> DEFINE S == {i \in Nat : g[i] \in V}
  <1>1. 0 \in S OBVIOUS
  <1>2. ASSUME NEW i \in Nat, i < n, i \in S PROVE i + 1 \in S
    <2>1. i + 1 \in 1..n /\ (i + 1) - 1 = i BY <1>2
    <2>2. g[i + 1] = step[i + 1][g[i]] BY <1>2, <2>1
    <2> QED BY <1>2, <2>1, <2>2 DEF Steps
  <1> HIDE DEF S
  <1>3. 0..n \subseteq S BY <1>1, <1>2, UpTo
  <1> QED BY <1>3 DEF S

-------------------------------------------------------------------------------
(* The conversion of integers to doubles.                                  *)

LEMMA DoubleType == Double \subseteq Int /\ Whole \subseteq Int
  <1>1. ASSUME NEW m \in -Significand..Significand, NEW e \in 0..Exponent PROVE m * 2^e \in Int
    <2>1. m \in Int /\ 2^e \in Int BY KeyOrderAssumption
    <2> QED BY <2>1
  <1> QED BY <1>1 DEF Double, Whole

\* An integer lies between two doubles next to each other, or is one.
LEMMA Between ==
  ASSUME NEW n \in Whole
  PROVE  /\ Below(n) \in Double /\ Below(n) <= n /\ \A e \in Double : e <= n => e <= Below(n)
         /\ Above(n) \in Double /\ n <= Above(n) /\ \A e \in Double : n <= e => Above(n) <= e
  <1> DEFINE top == Significand * 2^Exponent
  <1>1. n \in Int /\ Double \subseteq Int BY DoubleType
  <1>2. top \in Int /\ -top \in Double /\ top \in Double /\ -top <= n /\ n <= top
    <2>1. Exponent \in 0..Exponent /\ Significand \in -Significand..Significand /\ -Significand \in -Significand..Significand
      BY KeyOrderAssumption
    <2>2. top \in Double /\ (-Significand) * 2^Exponent \in Double BY <2>1 DEF Double
    <2>3. 2^Exponent \in Int /\ Significand \in Int BY KeyOrderAssumption
    <2>4. (-Significand) * 2^Exponent = -top BY <2>3
    <2>5. n \in -top..top BY DEF Whole
    <2> QED BY <1>1, <2>2, <2>3, <2>4, <2>5
  <1> HIDE DEF top
  <1>3. \E d \in Double : d <= n /\ \A e \in Double : e <= n => e <= d
    <2> DEFINE T == {n - d : d \in {e \in Double : e <= n}}
    <2>1. T \in SUBSET Nat /\ T # {} BY <1>1, <1>2
    <2>2. PICK t \in T : \A u \in T : t <= u
      <3> HIDE DEF T
      <3> QED BY <2>1, Least
    <2>3. PICK d \in Double : d <= n /\ t = n - d BY <2>2
    <2>4. ASSUME NEW e \in Double, e <= n PROVE e <= d
      <3>1. n - e \in T BY <2>4
      <3>2. n - d <= n - e BY <2>2, <2>3, <3>1
      <3> QED BY <1>1, <3>2
    <2> QED BY <2>3, <2>4
  <1>4. \E d \in Double : n <= d /\ \A e \in Double : n <= e => d <= e
    <2> DEFINE T == {d - n : d \in {e \in Double : n <= e}}
    <2>1. T \in SUBSET Nat /\ T # {} BY <1>1, <1>2
    <2>2. PICK t \in T : \A u \in T : t <= u
      <3> HIDE DEF T
      <3> QED BY <2>1, Least
    <2>3. PICK d \in Double : n <= d /\ t = d - n BY <2>2
    <2>4. ASSUME NEW e \in Double, n <= e PROVE d <= e
      <3>1. e - n \in T BY <2>4
      <3>2. d - n <= e - n BY <2>2, <2>3, <3>1
      <3> QED BY <1>1, <3>2
    <2> QED BY <2>3, <2>4
  <1>5. Below(n) \in Double /\ Below(n) <= n /\ \A e \in Double : e <= n => e <= Below(n)
    BY <1>3 DEF Below
  <1>6. Above(n) \in Double /\ n <= Above(n) /\ \A e \in Double : n <= e => Above(n) <= e
    BY <1>4 DEF Above
  <1> QED BY <1>5, <1>6

\* The conversion does not cross a double, and leaves doubles alone.
LEMMA ToDoubleStays ==
  ASSUME NEW n \in Whole
  PROVE  /\ ToDouble(n) \in Double
         /\ \A d \in Double : (n <= d => ToDouble(n) <= d) /\ (d <= n => d <= ToDouble(n))
  <1> DEFINE low  == Below(n)
             high == Above(n)
             r    == ToDouble(n)
  <1>1. r \in {low, high} BY DEF ToDouble
  <1>2. n \in Int /\ \A d \in Double : d \in Int BY DoubleType
  <1>3. /\ low \in Double /\ low <= n /\ high \in Double /\ n <= high
        /\ \A d \in Double : (d <= n => d <= low) /\ (n <= d => high <= d)
    BY Between
  <1> HIDE DEF low, high, r
  <1>4. low \in Int /\ high \in Int /\ r \in Double BY <1>1, <1>2, <1>3
  <1>5. ASSUME NEW d \in Double PROVE (n <= d => r <= d) /\ (d <= n => d <= r)
    <2>1. d \in Int /\ (d <= n => d <= low) /\ (n <= d => high <= d) BY <1>2, <1>3
    <2> QED BY <1>1, <1>2, <1>3, <1>4, <2>1
  <1> QED BY <1>4, <1>5 DEF r

LEMMA ToDoubleFixes ==
  ASSUME NEW n \in Whole, n \in Double
  PROVE  ToDouble(n) = n
  <1> DEFINE r == ToDouble(n)
  <1>1. r \in Double /\ (n <= n => r <= n) /\ (n <= n => n <= r) BY ToDoubleStays
  <1> HIDE DEF r
  <1>2. n \in Int /\ r \in Int BY <1>1, DoubleType
  <1>3. r = n BY <1>1, <1>2
  <1> QED BY <1>3 DEF r

\* It keeps the order, but not strictly.
LEMMA ToDoubleIsMonotone ==
  ASSUME NEW m \in Whole, NEW n \in Whole, m <= n
  PROVE  ToDouble(m) <= ToDouble(n)
  <1> DEFINE lowM  == Below(m)
             highM == Above(m)
             lowN  == Below(n)
             highN == Above(n)
  <1>1. m \in Int /\ n \in Int /\ lowM \in Int /\ highM \in Int /\ lowN \in Int /\ highN \in Int
    BY DoubleType, Between
  <1>2. /\ lowM <= m /\ m <= highM /\ lowN <= n /\ n <= highN
        /\ lowM \in Double /\ highM \in Double /\ lowN \in Double /\ highN \in Double
        /\ \A e \in Double : (e <= m => e <= lowM) /\ (m <= e => highM <= e)
                                /\ (e <= n => e <= lowN) /\ (n <= e => highN <= e)
    BY Between
  <1>3. ToDouble(m) \in {lowM, highM} /\ ToDouble(n) \in {lowN, highN} BY DEF ToDouble
  <1> HIDE DEF lowM, highM, lowN, highN
  <1>4. lowM <= lowN /\ highM <= highN BY <1>1, <1>2
  <1>5. CASE m = n BY <1>1, <1>3, <1>5 DEF lowM, highM, lowN, highN
  <1>6. CASE highM <= n
    <2>1. highM <= lowN BY <1>2, <1>6
    <2> QED BY <1>1, <1>2, <1>3, <1>4, <2>1
  <1>7. CASE m < n /\ n < highM
    <2>1. highN = highM BY <1>1, <1>2, <1>4, <1>7
    <2>2. lowN < highM BY <1>1, <1>2, <1>7
    <2>3. lowN <= m
      <3>1. ~ (m <= lowN) \/ highM <= lowN BY <1>2
      <3> QED BY <1>1, <2>2, <3>1
    <2>4. lowN = lowM BY <1>1, <1>2, <1>4, <2>3
    <2>5. ToDouble(m) = IF lowM = highM \/ 2 * m < lowM + highM
                           \/ (2 * m = lowM + highM /\ lowM % (2 * (highM - lowM)) = 0)
                          THEN lowM ELSE highM
      BY DEF ToDouble, lowM, highM
    <2>6. ToDouble(n) = IF lowN = highN \/ 2 * n < lowN + highN
                           \/ (2 * n = lowN + highN /\ lowN % (2 * (highN - lowN)) = 0)
                          THEN lowN ELSE highN
      BY DEF ToDouble, lowN, highN
    <2>7. CASE ToDouble(n) = highN BY <1>1, <1>2, <1>3, <1>4, <2>7
    <2>8. CASE ToDouble(n) # highN
      <3>1. 2 * n <= lowM + highM BY <1>1, <2>1, <2>4, <2>6, <2>8
      <3>2. 2 * m < lowM + highM BY <1>1, <1>7, <3>1
      <3>3. ToDouble(m) = lowM BY <2>5, <3>2
      <3> QED BY <1>1, <1>3, <2>1, <2>4, <2>8, <3>3
    <2> QED BY <2>7, <2>8
  <1> QED BY <1>1, <1>5, <1>6, <1>7

-------------------------------------------------------------------------------
(* PyObjPtrCompare orders every type but functions.                        *)

\* Sequences have a length, whatever their elements.
LEMMA LenType == ASSUME NEW a \in Comparable, IsSequence(a) PROVE Len(a[2]) \in Nat
  BY DEF Comparable, Scalar, IsSequence

LEMMA ScalarType ==
  ASSUME NEW a \in Comparable, ~IsSequence(a)
  PROVE  /\ a[1] \in {"bool", "int", "float", "str", "NoneType"} /\ a[2] \in Int
         /\ a[1] = "int" => a[2] \in Whole
         /\ a[1] \in {"bool", "float"} => a[2] \in Double
         /\ a[1] = "NoneType" => a[2] = 0
         /\ a = <<a[1], a[2]>>
  <1> USE DEF IsSequence
  <1>1. CASE a = <<"NoneType", 0>> BY <1>1
  <1>2. CASE a \in {"bool", "float"} \X Double
    <2>1. a[1] \in {"bool", "float"} /\ a[2] \in Double /\ a = <<a[1], a[2]>> BY <1>2
    <2>2. a[2] \in Int BY <2>1, DoubleType
    <2> QED BY <2>1, <2>2
  <1>3. CASE a \in {"int"} \X Whole
    <2>1. a[1] = "int" /\ a[2] \in Whole /\ a = <<a[1], a[2]>> BY <1>3
    <2>2. a[2] \in Int BY <2>1, DoubleType
    <2> QED BY <2>1, <2>2
  <1>4. CASE a \in {"str"} \X Int BY <1>4
  <1>5. a \notin {"list", "tuple"} \X Seq(Scalar) OBVIOUS
  <1> QED BY <1>1, <1>2, <1>3, <1>4, <1>5 DEF Comparable, Scalar

\* As doubles, numbers keep their order, but not strictly.
LEMMA AsDoubleIsMonotone ==
  ASSUME NEW a \in Comparable, NEW b \in Comparable, IsNumber(a), IsNumber(b)
  PROVE  /\ AsDouble(a) \in Int /\ AsDouble(b) \in Int /\ a[2] \in Int /\ b[2] \in Int
         /\ a[2] <= b[2] => AsDouble(a) <= AsDouble(b)
  <1>1. ~IsSequence(a) /\ ~IsSequence(b) BY DEF IsNumber, IsSequence
  <1>2. /\ a[2] \in Int
        /\ a[1] = "int" => a[2] \in Whole
        /\ a[1] # "int" => a[2] \in Double /\ AsDouble(a) = a[2]
    BY <1>1, ScalarType DEF IsNumber, AsDouble
  <1>3. /\ b[2] \in Int
        /\ b[1] = "int" => b[2] \in Whole
        /\ b[1] # "int" => b[2] \in Double /\ AsDouble(b) = b[2]
    BY <1>1, ScalarType DEF IsNumber, AsDouble
  <1>4. \A n \in Whole : ToDouble(n) \in Int
    <2>1. \A n \in Whole : ToDouble(n) \in Double BY ToDoubleStays
    <2> QED BY <2>1, DoubleType
  <1>5. a[1] = "int" => AsDouble(a) = ToDouble(a[2]) /\ AsDouble(a) \in Int BY <1>4, <1>2 DEF AsDouble
  <1>6. b[1] = "int" => AsDouble(b) = ToDouble(b[2]) /\ AsDouble(b) \in Int BY <1>4, <1>3 DEF AsDouble
  <1>7. AsDouble(a) \in Int /\ AsDouble(b) \in Int BY <1>2, <1>3, <1>5, <1>6
  <1>8. CASE a[1] = "int" /\ b[1] = "int"
    <2>1. a[2] \in Whole /\ b[2] \in Whole BY <1>2, <1>3, <1>8
    <2>2. a[2] <= b[2] => ToDouble(a[2]) <= ToDouble(b[2]) BY <2>1, ToDoubleIsMonotone
    <2> QED BY <1>2, <1>3, <1>5, <1>6, <1>8, <1>7, <2>2
  <1>9. CASE a[1] = "int" /\ b[1] # "int"
    <2>1. a[2] \in Whole /\ b[2] \in Double BY <1>2, <1>3, <1>9
    <2>2. a[2] <= b[2] => ToDouble(a[2]) <= b[2] BY <2>1, ToDoubleStays
    <2> QED BY <1>2, <1>3, <1>5, <1>9, <1>7, <2>2
  <1>10. CASE a[1] # "int" /\ b[1] = "int"
    <2>1. b[2] \in Whole /\ a[2] \in Double BY <1>2, <1>3, <1>10
    <2>2. a[2] <= b[2] => a[2] <= ToDouble(b[2]) BY <2>1, ToDoubleStays
    <2> QED BY <1>2, <1>3, <1>6, <1>10, <1>7, <2>2
  <1>11. CASE a[1] # "int" /\ b[1] # "int" BY <1>2, <1>3, <1>11, <1>7
  <1> QED BY <1>8, <1>9, <1>10, <1>11

\* The number an object is compared by within its group, and the group.
Group(a)  == IF IsNumber(a) THEN 2 ELSE Position(a[1])
Weight(a) == IF IsSequence(a) THEN Len(a[2]) ELSE a[2]
Rounded(a, b) == IsNumber(a) /\ "float" \in {a[1], b[1]}
Lighter(a, b) == IF Rounded(a, b) THEN AsDouble(a) < AsDouble(b) ELSE Weight(a) < Weight(b)

LEMMA GroupType ==
  ASSUME NEW a \in Comparable
  PROVE  /\ Group(a) \in Int /\ Weight(a) \in Int
         /\ a[1] \in {"bool", "int", "float", "str", "NoneType", "list", "tuple"}
         /\ IsNumber(a) => AsDouble(a) \in Int /\ Weight(a) = a[2]
         /\ IsNumber(a) <=> Group(a) = 2
<1>1. CASE IsSequence(a)
  BY <1>1, LenType DEF Comparable, Scalar, IsSequence, IsNumber, Group, Weight, Position
<1>2. CASE ~IsSequence(a)
  <2>1. IsNumber(a) => AsDouble(a) \in Int BY AsDoubleIsMonotone
  <2> QED BY <1>2, <2>1, ScalarType DEF IsSequence, IsNumber, Group, Weight, Position
<1> QED BY <1>1, <1>2

\* Less compares groups of types and, within a group, weights, rounded if one is a
\* float's.
LEMMA LessIsLexicographic ==
  ASSUME NEW a \in Comparable, NEW b \in Comparable
  PROVE  Less(a, b) <=> Group(a) < Group(b) \/ (Group(a) = Group(b) /\ Lighter(a, b))
<1> USE GroupType
<1>1. CASE IsSequence(a)
  <2>1. Len(a[2]) \in Int BY <1>1, LenType
  <2>2. CASE IsSequence(b)
    <3>1. Len(b[2]) \in Int BY <2>2, LenType
    <3> QED BY <1>1, <2>1, <2>2, <3>1
            DEF Less, Spaceship, SpaceshipSequence, IsSequence, IsNumber, Three, Group, Weight, Position, Lighter, Rounded
  <2>3. CASE ~IsSequence(b)
    BY <1>1, <2>3, ScalarType
       DEF Less, Spaceship, SpaceshipSequence, IsSequence, IsNumber, Three, Group, Weight, Position, Lighter, Rounded
  <2> QED BY <2>2, <2>3
<1>2. CASE ~IsSequence(a)
  <2>1. CASE IsSequence(b)
    BY <1>2, <2>1, ScalarType
       DEF Less, Spaceship, ScalarSpaceship, SpaceshipNumber, SpaceshipStr, SpaceshipNone,
           IsSequence, IsNumber, Three, Group, Weight, Position, Lighter, Rounded
  <2>2. CASE ~IsSequence(b) /\ IsNumber(a) /\ IsNumber(b)
    <3>1. Spaceship(a, b) = SpaceshipNumber(a, b) BY <1>2, <2>2 DEF Spaceship, ScalarSpaceship
    <3>2. Spaceship(a, b) = IF Rounded(a, b) THEN Three(AsDouble(a), AsDouble(b)) ELSE Three(Weight(a), Weight(b))
      BY <2>2, <3>1 DEF SpaceshipNumber, Rounded
    <3>3. Spaceship(a, b) # "unordered" /\ (Spaceship(a, b) = "less" <=> Lighter(a, b))
      BY <2>2, <3>2 DEF Three, Lighter
    <3>4. Less(a, b) <=> Lighter(a, b) BY <3>3 DEF Less
    <3> QED BY <2>2, <3>4
  <2>3. CASE ~IsSequence(b) /\ ~ (IsNumber(a) /\ IsNumber(b))
    BY <1>2, <2>3, ScalarType
       DEF Less, Spaceship, ScalarSpaceship, SpaceshipNumber, SpaceshipStr, SpaceshipNone,
           IsSequence, IsNumber, Three, Group, Weight, Position, Lighter, Rounded
  <2> QED BY <2>1, <2>2, <2>3
<1> QED BY <1>1, <1>2

\* Whatever is lighter rounded is lighter.
LEMMA LighterWeighsLess ==
  ASSUME NEW a \in Comparable, NEW b \in Comparable, Group(a) = Group(b), Lighter(a, b)
  PROVE  Weight(a) < Weight(b)
  <1>1. CASE Rounded(a, b)
    <2>1. IsNumber(a) /\ IsNumber(b) BY <1>1, GroupType DEF Rounded
    <2>2. /\ AsDouble(a) \in Int /\ AsDouble(b) \in Int /\ a[2] \in Int /\ b[2] \in Int
          /\ b[2] <= a[2] => AsDouble(b) <= AsDouble(a)
      BY <2>1, AsDoubleIsMonotone
    <2>3. Weight(a) = a[2] /\ Weight(b) = b[2] BY <2>1, GroupType
    <2> QED BY <1>1, <2>2, <2>3 DEF Lighter
  <1>2. CASE ~Rounded(a, b) BY <1>2 DEF Lighter
  <1> QED BY <1>1, <1>2

LEMMA LighterIsTransitive ==
  ASSUME NEW a \in Comparable, NEW b \in Comparable, NEW c \in Comparable,
         Group(a) = Group(b), Group(b) = Group(c), Lighter(a, b), Lighter(b, c)
  PROVE  Lighter(a, c)
  <1>1. Weight(a) < Weight(b) /\ Weight(b) < Weight(c) BY LighterWeighsLess
  <1>2. CASE Rounded(a, c)
    <2>1. IsNumber(a) /\ IsNumber(b) /\ IsNumber(c) BY <1>2, GroupType DEF Rounded
    <2>2. Weight(a) = a[2] /\ Weight(b) = b[2] /\ Weight(c) = c[2] BY <2>1, GroupType
    <2>3. AsDouble(a) \in Int /\ AsDouble(b) \in Int /\ AsDouble(c) \in Int BY <2>1, GroupType
    <2>4. Weight(a) \in Int /\ Weight(b) \in Int /\ Weight(c) \in Int BY GroupType
    <2>5. AsDouble(a) <= AsDouble(b) /\ AsDouble(b) <= AsDouble(c)
      BY <1>1, <2>1, <2>2, <2>4, AsDoubleIsMonotone
    <2>6. CASE a[1] = "float"
      <3>1. AsDouble(a) < AsDouble(b) BY <2>1, <2>6 DEF Lighter, Rounded
      <3>2. AsDouble(a) < AsDouble(c) BY <2>3, <2>5, <3>1
      <3> QED BY <1>2, <3>2 DEF Lighter
    <2>7. CASE c[1] = "float"
      <3>1. AsDouble(b) < AsDouble(c) BY <2>1, <2>7 DEF Lighter, Rounded
      <3>2. AsDouble(a) < AsDouble(c) BY <2>3, <2>5, <3>1
      <3> QED BY <1>2, <3>2 DEF Lighter
    <2> QED BY <1>2, <2>6, <2>7 DEF Rounded
  <1>3. CASE ~Rounded(a, c)
    <2>1. Weight(a) < Weight(c) BY <1>1, GroupType
    <2> QED BY <1>3, <2>1 DEF Lighter
  <1> QED BY <1>2, <1>3

\* PyObjPtrCompare is a strict partial order on bool, int and float other than NaN,
\* str, None, tuples and lists, although an int is rounded to a double where it is
\* compared with a float (py_int.cpp:26): it is irreflexive and transitive.
\* Functions are left out: with f a function, 2.5 comes before f and f before 1,
\* but not 2.5 before 1.
THEOREM StrictPartialOrder ==
  ASSUME NEW a \in Comparable, NEW b \in Comparable, NEW c \in Comparable
  PROVE  /\ ~Less(a, a)
         /\ Less(a, b) /\ Less(b, c) => Less(a, c)
  <1>1. ~Less(a, a)
    <2>1. ~Lighter(a, a) BY GroupType DEF Lighter, Rounded
    <2> QED BY <2>1, GroupType, LessIsLexicographic
  <1>2. ASSUME Less(a, b), Less(b, c) PROVE Less(a, c)
    <2>1. Group(a) <= Group(b) /\ Group(b) <= Group(c) BY <1>2, GroupType, LessIsLexicographic
    <2>2. CASE Group(a) < Group(c) BY <2>2, LessIsLexicographic
    <2>3. CASE Group(a) = Group(c)
      <3>1. Group(a) = Group(b) /\ Group(b) = Group(c) BY <2>1, <2>3, GroupType
      <3>2. Lighter(a, b) /\ Lighter(b, c) BY <1>2, <3>1, GroupType, LessIsLexicographic
      <3>3. Lighter(a, c) BY <3>1, <3>2, LighterIsTransitive
      <3> QED BY <2>3, <3>3, LessIsLexicographic
    <2> QED BY <2>1, <2>2, <2>3, GroupType
  <1> QED BY <1>1, <1>2

\* An int that is a double loses nothing: those up to 2^53 are.
Exact(a) == a[1] = "int" => a[2] \in Double

LEMMA ExactIsNotRounded ==
  ASSUME NEW a \in Comparable, NEW b \in Comparable, Exact(a), Exact(b), Group(a) = Group(b)
  PROVE  Lighter(a, b) <=> Weight(a) < Weight(b)
  <1>1. CASE Rounded(a, b)
    <2>1. IsNumber(a) /\ IsNumber(b) BY <1>1, GroupType DEF Rounded
    <2>2. ~IsSequence(a) /\ ~IsSequence(b) BY <2>1 DEF IsNumber, IsSequence
    <2>3. AsDouble(a) = a[2] BY <2>2, ScalarType, ToDoubleFixes DEF AsDouble, Exact
    <2>4. AsDouble(b) = b[2] BY <2>2, ScalarType, ToDoubleFixes DEF AsDouble, Exact
    <2>5. Weight(a) = a[2] /\ Weight(b) = b[2] BY <2>1, GroupType
    <2> QED BY <1>1, <2>3, <2>4, <2>5 DEF Lighter
  <1>2. CASE ~Rounded(a, b) BY <1>2 DEF Lighter
  <1> QED BY <1>1, <1>2

\* Between values whose ints are doubles, as all up to 2^53 are, PyObjPtrCompare is a
\* strict weak order, as std::map requires of it: being one key is transitive too.
\* Beyond, it is not: 2^53 and 2.0^53 are one key, and so are 2.0^53 and 2^53 + 1,
\* but 2^53 and 2^53 + 1 are not.
THEOREM StrictWeakOrder ==
  ASSUME NEW a \in Comparable, NEW b \in Comparable, NEW c \in Comparable, Exact(a), Exact(b), Exact(c)
  PROVE  /\ ~Less(a, a)
         /\ Less(a, b) /\ Less(b, c) => Less(a, c)
         /\ SameKey(a, b) /\ SameKey(b, c) => SameKey(a, c)
  <1>1. ASSUME NEW x \in Comparable, NEW y \in Comparable, Exact(x), Exact(y)
        PROVE  SameKey(x, y) <=> Group(x) = Group(y) /\ Weight(x) = Weight(y)
    <2>1. CASE Group(x) # Group(y) BY <2>1, GroupType, LessIsLexicographic DEF SameKey
    <2>2. CASE Group(x) = Group(y)
      <3>1. (Less(x, y) <=> Weight(x) < Weight(y)) /\ (Less(y, x) <=> Weight(y) < Weight(x))
        BY <1>1, <2>2, GroupType, LessIsLexicographic, ExactIsNotRounded
      <3> QED BY <2>2, <3>1, GroupType DEF SameKey
    <2> QED BY <2>1, <2>2
  <1>2. SameKey(a, b) /\ SameKey(b, c) => SameKey(a, c) BY <1>1
  <1> QED BY <1>2, StrictPartialOrder

\* Objects that are equal are one key, so that the entry setIdx finds with == is
\* one that raw[...] may find with the order; numbers, strings and None that are one
\* key are equal.  (Two tuples of one length are one key, equal or not.)
THEOREM EqualIsSameKey ==
  ASSUME NEW a \in Comparable, NEW b \in Comparable
  PROVE  /\ Equals(a, b) => SameKey(a, b)
         /\ ~IsSequence(a) /\ SameKey(a, b) => Equals(a, b)
<1> USE GroupType
<1>1. CASE IsSequence(a)
  <2>1. Len(a[2]) \in Int BY <1>1, LenType
  <2> SUFFICES ASSUME Equals(a, b) PROVE SameKey(a, b)
    BY <1>1
  <2>2. IsSequence(b) /\ a[1] = b[1]
    BY <1>1 DEF Equals, Spaceship, SpaceshipSequence, IsSequence
  <2>3. Len(b[2]) \in Int BY <2>2, LenType
  <2>4. Len(a[2]) = Len(b[2])
    BY <1>1, <2>1, <2>2, <2>3 DEF Equals, Spaceship, SpaceshipSequence, Three
  <2>5. Group(a) = Group(b) /\ Weight(a) = Weight(b) /\ ~Rounded(a, b) /\ ~Rounded(b, a)
    BY <1>1, <2>2, <2>4 DEF Group, Weight, IsSequence, IsNumber, Rounded
  <2> QED BY <2>5, LessIsLexicographic DEF SameKey, Lighter
<1>2. CASE ~IsSequence(a)
  <2>1. CASE Group(a) # Group(b)
    <3>1. ~Equals(a, b)
      BY <1>2, <2>1, ScalarType DEF Equals, Spaceship, ScalarSpaceship, SpaceshipNumber, SpaceshipStr,
        SpaceshipNone, IsSequence, IsNumber, Group, Position
    <3> QED BY <2>1, <3>1, LessIsLexicographic DEF SameKey
  <2>2. CASE Group(a) = Group(b) /\ IsNumber(a)
    <3>1. IsNumber(b) /\ (Rounded(b, a) <=> Rounded(a, b)) BY <2>2 DEF Rounded
    <3>2. Spaceship(a, b) = IF Rounded(a, b) THEN Three(AsDouble(a), AsDouble(b)) ELSE Three(Weight(a), Weight(b))
      BY <1>2, <2>2, <3>1 DEF SpaceshipNumber, Rounded, Spaceship, ScalarSpaceship
    <3>3. Equals(a, b) <=> ~Lighter(a, b) /\ ~Lighter(b, a)
      BY <2>2, <3>1, <3>2 DEF Three, Lighter, Equals
    <3> QED BY <2>2, <3>3, LessIsLexicographic DEF SameKey
  <2>3. CASE Group(a) = Group(b) /\ ~IsNumber(a)
    <3>1. a[1] = b[1] /\ a[1] \in {"str", "NoneType"}
      BY <1>2, <2>3, ScalarType DEF Group, Position, IsSequence, IsNumber
    <3>2. ~IsSequence(b) /\ ~IsNumber(b) BY <3>1 DEF IsSequence, IsNumber
    <3>3. Equals(a, b) <=> Weight(a) = Weight(b)
      BY <1>2, <3>1, <3>2, ScalarType DEF Equals, Spaceship, ScalarSpaceship, SpaceshipStr,
        SpaceshipNone, IsSequence, IsNumber, Three, Weight
    <3>4. ~Rounded(a, b) /\ ~Rounded(b, a) BY <2>3, <3>2 DEF Rounded
    <3> QED BY <2>3, <3>3, <3>4, LessIsLexicographic DEF SameKey, Lighter
  <2> QED BY <2>1, <2>2, <2>3
<1> QED BY <1>1, <1>2

-------------------------------------------------------------------------------
(* Entries, and the place of a new one.                                    *)

LEMMA EntryAt ==
  ASSUME NEW m \in Seq(Entry), NEW i \in DOMAIN m
  PROVE  m[i] \in Entry /\ m[i].key \in Key /\ m[i].val \in Val /\ i \in 1..Len(m) /\ Len(m) \in Nat
  <1>1. i \in 1..Len(m) /\ Len(m) \in Nat OBVIOUS
  <1>2. m[i] \in Entry BY <1>1, ElementOfSeq
  <1> QED BY <1>1, <1>2 DEF Entry

\* The keys are ordered.
LEMMA KeysAreOrdered ==
  /\ \A k \in Key : ~Before(k, k)
  /\ \A j, k, l \in Key : Before(j, k) /\ Before(k, l) => Before(j, l)
  <1>1. \A k \in Key : ValueOf[k] \in Comparable BY DictsAssumption
  <1> QED BY <1>1, StrictPartialOrder DEF Before

Sorted(m) == \A i, j \in DOMAIN m : i < j => Before(m[i].key, m[j].key)
Maps      == {m \in Seq(Entry) : Sorted(m)}

\* m with e after its first c elements.
Spread(m, c, e) ==
  [i \in 1..(Len(m) + 1) |-> IF i <= c THEN m[i] ELSE IF i = c + 1 THEN e ELSE m[i - 1]]

LEMMA SpreadType ==
  ASSUME NEW S, NEW m \in Seq(S), NEW c \in 0..Len(m), NEW e \in S
  PROVE  Spread(m, c, e) \in Seq(S) /\ Len(Spread(m, c, e)) = Len(m) + 1
         /\ DOMAIN Spread(m, c, e) = 1..(Len(m) + 1)
  <1>1. \A i \in 1..Len(m) : m[i] \in S BY ElementOfSeq
  <1>2. Len(m) \in Nat OBVIOUS
  <1>3. ASSUME NEW i \in 1..(Len(m) + 1) PROVE Spread(m, c, e)[i] \in S
    <2>1. CASE i <= c BY <1>1, <1>2, <2>1 DEF Spread
    <2>2. CASE i = c + 1 BY <1>2, <2>2 DEF Spread
    <2>3. CASE i > c + 1
      <3>1. i - 1 \in 1..Len(m) BY <1>2, <2>3
      <3> QED BY <1>1, <2>3, <3>1 DEF Spread
    <2> QED BY <2>1, <2>2, <2>3
  <1>4. Spread(m, c, e) \in [1..(Len(m) + 1) -> S] BY <1>3 DEF Spread
  <1>5. Len(m) + 1 \in Nat BY <1>2
  <1> HIDE DEF Spread
  <1> QED BY <1>4, <1>5

\* The library's insertion is that.
LEMMA InsertAtSpreads ==
  ASSUME NEW S, NEW m \in Seq(S), NEW c \in 0..Len(m), NEW e \in S
  PROVE  InsertAt(m, c + 1, e) = Spread(m, c, e)
  <1> DEFINE a == SubSeq(m, 1, c)
             b == SubSeq(m, c + 1, Len(m))
             q == a \o <<e>>
             t == q \o b
  <1>1. Len(m) \in Nat /\ c \in Nat /\ c <= Len(m) /\ (c + 1) - 1 = c OBVIOUS
  <1>2. a \in Seq(S) /\ Len(a) = c /\ \A i \in 1..c : a[i] = m[i] BY <1>1
  <1>3. b \in Seq(S) /\ Len(b) = Len(m) - c /\ \A i \in 1..(Len(m) - c) : b[i] = m[c + i] BY <1>1
  <1>4. InsertAt(m, c + 1, e) = t BY <1>1 DEF InsertAt
  <1> HIDE DEF a, b
  <1>5. /\ q \in Seq(S) /\ Len(q) = c + 1 /\ q[c + 1] = e /\ \A i \in 1..c : q[i] = m[i]
    BY <1>1, <1>2
  <1> HIDE DEF q
  <1>6. t \in Seq(S) /\ Len(t) = Len(m) + 1
    <2>0. q \in Seq(S) /\ b \in Seq(S) BY <1>3, <1>5
    <2>1. t \in Seq(S) /\ Len(t) = Len(q) + Len(b) BY <2>0
    <2>2. Len(q) + Len(b) = Len(m) + 1
      <3> DEFINE n == Len(m)
                 x == Len(q)
                 y == Len(b)
      <3>1. n \in Nat /\ x = c + 1 /\ y = n - c BY <1>1, <1>3, <1>5
      <3> HIDE DEF n, x, y
      <3>2. x + y = n + 1 BY <1>1, <3>1
      <3> QED BY <3>2 DEF n, x, y
    <2> QED BY <2>1, <2>2
  <1>7. ASSUME NEW i \in 1..(Len(m) + 1) PROVE t[i] = Spread(m, c, e)[i]
    <2>1. CASE i <= c BY <1>1, <1>3, <1>5, <2>1 DEF Spread
    <2>2. CASE i = c + 1 BY <1>1, <1>3, <1>5, <2>2 DEF Spread
    <2>3. CASE i > c + 1
      <3>1. i - (c + 1) \in 1..(Len(m) - c) /\ c + (i - (c + 1)) = i - 1 BY <1>1, <2>3
      <3>2. t[i] = b[i - (c + 1)] BY <1>1, <1>3, <1>5, <2>3
      <3>3. b[i - (c + 1)] = m[c + (i - (c + 1))] BY <1>3, <3>1
      <3>4. Spread(m, c, e)[i] = m[i - 1] BY <1>1, <2>3 DEF Spread
      <3> QED BY <3>1, <3>2, <3>3, <3>4
    <2>4. i <= c \/ i = c + 1 \/ i > c + 1 BY <1>1
    <2> HIDE DEF t
    <2> QED BY <2>1, <2>2, <2>3, <2>4
  <1> HIDE DEF t
  <1>8. DOMAIN t = 1..(Len(m) + 1) /\ t = [i \in 1..(Len(m) + 1) |-> t[i]] BY <1>6
  <1>9. Spread(m, c, e) = [i \in 1..(Len(m) + 1) |-> Spread(m, c, e)[i]] BY DEF Spread
  <1> QED BY <1>4, <1>7, <1>8, <1>9

\* A new key comes after the keys before it and before all others.
LEMMA InsertMissing ==
  ASSUME NEW m \in Maps, NEW k \in Key, NEW v \in Val, Find(m, k) = {}
  PROVE  \E c \in 0..Len(m) :
           /\ Insert(m, k, v) = Spread(m, c, [key |-> k, val |-> v])
           /\ \A i \in 1..c : Before(m[i].key, k)
           /\ \A i \in (c + 1)..Len(m) : Before(k, m[i].key)
  <1> DEFINE P == {i \in DOMAIN m : Before(m[i].key, k)}
             e == [key |-> k, val |-> v]
  <1>1. m \in Seq(Entry) /\ Len(m) \in Nat /\ DOMAIN m = 1..Len(m) /\ Sorted(m) BY DEF Maps
  <1>2. ASSUME NEW i \in P, NEW j \in 1..Len(m), j < i PROVE j \in P
    <2>1. Before(m[j].key, m[i].key) /\ Before(m[i].key, k) BY <1>1, <1>2 DEF Sorted
    <2>2. m[j].key \in Key /\ m[i].key \in Key BY <1>1, EntryAt
    <2> QED BY <1>1, <2>1, <2>2, KeysAreOrdered
  <1>3. \E c \in 0..Len(m) : P = 1..c
    <2>1. CASE P = {}
      <3>1. P = 1..0 BY <2>1
      <3> QED BY <1>1, <3>1
    <2>2. CASE P # {}
      <3>1. P \in SUBSET Nat /\ \A i \in P : i <= Len(m) BY <1>1
      <3>2. PICK c \in P : \A i \in P : i <= c
        <4> HIDE DEF P
        <4> QED BY <1>1, <2>2, <3>1, Greatest
      <3>3. c \in 1..Len(m) BY <1>1
      <3>4. ASSUME NEW i PROVE i \in P <=> i \in 1..c
        <4>1. i \in P => i \in 1..c BY <1>1, <3>2
        <4>2. i \in 1..c => i = c \/ (i \in 1..Len(m) /\ i < c) BY <1>1, <3>3
        <4> QED BY <1>2, <3>2, <4>1, <4>2
      <3>5. P = 1..c
        <4> HIDE DEF P
        <4> QED BY <3>4
      <3> QED BY <1>1, <3>3, <3>5
    <2> QED BY <2>1, <2>2
  <1>4. PICK c \in 0..Len(m) : P = 1..c BY <1>3
  <1>5. Cardinality(P) = c
    <2>1. Cardinality(1..c) = IF 1 > c THEN 0 ELSE c - 1 + 1 BY FS_Interval
    <2>2. c \in Nat BY <1>1
    <2> HIDE DEF P
    <2>3. Cardinality(P) = IF 1 > c THEN 0 ELSE c - 1 + 1 BY <1>4, <2>1
    <2> QED BY <2>2, <2>3
  <1>6. e \in Entry BY DEF Entry
  <1>7. Insert(m, k, v) = InsertAt(m, c + 1, e) BY <1>5 DEF Insert
  <1>8. Insert(m, k, v) = Spread(m, c, e)
    <2> HIDE DEF e
    <2> QED BY <1>1, <1>6, <1>7, InsertAtSpreads
  <1>9. \A i \in 1..c : Before(m[i].key, k) BY <1>4
  <1>10. ASSUME NEW i \in (c + 1)..Len(m) PROVE Before(k, m[i].key)
    <2>1. i \in DOMAIN m /\ i \notin P BY <1>1, <1>4
    <2>2. i \notin Find(m, k) OBVIOUS
    <2> QED BY <2>1, <2>2 DEF Find
  <1> QED BY <1>8, <1>9, <1>10

\* So that an insertion keeps the order.
LEMMA InsertSorts ==
  ASSUME NEW m \in Maps, NEW k \in Key, NEW v \in Val
  PROVE  Insert(m, k, v) \in Maps
  <1>1. CASE Find(m, k) # {} BY <1>1 DEF Insert
  <1>2. CASE Find(m, k) = {}
    <2> DEFINE e == [key |-> k, val |-> v]
    <2>1. PICK c \in 0..Len(m) : /\ Insert(m, k, v) = Spread(m, c, e)
                                 /\ \A i \in 1..c : Before(m[i].key, k)
                                 /\ \A i \in (c + 1)..Len(m) : Before(k, m[i].key)
      BY <1>2, InsertMissing
    <2>2. m \in Seq(Entry) /\ Len(m) \in Nat /\ DOMAIN m = 1..Len(m) /\ Sorted(m) BY DEF Maps
    <2>3. e \in Entry /\ e.key = k BY DEF Entry
    <2> HIDE DEF e
    <2> DEFINE t == Spread(m, c, e)
    <2>4. t \in Seq(Entry) /\ DOMAIN t = 1..(Len(m) + 1) BY <2>2, <2>3, SpreadType
    <2>5. ASSUME NEW i \in DOMAIN t, NEW j \in DOMAIN t, i < j PROVE Before(t[i].key, t[j].key)
      <3>0. i \in 1..(Len(m) + 1) /\ j \in 1..(Len(m) + 1) BY <2>4
      <3>1. CASE j <= c
        <4>1. t[i] = m[i] /\ t[j] = m[j] /\ i \in DOMAIN m /\ j \in DOMAIN m
          BY <2>2, <2>5, <3>0, <3>1 DEF Spread
        <4> QED BY <2>2, <2>5, <4>1 DEF Sorted
      <3>2. CASE j = c + 1
        <4>1. t[i] = m[i] /\ t[j] = e /\ i \in 1..c BY <2>2, <2>5, <3>0, <3>2 DEF Spread
        <4> QED BY <2>1, <2>3, <4>1
      <3>3. CASE j > c + 1 /\ i <= c
        <4>1. t[i] = m[i] /\ t[j] = m[j - 1] /\ i \in DOMAIN m /\ j - 1 \in DOMAIN m /\ i < j - 1
          BY <2>2, <2>5, <3>0, <3>3 DEF Spread
        <4> QED BY <2>2, <4>1 DEF Sorted
      <3>4. CASE j > c + 1 /\ i = c + 1
        <4>1. t[i] = e /\ t[j] = m[j - 1] /\ j - 1 \in (c + 1)..Len(m)
          BY <2>2, <2>5, <3>0, <3>4 DEF Spread
        <4> QED BY <2>1, <2>3, <4>1
      <3>5. CASE j > c + 1 /\ i > c + 1
        <4>1. t[i] = m[i - 1] /\ t[j] = m[j - 1] /\ i - 1 \in DOMAIN m /\ j - 1 \in DOMAIN m /\ i - 1 < j - 1
          BY <2>2, <2>5, <3>0, <3>5 DEF Spread
        <4> QED BY <2>2, <4>1 DEF Sorted
      <3> QED BY <2>2, <3>0, <3>1, <3>2, <3>3, <3>4, <3>5
    <2> QED BY <2>1, <2>4, <2>5 DEF Maps, Sorted
  <1> QED BY <1>1, <1>2

-------------------------------------------------------------------------------
(* Insertion of several entries.                                           *)

\* r holds the map after each of them.
Steady(r, m, s) ==
  /\ r \in [0..Len(s) -> Maps] /\ r[0] = m /\ r[Len(s)] = Update(m, s)
  /\ \A i \in 1..Len(s) : r[i] = Insert(r[i - 1], s[i].key, s[i].val)

LEMMA UpdateSteps ==
  ASSUME NEW m \in Maps, NEW s \in Seq(Entry)
  PROVE  \E r : Steady(r, m, s)
  <1> DEFINE n == Len(s)
             F(f) == [i \in 0..n |-> IF i = 0 THEN m ELSE Insert(f[i - 1], s[i].key, s[i].val)]
             G == CHOOSE f : f = F(f)
             step == [i \in 1..n |-> [x \in Maps |-> Insert(x, s[i].key, s[i].val)]]
  <1>1. n \in Nat OBVIOUS
  <1>2. Update(m, s) = G[n] BY DEF Update
  <1>3. ASSUME NEW i \in 1..n, NEW x \in Maps PROVE Insert(x, s[i].key, s[i].val) \in Maps
    <2>1. s[i].key \in Key /\ s[i].val \in Val BY EntryAt
    <2> QED BY <2>1, InsertSorts
  <1> HIDE DEF n
  <1>4. step \in Steps(n, Maps) BY <1>3 DEF Steps
  <1>5. \A i \in 1..n, x \in Maps : step[i][x] = Insert(x, s[i].key, s[i].val) OBVIOUS
  <1> HIDE DEF step
  <1>6. PICK g : Follows(g, n, Maps, m, step) BY <1>1, <1>4, Recursion
  <1>7. g = F(g)
    <2>1. g \in [0..n -> Maps] /\ g[0] = m BY <1>6 DEF Follows
    <2>2. ASSUME NEW i \in 0..n PROVE g[i] = F(g)[i]
      <3>1. CASE i = 0 BY <2>1, <3>1
      <3>2. CASE i # 0
        <4>1. i \in 1..n /\ i - 1 \in 0..n BY <1>1, <3>2
        <4>2. g[i] = step[i][g[i - 1]] BY <1>6, <4>1 DEF Follows
        <4>3. g[i - 1] \in Maps BY <2>1, <4>1
        <4>4. step[i][g[i - 1]] = Insert(g[i - 1], s[i].key, s[i].val) BY <1>5, <4>1, <4>3
        <4> QED BY <3>2, <4>2, <4>4
      <3> QED BY <3>1, <3>2
    <2>3. g = [i \in 0..n |-> g[i]] BY <2>1
    <2>4. F(g) = [i \in 0..n |-> F(g)[i]] OBVIOUS
    <2> HIDE DEF F
    <2> QED BY <2>2, <2>3, <2>4
  <1>8. G = F(G)
    <2> HIDE DEF F
    <2> QED BY <1>7
  <1> HIDE DEF G
  <1>9. DOMAIN G = 0..n /\ G[0] = m /\ \A i \in 1..n : G[i] = Insert(G[i - 1], s[i].key, s[i].val)
    BY <1>1, <1>8
  <1>10. \A i \in 1..n : G[i - 1] \in Maps => G[i] = step[i][G[i - 1]] BY <1>5, <1>9
  <1> HIDE DEF F
  <1>11. \A i \in 0..n : G[i] \in Maps BY <1>1, <1>4, <1>9, <1>10, Within
  <1>12. G = [i \in 0..n |-> G[i]] BY <1>8 DEF F
  <1>13. G \in [0..n -> Maps] BY <1>11, <1>12
  <1>14. Steady(G, m, s) BY <1>2, <1>9, <1>13 DEF Steady, n
  <1> QED BY <1>14

LEMMA UpdateSorts ==
  ASSUME NEW m \in Maps, NEW s \in Seq(Entry)
  PROVE  Update(m, s) \in Maps
  <1>1. PICK r : Steady(r, m, s) BY UpdateSteps
  <1>2. Len(s) \in 0..Len(s) OBVIOUS
  <1> QED BY <1>1, <1>2 DEF Steady

-------------------------------------------------------------------------------
(* What happens to the keys.                                               *)

KeySet(m) == {m[i].key : i \in DOMAIN m}

LEMMA InsertKeys ==
  ASSUME NEW m \in Maps, NEW k \in Key, NEW v \in Val
  PROVE  KeySet(m) \subseteq KeySet(Insert(m, k, v))
  <1>1. CASE Find(m, k) # {} BY <1>1 DEF Insert
  <1>2. CASE Find(m, k) = {}
    <2> DEFINE e == [key |-> k, val |-> v]
    <2>1. PICK c \in 0..Len(m) : Insert(m, k, v) = Spread(m, c, e) BY <1>2, InsertMissing
    <2>2. m \in Seq(Entry) /\ Len(m) \in Nat /\ DOMAIN m = 1..Len(m) BY DEF Maps
    <2> HIDE DEF e
    <2> DEFINE t == Spread(m, c, e)
    <2>3. ASSUME NEW i \in 1..Len(m) PROVE \E j \in DOMAIN t : t[j] = m[i]
      <3>1. CASE i <= c
        <4>1. i \in DOMAIN t /\ t[i] = m[i] BY <2>2, <3>1 DEF Spread
        <4> QED BY <4>1
      <3>2. CASE i > c
        <4>1. i + 1 \in DOMAIN t /\ t[i + 1] = m[i] BY <2>2, <3>2 DEF Spread
        <4> QED BY <4>1
      <3> QED BY <2>2, <3>1, <3>2
    <2> HIDE DEF t
    <2>4. KeySet(m) \subseteq KeySet(t) BY <2>2, <2>3 DEF KeySet
    <2> QED BY <2>1, <2>4 DEF t
  <1> QED BY <1>1, <1>2

LEMMA UpdateKeys ==
  ASSUME NEW m \in Maps, NEW s \in Seq(Entry)
  PROVE  KeySet(m) \subseteq KeySet(Update(m, s))
  <1>1. PICK r : Steady(r, m, s) BY UpdateSteps
  <1> DEFINE n == Len(s)
             S == {i \in Nat : KeySet(m) \subseteq KeySet(r[i])}
  <1>2. n \in Nat OBVIOUS
  <1>3. 0 \in S BY <1>1 DEF Steady
  <1>4. ASSUME NEW i \in Nat, i < n, i \in S PROVE i + 1 \in S
    <2>1. i + 1 \in 1..n /\ (i + 1) - 1 = i /\ i \in 0..n BY <1>2, <1>4
    <2>2. r[i] \in Maps /\ r[i + 1] = Insert(r[i], s[i + 1].key, s[i + 1].val) BY <1>1, <2>1 DEF Steady
    <2>3. s[i + 1].key \in Key /\ s[i + 1].val \in Val BY <2>1, EntryAt
    <2>4. KeySet(r[i]) \subseteq KeySet(r[i + 1]) BY <2>2, <2>3, InsertKeys
    <2> QED BY <1>4, <2>4
  <1> HIDE DEF S
  <1>5. 0..n \subseteq S BY <1>2, <1>3, <1>4, UpTo
  <1>6. n \in S BY <1>2, <1>5
  <1> QED BY <1>1, <1>6 DEF S, Steady

\* The entries whose values Assign changes keep their keys.
Changed(m, F, v) == [i \in DOMAIN m |-> IF i \in F THEN [m[i] EXCEPT !.val = v] ELSE m[i]]

LEMMA ChangedAt ==
  ASSUME NEW m \in Maps, NEW F, NEW v \in Val
  PROVE  /\ Changed(m, F, v) \in Maps /\ KeySet(Changed(m, F, v)) = KeySet(m)
         /\ DOMAIN Changed(m, F, v) = DOMAIN m /\ Len(Changed(m, F, v)) = Len(m)
         /\ \A i \in DOMAIN m : /\ Changed(m, F, v)[i].key = m[i].key
                                /\ Changed(m, F, v)[i].val = IF i \in F THEN v ELSE m[i].val
  <1> DEFINE t == Changed(m, F, v)
  <1>1. m \in Seq(Entry) /\ Len(m) \in Nat /\ DOMAIN m = 1..Len(m) /\ Sorted(m) BY DEF Maps
  <1>2. ASSUME NEW i \in 1..Len(m)
        PROVE  t[i] \in Entry /\ t[i].key = m[i].key /\ t[i].val = IF i \in F THEN v ELSE m[i].val
    <2>1. m[i] \in Entry BY <1>1, EntryAt
    <2>2. t[i] = IF i \in F THEN [m[i] EXCEPT !.val = v] ELSE m[i] BY <1>1 DEF Changed
    <2> HIDE DEF t
    <2> QED BY <2>1, <2>2 DEF Entry
  <1>3. DOMAIN t = 1..Len(m) /\ t = [i \in 1..Len(m) |-> t[i]] BY <1>1 DEF Changed
  <1> HIDE DEF t
  <1>4. t \in [1..Len(m) -> Entry] BY <1>2, <1>3
  <1>5. t \in Seq(Entry) /\ Len(t) = Len(m) BY <1>1, <1>4
  <1>6. Sorted(t) BY <1>1, <1>2, <1>3 DEF Sorted
  <1>7. KeySet(t) = KeySet(m) BY <1>1, <1>2, <1>3 DEF KeySet
  <1> QED BY <1>1, <1>2, <1>3, <1>5, <1>6, <1>7 DEF Maps, t

LEMMA FirstIs ==
  ASSUME NEW T \in SUBSET Nat, T # {}
  PROVE  First(T) \in T
  <1>1. \E i \in T : \A j \in T : i <= j BY Least
  <1> QED BY <1>1 DEF First

LEMMA AssignFound ==
  ASSUME NEW m \in Maps, NEW k \in Key, NEW v \in Val, Find(m, k) # {}
  PROVE  /\ First(Find(m, k)) \in Find(m, k) /\ First(Find(m, k)) \in DOMAIN m
         /\ Assign(m, k, v) = Changed(m, {First(Find(m, k))}, v)
  <1> DEFINE i == First(Find(m, k))
  <1>1. Find(m, k) \in SUBSET Nat /\ Find(m, k) \subseteq DOMAIN m BY DEF Maps, Find
  <1>2. i \in Find(m, k) /\ i \in DOMAIN m BY <1>1, FirstIs
  <1>3. Assign(m, k, v) = [m EXCEPT ![i].val = v] BY DEF Assign
  <1>4. m = [j \in DOMAIN m |-> m[j]] BY DEF Maps
  <1> HIDE DEF i
  <1>5. [m EXCEPT ![i].val = v] = Changed(m, {i}, v) BY <1>2, <1>4 DEF Changed
  <1> QED BY <1>2, <1>3, <1>5 DEF i

LEMMA AssignSorts ==
  ASSUME NEW m \in Maps, NEW k \in Key, NEW v \in Val
  PROVE  Assign(m, k, v) \in Maps /\ KeySet(m) \subseteq KeySet(Assign(m, k, v))
  <1>1. CASE Find(m, k) = {} BY <1>1, InsertSorts, InsertKeys DEF Assign
  <1>2. CASE Find(m, k) # {}
    <2>1. Assign(m, k, v) = Changed(m, {First(Find(m, k))}, v) BY <1>2, AssignFound
    <2> QED BY <2>1, ChangedAt
  <1> QED BY <1>1, <1>2

\* The first entry whose key is equal.
LEMMA FirstEqual ==
  ASSUME NEW m \in Maps, NEW k \in Key, EqualKeys(m, k) # {}
  PROVE  LET i == First(EqualKeys(m, k))
         IN  i \in DOMAIN m /\ Equals(ValueOf[m[i].key], ValueOf[k])
  <1>1. EqualKeys(m, k) \in SUBSET Nat BY DEF Maps, EqualKeys
  <1>2. First(EqualKeys(m, k)) \in EqualKeys(m, k) BY <1>1, FirstIs
  <1> QED BY <1>2 DEF EqualKeys

LEMMA SetIdxSorts ==
  ASSUME NEW m \in Maps, NEW k \in Key, NEW v \in Val
  PROVE  SetIdx(m, k, v).raw \in Maps /\ KeySet(m) \subseteq KeySet(SetIdx(m, k, v).raw)
  <1>1. CASE EqualKeys(m, k) = {} BY <1>1, AssignSorts DEF SetIdx
  <1>2. CASE EqualKeys(m, k) # {}
    <2> DEFINE i == First(EqualKeys(m, k))
    <2>1. SetIdx(m, k, v).raw = Assign(m, m[i].key, v) BY <1>2 DEF SetIdx
    <2>2. i \in DOMAIN m BY <1>2, FirstEqual
    <2> HIDE DEF i
    <2>3. m[i].key \in Key BY <2>2, EntryAt DEF Maps
    <2> QED BY <2>1, <2>3, AssignSorts
  <1> QED BY <1>1, <1>2

LEMMA InsertedSorts ==
  ASSUME NEW pairs \in Seq(Entry)
  PROVE  Inserted(pairs) \in Maps
  <1>1. <<>> \in Maps BY DEF Maps, Sorted
  <1>2. Reverse(pairs) \in Seq(Entry)
    <2>1. Len(pairs) \in Nat /\ \A i \in 1..Len(pairs) : pairs[i] \in Entry BY ElementOfSeq
    <2>2. \A i \in 1..Len(pairs) : (Len(pairs) - i) + 1 \in 1..Len(pairs) BY <2>1
    <2>3. Reverse(pairs) \in [1..Len(pairs) -> Entry] BY <2>1, <2>2 DEF Reverse
    <2> QED BY <2>1, <2>3
  <1> QED BY <1>1, <1>2, UpdateSorts DEF Inserted

-------------------------------------------------------------------------------
(* The maps stay in order.                                                 *)

Ordered == raw \in [Dict -> Maps]

LEMMA InitOrdered == Init => Ordered
  <1>1. <<>> \in Maps BY DEF Maps, Sorted
  <1> QED BY <1>1 DEF Init, Ordered

\* Where a step leaves the map of the running loop, its keys stay.
Keeps == \A d \in Dict : iter.dict = d => KeySet(raw[d]) \subseteq KeySet(raw'[d])

\* One map is replaced.
LEMMA OneMap ==
  ASSUME Ordered, NEW d \in Dict, NEW m \in Maps, raw' = [raw EXCEPT ![d] = m],
         ~Iterated(d) \/ KeySet(raw[d]) \subseteq KeySet(m)
  PROVE  Ordered' /\ Keeps
  BY DEF Ordered, Keeps, Iterated

LEMMA NextOrdered ==
  ASSUME Ordered, [Next]_vars
  PROVE  Ordered' /\ Keeps
  <1>0. \A d \in Dict : raw[d] \in Maps /\ raw[d] \in Seq(Entry) BY DEF Ordered, Maps
  <1>1. ASSUME NEW d \in Dict, NEW e \in Dict, CallUpdate(d, e) PROVE Ordered' /\ Keeps
    BY <1>0, <1>1, UpdateSorts, UpdateKeys, OneMap DEF CallUpdate
  <1>2. ASSUME NEW d \in Dict, NEW e \in Dict, Pipe(d, e) PROVE Ordered' /\ Keeps
    <2>1. <<>> \in Maps BY DEF Maps, Sorted
    <2>2. Update(Update(<<>>, raw[d]), raw[e]) \in Maps BY <1>0, <2>1, UpdateSorts
    <2> QED BY <1>2, <2>2, OneMap DEF Pipe
  <1>3. ASSUME NEW d \in Dict, NEW k \in Key, NEW v \in Val, StoreItem(d, k, v) PROVE Ordered' /\ Keeps
    BY <1>0, <1>3, SetIdxSorts, OneMap DEF StoreItem
  <1>4. ASSUME NEW d \in Dict, NEW n \in 0..MaxPairs, NEW pairs \in [1..n -> Entry], BuildMap(d, pairs)
        PROVE  Ordered' /\ Keeps
    <2>1. pairs \in Seq(Entry)
      <3>1. n \in Nat BY DictsAssumption
      <3> QED BY <3>1
    <2> QED BY <1>4, <2>1, InsertedSorts, OneMap DEF BuildMap
  <1>5. ASSUME NEW d \in Dict, Destroy(d) PROVE Ordered' /\ Keeps
    <2>1. <<>> \in Maps BY DEF Maps, Sorted
    <2> QED BY <1>5, <2>1, OneMap DEF Destroy
  <1>6. CASE raw' = raw BY <1>6 DEF Ordered, Keeps
  <1> QED BY <1>1, <1>2, <1>3, <1>4, <1>5, <1>6
          DEF Next, vars, CallKeys, CallValues, CallItems, TakeView, DropView, GetIter, ForIter, PopIter

-------------------------------------------------------------------------------
(* The running loop.                                                       *)

\* It is at a key of its dict, behind all it has got; what was there when it
\* began has been got, or is at its place or after it.
InLoop(d, at) ==
  /\ at \in KeySet(raw[d]) \cup {None} /\ start \subseteq KeySet(raw[d])
  /\ at # None => \A i \in DOMAIN visited : Before(visited[i], at)
  /\ \A k \in start : k \in Range(visited) \/ (at # None /\ (k = at \/ Before(at, k)))

Loop ==
  /\ iter \in [dict : Dict \cup {None}, at : Key \cup {None}] /\ visited \in Seq(Key) /\ start \in SUBSET Key
  /\ \A i, j \in DOMAIN visited : i < j => Before(visited[i], visited[j])
  /\ iter.dict # None => InLoop(iter.dict, iter.at)

LEMMA KeysOf ==
  ASSUME NEW m \in Maps
  PROVE  /\ KeySet(m) \subseteq Key /\ None \notin KeySet(m) /\ Range(Keys(m)) = KeySet(m)
         /\ Len(m) \in Nat /\ DOMAIN m = 1..Len(m)
  <1>1. m \in Seq(Entry) BY DEF Maps
  <1>2. \A i \in DOMAIN m : m[i].key \in Key BY <1>1, EntryAt
  <1>3. Range(Keys(m)) = KeySet(m) BY DEF Range, Keys, KeySet
  <1> QED BY <1>1, <1>2, <1>3, DictsAssumption DEF KeySet, Obj

\* Where the keys of the dict stay and the loop is left alone, it goes on.
LEMMA LoopStays ==
  ASSUME Ordered, Loop, Keeps, UNCHANGED <<iter, visited, start>>
  PROVE  Loop'
  <1>1. ASSUME iter.dict # None PROVE InLoop(iter.dict, iter.at)'
    <2>1. iter.dict \in Dict BY <1>1 DEF Loop
    <2>2. KeySet(raw[iter.dict]) \subseteq KeySet(raw'[iter.dict]) BY <2>1 DEF Keeps
    <2> QED BY <1>1, <2>2 DEF Loop, InLoop
  <1> QED BY <1>1 DEF Loop

LEMMA GetIterLoops == ASSUME Ordered, NEW d \in Dict, GetIter(d) PROVE Loop'
  <1> USE DEF GetIter
  <1> DEFINE m == raw[d]
             at == KeyAt(m, 1)
  <1>1. m \in Maps BY DEF Ordered
  <1>2. /\ KeySet(m) \subseteq Key /\ None \notin KeySet(m) /\ start' = KeySet(m)
        /\ Len(m) \in Nat /\ DOMAIN m = 1..Len(m)
    BY <1>1, KeysOf
  <1>3. iter' = [dict |-> d, at |-> at] /\ visited' = <<>> /\ raw' = raw OBVIOUS
  <1>4. at \in KeySet(m) \cup {None} BY DEF KeyAt, KeySet
  <1>5. ASSUME NEW k \in KeySet(m) PROVE at # None /\ (k = at \/ Before(at, k))
    <2>1. PICK i \in DOMAIN m : k = m[i].key BY DEF KeySet
    <2>2. 1 \in DOMAIN m /\ (i = 1 \/ 1 < i) BY <1>2
    <2>3. at = m[1].key BY <2>2 DEF KeyAt
    <2>4. at # None BY <1>2, <2>2, <2>3 DEF KeySet
    <2>5. 1 < i => Before(m[1].key, m[i].key) BY <1>1, <2>2 DEF Maps, Sorted
    <2> QED BY <2>1, <2>2, <2>3, <2>4, <2>5
  <1> HIDE DEF at
  <1>6. iter' \in [dict : Dict \cup {None}, at : Key \cup {None}] /\ visited' \in Seq(Key) /\ start' \in SUBSET Key
    BY <1>2, <1>3, <1>4
  <1>7. DOMAIN visited' = {} BY <1>3
  <1>8. iter'.dict = d /\ iter'.at = at BY <1>3
  <1>9. InLoop(iter.dict, iter.at)'
    <2>1. /\ at \in KeySet(raw'[d]) \cup {None} /\ start' \subseteq KeySet(raw'[d])
          /\ at # None => \A i \in DOMAIN visited' : Before(visited'[i], at)
          /\ \A k \in start' : k \in Range(visited') \/ (at # None /\ (k = at \/ Before(at, k)))
      BY <1>2, <1>3, <1>4, <1>5, <1>7
    <2> QED BY <1>8, <2>1 DEF InLoop
  <1> QED BY <1>6, <1>7, <1>9 DEF Loop

\* The place of a key, and the key after it.
LEMMA NextKey ==
  ASSUME NEW m \in Maps, NEW at \in KeySet(m)
  PROVE  /\ Advanced(m, at) \in KeySet(m) \cup {None}
         /\ Advanced(m, at) # None => Before(at, Advanced(m, at))
         /\ \A k \in KeySet(m) : Before(at, k) =>
              Advanced(m, at) # None /\ (k = Advanced(m, at) \/ Before(Advanced(m, at), k))
  <1>0. /\ KeySet(m) \subseteq Key /\ None \notin KeySet(m)
        /\ Len(m) \in Nat /\ DOMAIN m = 1..Len(m)
    BY KeysOf
  <1> DEFINE x == Index(m, at)
             next == KeyAt(m, x + 1)
  <1>1. x \in DOMAIN m /\ m[x].key = at BY DEF KeySet, Index
  <1> HIDE DEF x
  <1>2. Advanced(m, at) = next BY DEF Advanced, x
  <1>3. next \in KeySet(m) \cup {None} BY DEF KeyAt, KeySet
  <1>4. ASSUME x + 1 \in DOMAIN m PROVE next = m[x + 1].key /\ next # None /\ Before(at, next)
    <2>1. next = m[x + 1].key /\ next \in KeySet(m) BY <1>4 DEF KeyAt, KeySet
    <2>2. x < x + 1 BY <1>0, <1>1
    <2>3. Before(m[x].key, m[x + 1].key) BY <1>1, <1>4, <2>2 DEF Maps, Sorted
    <2> QED BY <1>0, <1>1, <2>1, <2>3
  <1>5. x + 1 \notin DOMAIN m => next = None BY DEF KeyAt
  <1>6. ASSUME NEW k \in KeySet(m), Before(at, k)
        PROVE  next # None /\ (k = next \/ Before(next, k))
    <2>1. PICK y \in DOMAIN m : k = m[y].key BY DEF KeySet
    <2>2. k \in Key /\ at \in Key BY <1>0
    <2>3. x < y
      <3>1. CASE y = x BY <1>1, <1>6, <2>1, <2>2, <3>1, KeysAreOrdered
      <3>2. CASE y < x
        <4>1. Before(k, at) BY <1>1, <2>1, <3>2 DEF Maps, Sorted
        <4> QED BY <1>6, <2>2, <4>1, KeysAreOrdered
      <3> QED BY <1>0, <1>1, <2>1, <3>1, <3>2
    <2>4. x + 1 \in DOMAIN m /\ (y = x + 1 \/ x + 1 < y) BY <1>0, <1>1, <2>1, <2>3
    <2>5. next = m[x + 1].key /\ next # None BY <1>4, <2>4
    <2>6. x + 1 < y => Before(m[x + 1].key, m[y].key) BY <2>1, <2>4 DEF Maps, Sorted
    <2> QED BY <2>1, <2>4, <2>5, <2>6
  <1> HIDE DEF next
  <1> QED BY <1>2, <1>3, <1>4, <1>5, <1>6

LEMMA ForIterLoops == ASSUME Ordered, Loop, ForIter PROVE Loop'
  <1> USE DEF ForIter
  <1> DEFINE d == iter.dict
             m == raw[d]
             at == iter.at
             next == Advanced(m, at)
  <1>1. d \in Dict /\ m \in Maps /\ at \in KeySet(m) /\ at # None BY DEF Loop, InLoop, Ordered
  <1>2. /\ KeySet(m) \subseteq Key /\ None \notin KeySet(m) BY <1>1, KeysOf
  <1>3. /\ next \in KeySet(m) \cup {None}
        /\ next # None => Before(at, next)
        /\ \A k \in KeySet(m) : Before(at, k) => next # None /\ (k = next \/ Before(next, k))
    BY <1>1, NextKey
  <1>4. iter' = [iter EXCEPT !.at = next] /\ visited' = Append(visited, at) /\ raw' = raw /\ start' = start
    OBVIOUS
  <1> HIDE DEF next
  <1>5. iter' \in [dict : Dict \cup {None}, at : Key \cup {None}] /\ iter'.dict = d /\ iter'.at = next
    BY <1>1, <1>2, <1>3, <1>4 DEF Loop
  <1>6. /\ visited' \in Seq(Key) /\ Len(visited) \in Nat /\ DOMAIN visited = 1..Len(visited)
        /\ DOMAIN visited' = 1..(Len(visited) + 1) /\ visited'[Len(visited) + 1] = at
        /\ \A i \in DOMAIN visited : i \in DOMAIN visited' /\ visited'[i] = visited[i]
    BY <1>1, <1>2, <1>4 DEF Loop
  <1>7. \A i \in DOMAIN visited : visited[i] \in Key /\ Before(visited[i], at)
    <2>1. \A i \in DOMAIN visited : Before(visited[i], at) BY <1>1 DEF Loop, InLoop
    <2>2. \A i \in 1..Len(visited) : visited[i] \in Key BY ElementOfSeq DEF Loop
    <2> QED BY <1>6, <2>1, <2>2
  <1>8. ASSUME NEW i \in DOMAIN visited' PROVE (i \in DOMAIN visited \/ i = Len(visited) + 1)
    BY <1>6
  <1>9. ASSUME NEW i \in DOMAIN visited', NEW j \in DOMAIN visited', i < j PROVE Before(visited'[i], visited'[j])
    <2>1. i \in DOMAIN visited BY <1>6, <1>9
    <2>2. CASE j \in DOMAIN visited BY <1>6, <1>9, <2>1, <2>2 DEF Loop
    <2>3. CASE j = Len(visited) + 1 BY <1>6, <1>7, <2>1, <2>3
    <2> QED BY <1>8, <2>2, <2>3
  <1>10. ASSUME next # None, NEW i \in DOMAIN visited' PROVE Before(visited'[i], next)
    <2>1. Before(at, next) /\ next \in Key /\ at \in Key BY <1>1, <1>2, <1>3, <1>10
    <2>2. CASE i \in DOMAIN visited BY <1>6, <1>7, <2>1, <2>2, KeysAreOrdered
    <2>3. CASE i = Len(visited) + 1 BY <1>6, <2>1, <2>3
    <2> QED BY <1>8, <2>2, <2>3
  <1>11. Range(visited) \subseteq Range(visited') /\ at \in Range(visited') BY <1>6 DEF Range
  <1>12. ASSUME NEW k \in start PROVE k \in Range(visited') \/ (next # None /\ (k = next \/ Before(next, k)))
    <2>1. k \in Range(visited) \/ k = at \/ Before(at, k) BY <1>1 DEF Loop, InLoop
    <2>2. k \in KeySet(m) BY <1>1 DEF Loop, InLoop
    <2> QED BY <1>3, <1>11, <2>1, <2>2
  <1>13. start' \subseteq KeySet(raw'[d]) /\ next \in KeySet(raw'[d]) \cup {None} /\ start' \in SUBSET Key
    BY <1>1, <1>3, <1>4 DEF Loop, InLoop
  <1>14. InLoop(iter.dict, iter.at)'
    <2>1. /\ next \in KeySet(raw'[d]) \cup {None} /\ start' \subseteq KeySet(raw'[d])
          /\ next # None => \A i \in DOMAIN visited' : Before(visited'[i], next)
          /\ \A k \in start' : k \in Range(visited') \/ (next # None /\ (k = next \/ Before(next, k)))
      BY <1>4, <1>10, <1>12, <1>13
    <2> HIDE DEF d
    <2> QED BY <1>5, <2>1 DEF InLoop
  <1> QED BY <1>5, <1>6, <1>9, <1>13, <1>14 DEF Loop

LEMMA PopIterLoops == ASSUME Loop, PopIter PROVE Loop'
  <1>1. iter' = NoIter /\ visited' = visited /\ start' = start BY DEF PopIter
  <1>2. iter'.dict = None /\ iter' \in [dict : Dict \cup {None}, at : Key \cup {None}] BY <1>1 DEF NoIter
  <1> QED BY <1>1, <1>2 DEF Loop

LEMMA NextLoop == ASSUME Ordered, Loop, [Next]_vars PROVE Loop'
  <1>1. Keeps BY NextOrdered
  <1>2. CASE UNCHANGED <<iter, visited, start>> BY <1>1, <1>2, LoopStays
  <1>3. CASE \E d \in Dict : GetIter(d) BY <1>3, GetIterLoops
  <1>4. CASE ForIter BY <1>4, ForIterLoops
  <1>5. CASE PopIter BY <1>5, PopIterLoops
  <1> QED BY <1>2, <1>3, <1>4, <1>5
          DEF Next, vars, CallKeys, CallValues, CallItems, TakeView, DropView, CallUpdate, Pipe, StoreItem,
              BuildMap, Destroy, UnchangedLoop

LEMMA InitLoop == Init => Loop
  <1> SUFFICES ASSUME Init PROVE Loop OBVIOUS
  <1>1. iter.dict = None /\ iter \in [dict : Dict \cup {None}, at : Key \cup {None}]
    BY DEF Init, NoIter
  <1>2. visited \in Seq(Key) /\ DOMAIN visited = {} /\ start \in SUBSET Key BY DEF Init
  <1> QED BY <1>1, <1>2 DEF Loop

LEMMA LoopVisits == Loop => VisitedOnce
  BY DEF Loop, InLoop, VisitedOnce

\* The map behind a dict stays in order, whatever is stored, built and merged:
\* every entry is found again.
THEOREM StaysInOrder == Spec => []InOrder
  <1>1. Ordered /\ [Next]_vars => Ordered' BY NextOrdered
  <1>2. Ordered => InOrder BY DEF Ordered, Maps, Sorted, InOrder
  <1> QED BY InitOrdered, <1>1, <1>2, PTL DEF Spec

\* A loop over a dict gets each of its keys once, in order, and leaves none of
\* those out that were there when it began.
THEOREM LoopsVisitOnce == Spec => []VisitedOnce
  <1>1. Ordered /\ Loop /\ [Next]_vars => (Ordered /\ Loop)' BY NextOrdered, NextLoop
  <1>2. Init => Ordered /\ Loop BY InitOrdered, InitLoop
  <1> QED BY LoopVisits, <1>1, <1>2, PTL DEF Spec

-------------------------------------------------------------------------------
(* How often an object occurs in a sequence.                               *)

One(v, o) == IF v = o THEN 1 ELSE 0

\* A bijection gives two sets the same size.
LEMMA SameSize ==
  ASSUME NEW S, IsFiniteSet(S), NEW T, NEW f \in Bijection(S, T)
  PROVE  IsFiniteSet(T) /\ Cardinality(T) = Cardinality(S)
  <1>1. ExistsBijection(S, T) BY DEF ExistsBijection
  <1> QED BY <1>1, FS_Bijection

\* Disjoint sets add up.
LEMMA Disjoint ==
  ASSUME NEW S, IsFiniteSet(S), NEW T, IsFiniteSet(T), S \cap T = {}
  PROVE  /\ IsFiniteSet(S \cup T) /\ Cardinality(S \cup T) = Cardinality(S) + Cardinality(T)
         /\ Cardinality(S) \in Nat /\ Cardinality(T) \in Nat
  BY FS_Union, FS_EmptySet, FS_CardinalityType

LEMMA TimesType ==
  ASSUME NEW T, NEW s \in Seq(T), NEW o
  PROVE  Times(o, s) \in Nat /\ IsFiniteSet(Places(o, s))
  <1>1. IsFiniteSet(DOMAIN s) BY FS_Interval
  <1>2. Places(o, s) \in SUBSET DOMAIN s BY DEF Places
  <1> QED BY <1>1, <1>2, FS_Subset, FS_CardinalityType DEF Times

LEMMA TimesConcat ==
  ASSUME NEW T, NEW s \in Seq(T), NEW t \in Seq(T), NEW o
  PROVE  Times(o, s \o t) = Times(o, s) + Times(o, t)
  <1> DEFINE A == Places(o, s)
             B == Places(o, t)
             C == Places(o, s \o t)
             B2 == {i \in C : i > Len(s)}
             shift == [i \in B |-> i + Len(s)]
  <1> USE DEF Places
  <1>1. IsFiniteSet(A) /\ IsFiniteSet(B) BY TimesType
  <1>2. shift \in Bijection(B, B2)
    <2>1. shift \in [B -> B2] OBVIOUS
    <2>2. \A i \in B2 : i - Len(s) \in B /\ shift[i - Len(s)] = i OBVIOUS
    <2>3. shift \in Injection(B, B2) BY <2>1 DEF Injection, IsInjective
    <2> QED BY <2>1, <2>2, <2>3 DEF Bijection, Surjection
  <1>3. IsFiniteSet(B2) /\ Cardinality(B2) = Cardinality(B) BY <1>1, <1>2, SameSize
  <1>4. A \cap B2 = {} /\ C = A \cup B2 OBVIOUS
  <1> HIDE DEF A, B, C, B2
  <1>5. Cardinality(C) = Cardinality(A) + Cardinality(B) BY <1>1, <1>3, <1>4, Disjoint
  <1> QED BY <1>5 DEF Times, A, B, C

LEMMA TimesSingle ==
  ASSUME NEW v, NEW o
  PROVE  Times(o, <<v>>) = One(v, o) /\ Times(o, <<>>) = 0
  <1> DEFINE s == <<v>>
  <1>0. DOMAIN s = {1} /\ s[1] = v OBVIOUS
  <1> HIDE DEF s
  <1>1. ASSUME v = o PROVE Times(o, s) = One(v, o)
    <2>1. Places(o, s) = {1} BY <1>0, <1>1 DEF Places
    <2>2. Times(o, s) = 1 BY <2>1, FS_Singleton DEF Times
    <2> QED BY <1>1, <2>2 DEF One
  <1>2. ASSUME v # o PROVE Times(o, s) = One(v, o)
    <2>1. Places(o, s) = {} BY <1>0, <1>2 DEF Places
    <2>2. Times(o, s) = 0 BY <2>1, FS_EmptySet DEF Times
    <2> QED BY <1>2, <2>2 DEF One
  <1>3. Places(o, <<>>) = {} BY DEF Places
  <1>4. Times(o, <<>>) = 0 BY <1>3, FS_EmptySet DEF Times
  <1> QED BY <1>1, <1>2, <1>4 DEF s

\* Two elements.
LEMMA TimesPair ==
  ASSUME NEW v, NEW w, NEW o
  PROVE  Times(o, <<v, w>>) = One(v, o) + One(w, o)
  <1> DEFINE T == {v, w}
  <1>0. v \in T /\ w \in T OBVIOUS
  <1> HIDE DEF T
  <1>1. /\ <<v>> \in Seq(T) /\ <<w>> \in Seq(T)
        /\ <<v, w>> = Append(<<v>>, w) /\ Append(<<v>>, w) = <<v>> \o <<w>>
    BY <1>0
  <1>2. Times(o, <<v>> \o <<w>>) = Times(o, <<v>>) + Times(o, <<w>>) BY <1>1, TimesConcat
  <1> QED BY <1>1, <1>2, TimesSingle

\* An element is put between others.
LEMMA TimesSpread ==
  ASSUME NEW T, NEW s \in Seq(T), NEW c \in 0..Len(s), NEW v \in T, NEW o
  PROVE  Times(o, Spread(s, c, v)) = Times(o, s) + One(v, o)
  <1> DEFINE a == SubSeq(s, 1, c)
             b == SubSeq(s, c + 1, Len(s))
             w == <<v>>
  <1>1. s = a \o b
    <2>1. 1 \in 1..Len(s) + 1 /\ c \in (1 - 1)..Len(s) /\ Len(s) \in c..Len(s)
      <3> DEFINE n == Len(s)
      <3>1. n \in Nat /\ c \in 0..n OBVIOUS
      <3> HIDE DEF n
      <3>2. 1 \in 1..n + 1 /\ c \in (1 - 1)..n /\ n \in c..n BY <3>1
      <3> QED BY <3>2 DEF n
    <2>2. a \o b = SubSeq(s, 1, Len(s)) BY <2>1, ConcatAdjacentSubSeq, Zenon
    <2> QED BY <2>2, SubSeqFull
  <1>2. a \in Seq(T) /\ b \in Seq(T) /\ w \in Seq(T) OBVIOUS
  <1>3. Spread(s, c, v) = (a \o w) \o b
    <2>1. (c + 1) - 1 = c OBVIOUS
    <2> QED BY <2>1, InsertAtSpreads DEF InsertAt
  <1>4. Times(o, w) = One(v, o) BY TimesSingle
  <1> HIDE DEF a, b, w
  <1>5. Times(o, a \o b) = Times(o, a) + Times(o, b) BY <1>2, TimesConcat
  <1>6. a \o w \in Seq(T) BY <1>2
  <1>7. Times(o, (a \o w) \o b) = Times(o, a \o w) + Times(o, b) BY <1>2, <1>6, TimesConcat
  <1>8. Times(o, a \o w) = Times(o, a) + Times(o, w) BY <1>2, TimesConcat
  <1> DEFINE x == Times(o, a)
             y == Times(o, b)
             z == Times(o, w)
  <1>9. x \in Nat /\ y \in Nat /\ z \in Nat BY <1>2, TimesType
  <1> HIDE DEF x, y, z
  <1>10. (x + z) + y = (x + y) + z BY <1>9
  <1> QED BY <1>1, <1>3, <1>4, <1>5, <1>7, <1>8, <1>10 DEF x, y, z

\* One element is replaced.
LEMMA TimesReplace ==
  ASSUME NEW T, NEW s \in Seq(T), NEW t \in Seq(T), DOMAIN t = DOMAIN s, NEW i \in DOMAIN s,
         \A j \in DOMAIN s : j # i => t[j] = s[j], NEW o
  PROVE  Times(o, t) = Times(o, s) - One(s[i], o) + One(t[i], o)
  <1> DEFINE v == t[i]
             A == Places(o, s)
             B == Places(o, t)
             R == A \ {i}
  <1>1. DOMAIN t = DOMAIN s /\ t[i] = v /\ \A j \in DOMAIN s : j # i => t[j] = s[j] OBVIOUS
  <1>2. IsFiniteSet(A) /\ Cardinality(A) \in Nat BY TimesType DEF Times
  <1> HIDE DEF v
  <1>3. A = (IF s[i] = o THEN R \cup {i} ELSE R) /\ B = (IF v = o THEN R \cup {i} ELSE R) /\ i \notin R
    BY <1>1 DEF Places
  <1>4. IsFiniteSet(R) /\ Cardinality(R) \in Nat BY <1>2, FS_RemoveElement, FS_CardinalityType
  <1>5. Cardinality(R \cup {i}) = Cardinality(R) + 1 BY <1>3, <1>4, FS_AddElement
  <1> HIDE DEF A, B, R
  <1>6. Cardinality(A) = Cardinality(R) + One(s[i], o) BY <1>3, <1>4, <1>5 DEF One
  <1>7. Cardinality(B) = Cardinality(R) + One(v, o) BY <1>3, <1>4, <1>5 DEF One
  <1>8. Times(o, s) = Cardinality(A) /\ Times(o, t) = Cardinality(B) BY DEF Times, A, B
  <1>9. One(s[i], o) \in Nat /\ One(v, o) \in Nat BY DEF One
  <1> DEFINE x == Cardinality(R)
             y == One(s[i], o)
             z == One(v, o)
  <1> HIDE DEF x, y, z
  <1>10. x \in Nat /\ y \in Nat /\ z \in Nat => x + z = (x + y) - y + z OBVIOUS
  <1> QED BY <1>4, <1>6, <1>7, <1>8, <1>9, <1>10 DEF x, y, z, v

\* The order does not matter.
LEMMA TimesReverse ==
  ASSUME NEW T, NEW s \in Seq(T), NEW o
  PROVE  Times(o, Reverse(s)) = Times(o, s)
  <1> DEFINE A == Places(o, s)
             B == Places(o, Reverse(s))
             turn == [i \in A |-> (Len(s) - i) + 1]
  <1>1. IsFiniteSet(A) BY TimesType
  <1>2. /\ Len(s) \in Nat /\ DOMAIN s = 1..Len(s) /\ DOMAIN Reverse(s) = 1..Len(s)
        /\ \A i \in 1..Len(s) : Reverse(s)[i] = s[(Len(s) - i) + 1]
    BY DEF Reverse
  <1>3. \A i \in 1..Len(s) : (Len(s) - i) + 1 \in 1..Len(s) /\ (Len(s) - ((Len(s) - i) + 1)) + 1 = i
    BY <1>2
  <1>4. turn \in [A -> B]
    <2>1. ASSUME NEW i \in A PROVE (Len(s) - i) + 1 \in B BY <1>2, <1>3 DEF Places
    <2> QED BY <2>1
  <1>5. ASSUME NEW i \in B PROVE (Len(s) - i) + 1 \in A /\ turn[(Len(s) - i) + 1] = i
    BY <1>2, <1>3 DEF Places
  <1>6. ASSUME NEW i \in A, NEW j \in A, turn[i] = turn[j] PROVE i = j
    BY <1>2, <1>6 DEF Places
  <1> HIDE DEF A, B
  <1>7. turn \in Bijection(A, B)
    <2>1. DOMAIN turn = A OBVIOUS
    <2> HIDE DEF turn
    <2>2. turn \in Injection(A, B) BY <1>4, <1>6, <2>1 DEF Injection, IsInjective
    <2> QED BY <1>4, <1>5, <2>2 DEF Bijection, Surjection
  <1>8. Cardinality(B) = Cardinality(A) BY <1>1, <1>7, SameSize
  <1> QED BY <1>8 DEF Times, A, B

-------------------------------------------------------------------------------
(* How often an object occurs in a map, as a key or a value.               *)

LEMMA BothType ==
  ASSUME NEW m \in Seq(Entry), NEW o
  PROVE  /\ Keys(m) \in Seq(Obj) /\ Values(m) \in Seq(Obj) /\ Both(m) \in Seq(Obj)
         /\ Len(Keys(m)) = Len(m) /\ Len(Values(m)) = Len(m)
         /\ Times(o, Both(m)) = Times(o, Keys(m)) + Times(o, Values(m))
         /\ Times(o, Keys(m)) \in Nat /\ Times(o, Values(m)) \in Nat /\ Times(o, Both(m)) \in Nat
  <1> DEFINE p == Keys(m)
             q == Values(m)
  <1>1. Len(m) \in Nat /\ DOMAIN m = 1..Len(m) OBVIOUS
  <1>2. \A i \in 1..Len(m) : m[i].key \in Obj /\ m[i].val \in Obj BY <1>1, EntryAt DEF Obj
  <1>3. p \in [1..Len(m) -> Obj] /\ q \in [1..Len(m) -> Obj] BY <1>1, <1>2 DEF Keys, Values
  <1> HIDE DEF p, q
  <1>4. p \in Seq(Obj) /\ q \in Seq(Obj) /\ Len(p) = Len(m) /\ Len(q) = Len(m) BY <1>1, <1>3
  <1>5. p \o q \in Seq(Obj) BY <1>4
  <1>6. Times(o, p \o q) = Times(o, p) + Times(o, q) /\ Times(o, p) \in Nat /\ Times(o, q) \in Nat
    BY <1>4, TimesConcat, TimesType
  <1>7. Both(m) = p \o q BY DEF Both, p, q
  <1>8. Times(o, p) + Times(o, q) \in Nat BY <1>6
  <1> QED BY <1>4, <1>5, <1>6, <1>7, <1>8 DEF p, q

\* A new entry brings its key and its value.
LEMMA BothSpread ==
  ASSUME NEW m \in Seq(Entry), NEW c \in 0..Len(m), NEW e \in Entry, NEW o
  PROVE  Times(o, Both(Spread(m, c, e))) = Times(o, Both(m)) + One(e.key, o) + One(e.val, o)
  <1> DEFINE t == Spread(m, c, e)
             p == Keys(m)
             q == Values(m)
  <1>1. Len(m) \in Nat /\ DOMAIN m = 1..Len(m) OBVIOUS
  <1>2. p \in Seq(Obj) /\ q \in Seq(Obj) /\ Len(p) = Len(m) /\ Len(q) = Len(m) BY BothType
  <1>3. t \in Seq(Entry) BY SpreadType
  <1>4. e.key \in Obj /\ e.val \in Obj BY DEF Entry, Obj
  <1>5. Keys(t) = Spread(p, c, e.key) /\ Values(t) = Spread(q, c, e.val)
    <2>1. DOMAIN t = 1..(Len(m) + 1) BY SpreadType
    <2>2. ASSUME NEW i \in 1..(Len(m) + 1)
          PROVE  t[i].key = Spread(p, c, e.key)[i] /\ t[i].val = Spread(q, c, e.val)[i]
      <3>1. CASE i <= c
        <4>1. i \in DOMAIN m BY <1>1, <3>1
        <4> QED BY <1>2, <2>2, <3>1, <4>1 DEF Spread, Keys, Values
      <3>2. CASE i = c + 1 BY <1>2, <2>2, <3>2 DEF Spread
      <3>3. CASE i > c + 1
        <4>1. i - 1 \in DOMAIN m /\ ~(i <= c) /\ i # c + 1 BY <1>1, <3>3
        <4>2. t[i] = m[i - 1] BY <2>2, <4>1 DEF Spread
        <4>3. Spread(p, c, e.key)[i] = p[i - 1] /\ Spread(q, c, e.val)[i] = q[i - 1]
          BY <1>2, <2>2, <4>1 DEF Spread
        <4>4. p[i - 1] = m[i - 1].key /\ q[i - 1] = m[i - 1].val BY <4>1 DEF Keys, Values
        <4> QED BY <4>2, <4>3, <4>4
      <3> QED BY <1>1, <3>1, <3>2, <3>3
    <2>3. Keys(t) = [i \in 1..(Len(m) + 1) |-> t[i].key] /\ Values(t) = [i \in 1..(Len(m) + 1) |-> t[i].val]
      BY <2>1 DEF Keys, Values
    <2>4. /\ Spread(p, c, e.key) = [i \in 1..(Len(m) + 1) |-> Spread(p, c, e.key)[i]]
          /\ Spread(q, c, e.val) = [i \in 1..(Len(m) + 1) |-> Spread(q, c, e.val)[i]]
      BY <1>2 DEF Spread
    <2> HIDE DEF t, p, q
    <2> QED BY <2>2, <2>3, <2>4
  <1> DEFINE x == Times(o, p)
             y == Times(o, q)
             a == One(e.key, o)
             b == One(e.val, o)
  <1>6. Times(o, Keys(t)) = x + a /\ Times(o, Values(t)) = y + b
    <2> HIDE DEF t, p, q
    <2> QED BY <1>2, <1>4, <1>5, TimesSpread
  <1>7. Times(o, Both(t)) = Times(o, Keys(t)) + Times(o, Values(t))
    <2> HIDE DEF t
    <2> QED BY <1>3, BothType
  <1>8. Times(o, Both(m)) = x + y /\ x \in Nat /\ y \in Nat BY BothType
  <1>9. a \in Nat /\ b \in Nat BY DEF One
  <1> HIDE DEF x, y, a, b
  <1>10. (x + a) + (y + b) = (x + y) + a + b BY <1>8, <1>9
  <1> QED BY <1>6, <1>7, <1>8, <1>10 DEF a, b, t

\* insert() brings them where the key is missing.
LEMMA BothInsert ==
  ASSUME NEW m \in Maps, NEW k \in Key, NEW v \in Val, NEW o
  PROVE  /\ Find(m, k) = {} => /\ Times(o, Both(Insert(m, k, v))) = Times(o, Both(m)) + One(k, o) + One(v, o)
                               /\ Len(Insert(m, k, v)) = Len(m) + 1
         /\ Find(m, k) # {} => Insert(m, k, v) = m
         /\ KeySet(Insert(m, k, v)) \subseteq KeySet(m) \cup {k}
  <1>1. CASE Find(m, k) # {} BY <1>1 DEF Insert
  <1>2. CASE Find(m, k) = {}
    <2> DEFINE e == [key |-> k, val |-> v]
    <2>1. PICK c \in 0..Len(m) : Insert(m, k, v) = Spread(m, c, e) BY <1>2, InsertMissing
    <2>2. m \in Seq(Entry) /\ e \in Entry /\ e.key = k /\ e.val = v BY DEF Maps, Entry
    <2> HIDE DEF e
    <2>3. Times(o, Both(Spread(m, c, e))) = Times(o, Both(m)) + One(k, o) + One(v, o) BY <2>2, BothSpread
    <2>4. Len(Spread(m, c, e)) = Len(m) + 1 /\ DOMAIN Spread(m, c, e) = 1..(Len(m) + 1) BY <2>2, SpreadType
    <2>5. ASSUME NEW i \in 1..(Len(m) + 1) PROVE Spread(m, c, e)[i].key \in KeySet(m) \cup {k}
      <3>0. Len(m) \in Nat /\ DOMAIN m = 1..Len(m) BY <2>2
      <3>1. CASE i <= c
        <4>1. i \in DOMAIN m BY <3>0, <3>1
        <4> QED BY <3>1, <4>1 DEF Spread, KeySet
      <3>2. CASE i = c + 1 BY <2>2, <3>2 DEF Spread
      <3>3. CASE i > c + 1
        <4>1. i - 1 \in DOMAIN m /\ ~(i <= c) /\ i # c + 1 BY <3>0, <3>3
        <4> QED BY <4>1 DEF Spread, KeySet
      <3> QED BY <3>0, <3>1, <3>2, <3>3
    <2>6. KeySet(Spread(m, c, e)) \subseteq KeySet(m) \cup {k} BY <2>4, <2>5 DEF KeySet
    <2> QED BY <1>2, <2>1, <2>3, <2>4, <2>6
  <1> QED BY <1>1, <1>2

\* Several insertions bring no more than what is inserted, and all of it if
\* every entry is a new one.
LEMMA BothUpdate ==
  ASSUME NEW m \in Maps, NEW s \in Seq(Entry), NEW o
  PROVE  /\ Times(o, Both(Update(m, s))) <= Times(o, Both(m)) + Times(o, Both(s))
         /\ Len(Update(m, s)) <= Len(m) + Len(s)
         /\ Len(Update(m, s)) = Len(m) + Len(s) =>
              Times(o, Both(Update(m, s))) = Times(o, Both(m)) + Times(o, Both(s))
  <1>1. PICK r : Steady(r, m, s) BY UpdateSteps
  <1> DEFINE n == Len(s)
             H(t) == Times(o, Both(t))
             P(i) == SubSeq(s, 1, i)
             Q(i) == /\ H(r[i]) <= H(m) + H(P(i)) /\ Len(r[i]) <= Len(m) + i
                     /\ Len(r[i]) = Len(m) + i => H(r[i]) = H(m) + H(P(i))
             S == {i \in Nat : Q(i)}
  <1>2. n \in Nat /\ m \in Seq(Entry) /\ Len(m) \in Nat /\ H(m) \in Nat BY BothType DEF Maps
  <1>3. 0 \in S
    <2>1. P(0) = <<>> /\ r[0] = m BY <1>1 DEF Steady
    <2>2. H(<<>>) = 0
      <3>1. <<>> \in Seq(Entry) /\ Keys(<<>>) = <<>> /\ Values(<<>>) = <<>> BY DEF Keys, Values
      <3>2. Times(o, Both(<<>>)) = Times(o, Keys(<<>>)) + Times(o, Values(<<>>)) BY <3>1, BothType
      <3>3. Times(o, <<>>) = 0 BY TimesSingle
      <3> QED BY <3>1, <3>2, <3>3
    <2> HIDE DEF H, P
    <2> QED BY <1>2, <2>1, <2>2
  <1>4. ASSUME NEW i \in Nat, i < n, i \in S PROVE i + 1 \in S
    <2> DEFINE e == s[i + 1]
               a == One(e.key, o)
               b == One(e.val, o)
               x == H(r[i])
               y == H(P(i))
               z == H(m)
               l == Len(r[i])
               lm == Len(m)
    <2>1. i + 1 \in 1..n /\ (i + 1) - 1 = i /\ i \in 0..n /\ i + 1 \in DOMAIN s BY <1>2, <1>4
    <2>2. r[i] \in Maps /\ r[i + 1] = Insert(r[i], e.key, e.val) BY <1>1, <2>1 DEF Steady
    <2>3. e.key \in Key /\ e.val \in Val /\ e \in Entry BY <2>1, EntryAt
    <2>4. P(i) \in Seq(Entry) /\ Len(P(i)) = i BY <1>2, <2>1
    <2>5. P(i + 1) = Spread(P(i), i, e)
      <3>1. P(i + 1) \in Seq(Entry) /\ Len(P(i + 1)) = i + 1 BY <1>2, <2>1
      <3>2. ASSUME NEW j \in 1..(i + 1) PROVE P(i + 1)[j] = Spread(P(i), i, e)[j]
        <4>1. P(i + 1)[j] = s[j] BY <1>2, <2>1
        <4>2. j <= i => P(i)[j] = s[j] BY <1>2, <2>1
        <4>3. j <= i \/ j = i + 1 OBVIOUS
        <4> HIDE DEF P, e
        <4>4. Spread(P(i), i, e)[j] = IF j <= i THEN P(i)[j] ELSE IF j = i + 1 THEN e ELSE P(i)[j - 1]
          BY <2>4 DEF Spread
        <4> QED BY <4>1, <4>2, <4>3, <4>4 DEF e
      <3> DEFINE p == P(i + 1)
      <3>3. p \in Seq(Entry) /\ Len(p) = i + 1 /\ i + 1 \in Nat BY <3>1
      <3> HIDE DEF P, e, p
      <3>4. Spread(P(i), i, e) = [j \in 1..(i + 1) |-> Spread(P(i), i, e)[j]] BY <2>4 DEF Spread
      <3>5. p = [j \in 1..(i + 1) |-> p[j]] BY <3>3
      <3>6. \A j \in 1..(i + 1) : p[j] = Spread(P(i), i, e)[j] BY <3>2 DEF p
      <3>7. p = Spread(P(i), i, e) BY <3>4, <3>5, <3>6
      <3> QED BY <3>7 DEF p
    <2>6. H(P(i + 1)) = y + a + b
      <3>1. i \in 0..Len(P(i)) BY <2>4
      <3> HIDE DEF P, e
      <3> QED BY <2>3, <2>4, <2>5, <3>1, BothSpread
    <2>7. y \in Nat /\ x \in Nat /\ l \in Nat
      <3>1. r[i] \in Seq(Entry) BY <2>2 DEF Maps
      <3> HIDE DEF P
      <3> QED BY <2>4, <3>1, BothType
    <2>8. a \in Nat /\ b \in Nat BY DEF One
    <2>12. z \in Nat /\ lm \in Nat BY <1>2
    <2>9. x <= z + y /\ l <= lm + i /\ (l = lm + i => x = z + y) BY <1>4
    <2>10. CASE Find(r[i], e.key) = {}
      <3>1. H(r[i + 1]) = x + a + b /\ Len(r[i + 1]) = l + 1 BY <2>2, <2>3, <2>10, BothInsert
      <3> HIDE DEF x, y, z, l, lm, a, b, e
      <3>2. x + a + b <= z + (y + a + b) /\ l + 1 <= lm + (i + 1)
            /\ (l + 1 = lm + (i + 1) => x + a + b = z + (y + a + b))
        BY <2>7, <2>8, <2>9, <2>12
      <3> HIDE DEF H, P
      <3> QED BY <2>6, <3>1, <3>2 DEF z, lm
    <2>11. CASE Find(r[i], e.key) # {}
      <3>0. r[i + 1] = r[i] BY <2>2, <2>11 DEF Insert
      <3>1. H(r[i + 1]) = x /\ Len(r[i + 1]) = l BY <3>0
      <3> HIDE DEF x, y, z, l, lm, a, b, e
      <3>2. x <= z + (y + a + b)
        <4>1. a + b \in Nat /\ y + a + b = y + (a + b) BY <2>7, <2>8
        <4> QED BY <2>7, <2>9, <2>12, <4>1
      <3>3. l <= lm + (i + 1) /\ l # lm + (i + 1)
        BY <2>7, <2>8, <2>9, <2>12
      <3> HIDE DEF H, P
      <3> QED BY <2>6, <3>1, <3>2, <3>3 DEF z, lm
    <2> QED BY <2>10, <2>11
  <1> HIDE DEF S
  <1>5. n \in S
    <2>1. 0..n \subseteq S BY <1>2, <1>3, <1>4, UpTo
    <2> QED BY <1>2, <2>1
  <1>6. P(n) = s BY SubSeqFull
  <1>7. r[n] = Update(m, s) BY <1>1 DEF Steady
  <1> HIDE DEF n, H, P
  <1> QED BY <1>5, <1>6, <1>7 DEF S, H, n

\* An entry is the only one that is found by its key, and among those found by any
\* key it is equal to.
LEMMA FindOwn ==
  ASSUME NEW m \in Maps, NEW i \in DOMAIN m
  PROVE  Find(m, m[i].key) = {i}
  <1>1. m \in Seq(Entry) /\ DOMAIN m = 1..Len(m) /\ Sorted(m) BY DEF Maps
  <1>2. m[i].key \in Key BY <1>1, EntryAt
  <1>3. i \in Find(m, m[i].key) BY <1>2, KeysAreOrdered DEF Find
  <1>4. ASSUME NEW j \in Find(m, m[i].key) PROVE j = i
    <2>1. j \in DOMAIN m /\ ~Before(m[j].key, m[i].key) /\ ~Before(m[i].key, m[j].key) BY DEF Find
    <2> QED BY <1>1, <2>1 DEF Sorted
  <1> QED BY <1>3, <1>4

LEMMA FirstOwn ==
  ASSUME NEW m \in Maps, NEW i \in DOMAIN m
  PROVE  First(Find(m, m[i].key)) = i
  BY FindOwn DEF First

LEMMA FindEqual ==
  ASSUME NEW m \in Maps, NEW k \in Key, NEW i \in EqualKeys(m, k)
  PROVE  i \in Find(m, k)
  <1>1. i \in DOMAIN m /\ Equals(ValueOf[m[i].key], ValueOf[k]) BY DEF EqualKeys
  <1>2. m[i].key \in Key BY <1>1, EntryAt DEF Maps
  <1>3. ValueOf[m[i].key] \in Comparable /\ ValueOf[k] \in Comparable BY <1>2, DictsAssumption
  <1>4. SameKey(ValueOf[m[i].key], ValueOf[k]) BY <1>1, <1>3, EqualIsSameKey
  <1> QED BY <1>1, <1>4 DEF Find, SameKey, Before

\* A new value takes the place of an old one.
LEMMA BothChanged ==
  ASSUME NEW m \in Maps, NEW i \in DOMAIN m, NEW v \in Val, NEW o
  PROVE  Times(o, Both(Changed(m, {i}, v))) = Times(o, Both(m)) - One(m[i].val, o) + One(v, o)
  <1> DEFINE t == Changed(m, {i}, v)
             q == Values(m)
  <1>1. m \in Seq(Entry) /\ t \in Seq(Entry) BY ChangedAt DEF Maps
  <1>2. DOMAIN t = DOMAIN m /\ \A j \in DOMAIN m : t[j].key = m[j].key /\ t[j].val = IF j = i THEN v ELSE m[j].val
    BY ChangedAt
  <1>3. q \in Seq(Obj) /\ DOMAIN q = DOMAIN m /\ q[i] = m[i].val /\ v \in Obj
    <2>1. q \in Seq(Obj) BY <1>1, BothType
    <2> QED BY <2>1 DEF Values, Obj
  <1> HIDE DEF t
  <1>4. Keys(t) = Keys(m) BY <1>2 DEF Keys
  <1>5. /\ Values(t) \in Seq(Obj) /\ DOMAIN Values(t) = DOMAIN q /\ Values(t)[i] = v
        /\ \A j \in DOMAIN q : j # i => Values(t)[j] = q[j]
    <2>1. Values(t) \in Seq(Obj) BY <1>1, BothType DEF t
    <2> QED BY <1>2, <2>1 DEF Values
  <1> HIDE DEF q
  <1> DEFINE x == Times(o, Keys(m))
             y == Times(o, q)
             a == One(m[i].val, o)
             b == One(v, o)
  <1>6. Times(o, Values(t)) = y - a + b
    <2>0. i \in DOMAIN q BY <1>3
    <2>1. Times(o, Values(t)) = Times(o, q) - One(q[i], o) + One(Values(t)[i], o)
      BY <1>3, <1>5, <2>0, TimesReplace
    <2>2. One(q[i], o) = One(m[i].val, o) BY <1>3
    <2> QED BY <1>5, <2>1, <2>2
  <1>7. Times(o, Both(t)) = x + Times(o, Values(t)) BY <1>1, <1>4, BothType
  <1>8. Times(o, Both(m)) = x + y /\ x \in Nat /\ y \in Nat BY <1>1, BothType DEF q
  <1>9. a \in Nat /\ b \in Nat BY DEF One
  <1> HIDE DEF x, y, a, b
  <1>10. x + (y - a + b) = (x + y) - a + b BY <1>8, <1>9
  <1> QED BY <1>6, <1>7, <1>8, <1>10 DEF a, b, t

\* What setIdx changes, and what it counts: the counts fall short of nothing,
\* and are exact unless an entry of the key, but not equal to it, is met.
LEMMA BothSetIdx ==
  ASSUME NEW m \in Maps, NEW k \in Key, NEW v \in Val, NEW o
  PROVE  LET set == SetIdx(m, k, v)
             inc == <<k, v>> \o set.increfs
             dec == set.decrefs \o <<k>>
             up  == Times(o, Both(m)) + Times(o, inc) - Times(o, dec)
         IN  /\ inc \in Seq(Obj) /\ dec \in Seq(Obj)
             /\ Times(o, Both(set.raw)) <= up
             /\ EqualKeys(m, k) # {} \/ Find(m, k) = {} => Times(o, Both(set.raw)) = up
  <1> DEFINE set == SetIdx(m, k, v)
             p == set.increfs
             q == set.decrefs
             h == Times(o, Both(m))
             h2 == Times(o, Both(set.raw))
             a == One(k, o)
             b == One(v, o)
  <1>0. k \in Obj /\ v \in Obj /\ m \in Seq(Entry) BY DEF Obj, Maps
  <1>1. h \in Nat /\ a \in Nat /\ b \in Nat BY <1>0, BothType DEF One
  <1>2. ASSUME p \in Seq(Obj), q \in Seq(Obj)
        PROVE  /\ <<k, v>> \o p \in Seq(Obj) /\ q \o <<k>> \in Seq(Obj)
               /\ Times(o, <<k, v>> \o p) = a + b + Times(o, p) /\ Times(o, q \o <<k>>) = Times(o, q) + a
               /\ Times(o, p) \in Nat /\ Times(o, q) \in Nat
    <2> HIDE DEF p, q
    <2>1. <<k, v>> \in Seq(Obj) /\ <<k>> \in Seq(Obj) BY <1>0
    <2>2. Times(o, <<k, v>>) = a + b /\ Times(o, <<k>>) = a BY TimesPair, TimesSingle
    <2>3. /\ Times(o, <<k, v>> \o p) = Times(o, <<k, v>>) + Times(o, p)
          /\ Times(o, q \o <<k>>) = Times(o, q) + Times(o, <<k>>)
          /\ Times(o, p) \in Nat /\ Times(o, q) \in Nat
      BY <1>2, <2>1, TimesConcat, TimesType
    <2>4. <<k, v>> \o p \in Seq(Obj) /\ q \o <<k>> \in Seq(Obj) BY <1>2, <2>1
    <2> HIDE DEF a, b
    <2> QED BY <2>2, <2>3, <2>4
  <1>3. CASE EqualKeys(m, k) = {}
    <2>1. set = [raw |-> Assign(m, k, v), increfs |-> <<k>>, decrefs |-> <<>>] BY <1>3 DEF SetIdx
    <2>2. p = <<k>> /\ q = <<>> /\ set.raw = Assign(m, k, v) BY <2>1
    <2>3. p \in Seq(Obj) /\ q \in Seq(Obj) /\ Times(o, p) = a /\ Times(o, q) = 0 BY <1>0, <2>2, TimesSingle
    <2>4. CASE Find(m, k) = {}
      <3>1. h2 = h + a + b BY <2>2, <2>4, BothInsert DEF Assign
      <3> HIDE DEF h, h2, a, b, p, q, set
      <3>2. h + (a + b + a) - (0 + a) = h + a + b BY <1>1
      <3>3. h2 <= h + (a + b + a) - (0 + a) BY <1>1, <3>1, <3>2
      <3> QED BY <1>2, <2>3, <3>1, <3>2, <3>3 DEF h, h2, p, q, set
    <2>5. CASE Find(m, k) # {}
      <3> DEFINE i == First(Find(m, k))
      <3>1. set.raw = Assign(m, k, v) BY <2>2
      <3>2. i \in DOMAIN m /\ set.raw = Changed(m, {i}, v) BY <2>5, <3>1, AssignFound
      <3> HIDE DEF i
      <3> DEFINE c == One(m[i].val, o)
      <3>4. h2 = h - c + b BY <3>2, BothChanged
      <3>5. c \in Nat BY DEF One
      <3> HIDE DEF h, h2, a, b, c, p, q, set
      <3>6. h + (a + b + a) - (0 + a) = h + a + b BY <1>1
      <3>7. h2 <= h + (a + b + a) - (0 + a) BY <1>1, <3>4, <3>5, <3>6
      <3> QED BY <1>2, <1>3, <2>3, <2>5, <3>7 DEF h, h2, p, q, set
    <2> QED BY <2>4, <2>5
  <1>4. CASE EqualKeys(m, k) # {}
    <2> DEFINE i == First(EqualKeys(m, k))
               c == One(m[i].val, o)
    <2>1. set = [raw |-> Assign(m, m[i].key, v), increfs |-> <<>>, decrefs |-> <<m[i].val>>] BY <1>4 DEF SetIdx
    <2>2. i \in DOMAIN m BY <1>4, FirstEqual
    <2> HIDE DEF i
    <2>3. p = <<>> /\ q = <<m[i].val>> /\ set.raw = Assign(m, m[i].key, v) BY <2>1
    <2>4. m[i].val \in Obj BY <1>0, <2>2, EntryAt DEF Obj
    <2>5. p \in Seq(Obj) /\ q \in Seq(Obj) /\ Times(o, p) = 0 /\ Times(o, q) = c BY <2>3, <2>4, TimesSingle
    <2>6. set.raw = Changed(m, {i}, v)
      <3>1. Find(m, m[i].key) # {} /\ First(Find(m, m[i].key)) = i BY <2>2, FindOwn, FirstOwn
      <3>2. m[i].key \in Key BY <1>0, <2>2, EntryAt
      <3> QED BY <2>3, <3>1, <3>2, AssignFound
    <2>7. h2 = h - c + b BY <2>2, <2>6, BothChanged
    <2>8. c \in Nat BY DEF One
    <2> HIDE DEF h, h2, a, b, c, p, q, set
    <2>9. h + (a + b + 0) - (c + a) = h - c + b BY <1>1, <2>8
    <2>10. h2 <= h + (a + b + 0) - (c + a) BY <1>1, <2>7, <2>8, <2>9
    <2> QED BY <1>2, <2>5, <2>7, <2>9, <2>10 DEF h, h2, p, q, set
  <1> QED BY <1>3, <1>4

-------------------------------------------------------------------------------
(* The holders of an object.                                               *)

HoldersIn(R, o) == UNION {{d} \X Places(o, Both(R[d])) : d \in Dict}

\* The holders in the dicts but one.
HoldersBut(R, o, d) == UNION {{e} \X Places(o, Both(R[e])) : e \in Dict \ {d}}

LEMMA HoldersSplit ==
  ASSUME NEW R \in [Dict -> Maps], NEW o, NEW d \in Dict
  PROVE  /\ Cardinality(HoldersIn(R, o)) = Cardinality(HoldersBut(R, o, d)) + Times(o, Both(R[d]))
         /\ Cardinality(HoldersBut(R, o, d)) \in Nat /\ Times(o, Both(R[d])) \in Nat
         /\ Cardinality(HoldersIn(R, o)) \in Nat
  <1> DEFINE P(e) == Places(o, Both(R[e]))
             A == HoldersBut(R, o, d)
             B == {d} \X P(d)
             rows == {{e} \X P(e) : e \in Dict \ {d}}
  <1>1. ASSUME NEW e \in Dict PROVE IsFiniteSet(P(e)) /\ IsFiniteSet({e} \X P(e)) /\ Times(o, Both(R[e])) \in Nat
    <2>1. R[e] \in Seq(Entry) BY DEF Maps
    <2>2. Both(R[e]) \in Seq(Obj) BY <2>1, BothType
    <2>3. IsFiniteSet(P(e)) /\ Times(o, Both(R[e])) \in Nat BY <2>2, TimesType
    <2> HIDE DEF P
    <2> QED BY <2>3, FS_Singleton, FS_Product
  <1>2. IsFiniteSet(rows)
    <2> DEFINE f == [e \in Dict \ {d} |-> {e} \X P(e)]
    <2>1. IsFiniteSet(Dict \ {d}) BY DictsAssumption, FS_Difference
    <2>2. f \in Surjection(Dict \ {d}, rows)
      <3> HIDE DEF P
      <3> QED BY DEF Surjection
    <2> HIDE DEF f, rows
    <2> QED BY <2>1, <2>2, FS_Surjection
  <1>3. IsFiniteSet(A)
    <2>1. \A T \in rows : IsFiniteSet(T)
      <3> HIDE DEF P
      <3> QED BY <1>1
    <2>2. A = UNION rows BY DEF HoldersBut
    <2> HIDE DEF rows, A
    <2> QED BY <1>2, <2>1, <2>2, FS_UNION
  <1>4. Cardinality(B) = Cardinality(P(d)) /\ IsFiniteSet(B)
    <2> DEFINE f == [i \in P(d) |-> <<d, i>>]
    <2>1. f \in Bijection(P(d), B)
      <3> HIDE DEF P
      <3>1. f \in [P(d) -> B] OBVIOUS
      <3>2. \A p \in B : \E i \in P(d) : f[i] = p OBVIOUS
      <3>3. \A i, j \in P(d) : f[i] = f[j] => i = j OBVIOUS
      <3> HIDE DEF f, B
      <3>4. DOMAIN f = P(d) BY <3>1
      <3> QED BY <3>1, <3>2, <3>3, <3>4 DEF Bijection, Surjection, Injection, IsInjective
    <2> HIDE DEF P, B, f
    <2> QED BY <1>1, <2>1, SameSize
  <1>5. HoldersIn(R, o) = A \cup B /\ A \cap B = {}
    <2>1. HoldersIn(R, o) = UNION {{e} \X P(e) : e \in Dict} BY DEF HoldersIn
    <2>2. A = UNION {{e} \X P(e) : e \in Dict \ {d}} BY DEF HoldersBut
    <2> HIDE DEF P, A
    <2>3. HoldersIn(R, o) = A \cup B BY <2>1, <2>2
    <2>4. ASSUME NEW p \in A, p \in B PROVE FALSE
      <3>1. PICK e \in Dict \ {d} : p \in {e} \X P(e) BY <2>2
      <3>2. p[1] = e BY <3>1
      <3>3. p[1] = d BY <2>4
      <3> QED BY <3>1, <3>2, <3>3
    <2> QED BY <2>3, <2>4
  <1>6. Cardinality(P(d)) = Times(o, Both(R[d])) /\ Times(o, Both(R[d])) \in Nat BY <1>1 DEF Times
  <1> HIDE DEF A, B
  <1>7. Cardinality(A \cup B) = Cardinality(A) + Cardinality(B) /\ Cardinality(A) \in Nat
    BY <1>3, <1>4, <1>5, Disjoint
  <1> QED BY <1>4, <1>5, <1>6, <1>7 DEF A

ReferencesIn(R, V, o) == Cardinality(HoldersIn(R, o)) + Times(o, V) + 1

LEMMA ReferencesType ==
  ASSUME NEW R \in [Dict -> Maps], NEW V \in Seq(Obj), NEW o
  PROVE  /\ Cardinality(HoldersIn(R, o)) \in Nat /\ Times(o, V) \in Nat
         /\ ReferencesIn(R, V, o) \in Nat /\ ReferencesIn(R, V, o) >= 1
  <1>1. Cardinality(HoldersIn(R, o)) \in Nat
    <2>1. CASE Dict = {}
      <3>1. HoldersIn(R, o) = {} BY <2>1 DEF HoldersIn
      <3> QED BY <3>1, FS_EmptySet
    <2>2. CASE Dict # {}
      <3>1. PICK d : d \in Dict BY <2>2
      <3> QED BY <3>1, HoldersSplit
    <2> QED BY <2>1, <2>2
  <1>2. Times(o, V) \in Nat BY TimesType
  <1> DEFINE x == Cardinality(HoldersIn(R, o))
             y == Times(o, V)
  <1>3. ReferencesIn(R, V, o) = x + y + 1 BY DEF ReferencesIn
  <1> HIDE DEF x, y
  <1>4. x \in Nat /\ y \in Nat => x + y + 1 \in Nat /\ x + y + 1 >= 1 OBVIOUS
  <1> QED BY <1>1, <1>2, <1>3, <1>4 DEF x, y

LEMMA ReferencesAre ==
  ASSUME NEW o
  PROVE  References(o) = ReferencesIn(raw, view, o) /\ References(o)' = ReferencesIn(raw', view', o)
  BY DEF References, Holders, HoldersIn, ReferencesIn

\* One dict is replaced.
LEMMA OneDict ==
  ASSUME Ordered, view \in Seq(Obj), NEW d \in Dict, NEW m \in Maps, NEW o,
         raw' = [raw EXCEPT ![d] = m], view' = view
  PROVE  References(o)' = References(o) - Times(o, Both(raw[d])) + Times(o, Both(m))
  <1>1. Ordered' /\ view' \in Seq(Obj) /\ raw'[d] = m /\ raw' \in [Dict -> Maps] /\ raw \in [Dict -> Maps]
    BY DEF Ordered
  <1>2. HoldersBut(raw', o, d) = HoldersBut(raw, o, d)
    <2>1. \A e \in Dict \ {d} : raw'[e] = raw[e] BY DEF Ordered
    <2> QED BY <2>1 DEF HoldersBut
  <1> DEFINE a == Cardinality(HoldersBut(raw, o, d))
             x == Times(o, Both(raw[d]))
             y == Times(o, Both(m))
             z == Times(o, view)
  <1>3. Cardinality(HoldersIn(raw, o)) = a + x /\ a \in Nat /\ x \in Nat BY <1>1, HoldersSplit
  <1>4. Cardinality(HoldersIn(raw', o)) = a + y /\ y \in Nat BY <1>1, <1>2, HoldersSplit
  <1>5. References(o) = Cardinality(HoldersIn(raw, o)) + z + 1 /\ z \in Nat
    BY <1>1, ReferencesType, ReferencesAre DEF ReferencesIn
  <1>6. References(o)' = Cardinality(HoldersIn(raw', o)) + Times(o, view') + 1
    BY ReferencesAre DEF ReferencesIn
  <1> HIDE DEF a, x, y, z
  <1>7. (a + y) + z + 1 = ((a + x) + z + 1) - x + y BY <1>3, <1>4, <1>5
  <1> QED BY <1>3, <1>4, <1>5, <1>6, <1>7 DEF x, y, z

-------------------------------------------------------------------------------
(* The reference counts.                                                   *)

Counts ==
  /\ count \in [Obj -> Int] /\ \A o \in Obj : count[o] <= MaxCount
  /\ view \in Seq(Obj) /\ slack \in BOOLEAN
  /\ NeverDangling /\ ExactlyCounted

LEMMA InitCounts == Init => Counts
  <1> SUFFICES ASSUME Init PROVE Counts OBVIOUS
  <1>1. Ordered /\ view = <<>> /\ view \in Seq(Obj) BY InitOrdered DEF Init
  <1>2. ASSUME NEW o \in Obj PROVE References(o) = 1
    <2>1. ASSUME NEW d \in Dict PROVE Places(o, Both(raw[d])) = {}
      <3>1. raw[d] = <<>> BY DEF Init
      <3>2. Keys(<<>>) = <<>> /\ Values(<<>>) = <<>> BY DEF Keys, Values
      <3>3. Both(<<>>) = <<>> BY <3>2 DEF Both
      <3> QED BY <3>1, <3>3 DEF Places
    <2>2. HoldersIn(raw, o) = {} BY <2>1 DEF HoldersIn
    <2>3. Cardinality(HoldersIn(raw, o)) = 0 BY <2>2, FS_EmptySet
    <2>4. Times(o, view) = 0 BY <1>1, TimesSingle
    <2> QED BY <2>3, <2>4, ReferencesAre DEF ReferencesIn
  <1>3. \A o \in Obj : count[o] = 1 BY DEF Init
  <1>4. count \in [Obj -> Int] /\ slack = FALSE BY DEF Init
  <1>5. 1 <= MaxCount BY DictsAssumption
  <1>6. \A o \in Obj : count[o] = References(o) /\ count[o] >= References(o) BY <1>2, <1>3
  <1>7. NeverDangling /\ ExactlyCounted BY <1>6 DEF NeverDangling, ExactlyCounted
  <1>8. \A o \in Obj : count[o] <= MaxCount BY <1>3, <1>5
  <1>9. slack \in BOOLEAN BY <1>4
  <1> QED BY <1>1, <1>4, <1>7, <1>8, <1>9 DEF Counts

\* A handler keeps the counts right if its increfs and decrefs make up for what
\* the references become.
LEMMA Balanced ==
  ASSUME Ordered, Counts, Ordered', view' \in Seq(Obj), slack' \in BOOLEAN, slack => slack',
         NEW inc \in Seq(Obj), NEW dec \in Seq(Obj), Counted(inc, dec),
         \A o \in Obj : /\ References(o)' <= References(o) + Times(o, inc) - Times(o, dec)
                        /\ ~slack' => References(o)' = References(o) + Times(o, inc) - Times(o, dec)
  PROVE  Counts'
  <1>1. ASSUME NEW o \in Obj
        PROVE  /\ count'[o] = count[o] + Times(o, inc) - Times(o, dec) /\ count'[o] \in Int
               /\ count'[o] >= References(o)' /\ (~slack' => count'[o] = References(o)')
    <2> DEFINE a == Times(o, inc)
               b == Times(o, dec)
               c == count[o]
               r == References(o)
               s == References(o)'
    <2>1. a \in Nat /\ b \in Nat BY TimesType
    <2>2. c \in Int BY DEF Counts
    <2>3. r \in Nat /\ s \in Nat BY ReferencesType, ReferencesAre DEF Counts, Ordered
    <2>4. s <= r + a - b /\ (~slack' => s = r + a - b) OBVIOUS
    <2>5. c >= r /\ (~slack => c = r) BY DEF Counts, NeverDangling, ExactlyCounted
    <2>6. count'[o] = c + a - b BY DEF Counted
    <2> HIDE DEF a, b, c, r, s
    <2>7. c + a - b >= s /\ (~slack' => c + a - b = s) /\ c + a - b \in Int
      BY <2>1, <2>2, <2>3, <2>4, <2>5
    <2> QED BY <2>6, <2>7 DEF a, b, c, r, s
  <1>2. count' \in [Obj -> Int]
    <2>1. count' = [o \in Obj |-> count'[o]] BY DEF Counted
    <2> QED BY <1>1, <2>1
  <1>3. \A o \in Obj : count'[o] <= MaxCount BY DEF Counted
  <1> QED BY <1>1, <1>2, <1>3 DEF Counts, NeverDangling, ExactlyCounted

\* Where no entry of s meets a key, all of them are added.
LEMMA UpdateAddsAll ==
  ASSUME NEW m \in Maps, NEW s \in Maps, ~Overlap(m, s)
  PROVE  Len(Update(m, s)) = Len(m) + Len(s)
  <1>0. s \in Seq(Entry) /\ Sorted(s) /\ Len(s) \in Nat /\ DOMAIN s = 1..Len(s) BY DEF Maps
  <1>1. PICK r : Steady(r, m, s) BY <1>0, UpdateSteps
  <1> DEFINE n == Len(s)
             S == {i \in Nat : Len(r[i]) = Len(m) + i /\ KeySet(r[i]) \subseteq KeySet(m) \cup {s[j].key : j \in 1..i}}
  <1>2. 0 \in S
    <2>1. r[0] = m BY <1>1 DEF Steady
    <2>2. Len(m) \in Nat BY DEF Maps
    <2> QED BY <2>1, <2>2
  <1>3. ASSUME NEW i \in Nat, i < n, i \in S PROVE i + 1 \in S
    <2> DEFINE e == s[i + 1]
    <2>1. i + 1 \in 1..n /\ (i + 1) - 1 = i /\ i \in 0..n /\ i + 1 \in DOMAIN s BY <1>0, <1>3
    <2>2. r[i] \in Maps /\ r[i + 1] = Insert(r[i], e.key, e.val) BY <1>1, <2>1 DEF Steady
    <2>3. e.key \in Key /\ e.val \in Val BY <1>0, <2>1, EntryAt
    <2>4. Find(r[i], e.key) = {}
      <3> SUFFICES ASSUME NEW p \in Find(r[i], e.key) PROVE FALSE OBVIOUS
      <3>1. p \in DOMAIN r[i] /\ ~Before(r[i][p].key, e.key) /\ ~Before(e.key, r[i][p].key) BY DEF Find
      <3>2. r[i][p].key \in KeySet(m) \cup {s[j].key : j \in 1..i} BY <1>3, <3>1 DEF KeySet
      <3>3. CASE r[i][p].key \in KeySet(m)
        <4>1. PICK q \in DOMAIN m : r[i][p].key = m[q].key BY <3>3 DEF KeySet
        <4>2. q \in Find(m, e.key) BY <3>1, <4>1 DEF Find
        <4> QED BY <2>1, <4>2 DEF Overlap
      <3>4. CASE r[i][p].key \in {s[j].key : j \in 1..i}
        <4>1. PICK j \in 1..i : r[i][p].key = s[j].key BY <3>4
        <4>2. j \in DOMAIN s /\ j < i + 1 BY <1>0, <2>1
        <4>3. Before(s[j].key, e.key) BY <1>0, <2>1, <4>2 DEF Sorted
        <4> QED BY <3>1, <4>1, <4>3
      <3> QED BY <3>2, <3>3, <3>4
    <2>5. Len(r[i + 1]) = Len(r[i]) + 1 /\ KeySet(r[i + 1]) \subseteq KeySet(r[i]) \cup {e.key}
      <3> DEFINE t == Insert(r[i], e.key, e.val)
      <3>1. /\ Times(None, Both(t)) = Times(None, Both(r[i])) + One(e.key, None) + One(e.val, None)
            /\ Len(t) = Len(r[i]) + 1 /\ KeySet(t) \subseteq KeySet(r[i]) \cup {e.key}
        BY <2>2, <2>3, <2>4, BothInsert
      <3> QED BY <2>2, <3>1
    <2>6. Len(r[i + 1]) = Len(m) + (i + 1)
      <3>1. Len(m) \in Nat BY DEF Maps
      <3> QED BY <1>3, <2>5, <3>1
    <2>7. KeySet(r[i + 1]) \subseteq KeySet(m) \cup {s[j].key : j \in 1..(i + 1)}
      <3>1. {s[j].key : j \in 1..i} \cup {e.key} \subseteq {s[j].key : j \in 1..(i + 1)} OBVIOUS
      <3> QED BY <1>3, <2>5, <3>1
    <2> QED BY <2>6, <2>7
  <1> HIDE DEF S
  <1>4. n \in S
    <2>1. 0..n \subseteq S BY <1>0, <1>2, <1>3, UpTo
    <2> QED BY <1>0, <2>1
  <1>5. r[n] = Update(m, s) BY <1>1 DEF Steady
  <1> QED BY <1>4, <1>5 DEF S

LEMMA EmptyMap ==
  ASSUME NEW o
  PROVE  <<>> \in Maps /\ Times(o, Both(<<>>)) = 0 /\ Len(<<>>) = 0
  <1>1. <<>> \in Maps BY DEF Maps, Sorted
  <1>2. Keys(<<>>) = <<>> /\ Values(<<>>) = <<>> /\ <<>> \in Seq(Entry) BY DEF Keys, Values
  <1>3. Times(o, Both(<<>>)) = Times(o, Keys(<<>>)) + Times(o, Values(<<>>)) BY <1>2, BothType
  <1>4. Times(o, <<>>) = 0 BY TimesSingle
  <1> QED BY <1>1, <1>2, <1>3, <1>4

\* Where a handler replaces one dict.
LEMMA OneBalanced ==
  ASSUME Ordered, Counts, Ordered', view' = view, slack' \in BOOLEAN, slack => slack',
         NEW d \in Dict, NEW m \in Maps, raw' = [raw EXCEPT ![d] = m],
         NEW inc \in Seq(Obj), NEW dec \in Seq(Obj), Counted(inc, dec),
         \A o : /\ Times(o, Both(m)) <= Times(o, Both(raw[d])) + Times(o, inc) - Times(o, dec)
                /\ ~slack' => Times(o, Both(m)) = Times(o, Both(raw[d])) + Times(o, inc) - Times(o, dec)
  PROVE  Counts'
  <1>1. ASSUME NEW o \in Obj
        PROVE  /\ References(o)' <= References(o) + Times(o, inc) - Times(o, dec)
               /\ ~slack' => References(o)' = References(o) + Times(o, inc) - Times(o, dec)
    <2> DEFINE a == Times(o, inc)
               b == Times(o, dec)
               x == Times(o, Both(raw[d]))
               y == Times(o, Both(m))
               r == References(o)
    <2>1. References(o)' = r - x + y BY OneDict DEF Counts
    <2>2. a \in Nat /\ b \in Nat BY TimesType
    <2>3. r \in Nat
      <3>1. raw \in [Dict -> Maps] /\ view \in Seq(Obj) BY DEF Counts, Ordered
      <3>2. ReferencesIn(raw, view, o) \in Nat BY <3>1, ReferencesType
      <3> QED BY <3>2, ReferencesAre
    <2>4. x \in Nat /\ y \in Nat
      <3>1. raw[d] \in Seq(Entry) /\ m \in Seq(Entry) BY DEF Ordered, Maps
      <3> QED BY <3>1, BothType
    <2>5. y <= x + a - b /\ (~slack' => y = x + a - b) OBVIOUS
    <2> HIDE DEF a, b, x, y, r
    <2>6. r - x + y <= r + a - b /\ (~slack' => r - x + y = r + a - b) BY <2>2, <2>3, <2>4, <2>5
    <2> QED BY <2>1, <2>6 DEF a, b, r
  <1>2. view' \in Seq(Obj) BY DEF Counts
  <1> QED BY <1>1, <1>2, Balanced

LEMMA StoreItemCounts ==
  ASSUME Ordered, Counts, Ordered', NEW d \in Dict, NEW k \in Key, NEW v \in Val, StoreItem(d, k, v)
  PROVE  Counts'
  <1> DEFINE m == raw[d]
             set == SetIdx(m, k, v)
             inc == <<k, v>> \o set.increfs
             dec == set.decrefs \o <<k>>
  <1>1. m \in Maps BY DEF Ordered
  <1>2. raw' = [raw EXCEPT ![d] = set.raw] /\ Counted(inc, dec) /\ view' = view
        /\ slack' = (slack \/ (EqualKeys(m, k) = {} /\ Find(m, k) # {}))
    BY DEF StoreItem, UnchangedLoop
  <1>3. set.raw \in Maps BY <1>1, SetIdxSorts
  <1>4. ASSUME NEW o
        PROVE  /\ inc \in Seq(Obj) /\ dec \in Seq(Obj)
               /\ Times(o, Both(set.raw)) <= Times(o, Both(m)) + Times(o, inc) - Times(o, dec)
               /\ EqualKeys(m, k) # {} \/ Find(m, k) = {} =>
                    Times(o, Both(set.raw)) = Times(o, Both(m)) + Times(o, inc) - Times(o, dec)
    <2> HIDE DEF m
    <2> QED BY <1>1, BothSetIdx
  <1>5. slack' \in BOOLEAN /\ (slack => slack') BY <1>2 DEF Counts
  <1>6. ~slack' => EqualKeys(m, k) # {} \/ Find(m, k) = {} BY <1>2
  <1>7. inc \in Seq(Obj) /\ dec \in Seq(Obj) BY <1>4
  <1>8. \A o : /\ Times(o, Both(set.raw)) <= Times(o, Both(raw[d])) + Times(o, inc) - Times(o, dec)
               /\ ~slack' => Times(o, Both(set.raw)) = Times(o, Both(raw[d])) + Times(o, inc) - Times(o, dec)
    <2> HIDE DEF set, inc, dec
    <2> QED BY <1>4, <1>6
  <1> HIDE DEF set, inc, dec
  <1> QED BY <1>2, <1>3, <1>5, <1>7, <1>8, OneBalanced

LEMMA BuildMapCounts ==
  ASSUME Ordered, Counts, Ordered', NEW d \in Dict, NEW pairs \in Seq(Entry), BuildMap(d, pairs)
  PROVE  Counts'
  <1> DEFINE m == Inserted(pairs)
             inc == Both(pairs)
             dec == Both(raw[d])
             s == Reverse(pairs)
  <1>1. raw[d] \in Seq(Entry) /\ inc \in Seq(Obj) /\ dec \in Seq(Obj) BY BothType DEF Ordered, Maps
  <1>2. raw' = [raw EXCEPT ![d] = m] /\ Counted(inc, dec) /\ view' = view /\ slack' = (slack \/ Len(m) < Len(pairs))
    BY DEF BuildMap, UnchangedLoop
  <1>3. m \in Maps BY InsertedSorts
  <1>4. Len(pairs) \in Nat OBVIOUS
  <1>5. s \in Seq(Entry) /\ Len(s) = Len(pairs)
    <2>1. \A i \in 1..Len(pairs) : pairs[i] \in Entry BY ElementOfSeq
    <2>2. \A i \in 1..Len(pairs) : (Len(pairs) - i) + 1 \in 1..Len(pairs) BY <1>4
    <2>3. s \in [1..Len(pairs) -> Entry] BY <2>1, <2>2 DEF Reverse
    <2> HIDE DEF s
    <2> QED BY <1>4, <2>3
  <1>6. ASSUME NEW o PROVE Times(o, Both(s)) = Times(o, inc)
    <2>1. Keys(s) = Reverse(Keys(pairs)) /\ Values(s) = Reverse(Values(pairs))
      <3>1. DOMAIN s = 1..Len(pairs) /\ DOMAIN pairs = 1..Len(pairs) BY <1>5
      <3>2. \A i \in 1..Len(pairs) : (Len(pairs) - i) + 1 \in 1..Len(pairs) BY <1>4
      <3>3. Len(Keys(pairs)) = Len(pairs) /\ Len(Values(pairs)) = Len(pairs) BY BothType
      <3>4. \A i \in 1..Len(pairs) : s[i] = pairs[(Len(pairs) - i) + 1] BY DEF Reverse
      <3> HIDE DEF s
      <3>5. /\ Keys(s) = [i \in 1..Len(pairs) |-> pairs[(Len(pairs) - i) + 1].key]
            /\ Values(s) = [i \in 1..Len(pairs) |-> pairs[(Len(pairs) - i) + 1].val]
        BY <3>1, <3>4 DEF Keys, Values
      <3>6. /\ Reverse(Keys(pairs)) = [i \in 1..Len(pairs) |-> Keys(pairs)[(Len(pairs) - i) + 1]]
            /\ Reverse(Values(pairs)) = [i \in 1..Len(pairs) |-> Values(pairs)[(Len(pairs) - i) + 1]]
        BY <3>3 DEF Reverse
      <3>7. \A j \in 1..Len(pairs) : Keys(pairs)[j] = pairs[j].key /\ Values(pairs)[j] = pairs[j].val
        BY <3>1 DEF Keys, Values
      <3> QED BY <3>2, <3>5, <3>6, <3>7
    <2> HIDE DEF s
    <2>2. Times(o, Both(s)) = Times(o, Keys(s)) + Times(o, Values(s)) BY <1>5, BothType
    <2>3. Times(o, Both(pairs)) = Times(o, Keys(pairs)) + Times(o, Values(pairs)) BY BothType
    <2>4. Keys(pairs) \in Seq(Obj) /\ Values(pairs) \in Seq(Obj) BY BothType
    <2>5. Times(o, Keys(s)) = Times(o, Keys(pairs)) /\ Times(o, Values(s)) = Times(o, Values(pairs))
      BY <2>1, <2>4, TimesReverse
    <2> QED BY <2>2, <2>3, <2>5
  <1>7. ASSUME NEW o
        PROVE  /\ Times(o, Both(m)) <= Times(o, Both(raw[d])) + Times(o, inc) - Times(o, dec)
               /\ ~slack' => Times(o, Both(m)) = Times(o, Both(raw[d])) + Times(o, inc) - Times(o, dec)
    <2> DEFINE x == Times(o, Both(m))
               a == Times(o, inc)
               b == Times(o, dec)
    <2>1. m = Update(<<>>, s) BY DEF Inserted
    <2>2. /\ Times(o, Both(Update(<<>>, s))) <= Times(o, Both(<<>>)) + Times(o, Both(s))
          /\ Len(Update(<<>>, s)) <= Len(<<>>) + Len(s)
          /\ Len(Update(<<>>, s)) = Len(<<>>) + Len(s) =>
               Times(o, Both(Update(<<>>, s))) = Times(o, Both(<<>>)) + Times(o, Both(s))
      <3> HIDE DEF s
      <3> QED BY <1>5, BothUpdate, EmptyMap
    <2>3. Times(o, Both(<<>>)) = 0 /\ Len(<<>>) = 0 BY EmptyMap
    <2>4. a \in Nat /\ b \in Nat
      <3> HIDE DEF inc, dec
      <3> QED BY <1>1, TimesType
    <2>5. Len(m) \in Nat BY <1>3 DEF Maps
    <2>6. x <= a /\ Len(m) <= Len(pairs) /\ (Len(m) = Len(pairs) => x = a)
      <3> HIDE DEF m, s, inc
      <3>1. Times(o, Both(s)) = a BY <1>6
      <3> HIDE DEF a
      <3> QED BY <1>4, <1>5, <2>1, <2>2, <2>3, <2>4, <3>1
    <2>7. ~slack' => Len(m) = Len(pairs)
      <3>1. ~slack' => ~(Len(m) < Len(pairs)) BY <1>2
      <3> HIDE DEF m, a, b, s, inc
      <3>2. ~(Len(m) < Len(pairs)) => Len(m) = Len(pairs) BY <1>4, <2>5, <2>6
      <3> QED BY <3>1, <3>2
    <2>8. x \in Nat BY <1>3, BothType DEF Maps
    <2> HIDE DEF x, a, m, inc
    <2>9. x <= b + a - b /\ (~slack' => x = b + a - b) BY <2>4, <2>6, <2>7, <2>8
    <2> QED BY <2>9 DEF x, a
  <1>8. slack' \in BOOLEAN /\ (slack => slack') BY <1>2 DEF Counts
  <1> HIDE DEF m, inc, dec
  <1> QED BY <1>1, <1>2, <1>3, <1>7, <1>8, OneBalanced

LEMMA CallUpdateCounts ==
  ASSUME Ordered, Counts, Ordered', NEW d \in Dict, NEW e \in Dict, CallUpdate(d, e)
  PROVE  Counts'
  <1> DEFINE n == raw[e]
             m == Update(raw[d], n)
             inc == Both(n)
             dec == <<>>
  <1>0. raw[d] \in Maps /\ n \in Maps /\ raw[d] \in Seq(Entry) /\ n \in Seq(Entry) BY DEF Ordered, Maps
  <1>1. /\ raw[d] \in Maps /\ n \in Maps /\ raw[d] \in Seq(Entry) /\ n \in Seq(Entry)
        /\ inc \in Seq(Obj) /\ dec \in Seq(Obj)
    <2>1. dec \in Seq(Obj) OBVIOUS
    <2> HIDE DEF n, dec
    <2> QED BY <1>0, <2>1, BothType
  <1>2. raw' = [raw EXCEPT ![d] = m] /\ Counted(inc, dec) /\ view' = view /\ slack' = (slack \/ Overlap(raw[d], n))
    BY DEF CallUpdate, UpdateIncrefs, UnchangedLoop
  <1>3. m \in Maps BY <1>1, UpdateSorts
  <1>4. ASSUME NEW o
        PROVE  /\ Times(o, Both(m)) <= Times(o, Both(raw[d])) + Times(o, inc) - Times(o, dec)
               /\ ~slack' => Times(o, Both(m)) = Times(o, Both(raw[d])) + Times(o, inc) - Times(o, dec)
    <2> DEFINE x == Times(o, Both(m))
               y == Times(o, Both(raw[d]))
               a == Times(o, inc)
    <2>1. x <= y + a /\ (Len(m) = Len(raw[d]) + Len(n) => x = y + a)
      <3> HIDE DEF n
      <3> QED BY <1>1, BothUpdate
    <2>2. ~slack' => Len(m) = Len(raw[d]) + Len(n)
      <3> HIDE DEF n
      <3> QED BY <1>1, <1>2, UpdateAddsAll
    <2>3. Times(o, dec) = 0 BY TimesSingle
    <2>4. x \in Nat /\ y \in Nat /\ a \in Nat
      <3>1. m \in Seq(Entry) BY <1>3 DEF Maps
      <3> HIDE DEF m
      <3> QED BY <1>1, <3>1, BothType
    <2> HIDE DEF x, y, a, m, n, dec
    <2>5. x <= y + a - 0 /\ (~slack' => x = y + a - 0) BY <2>1, <2>2, <2>4
    <2> QED BY <2>3, <2>5 DEF x, y, a
  <1>5. slack' \in BOOLEAN /\ (slack => slack')
    <2>1. Overlap(raw[d], n) \in BOOLEAN BY DEF Overlap
    <2> QED BY <1>2, <2>1 DEF Counts
  <1> HIDE DEF m, inc, dec
  <1> QED BY <1>1, <1>2, <1>3, <1>4, <1>5, OneBalanced

LEMMA PipeCounts ==
  ASSUME Ordered, Counts, Ordered', NEW d \in Dict, NEW e \in Dict, Pipe(d, e)
  PROVE  Counts'
  <1> DEFINE p == raw[d]
             n == raw[e]
             left == Update(<<>>, p)
             m == Update(left, n)
             inc == Both(p) \o Both(n)
             dec == Both(p)
  <1>0. <<>> \in Maps BY EmptyMap
  <1>1. p \in Maps /\ n \in Maps /\ p \in Seq(Entry) /\ n \in Seq(Entry) BY DEF Ordered, Maps
  <1>2. Both(p) \in Seq(Obj) /\ Both(n) \in Seq(Obj)
    <2> HIDE DEF p, n
    <2> QED BY <1>1, BothType
  <1>3. inc \in Seq(Obj) /\ dec \in Seq(Obj)
    <2> HIDE DEF p, n
    <2> QED BY <1>2
  <1>4. raw' = [raw EXCEPT ![d] = m] /\ Counted(inc, dec) /\ view' = view /\ slack' = (slack \/ Overlap(left, n))
    BY DEF Pipe, UpdateIncrefs, UnchangedLoop
  <1>5. left \in Maps /\ m \in Maps
    <2> HIDE DEF p, n
    <2> QED BY <1>0, <1>1, UpdateSorts
  <1>6. ASSUME NEW o
        PROVE  /\ Times(o, Both(m)) <= Times(o, Both(raw[d])) + Times(o, inc) - Times(o, dec)
               /\ ~slack' => Times(o, Both(m)) = Times(o, Both(raw[d])) + Times(o, inc) - Times(o, dec)
    <2> DEFINE x == Times(o, Both(m))
               y == Times(o, Both(p))
               z == Times(o, Both(n))
               l == Times(o, Both(left))
    <2>1. l = y
      <3>1. ~Overlap(<<>>, p) BY DEF Overlap, Find
      <3> HIDE DEF p
      <3>2. Len(left) = Len(<<>>) + Len(p) BY <1>0, <1>1, <3>1, UpdateAddsAll
      <3>3. l = Times(o, Both(<<>>)) + y BY <1>0, <1>1, <3>2, BothUpdate
      <3>4. y \in Nat BY <1>1, BothType
      <3> HIDE DEF y, l
      <3> QED BY <3>3, <3>4, EmptyMap
    <2>2. x <= l + z /\ (Len(m) = Len(left) + Len(n) => x = l + z)
      <3> HIDE DEF left, n
      <3> QED BY <1>1, <1>5, BothUpdate
    <2>3. ~slack' => Len(m) = Len(left) + Len(n)
      <3> HIDE DEF left, n
      <3> QED BY <1>1, <1>4, <1>5, UpdateAddsAll
    <2>4. Times(o, inc) = y + z
      <3> HIDE DEF p, n
      <3> QED BY <1>2, TimesConcat
    <2>5. x \in Nat /\ y \in Nat /\ z \in Nat
      <3>1. m \in Seq(Entry) BY <1>5 DEF Maps
      <3> HIDE DEF m, p, n
      <3> QED BY <1>1, <3>1, BothType
    <2>6. Times(o, dec) = y /\ Times(o, Both(raw[d])) = y OBVIOUS
    <2> HIDE DEF x, y, z, l, m, n, p, left, inc, dec
    <2>7. x <= y + (y + z) - y /\ (~slack' => x = y + (y + z) - y) BY <2>1, <2>2, <2>3, <2>5
    <2> QED BY <2>4, <2>6, <2>7 DEF x
  <1>7. slack' \in BOOLEAN /\ (slack => slack')
    <2>1. Overlap(left, n) \in BOOLEAN BY DEF Overlap
    <2> QED BY <1>4, <2>1 DEF Counts
  <1> HIDE DEF m, inc, dec
  <1> QED BY <1>3, <1>4, <1>5, <1>6, <1>7, OneBalanced

LEMMA DestroyCounts ==
  ASSUME Ordered, Counts, Ordered', NEW d \in Dict, Destroy(d)
  PROVE  Counts'
  <1> DEFINE inc == <<>>
             dec == Both(raw[d])
             m == <<>>
  <1>0. raw[d] \in Seq(Entry) BY DEF Ordered, Maps
  <1>1. inc \in Seq(Obj) /\ dec \in Seq(Obj) /\ m \in Maps
    <2>1. dec \in Seq(Obj) BY <1>0, BothType
    <2> QED BY <2>1, EmptyMap
  <1>2. raw' = [raw EXCEPT ![d] = m] /\ Counted(inc, dec) /\ view' = view /\ slack' = slack
    BY DEF Destroy, UnchangedLoop
  <1>3. ASSUME NEW o
        PROVE  Times(o, Both(m)) = Times(o, Both(raw[d])) + Times(o, inc) - Times(o, dec)
               /\ Times(o, Both(m)) \in Nat
    <2>1. Times(o, Both(m)) = 0 /\ Times(o, inc) = 0 BY EmptyMap, TimesSingle
    <2>2. Times(o, dec) \in Nat BY <1>1, TimesType
    <2> DEFINE b == Times(o, dec)
    <2> HIDE DEF b, m, inc
    <2>3. b + 0 - b = 0 BY <2>2 DEF b
    <2> QED BY <2>1, <2>3 DEF b
  <1>4. slack' \in BOOLEAN /\ (slack => slack') BY <1>2 DEF Counts
  <1>5. \A o : /\ Times(o, Both(m)) <= Times(o, Both(raw[d])) + Times(o, inc) - Times(o, dec)
               /\ ~slack' => Times(o, Both(m)) = Times(o, Both(raw[d])) + Times(o, inc) - Times(o, dec)
    <2> HIDE DEF m, inc, dec
    <2>1. \A x, y : x \in Nat /\ x = y => x <= y OBVIOUS
    <2> QED BY <1>3, <2>1
  <1> HIDE DEF m, inc, dec
  <1> QED BY <1>1, <1>2, <1>4, <1>5, OneBalanced

\* Where a handler changes the view only.
LEMMA ViewBalanced ==
  ASSUME Ordered, Counts, raw' = raw, slack' = slack, view' \in Seq(Obj),
         NEW inc \in Seq(Obj), NEW dec \in Seq(Obj), Counted(inc, dec),
         \A o : Times(o, view') = Times(o, view) + Times(o, inc) - Times(o, dec)
  PROVE  Counts'
  <1>1. Ordered' /\ slack' \in BOOLEAN /\ (slack => slack') BY DEF Ordered, Counts
  <1>2. ASSUME NEW o \in Obj
        PROVE  References(o)' = References(o) + Times(o, inc) - Times(o, dec) /\ References(o)' \in Nat
    <2> DEFINE h == Cardinality(HoldersIn(raw, o))
               x == Times(o, view)
               y == Times(o, view')
               a == Times(o, inc)
               b == Times(o, dec)
    <2>1. References(o) = h + x + 1 /\ h \in Nat /\ x \in Nat
      BY ReferencesType, ReferencesAre DEF Ordered, Counts, ReferencesIn
    <2>2. References(o)' = h + y + 1 BY ReferencesAre DEF ReferencesIn
    <2>3. a \in Nat /\ b \in Nat /\ y \in Nat BY TimesType
    <2>4. y = x + a - b OBVIOUS
    <2> HIDE DEF h, x, y, a, b
    <2>5. h + y + 1 = (h + x + 1) + a - b /\ h + y + 1 \in Nat BY <2>1, <2>3, <2>4
    <2> QED BY <2>1, <2>2, <2>5 DEF a, b
  <1>3. \A x, y : x \in Nat /\ x = y => x <= y OBVIOUS
  <1>4. \A o \in Obj : /\ References(o)' <= References(o) + Times(o, inc) - Times(o, dec)
                       /\ ~slack' => References(o)' = References(o) + Times(o, inc) - Times(o, dec)
    BY <1>2, <1>3
  <1> QED BY <1>1, <1>4, Balanced

LEMMA TakeViewCounts ==
  ASSUME Ordered, Counts, NEW s \in Seq(Obj), TakeView(s)
  PROVE  Counts'
  <1> USE DEF TakeView
  <1>1. <<>> \in Seq(Obj) /\ view = <<>> OBVIOUS
  <1>2. ASSUME NEW o PROVE Times(o, s) = Times(o, view) + Times(o, s) - Times(o, <<>>)
    <2> DEFINE x == Times(o, s)
    <2>1. x \in Nat BY TimesType
    <2>2. Times(o, <<>>) = 0 BY TimesSingle
    <2> HIDE DEF x
    <2>3. x = 0 + x - 0 BY <2>1
    <2> QED BY <1>1, <2>2, <2>3 DEF x
  <1>3. raw' = raw /\ slack' = slack /\ view' = s /\ Counted(s, <<>>) OBVIOUS
  <1> QED BY <1>1, <1>2, <1>3, ViewBalanced

LEMMA DropViewCounts == ASSUME Ordered, Counts, DropView PROVE Counts'
  <1> USE DEF DropView
  <1>1. <<>> \in Seq(Obj) /\ view \in Seq(Obj) BY DEF Counts
  <1>2. ASSUME NEW o PROVE Times(o, <<>>) = Times(o, view) + Times(o, <<>>) - Times(o, view)
    <2> DEFINE x == Times(o, view)
    <2>1. x \in Nat BY <1>1, TimesType
    <2>2. Times(o, <<>>) = 0 BY TimesSingle
    <2> HIDE DEF x
    <2>3. 0 = x + 0 - x BY <2>1
    <2> QED BY <2>2, <2>3 DEF x
  <1>3. raw' = raw /\ slack' = slack /\ view' = <<>> /\ Counted(<<>>, view) OBVIOUS
  <1> QED BY <1>1, <1>2, <1>3, ViewBalanced

LEMMA NextCounts ==
  ASSUME Ordered, Counts, [Next]_vars
  PROVE  Counts'
  <1>0. Ordered' BY NextOrdered
  <1>1. ASSUME NEW d \in Dict, NEW e \in Dict, CallUpdate(d, e) PROVE Counts'
    BY <1>0, <1>1, CallUpdateCounts
  <1>2. ASSUME NEW d \in Dict, NEW e \in Dict, Pipe(d, e) PROVE Counts'
    BY <1>0, <1>2, PipeCounts
  <1>3. ASSUME NEW d \in Dict, NEW k \in Key, NEW v \in Val, StoreItem(d, k, v) PROVE Counts'
    BY <1>0, <1>3, StoreItemCounts
  <1>4. ASSUME NEW d \in Dict, NEW n \in 0..MaxPairs, NEW pairs \in [1..n -> Entry], BuildMap(d, pairs)
        PROVE  Counts'
    <2>1. n \in Nat BY DictsAssumption
    <2>2. pairs \in Seq(Entry) BY <2>1
    <2> QED BY <1>0, <1>4, <2>2, BuildMapCounts
  <1>5. ASSUME NEW d \in Dict, Destroy(d) PROVE Counts' BY <1>0, <1>5, DestroyCounts
  <1>6. ASSUME NEW d \in Dict, CallKeys(d) \/ CallValues(d) \/ CallItems(d) PROVE Counts'
    <2>1. raw[d] \in Seq(Entry) BY DEF Ordered, Maps
    <2>2. Keys(raw[d]) \in Seq(Obj) /\ Values(raw[d]) \in Seq(Obj) /\ Both(raw[d]) \in Seq(Obj)
      BY <2>1, BothType
    <2> QED BY <1>6, <2>2, TakeViewCounts DEF CallKeys, CallValues, CallItems
  <1>7. CASE DropView BY <1>7, DropViewCounts
  <1>8. CASE UNCHANGED <<raw, count, view, slack>>
    BY <1>8 DEF Counts, NeverDangling, ExactlyCounted, References, Holders
  <1> QED BY <1>1, <1>2, <1>3, <1>4, <1>5, <1>6, <1>7, <1>8 DEF Next, vars, GetIter, ForIter, PopIter

LEMMA SpecCounts == Spec => [](Ordered /\ Counts /\ Loop)
  <1>1. Ordered /\ Counts /\ Loop /\ [Next]_vars => (Ordered /\ Counts /\ Loop)'
    BY NextOrdered, NextCounts, NextLoop
  <1>2. Init => Ordered /\ Counts /\ Loop BY InitOrdered, InitCounts, InitLoop
  <1> QED BY <1>1, <1>2, PTL DEF Spec

\* No dict, view or variable is left with an object that was freed: whatever is
\* stored, built, merged or destroyed, there are at least as many counts as references.
THEOREM NothingDangles == Spec => []NeverDangling
  <1>1. Counts => NeverDangling BY DEF Counts
  <1> QED BY SpecCounts, <1>1, PTL

\* Until an insertion meets its key there are no more counts than references either.
THEOREM CountsAreExact == Spec => []ExactlyCounted
  <1>1. Counts => ExactlyCounted BY DEF Counts
  <1> QED BY SpecCounts, <1>1, PTL

\* Every step keeps the types; a count is never 0, so that no key or value of a
\* variable is freed under it.
THEOREM TypeCorrect == Spec => []TypeOK
  <1>1. ASSUME Ordered, Counts, Loop PROVE TypeOK
    <2>1. raw \in [Dict -> Seq(Entry)] BY <1>1 DEF Ordered, Maps
    <2>2. ASSUME NEW o \in Obj PROVE count[o] \in 1..MaxCount
      <3>1. References(o) \in Nat /\ References(o) >= 1
        BY <1>1, ReferencesType, ReferencesAre DEF Ordered, Counts
      <3>2. count[o] \in Int /\ count[o] >= References(o) /\ count[o] <= MaxCount
        BY <1>1 DEF Counts, NeverDangling
      <3> QED BY <3>1, <3>2, DictsAssumption
    <2>3. count \in [Obj -> 1..MaxCount] BY <1>1, <2>2 DEF Counts
    <2> QED BY <1>1, <2>1, <2>3 DEF Counts, Loop, TypeOK
  <1> QED BY SpecCounts, <1>1, PTL

-------------------------------------------------------------------------------
(* What the maps stand for.                                                *)

\* Keys that are one key for PyObjPtrCompare are equal.
OneKeyIsEqual == \A k, l \in Key : SameKey(ValueOf[k], ValueOf[l]) => EqualInPython(ValueOf[k], ValueOf[l])

\* Equality is an equivalence, and equal objects are one key.
LEMMA EqualIsEquivalence ==
  ASSUME NEW a, NEW b, NEW c
  PROVE  /\ EqualInPython(a, a)
         /\ EqualInPython(a, b) => EqualInPython(b, a)
         /\ EqualInPython(a, b) /\ EqualInPython(b, c) => EqualInPython(a, c)
  <1>1. \A x, y, z : /\ EqualScalars(x, x)
                     /\ EqualScalars(x, y) => EqualScalars(y, x)
                     /\ EqualScalars(x, y) /\ EqualScalars(y, z) => EqualScalars(x, z)
    BY DEF EqualScalars
  <1>2. \A x, y : EqualScalars(x, y) => (IsSequence(x) <=> IsSequence(y))
    BY DEF EqualScalars, IsNumber, IsSequence
  <1>3. ASSUME NEW x, NEW y, IsSequence(x), IsSequence(y)
        PROVE  EqualInPython(x, y) <=> /\ x[1] = y[1] /\ Len(x[2]) = Len(y[2])
                                       /\ \A i \in 1..Len(x[2]) : EqualScalars(x[2][i], y[2][i])
    BY <1>3 DEF EqualInPython
  <1>4. ASSUME NEW x, NEW y, ~IsSequence(x) \/ ~IsSequence(y)
        PROVE  EqualInPython(x, y) <=> EqualScalars(x, y) /\ ~IsSequence(x) /\ ~IsSequence(y)
    BY <1>2, <1>4 DEF EqualInPython
  <1>5. EqualInPython(a, a) BY <1>1 DEF EqualInPython
  <1>6. EqualInPython(a, b) => EqualInPython(b, a)
    <2>1. CASE IsSequence(a) /\ IsSequence(b) BY <1>1, <1>3, <2>1
    <2>2. CASE ~IsSequence(a) \/ ~IsSequence(b) BY <1>1, <1>4, <2>2
    <2> QED BY <2>1, <2>2
  <1>7. ASSUME EqualInPython(a, b), EqualInPython(b, c) PROVE EqualInPython(a, c)
    <2>1. CASE IsSequence(b)
      <3>1. IsSequence(a) /\ IsSequence(c) BY <1>4, <1>7, <2>1
      <3>2. /\ a[1] = b[1] /\ Len(a[2]) = Len(b[2])
            /\ \A i \in 1..Len(a[2]) : EqualScalars(a[2][i], b[2][i])
        BY <1>3, <1>7, <2>1, <3>1
      <3>3. /\ b[1] = c[1] /\ Len(b[2]) = Len(c[2])
            /\ \A i \in 1..Len(b[2]) : EqualScalars(b[2][i], c[2][i])
        BY <1>3, <1>7, <2>1, <3>1
      <3>4. \A i \in 1..Len(a[2]) : EqualScalars(a[2][i], c[2][i]) BY <1>1, <3>2, <3>3
      <3> QED BY <1>3, <3>1, <3>2, <3>3, <3>4
    <2>2. CASE ~IsSequence(b) BY <1>1, <1>4, <1>7, <2>2
    <2> QED BY <2>1, <2>2
  <1> QED BY <1>5, <1>6, <1>7

LEMMA EqualInPythonIsSameKey ==
  ASSUME NEW a \in Comparable, NEW b \in Comparable, EqualInPython(a, b)
  PROVE  SameKey(a, b)
  <1> USE GroupType
  <1>1. CASE IsNumber(a) /\ IsNumber(b)
    <2>1. a[2] = b[2] BY <1>1 DEF EqualInPython, EqualScalars, IsNumber, IsSequence
    <2>2. AsDouble(a) \in Int /\ AsDouble(b) \in Int /\ a[2] \in Int /\ b[2] \in Int BY <1>1, AsDoubleIsMonotone
    <2>3. AsDouble(a) <= AsDouble(b) /\ AsDouble(b) <= AsDouble(a)
      <3>1. a[2] <= b[2] /\ b[2] <= a[2] BY <2>1, <2>2
      <3> QED BY <1>1, <3>1, AsDoubleIsMonotone
    <2>4. ~Lighter(a, b) /\ ~Lighter(b, a) BY <1>1, <2>1, <2>2, <2>3 DEF Lighter
    <2> QED BY <1>1, <2>4, LessIsLexicographic DEF SameKey
  <1>2. CASE IsSequence(a) /\ IsSequence(b)
    <2>1. a[1] = b[1] /\ Len(a[2]) = Len(b[2]) BY <1>2 DEF EqualInPython
    <2>2. Group(a) = Group(b) /\ Weight(a) = Weight(b) /\ ~Rounded(a, b) /\ ~Rounded(b, a)
      BY <1>2, <2>1 DEF Group, Weight, Rounded, IsNumber, IsSequence
    <2> QED BY <2>2, LessIsLexicographic DEF SameKey, Lighter
  <1>3. CASE ~ (IsNumber(a) /\ IsNumber(b)) /\ ~ (IsSequence(a) /\ IsSequence(b))
    <2>1. a = b BY <1>3 DEF EqualInPython, EqualScalars
    <2> QED BY <2>1, StrictPartialOrder DEF SameKey
  <1> QED BY <1>1, <1>2, <1>3

\* Numbers, strings and None are equal where they are one key, unless an int is
\* beyond the doubles.
LEMMA ScalarsQualify ==
  ASSUME \A k \in Key : ~IsSequence(ValueOf[k]) /\ Exact(ValueOf[k])
  PROVE  OneKeyIsEqual
  <1>1. ASSUME NEW a \in Comparable, NEW b \in Comparable, ~IsSequence(a), ~IsSequence(b), Exact(a), Exact(b),
               SameKey(a, b)
        PROVE  EqualInPython(a, b)
    <2>1. Group(a) = Group(b) BY <1>1, GroupType, LessIsLexicographic DEF SameKey
    <2>2. ~ (Weight(a) < Weight(b)) /\ ~ (Weight(b) < Weight(a))
      BY <1>1, <2>1, LessIsLexicographic, ExactIsNotRounded DEF SameKey
    <2>3. Weight(a) = Weight(b) BY <2>2, GroupType
    <2>4. a[2] = b[2] BY <1>1, <2>3 DEF Weight
    <2>5. CASE IsNumber(a)
      <3>1. IsNumber(b) BY <2>1, <2>5, GroupType
      <3> QED BY <1>1, <2>4, <2>5, <3>1 DEF EqualInPython, EqualScalars
    <2>6. CASE ~IsNumber(a)
      <3>1. ~IsNumber(b) BY <2>1, <2>6, GroupType
      <3>2. a[1] = b[1] BY <1>1, <2>1, <2>6, <3>1, ScalarType DEF Group, Position, IsNumber
      <3>3. a = b
        <4>1. a = <<a[1], a[2]>> /\ b = <<b[1], b[2]>> BY <1>1, ScalarType
        <4> QED BY <2>4, <3>2, <4>1
      <3> QED BY <3>3, EqualIsEquivalence
    <2> QED BY <2>5, <2>6
  <1>2. \A k \in Key : ValueOf[k] \in Comparable BY DictsAssumption
  <1> QED BY <1>1, <1>2 DEF OneKeyIsEqual

\* The classes of equal keys are then those of the order.
LEMMA ClassOfOrder ==
  ASSUME OneKeyIsEqual, NEW k \in Key, NEW l \in Key
  PROVE  Class[k] = Class[l] <=> ~Before(k, l) /\ ~Before(l, k)
  <1>1. \A j \in Key : ValueOf[j] \in Comparable BY DictsAssumption
  <1>2. ASSUME NEW i \in Key, NEW j \in Key
        PROVE  EqualInPython(ValueOf[i], ValueOf[j]) <=> SameKey(ValueOf[i], ValueOf[j])
    BY <1>1, EqualInPythonIsSameKey DEF OneKeyIsEqual
  <1>3. \A j \in Key : Class[j] = {i \in Key : EqualInPython(ValueOf[i], ValueOf[j])} BY DEF Class
  <1>4. ASSUME Class[k] = Class[l] PROVE EqualInPython(ValueOf[k], ValueOf[l])
    <2>1. k \in Class[k] BY <1>3, EqualIsEquivalence
    <2>2. k \in Class[l] BY <1>4, <2>1
    <2> QED BY <1>3, <2>2
  <1>5. ASSUME EqualInPython(ValueOf[k], ValueOf[l]) PROVE Class[k] = Class[l]
    <2>1. \A i \in Key : EqualInPython(ValueOf[i], ValueOf[k]) <=> EqualInPython(ValueOf[i], ValueOf[l])
      BY <1>5, EqualIsEquivalence
    <2> QED BY <1>3, <2>1
  <1> QED BY <1>2, <1>4, <1>5 DEF SameKey, Before

Classes(m) == {Class[m[i].key] : i \in DOMAIN m}

\* f is what m stands for.
Stands(f, m) ==
  /\ f = [c \in Classes(m) |-> f[c]]
  /\ \A i \in DOMAIN m : f[Class[m[i].key]] = m[i].val

LEMMA OneClass ==
  ASSUME OneKeyIsEqual, NEW m \in Maps, NEW i \in DOMAIN m, NEW j \in DOMAIN m, Class[m[i].key] = Class[m[j].key]
  PROVE  i = j
  <1>1. m \in Seq(Entry) /\ DOMAIN m = 1..Len(m) /\ Sorted(m) BY DEF Maps
  <1>2. m[i].key \in Key /\ m[j].key \in Key BY <1>1, EntryAt
  <1>3. ~Before(m[i].key, m[j].key) /\ ~Before(m[j].key, m[i].key) BY <1>2, ClassOfOrder
  <1> QED BY <1>1, <1>3 DEF Sorted

LEMMA ContentsStands ==
  ASSUME OneKeyIsEqual, NEW m \in Maps, NEW f
  PROVE  Stands(f, m) <=> f = Contents(m)
  <1> DEFINE V(c) == m[CHOOSE i \in DOMAIN m : Class[m[i].key] = c].val
  <1>1. Contents(m) = [c \in Classes(m) |-> V(c)] BY DEF Contents, Classes
  <1>2. ASSUME NEW i \in DOMAIN m PROVE V(Class[m[i].key]) = m[i].val
    <2> DEFINE j == CHOOSE j \in DOMAIN m : Class[m[j].key] = Class[m[i].key]
    <2>1. j \in DOMAIN m /\ Class[m[j].key] = Class[m[i].key] OBVIOUS
    <2> HIDE DEF j
    <2>2. j = i BY <2>1, OneClass
    <2> QED BY <2>2 DEF j
  <1> HIDE DEF V
  <1>3. ASSUME f = Contents(m) PROVE Stands(f, m)
    <2>1. f = [c \in Classes(m) |-> V(c)] BY <1>1, <1>3
    <2>2. f = [c \in Classes(m) |-> f[c]] BY <2>1
    <2>3. ASSUME NEW i \in DOMAIN m PROVE f[Class[m[i].key]] = m[i].val
      <3>1. Class[m[i].key] \in Classes(m) BY DEF Classes
      <3> QED BY <1>2, <2>1, <3>1
    <2> QED BY <2>2, <2>3 DEF Stands
  <1>4. ASSUME Stands(f, m) PROVE f = Contents(m)
    <2>1. ASSUME NEW c \in Classes(m) PROVE f[c] = V(c)
      <3>1. PICK i \in DOMAIN m : c = Class[m[i].key] BY DEF Classes
      <3> QED BY <1>2, <1>4, <3>1 DEF Stands
    <2>2. f = [c \in Classes(m) |-> f[c]] BY <1>4 DEF Stands
    <2> QED BY <1>1, <2>1, <2>2
  <1> QED BY <1>3, <1>4

\* What is found of a key is in the entry of its class.
LEMMA FindClass ==
  ASSUME OneKeyIsEqual, NEW m \in Maps, NEW k \in Key
  PROVE  /\ Find(m, k) = {i \in DOMAIN m : Class[m[i].key] = Class[k]}
         /\ Find(m, k) # {} <=> Class[k] \in Classes(m)
  <1>1. \A i \in DOMAIN m : m[i].key \in Key BY EntryAt DEF Maps
  <1>2. \A i \in DOMAIN m : Class[m[i].key] = Class[k] <=> ~Before(m[i].key, k) /\ ~Before(k, m[i].key)
    BY <1>1, ClassOfOrder
  <1> QED BY <1>2 DEF Find, Classes

LEMMA ValueStands ==
  ASSUME OneKeyIsEqual, NEW m \in Maps, NEW f, Stands(f, m), NEW k \in Key
  PROVE  In(m, k) = Python!Has(f, k) /\ Value(m, k) = Python!Looked(f, k)
  <1>1. DOMAIN f = Classes(m) BY DEF Stands
  <1>2. Find(m, k) # {} <=> Class[k] \in Classes(m) BY FindClass
  <1>3. ASSUME Find(m, k) = {} PROVE In(m, k) = Python!Has(f, k) /\ Value(m, k) = Python!Looked(f, k)
    BY <1>1, <1>2, <1>3 DEF In, Value, Python!Has, Python!Looked
  <1>4. ASSUME Find(m, k) # {} PROVE In(m, k) = Python!Has(f, k) /\ Value(m, k) = Python!Looked(f, k)
    <2> DEFINE i == First(Find(m, k))
    <2>1. i \in Find(m, k)
      <3>1. Find(m, k) \in SUBSET Nat BY DEF Maps, Find
      <3> QED BY <1>4, <3>1, FirstIs
    <2> HIDE DEF i
    <2>2. i \in DOMAIN m /\ Class[m[i].key] = Class[k] BY <2>1, FindClass
    <2>3. f[Class[k]] = m[i].val BY <2>2 DEF Stands
    <2>4. Value(m, k) = m[i].val BY <1>4 DEF Value, i
    <2> QED BY <1>1, <1>2, <1>4, <2>3, <2>4 DEF In, Python!Has, Python!Looked
  <1> QED BY <1>3, <1>4

LEMMA SizeStands ==
  ASSUME OneKeyIsEqual, NEW m \in Maps, NEW f, Stands(f, m)
  PROVE  Len(m) = Python!Size(f)
  <1>1. DOMAIN f = Classes(m) BY DEF Stands
  <1>2. Len(m) = Cardinality(Classes(m))
    <2> DEFINE g == [i \in 1..Len(m) |-> Class[m[i].key]]
    <2>1. Len(m) \in Nat /\ DOMAIN m = 1..Len(m) BY DEF Maps
    <2>2. g \in [1..Len(m) -> Classes(m)] BY <2>1 DEF Classes
    <2>3. \A c \in Classes(m) : \E i \in 1..Len(m) : g[i] = c BY <2>1 DEF Classes
    <2>4. \A i, j \in 1..Len(m) : g[i] = g[j] => i = j BY <2>1, OneClass
    <2>5. g \in Bijection(1..Len(m), Classes(m))
      <3> HIDE DEF g
      <3> QED BY <2>2, <2>3, <2>4 DEF Bijection, Surjection, Injection, IsInjective
    <2>6. IsFiniteSet(1..Len(m)) /\ Cardinality(1..Len(m)) = IF 1 > Len(m) THEN 0 ELSE Len(m) - 1 + 1
      BY <2>1, FS_Interval
    <2>7. Cardinality(Classes(m)) = Cardinality(1..Len(m))
      <3> HIDE DEF g
      <3> QED BY <2>5, <2>6, SameSize
    <2> QED BY <2>1, <2>6, <2>7
  <1> QED BY <1>1, <1>2 DEF Python!Size, Python!Cardinality, Cardinality

-------------------------------------------------------------------------------
(* What the operations do to it.                                           *)

\* The entries of a map, as a set.
Entries(m) == {m[i] : i \in DOMAIN m}

LEMMA InsertEntries ==
  ASSUME NEW m \in Maps, NEW k \in Key, NEW v \in Val, Find(m, k) = {}
  PROVE  Entries(Insert(m, k, v)) = Entries(m) \cup {[key |-> k, val |-> v]}
  <1> DEFINE e == [key |-> k, val |-> v]
  <1>1. PICK c \in 0..Len(m) : Insert(m, k, v) = Spread(m, c, e) BY InsertMissing
  <1>2. m \in Seq(Entry) /\ e \in Entry /\ Len(m) \in Nat /\ DOMAIN m = 1..Len(m) BY DEF Maps, Entry
  <1> HIDE DEF e
  <1> DEFINE t == Spread(m, c, e)
  <1>3. DOMAIN t = 1..(Len(m) + 1) BY <1>2, SpreadType
  <1>4. ASSUME NEW i \in 1..(Len(m) + 1) PROVE t[i] \in Entries(m) \cup {e}
    <2>1. CASE i <= c
      <3>1. i \in DOMAIN m BY <1>2, <2>1
      <3> QED BY <2>1, <3>1 DEF Spread, Entries
    <2>2. CASE i = c + 1 BY <2>2 DEF Spread
    <2>3. CASE i > c + 1
      <3>1. i - 1 \in DOMAIN m /\ ~(i <= c) /\ i # c + 1 BY <1>2, <2>3
      <3> QED BY <3>1 DEF Spread, Entries
    <2> QED BY <1>2, <2>1, <2>2, <2>3
  <1>5. ASSUME NEW i \in 1..Len(m) PROVE \E j \in DOMAIN t : t[j] = m[i]
    <2>1. CASE i <= c
      <3>1. i \in DOMAIN t /\ t[i] = m[i] BY <1>2, <2>1 DEF Spread
      <3> QED BY <3>1
    <2>2. CASE i > c
      <3>1. i + 1 \in DOMAIN t /\ t[i + 1] = m[i] BY <1>2, <2>2 DEF Spread
      <3> QED BY <3>1
    <2> QED BY <1>2, <2>1, <2>2
  <1>6. c + 1 \in DOMAIN t /\ t[c + 1] = e BY <1>2 DEF Spread
  <1> HIDE DEF t
  <1>7. Entries(t) = Entries(m) \cup {e} BY <1>2, <1>3, <1>4, <1>5, <1>6 DEF Entries
  <1> QED BY <1>1, <1>7 DEF t, e

LEMMA ClassesOf ==
  ASSUME NEW m
  PROVE  Classes(m) = {Class[e.key] : e \in Entries(m)}
  BY DEF Classes, Entries

\* f stands for m if it has its classes, and the value of each entry.
LEMMA StandsByEntries ==
  ASSUME NEW m \in Maps, NEW f
  PROVE  Stands(f, m) <=> /\ f = [c \in Classes(m) |-> f[c]]
                          /\ \A e \in Entries(m) : f[Class[e.key]] = e.val
  BY DEF Stands, Entries

LEMMA AssignStands ==
  ASSUME OneKeyIsEqual, NEW m \in Maps, NEW f, Stands(f, m), NEW k \in Key, NEW v \in Val
  PROVE  Stands(Python!Stored(f, k, v), Assign(m, k, v))
  <1> DEFINE g == Python!Stored(f, k, v)
             t == Assign(m, k, v)
  <1>1. DOMAIN f = Classes(m) BY DEF Stands
  <1>2. g = [c \in Classes(m) \cup {Class[k]} |-> IF c = Class[k] THEN v ELSE f[c]] BY <1>1 DEF Python!Stored
  <1>3. t \in Maps BY AssignSorts
  <1>4. CASE Find(m, k) = {}
    <2> DEFINE e == [key |-> k, val |-> v]
    <2>1. t = Insert(m, k, v) BY <1>4 DEF Assign
    <2>2. Entries(t) = Entries(m) \cup {e} BY <1>4, <2>1, InsertEntries
    <2>3. Classes(t) = Classes(m) \cup {Class[k]}
      <3>1. e.key = k OBVIOUS
      <3> HIDE DEF t, e
      <3> QED BY <2>2, <3>1, ClassesOf
    <2>4. Class[k] \notin Classes(m) BY <1>4, FindClass
    <2> HIDE DEF g, t
    <2>5. ASSUME NEW x \in Entries(m) PROVE g[Class[x.key]] = x.val
      <3>1. Class[x.key] \in Classes(m) BY ClassesOf
      <3>2. f[Class[x.key]] = x.val BY StandsByEntries
      <3> QED BY <1>2, <2>4, <3>1, <3>2
    <2>6. g[Class[e.key]] = e.val BY <1>2
    <2>7. g = [c \in Classes(t) |-> g[c]] BY <1>2, <2>3
    <2> HIDE DEF e
    <2>8. \A x \in Entries(t) : g[Class[x.key]] = x.val BY <2>2, <2>5, <2>6
    <2>9. Stands(g, t) BY <1>3, <2>7, <2>8, StandsByEntries
    <2> QED BY <2>9 DEF g, t
  <1>5. CASE Find(m, k) # {}
    <2> DEFINE F == {First(Find(m, k))}
    <2>1. t = Changed(m, F, v) BY <1>5, AssignFound
    <2>2. /\ DOMAIN t = DOMAIN m
          /\ \A i \in DOMAIN m : t[i].key = m[i].key /\ t[i].val = IF i \in F THEN v ELSE m[i].val
      BY <2>1, ChangedAt
    <2>3. \A i \in DOMAIN m : i \in F <=> Class[m[i].key] = Class[k]
      <3> DEFINE j == First(Find(m, k))
      <3>1. j \in Find(m, k) BY <1>5, AssignFound
      <3> HIDE DEF j
      <3>2. j \in DOMAIN m /\ Class[m[j].key] = Class[k] BY <3>1, FindClass
      <3> SUFFICES ASSUME NEW i \in DOMAIN m PROVE i = j <=> Class[m[i].key] = Class[k] BY DEF j
      <3> QED BY <3>2, OneClass
    <2>4. Class[k] \in Classes(m) BY <1>5, FindClass
    <2> HIDE DEF g, t, F
    <2>5. Classes(t) = Classes(m) BY <2>2 DEF Classes
    <2>6. Classes(m) \cup {Class[k]} = Classes(t) BY <2>4, <2>5
    <2>7. g = [c \in Classes(t) |-> g[c]] BY <1>2, <2>6
    <2>8. ASSUME NEW i \in DOMAIN t PROVE g[Class[t[i].key]] = t[i].val
      <3>1. i \in DOMAIN m /\ Class[m[i].key] \in Classes(m) BY <2>2 DEF Classes
      <3>2. f[Class[m[i].key]] = m[i].val BY <3>1 DEF Stands
      <3> QED BY <1>2, <2>2, <2>3, <3>1, <3>2
    <2>9. Stands(g, t) BY <2>7, <2>8 DEF Stands
    <2> QED BY <2>9 DEF g, t
  <1> QED BY <1>4, <1>5

LEMMA SetIdxStands ==
  ASSUME OneKeyIsEqual, NEW m \in Maps, NEW f, Stands(f, m), NEW k \in Key, NEW v \in Val
  PROVE  Stands(Python!Stored(f, k, v), SetIdx(m, k, v).raw)
  <1>1. CASE EqualKeys(m, k) = {} BY <1>1, AssignStands DEF SetIdx
  <1>2. CASE EqualKeys(m, k) # {}
    <2> DEFINE i == First(EqualKeys(m, k))
    <2>1. SetIdx(m, k, v).raw = Assign(m, m[i].key, v) BY <1>2 DEF SetIdx
    <2>2. i \in DOMAIN m /\ Equals(ValueOf[m[i].key], ValueOf[k]) BY <1>2, FirstEqual
    <2> HIDE DEF i
    <2>3. m[i].key \in Key BY <2>2, EntryAt DEF Maps
    <2>4. i \in EqualKeys(m, k) BY <2>2 DEF EqualKeys
    <2>5. i \in Find(m, k) BY <2>4, FindEqual
    <2>6. Class[m[i].key] = Class[k] BY <2>5, FindClass
    <2>7. Python!Stored(f, m[i].key, v) = Python!Stored(f, k, v) BY <2>6 DEF Python!Stored
    <2> QED BY <2>1, <2>3, <2>7, AssignStands
  <1> QED BY <1>1, <1>2

\* What update() leaves is from one map or the other, and has the keys of both.
LEMMA UpdateEntries ==
  ASSUME OneKeyIsEqual, NEW m \in Maps, NEW s \in Seq(Entry)
  PROVE  /\ Entries(Update(m, s)) \subseteq Entries(m) \cup Entries(s)
         /\ Classes(Update(m, s)) = Classes(m) \cup Classes(s)
  <1>1. PICK r : Steady(r, m, s) BY UpdateSteps
  <1> DEFINE n == Len(s)
             S == {i \in Nat : /\ Entries(r[i]) \subseteq Entries(m) \cup Entries(s)
                               /\ Classes(r[i]) = Classes(m) \cup {Class[s[j].key] : j \in 1..i}}
  <1>2. n \in Nat /\ DOMAIN s = 1..n OBVIOUS
  <1>3. 0 \in S BY <1>1 DEF Steady
  <1>4. ASSUME NEW i \in Nat, i < n, i \in S PROVE i + 1 \in S
    <2> DEFINE e == s[i + 1]
    <2>1. i + 1 \in 1..n /\ (i + 1) - 1 = i /\ i \in 0..n /\ i + 1 \in DOMAIN s BY <1>2, <1>4
    <2>2. r[i] \in Maps /\ r[i + 1] = Insert(r[i], e.key, e.val) BY <1>1, <2>1 DEF Steady
    <2>3. e.key \in Key /\ e.val \in Val /\ e \in Entry BY <2>1, EntryAt
    <2>4. e = [key |-> e.key, val |-> e.val] BY <2>3 DEF Entry
    <2>5. {Class[s[j].key] : j \in 1..(i + 1)} = {Class[s[j].key] : j \in 1..i} \cup {Class[e.key]}
      <3>1. \A j \in 1..(i + 1) : j \in 1..i \/ j = i + 1 OBVIOUS
      <3>2. 1..i \subseteq 1..(i + 1) /\ i + 1 \in 1..(i + 1) OBVIOUS
      <3> QED BY <3>1, <3>2
    <2>6. e \in Entries(s) BY <2>1 DEF Entries
    <2>7. CASE Find(r[i], e.key) = {}
      <3>1. Entries(r[i + 1]) = Entries(r[i]) \cup {e} BY <2>2, <2>3, <2>4, <2>7, InsertEntries
      <3>2. Classes(r[i + 1]) = Classes(r[i]) \cup {Class[e.key]}
        <4> HIDE DEF e
        <4> QED BY <3>1, ClassesOf
      <3> HIDE DEF e
      <3> QED BY <1>4, <2>5, <2>6, <3>1, <3>2
    <2>8. CASE Find(r[i], e.key) # {}
      <3>1. r[i + 1] = r[i] BY <2>2, <2>8 DEF Insert
      <3>2. Class[e.key] \in Classes(r[i]) BY <2>2, <2>3, <2>8, FindClass
      <3> DEFINE C == {Class[s[j].key] : j \in 1..i}
                 D == {Class[s[j].key] : j \in 1..(i + 1)}
      <3>3. D = C \cup {Class[e.key]} /\ Classes(r[i]) = Classes(m) \cup C BY <1>4, <2>5
      <3> HIDE DEF e, C, D
      <3>4. Classes(r[i]) = Classes(m) \cup D BY <3>2, <3>3
      <3> QED BY <1>4, <3>1, <3>4 DEF D
    <2> QED BY <2>7, <2>8
  <1> HIDE DEF S
  <1>5. n \in S
    <2>1. 0..n \subseteq S BY <1>2, <1>3, <1>4, UpTo
    <2> QED BY <1>2, <2>1
  <1>6. r[n] = Update(m, s) BY <1>1 DEF Steady
  <1>7. Classes(s) = {Class[s[j].key] : j \in 1..n} BY <1>2 DEF Classes
  <1> HIDE DEF n
  <1> QED BY <1>5, <1>6, <1>7 DEF S

LEMMA UpdateMerges ==
  ASSUME OneKeyIsEqual, NEW m \in Maps, NEW s \in Maps, NEW f, Stands(f, m), NEW g, Stands(g, s)
  PROVE  Contents(Update(m, s)) \in Python!Merges(f, g)
  <1> DEFINE t == Update(m, s)
             h == Contents(t)
             vals == {f[c] : c \in DOMAIN f} \cup {g[c] : c \in DOMAIN g}
  <1>0. s \in Seq(Entry) BY DEF Maps
  <1>1. t \in Maps BY <1>0, UpdateSorts
  <1>2. Entries(t) \subseteq Entries(m) \cup Entries(s) /\ Classes(t) = Classes(m) \cup Classes(s)
    BY <1>0, UpdateEntries
  <1>3. DOMAIN f = Classes(m) /\ DOMAIN g = Classes(s) BY DEF Stands
  <1> HIDE DEF t
  <1>4. Stands(h, t) BY <1>1, ContentsStands
  <1> HIDE DEF h
  <1>5. h = [c \in DOMAIN f \cup DOMAIN g |-> h[c]] BY <1>2, <1>3, <1>4 DEF Stands
  <1>6. ASSUME NEW c \in DOMAIN f \cup DOMAIN g
        PROVE  (c \in DOMAIN f /\ h[c] = f[c]) \/ (c \in DOMAIN g /\ h[c] = g[c])
    <2>1. PICK e \in Entries(t) : c = Class[e.key] BY <1>2, <1>3, ClassesOf
    <2>2. h[c] = e.val BY <1>1, <1>4, <2>1, StandsByEntries
    <2>3. CASE e \in Entries(m)
      <3>1. c \in Classes(m) BY <2>1, <2>3, ClassesOf
      <3>2. f[c] = e.val BY <2>1, <2>3, StandsByEntries
      <3> QED BY <1>3, <2>2, <3>1, <3>2
    <2>4. CASE e \in Entries(s)
      <3>1. c \in Classes(s) BY <2>1, <2>4, ClassesOf
      <3>2. g[c] = e.val BY <2>1, <2>4, StandsByEntries
      <3> QED BY <1>3, <2>2, <3>1, <3>2
    <2> QED BY <1>2, <2>3, <2>4
  <1>7. \A c \in DOMAIN f \cup DOMAIN g : h[c] \in vals BY <1>6
  <1> HIDE DEF vals
  <1>8. h \in [DOMAIN f \cup DOMAIN g -> vals] BY <1>5, <1>7
  <1>9. DOMAIN h = DOMAIN f \cup DOMAIN g BY <1>8
  <1> QED BY <1>6, <1>8, <1>9 DEF Python!Merges, vals, h, t

\* The copy that d | e begins with stands for the same.
LEMMA CopyStands ==
  ASSUME OneKeyIsEqual, NEW m \in Maps, NEW f, Stands(f, m)
  PROVE  Stands(f, Update(<<>>, m))
  <1> DEFINE t == Update(<<>>, m)
  <1>0. m \in Seq(Entry) /\ <<>> \in Maps BY EmptyMap DEF Maps
  <1>1. t \in Maps BY <1>0, UpdateSorts
  <1>2. Entries(<<>>) = {} /\ Classes(<<>>) = {} BY DEF Entries, Classes
  <1>3. Entries(t) \subseteq Entries(<<>>) \cup Entries(m) /\ Classes(t) = Classes(<<>>) \cup Classes(m)
    BY <1>0, UpdateEntries
  <1>4. Entries(t) \subseteq Entries(m) /\ Classes(t) = Classes(m) BY <1>2, <1>3
  <1> HIDE DEF t
  <1>5. \A e \in Entries(t) : f[Class[e.key]] = e.val BY <1>4, StandsByEntries
  <1>6. f = [c \in Classes(t) |-> f[c]] BY <1>4 DEF Stands
  <1>7. Stands(f, t) BY <1>1, <1>5, <1>6, StandsByEntries
  <1> QED BY <1>7 DEF t

-------------------------------------------------------------------------------
(* A dict display: the last pair of a key wins, whether the pairs are      *)
(* stored in order or inserted from the last to the first.                 *)

\* No pair behind j has its key.
LastOfKey(p, j, n) == \A l \in (j + 1)..n : Class[p[l].key] # Class[p[j].key]

LEMMA EmptyStands ==
  ASSUME NEW V
  PROVE  Python!Empty = <<>> /\ Stands(Python!Empty, <<>>) /\ <<>> \in [{} -> V]
  <1>1. Python!Empty = <<>> BY DEF Python!Empty
  <1>2. Classes(<<>>) = {} BY DEF Classes
  <1>3. <<>> = [c \in {} |-> <<>>[c]] OBVIOUS
  <1>4. Stands(<<>>, <<>>) BY <1>2, <1>3 DEF Stands
  <1>5. <<>> \in [{} -> V] OBVIOUS
  <1> QED BY <1>1, <1>4, <1>5

LEMMA BuiltSteps ==
  ASSUME NEW p \in Seq(Entry)
  PROVE  \E g : /\ g[0] = <<>> /\ g[Len(p)] = Python!Built(p)
                /\ \A i \in 1..Len(p) : g[i] = Python!Stored(g[i - 1], p[i].key, p[i].val)
  <1> DEFINE n == Len(p)
             V == UNION {[S -> Val] : S \in SUBSET (SUBSET Key)}
             F(f) == [i \in 0..n |-> IF i = 0 THEN Python!Empty ELSE Python!Stored(f[i - 1], p[i].key, p[i].val)]
             G == CHOOSE f : f = F(f)
             step == [i \in 1..n |-> [x \in V |-> Python!Stored(x, p[i].key, p[i].val)]]
  <1>1. n \in Nat OBVIOUS
  <1>2. Python!Built(p) = G[n] BY DEF Python!Built
  <1>3. ASSUME NEW i \in 1..n, NEW x \in V PROVE Python!Stored(x, p[i].key, p[i].val) \in V
    <2>1. p[i].key \in Key /\ p[i].val \in Val BY EntryAt
    <2>2. PICK S \in SUBSET (SUBSET Key) : x \in [S -> Val] OBVIOUS
    <2> DEFINE c == Class[p[i].key]
    <2>3. c \in SUBSET Key BY <2>1 DEF Class
    <2> HIDE DEF c
    <2>4. [y \in S \cup {c} |-> IF y = c THEN p[i].val ELSE x[y]] \in [S \cup {c} -> Val] BY <2>1, <2>2
    <2>5. Python!Stored(x, p[i].key, p[i].val) \in [S \cup {c} -> Val]
      <3>1. DOMAIN x = S BY <2>2
      <3> QED BY <2>4, <3>1 DEF Python!Stored, c
    <2> DEFINE T == S \cup {c}
               y == Python!Stored(x, p[i].key, p[i].val)
    <2>6. T \in SUBSET (SUBSET Key) BY <2>3
    <2>7. y \in [T -> Val] BY <2>5
    <2> HIDE DEF T, y
    <2>8. y \in V BY <2>6, <2>7
    <2> QED BY <2>8 DEF y
  <1>4. <<>> \in V
    <2>1. <<>> \in [{} -> Val] BY EmptyStands
    <2> QED BY <2>1
  <1> HIDE DEF n, V
  <1>5. step \in Steps(n, V) BY <1>3 DEF Steps
  <1>6. \A i \in 1..n, x \in V : step[i][x] = Python!Stored(x, p[i].key, p[i].val) OBVIOUS
  <1> HIDE DEF step
  <1>7. PICK g : Follows(g, n, V, <<>>, step) BY <1>1, <1>4, <1>5, Recursion
  <1>8. g = F(g)
    <2>1. g \in [0..n -> V] /\ g[0] = <<>> BY <1>7 DEF Follows
    <2>2. ASSUME NEW i \in 0..n PROVE g[i] = F(g)[i]
      <3>1. CASE i = 0 BY <2>1, <3>1, EmptyStands
      <3>2. CASE i # 0
        <4>1. i \in 1..n /\ i - 1 \in 0..n BY <1>1, <3>2
        <4>2. g[i] = step[i][g[i - 1]] BY <1>7, <4>1 DEF Follows
        <4>3. g[i - 1] \in V BY <2>1, <4>1
        <4>4. step[i][g[i - 1]] = Python!Stored(g[i - 1], p[i].key, p[i].val) BY <1>6, <4>1, <4>3
        <4> QED BY <3>2, <4>2, <4>4
      <3> QED BY <3>1, <3>2
    <2>3. g = [i \in 0..n |-> g[i]] BY <2>1
    <2>4. F(g) = [i \in 0..n |-> F(g)[i]] OBVIOUS
    <2> HIDE DEF F
    <2> QED BY <2>2, <2>3, <2>4
  <1>9. G = F(G)
    <2> HIDE DEF F
    <2> QED BY <1>8
  <1> HIDE DEF G
  <1>10. G[0] = <<>> /\ \A i \in 1..n : G[i] = Python!Stored(G[i - 1], p[i].key, p[i].val)
    BY <1>1, <1>9, EmptyStands
  <1> HIDE DEF F
  <1> QED BY <1>2, <1>10 DEF n

LEMMA BuiltKeepsLast ==
  ASSUME NEW p \in Seq(Entry)
  PROVE  LET f == Python!Built(p)
         IN  /\ f = [c \in Classes(p) |-> f[c]]
             /\ \A j \in DOMAIN p : LastOfKey(p, j, Len(p)) => f[Class[p[j].key]] = p[j].val
  <1>1. PICK g : /\ g[0] = <<>> /\ g[Len(p)] = Python!Built(p)
                 /\ \A i \in 1..Len(p) : g[i] = Python!Stored(g[i - 1], p[i].key, p[i].val)
    BY BuiltSteps
  <1> DEFINE n == Len(p)
             C(i) == {Class[p[j].key] : j \in 1..i}
             Q(i) == /\ g[i] = [c \in C(i) |-> g[i][c]]
                     /\ \A j \in 1..i : LastOfKey(p, j, i) => g[i][Class[p[j].key]] = p[j].val
             S == {i \in Nat : Q(i)}
  <1>2. n \in Nat /\ DOMAIN p = 1..n OBVIOUS
  <1>3. 0 \in S
    <2>1. g[0] = <<>> BY <1>1
    <2>2. 1..0 = {} /\ C(0) = {} OBVIOUS
    <2>3. <<>> = [c \in {} |-> <<>>[c]] OBVIOUS
    <2> QED BY <2>1, <2>2, <2>3
  <1>4. ASSUME NEW i \in Nat, i < n, i \in S PROVE i + 1 \in S
    <2> DEFINE k == Class[p[i + 1].key]
               v == p[i + 1].val
               f == g[i]
               h == g[i + 1]
    <2>1. i + 1 \in 1..n /\ (i + 1) - 1 = i BY <1>2, <1>4
    <2>2. h = Python!Stored(f, p[i + 1].key, v) BY <1>1, <2>1
    <2>3. f = [c \in C(i) |-> f[c]] BY <1>4
    <2>4. DOMAIN f = C(i) BY <2>3
    <2>5. C(i + 1) = C(i) \cup {k}
      <3>1. \A j \in 1..(i + 1) : j \in 1..i \/ j = i + 1 OBVIOUS
      <3>2. 1..i \subseteq 1..(i + 1) /\ i + 1 \in 1..(i + 1) OBVIOUS
      <3> QED BY <3>1, <3>2
    <2>6. h = [c \in C(i) \cup {k} |-> IF c = k THEN v ELSE f[c]] BY <2>2, <2>4 DEF Python!Stored
    <2>7. ASSUME NEW j \in 1..(i + 1), LastOfKey(p, j, i + 1) PROVE h[Class[p[j].key]] = p[j].val
      <3>1. CASE j = i + 1
        <4>1. Class[p[j].key] = k /\ p[j].val = v BY <3>1
        <4> HIDE DEF h, k, v, f, C
        <4> QED BY <2>6, <4>1
      <3>2. CASE j # i + 1
        <4>1. j \in 1..i /\ i + 1 \in (j + 1)..(i + 1) /\ (j + 1)..i \subseteq (j + 1)..(i + 1) BY <3>2
        <4>2. k # Class[p[j].key] /\ LastOfKey(p, j, i) BY <2>7, <4>1 DEF LastOfKey
        <4>3. f[Class[p[j].key]] = p[j].val BY <1>4, <4>1, <4>2
        <4>4. Class[p[j].key] \in C(i) BY <4>1
        <4> HIDE DEF h, k, v, f, C
        <4> QED BY <2>6, <4>2, <4>3, <4>4
      <3> QED BY <3>1, <3>2
    <2>8. h = [c \in C(i + 1) |-> h[c]]
      <3> HIDE DEF h, k, v, f, C
      <3> QED BY <2>5, <2>6
    <2> QED BY <2>7, <2>8
  <1> HIDE DEF S
  <1>5. n \in S
    <2>1. 0..n \subseteq S BY <1>2, <1>3, <1>4, UpTo
    <2> QED BY <1>2, <2>1
  <1>6. Classes(p) = C(n) BY <1>2 DEF Classes
  <1>7. Q(n) BY <1>5 DEF S
  <1> HIDE DEF C, n
  <1> QED BY <1>1, <1>2, <1>6, <1>7 DEF n

LEMMA InsertedKeepsLast ==
  ASSUME OneKeyIsEqual, NEW p \in Seq(Entry)
  PROVE  /\ Classes(Inserted(p)) = Classes(p)
         /\ \A e \in Entries(Inserted(p)) : \E j \in DOMAIN p : e = p[j] /\ LastOfKey(p, j, Len(p))
  <1> DEFINE s == Reverse(p)
             n == Len(p)
             C(i) == {Class[p[j].key] : j \in (n - i + 1)..n}
  <1>1. n \in Nat /\ DOMAIN p = 1..n OBVIOUS
  <1>2. s \in Seq(Entry) /\ Len(s) = n /\ \A i \in 1..n : s[i] = p[(n - i) + 1]
    <2>1. \A i \in 1..n : p[i] \in Entry BY ElementOfSeq
    <2>2. \A i \in 1..n : (n - i) + 1 \in 1..n BY <1>1
    <2>3. s \in [1..n -> Entry] /\ \A i \in 1..n : s[i] = p[(n - i) + 1] BY <2>1, <2>2 DEF Reverse
    <2> HIDE DEF s, n
    <2> QED BY <1>1, <2>3
  <1> HIDE DEF s
  <1>3. PICK r : Steady(r, <<>>, s) BY <1>2, EmptyMap, UpdateSteps
  <1> DEFINE Q(i) == /\ Classes(r[i]) = C(i)
                     /\ \A e \in Entries(r[i]) : \E j \in (n - i + 1)..n : e = p[j] /\ LastOfKey(p, j, n)
             S == {i \in Nat : Q(i)}
  <1>4. 0 \in S
    <2>1. r[0] = <<>> BY <1>3 DEF Steady
    <2>2. Classes(<<>>) = {} /\ Entries(<<>>) = {} BY DEF Classes, Entries
    <2>3. (n - 0 + 1)..n = {} BY <1>1
    <2> QED BY <2>1, <2>2, <2>3
  <1>5. ASSUME NEW i \in Nat, i < n, i \in S PROVE i + 1 \in S
    <2> DEFINE x == n - i
               e == p[x]
    <2>1. i + 1 \in 1..n /\ (i + 1) - 1 = i /\ i \in 0..n /\ x \in 1..n /\ (n - (i + 1)) + 1 = x
          /\ n - i + 1 = x + 1 /\ n - (i + 1) + 1 = x
      BY <1>1, <1>5
    <2>2. s[i + 1] = e BY <1>2, <2>1
    <2>3. r[i] \in Maps /\ r[i + 1] = Insert(r[i], e.key, e.val) BY <1>2, <1>3, <2>1, <2>2 DEF Steady
    <2>4. e.key \in Key /\ e.val \in Val /\ e \in Entry BY <1>1, <2>1, EntryAt
    <2>5. e = [key |-> e.key, val |-> e.val] BY <2>4 DEF Entry
    <2>6. x..n = {x} \cup ((x + 1)..n) BY <1>1, <2>1
    <2>7. C(i) = {Class[p[j].key] : j \in (x + 1)..n} /\ C(i + 1) = {Class[p[j].key] : j \in x..n} BY <2>1
    <2>8. C(i + 1) = C(i) \cup {Class[e.key]} BY <2>6, <2>7
    <2>9. Classes(r[i]) = C(i) /\ \A y \in Entries(r[i]) : \E j \in (x + 1)..n : y = p[j] /\ LastOfKey(p, j, n)
      BY <1>5, <2>1
    <2> HIDE DEF C, x
    <2>10. CASE Find(r[i], e.key) = {}
      <3>1. Entries(r[i + 1]) = Entries(r[i]) \cup {e} BY <2>3, <2>4, <2>5, <2>10, InsertEntries
      <3>2. Classes(r[i + 1]) = Classes(r[i]) \cup {Class[e.key]}
        <4> HIDE DEF e
        <4> QED BY <3>1, ClassesOf
      <3>3. Class[e.key] \notin C(i) BY <2>3, <2>4, <2>9, <2>10, FindClass
      <3>4. LastOfKey(p, x, n) BY <2>7, <3>3 DEF LastOfKey
      <3>5. x \in x..n BY <2>6
      <3>6. \A y \in Entries(r[i + 1]) : \E j \in x..n : y = p[j] /\ LastOfKey(p, j, n)
        BY <2>6, <2>9, <3>1, <3>4, <3>5
      <3>7. Classes(r[i + 1]) = C(i + 1) BY <2>8, <2>9, <3>2
      <3>8. Q(i + 1) BY <2>1, <3>6, <3>7
      <3> QED BY <3>8
    <2>11. CASE Find(r[i], e.key) # {}
      <3>1. r[i + 1] = r[i] BY <2>3, <2>11 DEF Insert
      <3>2. Class[e.key] \in Classes(r[i]) BY <2>3, <2>4, <2>11, FindClass
      <3>3. C(i + 1) = C(i) BY <2>8, <2>9, <3>2
      <3>4. \A y \in Entries(r[i + 1]) : \E j \in x..n : y = p[j] /\ LastOfKey(p, j, n)
        BY <2>6, <2>9, <3>1
      <3>5. Q(i + 1) BY <2>1, <2>9, <3>1, <3>3, <3>4
      <3> QED BY <3>5
    <2> QED BY <2>10, <2>11
  <1> HIDE DEF S
  <1>6. n \in S
    <2>1. 0..n \subseteq S BY <1>1, <1>4, <1>5, UpTo
    <2> QED BY <1>1, <2>1
  <1>7. r[n] = Inserted(p) BY <1>2, <1>3 DEF Steady, Inserted, s
  <1>8. n - n + 1 = 1 BY <1>1
  <1>9. Classes(p) = {Class[p[j].key] : j \in 1..n} BY <1>1 DEF Classes
  <1>10. Q(n) BY <1>6 DEF S
  <1> HIDE DEF n
  <1> QED BY <1>1, <1>7, <1>8, <1>9, <1>10 DEF n

LEMMA InsertedStands ==
  ASSUME OneKeyIsEqual, NEW p \in Seq(Entry)
  PROVE  Stands(Python!Built(p), Inserted(p))
  <1> DEFINE f == Python!Built(p)
             t == Inserted(p)
  <1>1. t \in Maps BY InsertedSorts
  <1>2. /\ f = [c \in Classes(p) |-> f[c]]
        /\ \A j \in DOMAIN p : LastOfKey(p, j, Len(p)) => f[Class[p[j].key]] = p[j].val
    BY BuiltKeepsLast
  <1>3. Classes(t) = Classes(p) /\ \A e \in Entries(t) : \E j \in DOMAIN p : e = p[j] /\ LastOfKey(p, j, Len(p))
    BY InsertedKeepsLast
  <1> HIDE DEF f, t
  <1>4. \A e \in Entries(t) : f[Class[e.key]] = e.val BY <1>2, <1>3
  <1>5. f = [c \in Classes(t) |-> f[c]] BY <1>2, <1>3
  <1>6. Stands(f, t) BY <1>1, <1>4, <1>5, StandsByEntries
  <1> QED BY <1>6 DEF f, t

-------------------------------------------------------------------------------
(* The maps stand for Python dicts.                                        *)

Meant == meant = [d \in Dict |-> Contents(raw[d])]

LEMMA MeantStands ==
  ASSUME OneKeyIsEqual, Ordered, Meant, NEW d \in Dict
  PROVE  raw[d] \in Maps /\ Stands(meant[d], raw[d])
  <1>1. raw[d] \in Maps /\ meant[d] = Contents(raw[d]) BY DEF Ordered, Meant
  <1> QED BY <1>1, ContentsStands

LEMMA OneMeant ==
  ASSUME OneKeyIsEqual, Ordered, Meant, NEW d \in Dict, NEW m \in Maps, NEW f, Stands(f, m),
         raw' = [raw EXCEPT ![d] = m], meant' = [meant EXCEPT ![d] = f]
  PROVE  Meant'
  <1>1. f = Contents(m) BY ContentsStands
  <1>2. \A e \in Dict : raw'[e] = IF e = d THEN m ELSE raw[e] BY DEF Ordered
  <1>3. \A e \in Dict : meant'[e] = IF e = d THEN f ELSE Contents(raw[e]) BY DEF Meant
  <1>4. meant' = [e \in Dict |-> meant'[e]] BY DEF Meant
  <1>5. \A e \in Dict : meant'[e] = Contents(raw'[e]) BY <1>1, <1>2, <1>3
  <1> QED BY <1>4, <1>5 DEF Meant

\* A merged dict.
LEMMA MergedMeant ==
  ASSUME OneKeyIsEqual, Ordered, Meant, NEW d \in Dict, NEW e \in Dict, NEW m \in Maps,
         raw' = [raw EXCEPT ![d] = m], Contents(m) \in Python!Merges(meant[d], meant[e]), Merged(d, e)
  PROVE  Meant'
  <1>1. raw'[d] = m BY DEF Ordered
  <1>2. meant' = [meant EXCEPT ![d] = Contents(m)] BY <1>1 DEF Merged
  <1>3. Stands(Contents(m), m) BY ContentsStands
  <1> QED BY <1>2, <1>3, OneMeant

LEMMA NextMeant ==
  ASSUME OneKeyIsEqual, Ordered, Meant, [Next]_vars
  PROVE  Meant'
  <1>0. \A d \in Dict : raw[d] \in Maps /\ raw[d] \in Seq(Entry) BY DEF Ordered, Maps
  <1>1. ASSUME NEW d \in Dict, NEW e \in Dict, CallUpdate(d, e) PROVE Meant'
    <2> DEFINE m == Update(raw[d], raw[e])
    <2>1. Stands(meant[d], raw[d]) /\ Stands(meant[e], raw[e]) BY MeantStands
    <2>2. m \in Maps /\ Contents(m) \in Python!Merges(meant[d], meant[e])
      BY <1>0, <2>1, UpdateSorts, UpdateMerges
    <2>3. raw' = [raw EXCEPT ![d] = m] /\ Merged(d, e) BY <1>1 DEF CallUpdate
    <2> HIDE DEF m
    <2> QED BY <2>2, <2>3, MergedMeant
  <1>2. ASSUME NEW d \in Dict, NEW e \in Dict, Pipe(d, e) PROVE Meant'
    <2> DEFINE left == Update(<<>>, raw[d])
               m == Update(left, raw[e])
    <2>1. Stands(meant[d], raw[d]) /\ Stands(meant[e], raw[e]) BY MeantStands
    <2>2. Stands(meant[d], left) BY <1>0, <2>1, CopyStands
    <2>3. left \in Maps BY <1>0, EmptyMap, UpdateSorts
    <2>4. raw' = [raw EXCEPT ![d] = m] /\ Merged(d, e) BY <1>2 DEF Pipe
    <2> HIDE DEF left
    <2>5. m \in Maps /\ Contents(m) \in Python!Merges(meant[d], meant[e])
      BY <1>0, <2>1, <2>2, <2>3, UpdateSorts, UpdateMerges
    <2> HIDE DEF m
    <2> QED BY <2>4, <2>5, MergedMeant
  <1>3. ASSUME NEW d \in Dict, NEW k \in Key, NEW v \in Val, StoreItem(d, k, v) PROVE Meant'
    <2> DEFINE m == SetIdx(raw[d], k, v).raw
               f == Python!Stored(meant[d], k, v)
    <2>1. Stands(meant[d], raw[d]) BY MeantStands
    <2>2. m \in Maps /\ Stands(f, m) BY <1>0, <2>1, SetIdxSorts, SetIdxStands
    <2>3. raw' = [raw EXCEPT ![d] = m] /\ meant' = [meant EXCEPT ![d] = f] BY <1>3 DEF StoreItem
    <2> HIDE DEF m, f
    <2> QED BY <2>2, <2>3, OneMeant
  <1>4. ASSUME NEW d \in Dict, NEW n \in 0..MaxPairs, NEW pairs \in [1..n -> Entry], BuildMap(d, pairs)
        PROVE  Meant'
    <2>1. n \in Nat BY DictsAssumption
    <2>2. pairs \in Seq(Entry) BY <2>1
    <2>3. Inserted(pairs) \in Maps /\ Stands(Python!Built(pairs), Inserted(pairs))
      BY <2>2, InsertedSorts, InsertedStands
    <2> QED BY <1>4, <2>3, OneMeant DEF BuildMap
  <1>5. ASSUME NEW d \in Dict, Destroy(d) PROVE Meant'
    <2>1. <<>> \in Maps /\ Stands(Python!Empty, <<>>) BY EmptyMap, EmptyStands
    <2>2. raw' = [raw EXCEPT ![d] = <<>>] /\ meant' = [meant EXCEPT ![d] = Python!Empty] BY <1>5 DEF Destroy
    <2> QED BY <2>1, <2>2, OneMeant
  <1>6. CASE UNCHANGED <<raw, meant>> BY <1>6 DEF Meant
  <1> QED BY <1>1, <1>2, <1>3, <1>4, <1>5, <1>6
          DEF Next, vars, CallKeys, CallValues, CallItems, TakeView, DropView, GetIter, ForIter, PopIter

LEMMA InitMeant == ASSUME OneKeyIsEqual PROVE Init => Meant
  <1> SUFFICES ASSUME Init PROVE Meant OBVIOUS
  <1>1. <<>> \in Maps /\ Stands(Python!Empty, <<>>) BY EmptyMap, EmptyStands
  <1>2. Python!Empty = Contents(<<>>) BY <1>1, ContentsStands
  <1>3. \A d \in Dict : raw[d] = <<>> BY DEF Init
  <1>4. meant = [d \in Dict |-> Python!Empty] BY DEF Init
  <1> HIDE DEF Init
  <1> QED BY <1>2, <1>3, <1>4 DEF Meant

\* As long as keys that are one key for PyObjPtrCompare are equal, a dict holds
\* what a Python dict would hold after every sequence of operations, and len, in,
\* get and [] answer so.
THEOREM IsADict == ASSUME OneKeyIsEqual PROVE Spec => []IsPythonDict
  <1>1. Ordered /\ Meant /\ [Next]_vars => (Ordered /\ Meant)' BY NextOrdered, NextMeant
  <1>2. Init => Ordered /\ Meant BY InitOrdered, InitMeant
  <1>3. ASSUME Ordered, Meant PROVE IsPythonDict
    <2> SUFFICES ASSUME NEW d \in Dict
                 PROVE  /\ Contents(raw[d]) = meant[d] /\ Len(raw[d]) = Python!Size(meant[d])
                        /\ \A k \in Key : /\ In(raw[d], k) = Python!Has(meant[d], k)
                                          /\ Value(raw[d], k) = Python!Looked(meant[d], k)
      BY DEF IsPythonDict
    <2>1. raw[d] \in Maps /\ Stands(meant[d], raw[d]) BY <1>3, MeantStands
    <2>2. Contents(raw[d]) = meant[d] BY <2>1, ContentsStands
    <2> QED BY <2>1, <2>2, ValueStands, SizeStands
  <1> QED BY <1>1, <1>2, <1>3, PTL DEF Spec

===============================================================================
