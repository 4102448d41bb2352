------------------------------ MODULE PythonDict ------------------------------
(***************************************************************************)
(* What a dict promises (py_dict.hpp: "a mutable mapping type that maps    *)
(* keys to values"), whatever it is made of: a function from keys to       *)
(* values, where equal objects are one key.                                *)
(***************************************************************************)
EXTENDS Integers, Sequences, FiniteSets

CONSTANTS
  Class,    \* [object -> the key it stands for]
  Missing   \* the result of a lookup without a value

Empty == << >>

Stored(m, k, v) == [c \in DOMAIN m \cup {Class[k]} |-> IF c = Class[k] THEN v ELSE m[c]]

\* A display {k: v, ...} stores its pairs in order.
Built(pairs) ==
  LET m[i \in 0..Len(pairs)] == IF i = 0 THEN Empty ELSE Stored(m[i - 1], pairs[i].key, pairs[i].val)
  IN  m[Len(pairs)]

\* The keys of both; a key of both has the value it has in one of them.
Merges(m, n) ==
  {r \in [DOMAIN m \cup DOMAIN n -> {m[c] : c \in DOMAIN m} \cup {n[c] : c \in DOMAIN n}] :
     \A c \in DOMAIN r : (c \in DOMAIN m /\ r[c] = m[c]) \/ (c \in DOMAIN n /\ r[c] = n[c])}

Looked(m, k) == IF Class[k] \in DOMAIN m THEN m[Class[k]] ELSE Missing
Has(m, k)    == Class[k] \in DOMAIN m
Size(m)      == Cardinality(DOMAIN m)
===============================================================================
