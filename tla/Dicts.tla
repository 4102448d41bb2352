-------------------------------- MODULE Dicts --------------------------------
(***************************************************************************)
(* The dict of the runtime library: PyDict of py_dict.cpp over a std::map  *)
(* ordered by PyObjPtrCompare, the runtime functions that build and change *)
(* it, the reference counts of its keys and values, and loops over it.     *)
(*                                                                         *)
(* A dict is the sequence of the map's entries in order.  The operands of  *)
(* an operation are loaded by the code before it (pyir_loadName), so that  *)
(* an action counts the loads together with what the handler does.  Every  *)
(* key and value is also held by a variable, its first reference.          *)
(***************************************************************************)
EXTENDS KeyOrder, SequencesExt, TLC

CONSTANTS
  Dict,      \* variables that hold a dict of their own
  Key, Val,  \* the objects used as keys and as values, one variable each
  ValueOf,   \* [Key -> Comparable]
  MaxCount,  \* bound on the reference counts
  MaxPairs,  \* bound on the pairs of a dict display
  None       \* no object: the result None of get, the end of a map

Obj == Key \cup Val

ASSUME DictsAssumption ==
  /\ Key \cap Val = {} /\ None \notin Obj \cup Dict /\ IsFiniteSet(Dict)
  /\ ValueOf \in [Key -> Comparable] /\ MaxCount \in Nat \ {0} /\ MaxPairs \in Nat

VARIABLES
  raw,     \* [Dict -> sequence of [key, val]]: PyDict::raw in order
  count,   \* [Obj -> Int]: reference counts
  iter,    \* the loop's PyDictIter: [dict, at] with the key of its node
  view,    \* the elements of the result of keys(), values() or items() a variable holds
  visited, \* ghost: the keys the loop got
  start,   \* ghost: the keys of the dict when the loop began
  slack,   \* ghost: an insertion met its key and kept the old entry
  meant    \* ghost: [Dict -> what a Python dict would hold]

vars == <<raw, count, iter, view, visited, start, slack, meant>>

Entry == [key : Key, val : Val]

\* == of Python on these values: numbers are compared as what they are.
EqualScalars(a, b) == IF IsNumber(a) /\ IsNumber(b) THEN a[2] = b[2] ELSE a = b
EqualInPython(a, b) ==
  IF IsSequence(a) /\ IsSequence(b)
    THEN a[1] = b[1] /\ Len(a[2]) = Len(b[2]) /\ \A i \in 1..Len(a[2]) : EqualScalars(a[2][i], b[2][i])
    ELSE EqualScalars(a, b)

Class == [k \in Key |-> {l \in Key : EqualInPython(ValueOf[l], ValueOf[k])}]
Python == INSTANCE PythonDict WITH Missing <- None

NoIter == [dict |-> None, at |-> None]

Init ==
  /\ raw = [d \in Dict |-> <<>>]
  /\ count = [o \in Obj |-> 1]
  /\ iter = NoIter /\ view = <<>> /\ visited = <<>> /\ start = {} /\ slack = FALSE
  /\ meant = [d \in Dict |-> Python!Empty]

-------------------------------------------------------------------------------
(* std::map (external): search, insert and operator[] by the order.        *)

Before(k, l) == Less(ValueOf[k], ValueOf[l])
Find(m, k) == {i \in DOMAIN m : ~Before(m[i].key, k) /\ ~Before(k, m[i].key)}

\* Where they are several, at() and operator[] take the first (lower_bound).
First(S) == CHOOSE i \in S : \A j \in S : i <= j

\* Mutant: the entry is added at the end.
InsertLast(m, k, v) == IF Find(m, k) # {} THEN m ELSE Append(m, [key |-> k, val |-> v])

\* insert() leaves an entry of the key alone.
Insert(m, k, v) ==
  IF Find(m, k) # {} THEN m
  ELSE InsertAt(m, Cardinality({i \in DOMAIN m : Before(m[i].key, k)}) + 1, [key |-> k, val |-> v])

Assign(m, k, v) ==
  IF Find(m, k) = {} THEN Insert(m, k, v)
  ELSE [m EXCEPT ![First(Find(m, k))].val = v]

\* The function a map stands for.
Contents(m) ==
  [c \in {Class[m[i].key] : i \in DOMAIN m} |-> m[CHOOSE i \in DOMAIN m : Class[m[i].key] = c].val]

Keys(m)   == [i \in DOMAIN m |-> m[i].key]
Values(m) == [i \in DOMAIN m |-> m[i].val]
Both(m)   == Keys(m) \o Values(m)

-------------------------------------------------------------------------------
(* Reference counts: the increfs and decrefs of a handler, as sequences.   *)
(* Within a handler no object is decremented to zero and used again.  A    *)
(* variable whose dict is being looped over is not rebound.                *)

Places(o, s) == {i \in DOMAIN s : s[i] = o}
Times(o, s)  == Cardinality(Places(o, s))

Counted(increfs, decrefs) ==
  /\ count' = [o \in Obj |-> count[o] + Times(o, increfs) - Times(o, decrefs)]
  /\ \A o \in Obj : count'[o] <= MaxCount

Iterated(d) == iter.dict = d
UnchangedLoop == UNCHANGED <<iter, view, visited, start>>

\* setIdx: the entry whose key is == gets the value and loses the old one; with
\* no such entry the index becomes a key.
EqualKeys(m, k) == {i \in DOMAIN m : Equals(ValueOf[m[i].key], ValueOf[k])}

\* Mutant: the index is counted whether it becomes a key or not.
SetIdxAlways(m, k, v) ==
  IF EqualKeys(m, k) = {} THEN [raw |-> Assign(m, k, v), increfs |-> <<k>>, decrefs |-> <<>>]
  ELSE LET i == First(EqualKeys(m, k))
       IN  [raw |-> Assign(m, m[i].key, v), increfs |-> <<k>>, decrefs |-> <<m[i].val>>]

SetIdx(m, k, v) ==
  IF EqualKeys(m, k) = {} THEN [raw |-> Assign(m, k, v), increfs |-> <<k>>, decrefs |-> <<>>]
  ELSE LET i == First(EqualKeys(m, k))
       IN  [raw |-> Assign(m, m[i].key, v), increfs |-> <<>>, decrefs |-> <<m[i].val>>]

-------------------------------------------------------------------------------
(* d[k] = v (pyir_storeSubscr) and the entries of a comprehension          *)
(* (pyir_mapAdd) do the same: setIdx, then the key is decremented; the     *)
(* reference of the value moves into the dict.                             *)

StoreItem(d, k, v) ==
  LET set == SetIdx(raw[d], k, v)
  IN  /\ raw' = [raw EXCEPT ![d] = set.raw]
      /\ Counted(<<k, v>> \o set.increfs, set.decrefs \o <<k>>)
      /\ slack' = (slack \/ (EqualKeys(raw[d], k) = {} /\ Find(raw[d], k) # {}))
      /\ meant' = [meant EXCEPT ![d] = Python!Stored(meant[d], k, v)]
      /\ UnchangedLoop

\* Every entry of s is inserted, in turn.
Update(m, s) ==
  LET r[i \in 0..Len(s)] == IF i = 0 THEN m ELSE Insert(r[i - 1], s[i].key, s[i].val)
  IN  r[Len(s)]

\* Mutant: the pairs are inserted from the first to the last.
InsertedForwards(pairs) == Update(<<>>, pairs)

\* d = {...}: pyir_buildMap inserts the parts from the last pair to the first
\* and moves their references; the old dict is destroyed.
Inserted(pairs) == Update(<<>>, Reverse(pairs))

BuildMap(d, pairs) ==
  /\ ~Iterated(d)
  /\ raw' = [raw EXCEPT ![d] = Inserted(pairs)]
  /\ Counted(Both(pairs), Both(raw[d]))
  /\ slack' = (slack \/ Len(Inserted(pairs)) < Len(pairs))
  /\ meant' = [meant EXCEPT ![d] = Python!Built(pairs)]
  /\ UnchangedLoop

-------------------------------------------------------------------------------
(* d.update(e) and d = d | e: each entry of the source is counted, then    *)
(* inserted where its key is missing.                                      *)

Overlap(m, n) == \E i \in DOMAIN n : Find(m, n[i].key) # {}

\* Mutants: the source's entries, or its values, are not counted.
UpdateIncrefsNone(n) == <<>>
UpdateIncrefsKeys(n) == Keys(n)

UpdateIncrefs(n) == Both(n)

\* The ghost follows the map where the promise leaves a choice.
Merged(d, e) ==
  LET merges == Python!Merges(meant[d], meant[e])
  IN  meant' = [meant EXCEPT ![d] = IF Contents(raw'[d]) \in merges THEN Contents(raw'[d])
                                    ELSE CHOOSE m \in merges : TRUE]

CallUpdate(d, e) ==
  /\ raw' = [raw EXCEPT ![d] = Update(raw[d], raw[e])]
  /\ Counted(UpdateIncrefs(raw[e]), <<>>)
  /\ slack' = (slack \/ Overlap(raw[d], raw[e]))
  /\ Merged(d, e)
  /\ UnchangedLoop

\* The result is stored in d, whose old dict is destroyed.
Pipe(d, e) ==
  LET left == Update(<<>>, raw[d])
  IN  /\ ~Iterated(d)
      /\ raw' = [raw EXCEPT ![d] = Update(left, raw[e])]
      /\ Counted(UpdateIncrefs(raw[d]) \o UpdateIncrefs(raw[e]), Both(raw[d]))
      /\ slack' = (slack \/ Overlap(left, raw[e]))
      /\ Merged(d, e)
      /\ UnchangedLoop

-------------------------------------------------------------------------------
(* Reading.  The result is counted for the caller, who drops it; the index *)
(* is decremented by the runtime function or by pyir_call: no count        *)
(* changes.  A missing key gives None (get) or a KeyError (idx).           *)

Value(m, k) == IF Find(m, k) = {} THEN None ELSE m[First(Find(m, k))].val
In(m, k) == Find(m, k) # {}

\* The variable d gets another value.
Destroy(d) ==
  /\ ~Iterated(d)
  /\ raw' = [raw EXCEPT ![d] = <<>>]
  /\ Counted(<<>>, Both(raw[d]))
  /\ meant' = [meant EXCEPT ![d] = Python!Empty]
  /\ UNCHANGED slack /\ UnchangedLoop

\* keys(), values() and items() copy and count what is in the dict then.
TakeView(elements) ==
  /\ view = <<>> /\ elements # <<>>
  /\ view' = elements
  /\ Counted(elements, <<>>)
  /\ UNCHANGED <<raw, iter, visited, start, slack, meant>>

CallKeys(d)   == TakeView(Keys(raw[d]))
CallValues(d) == TakeView(Values(raw[d]))
CallItems(d)  == TakeView(Both(raw[d]))

\* The variable of the tuple or list gets another value.
DropView ==
  /\ view # <<>>
  /\ view' = <<>>
  /\ Counted(<<>>, view)
  /\ UNCHANGED <<raw, iter, visited, start, slack, meant>>

-------------------------------------------------------------------------------
(* for k in d: the iterator points to a node of the map; nodes stay where  *)
(* they are when others are inserted.  The key is dropped at once.         *)

Index(m, k) == CHOOSE i \in DOMAIN m : m[i].key = k
KeyAt(m, i) == IF i \in DOMAIN m THEN m[i].key ELSE None

\* Mutant: two nodes on.
AdvancedTwice(m, k) == KeyAt(m, Index(m, k) + 2)

Advanced(m, k) == KeyAt(m, Index(m, k) + 1)

GetIter(d) ==
  /\ iter = NoIter
  /\ iter' = [dict |-> d, at |-> KeyAt(raw[d], 1)] /\ visited' = <<>>
  /\ start' = Range(Keys(raw[d]))
  /\ UNCHANGED <<raw, count, view, slack, meant>>

ForIter ==
  LET m == raw[iter.dict]
  IN  /\ iter.dict # None /\ iter.at # None
      /\ visited' = Append(visited, iter.at)
      /\ iter' = [iter EXCEPT !.at = Advanced(m, iter.at)]
      /\ UNCHANGED <<raw, count, view, start, slack, meant>>

\* Mutant: the exhausted iterator starts again.
PopIterRestarts ==
  /\ iter.dict # None /\ iter.at = None
  /\ iter' = [iter EXCEPT !.at = KeyAt(raw[iter.dict], 1)] /\ visited' = <<>>
  /\ UNCHANGED <<raw, count, view, start, slack, meant>>

\* StopIteration and pop_iter.
PopIter ==
  /\ iter.dict # None /\ iter.at = None
  /\ iter' = NoIter
  /\ UNCHANGED <<raw, count, view, visited, start, slack, meant>>

-------------------------------------------------------------------------------
Next ==
  \/ \E d \in Dict :
       \/ \E e \in Dict : CallUpdate(d, e) \/ Pipe(d, e)
       \/ \E k \in Key, v \in Val : StoreItem(d, k, v)
       \/ \E n \in 0..MaxPairs : \E pairs \in [1..n -> Entry] : BuildMap(d, pairs)
       \/ Destroy(d) \/ CallKeys(d) \/ CallValues(d) \/ CallItems(d) \/ GetIter(d)
  \/ DropView \/ ForIter \/ PopIter

\* A loop that was entered runs on.
Spec == Init /\ [][Next]_vars /\ WF_vars(ForIter) /\ WF_vars(PopIter)

-------------------------------------------------------------------------------
(* Properties. *)

\* The entries that hold o, the elements of the view that are o, and the variable of o.
Holders(o)    == UNION {{d} \X Places(o, Both(raw[d])) : d \in Dict}
References(o) == Cardinality(Holders(o)) + Times(o, view) + 1

TypeOK ==
  /\ raw \in [Dict -> Seq(Entry)] /\ count \in [Obj -> 1..MaxCount]
  /\ iter \in [dict : Dict \cup {None}, at : Key \cup {None}] /\ visited \in Seq(Key)
  /\ view \in Seq(Obj)
  /\ start \in SUBSET Key /\ slack \in BOOLEAN

\* No key or value is freed while a dict, a view or a variable refers to it,
\* whatever was overwritten, merged or inserted twice (py_dict.cpp:97-123, 161-178).
NeverDangling == \A o \in Obj : count[o] >= References(o)

\* As long as no insertion met its key, counts are exact: everything a dict
\* does not refer to any more is freed with its last variable.
ExactlyCounted == ~slack => \A o \in Obj : count[o] = References(o)

\* The map stays in order with one entry per key: an entry out of order could
\* not be found again.
InOrder == \A d \in Dict : \A i, j \in DOMAIN raw[d] : i < j => Before(raw[d][i].key, raw[d][j].key)

\* A loop gets every key at most once and in order, and at its end has got
\* every key that was there when it began, although the body stores items.
VisitedOnce ==
  /\ \A i, j \in DOMAIN visited : i < j => Before(visited[i], visited[j])
  /\ iter.dict # None /\ iter.at = None => start \subseteq Range(visited)

\* Every loop comes to its end although its body stores items, as long as it
\* takes their keys from a finite set: no insertion sends the iterator back.
LoopsEnd == (iter.dict # None) ~> (iter.dict = None)

\* A dict maps keys to values as a Python dict does, and len, in, get and []
\* answer as for one, after every sequence of operations: as long as keys that are
\* one key for PyObjPtrCompare are equal (2.0^53 and 2^53 + 1 are one and are not).
IsPythonDict ==
  \A d \in Dict :
    /\ Contents(raw[d]) = meant[d] /\ Len(raw[d]) = Python!Size(meant[d])
    /\ \A k \in Key : In(raw[d], k) = Python!Has(meant[d], k) /\ Value(raw[d], k) = Python!Looked(meant[d], k)

\* "all unique keys from both dicts, with values from rhs taking precedence on
\* key conflicts" (logical_runtime.cpp:229).
RhsTakesPrecedence ==
  [][\A d, e \in Dict : Pipe(d, e) =>
       \A i \in DOMAIN raw[e] : Value(raw'[d], raw[e][i].key) = raw[e][i].val]_vars
===============================================================================
