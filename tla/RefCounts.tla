------------------------------ MODULE RefCounts ------------------------------
(***************************************************************************)
(* The reference-counting discipline of the pystd object model             *)
(* (pystd/src/pytypes/py_object.cpp), as operators on two functions:       *)
(*                                                                         *)
(*   r \in [Place -> Value]  which object each place of the program refers *)
(*                           to (Nil: none);                               *)
(*   c \in [Obj -> Nat]      the refcount field of each heap cell, 0 for a *)
(*                           cell that holds no object.                    *)
(*                                                                         *)
(* A place is something that owns one reference: a root (a scope entry, an *)
(* SSA value in flight, an entry of iterStack, ...) or a field of an       *)
(* object (an element of a list, the self of a bound method, ...).         *)
(* Immortal values (None, True, False) are referred to but never counted.  *)
(***************************************************************************)
EXTENDS Integers, FiniteSets

CONSTANTS
  Obj,       \* heap cells
  Root,      \* places outside the heap
  Slot,      \* field positions inside an object
  Immortal,  \* PyNone::None, PyBool::True, PyBool::False
  Nil        \* "no object": an empty place

ASSUME HeapAssumption ==
  /\ IsFiniteSet(Obj) /\ IsFiniteSet(Root) /\ IsFiniteSet(Slot)
  /\ Nil \notin Obj \cup Immortal
  /\ Obj \cap Immortal = {}
  /\ Root \cap (Obj \X Slot) = {}

Place == Root \cup (Obj \X Slot)
Value == Obj \cup Immortal \cup {Nil}

Fields(F) == F \X Slot

Holders(r, o) == {p \in Place : r[p] = o}

\* How often o is decremented when the references in L are given up.
Decrefs(r, L, o) == Cardinality({p \in L : r[p] = o})

(***************************************************************************)
(* Deleting an object runs its destructor, which decrements what its       *)
(* fields refer to.  Exhausted(r, c, drop, F) are the objects whose count  *)
(* is used up once the places in drop and the fields of F have been given  *)
(* up; Deleted is the least set closed under that rule: what the cascade   *)
(* of destructors started by giving up drop deletes.                       *)
(***************************************************************************)
Live(c) == {o \in Obj : c[o] > 0}

Exhausted(r, c, drop, F) ==
  {o \in Live(c) : c[o] <= Decrefs(r, drop \cup Fields(F), o)}

Closed(r, c, drop) ==
  {F \in SUBSET Live(c) : Exhausted(r, c, drop, F) \subseteq F}

Deleted(r, c, drop) ==
  LET C == Closed(r, c, drop) IN {o \in Live(c) : \A F \in C : o \in F}

\* The places given up in all when the references in drop are.
Dropped(r, c, drop) == drop \cup Fields(Deleted(r, c, drop))

\* Mutant: the destructor of a container keeps the references of its fields.
RefsAfterShallow(r, c, drop) == [p \in Place |-> IF p \in drop THEN Nil ELSE r[p]]

RefsAfter(r, c, drop) ==
  LET L == Dropped(r, c, drop) IN [p \in Place |-> IF p \in L THEN Nil ELSE r[p]]

CountsAfter(r, c, drop) ==
  LET D == Deleted(r, c, drop)
      L == drop \cup Fields(D)
  IN  [o \in Obj |-> IF o \in Live(c) \ D THEN c[o] - Decrefs(r, L, o) ELSE 0]

\* Objects decremented more often than their count allows: the extra decref
\* reads the refcount of a deleted object (or throws "Invalid decref").
Overrun(r, c, drop) ==
  LET L == Dropped(r, c, drop) IN {o \in Obj : Decrefs(r, L, o) > c[o]}

(***************************************************************************)
(* from \in [B -> Place] makes every place in B refer to what another      *)
(* place refers to.  Copied writes the pointers, Increfed is what the      *)
(* incref() of every copy does to the counts, Moved writes the pointers    *)
(* and empties the sources, which is a transfer of ownership.              *)
(***************************************************************************)
Copied(r, from) ==
  [p \in Place |-> IF p \in DOMAIN from THEN r[from[p]] ELSE r[p]]

Increfed(r, c, from) ==
  [o \in Obj |-> c[o] + Cardinality({p \in DOMAIN from : r[from[p]] = o})]

Moved(r, from) ==
  [p \in Place |-> IF p \in DOMAIN from THEN r[from[p]]
                   ELSE IF \E q \in DOMAIN from : from[q] = p THEN Nil
                   ELSE r[p]]

Swapped(r, p, q) == [r EXCEPT ![p] = r[q], ![q] = r[p]]

\* A new object at cell o, whose only reference is held by p.
Placed(r, o, p) == [r EXCEPT ![p] = o]
Counted(c, o)   == [c EXCEPT ![o] = 1]

(***************************************************************************)
(* Covered: the count of o is at least the number of places holding it, so *)
(* giving up any of them cannot delete it under another.  Exact: the count *)
(* is that number, so the last holder to go does delete it.                *)
(***************************************************************************)
Covered(r, c, o) == Cardinality(Holders(r, o)) <= c[o]
Exact(r, c, o)   == Cardinality(Holders(r, o)) = c[o]

\* Objects some place still refers to although they have been deleted.
Dangling(r, c) == {o \in Obj : c[o] = 0 /\ Holders(r, o) # {}}
==============================================================================
