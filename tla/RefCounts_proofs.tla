--------------------------- MODULE RefCounts_proofs ---------------------------
(***************************************************************************)
(* Facts about the operators of RefCounts, for any finite heap.            *)
(***************************************************************************)
EXTENDS RefCounts, Functions, FiniteSetTheorems, TLAPS

\* The places are finitely many, so every count of places is a number.
LEMMA PlacesFinite == IsFiniteSet(Place)
  <1>1. IsFiniteSet(Obj \X Slot)
    BY FS_Product, HeapAssumption
  <1> QED
    BY <1>1, FS_Union, HeapAssumption DEF Place

\* A set of places has a cardinality.
LEMMA CountType ==
  ASSUME NEW S \in SUBSET Place
  PROVE  IsFiniteSet(S) /\ Cardinality(S) \in Nat
  BY PlacesFinite, FS_Subset, FS_CardinalityType

\* A subset of a set of places is no larger.
LEMMA CountMonotone ==
  ASSUME NEW S \in SUBSET Place, NEW T \in SUBSET S
  PROVE  Cardinality(T) <= Cardinality(S)
  BY CountType, FS_Subset

\* The number of decrements of an object is a number.
LEMMA DecrefsType ==
  ASSUME NEW r, NEW L \in SUBSET Place, NEW o
  PROVE  Decrefs(r, L, o) \in Nat
  <1>1. {p \in L : r[p] = o} \in SUBSET Place
    OBVIOUS
  <1> QED
    BY <1>1, CountType DEF Decrefs

\* Giving up more places never means fewer decrements.
LEMMA DecrefsMonotone ==
  ASSUME NEW r, NEW L \in SUBSET Place, NEW K \in SUBSET L, NEW o
  PROVE  Decrefs(r, K, o) <= Decrefs(r, L, o)
  <1> DEFINE big == {p \in L : r[p] = o}
             small == {p \in K : r[p] = o}
  <1>1. big \in SUBSET Place /\ small \in SUBSET big
    OBVIOUS
  <1>2. Cardinality(small) <= Cardinality(big)
    BY <1>1, CountMonotone
  <1> QED
    BY <1>2 DEF Decrefs

\* The fields of any objects are places.
LEMMA FieldsArePlaces ==
  ASSUME NEW F \in SUBSET Obj
  PROVE  Fields(F) \in SUBSET Place
  BY DEF Fields, Place

\* Deleting more objects uses up no fewer counts.
LEMMA ExhaustedMonotone ==
  ASSUME NEW r, NEW c \in [Obj -> Nat], NEW drop \in SUBSET Place,
         NEW F \in SUBSET Obj, NEW G \in SUBSET F
  PROVE  Exhausted(r, c, drop, G) \subseteq Exhausted(r, c, drop, F)
  <1> SUFFICES ASSUME NEW o \in Exhausted(r, c, drop, G)
               PROVE  o \in Exhausted(r, c, drop, F)
    OBVIOUS
  <1>1. o \in Live(c) /\ o \in Obj /\ c[o] <= Decrefs(r, drop \cup Fields(G), o)
    BY DEF Exhausted, Live
  <1>2. drop \cup Fields(F) \in SUBSET Place
    BY FieldsArePlaces
  <1>3. drop \cup Fields(G) \in SUBSET (drop \cup Fields(F))
    BY DEF Fields
  <1>4. drop \cup Fields(G) \in SUBSET Place
    BY <1>2, <1>3
  <1>5. Decrefs(r, drop \cup Fields(G), o) <= Decrefs(r, drop \cup Fields(F), o)
    BY <1>2, <1>3, DecrefsMonotone
  <1>6. Decrefs(r, drop \cup Fields(G), o) \in Nat /\ Decrefs(r, drop \cup Fields(F), o) \in Nat
    BY <1>2, <1>4, DecrefsType
  <1>7. c[o] \in Nat
    BY <1>1
  <1>8. c[o] <= Decrefs(r, drop \cup Fields(F), o)
    BY <1>1, <1>5, <1>6, <1>7
  <1> QED
    BY <1>1, <1>8 DEF Exhausted

(***************************************************************************)
(* The cascade of destructors deletes exactly the objects whose counts are *)
(* used up by what is given up and by the fields of what is deleted: the   *)
(* least closed set is a fixed point.                                      *)
(***************************************************************************)
LEMMA DeletedFixpoint ==
  ASSUME NEW r, NEW c \in [Obj -> Nat], NEW drop \in SUBSET Place
  PROVE  Deleted(r, c, drop) = Exhausted(r, c, drop, Deleted(r, c, drop))
  <1> DEFINE D == Deleted(r, c, drop)
             E == Exhausted(r, c, drop, D)
  <1>1. D \in SUBSET Live(c) /\ Live(c) \in SUBSET Obj
    BY DEF Deleted, Live
  <1>2. E \subseteq Live(c)
    BY DEF Exhausted
  <1>3. ASSUME NEW F \in Closed(r, c, drop)  PROVE  E \subseteq F
    <2>1. F \in SUBSET Live(c) /\ Exhausted(r, c, drop, F) \subseteq F
      BY DEF Closed
    <2>2. D \in SUBSET F
      BY DEF Deleted
    <2>3. F \in SUBSET Obj
      BY <2>1, <1>1
    <2>4. E \subseteq Exhausted(r, c, drop, F)
      BY <2>2, <2>3, ExhaustedMonotone
    <2> QED
      BY <2>1, <2>4
  <1>4. E \subseteq D
    BY <1>2, <1>3 DEF Deleted
  <1>5. Exhausted(r, c, drop, E) \subseteq E
    <2>1. D \in SUBSET Obj /\ E \in SUBSET D
      BY <1>1, <1>4
    <2> QED
      BY <2>1, ExhaustedMonotone
  <1>6. E \in Closed(r, c, drop)
    BY <1>2, <1>5 DEF Closed
  <1>7. D \subseteq E
    BY <1>6 DEF Deleted
  <1> QED
    BY <1>4, <1>7

\* What a cascade gives up are places, and what it deletes are objects.
LEMMA DroppedPlaces ==
  ASSUME NEW r, NEW c \in [Obj -> Nat], NEW drop \in SUBSET Place
  PROVE  /\ Dropped(r, c, drop) \in SUBSET Place
         /\ Deleted(r, c, drop) \in SUBSET Obj
  BY FieldsArePlaces DEF Dropped, Deleted, Live

\* A count never becomes negative, and the surviving objects keep a positive one.
LEMMA CountsAfterType ==
  ASSUME NEW r, NEW c \in [Obj -> Nat], NEW drop \in SUBSET Place
  PROVE  /\ CountsAfter(r, c, drop) \in [Obj -> Nat]
         /\ \A o \in Obj : CountsAfter(r, c, drop)[o] = 0
                          <=> c[o] = 0 \/ o \in Deleted(r, c, drop)
  <1> DEFINE D == Deleted(r, c, drop)
             L == drop \cup Fields(D)
             after == CountsAfter(r, c, drop)
  <1>1. L \in SUBSET Place
    BY DroppedPlaces DEF Dropped
  <1>2. ASSUME NEW o \in Obj, o \in Live(c) \ D  PROVE  c[o] - Decrefs(r, L, o) \in Nat \ {0}
    <2>1. o \notin Exhausted(r, c, drop, D)
      BY <1>2, DeletedFixpoint
    <2>2. ~(c[o] <= Decrefs(r, L, o))
      BY <1>2, <2>1 DEF Exhausted
    <2>3. Decrefs(r, L, o) \in Nat /\ c[o] \in Nat
      BY <1>1, DecrefsType
    <2> QED
      BY <2>2, <2>3
  <1>3. after = [o \in Obj |-> IF o \in Live(c) \ D THEN c[o] - Decrefs(r, L, o) ELSE 0]
    BY DEF CountsAfter
  <1>4. ASSUME NEW o \in Obj  PROVE  after[o] \in Nat /\ (after[o] = 0 <=> o \notin Live(c) \ D)
    <2>1. CASE o \in Live(c) \ D
      BY <1>2, <1>3, <2>1
    <2>2. CASE o \notin Live(c) \ D
      BY <1>3, <2>2
    <2> QED
      BY <2>1, <2>2
  <1>5. \A o \in Obj : o \in Live(c) <=> c[o] # 0
    BY DEF Live
  <1> QED
    BY <1>3, <1>4, <1>5

\* After a cascade every place refers to a value.
LEMMA RefsAfterType ==
  ASSUME NEW r \in [Place -> Value], NEW c, NEW drop
  PROVE  RefsAfter(r, c, drop) \in [Place -> Value]
  BY DEF RefsAfter, Value

\* The holders of an object, split into those that are given up and the rest.
LEMMA HoldersSplit ==
  ASSUME NEW r, NEW L \in SUBSET Place, NEW o
  PROVE  /\ Cardinality(Holders(r, o)) \in Nat /\ Decrefs(r, L, o) \in Nat
         /\ Cardinality(Holders(r, o) \ L) = Cardinality(Holders(r, o)) - Decrefs(r, L, o)
         /\ Decrefs(r, L, o) <= Cardinality(Holders(r, o))
  <1>1. Holders(r, o) \in SUBSET Place
    BY DEF Holders
  <1>2. Holders(r, o) \cap L = {p \in L : r[p] = o}
    BY DEF Holders
  <1>3. IsFiniteSet(Holders(r, o)) /\ Cardinality(Holders(r, o)) \in Nat
    BY <1>1, CountType
  <1>4. Cardinality(Holders(r, o) \ L) = Cardinality(Holders(r, o)) - Decrefs(r, L, o)
    <2>1. Cardinality(Holders(r, o) \ L)
            = Cardinality(Holders(r, o)) - Cardinality(Holders(r, o) \cap L)
      BY <1>3, FS_Difference
    <2> QED
      BY <1>2, <2>1 DEF Decrefs
  <1>5. Decrefs(r, L, o) <= Cardinality(Holders(r, o))
    <2>1. Cardinality(Holders(r, o) \cap L) <= Cardinality(Holders(r, o))
      BY <1>3, FS_Intersection
    <2> QED
      BY <1>2, <2>1 DEF Decrefs
  <1> QED
    BY <1>3, <1>4, <1>5, DecrefsType

(***************************************************************************)
(* Release: an object with a count for every holder still has one after    *)
(* any set of places is given up with the destructors that sets off, and   *)
(* it is not decremented more often than it was counted.                   *)
(***************************************************************************)
LEMMA ReleaseCovered ==
  ASSUME NEW r \in [Place -> Value], NEW c \in [Obj -> Nat], NEW drop \in SUBSET Place,
         NEW o \in Obj, Covered(r, c, o)
  PROVE  /\ Covered(RefsAfter(r, c, drop), CountsAfter(r, c, drop), o)
         /\ o \notin Overrun(r, c, drop)
  <1> DEFINE D == Deleted(r, c, drop)
             L == Dropped(r, c, drop)
             r2 == RefsAfter(r, c, drop)
             c2 == CountsAfter(r, c, drop)
             H == Holders(r, o)
  <1>1. L \in SUBSET Place /\ L = drop \cup Fields(D)
    BY DroppedPlaces DEF Dropped
  <1>2. Holders(r2, o) = H \ L
    <2>1. Nil # o
      BY HeapAssumption
    <2>2. \A p \in Place : r2[p] = IF p \in L THEN Nil ELSE r[p]
      BY DEF RefsAfter
    <2> QED
      BY <2>1, <2>2 DEF Holders
  <1>3. /\ Cardinality(H) \in Nat /\ Decrefs(r, L, o) \in Nat /\ c[o] \in Nat
        /\ Cardinality(H \ L) = Cardinality(H) - Decrefs(r, L, o)
        /\ Decrefs(r, L, o) <= Cardinality(H)
    BY <1>1, HoldersSplit
  <1>4. Cardinality(H) <= c[o]
    BY DEF Covered
  <1>5. o \notin Overrun(r, c, drop)
    BY <1>3, <1>4 DEF Overrun
  <1>6. CASE o \in Live(c) \ D
    <2>1. c2[o] = c[o] - Decrefs(r, L, o)
      BY <1>1, <1>6 DEF CountsAfter
    <2> QED
      BY <1>2, <1>3, <1>4, <2>1 , <1>5 DEF Covered
  <1>7. CASE o \notin Live(c) \ D
    <2>1. c2[o] = 0
      BY <1>7 DEF CountsAfter
    <2>2. c[o] <= Decrefs(r, L, o)
      <3>1. CASE o \in D
        BY <1>1, <3>1, DeletedFixpoint DEF Exhausted
      <3>2. CASE o \notin Live(c)
        BY <1>3, <3>2 DEF Live
      <3> QED
        BY <1>7, <3>1, <3>2
    <2> QED
      BY <1>2, <1>3, <1>4, <2>1, <2>2, <1>5 DEF Covered
  <1> QED
    BY <1>6, <1>7

\* An object with as many counts as holders still has after a release, so that
\* its last holder to go deletes it.
LEMMA ReleaseExact ==
  ASSUME NEW r \in [Place -> Value], NEW c \in [Obj -> Nat], NEW drop \in SUBSET Place,
         NEW o \in Obj, Exact(r, c, o)
  PROVE  /\ Exact(RefsAfter(r, c, drop), CountsAfter(r, c, drop), o)
         /\ o \notin Overrun(r, c, drop)
  <1> DEFINE D == Deleted(r, c, drop)
             L == Dropped(r, c, drop)
             r2 == RefsAfter(r, c, drop)
             c2 == CountsAfter(r, c, drop)
             H == Holders(r, o)
  <1>1. L \in SUBSET Place /\ L = drop \cup Fields(D)
    BY DroppedPlaces DEF Dropped
  <1>2. Holders(r2, o) = H \ L
    <2>1. Nil # o
      BY HeapAssumption
    <2>2. \A p \in Place : r2[p] = IF p \in L THEN Nil ELSE r[p]
      BY DEF RefsAfter
    <2> QED
      BY <2>1, <2>2 DEF Holders
  <1>3. /\ Cardinality(H) \in Nat /\ Decrefs(r, L, o) \in Nat /\ c[o] \in Nat
        /\ Cardinality(H \ L) = Cardinality(H) - Decrefs(r, L, o)
    BY <1>1, HoldersSplit
  <1>4. Covered(r2, c2, o) /\ o \notin Overrun(r, c, drop)
    <2>1. Covered(r, c, o)
      BY <1>3 DEF Covered, Exact
    <2> QED
      BY <2>1, ReleaseCovered
  <1>5. c2[o] <= Cardinality(Holders(r2, o))
    <2>1. CASE o \in Live(c) \ D
      <3>1. c2[o] = c[o] - Decrefs(r, L, o)
        BY <1>1, <2>1 DEF CountsAfter
      <3> QED
        BY <1>2, <1>3, <3>1 DEF Exact
    <2>2. CASE o \notin Live(c) \ D
      <3>1. c2[o] = 0
        BY <2>2 DEF CountsAfter
      <3>2. Holders(r2, o) \in SUBSET Place
        BY DEF Holders
      <3>3. Cardinality(Holders(r2, o)) \in Nat
        BY <3>2, CountType
      <3> QED
        BY <3>1, <3>3
    <2> QED
      BY <2>1, <2>2
  <1>6. c2[o] \in Nat /\ Cardinality(Holders(r2, o)) \in Nat
    <2>1. Holders(r2, o) \in SUBSET Place
      BY DEF Holders
    <2> QED
      BY <2>1, CountType, CountsAfterType
  <1> QED
    BY <1>4, <1>5, <1>6 DEF Covered, Exact

(***************************************************************************)
(* Taking references.  A place of B that copies the reference of another   *)
(* one adds one holder, and the incref that goes with it adds one count.   *)
(***************************************************************************)
LEMMA CopiedType ==
  ASSUME NEW r \in [Place -> Value], NEW B \in SUBSET Place, NEW from \in [B -> Place]
  PROVE  Copied(r, from) \in [Place -> Value]
  BY DEF Copied

\* Increfs leave a count per object.
LEMMA IncrefedType ==
  ASSUME NEW r, NEW c \in [Obj -> Nat], NEW B \in SUBSET Place, NEW from \in [B -> Place]
  PROVE  /\ Increfed(r, c, from) \in [Obj -> Nat]
         /\ \A o \in Obj : Increfed(r, c, from)[o] >= c[o]
  <1>1. ASSUME NEW o \in Obj
        PROVE  Cardinality({p \in DOMAIN from : r[from[p]] = o}) \in Nat
    <2>1. {p \in DOMAIN from : r[from[p]] = o} \in SUBSET Place
      OBVIOUS
    <2> QED
      BY <2>1, CountType
  <1>2. \A o \in Obj : c[o] \in Nat
    OBVIOUS
  <1> QED
    BY <1>1, <1>2 DEF Increfed

\* Copies whose references are counted keep an object covered.
LEMMA CopyCovered ==
  ASSUME NEW r \in [Place -> Value], NEW c \in [Obj -> Nat],
         NEW B \in SUBSET Place, NEW from \in [B -> Place],
         NEW o \in Obj, Covered(r, c, o)
  PROVE  Covered(Copied(r, from), Increfed(r, c, from), o)
  <1> DEFINE H == Holders(r, o)
             N == {p \in DOMAIN from : r[from[p]] = o}
             H2 == Holders(Copied(r, from), o)
  <1>1. H2 \in SUBSET (H \cup N) /\ H \in SUBSET Place /\ N \in SUBSET Place
    BY DEF Holders, Copied
  <1>2. IsFiniteSet(H) /\ IsFiniteSet(N) /\ IsFiniteSet(H \cup N)
    BY <1>1, CountType, FS_Union
  <1>3. /\ Cardinality(H) \in Nat /\ Cardinality(N) \in Nat /\ Cardinality(H2) \in Nat
        /\ Cardinality(H \cap N) \in Nat /\ Cardinality(H \cup N) \in Nat
    BY <1>1, CountType
  <1>4. Cardinality(H \cup N) = Cardinality(H) + Cardinality(N) - Cardinality(H \cap N)
    BY <1>2, FS_Union
  <1>5. Cardinality(H2) <= Cardinality(H \cup N)
    BY <1>1, CountMonotone
  <1>6. Increfed(r, c, from)[o] = c[o] + Cardinality(N) /\ c[o] \in Nat
    BY DEF Increfed
  <1>7. Cardinality(H) <= c[o]
    BY DEF Covered
  <1> QED
    BY <1>3, <1>4, <1>5, <1>6, <1>7 DEF Covered

\* A state whose places hold o no more often than before.
LEMMA ShrinkCovered ==
  ASSUME NEW r, NEW r2, NEW c \in [Obj -> Nat], NEW c2 \in [Obj -> Nat],
         NEW o \in Obj, Covered(r, c, o),
         Holders(r2, o) \subseteq Holders(r, o), c2[o] >= c[o]
  PROVE  Covered(r2, c2, o)
  <1>1. Holders(r, o) \in SUBSET Place /\ Holders(r2, o) \in SUBSET Holders(r, o)
    BY DEF Holders
  <1>2. Cardinality(Holders(r2, o)) <= Cardinality(Holders(r, o))
    BY <1>1, CountMonotone
  <1>3. Cardinality(Holders(r, o)) \in Nat /\ Cardinality(Holders(r2, o)) \in Nat
    BY <1>1, CountType
  <1> QED
    BY <1>2, <1>3 DEF Covered

\* An allocation: nothing else refers to the new cell.
LEMMA AllocCovered ==
  ASSUME NEW r \in [Place -> Value], NEW c \in [Obj -> Nat], NEW o \in Obj, NEW t \in Place,
         Holders(r, o) = {}
  PROVE  Covered(Placed(r, o, t), Counted(c, o), o)
  <1>1. Holders(Placed(r, o, t), o) = {t}
    BY DEF Holders, Placed
  <1>2. Counted(c, o)[o] = 1
    BY DEF Counted
  <1>3. Cardinality({t}) = 1
    BY FS_Singleton
  <1> QED
    BY <1>1, <1>2, <1>3 DEF Covered

(***************************************************************************)
(* Ownership transfers.  A move from distinct places, which it empties,    *)
(* and an exchange leave every object as many holders as it had.           *)
(***************************************************************************)
LEMMA MoveCovered ==
  ASSUME NEW r \in [Place -> Value], NEW c \in [Obj -> Nat],
         NEW B \in SUBSET Place, NEW S \in SUBSET Place, NEW from \in Injection(B, S),
         NEW o \in Obj, Covered(r, c, o)
  PROVE  Covered(Moved(r, from), c, o)
  <1> DEFINE H == Holders(r, o)
             src == {from[p] : p \in B}
             N == {p \in B : r[from[p]] = o}
             H2 == Holders(Moved(r, from), o)
  <1>1. from \in [B -> S] /\ \A p, q \in B : from[p] = from[q] => p = q
    BY DEF Injection, IsInjective
  <1>2. H2 \in SUBSET ((H \ src) \cup N)
    BY <1>1, HeapAssumption DEF Holders, Moved
  <1>3. N \in SUBSET Place /\ H \in SUBSET Place /\ H \cap src \in SUBSET Place
    BY DEF Holders
  <1>4. Cardinality(N) <= Cardinality(H \cap src)
    <2> DEFINE g == [p \in N |-> from[p]]
    <2>1. g \in Injection(N, H \cap src)
      BY <1>1 DEF Injection, IsInjective, Holders
    <2>2. IsFiniteSet(H \cap src)
      BY <1>3, CountType
    <2> QED
      BY <2>1, <2>2, FS_Injection
  <1>5. IsFiniteSet(H) /\ IsFiniteSet(N) /\ IsFiniteSet(H \ src)
    BY <1>3, CountType, FS_Difference
  <1>6. Cardinality(H \ src) = Cardinality(H) - Cardinality(H \cap src)
    BY <1>5, FS_Difference
  <1>7. /\ Cardinality(H) \in Nat /\ Cardinality(N) \in Nat
        /\ Cardinality(H \cap src) \in Nat /\ Cardinality((H \ src) \cap N) \in Nat
        /\ Cardinality(H2) \in Nat /\ Cardinality((H \ src) \cup N) \in Nat
    <2>1. /\ H2 \in SUBSET Place /\ (H \ src) \cap N \in SUBSET Place
          /\ (H \ src) \cup N \in SUBSET Place
      BY <1>2, <1>3
    <2> QED
      BY <1>3, <2>1, CountType
  <1>8. Cardinality((H \ src) \cup N)
          = Cardinality(H \ src) + Cardinality(N) - Cardinality((H \ src) \cap N)
    BY <1>5, FS_Union
  <1>9. Cardinality(H2) <= Cardinality((H \ src) \cup N)
    <2>1. (H \ src) \cup N \in SUBSET Place
      BY <1>3
    <2> QED
      BY <1>2, <2>1, CountMonotone
  <1>10. Cardinality(H) <= c[o] /\ c[o] \in Nat
    BY DEF Covered
  <1> QED
    BY <1>4, <1>6, <1>7, <1>8, <1>9, <1>10 DEF Covered

\* Exchanging the values of two places changes the number of holders of no
\* object.
LEMMA SwapCovered ==
  ASSUME NEW r \in [Place -> Value], NEW c \in [Obj -> Nat],
         NEW p \in Place, NEW q \in Place, NEW o \in Obj, Covered(r, c, o)
  PROVE  Covered(Swapped(r, p, q), c, o)
  <1> DEFINE H == Holders(r, o)
             H2 == Holders(Swapped(r, p, q), o)
             swap == [x \in H2 |-> IF x = p THEN q ELSE IF x = q THEN p ELSE x]
  <1>1. swap \in Injection(H2, H)
    BY DEF Injection, IsInjective, Holders, Swapped
  <1>2. H \in SUBSET Place /\ H2 \in SUBSET Place
    BY DEF Holders
  <1>3. IsFiniteSet(H) /\ Cardinality(H) \in Nat /\ Cardinality(H2) \in Nat
    BY <1>2, CountType
  <1>4. Cardinality(H2) <= Cardinality(H)
    BY <1>1, <1>3, FS_Injection
  <1> QED
    BY <1>3, <1>4 DEF Covered

-------------------------------------------------------------------------------
(* The same operations keep a count exact when what they write over holds    *)
(* nothing.                                                                  *)

\* A state with the same holders of o, and the same count.
LEMMA SameExact ==
  ASSUME NEW r, NEW r2, NEW c, NEW c2, NEW o, Exact(r, c, o),
         Holders(r2, o) = Holders(r, o), c2[o] = c[o]
  PROVE  Exact(r2, c2, o)
  BY DEF Exact

\* Disjoint sets of places add up.
LEMMA CountDisjoint ==
  ASSUME NEW S \in SUBSET Place, NEW T \in SUBSET Place, S \cap T = {}
  PROVE  Cardinality(S \cup T) = Cardinality(S) + Cardinality(T)
  <1>1. IsFiniteSet(S) /\ IsFiniteSet(T) /\ Cardinality(S) \in Nat /\ Cardinality(T) \in Nat
    BY CountType
  <1>2. Cardinality(S \cup T) = Cardinality(S) + Cardinality(T) - Cardinality(S \cap T)
    BY <1>1, FS_Union
  <1>3. Cardinality(S \cap T) = 0
    BY FS_EmptySet
  <1> QED
    BY <1>1, <1>2, <1>3

\* Counted copies into empty places: one holder and one count for each.
LEMMA CopyExact ==
  ASSUME NEW r \in [Place -> Value], NEW c \in [Obj -> Nat],
         NEW B \in SUBSET Place, NEW from \in [B -> Place], \A p \in B : r[p] = Nil,
         NEW o \in Obj, Exact(r, c, o)
  PROVE  Exact(Copied(r, from), Increfed(r, c, from), o)
  <1> DEFINE H == Holders(r, o)
             N == {p \in DOMAIN from : r[from[p]] = o}
             H2 == Holders(Copied(r, from), o)
  <1>1. Nil # o
    BY HeapAssumption
  <1>2. H2 = H \cup N /\ H \cap N = {} /\ H \in SUBSET Place /\ N \in SUBSET Place
    BY <1>1 DEF Holders, Copied
  <1>3. IsFiniteSet(H) /\ IsFiniteSet(N) /\ Cardinality(H) \in Nat /\ Cardinality(N) \in Nat
    BY <1>2, CountType
  <1>4. Cardinality(H2) = Cardinality(H) + Cardinality(N)
    BY <1>2, CountDisjoint
  <1>5. Increfed(r, c, from)[o] = c[o] + Cardinality(N)
    BY DEF Increfed
  <1> QED
    BY <1>3, <1>4, <1>5 DEF Exact

\* A move between distinct places, the destinations empty and the sources not.
LEMMA MoveExact ==
  ASSUME NEW r \in [Place -> Value], NEW c \in [Obj -> Nat],
         NEW B \in SUBSET Place, NEW S \in SUBSET Place, NEW from \in Injection(B, S),
         \A p \in B : r[p] = Nil /\ r[from[p]] # Nil,
         NEW o \in Obj, Exact(r, c, o)
  PROVE  Exact(Moved(r, from), c, o)
  <1> DEFINE H == Holders(r, o)
             src == {from[p] : p \in B}
             N == {p \in B : r[from[p]] = o}
             H2 == Holders(Moved(r, from), o)
  <1>1. from \in [B -> S] /\ \A p, q \in B : from[p] = from[q] => p = q
    BY DEF Injection, IsInjective
  <1>2. Nil # o
    BY HeapAssumption
  <1>3. H2 = (H \ src) \cup N /\ (H \ src) \cap N = {}
    BY <1>1, <1>2 DEF Holders, Moved
  <1>4. N \in SUBSET Place /\ H \in SUBSET Place /\ H \cap src \in SUBSET Place
    BY DEF Holders
  <1>5. IsFiniteSet(H) /\ IsFiniteSet(N) /\ IsFiniteSet(H \ src) /\ IsFiniteSet(H \cap src)
    BY <1>4, CountType, FS_Difference
  <1>6. Cardinality(N) = Cardinality(H \cap src)
    <2> DEFINE g == [p \in N |-> from[p]]
    <2>1. g \in Injection(N, H \cap src)
      BY <1>1 DEF Injection, IsInjective, Holders
    <2>2. g \in [N -> H \cap src] /\ \A x \in H \cap src : \E p \in N : g[p] = x
      BY <1>1, <2>1 DEF Injection, Holders
    <2>3. g \in Surjection(N, H \cap src)
      BY <2>2 DEF Surjection, Range
    <2> HIDE DEF g
    <2> QED
      BY <1>5, <2>1, <2>3, FS_Injection
  <1>7. Cardinality(H \ src) = Cardinality(H) - Cardinality(H \cap src)
    BY <1>5, FS_Difference
  <1>8. /\ Cardinality(H) \in Nat /\ Cardinality(N) \in Nat /\ Cardinality(H \ src) \in Nat
        /\ Cardinality(H \cap src) \in Nat
    BY <1>4, <1>5, CountType, FS_CardinalityType
  <1>9. Cardinality(H2) = Cardinality(H \ src) + Cardinality(N)
    BY <1>3, <1>4, CountDisjoint
  <1> QED
    BY <1>6, <1>7, <1>8, <1>9 DEF Exact

\* An exchange, which its repetition undoes.
LEMMA SwapExact ==
  ASSUME NEW r \in [Place -> Value], NEW c \in [Obj -> Nat],
         NEW p \in Place, NEW q \in Place, NEW o \in Obj, Exact(r, c, o)
  PROVE  Exact(Swapped(r, p, q), c, o)
  <1> DEFINE H == Holders(r, o)
             H2 == Holders(Swapped(r, p, q), o)
             swap == [x \in H2 |-> IF x = p THEN q ELSE IF x = q THEN p ELSE x]
  <1>1. swap \in Injection(H2, H)
    BY DEF Injection, IsInjective, Holders, Swapped
  <1>2. \A y \in H : \E x \in H2 : swap[x] = y
    <2> SUFFICES ASSUME NEW y \in H  PROVE  \E x \in H2 : swap[x] = y
      OBVIOUS
    <2> DEFINE x == IF y = p THEN q ELSE IF y = q THEN p ELSE y
    <2>1. x \in H2
      BY DEF Holders, Swapped
    <2>2. swap[x] = y
      BY <2>1
    <2> QED
      BY <2>1, <2>2
  <1>3. swap \in Surjection(H2, H)
    BY <1>1, <1>2 DEF Injection, Surjection, Range
  <1>4. H \in SUBSET Place
    BY DEF Holders
  <1>5. IsFiniteSet(H)
    BY <1>4, CountType
  <1> HIDE DEF swap
  <1>6. Cardinality(H2) = Cardinality(H)
    BY <1>1, <1>3, <1>5, FS_Injection
  <1> QED
    BY <1>6 DEF Exact

\* An allocation: the new object has one holder and one count.
LEMMA AllocExact ==
  ASSUME NEW r \in [Place -> Value], NEW c \in [Obj -> Nat], NEW o \in Obj, NEW t \in Place,
         Holders(r, o) = {}
  PROVE  Exact(Placed(r, o, t), Counted(c, o), o)
  <1>1. Holders(Placed(r, o, t), o) = {t}
    BY DEF Holders, Placed
  <1>2. Counted(c, o)[o] = 1
    BY DEF Counted
  <1>3. Cardinality({t}) = 1
    BY FS_Singleton
  <1> QED
    BY <1>1, <1>2, <1>3 DEF Exact
=============================================================================
