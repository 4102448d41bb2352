--------------------------- MODULE Shutdown_proofs ---------------------------
(***************************************************************************)
(* What holds of Shutdown for every heap a module may end with, every      *)
(* number of variables, builtins and lost references, and every order of   *)
(* the clean-up loops.                                                     *)
(***************************************************************************)
EXTENDS Shutdown, RefCounts_proofs

\* The entries the loops of pyir_destroyModule have been through.  They have
\* given up their references, whether or not the pointer is still there.
Gone ==
  CASE pc = "module"   -> {}
    [] pc = "destroy"  -> Name \ todo
    [] pc = "builtins" -> Name \cup (Builtin \ todo)
    [] OTHER           -> Name \cup Builtin

\* The references without those of the roots in G.
Masked(r, G) == [p \in Place |-> IF p \in G THEN Nil ELSE r[p]]

\* Each phase has its loop, and only an exception leads to the second clean-up.
Phases ==
  /\ pc \in {"destroy", "clear"} => todo \subseteq Name
  /\ pc = "builtins" => todo \subseteq Builtin
  /\ pc = "clear" => outcome = "raised"

\* A deleted object has no fields.
NoGhostFields == \A o \in Obj : rc[o] = 0 => \A s \in Slot : ref[<<o, s>>] = Nil

\* While pyir_destroyModule is all that has happened, every count is the number
\* of references that have not been given up.
Counting == pc \in {"module", "destroy", "builtins"} \/ (outcome = "returned" /\ pc \in {"immortals", "exited"})
CountsAreExact ==
  Counting /\ BuiltinsApart => \A o \in Obj : Exact(Masked(ref, Gone), rc, o)

\* Without sharing, no object is ever counted twice or undercounted.
OneOwner == Apart => \A o \in Obj : Covered(ref, rc, o) /\ rc[o] <= 1

\* A variable refers to its object until that has been deleted, and the loop of
\* pyir_clearDanglingScope leaves no object behind.
NamesKeep == \A n \in Name : start[n] \in Obj => ref[n] = start[n] \/ rc[start[n]] = 0
Left ==
  CASE pc = "clear" -> todo \cup {cur}
    [] pc \in {"immortals", "exited"} /\ outcome = "raised" -> {}
    [] OTHER -> Name
NamesClear == \A n \in Name \ Left : start[n] \in Obj => rc[start[n]] = 0

IInv ==
  /\ TypeOK /\ Phases /\ NoGhostFields /\ CountsAreExact /\ OneOwner
  /\ NamesKeep /\ NamesClear /\ ReturnSafe /\ RaiseSafe

\* Which places there are, and which values.
LEMMA PlaceFacts ==
  /\ Root \subseteq Place /\ \A o \in Obj, s \in Slot : <<o, s>> \in Place /\ <<o, s>> \notin Root
  /\ Name \subseteq Root /\ Builtin \subseteq Root /\ Lost \subseteq Root
  /\ Nil \in Value /\ Obj \subseteq Value /\ Immortal \subseteq Value
  /\ Nil \notin Obj /\ Nil \notin Immortal /\ \A v \in Immortal : v \notin Obj
  BY HeapAssumption, ShutdownAssumption DEF Place, Value

-------------------------------------------------------------------------------
(* Masked references.                                                        *)

\* Giving up references that are not masked is the same with and without the mask.
LEMMA MaskedDecrefs ==
  ASSUME NEW r, NEW G, NEW L \in SUBSET Place, L \cap G = {}, NEW o
  PROVE  Decrefs(Masked(r, G), L, o) = Decrefs(r, L, o)
  <1>1. {p \in L : Masked(r, G)[p] = o} = {p \in L : r[p] = o}
    BY DEF Masked
  <1> QED
    BY <1>1 DEF Decrefs

\* So is the cascade it sets off.
LEMMA MaskedDeleted ==
  ASSUME NEW r \in [Place -> Value], NEW c \in [Obj -> Nat], NEW G \in SUBSET Root,
         NEW p \in Root \ G
  PROVE  /\ Deleted(Masked(r, G), c, {p}) = Deleted(r, c, {p})
         /\ \A o : Decrefs(Masked(r, G), Dropped(r, c, {p}), o) = Decrefs(r, Dropped(r, c, {p}), o)
  <1> DEFINE m == Masked(r, G)
             D == Deleted(r, c, {p})
  <1>1. ASSUME NEW F \in SUBSET Obj
        PROVE  {p} \cup Fields(F) \in SUBSET Place /\ ({p} \cup Fields(F)) \cap G = {}
    BY PlaceFacts DEF Fields
  <1>2. ASSUME NEW F \in SUBSET Obj  PROVE  Exhausted(m, c, {p}, F) = Exhausted(r, c, {p}, F)
    <2>1. \A o : Decrefs(m, {p} \cup Fields(F), o) = Decrefs(r, {p} \cup Fields(F), o)
      BY <1>1, MaskedDecrefs
    <2> QED
      BY <2>1 DEF Exhausted
  <1>3. Closed(m, c, {p}) = Closed(r, c, {p})
    <2>1. \A F \in SUBSET Live(c) : F \in SUBSET Obj
      BY DEF Live
    <2> QED
      BY <1>2, <2>1 DEF Closed
  <1>4. Deleted(m, c, {p}) = D
    BY <1>3 DEF Deleted
  <1>5. D \in SUBSET Obj
    BY DEF Deleted, Live
  <1>6. \A o : Decrefs(m, {p} \cup Fields(D), o) = Decrefs(r, {p} \cup Fields(D), o)
    BY <1>1, <1>5, MaskedDecrefs
  <1> QED
    BY <1>4, <1>6 DEF Dropped

\* It leaves the same counts and, with one more root masked, references ...
LEMMA MaskedCascade ==
  ASSUME NEW r \in [Place -> Value], NEW c \in [Obj -> Nat], NEW G \in SUBSET Root,
         NEW p \in Root \ G
  PROVE  /\ CountsAfter(Masked(r, G), c, {p}) = CountsAfter(r, c, {p})
         /\ RefsAfter(Masked(r, G), c, {p}) = Masked(RefsAfter(r, c, {p}), G \cup {p})
  <1>1. /\ Deleted(Masked(r, G), c, {p}) = Deleted(r, c, {p})
        /\ \A o : Decrefs(Masked(r, G), Dropped(r, c, {p}), o) = Decrefs(r, Dropped(r, c, {p}), o)
    BY MaskedDeleted
  <1>2. CountsAfter(Masked(r, G), c, {p}) = CountsAfter(r, c, {p})
    BY <1>1 DEF CountsAfter, Dropped
  <1>3. RefsAfter(Masked(r, G), c, {p}) = Masked(RefsAfter(r, c, {p}), G \cup {p})
    BY <1>1 DEF RefsAfter, Dropped, Masked
  <1> QED
    BY <1>2, <1>3

\* ... and decrements the same objects too often.
LEMMA MaskedOverrun ==
  ASSUME NEW r \in [Place -> Value], NEW c \in [Obj -> Nat], NEW G \in SUBSET Root,
         NEW p \in Root \ G
  PROVE  Overrun(Masked(r, G), c, {p}) = Overrun(r, c, {p})
  <1>1. /\ Deleted(Masked(r, G), c, {p}) = Deleted(r, c, {p})
        /\ \A o : Decrefs(Masked(r, G), Dropped(r, c, {p}), o) = Decrefs(r, Dropped(r, c, {p}), o)
    BY MaskedDeleted
  <1> QED
    BY <1>1 DEF Overrun, Dropped

-------------------------------------------------------------------------------
(* One decref through a root.                                                *)

\* Nothing else happens to the heap: no object comes to life, and a root loses
\* its reference only when its object is deleted.
LEMMA DecrefFacts ==
  ASSUME IInv, NEW p \in Root, Survives(p) \/ Dies(p)
  PROVE  /\ rc' \in [Obj -> Nat] /\ ref' \in [Place -> Value]
         /\ \A o \in Obj : rc'[o] <= rc[o]
         /\ \A q \in Root : ref'[q] = ref[q] \/ (ref[q] \in Obj /\ rc'[ref[q]] = 0)
         /\ Dies(p) => ref[p] \in Obj /\ rc'[ref[p]] = 0
         /\ NoGhostFields'
  <1>1. rc \in [Obj -> Nat] /\ ref \in [Place -> Value] /\ p \in Place
    BY PlaceFacts DEF IInv, TypeOK
  <1>2. CASE Survives(p)
    <2>1. /\ ref' = ref
          /\ rc' = rc \/ (ref[p] \in Obj /\ rc[ref[p]] > 1 /\ rc' = [rc EXCEPT ![ref[p]] = @ - 1])
          /\ ref[p] \in Immortal \/ ref[p] \in Obj
      BY <1>2 DEF Survives
    <2>2. rc' \in [Obj -> Nat] /\ \A o \in Obj : rc'[o] <= rc[o] /\ (rc'[o] = 0 <=> rc[o] = 0)
      BY <1>1, <2>1
    <2>3. ~Dies(p)
      BY <1>1, <1>2, PlaceFacts DEF Survives, Dies
    <2> QED
      BY <1>1, <2>1, <2>2, <2>3 DEF IInv, NoGhostFields
  <1>3. CASE Dies(p)
    <2> DEFINE D == Deleted(ref, rc, {p})
    <2>1. /\ ref[p] \in Obj /\ rc[ref[p]] = 1
          /\ ref' = RefsAfter(ref, rc, {p}) /\ rc' = CountsAfter(ref, rc, {p})
      BY <1>3 DEF Dies
    <2>2. {p} \in SUBSET Place
      BY <1>1
    <2>3. rc' \in [Obj -> Nat] /\ \A o \in Obj : rc'[o] = 0 <=> rc[o] = 0 \/ o \in D
      BY <1>1, <2>1, <2>2, CountsAfterType
    <2>4. ref' \in [Place -> Value]
      BY <1>1, <2>1, RefsAfterType
    <2>5. \A q \in Place : ref'[q] = IF q \in {p} \cup Fields(D) THEN Nil ELSE ref[q]
      BY <2>1 DEF RefsAfter, Dropped
    <2>6. ASSUME NEW o \in Obj  PROVE  rc'[o] <= rc[o]
      <3>1. {p} \cup Fields(D) \in SUBSET Place
        BY <1>1, <2>2, DroppedPlaces DEF Dropped
      <3>2. Decrefs(ref, {p} \cup Fields(D), o) \in Nat
        BY <3>1, DecrefsType
      <3> QED
        BY <1>1, <2>1, <3>2 DEF CountsAfter
    <2>7. ref[p] \in D
      <3>1. {p} \cup Fields(D) \in SUBSET Place
        BY <1>1, <2>2, DroppedPlaces DEF Dropped
      <3>2. Decrefs(ref, {p}, ref[p]) = 1
        <4>1. {q \in {p} : ref[q] = ref[p]} = {p}
          OBVIOUS
        <4> QED
          BY <4>1, FS_Singleton DEF Decrefs
      <3>3. Decrefs(ref, {p} \cup Fields(D), ref[p]) >= 1
        <4>1. Decrefs(ref, {p}, ref[p]) <= Decrefs(ref, {p} \cup Fields(D), ref[p])
          BY <3>1, DecrefsMonotone
        <4>2. Decrefs(ref, {p} \cup Fields(D), ref[p]) \in Nat
          BY <3>1, DecrefsType
        <4> QED
          BY <3>2, <4>1, <4>2
      <3>4. Decrefs(ref, {p} \cup Fields(D), ref[p]) \in Nat
        BY <3>1, DecrefsType
      <3>5. ref[p] \in Exhausted(ref, rc, {p}, D)
        BY <2>1, <3>3, <3>4 DEF Exhausted, Live
      <3> QED
        BY <1>1, <2>2, <3>5, DeletedFixpoint
    <2>8. \A q \in Root : q = p \/ ref'[q] = ref[q]
      BY <2>5, PlaceFacts DEF Fields, DroppedPlaces, Deleted, Live
    <2>9. NoGhostFields'
      <3> SUFFICES ASSUME NEW o \in Obj, rc'[o] = 0, NEW s \in Slot
                   PROVE  ref'[<<o, s>>] = Nil
        BY DEF NoGhostFields
      <3>1. CASE rc[o] = 0
        BY <2>5, <3>1, PlaceFacts DEF IInv, NoGhostFields
      <3>2. CASE o \in D
        BY <2>5, <3>2, PlaceFacts DEF Fields
      <3> QED
        BY <2>3, <3>1, <3>2
    <2> QED
      BY <2>1, <2>3, <2>4, <2>6, <2>7, <2>8, <2>9
  <1> QED
    BY <1>2, <1>3

\* Counts stay exact when a root gives up its reference.
LEMMA DecrefExact ==
  ASSUME IInv, NEW G \in SUBSET Root, NEW p \in Root \ G, Survives(p) \/ Dies(p),
         \A o \in Obj : Exact(Masked(ref, G), rc, o)
  PROVE  \A o \in Obj : Exact(Masked(ref', G \cup {p}), rc', o)
  <1> SUFFICES ASSUME NEW o \in Obj  PROVE  Exact(Masked(ref', G \cup {p}), rc', o)
    OBVIOUS
  <1> DEFINE m == Masked(ref, G)
  <1>1. rc \in [Obj -> Nat] /\ ref \in [Place -> Value] /\ p \in Place
    BY PlaceFacts DEF IInv, TypeOK
  <1>2. m \in [Place -> Value] /\ m[p] = ref[p]
    BY <1>1, PlaceFacts DEF Masked
  <1>3. CASE Dies(p)
    <2>1. ref' = RefsAfter(ref, rc, {p}) /\ rc' = CountsAfter(ref, rc, {p})
      BY <1>3 DEF Dies
    <2>2. /\ CountsAfter(m, rc, {p}) = rc'
          /\ RefsAfter(m, rc, {p}) = Masked(ref', G \cup {p})
      BY <1>1, <2>1, MaskedCascade
    <2>3. {p} \in SUBSET Place /\ Exact(m, rc, o)
      BY <1>1
    <2> HIDE DEF m
    <2>4. Exact(RefsAfter(m, rc, {p}), CountsAfter(m, rc, {p}), o)
      BY <1>1, <1>2, <2>3, ReleaseExact
    <2> QED
      BY <2>2, <2>4
  <1>4. CASE Survives(p)
    <2> DEFINE H == Holders(m, o)
               H2 == Holders(Masked(ref', G \cup {p}), o)
    <2>1. ref' = ref /\ (ref[p] \in Immortal \/ ref[p] \in Obj)
      BY <1>4 DEF Survives
    <2>2. H2 = H \ {p}
      BY <2>1, PlaceFacts DEF Holders, Masked
    <2>3. H \in SUBSET Place /\ Cardinality(H) = rc[o]
      BY DEF Holders, Exact
    <2>4. IsFiniteSet(H) /\ Cardinality(H) \in Nat
      BY <2>3, CountType
    <2>5. CASE ref[p] = o
      <3>1. rc'[o] = rc[o] - 1
        BY <1>1, <1>4, <2>5, PlaceFacts DEF Survives
      <3>2. p \in H
        BY <1>1, <1>2, <2>5 DEF Holders
      <3>3. Cardinality(H \ {p}) = Cardinality(H) - 1
        BY <2>4, <3>2, FS_RemoveElement
      <3> QED
        BY <2>2, <2>3, <3>1, <3>3 DEF Exact
    <2>6. CASE ref[p] # o
      <3>1. rc'[o] = rc[o]
        BY <1>1, <1>4, <2>6 DEF Survives
      <3>2. p \notin H
        BY <1>2, <2>6 DEF Holders
      <3>3. H \ {p} = H
        BY <3>2
      <3> QED
        BY <2>2, <2>3, <3>1, <3>3 DEF Exact
    <2> QED
      BY <2>5, <2>6
  <1> QED
    BY <1>3, <1>4

\* A counted reference is never decremented after its object's deletion.
LEMMA CoveredNeverFaults ==
  ASSUME IInv, NEW G \in SUBSET Root, NEW p \in Root \ G,
         \A o \in Obj : Covered(Masked(ref, G), rc, o)
  PROVE  ~Faults(p)
  <1> DEFINE m == Masked(ref, G)
  <1>1. rc \in [Obj -> Nat] /\ ref \in [Place -> Value] /\ {p} \in SUBSET Place
    BY PlaceFacts DEF IInv, TypeOK
  <1>2. m \in [Place -> Value] /\ m[p] = ref[p]
    BY <1>1, PlaceFacts DEF Masked
  <1>3. Overrun(ref, rc, {p}) = Overrun(m, rc, {p})
    BY <1>1, MaskedOverrun
  <1>4. \A o \in Obj : Covered(m, rc, o)
    OBVIOUS
  <1> HIDE DEF m
  <1>5. \A o \in Obj : o \notin Overrun(m, rc, {p})
    BY <1>1, <1>2, <1>4, ReleaseCovered
  <1>6. Overrun(ref, rc, {p}) = {}
    BY <1>3, <1>5 DEF Overrun
  <1>7. ASSUME ref[p] \in Obj, rc[ref[p]] = 0  PROVE FALSE
    <2>1. Holders(m, ref[p]) \in SUBSET Place /\ p \in Holders(m, ref[p])
      BY <1>1, <1>2 DEF Holders
    <2>2. IsFiniteSet(Holders(m, ref[p])) /\ Cardinality(Holders(m, ref[p])) \in Nat
      BY <2>1, CountType
    <2>3. Cardinality(Holders(m, ref[p])) = 0
      BY <1>4, <1>7, <2>2 DEF Covered
    <2> QED
      BY <2>1, <2>2, <2>3, FS_EmptySet
  <1> QED
    BY <1>6, <1>7 DEF Faults

\* Without sharing, a decref is the last one of its object.
LEMMA DecrefOneOwner ==
  ASSUME IInv, NEW p \in Root, Survives(p) \/ Dies(p), start' = start
  PROVE  OneOwner'
  <1> SUFFICES ASSUME Apart, NEW o \in Obj  PROVE  Covered(ref', rc', o) /\ rc'[o] <= 1
    BY DEF OneOwner, Apart, Held
  <1>1. rc \in [Obj -> Nat] /\ ref \in [Place -> Value] /\ {p} \in SUBSET Place
    BY PlaceFacts DEF IInv, TypeOK
  <1>2. \A q \in Obj : Covered(ref, rc, q) /\ rc[q] <= 1
    BY DEF IInv, OneOwner
  <1>3. rc'[o] <= 1
    <2>1. rc' \in [Obj -> Nat] /\ rc'[o] <= rc[o] /\ rc[o] <= 1
      BY <1>2, DecrefFacts
    <2> QED
      BY <1>1, <2>1
  <1>4. CASE Survives(p)
    <2>1. UNCHANGED <<rc, ref>>
      BY <1>1, <1>2, <1>4 DEF Survives
    <2> QED
      BY <1>2, <1>3, <2>1
  <1>5. CASE Dies(p)
    <2>1. ref' = RefsAfter(ref, rc, {p}) /\ rc' = CountsAfter(ref, rc, {p})
      BY <1>5 DEF Dies
    <2>2. Covered(RefsAfter(ref, rc, {p}), CountsAfter(ref, rc, {p}), o)
      BY <1>1, <1>2, ReleaseCovered
    <2> QED
      BY <1>3, <2>1, <2>2
  <1> QED
    BY <1>4, <1>5

\* Without sharing, no entry holds a deleted object.
LEMMA ApartNeverFaults ==
  ASSUME IInv, Apart, NEW p \in Root
  PROVE  ~Faults(p)
  <1>1. Masked(ref, {}) = ref
    BY DEF Masked, IInv, TypeOK
  <1>2. \A o \in Obj : Covered(Masked(ref, {}), rc, o)
    BY <1>1 DEF IInv, OneOwner
  <1>3. {} \in SUBSET Root /\ p \in Root \ {}
    OBVIOUS
  <1> QED
    BY <1>2, <1>3, CoveredNeverFaults

\* A variable whose object is not deleted keeps referring to it.
LEMMA NamesKeepInv ==
  ASSUME IInv, NEW p \in Root, Survives(p) \/ Dies(p), start' = start
  PROVE  NamesKeep'
  <1> SUFFICES ASSUME NEW n \in Name, start[n] \in Obj
               PROVE  ref'[n] = start[n] \/ rc'[start[n]] = 0
    BY DEF NamesKeep
  <1>1. /\ rc \in [Obj -> Nat] /\ rc' \in [Obj -> Nat] /\ rc'[start[n]] <= rc[start[n]]
        /\ ref'[n] = ref[n] \/ (ref[n] \in Obj /\ rc'[ref[n]] = 0)
    BY DecrefFacts, PlaceFacts DEF IInv, TypeOK
  <1>2. ref[n] = start[n] \/ rc[start[n]] = 0
    BY DEF IInv, NamesKeep
  <1> QED
    BY <1>1, <1>2

-------------------------------------------------------------------------------
(* The steps.                                                                *)

\* The invariant holds of every heap a module may end with.
LEMMA InitInv == Init => IInv
  <1> SUFFICES ASSUME Init  PROVE IInv
    OBVIOUS
  <1>1. PICK k \in [Table -> 1..Cardinality(Place)] :
          rc = [o \in Obj |-> IF o \in Table THEN k[o] ELSE Cardinality(Holders(ref, o))]
    BY DEF Init
  <1>2. /\ ref \in [Place -> Value] /\ start = ref
        /\ \A b \in Builtin : ref[b] \in Obj
        /\ pc = "module" /\ depth = 1 /\ outcome = "running" /\ todo = {} /\ cur = Nil
        /\ \A o \in Obj : Cardinality(Holders(ref, o)) >= rc[o]
        /\ \A p \in Fields(Obj) : ref[p] # Nil => rc[p[1]] > 0
    BY DEF Init
  <1>3. ASSUME NEW o \in Obj
        PROVE  /\ Cardinality(Holders(ref, o)) \in Nat /\ rc[o] \in Nat
               /\ o \in Table => rc[o] >= 1
               /\ o \notin Table => rc[o] = Cardinality(Holders(ref, o))
    <2>1. Holders(ref, o) \in SUBSET Place /\ Cardinality(Place) \in Nat
      BY PlacesFinite, FS_CardinalityType DEF Holders
    <2>2. Cardinality(Holders(ref, o)) \in Nat
      BY <2>1, CountType
    <2> QED
      BY <1>1, <2>1, <2>2
  <1>4. rc \in [Obj -> Nat]
    BY <1>1, <1>3
  <1>5. TypeOK
    BY <1>2, <1>4, ShutdownAssumption DEF TypeOK, PC
  <1>6. Phases
    BY <1>2 DEF Phases
  <1>7. NoGhostFields
    <2> SUFFICES ASSUME NEW o \in Obj, rc[o] = 0, NEW s \in Slot, ref[<<o, s>>] # Nil
                 PROVE  FALSE
      BY DEF NoGhostFields
    <2>1. <<o, s>> \in Fields(Obj)
      BY DEF Fields
    <2>2. rc[o] > 0
      BY <1>2, <2>1
    <2> QED
      BY <1>3, <2>2
  <1>8. CountsAreExact
    <2> SUFFICES ASSUME BuiltinsApart, NEW o \in Obj  PROVE  Exact(ref, rc, o)
      <3>1. Masked(ref, Gone) = ref
        BY <1>2 DEF Masked, Gone
      <3> QED
        BY <3>1 DEF CountsAreExact
    <2>1. CASE o \in Table
      <3>1. PICK b \in Builtin : o = ref[b]
        BY <2>1 DEF Table
      <3>2. Holders(ref, o) = {b}
        BY <1>2, <3>1 DEF BuiltinsApart, Held, Holders
      <3>3. Cardinality(Holders(ref, o)) = 1
        BY <3>2, FS_Singleton
      <3> QED
        BY <1>2, <1>3, <2>1, <3>3 DEF Exact
    <2>2. CASE o \notin Table
      BY <1>3, <2>2 DEF Exact
    <2> QED
      BY <2>1, <2>2
  <1>9. OneOwner
    <2> SUFFICES ASSUME Apart, NEW o \in Obj  PROVE  Covered(ref, rc, o) /\ rc[o] <= 1
      BY DEF OneOwner
    <2>1. Cardinality(Holders(ref, o)) <= 1 /\ Cardinality(Holders(ref, o)) >= rc[o]
      BY <1>2 DEF Apart, Held, Holders
    <2> QED
      BY <1>3, <2>1 DEF Covered
  <1>10. NamesKeep /\ NamesClear
    BY <1>2 DEF NamesKeep, NamesClear, Left
  <1>11. ReturnSafe /\ RaiseSafe
    BY <1>2 DEF ReturnSafe, RaiseSafe
  <1> QED
    BY <1>5, <1>6, <1>7, <1>8, <1>9, <1>10, <1>11 DEF IInv

\* A step of main() that leaves the heap alone.
LEMMA QuietInv ==
  ASSUME IInv, UNCHANGED <<rc, ref, start>>,
         depth' \in 1..MaxDepth, pc' \in PC \ {"fault"},
         outcome' \in {"running", "returned", "raised"},
         todo' \subseteq Name \cup Builtin, cur' \in Name \cup {Nil},
         Phases', Counting' => Counting /\ Masked(ref, Gone') = Masked(ref, Gone),
         NamesClear'
  PROVE  IInv'
  <1>1. TypeOK'
    BY DEF IInv, TypeOK
  <1>2. NoGhostFields' /\ NamesKeep'
    BY DEF IInv, NoGhostFields, NamesKeep
  <1>3. CountsAreExact'
    <2> SUFFICES ASSUME Counting', BuiltinsApart, NEW o \in Obj
                 PROVE  Exact(Masked(ref, Gone'), rc, o)
      BY DEF CountsAreExact, BuiltinsApart, Held
    <2> QED
      BY DEF IInv, CountsAreExact
  <1>4. OneOwner'
    BY DEF IInv, OneOwner, Apart, Held
  <1>5. ReturnSafe' /\ RaiseSafe'
    BY DEF ReturnSafe, RaiseSafe
  <1> QED
    BY <1>1, <1>2, <1>3, <1>4, <1>5 DEF IInv

\* The module finishes: variables without a value have nothing to give up.
LEMMA FinishInv ==
  ASSUME IInv, Return \/ \E d \in 1..MaxDepth : Throw(d)
  PROVE  IInv'
  <1>1. /\ pc = "module" /\ UNCHANGED <<rc, ref, start, cur>>
        /\ outcome' \in {"returned", "raised"} /\ depth' \in 1..MaxDepth
        /\ \/ pc' = "destroy" /\ todo' = Bound
           \/ pc' = "aborted" /\ todo' = todo
    BY DEF Return, Throw, IInv, TypeOK
  <1>2. Bound \subseteq Name /\ todo \subseteq Name \cup Builtin /\ cur \in Name \cup {Nil}
    BY DEF Bound, IInv, TypeOK
  <1>3. Phases' /\ NamesClear'
    BY <1>1, <1>2 DEF Phases, NamesClear, Left
  <1>4. Counting' => Counting /\ Masked(ref, Gone') = Masked(ref, Gone)
    <2>1. Counting
      BY <1>1 DEF Counting
    <2>2. CASE pc' = "destroy"
      <3>1. Gone = {} /\ Gone' = Name \ Bound
        BY <1>1, <2>2 DEF Gone
      <3>2. \A p \in Name \ Bound : ref[p] = Nil
        BY DEF Bound
      <3> QED
        BY <2>1, <3>1, <3>2 DEF Masked
    <2>3. CASE pc' = "aborted"
      BY <2>3 DEF Counting
    <2> QED
      BY <1>1, <2>2, <2>3
  <1> QED
    BY <1>1, <1>2, <1>3, <1>4, QuietInv DEF PC, Final

\* One entry of pyir_destroyModule: it moves from what is to be given up to what
\* has been.
LEMMA DestroyInv ==
  ASSUME IInv, NEW p \in Root, Destroy(p)
  PROVE  IInv'
  <1>1. /\ pc \in {"destroy", "builtins"} /\ p \in todo
        /\ UNCHANGED <<depth, outcome, cur, start>>
    BY DEF Destroy, Faults
  <1>2. /\ Counting /\ Gone \in SUBSET Root /\ p \notin Gone
        /\ (pc = "destroy" => todo \subseteq Name) /\ (pc = "builtins" => todo \subseteq Builtin)
    BY <1>1, PlaceFacts, ShutdownAssumption DEF IInv, Phases, Counting, Gone
  <1>3. CASE Faults(p)
    <2>1. pc' = "fault" /\ UNCHANGED <<rc, ref, todo>>
      BY <1>3 DEF Faults
    <2>2. TypeOK' /\ Phases' /\ NoGhostFields' /\ CountsAreExact' /\ NamesKeep' /\ NamesClear'
      BY <1>1, <2>1 DEF IInv, TypeOK, PC, Final, Phases, NoGhostFields, CountsAreExact, Counting,
                        NamesKeep, NamesClear, Left
    <2>3. OneOwner'
      BY <1>1, <2>1 DEF IInv, OneOwner, Apart, Held
    <2>4. ~BuiltinsApart
      <3> SUFFICES ASSUME BuiltinsApart  PROVE FALSE
        OBVIOUS
      <3>1. \A o \in Obj : Exact(Masked(ref, Gone), rc, o)
        BY <1>2 DEF IInv, CountsAreExact
      <3>2. \A o \in Obj : Covered(Masked(ref, Gone), rc, o)
        BY <3>1 DEF IInv, TypeOK, Exact, Covered
      <3> QED
        BY <1>2, <1>3, <3>2, CoveredNeverFaults
    <2>5. ~Apart
      BY <1>3, ApartNeverFaults
    <2>6. ReturnSafe' /\ RaiseSafe'
      BY <1>1, <2>4, <2>5 DEF ReturnSafe, RaiseSafe, BuiltinsApart, Apart, Held
    <2> QED
      BY <2>2, <2>3, <2>6 DEF IInv
  <1>4. CASE ~Faults(p)
    <2>1. (Survives(p) \/ Dies(p)) /\ todo' = todo \ {p} /\ pc' = pc
      BY <1>4 DEF Destroy
    <2>2. rc' \in [Obj -> Nat] /\ ref' \in [Place -> Value] /\ NoGhostFields' /\ OneOwner'
      BY <1>1, <2>1, DecrefFacts, DecrefOneOwner
    <2>3. TypeOK' /\ Phases'
      BY <1>1, <2>1, <2>2 DEF IInv, TypeOK, Phases
    <2>4. CountsAreExact'
      <3> SUFFICES ASSUME BuiltinsApart  PROVE \A o \in Obj : Exact(Masked(ref', Gone'), rc', o)
        BY <1>1 DEF CountsAreExact, BuiltinsApart, Held
      <3>1. Gone' = Gone \cup {p}
        BY <1>1, <1>2, <2>1 DEF Gone
      <3>2. \A o \in Obj : Exact(Masked(ref, Gone), rc, o)
        BY <1>2 DEF IInv, CountsAreExact
      <3>3. \A o \in Obj : Exact(Masked(ref', Gone \cup {p}), rc', o)
        BY <1>2, <2>1, <3>2, DecrefExact
      <3> QED
        BY <3>1, <3>3
    <2>5. NamesKeep'
      BY <1>1, <2>1, NamesKeepInv
    <2>6. NamesClear' /\ ReturnSafe' /\ RaiseSafe'
      BY <1>1, <2>1 DEF NamesClear, Left, ReturnSafe, RaiseSafe
    <2> QED
      BY <2>2, <2>3, <2>4, <2>5, <2>6 DEF IInv
  <1> QED
    BY <1>3, <1>4

\* Between the loops.
LEMMA BetweenInv ==
  ASSUME IInv, NamesDestroyed \/ BuiltinsDestroyed \/ Cleared \/ Exit
  PROVE  IInv'
  <1>1. /\ UNCHANGED <<rc, ref, start, depth, outcome, cur>>
        /\ depth \in 1..MaxDepth /\ outcome \in {"running", "returned", "raised"}
        /\ cur \in Name \cup {Nil} /\ todo \subseteq Name \cup Builtin
    BY DEF NamesDestroyed, BuiltinsDestroyed, Cleared, Exit, IInv, TypeOK
  <1>2. CASE NamesDestroyed
    <2>1. pc = "destroy" /\ todo = {} /\ pc' = "builtins" /\ todo' = Builtin
      BY <1>2 DEF NamesDestroyed
    <2>2. Phases' /\ NamesClear'
      BY <1>1, <2>1 DEF Phases, NamesClear, Left
    <2>3. Counting /\ Gone' = Gone
      BY <2>1 DEF Counting, Gone
    <2> QED
      BY <1>1, <2>1, <2>2, <2>3, QuietInv DEF PC
  <1>3. CASE BuiltinsDestroyed
    <2>1. pc = "builtins" /\ todo = {}
      BY <1>3 DEF BuiltinsDestroyed
    <2>2. \/ outcome = "returned" /\ pc' = "immortals" /\ todo' = todo
          \/ outcome = "raised" /\ pc' = "clear" /\ todo' = Bound
      BY <1>3 DEF BuiltinsDestroyed
    <2>3. Bound \subseteq Name
      BY DEF Bound
    <2>4. Phases'
      BY <1>1, <2>2, <2>3 DEF Phases
    <2>5. NamesClear'
      <3>1. CASE pc' = "immortals"
        BY <1>1, <2>2, <3>1 DEF NamesClear, Left
      <3>2. CASE pc' = "clear"
        <4> SUFFICES ASSUME NEW n \in Name \ Bound, start[n] \in Obj  PROVE  rc[start[n]] = 0
          BY <1>1, <2>2, <3>2 DEF NamesClear, Left
        <4>1. ref[n] = Nil
          BY DEF Bound
        <4> QED
          BY <4>1, PlaceFacts DEF IInv, NamesKeep
      <3> QED
        BY <2>2, <3>1, <3>2
    <2>6. Counting' => Counting /\ Masked(ref, Gone') = Masked(ref, Gone)
      BY <2>1, <2>2 DEF Counting, Gone
    <2> QED
      BY <1>1, <2>2, <2>3, <2>4, <2>5, <2>6, QuietInv DEF PC, Final
  <1>4. CASE Cleared
    <2>1. pc = "clear" /\ cur = Nil /\ todo = {} /\ pc' = "immortals" /\ todo' = todo
      BY <1>4 DEF Cleared
    <2>2. outcome = "raised"
      BY <2>1 DEF IInv, Phases
    <2>3. Phases' /\ (Counting' => Counting /\ Masked(ref, Gone') = Masked(ref, Gone))
      BY <1>1, <2>1, <2>2 DEF Phases, Counting
    <2>4. NamesClear'
      BY <1>1, <2>1, <2>2, ShutdownAssumption DEF IInv, NamesClear, Left
    <2> QED
      BY <1>1, <2>1, <2>3, <2>4, QuietInv DEF PC, Final
  <1>5. CASE Exit
    <2>1. pc = "immortals" /\ pc' = "exited" /\ todo' = todo
      BY <1>5 DEF Exit
    <2>2. Phases' /\ (Counting' => Counting /\ Masked(ref, Gone') = Masked(ref, Gone))
      BY <1>1, <2>1 DEF Phases, Counting, Gone
    <2>3. NamesClear'
      BY <1>1, <2>1 DEF IInv, NamesClear, Left
    <2> QED
      BY <1>1, <2>1, <2>2, <2>3, QuietInv DEF PC, Final
  <1> QED
    BY <1>2, <1>3, <1>4, <1>5

\* pyir_clearDanglingScope comes to a variable ...
LEMMA VisitInv ==
  ASSUME IInv, NEW n \in Name, Visit(n)
  PROVE  IInv'
  <1>1. /\ pc = "clear" /\ cur = Nil /\ n \in todo /\ cur' = n /\ todo' = todo \ {n}
        /\ UNCHANGED <<rc, ref, depth, pc, outcome, start>>
    BY DEF Visit
  <1>2. /\ depth' \in 1..MaxDepth /\ pc' \in PC \ {"fault"}
        /\ outcome' \in {"running", "returned", "raised"}
        /\ todo' \subseteq Name \cup Builtin /\ cur' \in Name \cup {Nil}
    BY <1>1 DEF IInv, TypeOK
  <1>3. Phases' /\ ~Counting'
    BY <1>1 DEF IInv, Phases, Counting
  <1>4. NamesClear'
    BY <1>1, ShutdownAssumption DEF IInv, NamesClear, Left
  <1> QED
    BY <1>1, <1>2, <1>3, <1>4, QuietInv

\* ... and leaves it when its object has been deleted.
LEMMA ClearInv ==
  ASSUME IInv, Clear
  PROVE  IInv'
  <1>1. /\ pc = "clear" /\ cur # Nil /\ cur \in Name /\ cur \in Root /\ outcome = "raised"
        /\ todo \subseteq Name /\ start' = start /\ outcome' = outcome /\ todo' = todo
        /\ depth' = depth
    BY PlaceFacts DEF Clear, Faults, main, IInv, TypeOK, Phases
  <1>2. CASE Faults(cur)
    <2>1. pc' = "fault" /\ UNCHANGED <<rc, ref, cur>>
      BY <1>2 DEF Faults
    <2>2. TypeOK' /\ Phases' /\ NoGhostFields' /\ CountsAreExact' /\ NamesKeep' /\ NamesClear'
      BY <1>1, <2>1 DEF IInv, TypeOK, PC, Final, Phases, NoGhostFields, CountsAreExact, Counting,
                        NamesKeep, NamesClear, Left
    <2>3. OneOwner'
      BY <1>1, <2>1 DEF IInv, OneOwner, Apart, Held
    <2>4. ~Apart
      BY <1>1, <1>2, ApartNeverFaults
    <2>5. ReturnSafe' /\ RaiseSafe'
      BY <1>1, <2>4 DEF ReturnSafe, RaiseSafe, Apart, Held
    <2> QED
      BY <2>2, <2>3, <2>5 DEF IInv
  <1>3. CASE ~Faults(cur)
    <2>1. /\ Survives(cur) \/ Dies(cur)
          /\ pc' = pc
          /\ cur' = cur \/ (cur' = Nil /\ Dies(cur))
      BY <1>3 DEF Clear, main
    <2>2. /\ rc' \in [Obj -> Nat] /\ ref' \in [Place -> Value] /\ NoGhostFields' /\ OneOwner'
          /\ \A o \in Obj : rc'[o] <= rc[o]
          /\ Dies(cur) => ref[cur] \in Obj /\ rc'[ref[cur]] = 0
      BY <1>1, <2>1, DecrefFacts, DecrefOneOwner
    <2>3. TypeOK' /\ Phases' /\ CountsAreExact'
      BY <1>1, <2>1, <2>2 DEF IInv, TypeOK, Phases, CountsAreExact, Counting
    <2>4. NamesKeep'
      BY <1>1, <2>1, NamesKeepInv
    <2>5. NamesClear'
      <3> SUFFICES ASSUME NEW n \in Name, n \notin todo, n # cur', start[n] \in Obj
                   PROVE  rc'[start[n]] = 0
        BY <1>1, <2>1 DEF NamesClear, Left
      <3>1. rc \in [Obj -> Nat]
        BY DEF IInv, TypeOK
      <3>2. ASSUME rc[start[n]] = 0  PROVE rc'[start[n]] = 0
        BY <2>2, <3>1, <3>2
      <3>3. CASE n = cur
        BY <2>1, <2>2, <3>2, <3>3 DEF IInv, NamesKeep
      <3>4. CASE n # cur
        BY <1>1, <3>2, <3>4 DEF IInv, NamesClear, Left
      <3> QED
        BY <3>3, <3>4
    <2>6. ReturnSafe' /\ RaiseSafe'
      BY <1>1, <2>1 DEF ReturnSafe, RaiseSafe
    <2> QED
      BY <2>2, <2>3, <2>4, <2>5, <2>6 DEF IInv
  <1> QED
    BY <1>2, <1>3

\* Every step preserves the invariant.
LEMMA NextInv == IInv /\ [Next]_vars => IInv'
  <1> SUFFICES ASSUME IInv, [Next]_vars  PROVE IInv'
    OBVIOUS
  <1>1. CASE UNCHANGED vars
    BY <1>1 DEF vars, IInv, TypeOK, Phases, NoGhostFields, CountsAreExact, Counting, Gone, OneOwner,
                NamesKeep, NamesClear, Left, ReturnSafe, RaiseSafe, BuiltinsApart, Apart, Held
  <1> QED
    BY <1>1, FinishInv, DestroyInv, BetweenInv, VisitInv, ClearInv DEF Next

-------------------------------------------------------------------------------
(* The theorems about the specification.                                     *)

\* The invariant holds of every reachable state.
LEMMA Invariance == Spec => []IInv
  BY InitInv, NextInv, PTL DEF Spec

\* The variables keep their types.
THEOREM TypeCorrect == Spec => []TypeOK
  <1>1. IInv => TypeOK
    BY DEF IInv
  <1> QED
    BY <1>1, Invariance, PTL

(***************************************************************************)
(* When the module returns, pyir_destroyModule never decrements a deleted  *)
(* object: whatever its variables share, each entry gives up one reference *)
(* that was counted, although it keeps its pointer.                        *)
(***************************************************************************)
THEOREM ReturnIsSafe == Spec => []ReturnSafe
  <1>1. IInv => ReturnSafe
    BY DEF IInv
  <1> QED
    BY <1>1, Invariance, PTL

(***************************************************************************)
(* When no object has two owners, neither pyir_destroyModule nor           *)
(* pyir_clearDanglingScope decrements a deleted object, however the module *)
(* ends.                                                                   *)
(***************************************************************************)
THEOREM RaiseIsSafe == Spec => []RaiseSafe
  <1>1. IInv => RaiseSafe
    BY DEF IInv
  <1> QED
    BY <1>1, Invariance, PTL

\* After an exception, an exit has deleted the objects of all variables.
THEOREM NamesAreFreed == Spec => []NamesFreed
  <1>1. IInv => NamesFreed
    BY DEF IInv, NamesClear, Left, NamesFreed
  <1> QED
    BY <1>1, Invariance, PTL

(***************************************************************************)
(* After a normal exit, an object survives only if a surviving object or a *)
(* lost reference holds it: the roots have given up theirs, and counts are *)
(* exact.                                                                  *)
(***************************************************************************)
THEOREM OnlyCyclesAreLeft == Spec => []OnlyCyclesRemain
  <1>1. IInv => OnlyCyclesRemain
    <2> SUFFICES ASSUME IInv, pc = "exited", outcome = "returned", BuiltinsApart,
                        NEW o \in Obj, rc[o] > 0
                 PROVE  \/ \E q \in Obj, s \in Slot : rc[q] > 0 /\ ref[<<q, s>>] = o
                        \/ \E p \in Lost : ref[p] = o
      BY DEF OnlyCyclesRemain
    <2> DEFINE H == Holders(Masked(ref, Gone), o)
    <2>1. Gone = Name \cup Builtin
      BY DEF Gone
    <2>2. Cardinality(H) = rc[o] /\ rc \in [Obj -> Nat]
      BY DEF IInv, CountsAreExact, Counting, Exact, TypeOK
    <2>3. H # {}
      BY <2>2, FS_EmptySet
    <2>4. PICK p \in Place : p \notin Gone /\ ref[p] = o
      BY <2>3, PlaceFacts DEF Holders, Masked
    <2>5. CASE p \in Root
      BY <2>1, <2>4, <2>5, ShutdownAssumption
    <2>6. CASE p \in Obj \X Slot
      <3>1. PICK q \in Obj, s \in Slot : p = <<q, s>>
        BY <2>6
      <3>2. rc[q] # 0
        BY <2>4, <3>1, PlaceFacts DEF IInv, NoGhostFields
      <3> QED
        BY <2>2, <2>4, <3>1, <3>2
    <2> QED
      BY <2>4, <2>5, <2>6 DEF Place
  <1> QED
    BY <1>1, Invariance, PTL

-------------------------------------------------------------------------------
(* The refinement of ProcessExit.                                            *)

\* Without sharing, immortal variables and open scopes, each variable's loop
\* entry deletes its object, so that none is left when the process exits.
Promised ==
  /\ Apart
  /\ pc \in {"destroy", "module"} \/ Bound = {}
  /\ pc = "destroy" => Bound \subseteq todo
  /\ pc \notin {"aborted", "fault"} /\ (pc = "module" <=> outcome = "running")

LEMMA PromisedInit ==
  ASSUME ~Sharing, Init
  PROVE  Promised
  BY DEF Promised, Init, Apart, Held, Holders

\* A decref through a variable deletes what it holds.
LEMMA DecrefReleases ==
  ASSUME Immortal = {}, IInv, Promised, NEW p \in Root, Destroy(p)
  PROVE  /\ ref'[p] = Nil /\ Bound' \subseteq Bound \ {p}
         /\ todo' = todo \ {p} /\ UNCHANGED <<depth, pc, outcome, cur, start>>
  <1>1. ~Faults(p)
    BY ApartNeverFaults DEF Promised
  <1>2. /\ Survives(p) \/ Dies(p)
        /\ todo' = todo \ {p} /\ UNCHANGED <<depth, pc, outcome, cur, start>>
    BY <1>1 DEF Destroy
  <1>3. rc \in [Obj -> Nat] /\ \A o \in Obj : rc[o] <= 1
    BY DEF IInv, TypeOK, Promised, OneOwner
  <1>4. ~Survives(p)
    BY <1>3 DEF Survives
  <1>5. ref'[p] = Nil /\ \A q \in Place : ref'[q] = Nil \/ ref'[q] = ref[q]
    BY <1>2, <1>4, PlaceFacts DEF Dies, RefsAfter, Dropped
  <1> QED
    BY <1>2, <1>5, PlaceFacts DEF Bound

LEMMA PromisedNext ==
  ASSUME Immortal = {}, MaxDepth = 1, IInv, Promised, [Next]_vars
  PROVE  Promised' /\ [Promise!Next]_(Promise!vars)
  <1>1. CASE Return \/ \E d \in 1..MaxDepth : Throw(d)
    <2>1. /\ pc = "module" /\ pc' = "destroy" /\ todo' = Bound
          /\ outcome' \in {"returned", "raised"} /\ UNCHANGED <<ref, start>>
      BY <1>1 DEF Return, Throw
    <2>2. Bound' = Bound
      BY <2>1 DEF Bound
    <2>3. Promised'
      BY <2>1, <2>2 DEF Promised, Apart, Held
    <2>4. Promise!Finish(outcome')
      BY <2>1, <2>2 DEF Promised, Promise!Finish
    <2> QED
      BY <2>1, <2>3, <2>4 DEF Promise!Next
  <1>2. ASSUME NEW p \in Root, Destroy(p)  PROVE Promised' /\ [Promise!Next]_(Promise!vars)
    <2>1. /\ Bound' \subseteq Bound \ {p} /\ todo' = todo \ {p}
          /\ UNCHANGED <<pc, outcome, start>>
      BY <1>2, DecrefReleases
    <2>2. pc \in {"destroy", "builtins"}
      BY <1>2 DEF Destroy
    <2>3. Promised'
      BY <2>1, <2>2 DEF Promised, Apart, Held
    <2>4. CASE (Bound # {}) = (Bound' # {})
      BY <2>1, <2>3, <2>4 DEF Promise!vars
    <2>5. CASE Bound # {} /\ Bound' = {}
      <3>1. Promise!Release
        BY <2>1, <2>2, <2>5 DEF Promised, Promise!Release
      <3> QED
        BY <2>3, <3>1 DEF Promise!Next
    <2>6. Bound = {} => Bound' = {}
      BY <2>1
    <2> QED
      BY <2>3, <2>4, <2>5, <2>6
  <1>3. CASE NamesDestroyed \/ BuiltinsDestroyed \/ Cleared \/ \E n \in Name : Visit(n)
    <2>1. /\ UNCHANGED <<ref, start, outcome>>
          /\ pc \in {"destroy", "builtins", "clear"} /\ pc' \in {"builtins", "immortals", "clear"}
          /\ pc = "destroy" => todo = {}
      BY <1>3 DEF NamesDestroyed, BuiltinsDestroyed, Cleared, Visit
    <2>2. Bound' = Bound
      BY <2>1 DEF Bound
    <2>3. Promised'
      BY <2>1, <2>2 DEF Promised, Apart, Held
    <2> QED
      BY <2>1, <2>2, <2>3 DEF Promise!vars
  <1>4. CASE Clear
    <2>1. pc = "clear" /\ cur \in Name /\ ref[cur] = Nil
      BY <1>4 DEF Clear, IInv, TypeOK, Promised, Bound
    <2> QED
      BY <1>4, <2>1, PlaceFacts DEF Clear, Faults, Survives, Dies
  <1>5. CASE Exit
    <2>1. pc = "immortals" /\ pc' = "exited" /\ UNCHANGED <<ref, start, outcome>>
      BY <1>5 DEF Exit
    <2>2. Bound' = Bound /\ Bound = {}
      BY <2>1 DEF Bound, Promised
    <2>3. Promised'
      BY <2>1, <2>2 DEF Promised, Apart, Held
    <2>4. Promise!Exit
      BY <2>1, <2>2 DEF Promised, Promise!Exit
    <2> QED
      BY <2>3, <2>4 DEF Promise!Next
  <1>6. CASE UNCHANGED vars
    <2>1. Bound' = Bound
      BY <1>6 DEF vars, Bound
    <2> QED
      BY <1>6, <2>1 DEF vars, Promised, Apart, Held, Promise!vars
  <1> QED
    BY <1>1, <1>2, <1>3, <1>4, <1>5, <1>6 DEF Next

(***************************************************************************)
(* Without sharing, immortal objects and open scopes, every step of main() *)
(* and its clean-up is a step of ProcessExit or leaves its variables       *)
(* alone.                                                                  *)
(***************************************************************************)
THEOREM StepsKeepPromise ==
  ASSUME ~Sharing, Immortal = {}, MaxDepth = 1
  PROVE  Spec => Promise!Init /\ [][Promise!Next]_(Promise!vars)
  <1>1. Init => IInv /\ Promised
    BY InitInv, PromisedInit
  <1>2. IInv /\ Promised /\ [Next]_vars => (IInv /\ Promised)' /\ [Promise!Next]_(Promise!vars)
    BY NextInv, PromisedNext
  <1>3. Init => Promise!Init
    BY DEF Init, Promise!Init
  <1> QED
    BY <1>1, <1>2, <1>3, PTL DEF Spec
=============================================================================
