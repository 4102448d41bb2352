--------------------------- MODULE Ownership_proofs ---------------------------
(***************************************************************************)
(* What holds of Ownership for every heap, every number of variables and   *)
(* SSA values, every depth of loops and every set of instructions: the     *)
(* types of the variables, Confined, ExactCounts, the single owner of an   *)
(* iterator, what is left behind after an exit, and the memory safety of   *)
(* programs without an aliasing instruction.                               *)
(***************************************************************************)
EXTENDS Ownership, RefCounts_proofs

(***************************************************************************)
(* Fit(r, c, G, E, X): references and counts that an instruction may       *)
(* produce.  The fields of a cell that holds no object are empty, except   *)
(* in the cells X under construction; the objects of G are counted for     *)
(* every holder, and those of E not more often.                            *)
(***************************************************************************)
Fit(r, c, G, E, X) ==
  /\ r \in [Place -> Value]
  /\ c \in [Obj -> Nat]
  /\ \A o \in Obj \ X : c[o] = 0 => \A s \in Slot : r[<<o, s>>] = Nil
  /\ \A o \in G : Covered(r, c, o)
  /\ \A o \in E : Exact(r, c, o)

\* The places outside iterStack, which are all that most instructions touch.
Offstack == Place \ LoopPlace

\* Places an instruction may write: roots, and fields of existing or new objects.
Writable(c, X) == (Root \ LoopPlace) \cup Fields({o \in Obj : o \in X \/ c[o] # 0})

(***************************************************************************)
(* Apart(r): references that leave the entries of iterStack as they are    *)
(* and put nothing there elsewhere: what the other places hold is new, or  *)
(* was held outside iterStack before.                                      *)
(***************************************************************************)
Apart(r) ==
  /\ \A p \in LoopPlace : r[p] = ref[p]
  /\ \A p \in Offstack : r[p] \in Obj => rc[r[p]] = 0 \/ \E q \in Offstack : ref[q] = r[p]

\* The objects known to be counted for every holder: all but the aliased ones,
\* which are forgotten with the cell's next object ...
Sure == {o \in Obj : o \notin aliased \/ rc[o] = 0}

\* ... and those known to be counted exactly: all but the aliased and the leaked.
Known == {o \in Obj : o \notin aliased \cup leaked \/ rc[o] = 0}

\* An instruction runs, and nothing undefined has happened.
Ready == phase = "running" /\ Defined

(***************************************************************************)
(* The entries of iterStack above loops are empty, and while the program   *)
(* runs each of the others is the only place that holds its iterator,      *)
(* which no instruction has duplicated or lost an owner of.                *)
(***************************************************************************)
LoopsOwn ==
  /\ \A k \in 1..MaxLoops : k > loops => ref[Loop(k)] = Nil
  /\ phase = "running" =>
       \A k \in 1..loops :
          /\ ref[Loop(k)] \in Obj \ (aliased \cup leaked)
          /\ \A p \in Place : ref[p] = ref[Loop(k)] => p = Loop(k)

\* After pyir_destroyModule no root holds anything, but for iterStack.
RootsClear == phase = "exited" => \A p \in Root \ LoopPlace : ref[p] = Nil

IInv == TypeOK /\ Confined /\ ExactCounts /\ LoopsOwn /\ RootsClear

\* Which places there are, and which values.
LEMMA PlaceFacts ==
  /\ Root \subseteq Place /\ \A o \in Obj, s \in Slot : <<o, s>> \in Place /\ <<o, s>> \notin Root
  /\ Name \subseteq Root /\ Builtin \subseteq Root /\ Temp \subseteq Root /\ LoopPlace \subseteq Root
  /\ Nil \in Value /\ Obj \subseteq Value /\ Immortal \subseteq Value
  /\ Nil \notin Obj /\ Nil \notin Immortal /\ \A v \in Immortal : v \notin Obj
  BY HeapAssumption, OwnershipAssumption DEF Place, Value

\* Variables, builtins, SSA values and fields are not entries of iterStack.
LEMMA OffstackFacts ==
  /\ Offstack \subseteq Place /\ \A p \in Place : p \in Offstack <=> p \notin LoopPlace
  /\ Name \subseteq Offstack /\ Builtin \subseteq Offstack /\ Temp \subseteq Offstack
  /\ Obj \X Slot \subseteq Offstack
  /\ Root \ LoopPlace \subseteq Offstack /\ Root \ LoopPlace = Name \cup Builtin \cup Temp
  BY HeapAssumption, OwnershipAssumption DEF Place, Offstack

\* The fields of an object are outside iterStack.
LEMMA FieldsOffstack ==
  ASSUME NEW o \in Obj
  PROVE  Fields({o}) \in SUBSET Offstack /\ Occupied(o) \in SUBSET Offstack
  BY OffstackFacts DEF Fields, Occupied

\* The places a call may write are roots, or fields of objects that exist.
LEMMA WritableFacts ==
  ASSUME NEW c, NEW X
  PROVE  /\ Writable(c, X) \in SUBSET Place /\ Writable(c, X) \in SUBSET Offstack
         /\ \A o \in Obj, s \in Slot : <<o, s>> \in Writable(c, X) => o \in X \/ c[o] # 0
         /\ Root \ LoopPlace \in SUBSET Writable(c, X)
         /\ Name \in SUBSET Writable(c, X) /\ Temp \in SUBSET Writable(c, X)
  BY PlaceFacts, OffstackFacts DEF Writable, Fields, Place

-------------------------------------------------------------------------------
(* Each building block of an instruction takes a fit state to a fit state.   *)

\* Counted copies into empty places (pyir_loadName, append, extend).
LEMMA FitCopy ==
  ASSUME NEW r, NEW c, NEW G \in SUBSET Obj, NEW E \in SUBSET Obj, NEW X, Fit(r, c, G, E, X),
         NEW B \in SUBSET Writable(c, X), NEW from \in [B -> Place], \A p \in B : r[p] = Nil
  PROVE  Fit(Copied(r, from), Increfed(r, c, from), G, E, X)
  <1>1. r \in [Place -> Value] /\ c \in [Obj -> Nat] /\ B \in SUBSET Place
    BY WritableFacts DEF Fit
  <1>2. Copied(r, from) \in [Place -> Value]
    BY <1>1, CopiedType
  <1>3. /\ Increfed(r, c, from) \in [Obj -> Nat]
        /\ \A o \in Obj : Increfed(r, c, from)[o] >= c[o]
    BY <1>1, IncrefedType
  <1>4. ASSUME NEW o \in Obj \ X, Increfed(r, c, from)[o] = 0, NEW s \in Slot
        PROVE  Copied(r, from)[<<o, s>>] = Nil
    <2>1. c[o] = 0
      BY <1>1, <1>3, <1>4
    <2>2. <<o, s>> \notin B
      BY <2>1, WritableFacts
    <2>3. r[<<o, s>>] = Nil
      BY <2>1 DEF Fit
    <2> QED
      BY <2>2, <2>3, PlaceFacts DEF Copied
  <1>5. ASSUME NEW o \in G  PROVE  Covered(Copied(r, from), Increfed(r, c, from), o)
    <2>1. Covered(r, c, o)
      BY DEF Fit
    <2> QED
      BY <1>1, <2>1, CopyCovered
  <1>6. ASSUME NEW o \in E  PROVE  Exact(Copied(r, from), Increfed(r, c, from), o)
    <2>1. Exact(r, c, o)
      BY DEF Fit
    <2> QED
      BY <1>1, <2>1, CopyExact
  <1> QED
    BY <1>2, <1>3, <1>4, <1>5, <1>6 DEF Fit

\* A copy without an incref: only the objects it copies may be undercounted.
LEMMA FitAlias ==
  ASSUME NEW r, NEW c, NEW G \in SUBSET Obj, NEW E \in SUBSET Obj, NEW X, Fit(r, c, G, E, X),
         NEW B \in SUBSET Writable(c, X), NEW from \in [B -> Place], NEW dup,
         \A p \in B : r[from[p]] \in dup /\ r[p] = Nil
  PROVE  Fit(Copied(r, from), c, G \ dup, E \ dup, X)
  <1>1. r \in [Place -> Value] /\ c \in [Obj -> Nat] /\ B \in SUBSET Place
    BY WritableFacts DEF Fit
  <1>2. Copied(r, from) \in [Place -> Value]
    BY <1>1, CopiedType
  <1>3. ASSUME NEW o \in Obj \ X, c[o] = 0, NEW s \in Slot
        PROVE  Copied(r, from)[<<o, s>>] = Nil
    <2>1. <<o, s>> \notin B
      BY <1>3, WritableFacts
    <2>2. r[<<o, s>>] = Nil
      BY <1>3 DEF Fit
    <2> QED
      BY <2>1, <2>2, PlaceFacts DEF Copied
  <1>4. ASSUME NEW o \in Obj \ dup  PROVE  Holders(Copied(r, from), o) = Holders(r, o)
    BY PlaceFacts DEF Holders, Copied
  <1>5. ASSUME NEW o \in G \ dup  PROVE  Covered(Copied(r, from), c, o)
    BY <1>4 DEF Fit, Covered
  <1>6. ASSUME NEW o \in E \ dup  PROVE  Exact(Copied(r, from), c, o)
    BY <1>4 DEF Fit, Exact
  <1> QED
    BY <1>1, <1>2, <1>3, <1>5, <1>6 DEF Fit

\* A transfer of ownership into empty places (pyir_buildList).
LEMMA FitMove ==
  ASSUME NEW r, NEW c, NEW G \in SUBSET Obj, NEW E \in SUBSET Obj, NEW X, Fit(r, c, G, E, X),
         NEW B \in SUBSET Writable(c, X), NEW S \in SUBSET Place, NEW from \in Injection(B, S),
         \A p \in B : r[p] = Nil /\ r[from[p]] # Nil
  PROVE  Fit(Moved(r, from), c, G, E, X)
  <1>1. r \in [Place -> Value] /\ c \in [Obj -> Nat] /\ B \in SUBSET Place
    BY WritableFacts DEF Fit
  <1>2. from \in [B -> S]
    BY DEF Injection
  <1>3. Moved(r, from) \in [Place -> Value]
    BY <1>1, <1>2, PlaceFacts DEF Moved
  <1>4. ASSUME NEW o \in Obj \ X, c[o] = 0, NEW s \in Slot
        PROVE  Moved(r, from)[<<o, s>>] = Nil
    <2>1. <<o, s>> \notin B
      BY <1>4, WritableFacts
    <2>2. r[<<o, s>>] = Nil
      BY <1>4 DEF Fit
    <2> QED
      BY <1>2, <2>1, <2>2, PlaceFacts DEF Moved
  <1>5. ASSUME NEW o \in G  PROVE  Covered(Moved(r, from), c, o)
    <2>1. Covered(r, c, o)
      BY DEF Fit
    <2> QED
      BY <1>1, <2>1, MoveCovered
  <1>6. ASSUME NEW o \in E  PROVE  Exact(Moved(r, from), c, o)
    <2>1. Exact(r, c, o)
      BY DEF Fit
    <2> QED
      BY <1>1, <2>1, MoveExact
  <1> QED
    BY <1>1, <1>3, <1>4, <1>5, <1>6 DEF Fit

\* An exchange (pyir_storeName, pyir_storeSubscr): the old value leaves with the
\* operand that is decremented next.
LEMMA FitSwap ==
  ASSUME NEW r, NEW c, NEW G \in SUBSET Obj, NEW E \in SUBSET Obj, Fit(r, c, G, E, {}),
         NEW p \in Writable(c, {}), NEW q \in Root
  PROVE  Fit(Swapped(r, p, q), c, G, E, {})
  <1>1. r \in [Place -> Value] /\ c \in [Obj -> Nat] /\ p \in Place /\ q \in Place
    BY WritableFacts, PlaceFacts DEF Fit
  <1>2. Swapped(r, p, q) \in [Place -> Value]
    BY <1>1 DEF Swapped
  <1>3. ASSUME NEW o \in Obj, c[o] = 0, NEW s \in Slot
        PROVE  Swapped(r, p, q)[<<o, s>>] = Nil
    <2>1. <<o, s>> # p
      BY <1>3, WritableFacts
    <2>2. <<o, s>> # q /\ <<o, s>> \in Place
      BY PlaceFacts
    <2>3. r[<<o, s>>] = Nil
      BY <1>3 DEF Fit
    <2> QED
      BY <1>1, <2>1, <2>2, <2>3 DEF Swapped
  <1>4. ASSUME NEW o \in G  PROVE  Covered(Swapped(r, p, q), c, o)
    <2>1. Covered(r, c, o)
      BY DEF Fit
    <2> QED
      BY <1>1, <2>1, SwapCovered
  <1>5. ASSUME NEW o \in E  PROVE  Exact(Swapped(r, p, q), c, o)
    <2>1. Exact(r, c, o)
      BY DEF Fit
    <2> QED
      BY <1>1, <2>1, SwapExact
  <1> QED
    BY <1>1, <1>2, <1>3, <1>4, <1>5 DEF Fit

\* The allocation of o, which completes it.
LEMMA FitPlaced ==
  ASSUME NEW r, NEW c, NEW G \in SUBSET Obj, NEW E \in SUBSET Obj, NEW o \in Obj,
         Fit(r, c, G, E, {o}), NEW t \in Root, r[t] = Nil, c[o] = 0, Holders(r, o) = {}
  PROVE  Fit(Placed(r, o, t), Counted(c, o), G, E, {})
  <1>1. r \in [Place -> Value] /\ c \in [Obj -> Nat] /\ t \in Place
    BY PlaceFacts DEF Fit
  <1>2. Placed(r, o, t) \in [Place -> Value] /\ Counted(c, o) \in [Obj -> Nat]
    BY <1>1, PlaceFacts DEF Placed, Counted
  <1>3. \A q \in Obj : Counted(c, o)[q] = IF q = o THEN 1 ELSE c[q]
    BY <1>1 DEF Counted
  <1>4. ASSUME NEW q \in Obj, Counted(c, o)[q] = 0, NEW s \in Slot
        PROVE  Placed(r, o, t)[<<q, s>>] = Nil
    <2>1. q # o /\ c[q] = 0
      BY <1>3, <1>4
    <2>2. r[<<q, s>>] = Nil
      BY <2>1 DEF Fit
    <2> QED
      BY <1>1, <2>2, PlaceFacts DEF Placed
  <1>5. ASSUME NEW q \in Obj, q # o
        PROVE  Holders(Placed(r, o, t), q) = Holders(r, q) /\ Counted(c, o)[q] = c[q]
    <2>1. q # Nil
      BY PlaceFacts
    <2> QED
      BY <1>1, <1>3, <1>5, <2>1 DEF Holders, Placed
  <1>6. ASSUME NEW q \in G  PROVE  Covered(Placed(r, o, t), Counted(c, o), q)
    <2>1. CASE q = o
      BY <1>1, <2>1, AllocCovered
    <2>2. CASE q # o
      BY <1>5, <2>2 DEF Fit, Covered
    <2> QED
      BY <2>1, <2>2
  <1>7. ASSUME NEW q \in E  PROVE  Exact(Placed(r, o, t), Counted(c, o), q)
    <2>1. CASE q = o
      BY <1>1, <2>1, AllocExact
    <2>2. CASE q # o
      BY <1>5, <2>2 DEF Fit, Exact
    <2> QED
      BY <2>1, <2>2
  <1> QED
    BY <1>2, <1>4, <1>6, <1>7 DEF Fit

\* Roots that come to hold nothing, or something immortal: they lose an owner of
\* the objects in lost.
LEMMA FitForget ==
  ASSUME NEW r, NEW c, NEW G \in SUBSET Obj, NEW E \in SUBSET Obj, NEW X, Fit(r, c, G, E, X),
         NEW lost, NEW r2 \in [Place -> Value],
         \A p \in Place : r2[p] # r[p] => p \in Root /\ r2[p] \notin Obj /\ (r[p] \in Obj => r[p] \in lost)
  PROVE  Fit(r2, c, G, E \ lost, X)
  <1>1. r \in [Place -> Value] /\ c \in [Obj -> Nat]
    BY DEF Fit
  <1>2. ASSUME NEW o \in Obj \ X, c[o] = 0, NEW s \in Slot  PROVE  r2[<<o, s>>] = Nil
    BY <1>2, PlaceFacts DEF Fit
  <1>3. ASSUME NEW o \in G  PROVE  Covered(r2, c, o)
    <2>1. Covered(r, c, o) /\ o \in Obj /\ c[o] >= c[o]
      BY <1>1 DEF Fit
    <2>2. Holders(r2, o) \subseteq Holders(r, o)
      BY <2>1 DEF Holders
    <2> QED
      BY <1>1, <2>1, <2>2, ShrinkCovered
  <1>4. ASSUME NEW o \in E \ lost  PROVE  Exact(r2, c, o)
    <2>1. Exact(r, c, o) /\ o \in Obj
      BY DEF Fit
    <2>2. Holders(r2, o) = Holders(r, o)
      BY <2>1 DEF Holders
    <2> QED
      BY <2>1, <2>2, SameExact
  <1> QED
    BY <1>1, <1>2, <1>3, <1>4 DEF Fit

-------------------------------------------------------------------------------
(* ... and leaves iterStack alone.                                           *)

\* A copy between places outside iterStack.
LEMMA ApartCopy ==
  ASSUME NEW r, Apart(r), NEW B \in SUBSET Offstack, NEW from \in [B -> Offstack]
  PROVE  Apart(Copied(r, from))
  BY OffstackFacts, PlaceFacts DEF Apart, Copied

\* A transfer between them.
LEMMA ApartMove ==
  ASSUME NEW r, Apart(r), NEW B \in SUBSET Offstack, NEW from \in [B -> Offstack]
  PROVE  Apart(Moved(r, from))
  BY OffstackFacts, PlaceFacts DEF Apart, Moved

\* An exchange of two of them.
LEMMA ApartSwap ==
  ASSUME NEW r \in [Place -> Value], Apart(r), NEW p \in Offstack, NEW q \in Offstack
  PROVE  Apart(Swapped(r, p, q))
  <1>1. /\ p \in Place /\ q \in Place
        /\ \A x \in Place : Swapped(r, p, q)[x] = IF x = q THEN r[p] ELSE IF x = p THEN r[q] ELSE r[x]
    BY OffstackFacts DEF Swapped
  <1> QED
    BY <1>1, OffstackFacts, PlaceFacts DEF Apart

\* A new object in one of them.
LEMMA ApartPlaced ==
  ASSUME NEW r \in [Place -> Value], Apart(r), NEW o \in Obj, rc[o] = 0, NEW t \in Offstack
  PROVE  Apart(Placed(r, o, t))
  <1>1. t \in Place /\ \A x \in Place : Placed(r, o, t)[x] = IF x = t THEN o ELSE r[x]
    BY OffstackFacts DEF Placed
  <1> QED
    BY <1>1, OffstackFacts, PlaceFacts DEF Apart

\* Places outside iterStack that come to hold nothing, or something immortal.
LEMMA ApartForget ==
  ASSUME NEW r, Apart(r), NEW r2,
         \A p \in Place : r2[p] # r[p] => p \in Offstack /\ r2[p] \notin Obj
  PROVE  Apart(r2)
  BY OffstackFacts, PlaceFacts DEF Apart

-------------------------------------------------------------------------------
(* The state before an instruction, and after it.                            *)

\* Where the program is defined, an existing reference is to a live object.
LEMMA LiveRefs ==
  ASSUME TypeOK, Defined
  PROVE  /\ \A o \in Obj : rc[o] = 0 => Holders(ref, o) = {}
         /\ \A p \in Place : ref[p] \in Obj => rc[ref[p]] # 0
  <1>1. \A o \in Obj : rc[o] = 0 => Holders(ref, o) = {}
    BY DEF Defined, Dangling
  <1> QED
    BY <1>1 DEF Holders

\* A state of the program is fit, and the objects it vouches for exist.
LEMMA StateFit ==
  ASSUME IInv, Defined, NEW X
  PROVE  /\ Fit(ref, rc, Sure, Known, X) /\ Sure \in SUBSET Obj /\ Known \in SUBSET Obj
         /\ Apart(ref) /\ ref \in [Place -> Value]
  <1>1. ref \in [Place -> Value] /\ rc \in [Obj -> Nat]
    BY DEF IInv, TypeOK
  <1>2. ASSUME NEW o \in Obj, rc[o] = 0, NEW s \in Slot  PROVE  ref[<<o, s>>] = Nil
    <2>1. <<o, s>> \in Fields({o}) /\ Occupied(o) = {}
      BY <1>2 DEF IInv, TypeOK, Fields
    <2> QED
      BY <2>1 DEF Occupied
  <1>3. ASSUME NEW o \in Obj, rc[o] = 0  PROVE  Cardinality(Holders(ref, o)) = 0
    <2>1. Holders(ref, o) = {}
      BY <1>3, LiveRefs DEF IInv
    <2> QED
      BY <2>1, FS_EmptySet
  <1>4. ASSUME NEW o \in Sure  PROVE  Covered(ref, rc, o)
    <2>1. CASE o \notin aliased
      BY <2>1 DEF IInv, Confined, Sure
    <2>2. CASE rc[o] = 0
      BY <1>3, <2>2 DEF Covered, Sure
    <2> QED
      BY <2>1, <2>2 DEF Sure
  <1>5. ASSUME NEW o \in Known  PROVE  Exact(ref, rc, o)
    <2>1. CASE o \notin aliased \cup leaked
      BY <2>1 DEF IInv, ExactCounts, Known
    <2>2. CASE rc[o] = 0
      BY <1>3, <2>2 DEF Exact, Known
    <2> QED
      BY <2>1, <2>2 DEF Known
  <1>6. Apart(ref)
    BY DEF Apart
  <1> QED
    BY <1>1, <1>2, <1>4, <1>5, <1>6 DEF Fit, Sure, Known

\* An object counted for every holder does not dangle.
LEMMA CoveredNotDangling ==
  ASSUME NEW r, NEW c \in [Obj -> Nat], NEW o \in Obj, Covered(r, c, o)
  PROVE  o \notin Dangling(r, c)
  <1>1. Holders(r, o) \in SUBSET Place
    BY DEF Holders
  <1>2. IsFiniteSet(Holders(r, o)) /\ Cardinality(Holders(r, o)) \in Nat
    BY <1>1, CountType
  <1>3. ASSUME c[o] = 0  PROVE  Holders(r, o) = {}
    <2>1. Cardinality(Holders(r, o)) = 0
      BY <1>2, <1>3 DEF Covered
    <2> QED
      BY <1>2, <2>1, FS_EmptySet
  <1> QED
    BY <1>3 DEF Dangling

(***************************************************************************)
(* The effect of any instruction whose writes, increfs and allocations     *)
(* produce a fit state keeps the counts right: whatever it gives up        *)
(* afterwards is released soundly.                                         *)
(***************************************************************************)
LEMMA EffectCounts ==
  ASSUME IInv, Defined, NEW r, NEW c, NEW k \in [Obj -> Kind], NEW drop \in SUBSET Place,
         NEW dup, NEW lost, Fit(r, c, Sure \ dup, Known \ (dup \cup lost), {}),
         Effect(r, c, k, drop, dup, lost),
         loops' \in 0..MaxLoops, open' \subseteq 1..MaxLoops, phase' \in {"running", "exited", "raised"}
  PROVE  TypeOK' /\ Confined' /\ ExactCounts'
  <1>1. /\ r \in [Place -> Value] /\ c \in [Obj -> Nat]
        /\ ref' = RefsAfter(r, c, drop) /\ rc' = CountsAfter(r, c, drop)
        /\ kind' = [o \in Obj |-> IF rc'[o] = 0 THEN "free" ELSE k[o]]
        /\ overrun' = overrun \cup Overrun(r, c, drop)
    BY DEF Fit, Effect
  <1>2. /\ aliased' \subseteq Obj /\ leaked' \subseteq Obj /\ overrun' \subseteq Obj
        /\ \A o \in Obj : o \notin aliased' => o \in Sure \ dup
        /\ \A o \in Obj : o \notin aliased' \cup leaked' => o \in Known \ (dup \cup lost)
    BY DEF Effect, IInv, TypeOK, Sure, Known, Overrun
  <1>3. ref' \in [Place -> Value] /\ rc' \in [Obj -> Nat]
    BY <1>1, RefsAfterType, CountsAfterType
  <1>4. kind' \in [Obj -> Kind]
    BY <1>1 DEF Kind
  <1>5. ASSUME NEW o \in Obj, rc'[o] = 0  PROVE  kind'[o] = "free" /\ Occupied(o)' = {}
    <2>1. kind'[o] = "free"
      BY <1>1, <1>5
    <2>2. c[o] = 0 \/ o \in Deleted(r, c, drop)
      BY <1>1, <1>5, CountsAfterType
    <2>3. ASSUME NEW s \in Slot  PROVE  ref'[<<o, s>>] = Nil
      <3>1. <<o, s>> \in Place
        BY PlaceFacts
      <3>2. ref'[<<o, s>>] = IF <<o, s>> \in Dropped(r, c, drop) THEN Nil ELSE r[<<o, s>>]
        BY <1>1, <3>1 DEF RefsAfter
      <3>3. CASE c[o] = 0
        BY <3>2, <3>3 DEF Fit
      <3>4. CASE o \in Deleted(r, c, drop)
        BY <3>2, <3>4 DEF Dropped, Fields
      <3> QED
        BY <2>2, <3>3, <3>4
    <2> QED
      BY <2>1, <2>3 DEF Occupied, Fields
  <1>6. TypeOK'
    BY <1>2, <1>3, <1>4, <1>5 DEF TypeOK
  <1>7. ASSUME NEW o \in Obj \ aliased'
        PROVE  /\ Covered(ref', rc', o) /\ o \notin overrun' /\ o \notin Dangling(ref', rc')
    <2>1. Covered(r, c, o)
      BY <1>2 DEF Fit
    <2>2. Covered(ref', rc', o) /\ o \notin Overrun(r, c, drop)
      BY <1>1, <2>1, ReleaseCovered
    <2>3. o \notin Dangling(ref', rc')
      BY <1>3, <2>2, CoveredNotDangling
    <2>4. o \notin overrun
      BY DEF Defined
    <2> QED
      BY <1>1, <2>2, <2>3, <2>4
  <1>8. Confined'
    BY <1>7 DEF Confined
  <1>9. ASSUME NEW o \in Obj \ (aliased' \cup leaked')  PROVE  Exact(ref', rc', o)
    <2>1. Exact(r, c, o)
      BY <1>2 DEF Fit
    <2> QED
      BY <1>1, <2>1, ReleaseExact
  <1> QED
    BY <1>6, <1>8, <1>9 DEF ExactCounts

\* What a release leaves where nothing was given up.
LEMMA AfterRelease ==
  ASSUME NEW r, NEW c \in [Obj -> Nat], NEW drop \in SUBSET Place
  PROVE  /\ \A p \in Place : RefsAfter(r, c, drop)[p] \in {Nil, r[p]}
         /\ \A p \in Root \ drop : RefsAfter(r, c, drop)[p] = r[p]
         /\ \A p \in drop : RefsAfter(r, c, drop)[p] = Nil
  <1>1. \A p \in Place : RefsAfter(r, c, drop)[p] = IF p \in Dropped(r, c, drop) THEN Nil ELSE r[p]
    BY DEF RefsAfter
  <1>2. \A p \in Root : p \notin Obj \X Slot
    BY HeapAssumption
  <1>3. \A p \in Root : p \in Dropped(r, c, drop) => p \in drop
    BY <1>2, DroppedPlaces DEF Dropped, Fields
  <1> QED
    BY <1>1, <1>3, PlaceFacts DEF Dropped

(***************************************************************************)
(* The iterator of loop j stays the property of iterStack as long as its   *)
(* entry is neither written nor given up and nobody copies it.             *)
(***************************************************************************)
LEMMA IteratorKept ==
  ASSUME IInv, Ready, NEW j \in 1..loops, NEW r, NEW c \in [Obj -> Nat], NEW k,
         NEW drop \in SUBSET Place, NEW dup, NEW lost, Effect(r, c, k, drop, dup, lost),
         Loop(j) \notin drop, r[Loop(j)] = ref[Loop(j)],
         \A p \in Place \ {Loop(j)} :
            r[p] \in Obj => rc[r[p]] = 0 \/ \E q \in Place \ {Loop(j)} : ref[q] = r[p],
         \A o \in Obj : o \in dup \cup lost => \E q \in Place \ {Loop(j)} : ref[q] = o
  PROVE  /\ ref'[Loop(j)] \in Obj \ (aliased' \cup leaked')
         /\ \A p \in Place : ref'[p] = ref'[Loop(j)] => p = Loop(j)
  <1> DEFINE i == ref[Loop(j)]
  <1>1. j \in 1..MaxLoops
    BY OwnershipAssumption DEF IInv, TypeOK
  <1>2. Loop(j) \in Root /\ Loop(j) \in Place
    BY <1>1, PlaceFacts DEF Loop, LoopPlace
  <1>3. i \in Obj \ (aliased \cup leaked) /\ \A p \in Place : ref[p] = i => p = Loop(j)
    BY DEF IInv, LoopsOwn, Ready
  <1>4. rc[i] # 0
    BY <1>2, <1>3, LiveRefs DEF IInv, Ready
  <1>5. ref' = RefsAfter(r, c, drop) /\ aliased' \subseteq aliased \cup dup /\ leaked' \subseteq leaked \cup lost
    BY DEF Effect
  <1>6. ref'[Loop(j)] = i /\ \A p \in Place : ref'[p] \in {Nil, r[p]}
    BY <1>2, <1>5, AfterRelease
  <1>7. i \notin dup \cup lost
    BY <1>3
  <1>8. ASSUME NEW p \in Place, ref'[p] = i  PROVE  p = Loop(j)
    BY <1>3, <1>4, <1>6, <1>8, PlaceFacts
  <1> QED
    BY <1>3, <1>5, <1>6, <1>7, <1>8

(***************************************************************************)
(* The same holds of every step that stays off iterStack: the invariant is *)
(* preserved by any instruction whose writes are fit and apart from it.    *)
(***************************************************************************)
LEMMA StepInv ==
  ASSUME IInv, Ready, NEW r, NEW c, NEW k \in [Obj -> Kind], NEW drop \in SUBSET Offstack,
         NEW dup, NEW lost, Fit(r, c, Sure \ dup, Known \ (dup \cup lost), {}), Apart(r),
         \A o \in Obj : o \in dup \cup lost => \E q \in Offstack : ref[q] = o,
         Effect(r, c, k, drop, dup, lost), UNCHANGED <<loops, open, phase>>
  PROVE  IInv'
  <1>1. /\ loops \in 0..MaxLoops /\ MaxLoops \in Nat /\ loops' = loops /\ phase' = "running"
        /\ phase = "running" /\ Defined
        /\ loops' \in 0..MaxLoops /\ open' \subseteq 1..MaxLoops /\ phase' \in {"running", "exited", "raised"}
    BY OwnershipAssumption DEF IInv, TypeOK, Ready
  <1>2. drop \in SUBSET Place /\ c \in [Obj -> Nat] /\ ref' = RefsAfter(r, c, drop)
    BY OffstackFacts DEF Fit, Effect
  <1>3. TypeOK' /\ Confined' /\ ExactCounts'
    BY <1>1, <1>2, EffectCounts
  <1>4. \A j \in 1..MaxLoops : Loop(j) \in LoopPlace /\ Loop(j) \in Place
    BY PlaceFacts DEF Loop, LoopPlace
  <1>5. ASSUME NEW j \in 1..MaxLoops, j > loops  PROVE  ref'[Loop(j)] = Nil
    <2>1. r[Loop(j)] = Nil
      BY <1>4, <1>5 DEF Apart, IInv, LoopsOwn
    <2> QED
      BY <1>2, <1>4, <2>1, AfterRelease
  <1>6. ASSUME NEW j \in 1..loops
        PROVE  /\ ref'[Loop(j)] \in Obj \ (aliased' \cup leaked')
               /\ \A p \in Place : ref'[p] = ref'[Loop(j)] => p = Loop(j)
    <2>1. j \in 1..MaxLoops
      BY <1>1
    <2>2. Loop(j) \notin drop /\ r[Loop(j)] = ref[Loop(j)]
      BY <1>4, <2>1, OffstackFacts DEF Apart
    <2>3. Offstack \subseteq Place \ {Loop(j)}
      BY <1>4, <2>1, OffstackFacts
    <2>4. ASSUME NEW p \in Place \ {Loop(j)}, r[p] \in Obj
          PROVE  rc[r[p]] = 0 \/ \E q \in Place \ {Loop(j)} : ref[q] = r[p]
      <3>1. CASE p \in LoopPlace
        BY <3>1 DEF Apart
      <3>2. CASE p \notin LoopPlace
        BY <2>3, <2>4, <3>2, OffstackFacts DEF Apart
      <3> QED
        BY <3>1, <3>2
    <2>5. \A o \in Obj : o \in dup \cup lost => \E q \in Place \ {Loop(j)} : ref[q] = o
      BY <2>3
    <2> QED
      BY <1>2, <2>2, <2>4, <2>5, IteratorKept
  <1>7. LoopsOwn'
    BY <1>1, <1>5, <1>6 DEF LoopsOwn
  <1>8. RootsClear'
    BY <1>1 DEF RootsClear
  <1> QED
    BY <1>3, <1>7, <1>8 DEF IInv

\* A call duplicates and loses nothing.
LEMMA CallInv ==
  ASSUME IInv, Ready, NEW r, NEW c, NEW k \in [Obj -> Kind], NEW drop \in SUBSET Offstack,
         Fit(r, c, Sure, Known, {}), Apart(r), Call(r, c, k, drop)
  PROVE  IInv'
  <1>1. Fit(r, c, Sure \ {}, Known \ ({} \cup {}), {})
    BY DEF Fit
  <1>2. Effect(r, c, k, drop, {}, {}) /\ UNCHANGED <<loops, open, phase>>
    BY DEF Call
  <1>3. \A o \in Obj : o \in {} \cup {} => \E q \in Offstack : ref[q] = o
    OBVIOUS
  <1> QED
    BY <1>1, <1>2, <1>3, StepInv

\* The invariant holds once pyir_initModule has filled builtinFuncs.
THEOREM InitInv == Init => IInv
  <1> SUFFICES ASSUME Init  PROVE IInv
    OBVIOUS
  <1>1. PICK table \in Injection(Builtin, Obj) :
          /\ ref  = [p \in Place |-> IF p \in Builtin THEN table[p] ELSE Nil]
          /\ rc   = [o \in Obj |-> IF \E b \in Builtin : table[b] = o THEN 1 ELSE 0]
          /\ kind = [o \in Obj |-> IF \E b \in Builtin : table[b] = o THEN "leaf" ELSE "free"]
    BY DEF Init
  <1>2. table \in [Builtin -> Obj] /\ \A a, b \in Builtin : table[a] = table[b] => a = b
    BY DEF Injection, IsInjective
  <1>3. TypeOK
    <2>1. ref \in [Place -> Value]
      BY <1>1, <1>2, PlaceFacts
    <2>2. rc \in [Obj -> Nat] /\ kind \in [Obj -> Kind]
      BY <1>1 DEF Kind
    <2>3. ASSUME NEW o \in Obj, rc[o] = 0  PROVE  kind[o] = "free" /\ Occupied(o) = {}
      <3>1. kind[o] = "free"
        BY <1>1, <2>3
      <3>2. \A s \in Slot : ref[<<o, s>>] = Nil
        BY <1>1, PlaceFacts
      <3> QED
        BY <3>1, <3>2 DEF Occupied, Fields
    <2>4. loops \in 0..MaxLoops /\ open \subseteq 1..MaxLoops /\ phase \in {"running", "exited", "raised"}
      BY OwnershipAssumption DEF Init
    <2> QED
      BY <2>1, <2>2, <2>3, <2>4 DEF TypeOK, Init
  <1>4. ASSUME NEW o \in Obj
        PROVE  Exact(ref, rc, o) /\ Covered(ref, rc, o) /\ o \notin overrun /\ o \notin Dangling(ref, rc)
    <2>1. Exact(ref, rc, o) /\ Covered(ref, rc, o)
      <3>1. CASE \E b \in Builtin : table[b] = o
        <4>1. PICK b \in Builtin : table[b] = o
          BY <3>1
        <4>2. Holders(ref, o) = {b}
          BY <1>1, <1>2, <4>1, PlaceFacts DEF Holders
        <4>3. Cardinality({b}) = 1 /\ rc[o] = 1
          BY <1>1, <3>1, FS_Singleton
        <4> QED
          BY <4>2, <4>3 DEF Exact, Covered
      <3>2. CASE ~\E b \in Builtin : table[b] = o
        <4>1. Holders(ref, o) = {}
          BY <1>1, <3>2, PlaceFacts DEF Holders
        <4>2. Cardinality({}) = 0 /\ rc[o] = 0
          BY <1>1, <3>2, FS_EmptySet
        <4> QED
          BY <4>1, <4>2 DEF Exact, Covered
      <3> QED
        BY <3>1, <3>2
    <2>2. o \notin Dangling(ref, rc)
      BY <1>3, <2>1, CoveredNotDangling DEF TypeOK
    <2> QED
      BY <2>1, <2>2 DEF Init
  <1>5. LoopsOwn
    <2>1. \A k \in 1..MaxLoops : Loop(k) \in LoopPlace
      BY DEF Loop, LoopPlace
    <2>2. \A p \in LoopPlace : p \in Place /\ p \notin Builtin
      BY PlaceFacts, OffstackFacts
    <2>3. loops = 0
      BY DEF Init
    <2> QED
      BY <1>1, <2>1, <2>2, <2>3 DEF LoopsOwn
  <1>6. RootsClear
    BY DEF Init, RootsClear
  <1> QED
    BY <1>3, <1>4, <1>5, <1>6 DEF IInv, Confined, ExactCounts

-------------------------------------------------------------------------------
(* The shapes the instructions share.                                        *)

\* The types of a fresh object and of the others.
LEMMA TypedKind ==
  ASSUME IInv, NEW o \in Obj, NEW K \in Kind
  PROVE  Typed(o, K) \in [Obj -> Kind] /\ kind \in [Obj -> Kind]
  BY DEF Typed, IInv, TypeOK

\* The fields of a live object may be written.
LEMMA LiveFields ==
  ASSUME NEW c, NEW o \in Obj, c[o] # 0
  PROVE  Fields({o}) \subseteq Writable(c, {})
  BY DEF Writable, Fields

\* Counted copies into empty roots and fields of live objects.
LEMMA CopyFit ==
  ASSUME IInv, Defined, NEW B \in SUBSET Writable(rc, {}), NEW from \in [B -> Offstack],
         \A p \in B : ref[p] = Nil
  PROVE  /\ Fit(Copied(ref, from), Increfed(ref, rc, from), Sure, Known, {})
         /\ Apart(Copied(ref, from))
  <1>1. from \in [B -> Place] /\ B \in SUBSET Offstack
    BY OffstackFacts, WritableFacts
  <1> QED
    BY <1>1, StateFit, FitCopy, ApartCopy

\* A copy of q without an incref into an empty root.
LEMMA AliasFit ==
  ASSUME IInv, Defined, NEW t \in Root \ LoopPlace, NEW q \in Offstack, ref[t] = Nil
  PROVE  LET from == [p \in {t} |-> q]
         IN  /\ Fit(Copied(ref, from), rc, Sure \ {ref[q]}, Known \ ({ref[q]} \cup {}), {})
             /\ Apart(Copied(ref, from))
             /\ \A o \in Obj : o \in {ref[q]} \cup {} => \E p \in Offstack : ref[p] = o
  <1> DEFINE from == [p \in {t} |-> q]
             D == {ref[q]}
  <1>1. /\ from \in [{t} -> Place] /\ from \in [{t} -> Offstack]
        /\ {t} \in SUBSET Writable(rc, {}) /\ {t} \in SUBSET Offstack
        /\ \A p \in {t} : ref[from[p]] \in D /\ ref[p] = Nil
    BY OffstackFacts, WritableFacts
  <1>2. D \cup {} = D /\ \A o \in Obj : o \in D \cup {} => \E p \in Offstack : ref[p] = o
    OBVIOUS
  <1> HIDE DEF from, D
  <1>3. Fit(Copied(ref, from), rc, Sure \ D, Known \ D, {})
    BY <1>1, StateFit, FitAlias
  <1>4. Apart(Copied(ref, from))
    BY <1>1, StateFit, ApartCopy
  <1>5. /\ Fit(Copied(ref, from), rc, Sure \ D, Known \ (D \cup {}), {})
        /\ Apart(Copied(ref, from))
        /\ \A o \in Obj : o \in D \cup {} => \E p \in Offstack : ref[p] = o
    BY <1>2, <1>3, <1>4
  <1> QED
    BY <1>5 DEF from, D

\* An empty root that comes to hold an immortal value.
LEMMA WithFit ==
  ASSUME NEW r, NEW c, NEW G \in SUBSET Obj, NEW E \in SUBSET Obj, NEW X, Fit(r, c, G, E, X),
         Apart(r), NEW t \in Root \ LoopPlace, NEW v \in Immortal \cup {Nil}, r[t] = Nil
  PROVE  Fit(With(r, t, v), c, G, E, X) /\ Apart(With(r, t, v))
  <1>1. r \in [Place -> Value] /\ t \in Place /\ t \in Offstack /\ v \in Value /\ v \notin Obj /\ Nil \notin Obj
    BY PlaceFacts, OffstackFacts DEF Fit
  <1>2. With(r, t, v) \in [Place -> Value]
    BY <1>1 DEF With
  <1>3. \A p \in Place : With(r, t, v)[p] # r[p] => p = t /\ With(r, t, v)[p] \notin Obj
    BY <1>1 DEF With
  <1>4. Fit(With(r, t, v), c, G, E \ {}, X)
    BY <1>1, <1>2, <1>3, FitForget
  <1>5. E \ {} = E
    OBVIOUS
  <1>6. Apart(With(r, t, v))
    BY <1>1, <1>3, ApartForget
  <1> QED
    BY <1>4, <1>5, <1>6

\* A new object without fields.
LEMMA NewFit ==
  ASSUME IInv, Defined, NEW o \in Obj, Fresh(o), NEW t \in Root \ LoopPlace, ref[t] = Nil
  PROVE  /\ Fit(Placed(ref, o, t), Counted(rc, o), Sure, Known, {})
         /\ Apart(Placed(ref, o, t))
  <1>1. /\ Fit(ref, rc, Sure, Known, {o}) /\ Sure \in SUBSET Obj /\ Known \in SUBSET Obj
        /\ Apart(ref) /\ ref \in [Place -> Value]
    BY StateFit
  <1>2. rc[o] = 0 /\ Holders(ref, o) = {}
    BY LiveRefs DEF Fresh, IInv
  <1>3. t \in Offstack
    BY OffstackFacts
  <1> QED
    BY <1>1, <1>2, <1>3, FitPlaced, ApartPlaced

\* The fields of a new object before they are filled.
LEMMA FreshFields ==
  ASSUME IInv, NEW o \in Obj, Fresh(o)
  PROVE  rc[o] = 0 /\ \A p \in Fields({o}) : ref[p] = Nil
  BY DEF Fresh, IInv, TypeOK, Occupied

\* A new object whose fields copy existing references, counted: wherever it is
\* put, the state is fit, and apart when that is not iterStack.
LEMMA NewCopyFit ==
  ASSUME IInv, Defined, NEW o \in Obj, Fresh(o), NEW t \in Root, ref[t] = Nil,
         NEW B \in SUBSET Fields({o}), NEW from \in [B -> Offstack]
  PROVE  /\ Fit(Placed(Copied(ref, from), o, t), Counted(Increfed(ref, rc, from), o), Sure, Known, {})
         /\ Apart(Copied(ref, from))
         /\ t \notin LoopPlace => Apart(Placed(Copied(ref, from), o, t))
         /\ \A p \in Place : Copied(ref, from)[p] # o
  <1>1. /\ Fit(ref, rc, Sure, Known, {o}) /\ Sure \in SUBSET Obj /\ Known \in SUBSET Obj
        /\ Apart(ref) /\ ref \in [Place -> Value]
    BY StateFit
  <1>2. /\ B \in SUBSET Writable(rc, {o}) /\ B \in SUBSET Offstack
        /\ from \in [B -> Place] /\ \A p \in B : ref[p] = Nil
    BY FreshFields, FieldsOffstack, OffstackFacts DEF Writable, Fields
  <1>3. /\ Fit(Copied(ref, from), Increfed(ref, rc, from), Sure, Known, {o})
        /\ Apart(Copied(ref, from))
    BY <1>1, <1>2, FitCopy, ApartCopy
  <1>4. rc[o] = 0 /\ Holders(ref, o) = {}
    BY LiveRefs DEF Fresh, IInv
  <1>5. \A p \in Place : ref[p] # o
    BY <1>4 DEF Holders
  <1>6. Holders(Copied(ref, from), o) = {} /\ \A p \in Place : Copied(ref, from)[p] # o
    BY <1>2, <1>5 DEF Holders, Copied
  <1>7. Increfed(ref, rc, from)[o] = 0
    <2>1. {p \in DOMAIN from : ref[from[p]] = o} = {}
      BY <1>2, <1>5
    <2>2. Increfed(ref, rc, from)[o] = rc[o] + Cardinality({})
      BY <2>1 DEF Increfed
    <2> QED
      BY <1>4, <2>2, FS_EmptySet
  <1>8. Copied(ref, from)[t] = Nil
    BY <1>2, PlaceFacts DEF Copied, Fields
  <1>9. Fit(Placed(Copied(ref, from), o, t), Counted(Increfed(ref, rc, from), o), Sure, Known, {})
    BY <1>1, <1>3, <1>6, <1>7, <1>8, FitPlaced
  <1>10. ASSUME t \notin LoopPlace  PROVE  Apart(Placed(Copied(ref, from), o, t))
    BY <1>3, <1>4, <1>10, OffstackFacts, ApartPlaced DEF Fit
  <1> QED
    BY <1>3, <1>6, <1>9, <1>10

-------------------------------------------------------------------------------
(* Every instruction preserves the invariant.                                *)

\* Loading a constant or a name preserves the invariant ...
LEMMA LoadInv ==
  ASSUME IInv, NEW t \in Temp,
         \/ \E o \in Obj : LoadConst(o, t)
         \/ \E v \in Immortal : LoadImmortal(v, t)
         \/ \E n \in Name : LoadName(n, t)
         \/ \E b \in Builtin : LoadBuiltin(b, t)
  PROVE  IInv'
  <1>0. kind \in [Obj -> Kind] /\ {} \in SUBSET Offstack /\ t \in Root \ LoopPlace
    BY OffstackFacts DEF IInv, TypeOK
  <1>1. ASSUME NEW o \in Obj, LoadConst(o, t)  PROVE IInv'
    <2>1. /\ Ready /\ Defined /\ Fresh(o) /\ ref[t] = Nil
          /\ Call(Placed(ref, o, t), Counted(rc, o), Typed(o, "leaf"), {})
      BY <1>1 DEF LoadConst, Does, Ready
    <2>2. Typed(o, "leaf") \in [Obj -> Kind]
      BY TypedKind DEF Kind
    <2> QED
      BY <1>0, <2>1, <2>2, NewFit, CallInv
  <1>2. ASSUME NEW v \in Immortal, LoadImmortal(v, t)  PROVE IInv'
    <2>1. Ready /\ Defined /\ ref[t] = Nil /\ Call(With(ref, t, v), rc, kind, {})
      BY <1>2 DEF LoadImmortal, Does, Ready
    <2>2. Fit(With(ref, t, v), rc, Sure, Known, {}) /\ Apart(With(ref, t, v))
      BY <1>0, <2>1, StateFit, WithFit
    <2> QED
      BY <1>0, <2>1, <2>2, CallInv
  <1>3. ASSUME NEW n \in Name, LoadName(n, t)  PROVE IInv'
    <2> DEFINE from == [p \in {t} |-> n]
    <2>1. /\ Ready /\ Defined /\ ref[t] = Nil
          /\ Call(Copied(ref, from), Increfed(ref, rc, from), kind, {})
      BY <1>3 DEF LoadName, Does, Ready
    <2>2. from \in [{t} -> Offstack] /\ {t} \in SUBSET Writable(rc, {})
      BY <1>0, OffstackFacts, WritableFacts
    <2> HIDE DEF from
    <2>3. /\ Fit(Copied(ref, from), Increfed(ref, rc, from), Sure, Known, {})
          /\ Apart(Copied(ref, from))
      BY <2>1, <2>2, CopyFit
    <2> QED
      BY <1>0, <2>1, <2>3, CallInv
  <1>4. ASSUME NEW b \in Builtin, LoadBuiltin(b, t)  PROVE IInv'
    <2> DEFINE from == [p \in {t} |-> b]
    <2>1. /\ Ready /\ Defined /\ ref[t] = Nil
          /\ Effect(Copied(ref, from), rc, kind, {}, {ref[b]}, {})
          /\ UNCHANGED <<loops, open, phase>>
      BY <1>4 DEF LoadBuiltin, Does, Ready
    <2>2. b \in Offstack
      BY OffstackFacts
    <2>3. /\ Fit(Copied(ref, from), rc, Sure \ {ref[b]}, Known \ ({ref[b]} \cup {}), {})
          /\ Apart(Copied(ref, from))
          /\ \A o \in Obj : o \in {ref[b]} \cup {} => \E p \in Offstack : ref[p] = o
      BY <1>0, <2>1, <2>2, AliasFit
    <2> HIDE DEF from
    <2> QED
      BY <1>0, <2>1, <2>3, StepInv
  <1> QED
    BY <1>1, <1>2, <1>3, <1>4

\* ... and so do storing a name, dropping and copying the top of the stack.
LEMMA StackInv ==
  ASSUME IInv, NEW t \in Temp,
         \/ \E n \in Name : StoreName(n, t)
         \/ PopTop(t)
         \/ \E u \in Temp : CopyTop(t, u)
  PROVE  IInv'
  <1>0. /\ kind \in [Obj -> Kind] /\ {} \in SUBSET Offstack /\ {t} \in SUBSET Offstack
        /\ t \in Root \ LoopPlace /\ t \in Root /\ t \in Offstack
    BY OffstackFacts DEF IInv, TypeOK
  <1>1. ASSUME NEW n \in Name, StoreName(n, t)  PROVE IInv'
    <2>1. Ready /\ Defined /\ Call(Swapped(ref, n, t), rc, kind, {t})
      BY <1>1 DEF StoreName, Does, Ready
    <2>2. n \in Writable(rc, {}) /\ n \in Offstack
      BY WritableFacts, OffstackFacts
    <2>3. Fit(Swapped(ref, n, t), rc, Sure, Known, {}) /\ Apart(Swapped(ref, n, t))
      BY <1>0, <2>1, <2>2, StateFit, FitSwap, ApartSwap
    <2> QED
      BY <1>0, <2>1, <2>3, CallInv
  <1>2. ASSUME PopTop(t)  PROVE IInv'
    <2> DEFINE after == With(ref, t, Nil)
               L     == {ref[t]}
    <2>1. /\ Ready /\ Defined /\ Effect(after, rc, kind, {}, {}, L)
          /\ UNCHANGED <<loops, open, phase>>
      BY <1>2 DEF PopTop, Does, Ready
    <2>2. /\ Fit(ref, rc, Sure, Known, {}) /\ Sure \in SUBSET Obj /\ Known \in SUBSET Obj
          /\ Apart(ref) /\ ref \in [Place -> Value]
      BY <2>1, StateFit
    <2>3. /\ after \in [Place -> Value]
          /\ \A p \in Place : after[p] # ref[p] => p = t /\ after[p] \notin Obj /\ ref[p] \in L
      BY <1>0, <2>2, PlaceFacts DEF With
    <2>4. /\ \A o \in Obj : o \in {} \cup L => \E p \in Offstack : ref[p] = o
          /\ Sure \ {} = Sure /\ {} \cup L = L
      BY <1>0
    <2> HIDE DEF after, L
    <2>5. Fit(after, rc, Sure, Known \ L, {})
      BY <1>0, <2>2, <2>3, FitForget
    <2>6. Apart(after)
      BY <1>0, <2>2, <2>3, ApartForget
    <2> QED
      BY <1>0, <2>1, <2>4, <2>5, <2>6, StepInv
  <1>3. ASSUME NEW u \in Temp, CopyTop(t, u)  PROVE IInv'
    <2> DEFINE from == [p \in {u} |-> t]
    <2>1. /\ Ready /\ Defined /\ ref[u] = Nil
          /\ Effect(Copied(ref, from), rc, kind, {}, {ref[t]}, {})
          /\ UNCHANGED <<loops, open, phase>>
      BY <1>3 DEF CopyTop, Does, Ready
    <2>2. u \in Root \ LoopPlace
      BY OffstackFacts
    <2>3. /\ Fit(Copied(ref, from), rc, Sure \ {ref[t]}, Known \ ({ref[t]} \cup {}), {})
          /\ Apart(Copied(ref, from))
          /\ \A o \in Obj : o \in {ref[t]} \cup {} => \E p \in Offstack : ref[p] = o
      BY <1>0, <2>1, <2>2, AliasFit
    <2> HIDE DEF from
    <2> QED
      BY <1>0, <2>1, <2>3, StepInv
  <1> QED
    BY <1>1, <1>2, <1>3

\* A function that fills fields of o from distinct places of S.
LEMMA TransfersType ==
  ASSUME NEW o \in Obj, NEW S \in SUBSET Offstack, NEW from \in Transfers(o, S)
  PROVE  /\ DOMAIN from \in SUBSET Vacant(o) /\ DOMAIN from \in SUBSET Fields({o})
         /\ from \in Injection(DOMAIN from, S) /\ from \in [DOMAIN from -> Offstack]
  <1>1. PICK B \in SUBSET Vacant(o) : from \in Injection(B, S)
    BY DEF Transfers
  <1>2. DOMAIN from = B
    BY <1>1 DEF Injection
  <1> QED
    BY <1>1, <1>2 DEF Injection, Vacant

\* A filling assigns places to fields of the object.
LEMMA FillingsType ==
  ASSUME NEW o \in Obj, NEW S \in SUBSET Offstack, NEW from \in Fillings(o, S)
  PROVE  DOMAIN from \in SUBSET Fields({o}) /\ from \in [DOMAIN from -> Offstack]
  <1>1. PICK B \in SUBSET Vacant(o) : from \in [B -> S]
    BY DEF Fillings
  <1> QED
    BY <1>1 DEF Vacant

\* Building lists, tuples and sets preserves the invariant.
LEMMA BuildInv ==
  ASSUME IInv, BuildStep
  PROVE  IInv'
  <1>0. /\ kind \in [Obj -> Kind] /\ {} \in SUBSET Offstack
        /\ ref \in [Place -> Value]
    BY DEF IInv, TypeOK
  <1>1. PICK o \in Obj, t \in Temp :
          \/ \E K \in {"list", "tuple"} : \E from \in Transfers(o, Values) :
               BuildSequence(o, K, from, t)
          \/ \E from \in Transfers(o, Values) :
               \E dups \in SUBSET {u \in Values : \A f \in DOMAIN from : from[f] # u} :
                  BuildSet(o, from, dups, t)
          \/ \E u \in Heap, K \in Containers : \E from \in Transfers(o, Occupied(ref[u])) :
               ConvertContainer(u, o, K, from, t)
    BY DEF BuildStep, Empty
  <1>2. /\ t \in Root \ LoopPlace /\ t \in Root /\ t \in Offstack /\ t \in Place
        /\ Values \in SUBSET Root /\ Values \in SUBSET Place /\ Values \in SUBSET Offstack
    BY OffstackFacts, PlaceFacts DEF Values
  \* The parts move into the fields of o.
  <1>3. ASSUME NEW from \in Transfers(o, Values), Defined, Fresh(o), ref[t] = Nil
        PROVE  /\ Fit(Moved(ref, from), rc, Sure, Known, {o})
               /\ Apart(Moved(ref, from)) /\ Moved(ref, from) \in [Place -> Value]
               /\ rc[o] = 0 /\ Holders(Moved(ref, from), o) = {}
               /\ Sure \in SUBSET Obj /\ Known \in SUBSET Obj
               /\ Moved(ref, from)[t] = Nil
               /\ \A p \in Place : Moved(ref, from)[p] = ref[p] \/ p \in DOMAIN from
                                   \/ Moved(ref, from)[p] = Nil
               /\ \A p \in DOMAIN from : p \notin Root
    <2>1. /\ DOMAIN from \in SUBSET Fields({o}) /\ from \in Injection(DOMAIN from, Values)
          /\ from \in [DOMAIN from -> Place] /\ from \in [DOMAIN from -> Offstack]
          /\ \A p \in DOMAIN from : from[p] \in Values
      <3>1. /\ DOMAIN from \in SUBSET Fields({o}) /\ from \in Injection(DOMAIN from, Values)
            /\ from \in [DOMAIN from -> Offstack]
        BY <1>2, TransfersType
      <3>2. from \in [DOMAIN from -> Values]
        BY <3>1 DEF Injection
      <3> QED
        BY <3>1, <3>2, OffstackFacts
    <2>2. /\ DOMAIN from \in SUBSET Writable(rc, {o}) /\ DOMAIN from \in SUBSET Offstack
          /\ \A p \in DOMAIN from : ref[p] = Nil
      BY <1>3, <2>1, FreshFields, FieldsOffstack DEF Writable, Fields
    <2>3. /\ Fit(ref, rc, Sure, Known, {o}) /\ Sure \in SUBSET Obj /\ Known \in SUBSET Obj
          /\ Apart(ref)
      BY <1>3, StateFit
    <2>4. \A p \in DOMAIN from : ref[p] = Nil /\ ref[from[p]] # Nil
      BY <2>1, <2>2 DEF Values
    <2>5. Fit(Moved(ref, from), rc, Sure, Known, {o})
      BY <1>2, <2>1, <2>2, <2>3, <2>4, FitMove
    <2>6. Apart(Moved(ref, from))
      BY <2>1, <2>2, <2>3, ApartMove
    <2>7. rc[o] = 0 /\ \A p \in Place : ref[p] # o
      BY <1>3, LiveRefs DEF Fresh, IInv, Holders
    <2>8. Holders(Moved(ref, from), o) = {}
      BY <2>1, <2>7, PlaceFacts DEF Holders, Moved
    <2>9. \A p \in DOMAIN from : p \notin Root
      BY <2>1, PlaceFacts DEF Fields
    <2>10. Moved(ref, from)[t] = Nil
      BY <1>2, <1>3, <2>9 DEF Moved
    <2> QED
      BY <2>3, <2>5, <2>6, <2>7, <2>8, <2>9, <2>10 DEF Fit, Moved
  <1>4. ASSUME NEW K \in {"list", "tuple"}, NEW from \in Transfers(o, Values),
               BuildSequence(o, K, from, t)
        PROVE  IInv'
    <2>1. /\ Ready /\ Defined /\ Fresh(o) /\ ref[t] = Nil
          /\ Call(Placed(Moved(ref, from), o, t), Counted(rc, o), Typed(o, K), {})
      BY <1>4 DEF BuildSequence, Does, Ready
    <2>2. Fit(Placed(Moved(ref, from), o, t), Counted(rc, o), Sure, Known, {})
      BY <1>2, <1>3, <2>1, FitPlaced
    <2>3. Apart(Placed(Moved(ref, from), o, t))
      BY <1>2, <1>3, <2>1, ApartPlaced
    <2>4. Typed(o, K) \in [Obj -> Kind]
      BY TypedKind DEF Kind
    <2> QED
      BY <1>0, <2>1, <2>2, <2>3, <2>4, CallInv
  <1>5. ASSUME NEW from \in Transfers(o, Values),
               NEW dups \in SUBSET {u \in Values : \A f \in DOMAIN from : from[f] # u},
               BuildSet(o, from, dups, t)
        PROVE  IInv'
    <2> DEFINE moved  == Moved(ref, from)
               forgot == [p \in Place |-> IF p \in dups THEN Nil ELSE moved[p]]
               lost   == {ref[p] : p \in dups}
    <2>1. /\ Ready /\ Defined /\ Fresh(o) /\ ref[t] = Nil
          /\ Effect(Placed(forgot, o, t), Counted(rc, o), Typed(o, "set"), {}, {}, lost)
          /\ UNCHANGED <<loops, open, phase>>
      BY <1>5 DEF BuildSet, Does, Ready
    <2>2. /\ Fit(moved, rc, Sure, Known, {o}) /\ rc[o] = 0 /\ Holders(moved, o) = {}
          /\ Sure \in SUBSET Obj /\ Known \in SUBSET Obj
          /\ Apart(moved) /\ moved \in [Place -> Value] /\ moved[t] = Nil
          /\ \A p \in Place : moved[p] = ref[p] \/ p \in DOMAIN from \/ moved[p] = Nil
          /\ \A p \in DOMAIN from : p \notin Root
      BY <1>3, <2>1
    <2>3. /\ \A p \in dups : p \in Root \ LoopPlace /\ p \in Offstack /\ p \in Place /\ ref[p] \in lost
          /\ \A x \in Obj : x \in lost => \E q \in Offstack : ref[q] = x
      BY <1>2, OffstackFacts DEF Values
    <2> HIDE DEF moved, lost
    <2>4. \A p \in dups : moved[p] \in Obj => moved[p] \in lost
      BY <2>2, <2>3, PlaceFacts
    <2>5. /\ forgot \in [Place -> Value] /\ forgot[t] = Nil
          /\ \A p \in Place : forgot[p] # moved[p] => p \in dups /\ forgot[p] = Nil
      BY <1>2, <2>2, PlaceFacts
    <2>6. Holders(forgot, o) = {}
      BY <2>2, PlaceFacts DEF Holders
    <2> HIDE DEF forgot
    <2>7. \A p \in Place : forgot[p] # moved[p] => /\ p \in Root /\ p \in Offstack /\ forgot[p] \notin Obj
                                                    /\ (moved[p] \in Obj => moved[p] \in lost)
      BY <2>3, <2>4, <2>5, PlaceFacts
    <2>8. Fit(forgot, rc, Sure, Known \ lost, {o})
      BY <2>2, <2>5, <2>7, FitForget
    <2>9. Apart(forgot)
      BY <2>2, <2>7, ApartForget
    <2>10. Fit(Placed(forgot, o, t), Counted(rc, o), Sure, Known \ lost, {})
      <3>1. Known \ lost \in SUBSET Obj
        BY <2>2
      <3> QED
        BY <1>2, <2>2, <2>5, <2>6, <2>8, <3>1, FitPlaced
    <2>11. Apart(Placed(forgot, o, t))
      BY <1>2, <2>2, <2>5, <2>9, ApartPlaced
    <2>12. Typed(o, "set") \in [Obj -> Kind]
      BY TypedKind DEF Kind
    <2>13. Sure \ {} = Sure /\ {} \cup lost = lost
      OBVIOUS
    <2> QED
      BY <1>0, <2>1, <2>3, <2>10, <2>11, <2>12, <2>13, StepInv
  <1>6. ASSUME NEW u \in Heap, NEW K \in Containers,
               NEW from \in Transfers(o, Occupied(ref[u])), ConvertContainer(u, o, K, from, t)
        PROVE  IInv'
    <2>1. /\ Ready /\ Defined /\ Fresh(o) /\ ref[t] = Nil
          /\ Call(Placed(Copied(ref, from), o, t), Counted(Increfed(ref, rc, from), o),
                  Typed(o, K), {u})
      BY <1>6 DEF ConvertContainer, Does, Ready
    <2>2. ref[u] \in Obj /\ {u} \in SUBSET Offstack
      BY OffstackFacts DEF Heap
    <2>3. Occupied(ref[u]) \in SUBSET Offstack
      BY <2>2, FieldsOffstack
    <2>4. DOMAIN from \in SUBSET Fields({o}) /\ from \in [DOMAIN from -> Offstack]
      BY <2>3, TransfersType
    <2>5. /\ Fit(Placed(Copied(ref, from), o, t), Counted(Increfed(ref, rc, from), o), Sure, Known, {})
          /\ Apart(Placed(Copied(ref, from), o, t))
      BY <1>2, <2>1, <2>4, NewCopyFit
    <2>6. Typed(o, K) \in [Obj -> Kind]
      BY TypedKind DEF Kind, Containers
    <2> QED
      BY <2>1, <2>2, <2>5, <2>6, CallInv
  <1> QED
    BY <1>1, <1>4, <1>5, <1>6

\* An operator or call that returns a new object or an immortal value.
LEMMA ReturnsInv ==
  ASSUME IInv, Ready, NEW operands \in SUBSET Temp, NEW t \in Temp, NEW o \in Obj,
         NEW v \in Immortal, Returns(operands, t, o, v)
  PROVE  IInv'
  <1>0. /\ kind \in [Obj -> Kind] /\ operands \in SUBSET Offstack /\ t \in Root \ LoopPlace
        /\ Defined /\ ref[t] = Nil
    BY OffstackFacts DEF IInv, TypeOK, Ready, Returns
  <1>1. CASE Fresh(o) /\ Call(Placed(ref, o, t), Counted(rc, o), Typed(o, "leaf"), operands)
    <2>1. Typed(o, "leaf") \in [Obj -> Kind]
      BY TypedKind DEF Kind
    <2> QED
      BY <1>0, <1>1, <2>1, NewFit, CallInv
  <1>2. CASE Call(With(ref, t, v), rc, kind, operands)
    <2>1. Fit(With(ref, t, v), rc, Sure, Known, {}) /\ Apart(With(ref, t, v))
      BY <1>0, StateFit, WithFit
    <2> QED
      BY <1>0, <1>2, <2>1, CallInv
  <1> QED
    BY <1>1, <1>2 DEF Returns

\* The operators on two containers, which fill a new one.
LEMMA ConcatInv ==
  ASSUME IInv, NEW t \in Temp, NEW l \in Heap, NEW r \in Heap, NEW o \in Obj,
         NEW from \in Fillings(o, Occupied(ref[l]) \cup Occupied(ref[r])),
         \/ ListConcat(l, r, o, from, t)
         \/ TupleConcat(l, r, o, from, t)
         \/ SetOperator(l, r, o, from, t)
  PROVE  IInv'
  <1>0. /\ t \in Root \ LoopPlace /\ t \in Root /\ t \in Offstack /\ {l, r} \in SUBSET Offstack
        /\ Ready /\ Defined /\ Fresh(o) /\ ref[t] = Nil
    BY OffstackFacts DEF Heap, ListConcat, TupleConcat, SetOperator, Does, Ready
  <1>1. DOMAIN from \in SUBSET Fields({o}) /\ from \in [DOMAIN from -> Offstack]
    <2>1. ref[l] \in Obj /\ ref[r] \in Obj
      BY DEF Heap
    <2>2. Occupied(ref[l]) \cup Occupied(ref[r]) \in SUBSET Offstack
      BY <2>1, FieldsOffstack
    <2> QED
      BY <2>2, FillingsType
  <1>2. Typed(o, "list") \in [Obj -> Kind] /\ Typed(o, "set") \in [Obj -> Kind]
        /\ Typed(o, "tuple") \in [Obj -> Kind]
    BY TypedKind DEF Kind
  <1>3. CASE ListConcat(l, r, o, from, t) \/ SetOperator(l, r, o, from, t)
    <2>1. PICK k \in [Obj -> Kind] :
            Call(Placed(Copied(ref, from), o, t), Counted(Increfed(ref, rc, from), o), k, {l, r})
      BY <1>2, <1>3 DEF ListConcat, SetOperator
    <2>2. /\ Fit(Placed(Copied(ref, from), o, t), Counted(Increfed(ref, rc, from), o), Sure, Known, {})
          /\ Apart(Placed(Copied(ref, from), o, t))
      BY <1>0, <1>1, NewCopyFit
    <2> QED
      BY <1>0, <2>1, <2>2, CallInv
  <1>4. CASE TupleConcat(l, r, o, from, t)
    <2> DEFINE dup == {ref[from[f]] : f \in DOMAIN from}
    <2>1. /\ Effect(Placed(Copied(ref, from), o, t), Counted(rc, o), Typed(o, "tuple"), {l, r},
                    dup, {})
          /\ UNCHANGED <<loops, open, phase>>
      BY <1>4 DEF TupleConcat
    <2>2. /\ Fit(ref, rc, Sure, Known, {o}) /\ Sure \in SUBSET Obj /\ Known \in SUBSET Obj
          /\ ref \in [Place -> Value]
      BY <1>0, StateFit
    <2>3. DOMAIN from \in SUBSET Writable(rc, {o}) /\ from \in [DOMAIN from -> Place]
      BY <1>1, OffstackFacts DEF Writable, Fields
    <2>4. /\ \A p \in DOMAIN from : ref[from[p]] \in dup /\ ref[p] = Nil
          /\ \A x \in Obj : x \in dup => \E q \in Offstack : ref[q] = x
      BY <1>0, <1>1, FreshFields
    <2>5. dup \cup {} = dup
      OBVIOUS
    <2> HIDE DEF dup
    <2>6. Fit(Copied(ref, from), rc, Sure \ dup, Known \ dup, {o})
      BY <2>2, <2>3, <2>4, FitAlias
    <2>7. /\ rc[o] = 0 /\ Apart(Copied(ref, from)) /\ \A p \in Place : Copied(ref, from)[p] # o
      BY <1>0, <1>1, NewCopyFit DEF Fresh
    <2>8. Holders(Copied(ref, from), o) = {}
      BY <2>7 DEF Holders
    <2>9. Copied(ref, from)[t] = Nil
      BY <1>0, <1>1, PlaceFacts DEF Copied, Fields
    <2>10. Fit(Placed(Copied(ref, from), o, t), Counted(rc, o), Sure \ dup, Known \ dup, {})
      <3>1. Sure \ dup \in SUBSET Obj /\ Known \ dup \in SUBSET Obj
        BY <2>2
      <3> QED
        BY <1>0, <2>6, <2>7, <2>8, <2>9, <3>1, FitPlaced
    <2>11. Apart(Placed(Copied(ref, from), o, t))
      BY <1>0, <2>6, <2>7, ApartPlaced DEF Fit
    <2> QED
      BY <1>0, <1>2, <2>1, <2>4, <2>5, <2>10, <2>11, StepInv
  <1> QED
    BY <1>3, <1>4

\* So does reading or replacing an element of a container.
LEMMA ElementsInv ==
  ASSUME IInv, NEW t \in Temp,
         \/ \E u, i \in Heap : \E f \in Occupied(ref[u]) : Index(u, i, f, t)
         \/ \E i, w \in Temp : \E f \in ElementsOf(t) : StoreSubscr(t, i, f, w)
  PROVE  IInv'
  <1>0. kind \in [Obj -> Kind] /\ t \in Root \ LoopPlace /\ t \in Place
    BY OffstackFacts, PlaceFacts DEF IInv, TypeOK
  <1>1. ASSUME NEW u \in Heap, NEW i \in Heap, NEW f \in Occupied(ref[u]), Index(u, i, f, t)
        PROVE  IInv'
    <2> DEFINE from == [p \in {t} |-> f]
    <2>1. /\ Ready /\ Defined /\ ref[t] = Nil
          /\ Call(Copied(ref, from), Increfed(ref, rc, from), kind, {u, i})
      BY <1>1 DEF Index, Does, Ready
    <2>2. f \in Offstack /\ {u, i} \in SUBSET Offstack
      BY <1>1, FieldsOffstack, OffstackFacts DEF Heap
    <2>3. from \in [{t} -> Offstack] /\ {t} \in SUBSET Writable(rc, {})
      BY <1>0, <2>2, WritableFacts
    <2> HIDE DEF from
    <2>4. /\ Fit(Copied(ref, from), Increfed(ref, rc, from), Sure, Known, {})
          /\ Apart(Copied(ref, from))
      BY <2>1, <2>3, CopyFit
    <2> QED
      BY <1>0, <2>1, <2>2, <2>4, CallInv
  <1>2. ASSUME NEW i \in Temp, NEW w \in Temp, NEW f \in ElementsOf(t), StoreSubscr(t, i, f, w)
        PROVE  IInv'
    <2>1. /\ Ready /\ Defined /\ ref[t] \in Obj /\ f \in Occupied(ref[t])
          /\ Call(Swapped(ref, f, w), rc, kind, {t, i, w})
      BY <1>2 DEF StoreSubscr, Does, Is, Ready
    <2>2. rc[ref[t]] # 0
      BY <1>0, <2>1, LiveRefs DEF IInv
    <2>3. f \in Writable(rc, {}) /\ w \in Root /\ {t, i, w} \in SUBSET Offstack
      BY <2>1, <2>2, LiveFields, OffstackFacts, PlaceFacts DEF Occupied
    <2>4. f \in Offstack /\ w \in Offstack
      BY <2>1, FieldsOffstack, OffstackFacts
    <2>5. Fit(Swapped(ref, f, w), rc, Sure, Known, {}) /\ Apart(Swapped(ref, f, w))
      BY <2>1, <2>3, <2>4, StateFit, FitSwap, ApartSwap
    <2> QED
      BY <1>0, <2>1, <2>3, <2>5, CallInv
  <1> QED
    BY <1>1, <1>2

\* Every operator and every call of a builtin preserves the invariant.
LEMMA OperatorInv ==
  ASSUME IInv, OperatorStep
  PROVE  IInv'
  <1>0. /\ kind \in [Obj -> Kind] /\ Empty \in SUBSET Temp /\ Heap \in SUBSET Temp
        /\ Values \in SUBSET Temp /\ Temp \in SUBSET Offstack /\ Temp \in SUBSET (Root \ LoopPlace)
        /\ \A t \in Empty : ref[t] = Nil
    BY OffstackFacts DEF IInv, TypeOK, Empty, Heap, Values
  <1>1. ASSUME NEW t \in Empty, NEW l \in Heap, NEW r \in Heap, NEW o \in Obj,
               Arithmetic(l, r, t, o)
        PROVE  IInv'
    <2>1. /\ Ready /\ Defined /\ Fresh(o) /\ t \in Root \ LoopPlace /\ {l, r} \in SUBSET Offstack
          /\ Call(Placed(ref, o, t), Counted(rc, o), Typed(o, "leaf"), {l, r})
      BY <1>0, <1>1 DEF Arithmetic, Does, Ready
    <2>2. Typed(o, "leaf") \in [Obj -> Kind]
      BY TypedKind DEF Kind
    <2> QED
      BY <1>0, <2>1, <2>2, NewFit, CallInv
  <1>2. ASSUME NEW t \in Empty, NEW l \in Values, NEW r \in Values, NEW v \in Immortal,
               Compare(l, r, t, v)
        PROVE  IInv'
    <2>1. /\ Ready /\ Defined /\ t \in Root \ LoopPlace /\ {l, r} \in SUBSET Offstack
          /\ Call(With(ref, t, v), rc, kind, {l, r})
      BY <1>0, <1>2 DEF Compare, Does, Ready
    <2>2. Fit(With(ref, t, v), rc, Sure, Known, {}) /\ Apart(With(ref, t, v))
      BY <1>0, <2>1, StateFit, WithFit
    <2> QED
      BY <1>0, <2>1, <2>2, CallInv
  <1>3. ASSUME NEW t \in Empty, NEW u \in Values, NEW o \in Obj, NEW v \in Immortal,
               Unary(u, t, o, v)
        PROVE  IInv'
    <2>1. Ready /\ Returns({u}, t, o, v) /\ {u} \in SUBSET Temp /\ t \in Temp
      BY <1>0, <1>3 DEF Unary, Does, Ready
    <2> QED
      BY <2>1, ReturnsInv
  <1>4. ASSUME NEW t \in Empty, NEW args \in SUBSET Values, NEW o \in Obj, NEW v \in Immortal,
               CallBuiltin(args, t, o, v)
        PROVE  IInv'
    <2>1. Ready /\ Returns(args, t, o, v) /\ args \in SUBSET Temp /\ t \in Temp
      BY <1>0, <1>4 DEF CallBuiltin, Does, Ready
    <2> QED
      BY <2>1, ReturnsInv
  <1>5. ASSUME NEW t \in Empty, NEW u \in Heap, CallIdentity(u, t)  PROVE  IInv'
    <2> DEFINE from == [p \in {t} |-> u]
    <2>1. /\ Ready /\ Defined
          /\ Effect(Copied(ref, from), rc, kind, {u}, {ref[u]}, {})
          /\ UNCHANGED <<loops, open, phase>>
      BY <1>5 DEF CallIdentity, Does, Ready
    <2>2. u \in Offstack /\ {u} \in SUBSET Offstack /\ t \in Root \ LoopPlace /\ ref[t] = Nil
      BY <1>0
    <2>3. /\ Fit(Copied(ref, from), rc, Sure \ {ref[u]}, Known \ ({ref[u]} \cup {}), {})
          /\ Apart(Copied(ref, from))
          /\ \A o \in Obj : o \in {ref[u]} \cup {} => \E p \in Offstack : ref[p] = o
      BY <2>1, <2>2, AliasFit
    <2> HIDE DEF from
    <2> QED
      BY <1>0, <2>1, <2>2, <2>3, StepInv
  <1>6. ASSUME NEW t \in Values, IsTruthy(t)  PROVE  IInv'
    <2>1. Ready /\ Defined /\ Call(ref, rc, kind, {t}) /\ {t} \in SUBSET Offstack
      BY <1>0, <1>6 DEF IsTruthy, Does, Ready
    <2> QED
      BY <1>0, <2>1, StateFit, CallInv
  <1> QED
    BY <1>0, <1>1, <1>2, <1>3, <1>4, <1>5, <1>6, ConcatInv, ElementsInv DEF OperatorStep

\* An element copied into a vacant field of a live list or set.
LEMMA AddFit ==
  ASSUME IInv, Defined, NEW p \in Place, ref[p] \in Obj,
         NEW B \in SUBSET Vacant(ref[p]), NEW from \in [B -> Offstack]
  PROVE  /\ Fit(Copied(ref, from), Increfed(ref, rc, from), Sure, Known, {})
         /\ Apart(Copied(ref, from))
         /\ \A q \in Place : q \in Root => Copied(ref, from)[q] = ref[q]
  <1>1. rc[ref[p]] # 0
    BY LiveRefs DEF IInv
  <1>2. B \in SUBSET Writable(rc, {}) /\ \A q \in B : ref[q] = Nil /\ q \notin Root
    BY <1>1, LiveFields, PlaceFacts DEF Vacant, Fields
  <1>3. \A q \in Place : q \in Root => Copied(ref, from)[q] = ref[q]
    BY <1>2 DEF Copied
  <1> QED
    BY <1>2, <1>3, CopyFit

\* Looking up a bound method preserves the invariant ...
LEMMA AttributeInv ==
  ASSUME IInv, NEW u \in Heap, NEW t \in Empty, NEW o \in Obj, NEW f \in Fields({o}),
         LoadAttr(u, o, f, t)
  PROVE  IInv'
  <1> DEFINE from == [p \in {f} |-> u]
  <1>1. /\ Ready /\ Defined /\ Fresh(o) /\ ref[t] = Nil
        /\ Call(Placed(Copied(ref, from), o, t), Counted(Increfed(ref, rc, from), o),
                Typed(o, "method"), {u})
    BY DEF LoadAttr, Does, Ready
  <1>2. /\ t \in Root /\ t \notin LoopPlace /\ {u} \in SUBSET Offstack
        /\ {f} \in SUBSET Fields({o}) /\ from \in [{f} -> Offstack]
    BY OffstackFacts DEF Heap, Empty
  <1> HIDE DEF from
  <1>3. /\ Fit(Placed(Copied(ref, from), o, t), Counted(Increfed(ref, rc, from), o), Sure, Known, {})
        /\ Apart(Placed(Copied(ref, from), o, t))
    BY <1>1, <1>2, NewCopyFit
  <1>4. Typed(o, "method") \in [Obj -> Kind]
    BY TypedKind DEF Kind
  <1> QED
    BY <1>1, <1>2, <1>3, <1>4, CallInv

\* ... and so does calling it ...
LEMMA CallMethodInv ==
  ASSUME IInv, NEW m \in Heap, NEW a \in Values, NEW t \in Empty, NEW none \in Immortal,
         NEW d \in Selves(m),
         \/ \E B \in SUBSET Vacant(d) : CallAdd(m, d, a, B, t, none)
         \/ \E from \in Transfers(d, ElementsOf(a)) : CallExtend(m, d, a, from, t, none)
  PROVE  IInv'
  <1>0. /\ kind \in [Obj -> Kind] /\ t \in Root \ LoopPlace /\ t \in Root /\ t \in Place
        /\ {m, a} \in SUBSET Offstack /\ a \in Offstack
        /\ ref \in [Place -> Value]
    BY OffstackFacts, PlaceFacts DEF IInv, TypeOK, Heap, Values, Empty
  <1>1. PICK p \in Place : ref[p] \in Obj /\ d = ref[p]
    BY PlaceFacts DEF Selves, Is, Occupied, Fields
  <1>2. ASSUME NEW B \in SUBSET Vacant(d), CallAdd(m, d, a, B, t, none)  PROVE IInv'
    <2> DEFINE from == [q \in B |-> a]
    <2>1. /\ Ready /\ Defined /\ ref[t] = Nil
          /\ Call(With(Copied(ref, from), t, none), Increfed(ref, rc, from), kind, {m, a})
      BY <1>2 DEF CallAdd, Does, Ready
    <2>2. from \in [B -> Offstack]
      BY <1>0
    <2> HIDE DEF from
    <2>3. /\ Fit(Copied(ref, from), Increfed(ref, rc, from), Sure, Known, {})
          /\ Apart(Copied(ref, from)) /\ Copied(ref, from)[t] = Nil
          /\ Sure \in SUBSET Obj /\ Known \in SUBSET Obj
      BY <1>0, <1>1, <2>1, <2>2, AddFit, StateFit
    <2>4. /\ Fit(With(Copied(ref, from), t, none), Increfed(ref, rc, from), Sure, Known, {})
          /\ Apart(With(Copied(ref, from), t, none))
      BY <1>0, <2>3, WithFit
    <2> QED
      BY <1>0, <2>1, <2>4, CallInv
  <1>3. ASSUME NEW from \in Transfers(d, ElementsOf(a)), CallExtend(m, d, a, from, t, none)
        PROVE  IInv'
    <2>1. /\ Ready /\ Defined /\ ref[t] = Nil
          /\ Call(With(Copied(ref, from), t, none), Increfed(ref, rc, from), kind, {m, a})
      BY <1>3 DEF CallExtend, Does, Ready
    <2>2. ElementsOf(a) \in SUBSET Offstack /\ d \in Obj
      BY <1>1, FieldsOffstack DEF ElementsOf
    <2>3. DOMAIN from \in SUBSET Vacant(ref[p]) /\ from \in [DOMAIN from -> Offstack]
      BY <1>1, <2>2, TransfersType
    <2>4. /\ Fit(Copied(ref, from), Increfed(ref, rc, from), Sure, Known, {})
          /\ Apart(Copied(ref, from)) /\ Copied(ref, from)[t] = Nil
          /\ Sure \in SUBSET Obj /\ Known \in SUBSET Obj
      BY <1>0, <1>1, <2>1, <2>3, AddFit, StateFit
    <2>5. /\ Fit(With(Copied(ref, from), t, none), Increfed(ref, rc, from), Sure, Known, {})
          /\ Apart(With(Copied(ref, from), t, none))
      BY <1>0, <2>4, WithFit
    <2> QED
      BY <1>0, <2>1, <2>5, CallInv
  <1> QED
    BY <1>2, <1>3

\* ... and adding to the container of a comprehension.
LEMMA ComprehensionInv ==
  ASSUME IInv, NEW d \in Heap, NEW a \in Values,
         \/ \E B \in SUBSET Vacant(ref[d]) : AppendItem(d, a, B)
         \/ \E from \in Transfers(ref[d], ElementsOf(a)) : ExtendItems(d, a, from)
  PROVE  IInv'
  <1>0. /\ kind \in [Obj -> Kind] /\ {a} \in SUBSET Offstack /\ a \in Offstack
        /\ d \in Place /\ ref[d] \in Obj
    BY OffstackFacts, PlaceFacts DEF IInv, TypeOK, Heap, Values
  <1>1. ASSUME NEW B \in SUBSET Vacant(ref[d]), AppendItem(d, a, B)  PROVE IInv'
    <2> DEFINE from == [q \in B |-> a]
    <2>1. Ready /\ Defined /\ Call(Copied(ref, from), Increfed(ref, rc, from), kind, {a})
      BY <1>1 DEF AppendItem, Does, Ready
    <2>2. from \in [B -> Offstack]
      BY <1>0
    <2> HIDE DEF from
    <2>3. /\ Fit(Copied(ref, from), Increfed(ref, rc, from), Sure, Known, {})
          /\ Apart(Copied(ref, from))
      BY <1>0, <2>1, <2>2, AddFit
    <2> QED
      BY <1>0, <2>1, <2>3, CallInv
  <1>2. ASSUME NEW from \in Transfers(ref[d], ElementsOf(a)), ExtendItems(d, a, from)
        PROVE  IInv'
    <2>1. Ready /\ Defined /\ Call(Copied(ref, from), Increfed(ref, rc, from), kind, {a})
      BY <1>2 DEF ExtendItems, Does, Ready
    <2>2. ElementsOf(a) \in SUBSET Offstack
      BY FieldsOffstack DEF ElementsOf
    <2>3. DOMAIN from \in SUBSET Vacant(ref[d]) /\ from \in [DOMAIN from -> Offstack]
      BY <1>0, <2>2, TransfersType
    <2>4. /\ Fit(Copied(ref, from), Increfed(ref, rc, from), Sure, Known, {})
          /\ Apart(Copied(ref, from))
      BY <1>0, <2>1, <2>3, AddFit
    <2> QED
      BY <1>0, <2>1, <2>4, CallInv
  <1> QED
    BY <1>1, <1>2

\* The steps that use methods preserve the invariant.
LEMMA MethodInv ==
  ASSUME IInv, MethodStep
  PROVE  IInv'
  BY AttributeInv, CallMethodInv, ComprehensionInv DEF MethodStep

\* Starting a for loop preserves the invariant: the new entry of iterStack was
\* empty, and the new iterator is nowhere else.
LEMMA GetIterInv ==
  ASSUME IInv, NEW u \in Temp, NEW o \in Obj, NEW f \in Fields({o}), GetIter(u, o, f)
  PROVE  IInv'
  <1> DEFINE from == [p \in {f} |-> u]
             copy == Copied(ref, from)
             t == Loop(loops + 1)
             r == Placed(copy, o, t)
             c == Counted(Increfed(ref, rc, from), o)
  <1>1. /\ Ready /\ Defined /\ phase = "running" /\ Fresh(o) /\ loops < MaxLoops
        /\ Effect(r, c, Typed(o, "iter"), {u}, {}, {})
        /\ loops' = loops + 1 /\ open' = open \cup {loops'} /\ phase' = "running"
    BY DEF GetIter, Does, Ready
  <1>2. /\ loops \in 0..MaxLoops /\ MaxLoops \in Nat /\ loops + 1 \in 1..MaxLoops
        /\ loops' \in 0..MaxLoops /\ open' \subseteq 1..MaxLoops /\ phase' \in {"running", "exited", "raised"}
    BY <1>1, OwnershipAssumption DEF IInv, TypeOK
  <1>3. /\ t \in LoopPlace /\ t \in Root /\ t \in Place /\ ref[t] = Nil
        /\ {u} \in SUBSET Offstack /\ {u} \in SUBSET Place /\ t \notin {u}
        /\ {f} \in SUBSET Fields({o}) /\ from \in [{f} -> Offstack]
        /\ \A j \in 1..MaxLoops : Loop(j) \in LoopPlace /\ (j # loops + 1 => Loop(j) # t)
    BY <1>2, OffstackFacts, PlaceFacts DEF IInv, LoopsOwn, Loop, LoopPlace
  <1> HIDE DEF from, t
  <1>4. /\ Fit(r, c, Sure, Known, {}) /\ Apart(copy) /\ \A p \in Place : copy[p] # o
    BY <1>1, <1>3, NewCopyFit
  <1>5. Typed(o, "iter") \in [Obj -> Kind]
    BY TypedKind DEF Kind
  <1>6. TypeOK' /\ Confined' /\ ExactCounts'
    <2>1. Fit(r, c, Sure \ {}, Known \ ({} \cup {}), {})
      BY <1>4 DEF Fit
    <2> HIDE DEF r, c
    <2> QED
      BY <1>1, <1>2, <1>3, <1>5, <2>1, EffectCounts
  <1>7. /\ c \in [Obj -> Nat] /\ c[o] = 1 /\ rc[o] = 0 /\ r[t] = o
        /\ \A p \in Place : p # t => r[p] = copy[p]
    <2>1. copy \in [Place -> Value] /\ Increfed(ref, rc, from) \in [Obj -> Nat]
      <3>1. {f} \in SUBSET Place /\ from \in [{f} -> Place]
        BY <1>3, OffstackFacts, FieldsOffstack
      <3> QED
        BY <3>1, CopiedType, IncrefedType DEF IInv, TypeOK
    <2> QED
      BY <1>1, <1>3, <1>4, <2>1 DEF Fit, Placed, Counted, Fresh
  <1> HIDE DEF copy, r, c
  <1>8. /\ ref' = RefsAfter(r, c, {u}) /\ o \notin aliased' \cup leaked'
        /\ ref'[t] = o /\ \A p \in Place : ref'[p] \in {Nil, r[p]}
    BY <1>1, <1>3, <1>7, AfterRelease DEF Effect
  <1>9. ASSUME NEW j \in 1..MaxLoops, j > loops'  PROVE  ref'[Loop(j)] = Nil
    <2>1. j > loops /\ j # loops + 1
      BY <1>1, <1>2, <1>9
    <2>2. Loop(j) \in Place /\ Loop(j) # t /\ ref[Loop(j)] = Nil /\ copy[Loop(j)] = ref[Loop(j)]
      BY <1>3, <1>4, <2>1, PlaceFacts DEF Apart, IInv, LoopsOwn
    <2> QED
      BY <1>7, <1>8, <2>2
  <1>10. ASSUME NEW j \in 1..loops
         PROVE  /\ ref'[Loop(j)] \in Obj \ (aliased' \cup leaked')
                /\ \A p \in Place : ref'[p] = ref'[Loop(j)] => p = Loop(j)
    <2>1. j \in 1..MaxLoops /\ j # loops + 1
      BY <1>2
    <2>2. Loop(j) \in Place /\ Loop(j) \in LoopPlace /\ Loop(j) # t /\ Loop(j) \notin {u}
      BY <1>3, <2>1, PlaceFacts, OffstackFacts
    <2>3. r[Loop(j)] = ref[Loop(j)]
      BY <1>4, <1>7, <2>2 DEF Apart
    <2>4. ASSUME NEW p \in Place \ {Loop(j)}, r[p] \in Obj
          PROVE  rc[r[p]] = 0 \/ \E q \in Place \ {Loop(j)} : ref[q] = r[p]
      <3>1. CASE p = t
        BY <1>7, <3>1
      <3>2. CASE p # t /\ p \in LoopPlace
        BY <1>4, <1>7, <3>2 DEF Apart
      <3>3. CASE p # t /\ p \notin LoopPlace
        BY <1>4, <1>7, <2>2, <2>4, <3>3, OffstackFacts DEF Apart
      <3> QED
        BY <3>1, <3>2, <3>3
    <2>5. \A x \in Obj : x \in {} \cup {} => \E q \in Place \ {Loop(j)} : ref[q] = x
      OBVIOUS
    <2> QED
      BY <1>1, <1>3, <1>7, <2>2, <2>3, <2>4, <2>5, IteratorKept
  <1>11. ASSUME NEW p \in Place, ref'[p] = o  PROVE  p = t
    BY <1>4, <1>7, <1>8, <1>11, PlaceFacts
  <1>12. LoopsOwn'
    <2> SUFFICES ASSUME NEW j \in 1..loops'
                 PROVE  /\ ref'[Loop(j)] \in Obj \ (aliased' \cup leaked')
                        /\ \A p \in Place : ref'[p] = ref'[Loop(j)] => p = Loop(j)
      BY <1>9 DEF LoopsOwn
    <2>1. CASE j = loops + 1
      BY <1>8, <1>11, <2>1 DEF t
    <2>2. CASE j # loops + 1
      <3>1. j \in 1..loops
        BY <1>1, <1>2, <2>2
      <3> QED
        BY <1>10, <3>1
    <2> QED
      BY <2>1, <2>2
  <1> QED
    BY <1>1, <1>6, <1>12 DEF IInv, RootsClear

\* So does ending one: the last entry of iterStack is given up.
LEMMA PopIterInv ==
  ASSUME IInv, PopIter
  PROVE  IInv'
  <1> DEFINE t == Loop(loops)
  <1>1. /\ Ready /\ Defined /\ phase = "running" /\ loops > 0 /\ Effect(ref, rc, kind, {t}, {}, {})
        /\ loops' = loops - 1 /\ open' \subseteq open /\ phase' = "running"
    BY DEF PopIter, Does, Ready
  <1>2. /\ loops \in 1..MaxLoops /\ loops' \in 0..MaxLoops /\ open' \subseteq 1..MaxLoops
        /\ phase' \in {"running", "exited", "raised"} /\ MaxLoops \in Nat
        /\ kind \in [Obj -> Kind] /\ rc \in [Obj -> Nat]
    BY <1>1, OwnershipAssumption DEF IInv, TypeOK
  <1>3. /\ {t} \in SUBSET Place
        /\ \A j \in 1..MaxLoops : Loop(j) \in Place /\ Loop(j) \in Root /\ (j # loops => Loop(j) # t)
    BY <1>2, PlaceFacts DEF Loop, LoopPlace
  <1> HIDE DEF t
  <1>4. TypeOK' /\ Confined' /\ ExactCounts'
    <2>1. Fit(ref, rc, Sure \ {}, Known \ ({} \cup {}), {})
      BY <1>1, StateFit
    <2> QED
      BY <1>1, <1>2, <1>3, <2>1, EffectCounts
  <1>5. ref' = RefsAfter(ref, rc, {t})
    BY <1>1 DEF Effect
  <1>6. ASSUME NEW j \in 1..MaxLoops, j > loops'  PROVE  ref'[Loop(j)] = Nil
    <2>1. CASE j = loops
      BY <1>2, <1>3, <1>5, <2>1, AfterRelease DEF t
    <2>2. CASE j # loops
      <3>1. ref[Loop(j)] = Nil
        BY <1>1, <1>2, <1>6, <2>2 DEF IInv, LoopsOwn
      <3> QED
        BY <1>2, <1>3, <1>5, <3>1, AfterRelease
    <2> QED
      BY <2>1, <2>2
  <1>7. ASSUME NEW j \in 1..loops'
        PROVE  /\ ref'[Loop(j)] \in Obj \ (aliased' \cup leaked')
               /\ \A p \in Place : ref'[p] = ref'[Loop(j)] => p = Loop(j)
    <2>1. j \in 1..MaxLoops /\ j \in 1..loops /\ j # loops
      BY <1>1, <1>2
    <2>2. Loop(j) \notin {t} /\ ref[Loop(j)] = ref[Loop(j)]
      BY <1>3, <2>1
    <2>3. \A p \in Place \ {Loop(j)} :
             ref[p] \in Obj => rc[ref[p]] = 0 \/ \E q \in Place \ {Loop(j)} : ref[q] = ref[p]
      OBVIOUS
    <2>4. \A x \in Obj : x \in {} \cup {} => \E q \in Place \ {Loop(j)} : ref[q] = x
      OBVIOUS
    <2> QED
      BY <1>1, <1>2, <1>3, <2>1, <2>2, <2>3, <2>4, IteratorKept
  <1>8. LoopsOwn'
    BY <1>6, <1>7 DEF LoopsOwn
  <1> QED
    BY <1>1, <1>4, <1>8 DEF IInv, RootsClear

\* Starting, continuing and leaving a for loop preserves the invariant.
LEMMA LoopInv ==
  ASSUME IInv, LoopStep
  PROVE  IInv'
  <1>1. ASSUME NEW t \in Temp, NEW f \in Obj \X Slot, NEW e \in Obj \X Slot, ForIter(f, e, t)
        PROVE  IInv'
    <2> DEFINE from == [p \in {t} |-> e]
    <2>1. /\ Ready /\ Defined /\ ref[t] = Nil
          /\ Call(Copied(ref, from), Increfed(ref, rc, from), kind, {})
      BY <1>1 DEF ForIter, Does, Ready
    <2>2. from \in [{t} -> Offstack] /\ {t} \in SUBSET Writable(rc, {})
      BY OffstackFacts, WritableFacts
    <2>3. kind \in [Obj -> Kind] /\ {} \in SUBSET Offstack
      BY DEF IInv, TypeOK
    <2> HIDE DEF from
    <2>4. /\ Fit(Copied(ref, from), Increfed(ref, rc, from), Sure, Known, {})
          /\ Apart(Copied(ref, from))
      BY <2>1, <2>2, CopyFit
    <2> QED
      BY <2>1, <2>3, <2>4, CallInv
  <1>2. ASSUME Break  PROVE IInv'
    <2>1. /\ open' \subseteq open
          /\ UNCHANGED <<kind, rc, ref, loops, phase, overrun, aliased, leaked>>
      BY <1>2 DEF Break
    <2>2. TypeOK'
      BY <2>1 DEF IInv, TypeOK, Occupied
    <2> QED
      BY <2>1, <2>2 DEF IInv, Confined, ExactCounts, LoopsOwn, RootsClear
  <1> QED
    BY <1>1, <1>2, GetIterInv, PopIterInv DEF LoopStep

\* An exception preserves the invariant: it abandons references, decrementing
\* only the operands the failing call had taken over.
LEMMA RaiseInv ==
  ASSUME IInv, NEW operands \in SUBSET Temp, Raise(operands)
  PROVE  IInv'
  <1> DEFINE gone  == {p \in (Temp \cup LoopPlace) \ operands : ref[p] # Nil}
             after == [p \in Place |-> IF p \in gone THEN Nil ELSE ref[p]]
             lost  == {ref[p] : p \in gone}
  <1>1. /\ Defined /\ Effect(after, rc, kind, operands, {}, lost)
        /\ phase' = "raised" /\ UNCHANGED <<loops, open>>
    BY DEF Raise, Does
  <1>2. /\ kind \in [Obj -> Kind] /\ ref \in [Place -> Value] /\ rc \in [Obj -> Nat]
        /\ loops' \in 0..MaxLoops /\ open' \subseteq 1..MaxLoops
        /\ phase' \in {"running", "exited", "raised"}
        /\ operands \in SUBSET Place /\ gone \in SUBSET Root
        /\ \A p \in gone : ref[p] \in lost
    BY <1>1, PlaceFacts DEF IInv, TypeOK
  <1>3. \A p \in LoopPlace : p \in Place /\ after[p] = Nil
    BY PlaceFacts, OffstackFacts
  <1> HIDE DEF gone, lost
  <1>4. after \in [Place -> Value]
    BY <1>2, PlaceFacts
  <1>5. \A p \in Place : after[p] # ref[p] => /\ p \in Root /\ after[p] \notin Obj
                                               /\ (ref[p] \in Obj => ref[p] \in lost)
    BY <1>2, PlaceFacts
  <1> HIDE DEF after
  <1>6. Fit(after, rc, Sure \ {}, Known \ ({} \cup lost), {})
    <2>1. Fit(after, rc, Sure, Known \ lost, {})
      BY <1>1, <1>4, <1>5, StateFit, FitForget
    <2>2. Sure \ {} = Sure /\ {} \cup lost = lost
      OBVIOUS
    <2> QED
      BY <2>1, <2>2
  <1>7. TypeOK' /\ Confined' /\ ExactCounts'
    BY <1>1, <1>2, <1>6, EffectCounts
  <1>8. LoopsOwn'
    <2>1. \A p \in Place : ref'[p] \in {Nil, after[p]}
      BY <1>1, <1>2, AfterRelease DEF Effect
    <2>2. \A k \in 1..MaxLoops : Loop(k) \in LoopPlace
      BY DEF Loop, LoopPlace
    <2> QED
      BY <1>1, <1>3, <2>1, <2>2 DEF LoopsOwn
  <1> QED
    BY <1>1, <1>7, <1>8 DEF IInv, RootsClear

\* pyir_destroyModule preserves the invariant: it empties the roots.
LEMMA FinishInv ==
  ASSUME IInv, Finish
  PROVE  IInv'
  <1> DEFINE drop == {p \in Name \cup Builtin : ref[p] # Nil}
  <1>1. /\ Defined /\ Effect(ref, rc, kind, drop, {}, {}) /\ phase' = "exited" /\ UNCHANGED <<loops, open>>
        /\ phase = "running" /\ \A t \in Temp : ref[t] = Nil
    BY DEF Finish
  <1>2. /\ kind \in [Obj -> Kind] /\ rc \in [Obj -> Nat]
        /\ loops' \in 0..MaxLoops /\ open' \subseteq 1..MaxLoops /\ drop \in SUBSET Place
        /\ phase' \in {"running", "exited", "raised"}
    BY <1>1, PlaceFacts DEF IInv, TypeOK
  <1>3. \A p \in Root \ LoopPlace : p \in drop \/ ref[p] = Nil
    BY <1>1, OffstackFacts
  <1> HIDE DEF drop
  <1>4. TypeOK' /\ Confined' /\ ExactCounts'
    <2>1. Fit(ref, rc, Sure \ {}, Known \ ({} \cup {}), {})
      BY <1>1, StateFit
    <2> QED
      BY <1>1, <1>2, <2>1, EffectCounts
  <1>5. /\ \A p \in Place : ref'[p] \in {Nil, ref[p]}
        /\ \A p \in drop : ref'[p] = Nil
    BY <1>1, <1>2, AfterRelease DEF Effect
  <1>6. LoopsOwn'
    <2>1. \A k \in 1..MaxLoops : Loop(k) \in Place
      BY PlaceFacts DEF Loop, LoopPlace
    <2> QED
      BY <1>1, <1>5, <2>1 DEF IInv, LoopsOwn
  <1>7. RootsClear'
    BY <1>3, <1>5, PlaceFacts DEF RootsClear
  <1> QED
    BY <1>4, <1>6, <1>7 DEF IInv

\* Every step preserves the invariant.
THEOREM NextInv == IInv /\ [Next]_vars => IInv'
  <1> SUFFICES ASSUME IInv, [Next]_vars  PROVE IInv'
    OBVIOUS
  <1>1. CASE StackStep
    BY <1>1, LoadInv, StackInv DEF StackStep
  <1>2. CASE BuildStep
    BY <1>2, BuildInv
  <1>3. CASE OperatorStep
    BY <1>3, OperatorInv
  <1>4. CASE MethodStep
    BY <1>4, MethodInv
  <1>5. CASE LoopStep
    BY <1>5, LoopInv
  <1>6. CASE \E operands \in SUBSET Temp : Raise(operands)
    BY <1>6, RaiseInv
  <1>7. CASE Finish
    BY <1>7, FinishInv
  <1>8. CASE UNCHANGED vars
    BY <1>8 DEF vars, IInv, TypeOK, Confined, ExactCounts, LoopsOwn, RootsClear, Occupied
  <1> QED
    BY <1>1, <1>2, <1>3, <1>4, <1>5, <1>6, <1>7, <1>8 DEF Next

-------------------------------------------------------------------------------
(* The theorems about the specification.                                     *)

\* The invariant holds of every reachable state.
THEOREM Invariance == Spec => []IInv
  BY InitInv, NextInv, PTL DEF Spec

\* The variables keep their types; in particular no refcount becomes negative
\* and a deleted object keeps no fields.
THEOREM TypeCorrect == Spec => []TypeOK
  <1>1. IInv => TypeOK
    BY DEF IInv
  <1> QED
    BY <1>1, Invariance, PTL

(***************************************************************************)
(* Whatever the program does, an object that no aliasing instruction       *)
(* duplicated is never deleted while something refers to it, and never     *)
(* decremented after its deletion.                                         *)
(***************************************************************************)
THEOREM ConfinedCorrect == Spec => []Confined
  <1>1. IInv => Confined
    BY DEF IInv
  <1> QED
    BY <1>1, Invariance, PTL

(***************************************************************************)
(* An object that no instruction duplicated or lost an owner of is counted *)
(* exactly once per owner: its last owner deletes it.                      *)
(***************************************************************************)
THEOREM CountsAreExact == Spec => []ExactCounts
  <1>1. IInv => ExactCounts
    BY DEF IInv
  <1> QED
    BY <1>1, Invariance, PTL

(***************************************************************************)
(* The entries of iterStack own their iterators alone, so that             *)
(* pyir_popIter deletes the one it pops.                                   *)
(***************************************************************************)
THEOREM IteratorsOwnedOnce == Spec => []IteratorOwnedOnce
  <1>1. IInv => IteratorOwnedOnce
    <2> SUFFICES ASSUME IInv, phase = "running", NEW k \in 1..loops
                 PROVE  rc[ref[Loop(k)]] = 1
      BY DEF IteratorOwnedOnce
    <2> DEFINE i == ref[Loop(k)]
    <2>1. k \in 1..MaxLoops
      BY OwnershipAssumption DEF IInv, TypeOK
    <2>2. Loop(k) \in Place
      BY <2>1, PlaceFacts DEF Loop, LoopPlace
    <2>3. i \in Obj \ (aliased \cup leaked) /\ \A p \in Place : ref[p] = i => p = Loop(k)
      BY DEF IInv, LoopsOwn
    <2>4. Holders(ref, i) = {Loop(k)}
      BY <2>2, <2>3 DEF Holders
    <2>5. Cardinality({Loop(k)}) = 1
      BY FS_Singleton
    <2> QED
      BY <2>3, <2>4, <2>5 DEF IInv, ExactCounts, Exact
  <1> QED
    BY <1>1, Invariance, PTL

(***************************************************************************)
(* After a normal exit an object that no instruction duplicated or lost is *)
(* alive only in a cycle or through an iterator a break left on iterStack. *)
(***************************************************************************)
THEOREM NothingIsLeft == Spec => []NothingLeftBehind
  <1>1. IInv => NothingLeftBehind
    <2> SUFFICES ASSUME IInv, phase = "exited", NEW o \in Obj \ (aliased \cup leaked), rc[o] > 0
                 PROVE  \/ \E q \in Obj : rc[q] > 0 /\ \E s \in Slot : ref[<<q, s>>] = o
                        \/ \E k \in 1..loops : ref[Loop(k)] = o
      BY DEF NothingLeftBehind
    <2>1. Cardinality(Holders(ref, o)) = rc[o] /\ rc \in [Obj -> Nat] /\ o # Nil
      BY PlaceFacts DEF IInv, ExactCounts, Exact, TypeOK
    <2>2. Holders(ref, o) # {}
      BY <2>1, FS_EmptySet
    <2>3. PICK p \in Place : ref[p] = o
      BY <2>2 DEF Holders
    <2>4. CASE p \in LoopPlace
      <3>1. PICK k \in 1..MaxLoops : p = Loop(k)
        BY <2>4 DEF Loop, LoopPlace
      <3>2. ~(k > loops)
        BY <2>1, <2>3, <3>1 DEF IInv, LoopsOwn
      <3>3. k \in 1..loops
        BY <3>2, OwnershipAssumption DEF IInv, TypeOK
      <3> QED
        BY <2>3, <3>1, <3>3
    <2>5. CASE p \in Root \ LoopPlace
      BY <2>1, <2>3, <2>5 DEF IInv, RootsClear
    <2>6. CASE p \in Obj \X Slot
      <3>1. PICK q \in Obj, s \in Slot : p = <<q, s>>
        BY <2>6
      <3>2. <<q, s>> \in Occupied(q)
        BY <2>1, <2>3, <3>1 DEF Occupied, Fields
      <3>3. rc[q] # 0
        BY <3>2 DEF IInv, TypeOK
      <3> QED
        BY <2>1, <2>3, <3>1, <3>3
    <2> QED
      BY <2>4, <2>5, <2>6 DEF Place
  <1> QED
    BY <1>1, Invariance, PTL

(***************************************************************************)
(* A program without an aliasing instruction never aliases an object ...   *)
(***************************************************************************)
LEMMA AliasingOnly ==
  ASSUME Uses \cap Aliasing = {}, aliased = {}, [Next]_vars
  PROVE  aliased' = {}
  <1>1. ASSUME NEW r, NEW c, NEW k, NEW drop, NEW lost, Effect(r, c, k, drop, {}, lost)
        PROVE  aliased' = {}
    BY <1>1 DEF Effect
  <1>2. ASSUME NEW r, NEW c, NEW k, NEW drop, Call(r, c, k, drop)
        PROVE  aliased' = {}
    BY <1>1, <1>2 DEF Call
  <1>3. \A i \in Aliasing : i \notin Uses
    OBVIOUS
  <1>4. CASE StackStep
    <2>1. PICK t \in Temp :
             \/ \E o \in Obj : LoadConst(o, t)
             \/ \E v \in Immortal : LoadImmortal(v, t)
             \/ \E n \in Name : LoadName(n, t)
             \/ \E b \in Builtin : LoadBuiltin(b, t)
             \/ \E n \in Name : StoreName(n, t)
             \/ PopTop(t)
             \/ \E u \in Temp : CopyTop(t, u)
      BY <1>4 DEF StackStep
    <2>2. /\ ~\E b \in Builtin : LoadBuiltin(b, t)
          /\ ~\E u \in Temp : CopyTop(t, u)
      BY <1>3 DEF LoadBuiltin, CopyTop, Does, Aliasing
    <2>3. ASSUME NEW o \in Obj, LoadConst(o, t)  PROVE aliased' = {}
      BY <1>2, <2>3 DEF LoadConst
    <2>4. ASSUME NEW v \in Immortal, LoadImmortal(v, t)  PROVE aliased' = {}
      BY <1>2, <2>4 DEF LoadImmortal
    <2>5. ASSUME NEW n \in Name, LoadName(n, t)  PROVE aliased' = {}
      BY <1>2, <2>5 DEF LoadName
    <2>6. ASSUME NEW n \in Name, StoreName(n, t)  PROVE aliased' = {}
      BY <1>2, <2>6 DEF StoreName
    <2>7. ASSUME PopTop(t)  PROVE aliased' = {}
      BY <1>1, <2>7 DEF PopTop
    <2> QED
      BY <2>1, <2>2, <2>3, <2>4, <2>5, <2>6, <2>7
  <1>5. CASE BuildStep
    <2>1. ASSUME NEW o, NEW t, NEW K, NEW from, BuildSequence(o, K, from, t)
          PROVE  aliased' = {}
      BY <1>2, <2>1 DEF BuildSequence
    <2>2. ASSUME NEW o, NEW t, NEW dups, NEW from, BuildSet(o, from, dups, t)
          PROVE  aliased' = {}
      BY <1>1, <2>2 DEF BuildSet
    <2>3. ASSUME NEW o, NEW t, NEW u, NEW K, NEW from, ConvertContainer(u, o, K, from, t)
          PROVE  aliased' = {}
      BY <1>2, <2>3 DEF ConvertContainer
    <2> QED
      BY <1>5, <2>1, <2>2, <2>3 DEF BuildStep
  <1>6. CASE OperatorStep
    <2>1. ASSUME NEW l, NEW r, NEW t, NEW o, Arithmetic(l, r, t, o)  PROVE aliased' = {}
      BY <1>2, <2>1 DEF Arithmetic
    <2>2. ASSUME NEW l, NEW r, NEW t, NEW v, Compare(l, r, t, v)  PROVE aliased' = {}
      BY <1>2, <2>2 DEF Compare
    <2>3. ASSUME NEW args, NEW t, NEW o, NEW v, Returns(args, t, o, v)  PROVE aliased' = {}
      BY <1>2, <2>3 DEF Returns
    <2>4. ASSUME NEW u, NEW t, NEW o, NEW v, Unary(u, t, o, v)  PROVE aliased' = {}
      BY <2>3, <2>4 DEF Unary
    <2>5. ASSUME NEW t, IsTruthy(t)  PROVE aliased' = {}
      BY <1>2, <2>5 DEF IsTruthy
    <2>6. ASSUME NEW args, NEW t, NEW o, NEW v, CallBuiltin(args, t, o, v)  PROVE aliased' = {}
      BY <2>3, <2>6 DEF CallBuiltin
    <2>7. ASSUME NEW l, NEW r, NEW o, NEW from, NEW t, ListConcat(l, r, o, from, t)
          PROVE  aliased' = {}
      BY <1>2, <2>7 DEF ListConcat
    <2>8. ASSUME NEW l, NEW r, NEW o, NEW from, NEW t, SetOperator(l, r, o, from, t)
          PROVE  aliased' = {}
      BY <1>2, <2>8 DEF SetOperator
    <2>9. ASSUME NEW u, NEW i, NEW f, NEW t, Index(u, i, f, t)  PROVE aliased' = {}
      BY <1>2, <2>9 DEF Index
    <2>10. ASSUME NEW u, NEW i, NEW f, NEW w, StoreSubscr(u, i, f, w)  PROVE aliased' = {}
      BY <1>2, <2>10 DEF StoreSubscr
    <2>11. ASSUME NEW u, NEW t  PROVE ~CallIdentity(u, t)
      BY <1>3 DEF CallIdentity, Does, Aliasing
    <2>12. ASSUME NEW l, NEW r, NEW o, NEW from, NEW t  PROVE ~TupleConcat(l, r, o, from, t)
      BY <1>3 DEF TupleConcat, Does, Aliasing
    <2> QED
      BY <1>6, <2>1, <2>2, <2>4, <2>5, <2>6, <2>7, <2>8, <2>9, <2>10, <2>11, <2>12
         DEF OperatorStep
  <1>7. CASE MethodStep
    <2>1. ASSUME NEW u, NEW o, NEW f, NEW t, LoadAttr(u, o, f, t)  PROVE aliased' = {}
      BY <1>2, <2>1 DEF LoadAttr
    <2>2. ASSUME NEW m, NEW d, NEW a, NEW B, NEW t, NEW none, CallAdd(m, d, a, B, t, none)
          PROVE  aliased' = {}
      BY <1>2, <2>2 DEF CallAdd
    <2>3. ASSUME NEW m, NEW d, NEW a, NEW from, NEW t, NEW none,
                 CallExtend(m, d, a, from, t, none)
          PROVE  aliased' = {}
      BY <1>2, <2>3 DEF CallExtend
    <2>4. ASSUME NEW d, NEW a, NEW B, AppendItem(d, a, B)  PROVE aliased' = {}
      BY <1>2, <2>4 DEF AppendItem
    <2>5. ASSUME NEW d, NEW a, NEW from, ExtendItems(d, a, from)  PROVE aliased' = {}
      BY <1>2, <2>5 DEF ExtendItems
    <2> QED
      BY <1>7, <2>1, <2>2, <2>3, <2>4, <2>5 DEF MethodStep
  <1>8. CASE LoopStep
    <2>1. ASSUME NEW u, NEW o, NEW f, GetIter(u, o, f)  PROVE aliased' = {}
      BY <1>1, <2>1 DEF GetIter
    <2>2. ASSUME NEW f, NEW e, NEW t, ForIter(f, e, t)  PROVE aliased' = {}
      BY <1>2, <2>2 DEF ForIter
    <2>3. ASSUME PopIter  PROVE aliased' = {}
      BY <1>1, <2>3 DEF PopIter
    <2>4. ASSUME Break  PROVE aliased' = {}
      BY <2>4 DEF Break
    <2> QED
      BY <1>8, <2>1, <2>2, <2>3, <2>4 DEF LoopStep
  <1>9. ASSUME NEW operands, Raise(operands)  PROVE aliased' = {}
    BY <1>1, <1>9 DEF Raise
  <1>10. CASE Finish
    BY <1>1, <1>10 DEF Finish
  <1>11. CASE UNCHANGED vars
    BY <1>11 DEF vars
  <1> QED
    BY <1>4, <1>5, <1>6, <1>7, <1>8, <1>9, <1>10, <1>11 DEF Next

(***************************************************************************)
(* ... so it is memory safe: every instruction but the aliasing ones       *)
(* (COPY, int() and float() of a number, tuple +, a builtin as a value)    *)
(* may be combined in any way, exceptions and module exit included, and no *)
(* reference dangles and no decref reaches a deleted object.               *)
(***************************************************************************)
THEOREM SoundPrograms ==
  ASSUME Uses \cap Aliasing = {}
  PROVE  Spec => []MemorySafe
  <1> DEFINE Sound == IInv /\ aliased = {}
  <1>1. Init => Sound
    BY InitInv DEF Init
  <1>2. Sound /\ [Next]_vars => Sound'
    BY NextInv, AliasingOnly
  <1>3. Sound => MemorySafe
    <2> SUFFICES ASSUME Sound  PROVE Defined
      BY DEF MemorySafe
    <2>1. overrun \subseteq Obj /\ Dangling(ref, rc) \subseteq Obj
      BY DEF IInv, TypeOK, Dangling
    <2>2. \A o \in Obj : o \notin overrun /\ o \notin Dangling(ref, rc)
      BY DEF IInv, Confined
    <2> QED
      BY <2>1, <2>2 DEF Defined
  <1> QED
    BY <1>1, <1>2, <1>3, PTL DEF Spec
=============================================================================
