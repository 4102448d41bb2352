------------------------------- MODULE Shutdown -------------------------------
(***************************************************************************)
(* The end of a compiled program: main() of pystd/src/main_runtime.cpp,    *)
(* pyir_destroyModule and pyir_clearDanglingScope.                         *)
(*                                                                         *)
(* The module finishes in one of the states the program may have built: a  *)
(* heap of objects, the module's variables, and references left behind in  *)
(* abandoned SSA values and iterStack entries.                             *)
(* Both clean-up loops walk an unordered_map, so their order is arbitrary; *)
(* neither clears a variable unless its decref deletes the object.         *)
(***************************************************************************)
EXTENDS RefCounts

CONSTANTS
  Name,      \* variables of the module scope, scopeStack.back()
  Builtin,   \* entries of builtinFuncs
  Lost,      \* SSA values and iterStack entries nobody will give up: a POP_TOP,
             \* a break or an exception abandoned them
  MaxDepth,  \* bound: scopes that are open when an exception escapes
  Sharing    \* whether two places may hold one object when the module finishes

ASSUME ShutdownAssumption ==
  /\ MaxDepth \in Nat \ {0} /\ Sharing \in BOOLEAN
  /\ Root = Name \cup Builtin \cup Lost
  /\ Name \cap Builtin = {} /\ Name \cap Lost = {} /\ Builtin \cap Lost = {}
  /\ Nil \notin Name

VARIABLES
  rc,       \* [Obj -> Nat]: PyObj::refcount, 0 for a deleted object
  ref,      \* [Place -> Value]: the pointers
  depth,    \* scopeStack.size()
  pc,       \* what main() is doing
  outcome,  \* "running", "returned" or "raised": how the module finished
  todo,     \* entries the current loop has not visited
  cur,      \* the entry pyir_clearDanglingScope is at, or Nil
  start     \* ghost: the references when the module finished

vars == <<rc, ref, depth, pc, outcome, todo, cur, start>>
main == <<depth, pc, outcome, todo, cur>>

Final == {"exited", "aborted", "fault"}
PC    == {"module", "destroy", "builtins", "clear", "immortals"} \cup Final

Bound == {n \in Name : ref[n] # Nil}

Table == {ref[b] : b \in Builtin}

(***************************************************************************)
(* Every reference is counted, except that loading a builtin's name does   *)
(* not count it: a builtin held elsewhere may have its table entry's count *)
(* alone.                                                                  *)
(***************************************************************************)
Init ==
  /\ ref \in [Place -> Value]
  /\ \A b \in Builtin : ref[b] \in Obj /\ \A s \in Slot : ref[<<ref[b], s>>] = Nil
  /\ \A a, b \in Builtin : ref[a] = ref[b] => a = b
  /\ \E k \in [Table -> 1..Cardinality(Place)] :
        rc = [o \in Obj |-> IF o \in Table THEN k[o] ELSE Cardinality(Holders(ref, o))]
  /\ \A o \in Obj : Cardinality(Holders(ref, o)) >= rc[o]
  /\ \A p \in Fields(Obj) : ref[p] # Nil => rc[p[1]] > 0
  /\ ~Sharing => \A o \in Obj : Cardinality(Holders(ref, o)) <= 1
  /\ depth = 1
  /\ pc = "module" /\ outcome = "running" /\ todo = {} /\ cur = Nil
  /\ start = ref

\* __pymodule returns: its last call is pyir_destroyModule.
Return ==
  /\ pc = "module"
  /\ pc' = "destroy" /\ outcome' = "returned" /\ todo' = Bound
  /\ UNCHANGED <<rc, ref, depth, cur, start>>

\* An exception escapes __pymodule with d scopes open, and main() catches it.
\* With more than the module scope open, pyir_destroyModule throws in the
\* handler and std::terminate aborts the process.
Throw(d) ==
  /\ pc = "module" /\ d \in 1..MaxDepth
  /\ depth' = d /\ outcome' = "raised"
  /\ \/ d > 1 /\ pc' = "aborted" /\ UNCHANGED todo
     \/ d = 1 /\ pc' = "destroy" /\ todo' = Bound
  /\ UNCHANGED <<rc, ref, cur, start>>

\* Mutants: the count is not tested; the entry is not set to nullptr.
SurvivesUnchecked(p) ==
  /\ \/ ref[p] \in Immortal /\ UNCHANGED rc
     \/ ref[p] \in Obj /\ rc' = [rc EXCEPT ![ref[p]] = @ - 1]
  /\ UNCHANGED ref

DiesKeepsEntry(p) ==
  /\ ref[p] \in Obj /\ rc[ref[p]] = 1 /\ Overrun(ref, rc, {p}) = {}
  /\ ref' = [RefsAfter(ref, rc, {p}) EXCEPT ![p] = ref[p]]
  /\ rc' = CountsAfter(ref, rc, {p})

(***************************************************************************)
(* decref() through the entry p: it deletes the object with the last count *)
(* (the entry is then set to nullptr), and otherwise leaves the entry as   *)
(* it is; an immortal has no count.  A decref that reaches a deleted       *)
(* object, here or in a destructor, is undefined behaviour.                *)
(***************************************************************************)
Survives(p) ==
  /\ \/ ref[p] \in Immortal /\ UNCHANGED rc
     \/ ref[p] \in Obj /\ rc[ref[p]] > 1 /\ rc' = [rc EXCEPT ![ref[p]] = @ - 1]
  /\ UNCHANGED ref

Dies(p) ==
  /\ ref[p] \in Obj /\ rc[ref[p]] = 1 /\ Overrun(ref, rc, {p}) = {}
  /\ ref' = RefsAfter(ref, rc, {p}) /\ rc' = CountsAfter(ref, rc, {p})

Faults(p) ==
  /\ ref[p] \in Obj /\ rc[ref[p]] <= 1
  /\ rc[ref[p]] = 0 \/ Overrun(ref, rc, {p}) # {}
  /\ pc' = "fault" /\ UNCHANGED <<rc, ref, depth, outcome, todo, cur, start>>

\* One entry of the two loops of pyir_destroyModule.
Destroy(p) ==
  /\ pc \in {"destroy", "builtins"} /\ p \in todo
  /\ \/ Faults(p)
     \/ /\ Survives(p) \/ Dies(p)
        /\ todo' = todo \ {p} /\ UNCHANGED <<depth, pc, outcome, cur, start>>

\* Mutant: the builtins are never decremented.
NamesDestroyedSkipsBuiltins ==
  /\ pc = "destroy" /\ todo = {}
  /\ pc' = "builtins" /\ UNCHANGED <<rc, ref, depth, outcome, todo, cur, start>>

NamesDestroyed ==
  /\ pc = "destroy" /\ todo = {}
  /\ pc' = "builtins" /\ todo' = Builtin
  /\ UNCHANGED <<rc, ref, depth, outcome, cur, start>>

\* Mutants: pyir_clearDanglingScope is called on every exit, or on none.
BuiltinsDestroyedAlwaysClears ==
  /\ pc = "builtins" /\ todo = {}
  /\ pc' = "clear" /\ todo' = Bound
  /\ UNCHANGED <<rc, ref, depth, outcome, cur, start>>

BuiltinsDestroyedNeverClears ==
  /\ pc = "builtins" /\ todo = {}
  /\ pc' = "immortals"
  /\ UNCHANGED <<rc, ref, depth, outcome, todo, cur, start>>

\* The end of pyir_destroyModule: back to __pymodule, or on to
\* pyir_clearDanglingScope.
BuiltinsDestroyed ==
  /\ pc = "builtins" /\ todo = {}
  /\ \/ outcome = "returned" /\ pc' = "immortals" /\ UNCHANGED todo
     \/ outcome = "raised" /\ pc' = "clear" /\ todo' = Bound
  /\ UNCHANGED <<rc, ref, depth, outcome, cur, start>>

\* pyir_clearDanglingScope comes to the variable n ...
Visit(n) ==
  /\ pc = "clear" /\ cur = Nil /\ n \in todo
  /\ cur' = n /\ todo' = todo \ {n}
  /\ UNCHANGED <<rc, ref, depth, pc, outcome, start>>

\* Mutant: the loop over one variable does not stop at the deletion.
ClearStuck ==
  /\ pc = "clear" /\ cur # Nil
  /\ \/ Faults(cur)
     \/ Survives(cur) /\ UNCHANGED <<main, start>>
     \/ Dies(cur) /\ UNCHANGED <<main, start>>

\* ... and decrements it until the decref reports a deletion.
Clear ==
  /\ pc = "clear" /\ cur # Nil
  /\ \/ Faults(cur)
     \/ Survives(cur) /\ UNCHANGED <<main, start>>
     \/ Dies(cur) /\ cur' = Nil /\ UNCHANGED <<depth, pc, outcome, todo, start>>

Cleared ==
  /\ pc = "clear" /\ cur = Nil /\ todo = {}
  /\ pc' = "immortals" /\ UNCHANGED <<rc, ref, depth, outcome, todo, cur, start>>

\* destroyImmortals, and the return from main().
Exit ==
  /\ pc = "immortals" /\ pc' = "exited"
  /\ UNCHANGED <<rc, ref, depth, outcome, todo, cur, start>>

Next ==
  \/ Return \/ \E d \in 1..MaxDepth : Throw(d)
  \/ \E p \in Root : Destroy(p)
  \/ NamesDestroyed \/ BuiltinsDestroyed
  \/ \E n \in Name : Visit(n)
  \/ Clear \/ Cleared \/ Exit

Spec == Init /\ [][Next]_vars /\ WF_vars(Next)

-------------------------------------------------------------------------------
\* The types of the variables.
TypeOK ==
  /\ rc \in [Obj -> Nat] /\ ref \in [Place -> Value] /\ start \in [Place -> Value]
  /\ depth \in 1..MaxDepth /\ pc \in PC /\ outcome \in {"running", "returned", "raised"}
  /\ todo \subseteq Name \cup Builtin /\ cur \in Name \cup {Nil}

\* What the heap was like when the module finished.
Held(o)        == {p \in Place : start[p] = o}
BuiltinsApart  == \A b \in Builtin : Held(start[b]) = {b}
Apart          == \A o \in Obj : Cardinality(Held(o)) <= 1
NoImmortalName == \A n \in Name : start[n] \notin Immortal

(***************************************************************************)
(* ReturnSafe: when the module returns, however its variables share        *)
(* objects, pyir_destroyModule never decrements an object that has been    *)
(* deleted, unless a builtin is held outside builtinFuncs.                 *)
(***************************************************************************)
ReturnSafe == outcome = "returned" /\ BuiltinsApart => pc # "fault"

\* RaiseSafe: nor do pyir_destroyModule and pyir_clearDanglingScope in the
\* handler of an exception when no object had two owners.
RaiseSafe == Apart => pc # "fault"

(***************************************************************************)
(* NamesFreed: an exit after an exception has deleted every object a       *)
(* variable referred to ("Decrefs all known values until deletion",        *)
(* main_runtime.cpp:41), however many references had been lost.            *)
(***************************************************************************)
NamesFreed ==
  pc = "exited" /\ outcome = "raised" =>
    \A n \in Name : start[n] \in Obj => rc[start[n]] = 0

\* OnlyCyclesRemain: after a normal exit an object survives only if a
\* surviving object or a lost reference still holds it.
OnlyCyclesRemain ==
  pc = "exited" /\ outcome = "returned" /\ BuiltinsApart =>
    \A o \in Obj : rc[o] > 0 => \/ \E q \in Obj, s \in Slot : rc[q] > 0 /\ ref[<<q, s>>] = o
                               \/ \E p \in Lost : ref[p] = o

\* Terminates: the process ends when no variable refers to None, True or False.
Terminates == NoImmortalName => <>(pc \in Final)

(***************************************************************************)
(* Without sharing, immortal variables and open scopes, the process does   *)
(* what main() promises.                                                   *)
(***************************************************************************)
Promise == INSTANCE ProcessExit WITH
  owned <- Bound # {},
  exit  <- IF pc = "exited" THEN IF outcome = "returned" THEN 0 ELSE 1 ELSE 2

KeepsPromise == Promise!Spec
=============================================================================
