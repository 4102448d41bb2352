---------------------------- MODULE MCOwnership ----------------------------
(***************************************************************************)
(* Instances of Ownership for TLC: the roots, the instruction sets, and    *)
(* the symmetry of the cells, fields, variables and SSA values.            *)
(***************************************************************************)
EXTENDS Ownership, TLC

MCRoot == Name \cup Builtin \cup Temp \cup LoopPlace

Symmetry == Permutations(Obj) \cup Permutations(Temp) \cup Permutations(Slot)
              \cup Permutations(Name)
=============================================================================
