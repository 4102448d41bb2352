------------------------------ MODULE MCShutdown ------------------------------
(* Instances of Shutdown for TLC. *)
EXTENDS Shutdown, TLC

MCRoot == Name \cup Builtin \cup Lost

Symmetry == Permutations(Obj) \cup Permutations(Name)
===============================================================================
