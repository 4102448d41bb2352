------------------------------ MODULE ProcessExit ------------------------------
(***************************************************************************)
(* What the main() of pystd (pystd/src/main_runtime.cpp) promises of a     *)
(* compiled program: once the module has finished, normally or with an     *)
(* exception, the process exits, with code 0 or 1 respectively, after      *)
(* deleting the objects the module's variables owned.                      *)
(***************************************************************************)
EXTENDS Naturals

VARIABLES
  outcome,  \* "running", "returned" or "raised": how the module finished
  owned,    \* TRUE while some variable of the module owns its object
  exit      \* the exit code; 2 while the process lives

vars == <<outcome, owned, exit>>

Init == outcome = "running" /\ owned \in BOOLEAN /\ exit = 2

Finish(how) == outcome = "running" /\ outcome' = how /\ UNCHANGED <<owned, exit>>

Release == outcome # "running" /\ owned /\ owned' = FALSE /\ UNCHANGED <<outcome, exit>>

Exit ==
  /\ outcome # "running" /\ ~owned /\ exit = 2
  /\ exit' = IF outcome = "returned" THEN 0 ELSE 1
  /\ UNCHANGED <<outcome, owned>>

Next == (\E how \in {"returned", "raised"} : Finish(how)) \/ Release \/ Exit

Spec == Init /\ [][Next]_vars /\ WF_vars(Next)
=============================================================================
