------------------------------- MODULE MCFrames -------------------------------
(* Instances of Frames for TLC: def f(x), def h() that reads the globals g  *)
(* and x.  The two functions are also all the values there are.             *)
EXTENDS Frames, TLC

CONSTANTS f, h, g, x

MCParams == (f :> <<x>>) @@ (h :> <<>>)
MCLocals == (f :> {x}) @@ (h :> {})
===============================================================================
