------------------------------- MODULE MCDriver -------------------------------
(* Instances of Driver for TLC. *)
EXTENDS Driver

prog  == <<"src1", "prog", "py">>
same  == <<"src2", "prog", "py">>
other == <<"src1", "other", "py">>

MCSource   == {prog, same, other}
\* A path of its own, a missing directory, the object file, an input.
MCOutput   == {None, <<"cwd", "prog", "exe">>, <<"gone", "prog", "exe">>,
               <<"cwd", "prog", "o">>, prog}
\* A file, a file of the same name elsewhere, a wildcard for two files.
MCArgument == {<<prog>>, <<same>>, <<other, prog>>}
===============================================================================
