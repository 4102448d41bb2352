-------------------------------- MODULE Driver --------------------------------
(***************************************************************************)
(* The compiler driver: main() of pycompile/src/main.cpp with the stages   *)
(* it runs (compilePython, generatePyIR, mergePyIRModules, lowering, LLVM  *)
(* export, link) and the files it reads, writes and removes.               *)
(*                                                                         *)
(* A stage either works, or the environment makes it fail: a file that     *)
(* cannot be opened, a program a stage rejects, a missing linker.  Stages  *)
(* are called inside a try block that reports and exits with status 1,     *)
(* except the exports of -E, -S and -c and the conversion of -O, whose     *)
(* exceptions leave main() and abort the process.                          *)
(***************************************************************************)
EXTENDS Integers, Sequences, SequencesExt

CONSTANTS
  Source,   \* paths that may hold a Python program
  Output,   \* paths given with -o; None when -o is absent
  Argument, \* one command line argument: the paths it matches, as a sequence;
            \* a plain file name matches itself
  MaxArguments, \* bound on their number
  Absent    \* the content of a path that does not exist

(***************************************************************************)
(* A path is <<directory, base name, extension>>.  Intermediate files are  *)
(* always named after the base name and put in the current directory.      *)
(***************************************************************************)
None        == <<"", "", "">>   \* the empty string
Directory   == {"cwd", "src1", "src2"}
Stage       == {"byc", "mlir", "ll"}
AOut        == <<"cwd", "a", "out">>
\* Mutant: the extension is not replaced.
DerivedAsIs(p, ext) == p

Derived(p, ext) == <<"cwd", p[2], ext>>
Path        == Source \cup (Output \ {None}) \cup {AOut}
                 \cup {Derived(p, ext) : p \in Source, ext \in Stage \cup {"o"}}

(***************************************************************************)
(* One ByteCodeModule and what becomes of it: the file it is named after   *)
(* and the program text it was compiled from.  Every module defines the    *)
(* function __pymodule.                                                    *)
(***************************************************************************)
Module         == [file : Source, text : Source]
Symbols(m)     == {"__pymodule"}
File(kind, ms) == [kind |-> kind, mods |-> ms]
Torn           == File("torn", <<>>)
FileContent    == [kind : Stage \cup {"py", "o", "exe", "torn"}, mods : Seq(Module)]
Content        == FileContent \cup {Absent}

Option == [upto : SUBSET Stage, save : BOOLEAN, out : Output,
           level : {"number", "word"}, args : UNION {[1..n -> Argument] : n \in 1..MaxArguments}]

VARIABLES
  opt,      \* the command line
  files,    \* [Path -> content]: the file system
  pc,       \* the stage main() is at
  upto,     \* upToPreprocess, upToCompile, upToLower
  tmp,      \* tmpFilesName
  inputs,   \* inputFileNames once resolved
  modules,  \* bytecodeModules, later mlirModules, later the merged module
  status,   \* exit status: "0", "1", "abort", or "running"
  fault,    \* ghost: what the environment did, "none", "seen" or "unseen"
  before    \* ghost: the file system at the start

vars   == <<opt, files, pc, upto, tmp, inputs, modules, status, fault, before>>
cmd    == <<opt, before>>
state  == <<upto, tmp, inputs, modules>>

PC == {"parse", "resolve", "outdir", "read", "compile", "byc", "pyir", "mlir",
       "merge", "lower", "translate", "ll", "object", "link", "remove", "end"}

Out    == IF opt.out = None THEN AOut ELSE opt.out
Object == Derived(modules[1].file, "o")

\* The pre-existing files: programs, and leftovers with an intermediate's name.
Init ==
  /\ opt \in Option
  /\ \E there \in SUBSET Source, stale \in BOOLEAN :
        files = [p \in Path |-> IF p \in there THEN File("py", <<>>)
                                ELSE IF stale /\ p[1] = "cwd" /\ p[3] = "o" THEN Torn ELSE Absent]
  /\ pc = "parse" /\ upto = {} /\ tmp = None /\ inputs = <<>> /\ modules = <<>>
  /\ status = "running" /\ fault = "none" /\ before = files

\* Programs are not named like an intermediate file or the default output; -o
\* may be absent; an argument matches programs only.
ASSUME DriverAssumption ==
  /\ \A p \in Source : p[3] \notin Stage \cup {"o"} /\ p # AOut
  /\ None \in Output /\ Argument \subseteq Seq(Source) /\ Absent \notin FileContent
  /\ MaxArguments \in Nat

-------------------------------------------------------------------------------
(* Leaving a stage. *)

Goto(s) == pc' = s /\ UNCHANGED <<status, fault>>
\* Mutant: the exit status is not set.
ExitUnset(c) == pc' = "end" /\ UNCHANGED <<status, fault>>
Exit(c) == pc' = "end" /\ status' = c /\ UNCHANGED fault
\* The environment makes the stage fail; main() exits with c.
Fails(c) == pc' = "end" /\ status' = c /\ fault' = "seen"

\* app.parse and its callback.
Parse ==
  /\ pc = "parse"
  /\ upto' = IF opt.save THEN Stage ELSE opt.upto
  /\ tmp'  = IF opt.save THEN None ELSE opt.out
  /\ IF tmp' # None /\ Len(opt.args) > 1 /\ upto' # {} THEN Exit("1") ELSE Goto("resolve")
  /\ UNCHANGED <<cmd, files, inputs, modules>>

\* resolveWildcards and canonical: an argument that matches no file stays as
\* it is, and is reported as missing.
Matches(arg) == FlattenSeq([i \in DOMAIN arg |-> IF files[arg[i]] # Absent THEN <<arg[i]>> ELSE <<>>])

Resolve ==
  /\ pc = "resolve"
  /\ IF \E i \in DOMAIN opt.args : Matches(opt.args[i]) = <<>>
     THEN Exit("1") /\ UNCHANGED inputs
     ELSE Goto("outdir") /\ inputs' = FlattenSeq([i \in DOMAIN opt.args |-> Matches(opt.args[i])])
  /\ UNCHANGED <<cmd, files, upto, tmp, modules>>

CheckOutput ==
  /\ pc = "outdir"
  /\ IF opt.out # None /\ Out[1] \notin Directory THEN Exit("1") ELSE Goto("read")
  /\ UNCHANGED <<cmd, files, state>>

\* readFileString of every input.
Read ==
  /\ pc = "read"
  /\ Goto("compile") \/ Fails("1")
  /\ UNCHANGED <<cmd, files, state>>

\* compilePython: each module takes its name from its own file and its code
\* from fileContents[0].
CompilePython(names) == [i \in DOMAIN names |-> [file |-> names[i], text |-> names[1]]]

Compile ==
  /\ pc = "compile"
  /\ \/ Goto("byc") /\ modules' = CompilePython(inputs)
     \/ Fails("1") /\ UNCHANGED modules
  /\ UNCHANGED <<cmd, files, upto, tmp, inputs>>

-------------------------------------------------------------------------------
(***************************************************************************)
(* The exports.  They write one file per module, in order; opening a file  *)
(* may fail after some were written, and an output that was opened may end *)
(* up short without anyone noticing: writeFileString does not look at the  *)
(* stream again.                                                           *)
(***************************************************************************)
ExportName(m, ext) == IF Len(modules) > 1 \/ tmp = None THEN Derived(m.file, ext) ELSE tmp

Written(n, ext) ==
  [p \in Path |->
     LET to == {i \in 1..n : ExportName(modules[i], ext) = p}
     IN  IF to = {} THEN files[p]
         ELSE File(ext, <<modules[CHOOSE i \in to : \A j \in to : j <= i]>>)]

WriteFile(ext) ==
  \/ files' = Written(Len(modules), ext) /\ UNCHANGED fault
  \/ /\ fault' = "unseen"
     /\ \E i \in DOMAIN modules :
           files' = [Written(Len(modules), ext) EXCEPT ![ExportName(modules[i], ext)] = Torn]

Export(ext, next) ==
  /\ pc = ext
  /\ \/ ext \notin upto /\ Goto(next) /\ UNCHANGED files
     \/ /\ ext \in upto
        /\ WriteFile(ext)
        /\ IF opt.save THEN pc' = next /\ UNCHANGED status
                       ELSE pc' = "end" /\ status' = "0"
     \/ /\ ext \in upto
        /\ \E n \in 0..Len(modules) - 1 : files' = Written(n, ext)
        /\ Fails("abort")
  /\ UNCHANGED <<cmd, state>>

ExportByteCode == Export("byc", "pyir")
ExportMLIR     == Export("mlir", "merge")
ExportLLVM     == Export("ll", "object")

\* generatePyIR of every module: a program may use what PyIR does not have.
GeneratePyIR ==
  /\ pc = "pyir"
  /\ Goto("mlir") \/ Fails("1")
  /\ UNCHANGED <<cmd, files, state>>

\* mergePyIRModules: all operations in one module, named after the first.
Merge ==
  /\ pc = "merge"
  /\ Goto("lower")
  /\ UNCHANGED <<cmd, files, state>>

\* The verifier of MLIR rejects a module with two functions of one name.
\* Mutant: a module is compared with itself.
RedefinitionOfSelf == \E i, j \in DOMAIN modules : Symbols(modules[i]) \cap Symbols(modules[j]) # {}

Redefinition == \E i, j \in DOMAIN modules : i # j /\ Symbols(modules[i]) \cap Symbols(modules[j]) # {}

Lower ==
  /\ pc = "lower"
  /\ IF Redefinition THEN Exit("1") ELSE Goto("translate") \/ Fails("1")
  /\ UNCHANGED <<cmd, files, state>>

\* std::stoi(optimLevel) is evaluated outside the try block.
Translate ==
  /\ pc = "translate"
  /\ IF opt.level # "number" THEN Exit("abort") ELSE Goto("ll") \/ Fails("1")
  /\ UNCHANGED <<cmd, files, state>>

\* exportObjectFile opens (and truncates) the file before it emits code; an
\* error of the stream itself is fatal to LLVM.
ExportObject ==
  /\ pc = "object"
  /\ \/ Goto("link") /\ files' = [files EXCEPT ![Object] = File("o", modules)]
     \/ Fails("1") /\ UNCHANGED files
     \/ Fails("1") /\ files' = [files EXCEPT ![Object] = Torn]
     \/ Fails("abort") /\ files' = [files EXCEPT ![Object] = Torn]
  /\ UNCHANGED <<cmd, state>>

\* linkObjectFile: no compiler in PATH, or it fails.  A linker may refuse an
\* output that is also its input.
Link ==
  /\ pc = "link"
  /\ \/ Goto("remove") /\ files' = [files EXCEPT ![Out] = File("exe", files[Object].mods)]
     \/ Fails("1") /\ UNCHANGED files
  /\ UNCHANGED <<cmd, state>>

\* Mutants: the executable is removed; nothing is; a failure links again.
RemoveOutput ==
  /\ pc = "remove" /\ Exit("0")
  /\ files' = [files EXCEPT ![Out] = Absent]
  /\ UNCHANGED <<cmd, state>>

KeepObject == pc = "remove" /\ Exit("0") /\ UNCHANGED <<cmd, files, state>>

RelinkObject ==
  /\ pc = "remove"
  /\ Exit("0") \/ (pc' = "link" /\ fault' = "seen" /\ UNCHANGED status)
  /\ UNCHANGED <<cmd, files, state>>

RemoveObject ==
  /\ pc = "remove"
  /\ \/ "ll" \in upto /\ Exit("0") /\ UNCHANGED files
     \/ /\ "ll" \notin upto
        /\ \/ Exit("0") /\ files' = [files EXCEPT ![Object] = Absent]
           \/ Fails("1") /\ UNCHANGED files
  /\ UNCHANGED <<cmd, state>>

Next ==
  \/ Parse \/ Resolve \/ CheckOutput \/ Read \/ Compile \/ ExportByteCode
  \/ GeneratePyIR \/ ExportMLIR \/ Merge \/ Lower \/ Translate \/ ExportLLVM
  \/ ExportObject \/ Link \/ RemoveObject

\* One thread; every stage returns or throws.
Spec == Init /\ [][Next]_vars /\ WF_vars(Next)

-------------------------------------------------------------------------------
(* Properties. *)

\* The files hold programs, intermediates or nothing, and main() has an exit
\* status exactly when it has ended.
TypeOK ==
  /\ opt \in Option /\ pc \in PC /\ upto \in SUBSET Stage /\ tmp \in Output
  /\ files \in [Path -> Content] /\ inputs \in Seq(Source) /\ modules \in Seq(Module)
  /\ fault \in {"none", "seen", "unseen"}
  /\ status \in {"running", "0", "1", "abort"} /\ (status = "running" <=> pc # "end")

\* The file the command line asks for from a stage, for input i.
Single   == Len(inputs) = 1
Wanted   == IF opt.save THEN Stage ELSE {}
Goal     == IF opt.save \/ opt.upto = {} THEN "exe"
            ELSE IF "byc" \in opt.upto THEN "byc" ELSE IF "mlir" \in opt.upto THEN "mlir" ELSE "ll"
Product(stage, i) ==
  IF stage = "exe" THEN Out
  ELSE IF Single /\ ~opt.save /\ opt.out # None THEN opt.out ELSE Derived(inputs[i], stage)
Products == {Product(s, i) : s \in Wanted \cup {Goal}, i \in DOMAIN inputs}

\* The output is no input and not the object file; no two inputs have one name.
SaneNames ==
  /\ \A i \in DOMAIN inputs : opt.out # inputs[i] /\ opt.out # Derived(inputs[i], "o")
  /\ \A i, j \in DOMAIN inputs : inputs[i][2] = inputs[j][2] => i = j
  /\ opt.save => opt.out \notin {Derived(p, s) : p \in Source, s \in Stage}

\* After exit status 0 everything asked for is on disk: no stage that was
\* skipped, no output overwritten or removed by a later stage (main.cpp:159-259).
Delivered ==
  status = "0" /\ fault # "unseen" /\ SaneNames =>
    \A s \in Wanted \cup {Goal}, i \in DOMAIN inputs :
      LET f == files[Product(s, i)]
      IN  /\ f # Absent /\ f.kind = s
          /\ \E k \in DOMAIN f.mods : f.mods[k].file = inputs[i]
          /\ Single => f.mods = <<[file |-> inputs[i], text |-> inputs[i]]>>

\* A failure the driver can see is never reported as success, and success
\* leaves no file behind that was not asked for; an old object file of the
\* same name is gone (main.cpp:247).
CleanSuccess ==
  status = "0" =>
    /\ fault # "seen"
    /\ ~opt.save /\ SaneNames =>
         \A p \in Path \ Products : files[p] = before[p] \/ (files[p] = Absent /\ p[3] = "o")

\* A program on the command line survives whatever happens to its compilation,
\* unless -o names it.
SourcesKept == \A p \in Source \ {opt.out} : files[p] = before[p]

\* Without a failure of the environment, one existing program, a directory
\* that exists and a numeric -O are all it takes.
ValidRunSucceeds ==
  pc = "end" /\ fault = "none" /\ Single /\ SaneNames
    /\ opt.level = "number" /\ Out[1] \in Directory /\ Len(opt.args) = 1
    => status = "0"

\* The driver always ends.
Ends == <>(pc = "end")
===============================================================================
