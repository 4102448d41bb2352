----------------------------- MODULE Driver_proofs -----------------------------
(* The driver's files, exit status and outputs. *)
EXTENDS Driver, WellFoundedInduction, SequenceTheorems, TLAPS

-------------------------------------------------------------------------------
(* Numbers, and the sequences of a sequence.                               *)

\* A set of natural numbers has a least element.
LEMMA Least ==
  ASSUME NEW T \in SUBSET Nat, T # {}
  PROVE  \E x \in T : \A y \in T : x <= y
  <1> DEFINE R == OpToRel(<, Nat)
  <1>1. IsWellFoundedOn(R, Nat) BY NatLessThanWellFounded, Zenon
  <1>2. \A x, y \in Nat : <<x, y>> \in R <=> x < y BY DEF OpToRel
  <1> HIDE DEF R
  <1>3. \E x \in T : \A y \in T : ~ (<<y, x>> \in R) BY <1>1, WFMin
  <1>4. PICK x \in T : \A y \in T : ~ (<<y, x>> \in R) BY <1>3
  <1>5. ASSUME NEW y \in T PROVE x <= y
    <2>1. x \in Nat /\ y \in Nat OBVIOUS
    <2>2. ~ (y < x) BY <1>2, <1>4, <2>1
    <2> QED BY <2>1, <2>2
  <1> QED BY <1>5

\* One with an upper bound has a greatest.
LEMMA Greatest ==
  ASSUME NEW T \in SUBSET Nat, T # {}, NEW n \in Nat, \A t \in T : t <= n
  PROVE  \E x \in T : \A y \in T : y <= x
  <1> DEFINE U == {n - t : t \in T}
  <1>1. U \in SUBSET Nat /\ U # {}
    <2>1. \A t \in T : n - t \in Nat OBVIOUS
    <2> QED BY <2>1
  <1> HIDE DEF U
  <1>2. PICK u \in U : \A v \in U : u <= v BY <1>1, Least
  <1>3. PICK x \in T : u = n - x BY DEF U
  <1>4. ASSUME NEW y \in T PROVE y <= x
    <2>1. n - y \in U BY DEF U
    <2>2. u <= n - y BY <1>2, <2>1
    <2> QED BY <1>3, <2>2
  <1> QED BY <1>4

\* A set that has 0 and the successor of each of its numbers has them all.
LEMMA SetInduction ==
  ASSUME NEW S, 0 \in S, \A n \in Nat : n \in S => n + 1 \in S
  PROVE  Nat \subseteq S
  <1> DEFINE T == {n \in Nat : n \notin S}
  <1> SUFFICES ASSUME T # {} PROVE FALSE OBVIOUS
  <1>1. PICK x \in T : \A y \in T : x <= y BY Least
  <1>2. x # 0 /\ x \in Nat BY <1>1
  <1>3. x - 1 \in Nat /\ x - 1 \notin T BY <1>1, <1>2
  <1>4. x - 1 \in S BY <1>3
  <1>5. (x - 1) + 1 \in S BY <1>3, <1>4
  <1> QED BY <1>2, <1>5

\* A function on 0..n is given by its value at 0 and a step.
Steps(n, V) == [1..n -> [V -> V]]
Follows(g, n, V, a, step) ==
  g \in [0..n -> V] /\ g[0] = a /\ \A i \in 1..n : g[i] = step[i][g[i - 1]]

LEMMA Recursion ==
  ASSUME NEW V, NEW n \in Nat, NEW a \in V, NEW step \in Steps(n, V)
  PROVE  \E g : Follows(g, n, V, a, step)
  <1> DEFINE P(m) == \E g \in [0..m -> V] : g[0] = a /\ \A i \in 1..m : g[i] = step[i][g[i - 1]]
             S == {m \in Nat : m <= n => P(m)}
  <1> USE DEF Steps
  <1>1. 0 \in S
    <2>1. [i \in 0..0 |-> a] \in [0..0 -> V] OBVIOUS
    <2>2. 0 \in 0..0 /\ 1..0 = {} OBVIOUS
    <2>3. [i \in 0..0 |-> a][0] = a BY <2>2
    <2>4. P(0) BY <2>1, <2>2, <2>3
    <2> QED BY <2>4
  <1>2. ASSUME NEW m \in Nat, m \in S PROVE m + 1 \in S
    <2> SUFFICES ASSUME m + 1 <= n PROVE P(m + 1) OBVIOUS
    <2>1. PICK g \in [0..m -> V] : g[0] = a /\ \A i \in 1..m : g[i] = step[i][g[i - 1]] BY <1>2
    <2> DEFINE h == [i \in 0..(m + 1) |-> IF i <= m THEN g[i] ELSE step[m + 1][g[m]]]
    <2>2. g[m] \in V /\ m + 1 \in 1..n OBVIOUS
    <2>3. step[m + 1][g[m]] \in V BY <2>2
    <2>4. h \in [0..(m + 1) -> V] BY <2>3
    <2>5. h[0] = a BY <2>1
    <2>6. ASSUME NEW i \in 1..(m + 1) PROVE h[i] = step[i][h[i - 1]]
      <3>1. CASE i <= m BY <3>1, <2>1
      <3>2. CASE i = m + 1 BY <3>2
      <3> QED BY <3>1, <3>2
    <2>7. \A i \in 1..(m + 1) : h[i] = step[i][h[i - 1]] BY <2>6
    <2> HIDE DEF h
    <2> QED BY <2>4, <2>5, <2>7
  <1> HIDE DEF S
  <1>3. Nat \subseteq S BY <1>1, <1>2, SetInduction
  <1>4. P(n) BY <1>3 DEF S
  <1> QED BY <1>4 DEF Follows

\* The sequences of a sequence make one sequence, which is not empty if the
\* last of them is not.
LEMMA FlattenSeqType ==
  ASSUME NEW S, NEW q \in Seq(Seq(S))
  PROVE  /\ FlattenSeq(q) \in Seq(S)
         /\ q # <<>> /\ q[Len(q)] # <<>> => FlattenSeq(q) # <<>>
  <1>1. CASE Len(q) = 0
    <2>1. q = <<>> BY <1>1
    <2>2. FlattenSeq(q) = q BY <1>1 DEF FlattenSeq
    <2>3. <<>> \in Seq(S) OBVIOUS
    <2> QED BY <2>1, <2>2, <2>3
  <1>2. CASE Len(q) # 0
    <2> DEFINE n == Len(q)
               F(f) == [i \in 1..n |-> IF i = 1 THEN q[i] ELSE f[i - 1] \o q[i]]
               G == CHOOSE f : f = F(f)
    <2>1. n \in Nat /\ n >= 1 BY <1>2
    <2>2. ASSUME NEW i \in 1..n PROVE q[i] \in Seq(S) BY ElementOfSeq
    <2>3. FlattenSeq(q) = G[n] BY <1>2 DEF FlattenSeq
    <2> HIDE DEF n
    <2>4. \E f \in [1..n -> Seq(S)] : f = F(f)
      <3> DEFINE step == [i \in 1..n |-> [v \in Seq(S) |-> v \o q[i]]]
      <3>1. step \in [1..n -> [Seq(S) -> Seq(S)]] BY <2>2
      <3>2. <<>> \in Seq(S) OBVIOUS
      <3>3. PICK g : Follows(g, n, Seq(S), <<>>, step)
        <4>1. step \in Steps(n, Seq(S)) BY <3>1 DEF Steps
        <4>2. n \in Nat BY <2>1
        <4> HIDE DEF step
        <4> QED BY <3>2, <4>1, <4>2, Recursion
      <3> USE <3>3 DEF Follows
      <3> DEFINE f == [i \in 1..n |-> g[i]]
      <3>4. f \in [1..n -> Seq(S)] OBVIOUS
      <3>5. ASSUME NEW i \in 1..n PROVE f[i] = F(f)[i]
        <4>1. g[i - 1] \in Seq(S) /\ q[i] \in Seq(S)
          <5>1. i - 1 \in 0..n BY <2>1
          <5> QED BY <5>1, <2>2
        <4>2. g[i] = g[i - 1] \o q[i] BY <3>3, <4>1
        <4>3. CASE i = 1 
          <5>1. g[i - 1] = <<>> BY <3>3, <4>3
          <5>2. <<>> \o q[i] = q[i] BY <4>1
          <5>3. f[i] = g[i] OBVIOUS
          <5>4. F(f)[i] = q[i] BY <4>3
          <5> QED BY <4>2, <5>1, <5>2, <5>3, <5>4
        <4>4. CASE i # 1 
          <5>1. i - 1 \in 1..n BY <4>4, <2>1
          <5>2. f[i - 1] = g[i - 1] BY <5>1
          <5>3. F(f)[i] = f[i - 1] \o q[i] BY <4>4
          <5>4. f[i] = g[i] OBVIOUS
          <5> QED BY <4>2, <5>2, <5>3, <5>4
        <4> QED BY <4>3, <4>4
      <3>6. f = F(f) BY <3>4, <3>5
      <3> HIDE DEF f, F
      <3> QED BY <3>4, <3>6
    <2>5. G = F(G)
      <3> HIDE DEF F
      <3> QED BY <2>4
    <2> HIDE DEF G
    <2> DEFINE T == {m \in Nat : m + 1 <= n => G[m + 1] \in Seq(S)}
    <2>6. 0 \in T
      <3>1. 1 \in 1..n BY <2>1
      <3>2. G[1] = q[1] BY <2>5, <3>1
      <3> QED BY <2>2, <3>1, <3>2
    <2>7. ASSUME NEW m \in Nat, m \in T PROVE m + 1 \in T
      <3> SUFFICES ASSUME m + 2 <= n PROVE G[m + 2] \in Seq(S) OBVIOUS
      <3>1. m + 2 \in 1..n /\ m + 2 # 1 /\ (m + 2) - 1 = m + 1 /\ m + 1 <= n BY <2>1
      <3>2. G[m + 2] = G[m + 1] \o q[m + 2] BY <2>5, <3>1
      <3>3. G[m + 1] \in Seq(S) /\ q[m + 2] \in Seq(S) BY <2>2, <2>7, <3>1
      <3> QED BY <3>2, <3>3
    <2> HIDE DEF T
    <2>8. Nat \subseteq T BY <2>6, <2>7, SetInduction
    <2>9. G[n] \in Seq(S)
      <3>1. n - 1 \in T BY <2>1, <2>8
      <3>2. (n - 1) + 1 <= n /\ (n - 1) + 1 = n BY <2>1
      <3> QED BY <3>1, <3>2 DEF T
    <2>10. ASSUME q[n] # <<>> PROVE G[n] # <<>>
      <3>1. CASE n = 1 BY <3>1, <2>1, <2>5, <2>10
      <3>2. CASE n # 1
        <4>1. n \in 1..n /\ n - 1 \in Nat /\ (n - 1) \in 1..n /\ n - 2 \in Nat BY <2>1, <3>2
        <4>2. G[n] = G[n - 1] \o q[n] BY <2>5, <3>2, <4>1
        <4>3. n - 2 \in T /\ (n - 2) + 1 = n - 1 BY <2>8, <4>1
        <4>4. G[n - 1] \in Seq(S) BY <4>1, <4>3 DEF T
        <4>5. q[n] \in Seq(S) BY <2>2, <4>1
        <4> QED BY <2>10, <4>2, <4>4, <4>5
      <3> QED BY <3>1, <3>2
    <2> QED BY <2>3, <2>9, <2>10 DEF n
  <1> QED BY <1>1, <1>2

-------------------------------------------------------------------------------
(* The files that are not the driver's to write.                           *)

Kept == \A p \in Source \ {opt.out} : files'[p] = files[p]

\* Exports go to the name given with -o or to a derived one.
IInv == tmp \in {None, opt.out} /\ DOMAIN files = Path /\ SourcesKept

LEMMA KeptInv ==
  ASSUME IInv, Kept, DOMAIN files' = Path, tmp' \in {None, opt.out}, UNCHANGED cmd
  PROVE  IInv'
  BY DEF IInv, Kept, SourcesKept, cmd

\* No derived name is the name of a program.
LEMMA DerivedIsNew ==
  ASSUME NEW p, NEW ext \in Stage \cup {"o"}, NEW s \in Source
  PROVE  Derived(p, ext) # s
  <1>1. Derived(p, ext)[3] = ext BY DEF Derived
  <1> QED BY <1>1, DriverAssumption

\* Nor is the name of an exported file, an object file or an executable.
LEMMA ExportIsNew ==
  ASSUME IInv, NEW m, NEW ext \in Stage, NEW s \in Source \ {opt.out}
  PROVE  ExportName(m, ext) # s
  <1>1. Derived(m.file, ext) # s BY DerivedIsNew
  <1> QED BY <1>1 DEF ExportName, IInv

LEMMA ObjectIsNew ==
  ASSUME NEW s \in Source
  PROVE  Object # s
  BY DerivedIsNew DEF Object

LEMMA OutIsNew ==
  ASSUME NEW s \in Source \ {opt.out}
  PROVE  Out # s
  BY DriverAssumption DEF Out

-------------------------------------------------------------------------------
(* The actions.                                                            *)

\* Stages that write nothing and keep the options.
Reads == UNCHANGED <<cmd, files, tmp>>

LEMMA ReadsInv == ASSUME IInv, Reads PROVE IInv'
  BY KeptInv DEF Reads, Kept, IInv

LEMMA ParseInv == ASSUME IInv, Parse PROVE IInv'
  BY KeptInv DEF Parse, Kept, IInv

LEMMA ExportInv == ASSUME IInv, NEW ext \in Stage, NEW next, Export(ext, next) PROVE IInv'
  <1>1. UNCHANGED <<cmd, tmp>> BY DEF Export, state
  <1>2. ASSUME NEW n PROVE /\ DOMAIN Written(n, ext) = Path
                           /\ \A s \in Source \ {opt.out} : Written(n, ext)[s] = files[s]
    <2>1. Source \subseteq Path BY DEF Path
    <2> QED BY <2>1, ExportIsNew DEF Written
  <1>3. CASE files' = files BY <1>1, <1>3, ReadsInv DEF Reads
  <1>4. CASE \E n \in 0..Len(modules) - 1 : files' = Written(n, ext)
    BY <1>1, <1>2, <1>4, KeptInv DEF Kept, IInv
  <1>5. CASE WriteFile(ext)
    <2>1. CASE files' = Written(Len(modules), ext)
      BY <1>1, <1>2, <2>1, KeptInv DEF Kept, IInv
    <2>2. CASE \E i \in DOMAIN modules :
                 files' = [Written(Len(modules), ext) EXCEPT ![ExportName(modules[i], ext)] = Torn]
      <3>1. PICK i \in DOMAIN modules :
                 files' = [Written(Len(modules), ext) EXCEPT ![ExportName(modules[i], ext)] = Torn]
        BY <2>2
      <3>2. DOMAIN files' = Path BY <1>2, <3>1
      <3>3. Kept
        <4>1. ASSUME NEW s \in Source \ {opt.out} PROVE files'[s] = files[s]
          <5>1. ExportName(modules[i], ext) # s BY ExportIsNew
          <5>2. files'[s] = Written(Len(modules), ext)[s] BY <3>1, <5>1, <1>2 DEF Path
          <5> QED BY <5>2, <1>2
        <4> QED BY <4>1 DEF Kept
      <3> QED BY <1>1, <3>2, <3>3, KeptInv DEF IInv
    <2> QED BY <1>5, <2>1, <2>2 DEF WriteFile
  <1> QED BY <1>3, <1>4, <1>5 DEF Export

\* One file other than a program is written or removed.
LEMMA OneFileInv ==
  ASSUME IInv, NEW q, \A s \in Source \ {opt.out} : q # s,
         NEW f, files' = [files EXCEPT ![q] = f], UNCHANGED <<cmd, tmp>>
  PROVE  IInv'
  <1>1. DOMAIN files' = Path BY DEF IInv
  <1>2. ASSUME NEW s \in Source \ {opt.out} PROVE files'[s] = files[s]
    BY DEF IInv, Path
  <1> QED BY <1>1, <1>2, KeptInv DEF Kept, IInv

LEMMA ObjectInv ==
  ASSUME IInv, ExportObject \/ RemoveObject
  PROVE  IInv'
  <1>1. UNCHANGED <<cmd, tmp>> BY DEF ExportObject, RemoveObject, state
  <1>2. files' = files \/ \E f : files' = [files EXCEPT ![Object] = f]
    BY DEF ExportObject, RemoveObject
  <1>3. CASE files' = files BY <1>1, <1>3, ReadsInv DEF Reads
  <1>4. CASE \E f : files' = [files EXCEPT ![Object] = f]
    BY <1>1, <1>4, ObjectIsNew, OneFileInv
  <1> QED BY <1>2, <1>3, <1>4

LEMMA LinkInv == ASSUME IInv, Link PROVE IInv'
  <1>1. UNCHANGED <<cmd, tmp>> BY DEF Link, state
  <1>2. CASE files' = files BY <1>1, <1>2, ReadsInv DEF Reads
  <1>3. CASE files' = [files EXCEPT ![Out] = File("exe", files[Object].mods)]
    BY <1>1, <1>3, OutIsNew, OneFileInv
  <1> QED BY <1>2, <1>3 DEF Link

-------------------------------------------------------------------------------
LEMMA InitInv == Init => IInv
  BY DEF Init, IInv, SourcesKept

LEMMA NextInv == IInv /\ [Next]_vars => IInv'
  <1> SUFFICES ASSUME IInv, [Next]_vars PROVE IInv' OBVIOUS
  <1>1. CASE Parse BY <1>1, ParseInv
  <1>2. CASE Resolve \/ CheckOutput \/ Read \/ Compile \/ GeneratePyIR \/ Merge \/ Lower \/ Translate
    BY <1>2, ReadsInv DEF Resolve, CheckOutput, Read, Compile, GeneratePyIR, Merge, Lower, Translate, state, Reads
  <1>3. CASE ExportByteCode \/ ExportMLIR \/ ExportLLVM
    BY <1>3, ExportInv DEF ExportByteCode, ExportMLIR, ExportLLVM, Stage
  <1>4. CASE ExportObject \/ RemoveObject BY <1>4, ObjectInv
  <1>5. CASE Link BY <1>5, LinkInv
  <1>6. CASE UNCHANGED vars BY <1>6, ReadsInv DEF vars, cmd, Reads
  <1> QED BY <1>1, <1>2, <1>3, <1>4, <1>5, <1>6 DEF Next

\* Whatever the options, the number of programs and wildcards, and the stage that
\* fails or is torn, the driver overwrites no program unless -o names it.
THEOREM SourcesAreKept == Spec => []SourcesKept
  <1>1. IInv => SourcesKept BY DEF IInv
  <1> QED BY <1>1, InitInv, NextInv, PTL DEF Spec
-------------------------------------------------------------------------------
(* What is on disk, stage by stage.                                        *)

\* The values of pc after an export.
PastLLVM     == {"object", "link", "remove"}
PastMLIR     == {"merge", "lower", "translate", "ll"} \cup PastLLVM
PastByteCode == {"pyir", "mlir"} \cup PastMLIR
Past(ext)    == IF ext = "byc" THEN PastByteCode ELSE IF ext = "mlir" THEN PastMLIR ELSE PastLLVM

\* What main() has found out at each stage.
Progress ==
  /\ pc \in {"parse", "resolve"} => inputs = <<>>
  /\ pc # "end" => fault # "seen"
  /\ pc \notin {"parse", "end"} => upto = IF opt.save THEN Stage ELSE opt.upto
  /\ pc \notin {"parse", "end"} => tmp = IF opt.save THEN None ELSE opt.out
  /\ pc \notin {"parse", "resolve", "end"} => inputs # <<>>
  /\ pc \in {"byc"} \cup PastByteCode => modules = CompilePython(inputs)
  /\ \A ext \in Stage : pc \in Past(ext) /\ ~opt.save => ext \notin upto

\* What it has written.
Disk ==
  /\ ~opt.save /\ pc \notin {"link", "remove", "end"} => files = before
  /\ ~opt.save /\ pc \in {"link", "remove"} => \A p \in Path \ {Object, Out} : files[p] = before[p]
  /\ pc = "link" => files[Object] = File("o", modules)
  /\ pc = "remove" => files[Out] = File("exe", modules)
  /\ opt.save /\ fault # "unseen" /\ SaneNames =>
       \A ext \in Stage, i \in DOMAIN modules :
         pc \in Past(ext) => files[Derived(modules[i].file, ext)] = File(ext, <<modules[i]>>)

Outcome == Delivered /\ CleanSuccess /\ ValidRunSucceeds

Sound == TypeOK /\ Progress /\ Disk /\ Outcome

\* The command line, the paths and the program of a module.
LEMMA Options ==
  ASSUME TypeOK
  PROVE  /\ opt.out \in Output /\ opt.save \in BOOLEAN /\ opt.upto \in SUBSET Stage
         /\ opt.args \in Seq(Argument) /\ Len(opt.args) >= 1 /\ opt.args # <<>>
         /\ Out \in Path /\ None \in Output
  <1>1. opt \in Option BY DEF TypeOK
  <1>2. PICK n \in 1..MaxArguments : opt.args \in [1..n -> Argument] BY <1>1 DEF Option
  <1>3. opt.args \in Seq(Argument) /\ Len(opt.args) = n BY <1>2, DriverAssumption
  <1>4. opt.args # <<>> BY <1>3
  <1>5. opt.out \in Output BY <1>1 DEF Option
  <1> QED BY <1>1, <1>3, <1>4, <1>5, DriverAssumption DEF Option, Out, Path

LEMMA DerivedPath ==
  ASSUME NEW m \in Module, NEW ext \in Stage \cup {"o"}
  PROVE  Derived(m.file, ext) \in Path
  <1>1. m.file \in Source BY DEF Module
  <1> QED BY <1>1 DEF Path

LEMMA ModuleAt ==
  ASSUME TypeOK, NEW i \in DOMAIN modules
  PROVE  modules[i] \in Module /\ i \in 1..Len(modules) /\ Len(modules) \in Nat
  BY ElementOfSeq DEF TypeOK

\* Names with different extensions, and of different base names, differ.
LEMMA DerivedApart ==
  ASSUME NEW p, NEW q, NEW x, NEW y
  PROVE  Derived(p, x) = Derived(q, y) <=> p[2] = q[2] /\ x = y
  BY DEF Derived

LEMMA FileIsContent ==
  ASSUME NEW kind \in Stage \cup {"py", "o", "exe", "torn"}, NEW ms \in Seq(Module)
  PROVE  /\ File(kind, ms) \in Content /\ File(kind, ms) # Absent
         /\ File(kind, ms).kind = kind /\ File(kind, ms).mods = ms
  BY DriverAssumption DEF File, FileContent, Content

\* The modules are named after the inputs.
LEMMA Names ==
  ASSUME TypeOK, inputs # <<>>, modules = CompilePython(inputs)
  PROVE  /\ Len(modules) = Len(inputs) /\ Len(modules) >= 1 /\ DOMAIN modules = DOMAIN inputs
         /\ modules # <<>> /\ 1 \in DOMAIN modules
         /\ \A i \in DOMAIN modules : modules[i] = [file |-> inputs[i], text |-> inputs[1]]
  <1>1. inputs \in Seq(Source) BY DEF TypeOK
  <1>2. Len(inputs) \in Nat /\ DOMAIN inputs = 1..Len(inputs) /\ Len(inputs) >= 1 BY <1>1
  <1>3. DOMAIN modules = DOMAIN inputs
        /\ \A i \in DOMAIN modules : modules[i] = [file |-> inputs[i], text |-> inputs[1]]
    BY DEF CompilePython
  <1>4. Len(modules) = Len(inputs)
    <2>1. modules \in Seq(Module) BY DEF TypeOK
    <2>2. DOMAIN modules = 1..Len(modules) /\ Len(modules) \in Nat BY <2>1
    <2> QED BY <1>2, <1>3, <2>2
  <1> QED BY <1>2, <1>3, <1>4

-------------------------------------------------------------------------------
(* Leaving main().                                                         *)

\* A stage that does not end main(), or fails visibly, decides nothing.
LEMMA NoOutcome ==
  ASSUME status' # "0", pc' # "end" \/ fault' # "none" PROVE Outcome'
  BY DEF Outcome, Delivered, CleanSuccess, ValidRunSucceeds

\* Nor does one that rejects the command line.
LEMMA Rejected ==
  ASSUME Sound, pc' = "end", status' \in {"1", "abort"}, UNCHANGED <<files, modules, inputs, fault>>,
         opt' = opt, before' = before, upto' \in SUBSET Stage, tmp' \in Output,
         ~(Single /\ opt.level = "number" /\ Out[1] \in Directory /\ Len(opt.args) = 1)
  PROVE  Sound'
  <1>1. TypeOK' BY DEF Sound, TypeOK, PC
  <1>2. Progress' BY DEF Progress, Past, PastByteCode, PastMLIR, PastLLVM
  <1>3. Disk' BY DEF Disk, Past, PastByteCode, PastMLIR, PastLLVM
  <1>4. Outcome' BY DEF Outcome, Delivered, CleanSuccess, ValidRunSucceeds, Single, Out
  <1> QED BY <1>1, <1>2, <1>3, <1>4 DEF Sound

\* A failure that the driver sees is not success, whatever it left on disk.
LEMMA Failed ==
  ASSUME Sound, NEW c \in {"1", "abort"}, Fails(c), UNCHANGED <<cmd, state>>, files' \in [Path -> Content]
  PROVE  Sound'
  <1> USE DEF Fails, cmd, state
  <1>1. TypeOK' BY DEF Sound, TypeOK, PC
  <1>2. Progress' BY DEF Progress, Past, PastByteCode, PastMLIR, PastLLVM
  <1>3. Disk' BY DEF Disk, Past, PastByteCode, PastMLIR, PastLLVM
  <1>4. Outcome' BY NoOutcome
  <1> QED BY <1>1, <1>2, <1>3, <1>4 DEF Sound

\* A stage that writes nothing and works.
LEMMA Passed ==
  ASSUME Sound, UNCHANGED <<cmd, files, state>>, NEW s, Goto(s),
         <<pc, s>> \in {<<"outdir", "read">>, <<"read", "compile">>, <<"pyir", "mlir">>, <<"merge", "lower">>,
                        <<"lower", "translate">>, <<"translate", "ll">>}
  PROVE  Sound'
  <1> USE DEF Goto, cmd, state
  <1>0. pc' \in PC /\ pc' # "end" /\ pc # "end" BY DEF PC
  <1>1. TypeOK' BY <1>0 DEF Sound, TypeOK
  <1>2. Progress' BY <1>0 DEF Sound, Progress, Past, PastByteCode, PastMLIR, PastLLVM
  <1>3. Disk' BY <1>0 DEF Sound, Disk, Past, PastByteCode, PastMLIR, PastLLVM, SaneNames, Object, Out
  <1>4. status' # "0" BY <1>0, <1>1 DEF TypeOK
  <1>5. Outcome' BY <1>0, <1>4, NoOutcome
  <1> QED BY <1>1, <1>2, <1>3, <1>5 DEF Sound

-------------------------------------------------------------------------------
(* The stages up to the first export.                                      *)

LEMMA ParseSound == ASSUME Sound, Parse PROVE Sound'
  <1> USE DEF Parse, cmd
  <1>1. upto' \in SUBSET Stage /\ tmp' \in Output /\ opt' = opt /\ before' = before
    BY Options DEF Sound
  <1>2. CASE Exit("1") /\ Len(opt.args) > 1
    <2>1. Len(opt.args) \in Nat BY Options DEF Sound
    <2>2. Len(opt.args) # 1
      <3> DEFINE n == Len(opt.args)
      <3>1. n \in Nat /\ n > 1 BY <1>2, <2>1
      <3> HIDE DEF n
      <3>2. n # 1 BY <3>1
      <3> QED BY <3>2 DEF n
    <2> QED BY <1>1, <1>2, <2>2, Rejected DEF Exit
  <1>3. CASE Goto("resolve")
    <2> USE <1>3 DEF Goto
    <2>1. TypeOK' BY <1>1 DEF Sound, TypeOK, PC
    <2>2. Progress' BY DEF Sound, Progress, Past, PastByteCode, PastMLIR, PastLLVM
    <2>3. Disk' BY DEF Sound, Disk, Past, PastByteCode, PastMLIR, PastLLVM
    <2>4. status' # "0" BY <2>1 DEF TypeOK
    <2>5. Outcome' BY <2>4, NoOutcome
    <2> QED BY <2>1, <2>2, <2>3, <2>5 DEF Sound
  <1> QED BY <1>2, <1>3

LEMMA MatchesType == ASSUME NEW arg \in Seq(Source) PROVE Matches(arg) \in Seq(Source)
  <1> DEFINE q == [i \in DOMAIN arg |-> IF files[arg[i]] # Absent THEN <<arg[i]>> ELSE <<>>]
  <1>1. ASSUME NEW i \in 1..Len(arg) PROVE q[i] \in Seq(Source)
    <2>1. arg[i] \in Source BY ElementOfSeq
    <2> QED BY <2>1
  <1>2. q \in [1..Len(arg) -> Seq(Source)] BY <1>1
  <1>3. q \in Seq(Seq(Source)) BY <1>2
  <1> HIDE DEF q
  <1>4. FlattenSeq(q) \in Seq(Source) BY <1>3, FlattenSeqType
  <1> QED BY <1>4 DEF Matches, q

LEMMA ResolveSound == ASSUME Sound, Resolve PROVE Sound'
  <1> USE DEF Resolve, cmd
  <1> DEFINE q == [i \in DOMAIN opt.args |-> Matches(opt.args[i])]
  <1>0. TypeOK /\ inputs = <<>> BY DEF Sound, Progress
  <1>1. CASE Exit("1") /\ UNCHANGED inputs
    BY <1>0, <1>1, Rejected, Options DEF Exit, Sound, TypeOK, Single
  <1>2. CASE /\ ~ \E i \in DOMAIN opt.args : Matches(opt.args[i]) = <<>>
             /\ Goto("outdir") /\ inputs' = FlattenSeq(q)
    <2> USE <1>2 DEF Goto
    <2>1. opt.args \in Seq(Argument) /\ Len(opt.args) \in Nat /\ Len(opt.args) >= 1 BY <1>0, Options
    <2>2. ASSUME NEW i \in 1..Len(opt.args) PROVE q[i] \in Seq(Source) /\ q[i] # <<>>
      <3>1. opt.args[i] \in Argument BY <2>1, ElementOfSeq
      <3>2. opt.args[i] \in Seq(Source) BY <3>1, DriverAssumption
      <3> QED BY <2>1, <3>2, MatchesType
    <2>3. q \in [1..Len(opt.args) -> Seq(Source)]
      <3>1. DOMAIN opt.args = 1..Len(opt.args) BY <2>1
      <3>2. q = [i \in 1..Len(opt.args) |-> q[i]] BY <3>1
      <3> HIDE DEF q
      <3> QED BY <2>2, <3>2
    <2>4. q \in Seq(Seq(Source)) /\ Len(q) = Len(opt.args)
      <3> HIDE DEF q
      <3> QED BY <2>1, <2>3
    <2>5. q # <<>> /\ q[Len(q)] # <<>>
      <3> HIDE DEF q
      <3> QED BY <2>1, <2>2, <2>4
    <2>6. inputs' \in Seq(Source) /\ inputs' # <<>>
      <3> HIDE DEF q
      <3> QED BY <2>4, <2>5, FlattenSeqType
    <2>7. TypeOK' BY <1>0, <2>6 DEF TypeOK, PC
    <2>8. Progress' BY <2>6 DEF Sound, Progress, Past, PastByteCode, PastMLIR, PastLLVM
    <2>9. Disk' BY DEF Sound, Disk, Past, PastByteCode, PastMLIR, PastLLVM
    <2>10. status' # "0" BY <2>7 DEF TypeOK
    <2>11. Outcome' BY <2>10, NoOutcome
    <2> QED BY <2>7, <2>8, <2>9, <2>11 DEF Sound
  <1> QED BY <1>1, <1>2

LEMMA SameContent == ASSUME Sound, UNCHANGED files PROVE files' \in [Path -> Content]
  BY DEF Sound, TypeOK

LEMMA CheckOutputSound == ASSUME Sound, CheckOutput PROVE Sound'
  <1>1. CASE Exit("1") /\ Out[1] \notin Directory
    BY <1>1, Rejected DEF CheckOutput, Exit, Sound, TypeOK, cmd, state
  <1>2. CASE Goto("read") BY <1>2, Passed DEF CheckOutput
  <1> QED BY <1>1, <1>2 DEF CheckOutput

LEMMA ReadSound == ASSUME Sound, Read PROVE Sound'
  BY Passed, Failed, SameContent DEF Read

LEMMA GeneratePyIRSound == ASSUME Sound, GeneratePyIR PROVE Sound'
  BY Passed, Failed, SameContent DEF GeneratePyIR

LEMMA MergeSound == ASSUME Sound, Merge PROVE Sound'
  BY Passed DEF Merge

LEMMA LowerSound == ASSUME Sound, Lower PROVE Sound'
  <1>1. CASE Exit("1") /\ Redefinition
    <2>1. TypeOK /\ inputs # <<>> /\ modules = CompilePython(inputs)
      BY DEF Lower, Sound, Progress, PastByteCode, PastMLIR
    <2>2. ~Single
      <3>1. PICK i, j \in DOMAIN modules : i # j BY <1>1 DEF Redefinition
      <3>2. i \in 1..Len(modules) /\ j \in 1..Len(modules) /\ Len(modules) \in Nat BY <2>1, ModuleAt
      <3> QED BY <2>1, <3>1, <3>2, Names DEF Single
    <2> QED BY <1>1, <2>1, <2>2, Rejected DEF Lower, Exit, cmd, state, TypeOK
  <1>2. CASE Goto("translate") BY <1>2, Passed DEF Lower
  <1>3. CASE Fails("1") BY <1>3, Failed, SameContent DEF Lower
  <1> QED BY <1>1, <1>2, <1>3 DEF Lower

LEMMA TranslateSound == ASSUME Sound, Translate PROVE Sound'
  <1>1. CASE Exit("abort") /\ opt.level # "number"
    BY <1>1, Rejected DEF Translate, Exit, Sound, TypeOK, cmd, state
  <1>2. CASE Goto("ll") BY <1>2, Passed DEF Translate
  <1>3. CASE Fails("1") BY <1>3, Failed, SameContent DEF Translate
  <1> QED BY <1>1, <1>2, <1>3 DEF Translate

LEMMA CompileSound == ASSUME Sound, Compile PROVE Sound'
  <1>1. CASE Goto("byc") /\ modules' = CompilePython(inputs)
    <2> USE <1>1 DEF Compile, Goto, cmd
    <2>1. inputs \in Seq(Source) /\ inputs # <<>> BY DEF Sound, TypeOK, Progress
    <2>2. modules' \in Seq(Module)
      <3>1. Len(inputs) \in Nat /\ Len(inputs) >= 1 /\ DOMAIN inputs = 1..Len(inputs) BY <2>1
      <3>2. \A i \in 1..Len(inputs) : inputs[i] \in Source BY <2>1, ElementOfSeq
      <3>3. modules' \in [1..Len(inputs) -> Module] BY <3>1, <3>2 DEF CompilePython, Module
      <3> QED BY <3>1, <3>3
    <2>3. TypeOK' BY <2>2 DEF Sound, TypeOK, PC
    <2>4. Progress' BY DEF Sound, Progress, Past, PastByteCode, PastMLIR, PastLLVM, CompilePython
    <2>5. Disk' BY DEF Sound, Disk, Past, PastByteCode, PastMLIR, PastLLVM
    <2>6. status' # "0" BY <2>3 DEF TypeOK
    <2>7. Outcome' BY <2>6, NoOutcome
    <2> QED BY <2>3, <2>4, <2>5, <2>7 DEF Sound
  <1>2. CASE Fails("1") /\ UNCHANGED modules
    BY <1>2, Failed, SameContent DEF Compile, state
  <1> QED BY <1>1, <1>2 DEF Compile

-------------------------------------------------------------------------------
(* The exports.                                                            *)

LEMMA ExportPath ==
  ASSUME TypeOK, NEW i \in DOMAIN modules, NEW ext \in Stage
  PROVE  ExportName(modules[i], ext) \in Path
  <1>1. modules[i] \in Module BY ModuleAt
  <1>2. Derived(modules[i].file, ext) \in Path BY <1>1, DerivedPath
  <1>3. tmp # None => tmp \in Path BY DEF TypeOK, Path
  <1> QED BY <1>2, <1>3 DEF ExportName

\* A path has the module that was last written to it, or what it had.
LEMMA WrittenAt ==
  ASSUME TypeOK, NEW ext \in Stage, NEW n \in 0..Len(modules), NEW p \in Path
  PROVE  \/ /\ Written(n, ext)[p] = files[p]
            /\ \A i \in 1..n : ExportName(modules[i], ext) # p
         \/ \E i \in 1..n : /\ ExportName(modules[i], ext) = p
                            /\ Written(n, ext)[p] = File(ext, <<modules[i]>>)
  <1> DEFINE to == {i \in 1..n : ExportName(modules[i], ext) = p}
             last == CHOOSE i \in to : \A j \in to : j <= i
  <1>1. Written(n, ext)[p] = IF to = {} THEN files[p] ELSE File(ext, <<modules[last]>>)
    BY DEF Written
  <1>2. CASE to = {} BY <1>1, <1>2
  <1>3. CASE to # {}
    <2>1. n \in Nat /\ to \in SUBSET Nat /\ \A t \in to : t <= n BY DEF TypeOK
    <2>2. last \in to
      <3> HIDE DEF to
      <3>1. \E i \in to : \A j \in to : j <= i BY <1>3, <2>1, Greatest
      <3> QED BY <3>1
    <2>3. last \in 1..n /\ ExportName(modules[last], ext) = p BY <2>2
    <2> HIDE DEF last
    <2> QED BY <1>1, <1>3, <2>3
  <1> QED BY <1>2, <1>3

LEMMA WrittenType ==
  ASSUME TypeOK, NEW ext \in Stage, NEW n \in 0..Len(modules)
  PROVE  Written(n, ext) \in [Path -> Content]
  <1>1. ASSUME NEW p \in Path PROVE Written(n, ext)[p] \in Content
    <2>1. CASE Written(n, ext)[p] = files[p] BY <2>1 DEF TypeOK
    <2>2. CASE \E i \in 1..n : Written(n, ext)[p] = File(ext, <<modules[i]>>)
      <3>1. PICK i \in 1..n : Written(n, ext)[p] = File(ext, <<modules[i]>>) BY <2>2
      <3>2. i \in DOMAIN modules BY DEF TypeOK
      <3>3. <<modules[i]>> \in Seq(Module) BY <3>2, ModuleAt
      <3> QED BY <3>1, <3>3, FileIsContent
    <2> QED BY <2>1, <2>2, WrittenAt
  <1> QED BY <1>1 DEF Written

\* Under sane names two modules are not written to one file.
LEMMA ExportsApart ==
  ASSUME TypeOK, SaneNames, inputs # <<>>, modules = CompilePython(inputs),
         NEW ext \in Stage, NEW i \in DOMAIN modules, NEW j \in DOMAIN modules,
         ExportName(modules[i], ext) = ExportName(modules[j], ext)
  PROVE  i = j
  <1>1. i \in 1..Len(modules) /\ j \in 1..Len(modules) /\ Len(modules) \in Nat BY ModuleAt
  <1>2. CASE ~(Len(modules) > 1) BY <1>1, <1>2
  <1>3. CASE Len(modules) > 1
    <2>1. modules[i].file[2] = modules[j].file[2] BY <1>3, DerivedApart DEF ExportName
    <2>2. inputs[i][2] = inputs[j][2] BY <2>1, Names
    <2>3. i \in DOMAIN inputs /\ j \in DOMAIN inputs BY Names
    <2> QED BY <2>2, <2>3 DEF SaneNames
  <1> QED BY <1>2, <1>3

\* After a whole export each module's file holds that module.
LEMMA WholeExport ==
  ASSUME TypeOK, SaneNames, inputs # <<>>, modules = CompilePython(inputs),
         NEW ext \in Stage, NEW i \in DOMAIN modules
  PROVE  Written(Len(modules), ext)[ExportName(modules[i], ext)] = File(ext, <<modules[i]>>)
  <1> DEFINE p == ExportName(modules[i], ext)
  <1>1. i \in 1..Len(modules) /\ Len(modules) \in 0..Len(modules) BY ModuleAt
  <1>2. p \in Path BY ExportPath
  <1>3. \E j \in 1..Len(modules) : /\ ExportName(modules[j], ext) = p
                                   /\ Written(Len(modules), ext)[p] = File(ext, <<modules[j]>>)
    BY <1>1, <1>2, WrittenAt
  <1>4. PICK j \in 1..Len(modules) : /\ ExportName(modules[j], ext) = p
                                     /\ Written(Len(modules), ext)[p] = File(ext, <<modules[j]>>)
    BY <1>3
  <1>5. j \in DOMAIN modules BY DEF TypeOK
  <1>6. j = i BY <1>4, <1>5, ExportsApart
  <1> QED BY <1>4, <1>6

\* An export with its last disjunct, a failure, set aside.
Exported(ext, next) ==
  /\ pc = ext /\ ext \in upto /\ UNCHANGED <<cmd, state>>
  /\ WriteFile(ext)
  /\ IF opt.save THEN pc' = next /\ UNCHANGED status ELSE pc' = "end" /\ status' = "0"

Follower == [byc |-> "pyir", mlir |-> "merge", ll |-> "object"]

LEMMA ExportFiles ==
  ASSUME TypeOK, NEW ext \in Stage, WriteFile(ext)
  PROVE  /\ files' \in [Path -> Content]
         /\ fault' \in {fault, "unseen"}
         /\ fault' # "unseen" => files' = Written(Len(modules), ext)
         /\ \A p \in Path : (\A i \in DOMAIN modules : ExportName(modules[i], ext) # p) => files'[p] = files[p]
  <1> DEFINE W == Written(Len(modules), ext)
  <1>1. Len(modules) \in 0..Len(modules) /\ DOMAIN modules = 1..Len(modules) BY DEF TypeOK
  <1>2. W \in [Path -> Content] BY <1>1, WrittenType
  <1>3. ASSUME NEW p \in Path, \A i \in DOMAIN modules : ExportName(modules[i], ext) # p
        PROVE  W[p] = files[p]
    <2> DEFINE n == Len(modules)
    <2>1. n \in 0..n /\ \A i \in 1..n : ExportName(modules[i], ext) # p BY <1>1, <1>3
    <2> HIDE DEF n
    <2>2. Written(n, ext)[p] = files[p] BY <2>1, WrittenAt DEF n
    <2> QED BY <2>2 DEF n
  <1>4. Torn \in Content
    <2>1. <<>> \in Seq(Module) OBVIOUS
    <2> QED BY <2>1, FileIsContent DEF Torn
  <1> HIDE DEF W
  <1>5. CASE files' = W /\ UNCHANGED fault BY <1>2, <1>3, <1>5 DEF W
  <1>6. CASE fault' = "unseen" /\ \E i \in DOMAIN modules : files' = [W EXCEPT ![ExportName(modules[i], ext)] = Torn]
    <2>1. PICK i \in DOMAIN modules : files' = [W EXCEPT ![ExportName(modules[i], ext)] = Torn] BY <1>6
    <2>2. files' \in [Path -> Content] BY <1>2, <1>4, <2>1
    <2>3. ASSUME NEW p \in Path, \A j \in DOMAIN modules : ExportName(modules[j], ext) # p
          PROVE  files'[p] = files[p]
      <3>1. W[p] = files[p] BY <1>3, <2>3
      <3>2. ExportName(modules[i], ext) # p BY <2>3
      <3> QED BY <1>2, <2>1, <3>1, <3>2
    <2> QED BY <1>6, <2>2, <2>3
  <1> QED BY <1>5, <1>6 DEF WriteFile, W

\* With --save-temps the export is a step like any other.
LEMMA SavedSound ==
  ASSUME Sound, NEW ext \in Stage, Exported(ext, Follower[ext]), opt.save
  PROVE  Sound'
  <1> USE DEF Exported, cmd, state
  <1>1. TypeOK /\ inputs # <<>> /\ modules = CompilePython(inputs) /\ tmp = None
    BY DEF Sound, Progress, PastByteCode, PastMLIR, PastLLVM, Stage
  <1>2. /\ pc' = Follower[ext] /\ pc' \in {"pyir", "merge", "object"} /\ pc' \in PC /\ pc' # "end" /\ status' = status
    BY DEF Follower, Stage, PC
  <1>3. TypeOK' BY <1>1, <1>2, ExportFiles DEF Stage, TypeOK
  <1>4. Progress'
    <2>1. fault # "seen" /\ fault' # "seen" BY <1>1, ExportFiles DEF Sound, Progress, Stage
    <2> QED BY <1>1, <1>2, <2>1 DEF Sound, Progress, PastByteCode, PastMLIR, PastLLVM, Stage
  <1>5. Disk'
    <2> SUFFICES ASSUME fault' # "unseen", SaneNames', NEW x \in Stage, NEW i \in DOMAIN modules, pc' \in Past(x)
                 PROVE  files'[Derived(modules[i].file, x)] = File(x, <<modules[i]>>)
      BY <1>2 DEF Disk, Past
    <2>1. SaneNames /\ fault # "unseen" /\ files' = Written(Len(modules), ext)
      BY <1>1, ExportFiles DEF SaneNames
    <2>2. \A j \in DOMAIN modules : ExportName(modules[j], ext) = Derived(modules[j].file, ext)
      BY <1>1 DEF ExportName
    <2>3. CASE x = ext BY <1>1, <2>1, <2>2, <2>3, WholeExport
    <2>4. CASE x # ext
      <3>1. pc \in Past(x)
        BY <1>2, <2>4 DEF Past, PastByteCode, PastMLIR, PastLLVM, Stage, Follower
      <3>2. files[Derived(modules[i].file, x)] = File(x, <<modules[i]>>)
        BY <2>1, <3>1 DEF Sound, Disk
      <3>3. Derived(modules[i].file, x) \in Path BY <1>1, ModuleAt, DerivedPath
      <3>4. \A j \in DOMAIN modules : ExportName(modules[j], ext) # Derived(modules[i].file, x)
        BY <2>2, <2>4, DerivedApart
      <3> QED BY <1>1, <3>2, <3>3, <3>4, ExportFiles
    <2> QED BY <2>3, <2>4
  <1>6. status' # "0" BY <1>2, <1>3 DEF TypeOK
  <1>7. Outcome' BY <1>2, <1>6, NoOutcome
  <1> QED BY <1>3, <1>4, <1>5, <1>7 DEF Sound

\* Without, it is what was asked for.
LEMMA AskedForSound ==
  ASSUME Sound, NEW ext \in Stage, NEW next, Exported(ext, next), ~opt.save
  PROVE  Sound'
  <1> USE DEF Exported, cmd, state
  <1>1. TypeOK /\ inputs # <<>> /\ modules = CompilePython(inputs) /\ tmp = opt.out /\ upto = opt.upto
    BY DEF Sound, Progress, PastByteCode, PastMLIR, PastLLVM, Stage
  <1>2. pc' = "end" /\ status' = "0" OBVIOUS
  <1>3. TypeOK' BY <1>1, <1>2, ExportFiles DEF TypeOK, PC
  <1>4. Progress' BY <1>2 DEF Progress, Past, PastByteCode, PastMLIR, PastLLVM
  <1>5. Disk' BY <1>2 DEF Disk, Past, PastByteCode, PastMLIR, PastLLVM
  <1>6. Goal = ext
    <2>1. \A x \in Stage : pc \in Past(x) => x \notin upto BY DEF Sound, Progress
    <2> QED BY <1>1, <2>1 DEF Goal, Past, PastByteCode, PastMLIR, PastLLVM, Stage
  <1>7. Wanted = {} BY DEF Wanted
  <1>8. ASSUME NEW i \in DOMAIN inputs PROVE ExportName(modules[i], ext) = Product(ext, i) /\ i \in DOMAIN modules
    <2>1. modules[i].file = inputs[i] /\ Len(modules) = Len(inputs) /\ Len(inputs) >= 1 /\ i \in DOMAIN modules
      BY <1>1, Names
    <2>2. Single <=> ~(Len(modules) > 1) BY <1>1, <2>1 DEF Single, TypeOK
    <2>3. ext # "exe" BY DEF Stage
    <2> QED BY <1>1, <2>1, <2>2, <2>3 DEF ExportName, Product
  <1>9. Delivered'
    <2> SUFFICES ASSUME fault' # "unseen", SaneNames', NEW i \in DOMAIN inputs
                 PROVE  LET f == files'[Product(ext, i)]
                        IN  /\ f # Absent /\ f.kind = ext
                            /\ \E k \in DOMAIN f.mods : f.mods[k].file = inputs[i]
                            /\ Single => f.mods = <<[file |-> inputs[i], text |-> inputs[i]]>>
      BY <1>6, <1>7 DEF Delivered, Wanted, Goal, Product, Single, Out
    <2>1. SaneNames /\ files' = Written(Len(modules), ext) BY <1>1, ExportFiles DEF SaneNames
    <2>2. files'[Product(ext, i)] = File(ext, <<modules[i]>>) BY <1>1, <1>8, <2>1, WholeExport
    <2>3. <<modules[i]>> \in Seq(Module) BY <1>1, <1>8, ModuleAt
    <2>4. modules[i] = [file |-> inputs[i], text |-> inputs[1]] BY <1>1, <1>8, Names
    <2>5. Single => i = 1 BY <1>1 DEF Single, TypeOK
    <2> DEFINE f == files'[Product(ext, i)]
    <2>6. f # Absent /\ f.kind = ext /\ f.mods = <<modules[i]>>
      <3>1. ext \in Stage \cup {"py", "o", "exe", "torn"} OBVIOUS
      <3> DEFINE ms == <<modules[i]>>
      <3>2. ms \in Seq(Module) BY <2>3
      <3> HIDE DEF ms
      <3>3. /\ File(ext, ms) # Absent /\ File(ext, ms).kind = ext /\ File(ext, ms).mods = ms
        BY <3>1, <3>2, FileIsContent
      <3>4. f = File(ext, ms) BY <2>2 DEF ms
      <3> QED BY <3>3, <3>4 DEF ms
    <2> HIDE DEF f
    <2>7. 1 \in DOMAIN f.mods /\ f.mods[1].file = inputs[i] BY <2>4, <2>6
    <2>8. Single => f.mods = <<[file |-> inputs[i], text |-> inputs[i]]>> BY <2>4, <2>5, <2>6
    <2> QED BY <2>6, <2>7, <2>8 DEF f
  <1>10. CleanSuccess'
    <2>1. fault' # "seen" BY <1>1, ExportFiles DEF Sound, Progress, Stage
    <2> SUFFICES ASSUME NEW p \in Path \ Products PROVE files'[p] = before[p]
      BY <2>1 DEF CleanSuccess, Products, Product, Wanted, Goal, Single, Out
    <2>2. files = before BY DEF Sound, Disk, Stage
    <2>3. ASSUME NEW i \in DOMAIN modules PROVE ExportName(modules[i], ext) # p
      <3>1. i \in DOMAIN inputs BY <1>1, Names
      <3>2. Product(ext, i) \in Products BY <1>6, <3>1 DEF Products
      <3> QED BY <1>8, <3>1, <3>2
    <2> QED BY <1>1, <2>2, <2>3, ExportFiles
  <1>11. ValidRunSucceeds' BY <1>2 DEF ValidRunSucceeds
  <1> QED BY <1>3, <1>4, <1>5, <1>9, <1>10, <1>11 DEF Sound, Outcome

LEMMA ExportSound ==
  ASSUME Sound, NEW ext \in Stage, Export(ext, Follower[ext])
  PROVE  Sound'
  <1>1. CASE ext \notin upto /\ Goto(Follower[ext]) /\ UNCHANGED files
    <2> USE <1>1 DEF Export, Goto, cmd, state
    <2>1. pc' = Follower[ext] /\ pc' \in {"pyir", "merge", "object"} /\ pc' \in PC /\ pc' # "end" /\ pc # "end"
      BY DEF Follower, Stage, PC
    <2>2. ~opt.save BY DEF Sound, Progress, Stage
    <2>3. TypeOK' BY <2>1 DEF Sound, TypeOK
    <2>4. Progress'
      BY <2>1 DEF Sound, Progress, Past, PastByteCode, PastMLIR, PastLLVM, Follower, Stage
    <2>5. Disk' BY <2>1, <2>2 DEF Sound, Disk, Stage
    <2>6. status' # "0" BY <2>1, <2>3 DEF TypeOK
    <2>7. Outcome' BY <2>1, <2>6, NoOutcome
    <2> QED BY <2>3, <2>4, <2>5, <2>7 DEF Sound
  <1>2. CASE Exported(ext, Follower[ext])
    BY <1>2, SavedSound, AskedForSound, Options DEF Sound
  <1>3. CASE (\E n \in 0..Len(modules) - 1 : files' = Written(n, ext)) /\ Fails("abort")
    <2>1. PICK n \in 0..Len(modules) - 1 : files' = Written(n, ext) BY <1>3
    <2>2. n \in 0..Len(modules) BY DEF Sound, TypeOK
    <2>3. files' \in [Path -> Content] BY <2>1, <2>2, WrittenType DEF Sound
    <2> QED BY <1>3, <2>3, Failed DEF Export
  <1> QED BY <1>1, <1>2, <1>3 DEF Export, Exported

-------------------------------------------------------------------------------
(* The object file and the executable.                                     *)

\* What a stage after the last export knows.
LEMMA Late ==
  ASSUME Sound, pc \in PastLLVM
  PROVE  /\ TypeOK /\ inputs # <<>> /\ modules = CompilePython(inputs) /\ modules \in Seq(Module)
         /\ upto = IF opt.save THEN Stage ELSE opt.upto
         /\ ~opt.save => upto = {}
         /\ Object \in Path /\ Out \in Path /\ Object = Derived(inputs[1], "o")
         /\ modules[1] \in Module /\ fault # "seen"
         /\ 1 \in DOMAIN inputs
  <1>1. TypeOK /\ inputs # <<>> /\ modules = CompilePython(inputs)
        /\ upto = (IF opt.save THEN Stage ELSE opt.upto) /\ fault # "seen"
    BY DEF Sound, Progress, PastByteCode, PastMLIR, PastLLVM
  <1>2. ~opt.save => upto = {}
    <2>1. \A x \in Stage : pc \in Past(x) => x \notin upto \/ opt.save BY DEF Sound, Progress
    <2>2. upto \in SUBSET Stage BY <1>1 DEF TypeOK
    <2> QED BY <2>1, <2>2 DEF Past, PastByteCode, PastMLIR
  <1>3. 1 \in DOMAIN modules /\ modules[1].file = inputs[1] /\ DOMAIN modules = DOMAIN inputs BY <1>1, Names
  <1>4. modules[1] \in Module BY <1>1, <1>3, ModuleAt
  <1>5. Object \in Path BY <1>4, DerivedPath DEF Object
  <1> QED BY <1>1, <1>2, <1>3, <1>4, <1>5, Options DEF Object, TypeOK

LEMMA ExportObjectSound == ASSUME Sound, ExportObject PROVE Sound'
  <1> USE DEF ExportObject, cmd, state
  <1>0. pc \in PastLLVM BY DEF PastLLVM
  <1>1. /\ TypeOK /\ modules \in Seq(Module) /\ Object \in Path /\ files \in [Path -> Content]
    BY <1>0, Late DEF TypeOK
  <1>2. File("o", modules) \in Content BY <1>1, FileIsContent
  <1>3. Torn \in Content
    <2>1. <<>> \in Seq(Module) OBVIOUS
    <2> QED BY <2>1, FileIsContent DEF Torn
  <1>4. CASE Goto("link") /\ files' = [files EXCEPT ![Object] = File("o", modules)]
    <2> USE <1>4 DEF Goto
    <2>1. files' \in [Path -> Content] BY <1>1, <1>2
    <2>2. TypeOK' BY <2>1 DEF Sound, TypeOK, PC
    <2>3. Progress' BY DEF Sound, Progress, Past, PastByteCode, PastMLIR, PastLLVM
    <2>4. Object' = Object /\ Out' = Out /\ (SaneNames' <=> SaneNames) BY DEF Object, Out, SaneNames
    <2>5. Disk'
      <3>1. ~opt.save => \A p \in Path \ {Object, Out} : files'[p] = before[p]
        BY <1>1 DEF Sound, Disk
      <3>2. files'[Object] = File("o", modules) BY <1>1
      <3>3. ASSUME opt.save, fault # "unseen", SaneNames, NEW x \in Stage, NEW i \in DOMAIN modules
            PROVE  files'[Derived(modules[i].file, x)] = File(x, <<modules[i]>>)
        <4>1. pc \in Past(x) BY DEF Past, PastByteCode, PastMLIR, PastLLVM
        <4>2. files[Derived(modules[i].file, x)] = File(x, <<modules[i]>>) BY <3>3, <4>1 DEF Sound, Disk
        <4>3. Derived(modules[i].file, x) # Object BY DerivedApart DEF Object, Stage
        <4>4. Derived(modules[i].file, x) \in Path BY <1>1, ModuleAt, DerivedPath
        <4> QED BY <1>1, <4>2, <4>3, <4>4
      <3> QED BY <2>4, <3>1, <3>2, <3>3 DEF Disk
    <2>6. status' # "0" BY <2>2 DEF TypeOK
    <2>7. Outcome' BY <2>6, NoOutcome
    <2> QED BY <2>2, <2>3, <2>5, <2>7 DEF Sound
  <1>5. CASE Fails("1") \/ Fails("abort")
    <2>1. files' \in [Path -> Content] BY <1>1, <1>3, <1>5 DEF Fails, Goto
    <2> QED BY <1>5, <2>1, Failed
  <1> QED BY <1>4, <1>5

LEMMA LinkSound == ASSUME Sound, Link PROVE Sound'
  <1> USE DEF Link, cmd, state
  <1>0. pc \in PastLLVM BY DEF PastLLVM
  <1>1. /\ TypeOK /\ modules \in Seq(Module) /\ Out \in Path /\ files \in [Path -> Content]
    BY <1>0, Late DEF TypeOK
  <1>2. File("exe", files[Object].mods) = File("exe", modules)
    <2>1. files[Object] = File("o", modules) BY DEF Sound, Disk
    <2> QED BY <2>1 DEF File
  <1>3. File("exe", modules) \in Content BY <1>1, FileIsContent
  <1>4. CASE Goto("remove") /\ files' = [files EXCEPT ![Out] = File("exe", files[Object].mods)]
    <2> USE <1>4 DEF Goto
    <2>1. files' = [files EXCEPT ![Out] = File("exe", modules)] BY <1>2
    <2>2. files' \in [Path -> Content] BY <1>1, <1>3, <2>1
    <2>3. TypeOK' BY <2>2 DEF Sound, TypeOK, PC
    <2>4. Progress' BY DEF Sound, Progress, Past, PastByteCode, PastMLIR, PastLLVM
    <2>5. Object' = Object /\ Out' = Out /\ (SaneNames' <=> SaneNames) BY DEF Object, Out, SaneNames
    <2>6. Disk'
      <3>1. ~opt.save => \A p \in Path \ {Object, Out} : files'[p] = before[p]
        BY <1>1, <2>1 DEF Sound, Disk
      <3>2. files'[Out] = File("exe", modules) BY <1>1, <2>1
      <3>3. ASSUME opt.save, fault # "unseen", SaneNames, NEW x \in Stage, NEW i \in DOMAIN modules
            PROVE  files'[Derived(modules[i].file, x)] = File(x, <<modules[i]>>)
        <4>1. pc \in Past(x) BY DEF Past, PastByteCode, PastMLIR, PastLLVM
        <4>2. files[Derived(modules[i].file, x)] = File(x, <<modules[i]>>) BY <3>3, <4>1 DEF Sound, Disk
        <4>3. modules[i].file \in Source BY <1>1, ModuleAt DEF Module
        <4>4. Derived(modules[i].file, x) # AOut BY DEF AOut, Derived, Stage
        <4>5. Derived(modules[i].file, x) # Out BY <3>3, <4>3, <4>4 DEF Out, SaneNames
        <4>6. Derived(modules[i].file, x) \in Path BY <1>1, ModuleAt, DerivedPath
        <4> QED BY <1>1, <2>1, <4>2, <4>5, <4>6
      <3> QED BY <2>5, <3>1, <3>2, <3>3 DEF Disk
    <2>7. status' # "0" BY <2>3 DEF TypeOK
    <2>8. Outcome' BY <2>7, NoOutcome
    <2> QED BY <2>3, <2>4, <2>6, <2>8 DEF Sound
  <1>5. CASE Fails("1") /\ UNCHANGED files BY <1>5, SameContent, Failed
  <1> QED BY <1>4, <1>5

\* Under sane names the executable is another file than the object file.
LEMMA OutIsNotObject ==
  ASSUME Sound, pc \in PastLLVM, SaneNames
  PROVE  Out # Object
  <1>1. Object = Derived(inputs[1], "o") /\ 1 \in DOMAIN inputs BY Late
  <1>2. AOut # Object BY <1>1 DEF AOut, Derived
  <1> QED BY <1>1, <1>2 DEF Out, SaneNames

\* The executable is of all modules: of the one, if there is one.
LEMMA Executable ==
  ASSUME Sound, pc \in PastLLVM, NEW i \in DOMAIN inputs
  PROVE  LET f == File("exe", modules)
         IN  /\ f # Absent /\ f.kind = "exe"
             /\ \E k \in DOMAIN f.mods : f.mods[k].file = inputs[i]
             /\ Single => f.mods = <<[file |-> inputs[i], text |-> inputs[i]]>>
  <1> DEFINE f == File("exe", modules)
  <1>1. TypeOK /\ inputs # <<>> /\ modules = CompilePython(inputs) /\ modules \in Seq(Module) BY Late
  <1>2. f # Absent /\ f.kind = "exe" /\ f.mods = modules BY <1>1, FileIsContent
  <1>3. i \in DOMAIN modules /\ modules[i].file = inputs[i] BY <1>1, Names
  <1>4. ASSUME Single PROVE modules = <<[file |-> inputs[i], text |-> inputs[i]]>>
    <2>1. i = 1 /\ Len(modules) = 1 BY <1>1, <1>4, Names DEF Single, TypeOK
    <2>2. modules[1] = [file |-> inputs[1], text |-> inputs[1]] BY <1>1, Names
    <2> QED BY <1>1, <2>1, <2>2
  <1> HIDE DEF f
  <1>5. \E k \in DOMAIN f.mods : f.mods[k].file = inputs[i] BY <1>2, <1>3
  <1> QED BY <1>2, <1>4, <1>5 DEF f

LEMMA RemoveObjectSound == ASSUME Sound, RemoveObject PROVE Sound'
  <1> USE DEF RemoveObject, cmd, state
  <1>0. pc \in PastLLVM BY DEF PastLLVM
  <1>1. /\ TypeOK /\ inputs # <<>> /\ modules = CompilePython(inputs) /\ Object \in Path /\ Out \in Path
        /\ files \in [Path -> Content] /\ fault # "seen" /\ (~opt.save => upto = {})
        /\ upto = IF opt.save THEN Stage ELSE opt.upto
    BY <1>0, Late DEF TypeOK
  <1>2. CASE Fails("1") /\ UNCHANGED files BY <1>2, SameContent, Failed
  <1>3. CASE Exit("0") /\ IF opt.save THEN files' = files ELSE files' = [files EXCEPT ![Object] = Absent]
    <2> USE <1>3 DEF Exit
    <2>1. files' \in [Path -> Content] BY <1>1 DEF Content
    <2>2. TypeOK' BY <2>1 DEF Sound, TypeOK, PC
    <2>3. Progress' BY DEF Progress, Past, PastByteCode, PastMLIR, PastLLVM
    <2>4. Disk' BY DEF Disk, Past, PastByteCode, PastMLIR, PastLLVM
    <2>5. Goal = "exe" BY <1>1 DEF Goal
    <2>6. files[Out] = File("exe", modules) BY DEF Sound, Disk
    <2>7. Delivered'
      <3>0. /\ Wanted' = Wanted /\ Goal' = Goal /\ (Single' <=> Single) /\ (SaneNames' <=> SaneNames)
            /\ \A s, i : Product(s, i)' = Product(s, i)
        <4>1. Wanted' = Wanted /\ Goal' = Goal /\ (Single' <=> Single) /\ (SaneNames' <=> SaneNames)
          BY DEF Wanted, Goal, Single, SaneNames
        <4> QED BY <4>1 DEF Product, Out
      <3> SUFFICES ASSUME fault # "unseen", SaneNames, NEW s \in Wanted \cup {Goal}, NEW i \in DOMAIN inputs
                   PROVE  LET f == files'[Product(s, i)]
                          IN  /\ f # Absent /\ f.kind = s
                              /\ \E k \in DOMAIN f.mods : f.mods[k].file = inputs[i]
                              /\ Single => f.mods = <<[file |-> inputs[i], text |-> inputs[i]]>>
        BY <3>0 DEF Delivered
      <3>1. CASE s = "exe"
        <4>1. Product(s, i) = Out BY <3>1 DEF Product
        <4>2. Out # Object BY <1>0, OutIsNotObject
        <4>3. files'[Product(s, i)] = File("exe", modules) BY <1>1, <2>6, <4>1, <4>2
        <4> QED BY <1>0, <3>1, <4>3, Executable
      <3>2. CASE s # "exe"
        <4>1. opt.save /\ s \in Stage BY <2>5, <3>2 DEF Wanted
        <4>2. i \in DOMAIN modules /\ modules[i] = [file |-> inputs[i], text |-> inputs[1]] BY <1>1, Names
        <4>3. Product(s, i) = Derived(modules[i].file, s) BY <3>2, <4>1, <4>2 DEF Product
        <4>4. pc \in Past(s) BY DEF Past, PastByteCode, PastMLIR, PastLLVM
        <4>5. files[Derived(modules[i].file, s)] = File(s, <<modules[i]>>)
          BY <4>1, <4>2, <4>4 DEF Sound, Disk
        <4> DEFINE f == files'[Product(s, i)]
                   ms == <<modules[i]>>
        <4>6. f = File(s, ms) BY <4>1, <4>3, <4>5
        <4>7. ms \in Seq(Module) /\ s \in Stage \cup {"py", "o", "exe", "torn"} BY <1>1, <4>1, <4>2, ModuleAt
        <4>8. 1 \in DOMAIN ms /\ ms[1].file = inputs[i] BY <4>2
        <4>9. Single => ms = <<[file |-> inputs[i], text |-> inputs[i]]>>
          <5>1. Single => i = 1 BY <1>1 DEF Single, TypeOK
          <5> QED BY <4>2, <5>1
        <4> HIDE DEF ms
        <4>10. f # Absent /\ f.kind = s /\ f.mods = ms
          <5>1. File(s, ms) # Absent /\ File(s, ms).kind = s /\ File(s, ms).mods = ms BY <4>7, FileIsContent
          <5> HIDE DEF f
          <5> QED BY <4>6, <5>1
        <4> HIDE DEF f
        <4>11. \E k \in DOMAIN f.mods : f.mods[k].file = inputs[i] BY <4>8, <4>10
        <4>12. Single => f.mods = <<[file |-> inputs[i], text |-> inputs[i]]>> BY <4>9, <4>10
        <4> QED BY <4>10, <4>11, <4>12 DEF f
      <3> QED BY <3>1, <3>2
    <2>8. CleanSuccess'
      <3> SUFFICES ASSUME ~opt.save, NEW p \in Path \ Products
                   PROVE  files'[p] = before[p] \/ (files'[p] = Absent /\ p[3] = "o")
        BY <1>1 DEF CleanSuccess, Products, Product, Wanted, Goal, Single, Out
      <3>1. p # Out
        <4>1. Product("exe", 1) \in Products
          <5>1. 1 \in DOMAIN inputs BY <1>0, Late
          <5> QED BY <2>5, <5>1 DEF Products
        <4> QED BY <4>1 DEF Product
      <3>2. CASE p = Object
        <4>1. p[3] = "o" BY <3>2 DEF Object, Derived
        <4> QED BY <1>1, <3>2, <4>1
      <3>3. CASE p # Object
        <4>1. files[p] = before[p] BY <3>1, <3>3 DEF Sound, Disk
        <4> QED BY <1>1, <3>3, <4>1
      <3> QED BY <3>2, <3>3
    <2>9. ValidRunSucceeds' BY DEF ValidRunSucceeds
    <2> QED BY <2>2, <2>3, <2>4, <2>7, <2>8, <2>9 DEF Sound, Outcome
  <1> QED BY <1>1, <1>2, <1>3 DEF Stage

-------------------------------------------------------------------------------
LEMMA InitSound == Init => Sound
  <1> SUFFICES ASSUME Init PROVE Sound OBVIOUS
  <1> USE DEF Init
  <1>1. files \in [Path -> Content]
    <2>1. <<>> \in Seq(Module) OBVIOUS
    <2>2. File("py", <<>>) \in Content /\ Torn \in Content BY <2>1, FileIsContent DEF Torn
    <2> QED BY <2>2 DEF Content
  <1>2. TypeOK
    <2>1. None \in Output BY DriverAssumption
    <2> QED BY <1>1, <2>1 DEF TypeOK, PC
  <1>3. Progress BY DEF Progress, Past, PastByteCode, PastMLIR, PastLLVM
  <1>4. Disk BY DEF Disk, Past, PastByteCode, PastMLIR, PastLLVM
  <1>5. Outcome BY DEF Outcome, Delivered, CleanSuccess, ValidRunSucceeds
  <1> QED BY <1>2, <1>3, <1>4, <1>5 DEF Sound

LEMMA NextSound == Sound /\ [Next]_vars => Sound'
  <1> SUFFICES ASSUME Sound, [Next]_vars PROVE Sound' OBVIOUS
  <1>1. CASE Parse BY <1>1, ParseSound
  <1>2. CASE Resolve BY <1>2, ResolveSound
  <1>3. CASE CheckOutput BY <1>3, CheckOutputSound
  <1>4. CASE Read BY <1>4, ReadSound
  <1>5. CASE Compile BY <1>5, CompileSound
  <1>6. CASE ExportByteCode BY <1>6, ExportSound DEF ExportByteCode, Follower, Stage
  <1>7. CASE GeneratePyIR BY <1>7, GeneratePyIRSound
  <1>8. CASE ExportMLIR BY <1>8, ExportSound DEF ExportMLIR, Follower, Stage
  <1>9. CASE Merge BY <1>9, MergeSound
  <1>10. CASE Lower BY <1>10, LowerSound
  <1>11. CASE Translate BY <1>11, TranslateSound
  <1>12. CASE ExportLLVM BY <1>12, ExportSound DEF ExportLLVM, Follower, Stage
  <1>13. CASE ExportObject BY <1>13, ExportObjectSound
  <1>14. CASE Link BY <1>14, LinkSound
  <1>15. CASE RemoveObject BY <1>15, RemoveObjectSound
  <1>16. CASE UNCHANGED vars
    <2> USE <1>16 DEF vars, cmd
    <2>1. TypeOK' BY DEF Sound, TypeOK
    <2>2. Object' = Object /\ Out' = Out /\ (SaneNames' <=> SaneNames) BY DEF Object, Out, SaneNames
    <2>3. Progress' BY DEF Sound, Progress
    <2>4. Disk' BY <2>2 DEF Sound, Disk
    <2>5. /\ Wanted' = Wanted /\ Goal' = Goal /\ (Single' <=> Single)
          /\ Products' = Products /\ \A stage, i : Product(stage, i)' = Product(stage, i)
      <3>1. Wanted' = Wanted /\ Goal' = Goal /\ (Single' <=> Single) BY DEF Wanted, Goal, Single
      <3>2. ASSUME NEW stage, NEW i PROVE Product(stage, i)' = Product(stage, i) BY <2>2, <3>1 DEF Product
      <3>3. Products' = Products BY <3>1, <3>2 DEF Products
      <3> QED BY <3>1, <3>2, <3>3
    <2>6. Delivered' BY <2>2, <2>5 DEF Sound, Outcome, Delivered
    <2>7. CleanSuccess' BY <2>2, <2>5 DEF Sound, Outcome, CleanSuccess
    <2>8. ValidRunSucceeds' BY <2>2, <2>5 DEF Sound, Outcome, ValidRunSucceeds
    <2> QED BY <2>1, <2>3, <2>4, <2>6, <2>7, <2>8 DEF Sound, Outcome
  <1> QED BY <1>1, <1>2, <1>3, <1>4, <1>5, <1>6, <1>7, <1>8, <1>9, <1>10, <1>11, <1>12, <1>13,
             <1>14, <1>15, <1>16 DEF Next

LEMMA Soundness == Spec => []Sound
  BY InitSound, NextSound, PTL DEF Spec

\* For every set of programs and outputs, and any number of wildcard matches: files
\* hold what the stages write, and main() has a status exactly when it has ended.
THEOREM TypeCorrect == Spec => []TypeOK
  <1>1. Sound => TypeOK BY DEF Sound
  <1> QED BY <1>1, Soundness, PTL

\* Exit status 0 means that every file asked for is on disk and holds the module of
\* its input: no stage skipped it, and no later stage overwrote or removed it.
THEOREM SuccessDelivers == Spec => []Delivered
  <1>1. Sound => Delivered BY DEF Sound, Outcome
  <1> QED BY <1>1, Soundness, PTL

\* Exit status 0 means that no stage failed visibly, and that only what was asked
\* for was written; an object file of the same name is gone.
THEOREM SuccessIsClean == Spec => []CleanSuccess
  <1>1. Sound => CleanSuccess BY DEF Sound, Outcome
  <1> QED BY <1>1, Soundness, PTL

\* One existing program, a directory that exists and a number for -O are enough, as
\* long as the environment lets every stage work.
THEOREM ValidRunsSucceed == Spec => []ValidRunSucceeds
  <1>1. Sound => ValidRunSucceeds BY DEF Sound, Outcome
  <1> QED BY <1>1, Soundness, PTL
===============================================================================
