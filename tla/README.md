# A verification project for pycompile

pycompile compiles a subset of Python to a native executable: CPython bytecode
is translated to PyIR (an MLIR dialect), lowered to LLVM, and linked with the
`pystd` runtime, which implements Python objects with manual reference counts.
This directory holds TLA+ models of the parts of it that keep state, the TLC
configurations that check them on small instances, and TLAPS proofs of what
holds for every instance. Source paths below are relative to the repository.

## 1. Inventory

### The compiler (`pycompile/`)

| part | source | state it keeps | operations | what makes it correct | modelled in |
|---|---|---|---|---|---|
| driver | `src/main.cpp`, `utils.cpp` | the list of modules, exit status, files on disk | parse options, run each stage, write its output, link, remove the object file | status 0 means that what was asked for is there; a failing stage is reported; programs are not overwritten | `Driver` |
| bytecode front end | `src/bytecode/` | `ByteCodeModule` trees | run CPython's compiler and `dis`, decode instructions and constants, nested code objects | constants keep type and value; nesting is bounded, and only what cannot be represented is refused | `Constants`, `Lowering`, `Driver` |
| conversion | `src/conversion/` | the simulated evaluation stack of each basic block, the block of each offset, the current position | one handler per instruction; `switchToOffsetBlock`, `buildMLIRModule`, `mergePyIRModules` | at run time, the stack a block is entered with has the depth its code was generated for | `Codegen`, `Constants`, `Driver` |
| dialect and lowering | `src/pyir/`, `src/lowering/` | declarations and string constants of the LLVM module | one pattern per operation, runtime calls, symbols | each call has the C types and the operands its header names; each symbol holds its own text; only unsupported operations fail | `Lowering`, `RuntimeInterface` |
| export | `src/lowering/llvm_export.cpp` | object file, executable | translate, emit, link | see driver | `Driver` |

### The runtime (`pystd/`)

| part | source | state it keeps | operations | what makes it correct | modelled in |
|---|---|---|---|---|---|
| object model | `src/pytypes/py_object.*`, `primitives/` | a refcount per object, 1 at birth; immortal singletons | `incref`, `decref`, destructors, comparison | an object lives exactly as long as something owns it; `PyObjPtrCompare` is an order | `RefCounts`, `Ownership`, `KeyOrder` |
| scopes | `src/memory_runtime.cpp`, `runtime_state.hpp` | `scopeStack` of name tables, `builtinFuncs` | load/store of names and locals, constants, attributes, items | a name owns a reference to its value, or borrows one that outlives it | `Ownership`, `Frames` |
| functions | `src/function_runtime.cpp`, `pytypes/callables/` | the scopes of open calls | push/pop scope, make function, call | each argument is given up once, by the side the convention names; functions see current globals | `Ownership`, `Frames` |
| containers | `pytypes/iterables/`, `src/builder_runtime.cpp`, `runtime_util.cpp` | elements, hash tables, ordered maps | build, append, extend, add, update, index, compare, iterate | a container owns its elements; a dict is a function from keys to values; a loop visits each key once | `Ownership`, `Dicts`, `KeyOrder` |
| operators | `src/logical_runtime.cpp` | none | arithmetic, comparison, set, dict and sequence operators | operands are given up on every path; results are new references | `Ownership`, `Dicts` |
| loops | `src/control_flow_runtime.cpp` | `iterStack` | get, advance, pop iterator | an iterator has one owner and is deleted when its loop ends | `Ownership`, `Dicts` |
| builtin functions | `src/builtin_runtime.cpp` | none | `print`, `len`, conversions, iterators | a builtin gives up its own arguments | `Ownership`, `Shutdown` |
| start and end | `src/main_runtime.cpp`, `builtin_runtime.cpp` | `scopeStack`, `builtinFuncs` | `pyir_initModule`, `pyir_destroyModule`, `pyir_clearDanglingScope`, `main` | the process ends, reports what happened, and frees what it owned | `Shutdown` |

Both programs are single-threaded (`std::atomic` in `PyObj` is not exercised).
What is hard is the *protocol*: a reference is moved, copied, borrowed or dropped
according to a convention that differs between entry points, several owners
share one object, a `decref` may set off a cascade of destructors, exceptions
leave in the middle of any of this, and names (symbols, files, keys) are made up
in one place and resolved in another. No test of the repository looks at
reference counts or at the files of a failing compilation. The hazards are
listed at their lines in `PROJECT.json`.

## 2. Modules

| module | models | kind |
|---|---|---|
| `Driver` | `main()` of the compiler, its stages and the file system | state machine |
| `Constants` | CPython constant to argval to MLIR attribute | operators |
| `RuntimeInterface` | operands of the dialect, C declarations of the runtime | operators |
| `Lowering` | the conversion of PyIR to runtime calls | state machine |
| `CodeObject` | what CPython's compiler promises of a code object | operators (external) |
| `Codegen` | the translation of a code object to PyIR, and the compiled program | state machine |
| `EvalStack` | CPython's evaluation stack | abstract specification (external) |
| `RefCounts` | the reference-count calculus: what giving up a set of references deletes | operators |
| `Ownership` | the module-level code of a compiled program, one action per runtime call | state machine |
| `Frames` | calls of compiled functions, their scopes and comprehension variables | state machine |
| `KeyOrder` | comparison of objects, the order of a dict's map | operators |
| `Dicts` | dicts: map, reference counts, views, loops | state machine |
| `PythonDict` | what a dict promises | abstract data type |
| `Shutdown` | `main()` of a compiled program, `pyir_destroyModule`, `pyir_clearDanglingScope` | state machine |
| `ProcessExit` | what that `main()` promises | abstract specification |
| `MC...` | instances for TLC | |
| `..._proofs` | theorems and their proofs | proofs |

`Ownership` and `Shutdown` extend `RefCounts`, `Dicts` extends `KeyOrder` and
instantiates `PythonDict`, `Lowering` extends `Constants` and `RuntimeInterface`.
`Shutdown` implements `ProcessExit` under the refinement mapping of `Promise`,
`Codegen` extends `CodeObject` and implements `EvalStack` under the mapping of `Python`.

The models meet where the code's parts do. A constant goes from `Constants`
through `Lowering` to the runtime object `RunConst` builds. The operands whose
ownership `Ownership` is about are the values `Codegen` puts on the stack (so
`COPY` in one is `CopyTop` in the other); the calls `Lowering` emits are the
actions of `Ownership`, `Frames` and `Dicts`. `Frames` takes over where
`Ownership` calls a compiled function, `Dicts` where it holds a dict. `Shutdown`
starts where `Ownership` ends, with the references its `Finish` and `Raise` leave.

### RefCounts

A *place* is anything that owns one reference: a root (scope entry, SSA value,
`iterStack` entry, entry of `builtinFuncs`) or a field of an object (`<<o, s>>`:
an element of the container in cell `o`, the `self` of a bound method, the
container of an iterator). `r` maps places to values, `c` maps heap cells to
refcounts, 0 for a cell that holds no object.

`decref` may delete an object, whose destructor decrements its fields, and so
on. The set deleted by giving up the places in `drop` is defined without
recursion, as the least set `F` closed under "an object whose count is used up
by `drop` and the fields of `F` is in `F`" (`Deleted`). A destructor that
decrements more often than the count allows reads a freed refcount: those
objects are `Overrun`. The order in which destructors run does not matter to
either set.

### Ownership

| variable | code |
|---|---|
| `kind[o]` | the dynamic type of the object in cell `o` |
| `rc[o]` | `PyObj::refcount` |
| `ref[p]` | the pointer in place `p` |
| `loops` | `iterStack.size()` |
| `open` | the entries of `iterStack` whose loop still runs |
| `phase` | running, exited, or left by an exception |
| `overrun` | (ghost) objects decremented after their deletion |
| `aliased` | (ghost) objects an instruction gave an owner without an incref |
| `leaked` | (ghost) objects that lost an owner without a decref |

Each action is one runtime call (or, for `POP_TOP` and `COPY`, the compile-time
stack operation that decides which SSA values exist). `Effect` is common to all
of them: pointer writes, increfs and allocations first, then the decrefs with
their cascade. `Call` is an `Effect` without a lost or duplicated reference.

The data is abstracted to references: numbers and strings are one kind, `leaf`;
the order of elements, hashes and equality are not kept. Where the code's
behaviour depends on equality (a set rejects an equal element) the model lets
either happen, except that an object always equals itself and that a rejected
element needs one that is already there. Operand types are guards where an entry
point throws for the others; what a failing call does is `Raise`.

A loop keeps its iterator twice: the SSA value `FOR_ITER` advances, and the entry
of `iterStack` that owns it. `break` pops the first and leaves the second
(`Break`), so the enclosing loop's `pyir_popIter` then pops the inner iterator
(`PopIter` pops the last entry, whichever loop it belonged to).

`Uses` selects the instructions a program contains; `SoundPrograms` is about all
programs whose `Uses` has no aliasing instruction.

The ghosts delimit what is claimed of which object. They are exact and local:
an object enters `aliased` when one of four named instructions (`Aliasing`)
duplicates it, and leaves when its cell is reused. A state where some reference
dangles is where C++ stops defining the program, so no action leaves it
(`Defined`): the model is of the program up to its first undefined step.

### Shutdown

`Init` is *every* heap a program could hand to its end, up to the instance's
size: sharing between variables, containers, cycles, builtins bound to
variables, and references a `POP_TOP`, a `break` or an exception abandoned (`Lost`); counts are exact, except
that a builtin's count may be short of its holders since loads do not count it.
`Return` and `Throw(d)` are the two ways out of `__pymodule` (with `d` scopes
open). The loops over `unordered_map` visit their entries in any order
(`Destroy(p)`, `Visit(n)`); `Clear` is one iteration of the inner `while`. A
decref that reaches a deleted object ends the behaviour in `fault`.

`cur` and `todo` are the loops' positions; `start` is a ghost copy of the
references at the end of the module, used to say which heaps a property is about.

### Codegen

| variable | code |
|---|---|
| `next`, `here`, `complete` | the loop of `buildMLIRModule`, `blockComplete` |
| `stack` | `meta.stack`, a sequence of SSA values |
| `open` | the insertion block has no terminator |
| `width` | `getNumArguments()` of the block of each offset in `offsetToBlock` |
| `falls`, `pir` | the branch `switchToOffsetBlock` emits, the operation of each instruction |
| `pc`, `env`, `used` | the compiled program: its position, the values of the SSA values that are still on the stack, the operands of the last operation |

A behaviour first translates (`Switch`, then the handler `Emit...` of the
instruction), then verifies, then runs. Instructions that do the same to the
stack share a handler (listed in `EvalStack`); what an operation computes is any
value of `Data`, the same in both machines. The refinement mapping says that the
stack CPython would have before an instruction is what the SSA values on
`meta.stack` were given at run time; a module does not push `None`, so the
mapping adds it before `RETURN_VALUE`. `POP_ITER` is folded into the exit of
`FOR_ITER` in `EvalStack`; what it does to `iterStack` is in `Ownership`.

The code objects of `MCCodegen` are what CPython 3.14 compiles: its combinators
build the code of each construct out of the code of its parts, with relative
jumps. Jump threading decides which `JUMP_FORWARD`s exist, so the constructs are
those whose code it leaves alone.

`CodeObject` states what the translation relies on without a check, and CPython
keeps: `WellFormed(p, depth)`, where `depth` is the depth of the evaluation stack
at each instruction. Jumps stay in the code and a loop is entered from above
(`LaidOut`); no instruction takes more than there is, and every way to an
instruction has its depth (`Deep`); values that reach a label by a jump come with
a conditional one, or from above as well (`Entered`); a module uses the constant
`None` for its returns only, of which it may have several (`NoneReturned`). `MCCodegen` assumes
`WellFormedPrograms`, which TLC evaluates: the programs of the instance are
well-formed but for a chained comparison in a loop, which is not `Entered`, and
those of `Refuse`. What the hypothesis leaves out is named in section 6.

A `LOAD_CONST None` of a module pushes nothing. Where the next instruction is not
`RETURN_VALUE` (`NoneAsValue`), the one that wants the value takes another, an
iterator of an enclosing loop say, or pops an empty vector. `Accepted` says that
such a module never gets as far as running: it becomes undefined, or an edge
carries too few operands and the verifier rejects it. `Refuse` has more than 200 of
them, with a `None` in every position of a call, an operator, a display, a
comprehension, a chained assignment and a conditional expression, below nothing and
below one or two iterators.

### Frames

| variable | code |
|---|---|
| `count[o]` | `PyObj::refcount`, 0 once deleted |
| `scopes` | `scopeStack` |
| `frames` | the native calls: function, arguments `pyir_call` still holds, operands, the variable a comprehension saved |
| `phase` | running, or left by a `NameError` |
| `leaked` | (ghost) references nobody has any more |

Each scope entry carries a ghost, its *tie*: it owns a reference, borrows one
(the copy `pyir_pushScope` makes without increfs, a parameter), or shares one
with the operand stack (`STORE_FAST_LOAD_FAST` stores a value and leaves it on
the stack). `Call` is `pyir_call` up to the end of the preamble that stores the
parameters, `Return` is `pyir_popScope`, the return and the rest of `pyir_call`.
`PopTop` takes the operand off the simulated stack and leaves its count alone,
since `POP_TOP` emits no operation (`pyir_codegen.cpp:145-147`): what an
expression statement drops is added to `leaked`, as in `Ownership`.
Callees get the number of arguments they take: `pyir_call` does not compare, and
a function called with fewer reads beyond its arguments.

### Dicts and KeyOrder

`KeyOrder` is `operator<=>`, `operator==` and `PyObjPtrCompare` over a value per
type (numbers, ranks of strings, identities of functions, sequences of scalars).
Where a `float` is on one side, `operator<=>` converts the `int64_t` on the other
to a double first (`py_int.cpp:26`, `py_float.cpp:26`): `ToDouble` rounds to the
nearest of the numbers `m * 2^e` with `m` up to `Significand` (2^53 in the code)
and `e` up to `Exponent`, and of two nearest ones to the even one. The instance has
a `Significand` of 4, and assumptions TLC evaluates show that the rounding bites:
5 becomes 4.0, so that 4, 4.0 and 5 are one key pair by pair while 4 and 5 are not
(`FourAndFive`), and that the comparison of a sample of objects of all types is a
partial order nonetheless (`SampleIsOrdered`).
A dict is the sequence of its map's entries; `Find`, `Insert` and `Assign` are
`std::map`'s search, `insert` and `operator[]` with that order, so that an order
that is not one would lose entries here as it would in the code.

| variable | code |
|---|---|
| `raw[d]` | `PyDict::raw` of the dict in variable `d` |
| `count[o]` | refcounts of keys and values, each also held by a variable |
| `iter` | the running loop's `PyDictIter`: its dict and the node it is at |
| `view` | the tuple or list that `keys()`, `values()` or `items()` returned |
| `visited`, `start` | (ghosts) the keys the loop got, those there at its beginning |
| `slack` | (ghost) an insertion met its key, after which counts are too high |
| `meant` | (ghost) what a Python dict would hold |

An action counts the loads of its operands together with what the handler does.
A display is inserted from its last pair to its first (`Inserted`), which is
`Update` of an empty map like `update` and `|` themselves. The holders of an
object (`Holders`) are its places in the dicts; `References` adds the view and
the object's variable. `MaxPairs` bounds the displays.

`meant` follows `PythonDict`; where `update` and `|` meet a key of both, the code
keeps the old value, and `meant` allows either, so that `IsPythonDict` is about
everything else; that the new value is promised, and not delivered, is the run
`pipe`.

### Lowering, Constants and RuntimeInterface

An operation of PyIR is a record of its mnemonic and attribute. A behaviour first
decodes the constants of the whole module (`GeneratePythonByteCode`), which refuses
it at a constant of a type the front end does not know and at a function nested
deeper than `NestedFunctionDepth` (16 in the code, 2 in the instance). It then
converts the operations of one module in order (`Emit`), recording the calls each
became, the declarations (`decls`) and the string constants (`globals`), which
are both kept under names the lowering makes up and looked up by name only.
An argument of a call is known by its C type and by the operand it holds, so that
it can be compared with the headers, which `RuntimeInterface` translates together
with the operand names of `pyir.td`. `Constants` holds the way of a constant up
to its attribute: `PyLong_AsLong` of an int that does not fit, C strings that end
at a NUL, `BoolAttr` being an `IntegerAttr` of width 1, and the null attribute of
`None` in a tuple.

The constant of a nested function becomes a function of its own and no call here
(`LowerCode`). The operations are those the conversion of bytecode makes
(`Operation`, over all strings and constants), which `LoweringAssumption` asks of
`Op`. The calls of one operation ask for their functions and symbols in turn (`GetOrInsertRuntimeFn`,
`GetOrInsertStringConstant`): whoever comes first decides what stands under a
name, and two strings may ask for one symbol (`Ambiguous`: hashes that collide, or
a variable named like a function's symbol).

### Driver

| variable | code |
|---|---|
| `opt` | the command line |
| `files` | the file system: which path holds which kind of file, of which modules |
| `pc` | the stage `main()` is at |
| `upto`, `tmp` | `upToPreprocess`, `upToCompile`, `upToLower`; `tmpFilesName` |
| `inputs`, `modules` | `inputFileNames`; the modules of the current stage |
| `status` | exit status |
| `fault`, `before` | (ghosts) what the environment did, the file system at the start |

Each stage works, or is made to fail by the environment: a file that cannot be
opened, a program the stage rejects, a missing linker (`Fails`), or a write that
ends short without anyone noticing (`writeFileString` does not look at its
stream again; `fault = "unseen"`). Exceptions of the exports and of the
conversion of `-O` leave `main()`, the others are reported with status 1.

## 3. What the runs check

All bounds are in the `.cfg` files. `C` stands for `LOAD_CONST LOAD_NAME
STORE_NAME BUILD_LIST`.

| run | instance | shows |
|---|---|---|
| `aliasing` | 4 cells, 1 field, 1 variable, 1 builtin, 3 SSA values; C, `COPY`, `int()`, tuple `+`, builtins as values | `TypeOK`; objects no aliasing instruction touched are `Confined` |
| `leaks` | 3 cells, 2 fields, 1 variable, 2 SSA values; C, `POP_TOP`, set displays, comprehensions, exceptions | `ExactCounts`, `NothingLeftBehind` |
| `methods` | 3 cells, 1 field, 1 variable, 3 SSA values, 2 nested loops; C, bound methods, comprehensions, loops, `break`, exceptions, conversions, comparisons, calls, operators, branches, indexing, item assignment | `MemorySafe`, `ExactCounts`, `NothingLeftBehind`, `IteratorOwnedOnce` |
| `frames` | `def f(x)` and `def h()` that reads the globals `g` and `x`; 3 native frames, 2 operands each, counts up to 3 | `TypeOK`, `OnlySharedDangle`, `BorrowedIsHeld`, `GlobalsCurrent`, `OnlyLocalsAndPopsLeak` |
| `dicts` | 2 dicts; keys `1`, `True` and a string; 2 values; counts up to 3; doubles of 2 bits of significand | `TypeOK`, `NeverDangling`, `ExactlyCounted`, `InOrder`, `VisitedOnce`, `IsPythonDict`; under fairness `LoopsEnd` |
| `any_end` | every heap of 3 cells, 2 variables, a builtin, a lost reference | `TypeOK`, `ReturnSafe`, `RaiseSafe`, `NamesFreed`, `OnlyCyclesRemain`, `Terminates` |
| `promise` | heaps without sharing, immortals or open scopes | `Shutdown` implements `ProcessExit` |
| `stack` | 828 code objects: every simple statement in every control structure, followed by a statement, nested in a loop, in a module with a second exit, and in a function; `None` as a value in every position of a module | `TypeOK`, `Accepted`; `Codegen` implements `EvalStack` |
| `lowering` | every pair of operations; 8-bit integers, strings that hash alike or contain a NUL, functions nested up to and beyond a depth of 2, constants the front end does not know | `OwnText`, `CallsMatchRuntime`, `Preserved`, `OnlyUnsupportedFails` |
| `stages` | 3 programs, two of one base name; 5 values of `-o`, 3 arguments, one of them a wildcard; every subset of files already there; failure at any stage | `TypeOK`, `Delivered`, `CleanSuccess`, `SourcesKept`, `ValidRunSucceeds`; under fairness `Ends` |
| `ternary` | `print(x if c else y)` and another statement | violates `AlwaysVerifies` |
| `pipe` | the instance of `dicts` | violates `RhsTakesPrecedence` |

Why the bounds are enough for the interesting cases.

* `Ownership`. Three cells give a chain and a cycle of containers, an element
  shared by two containers, and a cascade of depth three; the fourth cell of
  `aliasing` is the builtin's. Two fields (`leaks`) give a container that holds
  one object twice and a set display with a duplicate; `methods` trades the second
  field for a third SSA value, which an operator with two operands and a result
  needs. Two loops are what a wrong pop takes. `MaxRefs` bounds the counts: a
  step that would exceed it is not taken, so a run covers every program that
  keeps each object below that count.
* `Codegen`. Two values per operation tell any two stack positions apart, and two
  levels of nesting give every pair of edges into one block.
* `Frames`. Three frames give a function called by a function, and recursion, so
  that a scope is a copy of a copy; `x` is both a parameter and a global, `g` only
  a global. One count below the bound is left for every place that can hold a
  function.
* `Dicts`. `1` and `True` are one key with two objects, the string compares with
  neither; two dicts are what `update`, `|` and a loop over one while the other
  changes need.
* `Lowering`. 8 bits stand for 64: the integers are those around both limits. No
  pattern looks at more than its own operation and the symbols there are, so a
  pair of operations is the smallest module in which one can disturb another.
* `Driver`. Two programs with one base name collide in every intermediate file;
  the values of `-o` are none, a path of its own, a missing directory, the object
  file's path, and an input.

Deadlock is checked in `lowering` and not in the others: a program stops when it
has exited or returned, `Ownership` and `Frames` also end where C++ leaves the
program undefined, a translation ends when it is rejected, a dict program when
its counts reach the bound, and the driver when it has exited.

Fairness. `Shutdown` and `Driver` have weak fairness of `Next`: each is one
thread that nothing blocks, and the stages are assumed to return. `Dicts` has
weak fairness of `ForIter` and of `PopIter`: a loop that was entered goes on to
its next iteration, and its body is finite; what the body does is not fair.
`Ownership`, `Frames`, `Lowering` and `Codegen` have no fairness and no liveness
property: what a program does next is its own choice.

### Known divergences

The two runs that end in a violation:

* `ternary`: code that keeps values on the stack across a `JUMP_FORWARD` does not
  pass verification: a conditional expression that is not at the end of its code
  object, or an `if`/`else` that another statement follows inside a `for` loop.
* `pipe`: `pyir_pipe` promises that "values from rhs" take precedence
  (`logical_runtime.cpp:229`), but `PyDict::update` inserts, and
  `std::map::insert` leaves a key that is there with its old value.

What the guards, ghosts and premises of the other properties set aside:

* "each name now owns its own reference" (`memory_runtime.cpp:81`) is not so after
  chained assignment: `COPY` pushes the same SSA value twice, without an incref.
  This and the three other instructions of `Aliasing` are what `aliased` records.
* The clean-up after an uncaught exception does not end when a variable is `True`,
  `False` or `None` (their counts never reach zero), which is the premise of
  `Terminates`; it aborts when the exception came from inside a function, which is
  the premise of `KeepsPromise`; and it decrements freed memory when two variables
  refer to one object, which is the premise of `RaiseSafe`.
* `STORE_FAST_LOAD_FAST` loads the variable it stored, also when the instruction
  names two; the programs of `stack` name one.
* After `STORE_FAST_LOAD_FAST` the local and the operand stack share a reference
  (`OnlySharedDangle`); after an insertion that met its key, counts stay too high
  (`slack` in `Dicts`); values stored into locals and those `POP_TOP` drops are
  never given up (`OnlyLocalsAndPopsLeak`, `leaked`).
* Beyond 2^53, being one key is not transitive: 2^53 and `2.0^53` are one key, and
  so are `2.0^53` and 2^53 + 1, though the two ints are not, and `d[2.0^53]` finds
  the entry of 2^53 + 1. `StrictWeakOrder` is about integers a double holds exactly
  (`Exact`), `IsPythonDict` about keys that are one key only if Python takes them
  for equal (`OneKeyIsEqual`).
* `None` as a value of a module is not compiled (`NoneAsValue`, above).
* Two programs of one base name overwrite each other's intermediate files, and
  each of several inputs is compiled from the first one's contents; `Delivered`
  is about names that differ (`SaneNames`), and the second never reaches an
  executable, since the merged module defines `main` twice and is rejected.

`Accepted`, `IsPythonDict`, `ValidRunSucceeds` and the rest of the properties
state what the same code gets right.

## 4. What is proved

Every safety invariant and action property of the passing runs is proved for all
values of the constants, and so are the steps of both refinements. The table gives the theorem
of each; the paragraphs say along which argument.

| module | properties proved | inductive invariant | assumptions |
|---|---|---|---|
| `Ownership_proofs` | `TypeOK`, `Confined`, `MemorySafe`, `ExactCounts`, `IteratorOwnedOnce`, `NothingLeftBehind` | `IInv` | `HeapAssumption`, `OwnershipAssumption` |
| `Frames_proofs` | `TypeOK`, `GlobalsCurrent`, `BorrowedIsHeld`, `OnlyLocalsAndPopsLeak`, `OnlySharedDangle` | `IInv`, `Exact` | `FramesAssumption` |
| `Dicts_proofs` | `TypeOK`, `InOrder`, `VisitedOnce`, `NeverDangling`, `ExactlyCounted`, `IsPythonDict` | `Ordered`, `Loop`, `Counts`, `Meant` | `KeyOrderAssumption`, `DictsAssumption`; `OneKeyIsEqual` for the last |
| `Codegen_proofs` | `TypeOK`, `Accepted`, `Implements` | `TInv(depth)` | `CodegenAssumption`; `FromCPython` |
| `Lowering_proofs` | `OwnText`, `CallsMatchRuntime`, `Preserved`, `OnlyUnsupportedFails` | `IInv` | `LoweringAssumption`, `ConstantsAssumption` |
| `Driver_proofs` | `TypeOK`, `Delivered`, `CleanSuccess`, `SourcesKept`, `ValidRunSucceeds` | `Sound` | `DriverAssumption` |
| `Shutdown_proofs` | `TypeOK`, `ReturnSafe`, `RaiseSafe`, `NamesFreed`, `OnlyCyclesRemain`, the steps of `KeepsPromise` | one per theorem | `HeapAssumption`, `ShutdownAssumption` |

### Ownership_proofs

The theorems hold for every finite heap, any number of variables, builtins, SSA
values, nested loops, any refcount bound and any set of instructions.
`HeapAssumption` asks for finite, disjoint sets of cells, roots, fields and
immortals, `OwnershipAssumption` for roots that are the four groups, which are
disjoint.

The inductive invariant is
`IInv == TypeOK /\ Confined /\ ExactCounts /\ LoopsOwn /\ RootsClear`. Memory
safety alone is not inductive, since a state with two holders and one count is
safe until the first decref; `Confined` says that the count covers the holders,
`ExactCounts` that it is their number where no reference was lost either.
`LoopsOwn` says that the entries of `iterStack` are the only owners of their
iterators, so that `pyir_popIter` deletes the iterator and its throw is never
reached; `RootsClear` that an exited program has no root left. Two things make
it work. First, the cascade of destructors: `DeletedFixpoint` shows that the
least closed set is a fixed point of its rule (the argument of Knaster and
Tarski, on finite sets), so an object that survives was decremented less often
than it was counted and one that is deleted had all its holders given up
(`ReleaseCovered`, `ReleaseExact` in `RefCounts_proofs`). Second, what an
instruction does before its decrefs is built from a few moves: a counted copy, a
move, an exchange, a new object, forgetting. `Fit` says that references and
counts are such that a cascade is safe, and exact for the objects where that is
claimed; each `Fit...` lemma shows that one move keeps it, and `EffectInv` turns a
fit state and a set of decrefs into `IInv'`. Every action is then an application
of these (`LoadInv` ... `FinishInv`, `NextInv`). `NothingIsLeft` follows from exact
counts and empty roots: whoever survives has a holder that survives.
`AliasingOnly` shows that `aliased` stays empty without the four instructions,
which turns `Confined` into `MemorySafe` (`SoundPrograms`).

### Frames_proofs

For every set of names, functions and data and every depth. `IInv` adds to
`GlobalsCurrent` and `BorrowedIsHeld` the facts `Shape` (there is one scope per
frame, and a frame's scope has ties of the kinds its position allows) and
`ModuleOwns` (the module scope borrows nothing). The point is that no function
can reach the module scope while it runs, so the copies on the stack cannot go
out of date, and what they borrow is still held when they are popped.

The counts need a second invariant, `Exact == IInv /\ Within /\ Ties /\ CountType
/\ OnlyLocalsAndPopsLeak`. Owners are the cells of two tables, entries of scopes
(`Enter`) and what frames hold (`Holds`), and a step changes one row of each
(`HoldsRow`, `EnterRow`), so that the equation between a count, its owners and
what leaked is a sum over rows. `Within` makes the tables finite; `Ties` says that
an entry without a tie holds nothing that is counted, and that in the module only
the variable of an open comprehension is shared. That `GivenUp` decrements the callee and each argument once is
`DecrefedAll`. Nothing in use is deleted because an exact count of an owned
object is positive, and what is borrowed is owned by someone below
(`NothingInUseIsDeleted`).

### Dicts_proofs

For every set of dicts, keys and values, and displays of any length.
`std::map` requires a strict weak order, which the fallbacks of `PyObjPtrCompare`
and the rounding of integers make doubtful. `LessIsLexicographic` shows what it
compares on scalars of every type and sequences of them: first a group of types,
then a number (the length, for a sequence), which for an integer is the rounded one
if the other side is a `float`. `StrictPartialOrder` follows for all these objects,
since rounding is monotone (`ToDoubleIsMonotone`); `StrictWeakOrder`, which adds that being one
key is transitive, holds for those whose integers a double holds exactly (`Exact`:
all up to 2^53), and would be false of the others. The four invariants need the
partial order only.

* `Ordered`: every map is a strictly increasing sequence of entries. `Insert` puts
  an entry where the order wants it (`Spread` says what a sequence with a gap
  looks like), so insertions by `update`, `|`, displays and stores keep it. With
  it `Find` has at most one place, and an entry that is there is found.
* `Loop`: the iterator is at a key of its dict, behind all keys it has got, and
  every key of the beginning has been got or is at its place or after it. It
  needs `Keeps`, which `NextOrdered` proves with `Ordered`: no step removes a key
  of the dict that is being looped over.
* `Counts`: counts cover the holders, and equal their number until an insertion
  met its key. Holders are pairs of a dict and a place, so that a step on one
  dict changes the part of that dict only (`HoldersSplit`), and `BothUpdate` and
  `BothSetIdx` count what the new map holds more or less than the old one.
* `Meant`: the ghost `meant` is what the maps stand for. Here, and only here, the
  theorem has a hypothesis, `OneKeyIsEqual`: keys that the order cannot tell
  apart are equal in Python, which compares an int with a float exactly
  (`EqualInPython`). Scalars qualify if their integers are exact
  (`ScalarsQualify`); 2^53 + 1 and `2.0^53` do not, nor do two tuples of one length,
  and with those as keys the code is no Python dict (section 6).

### Codegen_proofs

For every set of programs that are well-formed with their nested code objects
(`FromCPython`; `WellFormed` of `CodeObject`) and any data. `TInv(depth)` says of a
translation under way that the operations of all live instructions above are
those of `Handled`, a function of the instruction and of the SSA values before
it; that `meta.stack` has CPython's depth, less the `None` a module does not push;
that the insertion block is open exactly where control may come from above; that
the block of a label has as many arguments as its depth, as soon as the label was
reached or a conditional jump goes to it; and what each fall-through branch
passes. None of these can be proved without the others: a handler finds its
operands because the depth is right, the depth at a label is that of its block,
and the width of the block is set by whichever way comes first. `AcceptedAlways`
follows, and says that a well-formed module, with however many exits, is not
undefined and that the verifier rejects it for one thing only, a `JUMP_FORWARD` over
values (the run `ternary`). It also states `~NoneAsValue`: a `None` of a
well-formed module goes straight to `RETURN_VALUE` (`NoneIsReturned`), so the first
half of `Accepted` excuses nothing here; what that half says of the other modules
is model-checked only. For a module that is accepted,
`Implementation` shows that every step of the compiled program is one of
`EvalStack` on the same operands or a stutter: the values of the SSA values that
are on the stack are, along each way into a block, the values CPython has there.

### Lowering_proofs

For modules of any length, made of any operations of the dialect on any names,
constants and numbers of operands, any depth to which functions are followed, and
any width of integers but 1 (where an integer attribute would be a `BoolAttr`).
`IInv` says how far the front end and the pass have come (`Shape`, `Outcomes`); that
what was converted is supported and a constant became the calls of that constant
(`Converted`); that every call is `Good`, which means that it matches the header of
its function and that its symbols are made as the patterns make them, and that a
declaration has the types of its header (`Declarations`); and that the symbols of
the module are exactly those some call asked for, with the text of one that did
(`Strings`). `CallsMatchRuntime` alone is not inductive: it speaks of the
declaration, and a declaration is taken over from whichever call came first. The
lemmas `...Suits` compare operands and headers, operation by operation; the lemmas
`...Converts` show that each pattern emits good calls or gives up at an unsupported
operation. For the front end, `DecodesAccepted` shows that it refuses no constant
that is supported, and `FollowsAccepted` that it lets no function through that is
nested too deeply. `OwnText` then needs that a symbol determines its text
(`SymbolsDetermine`), which holds but for what `Ambiguous` names, and `Preserved`
that the calls of a constant run back to it. It is a proof by cases over the classes
of constants; the elements of a tuple go the same way each.

### Driver_proofs

For every set of programs, outputs, arguments and every number of arguments, from
`DriverAssumption`: no program's name ends like an intermediate file or is
`a.out`, `-o` may be absent, an argument matches programs only. The inductive
invariant `Sound` is `TypeOK`, `Outcome` (the three properties of the end) and
two facts about the way there: `Progress`, what the variables are at each stage
(in particular that a stage behind an export is reached only if the export was
not the last one asked for), and `Disk`, what has been written so far and by whom.
`Delivered` needs them because the proof that the executable is there at the end
is a proof that the object file was not overwritten between `object` and `link`,
nor the products of `--save-temps` by a later stage. `SourcesAreKept` has a
simpler invariant of its own.

### Shutdown_proofs

For every heap a module may end with, from `HeapAssumption` and
`ShutdownAssumption` (the roots are the names, builtins and lost references, which
are disjoint, and `Nil` is no name). None of the properties is inductive. The
loops of `pyir_destroyModule` leave the pointers in place, so the counts no longer
match the references; `CountsAreExact` says they match those of the entries that
are still to come (`Masked(ref, Gone)`), which is why no entry finds its object
deleted and why what is left at the end is held by a survivor. `ReleaseExact`
shows that a cascade of destructors keeps counts exact, and `MaskedCascade` that
it is the same cascade whether or not the dead entries are masked. After an
exception only `OneOwner` (no object was held twice) makes the second clean-up
safe; `NamesKeep` and `NamesClear` say what its loop has done. `StepsKeepPromise`
proves the steps of the refinement: without sharing, immortal variables and open
scopes, `Shutdown` starts where `ProcessExit` starts and each of its steps is one
of `ProcessExit` or a stutter.

### Induction

The library's induction theorems take an operator, which the provers cannot
instantiate. `Dicts_proofs`, `Driver_proofs` and `Lowering_proofs` begin with what
they need of it, for sets: a set of natural numbers has a least element (from the
well-foundedness of `<`), hence a set with 0 and the successors of its numbers has
them all (`SetInduction`, `UpTo`), and a function on `0..n` is determined by its
value at 0 and a step (`Recursion`, `Within`). With these the proofs reason about
the recursive functions of the models (`Update`, `Built`) and about `FlattenSeq`.

### Only model-checked

Liveness (`Terminates`, `LoopsEnd`, `Ends`, and the fairness that `KeepsPromise`
asks of `Shutdown`) and `ENABLED`, which are beyond the prover; and that no module
with a `None` as a value runs (`Accepted` of the programs in `Refuse`).

## 5. Plan

What is left, in the order of its worth:

1. for `Codegen`, values of globals and attributes that are not called;
2. positions of list, tuple and set iterators against `append`, `extend` and
   `add` in the body of the loop;
3. 64-bit operators against Python's definition.

## 6. Not modelled

* Values of numbers and strings beyond what keys and constants need, arithmetic
  (`logical_runtime.cpp`: division truncates, overflow wraps or is undefined),
  `toString` and formatting, the messages of errors.
* Positions of list, tuple and set iterators. Appending to a list while a loop
  runs over it leaves C++ iterators that may be invalid, so that nothing is
  promised for those programs.
* The embedding of CPython, MLIR, LLVM and the system linker: they are external,
  and appear as the values the code takes from them and as stages that may fail.
* The decoders of varints and exception tables (`bytecode.cpp:40-93`): the table
  is read and "Ignored for now" (`bytecode.cpp:289`).
* The number of arguments of a call: `pyir_call` does not compare it with the
  number of parameters.
* Code objects `WellFormed` excludes: those where a `for` loop's body ends in a
  chained comparison (its `JUMP_FORWARD` brings a value to a label that no
  conditional jump goes to), and those that load a global or an attribute without
  calling it (`LOAD_GLOBAL` and `LOAD_ATTR` push the `NULL` of a call always).
* Functions and sequences of sequences as keys of a dict: two functions of one
  name are the same key to `PyObjPtrCompare`, so `IsPythonDict` is about scalars (and
  integers a double holds exactly, where floats are keys too).
* Input programs whose names end like an intermediate file (`DriverAssumption`).
* Source locations, optimisation and target selection of the compiler.
* Tests, examples, packaging.
