-------------------------------- MODULE Frames --------------------------------
(***************************************************************************)
(* Calls of compiled functions: the scopes of memory_runtime.cpp and       *)
(* function_runtime.cpp.                                                   *)
(*                                                                         *)
(* scopeStack[0] owns a reference to each variable.  A function's scope is *)
(* a copy of it without increfs, parameters are stored into it while       *)
(* pyir_call holds the arguments, and other locals with a reference of     *)
(* their own that nobody gives back.  Nor does POP_TOP give one back: the  *)
(* value of a call that is a statement keeps its reference for ever.       *)
(* Each entry carries a ghost, its tie:                                    *)
(*   "owned"     the entry has a reference                                 *)
(*   "borrowed"  somebody else's reference keeps the object                *)
(*   "shared"    STORE_FAST_LOAD_FAST left one reference to the entry and  *)
(*               to the operand stack                                      *)
(* The NULLs of calls are left out; callees are called with the number of  *)
(* arguments they take, which pyir_call does not verify.                   *)
(***************************************************************************)
EXTENDS Integers, SequencesExt

CONSTANTS
  Name,      \* variables
  Data,      \* cells for objects that hold no others
  Function,  \* function objects
  Params,    \* [Function -> sequence of names]
  Locals,    \* [Function -> set of names]: its fast variables
  None, Unset,
  MaxDepth,  \* bound on the scopes
  MaxStack,  \* bound on a frame's operand stack
  MaxCount   \* bound on the reference counts

Obj   == Data \cup Function
Value == Obj \cup {None}

ASSUME FramesAssumption ==
  /\ IsFiniteSet(Name) /\ None \notin Name
  /\ Data \cap Function = {} /\ None \notin Obj /\ Unset \notin Value
  /\ Params \in [Function -> Seq(Name)] /\ Locals \in [Function -> SUBSET Name]
  /\ \A f \in Function : Range(Params[f]) \subseteq Locals[f] /\ IsInjective(Params[f])
  /\ MaxDepth \in Nat \ {0} /\ MaxStack \in Nat /\ MaxCount \in Nat

VARIABLES
  count,   \* [Obj -> Nat]: reference counts, 0 for a deleted object
  scopes,  \* scopeStack: sequence of [Name -> [val, tie]]
  frames,  \* native calls: [fn, args, stack, saved]
  phase,   \* "running" or "raised"
  leaked   \* ghost: [Obj -> Nat]: references nobody has any more

vars == <<count, scopes, frames, phase, leaked>>

Tie    == {"owned", "borrowed", "shared", "none"}
NoEntry == [val |-> Unset, tie |-> "none"]
NoSaved == [name |-> None, val |-> None]

Depth == Len(frames)
Frame == frames[Depth]
Scope == scopes[Len(scopes)]
Stack == Frame.stack

InModule == Depth = 1

\* The fast variables of the running code: a module has the one of its open
\* comprehension only, and any name may become that one.
Fast      == IF InModule THEN {Frame.saved.name} ELSE Locals[Frame.fn]
Clearable == IF InModule THEN Name ELSE Locals[Frame.fn]

Init ==
  /\ count = [o \in Obj |-> 0]
  /\ scopes = <<[n \in Name |-> NoEntry]>>
  /\ frames = <<[fn |-> None, args |-> <<>>, stack |-> <<>>, saved |-> NoSaved]>>
  /\ phase = "running"
  /\ leaked = [o \in Obj |-> 0]

-------------------------------------------------------------------------------
(* Counting. *)

Increfed(c, v) == IF v \in Obj THEN [c EXCEPT ![v] = @ + 1] ELSE c
Decrefed(c, v) == IF v \in Obj THEN [c EXCEPT ![v] = @ - 1] ELSE c

\* One reference is given up for each time an object occurs in s.
Times(v, s)       == Cardinality({i \in DOMAIN s : s[i] = v})
DecrefedAll(c, s) == [o \in Obj |-> c[o] - Times(o, s)]

Alive(v) == v \in Obj => count[v] > 0
Fresh(o) == count[o] = 0

\* The entry is overwritten or dropped: its own reference is lost.
Lost(l, entry) == IF entry.tie = "owned" THEN Increfed(l, entry.val) ELSE l

Counts(c) == count' = c /\ \A o \in Obj : c[o] <= MaxCount
Stacks(s) == frames' = [frames EXCEPT ![Depth].stack = s] /\ Len(s) <= MaxStack
Enters(n, v, tie) == scopes' = [scopes EXCEPT ![Len(scopes)][n] = [val |-> v, tie |-> tie]]

Running == phase = "running"

-------------------------------------------------------------------------------
(* Operands. *)

LoadConst(v) ==
  /\ Running /\ (v \in Obj => Fresh(v))
  /\ Counts(Increfed(count, v)) /\ Stacks(Append(Stack, v))
  /\ UNCHANGED <<scopes, phase, leaked>>

\* POP_TOP makes no operation: nobody gives up the operand's reference.
PopTop ==
  /\ Running /\ Stack # <<>>
  /\ Stacks(Front(Stack))
  /\ leaked' = Increfed(leaked, Last(Stack))
  /\ UNCHANGED <<count, scopes, phase>>

\* Mutant: the value is not counted.
LoadUncounted(n) ==
  /\ Running /\ Scope[n].val # Unset /\ Alive(Scope[n].val)
  /\ Stacks(Append(Stack, Scope[n].val))
  /\ UNCHANGED <<count, scopes, phase, leaked>>

\* pyir_loadFast and, without a builtin of the name, pyir_loadName.  The entry
\* STORE_FAST_LOAD_FAST shares may be deleted: reading it is not defined.
Load(n) ==
  /\ Running /\ Scope[n].val # Unset /\ Alive(Scope[n].val)
  /\ Counts(Increfed(count, Scope[n].val)) /\ Stacks(Append(Stack, Scope[n].val))
  /\ UNCHANGED <<scopes, phase, leaked>>

\* NameError: nobody catches it, the scopes stay.
LoadUnset(n) ==
  /\ Running /\ Scope[n].val = Unset
  /\ phase' = "raised"
  /\ UNCHANGED <<count, scopes, frames, leaked>>

LoadFast(n)   == n \in Fast /\ (Load(n) \/ LoadUnset(n))
LoadName(n)   == n \notin Fast /\ (Load(n) \/ LoadUnset(n))

-------------------------------------------------------------------------------
(* Variables. *)

StoreName(n) ==
  /\ Running /\ InModule /\ n \notin Fast /\ Stack # <<>>
  /\ Counts(Decrefed(count, Scope[n].val))
  /\ Enters(n, Last(Stack), "owned") /\ Stacks(Front(Stack))
  /\ UNCHANGED <<phase, leaked>>

StoreFast(n) ==
  /\ Running /\ n \in Fast /\ Stack # <<>>
  /\ Enters(n, Last(Stack), "owned") /\ Stacks(Front(Stack))
  /\ leaked' = Lost(leaked, Scope[n])
  /\ UNCHANGED <<count, phase>>

\* The stored value stays on the stack, whatever variable is to be loaded.
StoreFastLoadFast(n) ==
  /\ Running /\ n \in Fast /\ Stack # <<>>
  /\ Enters(n, Last(Stack), "shared")
  /\ leaked' = Lost(leaked, Scope[n])
  /\ UNCHANGED <<count, frames, phase>>

-------------------------------------------------------------------------------
(* Comprehensions save their variable with LOAD_FAST_AND_CLEAR and put it   *)
(* back with STORE_FAST.                                                    *)

LoadFastAndClear(n) ==
  /\ Running /\ Frame.saved = NoSaved /\ n \in Clearable
  /\ Alive(Scope[n].val)
  /\ IF Scope[n].val = Unset
       THEN /\ frames' = [frames EXCEPT ![Depth].saved = [name |-> n, val |-> None]]
            /\ UNCHANGED <<count, scopes, leaked>>
       ELSE /\ frames' = [frames EXCEPT ![Depth].saved = [name |-> n, val |-> Scope[n].val]]
            /\ Counts(Increfed(count, Scope[n].val))
            /\ Enters(n, None, "none")
            /\ leaked' = Lost(leaked, Scope[n])
  /\ UNCHANGED phase

Restore ==
  /\ Running /\ Frame.saved # NoSaved
  /\ Enters(Frame.saved.name, Frame.saved.val, "owned")
  /\ frames' = [frames EXCEPT ![Depth].saved = NoSaved]
  /\ leaked' = Lost(leaked, Scope[Frame.saved.name])
  /\ UNCHANGED <<count, phase>>

-------------------------------------------------------------------------------
(* Calls. *)

Borrowed(entry) == IF entry.tie = "owned" THEN [entry EXCEPT !.tie = "borrowed"] ELSE entry

\* Mutant: the symbols of the calling scope.
PushedScopeOfCaller == [n \in Name |-> Borrowed(Scope[n])]

\* pyir_pushScope: the symbols of the module scope.
PushedScope == [n \in Name |-> Borrowed(scopes[1][n])]

\* The preamble stores each argument under its parameter's name.
WithParameters(scope, params, args) ==
  [n \in Name |-> IF \E i \in DOMAIN params : params[i] = n
                  THEN [val |-> args[CHOOSE i \in DOMAIN params : params[i] = n], tie |-> "borrowed"]
                  ELSE scope[n]]

Callee(f) == Running /\ Depth < MaxDepth /\ Len(Stack) > Len(Params[f]) /\ Stack[Len(Stack) - Len(Params[f])] = f

\* Mutant: the arguments are decremented before the function runs.
CallDecrefsFirst(f) ==
  LET n    == Len(Params[f])
      args == SubSeq(Stack, Len(Stack) - n + 1, Len(Stack))
  IN  /\ Callee(f)
      /\ Counts(DecrefedAll(count, args))
      /\ frames' = Append([frames EXCEPT ![Depth].stack = SubSeq(@, 1, Len(@) - n - 1)],
                          [fn |-> f, args |-> <<>>, stack |-> <<>>, saved |-> NoSaved])
      /\ scopes' = Append(scopes, WithParameters(PushedScope, Params[f], args))
      /\ UNCHANGED <<phase, leaked>>

\* pyir_call up to the end of the preamble.
Call(f) ==
  LET n    == Len(Params[f])
      args == SubSeq(Stack, Len(Stack) - n + 1, Len(Stack))
  IN  /\ Callee(f)
      /\ frames' = Append([frames EXCEPT ![Depth].stack = SubSeq(@, 1, Len(@) - n - 1)],
                          [fn |-> f, args |-> args, stack |-> <<>>, saved |-> NoSaved])
      /\ scopes' = Append(scopes, WithParameters(PushedScope, Params[f], args))
      /\ UNCHANGED <<count, phase, leaked>>

\* What pyir_call gives up when the function has returned.
\* Mutant: not the callee.
GivenUpArguments == Frame.args

GivenUp == Append(Frame.args, Frame.fn)

\* Mutant: the scope stays.
PoppedNothing == scopes

Popped == Front(scopes)

\* pyir_popScope, the return, and the rest of pyir_call.
Return ==
  /\ Running /\ ~InModule /\ Len(Stack) = 1 /\ Frame.saved = NoSaved
  /\ Counts(DecrefedAll(count, GivenUp))
  /\ scopes' = Popped
  /\ leaked' = [o \in Obj |-> leaked[o] + Cardinality({n \in Name : Scope[n] = [val |-> o, tie |-> "owned"]})]
  /\ frames' = [Front(frames) EXCEPT ![Depth - 1].stack = Append(@, Stack[1])]
  /\ Len(frames'[Depth - 1].stack) <= MaxStack
  /\ UNCHANGED phase

-------------------------------------------------------------------------------
Next ==
  \/ \E v \in Value : LoadConst(v)    \* MakeFunction for a function
  \/ PopTop \/ Restore \/ Return
  \/ \E n \in Name :
       LoadFast(n) \/ LoadName(n) \/ StoreName(n) \/ StoreFast(n) \/ StoreFastLoadFast(n) \/ LoadFastAndClear(n)
  \/ \E f \in Function : Call(f)

Spec == Init /\ [][Next]_vars

-------------------------------------------------------------------------------
(* Properties. *)

Entry == [val : Value \cup {Unset}, tie : Tie]

TypeOK ==
  /\ count \in [Obj -> 0..MaxCount] /\ leaked \in [Obj -> Nat]
  /\ scopes \in Seq([Name -> Entry]) /\ Len(scopes) = Depth
  /\ Depth \in 1..MaxDepth
  /\ \A k \in 1..Depth :
       /\ frames[k].fn \in Function \cup {None} /\ frames[k].args \in Seq(Value) /\ frames[k].stack \in Seq(Value)
       /\ frames[k].saved \in [name : Name \cup {None}, val : Value]
  /\ phase \in {"running", "raised"}

\* Everything a frame k has a reference to: what it was called with, its operands
\* and the variable it saved.
Held(k) == <<frames[k].fn>> \o frames[k].args \o frames[k].stack \o <<frames[k].saved.val>>

\* An object in a frame's hands, or in an entry that is not shared, is alive: a
\* function may rebind its parameters, drop its operands and call others, and still
\* no argument or global vanishes under it (function_runtime.cpp:14-62).
OnlySharedDangle ==
  \A k \in 1..Depth :
    /\ \A i \in DOMAIN Held(k) : Alive(Held(k)[i])
    /\ \A n \in Name : scopes[k][n].tie # "shared" => Alive(scopes[k][n].val)

\* What the scopes borrow outlives them: the entry still is the module's, or the
\* call's argument.
BorrowedIsHeld ==
  \A k \in 1..Depth, n \in Name :
    scopes[k][n].tie = "borrowed" =>
      \/ k > 1 /\ scopes[1][n] = [val |-> scopes[k][n].val, tie |-> "owned"]
      \/ scopes[k][n].val \in Range(frames[k].args)

\* A function reads the current globals although its scope is a copy made at the
\* call: no code of the module runs, and nobody else stores into its scope, before
\* it has returned.
GlobalsCurrent ==
  \A k \in 2..Depth : \A n \in Name \ Locals[frames[k].fn] : scopes[k][n].val = scopes[1][n].val

Owners(o) ==
  Cardinality({p \in (1..Depth) \X Name : scopes[p[1]][p[2]] = [val |-> o, tie |-> "owned"]})
    + Cardinality({p \in (1..Depth) \X (1..(2 * MaxStack + 2)) :
                     p[2] \in DOMAIN Held(p[1]) /\ Held(p[1])[p[2]] = o})

\* Counts are exact: a reference is lost where POP_TOP discards an operand, and where
\* a fast variable is overwritten or goes out of scope with a value stored into it
\* (pyir_codegen.cpp:147, memory_runtime.cpp:54-59), only that one reference and
\* nowhere else, however calls are nested.
OnlyLocalsAndPopsLeak == \A o \in Obj : count[o] = Owners(o) + leaked[o]
===============================================================================
