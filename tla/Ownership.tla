------------------------------ MODULE Ownership ------------------------------
(***************************************************************************)
(* Who owns which reference while compiled module-level code runs.         *)
(*                                                                         *)
(* The compiler turns each bytecode instruction into one call of the pystd *)
(* runtime, and its operands are SSA values.  Every entry point has a      *)
(* convention: the values it takes over, the ones it only reads, and the   *)
(* new reference it returns.  The model keeps, for every place that owns a *)
(* reference, the object it refers to, and the refcount of every heap      *)
(* cell; an action is one runtime call (or one compile-time stack          *)
(* operation that changes which SSA values exist).  What objects contain   *)
(* is kept only as references; the values of numbers and strings, and the  *)
(* order of elements, are not.                                             *)
(*                                                                         *)
(* Uses is the set of instructions the compiled program contains.          *)
(***************************************************************************)
EXTENDS RefCounts, Functions

CONSTANTS
  Name,      \* variables of the module scope, scopeStack[0]
  Builtin,   \* entries of builtinFuncs
  Temp,      \* SSA values in flight, the simulated evaluation stack
  MaxLoops,  \* bound: depth of nested for loops
  MaxRefs,   \* bound: the largest refcount
  Uses       \* instructions of the program

LoopPlace == {"loop"} \X (1..MaxLoops)   \* entries of iterStack

ASSUME OwnershipAssumption ==
  /\ MaxLoops \in Nat /\ MaxRefs \in Nat \ {0}
  /\ Root = Name \cup Builtin \cup Temp \cup LoopPlace
  /\ Name \cap Builtin = {} /\ Name \cap Temp = {} /\ Builtin \cap Temp = {}
  /\ LoopPlace \cap (Name \cup Builtin \cup Temp) = {}

VARIABLES
  kind,     \* [Obj -> Kind]: the dynamic type of the object in a cell
  rc,       \* [Obj -> Nat]: PyObj::refcount, 0 for a deleted object
  ref,      \* [Place -> Value]
  loops,    \* iterStack.size()
  open,     \* iterStack entries whose loop is still running
  phase,    \* "running", "exited" or "raised" (an exception left the module)
  overrun,  \* ghost: objects decremented after their deletion
  aliased,  \* ghost: objects an instruction gave a second owner, uncounted
  leaked    \* ghost: objects an owner of which vanished without a decref

vars == <<kind, rc, ref, loops, open, phase, overrun, aliased, leaked>>

Kind       == {"free", "leaf", "list", "tuple", "set", "method", "iter"}
Containers == {"list", "tuple", "set"}

Loop(k)    == <<"loop", k>>
Occupied(o) == {f \in Fields({o}) : ref[f] # Nil}
Vacant(o)   == {f \in Fields({o}) : ref[f] = Nil}
Is(t, K)    == ref[t] \in Obj /\ kind[ref[t]] \in K

\* PyObjPtrHash calls hash(), which throws for these (py_list.cpp:112, py_set.cpp:82).
Hashable(v) == v \in Obj => kind[v] \notin {"list", "set", "method"}

\* Instructions whose runtime call gives an object one more owner without an
\* incref: COPY, int() and float() of a number, tuple +, a builtin as a value.
Aliasing == {"COPY", "CALL_INT", "TUPLE_ADD", "LOAD_BUILTIN"}

(***************************************************************************)
(* Using a reference that dangles, or a count that was overrun, is         *)
(* undefined behaviour: the model describes the program up to that point.  *)
(***************************************************************************)
Defined == overrun = {} /\ Dangling(ref, rc) = {}

Does(instruction) == phase = "running" /\ Defined /\ instruction \in Uses

(***************************************************************************)
(* The effect of one call: the references and counts r, c (and types k)    *)
(* after its pointer writes, increfs and allocations, then the decref of   *)
(* every place in drop with the destructors that sets off.  dup are the    *)
(* objects it hands a second owner without counting it, lost those it      *)
(* takes an owner from without a decref.                                   *)
(***************************************************************************)
Effect(r, c, k, drop, dup, lost) ==
  LET born == {o \in Obj : rc[o] = 0 /\ c[o] # 0}
  IN  /\ ref'     = RefsAfter(r, c, drop)
      /\ rc'      = CountsAfter(r, c, drop)
      /\ \A o \in Obj : rc'[o] <= MaxRefs
      /\ kind'    = [o \in Obj |-> IF rc'[o] = 0 THEN "free" ELSE k[o]]
      /\ overrun' = overrun \cup Overrun(r, c, drop)
      /\ aliased' = (aliased \ born) \cup (dup \cap Obj)
      /\ leaked'  = (leaked \ born) \cup (lost \cap Obj)

\* A call that leaves the loops and the phase alone.
Call(r, c, k, drop) == Effect(r, c, k, drop, {}, {}) /\ UNCHANGED <<loops, open, phase>>

\* operator new: a cell that holds no object, and its type.
Fresh(o)   == rc[o] = 0
Typed(o, K) == [kind EXCEPT ![o] = K]
With(r, t, v) == [r EXCEPT ![t] = v]

Init ==
  /\ \E table \in Injection(Builtin, Obj) :
        /\ ref  = [p \in Place |-> IF p \in Builtin THEN table[p] ELSE Nil]
        /\ rc   = [o \in Obj |-> IF \E b \in Builtin : table[b] = o THEN 1 ELSE 0]
        /\ kind = [o \in Obj |-> IF \E b \in Builtin : table[b] = o THEN "leaf" ELSE "free"]
  /\ loops = 0 /\ open = {}
  /\ phase = "running"
  /\ overrun = {} /\ aliased = {} /\ leaked = {}

-------------------------------------------------------------------------------
(* Loads, stores and the compile-time stack operations.                      *)

\* pyir_loadConst* of a number or string, and pyir_makeFunction: a new object.
LoadConst(o, t) ==
  /\ Does("LOAD_CONST") /\ Fresh(o) /\ ref[t] = Nil
  /\ Call(Placed(ref, o, t), Counted(rc, o), Typed(o, "leaf"), {})

\* pyir_loadConstBool, pyir_loadConstNone.
LoadImmortal(v, t) ==
  /\ Does("LOAD_CONST") /\ ref[t] = Nil
  /\ Call(With(ref, t, v), rc, kind, {})

\* Mutant: the loaded reference is not counted.
LoadNameUncounted(n, t) ==
  /\ Does("LOAD_NAME") /\ ref[n] # Nil /\ ref[t] = Nil
  /\ Call(Copied(ref, [p \in {t} |-> n]), rc, kind, {})

\* pyir_loadName of a variable of the module.
LoadName(n, t) ==
  /\ Does("LOAD_NAME") /\ ref[n] # Nil /\ ref[t] = Nil
  /\ LET from == [p \in {t} |-> n]
     IN  Call(Copied(ref, from), Increfed(ref, rc, from), kind, {})

\* pyir_loadName of a builtin used as a value (p = print): no incref.
LoadBuiltin(b, t) ==
  /\ Does("LOAD_BUILTIN") /\ ref[b] # Nil /\ ref[t] = Nil
  /\ Effect(Copied(ref, [p \in {t} |-> b]), rc, kind, {}, {ref[b]}, {})
  /\ UNCHANGED <<loops, open, phase>>

\* Mutant: the old value is overwritten without a decref.
StoreNameForgets(n, t) ==
  /\ Does("STORE_NAME") /\ ref[t] # Nil
  /\ Call(Moved(ref, [p \in {n} |-> t]), rc, kind, {})

\* pyir_storeName: the old value is decremented, the new one moves in.
StoreName(n, t) ==
  /\ Does("STORE_NAME") /\ ref[t] # Nil
  /\ Call(Swapped(ref, n, t), rc, kind, {t})

\* POP_TOP only forgets the SSA value; no call is emitted.
PopTop(t) ==
  /\ Does("POP_TOP") /\ ref[t] # Nil
  /\ Effect(With(ref, t, Nil), rc, kind, {}, {}, {ref[t]})
  /\ UNCHANGED <<loops, open, phase>>

\* COPY pushes the same SSA value again; no call is emitted.
CopyTop(t, u) ==
  /\ Does("COPY") /\ ref[t] # Nil /\ ref[u] = Nil
  /\ Effect(Copied(ref, [p \in {u} |-> t]), rc, kind, {}, {ref[t]}, {})
  /\ UNCHANGED <<loops, open, phase>>

-------------------------------------------------------------------------------
(* Construction of containers.                                               *)

\* Mutant: the parts are counted again, as append() does.
BuildSequenceIncrefs(o, K, from, t) ==
  /\ Does("BUILD_LIST") /\ Fresh(o) /\ ref[t] = Nil
  /\ \A f \in DOMAIN from : ref[from[f]] # Nil
  /\ Call(Placed(Moved(ref, from), o, t), Counted(Increfed(ref, rc, from), o), Typed(o, K), {})

\* pyir_buildList and pyir_loadConstTuple: the parts move into the new object o.
BuildSequence(o, K, from, t) ==
  /\ Does("BUILD_LIST") /\ Fresh(o) /\ ref[t] = Nil
  /\ \A f \in DOMAIN from : ref[from[f]] # Nil
  /\ Call(Placed(Moved(ref, from), o, t), Counted(rc, o), Typed(o, K), {})

(***************************************************************************)
(* pyir_buildSet: insert() keeps one of several equal parts; the parts it  *)
(* rejects (dups) are neither stored nor decremented.  A part is rejected  *)
(* only in favour of an inserted one, and always when it is the very       *)
(* object already inserted.                                                *)
(***************************************************************************)
BuildSet(o, from, dups, t) ==
  /\ Does("BUILD_SET") /\ Fresh(o) /\ ref[t] = Nil
  /\ LET kept == {from[f] : f \in DOMAIN from}
     IN  /\ \A p \in kept \cup dups : ref[p] # Nil /\ Hashable(ref[p])
         /\ \A p, q \in kept : ref[p] = ref[q] => p = q
         /\ dups # {} => kept # {} /\ t \notin dups
         /\ LET moved  == Moved(ref, from)
                forgot == [p \in Place |-> IF p \in dups THEN Nil ELSE moved[p]]
            IN  Effect(Placed(forgot, o, t), Counted(rc, o), Typed(o, "set"), {},
                       {}, {ref[p] : p \in dups})
  /\ UNCHANGED <<loops, open, phase>>

\* list(x), tuple(x), set(x): valueToList / valueToSet take a counted
\* reference to every element (a set: to one of several equal ones).
ConvertContainer(u, o, K, from, t) ==
  /\ Does("CALL_CONVERT") /\ Is(u, Containers) /\ Fresh(o) /\ ref[t] = Nil
  /\ IF K = "set"
     THEN /\ from \in Injection(DOMAIN from, Occupied(ref[u]))
          /\ Occupied(ref[u]) # {} => DOMAIN from # {}
          /\ \A f \in Occupied(ref[u]) : Hashable(ref[f])
          /\ \A f, g \in DOMAIN from : ref[from[f]] = ref[from[g]] => f = g
     ELSE from \in Bijection(DOMAIN from, Occupied(ref[u]))
  /\ Call(Placed(Copied(ref, from), o, t), Counted(Increfed(ref, rc, from), o),
          Typed(o, K), {u})

-------------------------------------------------------------------------------
(* Operators and calls: they give up their operands and return a reference.  *)

\* The result of a call that reads its operands and returns something new:
\* a new leaf object o, or an immortal one.
Returns(operands, t, o, v) ==
  /\ \A p \in operands : ref[p] # Nil
  /\ ref[t] = Nil
  /\ \/ /\ Fresh(o)
        /\ Call(Placed(ref, o, t), Counted(rc, o), Typed(o, "leaf"), operands)
     \/ Call(With(ref, t, v), rc, kind, operands)

\* pyir_add ... pyir_mod on numbers and strings.
Arithmetic(l, r, t, o) ==
  /\ Does("BINARY_OP") /\ l # r
  /\ \A p \in {l, r} : Is(p, {"leaf"})
  /\ ref[t] = Nil /\ Fresh(o)
  /\ Call(Placed(ref, o, t), Counted(rc, o), Typed(o, "leaf"), {l, r})

\* pyir_in, pyir_eq ... pyir_ge: the result is PyBool::True or PyBool::False.
Compare(l, r, t, v) ==
  /\ Does("COMPARE_OP") /\ l # r /\ ref[l] # Nil /\ ref[r] # Nil /\ ref[t] = Nil
  /\ Call(With(ref, t, v), rc, kind, {l, r})

\* pyir_unaryNegative, pyir_unaryNot, pyir_unaryInvert, pyir_toBool, pyir_formatSimple.
Unary(u, t, o, v) == Does("UNARY_OP") /\ Returns({u}, t, o, v)

\* pyir_isTruthy: the operand becomes a branch condition.
IsTruthy(u) == Does("POP_JUMP") /\ ref[u] # Nil /\ Call(ref, rc, kind, {u})

\* Mutant: pyir_call decrements the arguments a builtin has already decremented.
CallBuiltinDecrefsTwice(args, t, o, v) ==
  /\ Does("CALL_BUILTIN") /\ \A p \in args : ref[p] # Nil
  /\ ref[t] = Nil
  /\ Call(With(ref, t, v), [q \in Obj |-> rc[q] - Decrefs(ref, args, q)], kind, args)

\* print, len, str, bool, type, range with no elements: builtins that only
\* read their arguments and decref them.  The callee is not decremented.
CallBuiltin(args, t, o, v) == Does("CALL_BUILTIN") /\ Returns(args, t, o, v)

\* int(x) of an int and float(x) of a float: the argument is the result, and
\* is decremented as an argument all the same.
CallIdentity(u, t) ==
  /\ Does("CALL_INT") /\ Is(u, {"leaf"}) /\ ref[t] = Nil
  /\ Effect(Copied(ref, [p \in {t} |-> u]), rc, kind, {u}, {ref[u]}, {})
  /\ UNCHANGED <<loops, open, phase>>

\* pyir_add on two lists: extend() takes a counted reference to every element.
ListConcat(l, r, o, from, t) ==
  /\ Does("BINARY_OP") /\ l # r /\ Is(l, {"list"}) /\ Is(r, {"list"})
  /\ Fresh(o) /\ ref[t] = Nil
  /\ from \in Surjection(DOMAIN from, Occupied(ref[l]) \cup Occupied(ref[r]))
  /\ Cardinality(DOMAIN from)
       = Cardinality(Occupied(ref[l])) + Cardinality(Occupied(ref[r]))
  /\ Call(Placed(Copied(ref, from), o, t), Counted(Increfed(ref, rc, from), o),
          Typed(o, "list"), {l, r})

\* pyir_add on two tuples: the element pointers are copied, with no incref.
TupleConcat(l, r, o, from, t) ==
  /\ Does("TUPLE_ADD") /\ l # r /\ Is(l, {"tuple"}) /\ Is(r, {"tuple"})
  /\ Fresh(o) /\ ref[t] = Nil
  /\ from \in Surjection(DOMAIN from, Occupied(ref[l]) \cup Occupied(ref[r]))
  /\ Cardinality(DOMAIN from)
       = Cardinality(Occupied(ref[l])) + Cardinality(Occupied(ref[r]))
  /\ Effect(Placed(Copied(ref, from), o, t), Counted(rc, o), Typed(o, "tuple"), {l, r},
            {ref[from[f]] : f \in DOMAIN from}, {})
  /\ UNCHANGED <<loops, open, phase>>

\* pyir_pipe, pyir_ampersand, pyir_sub, pyir_xor on two sets: a new set of
\* some of their elements, each counted once.
SetOperator(l, r, o, from, t) ==
  /\ Does("BINARY_OP") /\ l # r /\ Is(l, {"set"}) /\ Is(r, {"set"})
  /\ Fresh(o) /\ ref[t] = Nil
  /\ from \in Injection(DOMAIN from, Occupied(ref[l]) \cup Occupied(ref[r]))
  /\ \A f, g \in DOMAIN from : ref[from[f]] = ref[from[g]] => f = g
  /\ Call(Placed(Copied(ref, from), o, t), Counted(Increfed(ref, rc, from), o),
          Typed(o, "set"), {l, r})

\* pyir_idx on a list or tuple: the element is returned counted.
Index(u, i, f, t) ==
  /\ Does("BINARY_SUBSCR") /\ u # i /\ Is(u, {"list", "tuple"}) /\ Is(i, {"leaf"})
  /\ f \in Occupied(ref[u]) /\ ref[t] = Nil
  /\ LET from == [p \in {t} |-> f]
     IN  Call(Copied(ref, from), Increfed(ref, rc, from), kind, {u, i})

\* Mutant: the value that moved into the list is decremented as an operand.
StoreSubscrDecrefsValue(u, i, f, w) ==
  /\ Does("STORE_SUBSCR") /\ Cardinality({u, i, w}) = 3
  /\ Is(u, {"list"}) /\ Is(i, {"leaf"}) /\ ref[w] # Nil
  /\ f \in Occupied(ref[u])
  /\ Call(Copied(ref, [p \in {f} |-> w]), rc, kind, {u, i, w})

\* pyir_storeSubscr on a list: the old element is decremented, the value
\* moves into its place.
StoreSubscr(u, i, f, w) ==
  /\ Does("STORE_SUBSCR") /\ Cardinality({u, i, w}) = 3
  /\ Is(u, {"list"}) /\ Is(i, {"leaf"}) /\ ref[w] # Nil
  /\ f \in Occupied(ref[u])
  /\ Call(Swapped(ref, f, w), rc, kind, {u, i, w})

-------------------------------------------------------------------------------
(* Methods of lists and sets, and the instructions of comprehensions.        *)

\* Mutant: the operand is not decremented.
LoadAttrKeepsOperand(u, o, f, t) ==
  /\ Does("LOAD_ATTR") /\ Is(u, {"list", "set"}) /\ Fresh(o) /\ ref[t] = Nil
  /\ f \in Fields({o})
  /\ LET from == [p \in {f} |-> u]
     IN  Call(With(Placed(Copied(ref, from), o, t), u, Nil),
              Counted(Increfed(ref, rc, from), o), Typed(o, "method"), {})

\* pyir_loadAttr: a bound method that owns a reference to its self.
LoadAttr(u, o, f, t) ==
  /\ Does("LOAD_ATTR") /\ Is(u, {"list", "set"}) /\ Fresh(o) /\ ref[t] = Nil
  /\ f \in Fields({o})
  /\ LET from == [p \in {f} |-> u]
     IN  Call(Placed(Copied(ref, from), o, t), Counted(Increfed(ref, rc, from), o),
              Typed(o, "method"), {u})

\* The object a bound method was looked up on.
Selves(m) == IF Is(m, {"method"}) THEN {ref[f] : f \in Occupied(ref[m])} \cap Obj ELSE {}

\* PyList::append, PySet::add: the element is stored at B (nowhere when the
\* set has an equal one) and counted.
AddsOne(d, a, B) ==
  /\ B \subseteq Vacant(d)
  /\ \/ kind[d] = "list" /\ Cardinality(B) = 1
     \/ /\ kind[d] = "set" /\ Hashable(ref[a])
        /\ Cardinality(B) <= 1
        /\ B = {} => Occupied(d) # {}
        /\ B # {} => \A f \in Occupied(d) : ref[f] # ref[a]

\* PyList::extend, PySet::update: every element of s (a set: the ones it has
\* no equal of) is stored and counted.
AddsAll(d, s, from) ==
  /\ DOMAIN from \subseteq Vacant(d)
  /\ \/ kind[d] = "list" /\ from \in Bijection(DOMAIN from, Occupied(s))
     \/ /\ kind[d] = "set" /\ from \in Injection(DOMAIN from, Occupied(s))
        /\ \A f \in Occupied(s) : Hashable(ref[f])
        /\ Occupied(d) = {} /\ Occupied(s) # {} => DOMAIN from # {}
        /\ \A f \in DOMAIN from : \A g \in Occupied(d) : ref[g] # ref[from[f]]
        /\ \A f, g \in DOMAIN from : ref[from[f]] = ref[from[g]] => f = g

\* pyir_call of a bound append or add: it returns None, then the argument and
\* the callee are decremented.
CallAdd(m, d, a, B, t, none) ==
  /\ Does("CALL_METHOD") /\ m # a /\ d \in Selves(m) /\ ref[a] # Nil /\ ref[t] = Nil
  /\ AddsOne(d, a, B)
  /\ LET from == [p \in B |-> a]
     IN  Call(With(Copied(ref, from), t, none), Increfed(ref, rc, from), kind, {m, a})

\* pyir_call of a bound extend or update.
CallExtend(m, d, a, from, t, none) ==
  /\ Does("CALL_METHOD") /\ m # a /\ d \in Selves(m) /\ Is(a, Containers) /\ ref[t] = Nil
  /\ d # ref[a] /\ AddsAll(d, ref[a], from)
  /\ Call(With(Copied(ref, from), t, none), Increfed(ref, rc, from), kind, {m, a})

\* Mutant: the item is stored without a count of its own.
AppendItemUncounted(d, a, B) ==
  /\ Does("LIST_APPEND") /\ d # a /\ Is(d, {"list", "set"}) /\ ref[a] # Nil
  /\ AddsOne(ref[d], a, B)
  /\ Call(Copied(ref, [p \in B |-> a]), rc, kind, {a})

\* pyir_listAppend, pyir_setAdd: the container stays on the stack.
AppendItem(d, a, B) ==
  /\ Does("LIST_APPEND") /\ d # a /\ Is(d, {"list", "set"}) /\ ref[a] # Nil
  /\ AddsOne(ref[d], a, B)
  /\ LET from == [p \in B |-> a]
     IN  Call(Copied(ref, from), Increfed(ref, rc, from), kind, {a})

\* pyir_listExtend, pyir_setUpdate.
ExtendItems(d, a, from) ==
  /\ Does("LIST_EXTEND") /\ d # a /\ Is(d, {"list", "set"}) /\ Is(a, Containers)
  /\ ref[d] # ref[a] /\ AddsAll(ref[d], ref[a], from)
  /\ Call(Copied(ref, from), Increfed(ref, rc, from), kind, {a})

-------------------------------------------------------------------------------
(* Loops: iterStack owns the iterator, the iterator owns its container.      *)

\* The entry of the innermost loop that is running.
Innermost == CHOOSE k \in open : \A j \in open : j <= k

\* pyir_getIter: the iterator takes a counted reference, the operand goes.
GetIter(u, o, f) ==
  /\ Does("GET_ITER") /\ Is(u, Containers) /\ Fresh(o) /\ f \in Fields({o})
  /\ loops < MaxLoops
  /\ LET from == [p \in {f} |-> u]
     IN  Effect(Placed(Copied(ref, from), o, Loop(loops + 1)),
                Counted(Increfed(ref, rc, from), o), Typed(o, "iter"), {u}, {}, {})
  /\ loops' = loops + 1 /\ open' = open \cup {loops'}
  /\ UNCHANGED phase

\* Mutant: the iterator keeps the incref of pyir_forIter.
ForIterKeepsIncref(f, e, t) ==
  /\ Does("GET_ITER") /\ open # {} /\ ref[t] = Nil
  /\ Is(Loop(Innermost), {"iter"}) /\ f \in Occupied(ref[Loop(Innermost)])
  /\ e \in Occupied(ref[f])
  /\ LET from == [p \in {t} |-> e]
         more == Increfed(ref, rc, from)
     IN  Call(Copied(ref, from), [more EXCEPT ![ref[Loop(Innermost)]] = @ + 1], kind, {})

\* pyir_forIter with a next element: the incref and decref of the iterator
\* cancel out, the element is returned counted.
ForIter(f, e, t) ==
  /\ Does("GET_ITER") /\ open # {} /\ ref[t] = Nil
  /\ Is(Loop(Innermost), {"iter"}) /\ f \in Occupied(ref[Loop(Innermost)])
  /\ e \in Occupied(ref[f])
  /\ LET from == [p \in {t} |-> e]
     IN  Call(Copied(ref, from), Increfed(ref, rc, from), kind, {})

\* pyir_popIter when its decref deletes the iterator: it pops the last entry
\* of iterStack, which is not the loop's own when a break left one above it.
PopIter ==
  /\ Does("GET_ITER") /\ loops > 0 /\ open # {}
  /\ rc[ref[Loop(loops)]] = 1
  /\ Effect(ref, rc, kind, {Loop(loops)}, {}, {})
  /\ loops' = loops - 1 /\ open' = open \ {Innermost}
  /\ UNCHANGED phase

\* break: the SSA value of the iterator is popped (POP_TOP) and the loop is
\* left, without pyir_popIter.
Break ==
  /\ Does("BREAK") /\ open # {}
  /\ open' = open \ {Innermost}
  /\ UNCHANGED <<kind, rc, ref, loops, phase, overrun, aliased, leaked>>

-------------------------------------------------------------------------------
(* The two ways out of the module.                                           *)

\* A call fails, having given up some of its operands (all of them in the
\* operators, none of them in a method or pyir_in); the exception abandons
\* every other SSA value and iterStack entry without a decref.
Raise(operands) ==
  /\ Does("RAISE")
  /\ \A p \in operands : ref[p] # Nil
  /\ LET lost  == {p \in (Temp \cup LoopPlace) \ operands : ref[p] # Nil}
         after == [p \in Place |-> IF p \in lost THEN Nil ELSE ref[p]]
     IN  Effect(after, rc, kind, operands, {}, {ref[p] : p \in lost})
  /\ phase' = "raised"
  /\ UNCHANGED <<loops, open>>

\* RETURN_VALUE of the module with an empty stack: pyir_destroyModule.
Finish ==
  /\ phase = "running" /\ Defined /\ open = {}
  /\ \A t \in Temp : ref[t] = Nil
  /\ Effect(ref, rc, kind, {p \in Name \cup Builtin : ref[p] # Nil}, {}, {})
  /\ phase' = "exited"
  /\ UNCHANGED <<loops, open>>

-------------------------------------------------------------------------------
\* Functions that fill some fields of o from places in S.
Fillings(o, S) == UNION {[B -> S] : B \in SUBSET Vacant(o)}

\* The same, from distinct places.
Transfers(o, S) == UNION {Injection(B, S) : B \in SUBSET Vacant(o)}

ElementsOf(t) == IF ref[t] \in Obj THEN Occupied(ref[t]) ELSE {}

Empty  == {t \in Temp : ref[t] = Nil}
Values == {t \in Temp : ref[t] # Nil}
Heap   == {t \in Temp : ref[t] \in Obj}

StackStep ==
  \E t \in Temp :
     \/ \E o \in Obj : LoadConst(o, t)
     \/ \E v \in Immortal : LoadImmortal(v, t)
     \/ \E n \in Name : LoadName(n, t)
     \/ \E b \in Builtin : LoadBuiltin(b, t)
     \/ \E n \in Name : StoreName(n, t)
     \/ PopTop(t)
     \/ \E u \in Temp : CopyTop(t, u)

BuildStep ==
  \E o \in Obj \ Live(rc), t \in Empty :
     \/ \E K \in {"list", "tuple"} : \E from \in Transfers(o, Values) :
          BuildSequence(o, K, from, t)
     \/ \E from \in Transfers(o, Values) :
          \E dups \in SUBSET {u \in Values : \A f \in DOMAIN from : from[f] # u} :
             BuildSet(o, from, dups, t)
     \/ \E u \in Heap, K \in Containers : \E from \in Transfers(o, Occupied(ref[u])) :
          ConvertContainer(u, o, K, from, t)

OperatorStep ==
  \/ \E t \in Empty :
        \/ \E l, r \in Heap, o \in Obj : Arithmetic(l, r, t, o)
        \/ \E l, r \in Values, v \in Immortal : Compare(l, r, t, v)
        \/ \E u \in Values, o \in Obj, v \in Immortal : Unary(u, t, o, v)
        \/ \E args \in SUBSET Values, o \in Obj, v \in Immortal : CallBuiltin(args, t, o, v)
        \/ \E u \in Heap : CallIdentity(u, t)
        \/ \E l, r \in Heap, o \in Obj \ Live(rc) :
             \E from \in Fillings(o, Occupied(ref[l]) \cup Occupied(ref[r])) :
                \/ ListConcat(l, r, o, from, t)
                \/ TupleConcat(l, r, o, from, t)
                \/ SetOperator(l, r, o, from, t)
        \/ \E u, i \in Heap : \E f \in Occupied(ref[u]) : Index(u, i, f, t)
  \/ \E t \in Values : IsTruthy(t)
  \/ \E t, i, w \in Temp : \E f \in ElementsOf(t) : StoreSubscr(t, i, f, w)

MethodStep ==
  \/ \E u \in Heap, t \in Empty, o \in Obj : \E f \in Fields({o}) : LoadAttr(u, o, f, t)
  \/ \E m \in Heap, a \in Values, t \in Empty, none \in Immortal : \E d \in Selves(m) :
        \/ \E B \in SUBSET Vacant(d) : CallAdd(m, d, a, B, t, none)
        \/ \E from \in Transfers(d, ElementsOf(a)) : CallExtend(m, d, a, from, t, none)
  \/ \E d \in Heap, a \in Values :
        \/ \E B \in SUBSET Vacant(ref[d]) : AppendItem(d, a, B)
        \/ \E from \in Transfers(ref[d], ElementsOf(a)) : ExtendItems(d, a, from)

LoopStep ==
  \/ \E u \in Temp, o \in Obj : \E f \in Fields({o}) : GetIter(u, o, f)
  \/ \E t \in Temp, f \in Obj \X Slot, e \in Obj \X Slot : ForIter(f, e, t)
  \/ PopIter
  \/ Break

Next ==
  \/ StackStep \/ BuildStep \/ OperatorStep \/ MethodStep \/ LoopStep
  \/ \E operands \in SUBSET Temp : Raise(operands)
  \/ Finish

Spec == Init /\ [][Next]_vars

-------------------------------------------------------------------------------
\* The types of the variables; a cell has a type exactly while it is counted,
\* and a deleted object has no fields.
TypeOK ==
  /\ kind \in [Obj -> Kind] /\ rc \in [Obj -> Nat] /\ ref \in [Place -> Value]
  /\ loops \in 0..MaxLoops /\ open \subseteq 1..MaxLoops
  /\ phase \in {"running", "exited", "raised"}
  /\ overrun \subseteq Obj /\ aliased \subseteq Obj /\ leaked \subseteq Obj
  /\ \A o \in Obj : rc[o] = 0 => kind[o] = "free" /\ Occupied(o) = {}

(***************************************************************************)
(* Confined: however the instructions of the program are combined, an      *)
(* object that no aliasing instruction duplicated (COPY, int() of an int,  *)
(* tuple +, a builtin used as a value) is counted at least once per owner, *)
(* is never decremented after its deletion, and nothing refers to it once  *)
(* it is deleted.                                                          *)
(***************************************************************************)
Confined ==
  \A o \in Obj \ aliased : /\ Covered(ref, rc, o)
                           /\ o \notin overrun
                           /\ o \notin Dangling(ref, rc)

(***************************************************************************)
(* ExactCounts: an object that no leaking path either (POP_TOP, a          *)
(* duplicate in a set display, an exception) lost an owner of has exactly  *)
(* as many counts as owners, so its last owner deletes it.                 *)
(***************************************************************************)
ExactCounts == \A o \in Obj \ (aliased \cup leaked) : Exact(ref, rc, o)

\* MemorySafe: no reference dangles and no decref reaches a deleted object.
MemorySafe == Defined

(***************************************************************************)
(* NothingLeftBehind: after pyir_destroyModule an object survives only if  *)
(* an owner of it was lost, if a surviving object holds it (a cycle), or   *)
(* if it is an iterator that a break left on iterStack.                    *)
(***************************************************************************)
NothingLeftBehind ==
  phase = "exited" =>
    \A o \in Obj \ (aliased \cup leaked) :
       rc[o] > 0 => \/ \E q \in Obj : rc[q] > 0 /\ \E s \in Slot : ref[<<q, s>>] = o
                    \/ \E k \in 1..loops : ref[Loop(k)] = o

(***************************************************************************)
(* IteratorOwnedOnce: an iterator on iterStack has no other owner, so the  *)
(* decref of pyir_popIter deletes it and "Invalid pop on referenced iter"  *)
(* (control_flow_runtime.cpp:34) is never thrown; nor is it deleted early. *)
(***************************************************************************)
IteratorOwnedOnce ==
  phase = "running" => \A k \in 1..loops : rc[ref[Loop(k)]] = 1
==============================================================================
