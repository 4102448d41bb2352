----------------------------- MODULE Frames_proofs -----------------------------
(***************************************************************************)
(* What holds of Frames for all variables, functions, values and bounds:   *)
(* the uncounted copies of the module scope stay in step with it, and what *)
(* they borrow is held by the module or by the call (IInv); every count is *)
(* that of the owners and of what the locals leaked, so nothing in use is  *)
(* deleted (Exact, which rests on IInv).                                   *)
(***************************************************************************)
EXTENDS Frames, FiniteSetTheorems, SequenceTheorems, TLAPS

EntryType == [val : Value \cup {Unset}, tie : Tie]
ScopeType == [Name -> EntryType]
SavedType == {NoSaved} \cup [name : Name, val : Value]
FrameType == [fn : Function \cup {None}, args : Seq(Value), stack : Seq(Value), saved : SavedType]

\* A frame above the module's runs a function, and saves fast variables only.
Calls(F) ==
  /\ F.fn \in Function
  /\ F.saved = NoSaved \/ F.saved.name \in Locals[F.fn]

\* One scope per frame.
Shape ==
  /\ frames \in Seq(FrameType) /\ scopes \in Seq(ScopeType)
  /\ Len(scopes) = Len(frames) /\ Len(frames) >= 1
  /\ \A k \in 2..Len(frames) : Calls(frames[k])

\* The module's scope borrows nothing.
ModuleOwns == \A n \in Name : scopes[1][n].tie # "borrowed"

IInv == Shape /\ ModuleOwns /\ GlobalsCurrent /\ BorrowedIsHeld

-------------------------------------------------------------------------------
(* Steps within the running code.                                          *)

\* The scope that the running code may leave behind: its fast variables, and in a
\* module all variables, may have got entries that borrow nothing.
Rebound(S) ==
  \A n \in Name : S[n] = Scope[n] \/ (S[n].tie # "borrowed" /\ (InModule \/ n \in Locals[Frame.fn]))

\* The frame it may leave behind.
Continued(F) ==
  /\ F.fn = Frame.fn /\ F.args = Frame.args
  /\ InModule \/ Calls(F)

\* The running frame and the topmost scope have their types.
LEMMA TopType ==
  ASSUME Shape
  PROVE  /\ Depth \in 1..Len(frames) /\ Len(scopes) = Depth /\ Depth \in Nat
         /\ Frame \in FrameType /\ Scope \in ScopeType
         /\ ~InModule => Depth >= 2 /\ Calls(Frame)
  BY DEF Shape, Depth, Frame, Scope, InModule

\* A frame or a scope that is not changed is replaced by itself.
LEMMA Same ==
  ASSUME Shape
  PROVE  /\ frames = [frames EXCEPT ![Depth] = Frame]
         /\ scopes = [scopes EXCEPT ![Len(scopes)] = Scope]
  BY DEF Shape, Depth, Frame, Scope

\* Such a step keeps the invariant.
LEMMA LocalInv ==
  ASSUME IInv,
         NEW F \in FrameType, Continued(F), frames' = [frames EXCEPT ![Depth] = F],
         NEW S \in ScopeType, Rebound(S), scopes' = [scopes EXCEPT ![Len(scopes)] = S]
  PROVE  IInv'
  <1>1. /\ Len(scopes) = Depth /\ Depth \in Nat /\ Depth >= 1 /\ Depth = Len(frames)
        /\ frames \in Seq(FrameType) /\ scopes \in Seq(ScopeType)
    BY DEF IInv, Shape, Depth
  <1>2. /\ frames' \in Seq(FrameType) /\ scopes' \in Seq(ScopeType)
        /\ Len(frames') = Depth /\ Len(scopes') = Depth
        /\ frames'[Depth] = F /\ scopes'[Depth] = S
        /\ \A k \in 1..(Depth - 1) : frames'[k] = frames[k] /\ scopes'[k] = scopes[k]
    BY <1>1
  <1>3. Depth' = Depth BY <1>2 DEF Depth
  <1>4. /\ \A k \in 2..Depth : Calls(frames[k])
        /\ Frame = frames[Depth] /\ Scope = scopes[Depth]
    BY <1>1 DEF IInv, Shape, Frame, Scope
  <1>5. Depth >= 2 => ~InModule BY <1>1 DEF InModule
  <1>6. Shape'
    <2>1. \A k \in 2..Depth : Calls(frames'[k])
      BY <1>1, <1>2, <1>4, <1>5 DEF Continued
    <2> QED BY <1>1, <1>2, <2>1 DEF Shape, Calls
  <1>7. ModuleOwns'
    <2>1. CASE Depth = 1
      <3>1. scopes'[1] = S /\ Scope = scopes[1] BY <2>1, <1>2, <1>4
      <3>2. \A n \in Name : scopes[1][n].tie # "borrowed" BY DEF IInv, ModuleOwns
      <3>3. \A n \in Name : S[n].tie # "borrowed" BY <3>1, <3>2 DEF Rebound
      <3> QED BY <3>1, <3>3 DEF ModuleOwns
    <2>2. CASE Depth >= 2
      BY <2>2, <1>1, <1>2 DEF IInv, ModuleOwns
    <2> QED BY <1>1, <2>1, <2>2
  <1>8. GlobalsCurrent'
    <2> SUFFICES ASSUME NEW k \in 2..Depth, NEW n \in Name, n \notin Locals[frames'[k].fn]
                 PROVE  scopes'[k][n].val = scopes'[1][n].val
      BY <1>3 DEF GlobalsCurrent
    <2>1. scopes'[1] = scopes[1] BY <1>1, <1>2
    <2>2. n \notin Locals[frames[k].fn] => scopes[k][n].val = scopes[1][n].val
      BY DEF IInv, GlobalsCurrent
    <2>3. CASE k < Depth BY <2>1, <2>2, <2>3, <1>1, <1>2
    <2>4. CASE k = Depth
      BY <2>1, <2>2, <2>4, <1>1, <1>2, <1>4, <1>5 DEF Rebound, Continued
    <2> QED BY <1>1, <2>3, <2>4
  <1>9. BorrowedIsHeld'
    <2> SUFFICES ASSUME NEW k \in 1..Depth, NEW n \in Name, scopes'[k][n].tie = "borrowed"
                 PROVE  \/ k > 1 /\ scopes'[1][n] = [val |-> scopes'[k][n].val, tie |-> "owned"]
                        \/ scopes'[k][n].val \in Range(frames'[k].args)
      BY <1>3 DEF BorrowedIsHeld
    <2>1. scopes'[k][n] = scopes[k][n] /\ frames'[k].args = frames[k].args
      <3>1. CASE k < Depth BY <3>1, <1>1, <1>2
      <3>2. CASE k = Depth BY <3>2, <1>1, <1>2, <1>4 DEF Rebound, Continued
      <3> QED BY <1>1, <3>1, <3>2
    <2>2. \/ k > 1 /\ scopes[1][n] = [val |-> scopes[k][n].val, tie |-> "owned"]
          \/ scopes[k][n].val \in Range(frames[k].args)
      BY <2>1 DEF IInv, BorrowedIsHeld
    <2>3. k > 1 => scopes'[1] = scopes[1] BY <1>1, <1>2
    <2> QED BY <2>1, <2>2, <2>3
  <1> QED BY <1>6, <1>7, <1>8, <1>9 DEF IInv

\* One that works with its operands and saved variable, and rebinds at most one
\* variable.
LEMMA OperandsInv ==
  ASSUME IInv,
         NEW F \in FrameType, Continued(F), frames' = [frames EXCEPT ![Depth] = F],
         UNCHANGED scopes
  PROVE  IInv'
  <1>1. Scope \in ScopeType /\ Rebound(Scope) BY TopType DEF IInv, Rebound
  <1>2. scopes' = [scopes EXCEPT ![Len(scopes)] = Scope] BY Same DEF IInv
  <1> QED BY <1>1, <1>2, LocalInv

LEMMA EntersInv ==
  ASSUME IInv,
         NEW F \in FrameType, Continued(F), frames' = [frames EXCEPT ![Depth] = F],
         NEW n \in Name, NEW v \in Value, NEW tie \in Tie, tie # "borrowed",
         InModule \/ n \in Locals[Frame.fn], Enters(n, v, tie)
  PROVE  IInv'
  <1> DEFINE S == [Scope EXCEPT ![n] = [val |-> v, tie |-> tie]]
  <1>1. Scope \in ScopeType BY TopType DEF IInv
  <1>2. S \in ScopeType BY <1>1 DEF ScopeType, EntryType
  <1>3. Rebound(S) BY <1>1 DEF Rebound, ScopeType, EntryType
  <1>4. scopes' = [scopes EXCEPT ![Len(scopes)] = S] BY DEF Enters, Scope
  <1> QED BY <1>2, <1>3, <1>4, LocalInv

-------------------------------------------------------------------------------
(* The actions.                                                            *)

\* Operands of the stack.
LEMMA StackFacts ==
  ASSUME Shape, NEW s \in Seq(Value), Stacks(s)
  PROVE  /\ [Frame EXCEPT !.stack = s] \in FrameType
         /\ Continued([Frame EXCEPT !.stack = s])
         /\ frames' = [frames EXCEPT ![Depth] = [Frame EXCEPT !.stack = s]]
  <1>1. Frame \in FrameType /\ (InModule \/ Calls(Frame)) BY TopType
  <1>2. [Frame EXCEPT !.stack = s] \in FrameType BY <1>1 DEF FrameType
  <1>3. Continued([Frame EXCEPT !.stack = s]) BY <1>1 DEF Continued, Calls, FrameType
  <1> QED BY <1>2, <1>3 DEF Stacks, Frame

LEMMA StackType ==
  ASSUME Shape
  PROVE  /\ Stack \in Seq(Value)
         /\ \A v \in Value : Append(Stack, v) \in Seq(Value)
         /\ Stack # <<>> => Front(Stack) \in Seq(Value) /\ Last(Stack) \in Value
  <1>1. Stack \in Seq(Value) BY TopType DEF FrameType, Stack
  <1> QED BY <1>1 DEF Front, Last

\* Fast variables are the running function's.
LEMMA FastFacts ==
  ASSUME Shape
  PROVE  /\ \A n \in Fast : InModule \/ n \in Locals[Frame.fn]
         /\ \A n \in Clearable : InModule \/ n \in Locals[Frame.fn]
  BY DEF Fast, Clearable

LEMMA LoadInv == ASSUME IInv, NEW n \in Name, Load(n) \/ LoadUnset(n) PROVE IInv'
  <1>1. Shape BY DEF IInv
  <1>2. CASE Load(n)
    <2>1. Scope[n].val \in Value
      BY <1>1, <1>2, TopType DEF Load, ScopeType, EntryType
    <2>2. Append(Stack, Scope[n].val) \in Seq(Value) BY <1>1, <2>1, StackType
    <2>3. Stacks(Append(Stack, Scope[n].val)) /\ UNCHANGED scopes BY <1>2 DEF Load
    <2> QED BY <1>1, <2>2, <2>3, StackFacts, OperandsInv
  <1>3. CASE LoadUnset(n)
    <2>1. Frame \in FrameType /\ Continued(Frame) BY <1>1, TopType DEF Continued
    <2>2. frames' = [frames EXCEPT ![Depth] = Frame] /\ UNCHANGED scopes
      BY <1>1, <1>3, Same DEF LoadUnset
    <2> QED BY <2>1, <2>2, OperandsInv
  <1> QED BY <1>2, <1>3

LEMMA LoadConstInv == ASSUME IInv, NEW v \in Value, LoadConst(v) PROVE IInv'
  <1>1. Shape BY DEF IInv
  <1>2. Append(Stack, v) \in Seq(Value) BY <1>1, StackType
  <1>3. Stacks(Append(Stack, v)) /\ UNCHANGED scopes BY DEF LoadConst
  <1> QED BY <1>1, <1>2, <1>3, StackFacts, OperandsInv

LEMMA PopTopInv == ASSUME IInv, PopTop PROVE IInv'
  <1>1. Shape BY DEF IInv
  <1>2. Front(Stack) \in Seq(Value) BY <1>1, StackType DEF PopTop
  <1>3. Stacks(Front(Stack)) /\ UNCHANGED scopes BY DEF PopTop
  <1> QED BY <1>1, <1>2, <1>3, StackFacts, OperandsInv

LEMMA StoreInv == ASSUME IInv, NEW n \in Name, StoreName(n) \/ StoreFast(n) PROVE IInv'
  <1>1. Shape BY DEF IInv
  <1>2. Stack # <<>> /\ Enters(n, Last(Stack), "owned") /\ Stacks(Front(Stack))
    BY DEF StoreName, StoreFast
  <1>3. Front(Stack) \in Seq(Value) /\ Last(Stack) \in Value BY <1>1, <1>2, StackType
  <1>4. InModule \/ n \in Locals[Frame.fn] BY <1>1, FastFacts DEF StoreName, StoreFast
  <1>5. "owned" \in Tie BY DEF Tie
  <1> QED BY <1>1, <1>2, <1>3, <1>4, <1>5, StackFacts, EntersInv

LEMMA StoreFastLoadFastInv == ASSUME IInv, NEW n \in Name, StoreFastLoadFast(n) PROVE IInv'
  <1>1. Shape BY DEF IInv
  <1>2. Stack # <<>> /\ Enters(n, Last(Stack), "shared") /\ frames' = frames
    BY DEF StoreFastLoadFast
  <1>3. Last(Stack) \in Value BY <1>1, <1>2, StackType
  <1>4. InModule \/ n \in Locals[Frame.fn] BY <1>1, FastFacts DEF StoreFastLoadFast
  <1>5. Frame \in FrameType /\ Continued(Frame) BY <1>1, TopType DEF Continued
  <1>6. frames' = [frames EXCEPT ![Depth] = Frame] BY <1>1, <1>2, Same
  <1>7. "shared" \in Tie BY DEF Tie
  <1> QED BY <1>2, <1>3, <1>4, <1>5, <1>6, <1>7, EntersInv

LEMMA LoadFastAndClearInv == ASSUME IInv, NEW n \in Name, LoadFastAndClear(n) PROVE IInv'
  <1> DEFINE Saving(v) == [Frame EXCEPT !.saved = [name |-> n, val |-> v]]
  <1>1. Shape /\ Frame \in FrameType BY TopType DEF IInv
  <1>2. InModule \/ n \in Locals[Frame.fn] BY <1>1, FastFacts DEF LoadFastAndClear
  <1>3. ASSUME NEW v \in Value PROVE Saving(v) \in FrameType /\ Continued(Saving(v))
    <2>1. Saving(v) \in FrameType BY <1>1 DEF FrameType, SavedType
    <2>2. Continued(Saving(v)) BY <1>1, <1>2, TopType DEF Continued, Calls, FrameType
    <2> QED BY <2>1, <2>2
  <1>4. CASE Scope[n].val = Unset
    <2>1. frames' = [frames EXCEPT ![Depth] = Saving(None)] /\ UNCHANGED scopes
      BY <1>4 DEF LoadFastAndClear, Frame
    <2>2. None \in Value BY DEF Value
    <2> QED BY <1>3, <2>1, <2>2, OperandsInv
  <1>5. CASE Scope[n].val # Unset
    <2>1. /\ frames' = [frames EXCEPT ![Depth] = Saving(Scope[n].val)]
          /\ Enters(n, None, "none")
      BY <1>5 DEF LoadFastAndClear, Frame
    <2>2. Scope[n].val \in Value BY <1>1, <1>5, TopType DEF ScopeType, EntryType
    <2>3. None \in Value /\ "none" \in Tie BY DEF Value, Tie
    <2> QED BY <1>2, <1>3, <2>1, <2>2, <2>3, EntersInv
  <1> QED BY <1>4, <1>5

LEMMA RestoreInv == ASSUME IInv, Restore PROVE IInv'
  <1> DEFINE F == [Frame EXCEPT !.saved = NoSaved]
             n == Frame.saved.name
  <1>1. Shape /\ Frame \in FrameType /\ (InModule \/ Calls(Frame)) BY TopType DEF IInv
  <1>2. InModule \/ n \in Locals[Frame.fn] BY <1>1 DEF Restore, Calls
  <1>3. F \in FrameType BY <1>1 DEF FrameType, SavedType, NoSaved, Value
  <1>4. Continued(F) BY <1>1 DEF Continued, Calls, FrameType
  <1>5. frames' = [frames EXCEPT ![Depth] = F] /\ Enters(n, Frame.saved.val, "owned")
    BY DEF Restore, Frame
  <1>6. Frame.saved.val \in Value /\ "owned" \in Tie BY <1>1 DEF Restore, FrameType, SavedType, Tie
  <1>7. n \in Name BY <1>1 DEF Restore, FrameType, SavedType
  <1> QED BY <1>2, <1>3, <1>4, <1>5, <1>6, <1>7, EntersInv

\* The scope of a call: the globals as they are, and the arguments.
LEMMA CallScope ==
  ASSUME IInv, NEW f \in Function, NEW args \in Seq(Value), Len(args) = Len(Params[f])
  PROVE  LET S == WithParameters(PushedScope, Params[f], args)
         IN  /\ S \in ScopeType
             /\ \A n \in Name \ Locals[f] : S[n].val = scopes[1][n].val
             /\ \A n \in Name : S[n].tie = "borrowed" =>
                  scopes[1][n] = [val |-> S[n].val, tie |-> "owned"] \/ S[n].val \in Range(args)
  <1> DEFINE S == WithParameters(PushedScope, Params[f], args)
             ps == Params[f]
  <1>1. ps \in Seq(Name) /\ Range(ps) \subseteq Locals[f] BY FramesAssumption
  <1>2. scopes[1] \in ScopeType /\ \A n \in Name : scopes[1][n].tie # "borrowed"
    BY DEF IInv, Shape, ModuleOwns
  <1>3. ASSUME NEW n \in Name, NEW i \in DOMAIN ps, ps[i] = n
        PROVE  n \in Locals[f] /\ \E v \in Range(args) : S[n] = [val |-> v, tie |-> "borrowed"]
    <2> DEFINE j == CHOOSE j \in DOMAIN ps : ps[j] = n
    <2>1. j \in DOMAIN ps /\ ps[j] = n BY <1>3
    <2>2. S[n] = [val |-> args[j], tie |-> "borrowed"] BY <1>3 DEF WithParameters
    <2>3. j \in DOMAIN args BY <2>1, <1>1
    <2>4. args[j] \in Range(args) BY <2>3 DEF Range
    <2>5. n \in Locals[f] BY <2>1, <1>1 DEF Range
    <2> QED BY <2>2, <2>4, <2>5
  <1>4. ASSUME NEW n \in Name, ~\E i \in DOMAIN ps : ps[i] = n
        PROVE  S[n] = Borrowed(scopes[1][n])
    BY <1>4 DEF WithParameters, PushedScope
  <1>5. Range(args) \subseteq Value BY DEF Range
  <1>6. S \in [Name -> {S[n] : n \in Name}] BY DEF WithParameters
  <1> HIDE DEF S, ps
  <1>7. ASSUME NEW e \in EntryType
        PROVE  /\ Borrowed(e) \in EntryType /\ Borrowed(e).val = e.val
               /\ e.tie # "borrowed" /\ Borrowed(e).tie = "borrowed" => e = [val |-> Borrowed(e).val, tie |-> "owned"]
    <2>1. CASE e.tie = "owned" BY <2>1 DEF Borrowed, EntryType, Tie
    <2>2. CASE e.tie # "owned" BY <2>2 DEF Borrowed
    <2> QED BY <2>1, <2>2
  <1>8. ASSUME NEW n \in Name
        PROVE  /\ S[n] \in EntryType
               /\ n \notin Locals[f] => S[n].val = scopes[1][n].val
               /\ S[n].tie = "borrowed" =>
                    scopes[1][n] = [val |-> S[n].val, tie |-> "owned"] \/ S[n].val \in Range(args)
    <2>1. CASE \E i \in DOMAIN ps : ps[i] = n
      <3>1. n \in Locals[f] /\ \E v \in Range(args) : S[n] = [val |-> v, tie |-> "borrowed"] BY <2>1, <1>3
      <3> QED BY <3>1, <1>5 DEF EntryType, Tie
    <2>2. CASE ~\E i \in DOMAIN ps : ps[i] = n
      <3>1. S[n] = Borrowed(scopes[1][n]) BY <2>2, <1>4
      <3>2. scopes[1][n] \in EntryType /\ scopes[1][n].tie # "borrowed" BY <1>2 DEF ScopeType
      <3> QED BY <3>1, <3>2, <1>7
    <2> QED BY <2>1, <2>2
  <1>9. S \in ScopeType BY <1>6, <1>8 DEF ScopeType
  <1> QED BY <1>8, <1>9 DEF S

LEMMA CallInv == ASSUME IInv, NEW f \in Function, Call(f) PROVE IInv'
  <1> DEFINE n    == Len(Params[f])
             args == SubSeq(Stack, Len(Stack) - n + 1, Len(Stack))
             S    == WithParameters(PushedScope, Params[f], args)
             F    == [fn |-> f, args |-> args, stack |-> <<>>, saved |-> NoSaved]
             s    == SubSeq(Stack, 1, Len(Stack) - n - 1)
             here == [frames EXCEPT ![Depth] = [Frame EXCEPT !.stack = s]]
  <1>1. Shape /\ Stack \in Seq(Value) /\ Len(Stack) > n /\ n \in Nat
    BY StackType, FramesAssumption DEF IInv, Call, Callee
  <1>2. args \in Seq(Value) /\ Len(args) = n /\ s \in Seq(Value) BY <1>1
  <1>3. F \in FrameType /\ Calls(F) BY <1>2 DEF FrameType, SavedType, Calls
  <1>4. /\ S \in ScopeType
        /\ \A m \in Name \ Locals[f] : S[m].val = scopes[1][m].val
        /\ \A m \in Name : S[m].tie = "borrowed" =>
              scopes[1][m] = [val |-> S[m].val, tie |-> "owned"] \/ S[m].val \in Range(args)
    BY <1>2, CallScope
  <1>5. frames' = Append(here, F) /\ scopes' = Append(scopes, S)
    BY DEF Call, Frame, Stack
  <1>6. Frame \in FrameType /\ Depth \in 1..Len(frames) /\ Depth = Len(frames) BY <1>1, TopType DEF Depth
  <1>7. /\ here \in Seq(FrameType) /\ Len(here) = Depth
        /\ \A k \in 1..Depth : /\ here[k].fn = frames[k].fn /\ here[k].args = frames[k].args
                               /\ here[k].saved = frames[k].saved
    <2>1. /\ [Frame EXCEPT !.stack = s] \in FrameType
          /\ [Frame EXCEPT !.stack = s].fn = Frame.fn /\ [Frame EXCEPT !.stack = s].args = Frame.args
          /\ [Frame EXCEPT !.stack = s].saved = Frame.saved
      BY <1>2, <1>6 DEF FrameType
    <2> QED BY <2>1, <1>1, <1>6 DEF Shape, Frame
  <1> HIDE DEF here, F, S, args
  <1>8. /\ frames' \in Seq(FrameType) /\ scopes' \in Seq(ScopeType)
        /\ Len(frames') = Depth + 1 /\ Len(scopes') = Depth + 1 /\ Depth' = Depth + 1
        /\ frames'[Depth + 1] = F /\ scopes'[Depth + 1] = S
        /\ \A k \in 1..Depth : frames'[k] = here[k] /\ scopes'[k] = scopes[k]
    BY <1>1, <1>3, <1>4, <1>5, <1>6, <1>7 DEF Shape, Depth
  <1>9. F.fn = f /\ F.args = args BY DEF F
  <1>10. Shape'
    <2>1. ASSUME NEW k \in 2..(Depth + 1) PROVE Calls(frames'[k])
      <3>1. CASE k = Depth + 1 BY <1>3, <1>8, <3>1
      <3>2. CASE k \in 2..Depth
        <4>1. Calls(frames[k]) BY <1>1, <1>6, <3>2 DEF Shape
        <4>2. frames'[k].fn = frames[k].fn /\ frames'[k].saved = frames[k].saved
          BY <1>6, <1>7, <1>8, <3>2
        <4> QED BY <4>1, <4>2 DEF Calls
      <3> QED BY <1>6, <3>1, <3>2
    <2> QED BY <1>6, <1>8, <2>1 DEF Shape, Calls
  <1>11. ModuleOwns' BY <1>6, <1>8 DEF IInv, ModuleOwns
  <1>12. GlobalsCurrent'
    <2>1. ASSUME NEW k \in 2..(Depth + 1), NEW m \in Name \ Locals[frames'[k].fn]
          PROVE  scopes'[k][m].val = scopes'[1][m].val
      <3>1. CASE k = Depth + 1 BY <3>1, <1>4, <1>6, <1>8, <1>9
      <3>2. CASE k \in 2..Depth BY <3>2, <1>6, <1>7, <1>8 DEF IInv, GlobalsCurrent
      <3> QED BY <1>6, <3>1, <3>2
    <2> QED BY <2>1, <1>8 DEF GlobalsCurrent
  <1>13. BorrowedIsHeld'
    <2>1. ASSUME NEW k \in 1..(Depth + 1), NEW m \in Name, scopes'[k][m].tie = "borrowed"
          PROVE  \/ k > 1 /\ scopes'[1][m] = [val |-> scopes'[k][m].val, tie |-> "owned"]
                 \/ scopes'[k][m].val \in Range(frames'[k].args)
      <3>1. CASE k = Depth + 1 BY <2>1, <3>1, <1>4, <1>6, <1>8, <1>9
      <3>2. CASE k \in 1..Depth
        <4>1. /\ scopes'[k] = scopes[k] /\ scopes'[1] = scopes[1] /\ frames'[k].args = frames[k].args
          BY <3>2, <1>6, <1>7, <1>8
        <4> QED BY <2>1, <3>2, <4>1 DEF IInv, BorrowedIsHeld
      <3> QED BY <1>6, <3>1, <3>2
    <2> QED BY <2>1, <1>8 DEF BorrowedIsHeld
  <1> QED BY <1>10, <1>11, <1>12, <1>13 DEF IInv

LEMMA ReturnInv == ASSUME IInv, Return PROVE IInv'
  <1> DEFINE caller == frames[Depth - 1]
             F      == [caller EXCEPT !.stack = Append(@, Stack[1])]
  <1>1. /\ Depth = Len(frames) /\ Depth = Len(scopes) /\ Depth \in Nat /\ Depth >= 2
        /\ frames \in Seq(FrameType) /\ scopes \in Seq(ScopeType)
    BY DEF IInv, Shape, Depth, Return, InModule
  <1>2. Stack[1] \in Value BY StackType DEF IInv, Return
  <1>3. /\ F \in FrameType /\ F.fn = caller.fn /\ F.args = caller.args /\ F.saved = caller.saved
    <2>1. caller \in FrameType
      <3>1. Depth - 1 \in 1..Len(frames) BY <1>1
      <3>2. ASSUME NEW q \in Seq(FrameType), NEW i \in 1..Len(q) PROVE q[i] \in FrameType OBVIOUS
      <3> QED BY <3>1, <3>2, <1>1
    <2>2. Append(caller.stack, Stack[1]) \in Seq(Value) BY <1>2, <2>1 DEF FrameType
    <2> QED BY <2>1, <2>2 DEF FrameType
  <1>4. /\ Front(frames) \in Seq(FrameType) /\ Front(scopes) \in Seq(ScopeType)
        /\ Len(Front(frames)) = Depth - 1 /\ Len(Front(scopes)) = Depth - 1
        /\ \A k \in 1..(Depth - 1) : Front(frames)[k] = frames[k] /\ Front(scopes)[k] = scopes[k]
    <2>1. ASSUME NEW T, NEW q \in Seq(T), Len(q) = Depth
          PROVE  /\ Front(q) \in Seq(T) /\ Len(Front(q)) = Depth - 1
                 /\ \A k \in 1..(Depth - 1) : Front(q)[k] = q[k]
      BY <2>1, <1>1 DEF Front
    <2> QED BY <2>1, <1>1
  <1>5. frames' = [Front(frames) EXCEPT ![Depth - 1] = F] /\ scopes' = Front(scopes)
    <2>1. frames' = [Front(frames) EXCEPT ![Depth - 1].stack = Append(@, Stack[1])]
      BY DEF Return
    <2>2. Front(frames)[Depth - 1] = caller BY <1>1, <1>4
    <2> QED BY <2>1, <2>2 DEF Return, Popped
  <1> HIDE DEF F
  <1>6. /\ frames' \in Seq(FrameType) /\ scopes' \in Seq(ScopeType)
        /\ Len(frames') = Depth - 1 /\ Len(scopes') = Depth - 1 /\ Depth' = Depth - 1
        /\ \A k \in 1..(Depth - 1) :
             /\ scopes'[k] = scopes[k]
             /\ frames'[k].fn = frames[k].fn /\ frames'[k].args = frames[k].args
             /\ frames'[k].saved = frames[k].saved
    BY <1>1, <1>3, <1>4, <1>5 DEF Depth
  <1>7. Shape'
    <2>1. \A k \in 2..(Depth - 1) : Calls(frames[k]) BY <1>1 DEF IInv, Shape
    <2>2. ASSUME NEW k \in 2..(Depth - 1) PROVE Calls(frames'[k])
      <3>1. k \in 1..(Depth - 1) BY <1>1
      <3> QED BY <3>1, <1>6, <2>1 DEF Calls
    <2> QED BY <1>1, <1>6, <2>2 DEF Shape
  <1>8. ModuleOwns' BY <1>1, <1>6 DEF IInv, ModuleOwns
  <1>9. GlobalsCurrent'
    <2>1. \A k \in 2..(Depth - 1) : \A n \in Name \ Locals[frames[k].fn] :
            scopes[k][n].val = scopes[1][n].val
      BY <1>1 DEF IInv, GlobalsCurrent
    <2>2. ASSUME NEW k \in 2..(Depth - 1), NEW n \in Name \ Locals[frames'[k].fn]
          PROVE  scopes'[k][n].val = scopes'[1][n].val
      <3>1. k \in 1..(Depth - 1) /\ 1 \in 1..(Depth - 1) BY <1>1
      <3> QED BY <3>1, <1>6, <2>1
    <2> QED BY <1>6, <2>2 DEF GlobalsCurrent
  <1>10. BorrowedIsHeld'
    <2> SUFFICES ASSUME NEW k \in 1..(Depth - 1), NEW n \in Name, scopes'[k][n].tie = "borrowed"
                 PROVE  \/ k > 1 /\ scopes'[1][n] = [val |-> scopes'[k][n].val, tie |-> "owned"]
                        \/ scopes'[k][n].val \in Range(frames'[k].args)
      BY <1>6 DEF BorrowedIsHeld
    <2>1. 1 \in 1..(Depth - 1) /\ k \in 1..Depth BY <1>1
    <2>2. scopes'[k] = scopes[k] /\ scopes'[1] = scopes[1] /\ frames'[k].args = frames[k].args
      BY <1>6, <2>1
    <2>3. \/ k > 1 /\ scopes[1][n] = [val |-> scopes[k][n].val, tie |-> "owned"]
          \/ scopes[k][n].val \in Range(frames[k].args)
      BY <2>1, <2>2 DEF IInv, BorrowedIsHeld
    <2> QED BY <2>2, <2>3
  <1> QED BY <1>7, <1>8, <1>9, <1>10 DEF IInv

-------------------------------------------------------------------------------
(* The theorems.                                                           *)

LEMMA InitInv == Init => IInv
  <1> SUFFICES ASSUME Init PROVE IInv OBVIOUS
  <1>1. /\ frames = <<[fn |-> None, args |-> <<>>, stack |-> <<>>, saved |-> NoSaved]>>
        /\ scopes = <<[n \in Name |-> NoEntry]>>
    BY DEF Init
  <1>2. NoEntry \in EntryType /\ NoEntry.tie = "none" BY DEF NoEntry, EntryType, Tie
  <1>3. [n \in Name |-> NoEntry] \in ScopeType BY <1>2 DEF ScopeType
  <1>4. [fn |-> None, args |-> <<>>, stack |-> <<>>, saved |-> NoSaved] \in FrameType
    <2>1. <<>> \in Seq(Value) OBVIOUS
    <2> QED BY <2>1 DEF FrameType, SavedType
  <1>5. /\ Shape /\ Len(frames) = 1 /\ Len(scopes) = 1
        /\ \A n \in Name : scopes[1][n].tie = "none"
    BY <1>1, <1>2, <1>3, <1>4 DEF Shape
  <1> QED BY <1>5 DEF IInv, ModuleOwns, GlobalsCurrent, BorrowedIsHeld, Depth

LEMMA NextInv == IInv /\ [Next]_vars => IInv'
  <1> SUFFICES ASSUME IInv, [Next]_vars PROVE IInv' OBVIOUS
  <1>1. ASSUME NEW v \in Value, LoadConst(v) PROVE IInv' BY <1>1, LoadConstInv
  <1>2. CASE PopTop BY <1>2, PopTopInv
  <1>3. CASE Restore BY <1>3, RestoreInv
  <1>4. CASE Return BY <1>4, ReturnInv
  <1>5. ASSUME NEW n \in Name, LoadFast(n) \/ LoadName(n) PROVE IInv'
    BY <1>5, LoadInv DEF LoadFast, LoadName
  <1>6. ASSUME NEW n \in Name, StoreName(n) \/ StoreFast(n) PROVE IInv' BY <1>6, StoreInv
  <1>7. ASSUME NEW n \in Name, StoreFastLoadFast(n) PROVE IInv' BY <1>7, StoreFastLoadFastInv
  <1>8. ASSUME NEW n \in Name, LoadFastAndClear(n) PROVE IInv' BY <1>8, LoadFastAndClearInv
  <1>9. ASSUME NEW f \in Function, Call(f) PROVE IInv' BY <1>9, CallInv
  <1>10. CASE UNCHANGED vars
    BY <1>10 DEF vars, IInv, Shape, ModuleOwns, GlobalsCurrent, BorrowedIsHeld, Depth, Calls
  <1> QED BY <1>1, <1>2, <1>3, <1>4, <1>5, <1>6, <1>7, <1>8, <1>9, <1>10 DEF Next

LEMMA Invariance == Spec => []IInv
  BY InitInv, NextInv, PTL DEF Spec

\* Whatever is called, rebound, cleared or returned, and however deeply calls are
\* nested, a function's uncounted copy of the module scope (pyir_pushScope) shows
\* every global it reads with its current value.
THEOREM GlobalsAreCurrent == Spec => []GlobalsCurrent
  <1>1. IInv => GlobalsCurrent BY DEF IInv
  <1> QED BY <1>1, Invariance, PTL

\* Every reference a scope uses without counting it is the module scope's own, or
\* that of an argument pyir_call gives up only after the function has returned.
THEOREM BorrowedReferencesAreHeld == Spec => []BorrowedIsHeld
  <1>1. IInv => BorrowedIsHeld BY DEF IInv
  <1> QED BY <1>1, Invariance, PTL

-------------------------------------------------------------------------------
(* Sizes of finite tables, and how often a value occurs in a sequence.     *)

\* 1 when v is o.
One(v, o) == IF v = o THEN 1 ELSE 0

\* A bijection gives two sets the same size.
LEMMA SameSize ==
  ASSUME NEW S, IsFiniteSet(S), NEW T, NEW f \in Bijection(S, T)
  PROVE  IsFiniteSet(T) /\ Cardinality(T) = Cardinality(S)
  <1>1. ExistsBijection(S, T) BY DEF ExistsBijection
  <1> QED BY <1>1, FS_Bijection

\* Disjoint sets add up.
LEMMA Disjoint ==
  ASSUME NEW S, IsFiniteSet(S), NEW T, IsFiniteSet(T), S \cap T = {}
  PROVE  /\ IsFiniteSet(S \cup T) /\ Cardinality(S \cup T) = Cardinality(S) + Cardinality(T)
         /\ Cardinality(S) \in Nat /\ Cardinality(T) \in Nat
  BY FS_Union, FS_EmptySet, FS_CardinalityType

\* The places of an object in a finite table of rows D and columns I are those of one row
\* and those of the others.
Row(P, I, k) == {i \in I : <<k, i>> \in P}
Others(P, k) == {p \in P : p[1] # k}

LEMMA RowSplit ==
  ASSUME NEW D, IsFiniteSet(D), NEW I, IsFiniteSet(I), NEW P \in SUBSET (D \X I), NEW k
  PROVE  /\ Cardinality(P) = Cardinality(Others(P, k)) + Cardinality(Row(P, I, k))
         /\ Cardinality(P) \in Nat /\ Cardinality(Others(P, k)) \in Nat /\ Cardinality(Row(P, I, k)) \in Nat
  <1> DEFINE R == Row(P, I, k)
             here == {p \in P : p[1] = k}
             put == [i \in R |-> <<k, i>>]
  <1>1. IsFiniteSet(P) BY FS_Product, FS_Subset
  <1>2. IsFiniteSet(R) /\ Cardinality(R) \in Nat BY FS_Subset, FS_CardinalityType DEF Row
  <1>3. put \in Bijection(R, here)
    <2>1. put \in [R -> here] BY DEF Row
    <2>2. \A p \in here : p[2] \in R /\ put[p[2]] = p BY DEF Row
    <2>3. put \in Injection(R, here) BY <2>1 DEF Injection, IsInjective
    <2> QED BY <2>1, <2>2, <2>3 DEF Bijection, Surjection
  <1>4. Cardinality(here) = Cardinality(R) /\ IsFiniteSet(here) BY <1>2, <1>3, SameSize
  <1>5. IsFiniteSet(Others(P, k)) BY <1>1, FS_Subset DEF Others
  <1>6. Others(P, k) \cap here = {} /\ P = Others(P, k) \cup here BY DEF Others
  <1>7. Cardinality(P) = Cardinality(Others(P, k)) + Cardinality(here) /\ Cardinality(Others(P, k)) \in Nat
    BY <1>4, <1>5, <1>6, Disjoint
  <1> QED BY <1>2, <1>4, <1>7

\* How often a value occurs in a sequence.
LEMMA TimesType ==
  ASSUME NEW T, NEW s \in Seq(T), NEW o
  PROVE  Times(o, s) \in Nat /\ IsFiniteSet({i \in DOMAIN s : s[i] = o})
  <1>1. IsFiniteSet(DOMAIN s) BY FS_Interval
  <1>2. {i \in DOMAIN s : s[i] = o} \in SUBSET DOMAIN s OBVIOUS
  <1> HIDE DEF Times
  <1> QED BY <1>1, <1>2, FS_Subset, FS_CardinalityType DEF Times

LEMMA TimesConcat ==
  ASSUME NEW T, NEW s \in Seq(T), NEW t \in Seq(T), NEW o
  PROVE  Times(o, s \o t) = Times(o, s) + Times(o, t)
  <1> DEFINE A == {i \in DOMAIN s : s[i] = o}
             B == {i \in DOMAIN t : t[i] = o}
             C == {i \in DOMAIN (s \o t) : (s \o t)[i] = o}
             B2 == {i \in C : i > Len(s)}
             shift == [i \in B |-> i + Len(s)]
  <1>1. IsFiniteSet(A) /\ IsFiniteSet(B) BY TimesType
  <1>2. shift \in Bijection(B, B2)
    <2>1. shift \in [B -> B2] OBVIOUS
    <2>2. \A i \in B2 : i - Len(s) \in B /\ shift[i - Len(s)] = i OBVIOUS
    <2>3. shift \in Injection(B, B2) BY <2>1 DEF Injection, IsInjective
    <2> QED BY <2>1, <2>2, <2>3 DEF Bijection, Surjection
  <1>3. IsFiniteSet(B2) /\ Cardinality(B2) = Cardinality(B) BY <1>1, <1>2, SameSize
  <1>4. A \cap B2 = {} /\ C = A \cup B2 OBVIOUS
  <1> HIDE DEF A, B, C, B2
  <1>5. Cardinality(C) = Cardinality(A) + Cardinality(B) BY <1>1, <1>3, <1>4, Disjoint
  <1> QED BY <1>5 DEF Times, A, B, C

LEMMA TimesSingle ==
  ASSUME NEW v, NEW o
  PROVE  Times(o, <<v>>) = One(v, o) /\ Times(o, <<>>) = 0
  <1> DEFINE s == <<v>>
  <1>0. DOMAIN s = {1} /\ s[1] = v OBVIOUS
  <1> HIDE DEF s
  <1>1. ASSUME v = o PROVE Times(o, s) = One(v, o)
    <2>1. {i \in DOMAIN s : s[i] = o} = {1} BY <1>0, <1>1
    <2>2. Times(o, s) = 1 BY <2>1, FS_Singleton DEF Times
    <2> QED BY <1>1, <2>2 DEF One
  <1>2. ASSUME v # o PROVE Times(o, s) = One(v, o)
    <2>1. {i \in DOMAIN s : s[i] = o} = {} BY <1>0, <1>2
    <2>2. Times(o, s) = 0 BY <2>1, FS_EmptySet DEF Times
    <2> QED BY <1>2, <2>2 DEF One
  <1>3. {i \in DOMAIN <<>> : <<>>[i] = o} = {} OBVIOUS
  <1>4. Times(o, <<>>) = 0 BY <1>3, FS_EmptySet DEF Times
  <1> QED BY <1>1, <1>2, <1>4 DEF s

LEMMA TimesAppend ==
  ASSUME NEW T, NEW s \in Seq(T), NEW v \in T, NEW o
  PROVE  Times(o, Append(s, v)) = Times(o, s) + One(v, o)
  <1>1. Append(s, v) = s \o <<v>> /\ <<v>> \in Seq(T) OBVIOUS
  <1> QED BY <1>1, TimesConcat, TimesSingle

\* A sequence is cut in two.
LEMMA TimesCut ==
  ASSUME NEW T, NEW s \in Seq(T), NEW m \in 0..Len(s), NEW o
  PROVE  Times(o, s) = Times(o, SubSeq(s, 1, m)) + Times(o, SubSeq(s, m + 1, Len(s)))
  <1> DEFINE a == SubSeq(s, 1, m)
             b == SubSeq(s, m + 1, Len(s))
  <1>1. s = a \o b
    <2>1. 1 \in 1..Len(s) + 1 /\ m \in (1 - 1)..Len(s) /\ Len(s) \in m..Len(s) OBVIOUS
    <2>2. a \o b = SubSeq(s, 1, Len(s)) BY <2>1, ConcatAdjacentSubSeq, Zenon
    <2> QED BY <2>2, SubSeqFull
  <1>2. a \in Seq(T) /\ b \in Seq(T) OBVIOUS
  <1> HIDE DEF a, b
  <1>3. Times(o, a \o b) = Times(o, a) + Times(o, b) BY <1>2, TimesConcat
  <1> QED BY <1>1, <1>3 DEF a, b

LEMMA TimesFront ==
  ASSUME NEW T, NEW s \in Seq(T), s # <<>>, NEW o
  PROVE  Times(o, s) = Times(o, Front(s)) + One(Last(s), o)
  <1>1. s = Append(Front(s), Last(s)) /\ Front(s) \in Seq(T) /\ Last(s) \in T BY DEF Front, Last
  <1> QED BY <1>1, TimesAppend

-------------------------------------------------------------------------------
(* Owners as two tables: the entries of the scopes, and what the frames    *)
(* hold.                                                                   *)

HeldOf(F) == <<F.fn>> \o F.args \o F.stack \o <<F.saved.val>>

Column == 1..(2 * MaxStack + 2)

\* A frame within the bounds.
Bounded == {F \in FrameType : Len(F.args) <= MaxStack /\ Len(F.stack) <= MaxStack}

LEMMA HeldCount ==
  ASSUME NEW F \in FrameType, NEW o
  PROVE  /\ HeldOf(F) \in Seq(Value)
         /\ Len(HeldOf(F)) = 2 + Len(F.args) + Len(F.stack)
         /\ Times(o, HeldOf(F)) = One(F.fn, o) + Times(o, F.args) + Times(o, F.stack) + One(F.saved.val, o)
         /\ Times(o, F.args) \in Nat /\ Times(o, F.stack) \in Nat
  <1> DEFINE a == <<F.fn>>
             b == <<F.saved.val>>
             p == F.args
             q == F.stack
  <1>1. F.fn \in Value /\ F.saved.val \in Value BY DEF FrameType, SavedType, NoSaved, Value, Obj
  <1>2. a \in Seq(Value) /\ b \in Seq(Value) /\ Len(a) = 1 /\ Len(b) = 1 BY <1>1
  <1>3. p \in Seq(Value) /\ q \in Seq(Value) BY DEF FrameType
  <1>4. Times(o, a) = One(F.fn, o) /\ Times(o, b) = One(F.saved.val, o) BY TimesSingle
  <1>5. HeldOf(F) = a \o p \o q \o b BY DEF HeldOf
  <1> HIDE DEF a, b, p, q
  <1>6. a \o p \in Seq(Value) /\ Len(a \o p) = 1 + Len(p) /\ Times(o, a \o p) = Times(o, a) + Times(o, p)
    <2>0. a \o p \in Seq(Value) /\ Len(a \o p) = Len(a) + Len(p) BY <1>2, <1>3, ConcatProperties, Zenon
    <2>1. a \o p \in Seq(Value) /\ Len(a \o p) = 1 + Len(p) BY <2>0, <1>2
    <2>2. Times(o, a \o p) = Times(o, a) + Times(o, p) BY <1>2, <1>3, TimesConcat
    <2> QED BY <2>1, <2>2
  <1> DEFINE c == a \o p
  <1> HIDE DEF c
  <1>7. c \o q \in Seq(Value) /\ Len(c \o q) = 1 + Len(p) + Len(q) /\ Times(o, c \o q) = Times(o, c) + Times(o, q)
    <2>1. c \in Seq(Value) /\ Len(c) = 1 + Len(p) BY <1>6 DEF c
    <2>0. c \o q \in Seq(Value) /\ Len(c \o q) = Len(c) + Len(q) BY <1>3, <2>1, ConcatProperties, Zenon
    <2>2. c \o q \in Seq(Value) /\ Len(c \o q) = 1 + Len(p) + Len(q) BY <2>0, <2>1
    <2>3. Times(o, c \o q) = Times(o, c) + Times(o, q) BY <1>3, <2>1, TimesConcat
    <2> QED BY <2>2, <2>3
  <1> DEFINE d == c \o q
  <1> HIDE DEF d
  <1>8. d \o b \in Seq(Value) /\ Len(d \o b) = 2 + Len(p) + Len(q) /\ Times(o, d \o b) = Times(o, d) + Times(o, b)
    <2>1. d \in Seq(Value) /\ Len(d) = 1 + Len(p) + Len(q) BY <1>7 DEF d
    <2>2. Len(p) \in Nat /\ Len(q) \in Nat BY <1>3
    <2>0. d \o b \in Seq(Value) /\ Len(d \o b) = Len(d) + Len(b) BY <1>2, <2>1, ConcatProperties, Zenon
    <2>3. d \o b \in Seq(Value) /\ Len(d \o b) = 2 + Len(p) + Len(q) BY <1>2, <2>0, <2>1, <2>2
    <2>4. Times(o, d \o b) = Times(o, d) + Times(o, b) BY <1>2, <2>1, TimesConcat
    <2> QED BY <2>3, <2>4
  <1>9. Times(o, p) \in Nat /\ Times(o, q) \in Nat BY <1>3, TimesType
  <1>10. Times(o, HeldOf(F)) = One(F.fn, o) + Times(o, p) + Times(o, q) + One(F.saved.val, o)
    <2>1. HeldOf(F) = d \o b BY <1>5 DEF c, d
    <2>2. Times(o, c) = One(F.fn, o) + Times(o, p) BY <1>4, <1>6 DEF c
    <2>3. Times(o, d) = Times(o, c) + Times(o, q) BY <1>7 DEF d
    <2> QED BY <1>4, <1>8, <1>9, <2>1, <2>2, <2>3
  <1>11. Len(HeldOf(F)) = 2 + Len(p) + Len(q) /\ HeldOf(F) \in Seq(Value) BY <1>5, <1>8 DEF c, d
  <1> QED BY <1>9, <1>10, <1>11 DEF p, q

\* What a frame within the bounds holds fits into the columns.
LEMMA HeldShort ==
  ASSUME NEW F \in Bounded
  PROVE  DOMAIN HeldOf(F) \subseteq Column
  <1> DEFINE s == HeldOf(F)
             a == Len(F.args)
             b == Len(F.stack)
  <1>1. F \in FrameType /\ a <= MaxStack /\ b <= MaxStack BY DEF Bounded
  <1>2. s \in Seq(Value) /\ Len(s) = 2 + a + b BY <1>1, HeldCount
  <1>3. a \in Nat /\ b \in Nat BY <1>1 DEF FrameType
  <1>4. MaxStack \in Nat BY FramesAssumption
  <1> HIDE DEF s, a, b
  <1>5. DOMAIN s = 1..Len(s) BY <1>2
  <1>6. Len(s) \in Nat /\ Len(s) <= 2 * MaxStack + 2 BY <1>1, <1>2, <1>3, <1>4
  <1> QED BY <1>4, <1>5, <1>6 DEF Column, s

\* Frames and scopes as the tables they are.
Holds(fr, o) == {p \in (1..Len(fr)) \X Column : p[2] \in DOMAIN HeldOf(fr[p[1]]) /\ HeldOf(fr[p[1]])[p[2]] = o}
Enter(sc, o) == {p \in (1..Len(sc)) \X Name : sc[p[1]][p[2]] = [val |-> o, tie |-> "owned"]}

\* A row of each.
OwnedIn(S, o)       == Cardinality({n \in Name : S[n] = [val |-> o, tie |-> "owned"]})
FrameRow(fr, k, o) == IF k \in 1..Len(fr) THEN Times(o, HeldOf(fr[k])) ELSE 0
ScopeRow(sc, k, o) == IF k \in 1..Len(sc) THEN OwnedIn(sc[k], o) ELSE 0

LEMMA HoldsRow ==
  ASSUME NEW fr \in Seq(Bounded), NEW k \in Nat, NEW o
  PROVE  /\ Cardinality(Holds(fr, o)) = Cardinality(Others(Holds(fr, o), k)) + FrameRow(fr, k, o)
         /\ Cardinality(Others(Holds(fr, o), k)) \in Nat /\ FrameRow(fr, k, o) \in Nat
         /\ Cardinality(Holds(fr, o)) \in Nat
  <1> DEFINE P == Holds(fr, o)
             D == 1..Len(fr)
  <1>1. P \in SUBSET (D \X Column) BY DEF Holds
  <1>2. IsFiniteSet(D) /\ IsFiniteSet(Column) BY FS_Interval, FramesAssumption DEF Column
  <1>3. /\ Cardinality(P) = Cardinality(Others(P, k)) + Cardinality(Row(P, Column, k))
        /\ Cardinality(P) \in Nat /\ Cardinality(Others(P, k)) \in Nat /\ Cardinality(Row(P, Column, k)) \in Nat
    BY <1>1, <1>2, RowSplit
  <1>4. Cardinality(Row(P, Column, k)) = FrameRow(fr, k, o)
    <2>1. CASE k \in D
      <3> DEFINE s == HeldOf(fr[k])
      <3>1. fr[k] \in Bounded BY <2>1, ElementOfSeq
      <3>2. DOMAIN s \subseteq Column BY <3>1, HeldShort
      <3> HIDE DEF s
      <3>6. Row(P, Column, k) = {i \in Column : i \in DOMAIN s /\ s[i] = o}
        BY <2>1 DEF Row, Holds, s
      <3>7. Row(P, Column, k) = {i \in DOMAIN s : s[i] = o} BY <3>2, <3>6
      <3>8. FrameRow(fr, k, o) = Times(o, s) BY <2>1 DEF FrameRow, s
      <3> QED BY <3>7, <3>8 DEF Times
    <2>2. CASE k \notin D
      <3>1. Row(P, Column, k) = {} BY <2>2 DEF Row, Holds
      <3> QED BY <2>2, <3>1, FS_EmptySet DEF FrameRow
    <2> QED BY <2>1, <2>2
  <1> QED BY <1>3, <1>4

LEMMA EnterRow ==
  ASSUME NEW sc \in Seq(ScopeType), NEW k \in Nat, NEW o
  PROVE  /\ Cardinality(Enter(sc, o)) = Cardinality(Others(Enter(sc, o), k)) + ScopeRow(sc, k, o)
         /\ Cardinality(Others(Enter(sc, o), k)) \in Nat /\ ScopeRow(sc, k, o) \in Nat
         /\ Cardinality(Enter(sc, o)) \in Nat
  <1> DEFINE P == Enter(sc, o)
             D == 1..Len(sc)
  <1>1. P \in SUBSET (D \X Name) BY DEF Enter
  <1>2. IsFiniteSet(D) /\ IsFiniteSet(Name) BY FS_Interval, FramesAssumption
  <1>3. /\ Cardinality(P) = Cardinality(Others(P, k)) + Cardinality(Row(P, Name, k))
        /\ Cardinality(P) \in Nat /\ Cardinality(Others(P, k)) \in Nat /\ Cardinality(Row(P, Name, k)) \in Nat
    BY <1>1, <1>2, RowSplit
  <1>4. Cardinality(Row(P, Name, k)) = ScopeRow(sc, k, o)
    <2>1. CASE k \in D
      <3>1. Row(P, Name, k) = {n \in Name : sc[k][n] = [val |-> o, tie |-> "owned"]}
        BY <2>1 DEF Row, Enter
      <3> QED BY <2>1, <3>1 DEF ScopeRow, OwnedIn
    <2>2. CASE k \notin D
      <3>1. Row(P, Name, k) = {} BY <2>2 DEF Row, Enter
      <3> QED BY <2>2, <3>1, FS_EmptySet DEF ScopeRow
    <2> QED BY <2>1, <2>2
  <1> QED BY <1>3, <1>4

\* Tables that differ in one row.
LEMMA HoldsDiffer ==
  ASSUME NEW fr \in Seq(Bounded), NEW fr2 \in Seq(Bounded), NEW k \in Nat, NEW o,
         \A j \in Nat \ {k} : (j \in 1..Len(fr) <=> j \in 1..Len(fr2)) /\ (j \in 1..Len(fr) => fr[j] = fr2[j])
  PROVE  Cardinality(Holds(fr2, o)) = Cardinality(Holds(fr, o)) - FrameRow(fr, k, o) + FrameRow(fr2, k, o)
  <1>1. Others(Holds(fr, o), k) = Others(Holds(fr2, o), k)
    <2>1. ASSUME NEW j, j # k, NEW i
          PROVE  <<j, i>> \in Holds(fr, o) <=> <<j, i>> \in Holds(fr2, o)
      <3>1. CASE j \in Nat BY <2>1, <3>1 DEF Holds
      <3>2. CASE j \notin Nat
        <4>1. j \notin 1..Len(fr) /\ j \notin 1..Len(fr2) BY <3>2
        <4> QED BY <4>1 DEF Holds
      <3> QED BY <3>1, <3>2
    <2>2. /\ Holds(fr, o) \subseteq (1..Len(fr)) \X Column
          /\ Holds(fr2, o) \subseteq (1..Len(fr2)) \X Column
      BY DEF Holds
    <2> HIDE DEF Holds
    <2>3. ASSUME NEW p PROVE p \in Others(Holds(fr, o), k) <=> p \in Others(Holds(fr2, o), k)
      <3>1. p \in Holds(fr, o) \/ p \in Holds(fr2, o) => p = <<p[1], p[2]>> BY <2>2
      <3>2. p[1] # k => (<<p[1], p[2]>> \in Holds(fr, o) <=> <<p[1], p[2]>> \in Holds(fr2, o)) BY <2>1
      <3> QED BY <3>1, <3>2 DEF Others
    <2> QED BY <2>3
  <1>2. /\ Cardinality(Holds(fr, o)) = Cardinality(Others(Holds(fr, o), k)) + FrameRow(fr, k, o)
        /\ Cardinality(Others(Holds(fr, o), k)) \in Nat /\ FrameRow(fr, k, o) \in Nat
    BY HoldsRow
  <1>3. /\ Cardinality(Holds(fr2, o)) = Cardinality(Others(Holds(fr2, o), k)) + FrameRow(fr2, k, o)
        /\ FrameRow(fr2, k, o) \in Nat
    BY HoldsRow
  <1> QED BY <1>1, <1>2, <1>3

LEMMA EnterDiffer ==
  ASSUME NEW sc \in Seq(ScopeType), NEW sc2 \in Seq(ScopeType), NEW k \in Nat, NEW o,
         \A j \in Nat \ {k} : (j \in 1..Len(sc) <=> j \in 1..Len(sc2)) /\ (j \in 1..Len(sc) => sc[j] = sc2[j])
  PROVE  Cardinality(Enter(sc2, o)) = Cardinality(Enter(sc, o)) - ScopeRow(sc, k, o) + ScopeRow(sc2, k, o)
  <1>1. Others(Enter(sc, o), k) = Others(Enter(sc2, o), k)
    <2>1. ASSUME NEW j, j # k, NEW i
          PROVE  <<j, i>> \in Enter(sc, o) <=> <<j, i>> \in Enter(sc2, o)
      <3>1. CASE j \in Nat BY <2>1, <3>1 DEF Enter
      <3>2. CASE j \notin Nat
        <4>1. j \notin 1..Len(sc) /\ j \notin 1..Len(sc2) BY <3>2
        <4> QED BY <4>1 DEF Enter
      <3> QED BY <3>1, <3>2
    <2>2. /\ Enter(sc, o) \subseteq (1..Len(sc)) \X Name
          /\ Enter(sc2, o) \subseteq (1..Len(sc2)) \X Name
      BY DEF Enter
    <2> HIDE DEF Enter
    <2>3. ASSUME NEW p PROVE p \in Others(Enter(sc, o), k) <=> p \in Others(Enter(sc2, o), k)
      <3>1. p \in Enter(sc, o) \/ p \in Enter(sc2, o) => p = <<p[1], p[2]>> BY <2>2
      <3>2. p[1] # k => (<<p[1], p[2]>> \in Enter(sc, o) <=> <<p[1], p[2]>> \in Enter(sc2, o)) BY <2>1
      <3> QED BY <3>1, <3>2 DEF Others
    <2> QED BY <2>3
  <1>2. /\ Cardinality(Enter(sc, o)) = Cardinality(Others(Enter(sc, o), k)) + ScopeRow(sc, k, o)
        /\ Cardinality(Others(Enter(sc, o), k)) \in Nat /\ ScopeRow(sc, k, o) \in Nat
    BY EnterRow
  <1>3. /\ Cardinality(Enter(sc2, o)) = Cardinality(Others(Enter(sc2, o), k)) + ScopeRow(sc2, k, o)
        /\ ScopeRow(sc2, k, o) \in Nat
    BY EnterRow
  <1> QED BY <1>1, <1>2, <1>3

-------------------------------------------------------------------------------
(* Owners of an object.                                                    *)

Total(fr, sc, o) == Cardinality(Enter(sc, o)) + Cardinality(Holds(fr, o))

LEMMA OwnersAre ==
  ASSUME Len(scopes) = Len(frames), NEW o
  PROVE  Owners(o) = Total(frames, scopes, o)
  <1>1. \A k \in 1..Len(frames) : Held(k) = HeldOf(frames[k]) BY DEF Held, HeldOf
  <1>2. {p \in (1..Depth) \X (1..(2 * MaxStack + 2)) : p[2] \in DOMAIN Held(p[1]) /\ Held(p[1])[p[2]] = o}
        = Holds(frames, o)
    BY <1>1 DEF Holds, Depth, Column
  <1>3. {p \in (1..Depth) \X Name : scopes[p[1]][p[2]] = [val |-> o, tie |-> "owned"]} = Enter(scopes, o)
    BY DEF Enter, Depth
  <1> QED BY <1>2, <1>3 DEF Owners, Total

LEMMA OwnersNext ==
  ASSUME Len(scopes') = Len(frames'), NEW o
  PROVE  Owners(o)' = Total(frames', scopes', o)
  <1>1. \A k \in 1..Len(frames') : Held(k)' = HeldOf(frames'[k]) BY DEF Held, HeldOf
  <1>2. {p \in (1..Depth') \X (1..(2 * MaxStack + 2)) : p[2] \in DOMAIN Held(p[1])' /\ Held(p[1])'[p[2]] = o}
        = Holds(frames', o)
    BY <1>1 DEF Holds, Depth, Column
  <1>3. {p \in (1..Depth') \X Name : scopes'[p[1]][p[2]] = [val |-> o, tie |-> "owned"]} = Enter(scopes', o)
    BY DEF Enter, Depth
  <1> QED BY <1>2, <1>3 DEF Owners, Total

-------------------------------------------------------------------------------
(* The invariant.                                                          *)

\* The bounds.
Within == Depth <= MaxDepth /\ frames \in Seq(Bounded)

\* An entry without a tie holds nothing that is counted, and only the variable of
\* an open comprehension is shared in a module.
Free(S)  == \A n \in Name : S[n].tie = "none" => S[n].val \notin Obj
Ties ==
  /\ \A k \in 1..Len(scopes) : Free(scopes[k])
  /\ \A n \in Name : scopes[1][n].tie = "shared" => n = frames[1].saved.name

CountType == count \in [Obj -> 0..MaxCount] /\ leaked \in [Obj -> Nat]

Exact == IInv /\ Within /\ Ties /\ CountType /\ OnlyLocalsAndPopsLeak

OneOwned(e, o) == One(e, [val |-> o, tie |-> "owned"])

-------------------------------------------------------------------------------
(* Arithmetic of the counts.                                               *)

LEMMA IncrefedIs ==
  ASSUME NEW c \in [Obj -> Int], NEW v
  PROVE  Increfed(c, v) \in [Obj -> Int] /\ \A o \in Obj : Increfed(c, v)[o] = c[o] + One(v, o)
  BY DEF Increfed, One

LEMMA DecrefedIs ==
  ASSUME NEW c \in [Obj -> Int], NEW v
  PROVE  Decrefed(c, v) \in [Obj -> Int] /\ \A o \in Obj : Decrefed(c, v)[o] = c[o] - One(v, o)
  BY DEF Decrefed, One

LEMMA LostIs ==
  ASSUME NEW l \in [Obj -> Nat], NEW e \in EntryType
  PROVE  Lost(l, e) \in [Obj -> Nat] /\ \A o \in Obj : Lost(l, e)[o] = l[o] + OneOwned(e, o)
  <1>1. ASSUME NEW v PROVE Increfed(l, v) \in [Obj -> Nat] /\ \A o \in Obj : Increfed(l, v)[o] = l[o] + One(v, o)
    BY DEF Increfed, One
  <1>2. CASE e.tie = "owned"
    <2>1. \A o \in Obj : OneOwned(e, o) = One(e.val, o) BY <1>2 DEF OneOwned, One, EntryType
    <2> QED BY <1>1, <1>2, <2>1 DEF Lost
  <1>3. CASE e.tie # "owned"
    <2>1. \A o \in Obj : OneOwned(e, o) = 0 BY <1>3 DEF OneOwned, One
    <2> QED BY <1>3, <2>1 DEF Lost
  <1> QED BY <1>2, <1>3

\* One entry of a scope is replaced.
LEMMA OwnedChange ==
  ASSUME NEW S \in ScopeType, NEW n \in Name, NEW e, NEW o
  PROVE  /\ OwnedIn([S EXCEPT ![n] = e], o) = OwnedIn(S, o) - OneOwned(S[n], o) + OneOwned(e, o)
         /\ OwnedIn(S, o) \in Nat
  <1> DEFINE w == [val |-> o, tie |-> "owned"]
             S2 == [S EXCEPT ![n] = e]
             A == {m \in Name : S[m] = w}
             B == {m \in Name : S2[m] = w}
  <1>1. IsFiniteSet(A) /\ Cardinality(A) \in Nat BY FramesAssumption, FS_Subset, FS_CardinalityType
  <1>2. IsFiniteSet(B) /\ Cardinality(B) \in Nat BY FramesAssumption, FS_Subset, FS_CardinalityType
  <1>3. S2[n] = e /\ \A m \in Name \ {n} : S2[m] = S[m] BY DEF ScopeType
  <1>4. A \ {n} = B \ {n} BY <1>3
  <1>5. (n \in A <=> S[n] = w) /\ (n \in B <=> e = w) BY <1>3
  <1> HIDE DEF w, A, B, S2
  <1>6. Cardinality(A \ {n}) = IF n \in A THEN Cardinality(A) - 1 ELSE Cardinality(A) BY <1>1, FS_RemoveElement
  <1>7. Cardinality(B \ {n}) = IF n \in B THEN Cardinality(B) - 1 ELSE Cardinality(B) BY <1>2, FS_RemoveElement
  <1>8. Cardinality(B) = Cardinality(A) - One(S[n], w) + One(e, w)
    <2>1. One(S[n], w) = IF n \in A THEN 1 ELSE 0 BY <1>5 DEF One
    <2>2. One(e, w) = IF n \in B THEN 1 ELSE 0 BY <1>5 DEF One
    <2>3. Cardinality(A \ {n}) = Cardinality(B \ {n}) BY <1>4
    <2>4. CASE n \in A BY <1>1, <1>2, <1>6, <1>7, <2>1, <2>2, <2>3, <2>4
    <2>5. CASE n \notin A BY <1>1, <1>2, <1>6, <1>7, <2>1, <2>2, <2>3, <2>5
    <2> QED BY <2>4, <2>5
  <1> QED BY <1>1, <1>8 DEF OwnedIn, OneOwned, A, B, S2, w

LEMMA OwnedType == ASSUME NEW S, NEW o PROVE OwnedIn(S, o) \in Nat
  BY FramesAssumption, FS_Subset, FS_CardinalityType DEF OwnedIn

\* The operands and the saved variable of a frame are replaced.
LEMMA HeldChange ==
  ASSUME NEW F \in FrameType, NEW G \in FrameType, G.fn = F.fn, G.args = F.args, NEW o
  PROVE  Times(o, HeldOf(G)) = Times(o, HeldOf(F)) + Times(o, G.stack) - Times(o, F.stack)
                                 + One(G.saved.val, o) - One(F.saved.val, o)
  <1>1. /\ Times(o, HeldOf(F)) = One(F.fn, o) + Times(o, F.args) + Times(o, F.stack) + One(F.saved.val, o)
        /\ Times(o, F.args) \in Nat /\ Times(o, F.stack) \in Nat
    BY HeldCount
  <1>2. /\ Times(o, HeldOf(G)) = One(G.fn, o) + Times(o, G.args) + Times(o, G.stack) + One(G.saved.val, o)
        /\ Times(o, G.stack) \in Nat
    BY HeldCount
  <1>3. Times(o, HeldOf(G)) = One(F.fn, o) + Times(o, F.args) + Times(o, G.stack) + One(G.saved.val, o)
    BY <1>2
  <1>4. One(F.fn, o) \in Nat /\ One(F.saved.val, o) \in Nat /\ One(G.saved.val, o) \in Nat BY DEF One
  <1> DEFINE a == One(F.fn, o)
             b == Times(o, F.args)
             c == Times(o, F.stack)
             d == Times(o, G.stack)
             e == One(F.saved.val, o)
             g == One(G.saved.val, o)
             x == Times(o, HeldOf(F))
             y == Times(o, HeldOf(G))
  <1>5. /\ a \in Nat /\ b \in Nat /\ c \in Nat /\ d \in Nat /\ e \in Nat /\ g \in Nat
        /\ x = a + b + c + e /\ y = a + b + d + g
    BY <1>1, <1>2, <1>3, <1>4
  <1> HIDE DEF a, b, c, d, e, g, x, y
  <1>6. y = x + d - c + g - e BY <1>5
  <1> QED BY <1>6 DEF x, y, c, d, e, g

-------------------------------------------------------------------------------
(* Exact: steps within the running code.                                   *)

LEMMA FrameReplaced ==
  ASSUME NEW fr \in Seq(Bounded), NEW k \in 1..Len(fr), NEW F \in Bounded
  PROVE  /\ [fr EXCEPT ![k] = F] \in Seq(Bounded) /\ Len([fr EXCEPT ![k] = F]) = Len(fr)
         /\ [fr EXCEPT ![k] = F][k] = F
         /\ \A j \in 1..Len(fr) : j # k => [fr EXCEPT ![k] = F][j] = fr[j]
  OBVIOUS

LEMMA LocalTotal ==
  ASSUME Shape, Within, NEW F \in Bounded, NEW S \in ScopeType, NEW o
  PROVE  LET fr == [frames EXCEPT ![Depth] = F]
             sc == [scopes EXCEPT ![Len(scopes)] = S]
         IN  /\ Total(fr, sc, o) = Total(frames, scopes, o) - Times(o, HeldOf(Frame)) + Times(o, HeldOf(F))
                                     - OwnedIn(Scope, o) + OwnedIn(S, o)
             /\ Total(fr, sc, o) \in Nat /\ Total(frames, scopes, o) \in Nat
             /\ Times(o, HeldOf(Frame)) \in Nat /\ Times(o, HeldOf(F)) \in Nat
             /\ OwnedIn(Scope, o) \in Nat /\ OwnedIn(S, o) \in Nat
  <1> DEFINE fr == [frames EXCEPT ![Depth] = F]
             sc == [scopes EXCEPT ![Len(scopes)] = S]
  <1>1. /\ frames \in Seq(Bounded) /\ scopes \in Seq(ScopeType) /\ Depth = Len(frames) /\ Depth = Len(scopes)
        /\ Depth \in Nat /\ Depth >= 1
    BY DEF Shape, Within, Depth
  <1>2. /\ fr \in Seq(Bounded) /\ Len(fr) = Depth /\ fr[Depth] = F
        /\ \A j \in 1..Depth : j # Depth => fr[j] = frames[j]
    <2>1. Depth \in 1..Len(frames) /\ frames \in Seq(Bounded) BY <1>1
    <2>2. LET fr2 == [frames EXCEPT ![Depth] = F]
          IN  /\ fr2 \in Seq(Bounded) /\ Len(fr2) = Len(frames) /\ fr2[Depth] = F
              /\ \A j \in 1..Len(frames) : j # Depth => fr2[j] = frames[j]
      BY <2>1, FrameReplaced
    <2> QED BY <1>1, <2>2
  <1>3. /\ sc \in Seq(ScopeType) /\ Len(sc) = Depth /\ sc[Depth] = S
        /\ \A j \in 1..Depth : j # Depth => sc[j] = scopes[j]
    BY <1>1
  <1> HIDE DEF fr, sc
  <1>4. Cardinality(Holds(fr, o)) = Cardinality(Holds(frames, o)) - FrameRow(frames, Depth, o) + FrameRow(fr, Depth, o)
    <2>1. \A j \in Nat \ {Depth} : /\ j \in 1..Len(frames) <=> j \in 1..Len(fr)
                                   /\ j \in 1..Len(frames) => frames[j] = fr[j]
      BY <1>1, <1>2
    <2> QED BY <1>1, <1>2, <2>1, HoldsDiffer
  <1>5. Cardinality(Enter(sc, o)) = Cardinality(Enter(scopes, o)) - ScopeRow(scopes, Depth, o) + ScopeRow(sc, Depth, o)
    <2>1. \A j \in Nat \ {Depth} : /\ j \in 1..Len(scopes) <=> j \in 1..Len(sc)
                                   /\ j \in 1..Len(scopes) => scopes[j] = sc[j]
      BY <1>1, <1>3
    <2> QED BY <1>1, <1>3, <2>1, EnterDiffer
  <1>6. FrameRow(frames, Depth, o) = Times(o, HeldOf(Frame)) /\ FrameRow(fr, Depth, o) = Times(o, HeldOf(F))
    BY <1>1, <1>2 DEF FrameRow, Frame
  <1>7. ScopeRow(scopes, Depth, o) = OwnedIn(Scope, o) /\ ScopeRow(sc, Depth, o) = OwnedIn(S, o)
    BY <1>1, <1>3 DEF ScopeRow, Scope
  <1>8. /\ Cardinality(Holds(fr, o)) \in Nat /\ Cardinality(Holds(frames, o)) \in Nat
        /\ FrameRow(frames, Depth, o) \in Nat /\ FrameRow(fr, Depth, o) \in Nat
    BY <1>1, <1>2, HoldsRow
  <1>9. /\ Cardinality(Enter(sc, o)) \in Nat /\ Cardinality(Enter(scopes, o)) \in Nat
        /\ ScopeRow(scopes, Depth, o) \in Nat /\ ScopeRow(sc, Depth, o) \in Nat
    BY <1>1, <1>3, EnterRow
  <1>10. /\ Total(fr, sc, o) = Total(frames, scopes, o) - Times(o, HeldOf(Frame)) + Times(o, HeldOf(F))
                                     - OwnedIn(Scope, o) + OwnedIn(S, o)
         /\ Total(fr, sc, o) \in Nat /\ Total(frames, scopes, o) \in Nat
    BY <1>4, <1>5, <1>6, <1>7, <1>8, <1>9 DEF Total
  <1> QED BY <1>6, <1>7, <1>8, <1>9, <1>10 DEF fr, sc

\* Counts stay within their type as long as they are exact.
LEMMA CountTypeNext ==
  ASSUME count' \in [Obj -> Int], leaked' \in [Obj -> Nat], \A o \in Obj : count'[o] <= MaxCount,
         \A o \in Obj : Owners(o)' \in Nat, OnlyLocalsAndPopsLeak'
  PROVE  CountType'
  <1>1. ASSUME NEW o \in Obj PROVE count'[o] \in 0..MaxCount
    <2>1. count'[o] = Owners(o)' + leaked'[o] BY DEF OnlyLocalsAndPopsLeak
    <2>2. count'[o] \in Int /\ leaked'[o] \in Nat /\ Owners(o)' \in Nat /\ count'[o] <= MaxCount OBVIOUS
    <2> QED BY <2>1, <2>2, FramesAssumption
  <1> QED BY <1>1 DEF CountType

LEMMA LocalExact ==
  ASSUME Exact, IInv',
         NEW F \in Bounded, frames' = [frames EXCEPT ![Depth] = F],
         NEW S \in ScopeType, scopes' = [scopes EXCEPT ![Len(scopes)] = S],
         Free(S), InModule => \A n \in Name : S[n].tie = "shared" => n = F.saved.name,
         count' \in [Obj -> Int], leaked' \in [Obj -> Nat], \A o \in Obj : count'[o] <= MaxCount,
         \A o \in Obj : count'[o] - leaked'[o] = count[o] - leaked[o]
                              - Times(o, HeldOf(Frame)) + Times(o, HeldOf(F)) - OwnedIn(Scope, o) + OwnedIn(S, o)
  PROVE  Exact'
  <1>1. Shape /\ Shape' /\ Within BY DEF Exact, IInv
  <1>2. /\ frames \in Seq(Bounded) /\ scopes \in Seq(ScopeType) /\ Depth = Len(frames) /\ Depth = Len(scopes)
        /\ Depth \in Nat /\ Depth >= 1
    BY <1>1 DEF Shape, Within, Depth
  <1>3. ASSUME NEW o \in Obj PROVE Owners(o)' \in Nat /\ count'[o] = Owners(o)' + leaked'[o]
    <2>1. Owners(o) = Total(frames, scopes, o) BY <1>1, OwnersAre DEF Shape
    <2>2. Owners(o)' = Total(frames', scopes', o) BY <1>1, OwnersNext DEF Shape
    <2>3. count[o] = Owners(o) + leaked[o] BY DEF Exact, OnlyLocalsAndPopsLeak
    <2>4. /\ Total(frames', scopes', o) = Total(frames, scopes, o) - Times(o, HeldOf(Frame)) + Times(o, HeldOf(F))
                                     - OwnedIn(Scope, o) + OwnedIn(S, o)
          /\ Total(frames', scopes', o) \in Nat /\ Total(frames, scopes, o) \in Nat
          /\ Times(o, HeldOf(Frame)) \in Nat /\ Times(o, HeldOf(F)) \in Nat
          /\ OwnedIn(Scope, o) \in Nat /\ OwnedIn(S, o) \in Nat
      BY <1>1, LocalTotal
    <2>5. count'[o] \in Int /\ leaked'[o] \in Nat /\ count[o] \in Int /\ leaked[o] \in Nat
      BY DEF Exact, CountType
    <2>6. count'[o] - leaked'[o] = count[o] - leaked[o]
                              - Times(o, HeldOf(Frame)) + Times(o, HeldOf(F)) - OwnedIn(Scope, o) + OwnedIn(S, o)
      OBVIOUS
    <2>7. Owners(o)' \in Nat BY <2>2, <2>4
    <2> DEFINE c  == count[o]
               c2 == count'[o]
               l  == leaked[o]
               l2 == leaked'[o]
               t  == Total(frames, scopes, o)
               t2 == Total(frames', scopes', o)
               x  == Times(o, HeldOf(Frame))
               y  == Times(o, HeldOf(F))
               u  == OwnedIn(Scope, o)
               v  == OwnedIn(S, o)
    <2>8. /\ c \in Int /\ c2 \in Int /\ l \in Int /\ l2 \in Int /\ t \in Int /\ t2 \in Int
          /\ x \in Int /\ y \in Int /\ u \in Int /\ v \in Int
          /\ c = t + l /\ t2 = t - x + y - u + v /\ c2 - l2 = c - l - x + y - u + v
      BY <2>1, <2>3, <2>4, <2>5, <2>6
    <2> HIDE DEF c, c2, l, l2, t, t2, x, y, u, v
    <2>9. c2 = t2 + l2 BY <2>8
    <2> QED BY <2>2, <2>7, <2>9 DEF c2, t2, l2
  <1>4. OnlyLocalsAndPopsLeak' BY <1>3 DEF OnlyLocalsAndPopsLeak
  <1>5. CountType' BY <1>3, <1>4, CountTypeNext
  <1>6. /\ frames' \in Seq(Bounded) /\ Len(frames') = Depth /\ frames'[Depth] = F
        /\ \A j \in 1..Depth : j # Depth => frames'[j] = frames[j]
    <2>1. Depth \in 1..Len(frames) /\ frames \in Seq(Bounded) BY <1>2
    <2>2. LET fr2 == [frames EXCEPT ![Depth] = F]
          IN  /\ fr2 \in Seq(Bounded) /\ Len(fr2) = Len(frames) /\ fr2[Depth] = F
              /\ \A j \in 1..Len(frames) : j # Depth => fr2[j] = frames[j]
      BY <2>1, FrameReplaced
    <2> QED BY <1>2, <2>2
  <1>7. /\ Len(scopes') = Depth /\ scopes'[Depth] = S
        /\ \A j \in 1..Depth : j # Depth => scopes'[j] = scopes[j]
    BY <1>2
  <1>8. Within' BY <1>1, <1>2, <1>6 DEF Within, Depth
  <1>9. Ties'
    <2>1. ASSUME NEW k \in 1..Depth PROVE Free(scopes'[k])
      <3>1. CASE k = Depth BY <3>1, <1>7
      <3>2. CASE k # Depth BY <3>2, <1>2, <1>7 DEF Exact, Ties
      <3> QED BY <3>1, <3>2
    <2>2. ASSUME NEW n \in Name, scopes'[1][n].tie = "shared" PROVE n = frames'[1].saved.name
      <3>1. CASE Depth = 1 BY <2>2, <3>1, <1>2, <1>6, <1>7 DEF InModule
      <3>2. CASE Depth # 1
        <4>1. scopes'[1] = scopes[1] /\ frames'[1] = frames[1] BY <3>2, <1>2, <1>6, <1>7
        <4> QED BY <2>2, <4>1 DEF Exact, Ties
      <3> QED BY <3>1, <3>2
    <2> QED BY <1>7, <2>1, <2>2 DEF Ties, Free
  <1> QED BY <1>4, <1>5, <1>8, <1>9 DEF Exact

-------------------------------------------------------------------------------
(* Exact: operands and entries.                                            *)

\* What the running frame and scope are, with the sizes.
LEMMA TopExact ==
  ASSUME Exact
  PROVE  /\ Shape /\ IInv /\ Frame \in Bounded /\ Frame \in FrameType /\ Scope \in ScopeType /\ Free(Scope)
         /\ count \in [Obj -> Int] /\ (\A o \in Obj : count[o] <= MaxCount /\ count[o] \in Int)
         /\ leaked \in [Obj -> Nat]
         /\ InModule => \A n \in Name : /\ Scope[n].tie # "borrowed"
                                        /\ Scope[n].tie = "shared" => n = Frame.saved.name
         /\ Unset \notin Obj /\ None \notin Obj
  <1>1. /\ Shape /\ IInv /\ Within /\ Ties /\ CountType BY DEF Exact, IInv
  <1>2. /\ Depth \in 1..Len(frames) /\ Len(scopes) = Depth /\ Depth \in Nat
        /\ Frame \in FrameType /\ Scope \in ScopeType
    BY <1>1, TopType
  <1>3. frames \in Seq(Bounded) BY <1>1 DEF Within
  <1>4. Frame \in Bounded BY <1>2, <1>3, ElementOfSeq DEF Frame
  <1>5. Free(Scope) BY <1>1, <1>2 DEF Ties, Scope
  <1>6. count \in [Obj -> Int] /\ (\A o \in Obj : count[o] <= MaxCount /\ count[o] \in Int) /\ leaked \in [Obj -> Nat]
    BY <1>1, FramesAssumption DEF CountType
  <1>7. InModule => \A n \in Name : /\ Scope[n].tie # "borrowed"
                                    /\ Scope[n].tie = "shared" => n = Frame.saved.name
    <2>1. InModule => Scope = scopes[1] /\ Frame = frames[1] BY <1>2 DEF InModule, Scope, Frame
    <2> QED BY <1>1, <2>1 DEF Ties, IInv, ModuleOwns
  <1> QED BY <1>1, <1>2, <1>4, <1>5, <1>6, <1>7, FramesAssumption DEF Value

\* A frame with other operands.
LEMMA StackChange ==
  ASSUME Exact, NEW s \in Seq(Value), Len(s) <= MaxStack
  PROVE  LET F == [Frame EXCEPT !.stack = s]
         IN  /\ F \in Bounded /\ F.saved = Frame.saved
             /\ \A o : Times(o, HeldOf(F)) = Times(o, HeldOf(Frame)) + Times(o, s) - Times(o, Stack)
             /\ \A o : Times(o, s) \in Nat /\ Times(o, Stack) \in Nat /\ Times(o, HeldOf(Frame)) \in Nat
  <1> DEFINE F == [Frame EXCEPT !.stack = s]
  <1>1. Frame \in Bounded /\ Frame \in FrameType /\ Shape BY TopExact
  <1>2. F \in FrameType /\ F.stack = s /\ F.args = Frame.args /\ F.fn = Frame.fn /\ F.saved = Frame.saved
    BY <1>1 DEF FrameType
  <1>3. F \in Bounded BY <1>1, <1>2 DEF Bounded
  <1> HIDE DEF F
  <1>4. ASSUME NEW o
        PROVE  /\ Times(o, HeldOf(F)) = Times(o, HeldOf(Frame)) + Times(o, s) - Times(o, Stack)
               /\ Times(o, s) \in Nat /\ Times(o, Stack) \in Nat /\ Times(o, HeldOf(Frame)) \in Nat
    <2>1. Times(o, HeldOf(F)) = Times(o, HeldOf(Frame)) + Times(o, F.stack) - Times(o, Frame.stack)
                                 + One(F.saved.val, o) - One(Frame.saved.val, o)
      BY <1>1, <1>2, HeldChange
    <2>2. HeldOf(Frame) \in Seq(Value) BY <1>1, HeldCount
    <2>3. Stack \in Seq(Value) BY <1>1, StackType
    <2>4. Times(o, s) \in Nat /\ Times(o, Stack) \in Nat /\ Times(o, HeldOf(Frame)) \in Nat
      BY <2>2, <2>3, TimesType
    <2>5. F.stack = s /\ Frame.stack = Stack /\ One(F.saved.val, o) = One(Frame.saved.val, o) BY <1>2 DEF Stack
    <2>6. One(Frame.saved.val, o) \in Nat BY DEF One
    <2> QED BY <2>1, <2>4, <2>5, <2>6
  <1> QED BY <1>2, <1>3, <1>4 DEF F

\* A frame with another saved variable.
LEMMA SavedChange ==
  ASSUME Exact, NEW sv \in SavedType
  PROVE  LET F == [Frame EXCEPT !.saved = sv]
         IN  /\ F \in Bounded /\ F.saved = sv
             /\ \A o : Times(o, HeldOf(F)) = Times(o, HeldOf(Frame)) + One(sv.val, o) - One(Frame.saved.val, o)
             /\ \A o : Times(o, HeldOf(Frame)) \in Nat
  <1> DEFINE F == [Frame EXCEPT !.saved = sv]
  <1>1. Frame \in Bounded /\ Frame \in FrameType /\ Shape BY TopExact
  <1>2. F \in FrameType /\ F.stack = Frame.stack /\ F.args = Frame.args /\ F.fn = Frame.fn /\ F.saved = sv
    BY <1>1 DEF FrameType
  <1>3. F \in Bounded BY <1>1, <1>2 DEF Bounded
  <1> HIDE DEF F
  <1>4. ASSUME NEW o
        PROVE  /\ Times(o, HeldOf(F)) = Times(o, HeldOf(Frame)) + One(sv.val, o) - One(Frame.saved.val, o)
               /\ Times(o, HeldOf(Frame)) \in Nat
    <2>1. Times(o, HeldOf(F)) = Times(o, HeldOf(Frame)) + Times(o, F.stack) - Times(o, Frame.stack)
                                 + One(F.saved.val, o) - One(Frame.saved.val, o)
      BY <1>1, <1>2, HeldChange
    <2>2. HeldOf(Frame) \in Seq(Value) BY <1>1, HeldCount
    <2>3. Frame.stack \in Seq(Value) BY <1>1, StackType DEF Stack
    <2>4. Times(o, Frame.stack) \in Nat /\ Times(o, HeldOf(Frame)) \in Nat
      BY <2>2, <2>3, TimesType
    <2>5. F.stack = Frame.stack /\ One(F.saved.val, o) = One(sv.val, o) BY <1>2
    <2>6. One(Frame.saved.val, o) \in Nat /\ One(sv.val, o) \in Nat BY DEF One
    <2> QED BY <2>1, <2>4, <2>5, <2>6
  <1> QED BY <1>2, <1>3, <1>4 DEF F

\* Steps that change the operands only, with the count of what comes or goes.
LEMMA OperandsExact ==
  ASSUME Exact, IInv', NEW s \in Seq(Value), Stacks(s), UNCHANGED <<scopes, leaked>>,
         count' \in [Obj -> Int], \A o \in Obj : count'[o] <= MaxCount,
         \A o \in Obj : count'[o] - count[o] = Times(o, s) - Times(o, Stack)
  PROVE  Exact'
  <1> DEFINE F == [Frame EXCEPT !.stack = s]
  <1>1. Shape /\ Scope \in ScopeType /\ Free(Scope) /\ leaked' \in [Obj -> Nat] /\ leaked \in [Obj -> Nat]
        /\ count \in [Obj -> Int]
    BY TopExact
  <1>2. Len(s) <= MaxStack BY DEF Stacks
  <1>3. /\ F \in Bounded /\ F.saved = Frame.saved
        /\ \A o : Times(o, HeldOf(F)) = Times(o, HeldOf(Frame)) + Times(o, s) - Times(o, Stack)
        /\ \A o : Times(o, s) \in Nat /\ Times(o, Stack) \in Nat /\ Times(o, HeldOf(Frame)) \in Nat
    BY <1>2, StackChange
  <1>4. frames' = [frames EXCEPT ![Depth] = F] BY <1>1, StackFacts
  <1>5. scopes' = [scopes EXCEPT ![Len(scopes)] = Scope] BY <1>1, Same
  <1>6. InModule => \A n \in Name : Scope[n].tie = "shared" => n = F.saved.name BY <1>3, TopExact
  <1> HIDE DEF F
  <1>7. ASSUME NEW o \in Obj
        PROVE  count'[o] - leaked'[o] = count[o] - leaked[o]
                  - Times(o, HeldOf(Frame)) + Times(o, HeldOf(F)) - OwnedIn(Scope, o) + OwnedIn(Scope, o)
    <2>1. OwnedIn(Scope, o) \in Nat BY <1>1, OwnedType
    <2>2. count'[o] \in Int /\ count[o] \in Int /\ leaked[o] \in Nat /\ leaked'[o] = leaked[o] BY <1>1
    <2>3. count'[o] - count[o] = Times(o, s) - Times(o, Stack) OBVIOUS
    <2>4. /\ Times(o, HeldOf(F)) = Times(o, HeldOf(Frame)) + Times(o, s) - Times(o, Stack)
          /\ Times(o, s) \in Nat /\ Times(o, Stack) \in Nat /\ Times(o, HeldOf(Frame)) \in Nat
      BY <1>3
    <2> DEFINE c == count[o]
               c2 == count'[o]
               l == leaked[o]
               a == Times(o, s)
               b == Times(o, Stack)
               x == Times(o, HeldOf(Frame))
               y == Times(o, HeldOf(F))
               u == OwnedIn(Scope, o)
    <2>5. /\ c \in Int /\ c2 \in Int /\ l \in Int /\ a \in Int /\ b \in Int /\ x \in Int /\ u \in Int
          /\ c2 - c = a - b /\ y = x + a - b
      BY <2>1, <2>2, <2>3, <2>4
    <2> HIDE DEF c, c2, l, a, b, x, y, u
    <2>6. c2 - l = c - l - x + y - u + u BY <2>5
    <2> QED BY <2>2, <2>6 DEF c, c2, l, x, y, u
  <1> QED BY <1>1, <1>3, <1>4, <1>5, <1>6, <1>7, LocalExact

\* Steps that also replace one entry, whose old value may leak.
OnlySaved(F, n, tie) ==
  InModule => \A m \in Name : (m = n /\ tie = "shared") \/ (m # n /\ Scope[m].tie = "shared") => m = F.saved.name

\* What comes into the counts is what the frame and the entry come to hold.
Settled(F, n, v, tie) ==
  \A o \in Obj : count'[o] - leaked'[o] = count[o] - leaked[o]
                     - Times(o, HeldOf(Frame)) + Times(o, HeldOf(F))
                     - OneOwned(Scope[n], o) + (IF tie = "owned" THEN One(v, o) ELSE 0)

LEMMA EntersExact ==
  ASSUME Exact, IInv', NEW F \in Bounded, frames' = [frames EXCEPT ![Depth] = F],
         NEW n \in Name, NEW v \in Value, NEW tie \in Tie, Enters(n, v, tie),
         tie = "none" => v \notin Obj,
         OnlySaved(F, n, tie),
         count' \in [Obj -> Int], leaked' \in [Obj -> Nat], \A o \in Obj : count'[o] <= MaxCount,
         Settled(F, n, v, tie)
  PROVE  Exact'
  <1> DEFINE e == [val |-> v, tie |-> tie]
             S == [Scope EXCEPT ![n] = e]
  <1>1. Shape /\ Scope \in ScopeType /\ Free(Scope) /\ Frame \in FrameType
        /\ count \in [Obj -> Int] /\ leaked \in [Obj -> Nat]
    BY TopExact
  <1>2. e \in EntryType /\ e.tie = tie /\ e.val = v BY DEF EntryType
  <1>3. S \in ScopeType /\ S[n] = e /\ \A m \in Name : m # n => S[m] = Scope[m] BY <1>1, <1>2 DEF ScopeType
  <1>4. scopes' = [scopes EXCEPT ![Len(scopes)] = S] BY DEF Enters, Scope
  <1>5. \A o \in Obj : OneOwned(e, o) = IF tie = "owned" THEN One(v, o) ELSE 0
    BY DEF OneOwned, One
  <1>6. \A o : OwnedIn(S, o) = OwnedIn(Scope, o) - OneOwned(Scope[n], o) + OneOwned(e, o) BY <1>1, OwnedChange
  <1> HIDE DEF S, e
  <1>7. Free(S) BY <1>1, <1>2, <1>3 DEF Free
  <1>8. InModule => \A m \in Name : S[m].tie = "shared" => m = F.saved.name BY <1>2, <1>3 DEF OnlySaved
  <1>9. F \in FrameType BY DEF Bounded
  <1>10. ASSUME NEW o \in Obj
         PROVE  count'[o] - leaked'[o] = count[o] - leaked[o]
                  - Times(o, HeldOf(Frame)) + Times(o, HeldOf(F)) - OwnedIn(Scope, o) + OwnedIn(S, o)
    <2> DEFINE a == OneOwned(Scope[n], o)
               b == OneOwned(e, o)
               x == OwnedIn(Scope, o)
               y == OwnedIn(S, o)
               d == count'[o] - leaked'[o]
               g == count[o] - leaked[o]
               p == Times(o, HeldOf(Frame))
               q == Times(o, HeldOf(F))
    <2>1. x \in Int /\ y \in Int BY OwnedType
    <2>2. a \in Int /\ b \in Int BY DEF OneOwned, One
    <2>3. d \in Int /\ g \in Int
      <3>1. count'[o] \in Int /\ leaked'[o] \in Nat OBVIOUS
      <3>2. count[o] \in Int /\ leaked[o] \in Nat BY <1>1
      <3> QED BY <3>1, <3>2
    <2>4. p \in Int /\ q \in Int
      <3>1. HeldOf(Frame) \in Seq(Value) /\ HeldOf(F) \in Seq(Value) BY <1>1, <1>9, HeldCount
      <3>2. Times(o, HeldOf(Frame)) \in Nat BY <3>1, TimesType
      <3>3. Times(o, HeldOf(F)) \in Nat BY <3>1, TimesType
      <3> QED BY <3>2, <3>3
    <2>5. y = x - a + b BY <1>6
    <2>6. d = g - p + q - a + b
      <3>1. b = IF tie = "owned" THEN One(v, o) ELSE 0 BY <1>5
      <3>2. d = g - p + q - a + (IF tie = "owned" THEN One(v, o) ELSE 0) BY DEF Settled
      <3> QED BY <3>1, <3>2
    <2> HIDE DEF a, b, x, y, d, g, p, q
    <2>7. d = g - p + q - x + y BY <2>1, <2>2, <2>3, <2>4, <2>5, <2>6
    <2> QED BY <2>7 DEF d, g, p, q, x, y
  <1> QED BY <1>3, <1>4, <1>7, <1>8, <1>10, LocalExact

-------------------------------------------------------------------------------
(* Exact: the actions.                                                     *)

LEMMA LoadConstExact == ASSUME Exact, NEW v \in Value, LoadConst(v) PROVE Exact'
  <1> DEFINE s == Append(Stack, v)
  <1>1. IInv /\ Shape /\ count \in [Obj -> Int] BY TopExact
  <1>2. IInv' BY <1>1, LoadConstInv
  <1>3. s \in Seq(Value) /\ Stack \in Seq(Value) BY <1>1, StackType
  <1>4. count' = Increfed(count, v) /\ (\A o \in Obj : count'[o] <= MaxCount) /\ Stacks(s) /\ UNCHANGED <<scopes, leaked>>
    BY DEF LoadConst, Counts
  <1>5. count' \in [Obj -> Int] /\ \A o \in Obj : count'[o] = count[o] + One(v, o) BY <1>1, <1>4, IncrefedIs
  <1>6. \A o : Times(o, s) = Times(o, Stack) + One(v, o) /\ Times(o, Stack) \in Nat /\ One(v, o) \in Nat
    BY <1>3, TimesAppend, TimesType DEF One
  <1> HIDE DEF s
  <1>7. ASSUME NEW o \in Obj PROVE count'[o] - count[o] = Times(o, s) - Times(o, Stack)
    <2>1. Times(o, s) = Times(o, Stack) + One(v, o) /\ Times(o, Stack) \in Nat /\ One(v, o) \in Nat BY <1>6
    <2>2. count'[o] = count[o] + One(v, o) /\ count[o] \in Int BY <1>1, <1>5
    <2> QED BY <2>1, <2>2
  <1> QED BY <1>2, <1>3, <1>4, <1>5, <1>7, OperandsExact

\* Nothing but the phase changes.
LEMMA RaisedExact == ASSUME Exact, IInv', UNCHANGED <<count, scopes, frames, leaked>> PROVE Exact'
  <1>1. \A o \in Obj : Owners(o)' = Owners(o) BY DEF Owners, Held, Depth
  <1>2. OnlyLocalsAndPopsLeak' BY <1>1 DEF Exact, OnlyLocalsAndPopsLeak
  <1> QED BY <1>2 DEF Exact, Within, Ties, CountType, Depth, Free

LEMMA LoadExact == ASSUME Exact, NEW n \in Name, Load(n) \/ LoadUnset(n) PROVE Exact'
  <1> DEFINE v == Scope[n].val
             s == Append(Stack, v)
  <1>1. IInv /\ Shape /\ count \in [Obj -> Int] /\ Scope \in ScopeType BY TopExact
  <1>2. IInv' BY <1>1, LoadInv
  <1>3. CASE LoadUnset(n) BY <1>2, <1>3, RaisedExact DEF LoadUnset
  <1>4. CASE Load(n)
    <2>1. v \in Value BY <1>1, <1>4 DEF Load, ScopeType, EntryType
    <2>2. s \in Seq(Value) /\ Stack \in Seq(Value) BY <1>1, <2>1, StackType
    <2>3. count' = Increfed(count, v) /\ (\A o \in Obj : count'[o] <= MaxCount) /\ Stacks(s) /\ UNCHANGED <<scopes, leaked>>
      BY <1>4 DEF Load, Counts
    <2> HIDE DEF v
    <2>4. count' \in [Obj -> Int] /\ \A o \in Obj : count'[o] = count[o] + One(v, o) BY <1>1, <2>3, IncrefedIs
    <2>5. \A o : Times(o, s) = Times(o, Stack) + One(v, o) /\ Times(o, Stack) \in Nat /\ One(v, o) \in Nat
      BY <2>1, <2>2, TimesAppend, TimesType DEF One
    <2> HIDE DEF s
    <2>6. ASSUME NEW o \in Obj PROVE count'[o] - count[o] = Times(o, s) - Times(o, Stack)
      <3>1. Times(o, s) = Times(o, Stack) + One(v, o) /\ Times(o, Stack) \in Nat /\ One(v, o) \in Nat BY <2>5
      <3>2. count'[o] = count[o] + One(v, o) /\ count[o] \in Int BY <1>1, <2>4
      <3> QED BY <3>1, <3>2
    <2> QED BY <1>2, <2>2, <2>3, <2>4, <2>6, OperandsExact
  <1> QED BY <1>3, <1>4

\* What the top of the stack hands over to an entry.
LEMMA TopGoes ==
  ASSUME Exact, Stack # <<>>, Stacks(Front(Stack))
  PROVE  LET F == [Frame EXCEPT !.stack = Front(Stack)]
         IN  /\ F \in Bounded /\ F.saved = Frame.saved /\ frames' = [frames EXCEPT ![Depth] = F]
             /\ Last(Stack) \in Value
             /\ \A o : Times(o, HeldOf(F)) = Times(o, HeldOf(Frame)) - One(Last(Stack), o)
             /\ \A o : Times(o, HeldOf(Frame)) \in Nat /\ One(Last(Stack), o) \in Nat
  <1> DEFINE s == Front(Stack)
             v == Last(Stack)
             F == [Frame EXCEPT !.stack = s]
  <1>1. Shape BY TopExact
  <1>2. s \in Seq(Value) /\ Stack \in Seq(Value) /\ v \in Value BY <1>1, StackType
  <1>3. Len(s) <= MaxStack BY DEF Stacks
  <1>4. frames' = [frames EXCEPT ![Depth] = F] BY <1>1, <1>2, StackFacts
  <1>5. /\ F \in Bounded /\ F.saved = Frame.saved
        /\ \A o : Times(o, HeldOf(F)) = Times(o, HeldOf(Frame)) + Times(o, s) - Times(o, Stack)
        /\ \A o : Times(o, s) \in Nat /\ Times(o, Stack) \in Nat /\ Times(o, HeldOf(Frame)) \in Nat
    BY <1>2, <1>3, StackChange
  <1>6. \A o : Times(o, Stack) = Times(o, s) + One(v, o) /\ One(v, o) \in Nat
    BY <1>2, TimesFront DEF One
  <1> HIDE DEF s, v, F
  <1>7. ASSUME NEW o
        PROVE  Times(o, HeldOf(F)) = Times(o, HeldOf(Frame)) - One(v, o) /\ Times(o, HeldOf(Frame)) \in Nat /\ One(v, o) \in Nat
    <2>1. /\ Times(o, HeldOf(F)) = Times(o, HeldOf(Frame)) + Times(o, s) - Times(o, Stack)
          /\ Times(o, s) \in Nat /\ Times(o, Stack) \in Nat /\ Times(o, HeldOf(Frame)) \in Nat
      BY <1>5
    <2>2. Times(o, Stack) = Times(o, s) + One(v, o) /\ One(v, o) \in Nat BY <1>6
    <2> QED BY <2>1, <2>2
  <1> QED BY <1>2, <1>4, <1>5, <1>7 DEF s, v, F

LEMMA StoreNameExact == ASSUME Exact, NEW n \in Name, StoreName(n) PROVE Exact'
  <1> DEFINE v == Last(Stack)
             w == Scope[n].val
             F == [Frame EXCEPT !.stack = Front(Stack)]
  <1>1. IInv /\ Shape /\ count \in [Obj -> Int] /\ leaked \in [Obj -> Nat] /\ Scope \in ScopeType /\ Free(Scope)
    BY TopExact
  <1>2. IInv' BY <1>1, StoreInv
  <1>3. Stack # <<>> /\ Stacks(Front(Stack)) /\ InModule /\ n # Frame.saved.name BY DEF StoreName, Fast
  <1>4. /\ F \in Bounded /\ F.saved = Frame.saved /\ frames' = [frames EXCEPT ![Depth] = F]
        /\ v \in Value
        /\ \A o : Times(o, HeldOf(F)) = Times(o, HeldOf(Frame)) - One(v, o)
        /\ \A o : Times(o, HeldOf(Frame)) \in Nat /\ One(v, o) \in Nat
    BY <1>3, TopGoes
  <1>5. count' = Decrefed(count, w) /\ (\A o \in Obj : count'[o] <= MaxCount) /\ Enters(n, v, "owned") /\ leaked' = leaked
    BY DEF StoreName, Counts
  <1>6. count' \in [Obj -> Int] /\ \A o \in Obj : count'[o] = count[o] - One(w, o) BY <1>1, <1>5, DecrefedIs
  \* The entry that is overwritten is the owner of its value, or has none.
  <1>7. \A o \in Obj : OneOwned(Scope[n], o) = One(w, o)
    <2>1. Scope[n] \in EntryType BY <1>1 DEF ScopeType
    <2>2. Scope[n].tie # "borrowed" /\ Scope[n].tie # "shared" BY <1>3, TopExact
    <2>3. Scope[n].tie = "owned" \/ (Scope[n].tie = "none" /\ w \notin Obj)
      BY <1>1, <2>1, <2>2 DEF Free, EntryType, Tie
    <2>4. CASE Scope[n].tie = "owned" BY <2>1, <2>4 DEF OneOwned, One, EntryType
    <2>5. CASE Scope[n].tie = "none" /\ w \notin Obj BY <2>5 DEF OneOwned, One
    <2> QED BY <2>3, <2>4, <2>5
  <1>8. \A m \in Name : m # n /\ Scope[m].tie = "shared" => m = F.saved.name BY <1>3, <1>4, TopExact
  <1> HIDE DEF v, w, F
  <1>9. ASSUME NEW o \in Obj
        PROVE  count'[o] - leaked'[o] = count[o] - leaked[o] - Times(o, HeldOf(Frame)) + Times(o, HeldOf(F))
                     - OneOwned(Scope[n], o) + One(v, o)
    <2>1. Times(o, HeldOf(F)) = Times(o, HeldOf(Frame)) - One(v, o) /\ Times(o, HeldOf(Frame)) \in Nat /\ One(v, o) \in Nat
      BY <1>4
    <2>2. count'[o] = count[o] - OneOwned(Scope[n], o) BY <1>6, <1>7
    <2>3. count[o] \in Int /\ leaked[o] \in Int /\ leaked'[o] = leaked[o] BY <1>1, <1>5
    <2>4. OneOwned(Scope[n], o) \in Int BY DEF OneOwned, One
    <2> QED BY <2>1, <2>2, <2>3, <2>4
  <1>10. "owned" \in Tie BY DEF Tie
  <1>11. leaked' \in [Obj -> Nat] BY <1>1, <1>5
  <1>12. Settled(F, n, v, "owned") BY <1>9 DEF Settled
  <1>13. OnlySaved(F, n, "owned") BY <1>8 DEF OnlySaved
  <1> QED BY <1>2, <1>4, <1>5, <1>6, <1>10, <1>11, <1>12, <1>13, EntersExact

\* The operand's reference becomes a lost one.
LEMMA PopTopExact == ASSUME Exact, PopTop PROVE Exact'
  <1> DEFINE v == Last(Stack)
             F == [Frame EXCEPT !.stack = Front(Stack)]
  <1>1. /\ IInv /\ Shape /\ count \in [Obj -> Int] /\ leaked \in [Obj -> Nat] /\ Scope \in ScopeType /\ Free(Scope)
        /\ \A o \in Obj : count[o] <= MaxCount
    BY TopExact
  <1>2. IInv' BY <1>1, PopTopInv
  <1>3. Stack # <<>> /\ Stacks(Front(Stack)) BY DEF PopTop
  <1>4. /\ F \in Bounded /\ F.saved = Frame.saved /\ frames' = [frames EXCEPT ![Depth] = F]
        /\ v \in Value
        /\ \A o : Times(o, HeldOf(F)) = Times(o, HeldOf(Frame)) - One(v, o)
        /\ \A o : Times(o, HeldOf(Frame)) \in Nat /\ One(v, o) \in Nat
    BY <1>3, TopGoes
  <1>5. count' = count /\ scopes' = scopes /\ leaked' = Increfed(leaked, v) BY DEF PopTop
  <1>6. scopes' = [scopes EXCEPT ![Len(scopes)] = Scope] BY <1>1, <1>5, Same
  <1>7. InModule => \A n \in Name : Scope[n].tie = "shared" => n = F.saved.name BY <1>4, TopExact
  <1> HIDE DEF v, F
  <1>8. leaked' \in [Obj -> Nat] /\ \A o \in Obj : leaked'[o] = leaked[o] + One(v, o)
    BY <1>1, <1>5 DEF Increfed, One
  <1>9. ASSUME NEW o \in Obj
        PROVE  count'[o] - leaked'[o] = count[o] - leaked[o]
                  - Times(o, HeldOf(Frame)) + Times(o, HeldOf(F)) - OwnedIn(Scope, o) + OwnedIn(Scope, o)
    <2>1. Times(o, HeldOf(F)) = Times(o, HeldOf(Frame)) - One(v, o) /\ Times(o, HeldOf(Frame)) \in Nat /\ One(v, o) \in Nat
      BY <1>4
    <2>2. leaked'[o] = leaked[o] + One(v, o) /\ OwnedIn(Scope, o) \in Nat BY <1>1, <1>8, OwnedType
    <2>3. count[o] \in Int /\ leaked[o] \in Int /\ count'[o] = count[o] BY <1>1, <1>5
    <2> QED BY <2>1, <2>2, <2>3
  <1> QED BY <1>1, <1>2, <1>4, <1>5, <1>6, <1>7, <1>8, <1>9, LocalExact

LEMMA StoreFastExact == ASSUME Exact, NEW n \in Name, StoreFast(n) PROVE Exact'
  <1> DEFINE v == Last(Stack)
             F == [Frame EXCEPT !.stack = Front(Stack)]
  <1>1. /\ IInv /\ Shape /\ count \in [Obj -> Int] /\ leaked \in [Obj -> Nat] /\ Scope \in ScopeType
        /\ \A o \in Obj : count[o] <= MaxCount
    BY TopExact
  <1>2. IInv' BY <1>1, StoreInv
  <1>3. Stack # <<>> /\ Stacks(Front(Stack)) BY DEF StoreFast
  <1>4. /\ F \in Bounded /\ F.saved = Frame.saved /\ frames' = [frames EXCEPT ![Depth] = F]
        /\ v \in Value
        /\ \A o : Times(o, HeldOf(F)) = Times(o, HeldOf(Frame)) - One(v, o)
        /\ \A o : Times(o, HeldOf(Frame)) \in Nat /\ One(v, o) \in Nat
    BY <1>3, TopGoes
  <1>5. count' = count /\ Enters(n, v, "owned") /\ leaked' = Lost(leaked, Scope[n]) BY DEF StoreFast
  <1>6. leaked' \in [Obj -> Nat] /\ \A o \in Obj : leaked'[o] = leaked[o] + OneOwned(Scope[n], o)
    BY <1>1, <1>5, LostIs DEF ScopeType
  <1>7. InModule => \A m \in Name : m # n /\ Scope[m].tie = "shared" => m = F.saved.name BY <1>4, TopExact
  <1> HIDE DEF v, F
  <1>8. ASSUME NEW o \in Obj
        PROVE  count'[o] - leaked'[o] = count[o] - leaked[o] - Times(o, HeldOf(Frame)) + Times(o, HeldOf(F))
                     - OneOwned(Scope[n], o) + One(v, o)
    <2>1. Times(o, HeldOf(F)) = Times(o, HeldOf(Frame)) - One(v, o) /\ Times(o, HeldOf(Frame)) \in Nat /\ One(v, o) \in Nat
      BY <1>4
    <2>2. leaked'[o] = leaked[o] + OneOwned(Scope[n], o) BY <1>6
    <2>3. count[o] \in Int /\ leaked[o] \in Int /\ count'[o] = count[o] BY <1>1, <1>5
    <2>4. OneOwned(Scope[n], o) \in Int BY DEF OneOwned, One
    <2> QED BY <2>1, <2>2, <2>3, <2>4
  <1>9. "owned" \in Tie BY DEF Tie
  <1>10. Settled(F, n, v, "owned") BY <1>8 DEF Settled
  <1>11. OnlySaved(F, n, "owned") BY <1>7 DEF OnlySaved
  <1> QED BY <1>1, <1>2, <1>4, <1>5, <1>6, <1>9, <1>10, <1>11, EntersExact

LEMMA StoreFastLoadFastExact == ASSUME Exact, NEW n \in Name, StoreFastLoadFast(n) PROVE Exact'
  <1> DEFINE v == Last(Stack)
  <1>1. /\ IInv /\ Shape /\ count \in [Obj -> Int] /\ leaked \in [Obj -> Nat] /\ Scope \in ScopeType
        /\ (\A o \in Obj : count[o] <= MaxCount) /\ Frame \in Bounded /\ Frame \in FrameType
    BY TopExact
  <1>2. IInv' BY <1>1, StoreFastLoadFastInv
  <1>3. Stack # <<>> /\ frames' = frames /\ (InModule => n = Frame.saved.name) BY DEF StoreFastLoadFast, Fast
  <1>4. v \in Value /\ frames' = [frames EXCEPT ![Depth] = Frame] BY <1>1, <1>3, StackType, Same
  <1>5. count' = count /\ Enters(n, v, "shared") /\ leaked' = Lost(leaked, Scope[n]) BY DEF StoreFastLoadFast
  <1>6. leaked' \in [Obj -> Nat] /\ \A o \in Obj : leaked'[o] = leaked[o] + OneOwned(Scope[n], o)
    BY <1>1, <1>5, LostIs DEF ScopeType
  <1>7. InModule => \A m \in Name : m = n \/ Scope[m].tie = "shared" => m = Frame.saved.name BY <1>3, TopExact
  <1> HIDE DEF v
  <1>8. ASSUME NEW o \in Obj
        PROVE  count'[o] - leaked'[o] = count[o] - leaked[o] - Times(o, HeldOf(Frame)) + Times(o, HeldOf(Frame))
                     - OneOwned(Scope[n], o) + 0
    <2>1. HeldOf(Frame) \in Seq(Value) BY <1>1, HeldCount
    <2>2. Times(o, HeldOf(Frame)) \in Nat BY <2>1, TimesType
    <2>3. leaked'[o] = leaked[o] + OneOwned(Scope[n], o) BY <1>6
    <2>4. count[o] \in Int /\ leaked[o] \in Int /\ count'[o] = count[o] BY <1>1, <1>5
    <2>5. OneOwned(Scope[n], o) \in Int BY DEF OneOwned, One
    <2> QED BY <2>2, <2>3, <2>4, <2>5
  <1>9. "shared" \in Tie /\ "shared" # "owned" BY DEF Tie
  <1>10. Settled(Frame, n, v, "shared") BY <1>8 DEF Settled
  <1>11. OnlySaved(Frame, n, "shared") BY <1>7 DEF OnlySaved
  <1> QED BY <1>1, <1>2, <1>4, <1>5, <1>6, <1>9, <1>10, <1>11, EntersExact

LEMMA LoadFastAndClearExact == ASSUME Exact, NEW n \in Name, LoadFastAndClear(n) PROVE Exact'
  <1> DEFINE v == Scope[n].val
             sv(x) == [name |-> n, val |-> x]
             F(x) == [Frame EXCEPT !.saved = sv(x)]
  <1>1. /\ IInv /\ Shape /\ count \in [Obj -> Int] /\ leaked \in [Obj -> Nat] /\ Scope \in ScopeType
        /\ (\A o \in Obj : count[o] <= MaxCount) /\ Free(Scope) /\ None \notin Obj
    BY TopExact
  <1>2. IInv' BY <1>1, LoadFastAndClearInv
  <1>3. Frame.saved = NoSaved /\ \A o \in Obj : One(Frame.saved.val, o) = 0
    BY <1>1 DEF LoadFastAndClear, NoSaved, One
  <1>4. \A x \in Value :
           /\ F(x) \in Bounded /\ F(x).saved = sv(x)
           /\ \A o : Times(o, HeldOf(F(x))) = Times(o, HeldOf(Frame)) + One(x, o) - One(Frame.saved.val, o)
           /\ \A o : Times(o, HeldOf(Frame)) \in Nat
    <2>1. \A x \in Value : sv(x) \in SavedType /\ sv(x).val = x BY DEF SavedType
    <2> HIDE DEF sv
    <2> QED BY <2>1, SavedChange
  \* With no comprehension open, nothing is shared in a module.
  <1>5. InModule => \A m \in Name : Scope[m].tie # "shared"
    <2>1. Frame.saved.name \notin Name BY <1>3, FramesAssumption DEF NoSaved
    <2> QED BY <2>1, TopExact
  <1>6. CASE v = Unset
    <2>1. frames' = [frames EXCEPT ![Depth] = F(None)] /\ UNCHANGED <<count, scopes, leaked>>
      BY <1>6 DEF LoadFastAndClear, Frame
    <2>2. scopes' = [scopes EXCEPT ![Len(scopes)] = Scope] BY <1>1, <2>1, Same
    <2>3. None \in Value BY DEF Value
    <2> DEFINE G == F(None)
    <2>4. /\ G \in Bounded /\ \A o : Times(o, HeldOf(G)) = Times(o, HeldOf(Frame)) + One(None, o) - One(Frame.saved.val, o)
          /\ \A o : Times(o, HeldOf(Frame)) \in Nat
      BY <1>4, <2>3
    <2>5. frames' = [frames EXCEPT ![Depth] = G] BY <2>1
    <2> HIDE DEF G
    <2>6. ASSUME NEW o \in Obj
          PROVE  count'[o] - leaked'[o] = count[o] - leaked[o] - Times(o, HeldOf(Frame)) + Times(o, HeldOf(G))
                       - OwnedIn(Scope, o) + OwnedIn(Scope, o)
      <3>1. One(None, o) = 0 /\ One(Frame.saved.val, o) = 0 BY <1>1, <1>3 DEF One
      <3>2. Times(o, HeldOf(G)) = Times(o, HeldOf(Frame)) /\ Times(o, HeldOf(Frame)) \in Nat BY <2>4, <3>1
      <3>3. OwnedIn(Scope, o) \in Nat BY OwnedType
      <3>4. count[o] \in Int /\ leaked[o] \in Int /\ count'[o] = count[o] /\ leaked'[o] = leaked[o] BY <1>1, <2>1
      <3> QED BY <3>2, <3>3, <3>4
    <2> QED BY <1>1, <1>2, <1>5, <2>1, <2>2, <2>4, <2>5, <2>6, LocalExact
  <1>7. CASE v # Unset
    <2>1. /\ frames' = [frames EXCEPT ![Depth] = F(v)] /\ count' = Increfed(count, v)
          /\ (\A o \in Obj : count'[o] <= MaxCount) /\ Enters(n, None, "none") /\ leaked' = Lost(leaked, Scope[n])
      BY <1>7 DEF LoadFastAndClear, Frame, Counts
    <2>2. v \in Value BY <1>1, <1>7 DEF ScopeType, EntryType
    <2> DEFINE G == F(v)
    <2>3. /\ G \in Bounded /\ \A o : Times(o, HeldOf(G)) = Times(o, HeldOf(Frame)) + One(v, o) - One(Frame.saved.val, o)
          /\ \A o : Times(o, HeldOf(Frame)) \in Nat
      BY <1>4, <2>2
    <2>4. frames' = [frames EXCEPT ![Depth] = G] BY <2>1
    <2> HIDE DEF G, v
    <2>5. count' \in [Obj -> Int] /\ \A o \in Obj : count'[o] = count[o] + One(v, o) BY <1>1, <2>1, IncrefedIs
    <2>6. leaked' \in [Obj -> Nat] /\ \A o \in Obj : leaked'[o] = leaked[o] + OneOwned(Scope[n], o)
      BY <1>1, <2>1, LostIs DEF ScopeType
    <2>7. ASSUME NEW o \in Obj
          PROVE  count'[o] - leaked'[o] = count[o] - leaked[o] - Times(o, HeldOf(Frame)) + Times(o, HeldOf(G))
                       - OneOwned(Scope[n], o) + 0
      <3>1. One(Frame.saved.val, o) = 0 /\ One(v, o) \in Nat BY <1>3 DEF One
      <3>2. Times(o, HeldOf(G)) = Times(o, HeldOf(Frame)) + One(v, o) /\ Times(o, HeldOf(Frame)) \in Nat BY <2>3, <3>1
      <3>3. count[o] \in Int /\ leaked[o] \in Int BY <1>1
      <3>4. count'[o] = count[o] + One(v, o) /\ leaked'[o] = leaked[o] + OneOwned(Scope[n], o) BY <2>5, <2>6
      <3>5. OneOwned(Scope[n], o) \in Int BY DEF OneOwned, One
      <3> QED BY <3>1, <3>2, <3>3, <3>4, <3>5
    <2>8. "none" \in Tie /\ "none" # "owned" /\ None \in Value BY DEF Tie, Value
    <2>9. Settled(G, n, None, "none") BY <2>7 DEF Settled
    <2>10. OnlySaved(G, n, "none") BY <1>5 DEF OnlySaved
    <2> QED BY <1>1, <1>2, <2>1, <2>3, <2>4, <2>5, <2>6, <2>8, <2>9, <2>10, EntersExact
  <1> QED BY <1>6, <1>7

LEMMA RestoreExact == ASSUME Exact, Restore PROVE Exact'
  <1> DEFINE n == Frame.saved.name
             v == Frame.saved.val
             F == [Frame EXCEPT !.saved = NoSaved]
  <1>1. /\ IInv /\ Shape /\ count \in [Obj -> Int] /\ leaked \in [Obj -> Nat] /\ Scope \in ScopeType
        /\ (\A o \in Obj : count[o] <= MaxCount) /\ Frame \in FrameType /\ None \notin Obj
    BY TopExact
  <1>2. IInv' BY <1>1, RestoreInv
  <1>3. /\ frames' = [frames EXCEPT ![Depth] = F] /\ Enters(n, v, "owned")
        /\ count' = count /\ leaked' = Lost(leaked, Scope[n])
    BY DEF Restore, Frame
  <1>4. n \in Name /\ v \in Value BY <1>1 DEF Restore, FrameType, SavedType
  <1>5. /\ F \in Bounded
        /\ \A o : Times(o, HeldOf(F)) = Times(o, HeldOf(Frame)) + One(NoSaved.val, o) - One(Frame.saved.val, o)
        /\ \A o : Times(o, HeldOf(Frame)) \in Nat
    BY SavedChange DEF SavedType
  \* The variable of the comprehension is the only one shared, and now owned again.
  <1>6. InModule => \A m \in Name : m # n => Scope[m].tie # "shared" BY TopExact
  <1>7. leaked' \in [Obj -> Nat] /\ \A o \in Obj : leaked'[o] = leaked[o] + OneOwned(Scope[n], o)
    BY <1>1, <1>3, <1>4, LostIs DEF ScopeType
  <1> HIDE DEF n, F
  <1>8. ASSUME NEW o \in Obj
        PROVE  count'[o] - leaked'[o] = count[o] - leaked[o] - Times(o, HeldOf(Frame)) + Times(o, HeldOf(F))
                     - OneOwned(Scope[n], o) + One(v, o)
    <2>1. One(NoSaved.val, o) = 0 /\ One(v, o) \in Nat BY <1>1 DEF One, NoSaved
    <2>2. Times(o, HeldOf(F)) = Times(o, HeldOf(Frame)) - One(v, o) /\ Times(o, HeldOf(Frame)) \in Nat
      <3>1. /\ Times(o, HeldOf(F)) = Times(o, HeldOf(Frame)) + One(NoSaved.val, o) - One(v, o)
            /\ Times(o, HeldOf(Frame)) \in Nat
        BY <1>5
      <3> QED BY <2>1, <3>1
    <2>3. count[o] \in Int /\ leaked[o] \in Int /\ count'[o] = count[o] BY <1>1, <1>3
    <2>4. leaked'[o] = leaked[o] + OneOwned(Scope[n], o) BY <1>7
    <2>5. OneOwned(Scope[n], o) \in Int BY DEF OneOwned, One
    <2> QED BY <2>1, <2>2, <2>3, <2>4, <2>5
  <1>9. "owned" \in Tie BY DEF Tie
  <1> HIDE DEF v
  <1>10. Settled(F, n, v, "owned") BY <1>8 DEF Settled
  <1>11. OnlySaved(F, n, "owned") BY <1>6 DEF OnlySaved
  <1> QED BY <1>1, <1>2, <1>3, <1>4, <1>5, <1>7, <1>9, <1>10, <1>11, EntersExact

-------------------------------------------------------------------------------
(* Exact: calls and returns.                                               *)

\* What a call takes from the stack: the callee and its arguments.
LEMMA CallSplit ==
  ASSUME NEW q \in Seq(Value), NEW n \in Nat, Len(q) > n, NEW o
  PROVE  /\ Times(o, q) = Times(o, SubSeq(q, 1, Len(q) - n - 1)) + One(q[Len(q) - n], o)
                            + Times(o, SubSeq(q, Len(q) - n + 1, Len(q)))
         /\ SubSeq(q, 1, Len(q) - n - 1) \in Seq(Value)
         /\ Len(SubSeq(q, 1, Len(q) - n - 1)) = Len(q) - n - 1
         /\ SubSeq(q, Len(q) - n + 1, Len(q)) \in Seq(Value)
         /\ Len(SubSeq(q, Len(q) - n + 1, Len(q))) = n
  <1> DEFINE m == Len(q) - n
             a == SubSeq(q, 1, m)
             s == SubSeq(q, 1, m - 1)
             t == SubSeq(q, m + 1, Len(q))
  <1>1. m \in 1..Len(q) /\ Len(q) \in Nat OBVIOUS
  <1>2. Times(o, q) = Times(o, a) + Times(o, t) BY <1>1, TimesCut
  <1>3. s \in Seq(Value) /\ Len(s) = m - 1 /\ t \in Seq(Value) /\ Len(t) = n /\ q[m] \in Value BY <1>1
  <1>4. a = s \o <<q[m]>>
    <2>1. 1 \in 1..Len(q) /\ m \in 1..Len(q) BY <1>1
    <2> QED BY <2>1, SubSeqRecursiveSecond
  <1> HIDE DEF a, s, t
  <1>5. Times(o, a) = Times(o, s) + One(q[m], o)
    <2>1. <<q[m]>> \in Seq(Value) BY <1>3
    <2>2. Times(o, s \o <<q[m]>>) = Times(o, s) + Times(o, <<q[m]>>) BY <1>3, <2>1, TimesConcat
    <2> QED BY <1>4, <2>2, TimesSingle
  <1>6. Times(o, s) \in Nat /\ Times(o, t) \in Nat /\ One(q[m], o) \in Nat BY <1>3, TimesType DEF One
  <1>7. Times(o, q) = Times(o, s) + One(q[m], o) + Times(o, t) BY <1>2, <1>5, <1>6
  <1> QED BY <1>3, <1>7 DEF s, t

\* The scope of a call owns nothing.
LEMMA CallTies ==
  ASSUME Exact, NEW f \in Function, NEW args \in Seq(Value), Len(args) = Len(Params[f])
  PROVE  LET S == WithParameters(PushedScope, Params[f], args)
         IN  Free(S) /\ \A o : OwnedIn(S, o) = 0
  <1> DEFINE S == WithParameters(PushedScope, Params[f], args)
  <1>1. Shape /\ Ties BY TopExact DEF Exact
  <1>2. scopes[1] \in ScopeType /\ Free(scopes[1]) BY <1>1 DEF Shape, Ties
  <1>3. ASSUME NEW e \in EntryType, e.tie = "none" => e.val \notin Obj
        PROVE  Borrowed(e).tie # "owned" /\ (Borrowed(e).tie = "none" => Borrowed(e).val \notin Obj)
    <2>1. CASE e.tie = "owned" BY <2>1 DEF Borrowed, EntryType
    <2>2. CASE e.tie # "owned" BY <1>3, <2>2 DEF Borrowed
    <2> QED BY <2>1, <2>2
  <1>4. ASSUME NEW n \in Name PROVE S[n].tie # "owned" /\ (S[n].tie = "none" => S[n].val \notin Obj)
    <2>1. CASE \E i \in DOMAIN Params[f] : Params[f][i] = n BY <2>1 DEF WithParameters
    <2>2. CASE ~\E i \in DOMAIN Params[f] : Params[f][i] = n
      <3>1. S[n] = Borrowed(scopes[1][n]) BY <2>2 DEF WithParameters, PushedScope
      <3>2. scopes[1][n] \in EntryType /\ (scopes[1][n].tie = "none" => scopes[1][n].val \notin Obj)
        BY <1>2 DEF ScopeType, Free
      <3> QED BY <1>3, <3>1, <3>2
    <2> QED BY <2>1, <2>2
  <1> HIDE DEF S
  <1>5. ASSUME NEW o PROVE OwnedIn(S, o) = 0
    <2>1. {n \in Name : S[n] = [val |-> o, tie |-> "owned"]} = {} BY <1>4
    <2> QED BY <2>1, FS_EmptySet DEF OwnedIn
  <1> QED BY <1>4, <1>5 DEF Free, S

\* A row is added to or taken from a table.
LEMMA FramesGrow ==
  ASSUME NEW fr \in Seq(Bounded), NEW F \in Bounded, NEW o
  PROVE  /\ Cardinality(Holds(Append(fr, F), o)) = Cardinality(Holds(fr, o)) + Times(o, HeldOf(F))
         /\ Append(fr, F) \in Seq(Bounded)
  <1> DEFINE k == Len(fr) + 1
             fr2 == Append(fr, F)
  <1>1. /\ fr2 \in Seq(Bounded) /\ Len(fr2) = k /\ k \in Nat /\ fr2[k] = F
        /\ \A j \in 1..Len(fr) : fr2[j] = fr[j]
    OBVIOUS
  <1> HIDE DEF fr2
  <1>2. \A j \in Nat \ {k} : (j \in 1..Len(fr) <=> j \in 1..Len(fr2)) /\ (j \in 1..Len(fr) => fr[j] = fr2[j])
    BY <1>1
  <1>3. Cardinality(Holds(fr2, o)) = Cardinality(Holds(fr, o)) - FrameRow(fr, k, o) + FrameRow(fr2, k, o)
    BY <1>1, <1>2, HoldsDiffer
  <1>4. FrameRow(fr, k, o) = 0 /\ FrameRow(fr2, k, o) = Times(o, HeldOf(F))
    BY <1>1 DEF FrameRow
  <1>5. Cardinality(Holds(fr, o)) \in Nat BY <1>1, HoldsRow
  <1>6. FrameRow(fr2, k, o) \in Nat BY <1>1, HoldsRow
  <1> QED BY <1>1, <1>3, <1>4, <1>5, <1>6 DEF fr2

LEMMA ScopesGrow ==
  ASSUME NEW sc \in Seq(ScopeType), NEW S \in ScopeType, NEW o
  PROVE  Cardinality(Enter(Append(sc, S), o)) = Cardinality(Enter(sc, o)) + OwnedIn(S, o)
  <1> DEFINE k == Len(sc) + 1
             sc2 == Append(sc, S)
  <1>1. /\ sc2 \in Seq(ScopeType) /\ Len(sc2) = k /\ k \in Nat /\ sc2[k] = S
        /\ \A j \in 1..Len(sc) : sc2[j] = sc[j]
    OBVIOUS
  <1> HIDE DEF sc2
  <1>2. \A j \in Nat \ {k} : (j \in 1..Len(sc) <=> j \in 1..Len(sc2)) /\ (j \in 1..Len(sc) => sc[j] = sc2[j])
    BY <1>1
  <1>3. Cardinality(Enter(sc2, o)) = Cardinality(Enter(sc, o)) - ScopeRow(sc, k, o) + ScopeRow(sc2, k, o)
    BY <1>1, <1>2, EnterDiffer
  <1>4. ScopeRow(sc, k, o) = 0 /\ ScopeRow(sc2, k, o) = OwnedIn(S, o)
    BY <1>1 DEF ScopeRow
  <1>5. Cardinality(Enter(sc, o)) \in Nat BY <1>1, EnterRow
  <1>6. ScopeRow(sc2, k, o) \in Nat BY <1>1, EnterRow
  <1> QED BY <1>1, <1>3, <1>4, <1>5, <1>6 DEF sc2

LEMMA CallExact == ASSUME Exact, NEW f \in Function, Call(f) PROVE Exact'
  <1> DEFINE n    == Len(Params[f])
             args == SubSeq(Stack, Len(Stack) - n + 1, Len(Stack))
             s    == SubSeq(Stack, 1, Len(Stack) - n - 1)
             S    == WithParameters(PushedScope, Params[f], args)
             F    == [fn |-> f, args |-> args, stack |-> <<>>, saved |-> NoSaved]
             G    == [Frame EXCEPT !.stack = s]
             here == [frames EXCEPT ![Depth] = G]
  <1>1. /\ IInv /\ Shape /\ Scope \in ScopeType /\ Frame \in Bounded /\ None \notin Obj
        /\ count \in [Obj -> Int] /\ leaked \in [Obj -> Nat] /\ \A o \in Obj : count[o] <= MaxCount
    BY TopExact
  <1>2. IInv' BY <1>1, CallInv
  <1>3. /\ Stack \in Seq(Value) /\ n \in Nat /\ Len(Stack) > n /\ Stack[Len(Stack) - n] = f /\ Depth < MaxDepth
        /\ Len(Stack) <= MaxStack
    BY <1>1, StackType, FramesAssumption DEF Call, Callee, Bounded, Stack
  <1>4. /\ frames \in Seq(Bounded) /\ scopes \in Seq(ScopeType) /\ Depth = Len(frames) /\ Depth = Len(scopes)
        /\ Depth \in Nat /\ Depth >= 1
    BY <1>1 DEF Exact, Shape, Within, Depth
  <1>5. /\ frames' = Append(here, F) /\ scopes' = Append(scopes, S) /\ count' = count /\ leaked' = leaked
    BY DEF Call, Frame, Stack
  <1>6. /\ \A o : Times(o, Stack) = Times(o, s) + One(f, o) + Times(o, args)
        /\ s \in Seq(Value) /\ Len(s) = Len(Stack) - n - 1 /\ args \in Seq(Value) /\ Len(args) = n
    <2> DEFINE q == Stack
               m == Len(Params[f])
    <2>1. q \in Seq(Value) /\ m \in Nat /\ Len(q) > m BY <1>3
    <2> HIDE DEF q, m
    <2>2. /\ \A o : Times(o, q) = Times(o, SubSeq(q, 1, Len(q) - m - 1)) + One(q[Len(q) - m], o)
                            + Times(o, SubSeq(q, Len(q) - m + 1, Len(q)))
          /\ SubSeq(q, 1, Len(q) - m - 1) \in Seq(Value)
          /\ Len(SubSeq(q, 1, Len(q) - m - 1)) = Len(q) - m - 1
          /\ SubSeq(q, Len(q) - m + 1, Len(q)) \in Seq(Value)
          /\ Len(SubSeq(q, Len(q) - m + 1, Len(q))) = m
      BY <2>1, CallSplit
    <2> QED BY <1>3, <2>2 DEF q, m
  <1> HIDE DEF s, args
  <1>7. S \in ScopeType /\ Free(S) /\ \A o : OwnedIn(S, o) = 0
    <2>1. S \in ScopeType BY <1>1, <1>6, CallScope
    <2>2. Free(S) /\ \A o : OwnedIn(S, o) = 0 BY <1>6, CallTies
    <2> QED BY <2>1, <2>2
  <1>8. F \in Bounded
    <2>1. Len(args) <= MaxStack
      <3>1. Len(Stack) \in Nat /\ MaxStack \in Nat BY <1>3, FramesAssumption
      <3> QED BY <1>3, <1>6, <3>1
    <2>2. <<>> \in Seq(Value) /\ Len(<<>>) = 0 /\ 0 <= MaxStack BY FramesAssumption
    <2> QED BY <1>6, <2>1, <2>2 DEF Bounded, FrameType, SavedType
  <1>9. Len(s) <= MaxStack BY <1>3, <1>6, FramesAssumption
  <1>10. /\ G \in Bounded /\ G.saved = Frame.saved
         /\ \A o : Times(o, HeldOf(G)) = Times(o, HeldOf(Frame)) + Times(o, s) - Times(o, Stack)
         /\ \A o : Times(o, s) \in Nat /\ Times(o, Stack) \in Nat /\ Times(o, HeldOf(Frame)) \in Nat
    BY <1>6, <1>9, StackChange
  <1>11. \A o \in Obj : Times(o, HeldOf(F)) = One(f, o) + Times(o, args) /\ Times(o, args) \in Nat /\ One(f, o) \in Nat
    <2> SUFFICES ASSUME NEW o \in Obj
                 PROVE  Times(o, HeldOf(F)) = One(f, o) + Times(o, args) /\ Times(o, args) \in Nat /\ One(f, o) \in Nat
      OBVIOUS
    <2>1. F \in FrameType /\ F.fn = f /\ F.args = args /\ F.stack = <<>> /\ F.saved = NoSaved BY <1>8 DEF Bounded
    <2> HIDE DEF F
    <2>2. Times(o, HeldOf(F)) = One(F.fn, o) + Times(o, F.args) + Times(o, F.stack) + One(F.saved.val, o)
      BY <2>1, HeldCount
    <2>3. Times(o, <<>>) = 0 BY TimesSingle
    <2>4. One(NoSaved.val, o) = 0 BY <1>1 DEF One, NoSaved
    <2>5. Times(o, args) \in Nat /\ One(f, o) \in Nat BY <1>6, TimesType DEF One
    <2> QED BY <2>1, <2>2, <2>3, <2>4, <2>5
  <1> HIDE DEF F, G, S
  <1>12. /\ here \in Seq(Bounded) /\ Len(here) = Depth /\ here[Depth] = G
         /\ \A j \in 1..Depth : j # Depth => here[j] = frames[j]
    <2>1. Depth \in 1..Len(frames) /\ frames \in Seq(Bounded) BY <1>4
    <2>2. LET fr2 == [frames EXCEPT ![Depth] = G]
          IN  /\ fr2 \in Seq(Bounded) /\ Len(fr2) = Len(frames) /\ fr2[Depth] = G
              /\ \A j \in 1..Len(frames) : j # Depth => fr2[j] = frames[j]
      BY <1>10, <2>1, FrameReplaced
    <2> QED BY <1>4, <2>2
  <1>13. scopes = [scopes EXCEPT ![Len(scopes)] = Scope] BY <1>1, Same
  <1>14. \A o : /\ Total(here, scopes, o) = Total(frames, scopes, o) - Times(o, HeldOf(Frame)) + Times(o, HeldOf(G))
                                     - OwnedIn(Scope, o) + OwnedIn(Scope, o)
                /\ Total(here, scopes, o) \in Nat /\ Total(frames, scopes, o) \in Nat /\ OwnedIn(Scope, o) \in Nat
    <2>1. Within BY DEF Exact
    <2> DEFINE sc == [scopes EXCEPT ![Len(scopes)] = Scope]
    <2>2. \A o : /\ Total(here, sc, o) = Total(frames, scopes, o) - Times(o, HeldOf(Frame)) + Times(o, HeldOf(G))
                                     - OwnedIn(Scope, o) + OwnedIn(Scope, o)
                /\ Total(here, sc, o) \in Nat /\ Total(frames, scopes, o) \in Nat /\ OwnedIn(Scope, o) \in Nat
      BY <1>1, <1>10, <2>1, LocalTotal
    <2>3. sc = scopes BY <1>13
    <2> HIDE DEF sc, here
    <2> QED BY <2>2, <2>3
  <1> HIDE DEF here
  <1>15. ASSUME NEW o \in Obj PROVE Total(frames', scopes', o) = Total(frames, scopes, o)
    <2>1. Cardinality(Holds(frames', o)) = Cardinality(Holds(here, o)) + Times(o, HeldOf(F))
      BY <1>5, <1>8, <1>12, FramesGrow
    <2>2. Cardinality(Enter(scopes', o)) = Cardinality(Enter(scopes, o)) + 0
      <3>1. Cardinality(Enter(Append(scopes, S), o)) = Cardinality(Enter(scopes, o)) + OwnedIn(S, o)
        BY <1>4, <1>7, ScopesGrow
      <3> QED BY <1>5, <1>7, <3>1
    <2>3. Cardinality(Holds(here, o)) \in Nat /\ Cardinality(Enter(scopes, o)) \in Nat
      BY <1>4, <1>12, HoldsRow, EnterRow
    <2>4. Times(o, HeldOf(F)) = One(f, o) + Times(o, args) /\ Times(o, args) \in Nat /\ One(f, o) \in Nat BY <1>11
    <2>5. /\ Times(o, Stack) = Times(o, s) + One(f, o) + Times(o, args)
          /\ Times(o, HeldOf(G)) = Times(o, HeldOf(Frame)) + Times(o, s) - Times(o, Stack)
          /\ Times(o, s) \in Nat /\ Times(o, Stack) \in Nat /\ Times(o, HeldOf(Frame)) \in Nat
      BY <1>6, <1>10
    <2>6. /\ Total(here, scopes, o) = Total(frames, scopes, o) - Times(o, HeldOf(Frame)) + Times(o, HeldOf(G))
                                     - OwnedIn(Scope, o) + OwnedIn(Scope, o)
          /\ Total(here, scopes, o) \in Nat /\ Total(frames, scopes, o) \in Nat /\ OwnedIn(Scope, o) \in Nat
      BY <1>14
    <2>7. /\ Total(here, scopes, o) = Cardinality(Enter(scopes, o)) + Cardinality(Holds(here, o))
          /\ Total(frames', scopes', o) = Cardinality(Enter(scopes', o)) + Cardinality(Holds(frames', o))
      BY DEF Total
    <2> DEFINE a  == Total(frames, scopes, o)
               b  == Total(here, scopes, o)
               t2 == Total(frames', scopes', o)
               h  == Cardinality(Holds(here, o))
               en == Cardinality(Enter(scopes, o))
               xF == Times(o, HeldOf(F))
               xG == Times(o, HeldOf(G))
               x  == Times(o, HeldOf(Frame))
               p  == One(f, o)
               ta == Times(o, args)
               ts == Times(o, s)
               tS == Times(o, Stack)
               u  == OwnedIn(Scope, o)
    <2>8. /\ a \in Int /\ b \in Int /\ h \in Int /\ en \in Int /\ x \in Int /\ p \in Int /\ ta \in Int /\ ts \in Int
          /\ tS \in Int /\ u \in Int
          /\ xF = p + ta /\ tS = ts + p + ta /\ xG = x + ts - tS /\ b = a - x + xG - u + u
          /\ b = en + h /\ t2 = (en + 0) + (h + xF)
      BY <2>1, <2>2, <2>3, <2>4, <2>5, <2>6, <2>7
    <2> HIDE DEF a, b, t2, h, en, xF, xG, x, p, ta, ts, tS, u
    <2>9. t2 = a BY <2>8
    <2> QED BY <2>9 DEF t2, a
  <1>16. ASSUME NEW o \in Obj PROVE Owners(o)' = Owners(o)
    <2>1. Owners(o) = Total(frames, scopes, o) BY <1>1, OwnersAre DEF Shape
    <2>2. Len(scopes') = Len(frames') BY <1>2 DEF IInv, Shape
    <2>3. Owners(o)' = Total(frames', scopes', o) BY <2>2, OwnersNext
    <2> QED BY <1>15, <2>1, <2>3
  <1>17. OnlyLocalsAndPopsLeak' BY <1>5, <1>16 DEF Exact, OnlyLocalsAndPopsLeak
  <1>18. CountType' BY <1>5 DEF Exact, CountType
  <1>19. /\ frames' \in Seq(Bounded) /\ Len(frames') = Depth + 1 /\ Len(scopes') = Depth + 1
         /\ frames'[1].saved = frames[1].saved
         /\ scopes'[Depth + 1] = S /\ \A k \in 1..Depth : scopes'[k] = scopes[k]
    <2>1. frames' \in Seq(Bounded) BY <1>5, <1>8, <1>12, FramesGrow
    <2>2. here[1].saved = frames[1].saved
      <3>1. CASE Depth = 1 BY <3>1, <1>10, <1>12 DEF Frame
      <3>2. CASE Depth # 1 BY <3>2, <1>4, <1>12
      <3> QED BY <3>1, <3>2
    <2>3. Len(frames') = Depth + 1 /\ frames'[1] = here[1] BY <1>4, <1>5, <1>12
    <2>4. Len(scopes') = Depth + 1 /\ scopes'[Depth + 1] = S /\ \A k \in 1..Depth : scopes'[k] = scopes[k]
      BY <1>4, <1>5
    <2> QED BY <2>1, <2>2, <2>3, <2>4
  <1>20. Within' BY <1>3, <1>4, <1>19, FramesAssumption DEF Within, Depth
  <1>21. Ties'
    <2>1. ASSUME NEW k \in 1..(Depth + 1) PROVE Free(scopes'[k])
      <3>1. CASE k = Depth + 1 BY <3>1, <1>7, <1>19
      <3>2. CASE k \in 1..Depth BY <3>2, <1>4, <1>19 DEF Exact, Ties
      <3> QED BY <1>4, <3>1, <3>2
    <2>2. ASSUME NEW m \in Name, scopes'[1][m].tie = "shared" PROVE m = frames'[1].saved.name
      <3>1. scopes'[1] = scopes[1] BY <1>4, <1>19
      <3> QED BY <2>2, <3>1, <1>19 DEF Exact, Ties
    <2> QED BY <1>19, <2>1, <2>2 DEF Ties, Free
  <1> QED BY <1>2, <1>17, <1>18, <1>20, <1>21 DEF Exact

LEMMA LastRow ==
  ASSUME NEW T, NEW q \in Seq(T), q # <<>>
  PROVE  /\ q = Append(Front(q), q[Len(q)]) /\ Front(q) \in Seq(T) /\ Len(Front(q)) = Len(q) - 1
         /\ q[Len(q)] \in T /\ \A k \in 1..(Len(q) - 1) : Front(q)[k] = q[k]
  <1> DEFINE m == Len(q) - 1
             g == SubSeq(q, 1, m)
  <1>1. m \in Nat /\ Len(q) = m + 1 OBVIOUS
  <1>2. g \in Seq(T) /\ Len(g) = m /\ \A k \in 1..m : g[k] = q[k] BY <1>1
  <1>3. q[Len(q)] \in T BY <1>1
  <1> HIDE DEF g
  <1>4. q = Append(g, q[Len(q)])
    <2> DEFINE v == q[Len(q)]
               r == Append(g, v)
    <2>0. v = q[m + 1] /\ v \in T BY <1>1, <1>3
    <2> HIDE DEF v
    <2>1. r \in Seq(T) /\ Len(r) = m + 1 /\ r[m + 1] = q[m + 1] /\ \A k \in 1..m : r[k] = g[k]
      <3>0. g \in Seq(T) /\ v \in T BY <1>2, <2>0
      <3>1. /\ r \in Seq(T) /\ Len(r) = Len(g) + 1 /\ r[Len(g) + 1] = v
            /\ \A k \in 1..Len(g) : r[k] = g[k]
        BY <3>0
      <3> HIDE DEF r
      <3> QED BY <1>1, <1>2, <2>0, <3>1
    <2> HIDE DEF r
    <2>2. Len(r) = Len(q) /\ \A k \in 1..Len(q) : r[k] = q[k] BY <1>1, <1>2, <2>1
    <2>3. r = q BY <2>1, <2>2, SeqEqual
    <2> QED BY <2>3 DEF r, v
  <1> QED BY <1>1, <1>2, <1>3, <1>4 DEF g, Front

LEMMA FramesShrink ==
  ASSUME NEW fr \in Seq(Bounded), fr # <<>>, NEW o
  PROVE  /\ Cardinality(Holds(fr, o)) = Cardinality(Holds(Front(fr), o)) + Times(o, HeldOf(fr[Len(fr)]))
         /\ Front(fr) \in Seq(Bounded)
  <1> DEFINE g == Front(fr)
             F == fr[Len(fr)]
  <1>1. fr = Append(g, F) /\ g \in Seq(Bounded) /\ F \in Bounded BY LastRow
  <1> HIDE DEF g, F
  <1>2. Cardinality(Holds(Append(g, F), o)) = Cardinality(Holds(g, o)) + Times(o, HeldOf(F)) BY <1>1, FramesGrow
  <1>3. Cardinality(Holds(fr, o)) = Cardinality(Holds(g, o)) + Times(o, HeldOf(F)) BY <1>1, <1>2
  <1> QED BY <1>1, <1>3 DEF g, F

LEMMA ScopesShrink ==
  ASSUME NEW sc \in Seq(ScopeType), sc # <<>>, NEW o
  PROVE  /\ Cardinality(Enter(sc, o)) = Cardinality(Enter(Front(sc), o)) + OwnedIn(sc[Len(sc)], o)
         /\ Front(sc) \in Seq(ScopeType)
  <1> DEFINE g == Front(sc)
             S == sc[Len(sc)]
  <1>1. sc = Append(g, S) /\ g \in Seq(ScopeType) /\ S \in ScopeType BY LastRow
  <1> HIDE DEF g, S
  <1>2. Cardinality(Enter(Append(g, S), o)) = Cardinality(Enter(g, o)) + OwnedIn(S, o) BY <1>1, ScopesGrow
  <1>3. Cardinality(Enter(sc, o)) = Cardinality(Enter(g, o)) + OwnedIn(S, o) BY <1>1, <1>2
  <1> QED BY <1>1, <1>3 DEF g, S

LEMMA HoldsReplaced ==
  ASSUME NEW fr \in Seq(Bounded), NEW k \in 1..Len(fr), NEW F \in Bounded, NEW o
  PROVE  /\ Cardinality(Holds([fr EXCEPT ![k] = F], o))
              = Cardinality(Holds(fr, o)) - Times(o, HeldOf(fr[k])) + Times(o, HeldOf(F))
         /\ Times(o, HeldOf(fr[k])) \in Nat /\ Times(o, HeldOf(F)) \in Nat
         /\ Cardinality(Holds(fr, o)) \in Nat
  <1> DEFINE fr2 == [fr EXCEPT ![k] = F]
  <1>1. /\ fr2 \in Seq(Bounded) /\ Len(fr2) = Len(fr) /\ fr2[k] = F /\ k \in Nat
        /\ \A j \in 1..Len(fr) : j # k => fr2[j] = fr[j]
    BY FrameReplaced
  <1> HIDE DEF fr2
  <1>2. \A j \in Nat \ {k} : (j \in 1..Len(fr) <=> j \in 1..Len(fr2)) /\ (j \in 1..Len(fr) => fr[j] = fr2[j])
    BY <1>1
  <1>3. Cardinality(Holds(fr2, o)) = Cardinality(Holds(fr, o)) - FrameRow(fr, k, o) + FrameRow(fr2, k, o)
    BY <1>1, <1>2, HoldsDiffer
  <1>4. FrameRow(fr, k, o) = Times(o, HeldOf(fr[k])) /\ FrameRow(fr2, k, o) = Times(o, HeldOf(F))
    BY <1>1 DEF FrameRow
  <1>5. FrameRow(fr, k, o) \in Nat /\ Cardinality(Holds(fr, o)) \in Nat BY <1>1, HoldsRow
  <1>6. FrameRow(fr2, k, o) \in Nat BY <1>1, HoldsRow
  <1> QED BY <1>3, <1>4, <1>5, <1>6 DEF fr2

\* What a returning function holds: its callee, its arguments and the result.
LEMMA ReturnHeld ==
  ASSUME Exact, Return, NEW o \in Obj
  PROVE  /\ Times(o, HeldOf(Frame)) = One(Frame.fn, o) + Times(o, Frame.args) + One(Stack[1], o)
         /\ count'[o] = count[o] - Times(o, Frame.args) - One(Frame.fn, o)
         /\ Times(o, Frame.args) \in Nat /\ One(Frame.fn, o) \in Nat /\ One(Stack[1], o) \in Nat
         /\ count'[o] \in Int
  <1>1. Frame \in FrameType /\ Frame.args \in Seq(Value) /\ Frame.fn \in Value /\ None \notin Obj
        /\ count \in [Obj -> Int]
    BY TopExact DEF FrameType, Value, Obj
  <1>2. Frame.saved = NoSaved /\ Stack \in Seq(Value) /\ Len(Stack) = 1 BY StackType, TopExact DEF Return
  <1> DEFINE v == Stack[1]
  <1>3. Stack = <<v>> BY <1>2
  <1> HIDE DEF v
  <1>4. Times(o, Frame.stack) = One(v, o) BY <1>3, TimesSingle DEF Stack
  <1>5. One(NoSaved.val, o) = 0 BY <1>1 DEF One, NoSaved
  <1>6. /\ Times(o, HeldOf(Frame)) = One(Frame.fn, o) + Times(o, Frame.args) + Times(o, Frame.stack) + One(Frame.saved.val, o)
        /\ Times(o, Frame.args) \in Nat
    BY <1>1, HeldCount
  <1>7. One(Frame.fn, o) \in Nat /\ One(v, o) \in Nat BY DEF One
  <1>8. Times(o, HeldOf(Frame)) = One(Frame.fn, o) + Times(o, Frame.args) + One(v, o)
    BY <1>2, <1>4, <1>5, <1>6, <1>7
  <1>9. count'[o] = count[o] - Times(o, GivenUp) BY DEF Return, Counts, DecrefedAll
  <1>10. Times(o, GivenUp) = Times(o, Frame.args) + One(Frame.fn, o)
    <2> DEFINE a == Frame.args
               g == Frame.fn
    <2>1. a \in Seq(Value) /\ g \in Value BY <1>1
    <2> HIDE DEF a, g
    <2>2. Times(o, Append(a, g)) = Times(o, a) + One(g, o) BY <2>1, TimesAppend
    <2> QED BY <2>2 DEF GivenUp, a, g
  <1>11. count[o] \in Int BY <1>1
  <1>12. count'[o] = count[o] - Times(o, Frame.args) - One(Frame.fn, o) /\ count'[o] \in Int
    BY <1>6, <1>7, <1>9, <1>10, <1>11
  <1> QED BY <1>6, <1>7, <1>8, <1>12 DEF v

LEMMA ReturnExact == ASSUME Exact, Return PROVE Exact'
  <1> DEFINE k == Depth - 1
             caller == frames[k]
             v == Stack[1]
             s == Append(caller.stack, v)
             G == [caller EXCEPT !.stack = s]
             lower == Front(frames)
  <1>1. /\ IInv /\ Shape /\ Scope \in ScopeType /\ None \notin Obj
        /\ count \in [Obj -> Int] /\ leaked \in [Obj -> Nat]
    BY TopExact
  <1>2. IInv' BY <1>1, ReturnInv
  <1>3. /\ frames \in Seq(Bounded) /\ scopes \in Seq(ScopeType) /\ Depth = Len(frames) /\ Depth = Len(scopes)
        /\ Depth \in Nat /\ Depth >= 2 /\ k \in Nat /\ k >= 1 /\ k \in 1..Len(frames) /\ Depth <= MaxDepth
    BY <1>1 DEF Exact, Shape, Within, Depth, Return, InModule
  <1>4. v \in Value
    <2>1. Stack \in Seq(Value) /\ Len(Stack) = 1 BY <1>1, StackType DEF Return
    <2> QED BY <2>1
  <1>5. caller \in Bounded /\ caller.stack \in Seq(Value)
    <2>1. ASSUME NEW i \in 1..Len(frames) PROVE frames[i] \in Bounded BY <1>3, ElementOfSeq
    <2>2. k \in 1..Len(frames) BY <1>3
    <2> HIDE DEF k
    <2>3. caller \in Bounded BY <2>1, <2>2
    <2> QED BY <2>3 DEF Bounded, FrameType
  <1>6. /\ lower \in Seq(Bounded) /\ Len(lower) = k /\ \A j \in 1..k : lower[j] = frames[j]
    <2>1. frames # <<>>
      <3>1. Len(frames) >= 1 BY <1>3
      <3> QED BY <3>1
    <2>2. /\ Front(frames) \in Seq(Bounded) /\ Len(Front(frames)) = Len(frames) - 1
          /\ \A j \in 1..(Len(frames) - 1) : Front(frames)[j] = frames[j]
      BY <1>3, <2>1, LastRow
    <2> QED BY <1>3, <2>2
  <1>7. frames' = [lower EXCEPT ![k] = G] /\ scopes' = Front(scopes)
    <2>1. frames' = [lower EXCEPT ![k].stack = Append(@, v)] BY DEF Return
    <2>2. lower[k] = caller BY <1>3, <1>6
    <2> QED BY <2>1, <2>2 DEF Return, Popped
  <1>8. s \in Seq(Value) BY <1>4, <1>5
  <1>9. G \in FrameType /\ G.stack = s /\ G.fn = caller.fn /\ G.args = caller.args /\ G.saved = caller.saved
    BY <1>5, <1>8 DEF Bounded, FrameType
  <1> HIDE DEF lower, G, s, v, k
  <1>10. k \in 1..Len(lower) BY <1>3, <1>6
  <1>11. G \in Bounded
    <2>1. frames'[k] = G BY <1>6, <1>7, <1>10
    <2>2. Len(frames'[k].stack) <= MaxStack BY DEF Return, k
    <2> QED BY <1>5, <1>9, <2>1, <2>2 DEF Bounded
  <1>12. \A o : /\ Times(o, HeldOf(G)) = Times(o, HeldOf(caller)) + One(v, o)
                /\ Times(o, HeldOf(caller)) \in Nat /\ One(v, o) \in Nat
    <2> SUFFICES ASSUME NEW o
                 PROVE  /\ Times(o, HeldOf(G)) = Times(o, HeldOf(caller)) + One(v, o)
                        /\ Times(o, HeldOf(caller)) \in Nat /\ One(v, o) \in Nat
      OBVIOUS
    <2> DEFINE C == caller
    <2>1. C \in FrameType /\ C.stack \in Seq(Value) BY <1>5 DEF Bounded
    <2>2. G.stack = s /\ G.fn = C.fn /\ G.args = C.args /\ G.saved = C.saved BY <1>9
    <2>3. s = Append(C.stack, v) BY DEF s
    <2> HIDE DEF C
    <2>4. Times(o, HeldOf(G)) = Times(o, HeldOf(C)) + Times(o, G.stack) - Times(o, C.stack)
                                 + One(G.saved.val, o) - One(C.saved.val, o)
      BY <1>9, <2>1, <2>2, HeldChange
    <2>5. Times(o, s) = Times(o, C.stack) + One(v, o) BY <1>4, <2>1, <2>3, TimesAppend
    <2>6. HeldOf(C) \in Seq(Value) BY <2>1, HeldCount
    <2>7. Times(o, HeldOf(C)) \in Nat BY <2>6, TimesType
    <2>8. Times(o, C.stack) \in Nat BY <2>1, TimesType
    <2>9. One(v, o) \in Nat /\ One(C.saved.val, o) \in Nat BY DEF One
    <2>10. Times(o, HeldOf(G)) = Times(o, HeldOf(C)) + One(v, o)
      BY <2>2, <2>4, <2>5, <2>7, <2>8, <2>9
    <2> QED BY <2>7, <2>9, <2>10 DEF C
  <1>13. /\ frames' \in Seq(Bounded) /\ Len(frames') = k /\ frames'[k] = G
         /\ \A j \in 1..k : j # k => frames'[j] = lower[j]
    <2>1. LET fr2 == [lower EXCEPT ![k] = G]
          IN  /\ fr2 \in Seq(Bounded) /\ Len(fr2) = Len(lower) /\ fr2[k] = G
              /\ \A j \in 1..Len(lower) : j # k => fr2[j] = lower[j]
      BY <1>6, <1>10, <1>11, FrameReplaced
    <2> QED BY <1>6, <1>7, <2>1
  <1>14. Len(scopes') = k /\ \A j \in 1..k : scopes'[j] = scopes[j]
    <2>1. scopes # <<>> BY <1>3
    <2>2. /\ Len(Front(scopes)) = Len(scopes) - 1
          /\ \A j \in 1..(Len(scopes) - 1) : Front(scopes)[j] = scopes[j]
      BY <1>3, <2>1, LastRow
    <2> QED BY <1>3, <1>7, <2>2 DEF k
  <1>15. ASSUME NEW o \in Obj
         PROVE  /\ Total(frames', scopes', o) = Total(frames, scopes, o)
                       - Times(o, HeldOf(Frame)) + One(v, o) - OwnedIn(Scope, o)
                /\ Total(frames', scopes', o) \in Nat /\ Total(frames, scopes, o) \in Nat
    <2>1. Cardinality(Holds(frames, o)) = Cardinality(Holds(lower, o)) + Times(o, HeldOf(Frame))
      <3>1. frames # <<>>
        <4>1. Len(frames) >= 1 BY <1>3
        <4> QED BY <4>1
      <3>2. Cardinality(Holds(frames, o)) = Cardinality(Holds(Front(frames), o)) + Times(o, HeldOf(frames[Len(frames)]))
        BY <1>3, <3>1, FramesShrink
      <3> QED BY <1>3, <3>2 DEF lower, Frame
    <2>2. Cardinality(Enter(scopes, o)) = Cardinality(Enter(scopes', o)) + OwnedIn(Scope, o)
      <3>1. scopes # <<>> BY <1>3
      <3>2. Cardinality(Enter(scopes, o)) = Cardinality(Enter(Front(scopes), o)) + OwnedIn(scopes[Len(scopes)], o)
        BY <1>3, <3>1, ScopesShrink
      <3> QED BY <1>7, <3>2 DEF Scope
    <2>3. /\ Cardinality(Holds(frames', o)) = Cardinality(Holds(lower, o)) - Times(o, HeldOf(caller)) + Times(o, HeldOf(G))
          /\ Cardinality(Holds(lower, o)) \in Nat
      <3>1. lower[k] = caller BY <1>6, <1>10
      <3>2. /\ Cardinality(Holds([lower EXCEPT ![k] = G], o))
                  = Cardinality(Holds(lower, o)) - Times(o, HeldOf(lower[k])) + Times(o, HeldOf(G))
            /\ Cardinality(Holds(lower, o)) \in Nat
        BY <1>6, <1>10, <1>11, HoldsReplaced
      <3> QED BY <1>7, <3>1, <3>2
    <2>4. scopes' \in Seq(ScopeType) BY <1>2 DEF IInv, Shape
    <2>5. /\ Cardinality(Holds(frames', o)) \in Nat /\ Cardinality(Holds(frames, o)) \in Nat
      BY <1>3, <1>13, HoldsRow
    <2>6. /\ Cardinality(Enter(scopes', o)) \in Nat /\ Cardinality(Enter(scopes, o)) \in Nat
      BY <1>3, <2>4, EnterRow
    <2>7. OwnedIn(Scope, o) \in Nat BY OwnedType
    <2>8. /\ Times(o, HeldOf(G)) = Times(o, HeldOf(caller)) + One(v, o)
          /\ Times(o, HeldOf(caller)) \in Nat /\ One(v, o) \in Nat
      BY <1>12
    <2>9. Times(o, HeldOf(Frame)) \in Nat
      <3>1. Frame \in FrameType BY TopExact
      <3>2. HeldOf(Frame) \in Seq(Value) BY <3>1, HeldCount
      <3> QED BY <3>2, TimesType
    <2> QED BY <2>1, <2>2, <2>3, <2>5, <2>6, <2>7, <2>8, <2>9 DEF Total
  <1>16. ASSUME NEW o \in Obj
         PROVE  Owners(o)' \in Nat /\ count'[o] = Owners(o)' + leaked'[o]
    <2>1. Owners(o) = Total(frames, scopes, o) BY <1>1, OwnersAre DEF Shape
    <2>2. Len(scopes') = Len(frames') BY <1>2 DEF IInv, Shape
    <2>3. Owners(o)' = Total(frames', scopes', o) BY <2>2, OwnersNext
    <2>4. count[o] = Owners(o) + leaked[o] BY DEF Exact, OnlyLocalsAndPopsLeak
    <2>5. leaked'[o] = leaked[o] + OwnedIn(Scope, o) BY DEF Return, OwnedIn
    <2>6. /\ Times(o, HeldOf(Frame)) = One(Frame.fn, o) + Times(o, Frame.args) + One(v, o)
          /\ count'[o] = count[o] - Times(o, Frame.args) - One(Frame.fn, o)
          /\ Times(o, Frame.args) \in Nat /\ One(Frame.fn, o) \in Nat /\ One(v, o) \in Nat
      BY ReturnHeld DEF v
    <2>7. OwnedIn(Scope, o) \in Nat BY OwnedType
    <2>8. leaked[o] \in Nat BY <1>1
    <2> DEFINE t  == Total(frames, scopes, o)
               t2 == Total(frames', scopes', o)
               x  == Times(o, HeldOf(Frame))
               p  == One(Frame.fn, o)
               a  == Times(o, Frame.args)
               w  == One(v, o)
               u  == OwnedIn(Scope, o)
               l  == leaked[o]
               l2 == leaked'[o]
               c  == count[o]
               c2 == count'[o]
    <2>9. /\ t \in Int /\ p \in Int /\ a \in Int /\ w \in Int /\ u \in Int /\ l \in Int
          /\ t2 = t - x + w - u /\ x = p + a + w /\ c = t + l /\ l2 = l + u /\ c2 = c - a - p /\ t2 \in Nat
      BY <1>15, <2>1, <2>4, <2>5, <2>6, <2>7, <2>8
    <2> HIDE DEF t, t2, x, p, a, w, u, l, l2, c, c2
    <2>10. c2 = t2 + l2 /\ t2 \in Nat BY <2>9
    <2> QED BY <2>3, <2>10 DEF c2, t2, l2
  <1>17. OnlyLocalsAndPopsLeak' BY <1>16 DEF OnlyLocalsAndPopsLeak
  <1>18. CountType'
    <2>1. count' \in [Obj -> Int]
      <3>1. \A o \in Obj : count'[o] \in Int BY ReturnHeld
      <3>2. count' = [o \in Obj |-> count[o] - Times(o, GivenUp)] BY DEF Return, Counts, DecrefedAll
      <3> QED BY <3>1, <3>2
    <2>2. leaked' \in [Obj -> Nat]
      <3>1. leaked' = [o \in Obj |-> leaked[o] + OwnedIn(Scope, o)] BY DEF Return, OwnedIn
      <3>2. ASSUME NEW o \in Obj PROVE leaked[o] + OwnedIn(Scope, o) \in Nat
        <4>1. leaked[o] \in Nat /\ OwnedIn(Scope, o) \in Nat BY <1>1, OwnedType
        <4> QED BY <4>1
      <3> QED BY <3>1, <3>2
    <2>3. \A o \in Obj : count'[o] <= MaxCount BY DEF Return, Counts
    <2> QED BY <1>16, <1>17, <2>1, <2>2, <2>3, CountTypeNext
  <1>19. Within' BY <1>3, <1>13, FramesAssumption DEF Within, Depth, k
  <1>20. Ties'
    <2>1. ASSUME NEW j \in 1..k PROVE Free(scopes'[j])
      <3>1. j \in 1..Len(scopes) /\ scopes'[j] = scopes[j] BY <1>3, <1>14 DEF k
      <3> QED BY <3>1 DEF Exact, Ties
    <2>2. ASSUME NEW m \in Name, scopes'[1][m].tie = "shared" PROVE m = frames'[1].saved.name
      <3>1. scopes'[1] = scopes[1] BY <1>3, <1>14
      <3>2. frames'[1].saved = frames[1].saved
        <4>1. CASE k = 1 BY <4>1, <1>9, <1>13
        <4>2. CASE k # 1 BY <4>2, <1>3, <1>6, <1>13
        <4> QED BY <4>1, <4>2
      <3> QED BY <2>2, <3>1, <3>2 DEF Exact, Ties
    <2> QED BY <1>14, <2>1, <2>2 DEF Ties, Free
  <1> QED BY <1>2, <1>17, <1>18, <1>19, <1>20 DEF Exact

-------------------------------------------------------------------------------
(* Exact: the theorems.                                                    *)

LEMMA InitExact == Init => Exact
  <1> SUFFICES ASSUME Init PROVE Exact OBVIOUS
  <1> DEFINE F == [fn |-> None, args |-> <<>>, stack |-> <<>>, saved |-> NoSaved]
             S == [n \in Name |-> NoEntry]
  <1>1. IInv /\ Shape BY InitInv DEF IInv
  <1>2. frames = <<F>> /\ scopes = <<S>> /\ count = [o \in Obj |-> 0] /\ leaked = [o \in Obj |-> 0]
    BY DEF Init
  <1>3. None \notin Obj /\ Unset \notin Obj /\ MaxStack \in Nat /\ MaxDepth \in Nat \ {0} /\ MaxCount \in Nat
    BY FramesAssumption DEF Value
  <1>4. F \in FrameType /\ F.fn = None /\ F.args = <<>> /\ F.stack = <<>> /\ F.saved = NoSaved
    BY DEF FrameType, SavedType
  <1>5. F \in Bounded BY <1>3, <1>4 DEF Bounded
  <1> HIDE DEF F, S
  <1>6. Len(frames) = 1 /\ frames[1] = F /\ frames \in Seq(Bounded) /\ Len(scopes) = 1 /\ scopes[1] = S
    BY <1>2, <1>5
  <1>7. Within BY <1>3, <1>6 DEF Within, Depth
  <1>8. Ties BY <1>3, <1>6 DEF Ties, Free, S, NoEntry
  <1>9. CountType BY <1>2, <1>3 DEF CountType
  <1>10. ASSUME NEW o \in Obj PROVE count[o] = Owners(o) + leaked[o]
    <2>1. Owners(o) = Total(frames, scopes, o) BY <1>6, OwnersAre
    <2>2. Times(o, HeldOf(F)) = 0
      <3>1. Times(o, HeldOf(F)) = One(F.fn, o) + Times(o, F.args) + Times(o, F.stack) + One(F.saved.val, o)
        BY <1>4, HeldCount
      <3>2. Times(o, <<>>) = 0 BY TimesSingle
      <3>3. One(None, o) = 0 /\ One(NoSaved.val, o) = 0 BY <1>3 DEF One, NoSaved
      <3> QED BY <1>4, <3>1, <3>2, <3>3
    <2>3. Holds(frames, o) = {}
      <3>1. HeldOf(F) \in Seq(Value) BY <1>4, HeldCount
      <3>2. IsFiniteSet({i \in DOMAIN HeldOf(F) : HeldOf(F)[i] = o}) BY <3>1, TimesType
      <3>3. {i \in DOMAIN HeldOf(F) : HeldOf(F)[i] = o} = {} BY <2>2, <3>2, FS_EmptySet DEF Times
      <3> QED BY <1>6, <3>3 DEF Holds
    <2>4. Enter(scopes, o) = {} BY <1>6 DEF Enter, S, NoEntry
    <2>5. Owners(o) = 0 BY <2>1, <2>3, <2>4, FS_EmptySet DEF Total
    <2> QED BY <1>2, <2>5
  <1> QED BY <1>1, <1>7, <1>8, <1>9, <1>10 DEF Exact, OnlyLocalsAndPopsLeak

LEMMA NextExact == Exact /\ [Next]_vars => Exact'
  <1> SUFFICES ASSUME Exact, [Next]_vars PROVE Exact' OBVIOUS
  <1>1. ASSUME NEW v \in Value, LoadConst(v) PROVE Exact' BY <1>1, LoadConstExact
  <1>2. CASE PopTop BY <1>2, PopTopExact
  <1>3. CASE Restore BY <1>3, RestoreExact
  <1>4. CASE Return BY <1>4, ReturnExact
  <1>5. ASSUME NEW n \in Name, LoadFast(n) \/ LoadName(n) PROVE Exact'
    BY <1>5, LoadExact DEF LoadFast, LoadName
  <1>6. ASSUME NEW n \in Name, StoreName(n) PROVE Exact' BY <1>6, StoreNameExact
  <1>7. ASSUME NEW n \in Name, StoreFast(n) PROVE Exact' BY <1>7, StoreFastExact
  <1>8. ASSUME NEW n \in Name, StoreFastLoadFast(n) PROVE Exact' BY <1>8, StoreFastLoadFastExact
  <1>9. ASSUME NEW n \in Name, LoadFastAndClear(n) PROVE Exact' BY <1>9, LoadFastAndClearExact
  <1>10. ASSUME NEW f \in Function, Call(f) PROVE Exact' BY <1>10, CallExact
  <1>11. CASE UNCHANGED vars
    <2>1. IInv' BY <1>11, NextInv DEF Exact
    <2> QED BY <1>11, <2>1, RaisedExact DEF vars
  <1> QED BY <1>1, <1>2, <1>3, <1>4, <1>5, <1>6, <1>7, <1>8, <1>9, <1>10, <1>11 DEF Next

LEMMA ExactInvariance == Spec => []Exact
  BY InitExact, NextExact, PTL DEF Spec

\* An object in a row of either table is alive.
LEMMA OwnerAlive ==
  ASSUME Exact, NEW o \in Obj, NEW k \in 1..Depth,
         Times(o, HeldOf(frames[k])) # 0 \/ OwnedIn(scopes[k], o) # 0
  PROVE  Alive(o)
  <1>1. /\ frames \in Seq(Bounded) /\ scopes \in Seq(ScopeType) /\ Depth = Len(frames) /\ Depth = Len(scopes)
        /\ k \in Nat /\ count \in [Obj -> Int] /\ leaked \in [Obj -> Nat]
    BY TopExact DEF Exact, Shape, Within, Depth
  <1>2. count[o] = Total(frames, scopes, o) + leaked[o]
    <2>1. Owners(o) = Total(frames, scopes, o) BY <1>1, OwnersAre
    <2> QED BY <2>1 DEF Exact, OnlyLocalsAndPopsLeak
  <1>3. /\ Cardinality(Holds(frames, o)) = Cardinality(Others(Holds(frames, o), k)) + FrameRow(frames, k, o)
        /\ Cardinality(Others(Holds(frames, o), k)) \in Nat /\ FrameRow(frames, k, o) \in Nat
    BY <1>1, HoldsRow
  <1>4. /\ Cardinality(Enter(scopes, o)) = Cardinality(Others(Enter(scopes, o), k)) + ScopeRow(scopes, k, o)
        /\ Cardinality(Others(Enter(scopes, o), k)) \in Nat /\ ScopeRow(scopes, k, o) \in Nat
    BY <1>1, EnterRow
  <1>5. FrameRow(frames, k, o) # 0 \/ ScopeRow(scopes, k, o) # 0 BY <1>1 DEF FrameRow, ScopeRow
  <1>6. leaked[o] \in Nat BY <1>1
  <1> DEFINE a == Cardinality(Others(Holds(frames, o), k))
             b == FrameRow(frames, k, o)
             c == Cardinality(Others(Enter(scopes, o), k))
             d == ScopeRow(scopes, k, o)
  <1>7. count[o] = (c + d) + (a + b) + leaked[o] BY <1>2, <1>3, <1>4 DEF Total
  <1>8. a \in Nat /\ b \in Nat /\ c \in Nat /\ d \in Nat /\ (b # 0 \/ d # 0) BY <1>3, <1>4, <1>5
  <1> HIDE DEF a, b, c, d
  <1>9. count[o] > 0 BY <1>6, <1>7, <1>8
  <1> QED BY <1>9 DEF Alive

\* What occurs in a sequence is counted there.
LEMMA TimesOccurs ==
  ASSUME NEW T, NEW s \in Seq(T), NEW i \in DOMAIN s
  PROVE  Times(s[i], s) # 0
  <1> DEFINE P == {j \in DOMAIN s : s[j] = s[i]}
  <1>1. IsFiniteSet(P) BY TimesType
  <1>2. P # {} OBVIOUS
  <1> HIDE DEF P
  <1>3. Cardinality(P) # 0 BY <1>1, <1>2, FS_EmptySet
  <1> QED BY <1>3 DEF Times, P

LEMMA OwnedOccurs ==
  ASSUME NEW S, NEW n \in Name, NEW o, S[n] = [val |-> o, tie |-> "owned"]
  PROVE  OwnedIn(S, o) # 0
  <1> DEFINE P == {m \in Name : S[m] = [val |-> o, tie |-> "owned"]}
  <1>1. IsFiniteSet(P) BY FramesAssumption, FS_Subset
  <1>2. P # {} OBVIOUS
  <1> HIDE DEF P
  <1>3. Cardinality(P) # 0 BY <1>1, <1>2, FS_EmptySet
  <1> QED BY <1>3 DEF OwnedIn, P

LEMMA ExactAlive == Exact => OnlySharedDangle
  <1> SUFFICES ASSUME Exact, NEW k \in 1..Depth
               PROVE  /\ \A i \in DOMAIN Held(k) : Alive(Held(k)[i])
                      /\ \A n \in Name : scopes[k][n].tie # "shared" => Alive(scopes[k][n].val)
    BY DEF OnlySharedDangle
  <1>1. /\ frames \in Seq(Bounded) /\ scopes \in Seq(ScopeType) /\ Depth = Len(frames) /\ Depth = Len(scopes)
        /\ k \in Nat /\ 1 \in 1..Depth
    BY TopExact DEF Exact, Shape, Within, Depth
  <1> DEFINE F == frames[k]
  <1>2. F \in FrameType
    <2>1. ASSUME NEW i \in 1..Len(frames) PROVE frames[i] \in Bounded BY <1>1, ElementOfSeq
    <2> QED BY <1>1, <2>1 DEF Bounded
  <1>3. ASSUME NEW i \in DOMAIN Held(k) PROVE Alive(Held(k)[i])
    <2>1. Held(k) = HeldOf(F) BY DEF Held, HeldOf
    <2> DEFINE s == HeldOf(F)
    <2>2. s \in Seq(Value) BY <1>2, HeldCount
    <2>3. i \in DOMAIN s BY <2>1
    <2> HIDE DEF s
    <2>4. Times(s[i], s) # 0 BY <2>2, <2>3, TimesOccurs
    <2>5. CASE s[i] \in Obj BY <2>1, <2>4, <2>5, OwnerAlive DEF s
    <2>6. CASE s[i] \notin Obj BY <2>1, <2>6 DEF Alive, s
    <2> QED BY <2>5, <2>6
  <1>4. ASSUME NEW n \in Name, scopes[k][n].tie # "shared" PROVE Alive(scopes[k][n].val)
    <2> DEFINE e == scopes[k][n]
               v == e.val
    <2>1. e \in EntryType
      <3>1. ASSUME NEW i \in 1..Len(scopes) PROVE scopes[i] \in ScopeType BY <1>1, ElementOfSeq
      <3> QED BY <1>1, <3>1 DEF ScopeType
    <2>2. CASE v \notin Obj BY <2>2 DEF Alive
    <2>3. CASE v \in Obj /\ e.tie = "owned"
      <3>1. e = [val |-> v, tie |-> "owned"] BY <2>1, <2>3 DEF EntryType
      <3>2. OwnedIn(scopes[k], v) # 0 BY <3>1, OwnedOccurs
      <3> QED BY <2>3, <3>2, OwnerAlive
    <2>4. CASE v \in Obj /\ e.tie = "borrowed"
      <3>1. \/ scopes[1][n] = [val |-> v, tie |-> "owned"]
            \/ v \in Range(F.args)
        BY <2>4 DEF Exact, IInv, BorrowedIsHeld
      <3>2. CASE scopes[1][n] = [val |-> v, tie |-> "owned"]
        <4>1. OwnedIn(scopes[1], v) # 0 BY <3>2, OwnedOccurs
        <4> QED BY <1>1, <2>4, <4>1, OwnerAlive
      <3>3. CASE v \in Range(F.args)
        <4> DEFINE s == F.args
        <4>1. PICK i \in DOMAIN s : s[i] = v BY <3>3 DEF Range
        <4>2. s \in Seq(Value) BY <1>2 DEF FrameType
        <4> HIDE DEF s
        <4>7. Times(s[i], s) # 0 BY <4>1, <4>2, TimesOccurs
        <4>3. Times(v, F.args) # 0 BY <4>1, <4>7 DEF s
        <4>4. /\ Times(v, HeldOf(F)) = One(F.fn, v) + Times(v, F.args) + Times(v, F.stack) + One(F.saved.val, v)
              /\ Times(v, F.args) \in Nat /\ Times(v, F.stack) \in Nat
          BY <1>2, HeldCount
        <4>5. One(F.fn, v) \in Nat /\ One(F.saved.val, v) \in Nat BY DEF One
        <4>6. Times(v, HeldOf(F)) # 0 BY <4>3, <4>4, <4>5
        <4> QED BY <2>4, <4>6, OwnerAlive
      <3> QED BY <3>1, <3>2, <3>3
    <2>5. CASE v \in Obj /\ e.tie = "none"
      BY <1>1, <2>5 DEF Exact, Ties, Free
    <2>6. e.tie \in {"owned", "borrowed", "none"} BY <1>4, <2>1 DEF EntryType, Tie
    <2> QED BY <2>2, <2>3, <2>4, <2>5, <2>6
  <1> QED BY <1>3, <1>4

\* Counts stay within their bounds: none is ever given up that is not there.
THEOREM TypeCorrect == Spec => []TypeOK
  <1> DEFINE PhaseOK == phase \in {"running", "raised"}
  <1>1. Init => PhaseOK BY DEF Init
  <1>2. PhaseOK /\ [Next]_vars => PhaseOK'
    BY DEF Next, vars, LoadConst, PopTop, Restore, Return, LoadFast, LoadName, Load, LoadUnset, StoreName, StoreFast,
           StoreFastLoadFast, LoadFastAndClear, Call
  <1>3. Exact /\ PhaseOK => TypeOK
    <2> SUFFICES ASSUME Exact, PhaseOK PROVE TypeOK OBVIOUS
    <2>1. /\ frames \in Seq(Bounded) /\ scopes \in Seq(ScopeType) /\ Depth = Len(frames) /\ Depth = Len(scopes)
          /\ Depth \in 1..MaxDepth /\ CountType
      BY TopExact, FramesAssumption DEF Exact, Shape, Within, Depth
    <2>2. ASSUME NEW k \in 1..Depth
          PROVE  /\ frames[k].fn \in Function \cup {None} /\ frames[k].args \in Seq(Value)
                 /\ frames[k].stack \in Seq(Value)
                 /\ frames[k].saved \in [name : Name \cup {None}, val : Value]
      <3> DEFINE F == frames[k]
      <3>1. ASSUME NEW i \in 1..Len(frames) PROVE frames[i] \in Bounded BY <2>1, ElementOfSeq
      <3>2. F \in FrameType BY <2>1, <3>1 DEF Bounded
      <3>3. NoSaved \in [name : Name \cup {None}, val : Value] BY DEF NoSaved, Value
      <3> QED BY <3>2, <3>3 DEF FrameType, SavedType
    <2>3. scopes \in Seq([Name -> Entry]) BY <2>1 DEF ScopeType, EntryType, Entry
    <2> QED BY <2>1, <2>2, <2>3 DEF TypeOK, CountType
  <1> QED BY <1>1, <1>2, <1>3, ExactInvariance, PTL DEF Spec

\* However deeply calls are nested and whatever they rebind, every reference is the
\* count of one owner, but for the locals that StoreFast overwrites or pyir_popScope
\* drops with a value stored into them.
THEOREM CountsAreExact == Spec => []OnlyLocalsAndPopsLeak
  <1>1. Exact => OnlyLocalsAndPopsLeak BY DEF Exact
  <1> QED BY <1>1, ExactInvariance, PTL

\* So no operand, argument, saved variable or entry that is not shared is ever
\* deleted while it may still be used, though a function's scope is not counted.
THEOREM NothingInUseIsDeleted == Spec => []OnlySharedDangle
  BY ExactAlive, ExactInvariance, PTL
===============================================================================
