------------------------------ MODULE VmProofs ------------------------------
(***************************************************************************)
(* Proofs about the interpreter, for every bytecode and every limit.       *)
(*                                                                         *)
(* The safety invariants of Vm are inductive together, and not one by one: *)
(* typing the frame chain after vm_call_sync gives up needs the frame it   *)
(* saved to be on the chain (NativeNesting), typing what the unwinder      *)
(* pushes needs RaisedHasException, and both need the types.  Inv is their *)
(* conjunction.  The steps fall into six groups, by what they change:      *)
(*   OperandStep      stack, ip and registers only                         *)
(*   FrameUpdateStep  the running frame's locals or handlers               *)
(*   CallStep         vm_call_value, from CALL or from vm_call_sync        *)
(*   ReturnStep       the end of a frame                                   *)
(*   IterationStep    iterators and C activations                          *)
(*   UnwindStep       the unwinder                                         *)
(***************************************************************************)
EXTENDS Vm, SequenceTheorems, TLAPS

-----------------------------------------------------------------------------
(***************************************************************************)
(* Sequences.                                                              *)
(***************************************************************************)

\* The first n items of a sequence.
LEMMA Prefix ==
  ASSUME NEW S, NEW s \in Seq(S), NEW n \in Nat, n <= Len(s)
  PROVE  /\ SubSeq(s, 1, n) \in Seq(S)
         /\ Len(SubSeq(s, 1, n)) = n
         /\ \A i \in 1..n : SubSeq(s, 1, n)[i] = s[i]
  OBVIOUS

\* A sequence that is not empty: all but its last item, and its last item.
LEMMA FrontLast ==
  ASSUME NEW S, NEW s \in Seq(S), s # << >>
  PROVE  /\ Len(s) \in Nat /\ Len(s) >= 1 /\ Len(s) - 1 \in Nat
         /\ Front(s) \in Seq(S)
         /\ Len(Front(s)) = Len(s) - 1
         /\ \A i \in 1..(Len(s) - 1) : Front(s)[i] = s[i]
         /\ Last(s) \in S /\ Last(s) = s[Len(s)]
<1>1. Len(s) \in Nat /\ Len(s) >= 1
  OBVIOUS
<1>2. Len(s) - 1 \in Nat /\ Len(s) - 1 <= Len(s)
  BY <1>1
<1>3. Last(s) \in S /\ Last(s) = s[Len(s)]
  BY <1>1 DEF Last
<1> QED
  BY <1>1, <1>2, <1>3, Prefix DEF Front

\* Take cuts a sequence to a length, and leaves a shorter one alone.
LEMMA TakeType ==
  ASSUME NEW S, NEW s \in Seq(S), NEW n \in Nat
  PROVE  /\ Take(s, n) \in Seq(S)
         /\ Len(Take(s, n)) <= Len(s)
         /\ Len(Take(s, n)) <= n
         /\ n <= Len(s) => Len(Take(s, n)) = n
  BY DEF Take

\* A push keeps the stack within its limit and never shortens it.
LEMMA PushedType ==
  ASSUME NEW s \in Seq(Value), Len(s) <= MaxStackDepth, NEW v \in Value
  PROVE  /\ Pushed(s, v) \in Seq(Value)
         /\ Len(Pushed(s, v)) <= MaxStackDepth
         /\ Len(s) <= Len(Pushed(s, v))
         /\ PushError(s) \in {"OK", "STACK"}
  BY BoundsAssumption DEF Pushed, PushError

\* The values instructions push are values.
LEMMA Constants ==
  /\ None \in Value /\ Obj(0) \in Value
  /\ \A b \in BOOLEAN : Bool(b) \in Value
  /\ \A n \in Nat : Iter(n) \in Value /\ Func(n) \in Value
  /\ Exceptions \subseteq Value
  /\ \A t \in TypeNames : Exc(t) \in Exceptions
  BY DEF None, Obj, Bool, Iter, Func, Exceptions, Exc, Value

\* What the fields of a value are, by its tag.
LEMMA ValueFields ==
  ASSUME NEW v \in Value
  PROVE  /\ v.tag \in {"range", "map"} => v.len \in Nat
         /\ v.tag = "map" => v.fn \in Nat
         /\ v.tag = "types" => v.names \in SUBSET TypeNames
         /\ v.tag = "exception" => v \in Exceptions
  BY DEF Value, Exceptions

\* The inductive invariant.
Inv ==
  /\ module \in Modules
  /\ TypeOK
  /\ RaisedHasException
  /\ NativeNesting
  /\ FrameBases

\* An operand stack within its limit.
StackOK(s) == s \in Seq(Value) /\ Len(s) <= MaxStackDepth

\* OK and RAISED are no failure codes, and every failure code has a type.
LEMMA Codes ==
  /\ {"STACK", "BOUNDS", "TYPE", "OOM", "RECURSION", "FUNC_NOT_FOUND"} \subseteq ErrorCodes
  /\ "OK" \notin ErrorCodes /\ "RAISED" \notin ErrorCodes
  /\ \A c \in ErrorCodes : ErrorTypeName[c] \in TypeNames /\ Exc(ErrorTypeName[c]) \in Exceptions
<1>1. \A c \in ErrorCodes : ErrorTypeName[c] \in TypeNames
  BY TypesAssumption
<1>2. ErrorCodes = {"TYPE", "VALUE", "KEY", "BOUNDS", "ATTR", "RUNTIME", "OVERFLOW", "DIV_ZERO", "STOP",
                    "LOOKUP", "UNICODE", "STACK", "FUNC_NOT_FOUND", "RECURSION", "OOM"}
  BY DEF ErrorCodes, ErrorTypeName
<1> QED
  BY <1>1, <1>2, Constants

\* The types the machine raises by name exist.
LEMMA NamedTypes ==
  \A t \in {"KeyError", "TypeError", "RuntimeError"} :
    t \in TypeNames /\ Exc(t) \in Exceptions /\ Exc(t) # Null
<1>1. "KEY" \in ErrorCodes /\ "TYPE" \in ErrorCodes /\ "RUNTIME" \in ErrorCodes
  BY DEF ErrorCodes, ErrorTypeName
<1>2. /\ ErrorTypeName["KEY"] = "KeyError"
      /\ ErrorTypeName["TYPE"] = "TypeError"
      /\ ErrorTypeName["RUNTIME"] = "RuntimeError"
  BY DEF ErrorTypeName
<1>3. \A t \in {"KeyError", "TypeError", "RuntimeError"} : t \in TypeNames
  BY <1>1, <1>2, Codes
<1> QED
  BY <1>3, Constants DEF Exc, Null

\* A loaded module is one the loader accepts.
LEMMA ModuleFacts ==
  ASSUME module \in Modules
  PROVE  /\ module.bytecode \in Seq(Instruction)
         /\ module.functions \in Seq(Function)
         /\ module.entry \in 1..Len(module.functions)
         /\ ip \in Nat /\ InCode => Instr \in Instruction
  BY ModulesAssumption DEF InCode, Instr

\* The running frame is the last of the chain.
LEMMA CurType ==
  ASSUME Inv, frames # << >>
  PROVE  /\ Cur \in FrameRecord /\ Cur = frames[Len(frames)] /\ Cur.base \in 0..MaxStackDepth
         /\ Len(frames) \in Nat /\ Len(frames) >= 1
<1>1. frames \in Seq(FrameRecord)
  BY DEF Inv, TypeOK
<1>2. Cur \in FrameRecord /\ Cur = frames[Len(frames)] /\ Len(frames) \in Nat /\ Len(frames) >= 1
  BY <1>1, FrontLast DEF Cur
<1> QED
  BY <1>2 DEF FrameRecord

\* While a loop runs there is a frame above the one it will stop at.
LEMMA RunningFrame ==
  ASSUME Inv, LoopRuns
  PROVE  /\ Cur \in FrameRecord /\ Cur = frames[Len(frames)]
         /\ Len(frames) \in Nat /\ Len(frames) >= 1
         /\ Cur.func \in 1..Len(module.functions)
         /\ StopDepth \in 0..(Len(frames) - 1)
<1>1. frames # << >> /\ frames \in Seq(FrameRecord)
  BY DEF Inv, TypeOK, LoopRuns
<1>2. Len(frames) \in Nat /\ Len(frames) >= 1 /\ Cur \in FrameRecord /\ Cur = frames[Len(frames)]
  BY <1>1, FrontLast DEF Cur
<1>3. Cur.func \in 1..Len(module.functions)
  BY <1>2 DEF Inv, TypeOK
<1>4. StopDepth \in 0..(Len(frames) - 1)
  <2>1. CASE natives = << >>
    BY <2>1, <1>2 DEF StopDepth
  <2>2. CASE natives # << >>
    <3>1. natives \in Seq(NativeRecord)
      BY DEF Inv, TypeOK
    <3>2. Len(natives) \in Nat /\ Len(natives) >= 1 /\ Last(natives) = natives[Len(natives)]
      BY <2>2, <3>1, FrontLast
    <3>3. Last(natives).waiting /\ Len(frames) # StopDepth
      BY <2>2 DEF LoopRuns
    <3>4. Last(natives).saved \in 1..Len(frames)
      BY <3>2, <3>3 DEF Inv, NativeNesting
    <3> QED
      BY <1>2, <2>2, <3>3, <3>4 DEF StopDepth
  <2> QED
    BY <2>1, <2>2
<1> QED
  BY <1>2, <1>3, <1>4

\* The part of Inv about the operand stack and the registers.
Registers ==
  /\ StackOK(stack)
  /\ ip \in Nat
  /\ exception \in Exceptions \union {Null}
  /\ last_error \in ErrorCodes \union {"OK", "RAISED"}
  /\ last_error = "RAISED" => exception # Null

\* A step that changes only the registers keeps Inv if they keep theirs.
LEMMA RegisterStep ==
  ASSUME Inv, Registers', UNCHANGED <<module, frames, iterators, natives, out, status>>
  PROVE  Inv'
  BY DEF Inv, TypeOK, Registers, StackOK, RaisedHasException, NativeNesting, FrameBases

\* vm_push as an instruction uses it.
LEMMA PushOnType ==
  ASSUME NEW s, StackOK(s), NEW v \in Value, PushOn(s, v)
  PROVE  /\ StackOK(stack') /\ Len(stack') >= Len(s)
         /\ last_error' \in ErrorCodes \union {"OK", "RAISED"} /\ last_error' # "RAISED"
<1>1. Pushed(s, v) \in Seq(Value) /\ Len(Pushed(s, v)) <= MaxStackDepth
        /\ Len(s) <= Len(Pushed(s, v)) /\ PushError(s) \in {"OK", "STACK"}
  BY PushedType DEF StackOK
<1>2. "STACK" \in ErrorCodes
  BY Codes
<1> QED
  BY <1>1, <1>2 DEF PushOn, StackOK

\* vm_pop of a stack that is not empty.
LEMMA FrontOK ==
  ASSUME NEW s, StackOK(s), s # << >>
  PROVE  StackOK(Front(s)) /\ Last(s) \in Value /\ Len(Front(s)) = Len(s) - 1 /\ Len(s) \in Nat /\ Len(s) >= 1
  BY FrontLast, BoundsAssumption DEF StackOK

\* The empty stack is a stack.
LEMMA EmptyOK == StackOK(<< >>)
  BY BoundsAssumption DEF StackOK

\* No value is the null pointer.
LEMMA ValueNotNull == \A v \in Value : v # Null /\ v.tag # "null"
  BY DEF Value, Null

\* vm_jump.
LEMMA JumpType ==
  ASSUME Inv, LoopRuns, InCode, NEW n \in Nat, JumpTo(n)
  PROVE  ip' \in Nat /\ last_error' \in {"OK", "BOUNDS"}
<1>1. CurFunction.code_offset \in Nat
  <2>1. Cur.func \in 1..Len(module.functions) /\ module.functions \in Seq(Function)
    BY RunningFrame, ModuleFacts DEF Inv
  <2>2. module.functions[Cur.func] \in Function
    BY <2>1, ElementOfSeq
  <2> QED
    BY <2>2 DEF CurFunction, Function
<1>2. ip \in Nat
  BY DEF Inv, TypeOK
<1> QED
  BY <1>1, <1>2 DEF JumpTo, Next1

\* Instructions that change the operand stack and the registers.
LEMMA OperandStep ==
  ASSUME Inv, FetchPastEnd \/ Nop \/ LoadConst \/ LoadFast \/ PopTop \/ DupTop \/ NativeOp
              \/ Jump \/ JumpIfFalse \/ ExceptMatch \/ ExceptClear \/ Reraise \/ RaiseVarargs
  PROVE  Inv'
<1> USE Codes DEF Fail
<1>1. /\ StackOK(stack) /\ ip \in Nat /\ exception \in Exceptions \union {Null}
      /\ stack \in Seq(Value) /\ Len(stack) \in Nat
  BY DEF Inv, TypeOK, StackOK
<1>2. stack # << >> => /\ StackOK(Front(stack)) /\ Last(stack) \in Value
                       /\ Len(Front(stack)) = Len(stack) - 1 /\ Len(stack) >= 1
  BY <1>1, FrontOK
<1>3. InCode => /\ Instr.n \in Nat /\ Instr.v \in Value /\ Instr.o \in Outcomes
  BY <1>1, ModuleFacts DEF Inv, Instruction
<1>4. Next1 => ip' \in Nat
  BY <1>1 DEF Next1
<1>5. CASE FetchPastEnd
  <2>1. Registers'
    BY <1>1, <1>5 DEF FetchPastEnd, Registers
  <2> QED
    BY <2>1, <1>5, RegisterStep DEF FetchPastEnd
<1>6. CASE Nop
  <2>1. Registers'
    BY <1>1, <1>4, <1>6 DEF Nop, At, Registers
  <2> QED
    BY <2>1, <1>6, RegisterStep DEF Nop
<1>7. CASE LoadConst
  <2>1. Registers'
    BY <1>1, <1>3, <1>4, <1>7, PushOnType DEF LoadConst, At, Registers
  <2> QED
    BY <2>1, <1>7, RegisterStep DEF LoadConst
<1>8. CASE LoadFast
  <2>1. Cur.locals \in Seq(Value \union {Null})
    BY <1>8, RunningFrame DEF LoadFast, At, FrameRecord
  <2>2. Instr.n < Len(Cur.locals) => Cur.locals[Instr.n + 1] \in Value \union {Null}
    BY <1>3, <1>8, <2>1 DEF LoadFast, At
  <2>3. Registers'
    BY <1>1, <1>3, <1>4, <1>8, <2>2, PushOnType DEF LoadFast, At, Registers
  <2> QED
    BY <2>3, <1>8, RegisterStep DEF LoadFast
<1>9. CASE PopTop
  <2>1. Registers'
    BY <1>1, <1>2, <1>4, <1>9 DEF PopTop, At, Registers
  <2> QED
    BY <2>1, <1>9, RegisterStep DEF PopTop
<1>10. CASE DupTop
  <2>1. Registers'
    BY <1>1, <1>2, <1>4, <1>10, PushOnType DEF DupTop, At, Registers
  <2> QED
    BY <2>1, <1>10, RegisterStep DEF DupTop
<1>11. CASE NativeOp
  <2>1. Len(stack) >= Instr.n => StackOK(Drop(stack, Instr.n))
    <3>1. SUFFICES ASSUME Len(stack) >= Instr.n PROVE StackOK(Drop(stack, Instr.n))
      OBVIOUS
    <3>2. Instr.n \in Nat
      BY <1>3, <1>11 DEF NativeOp, At
    <3>3. Len(stack) - Instr.n \in Nat /\ Len(stack) - Instr.n <= Len(stack)
      BY <1>1, <3>1, <3>2
    <3>4. Drop(stack, Instr.n) \in Seq(Value) /\ Len(Drop(stack, Instr.n)) = Len(stack) - Instr.n
      BY <1>1, <3>3, Prefix DEF Drop
    <3> QED
      BY <1>1, <3>3, <3>4, BoundsAssumption DEF StackOK
  <2>2. Exc("KeyError") \in Exceptions /\ Exc("KeyError") # Null
    BY NamedTypes
  <2>3. Registers'
    BY <1>1, <1>3, <1>4, <1>11, <2>1, <2>2, PushOnType, Constants, EmptyOK DEF NativeOp, At, Registers
  <2> QED
    BY <2>3, <1>11, RegisterStep DEF NativeOp
<1>12. CASE Jump
  <2>1. Registers'
    BY <1>1, <1>3, <1>12, JumpType DEF Jump, At, Registers
  <2> QED
    BY <2>1, <1>12, RegisterStep DEF Jump
<1>13. CASE JumpIfFalse
  <2>1. Registers'
    BY <1>1, <1>2, <1>3, <1>4, <1>13, JumpType DEF JumpIfFalse, At, Registers
  <2> QED
    BY <2>1, <1>13, RegisterStep DEF JumpIfFalse
<1>14. CASE ExceptMatch
  <2>1. Len(stack) >= 2 => Front(stack) # << >>
    BY <1>1, <1>2, EmptySeq
  <2>2. \A v, S : Bool(MatchesTypes(v, S)) \in Value
    BY Constants DEF MatchesTypes
  <2>3. Registers'
    BY <1>1, <1>2, <1>4, <1>14, <2>1, <2>2, PushOnType, EmptyOK DEF ExceptMatch, At, Registers
  <2> QED
    BY <2>3, <1>14, RegisterStep DEF ExceptMatch
<1>15. CASE ExceptClear
  <2>1. Registers'
    BY <1>1, <1>2, <1>4, <1>15 DEF ExceptClear, At, Registers
  <2> QED
    BY <2>1, <1>15, RegisterStep DEF ExceptClear
<1>16. ActiveException \in Exceptions /\ ActiveException # Null
  BY <1>1, NamedTypes DEF ActiveException
<1>17. \A v \in Exceptions : v # Null
  BY Constants, ValueNotNull
<1>18. CASE Reraise
  <2>1. stack # << >> /\ Last(stack).tag = "exception" => Last(stack) \in Exceptions
    BY <1>2, ValueFields
  <2>2. Registers'
    BY <1>1, <1>2, <1>4, <1>16, <1>17, <1>18, <2>1 DEF Reraise, At, Registers
  <2> QED
    BY <2>2, <1>18, RegisterStep DEF Reraise
<1>19. CASE RaiseVarargs
  <2>1. \A v \in Value : MakeRaised(v) \in Exceptions
    BY Constants, NamedTypes, ValueFields DEF MakeRaised
  <2>2. Registers'
    BY <1>1, <1>2, <1>4, <1>16, <1>17, <1>19, <2>1 DEF RaiseVarargs, At, Registers
  <2> QED
    BY <2>2, <1>19, RegisterStep DEF RaiseVarargs
<1> QED
  BY <1>5, <1>6, <1>7, <1>8, <1>9, <1>10, <1>11, <1>12, <1>13, <1>14, <1>15, <1>18, <1>19
-----------------------------------------------------------------------------
(***************************************************************************)
(* Steps that change the frame chain.                                      *)
(***************************************************************************)
\* The part of Inv about the frame chain.
FramesOK ==
  /\ frames \in Seq(FrameRecord) /\ Len(frames) <= MaxCallDepth
  /\ \A i \in 1..Len(frames) : frames[i].func \in 1..Len(module.functions)
  /\ FrameBases
  /\ status = "running" => frames # << >>

\* A step that changes the frame chain without shortening it.
LEMMA FrameStep ==
  ASSUME Inv, Registers', FramesOK', UNCHANGED <<module, iterators, natives, out, status>>,
         Len(frames') >= Len(frames)
  PROVE  Inv'
<1>1. Len(frames) \in Nat /\ Len(frames') \in Nat
  BY DEF Inv, TypeOK, FramesOK
<1>2. NativeNesting'
  BY <1>1 DEF Inv, NativeNesting
<1> QED
  BY <1>2 DEF Inv, TypeOK, Registers, FramesOK, StackOK, RaisedHasException

\* A step that replaces the running frame by one of the same function.
LEMMA TopFrameStep ==
  ASSUME Inv, LoopRuns, NEW f \in FrameRecord, f.func = Cur.func, f.base = Cur.base,
         frames' = SetCur(f), Registers', UNCHANGED <<module, iterators, natives, out, status>>
  PROVE  Inv'
<1>1. /\ Cur = frames[Len(frames)] /\ Len(frames) \in Nat /\ Len(frames) >= 1
      /\ frames \in Seq(FrameRecord) /\ Len(frames) <= MaxCallDepth
  BY RunningFrame DEF Inv, TypeOK
<1>2. /\ frames' \in Seq(FrameRecord) /\ Len(frames') = Len(frames)
      /\ \A j \in 1..Len(frames) : frames'[j] = IF j = Len(frames) THEN f ELSE frames[j]
  BY <1>1, ExceptSeq DEF SetCur
<1>3. \A j \in 1..Len(frames) : frames'[j].func = frames[j].func /\ frames'[j].base = frames[j].base
  BY <1>1, <1>2
<1>4. FramesOK'
  BY <1>1, <1>2, <1>3 DEF Inv, TypeOK, FramesOK, FrameBases
<1> QED
  BY <1>1, <1>2, <1>4, FrameStep

\* STORE_FAST, SETUP_HANDLER and POP_HANDLER.
LEMMA FrameUpdateStep ==
  ASSUME Inv, StoreFast \/ SetupHandler \/ PopHandler
  PROVE  Inv'
<1> USE Codes DEF Fail
<1>1. /\ StackOK(stack) /\ ip \in Nat /\ exception \in Exceptions \union {Null}
      /\ stack \in Seq(Value) /\ Len(stack) \in 0..MaxStackDepth
  BY BoundsAssumption DEF Inv, TypeOK, StackOK
<1>2. stack # << >> => StackOK(Front(stack)) /\ Last(stack) \in Value
  BY <1>1, FrontOK
<1>3. InCode => Instr.n \in Nat
  BY <1>1, ModuleFacts DEF Inv, Instruction
<1>4. LoopRuns => /\ Cur \in FrameRecord
                  /\ Cur.locals \in Seq(Value \union {Null}) /\ Cur.handlers \in Seq(Handler)
  BY RunningFrame DEF FrameRecord
<1>5. Next1 => ip' \in Nat
  BY <1>1 DEF Next1
<1>6. CASE StoreFast
  <2>1. Registers'
    BY <1>1, <1>2, <1>5, <1>6 DEF StoreFast, At, Registers
  <2>2. CASE UNCHANGED frames
    BY <1>6, <2>1, <2>2, RegisterStep DEF StoreFast
  <2>3. CASE /\ Instr.n < Len(Cur.locals) /\ stack # << >>
             /\ frames' = SetCur([Cur EXCEPT !.locals[Instr.n + 1] = Last(stack)])
    <3>1. Instr.n + 1 \in 1..Len(Cur.locals)
      BY <1>3, <1>4, <1>6, <2>3 DEF StoreFast, At
    <3> DEFINE locals == [Cur.locals EXCEPT ![Instr.n + 1] = Last(stack)]
               f == [Cur EXCEPT !.locals = locals]
    <3>2. locals \in Seq(Value \union {Null})
      BY <1>2, <1>4, <1>6, <2>3, <3>1, ExceptSeq DEF StoreFast, At
    <3>3. f \in FrameRecord /\ f.func = Cur.func /\ f.base = Cur.base
      BY <1>4, <1>6, <3>2 DEF StoreFast, At, FrameRecord
    <3>4. frames' = SetCur(f)
      BY <2>3
    <3> QED
      BY <1>6, <2>1, <3>3, <3>4, TopFrameStep DEF StoreFast, At
  <2> QED
    BY <1>6, <2>2, <2>3 DEF StoreFast
<1>7. CASE SetupHandler
  <2>1. Registers'
    BY <1>1, <1>5, <1>7 DEF SetupHandler, At, Registers
  <2>2. CASE UNCHANGED frames
    BY <1>7, <2>1, <2>2, RegisterStep DEF SetupHandler
  <2>3. CASE frames' = SetCur([Cur EXCEPT !.handlers =
                                 Append(@, [target |-> Instr.n, stack_top |-> Len(stack)])])
    <3>1. [target |-> Instr.n, stack_top |-> Len(stack)] \in Handler
      BY <1>1, <1>3, <1>7 DEF SetupHandler, At, Handler
    <3> DEFINE handlers == Append(Cur.handlers, [target |-> Instr.n, stack_top |-> Len(stack)])
               f == [Cur EXCEPT !.handlers = handlers]
    <3>2. handlers \in Seq(Handler)
      BY <1>4, <1>7, <3>1 DEF SetupHandler, At
    <3>3. f \in FrameRecord /\ f.func = Cur.func /\ f.base = Cur.base
      BY <1>4, <1>7, <3>2 DEF SetupHandler, At, FrameRecord
    <3>4. frames' = SetCur(f)
      BY <2>3
    <3> QED
      BY <1>7, <2>1, <3>3, <3>4, TopFrameStep DEF SetupHandler, At
  <2> QED
    BY <1>7, <2>2, <2>3 DEF SetupHandler
<1>8. CASE PopHandler
  <2>1. Registers'
    BY <1>1, <1>5, <1>8 DEF PopHandler, At, Registers
  <2>2. CASE UNCHANGED frames
    BY <1>8, <2>1, <2>2, RegisterStep DEF PopHandler
  <2>3. CASE Cur.handlers # << >> /\ frames' = SetCur([Cur EXCEPT !.handlers = Front(@)])
    <3> DEFINE f == [Cur EXCEPT !.handlers = Front(Cur.handlers)]
    <3>1. Front(Cur.handlers) \in Seq(Handler)
      BY <1>4, <1>8, <2>3, FrontLast DEF PopHandler, At
    <3>2. f \in FrameRecord /\ f.func = Cur.func /\ f.base = Cur.base
      BY <1>4, <1>8, <3>1 DEF PopHandler, At, FrameRecord
    <3>3. frames' = SetCur(f)
      BY <2>3
    <3> QED
      BY <1>8, <2>1, <3>2, <3>3, TopFrameStep DEF PopHandler, At
  <2> QED
    BY <1>8, <2>2, <2>3 DEF PopHandler
<1> QED
  BY <1>6, <1>7, <1>8
-----------------------------------------------------------------------------
(***************************************************************************)
(* Calls and C activations.                                                *)
(***************************************************************************)
\* NativeNesting of activations ns over a chain of depth frames.
Nested(ns, depth) ==
  \A i \in 1..Len(ns) :
    /\ i < Len(ns) => ns[i].waiting
    /\ ns[i].waiting => ns[i].saved \in 1..depth
    /\ \A j \in i..Len(ns) : ns[i].waiting /\ ns[j].waiting => ns[i].saved <= ns[j].saved

\* Every activation waits in its nested loop.
AllWaiting(ns) == \A i \in 1..Len(ns) : ns[i].waiting

\* Activations nested in a chain are nested in a longer one.
LEMMA NestedMore ==
  ASSUME NEW ns \in Seq(NativeRecord), NEW d \in Nat, NEW e \in Nat, d <= e, Nested(ns, d)
  PROVE  Nested(ns, e)
  BY DEF Nested

\* A new activation on top of waiting ones.
LEMMA NestedAppend ==
  ASSUME NEW ns \in Seq(NativeRecord), NEW d \in Nat, Nested(ns, d), AllWaiting(ns),
         NEW act \in NativeRecord, ~act.waiting
  PROVE  Append(ns, act) \in Seq(NativeRecord) /\ Nested(Append(ns, act), d)
<1>1. /\ Append(ns, act) \in Seq(NativeRecord) /\ Len(Append(ns, act)) = Len(ns) + 1
      /\ Len(ns) \in Nat /\ Append(ns, act)[Len(ns) + 1] = act
      /\ \A i \in 1..Len(ns) : Append(ns, act)[i] = ns[i]
  OBVIOUS
<1> QED
  BY <1>1 DEF Nested, AllWaiting

\* Without the innermost activation the others are nested, and if it was
\* waiting, they are nested in the part of the chain it had saved.
LEMMA NestedFront ==
  ASSUME NEW ns \in Seq(NativeRecord), NEW d \in Nat, Nested(ns, d), ns # << >>
  PROVE  /\ Front(ns) \in Seq(NativeRecord) /\ Nested(Front(ns), d) /\ AllWaiting(Front(ns))
         /\ Last(ns).waiting => Nested(Front(ns), Last(ns).saved)
<1>1. /\ Front(ns) \in Seq(NativeRecord) /\ Len(Front(ns)) = Len(ns) - 1
      /\ Len(ns) \in Nat /\ Len(ns) >= 1 /\ Last(ns) = ns[Len(ns)]
      /\ \A i \in 1..(Len(ns) - 1) : Front(ns)[i] = ns[i]
  BY FrontLast
<1>2. Nested(Front(ns), d) /\ AllWaiting(Front(ns))
  BY <1>1 DEF Nested, AllWaiting
<1>3. Last(ns).waiting => Nested(Front(ns), Last(ns).saved)
  <2>1. SUFFICES ASSUME Last(ns).waiting
                 PROVE  \A i \in 1..Len(Front(ns)) : Front(ns)[i].saved \in 1..Last(ns).saved
    BY <1>2 DEF Nested
  <2>2. TAKE i \in 1..Len(Front(ns))
  <2>3. ns[i].waiting /\ Front(ns)[i] = ns[i] /\ i \in 1..Len(ns) /\ Len(ns) \in i..Len(ns)
    BY <1>1 DEF Nested
  <2>4. ns[i].saved \in 1..d /\ ns[i].saved <= ns[Len(ns)].saved /\ ns[Len(ns)].saved \in 1..d
    BY <1>1, <2>1, <2>3 DEF Nested
  <2> QED
    BY <1>1, <2>3, <2>4
<1> QED
  BY <1>1, <1>2, <1>3

\* The innermost activation starts to wait, or stops waiting.
LEMMA NestedReplace ==
  ASSUME NEW ns \in Seq(NativeRecord), NEW d \in Nat, Nested(ns, d), ns # << >>,
         NEW act \in NativeRecord, act.waiting => act.saved = d, d >= 1
  PROVE  /\ [ns EXCEPT ![Len(ns)] = act] \in Seq(NativeRecord)
         /\ Nested([ns EXCEPT ![Len(ns)] = act], d)
         /\ act.waiting => AllWaiting([ns EXCEPT ![Len(ns)] = act])
<1>1. Len(ns) \in Nat /\ Len(ns) >= 1 /\ Len(ns) \in 1..Len(ns)
  BY FrontLast
<1> DEFINE new == [ns EXCEPT ![Len(ns)] = act]
<1>2. /\ new \in Seq(NativeRecord) /\ Len(new) = Len(ns)
      /\ \A i \in 1..Len(ns) : new[i] = IF i = Len(ns) THEN act ELSE ns[i]
  BY <1>1, ExceptSeq
<1> HIDE DEF new
<1>3. \A i \in 1..Len(ns) : new[i].waiting => new[i].saved \in 1..d
  BY <1>1, <1>2 DEF Nested
<1>4. \A i \in 1..Len(ns) : i < Len(ns) => new[i].waiting
  BY <1>1, <1>2 DEF Nested
<1>5. \A i \in 1..Len(ns) : \A j \in i..Len(ns) :
        new[i].waiting /\ new[j].waiting => new[i].saved <= new[j].saved
  BY <1>1, <1>2, <1>3 DEF Nested
<1>6. Nested(new, d) /\ (act.waiting => AllWaiting(new))
  BY <1>1, <1>2, <1>3, <1>4, <1>5 DEF Nested, AllWaiting
<1> QED
  BY <1>2, <1>6 DEF new

\* Inv from its parts.
LEMMA Assemble ==
  ASSUME module' \in Modules, Registers', FramesOK',
         natives' \in Seq(NativeRecord), Nested(natives', Len(frames')),
         iterators' \in Seq([left: Nat, fn: Nat]), out' \in Seq(Value),
         status' \in {"running", "halted"}
  PROVE  Inv'
  BY DEF Inv, TypeOK, Registers, StackOK, FramesOK, Nested, NativeNesting, RaisedHasException

\* The parts of Inv.
LEMMA Parts ==
  ASSUME Inv
  PROVE  /\ Registers /\ FramesOK
         /\ natives \in Seq(NativeRecord) /\ Nested(natives, Len(frames))
         /\ Len(frames) \in 0..MaxCallDepth /\ Len(natives) \in Nat
  BY BoundsAssumption
     DEF Inv, TypeOK, Registers, StackOK, FramesOK, Nested, NativeNesting, RaisedHasException

\* While a loop runs, every activation waits.
LEMMA RunningNatives ==
  ASSUME Inv, LoopRuns
  PROVE  AllWaiting(natives)
<1>1. natives \in Seq(NativeRecord) /\ Nested(natives, Len(frames))
  BY Parts
<1>2. CASE natives = << >>
  BY <1>2 DEF AllWaiting
<1>3. CASE natives # << >>
  <2>1. Len(natives) \in Nat /\ natives[Len(natives)].waiting
    BY <1>1, <1>3, FrontLast DEF LoopRuns
  <2> QED
    BY <1>1, <2>1 DEF AllWaiting, Nested
<1> QED
  BY <1>2, <1>3

\* A new frame.
LEMMA NewFrameType ==
  ASSUME Inv, NEW f \in 1..Len(module.functions), NEW base \in 0..MaxStackDepth,
         NEW ret \in Nat, NEW args \in Seq(Value)
  PROVE  /\ NewFrame(f, base, ret, args) \in FrameRecord
         /\ NewFrame(f, base, ret, args).func = f /\ NewFrame(f, base, ret, args).base = base
         /\ module.functions[f].code_offset \in Nat
<1>1. module.functions[f] \in Function /\ f \in Nat
  BY ModuleFacts, ElementOfSeq DEF Inv
<1>2. module.functions[f].locals_count \in Nat /\ module.functions[f].code_offset \in Nat
  BY <1>1 DEF Function
<1>3. [i \in 1..module.functions[f].locals_count |->
        IF i \in DOMAIN args THEN args[i] ELSE Null] \in Seq(Value \union {Null})
  BY <1>2
<1> QED
  BY <1>1, <1>2, <1>3 DEF NewFrame, FrameRecord

\* vm_call_user: the new frame starts at or above the base of its caller's.
LEMMA CallUserType ==
  ASSUME Inv, frames # << >>, NEW f, NEW s, StackOK(s), Len(s) >= Cur.base,
         NEW args \in Seq(Value), NEW pending \in {"OK", "STACK"}, NEW ret \in Nat,
         CallUser(f, args, s, pending, ret), UNCHANGED <<module, status>>
  PROVE  Registers' /\ FramesOK' /\ Len(frames') >= Len(frames) /\ UNCHANGED out
<1>1. /\ frames \in Seq(FrameRecord) /\ Len(frames) \in Nat /\ Len(frames) >= 1
      /\ Cur = frames[Len(frames)] /\ Len(s) \in 0..MaxStackDepth
  <2>1. frames \in Seq(FrameRecord)
    BY DEF Inv, TypeOK
  <2>2. Len(frames) \in Nat /\ Len(frames) >= 1 /\ Cur = frames[Len(frames)]
    BY <2>1, FrontLast DEF Cur
  <2>3. Len(s) \in 0..MaxStackDepth
    BY BoundsAssumption DEF StackOK
  <2> QED
    BY <2>1, <2>2, <2>3
<1>2. CASE frames' = frames /\ ip' = ret /\ last_error' \in {"TYPE", "RECURSION", "FUNC_NOT_FOUND"}
  BY <1>1, <1>2, Parts, Codes DEF CallUser, Registers, FramesOK, FrameBases
<1>3. CASE /\ f \in 1..Len(module.functions) /\ Len(frames) < MaxCallDepth
           /\ frames' = Append(frames, NewFrame(f, Len(s), ret, args))
           /\ ip' = module.functions[f].code_offset /\ last_error' = pending
  <2> DEFINE new == NewFrame(f, Len(s), ret, args)
  <2>1. /\ new \in FrameRecord /\ new.func = f /\ new.base = Len(s)
        /\ module.functions[f].code_offset \in Nat
    <3>1. Len(s) \in 0..MaxStackDepth /\ f \in 1..Len(module.functions)
      BY <1>1, <1>3
    <3> QED
      BY <3>1, NewFrameType
  <2> HIDE DEF new
  <2>2. /\ frames' \in Seq(FrameRecord) /\ Len(frames') = Len(frames) + 1
        /\ frames'[Len(frames) + 1] = new /\ \A i \in 1..Len(frames) : frames'[i] = frames[i]
    BY <1>1, <1>3, <2>1 DEF new
  <2>3. Registers'
    BY <1>1, <1>3, <2>1, Parts, Codes DEF CallUser, Registers
  <2>4. \A i \in 1..Len(frames) : frames[i].base \in Nat /\ frames[i].base <= Len(s)
    <3>1. TAKE i \in 1..Len(frames)
    <3>2. frames[i] \in FrameRecord /\ frames[Len(frames)] \in FrameRecord
      BY <1>1, ElementOfSeq
    <3>3. /\ frames[i].base \in 0..MaxStackDepth
          /\ frames[Len(frames)].base \in 0..MaxStackDepth
      BY <3>2 DEF FrameRecord
    <3>4. frames[i].base <= frames[Len(frames)].base
      BY <1>1 DEF Inv, FrameBases
    <3> QED
      BY <1>1, <3>3, <3>4, BoundsAssumption
  <2>5. FrameBases'
    BY <1>1, <2>1, <2>2, <2>4 DEF Inv, FrameBases
  <2>6. \A i \in 1..Len(frames') : frames'[i].func \in 1..Len(module.functions)
    BY <1>1, <1>3, <2>1, <2>2 DEF Inv, TypeOK
  <2>7. FramesOK'
    BY <1>1, <1>3, <2>2, <2>5, <2>6, BoundsAssumption DEF FramesOK
  <2> QED
    BY <1>1, <2>2, <2>3, <2>7 DEF CallUser
<1> QED
  BY <1>1, <1>2, <1>3, BoundsAssumption DEF CallUser

\* push_result.
LEMMA PushResultType ==
  ASSUME NEW s, StackOK(s), NEW v \in Value, NEW pending \in {"OK", "STACK"},
         PushResult(s, v, pending)
  PROVE  StackOK(stack') /\ last_error' \in ErrorCodes \union {"OK"}
<1>1. CASE pending = "OK"
  BY <1>1, PushOnType DEF PushResult
<1>2. CASE pending # "OK"
  BY <1>2, Codes DEF PushResult, Fail
<1> QED
  BY <1>1, <1>2

\* vm_invoke of a builtin or an exception class.
LEMMA CallNativeType ==
  ASSUME Inv, NEW callable \in Value, NEW args \in Seq(Value), NEW s, StackOK(s),
         NEW pending \in {"OK", "STACK"}, NEW ret \in Nat,
         CallNative(callable, args, s, pending, ret)
  PROVE  Registers' /\ frames' = frames /\ out' \in Seq(Value)
<1>1. Registers /\ out \in Seq(Value)
  BY Parts DEF Inv, TypeOK
<1>2. frames' = frames /\ ip' = ret
  BY DEF CallNative
<1> USE <1>1, <1>2, Codes DEF Registers
<1>3. CASE /\ callable.tag = "types"
           /\ \E t \in callable.names : PushResult(s, Exc(t), pending)
           /\ UNCHANGED <<exception, out>>
  <2>1. PICK t \in callable.names : PushResult(s, Exc(t), pending)
    BY <1>3
  <2>2. t \in TypeNames
    BY <1>3, ValueFields
  <2>3. Exc(t) \in Value
    BY <2>2, Constants
  <2> QED
    BY <1>3, <2>1, <2>3, PushResultType
<1>4. CASE \/ PushResult(s, Obj(0), pending) /\ UNCHANGED <<exception, out>>
           \/ out' = out \o args /\ PushResult(s, None, pending) /\ UNCHANGED exception
  <2>1. PICK v \in {Obj(0), None} : PushResult(s, v, pending)
    BY <1>4
  <2>2. v \in Value
    BY Constants
  <2>3. StackOK(stack') /\ last_error' \in ErrorCodes \union {"OK"}
    BY <2>1, <2>2, PushResultType
  <2>4. out \o args \in Seq(Value)
    BY <1>1, ConcatProperties
  <2> QED
    BY <1>4, <2>3, <2>4
<1>5. CASE Fail(s, "RAISED") /\ exception' = Exc("KeyError") /\ UNCHANGED out
  BY <1>5, NamedTypes DEF Fail
<1>6. CASE callable.kind \in ErrorCodes /\ Fail(s, callable.kind) /\ UNCHANGED <<exception, out>>
  BY <1>6 DEF Fail
<1>7. CASE (Fail(s, "OK") \/ Fail(s, "TYPE")) /\ UNCHANGED <<exception, out>>
  BY <1>7 DEF Fail
<1> QED
  BY <1>3, <1>4, <1>5, <1>6, <1>7 DEF CallNative

\* vm_call_value.
LEMMA CallValueType ==
  ASSUME Inv, frames # << >>, NEW s, StackOK(s), NEW n \in Nat,
         NEW pending \in {"OK", "STACK"}, NEW ret \in Nat,
         NEW called \in Seq(NativeRecord), Nested(called, Len(frames)), AllWaiting(called),
         NEW failed \in Seq(NativeRecord), Nested(failed, Len(frames)),
         CallValue(s, n, pending, ret, called, failed), UNCHANGED <<module, status>>
  PROVE  /\ Registers' /\ FramesOK' /\ Len(frames') >= Len(frames) /\ out' \in Seq(Value)
         /\ natives' \in Seq(NativeRecord) /\ Nested(natives', Len(frames))
<1>1. Registers /\ FramesOK /\ out \in Seq(Value) /\ Len(frames) \in 0..MaxCallDepth
  BY Parts DEF Inv, TypeOK
<1>2. frames' = frames => FramesOK' /\ Len(frames') >= Len(frames)
  BY <1>1 DEF FramesOK, FrameBases
<1>3. CASE ~OwnOperands(s, n)
  BY <1>1, <1>2, <1>3, Codes DEF CallValue, Fail, Registers
<1>4. CASE OwnOperands(s, n)
  <2> DEFINE callable == s[Len(s) - n]
             args == SubSeq(s, Len(s) - n + 1, Len(s))
             rest == Take(s, Len(s) - n - 1)
  <2>1. s \in Seq(Value) /\ Len(s) \in 0..MaxStackDepth
    BY BoundsAssumption DEF StackOK
  <2>2. Cur.base \in Nat
    BY CurType, BoundsAssumption
  <2>3. Len(s) - n - 1 \in Nat /\ Len(s) - n - 1 >= Cur.base /\ Len(s) - n \in 1..Len(s)
    BY <1>4, <2>1, <2>2 DEF OwnOperands
  <2>4. callable \in Value
    BY <2>1, <2>3
  <2>5. args \in Seq(Value)
    BY <2>1, <2>3, SubSeqProperties
  <2>6. StackOK(rest) /\ Len(rest) >= Cur.base
    <3>1. Len(s) - n - 1 <= Len(s)
      BY <2>1, <2>3
    <3>2. rest \in Seq(Value) /\ Len(rest) = Len(s) - n - 1
      BY <2>1, <2>3, <3>1, TakeType
    <3> QED
      BY <2>1, <2>2, <2>3, <3>1, <3>2, BoundsAssumption DEF StackOK
  <2> HIDE DEF callable, args, rest
  <2>7. /\ IF callable.tag = "function"
           THEN CallUser(callable.index, args, rest, pending, ret)
           ELSE CallNative(callable, args, rest, pending, ret)
        /\ natives' = IF last_error' # "OK" THEN failed
                      ELSE IF CallsBack(callable, args, pending)
                      THEN Append(called, Activation(args[1], args[2].len, "call"))
                      ELSE called
    BY <1>4 DEF CallValue, callable, args, rest
  <2>8. Registers' /\ FramesOK' /\ Len(frames') >= Len(frames) /\ out' \in Seq(Value)
    <3>1. CASE callable.tag = "function"
      BY <1>1, <2>5, <2>6, <2>7, <3>1, CallUserType
    <3>2. CASE callable.tag # "function"
      BY <1>2, <2>4, <2>5, <2>6, <2>7, <3>2, CallNativeType
    <3> QED
      BY <3>1, <3>2
  <2>9. CallsBack(callable, args, pending) =>
          /\ Activation(args[1], args[2].len, "call") \in NativeRecord
          /\ ~Activation(args[1], args[2].len, "call").waiting
    <3>1. SUFFICES ASSUME CallsBack(callable, args, pending)
                   PROVE  /\ Activation(args[1], args[2].len, "call") \in NativeRecord
                          /\ ~Activation(args[1], args[2].len, "call").waiting
      OBVIOUS
    <3>2. args[1] \in Value /\ args[2] \in Value /\ args[2].tag = "range"
      <4>1. Len(args) = 2 /\ args[2].tag = "range"
        BY <3>1 DEF CallsBack
      <4>2. 1 \in 1..Len(args) /\ 2 \in 1..Len(args)
        BY <4>1
      <4> QED
        BY <2>5, <4>1, <4>2, ElementOfSeq
    <3>3. args[2].len \in Nat
      BY <3>2, ValueFields
    <3> QED
      BY <1>1, <3>2, <3>3 DEF Activation, NativeRecord
  <2>10. natives' \in Seq(NativeRecord) /\ Nested(natives', Len(frames))
    BY <1>1, <2>7, <2>9, NestedAppend
  <2> QED
    BY <2>8, <2>10
<1> QED
  BY <1>3, <1>4

\* CALL, and a callback through vm_call_sync.
LEMMA CallStep ==
  ASSUME Inv, Call \/ NativeStep
  PROVE  Inv'
<1>1. /\ Registers /\ FramesOK /\ natives \in Seq(NativeRecord) /\ Nested(natives, Len(frames))
      /\ Len(frames) \in 0..MaxCallDepth /\ StackOK(stack) /\ ip \in Nat
  BY Parts DEF Registers
<1>2. frames # << >>
  BY DEF Inv, TypeOK, Call, At, LoopRuns, NativeStep, NativeRuns
<1>3. CASE Call
  <2>1. AllWaiting(natives)
    BY <1>3, RunningNatives DEF Call, At
  <2>2. Instr.n \in Nat
    BY <1>1, <1>3, ModuleFacts DEF Call, At, Inv, Instruction
  <2>3. /\ CallValue(stack, Instr.n, "OK", ip + 1, natives, natives)
        /\ UNCHANGED <<module, iterators, status>> /\ ip + 1 \in Nat
    BY <1>1, <1>3 DEF Call
  <2>4. /\ Registers' /\ FramesOK' /\ Len(frames') >= Len(frames) /\ out' \in Seq(Value)
        /\ natives' \in Seq(NativeRecord) /\ Nested(natives', Len(frames))
    BY <1>1, <1>2, <2>1, <2>2, <2>3, CallValueType
  <2>5. Nested(natives', Len(frames'))
    <3>1. Len(frames') \in Nat /\ Len(frames) \in Nat
      BY <1>1, <2>4 DEF FramesOK
    <3> QED
      BY <2>4, <3>1, NestedMore
  <2> QED
    BY <2>3, <2>4, <2>5, Assemble DEF Inv, TypeOK
<1>4. CASE NativeStep
  <2> DEFINE act == Last(natives)
             s1  == Pushed(stack, act.callback)
             e   == IF PushError(stack) = "OK" THEN PushError(s1) ELSE "STACK"
             new == [act EXCEPT !.waiting = TRUE, !.saved = Len(frames), !.ip = ip, !.left = @ - 1]
             called == [natives EXCEPT ![Len(natives)] = new]
  <2>1. natives # << >> /\ act \in NativeRecord /\ act.left > 0
    BY <1>1, <1>4, FrontLast DEF NativeStep, NativeRuns
  <2>2. StackOK(s1) /\ StackOK(Pushed(s1, Obj(0))) /\ e \in {"OK", "STACK"}
    BY <1>1, <2>1, PushedType, Constants DEF StackOK, NativeRecord, PushError
  <2>3. new \in NativeRecord /\ new.waiting /\ new.saved = Len(frames)
    <3>1. act.left \in Nat /\ act.left - 1 \in Nat
      BY <2>1 DEF NativeRecord
    <3> QED
      BY <1>1, <2>1, <3>1 DEF NativeRecord
  <2>4. Len(frames) >= 1
    BY <1>1, <1>2, FrontLast DEF FramesOK
  <2> HIDE DEF new, e
  <2>5. called \in Seq(NativeRecord) /\ Nested(called, Len(frames)) /\ AllWaiting(called)
    BY <1>1, <2>1, <2>3, <2>4, NestedReplace
  <2>6. Front(natives) \in Seq(NativeRecord) /\ Nested(Front(natives), Len(frames))
    BY <1>1, <2>1, NestedFront
  <2>7. CallValue(Pushed(s1, Obj(0)), 1, e, ip, called, Front(natives))
    BY <1>4 DEF NativeStep, e, new
  <2>8. UNCHANGED <<module, iterators, status>>
    BY <1>4 DEF NativeStep
  <2> HIDE DEF called, s1
  <2>9. /\ Registers' /\ FramesOK' /\ Len(frames') >= Len(frames) /\ out' \in Seq(Value)
        /\ natives' \in Seq(NativeRecord) /\ Nested(natives', Len(frames))
    BY <1>1, <1>2, <2>2, <2>5, <2>6, <2>7, <2>8, CallValueType
  <2>10. Nested(natives', Len(frames'))
    <3>1. Len(frames') \in Nat /\ Len(frames) \in Nat
      BY <1>1, <2>9 DEF FramesOK
    <3> QED
      BY <2>9, <3>1, NestedMore
  <2> QED
    BY <2>8, <2>9, <2>10, Assemble DEF Inv, TypeOK
<1> QED
  BY <1>3, <1>4

\* A chain cut no lower than the frame the innermost activation waits for.
LEMMA NestedCut ==
  ASSUME NEW ns \in Seq(NativeRecord), NEW d \in Nat, Nested(ns, d), NEW e \in Nat,
         ns # << >> => Last(ns).waiting /\ Last(ns).saved <= e
  PROVE  Nested(ns, e)
<1>1. CASE ns = << >>
  BY <1>1 DEF Nested
<1>2. CASE ns # << >>
  <2>1. Len(ns) \in Nat /\ Len(ns) >= 1 /\ Last(ns) = ns[Len(ns)]
    BY <1>2, FrontLast
  <2>2. \A i \in 1..Len(ns) :
          /\ ns[i].waiting /\ ns[Len(ns)].waiting
          /\ ns[i].saved \in 1..d /\ ns[Len(ns)].saved \in 1..d
          /\ ns[i].saved <= ns[Len(ns)].saved
    BY <1>2, <2>1 DEF Nested
  <2>3. \A i \in 1..Len(ns) : ns[i].saved \in 1..e
    BY <1>2, <2>1, <2>2
  <2> QED
    BY <2>1, <2>3 DEF Nested
<1> QED
  BY <1>1, <1>2

\* The frame chain cut to its first k frames.
LEMMA FramesCut ==
  ASSUME Inv, NEW k \in 0..Len(frames), frames' = SubSeq(frames, 1, k), module' = module,
         status' = "running" => k >= 1
  PROVE  FramesOK' /\ Len(frames') = k
<1>1. frames \in Seq(FrameRecord) /\ Len(frames) \in 0..MaxCallDepth
  BY Parts DEF FramesOK
<1>2. /\ frames' \in Seq(FrameRecord) /\ Len(frames') = k
      /\ \A i \in 1..k : frames'[i] = frames[i]
  BY <1>1, Prefix
<1>3. \A i \in 1..k : i \in 1..Len(frames)
  BY <1>1
<1>4. Len(frames') <= MaxCallDepth
  BY <1>1, <1>2, BoundsAssumption
<1>5. \A i \in 1..Len(frames') : frames'[i].func \in 1..Len(module'.functions)
  BY <1>2, <1>3 DEF Inv, TypeOK
<1>6. FrameBases'
  <2>1. \A i, j \in 1..k : i <= j => frames[i].base <= frames[j].base
    BY <1>3 DEF Inv, FrameBases
  <2> QED
    BY <1>2, <2>1 DEF FrameBases
<1>7. status' = "running" => frames' # << >>
  <2>1. k >= 1 => frames' # << >>
    BY <1>1, <1>2, EmptySeq
  <2> QED
    BY <2>1
<1> QED
  BY <1>2, <1>4, <1>5, <1>6, <1>7 DEF FramesOK

\* RETURN: a nested loop never returns past the frame it waits for.
LEMMA ReturnStep ==
  ASSUME Inv, Return
  PROVE  Inv'
<1> USE DEF Fail
<1>1. /\ Registers /\ StackOK(stack) /\ stack \in Seq(Value) /\ Len(stack) \in Nat /\ ip \in Nat
      /\ natives \in Seq(NativeRecord) /\ Nested(natives, Len(frames)) /\ frames \in Seq(FrameRecord)
  BY Parts DEF Registers, StackOK, FramesOK
<1>2. LoopRuns
  BY DEF Return, At
<1>3. /\ Cur \in FrameRecord /\ Len(frames) \in Nat /\ Len(frames) >= 1
      /\ Cur.base \in Nat /\ Cur.return_ip \in Nat /\ StopDepth \in 0..(Len(frames) - 1)
  BY <1>2, RunningFrame, BoundsAssumption DEF FrameRecord
<1> DEFINE rest == Take(stack, Cur.base)
           retval == IF Len(stack) > Cur.base THEN Last(stack) ELSE None
<1>4. StackOK(rest)
  <2>1. rest \in Seq(Value) /\ Len(rest) <= Len(stack)
    BY <1>1, <1>3, TakeType
  <2> QED
    BY <1>1, <2>1, BoundsAssumption DEF StackOK
<1>5. retval \in Value
  <2>1. CASE Len(stack) > Cur.base
    <3>1. stack # << >>
      BY <1>1, <1>3, <2>1, EmptySeq
    <3> QED
      BY <1>1, <2>1, <3>1, FrontOK
  <2>2. CASE ~(Len(stack) > Cur.base)
    BY <2>2, Constants
  <2> QED
    BY <2>1, <2>2
<1> HIDE DEF rest, retval
<1>6. /\ IF Len(frames) > 1
         THEN ip' = Cur.return_ip /\ PushOn(rest, retval) /\ status' = "running"
         ELSE Next1 /\ Fail(rest, "OK") /\ status' = "halted"
      /\ frames' = Front(frames) /\ exception' = Null
      /\ UNCHANGED <<module, iterators, natives, out>>
  BY DEF Return, rest, retval
<1>7. Registers'
  BY <1>1, <1>3, <1>4, <1>5, <1>6, PushOnType, Codes DEF Registers, Next1
<1>8. FramesOK' /\ Len(frames') = Len(frames) - 1
  <2>1. frames' = SubSeq(frames, 1, Len(frames) - 1) /\ Len(frames) - 1 \in 0..Len(frames)
    BY <1>3, <1>6 DEF Front
  <2>2. status' = "running" => Len(frames) - 1 >= 1
    BY <1>3, <1>6
  <2> QED
    BY <1>6, <2>1, <2>2, FramesCut
<1>9. Nested(natives', Len(frames'))
  <2>1. natives # << >> => Last(natives).waiting /\ Last(natives).saved <= Len(frames) - 1
    BY <1>2, <1>3 DEF LoopRuns, StopDepth
  <2>2. Len(frames) - 1 \in Nat
    BY <1>3
  <2> QED
    BY <1>1, <1>3, <1>6, <1>8, <2>1, <2>2, NestedCut
<1> QED
  BY <1>1, <1>6, <1>7, <1>8, <1>9, Assemble DEF Inv, TypeOK

\* GET_ITER, FOR_ITER, and the ends of a callback and of a native.
LEMMA IterationStep ==
  ASSUME Inv, GetIter \/ ForIter \/ CallbackDone \/ NativeReturn
  PROVE  Inv'
<1> USE Codes DEF Fail
<1>1. /\ Registers /\ StackOK(stack) /\ stack \in Seq(Value) /\ Len(stack) \in Nat /\ ip \in Nat
      /\ natives \in Seq(NativeRecord) /\ Nested(natives, Len(frames)) /\ FramesOK
      /\ iterators \in Seq([left: Nat, fn: Nat]) /\ Len(iterators) \in Nat
      /\ Len(frames) \in 0..MaxCallDepth /\ out \in Seq(Value) /\ module \in Modules
      /\ status \in {"running", "halted"}
      /\ exception \in Exceptions \union {Null}
  BY Parts DEF Registers, StackOK, Inv, TypeOK
<1>2. stack # << >> => StackOK(Front(stack)) /\ Last(stack) \in Value
  BY <1>1, FrontOK
<1>3. Next1 => ip' \in Nat
  BY <1>1 DEF Next1
<1>4. UNCHANGED <<module, frames, status>> => FramesOK'
  BY <1>1 DEF FramesOK, FrameBases
<1>5. CASE GetIter
  <2>1. UNCHANGED <<module, frames, exception, natives, out, status>> /\ ip' \in Nat
    BY <1>3, <1>5 DEF GetIter
  <2>2. CASE stack # << >> /\ Last(stack).tag \in {"range", "map"} /\ Len(iterators) < MaxIterators
    <3>0. /\ iterators' = Append(iterators,
                [left |-> Last(stack).len,
                 fn   |-> IF Last(stack).tag = "map" THEN Last(stack).fn ELSE 0])
          /\ PushOn(Front(stack), Iter(Len(iterators) + 1))
      BY <1>1, <1>5, <2>2, BoundsAssumption DEF GetIter
    <3>1. [left |-> Last(stack).len,
           fn   |-> IF Last(stack).tag = "map" THEN Last(stack).fn ELSE 0] \in [left: Nat, fn: Nat]
      BY <1>2, <2>2, ValueFields
    <3>2. iterators' \in Seq([left: Nat, fn: Nat])
      BY <1>1, <3>0, <3>1
    <3>3. Iter(Len(iterators) + 1) \in Value
      BY <1>1, Constants
    <3>4. Registers'
      BY <1>1, <1>2, <2>1, <2>2, <3>0, <3>3, PushOnType DEF Registers
    <3> QED
      BY <1>1, <1>4, <2>1, <3>2, <3>4, Assemble
  <2>3. CASE ~(stack # << >> /\ Last(stack).tag \in {"range", "map"} /\ Len(iterators) < MaxIterators)
    <3>1. Registers' /\ UNCHANGED iterators
      BY <1>1, <1>2, <1>5, <2>1, <2>3, BoundsAssumption, PushOnType DEF GetIter, Registers
    <3> QED
      BY <1>1, <1>4, <2>1, <3>1, Assemble
  <2> QED
    BY <2>2, <2>3
<1>6. CASE ForIter
  <2> DEFINE it == IF stack # << >> /\ Last(stack).tag = "iterator"
                      /\ Last(stack).iter \in 1..Len(iterators)
                   THEN Last(stack).iter ELSE 0
  <2>1. /\ UNCHANGED <<module, frames, exception, out, status>>
        /\ LoopRuns /\ InCode
    BY <1>6 DEF ForIter, At
  <2>2. Instr.n \in Nat
    BY <1>1, <2>1, ModuleFacts DEF Instruction
  <2>3. it # 0 => stack # << >> /\ it \in 1..Len(iterators) /\ iterators[it] \in [left: Nat, fn: Nat]
    <3>1. it # 0 => stack # << >> /\ it \in 1..Len(iterators)
      OBVIOUS
    <3> QED
      BY <1>1, <3>1, ElementOfSeq
  <2> HIDE DEF it
  <2>4. \/ /\ stack = << >>
           /\ Next1 /\ Fail(stack, "STACK") /\ UNCHANGED <<iterators, natives>>
        \/ /\ stack # << >> /\ it = 0
           /\ Next1 /\ Fail(Front(stack), "TYPE") /\ UNCHANGED <<iterators, natives>>
        \/ /\ it # 0 /\ iterators[it].left = 0
           /\ JumpTo(Instr.n) /\ stack' = Front(stack) /\ UNCHANGED <<iterators, natives>>
        \/ /\ it # 0 /\ iterators[it].left > 0
           /\ Next1
           /\ iterators' = [iterators EXCEPT ![it].left = @ - 1]
           /\ IF iterators[it].fn = 0
              THEN PushOn(Front(stack), Obj(0)) /\ UNCHANGED natives
              ELSE /\ Fail(Front(stack), "OK")
                   /\ natives' = Append(natives, Activation(Func(iterators[it].fn), 1, "iter"))
    BY <1>6 DEF ForIter, it
  <2>5. Registers'
    BY <1>1, <1>2, <1>3, <2>1, <2>2, <2>3, <2>4, PushOnType, JumpType, Constants DEF Registers
  <2>6. iterators' \in Seq([left: Nat, fn: Nat])
    <3>1. CASE UNCHANGED iterators
      BY <1>1, <3>1
    <3>2. CASE it # 0 /\ iterators[it].left > 0 /\ iterators' = [iterators EXCEPT ![it].left = @ - 1]
      <4> DEFINE r == [iterators[it] EXCEPT !.left = iterators[it].left - 1]
      <4>1. r \in [left: Nat, fn: Nat]
        BY <2>3, <3>2
      <4>2. iterators' = [iterators EXCEPT ![it] = r]
        BY <3>2
      <4> QED
        BY <1>1, <2>3, <3>2, <4>1, <4>2, ExceptSeq
    <3> QED
      BY <2>4, <3>1, <3>2
  <2>7. natives' \in Seq(NativeRecord) /\ Nested(natives', Len(frames'))
    <3>1. CASE UNCHANGED natives
      BY <1>1, <2>1, <3>1
    <3>2. CASE it # 0 /\ natives' = Append(natives, Activation(Func(iterators[it].fn), 1, "iter"))
      <4>1. AllWaiting(natives)
        BY <2>1, RunningNatives
      <4>2. /\ Activation(Func(iterators[it].fn), 1, "iter") \in NativeRecord
            /\ ~Activation(Func(iterators[it].fn), 1, "iter").waiting
        BY <1>1, <2>3, <3>2, Constants DEF Activation, NativeRecord
      <4> QED
        BY <1>1, <2>1, <3>2, <4>1, <4>2, NestedAppend
    <3> QED
      BY <2>4, <3>1, <3>2
  <2> QED
    BY <1>1, <1>4, <2>1, <2>5, <2>6, <2>7, Assemble
<1>7. CASE CallbackDone
  <2>1. /\ natives # << >> /\ Last(natives) \in NativeRecord /\ Len(natives) \in Nat
        /\ Last(natives) = natives[Len(natives)] /\ Len(natives) >= 1
    BY <1>1, <1>7, FrontLast DEF CallbackDone
  <2>2. UNCHANGED <<module, frames, exception, iterators, out, status>> /\ ip' \in Nat
    BY <1>7, <2>1 DEF CallbackDone, NativeRecord
  <2>3. Registers'
    BY <1>1, <1>2, <1>7, <2>2 DEF CallbackDone, Registers
  <2>4. natives' \in Seq(NativeRecord) /\ Nested(natives', Len(frames'))
    <3>1. CASE natives' = Front(natives)
      BY <1>1, <2>1, <2>2, <3>1, NestedFront
    <3>2. CASE natives' = [natives EXCEPT ![Len(natives)].waiting = FALSE]
      <4> DEFINE act == [natives[Len(natives)] EXCEPT !.waiting = FALSE]
      <4>1. act \in NativeRecord /\ (act.waiting => act.saved = Len(frames))
        BY <2>1 DEF NativeRecord
      <4>2. natives' = [natives EXCEPT ![Len(natives)] = act]
        BY <3>2
      <4>3. Len(frames) >= 1
        <5>1. frames # << >>
          BY <1>7 DEF CallbackDone, Inv, TypeOK
        <5> QED
          BY <5>1, CurType
      <4> HIDE DEF act
      <4>4. /\ [natives EXCEPT ![Len(natives)] = act] \in Seq(NativeRecord)
            /\ Nested([natives EXCEPT ![Len(natives)] = act], Len(frames))
        <5>1. Len(frames) \in Nat
          BY <1>1
        <5> QED
          BY <1>1, <2>1, <4>1, <4>3, <5>1, NestedReplace
      <4> QED
        BY <2>2, <4>2, <4>4
    <3> QED
      BY <1>7, <3>1, <3>2 DEF CallbackDone
  <2> QED
    BY <1>1, <1>4, <2>2, <2>3, <2>4, Assemble
<1>8. CASE NativeReturn
  <2>1. natives # << >> /\ natives' = Front(natives) /\ PushOn(stack, Obj(0))
        /\ UNCHANGED <<module, frames, ip, exception, iterators, out, status>>
    BY <1>8 DEF NativeReturn, NativeRuns
  <2>2. Registers'
    BY <1>1, <2>1, PushOnType, Constants DEF Registers
  <2>3. natives' \in Seq(NativeRecord) /\ Nested(natives', Len(frames'))
    BY <1>1, <2>1, NestedFront
  <2> QED
    BY <1>1, <1>4, <2>1, <2>2, <2>3, Assemble
<1> QED
  BY <1>5, <1>6, <1>7, <1>8

\* What the unwinder pushes is an exception.
LEMMA CaughtType ==
  ASSUME Inv, Unwinding
  PROVE  Caught \in Exceptions /\ Caught # Null /\ Caught \in Value
<1>1. last_error \in ErrorCodes \union {"RAISED"} /\ exception \in Exceptions \union {Null}
  BY DEF Inv, TypeOK, Unwinding
<1>2. Caught \in Exceptions
  <2>1. CASE last_error # "RAISED" /\ exception = Null
    BY <1>1, <2>1, Codes DEF Caught
  <2>2. CASE last_error = "RAISED" \/ exception # Null
    BY <1>1, <2>2 DEF Caught, Inv, RaisedHasException
  <2> QED
    BY <2>1, <2>2
<1> QED
  BY <1>2, Constants, ValueNotNull

\* The unwinder runs above the frame the innermost vm_call_sync saved.
LEMMA UnwindingDepth ==
  ASSUME Inv, Unwinding
  PROVE  /\ Len(frames) \in 1..MaxCallDepth /\ StopDepth \in 0..(Len(frames) - 1)
         /\ natives # << >> => StopDepth >= 1 /\ StopDepth = Last(natives).saved /\ Last(natives).waiting
<1>1. frames # << >> /\ natives \in Seq(NativeRecord)
  BY DEF Inv, TypeOK, Unwinding
<1>2. Len(frames) \in 1..MaxCallDepth
  BY <1>1, CurType, Parts
<1>3. CASE natives = << >>
  BY <1>2, <1>3 DEF StopDepth
<1>4. CASE natives # << >>
  <2>1. Len(natives) \in Nat /\ Len(natives) >= 1 /\ Last(natives) = natives[Len(natives)]
    BY <1>1, <1>4, FrontLast
  <2>2. Last(natives).waiting /\ Len(frames) # StopDepth /\ StopDepth = Last(natives).saved
    BY <1>4 DEF Unwinding, StopDepth
  <2>3. Last(natives).saved \in 1..Len(frames)
    BY <2>1, <2>2 DEF Inv, NativeNesting
  <2> QED
    BY <1>2, <2>2, <2>3
<1> QED
  BY <1>2, <1>3, <1>4

\* The operand stack after frames were dropped.
LEMMA StackAtType ==
  ASSUME Inv, NEW i \in 1..Len(frames)
  PROVE  StackOK(StackAt(i))
<1>1. StackOK(stack) /\ stack \in Seq(Value) /\ Len(frames) \in Nat /\ frames \in Seq(FrameRecord)
  BY Parts DEF Registers, StackOK, FramesOK
<1>2. CASE i = Len(frames)
  BY <1>1, <1>2 DEF StackAt
<1>3. CASE i # Len(frames)
  <2>1. i + 1 \in 1..Len(frames)
    BY <1>1, <1>3
  <2> DEFINE base == frames[i + 1].base
  <2>2. base \in Nat
    <3>1. frames[i + 1] \in FrameRecord
      BY <1>1, <2>1, ElementOfSeq
    <3> QED
      BY <3>1, BoundsAssumption DEF FrameRecord
  <2>3. StackAt(i) = Take(stack, base)
    BY <1>3 DEF StackAt
  <2> HIDE DEF base
  <2>4. Take(stack, base) \in Seq(Value) /\ Len(Take(stack, base)) <= Len(stack)
    BY <1>1, <2>2, TakeType
  <2> QED
    BY <1>1, <2>3, <2>4, BoundsAssumption DEF StackOK
<1> QED
  BY <1>2, <1>3

\* vm_unwind_to.
LEMMA UnwindStep ==
  ASSUME Inv, UnwindToHandler \/ UnwindToNative \/ Uncaught
  PROVE  Inv'
<1>1. /\ Registers /\ FramesOK /\ natives \in Seq(NativeRecord) /\ Nested(natives, Len(frames))
      /\ Len(frames) \in 0..MaxCallDepth /\ iterators \in Seq([left: Nat, fn: Nat])
      /\ out \in Seq(Value) /\ module \in Modules /\ frames \in Seq(FrameRecord)
      /\ StackOK(stack) /\ ip \in Nat /\ last_error \in ErrorCodes \union {"OK", "RAISED"}
  BY Parts DEF Registers, FramesOK, Inv, TypeOK
<1>2. Unwinding
  BY DEF UnwindToHandler, UnwindToNative, Uncaught
<1>3. Caught \in Exceptions /\ Caught # Null /\ Caught \in Value
  BY <1>2, CaughtType
<1>4. /\ Len(frames) \in 1..MaxCallDepth /\ StopDepth \in 0..(Len(frames) - 1)
      /\ natives # << >> => StopDepth >= 1 /\ StopDepth = Last(natives).saved /\ Last(natives).waiting
  BY <1>2, UnwindingDepth
<1>5. exception' = Caught
  BY DEF UnwindToHandler, UnwindToNative, Uncaught
<1>6. CASE UnwindToHandler
  <2>1. PICK i \in 1..Len(frames) :
          /\ Guarded(i)
          /\ LET h == Last(frames[i].handlers)
             IN /\ stack' = Pushed(Take(StackAt(i), h.stack_top), Caught)
                /\ ip' = module.functions[frames[i].func].code_offset + h.target
                /\ frames' = [SubSeq(frames, 1, i) EXCEPT ![i] = HandlerTaken(@)]
    BY <1>6 DEF UnwindToHandler
  <2>2. /\ last_error' = "OK" /\ UNCHANGED <<module, iterators, natives, out, status>>
        /\ status = "running"
    BY <1>2, <1>6 DEF UnwindToHandler, Unwinding
  <2> DEFINE h == Last(frames[i].handlers)
             taken == HandlerTaken(frames[i])
  <2>3. frames[i] \in FrameRecord /\ frames[i].handlers # << >> /\ i \in (StopDepth + 1)..Len(frames)
    BY <1>1, <2>1, ElementOfSeq DEF Guarded
  <2>4. frames[i].handlers \in Seq(Handler)
    BY <2>3 DEF FrameRecord
  <2>5. h \in Handler /\ Front(frames[i].handlers) \in Seq(Handler)
    BY <2>3, <2>4, FrontLast
  <2>6. taken \in FrameRecord /\ taken.func = frames[i].func /\ taken.base = frames[i].base
    BY <2>3, <2>5 DEF HandlerTaken, FrameRecord
  <2> HIDE DEF taken
  <2>7. /\ frames' \in Seq(FrameRecord) /\ Len(frames') = i
        /\ \A j \in 1..i : frames'[j] = IF j = i THEN taken ELSE frames[j]
    <3> DEFINE kept == SubSeq(frames, 1, i)
    <3>1. i \in Nat /\ i >= 1 /\ i <= Len(frames)
      BY <1>1
    <3>2. kept \in Seq(FrameRecord) /\ Len(kept) = i /\ \A j \in 1..i : kept[j] = frames[j]
      BY <1>1, <3>1, Prefix
    <3>3. frames' = [kept EXCEPT ![i] = HandlerTaken(kept[i])]
      BY <2>1
    <3> HIDE DEF kept
    <3>4. kept[i] = frames[i] /\ i \in 1..Len(kept)
      BY <3>1, <3>2
    <3>5. frames' = [kept EXCEPT ![i] = taken]
      BY <3>3, <3>4 DEF taken
    <3> QED
      BY <2>6, <3>2, <3>4, <3>5, ExceptSeq
  <2>8. \A j \in 1..i : /\ j \in 1..Len(frames) /\ frames'[j].func = frames[j].func
                        /\ frames'[j].base = frames[j].base
    BY <1>1, <2>6, <2>7
  <2>9. FramesOK'
    <3>1. Len(frames') <= MaxCallDepth
      BY <1>1, <2>7, BoundsAssumption
    <3>2. \A j \in 1..Len(frames') : frames'[j].func \in 1..Len(module'.functions)
      BY <2>2, <2>7, <2>8 DEF Inv, TypeOK
    <3>3. FrameBases'
      <4>1. \A j, k \in 1..i : j <= k => frames[j].base <= frames[k].base
        BY <2>8 DEF Inv, FrameBases
      <4> QED
        BY <2>7, <2>8, <4>1 DEF FrameBases
    <3>4. frames' # << >>
      BY <2>7, EmptySeq
    <3> QED
      BY <2>7, <3>1, <3>2, <3>3, <3>4 DEF FramesOK
  <2>10. Registers'
    <3>1. StackOK(StackAt(i))
      BY StackAtType
    <3>2. h.stack_top \in Nat /\ h.target \in Nat
      BY <2>5, BoundsAssumption DEF Handler
    <3>3. StackOK(Take(StackAt(i), h.stack_top))
      <4>1. StackAt(i) \in Seq(Value) /\ Len(StackAt(i)) \in Nat /\ Len(StackAt(i)) <= MaxStackDepth
        BY <3>1 DEF StackOK
      <4>2. /\ Take(StackAt(i), h.stack_top) \in Seq(Value)
            /\ Len(Take(StackAt(i), h.stack_top)) <= Len(StackAt(i))
        BY <3>2, <4>1, TakeType
      <4> QED
        BY <4>1, <4>2, BoundsAssumption DEF StackOK
    <3>4. StackOK(stack')
      BY <1>3, <2>1, <3>3, PushedType DEF StackOK
    <3>5. module.functions[frames[i].func].code_offset \in Nat
      <4>1. module.functions[frames[i].func] \in Function
        BY <1>1, ModuleFacts, ElementOfSeq DEF Inv, TypeOK
      <4> QED
        BY <4>1 DEF Function
    <3>6. ip' \in Nat
      BY <2>1, <3>2, <3>5
    <3> QED
      BY <1>3, <1>5, <2>2, <3>4, <3>6 DEF Registers
  <2>11. Nested(natives', Len(frames'))
    <3>1. Len(frames) \in Nat /\ Len(frames') \in Nat
      BY <1>1, <2>7
    <3>2. natives # << >> => Last(natives).waiting /\ Last(natives).saved <= Len(frames')
      BY <1>4, <2>3, <2>7
    <3> QED
      BY <1>1, <2>2, <3>1, <3>2, NestedCut
  <2> QED
    BY <1>1, <2>2, <2>9, <2>10, <2>11, Assemble
<1>7. CASE UnwindToNative
  <2>1. /\ natives # << >> /\ stack' = StackAt(StopDepth) /\ frames' = SubSeq(frames, 1, StopDepth)
        /\ ip' = Last(natives).ip /\ natives' = Front(natives)
        /\ UNCHANGED <<module, last_error, iterators, out, status>>
    BY <1>7 DEF UnwindToNative
  <2>2. StopDepth \in 1..Len(frames) /\ Last(natives) \in NativeRecord
    BY <1>1, <1>4, <2>1, FrontLast
  <2>3. Registers'
    <3>1. StackOK(stack')
      BY <2>1, <2>2, StackAtType
    <3>2. ip' \in Nat
      BY <2>1, <2>2 DEF NativeRecord
    <3> QED
      BY <1>1, <1>3, <1>5, <2>1, <3>1, <3>2 DEF Registers
  <2>4. FramesOK' /\ Len(frames') = StopDepth
    BY <2>1, <2>2, FramesCut
  <2>5. natives' \in Seq(NativeRecord) /\ Nested(natives', Len(frames'))
    <3>1. Len(frames) \in Nat
      BY <1>1
    <3> QED
      BY <1>1, <1>4, <2>1, <2>4, <3>1, NestedFront
  <2> QED
    BY <1>1, <2>1, <2>3, <2>4, <2>5, Assemble DEF Inv, TypeOK
<1>8. CASE Uncaught
  <2>1. UNCHANGED <<module, stack, frames, ip, last_error, iterators, natives, out>>
        /\ status' = "halted"
    BY <1>8 DEF Uncaught
  <2>2. Registers'
    BY <1>1, <1>3, <1>5, <2>1 DEF Registers
  <2>3. FramesOK'
    BY <1>1, <2>1 DEF FramesOK, FrameBases
  <2> QED
    BY <1>1, <2>1, <2>2, <2>3, Assemble
<1> QED
  BY <1>6, <1>7, <1>8

\* vm_prepare establishes Inv.
LEMMA InitInv == Init => Inv
<1>1. SUFFICES ASSUME Init PROVE Inv
  OBVIOUS
<1>2. /\ module \in Modules /\ module.functions \in Seq(Function)
      /\ module.entry \in 1..Len(module.functions)
  BY <1>1, ModulesAssumption DEF Init
<1>3. module.functions[module.entry] \in Function /\ module.entry \in Nat
  BY <1>2, ElementOfSeq
<1>4. /\ module.functions[module.entry].code_offset \in Nat
      /\ module.functions[module.entry].locals_count \in Nat
  BY <1>3 DEF Function
<1> DEFINE frame == NewFrame(module.entry, 0, 0, << >>)
<1>5. frame \in FrameRecord /\ frame.func = module.entry
  <2>1. [i \in 1..module.functions[module.entry].locals_count |->
           IF i \in DOMAIN << >> THEN << >>[i] ELSE Null] \in Seq(Value \union {Null})
    BY <1>4
  <2> QED
    BY <1>3, <2>1, BoundsAssumption DEF NewFrame, FrameRecord
<1> HIDE DEF frame
<1>6. frames = <<frame>>
  BY <1>1 DEF Init, frame
<1>7. /\ frames \in Seq(FrameRecord) /\ Len(frames) = 1 /\ frames[1] = frame
  BY <1>5, <1>6
<1>8. TypeOK
  <2>1. frames # << >> /\ Len(frames) <= MaxCallDepth
    BY <1>6, <1>7, BoundsAssumption
  <2>2. \A i \in 1..Len(frames) : frames[i].func \in 1..Len(module.functions)
    BY <1>2, <1>5, <1>7
  <2> QED
    BY <1>1, <1>4, <1>7, <2>1, <2>2, BoundsAssumption DEF Init, TypeOK
<1>9. RaisedHasException /\ NativeNesting
  BY <1>1 DEF Init, RaisedHasException, NativeNesting
<1>10. FrameBases
  <2>1. \A i, j \in 1..Len(frames) : frames[i].base = frame.base /\ frames[j].base = frame.base
    BY <1>7
  <2>2. frame.base \in Nat
    BY <1>5, BoundsAssumption DEF FrameRecord
  <2> QED
    BY <2>1, <2>2 DEF FrameBases
<1> QED
  BY <1>2, <1>8, <1>9, <1>10 DEF Inv

\* Every step preserves Inv.
LEMMA StepInv == Inv /\ [Next]_vars => Inv'
<1>1. SUFFICES ASSUME Inv, [Next]_vars PROVE Inv'
  OBVIOUS
<1>2. CASE UNCHANGED vars
  BY <1>1, <1>2
     DEF vars, Inv, TypeOK, RaisedHasException, NativeNesting, FrameBases
<1>3. CASE Step
  BY <1>1, <1>3, OperandStep, FrameUpdateStep, CallStep, ReturnStep, IterationStep, UnwindStep DEF Step
<1>4. CASE Halted
  BY <1>2, <1>4 DEF Halted
<1> QED
  BY <1>1, <1>2, <1>3, <1>4 DEF Next

\* The inductive invariant holds in every reachable state, of any module, under
\* any limits.
THEOREM Invariance == Spec => []Inv
  BY InitInv, StepInv, PTL DEF Spec

\* Types and limits: no instruction, call, callback or unwinding takes the
\* operand stack past MAX_STACK_DEPTH or the frame chain past MAX_CALL_DEPTH.
THEOREM TypeCorrect == Spec => []TypeOK
  BY Invariance, PTL DEF Inv

\* vm_unwind_to never finds RAISED without an exception to push.
THEOREM RaisedIsSet == Spec => []RaisedHasException
  BY Invariance, PTL DEF Inv

\* The frames' operand regions stay in call order.
THEOREM BasesOrdered == Spec => []FrameBases
  BY Invariance, PTL DEF Inv

\* Nested runs of vm_call_sync end in the reverse of the order they began in,
\* and the frame each waits for is never dropped.
THEOREM NativesNest == Spec => []NativeNesting
  BY Invariance, PTL DEF Inv
-----------------------------------------------------------------------------
(***************************************************************************)
(* What a callback may change: nothing below the frame vm_call_sync saved. *)
(***************************************************************************)
\* The first k frames survive the step unchanged.
Kept(k) == \A d \in 1..k : d <= Len(frames') /\ frames'[d] = frames[d]

\* The action CallbacksConfined allows.
Confined ==
  \A i \in 1..Len(natives) : natives[i].waiting => Kept(natives[i].saved)

\* What an activation waits for is on the chain, and no deeper one runs.
LEMMA WaitingDepth ==
  ASSUME Inv, NEW i \in 1..Len(natives), natives[i].waiting
  PROVE  /\ natives[i].saved \in 1..Len(frames)
         /\ LoopRuns \/ Unwinding => natives[i].saved <= StopDepth
<1>1. /\ natives \in Seq(NativeRecord) /\ Nested(natives, Len(frames))
      /\ Len(natives) \in Nat /\ natives # << >>
  BY Parts, EmptySeq
<1>2. natives[i].saved \in 1..Len(frames)
  BY <1>1 DEF Nested
<1>3. ASSUME LoopRuns \/ Unwinding PROVE natives[i].saved <= StopDepth
  <2>1. Last(natives).waiting /\ StopDepth = Last(natives).saved /\ Last(natives) = natives[Len(natives)]
    BY <1>1, <1>3, FrontLast DEF LoopRuns, Unwinding, StopDepth
  <2>2. Len(natives) \in i..Len(natives)
    BY <1>1
  <2> QED
    BY <1>1, <2>1, <2>2 DEF Nested
<1> QED
  BY <1>2, <1>3

\* Keeping the chain, or its part below the running loop, is enough.
LEMMA KeptIsConfined ==
  ASSUME Inv, \/ Kept(Len(frames))
              \/ (LoopRuns \/ Unwinding) /\ StopDepth \in Nat /\ Kept(StopDepth)
  PROVE  Confined
<1>1. SUFFICES ASSUME NEW i \in 1..Len(natives), natives[i].waiting,
                      NEW d \in 1..natives[i].saved
               PROVE  d <= Len(frames') /\ frames'[d] = frames[d]
  BY DEF Confined, Kept
<1>2. Len(frames) \in Nat
  BY Parts
<1>3. CASE Kept(Len(frames))
  <2>1. d \in 1..Len(frames)
    BY <1>1, <1>2, WaitingDepth
  <2> QED
    BY <1>3, <2>1 DEF Kept
<1>4. CASE (LoopRuns \/ Unwinding) /\ StopDepth \in Nat /\ Kept(StopDepth)
  <2>1. d \in 1..StopDepth
    BY <1>1, <1>2, <1>4, WaitingDepth
  <2> QED
    BY <1>4, <2>1 DEF Kept
<1> QED
  BY <1>3, <1>4

\* An unchanged chain is kept.
LEMMA SameFrames ==
  ASSUME Inv, UNCHANGED frames
  PROVE  Kept(Len(frames))
  BY Parts DEF Kept

\* A call keeps the chain it extends.
LEMMA CallKeeps ==
  ASSUME Inv, Call \/ NativeStep
  PROVE  Kept(Len(frames))
<1>1. frames \in Seq(FrameRecord) /\ Len(frames) \in Nat
  BY Parts DEF FramesOK
<1>2. ASSUME NEW f, NEW args, NEW s, NEW pending, NEW ret, CallUser(f, args, s, pending, ret)
      PROVE  frames' = frames \/ \E new : frames' = Append(frames, new)
  BY <1>2 DEF CallUser
<1>3. ASSUME NEW s, NEW n, NEW pending, NEW ret, NEW called, NEW failed,
             CallValue(s, n, pending, ret, called, failed)
      PROVE  frames' = frames \/ \E new : frames' = Append(frames, new)
  BY <1>2, <1>3 DEF CallValue, CallNative
<1>4. frames' = frames \/ \E new : frames' = Append(frames, new)
  BY <1>3 DEF Call, NativeStep
<1>5. CASE frames' = frames
  BY <1>5, SameFrames
<1>6. CASE \E new : frames' = Append(frames, new)
  <2>1. PICK new : frames' = Append(frames, new)
    BY <1>6
  <2>2. Len(frames') = Len(frames) + 1 /\ \A d \in 1..Len(frames) : frames'[d] = frames[d]
    BY <1>1, <2>1
  <2> QED
    BY <1>1, <2>2 DEF Kept
<1> QED
  BY <1>4, <1>5, <1>6

\* Replacing the running frame keeps those below.
LEMMA TopFrameKeeps ==
  ASSUME Inv, LoopRuns, NEW f, frames' = SetCur(f)
  PROVE  Kept(StopDepth)
<1>1. frames \in Seq(FrameRecord) /\ Len(frames) \in Nat /\ StopDepth \in 0..(Len(frames) - 1)
  BY Parts, RunningFrame DEF FramesOK
<1>2. Len(frames') = Len(frames) /\ \A d \in 1..(Len(frames) - 1) : frames'[d] = frames[d]
  BY <1>1 DEF SetCur
<1> QED
  BY <1>1, <1>2 DEF Kept

\* Every step is confined.
LEMMA StepConfined ==
  ASSUME Inv, Step
  PROVE  Confined
<1>1. frames \in Seq(FrameRecord) /\ Len(frames) \in Nat
  BY Parts DEF FramesOK
<1>2. LoopRuns \/ Unwinding => StopDepth \in 0..(Len(frames) - 1) /\ StopDepth \in Nat
  BY <1>1, RunningFrame, UnwindingDepth
<1>3. CASE UNCHANGED frames
  BY <1>3, SameFrames, KeptIsConfined
<1>4. CASE Call \/ NativeStep
  BY <1>4, CallKeeps, KeptIsConfined
<1>5. CASE StoreFast \/ SetupHandler \/ PopHandler
  <2>1. LoopRuns
    BY <1>5 DEF StoreFast, SetupHandler, PopHandler, At
  <2>2. UNCHANGED frames \/ \E f : frames' = SetCur(f)
    BY <1>5 DEF StoreFast, SetupHandler, PopHandler
  <2> QED
    BY <1>2, <1>3, <2>1, <2>2, TopFrameKeeps, KeptIsConfined
<1>6. CASE Return
  <2>1. LoopRuns /\ frames' = Front(frames)
    BY <1>6 DEF Return, At
  <2>2. frames # << >>
    BY <2>1 DEF LoopRuns, Inv, TypeOK
  <2>3. Len(frames') = Len(frames) - 1 /\ \A d \in 1..(Len(frames) - 1) : frames'[d] = frames[d]
    BY <1>1, <2>1, <2>2, FrontLast
  <2>4. Kept(StopDepth)
    BY <1>1, <1>2, <2>1, <2>3 DEF Kept
  <2> QED
    BY <1>2, <2>1, <2>4, KeptIsConfined
<1>7. CASE UnwindToHandler
  <2>1. PICK i \in 1..Len(frames) :
          Guarded(i) /\ frames' = [SubSeq(frames, 1, i) EXCEPT ![i] = HandlerTaken(@)]
    BY <1>7 DEF UnwindToHandler
  <2>2. i \in Nat /\ i <= Len(frames) /\ StopDepth \in Nat /\ StopDepth < i /\ Unwinding
    BY <1>1, <1>2, <1>7, <2>1 DEF Guarded, UnwindToHandler
  <2> DEFINE kept == SubSeq(frames, 1, i)
  <2>3. kept \in Seq(FrameRecord) /\ Len(kept) = i /\ \A d \in 1..i : kept[d] = frames[d]
    BY <1>1, <2>2, Prefix
  <2> HIDE DEF kept
  <2>4. frames' = [kept EXCEPT ![i] = HandlerTaken(@)]
    BY <2>1 DEF kept
  <2>5. Len(frames') = i /\ \A d \in 1..i : d # i => frames'[d] = kept[d]
    BY <2>2, <2>3, <2>4
  <2>6. Kept(StopDepth)
    BY <2>2, <2>3, <2>5 DEF Kept
  <2> QED
    BY <2>2, <2>6, KeptIsConfined
<1>8. CASE UnwindToNative
  <2>1. Unwinding /\ frames' = SubSeq(frames, 1, StopDepth)
    BY <1>8 DEF UnwindToNative
  <2>2. StopDepth \in Nat /\ StopDepth <= Len(frames)
    BY <1>1, <1>2, <2>1
  <2>3. Kept(StopDepth)
    BY <1>1, <2>1, <2>2, Prefix DEF Kept
  <2> QED
    BY <2>1, <2>2, <2>3, KeptIsConfined
<1>9. UNCHANGED frames \/ Call \/ NativeStep \/ StoreFast \/ SetupHandler \/ PopHandler
        \/ Return \/ UnwindToHandler \/ UnwindToNative
  BY DEF Step, FetchPastEnd, Nop, LoadConst, LoadFast, PopTop, DupTop, NativeOp, Jump, JumpIfFalse,
         GetIter, ForIter, CallbackDone, NativeReturn, ExceptMatch, ExceptClear, Reraise,
         RaiseVarargs, Uncaught
<1> QED
  BY <1>3, <1>4, <1>5, <1>6, <1>7, <1>8, <1>9

\* Code run by a callback leaves the frames below it alone, whatever it does.
THEOREM Confinement == Spec => CallbacksConfined
<1>1. Inv /\ [Next]_vars => [Confined]_vars
  BY StepConfined DEF Next, Halted, vars
<1>2. [Confined]_vars <=>
        [\A i \in 1..Len(natives) :
           natives[i].waiting =>
             \A d \in 1..natives[i].saved : d <= Len(frames') /\ frames'[d] = frames[d]]_vars
  BY DEF Confined, Kept
<1> QED
  BY <1>1, <1>2, Invariance, PTL DEF Spec, CallbacksConfined
=============================================================================
