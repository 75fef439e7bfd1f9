--------------------------------- MODULE Vm ---------------------------------
(***************************************************************************)
(* The bytecode interpreter of vm_c/vm.c and vm_c/call.c: operand stack,   *)
(* call frames, handler tables, the current-exception register, the        *)
(* last_error register, the unwinder, and vm_call_sync, through which a    *)
(* native function or an iterator runs user code in a nested interpreter   *)
(* loop.                                                                   *)
(*                                                                         *)
(* The bytecode is a parameter: Modules is the set of the modules there    *)
(* are and the machine runs any one of them, so what is checked and proved *)
(* here holds whatever the compiler emits.  One instruction takes one unit *)
(* of code, and offsets count from 0 as vm->ip - vm->bytecode does.        *)
(*                                                                         *)
(* Abstractions.  A Value is a tag with what control flow looks at.        *)
(* Operators, container instructions and method calls are NATIVE_OP: they  *)
(* take n operands and push one result, or fail.  Allocation fails only    *)
(* for iterators (MaxIterators) and handler tables (MaxHandlers);          *)
(* reference counts are not kept here.                                     *)
(***************************************************************************)
EXTENDS Bytecode, Integers, SequencesExt

CONSTANTS
  MaxStackDepth,   \* MAX_STACK_DEPTH, 1024 in the code
  MaxCallDepth,    \* MAX_CALL_DEPTH, 256 in the code
  MaxIterators,    \* iterator objects the heap can hold
  MaxHandlers,     \* handlers of one frame the heap can hold
  Modules          \* the modules that may be loaded

ASSUME BoundsAssumption ==
  /\ MaxStackDepth \in Nat \ {0}
  /\ MaxCallDepth \in Nat \ {0}
  /\ MaxIterators \in Nat
  /\ MaxHandlers \in Nat

\* What the loader accepts: an entry function, and parameters that have slots.
ASSUME ModulesAssumption ==
  \A m \in Modules :
    /\ m.bytecode \in Seq(Instruction)
    /\ m.functions \in Seq(Function)
    /\ m.entry \in 1..Len(m.functions)
    /\ \A i \in 1..Len(m.functions) :
         m.functions[i].params_count <= m.functions[i].locals_count
-----------------------------------------------------------------------------
VARIABLES
  module,      \* the loaded module
  stack,       \* vm->stack[0 .. stack_top)
  frames,      \* the frame chain, vm->current_frame last
  ip,          \* vm->ip as an offset
  exception,   \* vm->exception, Null when unset
  last_error,  \* vm->last_error
  iterators,   \* iterator objects: items left, and the function of a map (0: none)
  natives,     \* C activations that call back, the innermost last
  out,         \* what print wrote
  status       \* "running", or "halted" once vm_run has left its loop

vars == <<module, stack, frames, ip, exception, last_error, iterators, natives, out, status>>

Take(s, n)  == SubSeq(s, 1, IF n < Len(s) THEN n ELSE Len(s))
Drop(s, n)  == SubSeq(s, 1, Len(s) - n)

Cur         == Last(frames)
CurFunction == module.functions[Cur.func]
SetCur(f)   == [frames EXCEPT ![Len(frames)] = f]

\* Definitions named Faulty... are mistakes a change of the code could make; no
\* action uses them.  The properties below are known to reject them.
FaultyPushed(s, v) == Append(s, v)

\* vm_push: a push beyond the limit leaves the stack alone and reports STACK.
Pushed(s, v)  == IF Len(s) < MaxStackDepth THEN Append(s, v) ELSE s
PushError(s)  == IF Len(s) < MaxStackDepth THEN "OK" ELSE "STACK"

PushOn(s, v)  == stack' = Pushed(s, v) /\ last_error' = PushError(s)
Fail(s, code) == stack' = s /\ last_error' = code

\* A frame as vm_prepare and vm_call_user make it: the arguments fill the
\* first slots, the other locals are unset, no handler is installed.
NewFrame(f, base, ret, args) ==
  [ func      |-> f,
    base      |-> base,
    return_ip |-> ret,
    handlers  |-> << >>,
    locals    |-> [i \in 1..module.functions[f].locals_count |->
                     IF i \in DOMAIN args THEN args[i] ELSE Null] ]

\* One C function that runs user code through vm_call_sync: a builtin with a
\* key callback ("call") or map_next on behalf of FOR_ITER ("iter").
Activation(callback, left, kind) ==
  [callback |-> callback, left |-> left, kind |-> kind,
   waiting |-> FALSE, saved |-> Len(frames), ip |-> 0]

Init ==
  /\ module \in Modules
  /\ stack = << >>
  /\ frames = <<NewFrame(module.entry, 0, 0, << >>)>>
  /\ ip = module.functions[module.entry].code_offset
  /\ exception = Null
  /\ last_error = "OK"
  /\ iterators = << >>
  /\ natives = << >>
  /\ out = << >>
  /\ status = "running"
-----------------------------------------------------------------------------
(***************************************************************************)
(* The interpreter loops.  Only the innermost one runs: vm_run when no C   *)
(* function is calling back, otherwise the loop of the innermost           *)
(* vm_call_sync, until the frame it saved is current again.                *)
(***************************************************************************)
StopDepth == IF natives = << >> THEN 0 ELSE Last(natives).saved

LoopRuns ==
  /\ status = "running"
  /\ natives # << >> => Last(natives).waiting /\ Len(frames) # StopDepth

InCode == ip < Len(module.bytecode)
Instr  == module.bytecode[ip + 1]

At(op) == LoopRuns /\ last_error = "OK" /\ InCode /\ Instr.op = op
Next1  == ip' = ip + 1

\* The loop ran past the end of the bytecode.
FetchPastEnd ==
  /\ LoopRuns /\ last_error = "OK" /\ ~InCode
  /\ last_error' = "BOUNDS"
  /\ UNCHANGED <<module, stack, frames, ip, exception, iterators, natives, out, status>>

Nop ==
  /\ At("NOP") /\ Next1
  /\ UNCHANGED <<module, stack, frames, exception, last_error, iterators, natives, out, status>>

\* LOAD_CONST, and LOAD_GLOBAL of a bound name.
LoadConst ==
  /\ At("LOAD_CONST") /\ Next1
  /\ PushOn(stack, Instr.v)
  /\ UNCHANGED <<module, frames, exception, iterators, natives, out, status>>

LoadFast ==
  /\ At("LOAD_FAST") /\ Next1
  /\ \/ /\ Instr.n >= Len(Cur.locals)
        /\ Fail(stack, "BOUNDS")
     \/ /\ Instr.n < Len(Cur.locals) /\ Cur.locals[Instr.n + 1] = Null
        /\ Fail(stack, "STACK")
     \/ /\ Instr.n < Len(Cur.locals) /\ Cur.locals[Instr.n + 1] # Null
        /\ PushOn(stack, Cur.locals[Instr.n + 1])
  /\ UNCHANGED <<module, frames, exception, iterators, natives, out, status>>

StoreFast ==
  /\ At("STORE_FAST") /\ Next1
  /\ \/ /\ Instr.n >= Len(Cur.locals)
        /\ Fail(stack, "BOUNDS") /\ UNCHANGED frames
     \/ /\ Instr.n < Len(Cur.locals) /\ stack = << >>
        /\ Fail(stack, "STACK") /\ UNCHANGED frames
     \/ /\ Instr.n < Len(Cur.locals) /\ stack # << >>
        /\ Fail(Front(stack), "OK")
        /\ frames' = SetCur([Cur EXCEPT !.locals[Instr.n + 1] = Last(stack)])
  /\ UNCHANGED <<module, exception, iterators, natives, out, status>>

PopTop ==
  /\ At("POP_TOP") /\ Next1
  /\ IF stack = << >> THEN Fail(stack, "STACK") ELSE Fail(Front(stack), "OK")
  /\ UNCHANGED <<module, frames, exception, iterators, natives, out, status>>

DupTop ==
  /\ At("DUP_TOP") /\ Next1
  /\ IF stack = << >> THEN Fail(stack, "STACK") ELSE PushOn(stack, Last(stack))
  /\ UNCHANGED <<module, frames, exception, iterators, natives, out, status>>

\* An operator, a container instruction or a method call: vm_pop takes the
\* operands one by one, so too few of them leave an empty stack.
NativeOp ==
  /\ At("NATIVE_OP") /\ Next1
  /\ \/ /\ Len(stack) < Instr.n
        /\ Fail(<< >>, "STACK") /\ UNCHANGED exception
     \/ /\ Len(stack) >= Instr.n /\ Instr.o = "value"
        /\ PushOn(Drop(stack, Instr.n), Obj(0)) /\ UNCHANGED exception
     \/ /\ Len(stack) >= Instr.n /\ Instr.o = "raise"
        /\ Fail(Drop(stack, Instr.n), "RAISED") /\ exception' = Exc("KeyError")
     \/ /\ Len(stack) >= Instr.n /\ Instr.o \in ErrorCodes
        /\ Fail(Drop(stack, Instr.n), Instr.o) /\ UNCHANGED exception
  /\ UNCHANGED <<module, frames, iterators, natives, out, status>>

\* vm_jump, with last_error OK before it: a target past the bytecode is BOUNDS.
JumpTo(target) ==
  LET absolute == CurFunction.code_offset + target
  IN IF absolute >= Len(module.bytecode)
     THEN Next1 /\ last_error' = "BOUNDS"
     ELSE ip' = absolute /\ last_error' = "OK"

Jump ==
  /\ At("JUMP") /\ JumpTo(Instr.n)
  /\ UNCHANGED <<module, stack, frames, exception, iterators, natives, out, status>>

JumpIfFalse ==
  /\ At("JUMP_IF_FALSE")
  /\ \/ /\ stack = << >>
        /\ Next1 /\ Fail(stack, "STACK")
     \/ /\ stack # << >> /\ Truthy(Last(stack))
        /\ Next1 /\ Fail(Front(stack), "OK")
     \/ /\ stack # << >> /\ ~Truthy(Last(stack))
        /\ JumpTo(Instr.n) /\ stack' = Front(stack)
  /\ UNCHANGED <<module, frames, exception, iterators, natives, out, status>>
-----------------------------------------------------------------------------
(***************************************************************************)
(* Calls.                                                                  *)
(***************************************************************************)
\* vm_call_user: depth check, positional arity, then the new frame.  An error
\* pending before the call stays pending.
CallUser(f, args, s, pending, ret) ==
  LET known == f \in 1..Len(module.functions)
      deep  == Len(frames) >= MaxCallDepth
      fits  == Len(args) = module.functions[f].params_count
  IN /\ stack' = s
     /\ \/ /\ known /\ ~deep /\ fits
           /\ frames' = Append(frames, NewFrame(f, Len(s), ret, args))
           /\ ip' = module.functions[f].code_offset
           /\ last_error' = pending
        \/ /\ known /\ ~deep /\ ~fits /\ last_error' = "TYPE"
           /\ frames' = frames /\ ip' = ret
        \/ /\ known /\ deep /\ last_error' = "RECURSION"
           /\ frames' = frames /\ ip' = ret
        \/ /\ ~known /\ last_error' = "FUNC_NOT_FOUND"
           /\ frames' = frames /\ ip' = ret
     /\ UNCHANGED <<exception, out>>

\* push_result: a native's value is dropped when an error is pending.
PushResult(s, v, pending) ==
  IF pending = "OK" THEN PushOn(s, v) ELSE Fail(s, pending)

\* Whether calling this enters a builtin that calls its first argument back
\* for each item of its second, as list(map(f, range(n))) does.
CallsBack(callable, args, pending) ==
  /\ callable = Native("apply") /\ pending = "OK"
  /\ Len(args) = 2 /\ args[2].tag = "range"

\* vm_invoke of anything but a user function.  A builtin entered while an
\* error is pending can only fail, so its callbacks are left out.
CallNative(callable, args, s, pending, ret) ==
  /\ frames' = frames /\ ip' = ret
  /\ \/ /\ callable.tag = "types" /\ \E t \in TypeNames : callable.names = {t}
        /\ \E t \in callable.names : PushResult(s, Exc(t), pending)
        /\ UNCHANGED <<exception, out>>
     \/ /\ callable = Native("value")
        /\ PushResult(s, Obj(0), pending)
        /\ UNCHANGED <<exception, out>>
     \/ /\ callable = Native("print")
        /\ out' = out \o args
        /\ PushResult(s, None, pending)
        /\ UNCHANGED exception
     \/ /\ callable = Native("raise")
        /\ Fail(s, "RAISED") /\ exception' = Exc("KeyError")
        /\ UNCHANGED out
     \/ /\ callable.tag = "native" /\ callable.kind \in ErrorCodes
        /\ Fail(s, callable.kind)
        /\ UNCHANGED <<exception, out>>
     \/ /\ CallsBack(callable, args, pending)
        /\ Fail(s, "OK")
        /\ UNCHANGED <<exception, out>>
     \/ /\ \/ callable = Native("apply") /\ ~CallsBack(callable, args, pending)
           \/ callable.tag = "types" /\ ~\E t \in TypeNames : callable.names = {t}
           \/ callable.tag \notin {"types", "native", "function"}
        /\ Fail(s, "TYPE")
        /\ UNCHANGED <<exception, out>>

\* The callable and its n arguments are operands of the running frame.
FaultyOwnOperands(s, n) == Len(s) > n
OwnOperands(s, n) == Len(s) - Cur.base > n

\* vm_call_value on operand stack s: the operands must belong to this frame;
\* callable and arguments leave the stack before the call.  called holds the
\* C activations once the call is under way, failed those left if it is not.
CallValue(s, n, pending, ret, called, failed) ==
  LET callable == s[Len(s) - n]
      args     == SubSeq(s, Len(s) - n + 1, Len(s))
      rest     == Take(s, Len(s) - n - 1)
  IN IF ~OwnOperands(s, n)
     THEN /\ Fail(s, "STACK") /\ ip' = ret /\ natives' = failed
          /\ UNCHANGED <<frames, exception, out>>
     ELSE /\ IF callable.tag = "function"
             THEN CallUser(callable.index, args, rest, pending, ret)
             ELSE CallNative(callable, args, rest, pending, ret)
          /\ natives' =
               IF last_error' # "OK" THEN failed
               ELSE IF CallsBack(callable, args, pending)
               THEN Append(called, Activation(args[1], args[2].len, "call"))
               ELSE called

\* OP_CALL.
Call ==
  /\ At("CALL")
  /\ CallValue(stack, Instr.n, "OK", ip + 1, natives, natives)
  /\ UNCHANGED <<module, iterators, status>>

\* op_return: the result is the top operand of this frame or None, the rest of
\* the frame's operands go, the current exception is cleared, and the caller
\* resumes with the result; the entry frame's return ends vm_run.
Return ==
  /\ At("RETURN")
  /\ LET rest == Take(stack, Cur.base)
         retval == IF Len(stack) > Cur.base THEN Last(stack) ELSE None
     IN IF Len(frames) > 1
        THEN ip' = Cur.return_ip /\ PushOn(rest, retval) /\ status' = "running"
        ELSE Next1 /\ Fail(rest, "OK") /\ status' = "halted"
  /\ frames' = Front(frames)
  /\ exception' = Null
  /\ UNCHANGED <<module, iterators, natives, out>>
-----------------------------------------------------------------------------
(***************************************************************************)
(* Iteration, and native code that calls back.                             *)
(***************************************************************************)
\* op_get_iter: an iterator is its own iterator; a range, and a map object
\* (which the model builds here), get a new one.
GetIter ==
  /\ At("GET_ITER") /\ Next1
  /\ \/ /\ stack = << >>
        /\ Fail(stack, "STACK") /\ UNCHANGED iterators
     \/ /\ stack # << >> /\ Last(stack).tag = "iterator"
        /\ PushOn(Front(stack), Last(stack)) /\ UNCHANGED iterators
     \/ /\ stack # << >> /\ Last(stack).tag \notin {"range", "map", "iterator"}
        /\ Fail(Front(stack), "TYPE") /\ UNCHANGED iterators
     \/ /\ stack # << >> /\ Last(stack).tag \in {"range", "map"}
        /\ Len(iterators) >= MaxIterators
        /\ Fail(Front(stack), "OOM") /\ UNCHANGED iterators
     \/ /\ stack # << >> /\ Last(stack).tag \in {"range", "map"}
        /\ Len(iterators) < MaxIterators
        /\ iterators' = Append(iterators,
             [left |-> Last(stack).len,
              fn   |-> IF Last(stack).tag = "map" THEN Last(stack).fn ELSE 0])
        /\ PushOn(Front(stack), Iter(Len(iterators) + 1))
  /\ UNCHANGED <<module, frames, exception, natives, out, status>>

\* OP_FOR_ITER: pops the iterator, then pushes its next item or jumps.  The
\* item of a map comes from a callback, run by the activation this appends.
ForIter ==
  /\ At("FOR_ITER")
  /\ LET it == IF stack # << >> /\ Last(stack).tag = "iterator"
                  /\ Last(stack).iter \in 1..Len(iterators)
               THEN Last(stack).iter ELSE 0
     IN \/ /\ stack = << >>
           /\ Next1 /\ Fail(stack, "STACK") /\ UNCHANGED <<iterators, natives>>
        \/ /\ stack # << >> /\ it = 0
           /\ Next1 /\ Fail(Front(stack), "TYPE") /\ UNCHANGED <<iterators, natives>>
        \/ /\ it # 0 /\ iterators[it].left = 0
           /\ JumpTo(Instr.n) /\ stack' = Front(stack) /\ UNCHANGED <<iterators, natives>>
        \/ /\ it # 0 /\ iterators[it].left > 0
           /\ Next1
           /\ iterators' = [iterators EXCEPT ![it].left = @ - 1]
           /\ IF iterators[it].fn = 0
              THEN PushOn(Front(stack), Obj(0)) /\ UNCHANGED natives
              ELSE /\ Fail(Front(stack), "OK")
                   /\ natives' = Append(natives, Activation(Func(iterators[it].fn), 1, "iter"))
  /\ UNCHANGED <<module, frames, exception, out, status>>

NativeRuns == status = "running" /\ natives # << >> /\ ~Last(natives).waiting

\* vm_call_sync up to its loop: callable and one argument are pushed without
\* looking at the result, then vm_call_value runs.  On an error the native
\* that called it gives up and the error stays for the enclosing loop.
NativeStep ==
  /\ NativeRuns /\ Last(natives).left > 0
  /\ LET act == Last(natives)
         s1  == Pushed(stack, act.callback)
         e   == IF PushError(stack) = "OK" THEN PushError(s1) ELSE "STACK"
         waiting == [natives EXCEPT ![Len(natives)] =
                       [act EXCEPT !.waiting = TRUE, !.saved = Len(frames),
                                   !.ip = ip, !.left = @ - 1]]
     IN CallValue(Pushed(s1, Obj(0)), 1, e, ip, waiting, Front(natives))
  /\ UNCHANGED <<module, iterators, status>>

\* vm_call_sync after its loop: the saved instruction pointer comes back, and
\* the result is popped and handed to the native, or the error is.
CallbackDone ==
  /\ status = "running" /\ natives # << >>
  /\ Last(natives).waiting /\ Len(frames) = Last(natives).saved
  /\ ip' = Last(natives).ip
  /\ \/ /\ last_error # "OK"
        /\ natives' = Front(natives) /\ UNCHANGED <<stack, last_error>>
     \/ /\ last_error = "OK" /\ stack = << >>
        /\ natives' = Front(natives) /\ Fail(stack, "STACK")
     \/ /\ last_error = "OK" /\ stack # << >> /\ Last(natives).kind = "call"
        /\ natives' = [natives EXCEPT ![Len(natives)].waiting = FALSE]
        /\ Fail(Front(stack), "OK")
     \/ /\ last_error = "OK" /\ stack # << >> /\ Last(natives).kind = "iter"
        /\ natives' = Front(natives) \* FOR_ITER pushes what was popped
        /\ UNCHANGED <<stack, last_error>>
  /\ UNCHANGED <<module, frames, exception, iterators, out, status>>

\* The native has called back for every item and returns its value.
NativeReturn ==
  /\ NativeRuns /\ Last(natives).left = 0
  /\ natives' = Front(natives)
  /\ PushOn(stack, Obj(0))
  /\ UNCHANGED <<module, frames, ip, exception, iterators, out, status>>
-----------------------------------------------------------------------------
(***************************************************************************)
(* Exceptions.                                                             *)
(***************************************************************************)
SetupHandler ==
  /\ At("SETUP_HANDLER") /\ Next1
  /\ \/ /\ Len(Cur.handlers) >= MaxHandlers
        /\ last_error' = "OOM" /\ UNCHANGED frames
     \/ /\ Len(Cur.handlers) < MaxHandlers
        /\ last_error' = "OK"
        /\ frames' = SetCur([Cur EXCEPT !.handlers =
                              Append(@, [target |-> Instr.n, stack_top |-> Len(stack)])])
  /\ UNCHANGED <<module, stack, exception, iterators, natives, out, status>>

PopHandler ==
  /\ At("POP_HANDLER") /\ Next1
  /\ IF Cur.handlers = << >>
     THEN last_error' = "STACK" /\ UNCHANGED frames
     ELSE last_error' = "OK" /\ frames' = SetCur([Cur EXCEPT !.handlers = Front(@)])
  /\ UNCHANGED <<module, stack, exception, iterators, natives, out, status>>

\* vm_exception_matches.
FaultyMatchesTypes(v, names) == v.tag = "exception" /\ v.type \in names
MatchesTypes(v, names) ==
  v.tag = "exception" /\ \E t \in names : t \in Ancestors[v.type]

\* The types are popped, the exception below them is looked at and stays.
ExceptMatch ==
  /\ At("EXCEPT_MATCH") /\ Next1
  /\ \/ /\ Len(stack) < 2
        /\ Fail(<< >>, "STACK")
     \/ /\ Len(stack) >= 2 /\ Last(stack).tag # "types"
        /\ Fail(Front(stack), "TYPE")
     \/ /\ Len(stack) >= 2 /\ Last(stack).tag = "types"
        /\ PushOn(Front(stack), Bool(MatchesTypes(Last(Front(stack)), Last(stack).names)))
  /\ UNCHANGED <<module, frames, exception, iterators, natives, out, status>>

\* Drops one operand and forgets the current exception.
ExceptClear ==
  /\ At("EXCEPT_CLEAR") /\ Next1
  /\ IF stack = << >>
     THEN Fail(stack, "STACK") /\ UNCHANGED exception
     ELSE Fail(Front(stack), "OK") /\ exception' = Null
  /\ UNCHANGED <<module, frames, iterators, natives, out, status>>

\* What a bare raise raises.
FaultyActiveException == exception
ActiveException == IF exception # Null THEN exception ELSE Exc("RuntimeError")

\* op_reraise: the operand on top if it is an exception, otherwise the current
\* exception, otherwise a RuntimeError.
Reraise ==
  /\ At("RERAISE") /\ Next1
  /\ IF stack # << >> /\ Last(stack).tag = "exception"
     THEN exception' = Last(stack) /\ stack' = Front(stack)
     ELSE exception' = ActiveException /\ stack' = stack
  /\ last_error' = "RAISED"
  /\ UNCHANGED <<module, frames, iterators, natives, out, status>>

\* vm_make_raised_exception: an instance as it is, a class instantiated,
\* anything else a TypeError.
MakeRaised(v) ==
  IF v.tag = "exception" THEN v
  ELSE IF v.tag = "types" /\ \E t \in TypeNames : v.names = {t}
  THEN Exc(CHOOSE t \in TypeNames : v.names = {t})
  ELSE Exc("TypeError")

RaiseVarargs ==
  /\ At("RAISE_VARARGS") /\ Next1
  /\ \/ /\ Instr.n = 0
        /\ exception' = ActiveException
        /\ Fail(stack, "RAISED")
     \/ /\ Instr.n # 0 /\ stack = << >>
        /\ Fail(stack, "STACK") /\ UNCHANGED exception
     \/ /\ Instr.n # 0 /\ stack # << >>
        /\ exception' = MakeRaised(Last(stack))
        /\ Fail(Front(stack), "RAISED")
  /\ UNCHANGED <<module, frames, iterators, natives, out, status>>

(***************************************************************************)
(* vm_unwind_to.  It makes an exception of last_error unless one is        *)
(* already current, looks for the nearest frame with a handler above the   *)
(* frame the innermost vm_call_sync saved, drops the frames above it (the  *)
(* operands above their bases go too) and enters the handler.              *)
(***************************************************************************)
Unwinding ==
  /\ status = "running" /\ last_error # "OK"
  /\ natives # << >> => Last(natives).waiting /\ Len(frames) # StopDepth

Caught == IF last_error # "RAISED" /\ exception = Null
          THEN Exc(ErrorTypeName[last_error]) ELSE exception

FaultyGuarded(i) == i \in 1..Len(frames) /\ frames[i].handlers # << >>
Guarded(i) == i \in (StopDepth + 1)..Len(frames) /\ frames[i].handlers # << >>

\* The operand stack once the frames above frame i are gone: their bases never
\* decrease along the chain, so the lowest is that of frame i + 1.
StackAt(i) == IF i = Len(frames) THEN stack ELSE Take(stack, frames[i + 1].base)

\* The frame without the handler that is entered.
FaultyHandlerTaken(f) == f
HandlerTaken(f) == [f EXCEPT !.handlers = Front(@)]

\* The handler is entered with the stack cut to its recorded depth and the
\* exception pushed; last_error is reset whether or not the push succeeded.
UnwindToHandler ==
  /\ Unwinding
  /\ \E i \in 1..Len(frames) :
       /\ Guarded(i) /\ \A j \in (i + 1)..Len(frames) : ~Guarded(j)
       /\ LET h == Last(frames[i].handlers)
          IN /\ stack' = Pushed(Take(StackAt(i), h.stack_top), Caught)
             /\ ip' = module.functions[frames[i].func].code_offset + h.target
             /\ frames' = [SubSeq(frames, 1, i) EXCEPT ![i] = HandlerTaken(@)]
  /\ exception' = Caught
  /\ last_error' = "OK"
  /\ UNCHANGED <<module, iterators, natives, out, status>>

\* No handler above the saved frame: vm_call_sync fails and so does its
\* caller; the error is left for the enclosing loop.
UnwindToNative ==
  /\ Unwinding /\ natives # << >>
  /\ \A i \in 1..Len(frames) : ~Guarded(i)
  /\ stack' = StackAt(StopDepth)
  /\ frames' = SubSeq(frames, 1, StopDepth)
  /\ ip' = Last(natives).ip
  /\ natives' = Front(natives)
  /\ exception' = Caught
  /\ UNCHANGED <<module, last_error, iterators, out, status>>

\* No handler at all: vm_run ends, its frames kept for the traceback.
Uncaught ==
  /\ Unwinding /\ natives = << >>
  /\ \A i \in 1..Len(frames) : ~Guarded(i)
  /\ exception' = Caught
  /\ status' = "halted"
  /\ UNCHANGED <<module, stack, frames, ip, last_error, iterators, natives, out>>

\* The process has ended; nothing moves any more.
Halted == status = "halted" /\ UNCHANGED vars

Step ==
  \/ FetchPastEnd \/ Nop \/ LoadConst \/ LoadFast \/ StoreFast \/ PopTop \/ DupTop
  \/ NativeOp \/ Jump \/ JumpIfFalse \/ Call \/ Return \/ GetIter \/ ForIter
  \/ NativeStep \/ CallbackDone \/ NativeReturn
  \/ SetupHandler \/ PopHandler \/ ExceptMatch \/ ExceptClear \/ Reraise \/ RaiseVarargs
  \/ UnwindToHandler \/ UnwindToNative \/ Uncaught

Next == Step \/ Halted

Spec == Init /\ [][Next]_vars

\* The interpreter is one thread that never waits for anything.
FairSpec == Spec /\ WF_vars(Step)
-----------------------------------------------------------------------------
(***************************************************************************)
(* Properties of the machine under any bytecode.                           *)
(***************************************************************************)
Handler == [target: Nat, stack_top: 0..MaxStackDepth]

FrameRecord ==
  [func: Nat, base: 0..MaxStackDepth, return_ip: Nat,
   handlers: Seq(Handler), locals: Seq(Value \union {Null})]

NativeRecord ==
  [callback: Value, left: Nat, kind: {"call", "iter"}, waiting: BOOLEAN,
   saved: 0..MaxCallDepth, ip: Nat]

\* Type invariant.  It carries the two limits the code enforces at run time:
\* the operand stack and the frame chain never outgrow MAX_STACK_DEPTH and
\* MAX_CALL_DEPTH, whatever mix of calls, callbacks and unwinding runs.
TypeOK ==
  /\ stack \in Seq(Value) /\ Len(stack) <= MaxStackDepth
  /\ frames \in Seq(FrameRecord) /\ Len(frames) <= MaxCallDepth
  /\ \A i \in 1..Len(frames) : frames[i].func \in 1..Len(module.functions)
  /\ status = "running" => frames # << >>
  /\ ip \in Nat
  /\ exception \in Exceptions \union {Null}
  /\ last_error \in ErrorCodes \union {"OK", "RAISED"}
  /\ iterators \in Seq([left: Nat, fn: Nat])
  /\ natives \in Seq(NativeRecord)
  /\ out \in Seq(Value)
  /\ status \in {"running", "halted"}

\* Calls, returns, callbacks and unwinding keep the operand regions of the
\* frames in call order: no frame starts below the frame that called it.
FrameBases ==
  \A i, j \in 1..Len(frames) : i <= j => frames[i].base <= frames[j].base

\* The unwinder pushes vm->exception without looking at it, so a pending
\* RAISED must come with an exception: no path clears the register between the
\* raise and the unwinding.
RaisedHasException ==
  last_error = "RAISED" => exception # Null

\* The C activations nest as C requires: all but the innermost wait in
\* vm_call_sync, an inner one saved a frame no older than an outer one's, and
\* the frame each loop waits for is still on the chain, so every nested loop
\* can end.
NativeNesting ==
  \A i \in 1..Len(natives) :
    /\ i < Len(natives) => natives[i].waiting
    /\ natives[i].waiting => natives[i].saved \in 1..Len(frames)
    /\ \A j \in i..Len(natives) :
         natives[i].waiting /\ natives[j].waiting => natives[i].saved <= natives[j].saved

\* Code run by a callback never touches the frames below it: whatever it
\* raises or returns, the frame that called the native and its callers keep
\* their locals, their handlers and their place until vm_call_sync is over.
CallbacksConfined ==
  [][\A i \in 1..Len(natives) :
       natives[i].waiting =>
         \A d \in 1..natives[i].saved : d <= Len(frames') /\ frames'[d] = frames[d]]_vars
=============================================================================
