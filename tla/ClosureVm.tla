----------------------------- MODULE ClosureVm -----------------------------
(***************************************************************************)
(* The virtual machine of vm.c on the code NameCompiler writes: locals,    *)
(* cells, globals, closures, calls and returns, displays and iterators.    *)
(* Operands are never missing and the limits are never met: Vm has what    *)
(* happens then, and what follows a failure; here a failure ends the       *)
(* program.                                                                *)
(***************************************************************************)
EXTENDS NameCompiler

CONSTANT Programs   \* the modules that are compiled and run

VARIABLES
  source,    \* the module that runs
  functions, \* its compiled functions, by node
  frames,    \* the frames, the current one last
  stack,     \* the operand stack
  heap,      \* what values refer to: cells, lists, iterators
  globals,   \* name -> value, for the globals that are set
  log,       \* what the program has shown
  status     \* "source", "compiled", "running", "halted", "refused", or a failure

vars == <<source, functions, frames, stack, heap, globals, log, status>>
-----------------------------------------------------------------------------
\* A cell, a list and an iterator are places in the heap.
Ref(t, i)  == [tag |-> t, at |-> i]
Null       == [tag |-> "null"]       \* an unset local or cell
Func(f, defaults, cells) ==
  [tag |-> "function", fn |-> f, defaults |-> defaults, cells |-> cells]

\* value_truthy.
Truthy(v) ==
  CASE v.tag = "int"   -> v.n # 0
    [] v.tag = "bool"  -> v.is
    [] v.tag = "none"  -> FALSE
    [] v.tag = "tuple" -> v.items # << >>
    [] v.tag = "list"  -> heap[v.at].items # << >>
    [] OTHER           -> TRUE

\* A value as the native t shows it, the items of lists included.
RECURSIVE Shown(_)
Shown(v) ==
  CASE v.tag = "tuple" -> Tuple([i \in DOMAIN v.items |-> Shown(v.items[i])])
    [] v.tag = "list"  -> LET items == heap[v.at].items
                          IN [tag |-> "list", items |-> [i \in DOMAIN items |-> Shown(items[i])]]
    [] v.tag = "function" -> [tag |-> "function"]
    [] OTHER -> v
-----------------------------------------------------------------------------
Cur        == Last(frames)
Ins        == functions[Cur.fn].code[Cur.ip]

At(op) == status = "running" /\ Ins.op = op

\* The operands: the top of the stack, the ones under it, all but the top n.
Top        == stack[Len(stack)]
Under(k)   == stack[Len(stack) - k]
Below(n)   == SubSeq(stack, 1, Len(stack) - n)
TopN(n)    == SubSeq(stack, Len(stack) - n + 1, Len(stack))

\* The current frame, changed, goes on at ip.
Update(frame, ip) == frames' = [frames EXCEPT ![Len(frames)] = [frame EXCEPT !.ip = ip]]

GoTo(ip, stk)   == stack' = stk /\ Update(Cur, ip)
Continue(stk)   == GoTo(Cur.ip + 1, stk)

Fail(error) ==
  /\ status' = error
  /\ UNCHANGED <<source, functions, frames, stack, heap, globals, log>>
-----------------------------------------------------------------------------
\* A frame as vm_call_user makes it: fresh cells for the
\* captured locals, which move into them, then those the function captured.
NewFrame(f, captured, args, base, at) ==
  LET func  == functions[f]
      moved == Range(func.cells)
      local == [i \in 1..func.locals |->
                  IF i \in DOMAIN args /\ i \notin moved THEN args[i] ELSE Null]
  IN [ fn |-> f, ip |-> 1, base |-> base, locals |-> local,
       cells |-> [i \in DOMAIN func.cells |-> Ref("cell", at + i)] \o captured ]

NewCells(f, args) ==
  LET slots == functions[f].cells
  IN [i \in DOMAIN slots |->
        [value |-> IF slots[i] \in DOMAIN args THEN args[slots[i]] ELSE Null]]

Init ==
  /\ source \in Programs
  /\ status = "source" /\ functions = << >>
  /\ frames = << >> /\ stack = << >> /\ heap = << >> /\ log = << >>
  /\ globals = ("t" :> Native)

\* The module is compiled, if the compiler accepts it.
Translate ==
  /\ status = "source"
  /\ LET T == Analyze(source)
     IN IF ~NonlocalsBound(T) THEN functions' = << >> /\ status' = "refused"
        ELSE /\ functions' = CompileNodes(T, FunctionNodes(source))
             /\ status' = IF Refused(functions') THEN "refused" ELSE "compiled"
  /\ UNCHANGED <<source, frames, stack, heap, globals, log>>

\* Its body is called.
Start ==
  /\ status = "compiled"
  /\ status' = "running"
  /\ frames' = <<NewFrame(0, << >>, << >>, 0, 0)>>
  /\ UNCHANGED <<source, functions, stack, heap, globals, log>>
-----------------------------------------------------------------------------
LoadConst ==
  /\ At("LOAD_CONST")
  /\ Continue(Append(stack, Ins.v))
  /\ UNCHANGED <<source, functions, heap, globals, log, status>>

LoadFast ==
  /\ At("LOAD_FAST")
  /\ LET local == Cur.locals[Ins.n]
     IN IF local = Null THEN Fail("STACK")
        ELSE /\ Continue(Append(stack, local))
             /\ UNCHANGED <<source, functions, heap, globals, log, status>>

StoreFast ==
  /\ At("STORE_FAST")
  /\ stack' = Below(1)
  /\ Update([Cur EXCEPT !.locals[Ins.n] = Top], Cur.ip + 1)
  /\ UNCHANGED <<source, functions, heap, globals, log, status>>

DeleteFast ==
  /\ At("DELETE_FAST")
  /\ IF Cur.locals[Ins.n] = Null THEN Fail("STACK")
     ELSE /\ Update([Cur EXCEPT !.locals[Ins.n] = Null], Cur.ip + 1)
          /\ UNCHANGED <<source, functions, stack, heap, globals, log, status>>

LoadDeref ==
  /\ At("LOAD_DEREF")
  /\ LET value == heap[Cur.cells[Ins.n].at].value
     IN IF value = Null THEN Fail("STACK")
        ELSE /\ Continue(Append(stack, value))
             /\ UNCHANGED <<source, functions, heap, globals, log, status>>

StoreDeref ==
  /\ At("STORE_DEREF")
  /\ heap' = [heap EXCEPT ![Cur.cells[Ins.n].at].value = Top]
  /\ Continue(Below(1))
  /\ UNCHANGED <<source, functions, globals, log, status>>

\* A cell that is not set is no failure here.
DeleteDeref ==
  /\ At("DELETE_DEREF")
  /\ heap' = [heap EXCEPT ![Cur.cells[Ins.n].at].value = Null]
  /\ Continue(stack)
  /\ UNCHANGED <<source, functions, globals, log, status>>

LoadClosure ==
  /\ At("LOAD_CLOSURE")
  /\ Continue(Append(stack, Cur.cells[Ins.n]))
  /\ UNCHANGED <<source, functions, heap, globals, log, status>>

LoadGlobal ==
  /\ At("LOAD_GLOBAL")
  /\ IF Ins.v \notin DOMAIN globals THEN Fail("FUNC_NOT_FOUND")
     ELSE /\ Continue(Append(stack, globals[Ins.v]))
          /\ UNCHANGED <<source, functions, heap, globals, log, status>>

StoreGlobal ==
  /\ At("STORE_GLOBAL")
  /\ globals' = (Ins.v :> Top) @@ globals
  /\ Continue(Below(1))
  /\ UNCHANGED <<source, functions, heap, log, status>>

DeleteGlobal ==
  /\ At("DELETE_GLOBAL")
  /\ IF Ins.v \notin DOMAIN globals THEN Fail("FUNC_NOT_FOUND")
     ELSE /\ globals' = [x \in DOMAIN globals \ {Ins.v} |-> globals[x]]
          /\ Continue(stack)
          /\ UNCHANGED <<source, functions, heap, log, status>>
-----------------------------------------------------------------------------
\* POP_TOP, DUP_TOP, ROT_TWO, ROT_THREE.
Shuffle ==
  /\ \/ At("POP_TOP") /\ Continue(Below(1))
     \/ At("DUP_TOP") /\ Continue(Append(stack, Top))
     \/ At("ROT_TWO") /\ Continue(Below(2) \o <<Top, Under(1)>>)
     \/ At("ROT_THREE") /\ Continue(Below(3) \o <<Top, Under(2), Under(1)>>)
  /\ UNCHANGED <<source, functions, heap, globals, log, status>>

Jump ==
  /\ \/ At("JUMP") /\ GoTo(Ins.n + 1, stack)
     \/ At("JUMP_IF_FALSE") /\ GoTo(IF Truthy(Top) THEN Cur.ip + 1 ELSE Ins.n + 1, Below(1))
     \/ At("JUMP_IF_TRUE") /\ GoTo(IF Truthy(Top) THEN Ins.n + 1 ELSE Cur.ip + 1, Below(1))
  /\ UNCHANGED <<source, functions, heap, globals, log, status>>

\* BINARY_ADD and COMPARE_LT.  Programs never give them two displays.
Operate ==
  /\ At("BINARY_ADD") \/ At("COMPARE_LT")
  /\ LET l == Under(1)
         r == Top
     IN IF ~IsInt(l) \/ ~IsInt(r) THEN Fail("TYPE")
        ELSE /\ Continue(Append(Below(2), IF Ins.op = "BINARY_ADD" THEN Num(IntOf(l) + IntOf(r))
                                          ELSE Truth(IntOf(l) < IntOf(r))))
             /\ UNCHANGED <<source, functions, heap, globals, log, status>>

BuildTuple ==
  /\ At("BUILD_TUPLE")
  /\ Continue(Append(Below(Ins.n), Tuple(TopN(Ins.n))))
  /\ UNCHANGED <<source, functions, heap, globals, log, status>>

BuildList ==
  /\ At("BUILD_LIST")
  /\ heap' = Append(heap, [items |-> TopN(Ins.n)])
  /\ Continue(Append(Below(Ins.n), Ref("list", Len(heap'))))
  /\ UNCHANGED <<source, functions, globals, log, status>>

ListAppend ==
  /\ At("LIST_APPEND")
  /\ heap' = [heap EXCEPT ![Under(1).at].items = Append(@, Top)]
  /\ Continue(Below(2))
  /\ UNCHANGED <<source, functions, globals, log, status>>

\* A list no longer changes once a program can name it.
GetIter ==
  /\ At("GET_ITER")
  /\ IF Top.tag \notin {"tuple", "list"} THEN Fail("TYPE")
     ELSE /\ heap' = Append(heap, [items |-> IF Top.tag = "list" THEN heap[Top.at].items
                                            ELSE Top.items])
          /\ Continue(Append(Below(1), Ref("iterator", Len(heap'))))
          /\ UNCHANGED <<source, functions, globals, log, status>>

\* The iterator holds what is left; an exhausted one is left behind.
ForIter ==
  /\ At("FOR_ITER")
  /\ LET left == heap[Top.at].items
     IN IF left = << >> THEN GoTo(Ins.n + 1, Below(1)) /\ UNCHANGED heap
        ELSE /\ heap' = [heap EXCEPT ![Top.at].items = Tail(left)]
             /\ Continue(Append(Below(1), Head(left)))
  /\ UNCHANGED <<source, functions, globals, log, status>>
-----------------------------------------------------------------------------
MakeFunction ==
  /\ At("MAKE_FUNCTION")
  /\ Continue(Append(Below(2), Func(Ins.n, Under(1).items, Top.items)))
  /\ UNCHANGED <<source, functions, heap, globals, log, status>>

\* Positional arguments, then defaults for the last parameters; << >> if they do
\* not fit.
Bound(callee, args) ==
  LET params  == functions[callee.fn].params
      missing == params - Len(args)
  IN IF missing < 0 \/ missing > Len(callee.defaults) THEN << >>
     ELSE args \o SubSeq(callee.defaults, Len(callee.defaults) - missing + 1, Len(callee.defaults))

CallUser ==
  /\ At("CALL")
  /\ LET callee == Under(Ins.n)
         args   == Bound(callee, TopN(Ins.n))
         rest   == Below(Ins.n + 1)
     IN /\ callee.tag = "function"
        /\ IF Len(args) # functions[callee.fn].params THEN Fail("TYPE")
           ELSE /\ frames' = Append([frames EXCEPT ![Len(frames)].ip = @ + 1],
                                    NewFrame(callee.fn, callee.cells, args, Len(rest), Len(heap)))
                /\ heap' = heap \o NewCells(callee.fn, args)
                /\ stack' = rest
                /\ UNCHANGED <<source, functions, globals, log, status>>

\* The native t shows its first argument and returns its last.
CallNative ==
  /\ At("CALL")
  /\ Under(Ins.n).tag = "native"
  /\ log' = Append(log, Shown(Under(Ins.n - 1)))
  /\ Continue(Append(Below(Ins.n + 1), Top))
  /\ UNCHANGED <<source, functions, heap, globals, status>>

CallOther ==
  /\ At("CALL")
  /\ Under(Ins.n).tag \notin {"function", "native"}
  /\ Fail("TYPE")

\* op_return: what is left of the frame's operands goes.
ReturnValue ==
  /\ At("RETURN")
  /\ IF Len(frames) = 1
     THEN status' = "halted" /\ stack' = << >> /\ UNCHANGED frames
     ELSE /\ frames' = Front(frames)
          /\ stack' = Append(SubSeq(stack, 1, Cur.base), Top)
          /\ UNCHANGED status
  /\ UNCHANGED <<source, functions, heap, globals, log>>

Next ==
  \/ Translate \/ Start
  \/ LoadConst \/ LoadFast \/ StoreFast \/ DeleteFast
  \/ LoadDeref \/ StoreDeref \/ DeleteDeref \/ LoadClosure
  \/ LoadGlobal \/ StoreGlobal \/ DeleteGlobal
  \/ Shuffle \/ Jump \/ Operate
  \/ BuildTuple \/ BuildList \/ ListAppend \/ GetIter \/ ForIter
  \/ MakeFunction \/ CallUser \/ CallNative \/ CallOther \/ ReturnValue

Spec == Init /\ [][Next]_vars
=============================================================================
