---------------------------- MODULE TryCompiler ----------------------------
(***************************************************************************)
(* How compiler/compiler.py turns statements into bytecode: loops, try     *)
(* with except, else and finally, and the exits that cross them (return,   *)
(* break, continue), whose pending finally bodies are compiled in line.    *)
(*                                                                         *)
(* Statements are records with a kind.  Names, line numbers and operand    *)
(* widths are left out, labels are numbers.  Locals are the loop variable  *)
(* in slot 0 and the hidden __iter_d of loop depth d in slot d.            *)
(***************************************************************************)
EXTENDS Bytecode, Emitter

\* A function's emitter, and how many locals it has so far.
NewBody == [locals |-> 1] @@ NewEmitter

\* _FuncCtx at the start of a function body.
NewContext ==
  [handler_depth |-> 0, except_depth |-> 0, iter_depth |-> 0,
   finally_stack |-> << >>, loop_stack |-> << >>]

Times(n, instruction) == [i \in 1..n |-> instruction]

\* Definitions named Faulty... are mistakes a change of the compiler could make;
\* nothing uses them.
FaultyHandlersKept(em, ctx, loop) ==
  Emit(em, Times(ctx.except_depth - loop.excepts, Op("EXCEPT_CLEAR")))
FaultyClearCount(em, ctx, loop) ==
  Emit(em, Times(ctx.except_depth + 1 - loop.excepts, Op("EXCEPT_CLEAR"))
           \o Times(ctx.handler_depth - loop.handlers, Op("POP_HANDLER")))

\* _emit_exit_cleanup: forget the exceptions, then the handlers, entered since
\* the loop began.
ExitCleanup(em, ctx, loop) ==
  Emit(em, Times(ctx.except_depth - loop.excepts, Op("EXCEPT_CLEAR"))
           \o Times(ctx.handler_depth - loop.handlers, Op("POP_HANDLER")))

RECURSIVE CompileBody(_, _, _), CompileStmt(_, _, _), CompileExcepts(_, _, _, _, _, _)

\* em.next is never 0; the test has TLC evaluate em first, which would nest too deep
\* in the middle of a statement.
CompileBody(em, ctx, body) ==
  IF em.next = 0 \/ body = << >> THEN em
  ELSE CompileBody(CompileStmt(em, ctx, Head(body)), ctx, Tail(body))

FaultyFinallyOrder(em, ctx, final_depth) ==
  LET pending == SubSeq(ctx.finally_stack, final_depth + 1, Len(ctx.finally_stack))
  IN CompileBody(em, [ctx EXCEPT !.finally_stack = SubSeq(@, 1, final_depth)],
                 FlattenSeq(pending))
FaultyNoActiveFinally(em, ctx, final_depth) == em

\* _emit_active_finally: the finally bodies above final_depth, innermost first,
\* all compiled as if only the ones below it were pending.
ActiveFinally(em, ctx, final_depth) ==
  LET pending == SubSeq(ctx.finally_stack, final_depth + 1, Len(ctx.finally_stack))
      outer   == [ctx EXCEPT !.finally_stack = SubSeq(@, 1, final_depth)]
  IN CompileBody(em, outer, FlattenSeq(Reverse(pending)))

\* break and continue leave the innermost loop for its end or its start.
LeaveLoop(em, ctx, target) ==
  LET loop == Last(ctx.loop_stack)
  IN EmitJump(ExitCleanup(ActiveFinally(em, ctx, loop.final_depth), ctx, loop),
              Op("JUMP"), loop[target])

CompileFor(em, ctx, s) ==
  LET depth  == ctx.iter_depth + 1
      start  == em.next
      else   == em.next + 1
      end    == em.next + 2
      loop   == [start |-> start, end |-> end, handlers |-> ctx.handler_depth,
                 excepts |-> ctx.except_depth, final_depth |-> Len(ctx.finally_stack)]
      inner  == [ctx EXCEPT !.iter_depth = depth, !.loop_stack = Append(@, loop)]
      header == Emit([NewLabels(em, 3) EXCEPT !.locals = IF @ > depth + 1 THEN @ ELSE depth + 1],
                     <<LoadValue(s.iter), Op("GET_ITER"), OpN("STORE_FAST", depth)>>)
      next   == EmitJump(Emit(SetLabel(header, start), <<OpN("LOAD_FAST", depth)>>),
                         Op("FOR_ITER"), else)
      body   == CompileBody(Emit(next, <<OpN("STORE_FAST", 0)>>), inner, s.body)
      after  == SetLabel(EmitJump(body, Op("JUMP"), start), else)
  IN SetLabel(CompileBody(after, [ctx EXCEPT !.iter_depth = depth], s.orelse), end)

\* The except clauses from the i-th on; a clause without types is "except:".
CompileExcepts(em, ctx, handlers, i, first, normal) ==
  IF i > Len(handlers) THEN em
  ELSE LET h       == handlers[i]
           typed   == h.types # {}
           skip    == em.next
           at      == SetLabel(em, first + i - 1)
           matched == IF typed
                      THEN EmitJump(Emit(NewLabels(at, 1),
                                         <<Op("DUP_TOP"), LoadValue(Types(h.types)),
                                           Op("EXCEPT_MATCH")>>), Op("JUMP_IF_FALSE"), skip)
                      ELSE at
           body    == CompileBody(matched, [ctx EXCEPT !.except_depth = @ + 1], h.body)
           done    == EmitJump(Emit(body, <<Op("EXCEPT_CLEAR")>>), Op("JUMP"), normal)
       IN CompileExcepts(IF typed THEN SetLabel(done, skip) ELSE done,
                         ctx, handlers, i + 1, first, normal)

\* _compile_try.
CompileTry(em, ctx, s) ==
  LET has_finally == s.finalbody # << >>
      has_handlers == s.handlers # << >>
      end     == em.next
      else    == em.next + 1
      normal  == em.next + 2
      finally == em.next + 3
      first   == em.next + 4
      em0     == NewLabels(em, 4 + Len(s.handlers))
      em1     == IF has_finally THEN EmitJump(em0, Op("SETUP_HANDLER"), finally) ELSE em0
      em2     == IF has_handlers THEN EmitJump(em1, Op("SETUP_HANDLER"), first) ELSE em1
      guarded == IF has_finally
                 THEN [ctx EXCEPT !.handler_depth = @ + 1,
                                  !.finally_stack = Append(@, s.finalbody)]
                 ELSE ctx
      em3     == CompileBody(em2, IF has_handlers
                                  THEN [guarded EXCEPT !.handler_depth = @ + 1]
                                  ELSE guarded, s.body)
      em4     == IF has_handlers
                 THEN Emit(CompileExcepts(EmitJump(Emit(em3, <<Op("POP_HANDLER")>>), Op("JUMP"), else),
                                          guarded, s.handlers, 1, first, normal),
                           <<Op("RERAISE")>>)
                 ELSE em3
      em5     == SetLabel(CompileBody(SetLabel(em4, else), guarded, s.orelse), normal)
      em6     == EmitJump(CompileBody(Emit(em5, <<Op("POP_HANDLER")>>), ctx, s.finalbody),
                          Op("JUMP"), end)
      em7     == Emit(CompileBody(SetLabel(em6, finally), ctx, s.finalbody), <<Op("RERAISE")>>)
  IN SetLabel(IF has_finally THEN em7 ELSE em5, end)

\* _compile_stmt, with _compile_expr of the expressions these statements hold.
CompileStmt(em, ctx, s) ==
  CASE s.kind = "pass"     -> Emit(em, <<Op("NOP")>>)
    [] s.kind = "print"    -> Emit(em, <<LoadValue(Native("print")), LoadValue(s.value),
                                         OpN("CALL", 1), Op("POP_TOP")>>)
    [] s.kind = "call"     -> Emit(em, <<LoadValue(s.callable), OpN("CALL", 0), Op("POP_TOP")>>)
    [] s.kind = "add"      -> Emit(em, <<LoadValue(Obj(1)), LoadValue(s.callable), OpN("CALL", 0),
                                         NativeCode(2, "value"), Op("POP_TOP")>>)
    [] s.kind = "apply"    -> Emit(em, <<LoadValue(Native("apply")), LoadValue(s.callable),
                                         LoadValue(RangeOf(s.len)), OpN("CALL", 2), Op("POP_TOP")>>)
    [] s.kind = "raise"    -> Emit(em, <<LoadValue(Types({s.type})), OpN("RAISE_VARARGS", 1)>>)
    [] s.kind = "reraise"  -> Emit(em, <<OpN("RAISE_VARARGS", 0)>>)
    [] s.kind = "error"    -> Emit(em, <<LoadValue(Obj(1)), LoadValue(Obj(0)),
                                         NativeCode(2, s.outcome), Op("POP_TOP")>>)
    [] s.kind = "return"   -> Emit(ActiveFinally(Emit(em, <<LoadValue(s.value)>>), ctx, 0),
                                   <<Op("RETURN")>>)
    [] s.kind = "break"    -> LeaveLoop(em, ctx, "end")
    [] s.kind = "continue" -> LeaveLoop(em, ctx, "start")
    [] s.kind = "for"      -> CompileFor(em, ctx, s)
    [] s.kind = "try"      -> CompileTry(em, ctx, s)

\* _compile_body_function: the body, then return None.
CompileFunction(f) ==
  LET em == Emit(CompileBody(NewBody, NewContext, f.body), <<LoadValue(None), Op("RETURN")>>)
  IN [code |-> Finalize(em), locals |-> em.locals]

\* A program is a tuple of functions [params, body]; the module body is last.
CompileModule(functions) ==
  LET compiled == [i \in DOMAIN functions |-> CompileFunction(functions[i])]
      offset[i \in DOMAIN functions] ==
        IF i = 1 THEN 0 ELSE offset[i - 1] + Len(compiled[i - 1].code)
  IN [ source    |-> functions,
       bytecode  |-> FlattenSeq([i \in DOMAIN functions |-> compiled[i].code]),
       functions |-> [i \in DOMAIN functions |->
                        [code_offset |-> offset[i], params_count |-> functions[i].params,
                         locals_count |-> compiled[i].locals]],
       entry     |-> Len(functions) ]
=============================================================================
