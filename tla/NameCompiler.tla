---------------------------- MODULE NameCompiler ----------------------------
(***************************************************************************)
(* compiler/compiler.py: expressions, names, functions and comprehensions  *)
(* as bytecode.  Loops keep their iterator, comprehensions their result    *)
(* and iterators, and functions their decorators in hidden locals, which   *)
(* are declared by name while the code is written.  The binding of keyword *)
(* arguments is in CallBinding, exits from loops in TryCompiler.           *)
(***************************************************************************)
EXTENDS Scopes, Emitter, Objects

\* n is the operand, v the constant or the name of a global.
Op(op)      == [op |-> op, n |-> 0, v |-> None]
OpN(op, n)  == [Op(op) EXCEPT !.n = n]
OpV(op, v)  == [Op(op) EXCEPT !.v = v]

\* _FuncCtx: the emitter with the scope, its locals so far, the counters that
\* hidden names are made of, and where the code of a statement starts (a
\* history variable).
NewContext(T, s) ==
  [scopes |-> T, scope |-> T[s], locals |-> T[s].locals, temp_seq |-> 0, iter_depth |-> 0,
   starts |-> {}] @@ NewEmitter

\* Scope.declare.  Hidden names start with two underscores.
Declare(em, x) == [em EXCEPT !.locals = Added(@, x)]
SlotOf(em, x)  == PlaceOf(em.locals, x)
Hidden(what, i) == "__" \o what \o "_" \o ToString(i)

\* The instruction for a name: what is done to a local, a cell and a global.
OnName(em, fast, deref, global, x) ==
  LET slot == Resolve(em.scope, em.locals, x)
  IN CASE slot.kind = "local"  -> OpN(fast, slot.index)
       [] slot.kind = "cell"   -> OpN(deref, slot.index)
       [] slot.kind = "global" -> OpV(global, x)

LoadName(em, x)   == Emit(em, <<OnName(em, "LOAD_FAST", "LOAD_DEREF", "LOAD_GLOBAL", x)>>)
StoreName(em, x)  == Emit(em, <<OnName(em, "STORE_FAST", "STORE_DEREF", "STORE_GLOBAL", x)>>)
DeleteName(em, x) == Emit(em, <<OnName(em, "DELETE_FAST", "DELETE_DEREF", "DELETE_GLOBAL", x)>>)

\* _compile_closure: the cells a function captures, in the order it numbers them.
\* One that is neither a cell nor captured here is an error of the compiler.
Closure(em, child) ==
  LET frees == em.scopes[child].frees
      Load(x) == LET slot == Resolve(em.scope, em.locals, x)
                 IN IF slot.kind = "cell" THEN OpN("LOAD_CLOSURE", slot.index)
                    ELSE Op("CLOSURE_OVER_NON_CELL")
  IN Emit(em, [i \in DOMAIN frees |-> Load(frees[i])] \o <<OpN("BUILD_TUPLE", Len(frees))>>)
-----------------------------------------------------------------------------
\* Compile(em, n): the code of node n after that of em.
RECURSIVE Compile(_, _)

CompileAll(em, nodes) == FoldLeft(Compile, em, nodes)

\* _emit_function_value; defaults of keyword-only parameters are left out.
FunctionValue(em, n) ==
  LET defaults == Emit(CompileAll(em, n.defaults), <<OpN("BUILD_TUPLE", Len(n.defaults))>>)
  IN Emit(Closure(defaults, n.node), <<OpN("MAKE_FUNCTION", n.node)>>)

\* _compile_comprehension: the first iterator is made here and passed to the
\* function of the comprehension.
Comprehension(em, n) ==
  LET hidden == Hidden("comp_iter", em.temp_seq + 1)
      named  == Declare([em EXCEPT !.temp_seq = @ + 1], hidden)
      slot   == SlotOf(named, hidden)
      kept   == Emit(Compile(named, n.generators[1].iter),
                     <<Op("GET_ITER"), OpN("STORE_FAST", slot), OpN("BUILD_TUPLE", 0)>>)
  IN Emit(Closure(kept, n.node),
          <<OpN("MAKE_FUNCTION", n.node), OpN("LOAD_FAST", slot), OpN("CALL", 1)>>)

\* The links of a comparison; a chain keeps the operand the next comparison needs
\* under the result, and goes to fail with it.
Chain(em, operands, fail) ==
  FoldLeft(LAMBDA e, i :
             IF i = Len(operands) THEN Emit(Compile(e, operands[i]), <<Op("COMPARE_LT")>>)
             ELSE Emit(EmitJump(Emit(Compile(e, operands[i]),
                                     <<Op("DUP_TOP"), Op("ROT_THREE"), Op("COMPARE_LT"),
                                       Op("DUP_TOP")>>),
                                Op("JUMP_IF_FALSE"), fail), <<Op("POP_TOP")>>),
           Compile(em, operands[1]), [i \in 1..(Len(operands) - 1) |-> i + 1])

Compare(em, operands) ==
  LET fail == em.next
      end  == em.next + 1
      all  == Chain(NewLabels(em, 2), operands, fail)
  IN IF Len(operands) = 2 THEN all
     ELSE SetLabel(Emit(SetLabel(EmitJump(all, Op("JUMP"), end), fail),
                        <<Op("ROT_TWO"), Op("POP_TOP")>>), end)

\* Definitions named Faulty... are mistakes a change of this file could make;
\* nothing uses them.
FaultyBoolValues(em, operands, jump) ==
  LET end    == em.next
      Left(e, x) == EmitJump(Emit(Compile(e, x), <<Op("DUP_TOP")>>), Op(jump), end)
  IN SetLabel(Compile(FoldLeft(Left, NewLabels(em, 1), Front(operands)), Last(operands)), end)

\* and, or: an operand that decides stays on the stack.
BoolValues(em, operands, jump) ==
  LET end    == em.next
      Left(e, x) == Emit(EmitJump(Emit(Compile(e, x), <<Op("DUP_TOP")>>), Op(jump), end),
                         <<Op("POP_TOP")>>)
      last   == Compile(FoldLeft(Left, NewLabels(em, 1), Front(operands)), Last(operands))
  IN SetLabel(EmitJump(last, Op("JUMP"), end), end)

Conditional(em, n) ==
  LET else == em.next
      end  == em.next + 1
      test == EmitJump(Compile(NewLabels(em, 2), n.test), Op("JUMP_IF_FALSE"), else)
      body == SetLabel(EmitJump(Compile(test, n.body), Op("JUMP"), end), else)
  IN SetLabel(Compile(body, n.orelse), end)
-----------------------------------------------------------------------------
\* The generators of comprehension n from the i-th on, as a node to compile.
From(n, i) == [kind |-> "generators", of |-> n, i |-> i]

Generators(em, n, i) ==
  IF i > Len(n.generators)
  THEN Emit(Compile(Emit(em, <<OpN("LOAD_FAST", SlotOf(em, "__comp_result"))>>), n.elt),
            <<Op("LIST_APPEND")>>)
  ELSE LET gen    == n.generators[i]
           hidden == IF i = 1 THEN ".0" ELSE Hidden("comp_iter", i - 1)
           end    == em.next
           start  == em.next + 1
           em0    == Declare(NewLabels(em, 2), hidden)
           em1    == IF i = 1 THEN em0
                     ELSE Emit(Compile(em0, gen.iter),
                               <<Op("GET_ITER"), OpN("STORE_FAST", SlotOf(em0, hidden))>>)
           em2    == EmitJump(Emit(SetLabel(em1, start), <<OpN("LOAD_FAST", SlotOf(em1, hidden))>>),
                              Op("FOR_ITER"), end)
           Guarded(e, c) == EmitJump(Compile(e, c), Op("JUMP_IF_FALSE"), start)
           em3    == Compile(FoldLeft(Guarded, StoreName(em2, gen.target), gen.ifs), From(n, i + 1))
       IN SetLabel(EmitJump(em3, Op("JUMP"), start), end)

\* _compile_comprehension_body.
ComprehensionBody(em, n) ==
  LET named == Declare(em, "__comp_result")
      slot  == SlotOf(named, "__comp_result")
  IN Emit(Compile(Emit(named, <<OpN("BUILD_LIST", 0), OpN("STORE_FAST", slot)>>), From(n, 1)),
          <<OpN("LOAD_FAST", slot), Op("RETURN")>>)

\* _compile_function_def: decorators are evaluated first and applied last, each from
\* the hidden local that keeps it.
CompileDef(em, s) ==
  LET Decorator(r, d) ==
        LET value  == Compile(r.em, d)
            hidden == Hidden("decorator", value.temp_seq + 1)
            named  == Declare([value EXCEPT !.temp_seq = @ + 1], hidden)
            slot   == SlotOf(named, hidden)
        IN [em |-> Emit(named, <<OpN("STORE_FAST", slot)>>), slots |-> Append(r.slots, slot)]
      kept == FoldLeft(Decorator, [em |-> em, slots |-> << >>], s.decorators)
      Apply(e, slot) == Emit(e, <<OpN("LOAD_FAST", slot), Op("ROT_TWO"), OpN("CALL", 1)>>)
  IN StoreName(FoldLeft(Apply, FunctionValue(kept.em, s), Reverse(kept.slots)), s.name)

CompileFor(em, s) ==
  LET depth == em.iter_depth + 1
      start == em.next
      else  == em.next + 1
      named == Declare([NewLabels(em, 2) EXCEPT !.iter_depth = depth], Hidden("iter", depth))
      slot  == SlotOf(named, Hidden("iter", depth))
      head  == Emit(Compile(named, s.iter), <<Op("GET_ITER"), OpN("STORE_FAST", slot)>>)
      next  == EmitJump(Emit(SetLabel(head, start), <<OpN("LOAD_FAST", slot)>>),
                        Op("FOR_ITER"), else)
      body  == EmitJump(Compile(StoreName(next, s.target), Body(s.body)), Op("JUMP"), start)
  IN [Compile(SetLabel(body, else), Body(s.orelse)) EXCEPT !.iter_depth = depth - 1]

CompileWhile(em, s) ==
  LET start == em.next
      else  == em.next + 1
      test  == EmitJump(Compile(SetLabel(NewLabels(em, 2), start), s.test),
                        Op("JUMP_IF_FALSE"), else)
      body  == EmitJump(Compile(test, Body(s.body)), Op("JUMP"), start)
  IN Compile(SetLabel(body, else), Body(s.orelse))

CompileIf(em, s) ==
  LET else == em.next
      end  == em.next + 1
      test == EmitJump(Compile(NewLabels(em, 2), s.test), Op("JUMP_IF_FALSE"), else)
      body == EmitJump(Compile(test, Body(s.body)), Op("JUMP"), end)
  IN SetLabel(Compile(SetLabel(body, else), Body(s.orelse)), end)

\* Where the code of a statement starts is kept.
CompileBody(em, statements) ==
  FoldLeft(LAMBDA e, s : Compile([e EXCEPT !.starts = @ \union {Len(e.code) + 1}], s),
           em, statements)

\* _compile_expr.
CompileExpr(em, n) ==
  CASE n.kind = "const"    -> Emit(em, <<OpV("LOAD_CONST", n.value)>>)
    [] n.kind = "name"     -> LoadName(em, n.id)
    [] n.kind = "lambda"   -> FunctionValue(em, n)
    [] n.kind = "listcomp" -> Comprehension(em, n)
    [] n.kind = "add"      -> Emit(CompileAll(em, n.operands), <<Op("BINARY_ADD")>>)
    [] n.kind = "compare"  -> Compare(em, n.operands)
    [] n.kind = "and"      -> BoolValues(em, n.operands, "JUMP_IF_FALSE")
    [] n.kind = "or"       -> BoolValues(em, n.operands, "JUMP_IF_TRUE")
    [] n.kind = "ifexp"    -> Conditional(em, n)
    [] n.kind = "tuple"    -> Emit(CompileAll(em, n.elts), <<OpN("BUILD_TUPLE", Len(n.elts))>>)
    [] n.kind = "call"     ->
         Emit(CompileAll(em, <<n.func>> \o n.args), <<OpN("CALL", Len(n.args))>>)

\* _compile_stmt.
CompileStmt(em, s) ==
  CASE s.kind = "expr"      -> Emit(Compile(em, s.value), <<Op("POP_TOP")>>)
    [] s.kind = "assign"    -> StoreName(Compile(em, s.value), s.target)
    [] s.kind = "augassign" ->
         StoreName(Emit(Compile(LoadName(em, s.target), s.value), <<Op("BINARY_ADD")>>), s.target)
    [] s.kind = "delete"    -> DeleteName(em, s.target)
    [] s.kind = "return"    -> Emit(Compile(em, s.value), <<Op("RETURN")>>)
    [] s.kind = "def"       -> CompileDef(em, s)
    [] s.kind = "if"        -> CompileIf(em, s)
    [] s.kind = "while"     -> CompileWhile(em, s)
    [] s.kind = "for"       -> CompileFor(em, s)
    [] s.kind \in {"global", "nonlocal"} -> em

\* em.next is never 0.  The test has TLC evaluate em before the code of n, instead
\* of in the middle of it: a long program would nest too deep.
Compile(em, n) ==
  IF em.next = 0 THEN em
  ELSE CASE n.kind = "body"       -> CompileBody(em, n.statements)
         [] n.kind = "generators" -> Generators(em, n.of, n.i)
         [] n.kind \in StatementKinds -> CompileStmt(em, n)
         [] n.kind \notin StatementKinds \union {"body", "generators"} -> CompileExpr(em, n)
-----------------------------------------------------------------------------
\* _compile_body_function, _compile_comprehension_node, the module body: what the
\* code of node n does, with the return at its end.
Whole(em, n) ==
  CASE n.kind \in {"def", "module"} ->
         Emit(Compile(em, Body(n.body)), <<OpV("LOAD_CONST", None), Op("RETURN")>>)
    [] n.kind = "lambda"   -> Emit(Compile(em, n.body), <<Op("RETURN")>>)
    [] n.kind = "listcomp" -> ComprehensionBody(em, n)

\* A function of the container; cells are the slots of the captured locals.
FunctionOf(em, scope) ==
  [ code     |-> Finalize(em),
    starts   |-> em.starts,
    locals   |-> Len(em.locals),
    params   |-> Len(scope.params),
    cells    |-> [i \in DOMAIN scope.cell_names |-> PlaceOf(scope.locals, scope.cell_names[i])],
    frees    |-> Len(scope.frees) ]

\* The nodes under n that have code of their own.
RECURSIVE FunctionNodes(_)
FunctionNodes(n) ==
  IF n.kind \in ScopeKinds
  THEN {n} \union UNION {FunctionNodes(m) : m \in Range(Kids(n) \o Inner(n))}
  ELSE UNION {FunctionNodes(m) : m \in Range(Kids(n))}

\* The functions of a module, by the numbers of their nodes.
CompileNodes(T, nodes) ==
  [i \in {n.node : n \in nodes} |->
     LET n == CHOOSE m \in nodes : m.node = i
     IN FunctionOf(Whole(NewContext(T, i), n), T[i])]

Refused(functions) ==
  \E i \in DOMAIN functions : \E k \in DOMAIN functions[i].code :
    functions[i].code[k].op = "CLOSURE_OVER_NON_CELL"
=============================================================================
