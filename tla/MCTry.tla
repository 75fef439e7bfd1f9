------------------------------- MODULE MCTry -------------------------------
(***************************************************************************)
(* Compiled programs on the machine: the compiler of TryCompiler produces  *)
(* the bytecode, Vm runs it, and what it prints and how it ends is what    *)
(* TryReference says.  A program is a tuple of function bodies; the last   *)
(* is the module body.                                                     *)
(***************************************************************************)
EXTENDS Vm, TryCompiler, TryReference, ExceptionTypes

CONSTANT Programs   \* the programs of a run, each a tuple of function bodies

\* Statements, clauses and functions.
Pass         == [kind |-> "pass"]
Show(k)      == [kind |-> "print", value |-> Obj(k)]
CallF(i)     == [kind |-> "call", callable |-> Func(i)]
AddF(i)      == [kind |-> "add", callable |-> Func(i)]
Apply(i, n)  == [kind |-> "apply", callable |-> Func(i), len |-> n]
Raise(t)     == [kind |-> "raise", type |-> t]
Bare         == [kind |-> "reraise"]
Error(o)     == [kind |-> "error", outcome |-> o]
Ret(k)       == [kind |-> "return", value |-> Obj(k)]
Break        == [kind |-> "break"]
Continue     == [kind |-> "continue"]
ForIn(iterable, body, orelse) ==
  [kind |-> "for", iter |-> iterable, body |-> body, orelse |-> orelse]
For(n, body) == ForIn(RangeOf(n), body, << >>)
Try(body, handlers, orelse, final) ==
  [kind |-> "try", body |-> body, handlers |-> handlers, orelse |-> orelse, finalbody |-> final]
Clause(types, body) == [types |-> types, body |-> body]
Def(params, body)   == [params |-> params, body |-> body]

\* The module body calls function i under no handler, with an operand waiting
\* for the result.
Main(i) == Def(0, <<AddF(i)>>)

Compiled == {CompileModule(p) : p \in Programs}
-----------------------------------------------------------------------------
\* Exits: a try statement in a loop, its parts ending in every way that does
\* not need a second exception while one is being handled.
Helpers == {<<Show(1)>>, <<Raise("ValueError")>>, <<Error("DIV_ZERO")>>}
BodyEnds == {<<Show(2)>>, <<Raise("KeyError")>>, <<Error("BOUNDS")>>, <<Ret(2)>>, <<Break>>,
             <<Continue>>, <<AddF(1)>>}
ExceptEnds == {<<Show(3)>>, <<Raise("ValueError")>>, <<Bare>>, <<Ret(3)>>, <<Break>>, <<Continue>>}
OneClause(types, bodies) == {<<Clause(types, b)>> : b \in bodies}
HandlerLists ==
  {<< >>} \union OneClause({}, ExceptEnds) \union OneClause({"LookupError"}, ExceptEnds)
    \union { <<Clause({"ValueError"}, <<Show(4)>>), Clause({"IndexError"}, b)>> : b \in ExceptEnds }
FinalEnds == {<< >>, <<Show(5)>>, <<Ret(5)>>, <<Break>>, <<Continue>>}

\* A try needs a clause or a finally body, and else only follows clauses.
WellFormed(t) ==
  /\ t.handlers # << >> \/ t.finalbody # << >>
  /\ t.orelse # << >> => t.handlers # << >>

ExitTries ==
  {t \in {Try(b, h, o, f) : b \in BodyEnds, h \in HandlerLists,
                            o \in {<< >>, <<Show(6)>>, <<Break>>}, f \in FinalEnds} :
     WellFormed(t)}

\* Left out is a finally that drops an exception by continue, followed by an
\* error of the machine's own; the helper varies where it is called.
ExitPrograms ==
  { << Def(0, g), Def(0, <<For(2, <<t, Show(7)>>), Show(8)>>), Main(2) >> :
      <<g, t>> \in {<<g, t>> \in Helpers \X ExitTries :
                     /\ t.finalbody = <<Continue>> => t.body # <<Error("BOUNDS")>>
                     /\ t.body # <<AddF(1)>> => g = <<Show(1)>>} }
-----------------------------------------------------------------------------
\* Nesting: a try inside the body or the except clause of another, under a
\* loop and under a caller that tells what leaves the loop.
InnerTries ==
  {t \in {Try(b, h, << >>, f) :
            b \in {<<Show(1)>>, <<Raise("KeyError")>>, <<Error("BOUNDS")>>, <<Ret(1)>>, <<Break>>},
            h \in {<< >>} \union OneClause({"ValueError"}, {<<Show(2)>>})
                    \union OneClause({}, {<<Show(2)>>, <<Raise("ValueError")>>, <<Bare>>, <<Ret(2)>>})
                    \union OneClause({"LookupError"}, {<<Show(2)>>, <<Raise("ValueError")>>}),
            f \in {<< >>, <<Show(3)>>}} :
     WellFormed(t)}

OuterHandlers ==
  {<< >>} \union OneClause({}, {<<Show(4)>>, <<Bare>>, <<Ret(4)>>, <<Continue>>})
    \union OneClause({"LookupError"}, {<<Show(4)>>, <<Bare>>})

InBody ==
  {t \in {Try(<<inner, Show(0)>>, h, << >>, f) :
            inner \in InnerTries, h \in OuterHandlers, f \in {<< >>, <<Show(5)>>, <<Ret(5)>>}} :
     WellFormed(t)}

\* Left out is an error of the machine's own while an exception is handled.
InClause ==
  {Try(<<Raise("TypeError")>>, <<Clause(types, <<inner>>)>>, << >>, f) :
     inner \in {t \in InnerTries : t.body # <<Error("BOUNDS")>>},
     types \in {{}, {"TypeError"}}, f \in {<< >>, <<Show(5)>>}}

NestedPrograms ==
  { << Def(0, <<For(2, <<t, Show(7)>>), Show(8)>>),
       Def(0, <<Try(<<CallF(1)>>, <<Clause({"LookupError"}, <<Show(9)>>)>>, << >>, << >>)>>),
       Main(2) >> : t \in InBody \union InClause }
-----------------------------------------------------------------------------
\* Callbacks: function 1 is called back by sorted(..., key=f) and by a loop over
\* map(f, ...), also from within another callback, function 2.
KeyBodies ==
  {<<Show(1)>>, <<Raise("KeyError")>>, <<Error("DIV_ZERO")>>, <<For(1, <<Ret(1)>>)>>,
   <<Try(<<Raise("KeyError")>>, <<Clause({}, <<Show(2)>>)>>, << >>, << >>)>>,
   <<Try(<<Error("BOUNDS")>>, << >>, << >>, <<Show(2)>>)>>}
NestedKeys ==
  {<<Apply(1, 2), Show(3)>>, <<ForIn(MapOf(1, 1), <<Pass>>, << >>), Show(3)>>,
   <<Try(<<Apply(1, 1)>>, <<Clause({"KeyError"}, <<Show(3)>>)>>, << >>, << >>)>>}
CallingBodies ==
  {<<Apply(i, 2), Show(4)>> : i \in {1, 2}}
    \union {<<ForIn(MapOf(i, 2), b, <<Show(5)>>)>> :
              i \in {1, 2}, b \in {<<Show(6)>>, <<Break>>, <<Raise("ValueError")>>, <<Ret(6)>>}}

CallbackPrograms ==
  { << Def(1, k), Def(1, n), Def(0, <<Try(b, h, << >>, f), Show(8)>>), Main(3) >> :
      k \in KeyBodies, n \in NestedKeys, b \in CallingBodies,
      h \in {<< >>} \union OneClause({"LookupError"}, {<<Show(7)>>}),
      f \in {<<Show(9)>>} }
-----------------------------------------------------------------------------
AllPrograms == ExitPrograms \union NestedPrograms \union CallbackPrograms
-----------------------------------------------------------------------------
\* The program on which the code departs from what its documents say, in six ways
\* one after the other.  What Python prints is 10, 20, 30, 40, 45, 50 and 60.
Tells(i, type, k) ==
  Try(<<CallF(i)>>, <<Clause({type}, <<Show(k)>>), Clause({}, <<Show(k + 1)>>)>>, << >>, << >>)

Departures ==
  { << \* a failure of the machine's own while an exception is handled
       Def(0, <<Try(<<Raise("KeyError")>>, <<Clause({}, <<Error("DIV_ZERO")>>)>>, << >>, << >>)>>),
       \* a bare raise after a call
       Def(0, <<Try(<<Raise("KeyError")>>, <<Clause({}, <<CallF(8), Bare>>)>>, << >>, << >>)>>),
       \* an exception handled inside a finally body
       Def(0, <<Try(<<Raise("TypeError")>>, << >>, << >>,
                    <<Try(<<Raise("KeyError")>>, <<Clause({"KeyError"}, <<Pass>>)>>, << >>, << >>)>>)>>),
       \* a finally body that raises while a return is pending
       Def(0, <<Try(<<Ret(1)>>, << >>, << >>, <<Show(40), Raise("KeyError")>>)>>),
       \* a break in the inner of two finally bodies that a return runs
       Def(0, <<For(1, <<Try(<<Try(<<Ret(1)>>, << >>, << >>, <<Break>>)>>, << >>, << >>, <<Show(50)>>)>>)>>),
       \* a loop that handles an exception for each item
       Def(0, <<For(30, <<Try(<<Raise("KeyError")>>, <<Clause({"KeyError"}, <<Pass>>)>>, << >>, << >>)>>),
                Show(60)>>),
       Def(0, <<Tells(1, "ZeroDivisionError", 10), Tells(2, "KeyError", 20), Tells(3, "TypeError", 30),
                Tells(4, "KeyError", 45), CallF(5), CallF(6)>>),
       Def(0, <<Pass>>),
       Main(7) >> }
-----------------------------------------------------------------------------
\* When a program halts, it has printed what it prints in Python and ended with
\* the exception it ends with in Python, or with none.
AsInPython ==
  status = "halted" =>
    LET meaning == Meaning(module.source)
    IN out = meaning.log /\ (IF last_error = "OK" THEN Null ELSE exception) = meaning.exception

\* Compiled code takes operands only from its own frame: no instruction, exit,
\* handler or callback leaves the stack below the base of the running frame.
OperandsIsolated == status = "running" => Len(stack) >= Cur.base

\* Where the code of function i ends.
CodeEnd(i) == IF i = Len(module.functions) THEN Len(module.bytecode)
              ELSE module.functions[i + 1].code_offset

\* Whatever exits were taken on the way, no handler is left installed when
\* control reaches the return that ends a function.
HandlersPaired ==
  At("RETURN") /\ ip + 1 = CodeEnd(Cur.func) => Cur.handlers = << >>

\* Every one of these programs ends: no exit, handler or callback goes back to
\* where it came from.
Termination == <>(status = "halted")
=============================================================================
