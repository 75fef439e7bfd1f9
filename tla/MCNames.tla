------------------------------ MODULE MCNames ------------------------------
(***************************************************************************)
(* Programs about names, closures and the order of evaluation: compiled by *)
(* NameCompiler, run by ClosureVm, and compared with PyNames.              *)
(***************************************************************************)
EXTENDS ClosureVm, PyNames

\* t(e) shows e; T(k, v) shows k and is v.
X        == Name("x")
K(k)     == Const(Num(k))
Shows(e) == Call(Name("t"), <<e>>)
Tell(e)  == Expr(Shows(e))
T(k, v)  == Call(Name("t"), <<K(k), K(v)>>)
Run(f)   == Expr(Call(Name(f), << >>))
Ints(k)  == Display([i \in 1..k |-> K(i)])

Optional(b, statement) == IF b THEN <<statement>> ELSE << >>
-----------------------------------------------------------------------------
(***************************************************************************)
(* Scopes: three functions in each other, each with or without an          *)
(* assignment of x, a declaration of it and a use of it.                   *)
(***************************************************************************)
Declaration(d) ==
  CASE d = "none"     -> << >>
    [] d = "global"   -> <<Global("x")>>
    [] d = "nonlocal" -> <<Nonlocal("x")>>

Uses ==
  [ none |-> << >>, assign |-> <<Assign("x", K(3))>>,
    add |-> <<AugAssign("x", K(10))>>, delete |-> <<Del("x")>>,
    forget |-> <<Assign("x", K(4)), Del("x")>> ]

Level(node, f, declared, assigned, body) ==
  Def(node, f, << >>, Declaration(declared) \o Optional(assigned, Assign("x", K(node))) \o body)

\* c says, from outside in, what the levels declare and assign, how the inner one
\* uses x and which of them read it.
ThreeLevels(c) ==
  LET inner  == Level(3, "inner", c.declared[3], FALSE, Uses[c.use] \o Optional(c.reads[3], Tell(X)))
      middle == Level(2, "middle", c.declared[2], c.assigned[3],
                      <<inner, Run("inner")>> \o Optional(c.reads[2], Tell(X)))
      outer  == Level(1, "outer", c.declared[1], c.assigned[2],
                      <<middle, Run("middle")>> \o Optional(c.reads[1], Tell(X)))
  IN Module(Optional(c.assigned[1], Assign("x", K(0))) \o <<outer, Run("outer"), Tell(X)>>)

\* Whether level i of c has its own x, and what an enclosing x would be found as.
OwnX(c, i) ==
  c.declared[i] = "none" /\ (IF i = 3 THEN c.use # "none" ELSE c.assigned[i + 1])
Enclosing(c, i) == \E j \in 1..(i - 1) : OwnX(c, j)

\* Python accepts the program; left out are the departures of the last section:
\* a nonlocal x that is bound but not read, and a global declaration between
\* a use and the function whose x it would be.
Admitted(c) ==
  /\ \A i \in 2..3 : c.declared[i] = "nonlocal" =>
       /\ \E j \in 1..(i - 1) : OwnX(c, j) /\ \A k \in j..(i - 1) : c.declared[k] # "global"
       /\ c.reads[i]
  /\ c.declared[2] = "global" =>
       ~(OwnX(c, 1) /\ c.declared[3] = "none" /\ ~OwnX(c, 3) /\ c.reads[3])

Cases ==
  {c \in [ declared : {"none", "global"} \X {"none", "global", "nonlocal"}
                        \X {"none", "global", "nonlocal"},
           assigned : BOOLEAN \X BOOLEAN \X BOOLEAN,
           use      : DOMAIN Uses,
           reads    : {TRUE} \X BOOLEAN \X BOOLEAN ] : Admitted(c)}

ScopePrograms == {ThreeLevels(c) : c \in Cases}
-----------------------------------------------------------------------------
(***************************************************************************)
(* Closures: which activation's variable a name is.                        *)
(***************************************************************************)
N  == Name("n")
F  == Name("f")
G  == Name("g")
Use(f, args) == Call(Name(f), args)

Counter ==
  Def(1, "counter", <<"n">>,
      <<Def(2, "step", << >>, <<Nonlocal("n"), Assign("n", Add(N, K(1))), Return(N)>>),
        Return(Name("step"))>>)

ClosurePrograms ==
  { \* every call has its own cell
    Module(<<Counter, Assign("f", Use("counter", <<K(0)>>)), Assign("g", Use("counter", <<K(10)>>)),
             Tell(Use("f", << >>)), Tell(Use("g", << >>)), Tell(Use("f", << >>))>>),
    \* two functions share one
    Module(<<Def(1, "pair", << >>,
                 <<Assign("n", K(0)),
                   Def(2, "up", << >>, <<Nonlocal("n"), AugAssign("n", K(1)), Tell(N)>>),
                   Def(3, "get", << >>, <<Return(N)>>),
                   Run("up"), Run("up"), Tell(Use("get", << >>)), Assign("n", K(7)),
                   Return(Name("get"))>>),
             Tell(Call(Use("pair", << >>), << >>))>>),
    \* the functions a loop makes share its variable; a default does not
    Module(<<Def(1, "make", << >>,
                 <<ForIn("i", Ints(2),
                         <<If(Less(<<Name("i"), K(2)>>),
                              <<FunctionDef(2, "f", <<"v">>, <<Name("i")>>, << >>,
                                            <<Return(Add(Name("v"), Name("i")))>>)>>, << >>)>>,
                         << >>),
                   Return(Display(<<F, Lambda(3, << >>, Name("i"))>>))>>),
             ForIn("g", Use("make", << >>), <<Tell(Use("g", << >>))>>, <<Tell(K(9))>>)>>),
    \* through two scopes that do not use the name, past a local of the same name
    Module(<<Def(1, "a", <<"x", "y">>,
                 <<Def(2, "b", <<"y">>,
                       <<Def(3, "c", << >>,
                             <<Return(Lambda(4, <<"z">>, Display(<<X, Name("y"), Name("z")>>)))>>),
                         Return(Use("c", << >>))>>),
                   Assign("x", Add(X, K(1))),
                   Return(Use("b", <<K(5)>>))>>),
             Tell(Call(Use("a", <<K(1), K(2)>>), <<K(3)>>))>>),
    \* cells and captured names in one function, in another order than the locals
    Module(<<Def(1, "a", <<"p", "q", "r">>,
                 <<Def(2, "b", <<"s">>,
                       <<Def(3, "c", << >>, <<Nonlocal("r"), AugAssign("r", Name("s")),
                                              Return(Display(<<Name("r"), Name("p"), Name("s")>>))>>),
                         Assign("s", Add(Name("s"), Name("q"))),
                         Return(Use("c", << >>))>>),
                   Tell(Use("b", <<K(40)>>)), Return(Name("r"))>>),
             Tell(Use("a", <<K(1), K(2), K(3)>>))>>),
    \* every activation of a recursive function has its own variable
    Module(<<Def(1, "r", <<"n">>,
                 <<Def(2, "f", << >>, <<Return(N)>>),
                   If(Less(<<K(0), N>>),
                      <<Assign("g", Use("r", <<Add(N, K(-1))>>)), Tell(Use("g", << >>))>>, << >>),
                   AugAssign("n", K(10)), Return(F)>>),
             Tell(Call(Use("r", <<K(2)>>), << >>))>>),
    \* a nested function that calls itself
    Module(<<Def(1, "outer", << >>,
                 <<Def(2, "down", <<"n">>,
                       <<Tell(N),
                         If(Less(<<K(0), N>>), <<Expr(Use("down", <<Add(N, K(-1))>>))>>, << >>)>>),
                   Expr(Use("down", <<K(2)>>))>>),
             Run("outer")>>),
    \* a captured variable that is deleted, and set again
    Module(<<Def(1, "a", <<"n">>,
                 <<Def(2, "f", << >>, <<Return(N)>>), Tell(Use("f", << >>)), Del("n"),
                   Assign("n", K(2)), Tell(Use("f", << >>)), Del("n"), Tell(Use("f", << >>))>>),
             Expr(Use("a", <<K(1)>>))>>),
    \* decorators, from the inside out, one of them a closure
    Module(<<Def(1, "by", <<"k">>,
                 <<Tell(Name("k")),
                   Return(Lambda(2, <<"g">>,
                                 Lambda(3, <<"v">>, Add(Name("k"), Use("g", <<Name("v")>>)))))>>),
             FunctionDef(4, "f", <<"v">>, << >>, <<Use("by", <<K(1)>>), Use("by", <<K(20)>>)>>,
                         <<Tell(Name("v")), Return(Name("v"))>>),
             Tell(Use("f", <<K(300)>>))>>),
    \* decorators with a comprehension, numbered as the decorators are
    Module(<<Def(1, "by", <<"k">>,
                 <<Tell(Name("k")),
                   Return(Lambda(2, <<"g">>,
                                 Lambda(3, <<"v">>, Display(<<Name("k"), Use("g", <<Name("v")>>)>>))))>>),
             FunctionDef(4, "f", <<"v">>, << >>,
                         <<Use("by", <<ListComp(5, Name("u"), <<For("u", Ints(2), << >>)>>)>>),
                           Use("by", <<ListComp(6, Name("u"), <<For("u", Ints(1), << >>)>>)>>)>>,
                         <<Tell(Name("v")), Return(Name("v"))>>),
             Tell(Use("f", <<K(300)>>))>>),
    \* too few arguments, and too many for a function with a default
    Module(<<FunctionDef(1, "f", <<"a", "b">>, <<T(1, 2)>>, << >>,
                         <<Return(Add(Name("a"), Name("b")))>>),
             Tell(Use("f", <<K(1)>>)), Tell(Use("f", <<K(1), K(5)>>)),
             Tell(Use("f", <<T(3, 3), T(4, 4), T(5, 5)>>))>>),
    Module(<<Def(1, "f", <<"a">>, <<Return(Name("a"))>>), Tell(Use("f", << >>))>>),
    Module(<<Tell(K(1)), Tell(Call(T(2, 2), <<T(3, 3)>>))>>),
    \* a hidden iterator for every depth, in the module and in a function
    Module(<<ForIn("a", Ints(2),
                   <<ForIn("b", Ints(2), <<Tell(Add(Name("a"), Name("b")))>>, <<Tell(Name("a"))>>)>>,
                   <<ForIn("a", Ints(1), <<Tell(Name("b"))>>, << >>)>>)>>),
    Module(<<Def(1, "f", <<"n">>,
                 <<ForIn("a", Ints(2),
                         <<ForIn("n", Ints(2),
                                 <<If(Less(<<Name("a"), N>>), <<Return(Lambda(2, << >>, Name("a")))>>,
                                      << >>)>>, << >>)>>,
                         << >>)>>),
             Tell(Call(Use("f", <<K(3)>>), << >>))>>),
    Module(<<Assign("n", K(0)),
             While(Less(<<N, K(2)>>), <<AugAssign("n", K(1)), Tell(N)>>, <<Tell(K(9))>>)>>) }
-----------------------------------------------------------------------------
(***************************************************************************)
(* Comprehensions, in the module and in a function with a parameter x.     *)
(***************************************************************************)
Y == Name("y")

Comprehensions ==
  { \* the variable is private, the first iterable is not
    ListComp(2, X, <<For("x", Display(<<X, Add(X, K(1))>>), << >>)>>),
    ListComp(2, Add(X, Y), <<For("y", Ints(2), << >>)>>),
    ListComp(2, Display(<<X, Y>>), <<For("x", Ints(2), << >>), For("y", Display(<<X, K(7)>>), << >>)>>),
    ListComp(2, Y, <<For("y", Ints(3), <<Less(<<X, Y>>), T(1, 1)>>)>>),
    ListComp(2, Y, <<For("x", Ints(2), <<Less(<<K(1), X>>)>>), For("y", Ints(2), <<T(1, 0)>>)>>),
    \* the functions it makes share its variable
    ListComp(2, Lambda(3, << >>, Add(X, Y)), <<For("y", Ints(2), << >>)>>),
    ListComp(2, Lambda(3, <<"x">>, X), <<For("x", Ints(2), << >>)>>),
    \* one in another: in its result, its condition and its iterables
    ListComp(2, ListComp(3, Add(X, Y), <<For("y", Ints(2), << >>)>>), <<For("x", Ints(2), << >>)>>),
    ListComp(2, ListComp(3, Add(X, Y), <<For("x", Ints(2), << >>)>>), <<For("y", Ints(2), << >>)>>),
    ListComp(2, Y, <<For("y", ListComp(3, Add(X, Y), <<For("y", Ints(2), << >>)>>), << >>)>>),
    ListComp(2, Y, <<For("y", Ints(2), <<ListComp(3, Y, <<For("x", Ints(2), <<Less(<<X, Y>>)>>)>>)>>)>>),
    ListComp(2, Y, <<For("x", Ints(2), << >>), For("y", ListComp(3, X, <<For("y", Ints(2), << >>)>>), << >>)>>),
    \* an element, a condition and an iterable that fail
    ListComp(2, Name("z"), <<For("y", Ints(2), << >>)>>),
    ListComp(2, Y, <<For("y", Ints(2), <<T(1, 1), Name("y_")>>)>>),
    ListComp(2, Y, <<For("y", X, << >>)>>) }

\* In the module; in a function, with x set afterwards; and called from outside.
InModule(c) == Module(<<Assign("x", K(1)), Tell(c), Tell(X), Tell(Y)>>)
InFunction(c) ==
  Module(<<Def(1, "f", <<"x">>, <<Assign("g", c), Tell(G), Assign("x", K(5)), Tell(X), Return(G)>>),
           Tell(Use("f", <<K(1)>>)), Tell(X)>>)
Outside(c) ==
  Module(<<Assign("y", K(0)),
           Def(1, "f", <<"x">>, <<Assign("g", c), AugAssign("x", K(20)), Return(G)>>),
           ForIn("g", Use("f", <<K(1)>>), <<Tell(Use("g", << >>))>>, << >>)>>)

ComprehensionPrograms ==
  {InModule(c) : c \in Comprehensions} \union {InFunction(c) : c \in Comprehensions}
    \union {Outside(c) : c \in Comprehensions}
-----------------------------------------------------------------------------
(***************************************************************************)
(* The order of evaluation: every operator on operands that show when they *)
(* are evaluated, one of which may be an operator again.                   *)
(***************************************************************************)
Leaves(k) == {T(k, 0), T(k, 1)}

Operators(A, B, C) ==
  {Add(a, b) : a \in A, b \in B} \union {Less(<<a, b>>) : a \in A, b \in B}
    \union {Less(<<a, b, c>>) : a \in A, b \in B, c \in C}
    \union {BoolOp(op, <<a, b>>) : op \in {"and", "or"}, a \in A, b \in B}
    \union {BoolOp(op, <<a, b, c>>) : op \in {"and", "or"}, a \in A, b \in B, c \in C}
    \union {IfExp(a, b, c) : a \in A, b \in B, c \in C}
    \union {Display(<<a, b>>) : a \in A, b \in B}
    \union {Call(Name("t"), <<a, b>>) : a \in A, b \in B}

Simple(k) == Operators(Leaves(k), Leaves(k + 1), {T(k + 2, 2)})

OrderPrograms ==
  {Module(<<Assign("n", e), Tell(N)>>) :
     e \in Operators(Simple(1), {T(4, 1)}, {T(5, 2)}) \union Operators(Leaves(1), Simple(2), {T(5, 2)})
             \union Operators({T(1, 1)}, {T(2, 0)}, Simple(3))}
-----------------------------------------------------------------------------
\* One program that meets one departure from Python after another: a nonlocal
\* that is only assigned; a comprehension inside the element of one with two
\* generators; a captured variable deleted twice.
Departures ==
  { Module(<<Def(1, "a", << >>,
                 <<Assign("n", K(1)), Def(2, "b", << >>, <<Nonlocal("n"), Assign("n", K(2))>>),
                   Run("b"), Tell(N)>>),
             Run("a"),
             Tell(ListComp(3, ListComp(4, Y, <<For("y", Ints(2), << >>)>>),
                           <<For("a", Ints(2), << >>), For("b", Ints(2), << >>)>>)),
             Def(5, "d", <<"n">>,
                 <<Def(6, "e", << >>, <<Return(N)>>), Del("n"), Del("n"), Tell(K(9))>>),
             Expr(Use("d", <<K(1)>>))>>) }
-----------------------------------------------------------------------------
AllPrograms ==
  ScopePrograms \union ClosurePrograms \union ComprehensionPrograms \union OrderPrograms
-----------------------------------------------------------------------------
\* What Python calls the failure that ended the program; UnboundLocalError is a
\* NameError.
ErrorName ==
  CASE status \in {"STACK", "FUNC_NOT_FOUND"} -> "NameError"
    [] status = "TYPE"    -> "TypeError"
    [] status = "halted"  -> "none"
    [] status = "refused" -> "CompileError"

\* When a program ends, it has shown what it shows in Python, in that order, and
\* ended as it ends in Python.
NamesAsInPython ==
  status \notin {"source", "compiled", "running"} =>
    LET meaning == Meaning(source) IN log = meaning.log /\ ErrorName = meaning.error

\* Wherever control comes from, a statement starts without operands of its
\* function, and a return finds exactly the value to return.
StatementsStartEmpty ==
  status = "running" =>
    /\ Cur.ip \in functions[Cur.fn].starts => Len(stack) = Cur.base
    /\ At("RETURN") => Len(stack) = Cur.base + 1
=============================================================================
