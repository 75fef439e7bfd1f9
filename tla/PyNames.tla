------------------------------ MODULE PyNames ------------------------------
(***************************************************************************)
(* What docs/LANGUAGE.md and docs/COMPATIBILITY.md promise of the programs *)
(* NameCompiler compiles: their meaning in Python.  There are no slots and *)
(* no cells: every activation of a scope is a frame with variables of its  *)
(* own and a parent, the frame its definition ran in, and a name is looked *)
(* for outward.                                                            *)
(*                                                                         *)
(* A state holds the frames ever made, the module's first; what has been   *)
(* shown; the value last computed; the error that ended the program, if    *)
(* any; and whether the running body has returned.                         *)
(***************************************************************************)
EXTENDS Syntax, Objects

Ok(s)           == s.error = "none"
Give(s, v)      == [s EXCEPT !.value = v]
Raise(s, error) == [s EXCEPT !.error = error]

ListOf(es)      == [tag |-> "list", items |-> es]
FunctionAt(n, frame, defaults) ==
  [tag |-> "function", node |-> n, frame |-> frame, defaults |-> defaults]

\* The names the nodes of a scope bind, and declare.
RECURSIVE BoundBy(_), DeclaredBy(_, _)
BoundBy(n) == Range(Target(n)) \union UNION {BoundBy(m) : m \in Range(Kids(n))}
DeclaredBy(kind, n) ==
  (IF n.kind = kind THEN {n.id} ELSE {}) \union UNION {DeclaredBy(kind, m) : m \in Range(Kids(n))}

Declared(kind, n) == UNION {DeclaredBy(kind, m) : m \in Range(Inner(n))}

\* The variables an activation of n has.
LocalsOf(n) ==
  LET bound == UNION {BoundBy(m) : m \in Range(Inner(n))}
  IN IF n.kind = "listcomp"
     THEN bound \union {n.generators[i].target : i \in DOMAIN n.generators}
     ELSE (Range(n.params) \union bound) \ (Declared("global", n) \union Declared("nonlocal", n))

\* The frame whose variable x is, seen from frame f: a global declaration sends
\* the search to the module.
RECURSIVE Home(_, _, _)
Home(s, f, x) ==
  LET n == s.frames[f].node
  IN IF f = 1 \/ x \in Declared("global", n) THEN 1
     ELSE IF x \in LocalsOf(n) THEN f ELSE Home(s, s.frames[f].parent, x)

Load(s, f, x) ==
  LET variables == s.frames[Home(s, f, x)].variables
  IN IF x \in DOMAIN variables THEN Give(s, variables[x]) ELSE Raise(s, "NameError")

Store(s, f, x, v) == [s EXCEPT !.frames[Home(s, f, x)].variables = (x :> v) @@ @]

Delete(s, f, x) ==
  LET home      == Home(s, f, x)
      variables == s.frames[home].variables
  IN IF x \notin DOMAIN variables THEN Raise(s, "NameError")
     ELSE [s EXCEPT !.frames[home].variables = [y \in DOMAIN variables \ {x} |-> variables[y]]]

IsTrue(v) ==
  CASE v.tag = "int"  -> v.n # 0
    [] v.tag = "bool" -> v.is
    [] v.tag = "none" -> FALSE
    [] v.tag \in {"tuple", "list"} -> v.items # << >>
    [] OTHER -> TRUE

RECURSIVE Displayed(_)
Displayed(v) ==
  CASE v.tag \in {"tuple", "list"} ->
         [v EXCEPT !.items = [i \in DOMAIN v.items |-> Displayed(v.items[i])]]
    [] v.tag = "function" -> [tag |-> "function"]
    [] OTHER -> v
-----------------------------------------------------------------------------
(***************************************************************************)
(* Do(s, f, n) computes node n in frame f.  Next to the nodes of Syntax    *)
(* there are nodes for what is left of one: the rest of a body, of a       *)
(* comparison, of the items of a loop.  After an error or a return nothing *)
(* is computed.                                                            *)
(***************************************************************************)
RECURSIVE Do(_, _, _)

All(nodes)            == [kind |-> "all", nodes |-> nodes]
Links(l, operands)    == [kind |-> "links", left |-> l, operands |-> operands]
Items(n, i, items)    == [kind |-> "items", of |-> n, i |-> i, items |-> items]
Loop(n, items)        == [kind |-> "loop", of |-> n, items |-> items]
Enter(v, args)        == [kind |-> "enter", callee |-> v, args |-> args]

IsIterable(v) == v.tag \in {"tuple", "list"}

\* The nodes in order; their values are in values.
DoAll(s, f, nodes) ==
  IF nodes = << >> THEN [s EXCEPT !.values = << >>]
  ELSE LET first == Do(s, f, Head(nodes))
       IN [Do(first, f, All(Tail(nodes))) EXCEPT !.values = <<first.value>> \o @]

\* l < r1 < r2 ...: stops at the first that does not hold.
Compared(r, f, l, rest) ==
  CASE ~Ok(r) -> r
    [] Ok(r) /\ ~(IsInt(l) /\ IsInt(r.value)) -> Raise(r, "TypeError")
    [] Ok(r) /\ IsInt(l) /\ IsInt(r.value) ->
         IF IntOf(l) < IntOf(r.value) /\ rest # << >> THEN Do(r, f, Links(r.value, rest))
         ELSE Give(r, Truth(IntOf(l) < IntOf(r.value)))

\* and, or: the first value that decides, or the last.
Decided(r, f, n) ==
  IF ~Ok(r) \/ Len(n.operands) = 1 \/ IsTrue(r.value) = (n.kind = "or") THEN r
  ELSE Do(r, f, [n EXCEPT !.operands = Tail(@)])

Sum(s) ==
  CASE ~Ok(s) -> s
    [] Ok(s) /\ (\A v \in Range(s.values) : IsInt(v)) ->
         Give(s, Num(IntOf(s.values[1]) + IntOf(s.values[2])))
    [] Ok(s) /\ (\E v \in Range(s.values) : ~IsInt(v)) -> Raise(s, "TypeError")

Chosen(c, f, then, else) == IF Ok(c) /\ IsTrue(c.value) THEN Do(c, f, then) ELSE Do(c, f, else)
-----------------------------------------------------------------------------
\* A call.  The native t shows its first argument and returns its last.
Applied(s, v, args) ==
  CASE ~Ok(s) -> s
    [] Ok(s) /\ v.tag = "native" ->
         [s EXCEPT !.log = Append(@, Displayed(args[1])), !.value = Last(args)]
    [] Ok(s) /\ v.tag = "function" -> Do(s, v.frame, Enter(v, args))
    [] Ok(s) /\ v.tag \notin {"native", "function"} -> Raise(s, "TypeError")

Entered(s, frame) == [s EXCEPT !.frames = Append(@, frame), !.value = None]

\* A body that does not return a value returns None.
Left(r) == [r EXCEPT !.returned = FALSE, !.value = IF r.returned THEN @ ELSE None]

\* An activation of function v: missing arguments are the last defaults.
Activate(s, v, args) ==
  LET n       == v.node
      missing == Len(n.params) - Len(args)
      given   == args \o SubSeq(v.defaults, Len(v.defaults) - missing + 1, Len(v.defaults))
      frame   == [node |-> n, parent |-> v.frame,
                  variables |-> [x \in Range(n.params) |->
                                   given[CHOOSE i \in DOMAIN n.params : n.params[i] = x]]]
  IN IF missing < 0 \/ missing > Len(v.defaults) THEN Raise(s, "TypeError")
     ELSE IF n.kind = "lambda" THEN Do(Entered(s, frame), Len(s.frames) + 1, n.body)
     ELSE Left(Do(Entered(s, frame), Len(s.frames) + 1, Body(n.body)))

\* A decorated function is what the decorators make of it, the last one first.
Defined(s, f, n) ==
  LET count    == Len(n.decorators)
      function == FunctionAt(n, f, SubSeq(s.values, count + 1, Len(s.values)))
      Decorate(r, d) == Applied(r, d, <<r.value>>)
  IN FoldLeft(Decorate, Give(s, function), Reverse(SubSeq(s.values, 1, count)))
-----------------------------------------------------------------------------
\* The work left with items for generator i of comprehension n; made collects
\* the results.
Collected(r) == IF Ok(r) THEN [r EXCEPT !.made = Append(@, r.value)] ELSE r

Iterated(r, f, n, i) ==
  CASE ~Ok(r) -> r
    [] Ok(r) /\ IsIterable(r.value) -> Do(r, f, Items(n, i, r.value.items))
    [] Ok(r) /\ ~IsIterable(r.value) -> Raise(r, "TypeError")

\* An item that the conditions let through goes on to the next generator.
Taken(tested, f, n, i) ==
  CASE ~Ok(tested) \/ ~IsTrue(tested.value) -> tested
    [] Ok(tested) /\ IsTrue(tested.value) /\ i = Len(n.generators) ->
         Collected(Do(tested, f, n.elt))
    [] Ok(tested) /\ IsTrue(tested.value) /\ i < Len(n.generators) ->
         Iterated(Do(tested, f, n.generators[i + 1].iter), f, n, i + 1)

DoItem(s, f, n, i, item) ==
  LET stored == Store(s, f, n.generators[i].target, item)
  IN Taken(Do(stored, f, BoolOp("and", <<Const(Truth(TRUE))>> \o n.generators[i].ifs)), f, n, i)

\* A comprehension is an activation of its own; its first iterable is not.
Comprehended(first, f, n, outer) ==
  LET frame   == [node |-> n, parent |-> f, variables |-> << >>]
      entered == [first EXCEPT !.frames = Append(@, frame), !.made = << >>]
      r       == Iterated(entered, Len(first.frames) + 1, n, 1)
  IN IF Ok(r) THEN [r EXCEPT !.made = outer, !.value = ListOf(r.made)] ELSE r
-----------------------------------------------------------------------------
StoreValue(s, f, x) == IF Ok(s) THEN Store(s, f, x, s.value) ELSE s

\* A for statement with items left, and without; a while statement.
Looped(r, f, n) ==
  CASE ~Ok(r) -> r
    [] Ok(r) /\ IsIterable(r.value) -> Do(r, f, Loop(n, r.value.items))
    [] Ok(r) /\ ~IsIterable(r.value) -> Raise(r, "TypeError")

DoLoop(s, f, n, items) ==
  IF items = << >> THEN Do(s, f, Body(n.orelse))
  ELSE Do(Do(Store(s, f, n.target, Head(items)), f, Body(n.body)), f, Loop(n, Tail(items)))

Do(s, f, n) ==
  IF ~Ok(s) \/ s.returned THEN s
  ELSE
  CASE n.kind = "const"     -> Give(s, n.value)
    [] n.kind = "name"      -> Load(s, f, n.id)
    [] n.kind = "lambda"    -> Give(s, FunctionAt(n, f, << >>))
    [] n.kind = "listcomp"  -> Comprehended(Do(s, f, n.generators[1].iter), f, n, s.made)
    [] n.kind = "add"       -> Sum(DoAll(s, f, n.operands))
    [] n.kind = "compare"   -> LET l == Do(s, f, Head(n.operands))
                               IN Do(l, f, Links(l.value, Tail(n.operands)))
    [] n.kind = "links"     -> Compared(Do(s, f, Head(n.operands)), f, n.left, Tail(n.operands))
    [] n.kind \in {"and", "or"} -> Decided(Do(s, f, Head(n.operands)), f, n)
    [] n.kind = "ifexp"     -> Chosen(Do(s, f, n.test), f, n.body, n.orelse)
    [] n.kind = "tuple"     -> LET r == DoAll(s, f, n.elts) IN Give(r, Tuple(r.values))
    [] n.kind = "call"      -> LET r == DoAll(s, f, <<n.func>> \o n.args)
                               IN Applied(r, Head(r.values), Tail(r.values))
    [] n.kind = "enter"     -> Activate(s, n.callee, n.args)
    [] n.kind = "items"     -> IF n.items = << >> THEN s
                               ELSE Do(DoItem(s, f, n.of, n.i, Head(n.items)), f,
                                       Items(n.of, n.i, Tail(n.items)))
    [] n.kind = "expr"      -> Do(s, f, n.value)
    [] n.kind = "assign"    -> StoreValue(Do(s, f, n.value), f, n.target)
    [] n.kind = "augassign" -> StoreValue(Sum(DoAll(s, f, <<Name(n.target), n.value>>)), f, n.target)
    [] n.kind = "delete"    -> Delete(s, f, n.target)
    [] n.kind = "return"    -> [Do(s, f, n.value) EXCEPT !.returned = TRUE]
    [] n.kind = "def"       -> StoreValue(Defined(DoAll(s, f, n.decorators \o n.defaults), f, n),
                                          f, n.name)
    [] n.kind = "if"        -> Chosen(Do(s, f, n.test), f, Body(n.body), Body(n.orelse))
    [] n.kind = "while"     -> Chosen(Do(s, f, n.test), f, Body(n.body \o <<n>>), Body(n.orelse))
    [] n.kind = "for"       -> Looped(Do(s, f, n.iter), f, n)
    [] n.kind = "loop"      -> DoLoop(s, f, n.of, n.items)
    [] n.kind = "all"       -> DoAll(s, f, n.nodes)
    [] n.kind = "body"      -> IF n.statements = << >> THEN s
                               ELSE Do(Do(s, f, Head(n.statements)), f, Body(Tail(n.statements)))
    [] n.kind \in {"global", "nonlocal"} -> s
-----------------------------------------------------------------------------
\* What a module shows and how it ends.
Meaning(module) ==
  LET start == [ frames |-> <<[node |-> module, parent |-> 1, variables |-> ("t" :> Native)]>>,
                 log |-> << >>, error |-> "none", value |-> None, values |-> << >>,
                 returned |-> FALSE, made |-> << >> ]
      end   == Do(start, 1, Body(module.body))
  IN [log |-> end.log, error |-> end.error]
=============================================================================
