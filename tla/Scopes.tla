------------------------------ MODULE Scopes ------------------------------
(***************************************************************************)
(* compiler/symbols.py: which variable a name is.  The tree is walked once *)
(* to collect what every scope binds, reads and declares; then, from the   *)
(* inner scopes to the outer ones, a name read in a scope that does not    *)
(* bind it is captured from the nearest function that does, through every  *)
(* scope in between.                                                       *)
(*                                                                         *)
(* T maps the number of a scope's node to the scope.  Slots count from 1.  *)
(***************************************************************************)
EXTENDS Syntax

NewScope(parent, params, bindings) ==
  [parent |-> parent, params |-> params, bindings |-> bindings, referenced |-> << >>,
   globals_declared |-> {}, nonlocals_declared |-> {}, children |-> << >>,
   locals |-> << >>, cell_names |-> << >>, frees |-> << >>]

Added(seq, x) == IF Contains(seq, x) THEN seq ELSE Append(seq, x)

Bind(T, s, names) == [T EXCEPT ![s].bindings = FoldLeft(Added, @, names)]
Reference(T, s, x) == [T EXCEPT ![s].referenced = Added(@, x)]

\* _function_scope, or the scope of a comprehension, whose parameter is its
\* first iterator.
OpenScope(T, parent, n) ==
  LET scope == IF n.kind = "listcomp"
               THEN NewScope(parent, <<".0">>,
                             [i \in DOMAIN n.generators |-> n.generators[i].target])
               ELSE NewScope(parent, n.params, << >>)
  IN (n.node :> scope) @@ [T EXCEPT ![parent].children = Append(@, n.node)]

RECURSIVE Collect(_, _, _)

\* _collect_stmt, _collect_expr: a node that belongs to scope s, which is always in T;
\* the test has TLC evaluate T first.
Collect(T, s, n) ==
  LET bound == Bind(T, s, Target(n))
      All(t, r, nodes) == FoldLeft(LAMBDA u, m : Collect(u, r, m), t, nodes)
  IN IF s \notin DOMAIN T THEN T
     ELSE CASE n.kind = "name"     -> Reference(T, s, n.id)
            [] n.kind = "global"   -> [T EXCEPT ![s].globals_declared = @ \union {n.id}]
            [] n.kind = "nonlocal" -> [T EXCEPT ![s].nonlocals_declared = @ \union {n.id}]
            [] n.kind \in ScopeKinds ->
                 All(All(OpenScope(bound, s, n), s, Kids(n)), n.node, Inner(n))
            [] OTHER -> All(bound, s, Kids(n))

CollectModule(module) ==
  FoldLeft(LAMBDA T, n : Collect(T, 0, n), 0 :> NewScope(0, << >>, << >>), Inner(module))
-----------------------------------------------------------------------------
RECURSIVE Preorder(_, _), FindBinding(_, _, _)

Preorder(T, s) ==
  <<s>> \o FlattenSeq([i \in DOMAIN T[s].children |-> Preorder(T, T[s].children[i])])

\* Parameters and bindings that are not declared global or nonlocal.
LocalNames(scope) ==
  SelectSeq(FoldLeft(Added, << >>, scope.params \o scope.bindings),
            LAMBDA x : x \notin scope.globals_declared \union scope.nonlocals_declared)

\* _find_binding: the nearest function from s outward that has the local x, or
\* the module.
FindBinding(T, s, x) ==
  IF s = 0 \/ Contains(T[s].locals, x) THEN s ELSE FindBinding(T, T[s].parent, x)

RECURSIVE Propagate(_, _, _, _)

\* _propagate: the scopes between s and the owner read x as well.
Propagate(T, s, owner, x) ==
  IF T[s].parent = owner THEN T
  ELSE Propagate(Reference(T, T[s].parent, x), T[s].parent, owner, x)

\* A name read in scope s; scopes declare globals themselves.
Capture(T, s, x) ==
  LET owner == FindBinding(T, s, x)
  IN IF x \in T[s].globals_declared \/ owner \in {0, s} THEN T
     ELSE Propagate([T EXCEPT ![s].frees = Added(@, x),
                              ![owner].cell_names = Added(@, x)], s, owner, x)

\* _resolve.  Cells are numbered in the order of the locals.
Analyze(module) ==
  LET T     == CollectModule(module)
      order == Preorder(T, 0)
      named == [s \in DOMAIN T |->
                  IF s = 0 THEN T[s] ELSE [T[s] EXCEPT !.locals = LocalNames(T[s])]]
      bound == FoldLeft(LAMBDA t, s : FoldLeft(LAMBDA u, x : Capture(u, s, x), t, t[s].referenced),
                        named, Reverse(order))
  IN [s \in DOMAIN T |->
        [bound[s] EXCEPT !.cell_names =
           SelectSeq(bound[s].locals, LAMBDA x : Contains(bound[s].cell_names, x))]]

\* SymbolError: a nonlocal name that no enclosing function has.
NonlocalsBound(T) ==
  \A s \in DOMAIN T \ {0} : \A x \in T[s].nonlocals_declared : FindBinding(T, s, x) # 0
-----------------------------------------------------------------------------
PlaceOf(seq, x) == CHOOSE i \in DOMAIN seq : seq[i] = x

Slot(kind, i) == [kind |-> kind, index |-> i]

\* Definitions named Faulty... are mistakes a change of this file could make;
\* nothing uses them.
FaultyResolve(scope, locals, x) ==
  CASE Contains(locals, x) /\ Contains(scope.cell_names, x) ->
         Slot("cell", PlaceOf(scope.cell_names, x))
    [] Contains(locals, x) /\ ~Contains(scope.cell_names, x) -> Slot("local", PlaceOf(locals, x))
    [] ~Contains(locals, x) /\ Contains(scope.frees, x) ->
         Slot("cell", PlaceOf(scope.frees, x))
    [] OTHER -> Slot("global", 0)

\* Scope.resolve.  locals are those of the scope and the hidden ones its code
\* has declared so far; the captured names come after the cells.  The module
\* has only hidden locals.
Resolve(scope, locals, x) ==
  CASE x \in scope.globals_declared -> Slot("global", 0)
    [] x \notin scope.globals_declared /\ Contains(locals, x) ->
         IF Contains(scope.cell_names, x) THEN Slot("cell", PlaceOf(scope.cell_names, x))
         ELSE Slot("local", PlaceOf(locals, x))
    [] x \notin scope.globals_declared /\ ~Contains(locals, x) ->
         IF Contains(scope.frees, x)
         THEN Slot("cell", Len(scope.cell_names) + PlaceOf(scope.frees, x))
         ELSE Slot("global", 0)
=============================================================================
