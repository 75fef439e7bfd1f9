------------------------------ MODULE Syntax ------------------------------
(***************************************************************************)
(* The syntax trees of the programs NameCompiler compiles and PyNames      *)
(* gives a meaning: Python's ast, as far as names, functions,              *)
(* comprehensions and the order of evaluation need it.  A node is a record *)
(* with a kind; a node that opens a scope has a number of its own, and the *)
(* module is node 0.                                                       *)
(***************************************************************************)
EXTENDS Integers, SequencesExt

\* Expressions.  A comparison only uses <, a parameter may have a default.
Const(v)            == [kind |-> "const", value |-> v]
Name(x)             == [kind |-> "name", id |-> x]
Call(f, args)       == [kind |-> "call", func |-> f, args |-> args]
Add(l, r)           == [kind |-> "add", operands |-> <<l, r>>]
Less(es)            == [kind |-> "compare", operands |-> es]
BoolOp(op, es)      == [kind |-> op, operands |-> es]
IfExp(c, b, o)      == [kind |-> "ifexp", test |-> c, body |-> b, orelse |-> o]
Display(es)         == [kind |-> "tuple", elts |-> es]
Lambda(n, params, e) ==
  [kind |-> "lambda", node |-> n, params |-> params, defaults |-> << >>, body |-> e]
ListComp(n, elt, generators) ==
  [kind |-> "listcomp", node |-> n, elt |-> elt, generators |-> generators]
For(target, iter, ifs) == [target |-> target, iter |-> iter, ifs |-> ifs]

\* Statements.
Expr(e)             == [kind |-> "expr", value |-> e]
Assign(x, e)        == [kind |-> "assign", target |-> x, value |-> e]
AugAssign(x, e)     == [kind |-> "augassign", target |-> x, value |-> e]
Del(x)              == [kind |-> "delete", target |-> x]
Return(e)           == [kind |-> "return", value |-> e]
If(c, b, o)         == [kind |-> "if", test |-> c, body |-> b, orelse |-> o]
While(c, b, o)      == [kind |-> "while", test |-> c, body |-> b, orelse |-> o]
ForIn(x, e, b, o)   == [kind |-> "for", target |-> x, iter |-> e, body |-> b, orelse |-> o]
Global(x)           == [kind |-> "global", id |-> x]
Nonlocal(x)         == [kind |-> "nonlocal", id |-> x]
FunctionDef(n, f, params, defaults, decorators, body) ==
  [kind |-> "def", node |-> n, name |-> f, params |-> params, defaults |-> defaults,
   decorators |-> decorators, body |-> body]
Def(n, f, params, body) == FunctionDef(n, f, params, << >>, << >>, body)
Module(body)        == [kind |-> "module", node |-> 0, params |-> << >>, body |-> body]

\* The statements of a block.
Body(statements)    == [kind |-> "body", statements |-> statements]

StatementKinds ==
  {"expr", "assign", "augassign", "delete", "return", "def", "if", "while", "for", "global",
   "nonlocal"}
ScopeKinds == {"def", "lambda", "listcomp", "module"}

\* The name a statement binds, as a sequence of none or one.
Target(n) ==
  IF n.kind \in {"assign", "augassign", "delete", "for"} THEN <<n.target>>
  ELSE IF n.kind = "def" THEN <<n.name>> ELSE << >>

\* The nodes under n that belong to the scope n is in, in the order of ast.
Kids(n) ==
  CASE n.kind \in {"add", "compare", "and", "or"} -> n.operands
    [] n.kind = "call"     -> <<n.func>> \o n.args
    [] n.kind = "tuple"    -> n.elts
    [] n.kind = "ifexp"    -> <<n.test, n.body, n.orelse>>
    [] n.kind = "lambda"   -> n.defaults
    [] n.kind = "def"      -> n.decorators \o n.defaults
    [] n.kind = "listcomp" -> <<n.generators[1].iter>>
    [] n.kind \in {"expr", "assign", "augassign", "return"} -> <<n.value>>
    [] n.kind \in {"if", "while"} -> <<n.test>> \o n.body \o n.orelse
    [] n.kind = "for"      -> <<n.iter>> \o n.body \o n.orelse
    [] OTHER               -> << >>

\* The nodes that belong to the scope n opens; the targets of a comprehension
\* are names it binds.
Inner(n) ==
  CASE n.kind \in {"def", "module"} -> n.body
    [] n.kind = "lambda"   -> <<n.body>>
    [] n.kind = "listcomp" ->
         FlattenSeq([i \in DOMAIN n.generators |->
                       (IF i = 1 THEN << >> ELSE <<n.generators[i].iter>>) \o n.generators[i].ifs])
           \o <<n.elt>>
=============================================================================
