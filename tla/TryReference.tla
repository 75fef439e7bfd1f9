---------------------------- MODULE TryReference ----------------------------
(***************************************************************************)
(* What docs/LANGUAGE.md and docs/COMPATIBILITY.md promise of the          *)
(* statements TryCompiler compiles: their meaning in Python.  Executing a  *)
(* body with a given active exception yields what it prints and how it     *)
(* ends.                                                                   *)
(***************************************************************************)
EXTENDS Bytecode, Integers, SequencesExt

Ends(how, what) == [how |-> how, what |-> what]
Normal          == Ends("normal", None)
Raises(e)       == Ends("raise", e)

Result(log, end) == [log |-> log, end |-> end]
Silent(end)      == Result(<< >>, end)

\* The result r preceded by what was printed before it.
After(log, r) == [r EXCEPT !.log = log \o @]

Matches(e, types) == types = {} \/ \E t \in types : t \in Ancestors[e.type]

\* The exception an error outcome of a native operation raises.
ErrorException(o) == Exc(IF o = "raise" THEN "KeyError" ELSE ErrorTypeName[o])

RECURSIVE Run(_, _, _), RunCalls(_, _, _, _), RunLoop(_, _, _, _),
           RunStmt(_, _, _), RunExcepts(_, _, _, _, _)

\* program holds the functions of the module; active is the exception being
\* handled, Null if none is.
Run(program, body, active) ==
  IF body = << >> THEN Silent(Normal)
  ELSE LET first == RunStmt(program, Head(body), active)
       IN IF first.end = Normal THEN After(first.log, Run(program, Tail(body), active)) ELSE first

\* A call with n arguments evaluates to a value or raises; the active exception
\* is the caller's.
RunCall(program, callable, n, active) ==
  CASE callable.tag = "function" ->
         LET r == Run(program, program[callable.index].body, active)
         IN IF program[callable.index].params # n THEN Silent(Raises(Exc("TypeError")))
            ELSE IF r.end.how = "raise" THEN r ELSE Result(r.log, Normal)
    [] callable.tag = "native" ->
         Silent(IF callable.kind = "value" THEN Normal ELSE Raises(ErrorException(callable.kind)))

\* n calls are left, one after the other.
RunCalls(program, callable, n, active) ==
  IF n = 0 THEN Silent(Normal)
  ELSE LET r == RunCall(program, callable, 1, active)
       IN IF r.end = Normal
          THEN After(r.log, RunCalls(program, callable, n - 1, active)) ELSE r

\* n items are left; the items of a map are computed as the loop asks for them.
RunLoop(program, s, n, active) ==
  LET item == IF s.iter.tag = "map" THEN RunCall(program, Func(s.iter.fn), 1, active)
              ELSE Silent(Normal)
      body == Run(program, s.body, active)
      log  == item.log \o body.log
  IN CASE n = 0 -> Run(program, s.orelse, active)
       [] n > 0 /\ item.end # Normal -> item
       [] n > 0 /\ item.end = Normal /\ body.end.how \in {"normal", "continue"} ->
            After(log, RunLoop(program, s, n - 1, active))
       [] n > 0 /\ item.end = Normal /\ body.end.how = "break" -> Result(log, Normal)
       [] n > 0 /\ item.end = Normal /\ body.end.how \in {"return", "raise"} ->
            Result(log, body.end)

\* The clauses from the i-th on, for exception e.
RunExcepts(program, handlers, i, e, active) ==
  IF i > Len(handlers) THEN Silent(Raises(e))
  ELSE IF Matches(e, handlers[i].types) THEN Run(program, handlers[i].body, e)
  ELSE RunExcepts(program, handlers, i + 1, e, active)

\* The finally body runs on every path, and overrides how the rest ended when
\* it does not end normally itself.
RunTry(program, s, active) ==
  LET body    == Run(program, s.body, active)
      handled ==
        CASE body.end.how = "raise"  ->
               After(body.log, RunExcepts(program, s.handlers, 1, body.end.what, active))
          [] body.end = Normal -> After(body.log, Run(program, s.orelse, active))
          [] OTHER -> body
      final   == Run(program, s.finalbody,
                     IF handled.end.how = "raise" THEN handled.end.what ELSE active)
  IN After(handled.log, IF final.end = Normal THEN Result(final.log, handled.end) ELSE final)

RunStmt(program, s, active) ==
  CASE s.kind = "pass"    -> Silent(Normal)
    [] s.kind = "print"   -> Result(<<s.value>>, Normal)
    [] s.kind \in {"call", "add"} -> RunCall(program, s.callable, 0, active)
    [] s.kind = "apply"   -> RunCalls(program, s.callable, s.len, active)
    [] s.kind = "raise"   -> Silent(Raises(Exc(s.type)))
    [] s.kind = "reraise" ->
         Silent(Raises(IF active = Null THEN Exc("RuntimeError") ELSE active))
    [] s.kind = "error"   ->
         Silent(IF s.outcome = "value" THEN Normal ELSE Raises(ErrorException(s.outcome)))
    [] s.kind = "return"  -> Silent(Ends("return", s.value))
    [] s.kind \in {"break", "continue"} -> Silent(Ends(s.kind, None))
    [] s.kind = "for"     -> RunLoop(program, s, s.iter.len, active)
    [] s.kind = "try"     -> RunTry(program, s, active)

\* A whole program: what it prints and the exception it ends with, if any.
Meaning(program) ==
  LET r == Run(program, Last(program).body, Null)
  IN [log |-> r.log, exception |-> IF r.end.how = "raise" THEN r.end.what ELSE Null]
=============================================================================
