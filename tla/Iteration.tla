----------------------------- MODULE Iteration -----------------------------
(***************************************************************************)
(* Iterators that run other iterators and user functions: enumerate, zip,  *)
(* map, filter and iter(f, sentinel) of vm_c/builtins.c and ops_iter.c,    *)
(* over the iterators of containers.  A user function is a record: its     *)
(* name, the changes it makes to containers, the arguments it raises for,  *)
(* and what it returns for the others.                                     *)
(***************************************************************************)
EXTENDS Iterators, FiniteSets, SequencesExt

\* vm_call_sync: a call of a user function that runs to its end.
CallSync(h, f, args) ==
  LET called == [FoldLeft(Mutate, h, f.does) EXCEPT !.calls = Append(@, <<f.name, args>>)]
      times  == Len(SelectSeq(called.calls, LAMBDA c : c[1] = f.name))
  IN IF args = << >> THEN Result(called, Item(f.gives[times]))
     ELSE IF args[1] \in f.raises THEN Result(called, Error("USER"))
     ELSE Result(called, Item(f.gives[args[1]]))

-----------------------------------------------------------------------------
(* Making iterators: the number of the new one and the heap with it *)

RECURSIVE MakeSubIters(_, _)
MakeSubIters(h, srcs) ==
  IF srcs = << >> THEN [h |-> h, its |-> << >>]
  ELSE LET first == MakeIter(h, Head(srcs))
           rest  == MakeSubIters(first.h, Tail(srcs))
       IN [h |-> rest.h, its |-> <<first.it>> \o rest.its]

\* enumerate(), zip(), map(), filter() and iter(f, sentinel).
EnumerateOf(h, src, start) ==
  LET sub == MakeIter(h, src)
  IN NewIter(sub.h, "enumerate", << >>, 0, 0, <<sub.it>>, FALSE, start, NoFunction)

ZipOf(h, srcs, strict) ==
  LET subs == MakeSubIters(h, srcs)
  IN NewIter(subs.h, "zip", << >>, 0, 0, subs.its, strict, 0, NoFunction)

MapOf(h, f, srcs, strict) ==
  LET subs == MakeSubIters(h, srcs)
  IN NewIter(subs.h, "map", << >>, 0, 0, subs.its, strict, 0, f)

FilterOf(h, f, src) ==
  LET sub == MakeIter(h, src)
  IN NewIter(sub.h, "filter", << >>, 0, 0, <<sub.it>>, FALSE, 0, f)

CallableOf(h, f, sentinel) ==
  NewIter(h, "callable", <<"value", sentinel>>, 0, 0, << >>, FALSE, 0, f)

-----------------------------------------------------------------------------
(* iterator_next *)

RECURSIVE IteratorNext(_, _), Gather(_, _, _), FilterNext(_, _), StrictCheck(_, _)

\* One item of each iterator of its, up to the first that has none.
Gather(h, its, got) ==
  LET After(r) == IF IsItem(r) THEN Gather(r.h, Tail(its), Append(got, r.out.value))
                  ELSE [h |-> r.h, out |-> r.out, got |-> got]
  IN IF its = << >> THEN [h |-> h, out |-> Item(got), got |-> got]
     ELSE After(IteratorNext(h, Head(its)))

\* strict_exhausted: the iterators after the first may not have an item either.
StrictCheck(h, its) ==
  LET After(r) == IF IsItem(r) THEN Result(r.h, Error("VALUE"))
                  ELSE IF IsError(r) THEN r ELSE StrictCheck(r.h, Tail(its))
  IN IF its = << >> THEN Result(h, Stop) ELSE After(IteratorNext(h, Head(its)))

StrictExhausted(h, it, index) ==
  IF index > 0 THEN Result(h, Error("VALUE")) ELSE StrictCheck(h, Tail(it.subs))

EnumerateNext(h, i) ==
  LET After(r) ==
        IF IsItem(r)
        THEN Result([r.h EXCEPT !.iters[i].counter = @ + 1],
                    Item(<<r.h.iters[i].counter, r.out.value>>))
        ELSE r
  IN After(IteratorNext(h, h.iters[i].subs[1]))

\* What zip and map answer with once some iterator had no item.
NotAllItems(g, it) ==
  IF IsStop(g) /\ it.strict THEN StrictExhausted(g.h, it, Len(g.got)) ELSE Result(g.h, g.out)

ZipNext(h, i) ==
  LET After(g) == IF IsItem(g) THEN Result(g.h, g.out) ELSE NotAllItems(g, h.iters[i])
  IN IF h.iters[i].subs = << >> THEN Result(h, Stop)
     ELSE After(Gather(h, h.iters[i].subs, << >>))

MapNext(h, i) ==
  LET After(g) == IF IsItem(g) THEN CallSync(g.h, h.iters[i].func, g.got)
                  ELSE NotAllItems(g, h.iters[i])
  IN After(Gather(h, h.iters[i].subs, << >>))

FilterNext(h, i) ==
  LET f == h.iters[i].func
      Judged(r, t) == IF IsError(t) THEN t
                      ELSE IF t.out.value # 0 THEN Result(t.h, r.out)
                      ELSE FilterNext(t.h, i)
      After(r) == IF ~IsItem(r) THEN r
                  ELSE Judged(r, IF f = NoFunction THEN r ELSE CallSync(r.h, f, <<r.out.value>>))
  IN After(IteratorNext(h, h.iters[i].subs[1]))

CallableNext(h, i) ==
  LET it == h.iters[i]
      After(r) == IF IsItem(r) /\ r.out.value = it.src[2] THEN Exhausted(r.h, i) ELSE r
  IN IF it.done THEN Result(h, Stop) ELSE After(CallSync(h, it.func, << >>))

IteratorNext(h, i) ==
  CASE h.iters[i].kind = "seq"       -> SeqNext(h, i)
    [] h.iters[i].kind = "reversed"  -> ReversedNext(h, i)
    [] h.iters[i].kind = "enumerate" -> EnumerateNext(h, i)
    [] h.iters[i].kind = "zip"       -> ZipNext(h, i)
    [] h.iters[i].kind = "map"       -> MapNext(h, i)
    [] h.iters[i].kind = "filter"    -> FilterNext(h, i)
    [] h.iters[i].kind = "callable"  -> CallableNext(h, i)
=============================================================================
