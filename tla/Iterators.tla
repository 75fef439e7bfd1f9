----------------------------- MODULE Iterators -----------------------------
(***************************************************************************)
(* Iterators of containers: value_make_iter, seq_next and reversed_next of *)
(* vm_c/ops_iter.c, reversed of builtins.c, and the changes of a list, a   *)
(* dict or a set that may happen between two items.                        *)
(*                                                                         *)
(* A heap h has lists and keyed containers (a dict or a set is its keys in *)
(* insertion order), the iterators made so far, and the calls of user      *)
(* functions, newest last.  A function that returns nothing in C changes   *)
(* the heap: every operator takes one and returns one, with an outcome.    *)
(***************************************************************************)
EXTENDS Integers, Sequences

Item(x)  == [tag |-> "item", value |-> x]
Stop     == [tag |-> "stop"]
Error(e) == [tag |-> "error", error |-> e]
Result(h, out) == [h |-> h, out |-> out]

IsItem(r)  == r.out.tag = "item"
IsStop(r)  == r.out.tag = "stop"
IsError(r) == r.out.tag = "error"

-----------------------------------------------------------------------------
(* Containers: <<"list", id>>, <<"dict", id>>, <<"set", id>>, or a value    *)
(* that never changes, <<"tuple", items>>: str, bytes, range and frozenset  *)
(* are iterated as tuples are.                                              *)

IsKeyed(src) == src[1] \in {"dict", "set"}

Contents(h, src) ==
  CASE src[1] = "list" -> h.lists[src[2]]
    [] IsKeyed(src)    -> h.keyed[src[2]]
    [] OTHER           -> src[2]

ValueLength(h, src) == Len(Contents(h, src))

SetContents(h, src, s) ==
  IF IsKeyed(src) THEN [h EXCEPT !.keyed[src[2]] = s] ELSE [h EXCEPT !.lists[src[2]] = s]

Clamped(index, len) ==
  IF index < 0 THEN IF index + len < 0 THEN 0 ELSE index + len
  ELSE IF index > len THEN len ELSE index

InsertedAt(s, i, x) == SubSeq(s, 1, i) \o <<x>> \o SubSeq(s, i + 1, Len(s))
RemovedAt(s, i)     == SubSeq(s, 1, i - 1) \o SubSeq(s, i + 1, Len(s))
SetKey(s, k)        == IF \E i \in DOMAIN s : s[i] = k THEN s ELSE Append(s, k)
DelKey(s, k)        == IF \E i \in DOMAIN s : s[i] = k
                       THEN RemovedAt(s, CHOOSE i \in DOMAIN s : s[i] = k) ELSE s

\* One change of a container; op is <<what, container, argument, ...>>.
Mutate(h, op) ==
  LET s == Contents(h, op[2])
  IN SetContents(h, op[2],
       CASE op[1] = "append" -> Append(s, op[3])
         [] op[1] = "insert" -> InsertedAt(s, Clamped(op[3], Len(s)), op[4])
         [] op[1] = "pop"    -> IF s = << >> THEN s ELSE RemovedAt(s, Len(s))
         [] op[1] = "drop"   -> IF s = << >> THEN s ELSE RemovedAt(s, 1)
         [] op[1] = "setkey" -> SetKey(s, op[3])
         [] op[1] = "delkey" -> DelKey(s, op[3])
         [] op[1] = "clear"  -> << >>)

-----------------------------------------------------------------------------
(* Making iterators: the number of the new one and the heap with it *)

NoFunction == [name |-> "None", does |-> << >>, raises |-> {}, gives |-> << >>]

NewIter(h, kind, src, index, length, subs, strict, counter, f) ==
  [h EXCEPT !.iters = Append(@, [kind |-> kind, src |-> src, index |-> index, length |-> length,
                                 done |-> FALSE, subs |-> subs, strict |-> strict,
                                 counter |-> counter, func |-> f])]

\* value_make_iter: an iterator is its own.
MakeIter(h, src) ==
  IF src[1] = "iter" THEN [h |-> h, it |-> src[2]]
  ELSE [h |-> NewIter(h, "seq", src, 0, ValueLength(h, src), << >>, FALSE, 0, NoFunction),
        it |-> Len(h.iters) + 1]

\* reversed()
ReversedOf(h, src) ==
  NewIter(h, "reversed", src, ValueLength(h, src) - 1, ValueLength(h, src), << >>, FALSE, 0, NoFunction)

-----------------------------------------------------------------------------
(* iterator_next *)

Exhausted(h, i) == Result([h EXCEPT !.iters[i].done = TRUE], Stop)

Step(h, i, by) ==
  Result([h EXCEPT !.iters[i].index = @ + by],
         Item(Contents(h, h.iters[i].src)[h.iters[i].index + 1]))

FaultySeqNext(h, i) ==
  LET it == h.iters[i]
  IN IF it.done THEN Result(h, Stop)
     ELSE IF it.index >= ValueLength(h, it.src) THEN Exhausted(h, i)
     ELSE Step(h, i, 1)

\* A list is followed while it changes; a dict or a set may not change its size; the
\* rest have the length they had.
SeqNext(h, i) ==
  LET it == h.iters[i]
  IN IF it.done THEN Result(h, Stop)
     ELSE IF IsKeyed(it.src) /\ ValueLength(h, it.src) # it.length THEN Result(h, Error("RUNTIME"))
     ELSE IF it.index >= (IF it.src[1] = "list" THEN ValueLength(h, it.src) ELSE it.length)
     THEN Exhausted(h, i)
     ELSE Step(h, i, 1)

ReversedNext(h, i) ==
  LET it == h.iters[i]
  IN IF it.done THEN Result(h, Stop)
     ELSE IF IsKeyed(it.src) /\ ValueLength(h, it.src) # it.length THEN Result(h, Error("RUNTIME"))
     ELSE IF it.index < 0 \/ it.index >= ValueLength(h, it.src) THEN Exhausted(h, i)
     ELSE Step(h, i, -1)
=============================================================================
