----------------------------- MODULE Consuming -----------------------------
(***************************************************************************)
(* The C functions that run an iterator to its end, or as far as they      *)
(* need: list.extend and the list displays, set.update, dict.update,       *)
(* difference_update, unpacking, any and all, min and max, sorted and      *)
(* list.sort, slice assignment.  Each asks for one item at a time and acts *)
(* on it before it asks for the next, so user code run by a map or a       *)
(* filter sees what was done so far, and what it changes is seen.          *)
(***************************************************************************)
EXTENDS Iteration

CONSTANT Steps      \* a loop that takes more steps than this is "ENDLESS"

-----------------------------------------------------------------------------
(* The body of each loop: the heap and the accumulator after an item x, and *)
(* whether the loop goes on ("go"), stops ("break") or fails.               *)

Go(h, acc)      == [h |-> h, acc |-> acc, then |-> "go"]
Break(h, acc)   == [h |-> h, acc |-> acc, then |-> "break"]
Failed(h, e)    == [h |-> h, acc |-> << >>, then |-> e]

\* apply_key of min, max and sort.
ApplyKey(h, f, x) == IF f = NoFunction THEN Result(h, Item(x)) ELSE CallSync(h, f, <<x>>)

\* Whether new, an item and its key, takes the place of best.
KeepBest(best, new, max) == IF max THEN new[2] > best[2] ELSE new[2] < best[2]

ExtremeBody(h, body, acc, x) ==
  LET After(k) ==
        IF IsError(k) THEN Failed(k.h, k.out.error)
        ELSE Go(k.h, IF acc = << >> \/ KeepBest(acc, <<x, k.out.value>>, body.max)
                     THEN <<x, k.out.value>> ELSE acc)
  IN After(ApplyKey(h, body.f, x))

LoopBody(h, body, acc, x) ==
  CASE body.kind = "collect" -> Go(h, Append(acc, x))
    [] body.kind = "append"  -> Go(Mutate(h, <<"append", body.to, x>>), acc)
    [] body.kind = "add"     -> Go(Mutate(h, <<"setkey", body.to, x>>), acc)
    [] body.kind = "discard" -> Go(Mutate(h, <<"delkey", body.to, x>>), acc)
    [] body.kind = "pair"    -> IF Len(x) # 2 THEN Failed(h, "VALUE")
                                ELSE Go(Mutate(h, <<"setkey", body.to, x[1]>>), acc)
    [] body.kind = "any"     -> IF x # 0 THEN Break(h, <<TRUE>>) ELSE Go(h, acc)
    [] body.kind = "all"     -> IF x = 0 THEN Break(h, <<FALSE>>) ELSE Go(h, acc)
    [] body.kind = "extreme" -> ExtremeBody(h, body, acc, x)

\* The state s of a loop after one more round, whose request answered r.
LoopRound(s, r, body) ==
  IF IsItem(r) THEN LoopBody(r.h, body, s.acc, r.out.value)
  ELSE [s EXCEPT !.h = r.h, !.then = IF IsStop(r) THEN "stop" ELSE r.out.error]

\* At most Steps rounds.
Loop(h, it, body, start) ==
  LET Round(s, n) == IF s.then # "go" THEN s ELSE LoopRound(s, IteratorNext(s.h, it), body)
      Ended(end)  == IF end.then = "go" THEN [end EXCEPT !.then = "ENDLESS"] ELSE end
  IN Ended(FoldLeft(Round, Go(h, start), [n \in 1..Steps |-> n]))

\* A loop over an iterable, and what it leaves: the heap, a value or an error.
Over(h, src, body, start) ==
  LET With(m) == Loop(m.h, m.it, body, start) IN With(MakeIter(h, src))

Outcome(l, value) ==
  Result(l.h, IF l.then \in {"stop", "break"} THEN Item(value) ELSE Error(l.then))

\* A loop whose value is what it accumulated.
Accumulated(l) == Outcome(l, l.acc)

-----------------------------------------------------------------------------
(* value_list_from_iterable, value_list_extend and the rest *)

ListFromIterable(h, src) == Accumulated(Over(h, src, [kind |-> "collect"], << >>))

ListExtend(h, list, src)  == Outcome(Over(h, src, [kind |-> "append", to |-> list], << >>), << >>)
SetUpdate(h, set, src)    == Outcome(Over(h, src, [kind |-> "add", to |-> set], << >>), << >>)
DictUpdate(h, dict, src)  == Outcome(Over(h, src, [kind |-> "pair", to |-> dict], << >>), << >>)
DifferenceUpdate(h, set, src) == Outcome(Over(h, src, [kind |-> "discard", to |-> set], << >>), << >>)

AnyAll(h, src, all) ==
  LET After(l) == Outcome(l, l.acc[1])
  IN After(Over(h, src, [kind |-> IF all THEN "all" ELSE "any"], <<all>>))

Extreme(h, src, f, max) ==
  LET After(l) ==
        IF l.then = "stop" /\ l.acc = << >> THEN Result(l.h, Error("VALUE"))
        ELSE Outcome(l, IF l.acc = << >> THEN 0 ELSE l.acc[1])
  IN After(Over(h, src, [kind |-> "extreme", f |-> f, max |-> max], << >>))

-----------------------------------------------------------------------------
(* Unpacking: what is pushed, the top of the stack last *)

\* op_unpack_sequence asks for n items and for one more.
UnpackSequence(h, src, n) ==
  LET Got(s, r) == [h |-> r.h, out |-> r.out,
                    items |-> IF IsItem(r) THEN Append(s.items, r.out.value) ELSE s.items]
      All(m) == FoldLeft(LAMBDA s, k : IF IsItem(s) THEN Got(s, IteratorNext(s.h, m.it)) ELSE s,
                         [h |-> m.h, out |-> Item(0), items |-> << >>], [k \in 1..(n + 1) |-> k])
      Pushed(all) == IF IsError(all) THEN Result(all.h, all.out)
                     ELSE IF Len(all.items) # n THEN Result(all.h, Error("VALUE"))
                     ELSE Result(all.h, Item(Reverse(all.items)))
  IN Pushed(All(MakeIter(h, src)))

\* The number of items the starred target takes.
Middle(count, before, after) == count - before - after

UnpackEx(h, src, before, after) ==
  LET Split(items, middle) ==
        Reverse(SubSeq(items, before + middle + 1, Len(items)))
          \o <<SubSeq(items, before + 1, before + middle)>>
          \o Reverse(SubSeq(items, 1, before))
      After(c) ==
        IF IsError(c) THEN c
        ELSE IF Len(c.out.value) < before + after THEN Result(c.h, Error("VALUE"))
        ELSE Result(c.h, Item(Split(c.out.value, Middle(Len(c.out.value), before, after))))
  IN After(ListFromIterable(h, src))

-----------------------------------------------------------------------------
(* value_list_sort: a merge sort of pairs of an item and its key *)

FaultyTakeRight(right, left) == right <= left

TakeRight(right, left) == right < left

RECURSIVE Merge(_, _)
Merge(a, b) ==
  IF a = << >> THEN b ELSE IF b = << >> THEN a
  ELSE IF TakeRight(Head(b)[2], Head(a)[2]) THEN <<Head(b)>> \o Merge(a, Tail(b))
  ELSE <<Head(a)>> \o Merge(Tail(a), b)

RECURSIVE MergeSort(_)
MergeSort(s) ==
  IF Len(s) <= 1 THEN s
  ELSE LET mid == Len(s) \div 2
       IN Merge(MergeSort(SubSeq(s, 1, mid)), MergeSort(SubSeq(s, mid + 1, Len(s))))

\* A list of one item is left alone without a call of the key function.  The keys are
\* computed while the list is live, from its last item if reversed; an item that the
\* key function removed meanwhile is read past the end of the list.
ListSort(h, list, f, reverse) ==
  LET n     == ValueLength(h, list)
      At(k) == IF reverse THEN n - k + 1 ELSE k
      Paired(s, x, r) ==
        IF IsError(r) THEN [s EXCEPT !.h = r.h, !.err = r.out.error]
        ELSE [s EXCEPT !.h = r.h, !.pairs = Append(@, <<x, r.out.value>>)]
      Pair(s, k) ==
        IF s.err # "OK" THEN s
        ELSE IF At(k) > ValueLength(s.h, list) THEN [s EXCEPT !.err = "STALE"]
        ELSE Paired(s, Contents(s.h, list)[At(k)], ApplyKey(s.h, f, Contents(s.h, list)[At(k)]))
      Stored(g, sorted) ==
        SetContents(g, list, [k \in DOMAIN Contents(g, list) |->
                                IF k <= n THEN sorted[At(k)][1] ELSE Contents(g, list)[k]])
      After(keyed) ==
        IF keyed.err # "OK" THEN Result(keyed.h, Error(keyed.err))
        ELSE IF ValueLength(keyed.h, list) < n THEN Result(keyed.h, Error("STALE"))
        ELSE Result(Stored(keyed.h, MergeSort(keyed.pairs)), Item(0))
  IN IF n <= 1 THEN Result(h, Item(0))
     ELSE After(FoldLeft(Pair, [h |-> h, pairs |-> << >>, err |-> "OK"], [k \in 1..n |-> k]))

\* sorted(): of a list of its own.
Sorted(h, src, f, reverse) ==
  LET Copied(s, own) == IF IsError(s) THEN s ELSE Result(s.h, Item(Contents(s.h, own)))
      After(c, own)  ==
        IF IsError(c) THEN c
        ELSE Copied(ListSort([c.h EXCEPT !.lists = Append(@, c.out.value)], own, f, reverse), own)
  IN After(ListFromIterable(h, src), <<"list", Len(h.lists) + 1>>)

-----------------------------------------------------------------------------
(* op_store_slice with step 1: the bounds are taken before the value is     *)
(* iterated, and used after.                                                *)

StoreSlice(h, list, start, stop, src) ==
  LET begin == Clamped(start, ValueLength(h, list))
      upto  == Clamped(stop, ValueLength(h, list))
      count == IF begin < upto THEN upto - begin ELSE 0
      After(c, live) ==
        IF IsError(c) THEN c
        ELSE IF begin + count > Len(live) THEN Result(c.h, Error("STALE"))
        ELSE Result(SetContents(c.h, list, SubSeq(live, 1, begin) \o c.out.value
                                             \o SubSeq(live, begin + count + 1, Len(live))),
                    Item(0))
      Live(c) == After(c, Contents(c.h, list))
  IN Live(ListFromIterable(h, src))

-----------------------------------------------------------------------------
(* list.pop and list.index *)

ListPop(h, list, index) ==
  LET s == Contents(h, list)
      i == IF index < 0 THEN index + Len(s) ELSE index
  IN IF i < 0 \/ i >= Len(s) THEN Result(h, Error("BOUNDS"))
     ELSE Result(SetContents(h, list, RemovedAt(s, i + 1)), Item(s[i + 1]))

FaultyIndexStop(stop, len) == Min({len, stop})

\* The end of the search of list.index: nothing below zero is needed.
IndexStop(stop, len) == Min({len, IF stop < 0 THEN stop + len ELSE stop})

ListIndex(s, x, start, stop) ==
  LET from == IF start >= 0 THEN start ELSE IF start + Len(s) < 0 THEN 0 ELSE start + Len(s)
      at   == {i \in from..(IndexStop(stop, Len(s)) - 1) : s[i + 1] = x}
  IN IF at = {} THEN Error("VALUE") ELSE Item(Min(at))
=============================================================================
