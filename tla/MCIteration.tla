---------------------------- MODULE MCIteration ----------------------------
(***************************************************************************)
(* Two kinds of behaviours.  A pipeline is built and consumed in the       *)
(* initial state: every map, filter, zip and enumerate of short tuples and *)
(* zips and maps of those, with functions that raise.  A live case is a    *)
(* behaviour of LiveIteration.                                             *)
(***************************************************************************)
EXTENDS Consuming, PyIteration, LiveIteration

VARIABLE case
caseVars == <<case, vars>>

List == <<"list", 1>>

-----------------------------------------------------------------------------
(* Pipelines *)

Fn(name, does, raises, gives) == [name |-> name, does |-> does, raises |-> raises, gives |-> gives]
Swap    == Fn("swap", << >>, {}, [x \in 0..2 |-> 2 - x])
IsOne   == Fn("is_one", << >>, {}, [x \in 0..2 |-> IF x = 1 THEN 1 ELSE 0])
Picky   == Fn("picky", << >>, {2}, [x \in 0..2 |-> x])
Counter == Fn("counter", << >>, {}, <<1, 2, 0, 2>>)

P(kind, items, subs, f, strict, start) ==
  [kind |-> kind, items |-> items, subs |-> subs, f |-> f, strict |-> strict, start |-> start]
Leaf(s) == P("seq", s, << >>, NoFunction, FALSE, 0)

Leaves == {Leaf(s) : s \in {<< >>, <<1>>, <<0, 1>>, <<1, 2, 0>>, <<2, 1>>}}
            \cup {P("reversed", <<0, 1, 2>>, << >>, NoFunction, FALSE, 0)}
Called == P("callable", << >>, << >>, Counter, FALSE, 0)
Mapped(ps)   == {P("map", << >>, <<p>>, f, FALSE, 0) : p \in ps, f \in {Swap, Picky}}
Filtered(ps) == {P("filter", << >>, <<p>>, f, FALSE, 0) : p \in ps, f \in {NoFunction, IsOne, Picky}}
Flat   == Leaves \cup {Called} \cup Mapped({Called}) \cup Mapped(Leaves) \cup Filtered(Leaves)
Deep   == Flat \cup Mapped(Filtered(Leaves)) \cup Filtered(Mapped(Leaves))
Some   == Leaves \cup {P("map", << >>, <<p>>, Picky, FALSE, 0) : p \in Leaves}
Pairs(kind, f) == {P(kind, << >>, <<p, q>>, f, strict, 0) : p \in Some \cup {Called}, q \in Some, strict \in BOOLEAN}
Tuples == Pairs("zip", NoFunction) \cup {P("zip", << >>, << >>, NoFunction, FALSE, 0)}
            \cup {P("enumerate", << >>, <<p>>, NoFunction, FALSE, 1) : p \in Flat}
            \cup {P("zip", << >>, <<p, q, r>>, NoFunction, TRUE, 0) : p \in Leaves, q \in Leaves, r \in Leaves}
Ints   == Deep \cup Pairs("map", Swap)

Empty == [lists |-> << <<1, 2>> >>, keyed |-> << <<1, 2>>, <<1, 2, 3>> >>, iters |-> << >>, calls |-> << >>]

\* The program that builds the pipeline, from the inside out.
RECURSIVE Build(_, _), BuildAll(_, _)
BuildAll(g, ps) ==
  IF ps = << >> THEN [h |-> g, srcs |-> << >>]
  ELSE LET b == Build(g, Head(ps))
           r == BuildAll(b.h, Tail(ps))
       IN [h |-> r.h, srcs |-> <<b.src>> \o r.srcs]
Build(g, p) ==
  LET b == BuildAll(g, p.subs)
      made == CASE p.kind = "reversed"  -> ReversedOf(g, <<"tuple", p.items>>)
                [] p.kind = "enumerate" -> EnumerateOf(b.h, b.srcs[1], p.start)
                [] p.kind = "zip"       -> ZipOf(b.h, b.srcs, p.strict)
                [] p.kind = "map"       -> MapOf(b.h, p.f, b.srcs, p.strict)
                [] p.kind = "filter"    -> FilterOf(b.h, p.f, b.srcs[1])
                [] p.kind = "callable"  -> CallableOf(b.h, p.f, p.start)
  IN IF p.kind = "seq" THEN [h |-> g, src |-> <<"tuple", p.items>>]
     ELSE [h |-> made, src |-> <<"iter", Len(made.iters)>>]

Consumed(r) == [calls |-> r.h.calls, out |-> r.out]
Pushed(r) == IF IsError(r) THEN Consumed(r) ELSE [calls |-> r.h.calls, out |-> Item(Reverse(r.out.value))]

\* sorted: got is what the code does, at a reversed sort from the last key to the first.
\* The code calls the key function for no list of one item, where Python does.
SortAgrees(got, R, f, reverse) ==
  LET py     == PySorted(R, f, reverse)
      before == Len(AllCalls(R))
      keys   == SubSeq(py.calls, before + 1, Len(py.calls))
      lone   == Len(keys) = 1 /\ Len(ItemsOf(R)) = 1
  IN IF lone
     THEN got.calls = AllCalls(R) /\ (py.out.tag = "item" => got.out = py.out)
     ELSE /\ ~reverse => got = py
          /\ reverse => got.out = py.out
          /\ reverse /\ IsItem(got) => got.calls = AllCalls(R) \o Reverse(keys)

Agrees(p, ints) ==
  LET b == Build(Empty, p)
      R == Rounds(p)
  IN /\ Consumed(ListFromIterable(b.h, b.src)) = PyList(R)
     /\ \A n \in 0..3 : Pushed(UnpackSequence(b.h, b.src, n)) = PyUnpack(R, n)
     /\ \A x, y \in 0..2 : Pushed(UnpackEx(b.h, b.src, x, y)) = PyUnpackEx(R, x, y)
     /\ ints =>
          /\ \A all \in BOOLEAN : Consumed(AnyAll(b.h, b.src, all)) = PyAnyAll(R, all)
          /\ \A max \in BOOLEAN, f \in {NoFunction, IsOne, Picky} :
               /\ Consumed(Extreme(b.h, b.src, f, max)) = PyExtreme(R, f, max)
               /\ SortAgrees(Consumed(Sorted(b.h, b.src, f, max)), R, f, max)

\* Whatever consumes a pipeline calls the user's functions as often and in the order
\* Python does, raises what Python raises, and has Python's result: any and all stop
\* early, unpacking asks for one item too many and no more, the starred target gets
\* the middle, min, max and sort keep the first of equals.  Two calls of sorted are not
\* Python's, and excepted: the key of a list of one item is not computed, so that what
\* it would raise is not raised, and the keys of a reversed sort are computed backwards.
PipelinesAsPython == case.kind = "pipeline" => Agrees(case.p, case.ints)

-----------------------------------------------------------------------------
(* What runs an iterator of the container it changes, or of user code that *)
(* changes the container the C function works on.                           *)

Lists2 == {<< >>, <<2>>, <<1, 2>>, <<2, 0, 1>>}
Appends == Fn("appends", << <<"append", List, 5>> >>, {}, [x \in 0..2 |-> x])

\* A list, a value with user code that makes it longer, and every slice of it.
SlicesLive ==
  \A s \in Lists2, start, stop \in -2..3, items \in Lists2 :
    LET g == MapOf([Empty EXCEPT !.lists[1] = s], Appends, << <<"tuple", items>> >>, FALSE)
        r == StoreSlice(g, List, start, stop, <<"iter", Len(g.iters)>>)
        b == Clamped(start, Len(s))
        e == Max({b, Clamped(stop, Len(s))})
        grown == s \o [k \in DOMAIN items |-> 5]
    IN /\ IsItem(r)
       /\ Contents(r.h, List) = SubSeq(grown, 1, b) \o items \o SubSeq(grown, e + 1, Len(grown))

\* The updates of a set or a dict by another container, and list.index.
UpdatesLive ==
  \A s \in {<< >>, <<1>>, <<1, 2>>, <<2, 3, 1>>}, t \in {<< >>, <<2>>, <<4, 2, 1>>} :
    LET g    == [Empty EXCEPT !.keyed = <<s, t>>, !.lists[1] = s]
        by   == <<"set", 2>>
        into == <<"set", 1>>
    IN /\ ToSet(Contents(SetUpdate(g, into, by).h, into)) = ToSet(s) \cup ToSet(t)
       /\ ToSet(Contents(DifferenceUpdate(g, into, by).h, into)) = ToSet(s) \ ToSet(t)
       /\ Contents(ListExtend(g, List, by).h, List) = s \o t
       /\ SetUpdate(g, into, into).h.keyed = g.keyed
       /\ \A x \in 1..4, i, j \in -5..5 :
            LET from == IF i < 0 THEN Max({0, i + Len(s)}) ELSE i
                upto == IF j < 0 THEN j + Len(s) ELSE j
                at   == {k \in 1..Len(s) : s[k] = x /\ from < k /\ k <= upto}
            IN ListIndex(s, x, i, j) = IF at = {} THEN PError("VALUE") ELSE PItem(Min(at) - 1)

\* A list whose key function appends to it while it is sorted.
SortsLive ==
  \A s \in Lists2, reverse \in BOOLEAN :
    LET r      == ListSort([Empty EXCEPT !.lists[1] = s], List, Appends, reverse)
        sorted == [k \in DOMAIN s |-> SortedBy(s, s, reverse)[k][1]]
    IN Contents(r.h, List) = sorted \o [k \in 1..(IF Len(s) > 1 THEN Len(s) ELSE 0) |-> 5]

\* Slice assignment whose value runs user code that appends to the list assigns to
\* the range that was named; update, difference_update and extend by another
\* container are the set operations; list.index searches the range Python searches.
\* A list that its key function makes longer while it is sorted, which Python leaves
\* open, has its old items in order and loses nothing.  Left out, since the code departs:
\* a set that is updated by its difference with itself, and user code that makes the
\* list shorter.
BulkAsPython == case.kind = "bulk" => SlicesLive /\ UpdatesLive /\ SortsLive

-----------------------------------------------------------------------------
Cases ==
  {[kind |-> "pipeline", p |-> p, ints |-> TRUE] : p \in Ints}
    \cup {[kind |-> "pipeline", p |-> p, ints |-> FALSE] : p \in Tuples}
    \cup {[kind |-> "bulk"]}
    \cup {[kind |-> "live"]}

CasesInit ==
  /\ case \in Cases
  /\ \/ case.kind = "live" /\ Init
     \/ case.kind # "live" /\ h = Empty /\ ref = << >> /\ last = Quiet

CasesNext == case.kind = "live" /\ Next /\ UNCHANGED case

CasesSpec == CasesInit /\ [][CasesNext]_caseVars

\* One container at a time.
OneList == [lists |-> << <<1, 2>> >>, keyed |-> << >>, iters |-> << >>, calls |-> << >>]
OneDict == [lists |-> << >>, keyed |-> << <<1, 2>> >>, iters |-> << >>, calls |-> << >>]
TwoSets == [lists |-> << >>, keyed |-> << << >>, <<1, 2>> >>, iters |-> << >>, calls |-> << >>]
MCStarts == {OneList, OneDict, TwoSets}
MCPositions == -1..1
MCFixed == {<<2, 1>>}
=============================================================================
