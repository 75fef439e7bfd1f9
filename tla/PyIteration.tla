---------------------------- MODULE PyIteration ----------------------------
(***************************************************************************)
(* What Python says of iterators, stated without them.                     *)
(*                                                                         *)
(* A pipeline of map, filter, zip, enumerate and iter over values that do  *)
(* not change is the sequence of its rounds: the calls of user functions   *)
(* that asking for the k-th item makes, in order, and the item, the end or *)
(* the error it answers with.  What consumes a pipeline is a function of   *)
(* its rounds.                                                             *)
(***************************************************************************)
EXTENDS Integers, Sequences, FiniteSets, SequencesExt

PItem(x)  == [tag |-> "item", value |-> x]
PStop     == [tag |-> "stop"]
PError(e) == [tag |-> "error", error |-> e]
Round(calls, out) == [calls |-> calls, out |-> out]

AllCalls(rounds) == FlattenSeq([k \in DOMAIN rounds |-> rounds[k].calls])

\* Rounds end with the first that is no item.
UpToEnd(rounds) ==
  LET over == {k \in DOMAIN rounds : rounds[k].out.tag # "item"}
  IN IF over = {} THEN rounds ELSE SubSeq(rounds, 1, Min(over))

\* The k-th round of what pulls one item from each of RS, in order.
Pull(RS, k, strict) ==
  LET bad    == {j \in DOMAIN RS : RS[j][k].out.tag # "item"}
      first  == Min(bad)
      calls(m) == FlattenSeq([j \in 1..m |-> RS[j][k].calls])
      others == {j \in DOMAIN RS : RS[j][k].out.tag # "stop"}
  IN IF bad = {} THEN Round(calls(Len(RS)), PItem([j \in DOMAIN RS |-> RS[j][k].out.value]))
     ELSE IF RS[first][k].out.tag = "error" \/ ~strict THEN Round(calls(first), RS[first][k].out)
     ELSE IF first > 1 THEN Round(calls(first), PError("VALUE"))
     ELSE IF others = {} THEN Round(calls(Len(RS)), PStop)
     ELSE Round(calls(Min(others)),
                IF RS[Min(others)][k].out.tag = "item" THEN PError("VALUE") ELSE RS[Min(others)][k].out)

\* A round that has an item, passed to f.
Apply(f, round, args) ==
  IF round.out.tag # "item" THEN round
  ELSE Round(Append(round.calls, <<f.name, args>>),
             IF args[1] \in f.raises THEN PError("USER") ELSE PItem(f.gives[args[1]]))

\* The rounds of filter: those of its source up to each one that passes, joined.
Joined(rounds, test) ==
  LET Truth(k) == test[k].out.tag # "item" \/ test[k].out.value # 0
      ends     == SetToSortSeq({k \in DOMAIN rounds : Truth(k)}, <)
      From(m)  == IF m = 1 THEN 1 ELSE ends[m - 1] + 1
  IN [m \in DOMAIN ends |->
        Round(FlattenSeq([j \in 1..(ends[m] - From(m) + 1) |-> test[From(m) + j - 1].calls]),
              IF test[ends[m]].out.tag # "item" THEN test[ends[m]].out ELSE rounds[ends[m]].out)]

RECURSIVE Rounds(_)
Rounds(p) ==
  LET subs  == [j \in DOMAIN p.subs |-> Rounds(p.subs[j])]
      pulls == IF subs = << >> THEN <<Round(<< >>, PStop)>>
               ELSE UpToEnd([k \in 1..Min({Len(subs[j]) : j \in DOMAIN subs}) |->
                              Pull(subs, k, p.strict)])
      only  == subs[1]
  IN CASE p.kind = "seq" ->
            [k \in 1..(Len(p.items) + 1) |->
               Round(<< >>, IF k <= Len(p.items) THEN PItem(p.items[k]) ELSE PStop)]
       [] p.kind = "reversed" ->
            [k \in 1..(Len(p.items) + 1) |->
               Round(<< >>, IF k <= Len(p.items) THEN PItem(Reverse(p.items)[k]) ELSE PStop)]
       [] p.kind = "enumerate" ->
            [k \in DOMAIN only |->
               IF only[k].out.tag = "item"
               THEN Round(only[k].calls, PItem(<<p.start + k - 1, only[k].out.value>>)) ELSE only[k]]
       [] p.kind = "zip" -> pulls
       [] p.kind = "map" ->
            UpToEnd([k \in DOMAIN pulls |-> Apply(p.f, pulls[k], pulls[k].out.value)])
       [] p.kind = "filter" ->
            UpToEnd(Joined(only, IF p.f.name = "None" THEN only
                                 ELSE [k \in DOMAIN only |-> Apply(p.f, only[k], <<only[k].out.value>>)]))
       [] p.kind = "callable" ->
            UpToEnd([k \in DOMAIN p.f.gives |->
               Round(<< <<p.f.name, << >> >> >>,
                     IF p.f.gives[k] = p.start THEN PStop ELSE PItem(p.f.gives[k]))])

-----------------------------------------------------------------------------
(* What consumers make of rounds: the calls and the value or the error *)

Final(rounds)   == rounds[Len(rounds)].out
ItemsOf(rounds) == [k \in 1..(Len(rounds) - 1) |-> rounds[k].out.value]
Answer(calls, out) == [calls |-> calls, out |-> out]

Whole(rounds, out) ==
  Answer(AllCalls(rounds), IF Final(rounds).tag = "error" THEN Final(rounds) ELSE out)

PyList(rounds) == Whole(rounds, PItem(ItemsOf(rounds)))

\* Exactly n targets: no more is asked for than it takes to know.
PyUnpack(rounds, n) ==
  LET asked == SubSeq(rounds, 1, Min({n + 1, Len(rounds)}))
  IN Answer(AllCalls(asked),
       IF Final(asked).tag = "error" THEN Final(asked)
       ELSE IF Len(asked) = n + 1 /\ Final(asked).tag = "stop" THEN PItem(ItemsOf(asked))
       ELSE PError("VALUE"))

\* before targets, a starred one, after targets.
PyUnpackEx(rounds, before, after) ==
  LET s == ItemsOf(rounds)
      n == Len(s)
  IN Whole(rounds, IF n < before + after THEN PError("VALUE")
                   ELSE PItem(SubSeq(s, 1, before) \o <<SubSeq(s, before + 1, n - after)>>
                                \o SubSeq(s, n - after + 1, n)))

PyAnyAll(rounds, all) ==
  LET s  == ItemsOf(rounds)
      at == {k \in DOMAIN s : (s[k] = 0) = all}
  IN IF at = {} THEN Whole(rounds, PItem(all))
     ELSE Answer(AllCalls(SubSeq(rounds, 1, Min(at))), PItem(~all))

\* The first of the items with the least, or the greatest, key.
PyExtreme(rounds, f, max) ==
  LET keyed == UpToEnd([k \in DOMAIN rounds |->
                 IF f.name = "None" THEN rounds[k] ELSE Apply(f, rounds[k], <<rounds[k].out.value>>)])
      keys  == ItemsOf(keyed)
      best  == {k \in DOMAIN keys : \A j \in DOMAIN keys : IF max THEN keys[j] <= keys[k] ELSE keys[k] <= keys[j]}
  IN Whole(keyed, IF best = {} THEN PError("VALUE") ELSE PItem(rounds[Min(best)].out.value))

\* The stable order: the only permutation that is sorted by key and keeps the order
\* of items with equal keys, in a reversed sort too.
SortedBy(s, key, reverse) ==
  SortSeq([k \in DOMAIN s |-> <<s[k], key[k], k>>],
          LAMBDA a, b : IF a[2] = b[2] THEN a[3] < b[3]
                        ELSE IF reverse THEN a[2] > b[2] ELSE a[2] < b[2])

\* The key function is called once for each item, from the first to the one it raises
\* at, in a reversed sort too.
KeyCalls(s, f) ==
  LET bad == {k \in DOMAIN s : s[k] \in f.raises}
  IN IF f.name = "None" THEN << >>
     ELSE [k \in 1..(IF bad = {} THEN Len(s) ELSE Min(bad)) |-> <<f.name, <<s[k]>>>>]

PySorted(rounds, f, reverse) ==
  LET s   == ItemsOf(rounds)
      bad == \E k \in DOMAIN s : s[k] \in f.raises
      key == [k \in DOMAIN s |-> IF f.name = "None" THEN s[k] ELSE f.gives[s[k]]]
  IN IF Final(rounds).tag = "error" THEN Whole(rounds, PStop)
     ELSE Answer(AllCalls(rounds) \o KeyCalls(s, f),
                 IF bad THEN PError("USER")
                 ELSE PItem([k \in DOMAIN s |-> SortedBy(s, key, reverse)[k][1]]))
=============================================================================
