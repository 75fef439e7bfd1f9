---------------------------- MODULE LiveProofs ----------------------------
(***************************************************************************)
(* Iterators of containers that change between two items answer what the   *)
(* language reference says, for any containers, any number of iterators    *)
(* and any order of requests and changes.                                  *)
(*                                                                         *)
(* The inductive invariant relates an iterator of the heap to its entry in *)
(* ref: the index of the VM is the number of items given, counted from the *)
(* other end by a reversed iterator, and the length it noted is the number *)
(* of items its source had when it was made.                               *)
(***************************************************************************)
EXTENDS LiveIteration, SequenceTheorems, TLAPS

Kinds == {"seq", "reversed"}

References ==
  [kind : Kinds, src : Sources(h), given : Nat, state : {"on", "over", "failed"}, start : Seq(Values)]

IndexOf(r) == IF r.kind = "seq" THEN r.given ELSE Len(r.start) - 1 - r.given

Over(r) == r.state = "over"

\* An iterator of a container, in the heap.
Noted(kind, src, index, length, done) ==
  [kind |-> kind, src |-> src, index |-> index, length |-> length, done |-> done, subs |-> << >>,
   strict |-> FALSE, counter |-> 0, func |-> NoFunction]

HeapIterator(r) == Noted(r.kind, r.src, IndexOf(r), Len(r.start), Over(r))

Matched ==
  /\ DOMAIN h.iters = DOMAIN ref
  /\ \A i \in DOMAIN ref : h.iters[i] = HeapIterator(ref[i])

FixedKept == \A i \in DOMAIN ref : ref[i].src[1] = "tuple" => ref[i].start = ref[i].src[2]

IInv ==
  /\ IsHeap(h)
  /\ h.iters \in Seq({HeapIterator(r) : r \in References})
  /\ ref \in Seq(References)
  /\ Matched
  /\ FixedKept
  /\ LiveAsPython

-----------------------------------------------------------------------------
(* Containers *)

\* What a container holds, read before any item is asked for.
LEMMA ContentsTyped ==
  ASSUME NEW g, IsHeap(g), NEW src \in Sources(g)
  PROVE  /\ Contents(g, src) \in Seq(Values)
         /\ src[1] \in {"list", "dict", "set", "tuple"}
         /\ src[1] = "tuple" => Contents(g, src) = src[2]
PROOF
<1>1. CASE src \in Lists(g)
  BY <1>1 DEF IsHeap, Lists, Contents, IsKeyed
<1>2. CASE src \in Keyed(g)
  BY <1>2 DEF IsHeap, Keyed, Contents, IsKeyed
<1>3. CASE src \in Unchanging
  BY <1>3, FixedAssumption DEF Unchanging, Contents, IsKeyed
<1> QED BY <1>1, <1>2, <1>3 DEF Sources

\* Storing other contents in a container leaves the other parts of the heap.
LEMMA ContentsSet ==
  ASSUME NEW g, IsHeap(g), NEW src \in Lists(g) \cup Keyed(g), NEW s \in Seq(Values)
  PROVE  /\ IsHeap(SetContents(g, src, s))
         /\ SetContents(g, src, s).iters = g.iters
         /\ Sources(SetContents(g, src, s)) = Sources(g)
PROOF
<1>1. CASE src \in Lists(g)
  <2>1. src[1] = "list" /\ src[2] \in DOMAIN g.lists
    BY <1>1 DEF Lists
  <2>2. SetContents(g, src, s) = [g EXCEPT !.lists[src[2]] = s]
    BY <2>1 DEF SetContents, IsKeyed
  <2>3. [g EXCEPT !.lists[src[2]] = s] =
          [lists |-> [g.lists EXCEPT ![src[2]] = s], keyed |-> g.keyed, iters |-> g.iters, calls |-> g.calls]
    <3>1. PICK L, K, I, C : g = [lists |-> L, keyed |-> K, iters |-> I, calls |-> C]
      BY DEF IsHeap
    <3> QED BY <3>1
  <2>4. /\ [g.lists EXCEPT ![src[2]] = s] \in Seq(Seq(Values))
        /\ DOMAIN [g.lists EXCEPT ![src[2]] = s] = DOMAIN g.lists
    BY <2>1 DEF IsHeap
  <2> QED BY <2>2, <2>3, <2>4 DEF IsHeap, Sources, Lists, Keyed
<1>2. CASE src \in Keyed(g)
  <2>1. src[1] \in {"dict", "set"} /\ src[2] \in DOMAIN g.keyed
    BY <1>2 DEF Keyed
  <2>2. SetContents(g, src, s) = [g EXCEPT !.keyed[src[2]] = s]
    BY <2>1 DEF SetContents, IsKeyed
  <2>3. [g EXCEPT !.keyed[src[2]] = s] =
          [lists |-> g.lists, keyed |-> [g.keyed EXCEPT ![src[2]] = s], iters |-> g.iters, calls |-> g.calls]
    <3>1. PICK L, K, I, C : g = [lists |-> L, keyed |-> K, iters |-> I, calls |-> C]
      BY DEF IsHeap
    <3> QED BY <3>1
  <2>4. /\ [g.keyed EXCEPT ![src[2]] = s] \in Seq(Seq(Values))
        /\ DOMAIN [g.keyed EXCEPT ![src[2]] = s] = DOMAIN g.keyed
    BY <2>1 DEF IsHeap
  <2> QED BY <2>2, <2>3, <2>4 DEF IsHeap, Sources, Lists, Keyed
<1> QED BY <1>1, <1>2

LEMMA Removed ==
  ASSUME NEW s \in Seq(Values), NEW i \in DOMAIN s
  PROVE  RemovedAt(s, i) \in Seq(Values)
PROOF
<1>1. i \in 1..Len(s)
  OBVIOUS
<1>2. SubSeq(s, 1, i - 1) \in Seq(Values) /\ SubSeq(s, i + 1, Len(s)) \in Seq(Values)
  BY <1>1, SubSeqProperties
<1> QED BY <1>2, ConcatProperties DEF RemovedAt

LEMMA Inserted ==
  ASSUME NEW s \in Seq(Values), NEW at \in Int, NEW x \in Values
  PROVE  InsertedAt(s, Clamped(at, Len(s)), x) \in Seq(Values)
PROOF
<1>1. PICK i \in 0..Len(s) : i = Clamped(at, Len(s))
  BY LenProperties DEF Clamped
<1>2. SubSeq(s, 1, i) \in Seq(Values) /\ SubSeq(s, i + 1, Len(s)) \in Seq(Values)
  BY <1>1, SubSeqProperties
<1>3. <<x>> \in Seq(Values)
  OBVIOUS
<1> QED BY <1>1, <1>2, <1>3, ConcatProperties DEF InsertedAt

\* The change of a container is a step from a heap to a heap with the same
\* iterators and sources.
LEMMA ChangeTyped ==
  ASSUME NEW src \in Lists(h) \cup Keyed(h), IsHeap(h), ChangeList(src) \/ ChangeKeyed(src)
  PROVE  IsHeap(h') /\ h'.iters = h.iters /\ Sources(h') = Sources(h) /\ last' = Quiet /\ UNCHANGED ref
PROOF
<1> DEFINE s == Contents(h, src)
<1>1. s \in Seq(Values)
  BY ContentsTyped DEF Sources
<1> SUFFICES ASSUME NEW t \in Seq(Values), h' = SetContents(h, src, t), last' = Quiet, UNCHANGED ref
             PROVE  IsHeap(h') /\ h'.iters = h.iters /\ Sources(h') = Sources(h)
  <2>1. ASSUME NEW x \in Values, Change(<<"append", src, x>>)
        PROVE  \E t \in Seq(Values) : h' = SetContents(h, src, t)
    <3>1. Append(s, x) \in Seq(Values)
      BY <1>1
    <3>2. h' = SetContents(h, src, Append(s, x))
      BY <2>1 DEF Change, Mutate
    <3> QED BY <3>1, <3>2
  <2>2. ASSUME NEW at \in Positions, NEW x \in Values, Change(<<"insert", src, at, x>>)
        PROVE  \E t \in Seq(Values) : h' = SetContents(h, src, t)
    BY <1>1, <2>2, Inserted, PositionsAssumption DEF Change, Mutate
  <2>3. ASSUME Change(<<"pop", src>>)
        PROVE  \E t \in Seq(Values) : h' = SetContents(h, src, t)
    <3>1. CASE s = << >>
      BY <1>1, <2>3, <3>1 DEF Change, Mutate
    <3>2. CASE s # << >>
      <4>1. Len(s) \in DOMAIN s
        BY <1>1, <3>2
      <4> QED BY <1>1, <2>3, <3>2, <4>1, Removed DEF Change, Mutate
    <3> QED BY <3>1, <3>2
  <2>4. ASSUME Change(<<"drop", src>>)
        PROVE  \E t \in Seq(Values) : h' = SetContents(h, src, t)
    <3>1. CASE s = << >>
      BY <1>1, <2>4, <3>1 DEF Change, Mutate
    <3>2. CASE s # << >>
      <4>1. 1 \in DOMAIN s
        BY <1>1, <3>2
      <4> QED BY <1>1, <2>4, <3>2, <4>1, Removed DEF Change, Mutate
    <3> QED BY <3>1, <3>2
  <2>5. ASSUME Change(<<"clear", src>>)
        PROVE  \E t \in Seq(Values) : h' = SetContents(h, src, t)
    <3>1. << >> \in Seq(Values)
      OBVIOUS
    <3>2. h' = SetContents(h, src, << >>)
      BY <2>5 DEF Change, Mutate
    <3> QED BY <3>1, <3>2
  <2>6. ASSUME NEW k \in Values, Change(<<"setkey", src, k>>)
        PROVE  \E t \in Seq(Values) : h' = SetContents(h, src, t)
    <3>1. SetKey(s, k) \in Seq(Values)
      BY <1>1 DEF SetKey
    <3>2. h' = SetContents(h, src, SetKey(s, k))
      BY <2>6 DEF Change, Mutate
    <3> QED BY <3>1, <3>2
  <2>7. ASSUME NEW k \in Values, Change(<<"delkey", src, k>>)
        PROVE  \E t \in Seq(Values) : h' = SetContents(h, src, t)
    BY <1>1, <2>7, Removed DEF Change, Mutate, DelKey
  <2>8. last' = Quiet /\ UNCHANGED ref
    BY DEF ChangeList, ChangeKeyed, Change
  <2> QED BY <2>1, <2>2, <2>3, <2>4, <2>5, <2>6, <2>7, <2>8 DEF ChangeList, ChangeKeyed
<1> QED BY ContentsSet

-----------------------------------------------------------------------------
(* What an iterator answers *)

LEMMA InitInvariant == Init => IInv
PROOF
<1> SUFFICES ASSUME Init PROVE IInv
  OBVIOUS
<1>1. IsHeap(h) /\ h.iters = << >> /\ ref = << >>
  BY StartsAssumption DEF Init
<1>2. << >> \in Seq({HeapIterator(r) : r \in References}) /\ << >> \in Seq(References)
  OBVIOUS
<1>3. LiveAsPython
  BY DEF Init, Quiet, LiveAsPython, Stop
<1> QED BY <1>1, <1>2, <1>3 DEF IInv, Matched, FixedKept

\* A change leaves what the iterators noted.
LEMMA ChangeInvariant ==
  ASSUME IInv, NEW src \in Lists(h) \cup Keyed(h), ChangeList(src) \/ ChangeKeyed(src)
  PROVE  IInv'
PROOF
<1>1. IsHeap(h') /\ h'.iters = h.iters /\ Sources(h') = Sources(h) /\ last' = Quiet /\ UNCHANGED ref
  BY ChangeTyped DEF IInv
<1>2. References' = References
  BY <1>1 DEF References
<1>3. LiveAsPython'
  BY <1>1 DEF LiveAsPython, Quiet
<1>4. (h.iters \in Seq({HeapIterator(r) : r \in References}))'
  BY <1>1, <1>2 DEF IInv
<1> QED BY <1>1, <1>2, <1>3, <1>4 DEF IInv, Matched, FixedKept

LEMMA OpenInvariant ==
  ASSUME IInv, NEW kind \in Kinds, NEW src \in Sources(h), Open(kind, src)
  PROVE  IInv'
PROOF
<1> DEFINE s == Contents(h, src)
           new == LiveIter(kind, src, s)
<1>1. /\ s \in Seq(Values)
      /\ src[1] \in {"list", "dict", "set", "tuple"}
      /\ src[1] = "tuple" => s = src[2]
  BY ContentsTyped DEF IInv
<1>2. Len(s) \in Nat
  BY <1>1, LenProperties
<1>3. new \in References
  BY <1>1 DEF LiveIter, References
<1>4. /\ new.kind = kind /\ new.src = src /\ new.given = 0 /\ Over(new) = FALSE /\ new.start = s
  BY DEF LiveIter, Over
<1>5. h' = [h EXCEPT !.iters = Append(@, HeapIterator(new))]
  <2>1. CASE kind = "seq"
    <3>1. h' = NewIter(h, "seq", src, 0, Len(s), << >>, FALSE, 0, NoFunction)
      BY <1>1, <2>1 DEF Open, MakeIter, ValueLength
    <3> QED BY <3>1, <2>1, <1>4 DEF NewIter, HeapIterator, Noted, IndexOf
  <2>2. CASE kind = "reversed"
    <3>1. h' = NewIter(h, "reversed", src, Len(s) - 1, Len(s), << >>, FALSE, 0, NoFunction)
      BY <2>2 DEF Open, ReversedOf, ValueLength
    <3>2. Len(s) - 1 = Len(s) - 1 - 0
      BY <1>2
    <3> QED BY <3>1, <3>2, <2>2, <1>4 DEF NewIter, HeapIterator, Noted, IndexOf
  <2> QED BY <2>1, <2>2 DEF Kinds
<1>6. PICK L, K, I, C : h = [lists |-> L, keyed |-> K, iters |-> I, calls |-> C]
  BY DEF IInv, IsHeap
<1>7. /\ h'.iters = Append(h.iters, HeapIterator(new))
      /\ h'.lists = h.lists /\ h'.keyed = h.keyed /\ IsHeap(h')
  BY <1>5, <1>6 DEF IInv, IsHeap
<1>8. References' = References /\ Sources(h') = Sources(h)
  BY <1>7 DEF References, Sources, Lists, Keyed
<1>9. ref' = Append(ref, new) /\ last' = Quiet
  BY DEF Open
<1>10. ref' \in Seq(References) /\ h'.iters \in Seq({HeapIterator(r) : r \in References})
  BY <1>3, <1>7, <1>9 DEF IInv
<1>11. Matched'
  BY <1>3, <1>7, <1>9 DEF IInv, Matched
<1>12. FixedKept'
  BY <1>1, <1>3, <1>4, <1>9 DEF IInv, FixedKept
<1>13. LiveAsPython'
  BY <1>9 DEF LiveAsPython, Quiet
<1> QED BY <1>7, <1>8, <1>10, <1>11, <1>12, <1>13 DEF IInv

\* The answer of the VM, as a function of what the language reference notes.
Ends(r, s) ==
  IF r.src[1] = "list" THEN (IF r.kind = "seq" THEN r.given + 1 ELSE Len(r.start) - r.given) \notin DOMAIN s
  ELSE IF r.kind = "seq" THEN r.given >= Len(r.start)
  ELSE (Len(r.start) - r.given) \notin DOMAIN s

NextOf(r) == IF r.kind = "seq" THEN r.given + 1 ELSE Len(r.start) - r.given

VmAnswer(r, s) ==
  IF Over(r) THEN Stop
  ELSE IF r.src[1] \in {"dict", "set"} /\ Len(s) # Len(r.start) THEN Error("RUNTIME")
  ELSE IF Ends(r, s) THEN Stop ELSE Item(s[NextOf(r)])

Finished(it)     == [it EXCEPT !.done = TRUE]
Advanced(it, at) == [it EXCEPT !.index = at]

LEMMA NotedDone ==
  ASSUME NEW k, NEW s, NEW x, NEW n, NEW d, NEW e
  PROVE  [Noted(k, s, x, n, d) EXCEPT !.done = e] = Noted(k, s, x, n, e)
PROOF
<1>1. ASSUME NEW u, NEW t, NEW c, NEW f
      PROVE  [[kind |-> k, src |-> s, index |-> x, length |-> n, done |-> d, subs |-> u,
               strict |-> t, counter |-> c, func |-> f] EXCEPT !.done = e]
               = [kind |-> k, src |-> s, index |-> x, length |-> n, done |-> e, subs |-> u,
                  strict |-> t, counter |-> c, func |-> f]
  BY SMT
<1> QED BY <1>1, Zenon DEF Noted

LEMMA NotedIndex ==
  ASSUME NEW k, NEW s, NEW x, NEW n, NEW d, NEW y
  PROVE  [Noted(k, s, x, n, d) EXCEPT !.index = y] = Noted(k, s, y, n, d)
PROOF
<1>1. ASSUME NEW u, NEW t, NEW c, NEW f
      PROVE  [[kind |-> k, src |-> s, index |-> x, length |-> n, done |-> d, subs |-> u,
               strict |-> t, counter |-> c, func |-> f] EXCEPT !.index = y]
               = [kind |-> k, src |-> s, index |-> y, length |-> n, done |-> d, subs |-> u,
                  strict |-> t, counter |-> c, func |-> f]
  BY SMT
<1> QED BY <1>1, Zenon DEF Noted

LEMMA NotedUpdates ==
  ASSUME NEW k, NEW s, NEW x, NEW n, NEW d, NEW y
  PROVE  /\ Finished(Noted(k, s, x, n, d)) = Noted(k, s, x, n, TRUE)
         /\ Advanced(Noted(k, s, x, n, d), y) = Noted(k, s, y, n, d)
PROOF
<1>1. PICK e : e = TRUE
  OBVIOUS
<1>2. Finished(Noted(k, s, x, n, d)) = [Noted(k, s, x, n, d) EXCEPT !.done = e]
  BY <1>1, Zenon DEF Finished
<1>3. [Noted(k, s, x, n, d) EXCEPT !.done = e] = Noted(k, s, x, n, e)
  BY NotedDone
<1>4. Finished(Noted(k, s, x, n, d)) = Noted(k, s, x, n, TRUE)
  BY <1>1, <1>2, <1>3, Zenon
<1>5. Advanced(Noted(k, s, x, n, d), y) = Noted(k, s, y, n, d)
  BY NotedIndex DEF Advanced
<1> QED BY <1>4, <1>5

LEMMA FollowedIs ==
  ASSUME NEW r \in References, NEW out
  PROVE  /\ Followed(r, out) \in References
         /\ Followed(r, out).kind = r.kind /\ Followed(r, out).src = r.src
         /\ Followed(r, out).start = r.start
         /\ out.tag = "item" => Followed(r, out).given = r.given + 1
         /\ out.tag # "item" => Followed(r, out).given = r.given
         /\ out.tag = "stop" => Followed(r, out).state = "over"
         /\ out.tag = "error" => Followed(r, out).state = "failed"
         /\ out.tag = "item" => Followed(r, out).state = r.state
PROOF
<1> DEFINE given == r.given + (IF out.tag = "item" THEN 1 ELSE 0)
           state == CASE out.tag = "stop" -> "over" [] out.tag = "error" -> "failed" [] OTHER -> r.state
<1>1. /\ given \in Nat
      /\ out.tag = "item" => given = r.given + 1
      /\ out.tag # "item" => given = r.given
  BY DEF References
<1>2. /\ state \in {"on", "over", "failed"}
      /\ out.tag = "stop" => state = "over"
      /\ out.tag = "error" => state = "failed"
      /\ out.tag = "item" => state = r.state
  BY DEF References
<1>3. Followed(r, out) = [r EXCEPT !.given = given, !.state = state]
  BY DEF Followed
<1> HIDE DEF given, state
<1> QED BY <1>1, <1>2, <1>3 DEF References

LEMMA Answers ==
  ASSUME IInv, NEW i \in DOMAIN ref
  PROVE  /\ Reply(i).out = VmAnswer(ref[i], Contents(h, ref[i].src))
         /\ Reply(i).h = [h EXCEPT !.iters[i] = HeapIterator(Followed(ref[i], Reply(i).out))]
PROOF
<1> DEFINE r == ref[i]
           it == h.iters[i]
           s == Contents(h, r.src)
<1>1. r \in References
  BY DEF IInv
<1>2. it = HeapIterator(r) /\ i \in DOMAIN h.iters
  BY DEF IInv, Matched
<1>3. /\ it.kind = r.kind /\ it.src = r.src /\ it.length = Len(r.start) /\ (it.done <=> Over(r))
      /\ it.index = IndexOf(r)
  BY <1>2 DEF HeapIterator, Noted
<1>4. /\ s \in Seq(Values)
      /\ r.src[1] \in {"list", "dict", "set", "tuple"}
      /\ r.src[1] = "tuple" => s = r.src[2]
  BY <1>1, ContentsTyped DEF IInv, References
<1>5. Len(s) \in Nat /\ DOMAIN s = 1..Len(s) /\ Len(r.start) \in Nat /\ r.given \in Nat /\ r.kind \in Kinds
  BY <1>1, <1>4, LenProperties DEF References
<1>6. ValueLength(h, it.src) = Len(s) /\ Contents(h, it.src) = s
  BY <1>3 DEF ValueLength
<1>7. PICK L, K, I, C : h = [lists |-> L, keyed |-> K, iters |-> I, calls |-> C]
  BY DEF IInv, IsHeap
<1>8. [h EXCEPT !.iters[i] = it] = h
  BY <1>7, <1>2 DEF IInv
<1> DEFINE by == IF r.kind = "seq" THEN 1 ELSE -1
<1>9. IndexOf(r) \in Int /\ IndexOf(r) = IF r.kind = "seq" THEN r.given ELSE Len(r.start) - 1 - r.given
  BY <1>5 DEF IndexOf
<1> HIDE DEF by
<1>10. ASSUME NEW out, out.tag = "stop"
       PROVE  HeapIterator(Followed(r, out)) = [it EXCEPT !.done = TRUE]
  <2>1. IndexOf(Followed(r, out)) = IndexOf(r)
    <3>1. out.tag # "item"
      BY <1>10
    <3> QED BY <1>1, <3>1, FollowedIs, Zenon DEF IndexOf
  <2>2. Over(Followed(r, out)) = TRUE
    BY <1>1, <1>10, FollowedIs DEF Over
  <2>3. HeapIterator(Followed(r, out)) = Noted(r.kind, r.src, IndexOf(r), Len(r.start), TRUE)
    BY <1>1, <2>1, <2>2, FollowedIs, Zenon DEF HeapIterator
  <2>4. [it EXCEPT !.done = TRUE] = Noted(r.kind, r.src, IndexOf(r), Len(r.start), TRUE)
    <3>1. Finished(it) = Noted(r.kind, r.src, IndexOf(r), Len(r.start), TRUE)
      <4>1. PICK k, w, x, n, d : /\ k = r.kind /\ w = r.src /\ x = IndexOf(r) /\ n = Len(r.start)
                                 /\ d = Over(r)
        OBVIOUS
      <4>2. Finished(Noted(k, w, x, n, d)) = Noted(k, w, x, n, TRUE)
        BY NotedUpdates
      <4> QED BY <4>1, <4>2, <1>2, Zenon DEF HeapIterator
    <3> QED BY <3>1, Zenon DEF Finished
  <2> QED BY <2>3, <2>4, Zenon
<1>11. ASSUME NEW out, out.tag = "error", ~Over(r)
       PROVE  HeapIterator(Followed(r, out)) = it
  <2>1. IndexOf(Followed(r, out)) = IndexOf(r)
    <3>1. out.tag # "item"
      BY <1>11
    <3> QED BY <1>1, <3>1, FollowedIs, Zenon DEF IndexOf
  <2>2. Over(Followed(r, out)) = Over(r)
    BY <1>1, <1>11, FollowedIs DEF Over
  <2> QED BY <1>1, <1>2, <2>1, <2>2, FollowedIs, Zenon DEF HeapIterator
<1>12. ASSUME NEW out, out.tag = "item"
       PROVE  HeapIterator(Followed(r, out)) = [it EXCEPT !.index = @ + by]
  <2>1. IndexOf(Followed(r, out)) = it.index + by
    <3>1. IndexOf(Followed(r, out)) = IF r.kind = "seq" THEN r.given + 1 ELSE Len(r.start) - 1 - (r.given + 1)
      BY <1>1, <1>12, FollowedIs, Zenon DEF IndexOf
    <3> QED BY <3>1, <1>3, <1>5, <1>9 DEF by, Kinds
  <2>2. Over(Followed(r, out)) = Over(r)
    BY <1>1, <1>12, FollowedIs DEF Over
  <2>3. HeapIterator(Followed(r, out)) = Noted(r.kind, r.src, it.index + by, Len(r.start), Over(r))
    BY <1>1, <2>1, <2>2, FollowedIs, Zenon DEF HeapIterator
  <2>4. [it EXCEPT !.index = it.index + by] = Noted(r.kind, r.src, it.index + by, Len(r.start), Over(r))
    <3>1. Advanced(it, it.index + by) = Noted(r.kind, r.src, it.index + by, Len(r.start), Over(r))
      <4>1. PICK k, w, x, n, d, y : /\ k = r.kind /\ w = r.src /\ x = IndexOf(r) /\ n = Len(r.start)
                                    /\ d = Over(r) /\ y = it.index + by
        OBVIOUS
      <4>2. Advanced(Noted(k, w, x, n, d), y) = Noted(k, w, y, n, d)
        BY NotedIndex DEF Advanced
      <4> QED BY <4>1, <4>2, <1>2, Zenon DEF HeapIterator
    <3> QED BY <3>1, Zenon DEF Advanced
  <2> QED BY <2>3, <2>4, Zenon
<1>13. /\ [h EXCEPT !.iters[i].done = TRUE] = [h EXCEPT !.iters[i] = [it EXCEPT !.done = TRUE]]
       /\ [h EXCEPT !.iters[i].index = @ + by] = [h EXCEPT !.iters[i] = [it EXCEPT !.index = @ + by]]
  BY <1>7, <1>2
<1>14. CASE Over(r)
  <2>1. Reply(i) = Result(h, Stop)
    BY <1>3, <1>14 DEF Reply, SeqNext, ReversedNext
  <2>2. Reply(i).out = Stop /\ Reply(i).h = h /\ Stop.tag = "stop"
    BY <2>1 DEF Result, Stop
  <2>3. [it EXCEPT !.done = TRUE] = it
    <3>1. Over(r) = TRUE
      BY <1>14
    <3>2. it = Noted(r.kind, r.src, IndexOf(r), Len(r.start), TRUE)
      BY <3>1, <1>2, Zenon DEF HeapIterator
    <3>3. Finished(it) = it
      <4>1. PICK k, w, x, n, d : /\ k = r.kind /\ w = r.src /\ x = IndexOf(r) /\ n = Len(r.start)
                                 /\ d = TRUE
        OBVIOUS
      <4>2. Finished(Noted(k, w, x, n, d)) = Noted(k, w, x, n, TRUE)
        BY NotedUpdates
      <4> QED BY <4>1, <4>2, <3>2, Zenon
    <3> QED BY <3>3, Zenon DEF Finished
  <2> QED BY <2>2, <2>3, <1>8, <1>10, <1>14 DEF VmAnswer
<1>15. CASE ~Over(r) /\ r.src[1] \in {"dict", "set"} /\ Len(s) # Len(r.start)
  <2>1. Reply(i) = Result(h, Error("RUNTIME"))
    BY <1>3, <1>6, <1>15 DEF Reply, SeqNext, ReversedNext, IsKeyed
  <2>2. Reply(i).out = Error("RUNTIME") /\ Reply(i).h = h /\ Error("RUNTIME").tag = "error"
    BY <2>1 DEF Result, Error
  <2> QED BY <2>2, <1>8, <1>11, <1>15 DEF VmAnswer
<1>16. CASE ~Over(r) /\ ~(r.src[1] \in {"dict", "set"} /\ Len(s) # Len(r.start)) /\ Ends(r, s)
  <2>1. Reply(i) = Exhausted(h, i)
    <3>1. CASE r.kind = "seq"
      <4>1. IF r.src[1] = "list" THEN r.given >= Len(s) ELSE r.given >= Len(r.start)
        BY <3>1, <1>5, <1>16 DEF Ends
      <4> QED BY <3>1, <4>1, <1>3, <1>9, <1>5, <1>6, <1>16 DEF Reply, SeqNext, IsKeyed
    <3>2. CASE r.kind = "reversed"
      <4>1. Len(r.start) - 1 - r.given < 0 \/ Len(r.start) - 1 - r.given >= Len(s)
        BY <3>2, <1>5, <1>16 DEF Ends
      <4> QED BY <3>2, <4>1, <1>3, <1>9, <1>5, <1>6, <1>16 DEF Reply, ReversedNext, IsKeyed
    <3> QED BY <3>1, <3>2, <1>5 DEF Kinds
  <2>2. Reply(i).out = Stop /\ Stop.tag = "stop" /\ Reply(i).h = [h EXCEPT !.iters[i].done = TRUE]
    BY <2>1 DEF Result, Exhausted, Stop
  <2> QED BY <2>2, <1>10, <1>13, <1>16 DEF VmAnswer
<1>17. CASE ~Over(r) /\ ~(r.src[1] \in {"dict", "set"} /\ Len(s) # Len(r.start)) /\ ~Ends(r, s)
  <2>1. Reply(i) = Step(h, i, by)
    <3>1. CASE r.kind = "seq"
      <4>1. IF r.src[1] = "list" THEN ~(r.given >= Len(s)) ELSE ~(r.given >= Len(r.start))
        BY <3>1, <1>5, <1>17 DEF Ends
      <4> QED BY <3>1, <4>1, <1>3, <1>9, <1>5, <1>6, <1>17 DEF Reply, SeqNext, IsKeyed, by
    <3>2. CASE r.kind = "reversed"
      <4>1. ~(Len(r.start) - 1 - r.given < 0 \/ Len(r.start) - 1 - r.given >= Len(s))
        BY <3>2, <1>5, <1>17 DEF Ends
      <4> QED BY <3>2, <4>1, <1>3, <1>9, <1>5, <1>6, <1>17 DEF Reply, ReversedNext, IsKeyed, by
    <3> QED BY <3>1, <3>2, <1>5 DEF Kinds
  <2>2. it.index + 1 = NextOf(r)
    BY <1>3, <1>9, <1>5 DEF NextOf, Kinds
  <2>3. Step(h, i, by) = Result([h EXCEPT !.iters[i].index = @ + by], Item(s[NextOf(r)]))
    BY <2>2, <1>6 DEF Step
  <2>4. /\ Reply(i).out = Item(s[NextOf(r)]) /\ Reply(i).out.tag = "item"
        /\ Reply(i).h = [h EXCEPT !.iters[i].index = @ + by]
    BY <2>1, <2>3 DEF Result, Item
  <2> QED BY <2>4, <1>12, <1>13, <1>17 DEF VmAnswer
<1> QED BY <1>14, <1>15, <1>16, <1>17, <1>5

\* What the VM answers is what the language reference says, where it says something.
LEMMA AnswersAgree ==
  ASSUME IInv, NEW i \in DOMAIN ref, Promised(ref[i], Contents(h, ref[i].src))
  PROVE  VmAnswer(ref[i], Contents(h, ref[i].src)) = LiveNext(ref[i], Contents(h, ref[i].src))
PROOF
<1> DEFINE r == ref[i]
           s == Contents(h, r.src)
<1>1. r \in References
  BY DEF IInv
<1>2. /\ s \in Seq(Values)
      /\ r.src[1] \in {"list", "dict", "set", "tuple"}
      /\ r.src[1] = "tuple" => s = r.start
  BY <1>1, ContentsTyped DEF IInv, References, FixedKept
<1>3. Len(s) \in Nat /\ DOMAIN s = 1..Len(s) /\ Len(r.start) \in Nat /\ r.given \in Nat /\ r.kind \in Kinds
  BY <1>1, <1>2, LenProperties DEF References
<1>4. CASE r.src[1] = "list"
  BY <1>3, <1>4 DEF VmAnswer, LiveNext, Over, Ends, NextOf
<1>5. CASE r.src[1] # "list" /\ Len(s) # Len(r.start)
  BY <1>2, <1>3, <1>5 DEF VmAnswer, LiveNext, Over
<1>6. CASE r.src[1] # "list" /\ Len(s) = Len(r.start)
  <2>1. Ends(r, s) <=> ~(r.given < Len(r.start))
    BY <1>3, <1>6 DEF Ends, Kinds
  <2> QED BY <2>1, <1>2, <1>3, <1>6 DEF VmAnswer, LiveNext, Over, NextOf
<1> QED BY <1>4, <1>5, <1>6

LEMMA AskInvariant ==
  ASSUME IInv, NEW i \in DOMAIN ref, Ask(i)
  PROVE  IInv'
PROOF
<1> DEFINE r   == ref[i]
           s   == Contents(h, r.src)
           out == Reply(i).out
           new == Followed(r, out)
<1>1. r \in References /\ i \in DOMAIN h.iters
  BY DEF IInv, Matched
<1>2. h' = [h EXCEPT !.iters[i] = HeapIterator(new)]
  BY Answers DEF Ask
<1>3. ref' = [ref EXCEPT ![i] = new]
  BY DEF Ask
<1>4. new \in References /\ new.src = r.src /\ new.start = r.start
  <2>1. PICK o : o = out
    OBVIOUS
  <2>2. PICK q \in References : q = r
    BY <1>1
  <2>3. Followed(q, o) \in References /\ Followed(q, o).src = q.src /\ Followed(q, o).start = q.start
    BY FollowedIs
  <2> QED BY <2>1, <2>2, <2>3
<1>5. PICK L, K, I, C : h = [lists |-> L, keyed |-> K, iters |-> I, calls |-> C]
  BY DEF IInv, IsHeap
<1>6. /\ h'.iters = [h.iters EXCEPT ![i] = HeapIterator(new)]
      /\ h'.lists = h.lists /\ h'.keyed = h.keyed /\ IsHeap(h')
  BY <1>2, <1>5 DEF IInv, IsHeap
<1>7. References' = References /\ Sources(h') = Sources(h)
  BY <1>6 DEF References, Sources, Lists, Keyed
<1>8. ref' \in Seq(References) /\ h'.iters \in Seq({HeapIterator(q) : q \in References})
  BY <1>3, <1>4, <1>6, <1>1 DEF IInv
<1>9. Matched'
  BY <1>1, <1>3, <1>6 DEF IInv, Matched
<1>10. FixedKept'
  BY <1>1, <1>3, <1>4 DEF IInv, FixedKept
<1>11. LiveAsPython'
  <2>1. last' = [vm |-> out, py |-> IF Promised(r, s) THEN LiveNext(r, s) ELSE out]
    BY DEF Ask
  <2>2. out = VmAnswer(r, s)
    BY Answers
  <2>3. Promised(r, s) => VmAnswer(r, s) = LiveNext(r, s)
    BY AnswersAgree
  <2>4. last'.vm = last'.py
    BY <2>1, <2>2, <2>3
  <2> QED BY <2>4 DEF LiveAsPython
<1> QED BY <1>6, <1>7, <1>8, <1>9, <1>10, <1>11 DEF IInv

-----------------------------------------------------------------------------
\* Iterators of lists, dicts, sets and fixed values answer what the language reference
\* says, whatever the containers hold, however many iterators are at work, and in any
\* order of requests and changes (seq_next, reversed_next).
THEOREM LiveIteratorsAsPython == Spec => []LiveAsPython
PROOF
<1>1. IInv /\ [Next]_vars => IInv'
  <2> SUFFICES ASSUME IInv, [Next]_vars PROVE IInv'
    OBVIOUS
  <2>1. ASSUME NEW kind \in {"seq", "reversed"}, NEW src \in Sources(h), Open(kind, src)
        PROVE  IInv'
    BY <2>1, OpenInvariant DEF Kinds
  <2>2. ASSUME NEW i \in DOMAIN ref, Ask(i)
        PROVE  IInv'
    BY <2>2, AskInvariant
  <2>3. ASSUME NEW src \in Lists(h), ChangeList(src)
        PROVE  IInv'
    BY <2>3, ChangeInvariant
  <2>4. ASSUME NEW src \in Keyed(h), ChangeKeyed(src)
        PROVE  IInv'
    BY <2>4, ChangeInvariant
  <2>5. CASE UNCHANGED vars
    <3>1. h' = h /\ ref' = ref /\ last' = last
      BY <2>5 DEF vars
    <3>2. References' = References
      BY <3>1 DEF References
    <3> QED BY <3>1, <3>2 DEF IInv, Matched, FixedKept, LiveAsPython
  <2> QED BY <2>1, <2>2, <2>3, <2>4, <2>5 DEF Next
<1>2. IInv => LiveAsPython
  BY DEF IInv
<1> QED BY InitInvariant, <1>1, <1>2, PTL DEF Spec
=============================================================================
