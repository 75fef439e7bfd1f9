--------------------------- MODULE LiveIteration ---------------------------
(***************************************************************************)
(* A program with lists, dicts and sets that opens iterators of them, asks *)
(* any of them for its next item (OP_FOR_ITER of vm_c/vm.c and next()),    *)
(* and changes the containers, in any order.                               *)
(*                                                                         *)
(* Beside the heap of the VM stands what the language reference says of    *)
(* each iterator, in ref: a counter for a list; for a dict or a set an     *)
(* error once the size differs, and no promise once keys were replaced or  *)
(* once the error was raised.                                              *)
(***************************************************************************)
EXTENDS Iterators

CONSTANTS
  Starts,        \* the heaps a program begins with: containers, and no iterators
  Sets,          \* the numbers of the keyed containers that are sets
  Fixed,         \* the values that never change
  Values,        \* the items of lists and the keys of dicts and sets
  Positions,     \* the positions to insert at
  MaxLen,        \* the longest a container gets
  MaxIters       \* the most iterators

IsHeap(g) ==
  /\ g = [lists |-> g.lists, keyed |-> g.keyed, iters |-> g.iters, calls |-> g.calls]
  /\ g.lists \in Seq(Seq(Values))
  /\ g.keyed \in Seq(Seq(Values))

ASSUME StartsAssumption == \A g \in Starts : IsHeap(g) /\ g.iters = << >>
ASSUME FixedAssumption == Fixed \subseteq Seq(Values)
ASSUME PositionsAssumption == Positions \subseteq Int
ASSUME BoundsAssumption == MaxLen \in Nat /\ MaxIters \in Nat

VARIABLES h, ref, last
vars == <<h, ref, last>>

-----------------------------------------------------------------------------
(* What the language reference says: the source of an iterator, how many    *)
(* items it gave, whether it is over or has raised RuntimeError, and the    *)
(* items of its source when it was made.                                    *)

LiveIter(kind, src, contents) ==
  [kind |-> kind, src |-> src, given |-> 0, state |-> "on", start |-> contents]

LiveNext(it, contents) ==
  LET n    == Len(it.start)
      next == IF it.kind = "seq" THEN it.given + 1 ELSE n - it.given
      more == IF it.src[1] = "list" THEN next \in DOMAIN contents ELSE it.given < n
  IN IF it.state = "over" THEN Stop
     ELSE IF it.src[1] # "list" /\ Len(contents) # n THEN Error("RUNTIME")
     ELSE IF more THEN Item(contents[next]) ELSE Stop

Followed(it, out) ==
  [it EXCEPT !.given = @ + (IF out.tag = "item" THEN 1 ELSE 0),
             !.state = CASE out.tag = "stop" -> "over" [] out.tag = "error" -> "failed" [] OTHER -> @]

Promised(it, contents) ==
  \/ it.src[1] = "list"
  \/ Len(contents) # Len(it.start)
  \/ contents = it.start /\ it.state # "failed"

-----------------------------------------------------------------------------
Lists(g)  == {<<"list", i>> : i \in DOMAIN g.lists}
Keyed(g)  == {<<IF k \in Sets THEN "set" ELSE "dict", k>> : k \in DOMAIN g.keyed}
Unchanging == {<<"tuple", s>> : s \in Fixed}
Sources(g) == Lists(g) \cup Keyed(g) \cup Unchanging

Quiet == [vm |-> Stop, py |-> Stop]

Init == /\ h \in Starts
        /\ ref = << >>
        /\ last = Quiet

\* op_get_iter and reversed(); a set has no order to reverse.
Open(kind, src) ==
  /\ Len(h.iters) < MaxIters
  /\ kind = "reversed" => src[1] # "set"
  /\ h' = IF kind = "seq" THEN MakeIter(h, src).h ELSE ReversedOf(h, src)
  /\ ref' = Append(ref, LiveIter(kind, src, Contents(h, src)))
  /\ last' = Quiet

Reply(i) == IF h.iters[i].kind = "seq" THEN SeqNext(h, i) ELSE ReversedNext(h, i)

\* OP_FOR_ITER and next(): what the program learns, and what it was promised.
Ask(i) ==
  LET r        == Reply(i)
      contents == Contents(h, ref[i].src)
  IN /\ last' = [vm |-> r.out,
                 py |-> IF Promised(ref[i], contents) THEN LiveNext(ref[i], contents) ELSE r.out]
     /\ h' = r.h
     /\ ref' = [ref EXCEPT ![i] = Followed(@, r.out)]

Change(op) ==
  /\ h' = Mutate(h, op)
  /\ last' = Quiet
  /\ UNCHANGED ref

Room(src) == ValueLength(h, src) < MaxLen

\* list.append, insert, pop and clear
ChangeList(src) ==
  \/ Room(src) /\ \E x \in Values : Change(<<"append", src, x>>)
  \/ Room(src) /\ \E at \in Positions, x \in Values : Change(<<"insert", src, at, x>>)
  \/ Change(<<"pop", src>>)
  \/ Change(<<"drop", src>>)
  \/ Change(<<"clear", src>>)

\* dict[k] = v, set.add, del, discard and clear
ChangeKeyed(src) ==
  \/ Room(src) /\ \E k \in Values : Change(<<"setkey", src, k>>)
  \/ \E k \in Values : Change(<<"delkey", src, k>>)
  \/ Change(<<"clear", src>>)

Next ==
  \/ \E kind \in {"seq", "reversed"}, src \in Sources(h) : Open(kind, src)
  \/ \E i \in DOMAIN ref : Ask(i)
  \/ \E src \in Lists(h) : ChangeList(src)
  \/ \E src \in Keyed(h) : ChangeKeyed(src)

Spec == Init /\ [][Next]_vars

-----------------------------------------------------------------------------
\* Iterators agree with the language reference on containers that change between
\* two items: in any order of requests and changes, with any number of iterators of
\* the containers at work (seq_next, reversed_next).
LiveAsPython == last.vm = last.py
=============================================================================
