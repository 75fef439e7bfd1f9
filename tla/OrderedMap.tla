----------------------------- MODULE OrderedMap -----------------------------
(***************************************************************************)
(* What a dict promises: a map that remembers the order in which its keys  *)
(* were first inserted.  A set is the same without values.  Every          *)
(* operation is one step and leaves its answer.                            *)
(***************************************************************************)
EXTENDS Naturals, Sequences

CONSTANTS
  Keys,      \* hashable values, equal ones being the same element
  Values,    \* the values stored
  MayFail    \* whether memory may run out

\* An operation, what it was asked for, and what it returned.
Answer(kind, k, v) == [kind |-> kind, key |-> k, value |-> v]

Missing  == "missing"      \* no such key
Error    == "error"        \* nothing was stored
NoMemory == "no memory"    \* nothing was looked up; callers cannot tell it from Missing
Done     == "done"
Nothing  == "nothing"      \* no key, or no value, to speak of

Entry(k, v) == [key |-> k, value |-> v]

\* s without its element i, those after it moved down.
Removed(s, i) == [j \in 1..(Len(s) - 1) |-> IF j < i THEN s[j] ELSE s[j + 1]]

VARIABLES
  map,       \* the entries in insertion order
  answer     \* what the last operation returned

Absent(k) == \A i \in 1..Len(map) : map[i].key # k

Init == map = << >> /\ answer = Answer("none", Nothing, Nothing)

\* An existing key keeps its place, a new one goes last.
Set(k, v) ==
  /\ \/ \E i \in 1..Len(map) : map[i].key = k /\ map' = [map EXCEPT ![i].value = v]
     \/ Absent(k) /\ map' = Append(map, Entry(k, v))
  /\ answer' = Answer("set", k, Done)

SetFails(k) == map' = map /\ answer' = Answer("set", k, Error)

Get(k) ==
  /\ \/ \E i \in 1..Len(map) : map[i].key = k /\ answer' = Answer("get", k, map[i].value)
     \/ Absent(k) /\ answer' = Answer("get", k, Missing)
     \/ MayFail /\ answer' = Answer("get", k, NoMemory)
  /\ map' = map

\* Deleting keeps the order of the others.
Delete(k) ==
  \/ \E i \in 1..Len(map) :
       /\ map[i].key = k
       /\ map' = Removed(map, i) /\ answer' = Answer("delete", k, Done)
  \/ Absent(k) /\ map' = map /\ answer' = Answer("delete", k, Missing)
  \/ MayFail /\ map' = map /\ answer' = Answer("delete", k, NoMemory)

\* The entry inserted last.
PopItem ==
  \/ map # << >> /\ map' = Removed(map, Len(map))
       /\ answer' = Answer("popitem", map[Len(map)].key, map[Len(map)].value)
  \/ map = << >> /\ map' = map /\ answer' = Answer("popitem", Nothing, Missing)

Clear == map' = << >> /\ answer' = Answer("clear", Nothing, Done)

Next ==
  \/ \E k \in Keys : (\E v \in Values : Set(k, v)) \/ SetFails(k) \/ Get(k) \/ Delete(k)
  \/ PopItem \/ Clear

Spec == Init /\ [][Next]_<<map, answer>>
=============================================================================
