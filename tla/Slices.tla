------------------------------- MODULE Slices -------------------------------
(***************************************************************************)
(* Subscripts and slices of lists and tuples, vm_c/ops_sequence.c: reading,*)
(* storing and deleting by an index or by start:stop:step.                 *)
(*                                                                         *)
(* An array starts at 0, so items[i + 1] is array[i].                      *)
(***************************************************************************)
EXTENDS Int64, Sequences

CONSTANT Absent    \* a bound or step that is None

ASSUME AbsentAssumption == Absent \notin Int

-----------------------------------------------------------------------------
\* normalize_index: a negative index counts from the end.
NormalizeIndex(idx, len) == IF idx < 0 THEN idx + len ELSE idx

ValidIndex(idx, len) == NormalizeIndex(idx, len) \in 0..(len - 1)

GetIndex(items, idx) ==
  IF ValidIndex(idx, Len(items)) THEN Done(items[NormalizeIndex(idx, Len(items)) + 1])
  ELSE Failed("BOUNDS")

SetIndex(items, idx, value) ==
  IF ValidIndex(idx, Len(items))
  THEN Done([items EXCEPT ![NormalizeIndex(idx, Len(items)) + 1] = value])
  ELSE Failed("BOUNDS")

DeleteIndex(items, idx) ==
  LET i == NormalizeIndex(idx, Len(items))
  IN IF ValidIndex(idx, Len(items))
     THEN Done(SubSeq(items, 1, i) \o SubSeq(items, i + 2, Len(items)))
     ELSE Failed("BOUNDS")

-----------------------------------------------------------------------------
FaultyClamp(bound, step, len) ==
  LET from_end == bound + len
      above    == IF step < 0 THEN len - 1 ELSE len
  IN IF bound < 0 THEN (IF from_end < 0 THEN 0 ELSE from_end)
     ELSE IF bound >= len THEN above ELSE bound

\* A bound brought into the list: from -1 when the slice goes down.
Clamp(bound, step, len) ==
  LET from_end == bound + len
      below    == IF step < 0 THEN -1 ELSE 0
      above    == IF step < 0 THEN len - 1 ELSE len
  IN IF bound < 0 THEN (IF from_end < 0 THEN below ELSE from_end)
     ELSE IF bound >= len THEN above ELSE bound

\* How many indexes start, start + step, ... come before stop.
Count(start, stop, step) ==
  IF step < 0 THEN (IF stop < start THEN (start - stop - 1) \div (-step) + 1 ELSE 0)
  ELSE IF start < stop THEN (stop - start - 1) \div step + 1 ELSE 0

\* adjust_slice: the first index and the number of indexes of a slice.
AdjustSlice(start_val, stop_val, step, len) ==
  LET first == IF start_val # Absent THEN start_val ELSE IF step < 0 THEN IntMax ELSE 0
      last  == IF stop_val # Absent THEN stop_val ELSE IF step < 0 THEN IntMin ELSE IntMax
      start == Clamp(first, step, len)
      stop  == Clamp(last, step, len)
  IN [start |-> start, count |-> Count(start, stop, step)]

\* The step as the loops use it: INT64_MIN cannot be negated.
StepOf(step_val) ==
  IF step_val = Absent THEN 1 ELSE IF step_val = IntMin THEN -IntMax ELSE step_val

\* op_get_slice, of a list or a tuple.
GetSlice(items, start_val, stop_val, step_val) ==
  LET step == StepOf(step_val)
      s    == AdjustSlice(start_val, stop_val, step, Len(items))
  IN IF step = 0 THEN Failed("TYPE")
     ELSE Done([k \in 1..s.count |-> items[s.start + (k - 1) * step + 1]])

\* list_replace_range: count items from start on give way to new ones.
ReplaceRange(list, start, count, items) ==
  SubSeq(list, 1, start) \o items \o SubSeq(list, start + count + 1, Len(list))

\* op_store_slice, once the value is the list items.
StoreSlice(list, start_val, stop_val, step_val, items) ==
  LET step == StepOf(step_val)
      s    == AdjustSlice(start_val, stop_val, step, Len(list))
      \* The positions in items of what goes to index i: one at most.
      sources(i) == {k \in 0..(s.count - 1) : i = s.start + k * step}
  IN IF step = 0 THEN Failed("VALUE")
     ELSE IF step = 1 THEN Done(ReplaceRange(list, s.start, s.count, items))
     ELSE IF Len(items) # s.count THEN Failed("VALUE")
     ELSE Done([i \in 1..Len(list) |->
                  IF sources(i - 1) = {} THEN list[i]
                  ELSE items[(CHOOSE k \in sources(i - 1) : TRUE) + 1]])

\* The loop of op_delete_slice: one pass upwards that drops the slice's indexes
\* in the order it meets them, the last first when the slice goes down.
Kept(list, start, count, step) ==
  LET walk[i \in 0..Len(list)] ==
        IF i = 0 THEN [next |-> IF step > 0 THEN 0 ELSE count - 1, kept |-> << >>]
        ELSE LET w == walk[i - 1]
             IN IF w.next \in 0..(count - 1) /\ i - 1 = start + w.next * step
                THEN [w EXCEPT !.next = IF step > 0 THEN @ + 1 ELSE @ - 1]
                ELSE [w EXCEPT !.kept = Append(@, list[i])]
  IN walk[Len(list)].kept

\* op_delete_slice.
DeleteSlice(list, start_val, stop_val, step_val) ==
  LET step == StepOf(step_val)
      s    == AdjustSlice(start_val, stop_val, step, Len(list))
  IN IF step = 0 THEN Failed("VALUE")
     ELSE IF s.count = 0 THEN Done(list)
     ELSE IF step = 1 THEN Done(ReplaceRange(list, s.start, s.count, << >>))
     ELSE Done(Kept(list, s.start, s.count, step))
=============================================================================
