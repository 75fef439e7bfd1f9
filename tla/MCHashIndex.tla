---------------------------- MODULE MCHashIndex -----------------------------
(***************************************************************************)
(* HashIndex on small tables: keys that collide, share a home slot at some *)
(* capacities only, or wrap around the end of the index.                   *)
(***************************************************************************)
EXTENDS HashIndex, TLC

CONSTANTS a, b, c, d

\* Small capacities, so that every second insertion outgrows the index.
SmallCapacities == {2, 4, 8}

\* a and b collide at every capacity; c and d with them below 8, where all wrap.
FourHashes == a :> 3 @@ b :> 3 @@ c :> 7 @@ d :> 7
=============================================================================
