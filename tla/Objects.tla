------------------------------ MODULE Objects ------------------------------
(***************************************************************************)
(* The values that need no place in memory: what LOAD_CONST loads and what *)
(* a program shows.                                                        *)
(***************************************************************************)
EXTENDS Integers

None       == [tag |-> "none"]
Num(k)     == [tag |-> "int", n |-> k]
Truth(b)   == [tag |-> "bool", is |-> b]
Tuple(es)  == [tag |-> "tuple", items |-> es]
Native     == [tag |-> "native"]

\* A boolean is an integer.
IsInt(v)   == v.tag \in {"int", "bool"}
IntOf(v)   == CASE v.tag = "int" -> v.n
                [] v.tag = "bool" -> IF v.is THEN 1 ELSE 0
=============================================================================
