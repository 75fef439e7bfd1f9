--------------------------- MODULE MCCallBinding ---------------------------
(***************************************************************************)
(* CallBinding on every signature with up to two plain parameters (the     *)
(* first of them positional-only or not, any number of the last with a     *)
(* default), at most one keyword-only parameter, with and without *, ** or *)
(* a cell and a free variable, and on calls with up to three positional    *)
(* and two named arguments, which name parameters or nothing.              *)
(***************************************************************************)
EXTENDS CallBinding

Signature(params, posonly, defaults, kwonly, kwflags, star, twostar, cell, frees) ==
  LET npar == Len(params) + Len(kwonly)
      size == npar + (IF star THEN 1 ELSE 0) + (IF twostar THEN 1 ELSE 0)
  IN [params |-> params, posonly |-> posonly, defaults |-> defaults,
      kwonly |-> kwonly, kwflags |-> kwflags,
      kwonly_slots |-> [i \in 1..Len(kwonly) |-> Len(params) + i - 1],
      vararg |-> star, vararg_slot |-> npar,
      kwarg |-> twostar, kwarg_slot |-> size - 1,
      \* The cell is the last local: a parameter, *, ** or, in a function that has
      \* none of them, a plain local.
      nlocals |-> IF size = 0 /\ cell THEN 1 ELSE size,
      cell_slots |-> IF cell THEN <<IF size = 0 THEN 0 ELSE size - 1>> ELSE << >>,
      frees |-> frees]

MCFunctions ==
  {Signature(SubSeq(<<"a", "b">>, 1, np), po, d, SubSeq(<<"k">>, 1, nk),
             SubSeq(<<flag>>, 1, nk), star, twostar, shared = 1, shared) :
     np \in 0..2, po \in 0..1, d \in 0..2, nk \in 0..1, flag \in BOOLEAN,
     star \in BOOLEAN, twostar \in BOOLEAN, shared \in 0..1}
MCLegal == {f \in MCFunctions : f.posonly <= Len(f.params) /\ f.defaults <= Len(f.params)}

MCKeywords ==
  {<< >>, <<"a">>, <<"b">>, <<"k">>, <<"z">>, <<"b", "a">>, <<"k", "a">>, <<"z", "k">>, <<"b", "z">>,
   <<"z", "y">>}
MCCalls == {[npos |-> p, kwnames |-> kw, ex |-> ex] : p \in 0..3, ex \in BOOLEAN, kw \in MCKeywords}
=============================================================================
