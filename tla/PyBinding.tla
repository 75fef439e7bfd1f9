----------------------------- MODULE PyBinding -----------------------------
(***************************************************************************)
(* How Python binds the arguments of a call to the parameters of a         *)
(* function, stated without slots, loops or order: what vm_call_user is    *)
(* compared with.                                                          *)
(*                                                                         *)
(* A signature has params (sequence of names), posonly (how many of them   *)
(* take no keyword), defaults (how many of the last have one), kwonly      *)
(* (sequence of names), kwflags (which have a default), vararg and kwarg   *)
(* (whether there is a * and a ** parameter).  A call has npos positional  *)
(* arguments, then the named ones of kwnames; an argument is its number.   *)
(***************************************************************************)
EXTENDS Integers, Sequences, FiniteSets

\* What a parameter is bound to.
Arg(i)       == <<"arg", i>>
Default(i)   == <<"default", i>>
KwDefault(i) == <<"kwdefault", i>>

Named(call, name)    == {k \in 1..Len(call.kwnames) : call.kwnames[k] = name}
ByKeyword(sig)       == {sig.params[i] : i \in (sig.posonly + 1)..Len(sig.params)}
                          \cup {sig.kwonly[i] : i \in 1..Len(sig.kwonly)}
Extras(sig, call)    == {k \in 1..Len(call.kwnames) : call.kwnames[k] \notin ByKeyword(sig)}
HasDefault(sig, i)   == i > Len(sig.params) - sig.defaults

\* The sources of the i-th parameter: a call is an error if there are two.
ParamSources(sig, call, i) ==
  {Arg(j) : j \in {i} \cap (1..call.npos)}
    \cup {Arg(call.npos + k) : k \in IF i > sig.posonly THEN Named(call, sig.params[i]) ELSE {}}

KwonlySources(sig, call, i) == {Arg(call.npos + k) : k \in Named(call, sig.kwonly[i])}

BindError(sig, call) ==
  \/ ~sig.vararg /\ call.npos > Len(sig.params)
  \/ ~sig.kwarg /\ Extras(sig, call) # {}
  \/ \E i \in 1..Len(sig.params) :
       \/ Cardinality(ParamSources(sig, call, i)) > 1
       \/ ParamSources(sig, call, i) = {} /\ ~HasDefault(sig, i)
  \/ \E i \in 1..Len(sig.kwonly) :
       \/ Cardinality(KwonlySources(sig, call, i)) > 1
       \/ KwonlySources(sig, call, i) = {} /\ ~sig.kwflags[i]

Only(S, otherwise) == IF S = {} THEN otherwise ELSE CHOOSE x \in S : TRUE

\* The parameters of a call that is no error; ** as a set of names and values.
Bound(sig, call) ==
  [params |-> [i \in 1..Len(sig.params) |->
                 Only(ParamSources(sig, call, i), Default(i - (Len(sig.params) - sig.defaults)))],
   kwonly |-> [i \in 1..Len(sig.kwonly) |-> Only(KwonlySources(sig, call, i), KwDefault(i))],
   rest   |-> [j \in 1..(IF call.npos > Len(sig.params) THEN call.npos - Len(sig.params) ELSE 0) |->
                 Arg(Len(sig.params) + j)],
   extra  |-> {<<call.kwnames[k], Arg(call.npos + k)>> : k \in Extras(sig, call)}]
=============================================================================
