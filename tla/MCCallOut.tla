----------------------------- MODULE MCCallOut -----------------------------
(***************************************************************************)
(* Small instances for CallOut: one worker or two, and the call_out()s the *)
(* runs choose from.                                                       *)
(***************************************************************************)
EXTENDS CallOut, TLC

CONSTANTS o1, o2, theMain, f, special

Apart    == o1 :> 0 @@ o2 :> 1
Together == [o \in Objects |-> 0]
Everyone == Threads \cup {theMain}
OnlyMain == {theMain}

Named(d)   == [fun |-> f, delay |-> d, walltime |-> FALSE]
Inline(d)  == [fun |-> Pointer, delay |-> d, walltime |-> FALSE]
Timer      == [fun |-> f, delay |-> 1, walltime |-> TRUE]

NamedAndInline == {Named(0), Named(1), Inline(0)}
NamedAndTimer  == {Named(1), Timer}
EveryKind      == {Named(0), [Named(1) EXCEPT !.fun = special], Inline(1), Timer}
NamedOnly      == {Named(0), Named(1)}

Alike == Permutations(Objects)
=============================================================================
