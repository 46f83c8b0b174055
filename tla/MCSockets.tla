------------------------------ MODULE MCSockets ------------------------------
(* Sockets on small tables, for TLC. *)
EXTENDS Sockets, TLC

CONSTANTS o1, o2

Pair == {o1, o2}
Symmetric == Permutations(Pair)
\* The history of a socket whose descriptor is closed plays no part any more.
View == <<sock, open, made, stack, destructed, user, [i \in open |-> log[i]]>>
==============================================================================
