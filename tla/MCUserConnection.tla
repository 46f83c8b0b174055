-------------------------- MODULE MCUserConnection --------------------------
(* One user that types ahead, for TLC. *)
EXTENDS UserConnection

CONSTANT typist

Typing == [u \in Users |-> 4]
=============================================================================
