---------------------------- MODULE MCObjectList ----------------------------
(* The object lists on a few objects, for TLC. *)
EXTENDS ObjectList

CONSTANTS master, a, b

Few == {master, a, b}
=============================================================================
