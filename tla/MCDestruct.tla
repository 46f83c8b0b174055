----------------------------- MODULE MCDestruct -----------------------------
(* Destructions and moves of three objects, for TLC. *)
EXTENDS Destruct

CONSTANTS room, chest, coin
=============================================================================
