------------------------- MODULE MCHeartbeatThread -------------------------
(* The worker posting to itself next to one other poster, for TLC. *)
EXTENDS HeartbeatThread
=============================================================================
