---------------------------- MODULE MCHeartbeat ----------------------------
(***************************************************************************)
(* A small pool for Heartbeat: two workers with an object each.            *)
(***************************************************************************)
EXTENDS Heartbeat, TLC

CONSTANTS o1, o2, main

Apart    == o1 :> 0 @@ o2 :> 1
Everyone == Threads \cup {main}
OnlyMain == {main}
SomeArgs == {0, -1, 2, 40000}
=============================================================================
