---------------------------- MODULE DelayedCalls ----------------------------
(***************************************************************************)
(* What call_out() promises an LPC programmer: a scheduled call is made    *)
(* once, not before its time, unless it is cancelled first, and a call     *)
(* that was cancelled is never made.                                       *)
(***************************************************************************)
EXTENDS Naturals

CONSTANTS Calls, Times

VARIABLES now,       \* the game tick
          due,       \* the tick each call was scheduled for
          pending,   \* scheduled and neither made nor cancelled
          made,      \* made
          cancelled  \* cancelled, or without an object to call

vars == <<now, due, pending, made, cancelled>>

Init ==
  /\ now = 0 /\ due = [c \in Calls |-> 0]
  /\ pending = {} /\ made = {} /\ cancelled = {}

Schedule(c, t) ==
  /\ c \notin pending \cup made \cup cancelled
  /\ due' = [due EXCEPT ![c] = t]
  /\ pending' = pending \cup {c}
  /\ UNCHANGED <<now, made, cancelled>>

Make(c) ==
  /\ c \in pending /\ due[c] <= now
  /\ pending' = pending \ {c}
  /\ made' = made \cup {c}
  /\ UNCHANGED <<now, due, cancelled>>

\* remove_call_out() cancels one call, its other forms several at a time.
Cancel(S) ==
  /\ S \subseteq pending
  /\ pending' = pending \ S
  /\ cancelled' = cancelled \cup S
  /\ UNCHANGED <<now, due, made>>

Tick == now' = now + 1 /\ UNCHANGED <<due, pending, made, cancelled>>

Next == \/ \E c \in Calls : Make(c) \/ \E t \in Times : Schedule(c, t)
        \/ \E S \in SUBSET Calls : Cancel(S)
        \/ Tick

Spec == Init /\ [][Next]_vars
=============================================================================
