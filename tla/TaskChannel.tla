---------------------------- MODULE TaskChannel ----------------------------
(***************************************************************************)
(* What HeartbeatThread::post promises the code that uses it: a task that  *)
(* is accepted joins one queue, and the tasks of that queue are run one at *)
(* a time, each once, in the order in which they were accepted.  Nothing   *)
(* is said here about wakeup bytes, batches or the thread's life cycle.    *)
(***************************************************************************)
EXTENDS Sequences

CONSTANT Tasks          \* everything that may be posted

VARIABLES pending,      \* accepted, not yet run
          ran           \* run, in the order of execution

vars == <<pending, ran>>

Init == /\ pending = << >>
        /\ ran = << >>

\* A poster hands over a task that nobody has handed over before.
Accept(x) == /\ \A i \in DOMAIN pending : pending[i] # x
             /\ \A i \in DOMAIN ran : ran[i] # x
             /\ pending' = Append(pending, x)
             /\ UNCHANGED ran

\* The thread runs the oldest accepted task.
Run == /\ pending # << >>
       /\ ran' = Append(ran, Head(pending))
       /\ pending' = Tail(pending)

Next == (\E x \in Tasks : Accept(x)) \/ Run

Spec == Init /\ [][Next]_vars
=============================================================================
