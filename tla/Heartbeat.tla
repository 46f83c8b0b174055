----------------------------- MODULE Heartbeat -----------------------------
(***************************************************************************)
(* Heart beats on the thread pool: set_heart_beat() on any thread, the     *)
(* queue modifications it posts to the thread that owns the object, the    *)
(* rounds call_heart_beat() starts, and process_heartbeats() on each       *)
(* worker (src/packages/core/heartbeat.cc and the second half of           *)
(* src/base/internal/heartbeat_thread.cc).                                 *)
(*                                                                         *)
(* inbox[t] is the task queue of worker t: the FIFO of TaskChannel, which  *)
(* HeartbeatThread is proved to implement.  The pool is started before any *)
(* object exists, so post() finds its thread ready.                        *)
(***************************************************************************)
EXTENDS Integers, Sequences

CONSTANTS
  Objects,
  NumThreads,   \* size of the pool
  Shard,        \* thread_for_object: the worker an object hashes to
  Main,         \* the main thread
  HasBeat,      \* objects whose program defines heart_beat()
  Shared,       \* simul_efun and master objects: the targets of call_direct
  Setters,      \* threads whose LPC code calls set_heart_beat() and destruct()
  SetArgs,      \* arguments given to set_heart_beat()
  MaxSets,      \* bound: calls of set_heart_beat() and destruct()
  MaxLag,       \* bound: rounds a worker may be behind
  MaxBounced,   \* bound: bounced heart beats waiting on the main loop
  Null

Threads == 0 .. (NumThreads - 1)
Actors  == Threads \cup {Main}

ASSUME HeartbeatAssumption ==
  /\ NumThreads \in Nat \ {0}
  /\ Shard \in [Objects -> Threads]
  /\ HasBeat \subseteq Objects /\ Shared \subseteq Objects
  /\ Main \notin Threads /\ Setters \subseteq Actors
  /\ SetArgs \subseteq Int
  /\ MaxSets \in Nat /\ MaxLag \in Nat /\ MaxBounced \in Nat
  /\ Null \notin Objects

VARIABLES
  flag,         \* O_HEART_BEAT of each object
  destructed,   \* O_DESTRUCTED of each object
  gate,         \* g_heartbeat_gate
  inbox,        \* tasks posted to each worker, oldest first
  queue,        \* heartbeats_ of each worker
  next,         \* heartbeats_next_ of each worker
  work,         \* what each worker is doing, and for which object
  call,         \* the set_heart_beat() or destruct() a thread is inside
  round,        \* the worker call_heart_beat() signals next
  bounced,      \* heart beats handed to the main event loop
  mainBeat,     \* the object whose bounced heart_beat() the main thread runs
  sets,         \* calls of set_heart_beat() and destruct() so far
  \* history, read by the properties only
  age,          \* rounds an entry was counted since it was set or came due
  period,       \* the interval last given to the worker
  stale         \* heart beats begun since the object was switched off

lpcVars    == <<flag, destructed, call, sets, stale>>
workerVars == <<queue, next, work, age, period>>
mainVars   == <<gate, round, mainBeat>>
vars == <<lpcVars, workerVars, mainVars, inbox, bounced>>

\* heart_beat_t keeps its counters in a short.
ToShort(n) == ((n + 32768) % 65536) - 32768
ShortMax == 32767

NoCall == [step |-> "none"]
Idle == [pc |-> "idle", ob |-> Null]

SetCalls == [step : {"flag", "post", "mark"}, ob : Objects, to : Nat, kill : BOOLEAN]
QueueTasks == [op : {"process"}] \cup [op : {"remove"}, ob : Objects]
                \cup [op : {"modify"}, ob : Objects, interval : Nat]
Works == [pc : {"idle", "scan"}, ob : {Null}] \cup [pc : {"due", "beat"}, ob : Objects]
Entries == [ob : Objects \cup {Null}, ticks : Int, time : Int]

Init ==
  /\ flag = [o \in Objects |-> FALSE]
  /\ destructed = [o \in Objects |-> FALSE]
  /\ gate = FALSE
  /\ inbox = [t \in Threads |-> << >>]
  /\ queue = [t \in Threads |-> << >>]
  /\ next = [t \in Threads |-> << >>]
  /\ work = [t \in Threads |-> Idle]
  /\ call = [a \in Actors |-> NoCall]
  /\ round = NumThreads
  /\ bounced = << >>
  /\ mainBeat = Null
  /\ sets = 0
  /\ age = [o \in Objects |-> 0]
  /\ period = [o \in Objects |-> 0]
  /\ stale = [o \in Objects |-> 0]

Post(t, task) == inbox' = [inbox EXCEPT ![t] = Append(@, task)]

-----------------------------------------------------------------------------
(* set_heart_beat() and the tail of destruct_object(), on any thread that  *)
(* is executing LPC code.                                                  *)

RunsLPC(a) == IF a = Main THEN round = NumThreads ELSE work[a].pc = "beat"

\* The O_DESTRUCTED test at the top; a negative argument counts as 1.  The
\* driver's error handler comes here too, to switch off a failed heart beat.
SetHeartBeat(a, o, to) ==
  /\ RunsLPC(a) /\ call[a] = NoCall /\ sets < MaxSets
  /\ ~destructed[o]
  /\ call' = [call EXCEPT ![a] = [step |-> "flag", ob |-> o, kill |-> FALSE,
                                  to |-> IF to < 0 THEN 1 ELSE to]]
  /\ sets' = sets + 1
  /\ UNCHANGED <<flag, destructed, stale, workerVars, mainVars, inbox, bounced>>

\* destruct_object() ends with set_heart_beat(ob, 0) and O_DESTRUCTED.
DestructObject(a, o) ==
  /\ RunsLPC(a) /\ call[a] = NoCall /\ sets < MaxSets
  /\ ~destructed[o]
  /\ call' = [call EXCEPT ![a] = [step |-> "flag", ob |-> o, kill |-> TRUE, to |-> 0]]
  /\ sets' = sets + 1
  /\ UNCHANGED <<flag, destructed, stale, workerVars, mainVars, inbox, bounced>>

SetFlag(a) ==
  /\ call[a].step = "flag"
  /\ LET o == call[a].ob IN
       /\ flag' = [flag EXCEPT ![o] = (call[a].to # 0)]
       /\ stale' = [stale EXCEPT ![o] = IF call[a].to # 0 THEN 0 ELSE @]
  /\ call' = [call EXCEPT ![a].step = "post"]
  /\ UNCHANGED <<destructed, sets, workerVars, mainVars, inbox, bounced>>

PostChange(a) ==
  /\ call[a].step = "post"
  /\ LET o == call[a].ob IN
       Post(Shard[o], IF call[a].to = 0
                      THEN [op |-> "remove", ob |-> o]
                      ELSE [op |-> "modify", ob |-> o, interval |-> call[a].to])
  /\ call' = [call EXCEPT ![a] = IF call[a].kill THEN [@ EXCEPT !.step = "mark"] ELSE NoCall]
  /\ UNCHANGED <<flag, destructed, sets, stale, workerVars, mainVars, bounced>>

MarkDestructed(a) ==
  /\ call[a].step = "mark"
  /\ destructed' = [destructed EXCEPT ![call[a].ob] = TRUE]
  /\ call' = [call EXCEPT ![a] = NoCall]
  /\ UNCHANGED <<flag, sets, stale, workerVars, mainVars, inbox, bounced>>

-----------------------------------------------------------------------------
(* The main thread: rounds and bounced heart beats.                        *)

MainFree == round = NumThreads /\ mainBeat = Null /\ call[Main] = NoCall

\* Start-up opens the gate once the mudlib has been loaded.
OpenGate ==
  /\ ~gate /\ MainFree
  /\ gate' = TRUE
  /\ UNCHANGED <<round, mainBeat, lpcVars, workerVars, inbox, bounced>>

Lag(t) == Len(SelectSeq(inbox[t], LAMBDA x : x.op = "process"))

\* call_heart_beat() is a tick event, so it runs only inside backend().
CallHeartBeat ==
  /\ gate /\ MainFree
  /\ \A t \in Threads : Lag(t) < MaxLag
  /\ round' = 0
  /\ UNCHANGED <<gate, mainBeat, lpcVars, workerVars, inbox, bounced>>

\* Mutant: the loop over the pool stops one thread early.
SignalShort ==
  /\ round < NumThreads
  /\ IF round < NumThreads - 1 THEN Post(round, [op |-> "process"]) ELSE UNCHANGED inbox
  /\ round' = round + 1
  /\ UNCHANGED <<gate, mainBeat, lpcVars, workerVars, bounced>>

Signal ==
  /\ round < NumThreads
  /\ Post(round, [op |-> "process"])
  /\ round' = round + 1
  /\ UNCHANGED <<gate, mainBeat, lpcVars, workerVars, bounced>>

\* The lambda of bounce_heartbeat_to_main_thread().
RunBounced ==
  /\ MainFree /\ bounced # << >>
  /\ LET o == Head(bounced) IN
       mainBeat' = IF ~destructed[o] /\ o \in HasBeat THEN o ELSE Null
  /\ bounced' = Tail(bounced)
  /\ UNCHANGED <<gate, round, lpcVars, workerVars, inbox>>

BouncedDone ==
  /\ mainBeat # Null /\ call[Main] = NoCall
  /\ mainBeat' = Null
  /\ UNCHANGED <<gate, round, lpcVars, workerVars, inbox, bounced>>

-----------------------------------------------------------------------------
(* Worker t: the tasks set_heart_beat() posted.                            *)

\* Clear every entry of o.
Forget(q, o) == [i \in DOMAIN q |-> IF q[i].ob = o THEN [q[i] EXCEPT !.ob = Null] ELSE q[i]]

Positions(q, o) == {i \in DOMAIN q : q[i].ob = o}

\* Mutant: the new interval is stored, the running countdown is kept.
RearmLater(q, o, n) ==
  [i \in DOMAIN q |-> IF i \in Positions(q, o) /\ \A j \in Positions(q, o) : i <= j
                      THEN [q[i] EXCEPT !.time = n] ELSE q[i]]

\* Rearm the first entry of o.
Rearm(q, o, n) ==
  [i \in DOMAIN q |-> IF i \in Positions(q, o) /\ \A j \in Positions(q, o) : i <= j
                      THEN [ob |-> o, ticks |-> n, time |-> n] ELSE q[i]]

NextTask(t, op) ==
  /\ work[t].pc = "idle" /\ inbox[t] # << >>
  /\ Head(inbox[t]).op = op
  /\ inbox' = [inbox EXCEPT ![t] = Tail(@)]

\* Mutant: only heartbeats_ is searched.
RemoveFromQueueOnly(t) ==
  /\ NextTask(t, "remove")
  /\ queue' = [queue EXCEPT ![t] = Forget(@, Head(inbox[t]).ob)]
  /\ UNCHANGED <<next, work, age, period, lpcVars, mainVars, bounced>>

RemoveHeartbeat(t) ==
  /\ NextTask(t, "remove")
  /\ LET o == Head(inbox[t]).ob IN
       /\ queue' = [queue EXCEPT ![t] = Forget(@, o)]
       /\ next' = [next EXCEPT ![t] = Forget(@, o)]
  /\ UNCHANGED <<work, age, period, lpcVars, mainVars, bounced>>

\* The first entry in heartbeats_, else the first in heartbeats_next_, else
\* a new one at the end of heartbeats_next_ (add_heartbeat).
ModifyHeartbeat(t) ==
  /\ NextTask(t, "modify")
  /\ LET o == Head(inbox[t]).ob
         n == ToShort(Head(inbox[t]).interval)
     IN /\ queue' = IF Positions(queue[t], o) # {}
                    THEN [queue EXCEPT ![t] = Rearm(@, o, n)] ELSE queue
        /\ next' = IF Positions(queue[t], o) # {} THEN next
                   ELSE IF Positions(next[t], o) # {}
                   THEN [next EXCEPT ![t] = Rearm(@, o, n)]
                   ELSE [next EXCEPT ![t] = Append(@, [ob |-> o, ticks |-> n, time |-> n])]
        /\ age' = [age EXCEPT ![o] = 0]
        /\ period' = [period EXCEPT ![o] = Head(inbox[t]).interval]
  /\ UNCHANGED <<work, lpcVars, mainVars, bounced>>

-----------------------------------------------------------------------------
(* Worker t: process_heartbeats().                                         *)

\* Mutant: heartbeats_next_ is appended and not emptied.
BeginRoundKeepsNext(t) ==
  /\ NextTask(t, "process")
  /\ queue' = [queue EXCEPT ![t] = @ \o next[t]]
  /\ work' = [work EXCEPT ![t].pc = "scan"]
  /\ UNCHANGED <<next, age, period, lpcVars, mainVars, bounced>>

BeginRound(t) ==
  /\ NextTask(t, "process")
  /\ queue' = [queue EXCEPT ![t] = @ \o next[t]]
  /\ next' = [next EXCEPT ![t] = << >>]
  /\ work' = [work EXCEPT ![t].pc = "scan"]
  /\ UNCHANGED <<age, period, lpcVars, mainVars, bounced>>

\* Mutant: only remove tasks end an entry, not the flag.
AliveUnlessDestructed(o) == o # Null /\ ~destructed[o]

\* The entry at the front goes on only if its object still beats.
Alive(o) == o # Null /\ flag[o] /\ ~destructed[o]

DropEntry(t) ==
  /\ work[t].pc = "scan" /\ queue[t] # << >>
  /\ ~Alive(Head(queue[t]).ob)
  /\ queue' = [queue EXCEPT ![t] = Tail(@)]
  /\ UNCHANGED <<next, work, age, period, lpcVars, mainVars, inbox, bounced>>

\* Count the entry down and keep it for the next round; when it comes due it
\* is rearmed, and heart_beat() is called if there is one and the gate is open.
CountEntry(t) ==
  /\ work[t].pc = "scan" /\ queue[t] # << >>
  /\ Alive(Head(queue[t]).ob)
  /\ LET e == Head(queue[t])
         left == ToShort(e.ticks - 1)
         due == left <= 0
         beats == due /\ e.ob \in HasBeat /\ gate
     IN /\ next' = [next EXCEPT ![t] = Append(@, [e EXCEPT !.ticks = IF due THEN e.time ELSE left])]
        /\ age' = [age EXCEPT ![e.ob] = IF due THEN 0 ELSE @ + 1]
        /\ work' = [work EXCEPT ![t] = IF beats THEN [pc |-> "due", ob |-> e.ob] ELSE @]
  /\ queue' = [queue EXCEPT ![t] = Tail(@)]
  /\ UNCHANGED <<period, lpcVars, mainVars, inbox, bounced>>

\* call_direct() on the object itself: its own thread, so no bounce.
BeginBeat(t) ==
  /\ work[t].pc = "due"
  /\ work' = [work EXCEPT ![t].pc = "beat"]
  /\ LET o == work[t].ob IN
       stale' = [stale EXCEPT ![o] = IF flag[o] /\ ~destructed[o] THEN @ ELSE @ + 1]
  /\ UNCHANGED <<flag, destructed, call, sets, queue, next, age, period, mainVars, inbox, bounced>>

\* Mutant: g_current_heartbeat_obj is left set after the call.
EndBeatKeepsObject(t) ==
  /\ work[t].pc = "beat" /\ call[t] = NoCall
  /\ work' = [work EXCEPT ![t].pc = "scan"]
  /\ UNCHANGED <<queue, next, age, period, lpcVars, mainVars, inbox, bounced>>

\* heart_beat() returns, or fails with an error the loop catches.
EndBeat(t) ==
  /\ work[t].pc = "beat" /\ call[t] = NoCall
  /\ work' = [work EXCEPT ![t] = [pc |-> "scan", ob |-> Null]]
  /\ UNCHANGED <<queue, next, age, period, lpcVars, mainVars, inbox, bounced>>

\* call_direct() finds that the target lives on another worker: it bounces
\* the target and throws, which ends this heart_beat().
BounceBeat(t, o) ==
  /\ work[t].pc = "beat" /\ call[t] = NoCall
  /\ Shard[o] # t /\ Len(bounced) < MaxBounced
  /\ bounced' = Append(bounced, o)
  /\ work' = [work EXCEPT ![t] = [pc |-> "scan", ob |-> Null]]
  /\ UNCHANGED <<queue, next, age, period, lpcVars, mainVars, inbox>>

EndRound(t) ==
  /\ work[t].pc = "scan" /\ queue[t] = << >>
  /\ work' = [work EXCEPT ![t] = Idle]
  /\ UNCHANGED <<queue, next, age, period, lpcVars, mainVars, inbox, bounced>>

-----------------------------------------------------------------------------
CallStep(a) == SetFlag(a) \/ PostChange(a) \/ MarkDestructed(a)
NewCall(a) == \E o \in Objects : DestructObject(a, o) \/ \E n \in SetArgs : SetHeartBeat(a, o, n)

MainStep == Signal \/ RunBounced \/ BouncedDone \/ OpenGate
WorkerStep(t) == \/ RemoveHeartbeat(t) \/ ModifyHeartbeat(t) \/ BeginRound(t)
                 \/ DropEntry(t) \/ CountEntry(t) \/ BeginBeat(t) \/ EndBeat(t) \/ EndRound(t)

Next == \/ \E a \in Actors : CallStep(a)
        \/ \E a \in Setters : NewCall(a)
        \/ MainStep \/ CallHeartBeat
        \/ \E t \in Threads : WorkerStep(t) \/ \E o \in Shared : BounceBeat(t, o)

Spec == Init /\ [][Next]_vars

\* Every thread gets to run, the tick loop calls call_heart_beat() for ever,
\* and the evaluation limit ends every heart_beat().
Fairness == /\ WF_vars(MainStep) /\ SF_vars(CallHeartBeat)
            /\ \A a \in Actors : WF_vars(CallStep(a))
            /\ \A t \in Threads : WF_vars(WorkerStep(t))

FairSpec == Spec /\ Fairness

-----------------------------------------------------------------------------
(* Properties.                                                             *)

TypeOK ==
  /\ flag \in [Objects -> BOOLEAN] /\ destructed \in [Objects -> BOOLEAN]
  /\ gate \in BOOLEAN
  /\ inbox \in [Threads -> Seq(QueueTasks)]
  /\ queue \in [Threads -> Seq(Entries)] /\ next \in [Threads -> Seq(Entries)]
  /\ work \in [Threads -> Works]
  /\ call \in [Actors -> SetCalls \cup {NoCall}]
  /\ round \in 0 .. NumThreads
  /\ bounced \in Seq(Objects)
  /\ mainBeat \in Objects \cup {Null}
  /\ sets \in 0 .. MaxSets
  /\ age \in [Objects -> Nat] /\ period \in [Objects -> Nat] /\ stale \in [Objects -> Nat]

\* Both queues of a worker, in the order in which they will be scanned.
Entered(t) == queue[t] \o next[t]

\* An object has one entry at most, and only in the queues of the worker it
\* hashes to: however set_heart_beat() calls of several threads, rounds and
\* failed beats interleave, it can never beat twice in a round.
OneEntry ==
  \A t \in Threads : \A i \in DOMAIN Entered(t) :
    LET o == Entered(t)[i].ob IN
      o # Null => Shard[o] = t /\ Positions(Entered(t), o) = {i}

\* After an object is switched off or destructed its worker begins at most
\* one more heart_beat() in it: the one whose entry had passed the tests of
\* the scan already.  Rounds queued behind it find the flag, not the entry.
OneStaleBeat == \A o \in Objects : stale[o] <= 1

\* An entry comes due exactly when as many rounds were counted as
\* set_heart_beat() asked for, if that fits the short it is kept in.
BeatPeriod ==
  [][\A t \in Threads :
       work[t].pc = "scan" /\ work'[t].pc = "due" =>
         LET o == work'[t].ob IN
           period[o] <= ShortMax => age[o] + 1 = period[o]]_vars

\* Nobody is between the flag and the queue of o.
Settled(o) ==
  /\ \A a \in Actors : call[a] # NoCall => call[a].ob # o
  /\ \A i \in DOMAIN inbox[Shard[o]] :
       LET x == inbox[Shard[o]][i] IN x.op # "process" => x.ob # o

\* With the calls of set_heart_beat() on one thread the worker's queues follow
\* the flag: an object that is on has its entry, with the interval last asked
\* for, and one that is off has none.
QueueFollowsFlag ==
  \A o \in Objects : Settled(o) =>
    LET S == Positions(Entered(Shard[o]), o) IN
      IF flag[o] /\ ~destructed[o]
      THEN \E i \in S : Entered(Shard[o])[i].time = ToShort(period[o])
      ELSE S = {}

Beating(o) == \E t \in Threads : work[t].pc = "beat" /\ work[t].ob = o

\* An object that stays switched on goes on beating: no round, drop, requeue
\* or bounce loses its entry.
BeatsForever ==
  \A o \in HasBeat : <>[](flag[o] /\ ~destructed[o]) => []<>Beating(o)
=============================================================================
