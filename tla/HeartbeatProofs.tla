-------------------------- MODULE HeartbeatProofs --------------------------
(***************************************************************************)
(* Proofs about Heartbeat, for any pool, any objects and any number of     *)
(* threads that switch heart beats on and off.                             *)
(***************************************************************************)
EXTENDS Heartbeat, SequenceTheorems, TLAPS

LEMMA ShortType == \A n \in Int : ToShort(n) \in Int
  BY DEF ToShort

LEMMA PostType ==
  ASSUME inbox \in [Threads -> Seq(QueueTasks)], NEW t \in Threads, NEW x \in QueueTasks,
         Post(t, x)
  PROVE  inbox' \in [Threads -> Seq(QueueTasks)]
<1>1. Append(inbox[t], x) \in Seq(QueueTasks)
  BY AppendProperties
<1> QED
  BY <1>1 DEF Post

LEMMA InitType == Init => TypeOK
<1> SUFFICES ASSUME Init PROVE TypeOK
  OBVIOUS
<1> USE HeartbeatAssumption DEF Init
<1>1. flag \in [Objects -> BOOLEAN] /\ destructed \in [Objects -> BOOLEAN] /\ gate \in BOOLEAN
  OBVIOUS
<1>2. inbox \in [Threads -> Seq(QueueTasks)]
  OBVIOUS
<1>3. queue \in [Threads -> Seq(Entries)] /\ next \in [Threads -> Seq(Entries)]
  OBVIOUS
<1>4. work \in [Threads -> Works]
  BY DEF Idle, Works
<1>5. call \in [Actors -> SetCalls \cup {NoCall}]
  OBVIOUS
<1>6. round \in 0 .. NumThreads /\ sets \in 0 .. MaxSets
  OBVIOUS
<1>7. bounced \in Seq(Objects) /\ mainBeat \in Objects \cup {Null}
  OBVIOUS
<1>8. age \in [Objects -> Nat] /\ period \in [Objects -> Nat] /\ stale \in [Objects -> Nat]
  OBVIOUS
<1> QED
  BY <1>1, <1>2, <1>3, <1>4, <1>5, <1>6, <1>7, <1>8 DEF TypeOK

\* A thread that is about to switch o on or off, or to destruct it.
LEMMA CallType ==
  ASSUME TypeOK, NEW a \in Actors,
         CallStep(a) \/ (\E o \in Objects : DestructObject(a, o) \/ \E n \in SetArgs : SetHeartBeat(a, o, n))
  PROVE  TypeOK'
<1> USE HeartbeatAssumption DEF TypeOK, workerVars, mainVars
<1>1. ASSUME NEW o \in Objects, NEW n \in SetArgs, SetHeartBeat(a, o, n) PROVE TypeOK'
  <2>1. [step |-> "flag", ob |-> o, kill |-> FALSE, to |-> IF n < 0 THEN 1 ELSE n] \in SetCalls
    BY DEF SetCalls
  <2>2. call' \in [Actors -> SetCalls \cup {NoCall}]
    BY <1>1, <2>1 DEF SetHeartBeat
  <2>3. sets' \in 0 .. MaxSets
    BY <1>1 DEF SetHeartBeat
  <2> QED
    BY <1>1, <2>2, <2>3 DEF SetHeartBeat
<1>2. ASSUME NEW o \in Objects, DestructObject(a, o) PROVE TypeOK'
  <2>1. [step |-> "flag", ob |-> o, kill |-> TRUE, to |-> 0] \in SetCalls
    BY DEF SetCalls
  <2>2. call' \in [Actors -> SetCalls \cup {NoCall}]
    BY <1>2, <2>1 DEF DestructObject
  <2>3. sets' \in 0 .. MaxSets
    BY <1>2 DEF DestructObject
  <2> QED
    BY <1>2, <2>2, <2>3 DEF DestructObject
<1>3. call[a] # NoCall => call[a] \in SetCalls
  OBVIOUS
<1>4. CASE SetFlag(a)
  <2>1. call[a] \in SetCalls
    BY <1>3, <1>4 DEF SetFlag, NoCall
  <2>2. call' \in [Actors -> SetCalls \cup {NoCall}]
    BY <1>4, <2>1 DEF SetFlag, SetCalls
  <2>3. flag' \in [Objects -> BOOLEAN] /\ stale' \in [Objects -> Nat]
    BY <1>4, <2>1 DEF SetFlag, SetCalls
  <2> QED
    BY <1>4, <2>2, <2>3 DEF SetFlag
<1>5. CASE PostChange(a)
  <2>1. call[a] \in SetCalls
    BY <1>3, <1>5 DEF PostChange, NoCall
  <2>2. call' \in [Actors -> SetCalls \cup {NoCall}]
    BY <1>5, <2>1 DEF PostChange, SetCalls
  <2>3. (IF call[a].to = 0 THEN [op |-> "remove", ob |-> call[a].ob]
         ELSE [op |-> "modify", ob |-> call[a].ob, interval |-> call[a].to]) \in QueueTasks
    BY <2>1 DEF SetCalls, QueueTasks
  <2>4. inbox' \in [Threads -> Seq(QueueTasks)]
    <3>1. Shard[call[a].ob] \in Threads
      BY <2>1 DEF SetCalls
    <3> QED
      BY <1>5, <2>3, <3>1, PostType DEF PostChange
  <2> QED
    BY <1>5, <2>2, <2>4 DEF PostChange
<1>6. CASE MarkDestructed(a)
  <2>1. call' \in [Actors -> SetCalls \cup {NoCall}]
    BY <1>6 DEF MarkDestructed
  <2>2. destructed' \in [Objects -> BOOLEAN]
    BY <1>6 DEF MarkDestructed
  <2> QED
    BY <1>6, <2>1, <2>2 DEF MarkDestructed
<1> QED
  BY <1>1, <1>2, <1>4, <1>5, <1>6 DEF CallStep

LEMMA MainType == TypeOK /\ (MainStep \/ CallHeartBeat) => TypeOK'
<1> SUFFICES ASSUME TypeOK, MainStep \/ CallHeartBeat PROVE TypeOK'
  OBVIOUS
<1> USE HeartbeatAssumption DEF TypeOK, workerVars, lpcVars
<1>1. CASE Signal
  <2>1. [op |-> "process"] \in QueueTasks
    BY DEF QueueTasks
  <2>2. inbox' \in [Threads -> Seq(QueueTasks)]
    <3>1. round \in Threads
      BY <1>1 DEF Signal, Threads
    <3> QED
      BY <1>1, <2>1, <3>1, PostType DEF Signal
  <2>3. round' \in 0 .. NumThreads
    BY <1>1 DEF Signal
  <2> QED
    BY <1>1, <2>2, <2>3 DEF Signal
<1>2. CASE RunBounced
  <2>1. Head(bounced) \in Objects
    BY <1>2, HeadTailProperties DEF RunBounced
  <2>2. mainBeat' \in Objects \cup {Null}
    BY <1>2, <2>1 DEF RunBounced
  <2>3. bounced' \in Seq(Objects)
    BY <1>2 DEF RunBounced
  <2> QED
    BY <1>2, <2>2, <2>3 DEF RunBounced
<1>3. CASE BouncedDone
  BY <1>3 DEF BouncedDone
<1>4. CASE OpenGate
  BY <1>4 DEF OpenGate
<1>5. CASE CallHeartBeat
  BY <1>5 DEF CallHeartBeat
<1> QED
  BY <1>1, <1>2, <1>3, <1>4, <1>5 DEF MainStep
\* The task a worker takes, and what is left.
LEMMA TaskType ==
  ASSUME TypeOK, NEW t \in Threads, NEW op, NextTask(t, op)
  PROVE  /\ Head(inbox[t]) \in QueueTasks /\ Head(inbox[t]).op = op
         /\ inbox' \in [Threads -> Seq(QueueTasks)]
<1>1. inbox[t] \in Seq(QueueTasks) /\ inbox[t] # << >>
  BY DEF TypeOK, NextTask
<1>2. Head(inbox[t]) \in QueueTasks /\ Tail(inbox[t]) \in Seq(QueueTasks)
  BY <1>1, HeadTailProperties
<1> QED
  BY <1>2 DEF TypeOK, NextTask

LEMMA FunctionIsSeq ==
  ASSUME NEW S, NEW n \in Nat, NEW f, f \in [1 .. n -> S]
  PROVE  f \in Seq(S) /\ Len(f) = n /\ DOMAIN f = 1 .. n
  OBVIOUS

LEMMA ForgetType ==
  ASSUME NEW q \in Seq(Entries), NEW o
  PROVE  /\ Forget(q, o) \in Seq(Entries)
         /\ Len(Forget(q, o)) = Len(q)
         /\ \A i \in DOMAIN q : Forget(q, o)[i].ob = IF q[i].ob = o THEN Null ELSE q[i].ob
<1>1. DOMAIN q = 1 .. Len(q) /\ Len(q) \in Nat /\ \A i \in DOMAIN q : q[i] \in Entries
  OBVIOUS
<1>2. \A i \in DOMAIN q : [q[i] EXCEPT !.ob = Null] \in Entries
  BY <1>1 DEF Entries
<1>3. Forget(q, o) \in [1 .. Len(q) -> Entries]
  BY <1>1, <1>2 DEF Forget
<1>4. \A i \in DOMAIN q : Forget(q, o)[i].ob = IF q[i].ob = o THEN Null ELSE q[i].ob
  BY <1>1 DEF Forget, Entries
<1> QED
  BY <1>1, <1>3, <1>4, FunctionIsSeq

LEMMA RearmType ==
  ASSUME NEW q \in Seq(Entries), NEW o \in Objects, NEW n \in Int
  PROVE  /\ Rearm(q, o, n) \in Seq(Entries)
         /\ Len(Rearm(q, o, n)) = Len(q)
         /\ \A i \in DOMAIN q : Rearm(q, o, n)[i].ob = q[i].ob
<1>1. DOMAIN q = 1 .. Len(q) /\ Len(q) \in Nat /\ \A i \in DOMAIN q : q[i] \in Entries
  OBVIOUS
<1>2. [ob |-> o, ticks |-> n, time |-> n] \in Entries
  BY DEF Entries
<1>3. Rearm(q, o, n) \in [1 .. Len(q) -> Entries]
  BY <1>1, <1>2 DEF Rearm
<1>4. \A i \in DOMAIN q : Rearm(q, o, n)[i].ob = q[i].ob
  BY <1>1 DEF Rearm, Positions
<1> QED
  BY <1>1, <1>3, <1>4, FunctionIsSeq

LEMMA WorkerType == ASSUME TypeOK, NEW t \in Threads, WorkerStep(t) PROVE TypeOK'
<1> USE HeartbeatAssumption DEF TypeOK, lpcVars, mainVars
<1>1. /\ queue[t] \in Seq(Entries) /\ next[t] \in Seq(Entries)
      /\ work[t] \in Works
  OBVIOUS
<1>2. CASE RemoveHeartbeat(t)
  <2>1. inbox' \in [Threads -> Seq(QueueTasks)]
    BY <1>2, TaskType DEF RemoveHeartbeat
  <2>2. /\ queue' \in [Threads -> Seq(Entries)]
        /\ next' \in [Threads -> Seq(Entries)]
    BY <1>1, <1>2, ForgetType DEF RemoveHeartbeat
  <2> QED
    BY <1>2, <2>1, <2>2 DEF RemoveHeartbeat
<1>3. CASE ModifyHeartbeat(t)
  <2>1. Head(inbox[t]) \in QueueTasks /\ Head(inbox[t]).op = "modify"
    BY <1>3, TaskType DEF ModifyHeartbeat
  <2>2. /\ Head(inbox[t]).ob \in Objects
        /\ Head(inbox[t]).interval \in Nat /\ Head(inbox[t]).interval \in Int
    BY <2>1, SMTT(30) DEF QueueTasks
  <2> DEFINE o == Head(inbox[t]).ob
             n == ToShort(Head(inbox[t]).interval)
  <2>3. n \in Int
    BY <2>2, ShortType
  <2> HIDE DEF n
  <2>4. Rearm(queue[t], o, n) \in Seq(Entries) /\ Rearm(next[t], o, n) \in Seq(Entries)
    BY <1>1, <2>2, <2>3, RearmType
  <2>5. Append(next[t], [ob |-> o, ticks |-> n, time |-> n]) \in Seq(Entries)
    BY <1>1, <2>2, <2>3, AppendProperties DEF Entries
  <2>6. /\ queue' \in [Threads -> Seq(Entries)]
        /\ next' \in [Threads -> Seq(Entries)]
    BY <1>3, <2>4, <2>5 DEF ModifyHeartbeat, n
  <2>7. age' \in [Objects -> Nat]
    BY <1>3, <2>2 DEF ModifyHeartbeat
  <2>9. period' \in [Objects -> Nat]
    BY <1>3, <2>2 DEF ModifyHeartbeat
  <2>8. inbox' \in [Threads -> Seq(QueueTasks)]
    BY <1>3, TaskType DEF ModifyHeartbeat
  <2> QED
    BY <1>3, <2>6, <2>7, <2>8, <2>9 DEF ModifyHeartbeat
<1>4. CASE BeginRound(t)
  <2>1. inbox' \in [Threads -> Seq(QueueTasks)]
    BY <1>4, TaskType DEF BeginRound
  <2>2. queue[t] \o next[t] \in Seq(Entries) /\ << >> \in Seq(Entries)
    BY <1>1
  <2>3. /\ queue' \in [Threads -> Seq(Entries)]
        /\ next' \in [Threads -> Seq(Entries)]
    BY <1>4, <2>2 DEF BeginRound
  <2>4. work' \in [Threads -> Works]
    BY <1>1, <1>4 DEF BeginRound, NextTask, Works
  <2> QED
    BY <1>4, <2>1, <2>3, <2>4 DEF BeginRound
<1>5. CASE DropEntry(t)
  <2>1. queue' \in [Threads -> Seq(Entries)]
    BY <1>1, <1>5, HeadTailProperties DEF DropEntry
  <2> QED
    BY <1>5, <2>1 DEF DropEntry
<1>6. CASE CountEntry(t)
  <2> DEFINE e == Head(queue[t])
             left == ToShort(e.ticks - 1)
  <2>1. e \in Entries /\ Tail(queue[t]) \in Seq(Entries)
    BY <1>1, <1>6, HeadTailProperties DEF CountEntry
  <2>2. e.ob \in Objects /\ e.ticks \in Int /\ e.time \in Int
    BY <1>6, <2>1 DEF CountEntry, Alive, Entries
  <2>3. left \in Int
    BY <2>2, ShortType, SMTT(30)
  <2> HIDE DEF left
  <2>4. \A m \in Int : [e EXCEPT !.ticks = m] \in Entries
    BY <2>1 DEF Entries
  <2>5. Append(next[t], [e EXCEPT !.ticks = IF left <= 0 THEN e.time ELSE left]) \in Seq(Entries)
    BY <1>1, <2>2, <2>3, <2>4, AppendProperties
  <2>6. next' \in [Threads -> Seq(Entries)]
    BY <1>6, <2>5 DEF CountEntry, left
  <2>7. queue' \in [Threads -> Seq(Entries)]
    BY <1>6, <2>1 DEF CountEntry
  <2>8. age' \in [Objects -> Nat]
    <3>1. age' = [age EXCEPT ![e.ob] = IF left <= 0 THEN 0 ELSE age[e.ob] + 1]
      BY <1>6 DEF CountEntry, left
    <3>2. age \in [Objects -> Nat] /\ e.ob \in Objects
      BY <2>2
    <3> HIDE DEF TypeOK, e
    <3>3. (IF left <= 0 THEN 0 ELSE age[e.ob] + 1) \in Nat
      BY <3>2
    <3> QED
      BY <3>1, <3>2, <3>3
  <2>9. work' \in [Threads -> Works]
    <3>1. [pc |-> "due", ob |-> e.ob] \in Works
      BY <2>2 DEF Works
    <3> QED
      BY <1>1, <1>6, <3>1 DEF CountEntry
  <2> QED
    BY <1>6, <2>6, <2>7, <2>8, <2>9 DEF CountEntry
<1>7. CASE BeginBeat(t)
  <2>1. work' \in [Threads -> Works]
    BY <1>1, <1>7 DEF BeginBeat, Works
  <2>2. work[t].ob \in Objects
    BY <1>1, <1>7 DEF BeginBeat, Works
  <2>3. \/ stale' = [stale EXCEPT ![work[t].ob] = stale[work[t].ob]]
        \/ stale' = [stale EXCEPT ![work[t].ob] = stale[work[t].ob] + 1]
    BY <1>7 DEF BeginBeat
  <2>4. stale' \in [Objects -> Nat]
    <3> DEFINE o == work[t].ob
    <3>1. stale \in [Objects -> Nat] /\ o \in Objects
      BY <2>2
    <3>2. stale' = [stale EXCEPT ![o] = stale[o]] \/ stale' = [stale EXCEPT ![o] = stale[o] + 1]
      BY <2>3
    <3> HIDE DEF TypeOK, o
    <3>3. stale[o] \in Nat /\ stale[o] + 1 \in Nat
      BY <3>1
    <3> QED
      BY <3>1, <3>2, <3>3
  <2> QED
    BY <1>7, <2>1, <2>4 DEF BeginBeat
<1>8. CASE EndBeat(t)
  <2>1. work' \in [Threads -> Works]
    BY <1>8 DEF EndBeat, Works
  <2> QED
    BY <1>8, <2>1 DEF EndBeat
<1>9. CASE EndRound(t)
  <2>1. work' \in [Threads -> Works]
    BY <1>9 DEF EndRound, Idle, Works
  <2> QED
    BY <1>9, <2>1 DEF EndRound
<1> QED
  BY <1>2, <1>3, <1>4, <1>5, <1>6, <1>7, <1>8, <1>9 DEF WorkerStep

LEMMA BounceType ==
  ASSUME TypeOK, NEW t \in Threads, NEW o \in Objects, BounceBeat(t, o)
  PROVE  TypeOK'
<1> USE HeartbeatAssumption DEF TypeOK, lpcVars, mainVars
<1>1. bounced' \in Seq(Objects)
  <2>1. o \in Objects
    BY DEF BounceBeat, Works
  <2> QED
    BY <2>1, AppendProperties DEF BounceBeat
<1>2. work' \in [Threads -> Works]
  BY DEF BounceBeat, Works
<1> QED
  BY <1>1, <1>2 DEF BounceBeat

LEMMA TypeStep == TypeOK /\ [Next]_vars => TypeOK'
<1> SUFFICES ASSUME TypeOK, [Next]_vars PROVE TypeOK'
  OBVIOUS
<1>1. ASSUME NEW a \in Actors, CallStep(a) PROVE TypeOK'
  BY <1>1, CallType
<1>2. ASSUME NEW a \in Setters, NewCall(a) PROVE TypeOK'
  BY <1>2, CallType, HeartbeatAssumption DEF NewCall
<1>3. CASE MainStep \/ CallHeartBeat
  BY <1>3, MainType
<1>4. ASSUME NEW t \in Threads, WorkerStep(t) PROVE TypeOK'
  BY <1>4, WorkerType
<1>5. ASSUME NEW t \in Threads, NEW o \in Shared, BounceBeat(t, o) PROVE TypeOK'
  BY <1>5, BounceType, HeartbeatAssumption
<1>6. CASE UNCHANGED vars
  BY <1>6 DEF TypeOK, vars, lpcVars, workerVars, mainVars
<1> QED
  BY <1>1, <1>2, <1>3, <1>4, <1>5, <1>6 DEF Next

\* The flags, tasks, entries and worker states keep their types: a worker that
\* is about to beat or beating has an object, the others have none.
THEOREM TypeCorrect == Spec => []TypeOK
  BY InitType, TypeStep, PTL DEF Spec

-----------------------------------------------------------------------------
(* The inductive form of OneEntry: the tasks of an inbox concern objects   *)
(* of that worker, and its two queues share no object.                     *)

InboxOwned ==
  \A t \in Threads : \A i \in DOMAIN inbox[t] :
    inbox[t][i].op # "process" => Shard[inbox[t][i].ob] = t

\* No object twice in q, in n, or in one and the other; all of them of t.
Unique(q, n, t) ==
  /\ \A i \in DOMAIN q : q[i].ob # Null => Shard[q[i].ob] = t
  /\ \A i \in DOMAIN n : n[i].ob # Null => Shard[n[i].ob] = t
  /\ \A i, j \in DOMAIN q : q[i].ob # Null /\ q[i].ob = q[j].ob => i = j
  /\ \A i, j \in DOMAIN n : n[i].ob # Null /\ n[i].ob = n[j].ob => i = j
  /\ \A i \in DOMAIN q, j \in DOMAIN n : q[i].ob # Null => q[i].ob # n[j].ob

QueuesUnique == \A t \in Threads : Unique(queue[t], next[t], t)

\* Clearing or rearming entries cannot duplicate an object.
LEMMA UniqueKept ==
  ASSUME NEW q \in Seq(Entries), NEW n \in Seq(Entries), NEW t,
         NEW q2 \in Seq(Entries), NEW n2 \in Seq(Entries),
         Len(q2) = Len(q), Len(n2) = Len(n),
         \A i \in DOMAIN q : q2[i].ob \in {Null, q[i].ob},
         \A i \in DOMAIN n : n2[i].ob \in {Null, n[i].ob},
         Unique(q, n, t)
  PROVE  Unique(q2, n2, t)
<1>1. DOMAIN q2 = DOMAIN q /\ DOMAIN n2 = DOMAIN n
  OBVIOUS
<1>2. \A i \in DOMAIN q2 : q2[i].ob # Null => i \in DOMAIN q /\ q[i].ob = q2[i].ob
  BY <1>1
<1>3. \A i \in DOMAIN n2 : n2[i].ob # Null => i \in DOMAIN n /\ n[i].ob = n2[i].ob
  BY <1>1
<1>4. \A i \in DOMAIN q2 : q2[i].ob # Null => Shard[q2[i].ob] = t
  BY <1>2 DEF Unique
<1>5. \A i \in DOMAIN n2 : n2[i].ob # Null => Shard[n2[i].ob] = t
  BY <1>3 DEF Unique
<1>6. \A i, j \in DOMAIN q2 : q2[i].ob # Null /\ q2[i].ob = q2[j].ob => i = j
  BY <1>2 DEF Unique
<1>7. \A i, j \in DOMAIN n2 : n2[i].ob # Null /\ n2[i].ob = n2[j].ob => i = j
  BY <1>3 DEF Unique
<1>8. \A i \in DOMAIN q2, j \in DOMAIN n2 : q2[i].ob # Null => q2[i].ob # n2[j].ob
  <2> SUFFICES ASSUME NEW i \in DOMAIN q2, NEW j \in DOMAIN n2, q2[i].ob # Null,
                      q2[i].ob = n2[j].ob
               PROVE  FALSE
    OBVIOUS
  <2>1. i \in DOMAIN q /\ q[i].ob = q2[i].ob /\ j \in DOMAIN n /\ n[j].ob = n2[j].ob
    BY <1>2, <1>3
  <2> QED
    BY <2>1 DEF Unique
<1> QED
  BY <1>4, <1>5, <1>6, <1>7, <1>8 DEF Unique

LEMMA UniqueAppend ==
  ASSUME NEW q \in Seq(Entries), NEW n \in Seq(Entries), NEW t, NEW e \in Entries,
         Shard[e.ob] = t, Positions(q, e.ob) = {}, Positions(n, e.ob) = {},
         Unique(q, n, t)
  PROVE  Unique(q, Append(n, e), t)
<1>1. /\ DOMAIN Append(n, e) = DOMAIN n \cup {Len(n) + 1}
      /\ Append(n, e)[Len(n) + 1] = e
      /\ \A i \in DOMAIN n : Append(n, e)[i] = n[i]
  OBVIOUS
<1>2. /\ \A i \in DOMAIN q : q[i].ob # e.ob
      /\ \A i \in DOMAIN n : n[i].ob # e.ob
  BY DEF Positions
<1> QED
  BY <1>1, <1>2 DEF Unique

LEMMA UniqueMerge ==
  ASSUME NEW q \in Seq(Entries), NEW n \in Seq(Entries), NEW t, Unique(q, n, t)
  PROVE  Unique(q \o n, << >>, t)
<1>1. \A i \in DOMAIN (q \o n) :
        \/ i \in DOMAIN q /\ (q \o n)[i] = q[i]
        \/ i \notin DOMAIN q /\ i - Len(q) \in DOMAIN n /\ (q \o n)[i] = n[i - Len(q)]
  OBVIOUS
<1>2. \A i, j \in DOMAIN (q \o n) : i - Len(q) = j - Len(q) => i = j
  OBVIOUS
<1>3. DOMAIN << >> = {}
  OBVIOUS
<1> QED
  BY <1>1, <1>2, <1>3, SMTT(30) DEF Unique

LEMMA UniqueTail ==
  ASSUME NEW q \in Seq(Entries), NEW n \in Seq(Entries), NEW t, q # << >>, Unique(q, n, t)
  PROVE  /\ Unique(Tail(q), n, t)
         /\ Head(q).ob # Null =>
              /\ Shard[Head(q).ob] = t
              /\ Positions(Tail(q), Head(q).ob) = {}
              /\ Positions(n, Head(q).ob) = {}
<1>1. /\ 1 \in DOMAIN q /\ Head(q) = q[1]
      /\ \A i \in DOMAIN Tail(q) : i + 1 \in DOMAIN q /\ i + 1 # 1 /\ Tail(q)[i] = q[i + 1]
      /\ \A i, j \in DOMAIN Tail(q) : i + 1 = j + 1 => i = j
  OBVIOUS
<1> QED
  BY <1>1 DEF Unique, Positions

\* The queues of one worker change and stay free of duplicates.
LEMMA QueuesStep ==
  ASSUME TypeOK, QueuesUnique, NEW t \in Threads, NEW q, NEW n, Unique(q, n, t),
         queue' = [queue EXCEPT ![t] = q], next' = [next EXCEPT ![t] = n]
  PROVE  QueuesUnique'
<1> SUFFICES ASSUME NEW s \in Threads PROVE Unique(queue'[s], next'[s], s)
  BY DEF QueuesUnique, Unique
<1>1. queue \in [Threads -> Seq(Entries)] /\ next \in [Threads -> Seq(Entries)]
  BY DEF TypeOK
<1>2. CASE s = t
  <2>1. queue'[s] = q /\ next'[s] = n
    BY <1>1, <1>2
  <2> QED
    BY <1>2, <2>1
<1>3. CASE s # t
  <2>1. queue'[s] = queue[s] /\ next'[s] = next[s]
    BY <1>1, <1>3
  <2> QED
    BY <2>1 DEF QueuesUnique
<1> QED
  BY <1>2, <1>3

\* A task joins the inbox of the worker that owns its object.
LEMMA InboxPost ==
  ASSUME TypeOK, InboxOwned, NEW t \in Threads, NEW x \in QueueTasks,
         x.op # "process" => Shard[x.ob] = t, Post(t, x)
  PROVE  InboxOwned'
<1> SUFFICES ASSUME NEW s \in Threads, NEW i \in DOMAIN inbox'[s], inbox'[s][i].op # "process"
             PROVE  Shard[inbox'[s][i].ob] = s
  BY DEF InboxOwned
<1>1. inbox \in [Threads -> Seq(QueueTasks)]
  BY DEF TypeOK
<1>2. CASE s = t
  <2>1. inbox[t] \in Seq(QueueTasks)
    BY <1>1
  <2>2. inbox'[s] = Append(inbox[t], x)
    BY <1>1, <1>2 DEF Post
  <2>3. \/ i \in DOMAIN inbox[t] /\ inbox'[s][i] = inbox[t][i]
        \/ inbox'[s][i] = x
    BY <2>1, <2>2
  <2> QED
    BY <1>2, <2>3 DEF InboxOwned
<1>3. CASE s # t
  <2>1. inbox'[s] = inbox[s]
    BY <1>1, <1>3 DEF Post
  <2> QED
    BY <2>1 DEF InboxOwned
<1> QED
  BY <1>2, <1>3

\* A worker takes the oldest task of its inbox.
LEMMA InboxTake ==
  ASSUME TypeOK, InboxOwned, NEW t \in Threads, NEW op, NextTask(t, op)
  PROVE  /\ InboxOwned'
         /\ op # "process" => Shard[Head(inbox[t]).ob] = t
<1>1. inbox \in [Threads -> Seq(QueueTasks)]
  BY DEF TypeOK
<1>2. inbox[t] \in Seq(QueueTasks) /\ inbox[t] # << >>
  BY <1>1 DEF NextTask
<1>3. /\ 1 \in DOMAIN inbox[t] /\ Head(inbox[t]) = inbox[t][1]
      /\ \A i \in DOMAIN Tail(inbox[t]) :
           i + 1 \in DOMAIN inbox[t] /\ Tail(inbox[t])[i] = inbox[t][i + 1]
  BY <1>2
<1>4. op # "process" => Shard[Head(inbox[t]).ob] = t
  BY <1>3 DEF InboxOwned, NextTask
<1>5. InboxOwned'
  <2> SUFFICES ASSUME NEW s \in Threads, NEW i \in DOMAIN inbox'[s],
                      inbox'[s][i].op # "process"
               PROVE  Shard[inbox'[s][i].ob] = s
    BY DEF InboxOwned
  <2>1. CASE s = t
    <3>1. inbox'[s] = Tail(inbox[t])
      BY <1>1, <2>1 DEF NextTask
    <3>2. i + 1 \in DOMAIN inbox[t] /\ inbox'[s][i] = inbox[t][i + 1]
      BY <1>3, <3>1
    <3> QED
      BY <2>1, <3>2 DEF InboxOwned
  <2>2. CASE s # t
    <3>1. inbox'[s] = inbox[s]
      BY <1>1, <2>2 DEF NextTask
    <3> QED
      BY <3>1 DEF InboxOwned
  <2> QED
    BY <2>1, <2>2
<1> QED
  BY <1>4, <1>5

LEMMA WorkerUnique ==
  ASSUME TypeOK, QueuesUnique, InboxOwned, NEW t \in Threads, WorkerStep(t)
  PROVE  QueuesUnique' /\ InboxOwned'
<1> USE HeartbeatAssumption
<1>1. /\ queue \in [Threads -> Seq(Entries)] /\ next \in [Threads -> Seq(Entries)]
      /\ queue[t] \in Seq(Entries) /\ next[t] \in Seq(Entries)
  BY DEF TypeOK
<1>2. Unique(queue[t], next[t], t)
  BY DEF QueuesUnique
<1>3. ASSUME UNCHANGED inbox PROVE InboxOwned'
  BY <1>3 DEF InboxOwned
<1>4. ASSUME UNCHANGED <<queue, next>> PROVE QueuesUnique'
  BY <1>4 DEF QueuesUnique, Unique
<1>5. CASE RemoveHeartbeat(t)
  <2> DEFINE o == Head(inbox[t]).ob
             q == Forget(queue[t], o)
             n == Forget(next[t], o)
  <2>1. q \in Seq(Entries) /\ Len(q) = Len(queue[t]) /\ n \in Seq(Entries) /\ Len(n) = Len(next[t])
    BY <1>1, ForgetType
  <2>2. /\ \A i \in DOMAIN queue[t] : q[i].ob \in {Null, queue[t][i].ob}
        /\ \A i \in DOMAIN next[t] : n[i].ob \in {Null, next[t][i].ob}
    BY <1>1, ForgetType
  <2>3. queue' = [queue EXCEPT ![t] = q] /\ next' = [next EXCEPT ![t] = n]
    BY <1>5 DEF RemoveHeartbeat
  <2> HIDE DEF q, n
  <2>4. Unique(q, n, t)
    BY <1>1, <1>2, <2>1, <2>2, UniqueKept
  <2>5. QueuesUnique'
    BY <2>3, <2>4, QueuesStep
  <2> QED
    BY <1>5, <2>5, InboxTake DEF RemoveHeartbeat
<1>6. CASE ModifyHeartbeat(t)
  <2> DEFINE o == Head(inbox[t]).ob
             m == ToShort(Head(inbox[t]).interval)
             e == [ob |-> o, ticks |-> m, time |-> m]
  <2>1. Head(inbox[t]) \in QueueTasks /\ Head(inbox[t]).op = "modify"
    BY <1>6, TaskType DEF ModifyHeartbeat
  <2>2. o \in Objects /\ Head(inbox[t]).interval \in Int
    BY <2>1 DEF QueueTasks
  <2>3. m \in Int
    BY <2>2, ShortType
  <2>4. Shard[o] = t /\ InboxOwned'
    BY <1>6, InboxTake DEF ModifyHeartbeat
  <2>5. /\ queue' = IF Positions(queue[t], o) # {}
                    THEN [queue EXCEPT ![t] = Rearm(queue[t], o, m)] ELSE queue
        /\ next' = IF Positions(queue[t], o) # {} THEN next
                   ELSE IF Positions(next[t], o) # {}
                   THEN [next EXCEPT ![t] = Rearm(next[t], o, m)]
                   ELSE [next EXCEPT ![t] = Append(next[t], e)]
    BY <1>6 DEF ModifyHeartbeat
  <2> HIDE DEF o, m
  <2>6. e \in Entries /\ e.ob = o
    BY <2>2, <2>3 DEF Entries
  <2>7. queue = [queue EXCEPT ![t] = queue[t]] /\ next = [next EXCEPT ![t] = next[t]]
    BY <1>1
  <2>8. CASE Positions(queue[t], o) # {}
    <3> DEFINE q == Rearm(queue[t], o, m)
    <3>1. /\ q \in Seq(Entries) /\ Len(q) = Len(queue[t])
          /\ \A i \in DOMAIN queue[t] : q[i].ob = queue[t][i].ob
      BY <1>1, <2>2, <2>3, RearmType, ZenonT(30)
    <3>2. queue' = [queue EXCEPT ![t] = q] /\ next' = [next EXCEPT ![t] = next[t]]
      BY <2>5, <2>7, <2>8
    <3> HIDE DEF q
    <3>3. Unique(q, next[t], t)
      BY <1>1, <1>2, <3>1, UniqueKept
    <3> QED
      BY <2>4, <3>2, <3>3, QueuesStep
  <2>9. CASE Positions(queue[t], o) = {} /\ Positions(next[t], o) # {}
    <3> DEFINE n == Rearm(next[t], o, m)
    <3>1. /\ n \in Seq(Entries) /\ Len(n) = Len(next[t])
          /\ \A i \in DOMAIN next[t] : n[i].ob = next[t][i].ob
      BY <1>1, <2>2, <2>3, RearmType, ZenonT(30)
    <3>2. queue' = [queue EXCEPT ![t] = queue[t]] /\ next' = [next EXCEPT ![t] = n]
      BY <2>5, <2>7, <2>9
    <3> HIDE DEF n
    <3>3. Unique(queue[t], n, t)
      BY <1>1, <1>2, <3>1, UniqueKept
    <3> QED
      BY <2>4, <3>2, <3>3, QueuesStep
  <2>10. CASE Positions(queue[t], o) = {} /\ Positions(next[t], o) = {}
    <3>1. queue' = [queue EXCEPT ![t] = queue[t]] /\ next' = [next EXCEPT ![t] = Append(next[t], e)]
      BY <2>5, <2>7, <2>10
    <3> HIDE DEF e
    <3>2. Unique(queue[t], Append(next[t], e), t)
      BY <1>1, <1>2, <2>4, <2>6, <2>10, UniqueAppend
    <3> QED
      BY <2>4, <3>1, <3>2, QueuesStep
  <2> QED
    BY <2>8, <2>9, <2>10
<1>7. CASE BeginRound(t)
  <2>1. Unique(queue[t] \o next[t], << >>, t)
    BY <1>1, <1>2, UniqueMerge
  <2>2. queue' = [queue EXCEPT ![t] = queue[t] \o next[t]] /\ next' = [next EXCEPT ![t] = << >>]
    BY <1>7 DEF BeginRound
  <2>3. QueuesUnique'
    BY <2>1, <2>2, QueuesStep
  <2> QED
    BY <1>7, <2>3, InboxTake DEF BeginRound
<1>8. CASE DropEntry(t)
  <2>1. Unique(Tail(queue[t]), next[t], t)
    BY <1>1, <1>2, <1>8, UniqueTail DEF DropEntry
  <2>2. queue' = [queue EXCEPT ![t] = Tail(queue[t])] /\ next' = [next EXCEPT ![t] = next[t]]
    BY <1>1, <1>8 DEF DropEntry
  <2>3. QueuesUnique'
    BY <2>1, <2>2, QueuesStep
  <2> QED
    BY <1>3, <1>8, <2>3 DEF DropEntry
<1>9. CASE CountEntry(t)
  <2> DEFINE e == Head(queue[t])
             left == ToShort(e.ticks - 1)
             kept == [e EXCEPT !.ticks = IF left <= 0 THEN e.time ELSE left]
  <2>1. e \in Entries /\ Tail(queue[t]) \in Seq(Entries) /\ queue[t] # << >>
    BY <1>1, <1>9, HeadTailProperties DEF CountEntry
  <2>2. e.ob \in Objects /\ e.ob # Null /\ e.ticks \in Int /\ e.time \in Int
    BY <1>9, <2>1 DEF CountEntry, Alive, Entries
  <2>3. left \in Int
    BY <2>2, ShortType
  <2>4. kept \in Entries /\ kept.ob = e.ob
    <3> HIDE DEF left, e
    <3> QED
      BY <2>1, <2>2, <2>3 DEF Entries
  <2>5. /\ Unique(Tail(queue[t]), next[t], t) /\ Shard[e.ob] = t
        /\ Positions(Tail(queue[t]), e.ob) = {} /\ Positions(next[t], e.ob) = {}
    BY <1>1, <1>2, <2>1, <2>2, UniqueTail
  <2>6. /\ queue' = [queue EXCEPT ![t] = Tail(queue[t])]
        /\ next' = [next EXCEPT ![t] = Append(next[t], kept)]
        /\ UNCHANGED inbox
    BY <1>9 DEF CountEntry
  <2> HIDE DEF e, left, kept
  <2>7. Unique(Tail(queue[t]), Append(next[t], kept), t)
    BY <1>1, <2>1, <2>4, <2>5, UniqueAppend
  <2>8. QueuesUnique'
    BY <2>6, <2>7, QueuesStep
  <2> QED
    BY <1>3, <2>6, <2>8
<1>10. CASE BeginBeat(t) \/ EndBeat(t) \/ EndRound(t)
  BY <1>3, <1>4, <1>10 DEF BeginBeat, EndBeat, EndRound
<1> QED
  BY <1>5, <1>6, <1>7, <1>8, <1>9, <1>10 DEF WorkerStep

\* set_heart_beat() posts to the worker that owns the object.
LEMMA ChangePosted ==
  ASSUME TypeOK, InboxOwned, NEW a \in Actors, PostChange(a)
  PROVE  InboxOwned'
<1> DEFINE o == call[a].ob
           x == IF call[a].to = 0 THEN [op |-> "remove", ob |-> o]
                ELSE [op |-> "modify", ob |-> o, interval |-> call[a].to]
<1>1. call[a] \in SetCalls \cup {NoCall}
  BY DEF TypeOK
<1>2. call[a] \in SetCalls
  BY <1>1 DEF PostChange, NoCall
<1>3. o \in Objects /\ call[a].to \in Nat
  BY <1>2 DEF SetCalls
<1>4. x \in QueueTasks /\ x.ob = o
  BY <1>3 DEF QueueTasks
<1>5. Post(Shard[o], x) /\ Shard[o] \in Threads
  BY <1>3, HeartbeatAssumption DEF PostChange
<1> HIDE DEF x, o
<1> QED
  BY <1>4, <1>5, InboxPost

OneEntryInv == TypeOK /\ InboxOwned /\ QueuesUnique

LEMMA OneEntryStep == OneEntryInv /\ [Next]_vars => OneEntryInv'
<1> SUFFICES ASSUME OneEntryInv, [Next]_vars PROVE OneEntryInv'
  OBVIOUS
<1> USE HeartbeatAssumption
<1>1. TypeOK /\ InboxOwned /\ QueuesUnique /\ TypeOK'
  BY TypeStep DEF OneEntryInv
<1>2. ASSUME UNCHANGED <<queue, next>> PROVE QueuesUnique'
  BY <1>1, <1>2 DEF QueuesUnique, Unique
<1>3. ASSUME UNCHANGED inbox PROVE InboxOwned'
  BY <1>1, <1>3 DEF InboxOwned
<1>4. ASSUME NEW a \in Actors, CallStep(a) PROVE InboxOwned' /\ QueuesUnique'
  <2>1. CASE SetFlag(a) \/ MarkDestructed(a)
    BY <1>2, <1>3, <2>1 DEF SetFlag, MarkDestructed, workerVars
  <2>2. CASE PostChange(a)
    BY <1>1, <1>2, <2>2, ChangePosted DEF PostChange, workerVars
  <2> QED
    BY <1>4, <2>1, <2>2 DEF CallStep
<1>5. ASSUME NEW a \in Setters, NewCall(a) PROVE InboxOwned' /\ QueuesUnique'
  BY <1>2, <1>3, <1>5 DEF NewCall, SetHeartBeat, DestructObject, workerVars
<1>6. CASE MainStep \/ CallHeartBeat
  <2>1. CASE Signal
    <3>1. round \in Threads /\ [op |-> "process"] \in QueueTasks
      BY <1>1, <2>1 DEF Signal, Threads, QueueTasks, TypeOK
    <3>2. InboxOwned'
      BY <1>1, <2>1, <3>1, InboxPost DEF Signal
    <3> QED
      BY <1>1, <1>2, <2>1, <3>2 DEF Signal, workerVars, OneEntryInv
  <2>2. CASE RunBounced \/ BouncedDone \/ OpenGate \/ CallHeartBeat
    BY <1>1, <1>2, <1>3, <2>2 DEF RunBounced, BouncedDone, OpenGate, CallHeartBeat, workerVars,
      OneEntryInv
  <2> QED
    BY <1>6, <2>1, <2>2 DEF MainStep
<1>7. ASSUME NEW t \in Threads, WorkerStep(t) PROVE InboxOwned' /\ QueuesUnique'
  BY <1>1, <1>7, WorkerUnique
<1>8. ASSUME NEW t \in Threads, NEW o \in Shared, BounceBeat(t, o) PROVE InboxOwned' /\ QueuesUnique'
  BY <1>2, <1>3, <1>8 DEF BounceBeat
<1>9. CASE UNCHANGED vars
  BY <1>1, <1>2, <1>3, <1>9 DEF vars, workerVars, OneEntryInv
<1> QED
  BY <1>1, <1>4, <1>5, <1>6, <1>7, <1>8, <1>9 DEF Next, OneEntryInv

LEMMA OneEntryInit == Init => OneEntryInv
<1> SUFFICES ASSUME Init PROVE InboxOwned /\ QueuesUnique
  BY InitType DEF OneEntryInv
<1>1. \A t \in Threads : DOMAIN inbox[t] = {} /\ DOMAIN queue[t] = {} /\ DOMAIN next[t] = {}
  BY DEF Init
<1> QED
  BY <1>1 DEF InboxOwned, QueuesUnique, Unique

\* Whatever threads switch objects on and off, and however rounds, beats and
\* bounces interleave, no object has two entries, nor one on another worker.
THEOREM OneEntryKept == Spec => []OneEntry
<1>1. Init => OneEntryInv
  BY OneEntryInit
<1>2. OneEntryInv => OneEntry
  <2> SUFFICES ASSUME OneEntryInv, NEW t \in Threads, NEW i \in DOMAIN Entered(t),
                      Entered(t)[i].ob # Null
               PROVE  /\ Shard[Entered(t)[i].ob] = t
                      /\ Positions(Entered(t), Entered(t)[i].ob) = {i}
    BY DEF OneEntry
  <2>1. queue[t] \in Seq(Entries) /\ next[t] \in Seq(Entries) /\ Unique(queue[t], next[t], t)
    BY DEF OneEntryInv, TypeOK, QueuesUnique
  <2>2. Unique(Entered(t), << >>, t)
    BY <2>1, UniqueMerge DEF Entered
  <2> QED
    BY <2>2 DEF Unique, Positions
<1> QED
  BY <1>1, <1>2, OneEntryStep, PTL DEF Spec

-----------------------------------------------------------------------------
(* One stale beat.                                                         *)

\* An object that is on has no stale beat behind it, and neither has the one a
\* worker is about to enter: it was on when the scan looked at it.
StaleInv ==
  /\ \A o \in Objects : stale[o] <= 1 /\ (flag[o] /\ ~destructed[o] => stale[o] = 0)
  /\ \A t \in Threads : work[t].pc = "due" => Shard[work[t].ob] = t /\ stale[work[t].ob] = 0

LEMMA StaleCall ==
  ASSUME TypeOK, StaleInv, NEW a \in Actors, CallStep(a) \/ NewCall(a)
  PROVE  StaleInv'
<1>1. CASE NewCall(a)
  BY <1>1 DEF NewCall, SetHeartBeat, DestructObject, workerVars, StaleInv
<1>2. CASE PostChange(a)
  BY <1>2 DEF PostChange, workerVars, StaleInv
<1>3. CASE MarkDestructed(a)
  <2>1. \A o \in Objects : destructed[o] => destructed'[o]
    BY <1>3 DEF MarkDestructed, TypeOK
  <2>2. UNCHANGED <<flag, stale, work>>
    BY <1>3 DEF MarkDestructed, workerVars
  <2> QED
    BY <2>1, <2>2 DEF StaleInv
<1>4. CASE SetFlag(a)
  <2>1. /\ flag' = [flag EXCEPT ![call[a].ob] = (call[a].to # 0)]
        /\ stale' = [stale EXCEPT ![call[a].ob] = IF call[a].to # 0 THEN 0 ELSE stale[call[a].ob]]
        /\ UNCHANGED <<destructed, work>>
    BY <1>4 DEF SetFlag, workerVars
  <2>2. flag \in [Objects -> BOOLEAN] /\ stale \in [Objects -> Nat] /\ work \in [Threads -> Works]
    BY DEF TypeOK
  <2>3. \A o \in Objects : stale'[o] = stale[o] \/ stale'[o] = 0
    BY <2>1, <2>2
  <2>4. \A o \in Objects : flag'[o] => flag[o] \/ stale'[o] = 0
    BY <2>1, <2>2
  <2>5. \A t \in Threads : work[t].pc = "due" => work[t].ob \in Objects
    BY <2>2 DEF Works
  <2> QED
    BY <2>1, <2>3, <2>4, <2>5 DEF StaleInv
<1> QED
  BY <1>1, <1>2, <1>3, <1>4 DEF CallStep

LEMMA StaleWorker ==
  ASSUME OneEntryInv, StaleInv, NEW t \in Threads, WorkerStep(t)
  PROVE  StaleInv'
<1>1. /\ work \in [Threads -> Works] /\ stale \in [Objects -> Nat]
      /\ queue[t] \in Seq(Entries) /\ next[t] \in Seq(Entries)
  BY DEF OneEntryInv, TypeOK
<1>2. CASE RemoveHeartbeat(t) \/ ModifyHeartbeat(t) \/ DropEntry(t)
  BY <1>2 DEF RemoveHeartbeat, ModifyHeartbeat, DropEntry, lpcVars, StaleInv
<1>3. CASE BeginRound(t) \/ EndBeat(t) \/ EndRound(t)
  <2>1. UNCHANGED lpcVars /\ work'[t].pc # "due"
    <3>1. CASE BeginRound(t)
      BY <1>1, <3>1 DEF BeginRound, NextTask, Works
    <3> QED
      BY <1>1, <1>3, <3>1 DEF EndBeat, EndRound, Idle
  <2>2. \A u \in Threads : u # t => work'[u] = work[u]
    BY <1>1, <1>3 DEF BeginRound, EndBeat, EndRound
  <2> QED
    BY <2>1, <2>2 DEF lpcVars, StaleInv
<1>4. CASE CountEntry(t)
  <2> DEFINE o == Head(queue[t]).ob
  <2>1. o \in Objects /\ flag[o] /\ ~destructed[o] /\ Shard[o] = t
    <3>1. Head(queue[t]) \in Entries /\ queue[t] # << >> /\ Alive(o)
      BY <1>1, <1>4, HeadTailProperties DEF CountEntry
    <3>2. Unique(queue[t], next[t], t)
      BY DEF OneEntryInv, QueuesUnique
    <3> QED
      BY <1>1, <3>1, <3>2, UniqueTail DEF Alive, Entries
  <2>2. UNCHANGED lpcVars
    BY <1>4 DEF CountEntry
  <2>3. \A u \in Threads : work'[u] = work[u] \/ (u = t /\ work'[u].ob = o)
    BY <1>1, <1>4 DEF CountEntry
  <2> HIDE DEF o
  <2> QED
    BY <2>1, <2>2, <2>3 DEF lpcVars, StaleInv
<1>5. CASE BeginBeat(t)
  <2> DEFINE o == work[t].ob
  <2>1. /\ work[t].pc = "due" /\ o \in Objects /\ Shard[o] = t /\ stale[o] = 0
        /\ UNCHANGED <<flag, destructed>>
    BY <1>1, <1>5 DEF BeginBeat, Works, StaleInv
  <2>2. stale' = [stale EXCEPT ![o] = IF flag[o] /\ ~destructed[o] THEN stale[o] ELSE stale[o] + 1]
    BY <1>5 DEF BeginBeat
  <2>3. \A u \in Threads : u # t => work'[u] = work[u]
    BY <1>1, <1>5 DEF BeginBeat
  <2>4. work'[t].pc = "beat"
    BY <1>1, <1>5 DEF BeginBeat
  <2> HIDE DEF o
  <2>5. \A p \in Objects : p # o => stale'[p] = stale[p]
    BY <1>1, <2>2
  <2>6. stale'[o] <= 1 /\ (flag[o] /\ ~destructed[o] => stale'[o] = 0)
    BY <1>1, <2>1, <2>2
  <2>7. \A u \in Threads : work'[u].pc = "due" => u # t /\ work'[u] = work[u] /\ work[u].ob \in Objects
    BY <1>1, <2>3, <2>4 DEF Works
  <2> QED
    BY <2>1, <2>5, <2>6, <2>7 DEF StaleInv
<1> QED
  BY <1>2, <1>3, <1>4, <1>5 DEF WorkerStep

LEMMA StaleStep == OneEntryInv /\ StaleInv /\ [Next]_vars => StaleInv'
<1> SUFFICES ASSUME OneEntryInv, StaleInv, [Next]_vars PROVE StaleInv'
  OBVIOUS
<1>1. TypeOK /\ Setters \subseteq Actors
  BY HeartbeatAssumption DEF OneEntryInv
<1>2. ASSUME NEW a \in Actors, CallStep(a) PROVE StaleInv'
  BY <1>1, <1>2, StaleCall
<1>3. ASSUME NEW a \in Setters, NewCall(a) PROVE StaleInv'
  BY <1>1, <1>3, StaleCall
<1>4. CASE MainStep \/ CallHeartBeat
  BY <1>4 DEF MainStep, Signal, RunBounced, BouncedDone, OpenGate, CallHeartBeat, lpcVars,
    workerVars, StaleInv
<1>5. ASSUME NEW t \in Threads, WorkerStep(t) PROVE StaleInv'
  BY <1>5, StaleWorker
<1>6. ASSUME NEW t \in Threads, NEW o \in Shared, BounceBeat(t, o) PROVE StaleInv'
  <2>1. UNCHANGED lpcVars /\ (\A u \in Threads : work'[u] = work[u] \/ work'[u].pc # "due")
    BY <1>1, <1>6 DEF BounceBeat, TypeOK
  <2> QED
    BY <2>1 DEF lpcVars, StaleInv
<1>7. CASE UNCHANGED vars
  BY <1>7 DEF vars, lpcVars, workerVars, StaleInv
<1> QED
  BY <1>2, <1>3, <1>4, <1>5, <1>6, <1>7 DEF Next

\* Whatever threads switch heart beats, an object that was switched off or
\* destructed beats once more at most.
THEOREM StaleBeatIsLast == Spec => []OneStaleBeat
<1>1. Init => StaleInv
  BY DEF Init, Idle, StaleInv
<1>2. StaleInv => OneStaleBeat
  BY DEF StaleInv, OneStaleBeat
<1> QED
  BY <1>1, <1>2, OneEntryInit, OneEntryStep, StaleStep, PTL DEF Spec

-----------------------------------------------------------------------------
(* Beats come with their period: the countdown of an entry and the rounds  *)
(* already counted add up to the interval last given to the worker.        *)

\* p and a stand for period and age.
Fits(e, p, a) ==
  e.ob # Null =>
    /\ e.time = ToShort(p[e.ob])
    /\ p[e.ob] <= ShortMax => e.ticks > 0 /\ a[e.ob] + e.ticks = p[e.ob]

AllFit(q, p, a) == \A i \in DOMAIN q : Fits(q[i], p, a)

PeriodInv ==
  /\ \A t \in Threads : \A i \in DOMAIN inbox[t] : inbox[t][i].op = "modify" => inbox[t][i].interval > 0
  /\ \A t \in Threads : AllFit(queue[t], period, age) /\ AllFit(next[t], period, age)

\* Numbers that fit a short are kept as they are.
LEMMA ShortIs == \A n \in Int : -1 < n /\ n <= ShortMax => ToShort(n) = n
  BY DEF ToShort, ShortMax

LEMMA FitForget ==
  ASSUME NEW q \in Seq(Entries), NEW o \in Objects, NEW p, NEW a, AllFit(q, p, a)
  PROVE  AllFit(Forget(q, o), p, a)
<1>1. /\ DOMAIN Forget(q, o) = DOMAIN q
      /\ \A i \in DOMAIN q : Forget(q, o)[i] = IF q[i].ob = o THEN [q[i] EXCEPT !.ob = Null] ELSE q[i]
  BY DEF Forget
<1>2. \A i \in DOMAIN q : q[i] \in Entries
  OBVIOUS
<1>3. \A i \in DOMAIN q : q[i].ob = o => Forget(q, o)[i].ob = Null
  BY <1>1, <1>2 DEF Entries
<1> QED
  BY <1>1, <1>3 DEF AllFit, Fits

\* The counters of o change; no entry of q is that of o.
LEMMA FitOther ==
  ASSUME NEW q \in Seq(Entries), NEW o \in Objects, NEW p \in [Objects -> Nat], NEW a \in [Objects -> Nat],
         NEW k, NEW m, Positions(q, o) = {}, AllFit(q, p, a)
  PROVE  AllFit(q, [p EXCEPT ![o] = k], [a EXCEPT ![o] = m])
<1> DEFINE p2 == [p EXCEPT ![o] = k]
           a2 == [a EXCEPT ![o] = m]
<1>1. \A i \in DOMAIN q : q[i] \in Entries /\ q[i].ob # o
  BY DEF Positions
<1>2. \A x \in Objects : x # o => p2[x] = p[x] /\ a2[x] = a[x]
  OBVIOUS
<1> HIDE DEF p2, a2
<1>3. \A i \in DOMAIN q : q[i].ob # Null => q[i].ob \in Objects
  BY <1>1 DEF Entries
<1> SUFFICES AllFit(q, p2, a2)
  BY DEF p2, a2
<1> QED
  BY <1>1, <1>2, <1>3 DEF AllFit, Fits

\* Only the rounds counted for o change.
LEMMA FitUncounted ==
  ASSUME NEW q \in Seq(Entries), NEW o \in Objects, NEW p \in [Objects -> Nat], NEW a \in [Objects -> Nat],
         NEW m, Positions(q, o) = {}, AllFit(q, p, a)
  PROVE  AllFit(q, p, [a EXCEPT ![o] = m])
<1>1. AllFit(q, [p EXCEPT ![o] = p[o]], [a EXCEPT ![o] = m])
  BY FitOther
<1>2. [p EXCEPT ![o] = p[o]] = p
  OBVIOUS
<1> QED
  BY <1>1, <1>2

LEMMA FitAppend ==
  ASSUME NEW q \in Seq(Entries), NEW e \in Entries, NEW p, NEW a, AllFit(q, p, a), Fits(e, p, a)
  PROVE  AllFit(Append(q, e), p, a)
<1>1. \A i \in DOMAIN Append(q, e) : (i \in DOMAIN q /\ Append(q, e)[i] = q[i]) \/ Append(q, e)[i] = e
  OBVIOUS
<1> QED
  BY <1>1 DEF AllFit

LEMMA FitTail ==
  ASSUME NEW q \in Seq(Entries), NEW p, NEW a, q # << >>, AllFit(q, p, a)
  PROVE  AllFit(Tail(q), p, a) /\ Fits(Head(q), p, a)
<1>1. /\ \A i \in DOMAIN Tail(q) : i + 1 \in DOMAIN q /\ Tail(q)[i] = q[i + 1]
      /\ 1 \in DOMAIN q /\ Head(q) = q[1]
  OBVIOUS
<1> QED
  BY <1>1 DEF AllFit

LEMMA FitMerge ==
  ASSUME NEW q \in Seq(Entries), NEW n \in Seq(Entries), NEW p, NEW a, AllFit(q, p, a), AllFit(n, p, a)
  PROVE  AllFit(q \o n, p, a) /\ AllFit(<< >>, p, a)
<1>1. \A i \in DOMAIN (q \o n) :
        \/ i \in DOMAIN q /\ (q \o n)[i] = q[i]
        \/ i - Len(q) \in DOMAIN n /\ (q \o n)[i] = n[i - Len(q)]
  OBVIOUS
<1>2. DOMAIN << >> = {}
  OBVIOUS
<1> QED
  BY <1>1, <1>2 DEF AllFit

\* The one entry of o starts anew with interval k.
LEMMA FitRearm ==
  ASSUME NEW q \in Seq(Entries), NEW o \in Objects, NEW p \in [Objects -> Nat], NEW a \in [Objects -> Nat],
         NEW k \in Nat, k > 0, AllFit(q, p, a), o # Null,
         \A i, j \in DOMAIN q : q[i].ob # Null /\ q[i].ob = q[j].ob => i = j
  PROVE  AllFit(Rearm(q, o, ToShort(k)), [p EXCEPT ![o] = k], [a EXCEPT ![o] = 0])
<1> SUFFICES ASSUME NEW n, n = ToShort(k), NEW p2, p2 = [p EXCEPT ![o] = k],
                    NEW a2, a2 = [a EXCEPT ![o] = 0]
             PROVE  AllFit(Rearm(q, o, n), p2, a2)
  OBVIOUS
<1>1. DOMAIN Rearm(q, o, n) = DOMAIN q
  BY DEF Rearm
<1>2. ASSUME NEW i \in DOMAIN q PROVE Fits(Rearm(q, o, n)[i], p2, a2)
  <2>1. q[i] \in Entries /\ Fits(q[i], p, a)
    BY DEF AllFit
  <2>2. CASE q[i].ob = o
    <3>1. Positions(q, o) = {i}
      BY <2>2 DEF Positions
    <3>2. i \in Nat
      BY <1>2
    <3>3. Rearm(q, o, n)[i] = [ob |-> o, ticks |-> n, time |-> n]
      BY <3>1, <3>2 DEF Rearm
    <3>4. n = ToShort(p2[o]) /\ p2[o] = k /\ a2[o] = 0
      OBVIOUS
    <3>5. k <= ShortMax => n = k
      BY ShortIs
    <3> QED
      BY <3>3, <3>4, <3>5 DEF Fits
  <2>3. CASE q[i].ob # o
    <3>1. Rearm(q, o, n)[i] = q[i]
      BY <2>3 DEF Rearm, Positions
    <3>2. q[i].ob # Null => p2[q[i].ob] = p[q[i].ob] /\ a2[q[i].ob] = a[q[i].ob]
      BY <2>1, <2>3 DEF Entries
    <3> QED
      BY <2>1, <3>1, <3>2 DEF Fits
  <2> QED
    BY <2>2, <2>3
<1> QED
  BY <1>1, <1>2 DEF AllFit

LEMMA NotElsewhere ==
  ASSUME QueuesUnique, NEW o \in Objects, NEW u \in Threads, Shard[o] # u
  PROVE  Positions(queue[u], o) = {} /\ Positions(next[u], o) = {}
  BY HeartbeatAssumption DEF QueuesUnique, Unique, Positions

\* What is left of the intervals in the inboxes.
LEMMA IntervalsStep ==
  ASSUME OneEntryInv, PeriodInv, NEW t \in Threads, NEW op, NextTask(t, op)
  PROVE  /\ \A u \in Threads : \A i \in DOMAIN inbox'[u] :
              inbox'[u][i].op = "modify" => inbox'[u][i].interval > 0
         /\ op = "modify" => Head(inbox[t]).interval > 0
<1>1. inbox \in [Threads -> Seq(QueueTasks)] /\ inbox[t] \in Seq(QueueTasks) /\ inbox[t] # << >>
  BY DEF OneEntryInv, TypeOK, NextTask
<1>2. /\ 1 \in DOMAIN inbox[t] /\ Head(inbox[t]) = inbox[t][1]
      /\ \A i \in DOMAIN Tail(inbox[t]) :
           i + 1 \in DOMAIN inbox[t] /\ Tail(inbox[t])[i] = inbox[t][i + 1]
  BY <1>1
<1>3. inbox'[t] = Tail(inbox[t]) /\ \A u \in Threads : u # t => inbox'[u] = inbox[u]
  BY <1>1 DEF NextTask
<1>4. Head(inbox[t]).op = op
  BY DEF NextTask
<1>5. \A u \in Threads : \A i \in DOMAIN inbox[u] : inbox[u][i].op = "modify" => inbox[u][i].interval > 0
  BY DEF PeriodInv
<1>6. \A i \in DOMAIN inbox'[t] : inbox'[t][i].op = "modify" => inbox'[t][i].interval > 0
  BY <1>2, <1>3, <1>5
<1>7. \A u \in Threads : u # t => \A i \in DOMAIN inbox'[u] :
        inbox'[u][i].op = "modify" => inbox'[u][i].interval > 0
  BY <1>3, <1>5
<1> QED
  BY <1>2, <1>4, <1>5, <1>6, <1>7

\* The queues of worker t change, the counters of no object do.
LEMMA FitStep ==
  ASSUME OneEntryInv, PeriodInv, NEW t \in Threads, NEW q, NEW n,
         queue' = [queue EXCEPT ![t] = q], next' = [next EXCEPT ![t] = n],
         AllFit(q, period, age), AllFit(n, period, age), UNCHANGED <<period, age>>
  PROVE  \A u \in Threads : AllFit(queue'[u], period', age') /\ AllFit(next'[u], period', age')
<1>1. queue \in [Threads -> Seq(Entries)] /\ next \in [Threads -> Seq(Entries)]
  BY DEF OneEntryInv, TypeOK
<1>2. /\ queue'[t] = q /\ next'[t] = n
      /\ \A u \in Threads : u # t => queue'[u] = queue[u] /\ next'[u] = next[u]
  BY <1>1
<1> SUFFICES ASSUME NEW u \in Threads
             PROVE  AllFit(queue'[u], period, age) /\ AllFit(next'[u], period, age)
  OBVIOUS
<1> QED
  BY <1>2 DEF PeriodInv

\* The queues of worker t change with the counters of an object of its.
LEMMA FitOneStep ==
  ASSUME OneEntryInv, PeriodInv, NEW t \in Threads, NEW q, NEW n,
         queue' = [queue EXCEPT ![t] = q], next' = [next EXCEPT ![t] = n],
         NEW o \in Objects, Shard[o] = t, NEW k \in Nat, NEW m \in Nat,
         period' = [period EXCEPT ![o] = k], age' = [age EXCEPT ![o] = m],
         AllFit(q, [period EXCEPT ![o] = k], [age EXCEPT ![o] = m]),
         AllFit(n, [period EXCEPT ![o] = k], [age EXCEPT ![o] = m])
  PROVE  \A u \in Threads : AllFit(queue'[u], period', age') /\ AllFit(next'[u], period', age')
<1>1. /\ queue \in [Threads -> Seq(Entries)] /\ next \in [Threads -> Seq(Entries)]
      /\ period \in [Objects -> Nat] /\ age \in [Objects -> Nat]
  BY DEF OneEntryInv, TypeOK
<1>2. /\ queue'[t] = q /\ next'[t] = n
      /\ \A u \in Threads : u # t => queue'[u] = queue[u] /\ next'[u] = next[u]
  BY <1>1
<1> SUFFICES ASSUME NEW u \in Threads, NEW p, p = [period EXCEPT ![o] = k],
                    NEW a, a = [age EXCEPT ![o] = m]
             PROVE  AllFit(queue'[u], p, a) /\ AllFit(next'[u], p, a)
  OBVIOUS
<1>3. CASE u = t
  BY <1>2, <1>3
<1>4. CASE u # t
  <2>1. Positions(queue[u], o) = {} /\ Positions(next[u], o) = {}
    BY <1>4, NotElsewhere DEF OneEntryInv
  <2>2. AllFit(queue[u], period, age) /\ AllFit(next[u], period, age)
    BY DEF PeriodInv
  <2>3. queue[u] \in Seq(Entries) /\ next[u] \in Seq(Entries)
    BY <1>1
  <2>4. AllFit(queue[u], p, a)
    BY <1>1, <2>1, <2>2, <2>3, FitOther
  <2>5. AllFit(next[u], p, a)
    BY <1>1, <2>1, <2>2, <2>3, FitOther
  <2> QED
    BY <1>2, <1>4, <2>4, <2>5
<1> QED
  BY <1>3, <1>4

LEMMA FitCountStep ==
  ASSUME OneEntryInv, PeriodInv, NEW t \in Threads, NEW q, NEW n,
         queue' = [queue EXCEPT ![t] = q], next' = [next EXCEPT ![t] = n],
         NEW o \in Objects, Shard[o] = t, NEW m \in Nat,
         period' = period, age' = [age EXCEPT ![o] = m],
         AllFit(q, period, [age EXCEPT ![o] = m]), AllFit(n, period, [age EXCEPT ![o] = m])
  PROVE  \A u \in Threads : AllFit(queue'[u], period', age') /\ AllFit(next'[u], period', age')
<1>1. period \in [Objects -> Nat]
  BY DEF OneEntryInv, TypeOK
<1> SUFFICES ASSUME NEW k \in Nat, k = period[o], [period EXCEPT ![o] = k] = period
             PROVE  \A u \in Threads : AllFit(queue'[u], period', age') /\ AllFit(next'[u], period', age')
  BY <1>1
<1>2. period' = [period EXCEPT ![o] = k]
  OBVIOUS
<1>3. /\ AllFit(q, [period EXCEPT ![o] = k], [age EXCEPT ![o] = m])
      /\ AllFit(n, [period EXCEPT ![o] = k], [age EXCEPT ![o] = m])
  OBVIOUS
<1> QED
  BY <1>2, <1>3, FitOneStep

\* The counter of an entry that is not due, and of one that is.
LEMMA CountFits ==
  ASSUME NEW e \in Entries, e.ob \in Objects, NEW p \in [Objects -> Nat], NEW a \in [Objects -> Nat],
         Fits(e, p, a), NEW left, left = ToShort(e.ticks - 1)
  PROVE  /\ left > 0 => Fits([e EXCEPT !.ticks = left], p, [a EXCEPT ![e.ob] = @ + 1])
         /\ left <= 0 => /\ Fits([e EXCEPT !.ticks = e.time], p, [a EXCEPT ![e.ob] = 0])
                         /\ p[e.ob] <= ShortMax => a[e.ob] + 1 = p[e.ob]
<1>1. /\ e.ob # Null /\ e.ticks \in Int /\ e.time = ToShort(p[e.ob])
      /\ p[e.ob] \in Nat /\ a[e.ob] \in Nat
  BY HeartbeatAssumption DEF Entries, Fits
<1>2. p[e.ob] <= ShortMax => /\ e.ticks > 0 /\ a[e.ob] + e.ticks = p[e.ob]
                             /\ e.time = p[e.ob] /\ left = e.ticks - 1
  <2> SUFFICES ASSUME p[e.ob] <= ShortMax
               PROVE  /\ e.ticks > 0 /\ a[e.ob] + e.ticks = p[e.ob]
                      /\ e.time = p[e.ob] /\ left = e.ticks - 1
    OBVIOUS
  <2>1. e.ticks > 0 /\ a[e.ob] + e.ticks = p[e.ob]
    BY <1>1 DEF Fits
  <2>2. e.time = p[e.ob]
    BY <1>1, ShortIs
  <2>3. e.ticks - 1 \in Int /\ -1 < e.ticks - 1 /\ e.ticks - 1 <= ShortMax
    BY <1>1, <2>1 DEF ShortMax
  <2> QED
    BY <2>1, <2>2, <2>3, ShortIs
<1>3. /\ [a EXCEPT ![e.ob] = @ + 1][e.ob] = a[e.ob] + 1
      /\ [a EXCEPT ![e.ob] = 0][e.ob] = 0
  OBVIOUS
<1>4. ASSUME NEW m PROVE LET x == [e EXCEPT !.ticks = m] IN x.ob = e.ob /\ x.time = e.time /\ x.ticks = m
  BY DEF Entries
<1>5. ASSUME left > 0 PROVE Fits([e EXCEPT !.ticks = left], p, [a EXCEPT ![e.ob] = @ + 1])
  <2> SUFFICES ASSUME NEW x, x.ob = e.ob, x.time = e.time, x.ticks = left,
                      NEW b, b[e.ob] = a[e.ob] + 1
               PROVE  Fits(x, p, b)
    BY <1>3, <1>4
  <2>1. p[e.ob] <= ShortMax => left > 0 /\ a[e.ob] + 1 + left = p[e.ob]
    BY <1>1, <1>2, <1>5
  <2> QED
    BY <1>1, <2>1 DEF Fits
<1>6. ASSUME left <= 0 PROVE /\ Fits([e EXCEPT !.ticks = e.time], p, [a EXCEPT ![e.ob] = 0])
                             /\ p[e.ob] <= ShortMax => a[e.ob] + 1 = p[e.ob]
  <2> SUFFICES ASSUME NEW x, x.ob = e.ob, x.time = e.time, x.ticks = e.time,
                      NEW b, b[e.ob] = 0
               PROVE  Fits(x, p, b) /\ (p[e.ob] <= ShortMax => a[e.ob] + 1 = p[e.ob])
    <3>1. LET x == [e EXCEPT !.ticks = e.time] IN x.ob = e.ob /\ x.time = e.time /\ x.ticks = e.time
      BY <1>4
    <3> QED
      BY <1>3, <3>1
  <2>1. p[e.ob] <= ShortMax => a[e.ob] + 1 = p[e.ob] /\ e.time > 0 /\ e.time = p[e.ob]
    BY <1>1, <1>2, <1>6
  <2> QED
    BY <1>1, <2>1 DEF Fits
<1> QED
  BY <1>1, <1>5, <1>6, ShortType

LEMMA PeriodWorker ==
  ASSUME OneEntryInv, PeriodInv, NEW t \in Threads, WorkerStep(t)
  PROVE  PeriodInv'
<1>1. /\ queue \in [Threads -> Seq(Entries)] /\ next \in [Threads -> Seq(Entries)]
      /\ queue[t] \in Seq(Entries) /\ next[t] \in Seq(Entries)
      /\ period \in [Objects -> Nat] /\ age \in [Objects -> Nat] /\ TypeOK
  BY DEF OneEntryInv, TypeOK
<1>2. /\ AllFit(queue[t], period, age) /\ AllFit(next[t], period, age)
      /\ Unique(queue[t], next[t], t)
  BY DEF PeriodInv, OneEntryInv, QueuesUnique
<1>3. queue = [queue EXCEPT ![t] = queue[t]] /\ next = [next EXCEPT ![t] = next[t]]
  BY <1>1
<1>4. ASSUME UNCHANGED inbox
      PROVE  \A u \in Threads : \A i \in DOMAIN inbox'[u] :
               inbox'[u][i].op = "modify" => inbox'[u][i].interval > 0
  BY <1>4 DEF PeriodInv
<1>5. CASE RemoveHeartbeat(t)
  <2>1. Head(inbox[t]) \in QueueTasks /\ Head(inbox[t]).op = "remove"
    BY <1>1, <1>5, TaskType DEF RemoveHeartbeat
  <2>2. Head(inbox[t]).ob \in Objects
    BY <2>1 DEF QueueTasks
  <2>3. /\ AllFit(Forget(queue[t], Head(inbox[t]).ob), period, age)
        /\ AllFit(Forget(next[t], Head(inbox[t]).ob), period, age)
    BY <1>1, <1>2, <2>2, FitForget
  <2>4. /\ queue' = [queue EXCEPT ![t] = Forget(queue[t], Head(inbox[t]).ob)]
        /\ next' = [next EXCEPT ![t] = Forget(next[t], Head(inbox[t]).ob)]
        /\ UNCHANGED <<period, age>> /\ NextTask(t, "remove")
    BY <1>5 DEF RemoveHeartbeat
  <2> QED
    BY <2>3, <2>4, FitStep, IntervalsStep DEF PeriodInv
<1>6. CASE ModifyHeartbeat(t)
  <2>1. Head(inbox[t]) \in QueueTasks /\ Head(inbox[t]).op = "modify" /\ NextTask(t, "modify")
    BY <1>1, <1>6, TaskType DEF ModifyHeartbeat
  <2>2. Head(inbox[t]).ob \in Objects /\ Head(inbox[t]).interval \in Nat
    BY <2>1 DEF QueueTasks
  <2>3. Shard[Head(inbox[t]).ob] = t /\ Head(inbox[t]).interval > 0
    BY <2>1, InboxTake, IntervalsStep DEF OneEntryInv
  <2> SUFFICES ASSUME NEW o \in Objects, o = Head(inbox[t]).ob,
                      NEW k \in Nat, k = Head(inbox[t]).interval,
                      NEW n, n = ToShort(k)
               PROVE  PeriodInv'
    BY <2>2
  <2>4. /\ queue' = IF Positions(queue[t], o) # {}
                    THEN [queue EXCEPT ![t] = Rearm(queue[t], o, n)] ELSE queue
        /\ next' = IF Positions(queue[t], o) # {} THEN next
                   ELSE IF Positions(next[t], o) # {}
                   THEN [next EXCEPT ![t] = Rearm(next[t], o, n)]
                   ELSE [next EXCEPT ![t] = Append(next[t], [ob |-> o, ticks |-> n, time |-> n])]
        /\ age' = [age EXCEPT ![o] = 0] /\ period' = [period EXCEPT ![o] = k]
    BY <1>6 DEF ModifyHeartbeat
  <2> SUFFICES ASSUME NEW p, p = [period EXCEPT ![o] = k], NEW a, a = [age EXCEPT ![o] = 0]
               PROVE  \A u \in Threads : AllFit(queue'[u], period', age') /\ AllFit(next'[u], period', age')
    BY <2>1, IntervalsStep DEF PeriodInv
  <2>5. o # Null /\ Shard[o] = t /\ n \in Int
    BY <2>3, ShortType, HeartbeatAssumption
  <2>6. /\ Positions(queue[t], o) = {} => AllFit(queue[t], p, a)
        /\ Positions(next[t], o) = {} => AllFit(next[t], p, a)
    BY <1>1, <1>2, FitOther
  <2>7. /\ AllFit(Rearm(queue[t], o, n), p, a)
        /\ AllFit(Rearm(next[t], o, n), p, a)
    BY <1>1, <1>2, <2>3, <2>5, FitRearm DEF Unique
  <2>8. CASE Positions(queue[t], o) # {}
    <3>1. Positions(next[t], o) = {}
      BY <1>2, <2>5, <2>8 DEF Unique, Positions
    <3>2. queue' = [queue EXCEPT ![t] = Rearm(queue[t], o, n)] /\ next' = [next EXCEPT ![t] = next[t]]
      BY <1>3, <2>4, <2>8
    <3>3. AllFit(Rearm(queue[t], o, n), p, a) /\ AllFit(next[t], p, a)
      BY <2>6, <2>7, <3>1
    <3> QED
      BY <2>4, <2>5, <3>2, <3>3, FitOneStep
  <2>9. CASE Positions(queue[t], o) = {} /\ Positions(next[t], o) # {}
    <3>1. queue' = [queue EXCEPT ![t] = queue[t]] /\ next' = [next EXCEPT ![t] = Rearm(next[t], o, n)]
      BY <1>3, <2>4, <2>9
    <3>2. AllFit(queue[t], p, a) /\ AllFit(Rearm(next[t], o, n), p, a)
      BY <2>6, <2>7, <2>9
    <3> QED
      BY <2>4, <2>5, <3>1, <3>2, FitOneStep
  <2>10. CASE Positions(queue[t], o) = {} /\ Positions(next[t], o) = {}
    <3> SUFFICES ASSUME NEW e, e = [ob |-> o, ticks |-> n, time |-> n]
                 PROVE  \A u \in Threads : AllFit(queue'[u], period', age') /\ AllFit(next'[u], period', age')
      OBVIOUS
    <3>1. queue' = [queue EXCEPT ![t] = queue[t]] /\ next' = [next EXCEPT ![t] = Append(next[t], e)]
      BY <1>3, <2>4, <2>10
    <3>2. e \in Entries /\ e.ob = o /\ e.ticks = n /\ e.time = n
      BY <2>5 DEF Entries
    <3>3. p[o] = k /\ a[o] = 0 /\ (k <= ShortMax => n = k)
      BY <1>1, ShortIs
    <3>4. Fits(e, p, a)
      BY <2>3, <3>2, <3>3 DEF Fits
    <3>5. AllFit(Append(next[t], e), p, a)
      BY <1>1, <2>6, <2>10, <3>2, <3>4, FitAppend
    <3>6. AllFit(queue[t], p, a)
      BY <2>6, <2>10
    <3> QED
      BY <2>4, <2>5, <3>1, <3>5, <3>6, FitOneStep
  <2> QED
    BY <2>8, <2>9, <2>10
<1>7. CASE BeginRound(t)
  <2>1. /\ queue' = [queue EXCEPT ![t] = queue[t] \o next[t]] /\ next' = [next EXCEPT ![t] = << >>]
        /\ UNCHANGED <<period, age>> /\ NextTask(t, "process")
    BY <1>7 DEF BeginRound
  <2>2. AllFit(queue[t] \o next[t], period, age) /\ AllFit(<< >>, period, age)
    BY <1>1, <1>2, FitMerge
  <2> QED
    BY <2>1, <2>2, FitStep, IntervalsStep DEF PeriodInv
<1>8. CASE DropEntry(t)
  <2>1. queue' = [queue EXCEPT ![t] = Tail(queue[t])] /\ next' = [next EXCEPT ![t] = next[t]]
    BY <1>3, <1>8 DEF DropEntry
  <2>2. AllFit(Tail(queue[t]), period, age) /\ UNCHANGED <<period, age, inbox>>
    BY <1>1, <1>2, <1>8, FitTail DEF DropEntry
  <2> QED
    BY <1>2, <1>4, <2>1, <2>2, FitStep DEF PeriodInv
<1>9. CASE CountEntry(t)
  <2>1. queue[t] # << >> /\ Alive(Head(queue[t]).ob)
    BY <1>9 DEF CountEntry
  <2> SUFFICES ASSUME NEW e \in Entries, e = Head(queue[t]), NEW left, left = ToShort(e.ticks - 1)
               PROVE  PeriodInv'
    BY <1>1, <2>1, HeadTailProperties
  <2>2. e.ob \in Objects /\ e.ob # Null /\ e.ticks \in Int /\ e.time \in Int
    BY <2>1 DEF Alive, Entries
  <2>3. left \in Int
    BY <2>2, ShortType
  <2>4. /\ Fits(e, period, age) /\ AllFit(Tail(queue[t]), period, age) /\ Shard[e.ob] = t
        /\ Positions(Tail(queue[t]), e.ob) = {} /\ Positions(next[t], e.ob) = {}
        /\ Tail(queue[t]) \in Seq(Entries)
    BY <1>1, <1>2, <2>1, <2>2, FitTail, UniqueTail, HeadTailProperties
  <2>5. /\ queue' = [queue EXCEPT ![t] = Tail(queue[t])]
        /\ next' = [next EXCEPT ![t] = Append(next[t], [e EXCEPT !.ticks = IF left <= 0 THEN e.time ELSE left])]
        /\ age' = [age EXCEPT ![e.ob] = IF left <= 0 THEN 0 ELSE age[e.ob] + 1]
        /\ UNCHANGED <<period, inbox>>
    BY <1>9 DEF CountEntry
  <2> SUFFICES ASSUME NEW m \in Nat, m = IF left <= 0 THEN 0 ELSE age[e.ob] + 1,
                      NEW kept, kept = [e EXCEPT !.ticks = IF left <= 0 THEN e.time ELSE left]
               PROVE  PeriodInv'
    <3>1. age[e.ob] \in Nat
      BY <1>1, <2>2
    <3>2. (IF left <= 0 THEN 0 ELSE age[e.ob] + 1) \in Nat
      BY <3>1
    <3> QED
      BY <3>2
  <2>6. kept \in Entries
    BY <2>2, <2>3 DEF Entries
  <2>7. Fits(kept, period, [age EXCEPT ![e.ob] = m])
    <3>1. CASE left > 0
      BY <1>1, <2>2, <2>3, <2>4, <3>1, CountFits
    <3>2. CASE left <= 0
      BY <1>1, <2>2, <2>3, <2>4, <3>2, CountFits
    <3> QED
      BY <2>3, <3>1, <3>2
  <2>9. /\ AllFit(Tail(queue[t]), period, [age EXCEPT ![e.ob] = m])
        /\ AllFit(next[t], period, [age EXCEPT ![e.ob] = m])
    BY <1>1, <1>2, <2>2, <2>4, FitUncounted, FitTail
  <2>10. AllFit(Append(next[t], kept), period, [age EXCEPT ![e.ob] = m])
    BY <1>1, <2>6, <2>7, <2>9, FitAppend
  <2>11. \A u \in Threads : AllFit(queue'[u], period', age') /\ AllFit(next'[u], period', age')
    BY <2>2, <2>4, <2>5, <2>9, <2>10, FitCountStep
  <2> QED
    BY <1>4, <2>5, <2>11 DEF PeriodInv
<1>10. CASE BeginBeat(t) \/ EndBeat(t) \/ EndRound(t)
  BY <1>10 DEF BeginBeat, EndBeat, EndRound, PeriodInv
<1> QED
  BY <1>5, <1>6, <1>7, <1>8, <1>9, <1>10 DEF WorkerStep

\* A change is posted with the interval it was called with, which is not 0.
LEMMA PeriodPosted ==
  ASSUME OneEntryInv, PeriodInv, NEW a \in Actors, PostChange(a)
  PROVE  PeriodInv'
<1>1. inbox \in [Threads -> Seq(QueueTasks)] /\ call[a] \in SetCalls \cup {NoCall}
  BY DEF OneEntryInv, TypeOK
<1>2. call[a] \in SetCalls
  BY <1>1 DEF PostChange, NoCall
<1> SUFFICES ASSUME NEW o \in Objects, o = call[a].ob, NEW k \in Nat, k = call[a].to,
                    NEW x, x = IF k = 0 THEN [op |-> "remove", ob |-> o]
                               ELSE [op |-> "modify", ob |-> o, interval |-> k]
             PROVE  PeriodInv'
  BY <1>2 DEF SetCalls
<1>3. inbox' = [inbox EXCEPT ![Shard[o]] = Append(inbox[Shard[o]], x)] /\ UNCHANGED workerVars
  BY DEF PostChange, Post
<1>4. x.op = "modify" => x.interval > 0
  OBVIOUS
<1>5. \A u \in Threads : \A i \in DOMAIN inbox[u] : inbox[u][i].op = "modify" => inbox[u][i].interval > 0
  BY DEF PeriodInv
<1>6. ASSUME NEW u \in Threads, NEW i \in DOMAIN inbox'[u], inbox'[u][i].op = "modify"
      PROVE  inbox'[u][i].interval > 0
  <2>1. CASE u = Shard[o]
    <3>1. inbox'[u] = Append(inbox[u], x) /\ inbox[u] \in Seq(QueueTasks)
      BY <1>1, <1>3, <2>1
    <3>2. (i \in DOMAIN inbox[u] /\ inbox'[u][i] = inbox[u][i]) \/ inbox'[u][i] = x
      BY <3>1, <1>6
    <3> QED
      BY <1>4, <1>5, <1>6, <3>2
  <2>2. CASE u # Shard[o]
    <3>1. inbox'[u] = inbox[u]
      BY <1>1, <1>3, <2>2
    <3> QED
      BY <1>5, <1>6, <3>1
  <2> QED
    BY <2>1, <2>2
<1> QED
  BY <1>3, <1>6 DEF workerVars, PeriodInv

\* The main thread starts a round.
LEMMA PeriodSignal == ASSUME OneEntryInv, PeriodInv, Signal PROVE PeriodInv'
<1>1. inbox \in [Threads -> Seq(QueueTasks)]
  BY DEF OneEntryInv, TypeOK
<1>2. inbox' = [inbox EXCEPT ![round] = Append(inbox[round], [op |-> "process"])] /\ UNCHANGED workerVars
  BY DEF Signal, Post
<1>3. ASSUME NEW u \in Threads, NEW i \in DOMAIN inbox'[u], inbox'[u][i].op = "modify"
      PROVE  inbox'[u][i].interval > 0
  <2>1. CASE u = round
    <3>1. inbox'[u] = Append(inbox[u], [op |-> "process"]) /\ inbox[u] \in Seq(QueueTasks)
      BY <1>1, <1>2, <2>1
    <3>2. (i \in DOMAIN inbox[u] /\ inbox'[u][i] = inbox[u][i]) \/ inbox'[u][i] = [op |-> "process"]
      BY <3>1, <1>3
    <3> QED
      BY <1>3, <3>2 DEF PeriodInv
  <2>2. CASE u # round
    <3>1. inbox'[u] = inbox[u]
      BY <1>1, <1>2, <2>2
    <3> QED
      BY <1>3, <3>1 DEF PeriodInv
  <2> QED
    BY <2>1, <2>2
<1> QED
  BY <1>2, <1>3 DEF workerVars, PeriodInv

LEMMA PeriodStep == OneEntryInv /\ PeriodInv /\ [Next]_vars => PeriodInv'
<1> SUFFICES ASSUME OneEntryInv, PeriodInv, [Next]_vars PROVE PeriodInv'
  OBVIOUS
<1>1. ASSUME UNCHANGED <<workerVars, inbox>> PROVE PeriodInv'
  BY <1>1 DEF workerVars, PeriodInv
<1>2. ASSUME NEW a \in Actors, CallStep(a) PROVE PeriodInv'
  BY <1>1, <1>2, PeriodPosted DEF CallStep, SetFlag, MarkDestructed
<1>3. ASSUME NEW a \in Setters, NewCall(a) PROVE PeriodInv'
  BY <1>1, <1>3 DEF NewCall, SetHeartBeat, DestructObject
<1>4. CASE MainStep \/ CallHeartBeat
  BY <1>1, <1>4, PeriodSignal DEF MainStep, RunBounced, BouncedDone, OpenGate, CallHeartBeat
<1>5. ASSUME NEW t \in Threads, WorkerStep(t) PROVE PeriodInv'
  BY <1>5, PeriodWorker
<1>6. ASSUME NEW t \in Threads, NEW o \in Shared, BounceBeat(t, o) PROVE PeriodInv'
  BY <1>6 DEF BounceBeat, PeriodInv
<1>7. CASE UNCHANGED vars
  BY <1>1, <1>7 DEF vars
<1> QED
  BY <1>2, <1>3, <1>4, <1>5, <1>6, <1>7 DEF Next

LEMMA PeriodInit == Init => PeriodInv
<1>1. Init => \A t \in Threads : DOMAIN inbox[t] = {} /\ DOMAIN queue[t] = {} /\ DOMAIN next[t] = {}
  BY DEF Init
<1> QED
  BY <1>1 DEF PeriodInv, AllFit

\* Only the scan makes an entry due.
LEMMA DueByCount ==
  ASSUME OneEntryInv, [Next]_vars, NEW t \in Threads, work[t].pc = "scan", work'[t].pc = "due"
  PROVE  CountEntry(t)
<1>1. work \in [Threads -> Works] /\ work'[t] # work[t]
  BY DEF OneEntryInv, TypeOK
<1>2. ASSUME UNCHANGED work PROVE FALSE
  BY <1>1, <1>2
<1>3. ~(\E a \in Actors : CallStep(a))
  BY <1>2 DEF CallStep, SetFlag, PostChange, MarkDestructed, workerVars
<1>4. ~(\E a \in Setters : NewCall(a))
  BY <1>2 DEF NewCall, SetHeartBeat, DestructObject, workerVars
<1>5. ~MainStep /\ ~CallHeartBeat
  BY <1>2 DEF MainStep, Signal, RunBounced, BouncedDone, OpenGate, CallHeartBeat, workerVars
<1>6. ~(UNCHANGED vars)
  BY <1>2 DEF vars, workerVars
<1>7. PICK u \in Threads : WorkerStep(u) \/ \E o \in Shared : BounceBeat(u, o)
  BY <1>3, <1>4, <1>5, <1>6 DEF Next
<1>8. u = t
  <2> SUFFICES ASSUME u # t PROVE FALSE
    OBVIOUS
  <2>1. ~RemoveHeartbeat(u) /\ ~ModifyHeartbeat(u) /\ ~DropEntry(u)
    BY <1>2 DEF RemoveHeartbeat, ModifyHeartbeat, DropEntry
  <2>2. ~BeginRound(u) /\ ~CountEntry(u) /\ ~BeginBeat(u) /\ ~EndBeat(u) /\ ~EndRound(u)
    BY <1>1 DEF BeginRound, CountEntry, BeginBeat, EndBeat, EndRound
  <2>3. \A o \in Shared : ~BounceBeat(u, o)
    BY <1>1 DEF BounceBeat
  <2> QED
    BY <1>7, <2>1, <2>2, <2>3 DEF WorkerStep
<1>9. ~RemoveHeartbeat(t) /\ ~ModifyHeartbeat(t) /\ ~DropEntry(t)
  BY <1>2 DEF RemoveHeartbeat, ModifyHeartbeat, DropEntry
<1>10. ~BeginRound(t) /\ ~BeginBeat(t) /\ ~EndBeat(t)
  BY DEF BeginRound, NextTask, BeginBeat, EndBeat
<1>11. ~EndRound(t)
  BY <1>1 DEF EndRound, Idle
<1>12. \A o \in Shared : ~BounceBeat(t, o)
  BY DEF BounceBeat
<1> QED
  BY <1>7, <1>8, <1>9, <1>10, <1>11, <1>12 DEF WorkerStep

\* An entry comes due exactly when as many rounds were counted as were asked for,
\* if the interval fits a short; with any threads switching heart beats.
THEOREM PeriodKept == Spec => BeatPeriod
<1>1. Init => PeriodInv
  BY PeriodInit
<1>2. OneEntryInv /\ PeriodInv /\ [Next]_vars =>
        \A t \in Threads :
          work[t].pc = "scan" /\ work'[t].pc = "due" =>
            LET o == work'[t].ob IN period[o] <= ShortMax => age[o] + 1 = period[o]
  <2> SUFFICES ASSUME OneEntryInv, PeriodInv, [Next]_vars, NEW t \in Threads,
                      work[t].pc = "scan", work'[t].pc = "due", period[work'[t].ob] <= ShortMax
               PROVE  age[work'[t].ob] + 1 = period[work'[t].ob]
    OBVIOUS
  <2>1. CountEntry(t)
    BY DueByCount
  <2>2. /\ queue[t] \in Seq(Entries) /\ queue[t] # << >> /\ work \in [Threads -> Works]
        /\ period \in [Objects -> Nat] /\ age \in [Objects -> Nat]
    BY <2>1 DEF OneEntryInv, TypeOK, CountEntry
  <2> SUFFICES ASSUME NEW e \in Entries, e = Head(queue[t]), NEW left, left = ToShort(e.ticks - 1)
               PROVE  age[work'[t].ob] + 1 = period[work'[t].ob]
    BY <2>2, HeadTailProperties
  <2>3. e.ob \in Objects /\ Fits(e, period, age)
    BY <2>1, <2>2, FitTail DEF CountEntry, Alive, Entries, PeriodInv
  <2>4. work' = [work EXCEPT ![t] = IF left <= 0 /\ e.ob \in HasBeat /\ gate
                                    THEN [pc |-> "due", ob |-> e.ob] ELSE work[t]]
    BY <2>1 DEF CountEntry
  <2>5. left <= 0 /\ work'[t].ob = e.ob
    BY <2>2, <2>4
  <2> QED
    BY <2>2, <2>3, <2>5, CountFits
<1> QED
  BY <1>1, <1>2, OneEntryInit, OneEntryStep, PeriodStep, PTL DEF Spec, BeatPeriod

-----------------------------------------------------------------------------
(* The queues follow the flag when heart beats are switched on the main    *)
(* thread only.                                                            *)

SettersOnMain == Setters = {Main}

Present(o) == Positions(queue[Shard[o]], o) # {} \/ Positions(next[Shard[o]], o) # {}

\* The tasks of q that concern o, and the kind of the last one.
Changes(q, o) == {i \in DOMAIN q : q[i].op # "process" /\ q[i].ob = o}
LastIs(q, o, op) == \E i \in Changes(q, o) : q[i].op = op /\ \A j \in Changes(q, o) : j <= i

\* The last change on its way agrees with the flag, or else the queues do.
Follows(o) ==
  IF Changes(inbox[Shard[o]], o) = {} THEN flag[o] <=> Present(o)
  ELSE LastIs(inbox[Shard[o]], o, IF flag[o] THEN "modify" ELSE "remove")

\* What the main thread has established inside set_heart_beat() or destruct().
CallInv ==
  /\ \A t \in Threads : call[t] = NoCall
  /\ call[Main] # NoCall =>
       /\ ~destructed[call[Main].ob]
       /\ call[Main].step # "flag" => (flag[call[Main].ob] <=> (call[Main].to # 0))
       /\ call[Main].kill => call[Main].to = 0
       /\ call[Main].step = "mark" => call[Main].kill
  /\ \A o \in Objects : destructed[o] => ~flag[o]

FollowInv ==
  /\ CallInv
  /\ \A o \in Objects : (call[Main].step = "post" => call[Main].ob # o) => Follows(o)

LEMMA ChangesTail ==
  ASSUME NEW q \in Seq(QueueTasks), q # << >>, NEW o
  PROVE  /\ Changes(Tail(q), o) # {} =>
              Changes(q, o) # {} /\ (\A op : LastIs(q, o, op) => LastIs(Tail(q), o, op))
         /\ Changes(Tail(q), o) = {} =>
              Changes(q, o) = IF Head(q).op # "process" /\ Head(q).ob = o THEN {1} ELSE {}
<1>1. PICK n \in Nat : DOMAIN q = 1 .. n /\ n > 0 /\ DOMAIN Tail(q) = 1 .. (n - 1)
  OBVIOUS
<1>2. (\A i \in 1 .. (n - 1) : Tail(q)[i] = q[i + 1]) /\ Head(q) = q[1]
  BY <1>1
<1>3. \A i \in 1 .. (n - 1) : i \in Changes(Tail(q), o) <=> i + 1 \in Changes(q, o)
  BY <1>1, <1>2 DEF Changes
<1>4. \A i \in Changes(q, o) : i = 1 \/ (i - 1 \in 1 .. (n - 1) /\ i - 1 \in Changes(Tail(q), o))
  <2> SUFFICES ASSUME NEW i \in Changes(q, o), i # 1
               PROVE  i - 1 \in 1 .. (n - 1) /\ i - 1 \in Changes(Tail(q), o)
    OBVIOUS
  <2>1. i \in 1 .. n
    BY <1>1 DEF Changes
  <2>2. i - 1 \in 1 .. (n - 1) /\ (i - 1) + 1 = i
    BY <2>1
  <2> QED
    BY <1>3, <2>2
<1>5. Changes(Tail(q), o) \subseteq 1 .. (n - 1) /\ Changes(q, o) \subseteq 1 .. n
  BY <1>1 DEF Changes
<1>6. ASSUME Changes(Tail(q), o) # {} PROVE Changes(q, o) # {}
  BY <1>3, <1>5, <1>6
<1>7. ASSUME Changes(Tail(q), o) # {}, NEW op, LastIs(q, o, op) PROVE LastIs(Tail(q), o, op)
  <2>1. PICK i \in Changes(q, o) : q[i].op = op /\ \A j \in Changes(q, o) : j <= i
    BY <1>7 DEF LastIs
  <2>2. PICK k \in Changes(Tail(q), o) : TRUE
    BY <1>7
  <2>3. i # 1
    BY <1>3, <1>5, <2>1, <2>2
  <2>4. i - 1 \in 1 .. (n - 1) /\ i - 1 \in Changes(Tail(q), o)
    BY <1>4, <2>3
  <2>5. Tail(q)[i - 1] = q[i]
    <3>1. i \in Nat /\ (i - 1) + 1 = i
      BY <1>5, <2>1
    <3> QED
      BY <1>2, <2>4, <3>1
  <2>6. \A j \in Changes(Tail(q), o) : j <= i - 1
    BY <1>3, <1>5, <2>1
  <2> QED
    BY <2>1, <2>4, <2>5, <2>6 DEF LastIs
<1>8. ASSUME Changes(Tail(q), o) = {}
      PROVE  Changes(q, o) = IF Head(q).op # "process" /\ Head(q).ob = o THEN {1} ELSE {}
  <2>1. Changes(q, o) \subseteq {1}
    BY <1>4, <1>8
  <2>2. 1 \in Changes(q, o) <=> (Head(q).op # "process" /\ Head(q).ob = o)
    BY <1>1, <1>2 DEF Changes
  <2> QED
    BY <2>1, <2>2
<1> QED
  BY <1>6, <1>7, <1>8

LEMMA ChangesAppend ==
  ASSUME NEW q \in Seq(QueueTasks), NEW x, NEW o
  PROVE  /\ x.op = "process" \/ x.ob # o =>
              /\ Changes(Append(q, x), o) = Changes(q, o)
              /\ \A op : LastIs(q, o, op) => LastIs(Append(q, x), o, op)
         /\ x.op # "process" /\ x.ob = o => Changes(Append(q, x), o) # {} /\ LastIs(Append(q, x), o, x.op)
<1>1. PICK n \in Nat : DOMAIN q = 1 .. n /\ DOMAIN Append(q, x) = 1 .. (n + 1)
  OBVIOUS
<1>2. Append(q, x)[n + 1] = x /\ \A i \in 1 .. n : Append(q, x)[i] = q[i]
  BY <1>1
<1>3. Changes(q, o) \subseteq 1 .. n /\ Changes(Append(q, x), o) \subseteq 1 .. (n + 1)
  BY <1>1 DEF Changes
<1>4. \A i \in 1 .. n : i \in Changes(Append(q, x), o) <=> i \in Changes(q, o)
  BY <1>1, <1>2 DEF Changes
<1>5. n + 1 \in Changes(Append(q, x), o) <=> (x.op # "process" /\ x.ob = o)
  BY <1>1, <1>2 DEF Changes
<1>6. n + 1 \notin Changes(q, o) /\ \A i \in 1 .. (n + 1) : i \in 1 .. n \/ i = n + 1
  BY <1>3
<1>7. ASSUME x.op = "process" \/ x.ob # o
      PROVE  /\ Changes(Append(q, x), o) = Changes(q, o)
             /\ \A op : LastIs(q, o, op) => LastIs(Append(q, x), o, op)
  <2>1. Changes(Append(q, x), o) = Changes(q, o)
    BY <1>3, <1>4, <1>5, <1>6, <1>7
  <2> QED
    BY <1>2, <1>3, <2>1 DEF LastIs
<1>8. ASSUME x.op # "process", x.ob = o
      PROVE  Changes(Append(q, x), o) # {} /\ LastIs(Append(q, x), o, x.op)
  <2>1. n + 1 \in Changes(Append(q, x), o)
    BY <1>5, <1>8
  <2>2. \A j \in Changes(Append(q, x), o) : j <= n + 1
    BY <1>3
  <2> QED
    BY <1>2, <2>1, <2>2 DEF LastIs
<1> QED
  BY <1>7, <1>8

LEMMA ForgetPositions ==
  ASSUME NEW q \in Seq(Entries), NEW o, NEW p \in Objects
  PROVE  /\ p = o => Positions(Forget(q, o), p) = {}
         /\ p # o => Positions(Forget(q, o), p) = Positions(q, p)
<1>1. DOMAIN Forget(q, o) = DOMAIN q /\ p # Null
  BY HeartbeatAssumption DEF Forget
<1>2. \A i \in DOMAIN q : Forget(q, o)[i].ob = IF q[i].ob = o THEN Null ELSE q[i].ob
  BY ForgetType
<1> QED
  BY <1>1, <1>2 DEF Positions

LEMMA RearmPositions ==
  ASSUME NEW q \in Seq(Entries), NEW o \in Objects, NEW n \in Int, NEW p
  PROVE  Positions(Rearm(q, o, n), p) = Positions(q, p)
<1>1. DOMAIN Rearm(q, o, n) = DOMAIN q
  BY DEF Rearm
<1>2. \A i \in DOMAIN q : Rearm(q, o, n)[i].ob = q[i].ob
  BY RearmType
<1> QED
  BY <1>1, <1>2 DEF Positions

LEMMA AppendPositions ==
  ASSUME NEW q \in Seq(Entries), NEW e, NEW p
  PROVE  Positions(Append(q, e), p) # {} <=> (Positions(q, p) # {} \/ e.ob = p)
<1>1. /\ DOMAIN Append(q, e) = DOMAIN q \cup {Len(q) + 1}
      /\ Append(q, e)[Len(q) + 1] = e
      /\ \A i \in DOMAIN q : Append(q, e)[i] = q[i]
  OBVIOUS
<1> QED
  BY <1>1 DEF Positions

LEMMA TailPositions ==
  ASSUME NEW q \in Seq(Entries), q # << >>, NEW p
  PROVE  Positions(q, p) # {} <=> (Positions(Tail(q), p) # {} \/ Head(q).ob = p)
<1>1. PICK n \in Nat : DOMAIN q = 1 .. n /\ n > 0 /\ DOMAIN Tail(q) = 1 .. (n - 1)
  OBVIOUS
<1>2. (\A i \in 1 .. (n - 1) : i + 1 \in 1 .. n /\ Tail(q)[i] = q[i + 1]) /\ Head(q) = q[1]
  BY <1>1
<1>3. \A i \in 1 .. n : i = 1 \/ (i - 1 \in 1 .. (n - 1) /\ Tail(q)[i - 1] = q[i])
  BY <1>1
<1>4. ASSUME Positions(q, p) # {} PROVE Positions(Tail(q), p) # {} \/ Head(q).ob = p
  <2>1. PICK i \in 1 .. n : q[i].ob = p
    BY <1>1, <1>4 DEF Positions
  <2>2. CASE i = 1
    BY <1>2, <2>1, <2>2
  <2>3. CASE i - 1 \in 1 .. (n - 1) /\ Tail(q)[i - 1] = q[i]
    BY <1>1, <2>1, <2>3 DEF Positions
  <2> QED
    BY <1>3, <2>2, <2>3
<1>5. ASSUME Positions(Tail(q), p) # {} \/ Head(q).ob = p PROVE Positions(q, p) # {}
  BY <1>1, <1>2, <1>5 DEF Positions
<1> QED
  BY <1>4, <1>5

LEMMA MergePositions ==
  ASSUME NEW q \in Seq(Entries), NEW r \in Seq(Entries), NEW p
  PROVE  Positions(q \o r, p) # {} <=> (Positions(q, p) # {} \/ Positions(r, p) # {})
<1>1. PICK n \in Nat, m \in Nat :
        /\ DOMAIN q = 1 .. n /\ DOMAIN r = 1 .. m /\ DOMAIN (q \o r) = 1 .. (n + m)
        /\ \A i \in 1 .. (n + m) : (q \o r)[i] = IF i <= n THEN q[i] ELSE r[i - n]
  <2>1. /\ Len(q) \in Nat /\ Len(r) \in Nat /\ DOMAIN q = 1 .. Len(q) /\ DOMAIN r = 1 .. Len(r)
        /\ DOMAIN (q \o r) = 1 .. (Len(q) + Len(r))
        /\ \A i \in 1 .. (Len(q) + Len(r)) : (q \o r)[i] = IF i <= Len(q) THEN q[i] ELSE r[i - Len(q)]
    BY ConcatProperties
  <2> QED
    BY <2>1
<1>2. \A i \in 1 .. n : i \in 1 .. (n + m) /\ (q \o r)[i] = q[i]
  BY <1>1
<1>3. \A i \in 1 .. m : i + n \in 1 .. (n + m) /\ (q \o r)[i + n] = r[i]
  BY <1>1
<1>4. \A i \in 1 .. (n + m) : \/ i \in 1 .. n
                              \/ i - n \in 1 .. m /\ (q \o r)[i] = r[i - n]
  BY <1>1
<1>5. ASSUME Positions(q \o r, p) # {} PROVE Positions(q, p) # {} \/ Positions(r, p) # {}
  <2>1. PICK i \in 1 .. (n + m) : (q \o r)[i].ob = p
    BY <1>1, <1>5 DEF Positions
  <2>2. CASE i \in 1 .. n
    BY <1>1, <1>2, <2>1, <2>2 DEF Positions
  <2>3. CASE i - n \in 1 .. m /\ (q \o r)[i] = r[i - n]
    BY <1>1, <2>1, <2>3 DEF Positions
  <2> QED
    BY <1>4, <2>2, <2>3
<1>6. ASSUME Positions(q, p) # {} PROVE Positions(q \o r, p) # {}
  BY <1>1, <1>2, <1>6 DEF Positions
<1>7. ASSUME Positions(r, p) # {} PROVE Positions(q \o r, p) # {}
  <2>1. PICK i \in 1 .. m : r[i].ob = p
    BY <1>1, <1>7 DEF Positions
  <2>2. i + n \in DOMAIN (q \o r) /\ (q \o r)[i + n].ob = p
    BY <1>1, <1>3, <2>1
  <2> QED
    BY <2>2 DEF Positions
<1> QED
  BY <1>5, <1>6, <1>7

\* A step of worker t, seen from the objects it owns.
LEMMA FollowLocal ==
  ASSUME OneEntryInv, FollowInv, NEW t \in Threads, UNCHANGED lpcVars,
         \A u \in Threads : u # t => /\ inbox'[u] = inbox[u]
                                     /\ queue'[u] = queue[u] /\ next'[u] = next[u],
         \A o \in Objects : Shard[o] = t /\ Follows(o) => Follows(o)'
  PROVE  FollowInv'
<1>1. CallInv'
  BY DEF FollowInv, CallInv, lpcVars
<1>2. ASSUME NEW o \in Objects, call'[Main].step = "post" => call'[Main].ob # o PROVE Follows(o)'
  <2>1. Follows(o) /\ Shard[o] \in Threads /\ UNCHANGED flag
    BY <1>2, HeartbeatAssumption DEF FollowInv, lpcVars
  <2>2. CASE Shard[o] = t
    BY <2>1, <2>2
  <2>3. CASE Shard[o] # t
    BY <2>1, <2>3 DEF Follows, Present
  <2> QED
    BY <2>2, <2>3
<1> QED
  BY <1>1, <1>2 DEF FollowInv

\* Worker t takes a task: what it does for the object of the task fits it, and
\* it leaves the entries of other objects alone.
LEMMA FollowTask ==
  ASSUME OneEntryInv, NEW t \in Threads, NEW op, NextTask(t, op), UNCHANGED flag,
         NEW o \in Objects, Shard[o] = t, Follows(o),
         op = "process" \/ op = "modify" \/ op = "remove",
         op # "process" /\ Head(inbox[t]).ob = o => (Present(o)' <=> op = "modify"),
         op = "process" \/ Head(inbox[t]).ob # o => (Present(o)' <=> Present(o))
  PROVE  Follows(o)'
<1>1. inbox \in [Threads -> Seq(QueueTasks)] /\ flag \in [Objects -> BOOLEAN]
  BY DEF OneEntryInv, TypeOK
<1>2. inbox[t] \in Seq(QueueTasks) /\ inbox[t] # << >> /\ inbox'[t] = Tail(inbox[t])
  BY <1>1 DEF NextTask
<1>3. Head(inbox[t]) = inbox[t][1] /\ Head(inbox[t]).op = op
  BY <1>2 DEF NextTask
<1> SUFFICES ASSUME NEW q \in Seq(QueueTasks), q = inbox[t], NEW r, r = Tail(q)
             PROVE  Follows(o)'
  BY <1>2
<1>4. q # << >> /\ inbox'[Shard[o]] = r /\ inbox[Shard[o]] = q
  BY <1>2
<1>5. CASE Changes(r, o) # {}
  <2>1. Changes(q, o) # {} /\ LastIs(r, o, IF flag[o] THEN "modify" ELSE "remove")
    BY <1>4, <1>5, ChangesTail DEF Follows
  <2> QED
    BY <1>4, <1>5, <2>1 DEF Follows
<1>6. CASE Changes(r, o) = {} /\ op # "process" /\ Head(inbox[t]).ob = o
  <2>1. Changes(q, o) = {1}
    <3>1. Head(q).op # "process" /\ Head(q).ob = o
      BY <1>3, <1>6
    <3> QED
      BY <1>4, <1>6, <3>1, ChangesTail
  <2>2. LastIs(q, o, IF flag[o] THEN "modify" ELSE "remove")
    BY <1>4, <2>1 DEF Follows
  <2>3. op = IF flag[o] THEN "modify" ELSE "remove"
    BY <1>3, <2>1, <2>2 DEF LastIs
  <2>4. flag[o] <=> op = "modify"
    BY <2>3
  <2> QED
    BY <1>4, <1>6, <2>4 DEF Follows
<1>7. CASE Changes(r, o) = {} /\ (op = "process" \/ Head(inbox[t]).ob # o)
  <2>1. Changes(q, o) = {}
    <3>1. ~(Head(q).op # "process" /\ Head(q).ob = o)
      BY <1>3, <1>7
    <3> QED
      BY <1>4, <1>7, <3>1, ChangesTail
  <2>2. flag[o] <=> Present(o)
    BY <1>4, <2>1 DEF Follows
  <2> QED
    BY <1>4, <1>7, <2>2 DEF Follows
<1> QED
  BY <1>5, <1>6, <1>7

LEMMA FollowWorker ==
  ASSUME OneEntryInv, FollowInv, NEW t \in Threads, WorkerStep(t)
  PROVE  FollowInv'
<1>1. /\ queue \in [Threads -> Seq(Entries)] /\ next \in [Threads -> Seq(Entries)]
      /\ queue[t] \in Seq(Entries) /\ next[t] \in Seq(Entries)
      /\ inbox \in [Threads -> Seq(QueueTasks)] /\ TypeOK
      /\ flag \in [Objects -> BOOLEAN]
  BY DEF OneEntryInv, TypeOK
<1>2. CASE RemoveHeartbeat(t)
  <2>1. Head(inbox[t]) \in QueueTasks /\ Head(inbox[t]).op = "remove" /\ NextTask(t, "remove")
    BY <1>1, <1>2, TaskType DEF RemoveHeartbeat
  <2> SUFFICES ASSUME NEW x \in Objects, x = Head(inbox[t]).ob PROVE FollowInv'
    BY <2>1 DEF QueueTasks
  <2>2. /\ queue' = [queue EXCEPT ![t] = Forget(queue[t], x)]
        /\ next' = [next EXCEPT ![t] = Forget(next[t], x)]
        /\ inbox' = [inbox EXCEPT ![t] = Tail(inbox[t])] /\ UNCHANGED lpcVars
    BY <1>2 DEF RemoveHeartbeat, NextTask
  <2>3. ASSUME NEW o \in Objects, Shard[o] = t, Follows(o) PROVE Follows(o)'
    <3>1. queue'[t] = Forget(queue[t], x) /\ next'[t] = Forget(next[t], x)
      BY <1>1, <2>2
    <3>2. x = o => ~Present(o)'
      BY <1>1, <2>3, <3>1, ForgetPositions DEF Present
    <3>3. ASSUME x # o PROVE Present(o)' <=> Present(o)
      <4>1. Positions(Forget(queue[t], x), o) = Positions(queue[t], o)
        BY <1>1, <3>3, ForgetPositions
      <4>2. Positions(Forget(next[t], x), o) = Positions(next[t], o)
        BY <1>1, <3>3, ForgetPositions
      <4> QED
        BY <2>3, <3>1, <4>1, <4>2 DEF Present
    <3> QED
      BY <2>1, <2>2, <2>3, <3>2, <3>3, FollowTask DEF lpcVars
  <2>4. \A u \in Threads : u # t => inbox'[u] = inbox[u] /\ queue'[u] = queue[u] /\ next'[u] = next[u]
    BY <1>1, <2>2
  <2> QED
    BY <2>2, <2>3, <2>4, FollowLocal
<1>3. CASE ModifyHeartbeat(t)
  <2>1. Head(inbox[t]) \in QueueTasks /\ Head(inbox[t]).op = "modify" /\ NextTask(t, "modify")
    BY <1>1, <1>3, TaskType DEF ModifyHeartbeat
  <2>2. Head(inbox[t]).ob \in Objects /\ ToShort(Head(inbox[t]).interval) \in Int
    BY <2>1, ShortType DEF QueueTasks
  <2> SUFFICES ASSUME NEW x \in Objects, x = Head(inbox[t]).ob,
                      NEW n \in Int, n = ToShort(Head(inbox[t]).interval)
               PROVE  FollowInv'
    BY <2>2
  <2>3. /\ queue' = IF Positions(queue[t], x) # {}
                    THEN [queue EXCEPT ![t] = Rearm(queue[t], x, n)] ELSE queue
        /\ next' = IF Positions(queue[t], x) # {} THEN next
                   ELSE IF Positions(next[t], x) # {}
                   THEN [next EXCEPT ![t] = Rearm(next[t], x, n)]
                   ELSE [next EXCEPT ![t] = Append(next[t], [ob |-> x, ticks |-> n, time |-> n])]
        /\ inbox' = [inbox EXCEPT ![t] = Tail(inbox[t])] /\ UNCHANGED lpcVars
    BY <1>3 DEF ModifyHeartbeat, NextTask
  <2>4. \A o \in Objects :
          (Positions(queue'[t], o) # {} \/ Positions(next'[t], o) # {})
            <=> (Positions(queue[t], o) # {} \/ Positions(next[t], o) # {} \/ o = x)
    <3>1. CASE Positions(queue[t], x) # {}
      <4>1. queue'[t] = Rearm(queue[t], x, n) /\ next'[t] = next[t]
        BY <1>1, <2>3, <3>1
      <4>2. \A o \in Objects : Positions(Rearm(queue[t], x, n), o) = Positions(queue[t], o)
        BY <1>1, RearmPositions
      <4> QED
        BY <3>1, <4>1, <4>2
    <3>2. CASE Positions(queue[t], x) = {} /\ Positions(next[t], x) # {}
      <4>1. queue'[t] = queue[t] /\ next'[t] = Rearm(next[t], x, n)
        BY <1>1, <2>3, <3>2
      <4>2. \A o \in Objects : Positions(Rearm(next[t], x, n), o) = Positions(next[t], o)
        BY <1>1, RearmPositions
      <4> QED
        BY <3>2, <4>1, <4>2
    <3>3. CASE Positions(queue[t], x) = {} /\ Positions(next[t], x) = {}
      <4> SUFFICES ASSUME NEW e, e = [ob |-> x, ticks |-> n, time |-> n]
                   PROVE  \A o \in Objects :
                            (Positions(queue'[t], o) # {} \/ Positions(next'[t], o) # {})
                              <=> (Positions(queue[t], o) # {} \/ Positions(next[t], o) # {} \/ o = x)
        OBVIOUS
      <4>1. queue'[t] = queue[t] /\ next'[t] = Append(next[t], e) /\ e.ob = x
        BY <1>1, <2>3, <3>3
      <4>2. \A o \in Objects : Positions(Append(next[t], e), o) # {} <=> (Positions(next[t], o) # {} \/ e.ob = o)
        <5>1. next[t] \in Seq(Entries)
          BY <1>1
        <5> QED
          BY <5>1, AppendPositions
      <4> QED
        BY <4>1, <4>2
    <3> QED
      BY <3>1, <3>2, <3>3
  <2>5. ASSUME NEW o \in Objects, Shard[o] = t, Follows(o) PROVE Follows(o)'
    <3>1. Present(o)' <=> (Present(o) \/ o = x)
      BY <2>4, <2>5 DEF Present
    <3> QED
      BY <2>1, <2>3, <2>5, <3>1, FollowTask DEF lpcVars
  <2>6. \A u \in Threads : u # t => inbox'[u] = inbox[u] /\ queue'[u] = queue[u] /\ next'[u] = next[u]
    BY <1>1, <2>3
  <2> QED
    BY <2>3, <2>5, <2>6, FollowLocal
<1>4. CASE BeginRound(t)
  <2>1. /\ queue' = [queue EXCEPT ![t] = queue[t] \o next[t]] /\ next' = [next EXCEPT ![t] = << >>]
        /\ inbox' = [inbox EXCEPT ![t] = Tail(inbox[t])] /\ UNCHANGED lpcVars
        /\ NextTask(t, "process")
    BY <1>4 DEF BeginRound, NextTask
  <2>2. ASSUME NEW o \in Objects, Shard[o] = t, Follows(o) PROVE Follows(o)'
    <3>1. queue'[t] = queue[t] \o next[t] /\ next'[t] = << >> /\ Positions(<< >>, o) = {}
      BY <1>1, <2>1 DEF Positions
    <3>2. Present(o)' <=> Present(o)
      BY <1>1, <2>2, <3>1, MergePositions DEF Present
    <3> QED
      BY <2>1, <2>2, <3>2, FollowTask DEF lpcVars
  <2>3. \A u \in Threads : u # t => inbox'[u] = inbox[u] /\ queue'[u] = queue[u] /\ next'[u] = next[u]
    BY <1>1, <2>1
  <2> QED
    BY <2>1, <2>2, <2>3, FollowLocal
<1>5. CASE DropEntry(t)
  <2>1. /\ queue' = [queue EXCEPT ![t] = Tail(queue[t])] /\ UNCHANGED <<next, inbox, lpcVars>>
        /\ queue[t] # << >> /\ ~Alive(Head(queue[t]).ob)
    BY <1>5 DEF DropEntry
  <2>2. ASSUME NEW o \in Objects, Shard[o] = t, Follows(o) PROVE Follows(o)'
    <3>1. UNCHANGED flag /\ queue'[t] = Tail(queue[t]) /\ next'[t] = next[t]
      BY <1>1, <2>1 DEF lpcVars
    <3>2. CASE Head(queue[t]).ob = o
      <4>1. ~flag[o]
        BY <2>1, <3>2, HeartbeatAssumption DEF Alive, FollowInv, CallInv
      <4>2. Present(o)' => Present(o)
        BY <1>1, <2>1, <2>2, <3>1, TailPositions DEF Present
      <4> QED
        BY <2>1, <2>2, <3>1, <4>1, <4>2 DEF Follows
    <3>3. CASE Head(queue[t]).ob # o
      <4>1. Present(o)' <=> Present(o)
        BY <1>1, <2>1, <2>2, <3>1, <3>3, TailPositions DEF Present
      <4> QED
        BY <2>1, <2>2, <3>1, <4>1 DEF Follows
    <3> QED
      BY <3>2, <3>3
  <2>3. \A u \in Threads : u # t => inbox'[u] = inbox[u] /\ queue'[u] = queue[u] /\ next'[u] = next[u]
    BY <1>1, <2>1
  <2> QED
    BY <2>1, <2>2, <2>3, FollowLocal
<1>6. CASE CountEntry(t)
  <2>1. queue[t] # << >>
    BY <1>6 DEF CountEntry
  <2>5. Head(queue[t]) \in Entries
    BY <1>1, <2>1, HeadTailProperties
  <2>6. \A e \in Entries : \A m : [e EXCEPT !.ticks = m].ob = e.ob
    BY DEF Entries
  <2>7. /\ queue' = [queue EXCEPT ![t] = Tail(queue[t])]
        /\ \E m : next' = [next EXCEPT ![t] = Append(next[t], [Head(queue[t]) EXCEPT !.ticks = m])]
    BY <1>6 DEF CountEntry
  <2>8. PICK k : k.ob = Head(queue[t]).ob /\ next' = [next EXCEPT ![t] = Append(next[t], k)]
    BY <2>5, <2>6, <2>7
  <2>2. UNCHANGED <<inbox, lpcVars>>
    BY <1>6 DEF CountEntry
  <2>3. ASSUME NEW o \in Objects, Shard[o] = t, Follows(o) PROVE Follows(o)'
    <3>1. UNCHANGED flag /\ queue'[t] = Tail(queue[t]) /\ next'[t] = Append(next[t], k)
      BY <1>1, <2>2, <2>7, <2>8 DEF lpcVars
    <3>2. Positions(queue[t], o) # {} <=> (Positions(queue'[t], o) # {} \/ k.ob = o)
      BY <1>1, <2>1, <2>8, <3>1, TailPositions
    <3>3. Positions(next'[t], o) # {} <=> (Positions(next[t], o) # {} \/ k.ob = o)
      <4>1. next[t] \in Seq(Entries)
        BY <1>1
      <4>2. Positions(Append(next[t], k), o) # {} <=> (Positions(next[t], o) # {} \/ k.ob = o)
        BY <4>1, AppendPositions
      <4> QED
        BY <3>1, <4>2
    <3>4. Present(o)' <=> Present(o)
      BY <2>3, <3>2, <3>3 DEF Present
    <3> QED
      BY <2>2, <2>3, <3>1, <3>4 DEF Follows
  <2>4. \A u \in Threads : u # t => inbox'[u] = inbox[u] /\ queue'[u] = queue[u] /\ next'[u] = next[u]
    BY <1>1, <2>2, <2>7, <2>8
  <2> QED
    BY <2>2, <2>3, <2>4, FollowLocal
<1>7. CASE BeginBeat(t)
  BY <1>7 DEF BeginBeat, FollowInv, CallInv, Follows, Present
<1>8. CASE EndBeat(t) \/ EndRound(t)
  BY <1>8 DEF EndBeat, EndRound, lpcVars, FollowInv, CallInv, Follows, Present
<1> QED
  BY <1>2, <1>3, <1>4, <1>5, <1>6, <1>7, <1>8 DEF WorkerStep

\* A task joins an inbox that does not concern o.
LEMMA FollowOthers ==
  ASSUME OneEntryInv, NEW u \in Threads, NEW x \in QueueTasks, Post(u, x),
         NEW o \in Objects, x.op = "process" \/ x.ob # o, Follows(o),
         UNCHANGED <<queue, next>>, flag'[o] = flag[o]
  PROVE  Follows(o)'
<1>1. inbox \in [Threads -> Seq(QueueTasks)] /\ Shard[o] \in Threads
  BY HeartbeatAssumption DEF OneEntryInv, TypeOK
<1>2. Present(o)' <=> Present(o)
  BY DEF Present
<1>3. CASE Shard[o] # u
  <2>1. inbox'[Shard[o]] = inbox[Shard[o]]
    BY <1>1, <1>3 DEF Post
  <2> QED
    BY <1>2, <2>1 DEF Follows
<1>4. CASE Shard[o] = u
  <2>1. inbox'[u] = Append(inbox[u], x) /\ inbox[u] \in Seq(QueueTasks)
    BY <1>1 DEF Post
  <2>2. /\ Changes(Append(inbox[u], x), o) = Changes(inbox[u], o)
        /\ \A op : LastIs(inbox[u], o, op) => LastIs(Append(inbox[u], x), o, op)
    BY <2>1, ChangesAppend
  <2> QED
    BY <1>2, <1>4, <2>1, <2>2 DEF Follows
<1> QED
  BY <1>3, <1>4

\* A task joins the inbox of o and agrees with its flag.
LEMMA FollowPosted ==
  ASSUME OneEntryInv, NEW x \in QueueTasks, NEW o \in Objects, Post(Shard[o], x), x.ob = o,
         x.op = (IF flag'[o] THEN "modify" ELSE "remove")
  PROVE  Follows(o)'
<1>1. inbox \in [Threads -> Seq(QueueTasks)] /\ Shard[o] \in Threads
  BY HeartbeatAssumption DEF OneEntryInv, TypeOK
<1> SUFFICES ASSUME NEW q \in Seq(QueueTasks), inbox'[Shard[o]] = Append(q, x) PROVE Follows(o)'
  BY <1>1 DEF Post
<1>2. x.op # "process"
  OBVIOUS
<1>3. Changes(Append(q, x), o) # {} /\ LastIs(Append(q, x), o, x.op)
  BY <1>2, ChangesAppend
<1> QED
  BY <1>3 DEF Follows

LEMMA FollowCall ==
  ASSUME SettersOnMain, OneEntryInv, FollowInv, NEW a \in Actors,
         CallStep(a) \/ (a \in Setters /\ NewCall(a))
  PROVE  FollowInv'
<1>1. call \in [Actors -> SetCalls \cup {NoCall}] /\ flag \in [Objects -> BOOLEAN] /\ destructed \in [Objects -> BOOLEAN]
  BY DEF OneEntryInv, TypeOK
<1>2. Main \in Actors /\ Main \notin Threads /\ Shard \in [Objects -> Threads] /\ Threads \subseteq Actors
  BY HeartbeatAssumption DEF Actors
<1>3. a = Main
  <2>1. CASE CallStep(a)
    <3>1. call[a] # NoCall
      BY <2>1 DEF CallStep, SetFlag, PostChange, MarkDestructed, NoCall
    <3> QED
      BY <3>1 DEF FollowInv, CallInv, Actors
  <2>2. CASE a \in Setters
    BY <2>2 DEF SettersOnMain
  <2> QED
    BY <2>1, <2>2
<1>4. CASE NewCall(Main)
  <2>1. /\ call[Main] = NoCall /\ UNCHANGED <<flag, destructed, inbox, queue, next>>
        /\ \E o \in Objects : \E k, n : ~destructed[o] /\ (k => n = 0) /\
             call' = [call EXCEPT ![Main] = [step |-> "flag", ob |-> o, kill |-> k, to |-> n]]
    <3>1. CASE \E o \in Objects : DestructObject(Main, o)
      <4>1. PICK o \in Objects : DestructObject(Main, o)
        BY <3>1
      <4> QED
        BY <4>1 DEF DestructObject, workerVars
    <3>2. CASE \E o \in Objects, n \in SetArgs : SetHeartBeat(Main, o, n)
      <4>1. PICK o \in Objects, n \in SetArgs : SetHeartBeat(Main, o, n)
        BY <3>2
      <4> QED
        BY <4>1 DEF SetHeartBeat, workerVars
    <3> QED
      BY <1>4, <3>1, <3>2 DEF NewCall
  <2>6. PICK o \in Objects : \E k, n : ~destructed[o] /\ (k => n = 0) /\
          call' = [call EXCEPT ![Main] = [step |-> "flag", ob |-> o, kill |-> k, to |-> n]]
    BY <2>1
  <2>2. PICK k, n : ~destructed[o] /\ (k => n = 0) /\
          call' = [call EXCEPT ![Main] = [step |-> "flag", ob |-> o, kill |-> k, to |-> n]]
    BY <2>6
  <2>3. call'[Main] = [step |-> "flag", ob |-> o, kill |-> k, to |-> n] /\ \A t \in Threads : call'[t] = call[t]
    BY <1>1, <1>2, <2>2
  <2>4. CallInv'
    BY <2>1, <2>2, <2>3 DEF FollowInv, CallInv
  <2>5. \A p \in Objects : Follows(p)'
    BY <2>1 DEF FollowInv, Follows, Present, NoCall
  <2> QED
    BY <2>4, <2>5 DEF FollowInv
<1>5. ASSUME call[Main] # NoCall
      PROVE  call[Main] \in SetCalls /\ call[Main].ob \in Objects /\ call[Main].to \in Nat /\ call[Main].kill \in BOOLEAN
  BY <1>1, <1>2, <1>5 DEF SetCalls
<1>6. CASE SetFlag(Main)
  <2>1. /\ call[Main].step = "flag"
        /\ flag' = [flag EXCEPT ![call[Main].ob] = (call[Main].to # 0)]
        /\ call' = [call EXCEPT ![Main].step = "post"]
        /\ UNCHANGED <<destructed, inbox, queue, next>>
    BY <1>6 DEF SetFlag, workerVars
  <2>2. call[Main] # NoCall
    BY <2>1 DEF NoCall
  <2> SUFFICES ASSUME NEW o \in Objects, o = call[Main].ob, NEW n \in Nat, n = call[Main].to PROVE FollowInv'
    BY <1>5, <2>2
  <2>3. /\ call'[Main].step = "post" /\ call'[Main].ob = o /\ call'[Main].to = n
        /\ call'[Main].kill = call[Main].kill
    BY <1>1, <1>2, <1>5, <2>1, <2>2 DEF SetCalls
  <2>4. /\ \A t \in Threads : call'[t] = call[t]
        /\ (flag'[o] <=> n # 0) /\ \A p \in Objects : p # o => flag'[p] = flag[p]
    BY <1>1, <1>2, <2>1
  <2>5. CallInv'
    BY <2>1, <2>2, <2>3, <2>4 DEF FollowInv, CallInv
  <2>6. ASSUME NEW p \in Objects, p # o PROVE Follows(p)'
    <3>1. Follows(p)
      BY <2>1 DEF FollowInv
    <3> QED
      BY <2>1, <2>4, <2>6, <3>1 DEF Follows, Present
  <2> QED
    BY <2>3, <2>5, <2>6 DEF FollowInv
<1>7. CASE PostChange(Main)
  <2>1. call[Main].step = "post" /\ call[Main] # NoCall
    BY <1>7 DEF PostChange, NoCall
  <2> SUFFICES ASSUME NEW o \in Objects, o = call[Main].ob, NEW n \in Nat, n = call[Main].to,
                      NEW x, x = IF n = 0 THEN [op |-> "remove", ob |-> o]
                                 ELSE [op |-> "modify", ob |-> o, interval |-> n]
               PROVE  FollowInv'
    BY <1>5, <2>1
  <2>2. /\ Post(Shard[o], x) /\ UNCHANGED <<flag, destructed, queue, next>>
        /\ call' = [call EXCEPT ![Main] = IF call[Main].kill THEN [call[Main] EXCEPT !.step = "mark"] ELSE NoCall]
    BY <1>7 DEF PostChange, workerVars
  <2>3. x \in QueueTasks /\ x.ob = o /\ x.op = (IF n = 0 THEN "remove" ELSE "modify")
    BY DEF QueueTasks
  <2>4. flag[o] <=> n # 0
    BY <2>1 DEF FollowInv, CallInv
  <2>5. call'[Main] = (IF call[Main].kill THEN [call[Main] EXCEPT !.step = "mark"] ELSE NoCall)
        /\ \A t \in Threads : call'[t] = call[t]
    BY <1>1, <1>2, <2>2
  <2>6. CallInv'
    <3>1. CASE call[Main].kill
      <4>1. /\ call'[Main].step = "mark" /\ call'[Main].ob = o /\ call'[Main].to = n
            /\ call'[Main].kill = call[Main].kill
        BY <1>5, <2>1, <2>5, <3>1 DEF SetCalls
      <4> QED
        BY <2>1, <2>2, <2>4, <2>5, <3>1, <4>1 DEF FollowInv, CallInv
    <3>2. CASE ~call[Main].kill
      BY <2>2, <2>5, <3>2 DEF FollowInv, CallInv
    <3> QED
      BY <3>1, <3>2
  <2>7. Follows(o)'
    <3>1. x.op = (IF flag'[o] THEN "modify" ELSE "remove")
      BY <2>2, <2>3, <2>4
    <3> QED
      BY <2>2, <2>3, <3>1, FollowPosted
  <2>8. ASSUME NEW p \in Objects, p # o PROVE Follows(p)'
    <3>1. Follows(p)
      BY <2>8 DEF FollowInv
    <3> QED
      BY <1>2, <2>2, <2>3, <2>8, <3>1, FollowOthers
  <2> QED
    BY <2>6, <2>7, <2>8 DEF FollowInv
<1>8. CASE MarkDestructed(Main)
  <2>1. call[Main].step = "mark" /\ call[Main] # NoCall
    BY <1>8 DEF MarkDestructed, NoCall
  <2> SUFFICES ASSUME NEW o \in Objects, o = call[Main].ob PROVE FollowInv'
    BY <1>5, <2>1
  <2>2. ~flag[o]
    BY <2>1 DEF FollowInv, CallInv
  <2>3. /\ destructed' = [destructed EXCEPT ![o] = TRUE] /\ call' = [call EXCEPT ![Main] = NoCall]
        /\ UNCHANGED <<flag, inbox, queue, next>>
    BY <1>8 DEF MarkDestructed, workerVars
  <2>4. call'[Main] = NoCall /\ \A t \in Threads : call'[t] = call[t]
    BY <1>1, <1>2, <2>3
  <2>5. \A p \in Objects : destructed'[p] => p = o \/ destructed[p]
    BY <1>1, <2>3
  <2>6. CallInv'
    BY <2>2, <2>3, <2>4, <2>5 DEF FollowInv, CallInv
  <2>7. \A p \in Objects : Follows(p)'
    BY <2>1, <2>3 DEF FollowInv, Follows, Present
  <2> QED
    BY <2>6, <2>7 DEF FollowInv
<1> QED
  BY <1>3, <1>4, <1>6, <1>7, <1>8 DEF CallStep

LEMMA FollowStep == SettersOnMain /\ OneEntryInv /\ FollowInv /\ [Next]_vars => FollowInv'
<1> SUFFICES ASSUME SettersOnMain, OneEntryInv, FollowInv, [Next]_vars PROVE FollowInv'
  OBVIOUS
<1>1. ASSUME UNCHANGED <<lpcVars, workerVars, inbox>> PROVE FollowInv'
  BY <1>1 DEF lpcVars, workerVars, FollowInv, CallInv, Follows, Present
<1>2. ASSUME NEW a \in Actors, CallStep(a) PROVE FollowInv'
  BY <1>2, FollowCall
<1>3. ASSUME NEW a \in Setters, NewCall(a) PROVE FollowInv'
  BY <1>3, FollowCall, HeartbeatAssumption
<1>4. CASE Signal
  <2>1. /\ round \in Threads /\ Post(round, [op |-> "process"]) /\ [op |-> "process"] \in QueueTasks
        /\ UNCHANGED <<lpcVars, queue, next>>
    BY <1>4, HeartbeatAssumption DEF Signal, Threads, QueueTasks, OneEntryInv, TypeOK, workerVars
  <2>2. CallInv' /\ UNCHANGED <<flag, call>>
    BY <2>1 DEF FollowInv, CallInv, lpcVars
  <2>3. ASSUME NEW o \in Objects, Follows(o) PROVE Follows(o)'
    BY <2>1, <2>2, <2>3, FollowOthers
  <2> QED
    BY <2>2, <2>3 DEF FollowInv
<1>5. CASE MainStep \/ CallHeartBeat
  BY <1>1, <1>4, <1>5 DEF MainStep, RunBounced, BouncedDone, OpenGate, CallHeartBeat
<1>6. ASSUME NEW t \in Threads, WorkerStep(t) PROVE FollowInv'
  BY <1>6, FollowWorker
<1>7. ASSUME NEW t \in Threads, NEW o \in Shared, BounceBeat(t, o) PROVE FollowInv'
  BY <1>7 DEF BounceBeat, lpcVars, FollowInv, CallInv, Follows, Present
<1>8. CASE UNCHANGED vars
  BY <1>1, <1>8 DEF vars
<1> QED
  BY <1>2, <1>3, <1>5, <1>6, <1>7, <1>8 DEF Next

LEMMA FollowInit == Init => FollowInv
<1> SUFFICES ASSUME Init PROVE FollowInv
  OBVIOUS
<1>1. Main \in Actors /\ Threads \subseteq Actors /\ Shard \in [Objects -> Threads]
  BY HeartbeatAssumption DEF Actors
<1>2. CallInv
  BY <1>1 DEF Init, CallInv
<1>3. \A t \in Threads, o \in Objects :
        Changes(inbox[t], o) = {} /\ Positions(queue[t], o) = {} /\ Positions(next[t], o) = {}
  <2>1. \A t \in Threads : DOMAIN inbox[t] = {} /\ DOMAIN queue[t] = {} /\ DOMAIN next[t] = {}
    BY DEF Init
  <2> QED
    BY <2>1 DEF Changes, Positions
<1> QED
  BY <1>1, <1>2, <1>3 DEF Init, FollowInv, Follows, Present

\* With set_heart_beat() and destruct() called on the main thread only, the queues
\* of the worker come to agree with the flag and the interval: nothing that rounds,
\* drops and beats do in between loses or adds an entry.
THEOREM QueueAlwaysFollows == ASSUME SettersOnMain PROVE Spec => []QueueFollowsFlag
<1>1. OneEntryInv /\ PeriodInv /\ FollowInv => QueueFollowsFlag
  <2> SUFFICES ASSUME OneEntryInv, PeriodInv, FollowInv, NEW o \in Objects, Settled(o),
                      NEW t \in Threads, t = Shard[o]
               PROVE  IF flag[o] /\ ~destructed[o]
                      THEN \E i \in Positions(Entered(t), o) : Entered(t)[i].time = ToShort(period[o])
                      ELSE Positions(Entered(t), o) = {}
    BY HeartbeatAssumption DEF QueueFollowsFlag
  <2>1. /\ queue[t] \in Seq(Entries) /\ next[t] \in Seq(Entries)
        /\ call \in [Actors -> SetCalls \cup {NoCall}] /\ Main \in Actors
    BY HeartbeatAssumption DEF OneEntryInv, TypeOK, Actors
  <2>2. call[Main].step = "post" => call[Main].ob # o
    BY <2>1 DEF Settled, NoCall
  <2>3. Changes(inbox[t], o) = {}
    BY DEF Settled, Changes
  <2>4. flag[o] <=> (Positions(queue[t], o) # {} \/ Positions(next[t], o) # {})
    BY <2>2, <2>3 DEF FollowInv, Follows, Present
  <2>5. flag[o] <=> Positions(Entered(t), o) # {}
    BY <2>1, <2>4, MergePositions DEF Entered
  <2>6. destructed[o] => ~flag[o]
    BY DEF FollowInv, CallInv
  <2>7. AllFit(Entered(t), period, age)
    BY <2>1, FitMerge DEF PeriodInv, Entered
  <2>8. \A i \in Positions(Entered(t), o) : Entered(t)[i].time = ToShort(period[o])
    BY <2>7, HeartbeatAssumption DEF Positions, AllFit, Fits
  <2> QED
    BY <2>5, <2>6, <2>8
<1> QED
  BY <1>1, PeriodInit, FollowInit, OneEntryInit, OneEntryStep, PeriodStep, FollowStep, PTL DEF Spec
=============================================================================
