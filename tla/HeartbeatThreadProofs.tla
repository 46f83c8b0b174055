----------------------- MODULE HeartbeatThreadProofs -----------------------
(***************************************************************************)
(* Proofs about HeartbeatThread, for any number of posters, posts and      *)
(* restarts and any socket buffer of at least one byte.                    *)
(***************************************************************************)
EXTENDS HeartbeatThread, SequenceTheorems, TLAPS

\* TypeOK, and a caller inside post() has a task to hand over.
TypeInv ==
  /\ TypeOK
  /\ \A c \in Callers : poster[c] # "idle" => posts[c] > 0

\* The life of the thread and of its wakeup socket, as the owner drives them.
LifeInv ==
  /\ owner \in {"down", "close"} => worker = "none"
  /\ owner = "down" => ~open /\ sock = 0

\* A queued task is an orphan or is accounted for: by a byte still to be
\* written, by a byte in the socket, or by a worker that has emptied the socket
\* and is about to swap.
WakeupInv ==
  \A i \in DOMAIN tasks :
    \/ tasks[i] \in orphans
    \/ ByteComing(tasks[i])
    \/ sock > 0
    \/ worker = "swap"

\* All the tasks that ever entered the queue, in the order in which they did.
Accepted == (ran \o batch) \o tasks

\* The accepted tasks of one caller are in the order of its posts, and its
\* post() under way has not been accepted before it has pushed.
OrderInv ==
  /\ worker # "run" => batch = << >>
  /\ \A i \in DOMAIN Accepted :
       LET c == Accepted[i][1] IN
         /\ Accepted[i][2] <= posts[c]
         /\ poster[c] \in {"await", "look", "push"} => Accepted[i][2] < posts[c]
  /\ \A i, j \in DOMAIN Accepted :
       i < j /\ Accepted[i][1] = Accepted[j][1] => Accepted[i][2] < Accepted[j][2]

-----------------------------------------------------------------------------
LEMMA InitType == Init => TypeInv
<1> SUFFICES ASSUME Init PROVE TypeInv
  OBVIOUS
<1> USE ConstantsAssumption DEF Init
<1>1. tasks \in Seq(Tasks) /\ batch \in Seq(Tasks) /\ ran \in Seq(Tasks)
  OBVIOUS
<1>2. poster \in [Callers -> PosterPC] /\ hasFd \in [Callers -> BOOLEAN]
  BY DEF PosterPC
<1>3. posts \in [Callers -> 0 .. MaxPosts]
  OBVIOUS
<1>4. sock \in 0 .. SockCap /\ starts \in 0 .. MaxStarts
  OBVIOUS
<1>5. worker \in WorkerPC /\ owner \in OwnerPC
  BY DEF WorkerPC, OwnerPC
<1> QED
  BY <1>1, <1>2, <1>3, <1>4, <1>5 DEF TypeInv, TypeOK

LEMMA OwnerType == TypeInv /\ Owner => TypeInv'
<1> SUFFICES ASSUME TypeInv, Owner PROVE TypeInv'
  OBVIOUS
<1> USE ConstantsAssumption DEF TypeInv, TypeOK, ownerVars, queueVars, posterVars
<1>1. WriteByte \in 0 .. SockCap
  BY DEF WriteByte
<1>2. CASE Start
  <2>1. running' \in BOOLEAN /\ ready' \in BOOLEAN /\ open' \in BOOLEAN
    BY <1>2 DEF Start
  <2>2. sock' \in 0 .. SockCap /\ starts' \in 0 .. MaxStarts
    BY <1>2 DEF Start
  <2>3. worker' \in WorkerPC /\ owner' \in OwnerPC
    BY <1>2 DEF Start, WorkerPC, OwnerPC
  <2>4. UNCHANGED <<queueVars, posterVars, orphans>>
    BY <1>2 DEF Start
  <2> QED
    BY <2>1, <2>2, <2>3, <2>4
<1>3. CASE StartReturns
  BY <1>3 DEF StartReturns, OwnerPC
<1>4. CASE Stop
  BY <1>4 DEF Stop, OwnerPC
<1>5. CASE StopWake
  BY <1>1, <1>5 DEF StopWake, OwnerPC
<1>6. CASE StopJoin
  BY <1>6 DEF StopJoin, OwnerPC, WorkerPC
<1>7. CASE StopClose
  <2>1. Elems(tasks) \subseteq Tasks
    BY DEF Elems
  <2>2. open' \in BOOLEAN
    BY <1>7 DEF StopClose
  <2>3. sock' \in 0 .. SockCap
    BY <1>7 DEF StopClose
  <2>4. owner' \in OwnerPC
    BY <1>7 DEF StopClose, OwnerPC
  <2>5. orphans' \subseteq Tasks
    BY <1>7, <2>1 DEF StopClose
  <2>6. UNCHANGED <<running, starts, ready, worker, queueVars, posterVars>>
    BY <1>7 DEF StopClose
  <2> QED
    BY <2>2, <2>3, <2>4, <2>5, <2>6
<1> QED
  BY <1>2, <1>3, <1>4, <1>5, <1>6, <1>7 DEF Owner

LEMMA WorkerType == TypeInv /\ Worker => TypeInv'
<1> SUFFICES ASSUME TypeInv, Worker PROVE TypeInv'
  OBVIOUS
<1> USE ConstantsAssumption DEF TypeInv, TypeOK, ownerVars, queueVars, posterVars
<1>1. CASE WorkerReady
  BY <1>1 DEF WorkerReady, WorkerPC
<1>2. CASE LoopCheck
  BY <1>2 DEF LoopCheck, WorkerPC
<1>3. CASE Wakeup
  BY <1>3 DEF Wakeup, WorkerPC
<1>4. CASE Drain
  BY <1>4 DEF Drain, WorkerPC
<1>5. CASE Swap
  BY <1>5 DEF Swap, WorkerPC
<1>6. CASE RunTask
  BY <1>6 DEF RunTask
<1>7. CASE BatchDone
  BY <1>7 DEF BatchDone, WorkerPC
<1>8. CASE LoopExit
  BY <1>8 DEF LoopExit, WorkerPC
<1> QED
  BY <1>1, <1>2, <1>3, <1>4, <1>5, <1>6, <1>7, <1>8 DEF Worker

LEMMA TaskTyped ==
  ASSUME TypeInv, NEW c \in Callers, poster[c] # "idle"
  PROVE  Task(c) \in Tasks
  BY ConstantsAssumption DEF TypeInv, TypeOK, Task, Tasks

LEMMA PostType == ASSUME TypeInv, NEW c \in Callers, Post(c) PROVE TypeInv'
<1> USE ConstantsAssumption DEF TypeInv, TypeOK, ownerVars, queueVars
<1>1. poster[c] # "idle" => Task(c) \in Tasks
  BY TaskTyped
<1>2. CASE PostCall(c)
  BY <1>2 DEF PostCall, PosterPC
<1>3. CASE PostReady(c)
  BY <1>3 DEF PostReady, PosterPC
<1>4. CASE PostDrop(c)
  BY <1>1, <1>4 DEF PostDrop, PosterPC
<1>5. CASE PostLook(c)
  BY <1>5 DEF PostLook, PosterPC
<1>6. CASE PostPush(c)
  BY <1>1, <1>6 DEF PostPush, PosterPC
<1>7. CASE PostWrite(c)
  BY <1>1, <1>7 DEF PostWrite, WriteByte, PosterPC
<1> QED
  BY <1>2, <1>3, <1>4, <1>5, <1>6, <1>7 DEF Post, PostStep

LEMMA TypeStep == TypeInv /\ [Next]_vars => TypeInv'
<1>1. TypeInv /\ UNCHANGED vars => TypeInv'
  BY DEF TypeInv, TypeOK, vars
<1> QED
  BY <1>1, OwnerType, WorkerType, PostType DEF Next

\* Every step of start, stop, post and the event loop keeps each variable in
\* its type; in particular the byte count stays within the socket buffer.
THEOREM TypeCorrect == Spec => []TypeOK
<1>1. TypeInv => TypeOK
  BY DEF TypeInv
<1> QED
  BY <1>1, InitType, TypeStep, PTL DEF Spec

-----------------------------------------------------------------------------
LEMMA LifeStep == TypeInv /\ LifeInv /\ [Next]_vars => LifeInv'
<1> SUFFICES ASSUME TypeInv, LifeInv, [Next]_vars PROVE LifeInv'
  OBVIOUS
<1> USE DEF LifeInv, ownerVars
<1>1. CASE Owner
  BY <1>1 DEF Owner, Start, StartReturns, Stop, StopWake, StopJoin, StopClose
<1>2. CASE Worker
  BY <1>2 DEF Worker, WorkerReady, LoopCheck, Wakeup, Drain, Swap, RunTask,
     BatchDone, LoopExit
<1>3. ASSUME NEW c \in Callers, Post(c) PROVE LifeInv'
  BY <1>3 DEF Post, PostStep, PostCall, PostReady, PostDrop, PostLook, PostPush, PostWrite
<1>4. CASE UNCHANGED vars
  BY <1>4 DEF vars
<1> QED
  BY <1>1, <1>2, <1>3, <1>4 DEF Next

LEMMA OwnerWakeup == TypeInv /\ LifeInv /\ WakeupInv /\ Owner => WakeupInv'
<1> SUFFICES ASSUME TypeInv, LifeInv, WakeupInv, Owner,
                    NEW i \in DOMAIN tasks'
             PROVE  \/ tasks'[i] \in orphans'
                    \/ ByteComing(tasks[i])'
                    \/ sock' > 0
                    \/ worker' = "swap"
  BY DEF WakeupInv
<1> USE ConstantsAssumption DEF TypeInv, TypeOK, queueVars, posterVars
<1>1. UNCHANGED <<tasks, poster, posts>>
  BY DEF Owner, Start, StartReturns, Stop, StopWake, StopJoin, StopClose
<1>2. ByteComing(tasks[i]) => ByteComing(tasks[i])'
  BY <1>1 DEF ByteComing, Task
<1>3. \/ tasks[i] \in orphans
      \/ ByteComing(tasks[i])
      \/ sock > 0
      \/ worker = "swap"
  BY <1>1 DEF WakeupInv
<1>4. CASE Start
  BY <1>1, <1>2, <1>3, <1>4 DEF Start, LifeInv
<1>5. CASE StartReturns
  BY <1>1, <1>2, <1>3, <1>5 DEF StartReturns
<1>6. CASE Stop
  BY <1>1, <1>2, <1>3, <1>6 DEF Stop
<1>7. CASE StopWake
  BY <1>1, <1>2, <1>3, <1>7 DEF StopWake, WriteByte
<1>8. CASE StopJoin
  BY <1>1, <1>2, <1>3, <1>8 DEF StopJoin
<1>9. CASE StopClose
  BY <1>1, <1>9 DEF StopClose, Elems
<1> QED
  BY <1>4, <1>5, <1>6, <1>7, <1>8, <1>9 DEF Owner

LEMMA WorkerWakeup == TypeInv /\ WakeupInv /\ Worker => WakeupInv'
<1> SUFFICES ASSUME TypeInv, WakeupInv, Worker PROVE WakeupInv'
  OBVIOUS
<1> USE ConstantsAssumption DEF TypeInv, TypeOK, queueVars, posterVars
<1>1. \A x : ByteComing(x) => ByteComing(x)'
  BY DEF ByteComing, Task, Worker, WorkerReady, LoopCheck, Wakeup, Drain, Swap, RunTask,
     BatchDone, LoopExit
<1>2. CASE WorkerReady
  BY <1>1, <1>2 DEF WorkerReady, WakeupInv
<1>3. CASE LoopCheck
  BY <1>1, <1>3 DEF LoopCheck, WakeupInv
<1>4. CASE Wakeup
  BY <1>1, <1>4 DEF Wakeup, WakeupInv
<1>5. CASE Drain
  BY <1>5 DEF Drain, WakeupInv
<1>6. CASE Swap
  BY <1>6 DEF Swap, WakeupInv
<1>7. CASE RunTask
  BY <1>1, <1>7 DEF RunTask, WakeupInv
<1>8. CASE BatchDone
  BY <1>1, <1>8 DEF BatchDone, WakeupInv
<1>9. CASE LoopExit
  BY <1>1, <1>9 DEF LoopExit, WakeupInv
<1> QED
  BY <1>2, <1>3, <1>4, <1>5, <1>6, <1>7, <1>8, <1>9 DEF Worker

LEMMA PostWakeup ==
  ASSUME TypeInv, LifeInv, WakeupInv, NEW c \in Callers, Post(c)
  PROVE  WakeupInv'
<1> USE ConstantsAssumption DEF TypeInv, TypeOK, queueVars
\* Only the byte of c itself can stop being on its way.
<1>1. \A x : ByteComing(x) =>
              \/ ByteComing(x)'
              \/ poster[c] = "write" /\ x = Task(c)
  <2> SUFFICES ASSUME NEW x, NEW d \in Callers, poster[d] = "write", x = Task(d),
                      d # c
               PROVE  ByteComing(x)'
    BY DEF ByteComing
  <2>1. poster'[d] = "write" /\ posts'[d] = posts[d]
    BY DEF Post, PostStep, PostCall, PostReady, PostDrop, PostLook, PostPush, PostWrite
  <2> QED
    BY <2>1 DEF ByteComing, Task
<1>2. CASE PostCall(c) \/ PostReady(c) \/ PostDrop(c) \/ PostLook(c)
  <2>1. UNCHANGED <<tasks, orphans, sock, worker>> /\ poster[c] # "write"
    BY <1>2 DEF PostCall, PostReady, PostDrop, PostLook
  <2> QED
    BY <1>1, <2>1 DEF WakeupInv
<1>3. CASE PostPush(c)
  <2>1. ASSUME NEW x, x = Task(c) PROVE x \in orphans' \/ ByteComing(x)'
    BY <1>3, <2>1 DEF PostPush, ByteComing, Task
  <2>2. ASSUME NEW x, ByteComing(x) PROVE ByteComing(x)'
    BY <1>1, <1>3, <2>2 DEF PostPush
  <2>3. orphans \subseteq orphans' /\ sock' = sock /\ worker' = worker
    BY <1>3 DEF PostPush
  <2>4. ASSUME NEW i \in DOMAIN tasks'
        PROVE  (i \in DOMAIN tasks /\ tasks'[i] = tasks[i]) \/ tasks'[i] = Task(c)
    BY <1>3, SMTT(30) DEF PostPush
  <2>5. ASSUME NEW i \in DOMAIN tasks'
        PROVE  \/ tasks'[i] \in orphans'
               \/ ByteComing(tasks[i])'
               \/ sock' > 0
               \/ worker' = "swap"
    <3>1. CASE tasks'[i] = Task(c)
      BY <2>1, <3>1
    <3>2. CASE i \in DOMAIN tasks /\ tasks'[i] = tasks[i]
      BY <2>2, <2>3, <3>2 DEF WakeupInv
    <3> QED
      BY <2>4, <3>1, <3>2
  <2> QED
    BY <2>5 DEF WakeupInv
<1>4. CASE PostWrite(c)
  <2>1. CASE open
    <3>1. sock' > 0
      BY <1>4, <2>1 DEF PostWrite, WriteByte
    <3> QED
      BY <3>1 DEF WakeupInv
  <2>2. CASE ~open
    <3>1. /\ UNCHANGED <<tasks, sock, worker>>
          /\ orphans' = orphans \cup {Task(c)}
      BY <1>4, <2>2 DEF PostWrite
    <3> QED
      BY <1>1, <3>1 DEF WakeupInv
  <2> QED
    BY <2>1, <2>2
<1> QED
  BY <1>2, <1>3, <1>4 DEF Post, PostStep

\* No lost wakeup, for any number of posters and restarts: a task the worker
\* does not know of always has a byte in the socket or a poster about to write
\* one, whether or not EAGAIN drops bytes.
THEOREM WakeupNeverLost == Spec => []NoLostWakeup
<1> DEFINE Inv == TypeInv /\ LifeInv /\ WakeupInv
<1>1. Init => Inv
  <2>1. Init => LifeInv /\ WakeupInv
    BY DEF Init, LifeInv, WakeupInv
  <2> QED
    BY <2>1, InitType
<1>2. Inv /\ [Next]_vars => Inv'
  <2>1. WakeupInv /\ UNCHANGED vars => WakeupInv'
    BY DEF WakeupInv, ByteComing, Task, vars
  <2> QED
    BY <2>1, TypeStep, LifeStep, OwnerWakeup, WorkerWakeup, PostWakeup DEF Next
<1>3. Inv => NoLostWakeup
  BY DEF TypeInv, TypeOK, WakeupInv, NoLostWakeup
<1> QED
  BY <1>1, <1>2, <1>3, PTL DEF Spec

-----------------------------------------------------------------------------
(* Sequences: moving the head of one to the end of another, and appending. *)

LEMMA MoveHead ==
  ASSUME NEW S, NEW s \in Seq(S), NEW t \in Seq(S), t # << >>
  PROVE  Append(s, Head(t)) \o Tail(t) = s \o t
  OBVIOUS

LEMMA AppendConcat ==
  ASSUME NEW S, NEW s \in Seq(S), NEW t \in Seq(S), NEW x \in S
  PROVE  s \o Append(t, x) = Append(s \o t, x)
  OBVIOUS

LEMMA HeadTailConcat ==
  ASSUME NEW S, NEW s \in Seq(S), NEW t \in Seq(S), s # << >>
  PROVE  /\ s \o t # << >>
         /\ Head(s \o t) = Head(s)
         /\ Tail(s \o t) = Tail(s) \o t
  OBVIOUS

LEMMA EmptyConcat ==
  ASSUME NEW S, NEW s \in Seq(S)
  PROVE  << >> \o s = s /\ s \o << >> = s
  OBVIOUS

\* Only PostPush changes what has been accepted.
LEMMA AcceptedStep ==
  ASSUME TypeInv, OrderInv, [Next]_vars
  PROVE  \/ Accepted' = Accepted
         \/ \E c \in Callers : PostPush(c) /\ Accepted' = Append(Accepted, Task(c))
<1> USE DEF TypeInv, TypeOK, queueVars
<1>1. CASE UNCHANGED <<ran, batch, tasks>>
  BY <1>1 DEF Accepted
<1>2. CASE Swap
  <2>1. batch = << >> /\ ran' = ran /\ batch' = tasks /\ tasks' = << >>
    BY <1>2 DEF Swap, OrderInv
  <2> QED
    BY <2>1, EmptyConcat DEF Accepted
<1>3. CASE RunTask
  BY <1>3, MoveHead DEF RunTask, Accepted
<1>4. ASSUME NEW c \in Callers, PostPush(c)
      PROVE  Accepted' = Append(Accepted, Task(c))
  <2>1. Task(c) \in Tasks
    BY <1>4, TaskTyped DEF PostPush
  <2>2. ran \o batch \in Seq(Tasks)
    OBVIOUS
  <2> QED
    BY <1>4, <2>1, <2>2, AppendConcat, SMTT(30) DEF PostPush, Accepted
<1> QED
  BY <1>1, <1>2, <1>3, <1>4 DEF Next, Owner, Start, StartReturns, Stop, StopWake, StopJoin,
     StopClose, Worker, WorkerReady, LoopCheck, Wakeup, Drain, BatchDone, LoopExit,
     Post, PostStep, PostCall, PostReady, PostDrop, PostLook, PostWrite, vars
LEMMA OrderStep ==
  ASSUME TypeInv, LifeInv, OrderInv, [Next]_vars
  PROVE  OrderInv'
<1>0. /\ posts \in [Callers -> Nat] /\ posts' \in [Callers -> Nat]
      /\ poster \in [Callers -> PosterPC] /\ hasFd \in [Callers -> BOOLEAN]
  <2>1. TypeInv'
    BY TypeStep
  <2> QED
    BY <2>1, ConstantsAssumption DEF TypeInv, TypeOK
<1>1. (worker # "run" => batch = << >>)'
  <2> USE DEF LifeInv, OrderInv, queueVars
  <2>1. CASE Owner
    BY <2>1 DEF Owner, Start, StartReturns, Stop, StopWake, StopJoin, StopClose
  <2>2. CASE Worker
    BY <2>2 DEF Worker, WorkerReady, LoopCheck, Wakeup, Drain, Swap, RunTask, BatchDone,
       LoopExit
  <2>3. ASSUME NEW c \in Callers, Post(c) PROVE UNCHANGED <<worker, batch>>
    BY <2>3 DEF Post, PostStep, PostCall, PostReady, PostDrop, PostLook, PostPush, PostWrite
  <2>4. CASE UNCHANGED vars
    BY <2>4 DEF vars
  <2> QED
    BY <2>1, <2>2, <2>3, <2>4 DEF Next
<1>2. Accepted \in Seq(Tasks)
  BY DEF Accepted, TypeInv, TypeOK
\* How one caller's place and count may move.
<1>3. ASSUME NEW d \in Callers
      PROVE  /\ posts[d] <= posts'[d]
             /\ posts'[d] = posts[d] => \/ poster'[d] = poster[d]
                                        \/ poster'[d] \in {"idle", "write"}
                                        \/ poster[d] \in {"await", "look", "push"}
  <2>1. CASE Owner \/ Worker \/ UNCHANGED vars
    <3>1. UNCHANGED <<posts, poster>>
      BY <2>1 DEF Owner, Start, StartReturns, Stop, StopWake, StopJoin, StopClose, Worker,
         WorkerReady, LoopCheck, Wakeup, Drain, Swap, RunTask, BatchDone, LoopExit, vars,
         posterVars
    <3> QED
      BY <1>0, <3>1
  <2>2. ASSUME NEW c \in Callers, PostCall(c)
        PROVE  (posts'[d] = posts[d] /\ poster'[d] = poster[d]) \/ posts'[d] = posts[d] + 1
    BY <1>0, <2>2 DEF PostCall
  <2>3. ASSUME NEW c \in Callers, PostStep(c)
        PROVE  /\ posts'[d] = posts[d]
               /\ \/ poster'[d] = poster[d]
                  \/ poster'[d] \in {"idle", "write"}
                  \/ poster[d] \in {"await", "look", "push"}
    BY <1>0, <2>3 DEF PostStep, PostReady, PostDrop, PostLook, PostPush, PostWrite
  <2> QED
    BY <1>0, <2>1, <2>2, <2>3 DEF Next, Post
<1>4. CASE Accepted' = Accepted
  <2>1. ASSUME NEW i \in DOMAIN Accepted, NEW d, d = Accepted[i][1]
        PROVE  /\ Accepted[i][2] <= posts'[d]
               /\ poster'[d] \in {"await", "look", "push"} => Accepted[i][2] < posts'[d]
    <3>1. d \in Callers /\ Accepted[i][2] \in Nat
      BY <1>2, <2>1 DEF Tasks
    <3>2. /\ Accepted[i][2] <= posts[d]
          /\ poster[d] \in {"await", "look", "push"} => Accepted[i][2] < posts[d]
      BY <2>1 DEF OrderInv
    <3>3. posts[d] \in Nat /\ posts'[d] \in Nat
      BY <1>0, <3>1
    <3> QED
      BY <1>3, <3>1, <3>2, <3>3
  <2> QED
    BY <1>1, <1>4, <2>1 DEF OrderInv
<1>5. ASSUME NEW c \in Callers, PostPush(c), Accepted' = Append(Accepted, Task(c))
      PROVE  OrderInv'
  <2>1. posts' = posts /\ poster[c] = "push" /\ poster'[c] \in {"idle", "write"}
    BY <1>0, <1>5 DEF PostPush
  <2>2. \A d \in Callers : d # c => poster'[d] = poster[d]
    BY <1>0, <1>5 DEF PostPush
  <2>3. Task(c)[1] = c /\ Task(c)[2] = posts[c]
    BY DEF Task
  <2>4. \A i \in DOMAIN Accepted : Accepted[i][1] \in Callers /\ Accepted[i][2] \in Nat
    BY <1>2 DEF Tasks
  <2>5. \A i \in DOMAIN Accepted : Accepted[i][1] = c => Accepted[i][2] < posts[c]
    BY <2>1 DEF OrderInv
  <2>6. /\ DOMAIN Accepted' = DOMAIN Accepted \cup {Len(Accepted) + 1}
        /\ \A i \in DOMAIN Accepted : Accepted'[i] = Accepted[i]
        /\ Accepted'[Len(Accepted) + 1] = Task(c)
        /\ DOMAIN Accepted = 1 .. Len(Accepted)
        /\ Len(Accepted) \in Nat
    BY <1>2, <1>5
  <2>7. ASSUME NEW i \in DOMAIN Accepted', NEW d, d = Accepted'[i][1]
        PROVE  /\ Accepted'[i][2] <= posts'[d]
               /\ poster'[d] \in {"await", "look", "push"} => Accepted'[i][2] < posts'[d]
    <3>1. CASE i = Len(Accepted) + 1
      BY <1>0, <2>1, <2>3, <2>6, <2>7, <3>1
    <3>2. CASE i \in DOMAIN Accepted
      BY <2>1, <2>2, <2>4, <2>6, <2>7, <3>2 DEF OrderInv
    <3> QED
      BY <2>6, <3>1, <3>2
  <2>8. ASSUME NEW i \in DOMAIN Accepted', NEW j \in DOMAIN Accepted', i < j,
               Accepted'[i][1] = Accepted'[j][1]
        PROVE  Accepted'[i][2] < Accepted'[j][2]
    <3>1. CASE j = Len(Accepted) + 1
      BY <2>3, <2>5, <2>6, <2>8, <3>1
    <3>2. CASE j \in DOMAIN Accepted
      BY <2>6, <2>8, <3>2 DEF OrderInv
    <3> QED
      BY <2>6, <3>1, <3>2
  <2> QED
    BY <1>1, <2>7, <2>8 DEF OrderInv
<1> QED
  BY <1>4, <1>5, AcceptedStep

LEMMA InitOrder == Init => LifeInv /\ OrderInv
<1> SUFFICES ASSUME Init PROVE LifeInv /\ OrderInv
  OBVIOUS
<1>1. Accepted = << >>
  BY EmptyConcat DEF Init, Accepted
<1> QED
  BY <1>1 DEF Init, LifeInv, OrderInv

\* The tasks of one caller run in the order of its posts and none runs twice,
\* whatever the batches, the restarts and the posts from inside a task.
THEOREM PostOrderKept == Spec => []RanInPostOrder
<1> DEFINE Inv == TypeInv /\ LifeInv /\ OrderInv
<1>1. Init => Inv
  BY InitType, InitOrder
<1>2. Inv /\ [Next]_vars => Inv'
  BY TypeStep, LifeStep, OrderStep
<1>3. Inv => RanInPostOrder
  <2> SUFFICES ASSUME Inv, NEW i \in DOMAIN ran, NEW j \in DOMAIN ran,
                      i < j, ran[i][1] = ran[j][1]
               PROVE  ran[i][2] < ran[j][2]
    BY DEF RanInPostOrder
  <2>1. /\ i \in DOMAIN Accepted /\ Accepted[i] = ran[i]
        /\ j \in DOMAIN Accepted /\ Accepted[j] = ran[j]
    BY DEF Accepted, TypeInv, TypeOK
  <2> QED
    BY <2>1 DEF OrderInv
<1> QED
  BY <1>1, <1>2, <1>3, PTL DEF Spec

-----------------------------------------------------------------------------
\* A step of the thread is a step of the channel or leaves it as it is: the
\* push under mutex_ accepts, the end of a task runs, the swap is invisible.
LEMMA ChannelStep ==
  ASSUME TypeInv, OrderInv, [Next]_vars
  PROVE  [Channel!Next]_(Channel!vars)
<1> USE DEF TypeInv, TypeOK, queueVars
<1>1. CASE UNCHANGED <<ran, batch, tasks>>
  BY <1>1 DEF Channel!vars
<1>2. CASE Swap
  <2>1. batch = << >> /\ ran' = ran /\ batch' = tasks /\ tasks' = << >>
    BY <1>2 DEF Swap, OrderInv
  <2> QED
    BY <2>1, EmptyConcat DEF Channel!vars
<1>3. CASE RunTask
  <2>1. /\ batch # << >> /\ ran' = Append(ran, Head(batch))
        /\ batch' = Tail(batch) /\ tasks' = tasks
    BY <1>3 DEF RunTask
  <2>2. Channel!Run
    BY <2>1, HeadTailConcat DEF Channel!Run
  <2> QED
    BY <2>2 DEF Channel!Next
<1>4. ASSUME NEW c \in Callers, PostPush(c) PROVE Channel!Next
  <2>1. Task(c) \in Tasks
    BY <1>4, TaskTyped DEF PostPush
  <2>2. (batch \o tasks)' = Append(batch \o tasks, Task(c)) /\ ran' = ran
    BY <1>4, <2>1, AppendConcat, SMTT(30) DEF PostPush
  <2>3. \A i \in DOMAIN Accepted : Accepted[i] # Task(c)
    <3>1. ASSUME NEW i \in DOMAIN Accepted, Accepted[i] = Task(c) PROVE FALSE
      <4>1. Accepted[i][1] = c /\ Accepted[i][2] = posts[c]
        BY <3>1 DEF Task
      <4>2. poster[c] = "push" /\ posts[c] \in Nat
        BY <1>4, ConstantsAssumption DEF PostPush
      <4>3. Accepted[i][2] < posts[c]
        BY <3>1, <4>1, <4>2 DEF OrderInv
      <4> QED
        BY <4>1, <4>2, <4>3
    <3> QED
      BY <3>1
  <2>4. \A i \in DOMAIN ran : ran[i] # Task(c)
    <3>1. \A i \in DOMAIN ran : i \in DOMAIN Accepted /\ Accepted[i] = ran[i]
      BY DEF Accepted
    <3> QED
      BY <2>3, <3>1
  <2>5. \A i \in DOMAIN (batch \o tasks) : (batch \o tasks)[i] # Task(c)
    <3>1. Accepted = ran \o (batch \o tasks)
      BY SMTT(30) DEF Accepted
    <3>2. ASSUME NEW i \in DOMAIN (batch \o tasks)
          PROVE  /\ Len(ran) + i \in DOMAIN Accepted
                 /\ Accepted[Len(ran) + i] = (batch \o tasks)[i]
      BY <3>1, SMTT(30)
    <3> QED
      BY <2>3, <3>2
  <2> QED
    BY <2>1, <2>2, <2>4, <2>5 DEF Channel!Next, Channel!Accept
<1> QED
  BY <1>1, <1>2, <1>3, <1>4 DEF Next, Owner, Start, StartReturns, Stop, StopWake, StopJoin,
     StopClose, Worker, WorkerReady, LoopCheck, Wakeup, Drain, BatchDone, LoopExit,
     Post, PostStep, PostCall, PostReady, PostDrop, PostLook, PostWrite, vars

\* HeartbeatThread implements TaskChannel: to its users it is one FIFO queue
\* that runs every task it accepted at most once.
THEOREM ChannelImplemented == Spec => ImplementsChannel
<1> DEFINE Inv == TypeInv /\ LifeInv /\ OrderInv
<1>1. Init => Inv
  BY InitType, InitOrder
<1>2. Inv /\ [Next]_vars => Inv'
  BY TypeStep, LifeStep, OrderStep
<1>3. Init => Channel!Init
  BY EmptyConcat DEF Init, Channel!Init
<1>4. Inv /\ [Next]_vars => [Channel!Next]_(Channel!vars)
  BY ChannelStep
<1> QED
  BY <1>1, <1>2, <1>3, <1>4, PTL DEF Spec, ImplementsChannel, Channel!Spec
=============================================================================
