-------------------------- MODULE HeartbeatThread --------------------------
(***************************************************************************)
(* One worker thread of the heartbeat pool and the queue other threads     *)
(* post tasks to (src/base/internal/heartbeat_thread.cc, 23-197).          *)
(*                                                                         *)
(* Three kinds of process interleave:                                      *)
(*   - the owner, which calls start() and stop();                          *)
(*   - the worker, which runs event_loop() on a level-triggered wakeup     *)
(*     socket and executes batches of tasks;                               *)
(*   - the posters, which call post().  The worker is itself a poster: a   *)
(*     heart beat that calls set_heart_beat() posts to its own thread.     *)
(* A step is a stretch of code between two points where another process    *)
(* can see or change shared state.                                         *)
(***************************************************************************)
EXTENDS Naturals, Sequences

CONSTANTS
  Posters,      \* threads other than the worker that call post()
  Self,         \* the worker, as a caller of post() from inside a task
  MaxPosts,     \* bound: calls of post() by each caller
  MaxStarts,    \* bound: calls of start()
  SockCap       \* bytes the wakeup socket holds before write() says EAGAIN

ASSUME ConstantsAssumption ==
  /\ Self \notin Posters
  /\ MaxPosts \in Nat
  /\ MaxStarts \in Nat
  /\ SockCap \in Nat \ {0}

Callers == Posters \cup {Self}

\* The n-th task of a caller.
Tasks == Callers \X (1 .. MaxPosts)

VARIABLES
  running,      \* running_
  ready,        \* ready_
  open,         \* wakeup_fds_ are open and base_ exists
  sock,         \* bytes waiting in the wakeup socket
  tasks,        \* tasks_
  batch,        \* the deque swapped out of tasks_, head = task being run
  worker,       \* where the worker thread is
  owner,        \* where the owner is in start()/stop()
  poster,       \* where each caller is in post()
  hasFd,        \* the local has_fd of each post()
  posts,        \* calls of post() so far
  starts,       \* calls of start() so far
  \* history, read by the properties only
  ran,          \* tasks run, in order
  dropped,      \* tasks post() gave up on
  orphans       \* queued tasks no wakeup byte was or will be sent for

ownerVars  == <<owner, starts, running>>
queueVars  == <<tasks, batch, ran>>
posterVars == <<poster, hasFd, posts, dropped>>
vars == <<running, ready, open, sock, tasks, batch, worker, owner, poster,
          hasFd, posts, starts, ran, dropped, orphans>>

WorkerPC == {"none", "init", "check", "poll", "drain", "swap", "run", "exit", "done"}
OwnerPC  == {"down", "await", "up", "wake", "join", "close"}
PosterPC == {"idle", "await", "look", "push", "write"}

Elems(s) == {s[i] : i \in DOMAIN s}

\* The task that caller c is handing over while it is inside post().
Task(c) == <<c, posts[c]>>

\* Mutant: the wakeup byte is written whether or not the socket has room.
WriteByteAlways == sock + 1

\* One byte more, unless the socket buffer is full: EAGAIN drops the byte.
WriteByte == IF sock < SockCap THEN sock + 1 ELSE sock

Init ==
  /\ running = FALSE /\ ready = FALSE /\ open = FALSE /\ sock = 0
  /\ tasks = << >> /\ batch = << >> /\ ran = << >>
  /\ worker = "none" /\ owner = "down" /\ starts = 0
  /\ poster = [c \in Callers |-> "idle"]
  /\ hasFd = [c \in Callers |-> FALSE]
  /\ posts = [c \in Callers |-> 0]
  /\ dropped = {} /\ orphans = {}

-----------------------------------------------------------------------------
(* The owner: start() and stop().                                          *)

\* A fresh base and socketpair, then the thread.  tasks_ is left as it is.
Start ==
  /\ owner = "down" /\ ~running
  /\ starts < MaxStarts
  /\ starts' = starts + 1
  /\ open' = TRUE /\ sock' = 0
  /\ ready' = FALSE /\ running' = TRUE
  /\ worker' = "init"
  /\ owner' = "await"
  /\ UNCHANGED <<queueVars, posterVars, orphans>>

\* start() spins until the thread is ready, or for a second and then warns.
StartReturns ==
  /\ owner = "await"
  /\ owner' = "up"
  /\ UNCHANGED <<running, starts, ready, open, sock, worker, queueVars, posterVars, orphans>>

\* running_.exchange(false): only the first of two stop() calls goes on.
Stop ==
  /\ owner = "up" /\ running
  /\ running' = FALSE
  /\ owner' = "wake"
  /\ UNCHANGED <<starts, ready, open, sock, worker, queueVars, posterVars, orphans>>

\* Mutant: stop() goes straight to join().
StopWakeSilent ==
  /\ owner = "wake"
  /\ owner' = "join"
  /\ UNCHANGED <<running, starts, ready, open, sock, worker, queueVars, posterVars, orphans>>

StopWake ==
  /\ owner = "wake"
  /\ sock' = WriteByte
  /\ owner' = "join"
  /\ UNCHANGED <<running, starts, ready, open, worker, queueVars, posterVars, orphans>>

StopJoin ==
  /\ owner = "join" /\ worker = "done"
  /\ worker' = "none"
  /\ owner' = "close"
  /\ UNCHANGED <<running, starts, ready, open, sock, queueVars, posterVars, orphans>>

\* The socket is closed with whatever is in it; tasks_ keeps what is queued.
StopClose ==
  /\ owner = "close"
  /\ open' = FALSE /\ sock' = 0
  /\ orphans' = orphans \cup Elems(tasks)
  /\ owner' = "down"
  /\ UNCHANGED <<running, starts, ready, worker, queueVars, posterVars>>

-----------------------------------------------------------------------------
(* The worker: event_loop() and process_pending_tasks().                   *)

WorkerReady ==
  /\ worker = "init"
  /\ ready' = TRUE
  /\ worker' = "check"
  /\ UNCHANGED <<ownerVars, open, sock, queueVars, posterVars, orphans>>

\* while (running_ && base_)
LoopCheck ==
  /\ worker = "check"
  /\ worker' = IF running /\ open THEN "poll" ELSE "exit"
  /\ UNCHANGED <<ownerVars, ready, open, sock, queueVars, posterVars, orphans>>

\* event_base_loop(ONCE) blocks until the wakeup socket is readable.
Wakeup ==
  /\ worker = "poll" /\ sock > 0
  /\ worker' = "drain"
  /\ UNCHANGED <<ownerVars, ready, open, sock, queueVars, posterVars, orphans>>

\* read() until there is nothing left: the last read decides.
Drain ==
  /\ worker = "drain"
  /\ sock' = 0
  /\ worker' = "swap"
  /\ UNCHANGED <<ownerVars, ready, open, queueVars, posterVars, orphans>>

\* Mutant: tasks_ is copied instead of swapped.
SwapCopies ==
  /\ worker = "swap"
  /\ batch' = tasks
  /\ worker' = "run"
  /\ UNCHANGED <<ownerVars, ready, open, sock, tasks, ran, posterVars, orphans>>

\* tasks.swap(tasks_) under mutex_.
Swap ==
  /\ worker = "swap"
  /\ batch' = tasks
  /\ tasks' = << >>
  /\ worker' = "run"
  /\ UNCHANGED <<ownerVars, ready, open, sock, ran, posterVars, orphans>>

\* Mutant: an error in a task leaves the loop over the batch.
RunTaskAborts ==
  /\ worker = "run" /\ batch # << >>
  /\ poster[Self] = "idle"
  /\ ran' = Append(ran, Head(batch))
  /\ batch' \in {Tail(batch), << >>}
  /\ UNCHANGED <<ownerVars, worker, ready, open, sock, tasks, posterVars, orphans>>

\* One task ends, normally or by an error that the loop catches.
RunTask ==
  /\ worker = "run" /\ batch # << >>
  /\ poster[Self] = "idle"
  /\ ran' = Append(ran, Head(batch))
  /\ batch' = Tail(batch)
  /\ UNCHANGED <<ownerVars, worker, ready, open, sock, tasks, posterVars, orphans>>

BatchDone ==
  /\ worker = "run" /\ batch = << >>
  /\ worker' = "check"
  /\ UNCHANGED <<ownerVars, ready, open, sock, queueVars, posterVars, orphans>>

LoopExit ==
  /\ worker = "exit"
  /\ ready' = FALSE
  /\ worker' = "done"
  /\ UNCHANGED <<ownerVars, open, sock, queueVars, posterVars, orphans>>

-----------------------------------------------------------------------------
(* A caller: post(task).                                                   *)

\* The worker posts only from inside the task it is running.
MayPost(c) == c = Self => worker = "run" /\ batch # << >>

PostCall(c) ==
  /\ poster[c] = "idle" /\ posts[c] < MaxPosts
  /\ MayPost(c)
  /\ posts' = [posts EXCEPT ![c] = @ + 1]
  /\ poster' = [poster EXCEPT ![c] = "await"]
  /\ UNCHANGED <<ownerVars, ready, open, sock, worker, queueVars, hasFd, dropped, orphans>>

PostReady(c) ==
  /\ poster[c] = "await" /\ ready
  /\ poster' = [poster EXCEPT ![c] = "look"]
  /\ UNCHANGED <<ownerVars, ready, open, sock, worker, queueVars, hasFd, posts, dropped, orphans>>

\* A second has gone by and the thread was never seen ready.
PostDrop(c) ==
  /\ poster[c] = "await" /\ ~ready
  /\ poster' = [poster EXCEPT ![c] = "idle"]
  /\ dropped' = dropped \cup {Task(c)}
  /\ UNCHANGED <<ownerVars, ready, open, sock, worker, queueVars, hasFd, posts, orphans>>

\* has_fd is read before the lock is taken.
PostLook(c) ==
  /\ poster[c] = "look"
  /\ hasFd' = [hasFd EXCEPT ![c] = open]
  /\ poster' = [poster EXCEPT ![c] = "push"]
  /\ UNCHANGED <<ownerVars, ready, open, sock, worker, queueVars, posts, dropped, orphans>>

\* Mutant: only the task that finds the queue empty wakes the worker.
PostPushCoalesced(c) ==
  /\ poster[c] = "push"
  /\ tasks' = Append(tasks, Task(c))
  /\ poster' = [poster EXCEPT ![c] = IF hasFd[c] /\ tasks = << >> THEN "write" ELSE "idle"]
  /\ orphans' = IF hasFd[c] THEN orphans ELSE orphans \cup {Task(c)}
  /\ hasFd' = [hasFd EXCEPT ![c] = FALSE]
  /\ UNCHANGED <<ownerVars, ready, open, sock, worker, batch, ran, posts, dropped>>

\* Mutant: the task goes to the front of the queue.
PostPushFront(c) ==
  /\ poster[c] = "push"
  /\ tasks' = <<Task(c)>> \o tasks
  /\ poster' = [poster EXCEPT ![c] = IF hasFd[c] THEN "write" ELSE "idle"]
  /\ orphans' = IF hasFd[c] THEN orphans ELSE orphans \cup {Task(c)}
  /\ hasFd' = [hasFd EXCEPT ![c] = FALSE]
  /\ UNCHANGED <<ownerVars, ready, open, sock, worker, batch, ran, posts, dropped>>

PostPush(c) ==
  /\ poster[c] = "push"
  /\ tasks' = Append(tasks, Task(c))
  /\ poster' = [poster EXCEPT ![c] = IF hasFd[c] THEN "write" ELSE "idle"]
  /\ orphans' = IF hasFd[c] THEN orphans ELSE orphans \cup {Task(c)}
  /\ hasFd' = [hasFd EXCEPT ![c] = FALSE]     \* not read again
  /\ UNCHANGED <<ownerVars, ready, open, sock, worker, batch, ran, posts, dropped>>

\* The descriptor is read again here: after a stop() the write fails.
PostWrite(c) ==
  /\ poster[c] = "write"
  /\ sock' = IF open THEN WriteByte ELSE sock
  /\ orphans' = IF open THEN orphans ELSE orphans \cup {Task(c)}
  /\ poster' = [poster EXCEPT ![c] = "idle"]
  /\ UNCHANGED <<ownerVars, ready, open, worker, queueVars, hasFd, posts, dropped>>

-----------------------------------------------------------------------------
Owner  == Start \/ StartReturns \/ Stop \/ StopWake \/ StopJoin \/ StopClose
Worker == \/ WorkerReady \/ LoopCheck \/ Wakeup \/ Drain \/ Swap
          \/ RunTask \/ BatchDone \/ LoopExit
PostStep(c) == PostReady(c) \/ PostDrop(c) \/ PostLook(c) \/ PostPush(c) \/ PostWrite(c)
Post(c) == PostCall(c) \/ PostStep(c)

Next == Owner \/ Worker \/ \E c \in Callers : Post(c)

Spec == Init /\ [][Next]_vars

\* The scheduler runs every thread that can run: the worker, a stop() that has
\* begun, and a post() that has begun.  Nobody is obliged to call either.
Fairness == /\ WF_vars(Worker)
            /\ WF_vars(StopWake \/ StopJoin \/ StopClose)
            /\ \A c \in Callers : WF_vars(PostStep(c))

FairSpec == Spec /\ Fairness

-----------------------------------------------------------------------------
(* Properties.                                                             *)

TypeOK ==
  /\ running \in BOOLEAN /\ ready \in BOOLEAN /\ open \in BOOLEAN
  /\ sock \in 0 .. SockCap
  /\ tasks \in Seq(Tasks) /\ batch \in Seq(Tasks) /\ ran \in Seq(Tasks)
  /\ worker \in WorkerPC /\ owner \in OwnerPC /\ starts \in 0 .. MaxStarts
  /\ poster \in [Callers -> PosterPC]
  /\ hasFd \in [Callers -> BOOLEAN]
  /\ posts \in [Callers -> 0 .. MaxPosts]
  /\ dropped \subseteq Tasks /\ orphans \subseteq Tasks

\* Some caller has queued x and is about to send its byte.
ByteComing(x) == \E c \in Callers : poster[c] = "write" /\ x = Task(c)

\* No lost wakeup.  While the worker sleeps on an empty wakeup socket, each
\* task in tasks_ either has a poster that has yet to write its byte, or was
\* orphaned by a stop(): the order drain, then swap in process_pending_tasks
\* and push, then write in post leave no window, whatever bytes EAGAIN drops.
NoLostWakeup ==
  worker = "poll" /\ sock = 0 =>
    \A i \in DOMAIN tasks : tasks[i] \in orphans \/ ByteComing(tasks[i])

\* Tasks of one caller run in the order in which it posted them, and none of
\* them runs twice: across batches, restarts and self-posts.
RanInPostOrder ==
  \A i, j \in DOMAIN ran :
    i < j /\ ran[i][1] = ran[j][1] => ran[i][2] < ran[j][2]

\* Once a task is in the queue of a thread that goes on running, it is run,
\* unless it is an orphan: that is the comment on EAGAIN in post().
QueuedRuns ==
  \A x \in Tasks :
    x \in Elems(tasks) /\ x \notin orphans
      ~> x \in Elems(ran) \/ x \in orphans \/ ~running

\* Nobody waits for ever.  stop() returns: the worker sees running_ false and
\* can be joined, even when its wakeup socket is full and its tasks keep
\* posting; and post() returns, to the worker that posts to itself as well.
CallsReturn ==
  /\ owner = "wake" ~> owner = "down"
  /\ \A c \in Callers : poster[c] # "idle" ~> poster[c] = "idle"

\* The queue with its batches implements the plain channel.
Channel == INSTANCE TaskChannel WITH pending <- batch \o tasks
ImplementsChannel == Channel!Spec
=============================================================================
