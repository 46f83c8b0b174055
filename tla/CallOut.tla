------------------------------ MODULE CallOut ------------------------------
(***************************************************************************)
(* call_out(): the tick queue of the main thread (src/backend.cc) and the  *)
(* two maps from handles and objects to pending calls                      *)
(* (src/packages/core/call_out.cc).  A due call of a function pointer is   *)
(* made on the main thread; a due call of a named function is posted to    *)
(* the worker that owns the object.  inbox[t] is the task queue of worker  *)
(* t, the FIFO of TaskChannel.                                             *)
(*                                                                         *)
(* LPC code runs on the main thread between events and inside the calls    *)
(* made there, and on a worker inside the calls posted to it.  A pending   *)
(* call that was freed keeps its contents in the model; the memory of a    *)
(* deleted event may be given to a later one if ReuseEvents says so.       *)
(***************************************************************************)
EXTENDS Integers, Sequences

CONSTANTS
  Objects,
  NumThreads,     \* size of the worker pool
  Shard,          \* thread_for_object
  Main,           \* the main thread
  Names,          \* functions called by name
  Special,        \* those whose name begins with APPLY___INIT_SPECIAL_CHAR
  Pointer,        \* stands for a function pointer
  Callers,        \* threads whose LPC code uses the call_out efuns
  Requests,       \* what call_out() is asked for: function, delay in ticks, clock
  NumArgs,        \* arguments given to every call_out()
  NestLimit,      \* __RC_CALL_OUT_ZERO_NEST_LEVEL__
  UniqueMax,      \* 0xffffffff
  ReuseEvents,    \* the allocator reuses the memory of a deleted TickEvent
  MaxCalls,       \* bound: calls of call_out()
  MaxTick         \* bound: game ticks

Threads == 0 .. (NumThreads - 1)
Actors  == Threads \cup {Main}
Calls   == 1 .. MaxCalls
None    == 0                  \* no call

ASSUME CallOutAssumption ==
  /\ NumThreads \in Nat \ {0}
  /\ Shard \in [Objects -> Threads]
  /\ Main \notin Threads /\ Callers \subseteq Actors
  /\ Pointer \notin Names /\ Special \subseteq Names
  /\ Requests \subseteq [fun : Names \cup {Pointer}, delay : Nat, walltime : BOOLEAN]
  /\ NumArgs \in Nat /\ ReuseEvents \in BOOLEAN
  /\ NestLimit \in Nat \ {0} /\ UniqueMax \in Nat \ {0}
  /\ MaxCalls \in Nat /\ MaxTick \in Nat

VARIABLES
  tick,         \* g_current_gametick
  main,         \* where the main thread is, and in which call
  event,        \* the TickEvent of each call: where it is, when it is due
  inserts,      \* events inserted so far
  call,         \* the pending_call_t records
  made,         \* records allocated so far
  handles,      \* g_callout_handle_map
  owners,       \* g_callout_object_handle_map
  unique,
  zeroTick,     \* new_call_out_zero_last_gametick
  zeroCount,    \* new_call_out_zero_scheduled_on_this_gametick
  efun,         \* the new_call_out() a thread is inside
  inbox,        \* calls posted to each worker
  work,         \* the call each worker is making
  depth,        \* values on the evaluation stack of each thread
  destructed,   \* O_DESTRUCTED
  \* history, read by the properties only
  ran,          \* calls made, in order
  removed       \* calls taken back

mapVars  == <<handles, owners>>
newVars  == <<call, made, unique, zeroTick, zeroCount, efun, inserts>>
runVars  == <<inbox, work, depth, ran>>
vars == <<tick, main, event, mapVars, newVars, runVars, destructed, removed>>

NoEfun == [step |-> "none"]
NoEvent == [where |-> "none", key |-> 0, stamp |-> 0, valid |-> FALSE]
InLoop == [pc |-> "loop", call |-> None, back |-> "loop"]

Init ==
  /\ tick = 0 /\ main = InLoop
  /\ event = [c \in Calls |-> NoEvent] /\ inserts = 0
  /\ call = << >> /\ made = 0
  /\ handles = << >> /\ owners = {}
  /\ unique = 1 /\ zeroTick = 0 /\ zeroCount = 0
  /\ efun = [a \in Actors |-> NoEfun]
  /\ inbox = [t \in Threads |-> << >>] /\ work = [t \in Threads |-> None]
  /\ depth = [a \in Actors |-> 0]
  /\ destructed = [o \in Objects |-> FALSE]
  /\ ran = << >> /\ removed = {}

-----------------------------------------------------------------------------
(* new_call_out(), on any thread that is executing LPC code.               *)

RunsLPC(a) == IF a = Main THEN main.pc \in {"loop", "lpc"} ELSE work[a] # None
Free(a) == RunsLPC(a) /\ efun[a] = NoEfun

\* The call_out(0) counter starts again on a new tick.
ZeroUses == IF tick = zeroTick THEN zeroCount + 1 ELSE 1

TooNested == tick = zeroTick /\ zeroCount >= NestLimit

NewCallOut(a, o, r) ==
  /\ Free(a) /\ ~destructed[o]
  /\ made < MaxCalls /\ tick + r.delay <= MaxTick
  /\ r.delay = 0 => ~TooNested
  /\ zeroTick' = IF r.delay = 0 THEN tick ELSE zeroTick
  /\ zeroCount' = IF r.delay = 0 THEN ZeroUses ELSE zeroCount
  /\ made' = made + 1
  /\ call' = Append(call, [ob |-> o, fun |-> r.fun, delay |-> r.delay, walltime |-> r.walltime,
                           due |-> IF r.walltime THEN 0 ELSE tick + r.delay,
                           born |-> tick, handle |-> 0])
  \* ++unique is a load and a store: this is the load
  /\ efun' = [efun EXCEPT ![a] = [step |-> "map", call |-> made + 1, u |-> unique + 1]]
  /\ UNCHANGED <<tick, main, event, mapVars, unique, inserts, runVars, destructed, removed>>

\* error("Nesting call_out(0) level limit exceeded"): the counter has moved.
RefuseCallOut(a) ==
  /\ Free(a) /\ TooNested
  /\ zeroCount = NestLimit      \* bound: once a tick
  /\ zeroCount' = zeroCount + 1
  /\ UNCHANGED <<tick, main, event, mapVars, call, made, unique, zeroTick, efun, inserts,
                 runVars, destructed, removed>>

\* insert() leaves a handle that is there already.
MapCallOut(a) ==
  /\ efun[a].step = "map"
  /\ LET c == efun[a].call
         h == tick + efun[a].u
     IN /\ call' = [call EXCEPT ![c].handle = h]
        /\ handles' = [x \in DOMAIN handles \cup {h} |->
                         IF x \in DOMAIN handles THEN handles[x] ELSE c]
        /\ owners' = owners \cup {<<call[c].ob, h>>}
  /\ unique' = IF efun[a].u > UniqueMax THEN 1 ELSE efun[a].u
  /\ efun' = [efun EXCEPT ![a].step = "event"]
  /\ UNCHANGED <<tick, main, event, made, zeroTick, zeroCount, inserts, runVars, destructed, removed>>

\* Mutant: the delay is rounded down to a tick less.
EventKeyEarly(c) == tick + call[c].delay - 1

EventKey(c) == tick + call[c].delay

\* add_gametick_event() or add_walltime_event().
AddEvent(a) ==
  /\ efun[a].step = "event"
  /\ LET c == efun[a].call IN
       event' = [event EXCEPT ![c] =
                   [where |-> IF call[c].walltime THEN "timer" ELSE "queue",
                    key |-> EventKey(c), stamp |-> inserts + 1, valid |-> TRUE]]
  /\ inserts' = inserts + 1
  /\ efun' = [efun EXCEPT ![a] = NoEfun]
  /\ UNCHANGED <<tick, main, mapVars, call, made, unique, zeroTick, zeroCount, runVars,
                 destructed, removed>>

-----------------------------------------------------------------------------
(* Taking calls back.                                                      *)

Erase(f, S) == [x \in DOMAIN f \ S |-> f[x]]

\* Mutant: the event is not marked.
FreeCallsQuietly(S) == removed' = removed \cup S /\ UNCHANGED event

\* free_call(): the event stays with the tick loop, which will skip it.
FreeCalls(S) ==
  /\ event' = [c \in Calls |-> IF c \in S /\ event[c].where # "none"
                               THEN [event[c] EXCEPT !.valid = FALSE] ELSE event[c]]
  /\ removed' = removed \cup S

Garbage(o) == {p \in owners : p[1] = o /\ p[2] \notin DOMAIN handles}
Owned(o) == {h \in DOMAIN handles : <<o, h>> \in owners}
Matches(o, f) == {h \in Owned(o) : call[handles[h]].ob = o /\ call[handles[h]].fun = f}

\* remove_call_out(name) takes the first match in the order of the hash map,
\* pruning the dead entries it passes.
RemoveCallOut(a, o, f) ==
  /\ Free(a)
  /\ \E h \in Matches(o, f), G \in SUBSET Garbage(o) :
       /\ FreeCalls({handles[h]})
       /\ handles' = Erase(handles, {h})
       /\ owners' = owners \ (G \cup {<<o, h>>})
  /\ UNCHANGED <<tick, main, newVars, runVars, destructed>>

\* remove_call_out(handle)
RemoveByHandle(a, h) ==
  /\ Free(a)
  /\ h # 0 /\ h >= unique /\ h \in DOMAIN handles
  /\ FreeCalls({handles[h]})
  /\ handles' = Erase(handles, {h})
  /\ UNCHANGED <<tick, main, owners, newVars, runVars, destructed>>

\* remove_call_out() and reload_object().
RemoveAll(a, o) ==
  /\ Free(a)
  /\ LET H == {h \in Owned(o) : call[handles[h]].ob = o \/ destructed[call[handles[h]].ob]} IN
       /\ FreeCalls({handles[h] : h \in H})
       /\ handles' = Erase(handles, H)
       /\ owners' = owners \ (Garbage(o) \cup {<<o, h>> : h \in H})
  /\ UNCHANGED <<tick, main, newVars, runVars, destructed>>

\* find_call_out(name) and a remove_call_out(name) that finds nothing prune
\* the dead entries they pass.
FindCallOut(a, o, f) ==
  /\ Free(a)
  /\ \E G \in SUBSET Garbage(o) :
       /\ Matches(o, f) = {} => G = Garbage(o)
       /\ owners' = owners \ G
  /\ UNCHANGED <<tick, main, event, handles, newVars, runVars, destructed, removed>>

\* reclaim_call_outs(), from a tick event or from an efun.
ReclaimCallOuts(a) ==
  /\ Free(a)
  /\ LET H == {h \in DOMAIN handles : destructed[call[handles[h]].ob]} IN
       /\ FreeCalls({handles[h] : h \in H})
       /\ handles' = Erase(handles, H)
       /\ owners' = {p \in owners : p[2] \in DOMAIN handles \ H}
  /\ UNCHANGED <<tick, main, newVars, runVars, destructed>>

\* destruct_object() leaves the calls of the object where they are.
DestructObject(a, o) ==
  /\ Free(a) /\ ~destructed[o]
  /\ destructed' = [destructed EXCEPT ![o] = TRUE]
  /\ UNCHANGED <<tick, main, event, mapVars, newVars, runVars, removed>>

-----------------------------------------------------------------------------
(* The main thread: on_game_tick(), on_walltime_event() and call_out().    *)

MainIdle == main = InLoop /\ efun[Main] = NoEfun
At(where) == {c \in Calls : event[c].where = where}
\* Mutant: lower_bound() of the next tick but one.
EligibleEarly == {c \in At("queue") : event[c].key <= tick + 1}

Eligible == {c \in At("queue") : event[c].key <= tick}

\* Mutant: the newest of equal keys first.
BeforeNewest(c, d) == \/ event[c].key < event[d].key
                      \/ event[c].key = event[d].key /\ event[c].stamp > event[d].stamp

\* The order of the multimap: by key, equal keys in order of insertion.
Before(c, d) == \/ event[c].key < event[d].key
                \/ event[c].key = event[d].key /\ event[c].stamp < event[d].stamp

MoveTo(S, where) == [c \in Calls |-> IF c \in S THEN [event[c] EXCEPT !.where = where] ELSE event[c]]

GameTick ==
  /\ MainIdle /\ tick <= MaxTick
  /\ main' = [main EXCEPT !.pc = "tick"]
  /\ UNCHANGED <<tick, event, mapVars, newVars, runVars, destructed, removed>>

\* all_events takes the eligible events out of the queue.
ExtractEvents ==
  /\ main.pc = "tick" /\ At("batch") = {} /\ Eligible # {}
  /\ event' = MoveTo(Eligible, "batch")
  /\ UNCHANGED <<tick, main, mapVars, newVars, runVars, destructed, removed>>

\* Mutant: the handler stays in its loop.
TickDoneStays ==
  /\ main.pc = "tick" /\ At("batch") = {} /\ Eligible = {}
  /\ tick' = tick + 1
  /\ UNCHANGED <<main, event, mapVars, newVars, runVars, destructed, removed>>

TickDone ==
  /\ main.pc = "tick" /\ At("batch") = {} /\ Eligible = {}
  /\ tick' = tick + 1
  /\ main' = InLoop
  /\ UNCHANGED <<event, mapVars, newVars, runVars, destructed, removed>>

\* delete event; its stamp now says which events are younger than its end.
Delete(S) == [c \in Calls |-> IF c \in S THEN [NoEvent EXCEPT !.where = "deleted", !.stamp = inserts]
                              ELSE event[c]]

\* Mutant: an event that is not valid ends the batch.
DispatchStops(c, back) ==
  /\ event' = IF event[c].valid THEN MoveTo({c}, "running") ELSE Delete(At("batch"))
  /\ main' = IF event[c].valid THEN [pc |-> "call", call |-> c, back |-> back] ELSE main
  /\ UNCHANGED <<tick, mapVars, newVars, runVars, destructed, removed>>

\* if (event->valid) event->callback(); the event is deleted afterwards.
Dispatch(c, back) ==
  /\ event' = IF event[c].valid THEN MoveTo({c}, "running") ELSE Delete({c})
  /\ main' = IF event[c].valid THEN [pc |-> "call", call |-> c, back |-> back] ELSE main
  /\ UNCHANGED <<tick, mapVars, newVars, runVars, destructed, removed>>

RunEvent(c) ==
  /\ main.pc = "tick" /\ c \in At("batch")
  /\ \A d \in At("batch") : ~Before(d, c)
  /\ Dispatch(c, "tick")

\* A libevent timer: the clock is not modelled, so it may fire any time.
FireTimer(c) == MainIdle /\ c \in At("timer") /\ Dispatch(c, "loop")

\* The callback returns, and the loop deletes the event.
Return(c) ==
  /\ event' = Delete({c})
  /\ main' = [InLoop EXCEPT !.pc = main.back]

Dropped(c) == destructed[call[c].ob] \/ call[c].fun \in Special

\* call_out() takes the call out of the handle map ...
CallOutDropped ==
  /\ main.pc = "call"
  /\ LET c == main.call IN
       /\ Dropped(c)
       /\ handles' = Erase(handles, {call[c].handle})
       /\ removed' = removed \cup {c}
       /\ Return(c)
  /\ UNCHANGED <<tick, owners, newVars, runVars, destructed>>

\* ... and posts a named function, with the arguments left on its own stack,
CallOutPosted ==
  /\ main.pc = "call"
  /\ LET c == main.call IN
       /\ ~Dropped(c) /\ call[c].fun # Pointer
       /\ handles' = Erase(handles, {call[c].handle})
       /\ inbox' = [inbox EXCEPT ![Shard[call[c].ob]] = Append(@, c)]
       /\ depth' = [depth EXCEPT ![Main] = @ + NumArgs]
       /\ Return(c)
  /\ UNCHANGED <<tick, owners, newVars, work, ran, destructed, removed>>

\* ... or calls the function pointer, which consumes its arguments.
CallOutInline ==
  /\ main.pc = "call"
  /\ LET c == main.call IN
       /\ ~Dropped(c) /\ call[c].fun = Pointer
       /\ handles' = Erase(handles, {call[c].handle})
       /\ ran' = Append(ran, c)
  /\ main' = [main EXCEPT !.pc = "lpc"]
  /\ UNCHANGED <<tick, event, owners, newVars, inbox, work, depth, destructed, removed>>

InlineDone ==
  /\ main.pc = "lpc" /\ efun[Main] = NoEfun
  /\ Return(main.call)
  /\ UNCHANGED <<tick, mapVars, newVars, runVars, destructed, removed>>

-----------------------------------------------------------------------------
(* Worker t: the task call_out() posted.                                   *)

\* free_called_call() on a worker writes to an event the main thread may have
\* deleted by then, and whose memory may hold a younger event.
FreeCalled(c) ==
  \/ UNCHANGED event
  \/ /\ ReuseEvents /\ event[c].where = "deleted"
     /\ \E d \in At("queue") \cup At("batch") \cup At("timer") :
          /\ event[d].stamp > event[c].stamp
          /\ event' = [event EXCEPT ![d].valid = FALSE]

TaskDropped(t) ==
  /\ work[t] = None /\ inbox[t] # << >>
  /\ destructed[call[Head(inbox[t])].ob]
  /\ inbox' = [inbox EXCEPT ![t] = Tail(@)]
  /\ removed' = removed \cup {Head(inbox[t])}
  /\ FreeCalled(Head(inbox[t]))
  /\ UNCHANGED <<tick, main, mapVars, newVars, work, depth, ran, destructed>>

\* safe_apply() takes num_callout_args values off the stack of this thread.
TaskBegins(t) ==
  /\ work[t] = None /\ inbox[t] # << >>
  /\ ~destructed[call[Head(inbox[t])].ob]
  /\ inbox' = [inbox EXCEPT ![t] = Tail(@)]
  /\ work' = [work EXCEPT ![t] = Head(inbox[t])]
  /\ depth' = [depth EXCEPT ![t] = @ - NumArgs]
  /\ ran' = Append(ran, Head(inbox[t]))
  /\ UNCHANGED <<tick, main, event, mapVars, newVars, destructed, removed>>

TaskEnds(t) ==
  /\ work[t] # None /\ efun[t] = NoEfun
  /\ work' = [work EXCEPT ![t] = None]
  /\ FreeCalled(work[t])
  /\ UNCHANGED <<tick, main, mapVars, newVars, inbox, depth, ran, destructed, removed>>

-----------------------------------------------------------------------------
Efun(a) ==
  \/ \E o \in Objects :
       \/ \E r \in Requests : NewCallOut(a, o, r)
       \/ \E f \in Names : RemoveCallOut(a, o, f) \/ FindCallOut(a, o, f)
       \/ RemoveAll(a, o) \/ DestructObject(a, o)
  \/ \E h \in DOMAIN handles : RemoveByHandle(a, h)
  \/ RefuseCallOut(a) \/ ReclaimCallOuts(a)

EfunStep(a) == MapCallOut(a) \/ AddEvent(a)

MainStep ==
  \/ GameTick \/ ExtractEvents \/ TickDone
  \/ \E c \in Calls : RunEvent(c) \/ FireTimer(c)
  \/ CallOutDropped \/ CallOutPosted \/ CallOutInline \/ InlineDone

WorkerStep(t) == TaskDropped(t) \/ TaskBegins(t) \/ TaskEnds(t)

Next == \/ \E a \in Callers : Efun(a)
        \/ \E a \in Actors : EfunStep(a)
        \/ MainStep
        \/ \E t \in Threads : WorkerStep(t)

Spec == Init /\ [][Next]_vars

\* The event loop goes on, the workers run, and the evaluation limit ends
\* every LPC function.  A timer that is due fires.
Fairness == /\ WF_vars(MainStep) /\ \A c \in Calls : WF_vars(FireTimer(c))
            /\ \A a \in Actors : WF_vars(EfunStep(a))
            /\ \A t \in Threads : WF_vars(WorkerStep(t))

FairSpec == Spec /\ Fairness

-----------------------------------------------------------------------------
Made == {ran[i] : i \in DOMAIN ran}
Pending == (1 .. made) \ (Made \cup removed)
InSetup == {efun[a].call : a \in {b \in Actors : efun[b] # NoEfun}}
Mapped == {c \in 1 .. made : call[c].handle \in DOMAIN handles /\ handles[call[c].handle] = c}
Queued == {c \in At("queue") \cup At("batch") \cup At("timer") : event[c].valid}
BeingMade == {c \in Calls : main.pc = "call" /\ main.call = c}

Records == [ob : Objects, fun : Names \cup {Pointer}, delay : {r.delay : r \in Requests}, walltime : BOOLEAN,
            due : 0 .. MaxTick, born : 0 .. MaxTick + 1, handle : Nat]
Efuns == [step : {"map", "event"}, call : Calls, u : Nat] \cup {NoEfun}
Places == {"none", "queue", "batch", "timer", "running", "deleted"}
Events == [where : Places, key : Nat, stamp : Nat, valid : BOOLEAN]

TypeOK ==
  /\ tick \in 0 .. MaxTick + 1
  /\ main \in [pc : {"loop", "tick", "call", "lpc"}, call : Calls \cup {None}, back : {"loop", "tick"}]
  /\ event \in [Calls -> Events]
  /\ inserts \in Nat /\ made \in 0 .. MaxCalls
  /\ call \in Seq(Records) /\ Len(call) = made
  /\ DOMAIN handles \subseteq Nat /\ \A h \in DOMAIN handles : handles[h] \in 1 .. made
  /\ owners \subseteq Objects \X Nat
  /\ unique \in Nat /\ zeroTick \in 0 .. MaxTick + 1 /\ zeroCount \in Nat
  /\ efun \in [Actors -> Efuns]
  /\ inbox \in [Threads -> Seq(Calls)] /\ work \in [Threads -> Calls \cup {None}]
  /\ depth \in [Actors -> Int] /\ destructed \in [Objects -> BOOLEAN]
  /\ ran \in Seq(Calls) /\ removed \subseteq Calls

\* With the efuns called on the main thread only, the two maps and the tick
\* queue always tell the same story: outside new_call_out() a call has a
\* handle exactly while its event may still make it, and every handle can be
\* found from the object that owns it, whatever was removed, reclaimed,
\* destructed or is just being made.  A call that lost its handle could not be
\* taken back; a handle that outlived its call would free it a second time.
MapsAgree ==
  /\ Mapped \ InSetup = (Queued \cup BeingMade) \ InSetup
  /\ \A h \in DOMAIN handles :
       /\ call[handles[h]].handle = h
       /\ <<call[handles[h]].ob, h>> \in owners

\* Named functions of one object run in the order in which they are due, those
\* due together in the order of call_out(), through the tick queue, the batches
\* of call_tick_events() and the task queue of the worker.
RunsInOrder ==
  \A j \in DOMAIN ran : \A i \in 1 .. j - 1 :
    LET c == ran[i]  d == ran[j] IN
      /\ call[c].ob = call[d].ob
      /\ {call[c].fun, call[d].fun} \subseteq Names
      /\ ~call[c].walltime /\ ~call[d].walltime
      => \/ call[c].due < call[d].due
         \/ call[c].due = call[d].due /\ c < d

\* What the efun promises: made once, not before it is due, never once
\* cancelled (DelayedCalls).
Promise == INSTANCE DelayedCalls WITH
  Times <- 0 .. MaxTick, now <- tick, pending <- Pending, made <- Made, cancelled <- removed,
  due <- [c \in Calls |-> IF c <= made THEN call[c].due ELSE 0]
ImplementsDelayedCalls == Promise!Spec

\* Every call that was scheduled is made or taken back in the end; the call of
\* a destructed object counts as taken back.
PendingRuns == \A c \in Calls : (c <= made) ~> (c \in Made \cup removed)

\* With the efuns called on workers too, and ticks passing between the three
\* times new_call_out() reads the clock, a call is still made once at most and
\* never before its target_time.
OnceAndNotEarly ==
  /\ \A i, j \in DOMAIN ran : ran[i] = ran[j] => i = j
  /\ \A c \in Made : call[c].due <= tick

\* docs/efun/calls/call_out.md: the call takes place "with each of the arguments
\* <arg> provided": the stack of the thread that makes it must hold them.
ArgsProvided == \A t \in Threads : depth[t] >= 0
=============================================================================
