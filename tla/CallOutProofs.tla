--------------------------- MODULE CallOutProofs ---------------------------
(***************************************************************************)
(* Proofs about CallOut, for any objects, workers, requests and threads    *)
(* that use the efuns.                                                     *)
(***************************************************************************)
EXTENDS CallOut, SequenceTheorems, TLAPS

\* The calls that exist, and whose records therefore may be read.
Existing == 1 .. made

\* Everything that names a call names one that exists, a call is in setup in
\* one thread at most and without an event, and the main thread is inside a
\* tick only before the last one.
RefersInv ==
  /\ \A c \in Calls : c \notin Existing => event[c].where = "none"
  /\ main.pc \in {"call", "lpc"} => main.call \in Existing
  /\ main.pc \in {"call", "lpc"} => event[main.call].where = "running"
  /\ main.pc = "tick" \/ main.back = "tick" => tick <= MaxTick
  /\ \A t \in Threads : work[t] # None => work[t] \in Existing
  /\ \A a \in Actors : efun[a] # NoEfun =>
       /\ efun[a] \in [step : {"map", "event"}, call : Calls, u : Nat]
       /\ efun[a].call \in Existing /\ event[efun[a].call].where = "none"
       /\ \A b \in Actors : efun[b] # NoEfun /\ efun[b].call = efun[a].call => a = b

\* Where a call is on its way from the event to the function: it is in one task
\* queue and once, and when it was made it is in none any more.
OnceInv ==
  /\ \A t \in Threads : \A i \in DOMAIN inbox[t] :
       /\ inbox[t][i] \in Existing /\ event[inbox[t][i]].where = "deleted"
       /\ inbox[t][i] \notin Made
       /\ \A u \in Threads : \A j \in DOMAIN inbox[u] :
            inbox[t][i] = inbox[u][j] => t = u /\ i = j
  /\ \A c \in Made : c \in Existing /\ event[c].where \in {"running", "deleted"}
  /\ main.pc = "call" => main.call \notin Made
  /\ \A i, j \in DOMAIN ran : ran[i] = ran[j] => i = j

\* A call that has left the queue is due.
DueInv ==
  /\ \A c \in 1 .. made :
       /\ call[c].due <= tick + call[c].delay
       /\ call[c].walltime => call[c].due = 0
       /\ event[c].where = "queue" => call[c].due <= event[c].key
       /\ event[c].where = "timer" => call[c].due = 0
       /\ event[c].where \in {"batch", "running"} => call[c].due <= tick
       /\ c \in Made => call[c].due <= tick
  /\ \A t \in Threads : \A i \in DOMAIN inbox[t] : call[inbox[t][i]].due <= tick

CallInv == TypeOK /\ RefersInv /\ OnceInv /\ DueInv

\* The places and keys of all events stay as they are.
EventsStay == \A c \in Calls : event'[c].where = event[c].where /\ event'[c].key = event[c].key

-----------------------------------------------------------------------------
\* A thread inside new_call_out() and the record it works on.
LEMMA SetupType ==
  ASSUME TypeOK, RefersInv, NEW a \in Actors, efun[a].step \in {"map", "event"}
  PROVE  /\ efun[a] # NoEfun
         /\ efun[a] \in [step : {"map", "event"}, call : Calls, u : Nat]
         /\ efun[a].call \in 1 .. made /\ efun[a].call \in Calls
         /\ call[efun[a].call] \in Records
<1>1. efun[a] # NoEfun
  BY DEF NoEfun
<1>2. efun[a] \in [step : {"map", "event"}, call : Calls, u : Nat] /\ efun[a].call \in 1 .. made
  BY <1>1 DEF RefersInv, Existing
<1> QED
  BY <1>1, <1>2 DEF TypeOK

LEMMA ExistingCalls == TypeOK => Existing \subseteq Calls
BY CallOutAssumption DEF TypeOK, Existing, Calls

LEMMA DelayType == \A r \in Requests : r.fun \in Names \cup {Pointer} /\ r.delay \in Nat /\ r.walltime \in BOOLEAN
  BY CallOutAssumption

LEMMA RecordType == \A x \in Records : x.delay \in Nat /\ x.due \in Nat
  BY DelayType, CallOutAssumption DEF Records

\* The two ways of writing one field of an event.
LEMMA EventFields ==
  ASSUME NEW e \in Events
  PROVE  /\ [e EXCEPT !.valid = FALSE] \in Events
         /\ [e EXCEPT !.valid = FALSE].where = e.where /\ [e EXCEPT !.valid = FALSE].key = e.key
         /\ \A w \in Places : /\ [e EXCEPT !.where = w] \in Events
                             /\ [e EXCEPT !.where = w].where = w /\ [e EXCEPT !.where = w].key = e.key
BY DEF Events

LEMMA InitType == Init => TypeOK
<1> SUFFICES ASSUME Init PROVE TypeOK
  OBVIOUS
<1> USE CallOutAssumption DEF Init
<1>1. tick \in 0 .. MaxTick + 1 /\ inserts \in Nat /\ made \in 0 .. MaxCalls
  OBVIOUS
<1>2. main \in [pc : {"loop", "tick", "call", "lpc"}, call : Calls \cup {None}, back : {"loop", "tick"}]
  BY DEF InLoop
<1>3. event \in [Calls -> Events]
  BY DEF NoEvent, Events, Places
<1>4. call \in Seq(Records) /\ Len(call) = made
  OBVIOUS
<1>5. DOMAIN handles \subseteq Nat /\ \A h \in DOMAIN handles : handles[h] \in 1 .. made
  OBVIOUS
<1>6. unique \in Nat /\ zeroTick \in 0 .. MaxTick + 1 /\ zeroCount \in Nat /\ owners \subseteq Objects \X Nat
  OBVIOUS
<1>7. efun \in [Actors -> Efuns]
  BY DEF Efuns
<1>8. /\ inbox \in [Threads -> Seq(Calls)] /\ work \in [Threads -> Calls \cup {None}]
      /\ depth \in [Actors -> Int] /\ destructed \in [Objects -> BOOLEAN]
      /\ ran \in Seq(Calls) /\ removed \subseteq Calls
  OBVIOUS
<1> QED
  BY <1>1, <1>2, <1>3, <1>4, <1>5, <1>6, <1>7, <1>8 DEF TypeOK

LEMMA EfunType == ASSUME TypeOK, RefersInv, NEW a \in Callers, Efun(a) PROVE TypeOK'
<1> USE CallOutAssumption DEF TypeOK, mapVars, newVars, runVars
<1>1. a \in Actors
  OBVIOUS
<1>2. ASSUME NEW S \in SUBSET (1 .. made), FreeCalls(S)
      PROVE  event' \in [Calls -> Events] /\ removed' \subseteq Calls
  <2>1. S \subseteq Calls
    BY DEF Calls
  <2>2. removed' \subseteq Calls
    BY <1>2, <2>1 DEF FreeCalls
  <2>3. event' \in [Calls -> Events]
    BY <1>2, EventFields DEF FreeCalls
  <2> QED
    BY <2>2, <2>3
<1>3. ASSUME NEW S, handles' = Erase(handles, S), made' = made
      PROVE  DOMAIN handles' \subseteq Nat /\ \A h \in DOMAIN handles' : handles'[h] \in 1 .. made'
  BY <1>3 DEF Erase
<1>4. ASSUME NEW o \in Objects, NEW r \in Requests, NewCallOut(a, o, r) PROVE TypeOK'
  <2> DEFINE rec == [ob |-> o, fun |-> r.fun, delay |-> r.delay, walltime |-> r.walltime,
                     due |-> IF r.walltime THEN 0 ELSE tick + r.delay, born |-> tick, handle |-> 0]
  <2>1. r.fun \in Names \cup {Pointer} /\ r.delay \in Nat /\ r.walltime \in BOOLEAN
    BY DelayType
  <2>2. rec \in Records
    <3>1. (IF r.walltime THEN 0 ELSE tick + r.delay) \in 0 .. MaxTick
      BY <1>4, <2>1 DEF NewCallOut
    <3>2. r.delay \in {q.delay : q \in Requests}
      OBVIOUS
    <3> QED
      BY <2>1, <3>1, <3>2 DEF Records
  <2>3. call' = Append(call, rec) /\ made' = made + 1
    BY <1>4 DEF NewCallOut
  <2>4. call' \in Seq(Records) /\ Len(call') = made'
    BY <2>2, <2>3, AppendProperties
  <2>5. made' \in 0 .. MaxCalls /\ made + 1 \in Calls
    BY <1>4, <2>3 DEF NewCallOut, Calls
  <2>6. efun' \in [Actors -> Efuns]
    <3>1. [step |-> "map", call |-> made + 1, u |-> unique + 1] \in Efuns
      BY <2>5 DEF Efuns
    <3>2. efun' = [efun EXCEPT ![a] = [step |-> "map", call |-> made + 1, u |-> unique + 1]]
      BY <1>4 DEF NewCallOut
    <3> QED
      BY <1>1, <3>1, <3>2
  <2>7. zeroTick' \in 0 .. MaxTick + 1 /\ zeroCount' \in Nat
    BY <1>4 DEF NewCallOut, ZeroUses
  <2>8. DOMAIN handles' \subseteq Nat /\ \A h \in DOMAIN handles' : handles'[h] \in 1 .. made'
    BY <1>4, <2>3 DEF NewCallOut
  <2> QED
    BY <1>4, <2>4, <2>5, <2>6, <2>7, <2>8 DEF NewCallOut
<1>5. ASSUME NEW o \in Objects, NEW f \in Names, RemoveCallOut(a, o, f) PROVE TypeOK'
  <2>1. PICK h \in Matches(o, f), G \in SUBSET Garbage(o) :
          /\ FreeCalls({handles[h]})
          /\ handles' = Erase(handles, {h})
          /\ owners' = owners \ (G \cup {<<o, h>>})
    BY <1>5 DEF RemoveCallOut
  <2>2. {handles[h]} \in SUBSET (1 .. made)
    BY <2>1 DEF Matches, Owned
  <2>3. UNCHANGED <<tick, main, newVars, runVars, destructed>>
    BY <1>5 DEF RemoveCallOut
  <2> QED
    BY <1>2, <1>3, <2>1, <2>2, <2>3
<1>6. ASSUME NEW o \in Objects, NEW f \in Names, FindCallOut(a, o, f) PROVE TypeOK'
  BY <1>6 DEF FindCallOut
<1>7. ASSUME NEW o \in Objects, RemoveAll(a, o) PROVE TypeOK'
  <2>1. PICK H \in SUBSET DOMAIN handles :
          /\ FreeCalls({handles[h] : h \in H})
          /\ handles' = Erase(handles, H)
          /\ owners' \subseteq owners
    BY <1>7 DEF RemoveAll, Owned
  <2>2. {handles[h] : h \in H} \in SUBSET (1 .. made)
    BY <2>1
  <2>3. UNCHANGED <<tick, main, newVars, runVars, destructed>>
    BY <1>7 DEF RemoveAll
  <2> QED
    BY <1>2, <1>3, <2>1, <2>2, <2>3
<1>8. ASSUME NEW o \in Objects, DestructObject(a, o) PROVE TypeOK'
  BY <1>8 DEF DestructObject
<1>9. ASSUME NEW h \in DOMAIN handles, RemoveByHandle(a, h) PROVE TypeOK'
  <2>1. {handles[h]} \in SUBSET (1 .. made)
    OBVIOUS
  <2>2. /\ FreeCalls({handles[h]}) /\ handles' = Erase(handles, {h})
        /\ UNCHANGED <<tick, main, owners, newVars, runVars, destructed>>
    BY <1>9 DEF RemoveByHandle
  <2> QED
    BY <1>2, <1>3, <2>1, <2>2
<1>10. CASE RefuseCallOut(a)
  BY <1>10 DEF RefuseCallOut
<1>11. CASE ReclaimCallOuts(a)
  <2>1. PICK H \in SUBSET DOMAIN handles :
          /\ FreeCalls({handles[h] : h \in H})
          /\ handles' = Erase(handles, H)
          /\ owners' \subseteq owners
    BY <1>11 DEF ReclaimCallOuts
  <2>2. {handles[h] : h \in H} \in SUBSET (1 .. made)
    BY <2>1
  <2>3. UNCHANGED <<tick, main, newVars, runVars, destructed>>
    BY <1>11 DEF ReclaimCallOuts
  <2> QED
    BY <1>2, <1>3, <2>1, <2>2, <2>3
<1> QED
  BY <1>4, <1>5, <1>6, <1>7, <1>8, <1>9, <1>10, <1>11 DEF Efun

LEMMA EfunStepType == ASSUME TypeOK, RefersInv, NEW a \in Actors, EfunStep(a) PROVE TypeOK'
<1> USE CallOutAssumption DEF TypeOK, mapVars, newVars, runVars
<1> DEFINE c == efun[a].call
<1>1. CASE MapCallOut(a)
  <2>1. efun[a] \in [step : {"map", "event"}, call : Calls, u : Nat] /\ c \in 1 .. made /\ call[c] \in Records
    BY <1>1, SetupType DEF MapCallOut
  <2> DEFINE h == tick + efun[a].u
  <2>2. h \in Nat
    BY <2>1
  <2>3. call' = [call EXCEPT ![c].handle = h]
    BY <1>1 DEF MapCallOut
  <2>4. [call[c] EXCEPT !.handle = h] \in Records
    BY <2>1, <2>2 DEF Records
  <2>5. call' \in Seq(Records) /\ Len(call') = made
    <3>1. call' = [call EXCEPT ![c] = [call[c] EXCEPT !.handle = h]]
      BY <2>3
    <3> QED
      BY <2>1, <2>4, <3>1, ExceptSeq, SMTT(30)
  <2>6. DOMAIN handles' \subseteq Nat /\ \A x \in DOMAIN handles' : handles'[x] \in 1 .. made
    BY <1>1, <2>1, <2>2 DEF MapCallOut
  <2>7. owners' \subseteq Objects \X Nat
    <3>1. call[c].ob \in Objects
      BY <2>1 DEF Records
    <3>2. owners' = owners \cup {<<call[c].ob, h>>}
      BY <1>1 DEF MapCallOut
    <3> QED
      BY <2>2, <3>1, <3>2
  <2>8. unique' \in Nat
    BY <1>1, <2>1 DEF MapCallOut
  <2>9. efun' \in [Actors -> Efuns]
    <3>1. [efun[a] EXCEPT !.step = "event"] \in Efuns
      BY <2>1 DEF Efuns
    <3> QED
      BY <1>1, <3>1 DEF MapCallOut
  <2> QED
    BY <1>1, <2>5, <2>6, <2>7, <2>8, <2>9 DEF MapCallOut
<1>2. CASE AddEvent(a)
  <2>1. c \in 1 .. made /\ call[c] \in Records
    BY <1>2, SetupType DEF AddEvent
  <2>2. EventKey(c) \in Nat
    BY <2>1, RecordType DEF EventKey
  <2>3. [where |-> IF call[c].walltime THEN "timer" ELSE "queue",
         key |-> EventKey(c), stamp |-> inserts + 1, valid |-> TRUE] \in Events
    BY <2>2 DEF Events, Places
  <2>4. event' \in [Calls -> Events]
    BY <1>2, <2>3 DEF AddEvent
  <2>5. efun' \in [Actors -> Efuns]
    BY <1>2 DEF AddEvent, Efuns
  <2> QED
    BY <1>2, <2>4, <2>5 DEF AddEvent
<1> QED
  BY <1>1, <1>2 DEF EfunStep

LEMMA MainType == TypeOK /\ RefersInv /\ MainStep => TypeOK'
<1> SUFFICES ASSUME TypeOK, RefersInv, MainStep PROVE TypeOK'
  OBVIOUS
<1> USE CallOutAssumption DEF TypeOK, mapVars, newVars, runVars
<1>1. ASSUME NEW S \in SUBSET Calls, NEW w \in Places PROVE MoveTo(S, w) \in [Calls -> Events]
  BY EventFields DEF MoveTo
<1>2. ASSUME NEW S \in SUBSET Calls PROVE Delete(S) \in [Calls -> Events]
  BY DEF Delete, Events, NoEvent, Places
<1>3. ASSUME NEW c \in Calls, Return(c)
      PROVE  /\ event' \in [Calls -> Events]
             /\ main' \in [pc : {"loop", "tick", "call", "lpc"}, call : Calls \cup {None}, back : {"loop", "tick"}]
  BY <1>2, <1>3 DEF Return, InLoop
<1>4. ASSUME NEW c \in Calls, NEW back \in {"loop", "tick"}, Dispatch(c, back) PROVE TypeOK'
  <2>1. event' \in [Calls -> Events]
    BY <1>1, <1>2, <1>4 DEF Dispatch, Places
  <2>2. main' \in [pc : {"loop", "tick", "call", "lpc"}, call : Calls \cup {None}, back : {"loop", "tick"}]
    BY <1>4 DEF Dispatch
  <2> QED
    BY <1>4, <2>1, <2>2 DEF Dispatch
<1>5. CASE GameTick
  BY <1>5 DEF GameTick, MainIdle, InLoop
<1>6. CASE ExtractEvents
  <2>1. event' \in [Calls -> Events]
    BY <1>1, <1>6 DEF ExtractEvents, Eligible, At, Places
  <2> QED
    BY <1>6, <2>1 DEF ExtractEvents
<1>7. CASE TickDone
  <2>1. tick <= MaxTick
    BY <1>7 DEF TickDone, RefersInv
  <2>2. tick' \in 0 .. MaxTick + 1
    BY <1>7, <2>1 DEF TickDone
  <2> QED
    BY <1>7, <2>2 DEF TickDone, InLoop
<1>8. ASSUME NEW c \in Calls, RunEvent(c) \/ FireTimer(c) PROVE TypeOK'
  BY <1>4, <1>8 DEF RunEvent, FireTimer
<1> DEFINE m == main.call
<1>9. CASE CallOutDropped \/ CallOutPosted \/ CallOutInline
  <2>1. main.pc = "call"
    BY <1>9 DEF CallOutDropped, CallOutPosted, CallOutInline
  <2>2. m \in 1 .. made /\ m \in Calls /\ call[m] \in Records
    BY <2>1 DEF RefersInv, Existing, Calls
  <2>3. handles' = Erase(handles, {call[m].handle}) /\ made' = made
    BY <1>9 DEF CallOutDropped, CallOutPosted, CallOutInline
  <2>4. DOMAIN handles' \subseteq Nat /\ \A h \in DOMAIN handles' : handles'[h] \in 1 .. made'
    BY <2>3 DEF Erase
  <2>5. CASE CallOutDropped
    BY <1>3, <2>2, <2>4, <2>5 DEF CallOutDropped
  <2>6. CASE CallOutPosted
    <3>1. call[m].ob \in Objects /\ Shard[call[m].ob] \in Threads
      BY <2>2 DEF Records
    <3>2. inbox' \in [Threads -> Seq(Calls)]
      <4>1. Append(inbox[Shard[call[m].ob]], m) \in Seq(Calls)
        BY <2>2, <3>1, AppendProperties
      <4> QED
        BY <2>6, <4>1 DEF CallOutPosted
    <3>3. depth' \in [Actors -> Int]
      <4>1. Main \in Actors /\ depth[Main] + NumArgs \in Int
        BY DEF Actors
      <4>2. depth' = [depth EXCEPT ![Main] = depth[Main] + NumArgs]
        BY <2>6 DEF CallOutPosted
      <4> QED
        BY <4>1, <4>2
    <3> QED
      BY <1>3, <2>2, <2>4, <2>6, <3>2, <3>3 DEF CallOutPosted
  <2>7. CASE CallOutInline
    <3>1. ran' \in Seq(Calls)
      BY <2>2, <2>7, AppendProperties DEF CallOutInline
    <3>2. main' \in [pc : {"loop", "tick", "call", "lpc"}, call : Calls \cup {None}, back : {"loop", "tick"}]
      BY <2>7 DEF CallOutInline
    <3> QED
      BY <2>4, <2>7, <3>1, <3>2 DEF CallOutInline
  <2> QED
    BY <1>9, <2>5, <2>6, <2>7
<1>10. CASE InlineDone
  <2>1. m \in Calls
    BY <1>10 DEF InlineDone, RefersInv, Existing, Calls
  <2> QED
    BY <1>3, <1>10, <2>1 DEF InlineDone
<1> QED
  BY <1>5, <1>6, <1>7, <1>8, <1>9, <1>10 DEF MainStep

LEMMA WorkerType == ASSUME TypeOK, RefersInv, NEW t \in Threads, WorkerStep(t) PROVE TypeOK'
<1> USE CallOutAssumption DEF TypeOK, mapVars, newVars, runVars
<1>1. ASSUME NEW c, FreeCalled(c) PROVE event' \in [Calls -> Events]
  <2>1. ASSUME NEW d \in Calls, event' = [event EXCEPT ![d].valid = FALSE] PROVE event' \in [Calls -> Events]
    BY <2>1, EventFields
  <2> QED
    BY <1>1, <2>1 DEF FreeCalled, At
<1>2. ASSUME inbox[t] # << >> PROVE Head(inbox[t]) \in Calls /\ Tail(inbox[t]) \in Seq(Calls)
  BY <1>2, HeadTailProperties
<1>3. CASE TaskDropped(t)
  BY <1>1, <1>2, <1>3 DEF TaskDropped
<1>4. CASE TaskBegins(t)
  <2>1. ran' \in Seq(Calls) /\ inbox' \in [Threads -> Seq(Calls)] /\ work' \in [Threads -> Calls \cup {None}]
    BY <1>2, <1>4, AppendProperties DEF TaskBegins
  <2>2. depth' \in [Actors -> Int]
    BY <1>4 DEF TaskBegins, Actors
  <2> QED
    BY <1>4, <2>1, <2>2 DEF TaskBegins
<1>5. CASE TaskEnds(t)
  BY <1>1, <1>5 DEF TaskEnds
<1> QED
  BY <1>3, <1>4, <1>5 DEF WorkerStep

LEMMA TypeStep == TypeOK /\ RefersInv /\ [Next]_vars => TypeOK'
<1>1. TypeOK /\ UNCHANGED vars => TypeOK'
  BY DEF TypeOK, vars, mapVars, newVars, runVars
<1> QED
  BY <1>1, EfunType, EfunStepType, MainType, WorkerType DEF Next

-----------------------------------------------------------------------------
\* What the three ways of writing events do to a place and a key.
LEMMA FreeEffect ==
  ASSUME TypeOK, NEW S \in SUBSET Calls, FreeCalls(S) PROVE EventsStay
BY EventFields DEF FreeCalls, EventsStay, TypeOK

LEMMA MoveEffect ==
  ASSUME TypeOK, NEW S \in SUBSET Calls, NEW w \in Places, NEW c \in Calls
  PROVE  /\ MoveTo(S, w)[c].where = IF c \in S THEN w ELSE event[c].where
         /\ MoveTo(S, w)[c].key = event[c].key
BY EventFields DEF MoveTo, TypeOK

LEMMA DeleteEffect ==
  ASSUME TypeOK, NEW S \in SUBSET Calls, NEW c \in Calls
  PROVE  /\ Delete(S)[c].where = IF c \in S THEN "deleted" ELSE event[c].where
         /\ c \notin S => Delete(S)[c].key = event[c].key
BY DEF Delete, NoEvent

\* A step that leaves every call where it is: it takes calls back, forgets
\* handles, or ends a task.
LEMMA QuietStep ==
  ASSUME CallInv, EventsStay, UNCHANGED <<tick, main, made, call, efun, inbox, ran>>,
         \A t \in Threads : work'[t] \in {None, work[t]}
  PROVE  RefersInv' /\ OnceInv' /\ DueInv'
<1>1. /\ \A c \in 1 .. made : c \in Calls
      /\ made' = made /\ main' = main /\ tick' = tick /\ Made' = Made /\ Existing' = Existing
      /\ efun' = efun /\ inbox' = inbox /\ call' = call /\ ran' = ran
  <2>1. \A c \in 1 .. made : c \in Calls
    BY ExistingCalls DEF CallInv, Existing
  <2>2. Made' = Made /\ Existing' = Existing
    BY DEF Made, Existing
  <2> QED
    BY <2>1, <2>2
<1>2. \A c \in Calls : event'[c].where = event[c].where /\ event'[c].key = event[c].key
  BY DEF EventsStay
<1> USE <1>1, <1>2
<1>3. RefersInv'
  <2>1. RefersInv
    BY DEF CallInv
  <2>2. /\ \A c \in Calls : c \notin Existing' => event'[c].where = "none"
        /\ main.pc \in {"call", "lpc"} => main.call \in Existing' /\ event'[main.call].where = "running"
        /\ main.pc = "tick" \/ main.back = "tick" => tick <= MaxTick
    BY <2>1 DEF RefersInv, Existing
  <2>3. \A t \in Threads : work'[t] # None => work'[t] \in Existing'
    BY <2>1 DEF RefersInv, Existing
  <2>4. \A a \in Actors : efun[a] # NoEfun =>
          /\ efun[a] \in [step : {"map", "event"}, call : Calls, u : Nat]
          /\ efun[a].call \in Existing' /\ event'[efun[a].call].where = "none"
          /\ \A b \in Actors : efun[b] # NoEfun /\ efun[b].call = efun[a].call => a = b
    BY <2>1 DEF RefersInv, Existing
  <2> QED
    BY <2>2, <2>3, <2>4 DEF RefersInv
<1>4. OnceInv'
  BY DEF CallInv, OnceInv, Existing
<1>5. DueInv'
  BY DEF CallInv, DueInv
<1> QED
  BY <1>3, <1>4, <1>5

\* call_out() allocates a record, which no event, task or thread refers to yet.
LEMMA NewCallInv ==
  ASSUME CallInv, NEW a \in Callers, NEW o \in Objects, NEW r \in Requests, NewCallOut(a, o, r)
  PROVE  RefersInv' /\ OnceInv' /\ DueInv'
<1> USE CallOutAssumption
<1>1. TypeOK /\ RefersInv /\ OnceInv /\ DueInv
  BY DEF CallInv
<1> DEFINE new == made + 1
           rec == [ob |-> o, fun |-> r.fun, delay |-> r.delay, walltime |-> r.walltime,
                   due |-> IF r.walltime THEN 0 ELSE tick + r.delay, born |-> tick, handle |-> 0]
<1>2. /\ made' = new /\ call' = Append(call, rec) /\ new \in Calls /\ new \notin Existing
      /\ UNCHANGED <<tick, main, event, inbox, work, ran>> /\ Made' = Made
      /\ efun[a] = NoEfun
      /\ efun' = [efun EXCEPT ![a] = [step |-> "map", call |-> new, u |-> unique + 1]]
  BY <1>1 DEF NewCallOut, Free, runVars, TypeOK, Existing, Calls, Made
<1>3. /\ Existing' = Existing \cup {new} /\ event[new].where = "none"
      /\ \A c \in Existing : call'[c] = call[c]
      /\ call'[new] = rec
  BY <1>1, <1>2, AppendProperties DEF TypeOK, Existing, RefersInv
<1>4. RefersInv'
  <2>1. /\ \A c \in Calls : c \notin Existing' => event'[c].where = "none"
        /\ main'.pc \in {"call", "lpc"} => main'.call \in Existing' /\ event'[main'.call].where = "running"
        /\ main'.pc = "tick" \/ main'.back = "tick" => tick' <= MaxTick
        /\ \A t \in Threads : work'[t] # None => work'[t] \in Existing'
    BY <1>1, <1>2, <1>3 DEF RefersInv
  <2>2. ASSUME NEW x \in Actors, efun'[x] # NoEfun
        PROVE  /\ efun'[x] \in [step : {"map", "event"}, call : Calls, u : Nat]
               /\ efun'[x].call \in Existing' /\ event'[efun'[x].call].where = "none"
               /\ \A b \in Actors : efun'[b] # NoEfun /\ efun'[b].call = efun'[x].call => x = b
    <3>1. /\ efun'[a] = [step |-> "map", call |-> new, u |-> unique + 1]
          /\ \A b \in Actors \ {a} : efun'[b] = efun[b]
      BY <1>1, <1>2 DEF TypeOK
    <3>2. \A b \in Actors \ {a} : efun'[b] # NoEfun => efun'[b].call \in Existing
      BY <1>1, <3>1 DEF RefersInv
    <3>3. CASE x = a
      <4>1. efun'[x] \in [step : {"map", "event"}, call : Calls, u : Nat] /\ efun'[x].call = new
        BY <1>1, <1>2, <3>1, <3>3 DEF TypeOK
      <4> QED
        BY <1>2, <1>3, <3>2, <3>3, <4>1
    <3>4. CASE x # a
      <4>1. /\ efun[x] \in [step : {"map", "event"}, call : Calls, u : Nat]
            /\ efun[x].call \in Existing /\ event[efun[x].call].where = "none"
            /\ \A b \in Actors : efun[b] # NoEfun /\ efun[b].call = efun[x].call => x = b
        BY <1>1, <2>2, <3>1, <3>4 DEF RefersInv
      <4> QED
        BY <1>2, <1>3, <3>1, <3>4, <4>1
    <3> QED
      BY <3>3, <3>4
  <2> QED
    BY <2>1, <2>2 DEF RefersInv
<1>5. OnceInv'
  BY <1>1, <1>2, <1>3 DEF OnceInv
<1>6. DueInv'
  <2>1. r.delay \in Nat /\ r.walltime \in BOOLEAN
    BY DelayType
  <2>2. new \notin Made
    BY <1>1, <1>2 DEF OnceInv
  <2>3. /\ rec.due <= tick + rec.delay /\ (rec.walltime => rec.due = 0)
        /\ event[new].where \notin {"queue", "timer", "batch", "running"}
    BY <1>1, <1>3, <2>1 DEF TypeOK
  <2>4. ASSUME NEW c \in Existing'
        PROVE  /\ call'[c].due <= tick + call'[c].delay
               /\ call'[c].walltime => call'[c].due = 0
               /\ event[c].where = "queue" => call'[c].due <= event[c].key
               /\ event[c].where = "timer" => call'[c].due = 0
               /\ event[c].where \in {"batch", "running"} => call'[c].due <= tick
               /\ c \in Made => call'[c].due <= tick
    <3>1. CASE c = new
      BY <1>3, <2>2, <2>3, <3>1
    <3>2. CASE c \in Existing
      BY <1>1, <1>3, <3>2 DEF DueInv, Existing
    <3> QED
      BY <1>3, <3>1, <3>2
  <2>5. \A t \in Threads : \A i \in DOMAIN inbox[t] : call'[inbox[t][i]].due <= tick
    BY <1>1, <1>3 DEF DueInv, OnceInv
  <2>6. UNCHANGED <<tick, event, inbox>> /\ Made' = Made /\ Existing' = 1 .. made'
    BY <1>2 DEF Existing
  <2> QED
    BY <2>4, <2>5, <2>6 DEF DueInv
<1> QED
  BY <1>4, <1>5, <1>6

LEMMA EfunInv == ASSUME CallInv, NEW a \in Callers, Efun(a) PROVE RefersInv' /\ OnceInv' /\ DueInv'
<1> USE DEF mapVars, newVars, runVars
<1>1. TypeOK /\ RefersInv /\ OnceInv /\ DueInv
  BY DEF CallInv
<1>2. ASSUME EventsStay, UNCHANGED <<tick, main, newVars, runVars>> PROVE RefersInv' /\ OnceInv' /\ DueInv'
  BY <1>2, QuietStep
<1>3. ASSUME NEW H \in SUBSET DOMAIN handles, FreeCalls({handles[h] : h \in H}) PROVE EventsStay
  <2>1. {handles[h] : h \in H} \subseteq Calls
    BY <1>1, ExistingCalls DEF TypeOK, Existing
  <2> QED
    BY <1>1, <1>3, <2>1, FreeEffect
<1>4. ASSUME NEW h \in DOMAIN handles, FreeCalls({handles[h]}) PROVE EventsStay
  <2>1. {handles[h]} \subseteq Calls
    BY <1>1, ExistingCalls DEF TypeOK, Existing
  <2> QED
    BY <1>1, <1>4, <2>1, FreeEffect
<1>5. ASSUME UNCHANGED event PROVE EventsStay
  BY <1>5 DEF EventsStay
<1>6. ASSUME NEW o \in Objects, NEW f \in Names, RemoveCallOut(a, o, f) PROVE RefersInv' /\ OnceInv' /\ DueInv'
  <2>1. PICK h \in Matches(o, f) : FreeCalls({handles[h]})
    BY <1>6 DEF RemoveCallOut
  <2>2. h \in DOMAIN handles
    BY DEF Matches, Owned
  <2> QED
    BY <1>2, <1>4, <1>6, <2>1, <2>2 DEF RemoveCallOut
<1>7. ASSUME NEW o \in Objects, NEW f \in Names, FindCallOut(a, o, f) PROVE RefersInv' /\ OnceInv' /\ DueInv'
  BY <1>2, <1>5, <1>7 DEF FindCallOut
<1>8. ASSUME NEW o \in Objects, RemoveAll(a, o) PROVE RefersInv' /\ OnceInv' /\ DueInv'
  <2>1. PICK H \in SUBSET DOMAIN handles : FreeCalls({handles[h] : h \in H})
    BY <1>8 DEF RemoveAll, Owned
  <2> QED
    BY <1>2, <1>3, <1>8, <2>1 DEF RemoveAll
<1>9. ASSUME NEW o \in Objects, DestructObject(a, o) PROVE RefersInv' /\ OnceInv' /\ DueInv'
  BY <1>2, <1>5, <1>9 DEF DestructObject
<1>10. ASSUME NEW h \in DOMAIN handles, RemoveByHandle(a, h) PROVE RefersInv' /\ OnceInv' /\ DueInv'
  BY <1>2, <1>4, <1>10 DEF RemoveByHandle
<1>11. CASE ReclaimCallOuts(a)
  <2>1. PICK H \in SUBSET DOMAIN handles : FreeCalls({handles[h] : h \in H})
    BY <1>11 DEF ReclaimCallOuts
  <2> QED
    BY <1>2, <1>3, <1>11, <2>1 DEF ReclaimCallOuts
<1>12. CASE RefuseCallOut(a)
  BY <1>5, <1>12, QuietStep DEF RefuseCallOut
<1>13. ASSUME NEW o \in Objects, NEW r \in Requests, NewCallOut(a, o, r) PROVE RefersInv' /\ OnceInv' /\ DueInv'
  BY <1>1, <1>13, NewCallInv
<1> QED
  BY <1>6, <1>7, <1>8, <1>9, <1>10, <1>11, <1>12, <1>13 DEF Efun

\* A step of new_call_out(): MapCallOut writes the handle of the record, and
\* AddEvent puts an event that is due no earlier than the call in its place.
LEMMA MapCallOutInv ==
  ASSUME CallInv, NEW a \in Actors, MapCallOut(a) PROVE RefersInv' /\ OnceInv' /\ DueInv'
<1>1. TypeOK /\ RefersInv /\ OnceInv /\ DueInv
  BY DEF CallInv
<1> DEFINE c == efun[a].call
           h == tick + efun[a].u
<1>2. /\ efun[a] # NoEfun /\ efun[a] \in [step : {"map", "event"}, call : Calls, u : Nat]
      /\ c \in 1 .. made /\ call[c] \in Records
  BY <1>1, SetupType DEF MapCallOut
<1>3. /\ UNCHANGED <<tick, main, event, made, inbox, work, ran>> /\ Made' = Made /\ Existing' = Existing
      /\ call' = [call EXCEPT ![c].handle = h]
      /\ efun' = [efun EXCEPT ![a].step = "event"]
  BY DEF MapCallOut, runVars, Made, Existing
<1>4. \A d \in 1 .. made : /\ call'[d].due = call[d].due /\ call'[d].delay = call[d].delay
                           /\ call'[d].walltime = call[d].walltime
  <2>1. [call[c] EXCEPT !.handle = h].due = call[c].due /\ [call[c] EXCEPT !.handle = h].delay = call[c].delay
        /\ [call[c] EXCEPT !.handle = h].walltime = call[c].walltime
    BY <1>2 DEF Records
  <2>2. \A d \in 1 .. made : call'[d] = IF d = c THEN [call[c] EXCEPT !.handle = h] ELSE call[d]
    BY <1>1, <1>3 DEF TypeOK
  <2> QED
    BY <2>1, <2>2
<1>5. ASSUME NEW b \in Actors
      PROVE  /\ efun'[b] # NoEfun <=> efun[b] # NoEfun
             /\ efun[b] # NoEfun => /\ efun'[b] \in [step : {"map", "event"}, call : Calls, u : Nat]
                                    /\ efun'[b].call = efun[b].call
  <2>1. CASE b = a
    <3>1. efun'[b] = [efun[a] EXCEPT !.step = "event"]
      BY <1>1, <1>3, <2>1 DEF TypeOK
    <3>2. efun'[b] \in [step : {"map", "event"}, call : Calls, u : Nat] /\ efun'[b].call = c
      BY <1>2, <3>1
    <3>3. efun'[b] # NoEfun
      BY <3>2 DEF NoEfun
    <3> QED
      BY <1>2, <2>1, <3>2, <3>3
  <2>2. CASE b # a
    <3>1. efun'[b] = efun[b]
      BY <1>1, <1>3, <2>2 DEF TypeOK
    <3> QED
      BY <1>1, <3>1 DEF RefersInv
  <2> QED
    BY <2>1, <2>2
<1>6. RefersInv'
  <2>1. /\ \A d \in Calls : d \notin Existing' => event'[d].where = "none"
        /\ main'.pc \in {"call", "lpc"} => main'.call \in Existing' /\ event'[main'.call].where = "running"
        /\ main'.pc = "tick" \/ main'.back = "tick" => tick' <= MaxTick
        /\ \A t \in Threads : work'[t] # None => work'[t] \in Existing'
    BY <1>1, <1>3 DEF RefersInv
  <2>2. \A x \in Actors : efun'[x] # NoEfun =>
           /\ efun'[x] \in [step : {"map", "event"}, call : Calls, u : Nat]
           /\ efun'[x].call \in Existing' /\ event'[efun'[x].call].where = "none"
           /\ \A b \in Actors : efun'[b] # NoEfun /\ efun'[b].call = efun'[x].call => x = b
    BY <1>1, <1>3, <1>5 DEF RefersInv
  <2> QED
    BY <2>1, <2>2 DEF RefersInv
<1>7. OnceInv'
  BY <1>1, <1>3 DEF OnceInv
<1>8. DueInv'
  <2>1. \A t \in Threads : \A i \in DOMAIN inbox[t] : inbox[t][i] \in 1 .. made
    BY <1>1 DEF OnceInv, Existing
  <2> QED
    BY <1>1, <1>3, <1>4, <2>1 DEF DueInv
<1> QED
  BY <1>6, <1>7, <1>8

LEMMA AddEventInv ==
  ASSUME CallInv, NEW a \in Actors, AddEvent(a) PROVE RefersInv' /\ OnceInv' /\ DueInv'
<1>1. TypeOK /\ RefersInv /\ OnceInv /\ DueInv
  BY DEF CallInv
<1> DEFINE c == efun[a].call
<1>2. /\ efun[a] # NoEfun /\ event[c].where = "none" /\ c \in Calls
      /\ c \in 1 .. made /\ c \in Existing /\ call[c] \in Records
  BY <1>1, SetupType DEF AddEvent, RefersInv
<1>3. /\ UNCHANGED <<tick, main, made, call, inbox, work, ran>> /\ Made' = Made /\ Existing' = Existing
      /\ efun' = [efun EXCEPT ![a] = NoEfun]
      /\ event' = [event EXCEPT ![c] = [where |-> IF call[c].walltime THEN "timer" ELSE "queue",
                                        key |-> EventKey(c), stamp |-> inserts + 1, valid |-> TRUE]]
  BY DEF AddEvent, runVars, Made, Existing
<1>4. /\ \A d \in Calls \ {c} : event'[d] = event[d]
      /\ event'[c].where = IF call[c].walltime THEN "timer" ELSE "queue"
      /\ event'[c].key = tick + call[c].delay
  BY <1>1, <1>2, <1>3 DEF TypeOK, EventKey
<1>5. \A b \in Actors : efun'[b] # NoEfun => b # a /\ efun'[b] = efun[b] /\ efun[b].call # c
  BY <1>1, <1>2, <1>3 DEF TypeOK, RefersInv
<1>6. RefersInv'
  <2>1. /\ \A d \in Calls : d \notin Existing' => event'[d].where = "none"
        /\ main'.pc \in {"call", "lpc"} => main'.call \in Existing' /\ event'[main'.call].where = "running"
        /\ main'.pc = "tick" \/ main'.back = "tick" => tick' <= MaxTick
        /\ \A t \in Threads : work'[t] # None => work'[t] \in Existing'
    BY <1>1, <1>2, <1>3, <1>4, ExistingCalls DEF RefersInv
  <2>2. \A x \in Actors : efun'[x] # NoEfun =>
           /\ efun'[x] \in [step : {"map", "event"}, call : Calls, u : Nat]
           /\ efun'[x].call \in Existing' /\ event'[efun'[x].call].where = "none"
           /\ \A b \in Actors : efun'[b] # NoEfun /\ efun'[b].call = efun'[x].call => x = b
    BY <1>1, <1>3, <1>4, <1>5, ExistingCalls DEF RefersInv
  <2> QED
    BY <2>1, <2>2 DEF RefersInv
<1>7. OnceInv'
  BY <1>1, <1>2, <1>3, <1>4, ExistingCalls DEF OnceInv
<1>8. DueInv'
  <2>1. \A d \in 1 .. made : d # c => event'[d] = event[d]
    BY <1>1, <1>4, ExistingCalls DEF Existing
  <2>2. c \notin Made
    BY <1>1, <1>2 DEF OnceInv
  <2>3. call[c].due <= tick + call[c].delay /\ (call[c].walltime => call[c].due = 0)
    BY <1>1, <1>2 DEF DueInv
  <2> QED
    BY <1>1, <1>3, <1>4, <2>1, <2>2, <2>3 DEF DueInv
<1> QED
  BY <1>6, <1>7, <1>8

\* A step of the tick loop that makes no call: events that are due go to the
\* batch, and the clock only goes on.
LEMMA TickInv ==
  ASSUME CallInv, GameTick \/ ExtractEvents \/ TickDone PROVE RefersInv' /\ OnceInv' /\ DueInv'
<1> USE DEF newVars, runVars
<1>1. TypeOK /\ RefersInv /\ OnceInv /\ DueInv
  BY DEF CallInv
<1>2. UNCHANGED <<made, call, efun, inbox, work, ran>> /\ Made' = Made /\ Existing' = Existing
  BY DEF GameTick, ExtractEvents, TickDone, Made, Existing
<1>3. Existing \subseteq Calls
  BY <1>1, ExistingCalls
<1>4. CASE GameTick
  <2>1. /\ UNCHANGED <<tick, event>> /\ tick <= MaxTick
        /\ main'.pc = "tick" /\ main'.back = "loop"
    BY <1>1, <1>4 DEF GameTick, MainIdle, InLoop, TypeOK
  <2>2. RefersInv'
    BY <1>1, <1>2, <2>1 DEF RefersInv
  <2>3. OnceInv' /\ DueInv'
    BY <1>1, <1>2, <2>1 DEF OnceInv, DueInv
  <2> QED
    BY <2>2, <2>3
<1>5. CASE ExtractEvents
  <2>1. UNCHANGED <<tick, main>> /\ main.pc = "tick" /\ event' = MoveTo(Eligible, "batch")
    BY <1>5 DEF ExtractEvents
  <2>2. Eligible \subseteq Calls /\ \A c \in Eligible : event[c].where = "queue" /\ event[c].key <= tick
    BY DEF Eligible, At
  <2>3. \A c \in Calls : /\ event'[c].where = IF c \in Eligible THEN "batch" ELSE event[c].where
                         /\ event'[c].key = event[c].key
    BY <1>1, <2>1, <2>2, MoveEffect DEF Places
  <2>4. RefersInv'
    <3>1. /\ \A c \in Calls : c \notin Existing' => event'[c].where = "none"
          /\ main'.pc \notin {"call", "lpc"}
          /\ main'.pc = "tick" \/ main'.back = "tick" => tick' <= MaxTick
          /\ \A t \in Threads : work'[t] # None => work'[t] \in Existing'
      BY <1>1, <1>2, <2>1, <2>2, <2>3 DEF RefersInv
    <3>2. \A x \in Actors : efun'[x] # NoEfun =>
             /\ efun'[x] \in [step : {"map", "event"}, call : Calls, u : Nat]
             /\ efun'[x].call \in Existing' /\ event'[efun'[x].call].where = "none"
             /\ \A b \in Actors : efun'[b] # NoEfun /\ efun'[b].call = efun'[x].call => x = b
      BY <1>1, <1>2, <1>3, <2>2, <2>3 DEF RefersInv
    <3> QED
      BY <3>1, <3>2 DEF RefersInv
  <2>5. OnceInv'
    BY <1>1, <1>2, <1>3, <2>1, <2>2, <2>3 DEF OnceInv
  <2>6. DueInv'
    <3>1. ASSUME NEW c \in 1 .. made
          PROVE  /\ call[c].due <= tick + call[c].delay
                 /\ call[c].walltime => call[c].due = 0
                 /\ event'[c].where = "queue" => call[c].due <= event'[c].key
                 /\ event'[c].where = "timer" => call[c].due = 0
                 /\ event'[c].where \in {"batch", "running"} => call[c].due <= tick
                 /\ c \in Made => call[c].due <= tick
      <4>1. c \in Calls /\ call[c] \in Records /\ event[c] \in Events
        BY <1>1, <1>3 DEF TypeOK, Existing
      <4>2. call[c].due \in Nat /\ event[c].key \in Nat /\ tick \in Nat
        BY <1>1, <4>1, RecordType, CallOutAssumption DEF Events, TypeOK
      <4>3. c \in Eligible => call[c].due <= tick
        BY <1>1, <2>2, <4>2 DEF DueInv
      <4> QED
        BY <1>1, <2>3, <4>1, <4>3 DEF DueInv
    <3>2. \A t \in Threads : \A i \in DOMAIN inbox[t] : call[inbox[t][i]].due <= tick
      BY <1>1 DEF DueInv
    <3> QED
      BY <1>2, <2>1, <3>1, <3>2 DEF DueInv
  <2> QED
    BY <2>4, <2>5, <2>6
<1>6. CASE TickDone
  <2>1. /\ UNCHANGED event /\ tick' = tick + 1 /\ tick \in Nat
        /\ main'.pc = "loop" /\ main'.back = "loop"
    BY <1>1, <1>6, CallOutAssumption DEF TickDone, InLoop, TypeOK
  <2>2. RefersInv'
    BY <1>1, <1>2, <2>1 DEF RefersInv
  <2>3. OnceInv'
    BY <1>1, <1>2, <2>1 DEF OnceInv
  <2>4. DueInv'
    <3>1. \A c \in Existing : call[c].due \in Nat /\ call[c].delay \in Nat
      BY <1>1, RecordType DEF TypeOK, Existing
    <3>2. \A t \in Threads : \A i \in DOMAIN inbox[t] : inbox[t][i] \in Existing
      BY <1>1 DEF OnceInv
    <3> QED
      BY <1>1, <1>2, <2>1, <3>1, <3>2 DEF DueInv, Existing
  <2> QED
    BY <2>2, <2>3, <2>4
<1> QED
  BY <1>4, <1>5, <1>6

\* An event leaves the batch, or a timer fires: its call is due, and it is
\* nowhere else.
LEMMA DispatchInv ==
  ASSUME CallInv, NEW c \in Calls, RunEvent(c) \/ FireTimer(c) PROVE RefersInv' /\ OnceInv' /\ DueInv'
<1> USE DEF newVars, runVars
<1>1. TypeOK /\ RefersInv /\ OnceInv /\ DueInv
  BY DEF CallInv
<1>2. PICK back \in {"loop", "tick"} :
        /\ Dispatch(c, back)
        /\ main.pc = back /\ event[c].where \in {"batch", "timer"}
        /\ back = "loop" => main.back = "loop"
  BY DEF RunEvent, FireTimer, MainIdle, InLoop, At
<1>3. UNCHANGED <<tick, made, call, efun, inbox, work, ran>> /\ Made' = Made /\ Existing' = Existing
  BY <1>2 DEF Dispatch, Made, Existing
<1>4. Existing \subseteq Calls /\ c \in Existing /\ c \notin Made /\ call[c].due <= tick
  <2>1. c \in Existing /\ c \notin Made
    BY <1>1, <1>2 DEF RefersInv, OnceInv
  <2>2. call[c].due <= tick
    BY <1>1, <1>2, <2>1, CallOutAssumption DEF DueInv, Existing, TypeOK
  <2> QED
    BY <1>1, <2>1, <2>2, ExistingCalls
<1>5. /\ \A d \in Calls \ {c} : event'[d].where = event[d].where /\ event'[d].key = event[d].key
      /\ event'[c].where = IF event[c].valid THEN "running" ELSE "deleted"
  BY <1>1, <1>2, MoveEffect, DeleteEffect DEF Dispatch, Places
<1>6. \/ main' = main /\ main.pc \notin {"call", "lpc"}
      \/ main'.pc = "call" /\ main'.call = c /\ main'.back = back /\ event'[c].where = "running"
  BY <1>2, <1>5 DEF Dispatch
<1>7. RefersInv'
  <2>1. /\ \A d \in Calls : d \notin Existing' => event'[d].where = "none"
        /\ main'.pc \in {"call", "lpc"} => main'.call \in Existing' /\ event'[main'.call].where = "running"
        /\ main'.pc = "tick" \/ main'.back = "tick" => tick' <= MaxTick
        /\ \A t \in Threads : work'[t] # None => work'[t] \in Existing'
    BY <1>1, <1>2, <1>3, <1>4, <1>5, <1>6 DEF RefersInv
  <2>2. \A x \in Actors : efun'[x] # NoEfun =>
           /\ efun'[x] \in [step : {"map", "event"}, call : Calls, u : Nat]
           /\ efun'[x].call \in Existing' /\ event'[efun'[x].call].where = "none"
           /\ \A b \in Actors : efun'[b] # NoEfun /\ efun'[b].call = efun'[x].call => x = b
    BY <1>1, <1>2, <1>3, <1>4, <1>5 DEF RefersInv
  <2> QED
    BY <2>1, <2>2 DEF RefersInv
<1>8. OnceInv'
  <2>1. \A t \in Threads : \A i \in DOMAIN inbox[t] : inbox[t][i] \in Calls \ {c}
    BY <1>1, <1>2, <1>4 DEF OnceInv
  <2>2. \A d \in Made : d \in Calls \ {c}
    BY <1>1, <1>4 DEF OnceInv
  <2> QED
    BY <1>1, <1>2, <1>3, <1>4, <1>5, <1>6, <2>1, <2>2 DEF OnceInv
<1>9. DueInv'
  BY <1>1, <1>3, <1>4, <1>5 DEF DueInv, Existing
<1> QED
  BY <1>7, <1>8, <1>9

\* The indices of a queue with one more element.
LEMMA AppendIndices ==
  ASSUME NEW T, NEW q \in Seq(T), NEW x \in T
  PROVE  /\ Len(q) \in Nat /\ DOMAIN q = 1 .. Len(q)
         /\ DOMAIN Append(q, x) = 1 .. Len(q) + 1 /\ Append(q, x)[Len(q) + 1] = x
         /\ \A k \in DOMAIN q : Append(q, x)[k] = q[k]
BY AppendProperties

\* The callback of the call the main thread is in returns.
LEMMA ReturnRefers ==
  ASSUME TypeOK, RefersInv, main.pc \in {"call", "lpc"}, Return(main.call),
         UNCHANGED <<tick, made, efun, work>>
  PROVE  /\ RefersInv' /\ main'.pc \in {"loop", "tick"} /\ main.call \in Calls
         /\ \A d \in Calls \ {main.call} : event'[d].where = event[d].where /\ event'[d].key = event[d].key
         /\ event'[main.call].where = "deleted"
<1>1. main.call \in Existing /\ event[main.call].where = "running" /\ Existing \subseteq Calls /\ Existing' = Existing
  BY ExistingCalls DEF RefersInv, Existing
<1>2. /\ \A d \in Calls \ {main.call} : event'[d].where = event[d].where /\ event'[d].key = event[d].key
      /\ event'[main.call].where = "deleted"
  <2>1. event' = Delete({main.call}) /\ main.call \in Calls
    BY <1>1 DEF Return
  <2> QED
    BY <2>1, DeleteEffect
<1>3. main'.pc = main.back /\ main'.back = "loop" /\ main.back \in {"loop", "tick"}
  BY DEF Return, InLoop, TypeOK
<1>4. /\ \A d \in Calls : d \notin Existing' => event'[d].where = "none"
      /\ main'.pc \notin {"call", "lpc"}
      /\ main'.pc = "tick" \/ main'.back = "tick" => tick' <= MaxTick
      /\ \A t \in Threads : work'[t] # None => work'[t] \in Existing'
  BY <1>1, <1>2, <1>3 DEF RefersInv
<1>5. \A x \in Actors : efun'[x] # NoEfun =>
         /\ efun'[x] \in [step : {"map", "event"}, call : Calls, u : Nat]
         /\ efun'[x].call \in Existing' /\ event'[efun'[x].call].where = "none"
         /\ \A b \in Actors : efun'[b] # NoEfun /\ efun'[b].call = efun'[x].call => x = b
  BY <1>1, <1>2 DEF RefersInv
<1> QED
  BY <1>1, <1>2, <1>3, <1>4, <1>5 DEF RefersInv

LEMMA ReturnDue ==
  ASSUME TypeOK, RefersInv, DueInv, main.pc \in {"call", "lpc"}, Return(main.call),
         UNCHANGED <<tick, made, call, efun, work, ran>>
  PROVE  \A c \in 1 .. made' :
           /\ call'[c].due <= tick' + call'[c].delay
           /\ call'[c].walltime => call'[c].due = 0
           /\ event'[c].where = "queue" => call'[c].due <= event'[c].key
           /\ event'[c].where = "timer" => call'[c].due = 0
           /\ event'[c].where \in {"batch", "running"} => call'[c].due <= tick'
           /\ c \in Made' => call'[c].due <= tick'
<1>1. Made' = Made /\ \A c \in 1 .. made : c \in Calls
  BY ExistingCalls DEF Made, Existing
<1> QED
  BY <1>1, ReturnRefers DEF DueInv

\* call_out() in the main thread.  The call is running, so it is in no task
\* queue, and it has not been made.
LEMMA CallOutInv ==
  ASSUME CallInv, CallOutDropped \/ CallOutPosted \/ CallOutInline \/ InlineDone
  PROVE  RefersInv' /\ OnceInv' /\ DueInv'
<1> USE DEF newVars, runVars, mapVars
<1>1. TypeOK /\ RefersInv /\ OnceInv /\ DueInv
  BY DEF CallInv
<1> DEFINE m == main.call
<1>2. main.pc \in {"call", "lpc"} /\ (main.pc = "call" \/ InlineDone)
  BY DEF CallOutDropped, CallOutPosted, CallOutInline, InlineDone
<1>3. /\ UNCHANGED <<tick, made, call, efun, work>> /\ Existing' = Existing /\ Existing \subseteq Calls
      /\ m \in Existing /\ event[m].where = "running" /\ call[m].due <= tick
  <2>1. UNCHANGED <<tick, made, call, efun, work>>
    BY DEF CallOutDropped, CallOutPosted, CallOutInline, InlineDone
  <2>2. m \in Existing /\ event[m].where = "running"
    BY <1>1, <1>2 DEF RefersInv
  <2>3. call[m].due <= tick
    BY <1>1, <2>2 DEF DueInv, Existing
  <2> QED
    BY <1>1, <2>1, <2>2, <2>3, ExistingCalls DEF Existing
<1>4. \A t \in Threads : \A i \in DOMAIN inbox[t] : inbox[t][i] \in Calls \ {m}
  BY <1>1, <1>3 DEF OnceInv
<1>5. Made \subseteq Calls
  BY <1>1, <1>3 DEF OnceInv
<1>6. CASE CallOutDropped \/ InlineDone
  <2>1. Return(m) /\ UNCHANGED <<inbox, ran>> /\ Made' = Made
    BY <1>6 DEF CallOutDropped, InlineDone, Made
  <2>2. RefersInv'
    BY <1>1, <1>2, <1>3, <2>1, ReturnRefers
  <2>3. OnceInv'
    BY <1>1, <1>2, <1>3, <1>4, <1>5, <2>1, ReturnRefers DEF OnceInv
  <2>4. DueInv'
    BY <1>1, <1>2, <1>3, <2>1, ReturnDue DEF DueInv
  <2> QED
    BY <2>2, <2>3, <2>4
<1>7. CASE CallOutPosted
  <2> DEFINE s == Shard[call[m].ob]
  <2>1. Return(m) /\ UNCHANGED ran /\ Made' = Made /\ inbox' = [inbox EXCEPT ![s] = Append(inbox[s], m)]
    BY <1>7 DEF CallOutPosted, Made
  <2>2. /\ RefersInv' /\ main'.pc \in {"loop", "tick"}
        /\ \A d \in Calls \ {m} : event'[d].where = event[d].where
        /\ event'[m].where = "deleted"
    BY <1>1, <1>2, <1>3, <2>1, ReturnRefers
  <2>3. m \notin Made
    BY <1>1, <1>7 DEF OnceInv, CallOutPosted
  <2>4. s \in Threads
    <3>1. call[m] \in Records
      BY <1>1, <1>3 DEF TypeOK, Existing
    <3>2. call[m].ob \in Objects
      BY <3>1 DEF Records
    <3> QED
      BY <3>2, CallOutAssumption
  <2>5. ASSUME NEW t \in Threads, NEW i \in DOMAIN inbox'[t]
        PROVE  \/ i \in DOMAIN inbox[t] /\ inbox'[t][i] = inbox[t][i]
               \/ t = s /\ i = Len(inbox[s]) + 1 /\ inbox'[t][i] = m
    <3>1. CASE t = s
      <4>1. inbox[s] \in Seq(Calls) /\ inbox'[t] = Append(inbox[s], m)
        BY <1>1, <2>1, <2>4, <3>1 DEF TypeOK
      <4> DEFINE q == inbox[s]
                 new == inbox'[t]
      <4>2. q \in Seq(Calls) /\ new = Append(q, m) /\ m \in Calls /\ i \in DOMAIN new
        BY <1>3, <4>1
      <4> HIDE DEF q, new, m
      <4>3. /\ Len(q) \in Nat /\ DOMAIN q = 1 .. Len(q)
            /\ DOMAIN new = 1 .. Len(q) + 1 /\ new[Len(q) + 1] = m
            /\ \A k \in DOMAIN q : new[k] = q[k]
        BY <4>2, AppendIndices
      <4>4. (i \in DOMAIN q /\ new[i] = q[i]) \/ (i = Len(q) + 1 /\ new[i] = m)
        BY <4>2, <4>3
      <4> QED
        BY <3>1, <4>4 DEF q, new
    <3>2. CASE t # s
      BY <1>1, <2>1, <3>2 DEF TypeOK
    <3> QED
      BY <3>1, <3>2
  <2>6. OnceInv'
    <3>1. ASSUME NEW t \in Threads, NEW i \in DOMAIN inbox'[t]
          PROVE  /\ inbox'[t][i] \in Existing' /\ event'[inbox'[t][i]].where = "deleted"
                 /\ inbox'[t][i] \notin Made'
                 /\ \A u \in Threads : \A j \in DOMAIN inbox'[u] :
                      inbox'[t][i] = inbox'[u][j] => t = u /\ i = j
      <4>1. inbox'[t][i] \in Existing' /\ event'[inbox'[t][i]].where = "deleted" /\ inbox'[t][i] \notin Made'
        <5> DEFINE y == inbox'[t][i]
        <5>1. \A x \in Existing : event'[x].where = IF x = m THEN "deleted" ELSE event[x].where
          BY <1>3, <2>2
        <5>2. y = m \/ (y \in Existing /\ event[y].where = "deleted" /\ y \notin Made)
          BY <1>1, <2>5 DEF OnceInv
        <5> HIDE DEF y
        <5>3. y \in Existing' /\ event'[y].where = "deleted" /\ y \notin Made'
          BY <1>3, <2>1, <2>3, <5>1, <5>2
        <5> QED
          BY <5>3 DEF y
      <4>2. ASSUME NEW u \in Threads, NEW j \in DOMAIN inbox'[u], inbox'[t][i] = inbox'[u][j]
            PROVE  t = u /\ i = j
        BY <1>1, <1>4, <2>5, <4>2 DEF OnceInv
      <4> QED
        BY <4>1, <4>2
    <3>2. \A c \in Made' : c \in Existing' /\ event'[c].where \in {"running", "deleted"}
      BY <1>1, <1>3, <1>5, <2>1, <2>2 DEF OnceInv
    <3> QED
      BY <1>1, <2>1, <2>2, <3>1, <3>2 DEF OnceInv
  <2>7. DueInv'
    <3>1. \A t \in Threads : \A i \in DOMAIN inbox'[t] : call'[inbox'[t][i]].due <= tick'
      BY <1>1, <1>3, <2>5 DEF DueInv
    <3> QED
      BY <1>1, <1>2, <1>3, <2>1, <3>1, ReturnDue DEF DueInv
  <2> QED
    BY <2>2, <2>6, <2>7
<1>8. CASE CallOutInline
  <2>1. /\ UNCHANGED <<event, inbox>> /\ ran' = Append(ran, m) /\ main.pc = "call"
        /\ main'.pc = "lpc" /\ main'.call = m /\ main'.back = main.back
    BY <1>1, <1>8 DEF CallOutInline, TypeOK
  <2>2. m \notin Made /\ ran \in Seq(Calls)
    BY <1>1, <2>1 DEF OnceInv, TypeOK
  <2>3. /\ DOMAIN ran' = 1 .. Len(ran) + 1 /\ DOMAIN ran = 1 .. Len(ran) /\ Len(ran) \in Nat
        /\ \A i \in DOMAIN ran : ran'[i] = ran[i] /\ ran[i] # m
        /\ ran'[Len(ran) + 1] = m
    BY <1>3, <2>1, <2>2, AppendIndices DEF Made
  <2>4. Made' = Made \cup {m}
    BY <2>3 DEF Made
  <2>5. RefersInv'
    BY <1>1, <1>2, <1>3, <2>1 DEF RefersInv
  <2>6. OnceInv'
    <3>1. \A i, j \in DOMAIN ran' : ran'[i] = ran'[j] => i = j
      BY <1>1, <2>3 DEF OnceInv
    <3> QED
      BY <1>1, <1>3, <1>4, <2>1, <2>4, <3>1 DEF OnceInv
  <2>7. DueInv'
    BY <1>1, <1>3, <2>1, <2>4 DEF DueInv
  <2> QED
    BY <2>5, <2>6, <2>7
<1> QED
  BY <1>6, <1>7, <1>8

\* A worker takes a call out of its queue: it is there once, so it is in no
\* queue afterwards and is made for the first time.
LEMMA WorkerInv ==
  ASSUME CallInv, NEW t \in Threads, WorkerStep(t) PROVE RefersInv' /\ OnceInv' /\ DueInv'
<1> USE DEF newVars, runVars, mapVars
<1>1. TypeOK /\ RefersInv /\ OnceInv /\ DueInv
  BY DEF CallInv
<1>2. ASSUME NEW c, FreeCalled(c) PROVE EventsStay
  <2>1. ASSUME NEW d \in Calls, event' = [event EXCEPT ![d].valid = FALSE] PROVE EventsStay
    <3>1. event \in [Calls -> Events] /\ event' = [event EXCEPT ![d] = [event[d] EXCEPT !.valid = FALSE]]
      BY <1>1, <2>1 DEF TypeOK
    <3>2. /\ event[d] \in Events /\ event'[d] = [event[d] EXCEPT !.valid = FALSE]
          /\ \A e \in Calls \ {d} : event'[e] = event[e]
      BY <3>1
    <3> QED
      BY <3>1, <3>2, EventFields DEF EventsStay
  <2>2. UNCHANGED event => EventsStay
    BY DEF EventsStay
  <2> QED
    BY <1>2, <2>1, <2>2 DEF FreeCalled, At
<1>3. CASE TaskEnds(t)
  <2>1. EventsStay /\ \A u \in Threads : work'[u] \in {None, work[u]}
    BY <1>1, <1>2, <1>3 DEF TaskEnds, TypeOK
  <2> QED
    BY <1>3, <2>1, QuietStep DEF TaskEnds
<1> DEFINE h == Head(inbox[t])
<1>4. CASE TaskDropped(t) \/ TaskBegins(t)
  <2>1. /\ inbox[t] # << >> /\ inbox' = [inbox EXCEPT ![t] = Tail(inbox[t])]
        /\ UNCHANGED <<tick, main, made, call, efun>> /\ Existing' = Existing
    BY <1>4 DEF TaskDropped, TaskBegins, Existing
  <2>2. /\ inbox[t] \in Seq(Calls) /\ 1 \in DOMAIN inbox[t] /\ h = inbox[t][1]
        /\ \A i \in DOMAIN Tail(inbox[t]) : i + 1 \in DOMAIN inbox[t] /\ Tail(inbox[t])[i] = inbox[t][i + 1]
        /\ \A i \in DOMAIN Tail(inbox[t]) : i \in Nat \ {0}
    BY <1>1, <2>1, HeadTailProperties DEF TypeOK
  <2>3. /\ h \in Existing /\ h \in Calls /\ event[h].where = "deleted" /\ h \notin Made
        /\ call[h].due <= tick
    BY <1>1, <2>2, ExistingCalls DEF OnceInv, DueInv
  <2>4. ASSUME NEW u \in Threads, NEW i \in DOMAIN inbox'[u]
        PROVE  /\ IF u = t THEN i \in Nat /\ i + 1 \in DOMAIN inbox[u] /\ inbox'[u][i] = inbox[u][i + 1]
                            ELSE i \in DOMAIN inbox[u] /\ inbox'[u][i] = inbox[u][i]
               /\ inbox'[u][i] \in Existing /\ inbox'[u][i] \in Calls /\ inbox'[u][i] # h
               /\ event[inbox'[u][i]].where = "deleted" /\ inbox'[u][i] \notin Made
               /\ call[inbox'[u][i]].due <= tick
    <3>1. IF u = t THEN i \in Nat \ {0} /\ i + 1 \in DOMAIN inbox[u] /\ inbox'[u][i] = inbox[u][i + 1]
                   ELSE i \in DOMAIN inbox[u] /\ inbox'[u][i] = inbox[u][i]
      BY <1>1, <2>1, <2>2 DEF TypeOK
    <3>2. PICK k \in DOMAIN inbox[u] : inbox'[u][i] = inbox[u][k] /\ (u = t => k # 1)
      BY <3>1
    <3>3. inbox[u][k] # h
      BY <1>1, <2>2, <3>2 DEF OnceInv
    <3> QED
      BY <1>1, <3>1, <3>2, <3>3, ExistingCalls DEF OnceInv, DueInv
  <2>5. \A u, v \in Threads : \A i \in DOMAIN inbox'[u], j \in DOMAIN inbox'[v] :
          inbox'[u][i] = inbox'[v][j] => u = v /\ i = j
    <3> SUFFICES ASSUME NEW u \in Threads, NEW v \in Threads,
                        NEW i \in DOMAIN inbox'[u], NEW j \in DOMAIN inbox'[v],
                        inbox'[u][i] = inbox'[v][j]
                 PROVE  u = v /\ i = j
      OBVIOUS
    <3>1. \A k \in DOMAIN inbox[u], l \in DOMAIN inbox[v] : inbox[u][k] = inbox[v][l] => u = v /\ k = l
      BY <1>1 DEF OnceInv
    <3>2. IF u = t THEN i \in Nat /\ i + 1 \in DOMAIN inbox[u] /\ inbox'[u][i] = inbox[u][i + 1]
                   ELSE i \in DOMAIN inbox[u] /\ inbox'[u][i] = inbox[u][i]
      BY <2>4
    <3>3. IF v = t THEN j \in Nat /\ j + 1 \in DOMAIN inbox[v] /\ inbox'[v][j] = inbox[v][j + 1]
                   ELSE j \in DOMAIN inbox[v] /\ inbox'[v][j] = inbox[v][j]
      BY <2>4
    <3> QED
      BY <3>1, <3>2, <3>3
  <2>6. CASE TaskDropped(t)
    <3>1. EventsStay /\ UNCHANGED <<work, ran>> /\ Made' = Made
      BY <1>2, <2>6 DEF TaskDropped, Made
    <3>2. \A c \in Calls : event'[c].where = event[c].where /\ event'[c].key = event[c].key
      BY <3>1 DEF EventsStay
    <3>3. RefersInv'
      BY <1>1, <2>1, <3>1, <3>2, ExistingCalls DEF RefersInv
    <3>4. OnceInv'
      BY <1>1, <2>1, <2>4, <2>5, <3>1, <3>2, ExistingCalls DEF OnceInv
    <3>5. DueInv'
      BY <1>1, <2>1, <2>4, <3>1, <3>2, ExistingCalls, SMTT(30) DEF DueInv, Existing
    <3> QED
      BY <3>3, <3>4, <3>5
  <2>7. CASE TaskBegins(t)
    <3>1. /\ UNCHANGED event /\ ran' = Append(ran, h) /\ ran \in Seq(Calls)
          /\ \A u \in Threads : work'[u] = IF u = t THEN h ELSE work[u]
      BY <1>1, <2>7 DEF TaskBegins, TypeOK
    <3>2. /\ DOMAIN ran' = 1 .. Len(ran) + 1 /\ DOMAIN ran = 1 .. Len(ran) /\ Len(ran) \in Nat
          /\ \A i \in DOMAIN ran : ran'[i] = ran[i] /\ ran[i] # h
          /\ ran'[Len(ran) + 1] = h
      BY <2>3, <3>1, AppendIndices DEF Made
    <3>3. Made' = Made \cup {h}
      BY <3>2 DEF Made
    <3>4. RefersInv'
      BY <1>1, <2>1, <2>3, <3>1 DEF RefersInv
    <3>5. OnceInv'
      <4>1. \A i, j \in DOMAIN ran' : ran'[i] = ran'[j] => i = j
        BY <1>1, <3>2 DEF OnceInv
      <4>2. main'.pc = "call" => main'.call \notin Made'
        BY <1>1, <2>1, <2>3, <3>3 DEF OnceInv, RefersInv
      <4>3. \A c \in Made' : c \in Existing' /\ event'[c].where \in {"running", "deleted"}
        BY <1>1, <2>1, <2>3, <3>1, <3>3 DEF OnceInv
      <4> QED
        BY <2>1, <2>4, <2>5, <3>1, <3>3, <4>1, <4>2, <4>3 DEF OnceInv
    <3>6. DueInv'
      BY <1>1, <2>1, <2>3, <2>4, <3>1, <3>3 DEF DueInv
    <3> QED
      BY <3>4, <3>5, <3>6
  <2> QED
    BY <1>4, <2>6, <2>7
<1> QED
  BY <1>3, <1>4 DEF WorkerStep

-----------------------------------------------------------------------------
\* Nothing exists yet.
LEMMA CallInvInit == Init => CallInv
<1> SUFFICES ASSUME Init PROVE CallInv
  OBVIOUS
<1>1. TypeOK
  BY InitType
<1>2. RefersInv
  BY CallOutAssumption DEF Init, RefersInv, InLoop, NoEvent, None
<1>3. OnceInv /\ DueInv
  BY DEF Init, OnceInv, DueInv, Made, Existing, InLoop
<1> QED
  BY <1>1, <1>2, <1>3 DEF CallInv

LEMMA CallInvStep == CallInv /\ [Next]_vars => CallInv'
<1> SUFFICES ASSUME CallInv, [Next]_vars PROVE CallInv'
  OBVIOUS
<1>1. TypeOK'
  BY TypeStep DEF CallInv
<1>2. RefersInv' /\ OnceInv' /\ DueInv'
  <2>1. CASE UNCHANGED vars
    <3>1. EventsStay /\ UNCHANGED <<tick, main, made, call, efun, inbox, ran, work>>
      BY <2>1 DEF vars, EventsStay, newVars, runVars
    <3> QED
      BY <3>1, QuietStep
  <2>2. ASSUME NEW a \in Callers, Efun(a) PROVE RefersInv' /\ OnceInv' /\ DueInv'
    BY <2>2, EfunInv
  <2>3. ASSUME NEW a \in Actors, EfunStep(a) PROVE RefersInv' /\ OnceInv' /\ DueInv'
    BY <2>3, MapCallOutInv, AddEventInv DEF EfunStep
  <2>4. CASE MainStep
    BY <2>4, TickInv, DispatchInv, CallOutInv DEF MainStep
  <2>5. ASSUME NEW t \in Threads, WorkerStep(t) PROVE RefersInv' /\ OnceInv' /\ DueInv'
    BY <2>5, WorkerInv
  <2> QED
    BY <2>1, <2>2, <2>3, <2>4, <2>5 DEF Next
<1> QED
  BY <1>1, <1>2 DEF CallInv

\* Every reachable state is of the type TypeOK, whatever the threads that use
\* the efuns do while the clock goes on: call_out() refers to records that
\* exist, and the clock stops at its bound.
THEOREM TypeCorrect == Spec => []TypeOK
<1>1. CallInv => TypeOK
  BY DEF CallInv
<1> QED
  BY <1>1, CallInvInit, CallInvStep, PTL DEF Spec

\* A call of call_out() is made once at most and never before its target_time,
\* on the main thread or by the worker it was posted to, also when workers use
\* the efuns while ticks pass.
THEOREM MadeOnceAndNotEarly == Spec => []OnceAndNotEarly
<1>1. CallInv => OnceAndNotEarly
  BY DEF CallInv, OnceAndNotEarly, OnceInv, DueInv, Existing
<1> QED
  BY <1>1, CallInvInit, CallInvStep, PTL DEF Spec
=====================
