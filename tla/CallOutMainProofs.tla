------------------------- MODULE CallOutMainProofs -------------------------
(***************************************************************************)
(* Proofs about CallOut when LPC code uses the efuns on the main thread    *)
(* only: the maps agree with the tick queue, named functions run in order, *)
(* and call_out() keeps the promise of DelayedCalls; for any objects,      *)
(* workers and requests.                                                   *)
(***************************************************************************)
EXTENDS CallOutProofs

\* The memory of a deleted event is not given out again while a worker may write
\* to it, and the counter of the handles does not wrap.
MainOnly == Callers = {Main} /\ ~ReuseEvents /\ MaxCalls < UniqueMax

-----------------------------------------------------------------------------
(* The inductive invariant, beside CallInv                                 *)

\* The call new_call_out() is at work on.
Setup == IF efun[Main] = NoEfun THEN {} ELSE {efun[Main].call}

\* It is the youngest, and no tick passes meanwhile: counters tell its number.
SetupInv ==
  /\ \A t \in Threads : efun[t] = NoEfun
  /\ efun[Main] # NoEfun =>
       /\ efun[Main].call = made /\ main.pc \in {"loop", "lpc"}
       /\ call[made].walltime \/ call[made].due = tick + call[made].delay
       /\ efun[Main].step = "map" => efun[Main].u = unique + 1 /\ call[made].handle = 0
  /\ inserts = IF efun[Main] = NoEfun THEN made ELSE made - 1
  /\ unique = IF efun[Main].step = "map" THEN made ELSE made + 1

\* Keys and stamps of the events are due times and numbers of their calls.
EventInv ==
  \A c \in 1 .. made :
    /\ (event[c].where = "none") <=> (c \in Setup)
    /\ event[c].where \in {"queue", "batch"} =>
         ~call[c].walltime /\ event[c].key = call[c].due /\ event[c].stamp = c
    /\ event[c].where = "timer" => call[c].walltime
    /\ event[c].where = "running" => main.pc \in {"call", "lpc"} /\ main.call = c

\* A call in the handle map, and one that is still to be made by the main thread.
Held(c) == call[c].handle \in DOMAIN handles /\ handles[call[c].handle] = c
InPlay(c) == \/ event[c].where \in {"queue", "batch", "timer"} /\ event[c].valid
             \/ main.pc = "call" /\ main.call = c

\* Handles grow with the calls, so that a new one is never in the map.
HandleInv ==
  /\ \A c \in 1 .. made : call[c].handle <= tick + unique
  /\ \A h \in DOMAIN handles :
       h > 0 /\ call[handles[h]].handle = h /\ <<call[handles[h]].ob, h>> \in owners
  /\ efun[Main].step = "event" => Held(made)
  /\ \A c \in (1 .. made) \ Setup : Held(c) <=> InPlay(c)

\* What was taken back is nowhere any more.
RemovedInv ==
  \A c \in removed :
    /\ c \in 1 .. made /\ c \notin Setup /\ c \notin Made
    /\ event[c].where \in {"queue", "batch", "timer"} => ~event[c].valid
    /\ event[c].where # "running"
    /\ \A t \in Threads : \A i \in DOMAIN inbox[t] : inbox[t][i] # c

MapInv == SetupInv /\ EventInv /\ HandleInv /\ RemovedInv

\* The calls of the tick queue, and those of them that have left it to be made.
Timed == {c \in 1 .. made : ~call[c].walltime}
Posted == UNION {{inbox[t][i] : i \in DOMAIN inbox[t]} : t \in Threads}
Sent == Timed \cap (Made \cup Posted \cup BeingMade)
Waiting == At("batch") \cup At("queue")

Earlier(c, d) == \/ call[c].due < call[d].due
                 \/ call[c].due = call[d].due /\ c < d

\* A call overtakes no other one on its way to the worker ...
QueueOrder ==
  /\ \A c \in At("batch"), d \in At("queue") : Earlier(c, d)
  /\ \A c \in Sent, d \in Waiting : Earlier(c, d)
  /\ \A c \in Sent, d \in Timed \cap BeingMade : c # d => Earlier(c, d)

\* ... nor there.
InboxOrder ==
  \A t \in Threads : \A j \in DOMAIN inbox[t] :
    LET d == inbox[t][j] IN
    /\ Shard[call[d].ob] = t /\ call[d].fun # Pointer
    /\ d \in Timed =>
         /\ \A i \in 1 .. j - 1 : inbox[t][i] \in Timed => Earlier(inbox[t][i], d)
         /\ \A c \in Made \cap Timed :
              Shard[call[c].ob] = t /\ call[c].fun # Pointer => Earlier(c, d)

OrderInv == QueueOrder /\ InboxOrder /\ RunsInOrder

-----------------------------------------------------------------------------
(* What a step can be                                                      *)

\* LPC code takes the calls with the handles H back, and forgets the pairs P.
Taken(H) == {handles[h] : h \in H}
Removal(H, P) ==
  /\ Free(Main) /\ H \subseteq DOMAIN handles /\ \A p \in P : p[2] \notin DOMAIN handles \ H
  /\ FreeCalls(Taken(H))
  /\ DOMAIN handles' = DOMAIN handles \ H /\ \A h \in DOMAIN handles' : handles'[h] = handles[h]
  /\ owners' = owners \ P
  /\ UNCHANGED <<tick, main, newVars, runVars, destructed>>

\* A step that leaves all calls alone, and the main thread but for its tick.
Quiet ==
  /\ UNCHANGED <<event, mapVars, call, made, unique, efun, inserts, inbox, ran, removed>>
  /\ UNCHANGED <<tick, main>> \/ GameTick \/ TickDone

LEMMA Typical ==
  ASSUME CallInv
  PROVE  /\ made \in Nat /\ made <= MaxCalls /\ MaxCalls \in Nat
         /\ inserts \in Nat /\ unique \in Nat /\ tick \in Nat
         /\ event \in [Calls -> Events] /\ Len(call) = made /\ call \in Seq(Records)
         /\ removed \subseteq Calls /\ Main \in Actors /\ Main \notin Threads
         /\ \A c \in 1 .. made : /\ c \in Calls /\ c \in Nat /\ event[c] \in Events /\ call[c] \in Records
                                 /\ call[c].due \in Nat /\ call[c].delay \in Nat /\ call[c].handle \in Nat
                                 /\ call[c].walltime \in BOOLEAN
<1>1. TypeOK
  BY DEF CallInv
<1>2. made \in 0 .. MaxCalls /\ MaxCalls \in Nat /\ tick \in 0 .. MaxTick + 1 /\ MaxTick \in Nat
  BY <1>1, CallOutAssumption DEF TypeOK
<1>3. ASSUME NEW c \in 1 .. made
      PROVE  /\ c \in Calls /\ c \in Nat /\ event[c] \in Events /\ call[c] \in Records
             /\ call[c].due \in Nat /\ call[c].delay \in Nat /\ call[c].handle \in Nat
             /\ call[c].walltime \in BOOLEAN
  <2>1. c \in Calls /\ c \in Nat
    BY <1>2 DEF Calls
  <2>2. event[c] \in Events /\ call[c] \in Records
    BY <1>1, <2>1 DEF TypeOK
  <2>3. call[c].handle \in Nat /\ call[c].walltime \in BOOLEAN
    BY <2>2 DEF Records
  <2> QED BY <2>1, <2>2, <2>3, RecordType
<1>4. Main \in Actors /\ Main \notin Threads
  BY CallOutAssumption DEF Actors
<1> QED BY <1>1, <1>2, <1>3, <1>4 DEF TypeOK

LEMMA SetupIsMain ==
  ASSUME CallInv, SetupInv, efun[Main] # NoEfun
  PROVE  /\ efun[Main] = [step |-> efun[Main].step, call |-> made, u |-> efun[Main].u]
         /\ efun[Main].step \in {"map", "event"} /\ efun[Main].u \in Nat
         /\ Setup = {made} /\ made \in 1 .. made /\ event[made].where = "none"
<1>1. /\ efun[Main] \in [step : {"map", "event"}, call : Calls, u : Nat]
      /\ efun[Main].call \in Existing /\ event[efun[Main].call].where = "none"
  BY CallOutAssumption DEF CallInv, RefersInv, Actors
<1> QED BY <1>1 DEF SetupInv, Setup, Existing

LEMMA EfunKinds ==
  ASSUME CallInv, Efun(Main)
  PROVE  \/ \E o \in Objects, r \in Requests : NewCallOut(Main, o, r)
         \/ \E H, P : Removal(H, P)
         \/ Quiet
<1> USE DEF mapVars, newVars, runVars
<1>1. ASSUME NEW o \in Objects, NEW f \in Names, RemoveCallOut(Main, o, f) PROVE \E H, P : Removal(H, P)
  <2>1. PICK h \in Matches(o, f), G \in SUBSET Garbage(o) :
          /\ FreeCalls({handles[h]}) /\ handles' = Erase(handles, {h})
          /\ owners' = owners \ (G \cup {<<o, h>>})
    BY <1>1 DEF RemoveCallOut
  <2>2. Taken({h}) = {handles[h]}
    BY DEF Taken
  <2>3. {h} \subseteq DOMAIN handles /\ \A p \in G \cup {<<o, h>>} : p[2] \notin DOMAIN handles \ {h}
    BY DEF Matches, Owned, Garbage
  <2>4. Removal({h}, G \cup {<<o, h>>})
    BY <1>1, <2>1, <2>2, <2>3 DEF Removal, RemoveCallOut, Erase
  <2> QED BY <2>4
<1>2. ASSUME NEW o \in Objects, NEW f \in Names, FindCallOut(Main, o, f) PROVE \E H, P : Removal(H, P)
  <2>1. PICK G \in SUBSET Garbage(o) : owners' = owners \ G
    BY <1>2 DEF FindCallOut
  <2>2. event = [c \in Calls |-> event[c]] /\ Taken({}) = {}
    BY DEF CallInv, TypeOK, Taken
  <2>3. FreeCalls({})
    BY <1>2, <2>2 DEF FindCallOut, FreeCalls
  <2>4. FreeCalls(Taken({}))
    BY <2>2, <2>3
  <2>5. Removal({}, G)
    BY <1>2, <2>1, <2>4 DEF Removal, FindCallOut, Garbage
  <2> QED BY <2>5
<1>3. ASSUME NEW o \in Objects, RemoveAll(Main, o) PROVE \E H, P : Removal(H, P)
  <2> DEFINE H == {h \in Owned(o) : call[handles[h]].ob = o \/ destructed[call[handles[h]].ob]}
             P == Garbage(o) \cup {<<o, h>> : h \in H}
  <2>1. H \subseteq DOMAIN handles /\ \A p \in Garbage(o) : p[2] \notin DOMAIN handles
    BY DEF Owned, Garbage
  <2>2. \A p \in P : p \in Garbage(o) \/ \E h \in H : p = <<o, h>>
    OBVIOUS
  <2>3. \A h \in H : <<o, h>>[2] = h
    OBVIOUS
  <2>4. \A p \in P : p[2] \notin DOMAIN handles \ H
    BY <2>1, <2>2, <2>3, Zenon
  <2>5. Removal(H, P)
    BY <1>3, <2>1, <2>4 DEF Removal, RemoveAll, Erase, Taken
  <2> QED BY <2>5
<1>4. ASSUME NEW h \in DOMAIN handles, RemoveByHandle(Main, h) PROVE \E H, P : Removal(H, P)
  <2>1. Taken({h}) = {handles[h]}
    BY DEF Taken
  <2>2. Removal({h}, {})
    BY <1>4, <2>1 DEF Removal, RemoveByHandle, Erase
  <2> QED BY <2>2
<1>5. CASE ReclaimCallOuts(Main)
  <2> DEFINE H == {h \in DOMAIN handles : destructed[call[handles[h]].ob]}
             P == {p \in owners : p[2] \notin DOMAIN handles \ H}
  <2>1. Removal(H, P)
    BY <1>5 DEF Removal, ReclaimCallOuts, Erase, Taken
  <2> QED BY <2>1
<1>6. ASSUME RefuseCallOut(Main) \/ \E o \in Objects : DestructObject(Main, o) PROVE Quiet
  BY <1>6 DEF Quiet, RefuseCallOut, DestructObject
<1> QED BY <1>1, <1>2, <1>3, <1>4, <1>5, <1>6 DEF Efun

Tasks == \E t \in Threads : TaskDropped(t) \/ TaskBegins(t)

LEMMA StepKinds ==
  ASSUME MainOnly, CallInv, SetupInv, Next
  PROVE  \/ \E o \in Objects, r \in Requests : NewCallOut(Main, o, r)
         \/ \E H, P : Removal(H, P)
         \/ Quiet \/ MapCallOut(Main) \/ AddEvent(Main) \/ ExtractEvents
         \/ \E c \in Calls : RunEvent(c) \/ FireTimer(c)
         \/ CallOutDropped \/ CallOutPosted \/ CallOutInline \/ InlineDone \/ Tasks
<1>1. ASSUME NEW a \in Callers, Efun(a)
      PROVE  \/ \E o \in Objects, r \in Requests : NewCallOut(Main, o, r)
             \/ \E H, P : Removal(H, P)
             \/ Quiet
  BY <1>1, EfunKinds DEF MainOnly
<1>2. ASSUME NEW a \in Actors, EfunStep(a) PROVE MapCallOut(Main) \/ AddEvent(Main)
  <2>1. a \notin Threads
    BY <1>2 DEF SetupInv, EfunStep, MapCallOut, AddEvent, NoEfun
  <2> QED BY <1>2, <2>1 DEF EfunStep, Actors
<1>3. ASSUME GameTick \/ TickDone PROVE Quiet
  BY <1>3 DEF Quiet, GameTick, TickDone, mapVars, newVars, runVars
<1>4. ASSUME NEW t \in Threads, WorkerStep(t) PROVE Quiet \/ Tasks
  <2>1. CASE TaskEnds(t)
    BY <2>1 DEF Quiet, TaskEnds, FreeCalled, MainOnly, mapVars, newVars
  <2> QED BY <1>4, <2>1 DEF WorkerStep, Tasks
<1> QED BY <1>1, <1>2, <1>3, <1>4 DEF Next, MainStep

-----------------------------------------------------------------------------
(* The maps                                                                *)

\* A step that starts, hands over or ends nothing keeps what is known of the
\* calls that were taken back.
LEMMA RemovedKept ==
  ASSUME CallInv, RemovedInv, made' >= made, made' \in Nat, \A c \in removed : c \notin Setup',
         \A c \in removed' \ removed :
           /\ c \in 1 .. made' /\ c \notin Setup' /\ c \notin Made
           /\ event'[c].where \in {"queue", "batch", "timer"} => ~event'[c].valid
           /\ event'[c].where # "running"
           /\ \A t \in Threads : \A i \in DOMAIN inbox[t] : inbox[t][i] # c,
         \A c \in removed :
           /\ \/ event'[c].where \in {event[c].where, "deleted"}
              \/ event'[c].where = "batch" /\ event[c].where = "queue"
           /\ event'[c].valid => event[c].valid,
         UNCHANGED <<ran, inbox>>
  PROVE  RemovedInv'
<1>1. Made' = Made
  BY DEF Made
<1>2. \A c \in 1 .. made : c \in 1 .. made'
  BY Typical
<1> QED BY <1>1, <1>2 DEF RemovedInv

LEMMA NewCallMap ==
  ASSUME CallInv, MapInv, NEW o \in Objects, NEW r \in Requests, NewCallOut(Main, o, r)
  PROVE  MapInv'
<1> USE DEF mapVars, runVars
<1> DEFINE rec == [ob |-> o, fun |-> r.fun, delay |-> r.delay, walltime |-> r.walltime,
                   due |-> IF r.walltime THEN 0 ELSE tick + r.delay, born |-> tick, handle |-> 0]
<1>1. SetupInv /\ EventInv /\ HandleInv /\ RemovedInv /\ RefersInv
  BY DEF MapInv, CallInv
<1>2. /\ made \in Nat /\ tick \in Nat /\ unique \in Nat /\ made' = made + 1
      /\ efun[Main] = NoEfun /\ Setup = {} /\ main.pc \in {"loop", "lpc"}
      /\ UNCHANGED <<tick, main, event, handles, owners, unique, inserts, inbox, ran, removed>>
  BY Typical DEF NewCallOut, Free, RunsLPC, Setup
<1>3. /\ efun'[Main] = [step |-> "map", call |-> made + 1, u |-> unique + 1]
      /\ \A t \in Threads : efun'[t] = efun[t]
      /\ Setup' = {made + 1}
  <2>1. efun \in [Actors -> Efuns] /\ Main \in Actors /\ Main \notin Threads /\ Threads \subseteq Actors
    BY Typical DEF CallInv, TypeOK, Actors
  <2>2. efun' = [efun EXCEPT ![Main] = [step |-> "map", call |-> made + 1, u |-> unique + 1]]
    BY DEF NewCallOut
  <2> QED BY <2>1, <2>2 DEF Setup, NoEfun
<1>4. /\ call'[made + 1] = rec /\ \A c \in 1 .. made : call'[c] = call[c]
  <2>1. call' = Append(call, rec) /\ Len(call) = made /\ call \in Seq(Records)
    BY Typical DEF NewCallOut
  <2> QED BY <2>1
<1>5. event[made + 1].where = "none"
  BY <1>1, <1>2, CallOutAssumption DEF RefersInv, Existing, Calls, NewCallOut
<1>6. SetupInv'
  BY <1>1, <1>2, <1>3, <1>4 DEF SetupInv, NoEfun
<1>7. EventInv'
  BY <1>1, <1>2, <1>3, <1>5, <1>4 DEF EventInv
<1>8. HandleInv'
  <2>1. \A h \in DOMAIN handles : handles[h] \in 1 .. made
    BY DEF CallInv, TypeOK
  <2>2. \A c \in 1 .. made : (Held(c)' <=> Held(c)) /\ (InPlay(c)' <=> InPlay(c))
    BY <1>2, <1>4 DEF Held, InPlay
  <2> QED BY <1>1, <1>2, <1>3, <1>4, <2>1, <2>2 DEF HandleInv, NoEfun
<1>9. RemovedInv'
  BY <1>1, <1>2, <1>3, RemovedKept DEF RemovedInv
<1> QED BY <1>6, <1>7, <1>8, <1>9 DEF MapInv

\* The event of a call in the handle map may still make it, and is marked.
LEMMA RemovalMap ==
  ASSUME CallInv, MapInv, NEW H, NEW P, Removal(H, P)
  PROVE  /\ MapInv'
         /\ Taken(H) \subseteq 1 .. made /\ Taken(H) \cap Made = {} /\ Taken(H) \cap removed = {}
<1> USE DEF newVars, runVars
<1> DEFINE S == Taken(H)
<1>1. SetupInv /\ EventInv /\ HandleInv /\ RemovedInv /\ OnceInv
  BY DEF MapInv, CallInv
<1>2. /\ efun[Main] = NoEfun /\ Setup = {} /\ main.pc \in {"loop", "lpc"} /\ Setup' = {}
      /\ UNCHANGED <<tick, main, call, made, efun, unique, inserts, inbox, ran>>
      /\ H \subseteq DOMAIN handles /\ removed' = removed \cup S
      /\ \A c \in Calls : event'[c] = IF c \in S /\ event[c].where # "none"
                                     THEN [event[c] EXCEPT !.valid = FALSE] ELSE event[c]
  BY DEF Removal, Free, RunsLPC, Setup, FreeCalls
<1>3. ASSUME NEW c \in S PROVE c \in 1 .. made /\ Held(c) /\ call[c].handle \in H
  <2>1. PICK h \in H : c = handles[h]
    BY DEF Taken
  <2>2. h \in DOMAIN handles /\ call[c].handle = h
    BY <1>1, <1>2, <2>1 DEF HandleInv
  <2>3. c \in 1 .. made
    BY <2>1, <2>2 DEF CallInv, TypeOK
  <2> QED BY <2>1, <2>2, <2>3 DEF Held
<1>4. \A c \in 1 .. made : Held(c) /\ call[c].handle \in H => c \in S
  BY <1>2 DEF Taken, Held
<1>5. \A c \in S : event[c].where \in {"queue", "batch", "timer"} /\ event[c].valid
  BY <1>1, <1>2, <1>3 DEF HandleInv, InPlay
<1>6. \A c \in 1 .. made :
        /\ event'[c].where = event[c].where /\ event'[c].key = event[c].key
        /\ event'[c].stamp = event[c].stamp
        /\ (event'[c].valid <=> event[c].valid /\ c \notin S)
  <2> SUFFICES ASSUME NEW c \in 1 .. made
               PROVE /\ event'[c].where = event[c].where /\ event'[c].key = event[c].key
                     /\ event'[c].stamp = event[c].stamp
                     /\ (event'[c].valid <=> event[c].valid /\ c \notin S)
    OBVIOUS
  <2>1. c \in Calls /\ event[c] \in Events
    BY Typical
  <2>2. CASE c \in S
    <3>1. event'[c] = [event[c] EXCEPT !.valid = FALSE]
      BY <1>2, <1>5, <2>1, <2>2
    <3> QED BY <2>1, <2>2, <3>1 DEF Events
  <2>3. CASE c \notin S
    BY <1>2, <2>1, <2>3 DEF Events
  <2> QED BY <2>2, <2>3
<1>7. \A c \in 1 .. made : (Held(c)' <=> Held(c) /\ c \notin S) /\ (InPlay(c)' <=> InPlay(c) /\ c \notin S)
  <2>1. \A c \in 1 .. made : Held(c)' <=> Held(c) /\ c \notin S
    BY <1>2, <1>3, <1>4 DEF Held, Removal
  <2>2. \A c \in 1 .. made : InPlay(c)' <=> InPlay(c) /\ c \notin S
    BY <1>2, <1>6 DEF InPlay
  <2> QED BY <2>1, <2>2
<1>8. SetupInv'
  BY <1>1, <1>2 DEF SetupInv
<1>9. EventInv'
  BY <1>1, <1>2, <1>6 DEF EventInv
<1>10. HandleInv'
  <2>1. \A h \in DOMAIN handles' : h \in DOMAIN handles \ H /\ handles'[h] = handles[h]
    BY DEF Removal
  <2>2. \A h \in DOMAIN handles' : h > 0 /\ call'[handles'[h]].handle = h /\ <<call'[handles'[h]].ob, h>> \in owners'
    <3> SUFFICES ASSUME NEW h \in DOMAIN handles'
                 PROVE  h > 0 /\ call[handles[h]].handle = h /\ <<call[handles[h]].ob, h>> \in owners'
      BY <1>2, <2>1
    <3>1. h > 0 /\ call[handles[h]].handle = h /\ <<call[handles[h]].ob, h>> \in owners
      BY <1>1, <2>1 DEF HandleInv
    <3>2. <<call[handles[h]].ob, h>> \notin P
      <4>1. <<call[handles[h]].ob, h>>[2] = h
        OBVIOUS
      <4> QED BY <2>1, <4>1 DEF Removal
    <3> QED BY <3>1, <3>2 DEF Removal
  <2> QED BY <1>1, <1>2, <1>7, <2>2 DEF HandleInv, NoEfun
<1>11. S \cap Made = {} /\ \A t \in Threads : \A i \in DOMAIN inbox[t] : inbox[t][i] \notin S
  BY <1>1, <1>5 DEF OnceInv
<1>12. RemovedInv'
  <2>1. \A c \in removed : c \in 1 .. made
    BY <1>1 DEF RemovedInv
  <2>2. \A c \in removed' \ removed :
           /\ c \in 1 .. made' /\ c \notin Setup' /\ c \notin Made
           /\ event'[c].where \in {"queue", "batch", "timer"} => ~event'[c].valid
           /\ event'[c].where # "running"
           /\ \A t \in Threads : \A i \in DOMAIN inbox[t] : inbox[t][i] # c
    <3> SUFFICES ASSUME NEW c \in S
                 PROVE  /\ c \in 1 .. made /\ c \notin Made
                        /\ ~event'[c].valid /\ event'[c].where # "running"
                        /\ \A t \in Threads : \A i \in DOMAIN inbox[t] : inbox[t][i] # c
      BY <1>2
    <3>1. c \in 1 .. made /\ event[c].where \in {"queue", "batch", "timer"} /\ c \in S
      BY <1>3, <1>5
    <3>2. ~event'[c].valid /\ event'[c].where # "running"
      BY <1>6, <3>1
    <3> QED BY <1>11, <3>1, <3>2
  <2>3. \A c \in removed :
           /\ \/ event'[c].where \in {event[c].where, "deleted"}
              \/ event'[c].where = "batch" /\ event[c].where = "queue"
           /\ event'[c].valid => event[c].valid
    BY <1>6, <2>1
  <2>4. made' >= made /\ made' \in Nat /\ \A c \in removed : c \notin Setup'
    BY <1>2, Typical
  <2>5. UNCHANGED <<ran, inbox>>
    BY <1>2
  <2> QED BY <1>1, <2>2, <2>3, <2>4, <2>5, RemovedKept
<1>13. S \cap removed = {}
  BY <1>1, <1>5 DEF RemovedInv
<1> QED BY <1>3, <1>8, <1>9, <1>10, <1>11, <1>12, <1>13 DEF MapInv

\* A tick begins or ends when nothing is being made.
LEMMA QuietMap ==
  ASSUME CallInv, MapInv, Quiet PROVE MapInv'
<1> USE DEF mapVars
<1>1. SetupInv /\ EventInv /\ HandleInv /\ RemovedInv
  BY DEF MapInv
<1>2. /\ UNCHANGED <<event, handles, owners, call, made, unique, efun, inserts, inbox, ran, removed>>
      /\ Setup' = Setup
  BY DEF Quiet, Setup
<1>3. \/ UNCHANGED <<tick, main>>
      \/ /\ efun[Main] = NoEfun /\ tick' \in {tick, tick + 1}
         /\ main.pc \in {"loop", "tick"} /\ main'.pc \in {"loop", "tick"}
  <2>1. main \in [pc : {"loop", "tick", "call", "lpc"}, call : Calls \cup {None}, back : {"loop", "tick"}]
    BY DEF CallInv, TypeOK
  <2>2. CASE GameTick
    BY <2>1, <2>2 DEF GameTick, MainIdle, InLoop
  <2>3. CASE TickDone
    BY <1>1, <2>1, <2>3 DEF TickDone, InLoop, SetupInv
  <2> QED BY <2>2, <2>3 DEF Quiet
<1>4. \A c \in 1 .. made : (Held(c)' <=> Held(c)) /\ (InPlay(c)' <=> InPlay(c))
  BY <1>2, <1>3 DEF Held, InPlay
<1>5. SetupInv' /\ RemovedInv'
  BY <1>1, <1>2, <1>3 DEF SetupInv, RemovedInv, Made
<1>6. EventInv'
  BY <1>1, <1>2, <1>3 DEF EventInv
<1>7. HandleInv'
  <2>1. \A c \in 1 .. made : call[c].handle <= tick' + unique
    BY <1>1, <1>3, Typical DEF HandleInv
  <2>2. Held(made)' <=> Held(made)
    BY <1>2 DEF Held
  <2> QED BY <1>1, <1>2, <1>4, <2>1, <2>2 DEF HandleInv
<1> QED BY <1>5, <1>6, <1>7 DEF MapInv

\* The new handle is larger than all others.
LEMMA MapCallOutMap ==
  ASSUME MainOnly, CallInv, MapInv, MapCallOut(Main)
  PROVE  /\ MapInv'
         /\ \A c \in 1 .. made : /\ call'[c].due = call[c].due /\ call'[c].walltime = call[c].walltime
                                 /\ call'[c].ob = call[c].ob /\ call'[c].fun = call[c].fun
                                 /\ call'[c].delay = call[c].delay
<1> USE DEF mapVars, runVars
<1> DEFINE h == tick + made + 1
<1>1. SetupInv /\ EventInv /\ HandleInv /\ RemovedInv
  BY DEF MapInv
<1>2. /\ efun[Main] # NoEfun /\ efun[Main].step = "map" /\ efun[Main].call = made /\ made \in 1 .. made
      /\ efun[Main].u = made + 1 /\ unique = made /\ Setup = {made} /\ event[made].where = "none"
      /\ call[made].handle = 0 /\ h \in Nat
  BY <1>1, SetupIsMain, Typical DEF MapCallOut, NoEfun, SetupInv
<1>3. /\ UNCHANGED <<tick, main, event, made, inserts, inbox, ran, removed>>
      /\ call' = [call EXCEPT ![made].handle = h]
      /\ handles' = [x \in DOMAIN handles \cup {h} |-> IF x \in DOMAIN handles THEN handles[x] ELSE made]
      /\ owners' = owners \cup {<<call[made].ob, h>>}
      /\ efun' = [efun EXCEPT ![Main].step = "event"]
      /\ unique' = made + 1
  <2>1. tick + efun[Main].u = h /\ ~(efun[Main].u > UniqueMax)
    BY <1>2, Typical, CallOutAssumption DEF MainOnly
  <2> QED BY <1>2, <2>1 DEF MapCallOut
<1>4. /\ efun'[Main] = [efun[Main] EXCEPT !.step = "event"]
      /\ \A t \in Threads : efun'[t] = efun[t]
      /\ efun'[Main] # NoEfun /\ efun'[Main].step = "event" /\ efun'[Main].call = made /\ Setup' = {made}
  <2>1. efun \in [Actors -> Efuns] /\ Main \in Actors /\ Main \notin Threads /\ Threads \subseteq Actors
    BY Typical DEF CallInv, TypeOK, Actors
  <2>2. /\ efun'[Main] = [efun[Main] EXCEPT !.step = "event"]
        /\ \A t \in Threads : efun'[t] = efun[t]
    BY <1>3, <2>1
  <2>3. efun[Main] = [step |-> efun[Main].step, call |-> made, u |-> efun[Main].u]
    BY <1>1, <1>2, SetupIsMain
  <2>4. efun'[Main].step = "event" /\ efun'[Main].call = made
    BY <2>2, <2>3
  <2>5. efun'[Main] # NoEfun
    BY <2>4 DEF NoEfun
  <2> QED BY <2>2, <2>4, <2>5 DEF Setup
<1>5. /\ \A c \in 1 .. made : c # made => call'[c] = call[c]
      /\ call'[made] = [call[made] EXCEPT !.handle = h]
  BY <1>2, <1>3, Typical
<1>6. /\ call'[made].handle = h /\ call'[made].due = call[made].due
      /\ call'[made].walltime = call[made].walltime /\ call'[made].delay = call[made].delay
      /\ call'[made].ob = call[made].ob /\ call'[made].fun = call[made].fun
  <2>1. call[made] \in Records
    BY <1>2, Typical
  <2> QED BY <1>5, <2>1 DEF Records
<1>7. \A x \in DOMAIN handles : /\ x > 0 /\ x # h /\ handles[x] \in 1 .. made /\ handles[x] # made
                                /\ call[handles[x]].handle = x /\ <<call[handles[x]].ob, x>> \in owners
  <2>1. \A x \in DOMAIN handles : /\ handles[x] \in 1 .. made /\ x > 0 /\ call[handles[x]].handle = x
                                  /\ <<call[handles[x]].ob, x>> \in owners
    BY <1>1 DEF HandleInv, CallInv, TypeOK
  <2>2. \A c \in 1 .. made : call[c].handle # h
    BY <1>1, <1>2, Typical DEF HandleInv
  <2> QED BY <1>2, <2>1, <2>2
<1>13. /\ DOMAIN handles' = DOMAIN handles \cup {h} /\ handles'[h] = made
       /\ \A x \in DOMAIN handles : handles'[x] = handles[x]
  <2>1. h \notin DOMAIN handles
    BY <1>7
  <2> HIDE DEF h
  <2> QED BY <1>3, <2>1
<1>8. \A c \in 1 .. made : c # made => (Held(c)' <=> Held(c)) /\ (InPlay(c)' <=> InPlay(c))
  <2>1. \A c \in 1 .. made : call[c].handle # h
    BY <1>1, <1>2, Typical DEF HandleInv
  <2>2. \A c \in 1 .. made : c # made => (Held(c)' <=> Held(c))
    BY <1>3, <1>5, <2>1 DEF Held
  <2> QED BY <1>3, <2>2 DEF InPlay
<1>9. SetupInv'
  BY <1>1, <1>2, <1>3, <1>4, <1>6 DEF SetupInv
<1>10. EventInv'
  BY <1>1, <1>2, <1>3, <1>4, <1>5, <1>6 DEF EventInv
<1>11. HandleInv'
  <2>1. \A c \in 1 .. made : call'[c].handle <= tick + made + 1
    <3> SUFFICES ASSUME NEW c \in 1 .. made PROVE call'[c].handle <= tick + made + 1
      OBVIOUS
    <3>1. CASE c = made
      BY <1>2, <1>6, <3>1
    <3>2. CASE c # made
      BY <1>1, <1>2, <1>5, <3>2, Typical DEF HandleInv
    <3> QED BY <3>1, <3>2
  <2>2. Held(made)'
    BY <1>3, <1>6, <1>13 DEF Held
  <2>3. \A x \in DOMAIN handles' : x > 0 /\ call'[handles'[x]].handle = x /\ <<call'[handles'[x]].ob, x>> \in owners'
    <3> SUFFICES ASSUME NEW x \in DOMAIN handles'
                 PROVE  x > 0 /\ call'[handles'[x]].handle = x /\ <<call'[handles'[x]].ob, x>> \in owners'
      OBVIOUS
    <3>1. CASE x = h
      <4>1. h > 0 /\ handles'[h] = made /\ call'[made].handle = h /\ call'[made].ob = call[made].ob
        BY <1>6, <1>13, Typical
      <4>2. <<call[made].ob, h>> \in owners'
        BY <1>3
      <4> QED BY <3>1, <4>1, <4>2
    <3>2. CASE x # h
      <4>1. x \in DOMAIN handles /\ handles'[x] = handles[x] /\ call'[handles[x]] = call[handles[x]]
        BY <1>5, <1>7, <1>13, <3>2
      <4>2. owners \subseteq owners'
        BY <1>3
      <4> QED BY <1>7, <4>1, <4>2
    <3> QED BY <3>1, <3>2
  <2>4. tick' = tick /\ unique' = made + 1 /\ made' = made
    BY <1>3
  <2> QED BY <1>1, <1>2, <1>4, <1>8, <2>1, <2>2, <2>3, <2>4, Typical DEF HandleInv
<1>12. RemovedInv'
  BY <1>1, <1>2, <1>3, <1>4 DEF RemovedInv, Made
<1> QED BY <1>5, <1>6, <1>9, <1>10, <1>11, <1>12 DEF MapInv

\* The call new_call_out() inserts.
LEMMA AddEventMap ==
  ASSUME CallInv, MapInv, AddEvent(Main)
  PROVE  /\ MapInv' /\ made \in 1 .. made /\ Setup = {made} /\ main.pc \in {"loop", "lpc"}
         /\ UNCHANGED <<tick, main, made, call, inbox, ran, removed>>
         /\ \A c \in Calls \ {made} : event'[c] = event[c]
         /\ event[made].where = "none" /\ event'[made].where \in {"timer", "queue"}
         /\ event'[made].where = "queue" => call[made].due = tick + call[made].delay /\ made \in Timed
<1> USE DEF mapVars, runVars
<1>1. SetupInv /\ EventInv /\ HandleInv /\ RemovedInv
  BY DEF MapInv
<1>2. /\ efun[Main] # NoEfun /\ efun[Main].step = "event" /\ efun[Main].call = made /\ made \in 1 .. made
      /\ Setup = {made} /\ event[made].where = "none" /\ unique = made + 1 /\ inserts = made - 1
      /\ main.pc \in {"loop", "lpc"}
      /\ call[made].walltime \/ call[made].due = tick + call[made].delay
  BY <1>1, SetupIsMain, Typical DEF AddEvent, NoEfun, SetupInv
<1>3. /\ UNCHANGED <<tick, main, handles, owners, call, made, unique, inbox, ran, removed>>
      /\ event' = [event EXCEPT ![made] =
                     [where |-> IF call[made].walltime THEN "timer" ELSE "queue",
                      key |-> tick + call[made].delay, stamp |-> made, valid |-> TRUE]]
      /\ inserts' = made /\ efun' = [efun EXCEPT ![Main] = NoEfun]
  <2>1. inserts + 1 = made
    BY <1>2, Typical
  <2>2. event' = [event EXCEPT ![efun[Main].call] =
                     [where |-> IF call[efun[Main].call].walltime THEN "timer" ELSE "queue",
                      key |-> EventKey(efun[Main].call), stamp |-> inserts + 1, valid |-> TRUE]]
    BY DEF AddEvent
  <2> QED BY <1>2, <2>1, <2>2 DEF AddEvent, EventKey
<1>4. efun'[Main] = NoEfun /\ (\A t \in Threads : efun'[t] = efun[t]) /\ Setup' = {}
  <2>1. efun \in [Actors -> Efuns] /\ Main \in Actors /\ Main \notin Threads /\ Threads \subseteq Actors
    BY Typical DEF CallInv, TypeOK, Actors
  <2> QED BY <1>3, <2>1 DEF Setup
<1>5. /\ \A c \in Calls \ {made} : event'[c] = event[c]
      /\ event'[made] = [where |-> IF call[made].walltime THEN "timer" ELSE "queue",
                         key |-> tick + call[made].delay, stamp |-> made, valid |-> TRUE]
  BY <1>2, <1>3, Typical
<1>6. SetupInv'
  BY <1>1, <1>2, <1>3, <1>4 DEF SetupInv, NoEfun
<1>7. EventInv'
  <2>1. \A c \in 1 .. made : c \in Calls /\ call[c].walltime \in BOOLEAN
    BY Typical
  <2> QED BY <1>1, <1>2, <1>3, <1>4, <1>5, <2>1 DEF EventInv
<1>8. HandleInv'
  <2>1. \A c \in 1 .. made : c # made => (Held(c)' <=> Held(c)) /\ (InPlay(c)' <=> InPlay(c))
    BY <1>3, <1>5, Typical DEF Held, InPlay
  <2>2. Held(made)' /\ InPlay(made)'
    BY <1>1, <1>2, <1>3, <1>5 DEF HandleInv, Held, InPlay
  <2> QED BY <1>1, <1>2, <1>3, <1>4, <2>1, <2>2 DEF HandleInv, NoEfun
<1>9. RemovedInv'
  BY <1>1, <1>2, <1>3, <1>4, <1>5, Typical DEF RemovedInv, Made
<1> QED BY <1>2, <1>3, <1>5, <1>6, <1>7, <1>8, <1>9 DEF MapInv, Timed

\* The batch of one pass of call_tick_events().
LEMMA ExtractMap ==
  ASSUME CallInv, MapInv, ExtractEvents
  PROVE  /\ MapInv' /\ main.pc = "tick" /\ At("batch") = {}
         /\ UNCHANGED <<tick, main, made, call, inbox, ran, removed>>
         /\ \A c \in Calls \ Eligible : event'[c] = event[c]
         /\ \A c \in Eligible : c \in Calls /\ event[c].where = "queue" /\ event'[c].where = "batch"
<1> USE DEF mapVars, newVars, runVars
<1>1. SetupInv /\ EventInv /\ HandleInv /\ RemovedInv
  BY DEF MapInv
<1>2. /\ UNCHANGED <<tick, main, handles, owners, call, made, unique, inserts, efun, inbox, ran, removed>>
      /\ main.pc = "tick" /\ At("batch") = {} /\ event' = MoveTo(Eligible, "batch") /\ Setup' = Setup
      /\ Eligible \subseteq Calls
  BY DEF ExtractEvents, Setup, Eligible, At
<1>3. /\ \A c \in Calls \ Eligible : event'[c] = event[c]
      /\ \A c \in Eligible : event[c].where = "queue" /\ event'[c] = [event[c] EXCEPT !.where = "batch"]
  BY <1>2 DEF MoveTo, Eligible, At
<1>4. ASSUME NEW c \in Eligible
      PROVE  /\ event'[c].where = "batch" /\ event'[c].key = event[c].key
             /\ event'[c].stamp = event[c].stamp /\ (event'[c].valid <=> event[c].valid)
  <2>1. event[c] \in Events /\ event'[c] = [event[c] EXCEPT !.where = "batch"]
    BY <1>2, <1>3, Typical
  <2> QED BY <2>1 DEF Events
<1>5. SetupInv'
  BY <1>1, <1>2 DEF SetupInv
<1>6. EventInv'
  <2> SUFFICES ASSUME NEW c \in 1 .. made
               PROVE  /\ (event'[c].where = "none") <=> (c \in Setup)
                      /\ event'[c].where \in {"queue", "batch"} =>
                           ~call[c].walltime /\ event'[c].key = call[c].due /\ event'[c].stamp = c
                      /\ event'[c].where = "timer" => call[c].walltime
                      /\ event'[c].where = "running" => main.pc \in {"call", "lpc"} /\ main.call = c
    BY <1>2 DEF EventInv
  <2>1. c \in Calls
    BY Typical
  <2>2. CASE c \in Eligible
    <3>1. event[c].where = "queue"
      BY <1>3, <2>2
    <3>2. c \notin Setup /\ ~call[c].walltime /\ event[c].key = call[c].due /\ event[c].stamp = c
      BY <1>1, <3>1 DEF EventInv
    <3> QED BY <1>4, <2>2, <3>2
  <2>3. CASE c \notin Eligible
    BY <1>1, <1>3, <2>1, <2>3 DEF EventInv
  <2> QED BY <2>2, <2>3
<1>7. HandleInv'
  <2>1. \A c \in 1 .. made : (Held(c)' <=> Held(c)) /\ (InPlay(c)' <=> InPlay(c))
    <3> SUFFICES ASSUME NEW c \in 1 .. made PROVE (Held(c)' <=> Held(c)) /\ (InPlay(c)' <=> InPlay(c))
      OBVIOUS
    <3>1. c \in Calls
      BY Typical
    <3> QED BY <1>2, <1>3, <1>4, <3>1 DEF Held, InPlay
  <2>2. Held(made)' <=> Held(made)
    BY <1>2 DEF Held
  <2> QED BY <1>1, <1>2, <2>1, <2>2 DEF HandleInv
<1>8. RemovedInv'
  <2>1. made' >= made /\ made' \in Nat /\ \A c \in removed : c \notin Setup'
    BY <1>1, <1>2, Typical DEF RemovedInv
  <2>2. \A c \in removed :
           /\ \/ event'[c].where \in {event[c].where, "deleted"}
              \/ event'[c].where = "batch" /\ event[c].where = "queue"
           /\ event'[c].valid => event[c].valid
    BY <1>3, <1>4, Typical
  <2>3. removed' \ removed = {} /\ UNCHANGED <<ran, inbox>>
    BY <1>2
  <2> QED BY <1>1, <2>1, <2>2, <2>3, RemovedKept
<1> QED BY <1>2, <1>3, <1>4, <1>5, <1>6, <1>7, <1>8 DEF MapInv

\* An event whose call was taken back is deleted, another one begins its call.
LEMMA DispatchMap ==
  ASSUME CallInv, MapInv, NEW c \in Calls, RunEvent(c) \/ FireTimer(c)
  PROVE  /\ MapInv' /\ c \in 1 .. made /\ event[c].where \in {"batch", "timer"} /\ main.pc \in {"tick", "loop"}
         /\ UNCHANGED <<tick, made, call, inbox, ran, removed>>
         /\ \A d \in Calls \ {c} : event'[d] = event[d]
         /\ event[c].valid => /\ event'[c].where = "running"
                              /\ main'.pc = "call" /\ main'.call = c
         /\ ~event[c].valid => event'[c].where = "deleted" /\ main' = main
<1> USE DEF mapVars, newVars, runVars
<1>1. SetupInv /\ EventInv /\ HandleInv /\ RemovedInv /\ RefersInv
  BY DEF MapInv, CallInv
<1>2. PICK back \in {"loop", "tick"} :
        /\ Dispatch(c, back) /\ main.pc = back /\ event[c].where \in {"batch", "timer"}
        /\ efun[Main] = NoEfun
  BY <1>1 DEF RunEvent, FireTimer, MainIdle, InLoop, At, SetupInv
<1>3. /\ UNCHANGED <<tick, handles, owners, call, made, unique, inserts, efun, inbox, ran, removed>>
      /\ Setup = {} /\ Setup' = {}
  BY <1>2 DEF Dispatch, Setup
<1>4. c \in 1 .. made
  BY <1>1, <1>2 DEF RefersInv, Existing
<1>5. /\ \A d \in Calls \ {c} : event'[d] = event[d]
      /\ event[c].valid => event'[c] = [event[c] EXCEPT !.where = "running"]
      /\ ~event[c].valid => event'[c] = [NoEvent EXCEPT !.where = "deleted", !.stamp = inserts]
  BY <1>2 DEF Dispatch, MoveTo, Delete
<1>6. /\ event[c].valid => /\ event'[c].where = "running"
                           /\ main'.pc = "call" /\ main'.call = c
      /\ ~event[c].valid => event'[c].where = "deleted" /\ main' = main /\ ~event'[c].valid
  <2>1. event[c] \in Events
    BY <1>4, Typical
  <2> QED BY <1>2, <1>5, <2>1 DEF Dispatch, Events, NoEvent
<1>7. SetupInv'
  BY <1>1, <1>2, <1>3 DEF SetupInv, NoEfun
<1>8. EventInv'
  <2> SUFFICES ASSUME NEW d \in 1 .. made
               PROVE  /\ event'[d].where # "none"
                      /\ event'[d].where \in {"queue", "batch"} =>
                           ~call[d].walltime /\ event'[d].key = call[d].due /\ event'[d].stamp = d
                      /\ event'[d].where = "timer" => call[d].walltime
                      /\ event'[d].where = "running" => main'.pc \in {"call", "lpc"} /\ main'.call = d
    BY <1>3 DEF EventInv
  <2>1. d \in Calls
    BY Typical
  <2>2. CASE d = c
    BY <1>6, <2>2
  <2>3. CASE d # c
    <3>1. event'[d] = event[d] /\ event[d].where # "running" /\ event[d].where # "none"
      BY <1>1, <1>2, <1>3, <1>5, <2>1, <2>3 DEF EventInv
    <3> QED BY <1>1, <3>1 DEF EventInv
  <2> QED BY <2>2, <2>3
<1>9. HandleInv'
  <2>1. \A d \in 1 .. made : Held(d)' <=> Held(d)
    BY <1>3 DEF Held
  <2>2. \A d \in 1 .. made : InPlay(d)' <=> InPlay(d)
    <3> SUFFICES ASSUME NEW d \in 1 .. made PROVE InPlay(d)' <=> InPlay(d)
      OBVIOUS
    <3>1. d \in Calls /\ main.pc # "call"
      BY <1>2, Typical
    <3>2. CASE d = c
      BY <1>2, <1>6, <3>1, <3>2 DEF InPlay
    <3>3. CASE d # c
      BY <1>5, <1>6, <3>1, <3>3 DEF InPlay
    <3> QED BY <3>2, <3>3
  <2>3. \A h \in DOMAIN handles : handles[h] \in 1 .. made
    BY DEF CallInv, TypeOK
  <2> QED BY <1>1, <1>2, <1>3, <2>1, <2>2, <2>3 DEF HandleInv, NoEfun
<1>10. RemovedInv'
  <2>1. Made' = Made
    BY <1>3 DEF Made
  <2> SUFFICES ASSUME NEW d \in removed
               PROVE  /\ event'[d].where \in {"queue", "batch", "timer"} => ~event'[d].valid
                      /\ event'[d].where # "running"
    BY <1>1, <1>3, <2>1 DEF RemovedInv
  <2>2. d \in Calls
    BY <1>1, Typical DEF RemovedInv
  <2>3. CASE d = c
    <3>1. ~event[c].valid
      BY <1>1, <1>2, <2>3 DEF RemovedInv
    <3> QED BY <1>6, <2>3, <3>1
  <2>4. CASE d # c
    BY <1>1, <1>5, <2>2, <2>4 DEF RemovedInv
  <2> QED BY <2>3, <2>4
<1> QED BY <1>2, <1>3, <1>4, <1>5, <1>6, <1>7, <1>8, <1>9, <1>10 DEF MapInv

\* call_out() takes the call it makes out of the handle map, and no other.
LEMMA CallOutMap ==
  ASSUME CallInv, MapInv, CallOutDropped \/ CallOutPosted \/ CallOutInline \/ InlineDone
  PROVE  /\ MapInv' /\ main.call \in 1 .. made /\ event[main.call].where = "running"
         /\ UNCHANGED <<tick, made, call>> /\ main.pc \in {"call", "lpc"} /\ main'.pc # "call"
         /\ \A d \in Calls \ {main.call} : event'[d] = event[d]
         /\ event'[main.call].where \in {"running", "deleted"} /\ main.call \notin removed
<1> USE DEF mapVars, newVars, runVars
<1> DEFINE m == main.call
<1>1. SetupInv /\ EventInv /\ HandleInv /\ RemovedInv /\ RefersInv /\ OnceInv
  BY DEF MapInv, CallInv
<1>2. /\ UNCHANGED <<tick, owners, call, made, unique, inserts, efun>>
      /\ main.pc \in {"call", "lpc"} /\ efun[Main] = NoEfun /\ Setup = {} /\ Setup' = {}
      /\ main.pc = "lpc" => UNCHANGED <<handles, inbox, ran, removed>>
      /\ main.pc = "call" => handles' = Erase(handles, {call[m].handle})
      /\ Return(m) \/ (CallOutInline /\ UNCHANGED event)
  BY <1>1 DEF CallOutDropped, CallOutPosted, CallOutInline, InlineDone, SetupInv, Setup
<1>3. m \in 1 .. made /\ m \in Calls /\ event[m].where = "running"
  BY <1>1, <1>2, Typical DEF RefersInv, Existing
<1>4. /\ \A d \in Calls \ {m} : event'[d] = event[d]
      /\ \/ event'[m] = [NoEvent EXCEPT !.where = "deleted", !.stamp = inserts] /\ main'.pc \in {"loop", "tick"}
         \/ CallOutInline /\ event'[m] = event[m] /\ main'.pc = "lpc" /\ main'.call = m
  <2>1. main \in [pc : {"loop", "tick", "call", "lpc"}, call : Calls \cup {None}, back : {"loop", "tick"}]
    BY DEF CallInv, TypeOK
  <2>2. CASE Return(m)
    BY <1>3, <2>1, <2>2 DEF Return, Delete, InLoop
  <2>3. CASE CallOutInline /\ UNCHANGED event
    BY <2>1, <2>3 DEF CallOutInline
  <2> QED BY <1>2, <2>2, <2>3
<1>5. event'[m].where \in {"running", "deleted"} /\ main'.pc # "call"
  BY <1>3, <1>4 DEF NoEvent
<1>6. SetupInv'
  BY <1>1, <1>2 DEF SetupInv, NoEfun
<1>7. EventInv'
  <2> SUFFICES ASSUME NEW d \in 1 .. made
               PROVE  /\ event'[d].where # "none"
                      /\ event'[d].where \in {"queue", "batch"} =>
                           ~call[d].walltime /\ event'[d].key = call[d].due /\ event'[d].stamp = d
                      /\ event'[d].where = "timer" => call[d].walltime
                      /\ event'[d].where = "running" => main'.pc \in {"call", "lpc"} /\ main'.call = d
    BY <1>2 DEF EventInv
  <2>1. d \in Calls
    BY Typical
  <2>2. CASE d = m
    BY <1>3, <1>4, <2>2 DEF NoEvent
  <2>3. CASE d # m
    <3>1. event'[d] = event[d] /\ event[d].where # "running" /\ event[d].where # "none"
      BY <1>1, <1>2, <1>4, <2>1, <2>3 DEF EventInv
    <3> QED BY <1>1, <3>1 DEF EventInv
  <2> QED BY <2>2, <2>3
<1>8. HandleInv'
  <2>1. \A h \in DOMAIN handles : handles[h] \in 1 .. made
    BY DEF CallInv, TypeOK
  <2>2. /\ DOMAIN handles' \subseteq DOMAIN handles /\ \A h \in DOMAIN handles' : handles'[h] = handles[h]
        /\ \A d \in 1 .. made : d # m => (Held(d)' <=> Held(d))
        /\ \A d \in 1 .. made : d = m => ~Held(d)'
    <3>1. CASE main.pc = "call"
      <4>1. Held(m)
        BY <1>1, <1>2, <1>3, <3>1 DEF HandleInv, InPlay
      <4>2. \A d \in 1 .. made : d # m /\ Held(d) => call[d].handle # call[m].handle
        BY <4>1 DEF Held
      <4>3. /\ DOMAIN handles' = DOMAIN handles \ {call[m].handle}
            /\ \A h \in DOMAIN handles' : handles'[h] = handles[h]
        BY <1>2, <3>1 DEF Erase
      <4> QED BY <1>2, <4>2, <4>3 DEF Held
    <3>2. CASE main.pc = "lpc"
      <4>1. ~InPlay(m)
        BY <1>3, <3>2 DEF InPlay
      <4>2. ~Held(m)
        BY <1>1, <1>2, <1>3, <4>1 DEF HandleInv
      <4> QED BY <1>2, <3>2, <4>2 DEF Held
    <3> QED BY <1>2, <3>1, <3>2
  <2>3. \A d \in 1 .. made : d = m => ~InPlay(d)'
    BY <1>5 DEF InPlay
  <2>4. \A d \in 1 .. made : d # m => (InPlay(d)' <=> InPlay(d))
    <3> SUFFICES ASSUME NEW d \in 1 .. made, d # m PROVE InPlay(d)' <=> InPlay(d)
      OBVIOUS
    <3>1. event'[d] = event[d]
      BY <1>4, Typical
    <3> QED BY <1>5, <3>1 DEF InPlay
  <2> QED BY <1>1, <1>2, <2>1, <2>2, <2>3, <2>4 DEF HandleInv, NoEfun
<1>9. m \notin removed
  BY <1>1, <1>3 DEF RemovedInv
<1>10. RemovedInv'
  <2>1. CASE CallOutDropped \/ InlineDone
    <3>1. /\ UNCHANGED <<ran, inbox>> /\ event'[m].where = "deleted"
          /\ removed' = removed \/ (main.pc = "call" /\ removed' = removed \cup {m})
      BY <1>3, <1>4, <2>1 DEF CallOutDropped, InlineDone, CallOutInline, NoEvent
    <3>2. main.pc = "call" => m \notin Made
      BY <1>1 DEF OnceInv
    <3>3. \A t \in Threads : \A i \in DOMAIN inbox[t] : inbox[t][i] # m
      BY <1>1, <1>3 DEF OnceInv
    <3>4. made' >= made /\ made' \in Nat /\ \A c \in removed : c \notin Setup'
      BY <1>2, Typical
    <3>5. \A c \in removed :
           /\ \/ event'[c].where \in {event[c].where, "deleted"}
              \/ event'[c].where = "batch" /\ event[c].where = "queue"
           /\ event'[c].valid => event[c].valid
      BY <1>4, <1>9, Typical
    <3>6. \A c \in removed' \ removed :
           /\ c \in 1 .. made' /\ c \notin Setup' /\ c \notin Made
           /\ event'[c].where \in {"queue", "batch", "timer"} => ~event'[c].valid
           /\ event'[c].where # "running"
           /\ \A t \in Threads : \A i \in DOMAIN inbox[t] : inbox[t][i] # c
      BY <1>2, <1>3, <3>1, <3>2, <3>3
    <3> QED BY <1>1, <3>1, <3>4, <3>5, <3>6, RemovedKept
  <2>2. CASE CallOutPosted \/ CallOutInline
    <3>1. UNCHANGED removed
      BY <2>2 DEF CallOutPosted, CallOutInline
    <3> SUFFICES ASSUME NEW c \in removed
                 PROVE  /\ c \in 1 .. made' /\ c \notin Setup' /\ c \notin Made'
                        /\ event'[c].where \in {"queue", "batch", "timer"} => ~event'[c].valid
                        /\ event'[c].where # "running"
                        /\ \A t \in Threads : \A i \in DOMAIN inbox'[t] : inbox'[t][i] # c
      BY <3>1 DEF RemovedInv
    <3>2. c # m /\ event'[c] = event[c]
      BY <1>4, <1>9, Typical
    <3>3. \A i \in DOMAIN ran' : ran'[i] = m \/ (i \in DOMAIN ran /\ ran'[i] = ran[i])
      <4>1. ran \in Seq(Calls) /\ (ran' = ran \/ ran' = Append(ran, m))
        BY <2>2 DEF CallOutPosted, CallOutInline, CallInv, TypeOK
      <4> HIDE DEF m
      <4> QED BY <1>3, <4>1, AppendIndices
    <3>4. \A t \in Threads : \A i \in DOMAIN inbox'[t] :
            inbox'[t][i] = m \/ (i \in DOMAIN inbox[t] /\ inbox'[t][i] = inbox[t][i])
      <4> SUFFICES ASSUME NEW t \in Threads
                   PROVE  \A i \in DOMAIN inbox'[t] :
                            inbox'[t][i] = m \/ (i \in DOMAIN inbox[t] /\ inbox'[t][i] = inbox[t][i])
        OBVIOUS
      <4>1. inbox[t] \in Seq(Calls) /\ (inbox'[t] = inbox[t] \/ inbox'[t] = Append(inbox[t], m))
        BY <2>2 DEF CallOutPosted, CallOutInline, CallInv, TypeOK
      <4> HIDE DEF m
      <4> QED BY <1>3, <4>1, AppendIndices
    <3>5. c \notin Made'
      BY <1>1, <3>2, <3>3 DEF Made, RemovedInv
    <3> QED BY <1>1, <1>2, <3>2, <3>4, <3>5 DEF RemovedInv
  <2> QED BY <2>1, <2>2
<1> QED BY <1>2, <1>3, <1>4, <1>5, <1>6, <1>7, <1>8, <1>9, <1>10 DEF MapInv

\* A task leaves its queue, and with ReuseEvents ruled out touches no event.
LEMMA TasksMap ==
  ASSUME MainOnly, CallInv, MapInv, NEW t \in Threads, TaskDropped(t) \/ TaskBegins(t)
  PROVE  /\ MapInv' /\ UNCHANGED <<tick, main, event, made, call>>
         /\ inbox[t] # << >> /\ inbox' = [inbox EXCEPT ![t] = Tail(inbox[t])]
         /\ Head(inbox[t]) \in 1 .. made /\ Head(inbox[t]) \notin Made /\ Head(inbox[t]) \notin removed
         /\ \A u \in Threads : \A i \in DOMAIN inbox'[u] :
              /\ inbox'[u][i] # Head(inbox[t])
              /\ IF u = t THEN i \in Nat /\ i + 1 \in DOMAIN inbox[u] /\ inbox'[u][i] = inbox[u][i + 1]
                          ELSE i \in DOMAIN inbox[u] /\ inbox'[u][i] = inbox[u][i]
<1> USE DEF mapVars, newVars, runVars
<1> DEFINE h == Head(inbox[t])
<1>1. SetupInv /\ EventInv /\ HandleInv /\ RemovedInv /\ RefersInv /\ OnceInv
  BY DEF MapInv, CallInv
<1>2. /\ UNCHANGED <<tick, main, event, handles, owners, call, made, unique, inserts, efun>>
      /\ inbox[t] # << >> /\ inbox' = [inbox EXCEPT ![t] = Tail(inbox[t])] /\ Setup' = Setup
  BY DEF TaskDropped, TaskBegins, FreeCalled, MainOnly, Setup
<1>3. /\ inbox[t] \in Seq(Calls) /\ 1 \in DOMAIN inbox[t] /\ h = inbox[t][1]
      /\ \A i \in DOMAIN Tail(inbox[t]) : /\ i \in Nat \ {0} /\ i + 1 \in DOMAIN inbox[t]
                                          /\ Tail(inbox[t])[i] = inbox[t][i + 1]
  BY <1>2, HeadTailProperties DEF CallInv, TypeOK
<1>4. h \in 1 .. made /\ event[h].where = "deleted" /\ h \notin Made /\ h \notin removed
  BY <1>1, <1>3 DEF OnceInv, RemovedInv, Existing
<1>5. \A u \in Threads : inbox'[u] = IF u = t THEN Tail(inbox[t]) ELSE inbox[u]
  BY <1>2 DEF CallInv, TypeOK
<1>6. ASSUME NEW u \in Threads, NEW i \in DOMAIN inbox'[u]
      PROVE  /\ inbox'[u][i] # h
             /\ IF u = t THEN i \in Nat /\ i + 1 \in DOMAIN inbox[u] /\ inbox'[u][i] = inbox[u][i + 1]
                         ELSE i \in DOMAIN inbox[u] /\ inbox'[u][i] = inbox[u][i]
  <2>1. IF u = t THEN i \in Nat \ {0} /\ i + 1 \in DOMAIN inbox[u] /\ inbox'[u][i] = inbox[u][i + 1]
                 ELSE i \in DOMAIN inbox[u] /\ inbox'[u][i] = inbox[u][i]
    BY <1>3, <1>5
  <2>2. PICK k \in DOMAIN inbox[u] : inbox'[u][i] = inbox[u][k] /\ (u = t => k # 1)
    BY <2>1
  <2>3. inbox[u][k] # h
    BY <1>1, <1>3, <2>2 DEF OnceInv
  <2> QED BY <2>1, <2>2, <2>3
<1>7. SetupInv' /\ EventInv'
  BY <1>1, <1>2 DEF SetupInv, EventInv
<1>8. HandleInv'
  BY <1>1, <1>2 DEF HandleInv, Held, InPlay
<1>9. RemovedInv'
  <2>1. Made' \subseteq Made \cup {h} /\ removed' \subseteq removed \cup {h} /\ (removed' = removed \/ Made' = Made)
    <3>1. CASE TaskDropped(t)
      BY <3>1 DEF TaskDropped, Made
    <3>2. CASE TaskBegins(t)
      <4>1. ran \in Seq(Calls) /\ ran' = Append(ran, h) /\ h \in Calls /\ UNCHANGED removed
        BY <1>4, <3>2, Typical DEF TaskBegins, CallInv, TypeOK
      <4> HIDE DEF h
      <4>2. \A i \in DOMAIN ran' : ran'[i] = h \/ (i \in DOMAIN ran /\ ran'[i] = ran[i])
        BY <4>1, AppendIndices
      <4> QED BY <4>1, <4>2 DEF Made
    <3> QED BY <3>1, <3>2
  <2>2. \A c \in removed' : c \in removed \/ (c = h /\ Made' = Made)
    BY <1>4, <2>1
  <2>3. h \notin Setup
    BY <1>1, <1>4 DEF EventInv
  <2>4. \A c \in removed' : c \in 1 .. made' /\ c \notin Setup' /\ c \notin Made'
    BY <1>1, <1>2, <1>4, <2>1, <2>2, <2>3 DEF RemovedInv
  <2>5. \A c \in removed' : /\ event'[c].where \in {"queue", "batch", "timer"} => ~event'[c].valid
                            /\ event'[c].where # "running"
    BY <1>1, <1>2, <1>4, <2>2 DEF RemovedInv
  <2>6. \A c \in removed' : \A u \in Threads : \A i \in DOMAIN inbox'[u] : inbox'[u][i] # c
    BY <1>1, <1>6, <2>2 DEF RemovedInv
  <2> QED BY <2>4, <2>5, <2>6 DEF RemovedInv
<1> QED BY <1>2, <1>4, <1>6, <1>7, <1>8, <1>9 DEF MapInv

LEMMA MapInvInit == Init => MapInv
<1> SUFFICES ASSUME Init PROVE MapInv
  OBVIOUS
<1> USE CallOutAssumption DEF Init, Setup, NoEfun
<1>1. SetupInv
  BY DEF SetupInv, Actors
<1>2. EventInv /\ RemovedInv
  BY DEF EventInv, RemovedInv
<1>3. HandleInv
  BY DEF HandleInv, Actors
<1> QED BY <1>1, <1>2, <1>3 DEF MapInv

LEMMA MapInvStep == MainOnly /\ CallInv /\ MapInv /\ [Next]_vars => MapInv'
<1> SUFFICES ASSUME MainOnly, CallInv, MapInv, [Next]_vars PROVE MapInv'
  OBVIOUS
<1>1. CASE UNCHANGED vars
  BY <1>1, QuietMap DEF Quiet, vars, mapVars, newVars, runVars
<1>2. CASE Next
  BY <1>2, StepKinds, NewCallMap, RemovalMap, QuietMap, MapCallOutMap, AddEventMap, ExtractMap,
     DispatchMap, CallOutMap, TasksMap DEF Tasks, MapInv
<1> QED BY <1>1, <1>2

\* With the efuns called on the main thread only, a call has a handle exactly
\* while its event may still make it, and every handle in the map is that of its
\* call and known to the object that owns it.
THEOREM MapsAlwaysAgree == ASSUME MainOnly PROVE Spec => []MapsAgree
<1>1. CallInv /\ MapInv => MapsAgree
  <2> SUFFICES ASSUME CallInv, MapInv PROVE MapsAgree
    OBVIOUS
  <2>1. SetupInv /\ EventInv /\ HandleInv /\ RefersInv /\ Main \in Actors
    BY Typical DEF MapInv, CallInv
  <2>2. InSetup = Setup
    BY <2>1 DEF InSetup, Setup, SetupInv, Actors
  <2>3. Queued \cup BeingMade \subseteq 1 .. made
    BY <2>1 DEF Queued, BeingMade, At, RefersInv, Existing
  <2>4. \A c \in 1 .. made : /\ c \in Mapped <=> Held(c)
                             /\ c \in Queued \cup BeingMade <=> InPlay(c)
    BY Typical DEF Mapped, Held, Queued, BeingMade, At, InPlay
  <2>5. Mapped \subseteq 1 .. made
    BY DEF Mapped
  <2>6. Mapped \ InSetup = (Queued \cup BeingMade) \ InSetup
    BY <2>1, <2>2, <2>3, <2>4, <2>5 DEF HandleInv
  <2> QED BY <2>1, <2>6 DEF MapsAgree, HandleInv
<1> QED
  BY <1>1, CallInvInit, CallInvStep, MapInvInit, MapInvStep, PTL DEF Spec

-----------------------------------------------------------------------------
(* The order                                                               *)

\* What the properties read of a call stays as it is.
CallsStay ==
  /\ made' \in Nat /\ made <= made'
  /\ \A c \in 1 .. made : /\ call'[c].due = call[c].due /\ call'[c].walltime = call[c].walltime
                          /\ call'[c].ob = call[c].ob /\ call'[c].fun = call[c].fun

LEMMA OrderSets ==
  ASSUME CallInv, MapInv
  PROVE  /\ Made \subseteq 1 .. made /\ Posted \subseteq 1 .. made /\ BeingMade \subseteq 1 .. made
         /\ Timed \subseteq 1 .. made /\ Sent \subseteq Timed /\ Waiting \subseteq Timed
         /\ \A c \in Sent : call[c].due <= tick /\ event[c].where \in {"running", "deleted"}
         /\ \A c \in At("batch") : c \in 1 .. made /\ call[c].due <= tick
<1>1. EventInv /\ RefersInv /\ OnceInv /\ DueInv
  BY DEF MapInv, CallInv
<1>2. Made \subseteq 1 .. made /\ Posted \subseteq 1 .. made /\ BeingMade \subseteq 1 .. made
  BY <1>1 DEF OnceInv, Existing, Posted, BeingMade, RefersInv
<1>3. Timed \subseteq 1 .. made /\ Sent \subseteq Timed
  BY DEF Timed, Sent
<1>4. Waiting \subseteq Timed
  <2>1. \A c \in Waiting : c \in 1 .. made
    BY <1>1 DEF Waiting, At, RefersInv, Existing
  <2> QED BY <1>1, <2>1 DEF Waiting, At, Timed, EventInv
<1>5. ASSUME NEW c \in Sent PROVE call[c].due <= tick /\ event[c].where \in {"running", "deleted"}
  <2>1. c \in 1 .. made
    BY <1>3
  <2>2. CASE c \in Made
    BY <1>1, <2>1, <2>2 DEF DueInv, OnceInv
  <2>3. CASE c \in Posted
    BY <1>1, <2>1, <2>3 DEF Posted, DueInv, OnceInv
  <2>4. CASE c \in BeingMade
    BY <1>1, <2>1, <2>4 DEF BeingMade, DueInv, RefersInv
  <2> QED BY <2>2, <2>3, <2>4 DEF Sent
<1>6. \A c \in At("batch") : c \in 1 .. made /\ call[c].due <= tick
  <2>1. \A c \in At("batch") : c \in 1 .. made
    BY <1>1 DEF At, RefersInv, Existing
  <2> QED BY <1>1, <2>1 DEF At, DueInv
<1> QED BY <1>2, <1>3, <1>4, <1>5, <1>6

\* A step after which no call waits or has left that did not before.
LEMMA QueueOrderKept ==
  ASSUME CallInv, MapInv, QueueOrder, CallsStay,
         At("batch")' \subseteq At("batch"), At("queue")' \subseteq At("queue"), Sent' \subseteq Sent,
         (Timed \cap BeingMade)' \subseteq Timed \cap BeingMade
  PROVE  QueueOrder'
<1>1. \A c, d \in 1 .. made : Earlier(c, d)' <=> Earlier(c, d)
  BY DEF CallsStay, Earlier
<1>2. At("batch") \subseteq 1 .. made /\ At("queue") \subseteq 1 .. made /\ Sent \subseteq 1 .. made
  BY OrderSets DEF Waiting
<1>3. Waiting' \subseteq Waiting /\ Timed \cap BeingMade \subseteq 1 .. made
  BY OrderSets DEF Waiting
<1>4. Waiting \subseteq 1 .. made
  BY <1>2 DEF Waiting
<1> QED BY <1>1, <1>2, <1>3, <1>4 DEF QueueOrder

LEMMA InboxOrderKept ==
  ASSUME CallInv, MapInv, InboxOrder, RunsInOrder, CallsStay, UNCHANGED <<inbox, ran>>
  PROVE  InboxOrder' /\ RunsInOrder'
<1>1. \A c, d \in 1 .. made : Earlier(c, d)' <=> Earlier(c, d)
  BY DEF CallsStay, Earlier
<1>2. \A c \in 1 .. made : c \in Timed' <=> c \in Timed
  BY Typical DEF CallsStay, Timed
<1>3. Made' = Made /\ Made \subseteq 1 .. made
  BY OrderSets DEF Made
<1>4. \A t \in Threads : \A j \in DOMAIN inbox[t] : inbox[t][j] \in 1 .. made
  BY DEF CallInv, OnceInv, Existing
<1>5. InboxOrder'
  <2> SUFFICES ASSUME NEW t \in Threads, NEW j \in DOMAIN inbox[t]
               PROVE  LET d == inbox[t][j] IN
                      /\ Shard[call'[d].ob] = t /\ call'[d].fun # Pointer
                      /\ d \in Timed' =>
                           /\ \A i \in 1 .. j - 1 : inbox[t][i] \in Timed' => Earlier(inbox[t][i], d)'
                           /\ \A c \in Made \cap Timed' :
                                Shard[call'[c].ob] = t /\ call'[c].fun # Pointer => Earlier(c, d)'
    BY <1>3 DEF InboxOrder
  <2> DEFINE d == inbox[t][j]
  <2>1. d \in 1 .. made
    BY <1>4
  <2>2. \A i \in 1 .. j - 1 : inbox[t][i] \in 1 .. made
    <3>1. inbox[t] \in Seq(Calls)
      BY DEF CallInv, TypeOK
    <3>2. \A i \in 1 .. j - 1 : i \in DOMAIN inbox[t]
      BY <3>1
    <3> QED BY <1>4, <3>2
  <2>3. /\ Shard[call[d].ob] = t /\ call[d].fun # Pointer
        /\ d \in Timed =>
             /\ \A i \in 1 .. j - 1 : inbox[t][i] \in Timed => Earlier(inbox[t][i], d)
             /\ \A c \in Made \cap Timed :
                  Shard[call[c].ob] = t /\ call[c].fun # Pointer => Earlier(c, d)
    BY DEF InboxOrder
  <2>4. Shard[call'[d].ob] = t /\ call'[d].fun # Pointer
    BY <2>1, <2>3 DEF CallsStay
  <2>5. ASSUME d \in Timed', NEW i \in 1 .. j - 1, inbox[t][i] \in Timed' PROVE Earlier(inbox[t][i], d)'
    BY <1>1, <1>2, <2>1, <2>2, <2>3, <2>5
  <2>6. ASSUME d \in Timed', NEW c \in Made \cap Timed', Shard[call'[c].ob] = t, call'[c].fun # Pointer
        PROVE  Earlier(c, d)'
    <3>1. c \in 1 .. made /\ c \in Made \cap Timed /\ Shard[call[c].ob] = t /\ call[c].fun # Pointer /\ d \in Timed
      BY <1>2, <1>3, <2>1, <2>6 DEF CallsStay
    <3> QED BY <1>1, <2>1, <2>3, <3>1
  <2> QED BY <2>4, <2>5, <2>6
<1>6. RunsInOrder'
  <2> SUFFICES ASSUME NEW j \in DOMAIN ran, NEW i \in 1 .. j - 1,
                      call'[ran[i]].ob = call'[ran[j]].ob,
                      {call'[ran[i]].fun, call'[ran[j]].fun} \subseteq Names,
                      ~call'[ran[i]].walltime, ~call'[ran[j]].walltime
               PROVE  \/ call'[ran[i]].due < call'[ran[j]].due
                      \/ call'[ran[i]].due = call'[ran[j]].due /\ ran[i] < ran[j]
    BY DEF RunsInOrder
  <2>1. i \in DOMAIN ran
    <3>1. ran \in Seq(Calls)
      BY DEF CallInv, TypeOK
    <3> QED BY <3>1
  <2>2. ran[i] \in 1 .. made /\ ran[j] \in 1 .. made
    BY <1>3, <2>1 DEF Made
  <2>3. /\ call'[ran[i]].due = call[ran[i]].due /\ call'[ran[i]].walltime = call[ran[i]].walltime
        /\ call'[ran[i]].ob = call[ran[i]].ob /\ call'[ran[i]].fun = call[ran[i]].fun
        /\ call'[ran[j]].due = call[ran[j]].due /\ call'[ran[j]].walltime = call[ran[j]].walltime
        /\ call'[ran[j]].ob = call[ran[j]].ob /\ call'[ran[j]].fun = call[ran[j]].fun
    BY <2>2 DEF CallsStay
  <2> QED BY <2>3 DEF RunsInOrder
<1> QED BY <1>5, <1>6

LEMMA SentKept ==
  ASSUME CallInv, MapInv, CallsStay, Made' \cup Posted' \subseteq Made \cup Posted \cup BeingMade,
         (Timed \cap BeingMade)' \subseteq Timed \cap BeingMade
  PROVE  Sent' \subseteq Sent
<1>1. \A c \in 1 .. made : c \in Timed' <=> c \in Timed
  BY Typical DEF CallsStay, Timed
<1>2. Made \cup Posted \cup BeingMade \subseteq 1 .. made
  BY OrderSets
<1>3. ASSUME NEW c \in Sent' PROVE c \in Sent
  <2>1. c \in Timed' /\ (c \in Made' \cup Posted' \/ c \in (Timed \cap BeingMade)')
    BY DEF Sent
  <2> QED BY <1>1, <1>2, <2>1 DEF Sent
<1> QED BY <1>3

\* The steps that start no call on its way and move none.
LEMMA StillOrder ==
  ASSUME CallInv, MapInv, OrderInv, CallsStay, UNCHANGED <<inbox, ran>>,
         \A c \in Calls : event'[c].where \in {event[c].where, "deleted", "running", "timer"},
         (Timed \cap BeingMade)' \subseteq Timed \cap BeingMade
  PROVE  OrderInv'
<1>1. Made' = Made /\ Posted' = Posted
  BY DEF Made, Posted
<1>2. Sent' \subseteq Sent
  BY <1>1, SentKept
<1>3. At("batch")' \subseteq At("batch") /\ At("queue")' \subseteq At("queue")
  BY DEF At
<1> QED BY <1>2, <1>3, QueueOrderKept, InboxOrderKept DEF OrderInv

\* A call is inserted with a due time no earlier than this tick, and with the
\* largest number; those that have left are due by now.
LEMMA AddEventOrder ==
  ASSUME CallInv, MapInv, OrderInv, AddEvent(Main) PROVE OrderInv'
<1>1. /\ made \in 1 .. made /\ UNCHANGED <<tick, main, made, call, inbox, ran>>
      /\ main.pc # "call"
      /\ \A c \in Calls \ {made} : event'[c] = event[c]
      /\ event[made].where = "none" /\ event'[made].where \in {"timer", "queue"}
      /\ event'[made].where = "queue" => call[made].due >= tick /\ made \in Timed
  BY AddEventMap, Typical
<1>2. CallsStay /\ Made' = Made /\ Posted' = Posted /\ BeingMade' = {} /\ BeingMade = {} /\ Timed' = Timed /\ Sent' = Sent
  <2>1. BeingMade' = {} /\ BeingMade = {} /\ Made' = Made /\ Posted' = Posted /\ Timed' = Timed
    BY <1>1 DEF BeingMade, Made, Posted, Timed
  <2> QED BY <1>1, <2>1, Typical DEF CallsStay, Sent
<1>3. CASE event'[made].where = "timer"
  <2>1. \A c \in Calls : event'[c].where \in {event[c].where, "deleted", "running", "timer"}
    BY <1>1, <1>3
  <2> QED BY <1>1, <1>2, <2>1, StillOrder
<1>4. CASE event'[made].where = "queue"
  <2>1. At("batch")' = At("batch") /\ At("queue")' = At("queue") \cup {made}
    BY <1>1, <1>4, Typical DEF At
  <2>2. made \notin At("batch") /\ made \notin Sent
    BY <1>1, OrderSets DEF At
  <2>3. \A c, d \in 1 .. made : Earlier(c, d)' <=> Earlier(c, d)
    BY <1>1 DEF Earlier
  <2>4. \A c \in 1 .. made : call[c].due <= tick /\ c # made => Earlier(c, made)
    BY <1>1, <1>4, Typical DEF Earlier
  <2>5. \A c \in At("batch") \cup Sent : c \in 1 .. made /\ Earlier(c, made)
    BY <2>2, <2>4, OrderSets
  <2>6. Waiting \subseteq 1 .. made /\ Waiting' = Waiting \cup {made}
    BY <2>1, OrderSets DEF Waiting
  <2>7. At("batch") \subseteq 1 .. made /\ At("queue") \subseteq 1 .. made
    BY <2>6 DEF Waiting
  <2>8. QueueOrder'
    <3>1. \A c \in At("batch"), d \in At("queue") \cup {made} : Earlier(c, d)'
      BY <1>1, <2>3, <2>5, <2>7 DEF OrderInv, QueueOrder
    <3>2. \A c \in Sent, d \in Waiting \cup {made} : Earlier(c, d)'
      BY <1>1, <2>3, <2>5, <2>6 DEF OrderInv, QueueOrder
    <3> QED BY <1>2, <2>1, <2>6, <3>1, <3>2 DEF QueueOrder
  <2> QED BY <1>1, <1>2, <2>8, InboxOrderKept DEF OrderInv
<1> QED BY <1>1, <1>3, <1>4

\* What is due goes, what stays in the queue is due later.
LEMMA ExtractOrder ==
  ASSUME CallInv, MapInv, OrderInv, ExtractEvents PROVE OrderInv'
<1>1. /\ UNCHANGED <<tick, main, made, call, inbox, ran>> /\ main.pc # "call"
      /\ \A c \in Calls \ Eligible : event'[c] = event[c]
      /\ \A c \in Eligible : c \in Calls /\ event[c].where = "queue" /\ event'[c].where = "batch"
      /\ At("batch") = {}
  BY ExtractMap
<1>2. CallsStay /\ Sent' = Sent /\ BeingMade' = {}
  <2>1. BeingMade' = BeingMade /\ BeingMade = {} /\ Made' = Made /\ Posted' = Posted /\ Timed' = Timed
    BY <1>1 DEF BeingMade, Made, Posted, Timed
  <2> QED BY <1>1, <2>1, Typical DEF CallsStay, Sent
<1>3. At("batch")' = Eligible /\ At("queue")' = At("queue") \ Eligible /\ Eligible \subseteq At("queue")
  BY <1>1 DEF At
<1>4. At("queue") \subseteq 1 .. made
  BY OrderSets DEF Waiting
<1>5. \A c, d \in 1 .. made : Earlier(c, d)' <=> Earlier(c, d)
  BY <1>1 DEF Earlier
<1>6. \A c \in Eligible, d \in At("queue") \ Eligible : Earlier(c, d)
  <2> SUFFICES ASSUME NEW c \in Eligible, NEW d \in At("queue") \ Eligible PROVE Earlier(c, d)
    OBVIOUS
  <2>1. event[c].key = call[c].due /\ event[d].key = call[d].due /\ c \in 1 .. made /\ d \in 1 .. made
    BY <1>3, <1>4 DEF MapInv, EventInv, At
  <2>2. event[c].key <= tick /\ ~(event[d].key <= tick)
    BY DEF Eligible
  <2> QED BY <2>1, <2>2, Typical DEF Earlier
<1>7. Waiting' = Waiting /\ Sent \subseteq 1 .. made /\ Waiting \subseteq 1 .. made
  BY <1>1, <1>3, OrderSets DEF Waiting
<1>8. QueueOrder'
  BY <1>2, <1>3, <1>4, <1>5, <1>6, <1>7 DEF QueueOrder, OrderInv
<1> QED BY <1>1, <1>2, <1>8, InboxOrderKept DEF OrderInv

\* The first of the batch goes before the rest of it, and before the queue.
LEMMA DispatchOrder ==
  ASSUME CallInv, MapInv, OrderInv, NEW c \in Calls, RunEvent(c) \/ FireTimer(c) PROVE OrderInv'
<1>1. /\ c \in 1 .. made /\ event[c].where \in {"batch", "timer"} /\ main.pc # "call"
      /\ UNCHANGED <<tick, made, call, inbox, ran, removed>>
      /\ \A d \in Calls \ {c} : event'[d] = event[d]
      /\ event[c].valid => event'[c].where = "running" /\ main'.pc = "call" /\ main'.call = c
      /\ ~event[c].valid => event'[c].where = "deleted" /\ main' = main
  BY DispatchMap
<1>2. /\ CallsStay /\ BeingMade = {} /\ Made' = Made /\ Posted' = Posted /\ Timed' = Timed
      /\ BeingMade' = IF event[c].valid THEN {c} ELSE {}
  BY <1>1, Typical DEF CallsStay, BeingMade, Made, Posted, Timed
<1>3. \A d \in Calls : event'[d].where \in {event[d].where, "deleted", "running", "timer"}
  BY <1>1
<1>4. CASE ~event[c].valid \/ c \notin Timed
  BY <1>1, <1>2, <1>3, <1>4, StillOrder
<1>5. CASE event[c].valid /\ c \in Timed
  <2>1. RunEvent(c) /\ c \in At("batch")
    <3>1. event[c].where # "timer"
      BY <1>1, <1>5 DEF MapInv, EventInv, Timed
    <3> QED BY <1>1, <3>1 DEF FireTimer, At
  <2>2. /\ At("batch")' \subseteq At("batch") \ {c} /\ At("queue")' \subseteq At("queue")
        /\ Sent' = Sent \cup {c} /\ Waiting' \subseteq Waiting
    <3>1. At("batch")' \subseteq At("batch") \ {c} /\ At("queue")' \subseteq At("queue")
      BY <1>1, <1>5 DEF At
    <3> QED BY <1>2, <1>5, <3>1 DEF Sent, Waiting
  <2>3. At("batch") \subseteq 1 .. made /\ At("queue") \subseteq 1 .. made /\ Sent \subseteq 1 .. made /\ Waiting \subseteq 1 .. made
    BY OrderSets DEF Waiting
  <2>4. \A x, y \in 1 .. made : Earlier(x, y)' <=> Earlier(x, y)
    BY <1>1 DEF Earlier
  <2>5. \A d \in At("batch") \ {c} : Earlier(c, d)
    <3> SUFFICES ASSUME NEW d \in At("batch") \ {c} PROVE Earlier(c, d)
      OBVIOUS
    <3>1. /\ event[c].key = call[c].due /\ event[c].stamp = c
          /\ event[d].key = call[d].due /\ event[d].stamp = d /\ d \in 1 .. made
      BY <1>1, <2>1, <2>3 DEF MapInv, EventInv, At
    <3>2. ~Before(d, c)
      BY <2>1 DEF RunEvent
    <3> QED BY <1>1, <3>1, <3>2, Typical DEF Before, Earlier
  <2>6. \A d \in At("queue") : Earlier(c, d)
    BY <2>1 DEF OrderInv, QueueOrder
  <2>7. \A x \in Sent : Earlier(x, c)
    BY <2>1 DEF OrderInv, QueueOrder, Waiting
  <2>8. QueueOrder'
    <3>1. \A x \in At("batch")', d \in At("queue")' : Earlier(x, d)'
      BY <2>2, <2>3, <2>4 DEF OrderInv, QueueOrder
    <3>2. \A x \in Sent', d \in Waiting' : Earlier(x, d)'
      <4> SUFFICES ASSUME NEW x \in Sent \cup {c}, NEW d \in Waiting' PROVE Earlier(x, d)'
        BY <2>2
      <4>1. d \in Waiting /\ d \in (At("batch") \ {c}) \cup At("queue")
        BY <2>2 DEF Waiting
      <4>2. Earlier(x, d)
        BY <2>5, <2>6, <4>1 DEF OrderInv, QueueOrder
      <4> QED BY <1>1, <2>3, <2>4, <4>1, <4>2
    <3>3. \A x \in Sent', d \in (Timed \cap BeingMade)' : x # d => Earlier(x, d)'
      BY <1>1, <1>2, <2>2, <2>3, <2>4, <2>7
    <3> QED BY <3>1, <3>2, <3>3 DEF QueueOrder
  <2> QED BY <1>1, <1>2, <2>8, InboxOrderKept DEF OrderInv
<1> QED BY <1>4, <1>5

\* A call handed to its worker goes behind what is there, and was made.
LEMMA CallOutPostedOrder ==
  ASSUME CallInv, MapInv, OrderInv, CallOutPosted PROVE OrderInv'
<1> SUFFICES ASSUME NEW m, m = main.call, NEW s, s = Shard[call[m].ob] PROVE OrderInv'
  OBVIOUS
<1>1. /\ m \in 1 .. made /\ UNCHANGED <<tick, made, call, ran>> /\ main.pc = "call" /\ main'.pc # "call"
      /\ \A d \in Calls \ {m} : event'[d] = event[d]
      /\ event[m].where = "running" /\ event'[m].where \in {"running", "deleted"}
      /\ call[m].fun # Pointer /\ inbox' = [inbox EXCEPT ![s] = Append(inbox[s], m)]
  BY CallOutMap DEF CallOutPosted
<1>2. /\ CallsStay /\ BeingMade = {m} /\ BeingMade' = {} /\ Made' = Made /\ Timed' = Timed
      /\ \A c, d \in 1 .. made : Earlier(c, d)' <=> Earlier(c, d)
      /\ Made \subseteq 1 .. made
  BY <1>1, Typical, OrderSets DEF CallsStay, BeingMade, Made, Timed, Earlier
<1>3. s \in Threads /\ inbox \in [Threads -> Seq(Calls)] /\ m \in Calls
  <2>1. call[m] \in Records
    BY <1>1, Typical
  <2>2. call[m].ob \in Objects
    BY <2>1 DEF Records
  <2> QED BY <1>1, <2>2, Typical, CallOutAssumption DEF CallInv, TypeOK
<1>4. PICK n \in Nat :
      /\ \A t \in Threads : t # s => inbox'[t] = inbox[t]
      /\ DOMAIN inbox'[s] = 1 .. n + 1 /\ inbox'[s][n + 1] = m
      /\ DOMAIN inbox[s] = 1 .. n
      /\ \A k \in DOMAIN inbox[s] : inbox'[s][k] = inbox[s][k]
  <2> DEFINE q == inbox[s]
  <2>1. q \in Seq(Calls) /\ inbox'[s] = Append(q, m)
    BY <1>1, <1>3
  <2>2. \A t \in Threads : t # s => inbox'[t] = inbox[t]
    BY <1>1, <1>3
  <2> HIDE DEF q
  <2>3. /\ Len(q) \in Nat /\ DOMAIN q = 1 .. Len(q)
        /\ DOMAIN inbox'[s] = 1 .. Len(q) + 1 /\ inbox'[s][Len(q) + 1] = m
        /\ \A k \in DOMAIN q : inbox'[s][k] = q[k]
    BY <1>3, <2>1, AppendIndices
  <2> QED BY <2>2, <2>3 DEF q
<1>11. \A t \in Threads : \A i \in DOMAIN inbox'[t] :
         \/ i \in DOMAIN inbox[t] /\ inbox'[t][i] = inbox[t][i]
         \/ t = s /\ i = n + 1 /\ inbox'[t][i] = m
  <2> SUFFICES ASSUME NEW t \in Threads, NEW i \in DOMAIN inbox'[t]
               PROVE  \/ i \in DOMAIN inbox[t] /\ inbox'[t][i] = inbox[t][i]
                      \/ t = s /\ i = n + 1 /\ inbox'[t][i] = m
    OBVIOUS
  <2>1. CASE t = s
    <3>1. i \in 1 .. n + 1
      BY <1>4, <2>1
    <3>2. i \in 1 .. n \/ i = n + 1
      BY <3>1
    <3> QED BY <1>4, <2>1, <3>2
  <2>2. CASE t # s
    BY <1>4, <2>2
  <2> QED BY <2>1, <2>2
<1>5. Posted' \subseteq Posted \cup {m}
  <2> SUFFICES ASSUME NEW t \in Threads, NEW i \in DOMAIN inbox'[t] PROVE inbox'[t][i] \in Posted \cup {m}
    BY DEF Posted
  <2>1. inbox'[t][i] = m \/ (i \in DOMAIN inbox[t] /\ inbox'[t][i] = inbox[t][i])
    BY <1>11
  <2> QED BY <2>1 DEF Posted
<1>6. Sent' \subseteq Sent
  <2>1. Made' \cup Posted' \subseteq Made \cup Posted \cup BeingMade
    BY <1>2, <1>5
  <2> QED BY <1>2, <2>1, SentKept
<1>7. At("batch")' \subseteq At("batch") /\ At("queue")' \subseteq At("queue")
  BY <1>1 DEF At
<1>8. QueueOrder'
  BY <1>2, <1>6, <1>7, QueueOrderKept DEF OrderInv
<1>9. InboxOrder'
  <2>0. call' = call /\ Made' = Made /\ Timed' = Timed
    BY <1>1, <1>2
  <2> SUFFICES ASSUME NEW t \in Threads, NEW j \in DOMAIN inbox'[t], NEW d, d = inbox'[t][j]
               PROVE  /\ Shard[call[d].ob] = t /\ call[d].fun # Pointer
                      /\ d \in Timed =>
                           /\ \A i \in 1 .. j - 1 : inbox'[t][i] \in Timed => Earlier(inbox'[t][i], d)
                           /\ \A c \in Made \cap Timed :
                                Shard[call[c].ob] = t /\ call[c].fun # Pointer => Earlier(c, d)
    BY <2>0 DEF InboxOrder, Earlier
  <2>1. ASSUME NEW u \in Threads, NEW i \in DOMAIN inbox[u] PROVE inbox[u][i] \in 1 .. made /\ inbox[u][i] # m /\ inbox[u][i] \in Posted
    BY <1>1 DEF CallInv, OnceInv, Existing, Posted
  <2>2. CASE t # s \/ j # n + 1
    <3>1. j \in DOMAIN inbox[t] /\ d = inbox[t][j]
      BY <1>11, <2>2
    <3>2. \A i \in 1 .. j - 1 : i \in DOMAIN inbox[t] /\ inbox'[t][i] = inbox[t][i]
      <4>1. inbox[t] \in Seq(Calls)
        BY <1>3
      <4>2. \A i \in 1 .. j - 1 : i \in DOMAIN inbox[t]
        BY <3>1, <4>1
      <4>3. \A k \in DOMAIN inbox[t] : inbox'[t][k] = inbox[t][k]
        <5>1. CASE t = s
          BY <1>4, <5>1
        <5>2. CASE t # s
          BY <1>4, <5>2
        <5> QED BY <5>1, <5>2
      <4> QED BY <4>2, <4>3
    <3>3. /\ Shard[call[d].ob] = t /\ call[d].fun # Pointer
          /\ d \in Timed =>
               /\ \A i \in 1 .. j - 1 : inbox[t][i] \in Timed => Earlier(inbox[t][i], d)
               /\ \A c \in Made \cap Timed :
                    Shard[call[c].ob] = t /\ call[c].fun # Pointer => Earlier(c, d)
      BY <3>1 DEF OrderInv, InboxOrder
    <3>4. d \in 1 .. made /\ \A i \in 1 .. j - 1 : inbox'[t][i] \in 1 .. made
      BY <2>1, <3>1, <3>2
    <3>5. d \in Timed => \A i \in 1 .. j - 1 : inbox'[t][i] \in Timed => Earlier(inbox'[t][i], d)
      BY <1>2, <3>2, <3>3, <3>4
    <3>6. d \in Timed => \A c \in Made \cap Timed :
            Shard[call[c].ob] = t /\ call[c].fun # Pointer => Earlier(c, d)
      BY <1>2, <3>3, <3>4
    <3> QED BY <3>3, <3>5, <3>6
  <2>3. CASE t = s /\ j = n + 1
    <3>1. d = m
      BY <1>4, <2>3
    <3>2. \A c \in Sent : c # m /\ m \in Timed => Earlier(c, m)
      BY <1>2 DEF OrderInv, QueueOrder
    <3>3. \A i \in 1 .. j - 1 : inbox'[t][i] \in Posted /\ inbox'[t][i] # m /\ inbox'[t][i] \in 1 .. made
      <4>1. \A i \in 1 .. j - 1 : i \in DOMAIN inbox[s]
        BY <1>4, <2>3
      <4>2. \A i \in 1 .. j - 1 : i \in DOMAIN inbox[t] /\ inbox'[t][i] = inbox[t][i]
        BY <1>4, <2>3, <4>1
      <4> QED BY <2>1, <4>2
    <3>4. m \notin Made
      BY <1>1 DEF CallInv, OnceInv
    <3>5. \A c \in Timed : (c \in Posted \cup Made) /\ c # m /\ m \in Timed => Earlier(c, m)
      BY <1>1, <1>2, <3>2, OrderSets DEF Sent
    <3>6. /\ \A i \in 1 .. j - 1 : inbox'[t][i] \in Timed /\ m \in Timed => Earlier(inbox'[t][i], d)
          /\ \A c \in Made \cap Timed : m \in Timed => Earlier(c, d)
      BY <3>1, <3>3, <3>4, <3>5
    <3> QED BY <1>1, <2>3, <3>1, <3>6
  <2> QED BY <2>2, <2>3
<1>10. RunsInOrder'
  BY <1>1 DEF OrderInv, RunsInOrder
<1> QED BY <1>8, <1>9, <1>10 DEF OrderInv

\* One more call is made, by the main thread or by a worker.
LEMMA MadeGrows ==
  ASSUME CallInv, NEW c \in 1 .. made, ran' = Append(ran, c)
  PROVE  /\ DOMAIN ran' = 1 .. Len(ran) + 1 /\ DOMAIN ran = 1 .. Len(ran) /\ Len(ran) \in Nat
         /\ \A i \in DOMAIN ran : ran'[i] = ran[i]
         /\ ran'[Len(ran) + 1] = c
         /\ Made' = Made \cup {c}
<1>1. ran \in Seq(Calls) /\ c \in Calls
  BY Typical DEF CallInv, TypeOK
<1>2. /\ DOMAIN ran' = 1 .. Len(ran) + 1 /\ DOMAIN ran = 1 .. Len(ran) /\ Len(ran) \in Nat
      /\ \A i \in DOMAIN ran : ran'[i] = ran[i]
      /\ ran'[Len(ran) + 1] = c
  BY <1>1, AppendIndices
<1> QED BY <1>2 DEF Made

\* It keeps the order if it comes after those made before it.
LEMMA MadeInOrder ==
  ASSUME CallInv, RunsInOrder, NEW c \in 1 .. made, UNCHANGED call, ran' = Append(ran, c),
         \A i \in DOMAIN ran :
           /\ call[ran[i]].ob = call[c].ob
           /\ {call[ran[i]].fun, call[c].fun} \subseteq Names
           /\ ~call[ran[i]].walltime /\ ~call[c].walltime
           => Earlier(ran[i], c)
  PROVE  RunsInOrder' /\ Made' = Made \cup {c}
<1>2. /\ DOMAIN ran' = 1 .. Len(ran) + 1 /\ DOMAIN ran = 1 .. Len(ran) /\ Len(ran) \in Nat
      /\ \A i \in DOMAIN ran : ran'[i] = ran[i]
      /\ ran'[Len(ran) + 1] = c
      /\ Made' = Made \cup {c}
  BY MadeGrows
<1>4. RunsInOrder'
  <2> SUFFICES ASSUME NEW j \in DOMAIN ran', NEW i \in 1 .. j - 1,
                      call[ran'[i]].ob = call[ran'[j]].ob,
                      {call[ran'[i]].fun, call[ran'[j]].fun} \subseteq Names,
                      ~call[ran'[i]].walltime, ~call[ran'[j]].walltime
               PROVE  \/ call[ran'[i]].due < call[ran'[j]].due
                      \/ call[ran'[i]].due = call[ran'[j]].due /\ ran'[i] < ran'[j]
    BY DEF RunsInOrder
  <2>1. i \in DOMAIN ran /\ ran'[i] = ran[i]
    BY <1>2
  <2>2. CASE j = Len(ran) + 1
    BY <1>2, <2>1, <2>2 DEF Earlier
  <2>3. CASE j # Len(ran) + 1
    <3>1. j \in DOMAIN ran /\ ran'[j] = ran[j]
      BY <1>2, <2>3
    <3> QED BY <2>1, <3>1 DEF RunsInOrder
  <2> QED BY <2>2, <2>3
<1> QED BY <1>2, <1>4

\* A function pointer is called at once: only named functions keep an order.
LEMMA CallOutInlineOrder ==
  ASSUME CallInv, MapInv, OrderInv, CallOutInline PROVE OrderInv'
<1> SUFFICES ASSUME NEW m, m = main.call PROVE OrderInv'
  OBVIOUS
<1>1. /\ m \in 1 .. made /\ UNCHANGED <<tick, made, call, inbox, event>> /\ main.pc = "call" /\ main'.pc # "call"
      /\ call[m].fun = Pointer /\ ran' = Append(ran, m)
  BY CallOutMap DEF CallOutInline
<1>2. /\ CallsStay /\ BeingMade = {m} /\ BeingMade' = {} /\ Posted' = Posted /\ Timed' = Timed
      /\ \A c, d \in 1 .. made : Earlier(c, d)' <=> Earlier(c, d)
  BY <1>1, Typical DEF CallsStay, BeingMade, Posted, Timed, Earlier
<1>3. RunsInOrder' /\ Made' = Made \cup {m}
  <2>1. \A i \in DOMAIN ran : {call[ran[i]].fun, call[m].fun} \subseteq Names => FALSE
    BY <1>1, CallOutAssumption
  <2> QED BY <1>1, <2>1, MadeInOrder DEF OrderInv
<1>4. Sent' \subseteq Sent
  BY <1>2, <1>3, SentKept
<1>5. QueueOrder'
  BY <1>1, <1>2, <1>4, QueueOrderKept DEF OrderInv, At
<1>6. InboxOrder'
  <2> SUFFICES ASSUME NEW t \in Threads, NEW j \in DOMAIN inbox[t], NEW d, d = inbox[t][j]
               PROVE  /\ Shard[call[d].ob] = t /\ call[d].fun # Pointer
                      /\ d \in Timed =>
                           /\ \A i \in 1 .. j - 1 : inbox[t][i] \in Timed => Earlier(inbox[t][i], d)
                           /\ \A c \in Made' \cap Timed :
                                Shard[call[c].ob] = t /\ call[c].fun # Pointer => Earlier(c, d)
    BY <1>1, <1>2 DEF InboxOrder, Earlier
  <2>1. /\ Shard[call[d].ob] = t /\ call[d].fun # Pointer
        /\ d \in Timed =>
             /\ \A i \in 1 .. j - 1 : inbox[t][i] \in Timed => Earlier(inbox[t][i], d)
             /\ \A c \in Made \cap Timed :
                  Shard[call[c].ob] = t /\ call[c].fun # Pointer => Earlier(c, d)
    BY DEF OrderInv, InboxOrder
  <2>3. \A i \in 1 .. j - 1 : inbox[t][i] \in 1 .. made
    <3>1. inbox[t] \in Seq(Calls)
      BY DEF CallInv, TypeOK
    <3>2. \A i \in 1 .. j - 1 : i \in DOMAIN inbox[t]
      BY <3>1
    <3> QED BY <3>2 DEF CallInv, OnceInv, Existing
  <2>4. \A c \in Made' \cap Timed : call[c].fun # Pointer => c \in Made \cap Timed
    BY <1>1, <1>3
  <2>5. Made \subseteq 1 .. made
    BY OrderSets
  <2>6. d \in Timed => \A i \in 1 .. j - 1 : inbox[t][i] \in Timed => Earlier(inbox[t][i], d)
    BY <2>1, <2>3
  <2>7. d \in Timed => \A c \in Made' \cap Timed :
                         Shard[call[c].ob] = t /\ call[c].fun # Pointer => Earlier(c, d)
    BY <2>1, <2>4, <2>5
  <2> QED BY <2>1, <2>6, <2>7
<1> QED BY <1>3, <1>5, <1>6 DEF OrderInv

\* A worker takes the first of its queue.
LEMMA TasksOrder ==
  ASSUME MainOnly, CallInv, MapInv, OrderInv, NEW t \in Threads, TaskDropped(t) \/ TaskBegins(t)
  PROVE  OrderInv'
<1> USE DEF mapVars, newVars
<1> SUFFICES ASSUME NEW h, h = Head(inbox[t]) PROVE OrderInv'
  OBVIOUS
<1>1. /\ UNCHANGED <<tick, main, event, made, call>> /\ h \in 1 .. made /\ inbox[t] # << >>
      /\ \A u \in Threads : \A i \in DOMAIN inbox'[u] :
           IF u = t THEN i \in Nat /\ i + 1 \in DOMAIN inbox[u] /\ inbox'[u][i] = inbox[u][i + 1]
                    ELSE i \in DOMAIN inbox[u] /\ inbox'[u][i] = inbox[u][i]
  BY TasksMap
<1>2. \A u \in Threads : \E n \in Nat : DOMAIN inbox[u] = 1 .. n
  <2>1. \A u \in Threads : inbox[u] \in Seq(Calls)
    BY DEF CallInv, TypeOK
  <2> QED BY <2>1
<1>3. 1 \in DOMAIN inbox[t] /\ h = inbox[t][1] /\ h \in Posted
  <2>1. inbox[t] \in Seq(Calls)
    BY DEF CallInv, TypeOK
  <2>2. 1 \in DOMAIN inbox[t] /\ h = inbox[t][1]
    BY <1>1, <2>1, HeadTailProperties
  <2> QED BY <2>2 DEF Posted
<1>4. Shard[call[h].ob] = t /\ call[h].fun # Pointer
      /\ (h \in Timed => \A c \in Made \cap Timed :
                           Shard[call[c].ob] = t /\ call[c].fun # Pointer => Earlier(c, h))
  BY <1>3 DEF OrderInv, InboxOrder
<1>5. Made' \subseteq Made \cup {h} /\ RunsInOrder'
  <2>1. CASE TaskDropped(t)
    BY <2>1 DEF TaskDropped, Made, OrderInv, RunsInOrder
  <2>2. CASE TaskBegins(t)
    <3>1. ran' = Append(ran, h)
      BY <2>2 DEF TaskBegins
    <3>2. ASSUME NEW i \in DOMAIN ran, call[ran[i]].ob = call[h].ob,
                 {call[ran[i]].fun, call[h].fun} \subseteq Names,
                 ~call[ran[i]].walltime, ~call[h].walltime
          PROVE  Earlier(ran[i], h)
      <4>1. ran[i] \in Made /\ ran[i] \in 1 .. made
        BY OrderSets DEF Made
      <4>2. ran[i] \in Timed /\ h \in Timed /\ call[ran[i]].fun # Pointer
        BY <1>1, <3>2, <4>1, CallOutAssumption DEF Timed
      <4> QED BY <1>4, <3>2, <4>1, <4>2
    <3> QED BY <1>1, <3>1, <3>2, MadeInOrder DEF OrderInv
  <2> QED BY <2>1, <2>2
<1>6. CallsStay /\ BeingMade' = BeingMade /\ Timed' = Timed
  BY <1>1, Typical DEF CallsStay, BeingMade, Timed
<1>7. QueueOrder'
  <2>1. Posted' \subseteq Posted
    <3> SUFFICES ASSUME NEW u \in Threads, NEW i \in DOMAIN inbox'[u] PROVE inbox'[u][i] \in Posted
      BY DEF Posted
    <3>1. \E k \in DOMAIN inbox[u] : inbox'[u][i] = inbox[u][k]
      BY <1>1
    <3> QED BY <3>1 DEF Posted
  <2>2. Sent' \subseteq Sent
    BY <1>3, <1>5, <1>6, <2>1, SentKept
  <2>3. At("batch")' \subseteq At("batch") /\ At("queue")' \subseteq At("queue")
    BY <1>1 DEF At
  <2> QED BY <1>6, <2>2, <2>3, QueueOrderKept DEF OrderInv
<1>8. InboxOrder'
  <2>0. call' = call /\ Timed' = Timed
    BY <1>1, <1>6
  <2> SUFFICES ASSUME NEW u \in Threads, NEW j \in DOMAIN inbox'[u], NEW d, d = inbox'[u][j]
               PROVE  /\ Shard[call[d].ob] = u /\ call[d].fun # Pointer
                      /\ d \in Timed =>
                           /\ \A i \in 1 .. j - 1 : inbox'[u][i] \in Timed => Earlier(inbox'[u][i], d)
                           /\ \A c \in Made' \cap Timed :
                                Shard[call[c].ob] = u /\ call[c].fun # Pointer => Earlier(c, d)
    BY <2>0 DEF InboxOrder, Earlier
  <2>1. PICK n \in Nat : DOMAIN inbox[u] = 1 .. n
    BY <1>2
  <2>2. CASE u = t
    <3>1. j \in Nat /\ j + 1 \in DOMAIN inbox[u] /\ d = inbox[u][j + 1] /\ j + 1 # 1
      <4>1. j \in Nat /\ j + 1 \in DOMAIN inbox[u] /\ d = inbox[u][j + 1]
        BY <1>1, <2>2
      <4>2. inbox[u][1] # d
        BY <1>3, <2>2, TasksMap
      <4> QED BY <4>1, <4>2
    <3>2. /\ Shard[call[d].ob] = u /\ call[d].fun # Pointer
          /\ d \in Timed =>
               /\ \A i \in 1 .. (j + 1) - 1 : inbox[u][i] \in Timed => Earlier(inbox[u][i], d)
               /\ \A c \in Made \cap Timed :
                    Shard[call[c].ob] = u /\ call[c].fun # Pointer => Earlier(c, d)
      BY <3>1 DEF OrderInv, InboxOrder
    <3>3. \A i \in 1 .. j - 1 : inbox'[u][i] = inbox[u][i + 1] /\ i + 1 \in 1 .. (j + 1) - 1
      <4>1. \E k \in Nat : DOMAIN inbox'[u] = 1 .. k
        <5>1. inbox[t] \in Seq(Calls) /\ inbox'[u] = Tail(inbox[t])
          BY <2>2, TasksMap DEF CallInv, TypeOK
        <5>2. inbox'[u] \in Seq(Calls)
          BY <1>1, <5>1, HeadTailProperties
        <5> QED BY <5>2
      <4>2. \A i \in 1 .. j - 1 : i \in DOMAIN inbox'[u]
        BY <4>1
      <4> QED BY <1>1, <2>2, <3>1, <4>2
    <3>4. 1 \in 1 .. (j + 1) - 1
      BY <3>1
    <3>5. d \in Timed /\ h \in Timed => Earlier(h, d)
      BY <1>3, <2>2, <3>2, <3>4
    <3> QED BY <1>5, <3>2, <3>3, <3>5
  <2>3. CASE u # t
    <3>1. j \in DOMAIN inbox[u] /\ d = inbox[u][j]
      BY <1>1, <2>3
    <3>2. /\ Shard[call[d].ob] = u /\ call[d].fun # Pointer
          /\ d \in Timed =>
               /\ \A i \in 1 .. j - 1 : inbox[u][i] \in Timed => Earlier(inbox[u][i], d)
               /\ \A c \in Made \cap Timed :
                    Shard[call[c].ob] = u /\ call[c].fun # Pointer => Earlier(c, d)
      BY <3>1 DEF OrderInv, InboxOrder
    <3>3. inbox'[u] = inbox[u]
      BY <2>3, TasksMap DEF CallInv, TypeOK
    <3>4. \A c \in Made' \cap Timed : Shard[call[c].ob] = u => c \in Made \cap Timed
      BY <1>4, <1>5, <2>3
    <3> QED BY <3>2, <3>3, <3>4
  <2> QED BY <2>2, <2>3
<1> QED BY <1>5, <1>7, <1>8 DEF OrderInv

LEMMA OrderInvInit == Init => OrderInv
BY DEF Init, OrderInv, QueueOrder, InboxOrder, RunsInOrder, At, Sent, Made, Posted, BeingMade, InLoop,
       Timed, NoEvent, Waiting

LEMMA OrderInvStep == MainOnly /\ CallInv /\ MapInv /\ OrderInv /\ [Next]_vars => OrderInv'
<1> SUFFICES ASSUME MainOnly, CallInv, MapInv, OrderInv, [Next]_vars PROVE OrderInv'
  OBVIOUS
<1> USE DEF mapVars, newVars, runVars
<1>1. ASSUME NEW o \in Objects, NEW r \in Requests, NewCallOut(Main, o, r) PROVE OrderInv'
  <2>1. UNCHANGED <<main, event, inbox, ran>> /\ BeingMade' = BeingMade
    BY <1>1 DEF NewCallOut, BeingMade
  <2>2. CallsStay
    <3>1. call \in Seq(Records) /\ Len(call) = made /\ made \in Nat
      BY Typical
    <3>2. PICK rec : call' = Append(call, rec) /\ made' = made + 1
      BY <1>1 DEF NewCallOut
    <3>3. \A c \in 1 .. made : call'[c] = call[c]
      BY <3>1, <3>2
    <3> QED BY <3>1, <3>2, <3>3 DEF CallsStay
  <2>3. (Timed \cap BeingMade)' \subseteq Timed \cap BeingMade
    <3>1. BeingMade \subseteq 1 .. made
      BY OrderSets
    <3>2. \A c \in 1 .. made : c \in Timed' => c \in Timed
      BY <2>2 DEF CallsStay, Timed
    <3> QED BY <2>1, <3>1, <3>2
  <2> QED BY <2>1, <2>2, <2>3, StillOrder
<1>2. ASSUME NEW H, NEW P, Removal(H, P) PROVE OrderInv'
  <2>1. UNCHANGED <<main, call, made, inbox, ran>> /\ BeingMade' = BeingMade /\ Timed' = Timed /\ CallsStay
    BY <1>2, Typical DEF Removal, BeingMade, Timed, CallsStay
  <2>2. \A c \in Calls : event'[c].where = event[c].where
    BY <1>2, EventFields, Typical DEF Removal, FreeCalls
  <2> QED BY <2>1, <2>2, StillOrder
<1>3. ASSUME Quiet PROVE OrderInv'
  <2>1. UNCHANGED <<event, call, made, inbox, ran>> /\ Timed' = Timed /\ CallsStay
    BY <1>3, Typical DEF Quiet, Timed, CallsStay
  <2>2. BeingMade' \subseteq BeingMade
    <3>1. main \in [pc : {"loop", "tick", "call", "lpc"}, call : Calls \cup {None}, back : {"loop", "tick"}]
      BY DEF CallInv, TypeOK
    <3> QED BY <1>3, <3>1 DEF Quiet, GameTick, TickDone, InLoop, BeingMade
  <2> QED BY <2>1, <2>2, StillOrder
<1>4. CASE MapCallOut(Main)
  <2>1. UNCHANGED <<main, event, made, inbox, ran>> /\ BeingMade' = BeingMade
    BY <1>4 DEF MapCallOut, BeingMade
  <2>2. CallsStay /\ Timed' = Timed
    BY <1>4, <2>1, MapCallOutMap, Typical DEF CallsStay, Timed
  <2> QED BY <2>1, <2>2, StillOrder
<1>5. CASE CallOutDropped \/ InlineDone
  <2>1. UNCHANGED <<call, made, inbox, ran>> /\ Timed' = Timed /\ CallsStay
    BY <1>5, Typical DEF CallOutDropped, InlineDone, Timed, CallsStay
  <2>2. BeingMade' = {} /\ \A c \in Calls : event'[c].where \in {event[c].where, "deleted", "running", "timer"}
    BY <1>5, CallOutMap DEF BeingMade
  <2> QED BY <2>1, <2>2, StillOrder
<1>6. CASE UNCHANGED vars
  BY <1>3, <1>6 DEF Quiet, vars
<1>7. CASE Next
  BY <1>1, <1>2, <1>3, <1>4, <1>5, <1>7, StepKinds, AddEventOrder, ExtractOrder, DispatchOrder,
     CallOutPostedOrder, CallOutInlineOrder, TasksOrder DEF Tasks, MapInv
<1> QED BY <1>6, <1>7

\* With the efuns called on the main thread only, named functions of one object
\* run in the order in which they are due, those due together in the order of
\* call_out(), through queue, batch and task queue.
THEOREM AlwaysInOrder == ASSUME MainOnly PROVE Spec => []RunsInOrder
<1>1. OrderInv => RunsInOrder
  BY DEF OrderInv
<1> QED
  BY <1>1, CallInvInit, CallInvStep, MapInvInit, MapInvStep, OrderInvInit, OrderInvStep, PTL DEF Spec

-----------------------------------------------------------------------------
(* The promise                                                             *)

\* Due, as DelayedCalls sees it.
Dues == [c \in Calls |-> IF c <= made THEN call[c].due ELSE 0]

LEMMA PromiseSets ==
  ASSUME CallInv, MapInv
  PROVE  /\ made \in Nat /\ Made \subseteq 1 .. made /\ removed \subseteq 1 .. made /\ 1 .. made \subseteq Calls
         /\ Pending = {c \in 1 .. made : c \notin Made /\ c \notin removed}
BY OrderSets, Typical DEF Pending, MapInv, RemovedInv

\* A step that makes and cancels nothing.
LEMMA PromiseStutters ==
  ASSUME CallInv, MapInv, UNCHANGED <<tick, made, ran, removed>>,
         \A c \in 1 .. made : call'[c].due = call[c].due
  PROVE  UNCHANGED Promise!vars
<1>1. Dues' = Dues
  BY Typical DEF Dues, Calls
<1>2. Made' = Made
  BY DEF Made
<1>3. Pending' = Pending
  BY <1>2 DEF Pending
<1> QED BY <1>1, <1>2, <1>3 DEF Promise!vars, Dues

\* The calls S were pending and are taken back.
LEMMA PromiseCancels ==
  ASSUME CallInv, MapInv, NEW S, S \subseteq 1 .. made, S \cap Made = {}, S \cap removed = {},
         UNCHANGED <<tick, call, made, ran>>, removed' = removed \cup S
  PROVE  Promise!Next
<1>1. Dues' = Dues /\ Made' = Made
  BY DEF Dues, Made
<1>2. S \subseteq Pending /\ Pending' = Pending \ S /\ S \in SUBSET Calls
  BY <1>1, PromiseSets DEF Pending
<1>3. Promise!Cancel(S)
  BY <1>1, <1>2 DEF Promise!Cancel, Dues
<1> QED BY <1>2, <1>3 DEF Promise!Next

\* Call c was pending and due, and is made.
LEMMA PromiseMakes ==
  ASSUME CallInv, MapInv, NEW c \in 1 .. made, c \notin Made, c \notin removed, call[c].due <= tick,
         UNCHANGED <<tick, call, made, removed>>, ran' = Append(ran, c)
  PROVE  Promise!Next
<1>1. Dues' = Dues /\ Made' = Made \cup {c}
  BY MadeGrows DEF Dues
<1>2. c \in Calls /\ c \in Pending /\ Pending' = Pending \ {c}
  BY <1>1, PromiseSets DEF Pending
<1>3. Dues[c] <= tick
  BY <1>2, Typical DEF Dues
<1>4. Promise!Make(c)
  BY <1>1, <1>2, <1>3 DEF Promise!Make, Dues
<1> QED BY <1>2, <1>4 DEF Promise!Next

LEMMA PromiseSchedules ==
  ASSUME CallInv, MapInv, NEW o \in Objects, NEW r \in Requests, NewCallOut(Main, o, r)
  PROVE  Promise!Next
<1> DEFINE due == IF r.walltime THEN 0 ELSE tick + r.delay
           rec == [ob |-> o, fun |-> r.fun, delay |-> r.delay, walltime |-> r.walltime,
                   due |-> due, born |-> tick, handle |-> 0]
<1> SUFFICES ASSUME NEW d, d = due PROVE Promise!Next
  OBVIOUS
<1>1. /\ UNCHANGED <<tick, ran, removed>> /\ made' = made + 1 /\ made < MaxCalls /\ d \in 0 .. MaxTick
      /\ call' = Append(call, rec)
  BY Typical, DelayType, CallOutAssumption DEF NewCallOut, runVars
<1>2. made + 1 \in Calls /\ made \in Nat
  BY <1>1, Typical DEF Calls
<1>3. call'[made + 1].due = d /\ \A c \in 1 .. made : call'[c] = call[c]
  <2>1. Len(call) = made /\ call \in Seq(Records)
    BY Typical
  <2> HIDE DEF due
  <2> QED BY <1>1, <2>1 DEF due
<1>4. Made' = Made
  BY <1>1 DEF Made
<1>5. made + 1 \notin Pending \cup Made \cup removed /\ Pending' = Pending \cup {made + 1}
  BY <1>1, <1>2, <1>4, PromiseSets DEF Pending
<1>6. Dues' = [Dues EXCEPT ![made + 1] = d]
  <2>1. \A c \in Calls : Dues'[c] = IF c = made + 1 THEN d ELSE Dues[c]
    <3> SUFFICES ASSUME NEW c \in Calls PROVE Dues'[c] = IF c = made + 1 THEN d ELSE Dues[c]
      OBVIOUS
    <3>1. /\ Dues'[c] = (IF c <= made + 1 THEN call'[c].due ELSE 0)
          /\ Dues[c] = (IF c <= made THEN call[c].due ELSE 0)
      BY <1>1 DEF Dues
    <3>2. c \in Nat /\ c > 0
      BY CallOutAssumption DEF Calls
    <3>3. CASE c <= made
      <4>1. c \in 1 .. made /\ c # made + 1 /\ c <= made + 1
        BY <1>2, <3>2, <3>3
      <4> QED BY <1>3, <3>1, <3>3, <4>1
    <3>4. CASE c = made + 1
      BY <1>2, <1>3, <3>1, <3>4
    <3>5. CASE ~(c <= made) /\ c # made + 1
      BY <1>2, <3>1, <3>2, <3>5
    <3> QED BY <3>3, <3>4, <3>5
  <2> QED BY <1>2, <2>1 DEF Dues
<1>7. Promise!Schedule(made + 1, d)
  BY <1>1, <1>4, <1>5, <1>6 DEF Promise!Schedule, Dues
<1> QED BY <1>1, <1>2, <1>7 DEF Promise!Next

LEMMA PromiseInit == Init => Promise!Init
<1> SUFFICES ASSUME Init PROVE Promise!Init
  OBVIOUS
<1>1. \A c \in Calls : ~(c <= made)
  BY DEF Init, Calls
<1>2. Pending = {} /\ Made = {}
  BY DEF Init, Pending, Made
<1> QED BY <1>1, <1>2 DEF Init, Promise!Init

LEMMA PromiseStep == MainOnly /\ CallInv /\ MapInv /\ [Next]_vars => [Promise!Next]_(Promise!vars)
<1> SUFFICES ASSUME MainOnly, CallInv, MapInv, [Next]_vars PROVE [Promise!Next]_(Promise!vars)
  OBVIOUS
<1> USE DEF mapVars, newVars, runVars
<1>1. CASE UNCHANGED vars
  BY <1>1, PromiseStutters DEF vars
<1>2. ASSUME NEW H, NEW P, Removal(H, P) PROVE Promise!Next
  <2>1. UNCHANGED <<tick, call, made, ran>> /\ removed' = removed \cup Taken(H)
    BY <1>2 DEF Removal, FreeCalls
  <2> QED BY <1>2, <2>1, RemovalMap, PromiseCancels
<1>3. ASSUME Quiet PROVE [Promise!Next]_(Promise!vars)
  <2>1. UNCHANGED <<call, made, ran, removed>>
    BY <1>3 DEF Quiet
  <2>2. CASE UNCHANGED tick
    BY <2>1, <2>2, PromiseStutters
  <2>3. CASE TickDone
    <3>1. Dues' = Dues /\ Made' = Made
      BY <2>1 DEF Dues, Made
    <3>2. Promise!Tick
      BY <2>1, <2>3, <3>1 DEF TickDone, Promise!Tick, Dues, Pending
    <3> QED BY <3>2 DEF Promise!Next
  <2> QED BY <1>3, <2>2, <2>3 DEF Quiet, GameTick
<1>4. CASE MapCallOut(Main)
  <2>1. UNCHANGED <<tick, made, ran, removed>>
    BY <1>4 DEF MapCallOut
  <2> QED BY <1>4, <2>1, MapCallOutMap, PromiseStutters
<1>5. CASE AddEvent(Main) \/ ExtractEvents \/ CallOutPosted \/ InlineDone
  <2>1. UNCHANGED <<tick, made, ran, removed, call>>
    BY <1>5 DEF AddEvent, ExtractEvents, CallOutPosted, InlineDone
  <2> QED BY <2>1, PromiseStutters
<1>6. ASSUME NEW c \in Calls, RunEvent(c) \/ FireTimer(c) PROVE UNCHANGED Promise!vars
  <2>1. UNCHANGED <<tick, made, ran, removed, call>>
    BY <1>6 DEF RunEvent, FireTimer, Dispatch
  <2> QED BY <2>1, PromiseStutters
<1>7. CASE CallOutDropped
  <2> SUFFICES ASSUME NEW m, m = main.call PROVE Promise!Next
    OBVIOUS
  <2>1. UNCHANGED <<tick, call, made, ran>> /\ removed' = removed \cup {m} /\ main.pc = "call"
    BY <1>7 DEF CallOutDropped
  <2>2. m \in 1 .. made /\ m \notin removed
    BY <1>7, CallOutMap
  <2>3. m \notin Made
    BY <2>1 DEF CallInv, OnceInv
  <2> QED BY <2>1, <2>2, <2>3, PromiseCancels
<1>8. CASE CallOutInline
  <2> SUFFICES ASSUME NEW m, m = main.call PROVE Promise!Next
    OBVIOUS
  <2>1. UNCHANGED <<tick, call, made, removed>> /\ ran' = Append(ran, m) /\ main.pc = "call"
    BY <1>8 DEF CallOutInline
  <2>2. m \in 1 .. made /\ m \notin removed /\ event[m].where = "running"
    BY <1>8, CallOutMap
  <2>3. m \notin Made /\ call[m].due <= tick
    BY <2>1, <2>2 DEF CallInv, OnceInv, DueInv
  <2> QED BY <2>1, <2>2, <2>3, PromiseMakes
<1>9. ASSUME NEW t \in Threads, TaskDropped(t) \/ TaskBegins(t) PROVE Promise!Next
  <2> SUFFICES ASSUME NEW h, h = Head(inbox[t]) PROVE Promise!Next
    OBVIOUS
  <2>1. h \in 1 .. made /\ h \notin Made /\ h \notin removed /\ inbox[t] # << >>
        /\ UNCHANGED <<tick, made, call>>
    BY <1>9, TasksMap
  <2>2. CASE TaskDropped(t)
    <3>1. UNCHANGED ran /\ removed' = removed \cup {h}
      BY <2>2 DEF TaskDropped
    <3> QED BY <2>1, <3>1, PromiseCancels
  <2>3. CASE TaskBegins(t)
    <3>1. UNCHANGED removed /\ ran' = Append(ran, h)
      BY <2>3 DEF TaskBegins
    <3>2. inbox[t] \in Seq(Calls)
      BY DEF CallInv, TypeOK
    <3>3. 1 \in DOMAIN inbox[t] /\ h = inbox[t][1]
      BY <2>1, <3>2, HeadTailProperties
    <3>4. call[h].due <= tick
      BY <3>3 DEF CallInv, DueInv
    <3> QED BY <2>1, <3>1, <3>4, PromiseMakes
  <2> QED BY <1>9, <2>2, <2>3
<1>10. CASE Next
  BY <1>2, <1>3, <1>4, <1>5, <1>6, <1>7, <1>8, <1>9, <1>10, StepKinds, PromiseSchedules DEF Tasks, MapInv
<1> QED BY <1>1, <1>10

\* With the efuns called on the main thread only, call_out() keeps the promise of
\* DelayedCalls: a call is made once, not before its time, unless it is taken back
\* first, and one that was taken back is never made.
THEOREM PromiseKept == ASSUME MainOnly PROVE Spec => ImplementsDelayedCalls
<1>1. CallInv /\ MapInv /\ [Next]_vars => [Promise!Next]_(Promise!vars)
  BY PromiseStep
<1>2. CallInv /\ MapInv /\ [Next]_vars => CallInv' /\ MapInv'
  BY CallInvStep, MapInvStep
<1> QED
  BY <1>1, <1>2, CallInvInit, MapInvInit, PromiseInit, PTL DEF Spec, ImplementsDelayedCalls, Promise!Spec

=============================================================================
