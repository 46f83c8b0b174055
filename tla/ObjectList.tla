---------------------------- MODULE ObjectList ----------------------------
(***************************************************************************)
(* The list of all objects and the list of destructed ones                 *)
(* (src/vm/internal/simulate.cc), which load_object(), clone_object() and  *)
(* destruct_object() change on any thread that runs LPC code, and the two  *)
(* walks over them that the main thread makes from tick events without the *)
(* lock: look_for_objects_to_swap() (src/backend.cc), in batches whose     *)
(* place it remembers by a raw pointer from one tick to the next, and      *)
(* remove_destructed_objects() (src/vm/internal/vm.cc).                    *)
(*                                                                         *)
(* No two threads destruct one object at once.  The memory of a freed      *)
(* object is not given out again; what the scan reads there is arbitrary,  *)
(* and a sweep that comes to freed memory goes no further.                 *)
(***************************************************************************)
EXTENDS Naturals

CONSTANTS
  Objects,
  Null,
  Master,       \* the object loaded first, never destructed
  Workers,      \* threads of the heart beat pool that run LPC code
  Main,         \* the main thread
  Batch         \* __RC_SWAP_BATCH_SIZE__, 0 for no limit

Threads == Workers \cup {Main}

ASSUME ObjectListAssumption ==
  /\ Master \in Objects /\ Null \notin Objects
  /\ Main \notin Workers
  /\ Batch \in Nat

VARIABLES
  pool,             \* whether g_heartbeat_thread_pool was started: the driver does that,
                    \* a program that only loads objects does not
  objList,          \* obj_list
  objListDestruct,  \* obj_list_destruct
  nextAll, prevAll, \* next_all and prev_all of every object
  life,             \* where an object is on its way into and out of the lists
  destructed,       \* objects with O_DESTRUCTED
  dying,            \* the object a thread is destructing
  main,             \* what the main thread is doing
  ob, next,         \* locals of the walk it makes
  processed,
  cursor,           \* statics of look_for_objects_to_swap()
  roundComplete,
  since,            \* history: objects alive since the round began,
  visited,          \* those the round came to,
  derailed,         \* whether it followed a pointer off the list,
  raced             \* and whether a worker was adding to a list being swept

lists   == <<objList, objListDestruct, nextAll, prevAll, life, destructed>>
walk    == <<main, ob, next, processed, cursor, roundComplete>>
history == <<since, visited, derailed, raced>>
vars    == <<pool, lists, dying, walk, history>>

Pointers == Objects \cup {Null}
Live     == {o \in Objects : life[o] = "live"}
InMemory(o) == life[o] # "freed"

TypeOK ==
  /\ pool \in BOOLEAN
  /\ objList \in Pointers /\ objListDestruct \in Pointers
  /\ nextAll \in [Objects -> Pointers] /\ prevAll \in [Objects -> Pointers]
  /\ life \in [Objects -> {"unborn", "live", "unlinked", "linking", "listed", "kept", "freed"}]
  /\ destructed \subseteq Objects
  /\ dying \in [Threads -> Pointers]
  /\ main \in {"idle", "scan", "call", "sweep"}
  /\ ob \in Pointers /\ next \in Pointers /\ cursor \in Pointers
  /\ processed \in Nat /\ roundComplete \in BOOLEAN
  /\ since \subseteq Objects /\ visited \subseteq Objects
  /\ derailed \in BOOLEAN /\ raced \in BOOLEAN

Init ==
  /\ pool \in BOOLEAN
  /\ objList = Master /\ objListDestruct = Null
  /\ nextAll = [o \in Objects |-> Null] /\ prevAll = [o \in Objects |-> Null]
  /\ life = [o \in Objects |-> IF o = Master THEN "live" ELSE "unborn"]
  /\ destructed = {}
  /\ dying = [t \in Threads |-> Null]
  /\ main = "idle"
  /\ ob = Null /\ next = Null /\ processed = 0
  /\ cursor = Null /\ roundComplete = FALSE
  /\ since = {} /\ visited = {} /\ derailed = FALSE /\ raced = FALSE

-----------------------------------------------------------------------------
(* LPC code: on a worker at any time, on the main thread between events and *)
(* inside the calls of the scan.                                            *)

RunsLpc(t) == /\ dying[t] = Null
              /\ IF t = Main THEN main \in {"idle", "call"} ELSE pool

\* g_object_list_mutex is held from reading to writing obj_list_destruct.
Unlocked == \A t \in Threads : dying[t] # Null => life[dying[t]] # "linking"

\* load_object() and clone_object() put the new object at the head.
Create(t, o) ==
  /\ RunsLpc(t) /\ Unlocked
  /\ life[o] = "unborn"
  /\ nextAll' = [nextAll EXCEPT ![o] = objList]
  /\ prevAll' = [prevAll EXCEPT ![objList] = o, ![o] = Null]
  /\ objList' = o
  /\ life' = [life EXCEPT ![o] = "live"]
  /\ UNCHANGED <<pool, objListDestruct, destructed, dying, walk, history>>

\* destruct_object(), past the hooks and the contents.
Destruct(t, o) ==
  /\ RunsLpc(t)
  /\ life[o] = "live" /\ o # Master
  /\ \A u \in Threads : dying[u] # o
  /\ dying' = [dying EXCEPT ![t] = o]
  /\ UNCHANGED <<pool, lists, walk, history>>

UnlinkInside(o) ==
  /\ prevAll[o] # Null
  /\ nextAll' = [nextAll EXCEPT ![prevAll[o]] = nextAll[o]]
  /\ prevAll' = IF nextAll[o] = Null THEN prevAll
                ELSE [prevAll EXCEPT ![nextAll[o]] = prevAll[o]]
  /\ UNCHANGED objList

\* Mutant: the new head keeps its back pointer.
UnlinkHeadStale(o) ==
  /\ prevAll[o] = Null
  /\ objList' = nextAll[o]
  /\ UNCHANGED <<prevAll, nextAll>>

UnlinkHead(o) ==
  /\ prevAll[o] = Null
  /\ objList' = nextAll[o]
  /\ prevAll' = [prevAll EXCEPT ![nextAll[o]] = Null]
  /\ UNCHANGED nextAll

Unlink(t) ==
  LET o == dying[t] IN
  /\ o # Null /\ life[o] = "live" /\ Unlocked
  /\ UnlinkInside(o) \/ UnlinkHead(o)
  /\ life' = [life EXCEPT ![o] = "unlinked"]
  /\ UNCHANGED <<pool, objListDestruct, destructed, dying, walk, history>>

Raced(t) == raced \/ (t # Main /\ main = "sweep")

LinkRead(t) ==
  LET o == dying[t] IN
  /\ o # Null /\ life[o] = "unlinked" /\ Unlocked
  /\ nextAll' = [nextAll EXCEPT ![o] = objListDestruct]
  /\ prevAll' = [p \in Objects |-> CASE p = o -> Null
                                     [] p # o /\ p = objListDestruct -> o
                                     [] OTHER -> prevAll[p]]
  /\ life' = [life EXCEPT ![o] = "linking"]
  /\ raced' = Raced(t)
  /\ UNCHANGED <<pool, objList, objListDestruct, destructed, dying, walk, since, visited, derailed>>

LinkWrite(t) ==
  LET o == dying[t] IN
  /\ o # Null /\ life[o] = "linking"
  /\ objListDestruct' = o
  /\ life' = [life EXCEPT ![o] = "listed"]
  /\ raced' = Raced(t)
  /\ UNCHANGED <<pool, objList, nextAll, prevAll, destructed, dying, walk, since, visited, derailed>>

\* The flag is set last, by when a sweep may have freed the object.
SetDestructed(t) ==
  LET o == dying[t] IN
  /\ o # Null /\ life[o] \in {"listed", "kept", "freed"}
  /\ destructed' = destructed \cup {o}
  /\ dying' = [dying EXCEPT ![t] = Null]
  /\ UNCHANGED <<pool, objList, objListDestruct, nextAll, prevAll, life, walk, history>>

-----------------------------------------------------------------------------
(* look_for_objects_to_swap() *)

MainIdle == main = "idle" /\ dying[Main] = Null

ScanRest ==
  /\ MainIdle /\ roundComplete
  /\ roundComplete' = FALSE /\ cursor' = Null
  /\ UNCHANGED <<pool, lists, dying, main, ob, next, processed, history>>

\* Mutant: every tick begins at the head of the list.
ScanStartOver ==
  /\ MainIdle /\ ~roundComplete
  /\ main' = "scan" /\ processed' = 0
  /\ ob' = objList
  /\ IF cursor = Null THEN since' = Live /\ visited' = {} /\ derailed' = FALSE
                      ELSE UNCHANGED <<since, visited, derailed>>
  /\ UNCHANGED <<pool, lists, dying, next, cursor, roundComplete, raced>>

ScanStart ==
  /\ MainIdle /\ ~roundComplete
  /\ main' = "scan" /\ processed' = 0
  /\ ob' = IF cursor = Null THEN objList ELSE cursor
  /\ IF cursor = Null THEN since' = Live /\ visited' = {} /\ derailed' = FALSE
                      ELSE UNCHANGED <<since, visited, derailed>>
  /\ UNCHANGED <<pool, lists, dying, next, cursor, roundComplete, raced>>

InBatch == ob # Null /\ (Batch = 0 \/ processed < Batch)

\* What the scan may find in next_all, and in flags.
NextOf(o)    == IF InMemory(o) THEN {nextAll[o]} ELSE Pointers
SeemsDead(o) == IF InMemory(o) THEN {o \in destructed} ELSE BOOLEAN
OffList(o)   == life[o] \notin {"live", "unlinked"}

ScanDestructed ==
  /\ main = "scan" /\ InBatch
  /\ TRUE \in SeemsDead(ob)
  /\ ob' \in NextOf(ob)
  /\ derailed' = (derailed \/ OffList(ob))
  /\ UNCHANGED <<pool, lists, dying, main, next, processed, cursor, roundComplete, since, visited, raced>>

\* Nothing to do for the object, or a task posted to its worker.
ScanPass ==
  /\ main = "scan" /\ InBatch
  /\ FALSE \in SeemsDead(ob)
  /\ ob' \in NextOf(ob)
  /\ processed' = processed + 1
  /\ visited' = visited \cup {ob}
  /\ derailed' = (derailed \/ OffList(ob))
  /\ UNCHANGED <<pool, lists, dying, main, next, cursor, roundComplete, since, raced>>

\* Without a pool reset and clean_up run here.
ScanCall ==
  /\ main = "scan" /\ InBatch /\ ~pool
  /\ FALSE \in SeemsDead(ob)
  /\ main' = "call"
  /\ next' \in NextOf(ob)
  /\ visited' = visited \cup {ob}
  /\ derailed' = (derailed \/ OffList(ob))
  /\ UNCHANGED <<pool, lists, dying, ob, processed, cursor, roundComplete, since, raced>>

\* Mutant: the next object is read after the call.
CallReturnsLate ==
  /\ main = "call" /\ dying[Main] = Null
  /\ main' = "scan" /\ ob' = nextAll[ob] /\ next' = Null
  /\ \/ processed' = processed + 1
     \/ ob \in destructed /\ UNCHANGED processed
  /\ UNCHANGED <<pool, lists, dying, cursor, roundComplete, history>>

\* Mutant: an object that destructed itself is taken off the count.
CallReturnsLess ==
  /\ main = "call" /\ dying[Main] = Null
  /\ main' = "scan" /\ ob' = next /\ next' = Null
  /\ \/ processed' = processed + 1
     \/ ob \in destructed /\ processed' = processed - 1
  /\ UNCHANGED <<pool, lists, dying, cursor, roundComplete, history>>

\* An object destructed by its reset() is not counted, one destructed by its
\* clean_up() is.
CallReturns ==
  /\ main = "call" /\ dying[Main] = Null
  /\ main' = "scan" /\ ob' = next /\ next' = Null
  /\ \/ processed' = processed + 1
     \/ ob \in destructed /\ UNCHANGED processed
  /\ UNCHANGED <<pool, lists, dying, cursor, roundComplete, history>>

ScanEnd ==
  /\ main = "scan" /\ ~InBatch
  /\ main' = "idle" /\ ob' = Null /\ processed' = 0
  /\ cursor' = ob
  /\ roundComplete' = (ob = Null)
  /\ UNCHANGED <<pool, lists, dying, next, history>>

-----------------------------------------------------------------------------
(* remove_destructed_objects(), from a tick event every five minutes or one *)
(* that the reclaim_objects() efun adds.                                    *)

\* Mutant: the sweep begins one object too late.
SweepStartNext ==
  /\ MainIdle /\ objListDestruct # Null
  /\ main' = "sweep" /\ ob' = nextAll[objListDestruct]
  /\ raced' = (raced \/ ~Unlocked)
  /\ UNCHANGED <<pool, lists, dying, next, processed, cursor, roundComplete, since, visited, derailed>>

SweepStart ==
  /\ MainIdle /\ objListDestruct # Null
  /\ main' = "sweep" /\ ob' = objListDestruct
  /\ raced' = (raced \/ ~Unlocked)
  /\ UNCHANGED <<pool, lists, dying, next, processed, cursor, roundComplete, since, visited, derailed>>

\* destruct2() drops the reference of the list; others may remain.
SweepStep ==
  /\ main = "sweep" /\ ob # Null /\ InMemory(ob)
  /\ ob' = nextAll[ob]
  /\ \E fate \in {"kept", "freed"} : life' = [life EXCEPT ![ob] = fate]
  /\ UNCHANGED <<pool, objList, objListDestruct, nextAll, prevAll, destructed, dying, main, next,
                 processed, cursor, roundComplete, history>>

\* Mutant: the list is not emptied.
SweepEndKeeps ==
  /\ main = "sweep" /\ ob = Null
  /\ main' = "idle"
  /\ UNCHANGED <<pool, lists, dying, ob, next, processed, cursor, roundComplete, history>>

SweepEnd ==
  /\ main = "sweep" /\ ob = Null
  /\ main' = "idle" /\ objListDestruct' = Null
  /\ UNCHANGED <<pool, objList, nextAll, prevAll, life, destructed, dying, ob, next, processed,
                 cursor, roundComplete, history>>

-----------------------------------------------------------------------------
DestructStep(t) == Unlink(t) \/ LinkRead(t) \/ LinkWrite(t) \/ SetDestructed(t)
ScanStep  == ScanDestructed \/ ScanPass \/ ScanCall \/ CallReturns \/ ScanEnd
Scan      == ScanRest \/ ScanStart
Sweep     == SweepStep \/ SweepEnd

Next ==
  \/ \E t \in Threads : (\E o \in Objects : Create(t, o) \/ Destruct(t, o)) \/ DestructStep(t)
  \/ Scan \/ ScanStep
  \/ SweepStart \/ Sweep

Spec == Init /\ [][Next]_vars

\* An object being destructed gets there; a tick event that is due is called;
\* LPC code called by the scan returns.
FairSpec ==
  /\ Spec
  /\ \A t \in Threads : WF_vars(DestructStep(t))
  /\ SF_vars(Scan) /\ SF_vars(SweepStart)
  /\ WF_vars(ScanStep) /\ WF_vars(Sweep)

-----------------------------------------------------------------------------
(* Properties *)

\* The back pointers by which destruct_object() unlinks agree with the forward
\* ones, from a head without a predecessor up to the master: there is always an
\* object for the assignment to obj_list->prev_all (simulate.cc:1044), which has no
\* test for an empty list.
Linked ==
  /\ objList \in Live /\ prevAll[objList] = Null
  /\ \A o \in Live :
       /\ nextAll[o] = Null <=> o = Master
       /\ o # Master => nextAll[o] \in Live /\ prevAll[nextAll[o]] = o
       /\ o # objList => prevAll[o] \in Live /\ nextAll[prevAll[o]] = o

\* The sweep frees an object once: it never comes to one freed already, as long
\* as no worker was adding to the list during a sweep.
FreedOnce == ~raced /\ main = "sweep" /\ ob # Null => life[ob] = "listed"

\* A round of resets comes to every object that lived through the round, if the
\* place it kept between calls and ticks was never one that was destructed.
RoundCovers ==
  [][~roundComplete /\ roundComplete' /\ ~derailed => since \cap Live \subseteq visited]_vars

\* Every object destructed is swept in the end, unless the scan is led astray by
\* the memory of a freed object and the main thread does not come back from it.
DestructedIsSwept ==
  \A o \in Objects : life[o] = "listed" ~> (life[o] \in {"kept", "freed"} \/ raced \/ derailed)

\* A round that went from tick to tick comes to its end, though objects are
\* cloned and destructed meanwhile.
RoundEnds == cursor # Null ~> (cursor = Null \/ derailed \/ raced)
=============================================================================
