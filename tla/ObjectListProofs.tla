------------------------- MODULE ObjectListProofs -------------------------
(***************************************************************************)
(* Proofs about the object lists, for any objects, threads and batch: the  *)
(* types, the pointers of obj_list, that a sweep comes to no object twice  *)
(* and that a round of resets comes to every object that lives through it. *)
(***************************************************************************)
EXTENDS ObjectList, TLAPS

-----------------------------------------------------------------------------
(* The inductive invariant: the objects being destructed, the chain of the  *)
(* destructed ones, and obj_list.                                           *)

\* Objects that are or were on obj_list_destruct.
Out == {o \in Objects : life[o] \in {"listed", "kept", "freed"}}

\* A thread destructs an object of its own and never the master; an object
\* between the lists is being destructed; linking one holds the mutex.
Dying ==
  /\ life[Master] = "live"
  /\ \A t \in Threads : dying[t] # Master
  /\ \A t, u \in Threads : dying[t] # Null /\ dying[t] = dying[u] => t = u
  /\ \A o \in Objects : life[o] \in {"unlinked", "linking"} => \E t \in Threads : dying[t] = o
  /\ \A o, p \in Objects : life[o] = "linking" /\ life[p] = "linking" => o = p

\* No pointer leads from the destructed objects back to the others.
Closed ==
  /\ objListDestruct \in Out \cup {Null}
  /\ main = "sweep" => ob \in Out \cup {Null} /\ dying[Main] = Null
  /\ \A o \in Objects : life[o] \in {"linking", "listed", "kept", "freed"} =>
       nextAll[o] \in Out \cup {Null}

Listed == {o \in Objects : life[o] = "listed"}

\* The first of the destructed objects that is not swept yet.
Front == IF main = "sweep" THEN ob ELSE objListDestruct

\* Without a race no listed object points to the front or to where another one
\* points, and an object being put in front points to the front.
Chain ==
  ~raced =>
    /\ Front \in Listed \cup {Null}
    /\ \A o \in Listed : nextAll[o] \in Listed \cup {Null}
    /\ \A o \in Listed : nextAll[o] = Null \/ nextAll[o] # Front
    /\ \A o, p \in Listed : nextAll[o] = nextAll[p] /\ nextAll[o] # Null => o = p
    /\ \A o \in Objects : life[o] = "linking" => main # "sweep" /\ nextAll[o] = objListDestruct

IInv == TypeOK /\ Dying /\ Closed /\ Linked /\ Chain

-----------------------------------------------------------------------------
(* Steps of the walks leave the lists, and who destructs what, alone, and   *)
(* never are a sweep before or after.                                       *)

Walks == ScanRest \/ ScanStart \/ ScanDestructed \/ ScanPass \/ ScanCall \/ CallReturns \/ ScanEnd

LEMMA WalksLeave ==
  ASSUME Walks
  PROVE  UNCHANGED <<lists, dying, raced>> /\ main # "sweep" /\ main' # "sweep"
BY DEF Walks, ScanRest, ScanStart, ScanDestructed, ScanPass, ScanCall, CallReturns, ScanEnd,
       MainIdle, lists, history

\* The steps, one by one.
LEMMA Steps ==
  ASSUME [Next]_vars
  PROVE  \/ \E t \in Threads, o \in Objects : Create(t, o)
         \/ \E t \in Threads, o \in Objects : Destruct(t, o)
         \/ \E t \in Threads : Unlink(t)
         \/ \E t \in Threads : LinkRead(t)
         \/ \E t \in Threads : LinkWrite(t)
         \/ \E t \in Threads : SetDestructed(t)
         \/ Walks \/ SweepStart \/ SweepStep \/ SweepEnd
         \/ UNCHANGED vars
BY DEF Next, DestructStep, Scan, ScanStep, Sweep, Walks

-----------------------------------------------------------------------------
LEMMA WalksTyped == ASSUME TypeOK, Walks PROVE TypeOK'
<1> USE DEF TypeOK, Pointers, Live
<1>a. CASE ScanRest BY <1>a DEF ScanRest, lists, history
<1>b. CASE ScanStart BY <1>b DEF ScanStart, lists
<1>c. CASE ScanDestructed BY <1>c DEF ScanDestructed, InBatch, NextOf, lists
<1>d. CASE ScanPass BY <1>d DEF ScanPass, InBatch, NextOf, lists
<1>e. CASE ScanCall BY <1>e DEF ScanCall, InBatch, NextOf, lists
<1>f. CASE CallReturns BY <1>f DEF CallReturns, lists, history
<1>g. CASE ScanEnd BY <1>g DEF ScanEnd, lists, history
<1> QED BY <1>a, <1>b, <1>c, <1>d, <1>e, <1>f, <1>g DEF Walks

LEMMA TypeStep == ASSUME TypeOK, [Next]_vars PROVE TypeOK'
<1> USE DEF TypeOK, Pointers
<1>1. CASE \E t \in Threads, o \in Objects : Create(t, o)
  BY <1>1 DEF Create, walk, history
<1>2. CASE \E t \in Threads, o \in Objects : Destruct(t, o)
  BY <1>2 DEF Destruct, lists, walk, history
<1>3. CASE \E t \in Threads : Unlink(t)
  BY <1>3 DEF Unlink, UnlinkInside, UnlinkHead, walk, history
<1>4. CASE \E t \in Threads : LinkRead(t)
  BY <1>4 DEF LinkRead, Raced, walk
<1>5. CASE \E t \in Threads : LinkWrite(t)
  BY <1>5 DEF LinkWrite, Raced, walk
<1>6. CASE \E t \in Threads : SetDestructed(t)
  BY <1>6 DEF SetDestructed, walk, history
<1>7. CASE Walks BY <1>7, WalksTyped
<1>8. CASE SweepStart BY <1>8 DEF SweepStart, Unlocked, lists
<1>9. CASE SweepStep BY <1>9 DEF SweepStep, history
<1>10. CASE SweepEnd BY <1>10 DEF SweepEnd, history
<1>11. CASE UNCHANGED vars BY <1>11 DEF vars, lists, walk, history
<1> QED BY <1>1, <1>2, <1>3, <1>4, <1>5, <1>6, <1>7, <1>8, <1>9, <1>10, <1>11, Steps

\* Every variable keeps its type, whatever the threads and the walks do.
THEOREM TypeCorrect == Spec => []TypeOK
<1>1. ASSUME Init PROVE TypeOK
  <2>1. life \in [Objects -> {"unborn", "live", "unlinked", "linking", "listed", "kept", "freed"}]
    BY <1>1 DEF Init
  <2> QED BY <1>1, <2>1, ObjectListAssumption DEF Init, TypeOK, Pointers
<1>2. TypeOK /\ [Next]_vars => TypeOK' BY TypeStep
<1> QED BY <1>1, <1>2, PTL DEF Spec

-----------------------------------------------------------------------------
(* Each part of the invariant, action by action.                             *)

LEMMA DyingStep ==
  ASSUME TypeOK, Dying, Closed, [Next]_vars
  PROVE  Dying'
<1> USE ObjectListAssumption DEF TypeOK, Pointers, Dying
<1>1. ASSUME NEW t \in Threads, NEW o \in Objects, Create(t, o) PROVE Dying'
  BY <1>1 DEF Create
<1>2. ASSUME NEW t \in Threads, NEW o \in Objects, Destruct(t, o) PROVE Dying'
  BY <1>2 DEF Destruct, RunsLpc, lists
<1>3. ASSUME NEW t \in Threads, Unlink(t) PROVE Dying'
  BY <1>3 DEF Unlink
<1>4. ASSUME NEW t \in Threads, LinkRead(t) PROVE Dying'
  BY <1>4 DEF LinkRead, Unlocked
<1>5. ASSUME NEW t \in Threads, LinkWrite(t) PROVE Dying'
  BY <1>5 DEF LinkWrite
<1>6. ASSUME NEW t \in Threads, SetDestructed(t) PROVE Dying'
  BY <1>6 DEF SetDestructed
<1>7. CASE Walks BY <1>7, WalksLeave DEF lists
<1>8. CASE SweepStart BY <1>8 DEF SweepStart, lists
<1>9. CASE SweepStep
  <2>1. ob \in Objects /\ life[ob] \in {"listed", "kept", "freed"}
    BY <1>9 DEF SweepStep, Closed, Out
  <2>2. PICK fate \in {"kept", "freed"} : life' = [life EXCEPT ![ob] = fate]
    BY <1>9 DEF SweepStep
  <2> QED BY <1>9, <2>1, <2>2 DEF SweepStep
<1>10. CASE SweepEnd BY <1>10 DEF SweepEnd
<1>11. CASE UNCHANGED vars BY <1>11 DEF vars, lists
<1> QED BY <1>1, <1>2, <1>3, <1>4, <1>5, <1>6, <1>7, <1>8, <1>9, <1>10, <1>11, Steps

LEMMA ClosedStep ==
  ASSUME TypeOK, Dying, Closed, Linked, [Next]_vars
  PROVE  Closed'
<1> USE ObjectListAssumption DEF TypeOK, Pointers, Closed, Out
<1>1. ASSUME NEW t \in Threads, NEW o \in Objects, Create(t, o) PROVE Closed'
  BY <1>1 DEF Create, walk
<1>2. ASSUME NEW t \in Threads, NEW o \in Objects, Destruct(t, o) PROVE Closed'
  <2>1. main = "sweep" => t # Main BY <1>2 DEF Destruct, RunsLpc
  <2> QED BY <1>2, <2>1 DEF Destruct, lists, walk, Threads
<1>3. ASSUME NEW t \in Threads, Unlink(t) PROVE Closed'
  <2> DEFINE o == dying[t]
  <2>1. o \in Objects /\ life[o] = "live" /\ prevAll[o] \in Live \cup {Null}
    BY <1>3 DEF Unlink, Linked, Live
  <2>2. \A x \in Objects : x \notin Live => nextAll'[x] = nextAll[x]
    BY <1>3, <2>1 DEF Unlink, UnlinkInside, UnlinkHead, Live
  <2> QED BY <1>3, <2>1, <2>2 DEF Unlink, walk, Live
<1>4. ASSUME NEW t \in Threads, LinkRead(t) PROVE Closed'
  BY <1>4 DEF LinkRead, walk
<1>5. ASSUME NEW t \in Threads, LinkWrite(t) PROVE Closed'
  BY <1>5 DEF LinkWrite, walk
<1>6. ASSUME NEW t \in Threads, SetDestructed(t) PROVE Closed'
  BY <1>6 DEF SetDestructed, walk, Threads
<1>7. CASE Walks BY <1>7, WalksLeave DEF lists
<1>8. CASE SweepStart BY <1>8 DEF SweepStart, MainIdle, lists
<1>9. CASE SweepStep
  <2>1. ob \in Objects /\ life[ob] \in {"listed", "kept", "freed"}
    BY <1>9 DEF SweepStep
  <2>2. PICK fate \in {"kept", "freed"} : life' = [life EXCEPT ![ob] = fate]
    BY <1>9 DEF SweepStep
  <2> QED BY <1>9, <2>1, <2>2 DEF SweepStep
<1>10. CASE SweepEnd BY <1>10 DEF SweepEnd
<1>11. CASE UNCHANGED vars BY <1>11 DEF vars, lists, walk
<1> QED BY <1>1, <1>2, <1>3, <1>4, <1>5, <1>6, <1>7, <1>8, <1>9, <1>10, <1>11, Steps

LEMMA LinkedStep ==
  ASSUME TypeOK, Dying, Closed, Linked, [Next]_vars
  PROVE  Linked'
<1> USE ObjectListAssumption DEF TypeOK, Pointers, Linked, Live
<1>1. ASSUME NEW t \in Threads, NEW o \in Objects, Create(t, o) PROVE Linked'
  BY <1>1 DEF Create, Dying
<1>2. ASSUME NEW t \in Threads, NEW o \in Objects, Destruct(t, o) PROVE Linked'
  BY <1>2 DEF Destruct, lists
<1>3. ASSUME NEW t \in Threads, Unlink(t) PROVE Linked'
  <2> DEFINE o == dying[t]
  <2>1. o \in Live /\ o # Master /\ nextAll[o] \in Live /\ prevAll[nextAll[o]] = o
    BY <1>3 DEF Unlink, Dying
  <2>2. Live' = Live \ {o}
    BY <1>3, <2>1 DEF Unlink
  <2>3. CASE UnlinkInside(o)
    <3>1. prevAll[o] \in Live /\ nextAll[prevAll[o]] = o /\ o # objList
      BY <2>1, <2>3 DEF UnlinkInside
    <3> QED BY <2>1, <2>2, <2>3, <3>1 DEF UnlinkInside
  <2>4. CASE UnlinkHead(o)
    BY <2>1, <2>2, <2>4 DEF UnlinkHead
  <2> QED BY <1>3, <2>3, <2>4 DEF Unlink
<1>4. ASSUME NEW t \in Threads, LinkRead(t) PROVE Linked'
  <2>1. Live' = Live BY <1>4 DEF LinkRead
  <2>2. \A x \in Live : nextAll'[x] = nextAll[x] /\ prevAll'[x] = prevAll[x]
    BY <1>4 DEF LinkRead, Closed, Out
  <2> QED BY <1>4, <2>1, <2>2 DEF LinkRead
<1>5. ASSUME NEW t \in Threads, LinkWrite(t) PROVE Linked'
  BY <1>5 DEF LinkWrite
<1>6. ASSUME NEW t \in Threads, SetDestructed(t) PROVE Linked'
  BY <1>6 DEF SetDestructed
<1>7. CASE Walks BY <1>7, WalksLeave DEF lists
<1>8. CASE SweepStart BY <1>8 DEF SweepStart, lists
<1>9. CASE SweepStep
  <2>1. ob \in Objects /\ life[ob] \in {"listed", "kept", "freed"}
    BY <1>9 DEF SweepStep, Closed, Out
  <2>2. PICK fate \in {"kept", "freed"} : life' = [life EXCEPT ![ob] = fate]
    BY <1>9 DEF SweepStep
  <2>3. Live' = Live BY <2>1, <2>2
  <2> QED BY <1>9, <2>3 DEF SweepStep
<1>10. CASE SweepEnd BY <1>10 DEF SweepEnd
<1>11. CASE UNCHANGED vars BY <1>11 DEF vars, lists
<1> QED BY <1>1, <1>2, <1>3, <1>4, <1>5, <1>6, <1>7, <1>8, <1>9, <1>10, <1>11, Steps

LEMMA ChainStep ==
  ASSUME TypeOK, Dying, Closed, Linked, Chain, [Next]_vars, ~raced'
  PROVE  Chain'
<1> USE ObjectListAssumption DEF TypeOK, Pointers, Listed, Front
<1>0. ~raced
  BY Steps, WalksLeave DEF Create, Destruct, Unlink, LinkRead, LinkWrite, SetDestructed, Raced,
     SweepStart, SweepStep, SweepEnd, vars, history
<1> USE <1>0
<1>1. ASSUME NEW t \in Threads, NEW o \in Objects, Create(t, o) PROVE Chain'
  <2>1. Listed' = Listed /\ Front' = Front BY <1>1 DEF Create, walk
  <2>2. \A x \in Objects : life'[x] \in {"linking", "listed"} =>
          life'[x] = life[x] /\ nextAll'[x] = nextAll[x]
    BY <1>1 DEF Create
  <2> QED BY <1>1, <2>1, <2>2 DEF Create, walk, Chain
<1>2. ASSUME NEW t \in Threads, NEW o \in Objects, Destruct(t, o) PROVE Chain'
  BY <1>2 DEF Destruct, lists, walk, history, Chain
<1>3. ASSUME NEW t \in Threads, Unlink(t) PROVE Chain'
  <2> DEFINE o == dying[t]
  <2>1. o \in Objects /\ life[o] = "live" /\ prevAll[o] \in Live \cup {Null}
    BY <1>3 DEF Unlink, Linked, Live
  <2>2. Listed' = Listed /\ Front' = Front BY <1>3, <2>1 DEF Unlink, walk
  <2>3. \A x \in Objects : life'[x] \in {"linking", "listed"} =>
          life'[x] = life[x] /\ nextAll'[x] = nextAll[x]
    BY <1>3, <2>1 DEF Unlink, UnlinkInside, UnlinkHead, Live
  <2> QED BY <1>3, <2>2, <2>3 DEF Unlink, walk, Chain
<1>4. ASSUME NEW t \in Threads, LinkRead(t) PROVE Chain'
  <2> DEFINE o == dying[t]
  <2>1. o \in Objects /\ life[o] = "unlinked" /\ main # "sweep"
    BY <1>4 DEF LinkRead, Raced, Closed
  <2>2. Listed' = Listed /\ Front' = Front /\ main' # "sweep"
    BY <1>4, <2>1 DEF LinkRead, walk
  <2>3. \A x \in Objects : life'[x] = "linking" => x = o
    BY <1>4, <2>1 DEF LinkRead, Unlocked, Dying
  <2>4. nextAll'[o] = objListDestruct' /\ \A x \in Listed : nextAll'[x] = nextAll[x]
    BY <1>4, <2>1 DEF LinkRead
  <2> QED BY <2>1, <2>2, <2>3, <2>4 DEF Chain
<1>5. ASSUME NEW t \in Threads, LinkWrite(t) PROVE Chain'
  <2> DEFINE o == dying[t]
  <2>1. o \in Objects /\ life[o] = "linking" /\ main # "sweep"
    BY <1>5 DEF LinkWrite, Raced, Closed
  <2>2. Listed' = Listed \cup {o} /\ o \notin Listed /\ Front' = o
    BY <1>5, <2>1 DEF LinkWrite, walk
  <2>3. nextAll' = nextAll /\ nextAll[o] = Front /\ Front \in Listed \cup {Null}
    BY <1>5, <2>1 DEF LinkWrite, Chain
  <2>4. \A x \in Objects : life'[x] # "linking"
    BY <1>5, <2>1 DEF LinkWrite, Dying
  <2>5. \A x \in Listed : nextAll[x] \in Listed \cup {Null} /\ (nextAll[x] = Null \/ nextAll[x] # Front)
    BY DEF Chain
  <2>6. \A x, y \in Listed : nextAll[x] = nextAll[y] /\ nextAll[x] # Null => x = y
    BY DEF Chain
  <2>7. Null \notin Listed BY DEF Listed
  <2> HIDE DEF Listed, Front, o
  <2> QED BY <2>2, <2>3, <2>4, <2>5, <2>6, <2>7 DEF Chain
<1>6. ASSUME NEW t \in Threads, SetDestructed(t) PROVE Chain'
  BY <1>6 DEF SetDestructed, walk, history, Chain
<1>7. CASE Walks BY <1>7, WalksLeave DEF lists, Chain
<1>8. CASE SweepStart
  <2>1. \A x \in Objects : life[x] # "linking"
    BY <1>8 DEF SweepStart, Unlocked, Dying
  <2>2. Listed' = Listed /\ Front' = Front /\ nextAll' = nextAll /\ life' = life
    BY <1>8 DEF SweepStart, MainIdle, lists
  <2> QED BY <2>1, <2>2 DEF Chain
<1>9. CASE SweepStep
  <2>1. ob \in Listed /\ main = "sweep" /\ main' = "sweep"
    BY <1>9 DEF SweepStep, Chain
  <2>2. PICK fate \in {"kept", "freed"} : life' = [life EXCEPT ![ob] = fate]
    BY <1>9 DEF SweepStep
  <2>3. Listed' = Listed \ {ob} BY <2>1, <2>2
  <2>4. Front = ob /\ Front' = nextAll[ob] /\ nextAll' = nextAll
    BY <1>9, <2>1 DEF SweepStep
  <2>5. \A x \in Objects : life'[x] # "linking"
    BY <2>1, <2>2 DEF Chain
  <2>6. \A x \in Listed : nextAll[x] \in Listed \cup {Null} /\ (nextAll[x] = Null \/ nextAll[x] # ob)
    BY <2>4 DEF Chain
  <2>7. \A x, y \in Listed : nextAll[x] = nextAll[y] /\ nextAll[x] # Null => x = y
    BY DEF Chain
  <2>8. Null \notin Listed BY DEF Listed
  <2> HIDE DEF Listed, Front
  <2> QED BY <2>1, <2>3, <2>4, <2>5, <2>6, <2>7, <2>8 DEF Chain
<1>10. CASE SweepEnd
  <2>1. Listed' = Listed /\ Front' = Null /\ nextAll' = nextAll /\ life' = life /\ main = "sweep"
    BY <1>10 DEF SweepEnd
  <2> QED BY <2>1 DEF Chain
<1>11. CASE UNCHANGED vars BY <1>11 DEF vars, lists, walk, history, Chain
<1> QED BY <1>1, <1>2, <1>3, <1>4, <1>5, <1>6, <1>7, <1>8, <1>9, <1>10, <1>11, Steps

-----------------------------------------------------------------------------
THEOREM Invariant == Spec => []IInv
<1>1. ASSUME Init PROVE IInv
  <2>1. TypeOK
    <3>1. life \in [Objects -> {"unborn", "live", "unlinked", "linking", "listed", "kept", "freed"}]
      BY <1>1 DEF Init
    <3> QED BY <1>1, <3>1, ObjectListAssumption DEF Init, TypeOK, Pointers
  <2>2. \A o \in Objects : life[o] = IF o = Master THEN "live" ELSE "unborn"
    BY <1>1 DEF Init
  <2>3. Live = {Master} BY <2>2, ObjectListAssumption DEF Live
  <2>4. Dying BY <1>1, <2>2, ObjectListAssumption DEF Init, Dying
  <2>5. Closed BY <1>1, <2>2, ObjectListAssumption DEF Init, Closed, Out
  <2>6. Linked BY <1>1, <2>3, ObjectListAssumption DEF Init, Linked
  <2>7. Chain BY <1>1, <2>2, ObjectListAssumption DEF Init, Chain, Front, Listed
  <2> QED BY <2>1, <2>4, <2>5, <2>6, <2>7 DEF IInv
<1>2. ASSUME IInv, [Next]_vars PROVE IInv'
  <2>1. TypeOK' BY <1>2, TypeStep DEF IInv
  <2>2. Dying' BY <1>2, DyingStep DEF IInv
  <2>3. Closed' BY <1>2, ClosedStep DEF IInv
  <2>4. Linked' BY <1>2, LinkedStep DEF IInv
  <2>5. Chain' BY <1>2, ChainStep DEF IInv, Chain
  <2> QED BY <2>1, <2>2, <2>3, <2>4, <2>5 DEF IInv
<1> QED BY <1>1, <1>2, PTL DEF Spec

\* However many threads load, clone and destruct, the pointers in both directions
\* agree along obj_list, which is never empty.
THEOREM LinkedCorrect == Spec => []Linked
BY Invariant, PTL DEF IInv

\* A sweep comes to no freed object, as long as no worker was adding to the list
\* during a sweep.
THEOREM FreedOnceCorrect == Spec => []FreedOnce
<1>1. IInv => FreedOnce
  BY DEF IInv, Chain, Front, Listed, FreedOnce
<1> QED BY <1>1, Invariant, PTL

-----------------------------------------------------------------------------
(* What the pointers reach, said without counting: a chain is a set of      *)
(* objects still to be walked that no next_all leaves, and what is ahead of *)
(* a place is in every chain that holds the place.                          *)

Chained(C) == \A o \in C : ~OffList(o) /\ nextAll[o] \in C \cup {Null}

Ahead(place, S) ==
  \A C \in SUBSET Objects : Chained(C) /\ place \in C \cup {Null} => S \subseteq C

Whole == Ahead(objList, Live)

\* Where a round goes on, from call to call and from tick to tick.
Place == CASE main = "scan" -> ob [] main = "call" -> next [] OTHER -> cursor

UnderWay  == main \in {"scan", "call"} \/ cursor # Null
Remaining == (since \cap Live) \ visited

\* No pointer leads to an object that is yet to be.
Known(place) == place # Null => life[place] # "unborn"

BornInv ==
  /\ \A o \in Objects : life[o] # "unborn" => Known(nextAll[o])
  /\ \A o \in since : life[o] # "unborn"
  /\ destructed \subseteq Out

RoundInv == UnderWay /\ ~derailed => Known(Place) /\ Ahead(Place, Remaining)

CoverInv == BornInv /\ Whole /\ RoundInv

LEMMA BornStep == ASSUME IInv, BornInv, [Next]_vars PROVE BornInv'
<1> USE ObjectListAssumption DEF IInv, TypeOK, Pointers, BornInv, Known, Out
<1>1. ASSUME NEW t \in Threads, NEW o \in Objects, Create(t, o) PROVE BornInv'
  BY <1>1 DEF Create, history, Linked, Live
<1>2. ASSUME NEW t \in Threads, NEW o \in Objects, Destruct(t, o) PROVE BornInv'
  BY <1>2 DEF Destruct, lists, history
<1>3. ASSUME NEW t \in Threads, Unlink(t) PROVE BornInv'
  <2> DEFINE o == dying[t]
  <2>1. o \in Objects /\ life[o] = "live" /\ prevAll[o] \in Live \cup {Null}
    BY <1>3 DEF Unlink, Linked, Live
  <2>2. \A x \in Objects : nextAll'[x] \in {nextAll[x], nextAll[o]}
    BY <1>3, <2>1 DEF Unlink, UnlinkInside, UnlinkHead, Live
  <2>3. \A x \in Objects : life'[x] # "unborn" <=> life[x] # "unborn"
    BY <1>3, <2>1 DEF Unlink
  <2>4. destructed' = destructed /\ since' = since /\ life'[o] = "unlinked"
        /\ \A x \in Objects : x # o => life'[x] = life[x]
    BY <1>3, <2>1 DEF Unlink, history
  <2> QED BY <2>1, <2>2, <2>3, <2>4
<1>4. ASSUME NEW t \in Threads, LinkRead(t) PROVE BornInv'
  <2>1. objListDestruct # Null => life[objListDestruct] # "unborn"
    BY DEF Closed
  <2> QED BY <1>4, <2>1 DEF LinkRead
<1>5. ASSUME NEW t \in Threads, LinkWrite(t) PROVE BornInv'
  BY <1>5 DEF LinkWrite
<1>6. ASSUME NEW t \in Threads, SetDestructed(t) PROVE BornInv'
  BY <1>6 DEF SetDestructed, history
<1>7. CASE Walks
  <2>1. UNCHANGED <<nextAll, life, destructed>> BY <1>7, WalksLeave DEF lists
  <2>2. since' = since \/ since' = Live
    BY <1>7 DEF Walks, ScanRest, ScanStart, ScanDestructed, ScanPass, ScanCall, CallReturns,
                ScanEnd, history
  <2> QED BY <2>1, <2>2 DEF Live
<1>8. CASE SweepStart BY <1>8 DEF SweepStart, lists
<1>9. CASE SweepStep
  <2>1. ob \in Objects /\ life[ob] \in {"listed", "kept", "freed"}
    BY <1>9 DEF SweepStep, Closed
  <2>2. PICK fate \in {"kept", "freed"} : life' = [life EXCEPT ![ob] = fate]
    BY <1>9 DEF SweepStep
  <2> QED BY <1>9, <2>1, <2>2 DEF SweepStep, history
<1>10. CASE SweepEnd BY <1>10 DEF SweepEnd, history
<1>11. CASE UNCHANGED vars BY <1>11 DEF vars, lists, history
<1> QED BY <1>1, <1>2, <1>3, <1>4, <1>5, <1>6, <1>7, <1>8, <1>9, <1>10, <1>11, Steps

\* A chain after a step comes from a chain before it, which differs by the object
\* created or unlinked.
From(C, D) ==
  /\ D \in SUBSET Objects /\ Chained(D)
  /\ \A o \in C : life[o] # "unborn" => o \in D
  /\ \A o \in D : life'[o] = "live" => o \in C

LEMMA CreateChains ==
  ASSUME IInv, BornInv, NEW t \in Threads, NEW o \in Objects, Create(t, o),
         NEW C \in SUBSET Objects, Chained(C)'
  PROVE  From(C, C \ {o}) /\ life[o] = "unborn" /\ nextAll'[o] = objList
<1> USE ObjectListAssumption DEF IInv, TypeOK, Pointers, BornInv, Known, Chained, OffList
<1>1. life[o] = "unborn" /\ nextAll'[o] = objList
  BY DEF Create
<1>2. ASSUME NEW x \in C, x # o
      PROVE  life'[x] = life[x] /\ nextAll'[x] = nextAll[x] /\ nextAll[x] # o
  <2>1. life'[x] = life[x] /\ nextAll'[x] = nextAll[x]
    BY <1>2 DEF Create
  <2>2. life[x] # "unborn"
    BY <2>1
  <2> QED BY <1>1, <2>1, <2>2
<1> QED BY <1>1, <1>2 DEF From

LEMMA UnlinkChains ==
  ASSUME IInv, NEW t \in Threads, Unlink(t), NEW C \in SUBSET Objects, Chained(C)'
  PROVE  /\ \E D : From(C, D)
         /\ UnlinkHead(dying[t]) /\ objList' \in C => From(C, C \cup {dying[t]}) /\ objList = dying[t]
<1> USE ObjectListAssumption DEF IInv, TypeOK, Pointers, Chained, OffList
<1> DEFINE o == dying[t]
<1>1. /\ o \in Objects /\ life[o] = "live" /\ life'[o] = "unlinked" /\ o # Null
      /\ prevAll[o] \in Live \cup {Null}
      /\ \A x \in Objects : x # o => life'[x] = life[x]
  BY DEF Unlink, Linked, Live
<1>2. prevAll[o] = Null <=> o = objList
  BY <1>1 DEF Linked, Live
<1>3. UnlinkInside(o) \/ UnlinkHead(o)
  BY DEF Unlink
<1>4. CASE UnlinkHead(o)
  <2>1. nextAll' = nextAll /\ objList' = nextAll[o] /\ objList = o
    BY <1>2, <1>4 DEF UnlinkHead
  <2>2. From(C, C)
    BY <1>1, <2>1 DEF From
  <2>3. objList' \in C => From(C, C \cup {o})
    BY <1>1, <2>1 DEF From
  <2> QED BY <2>1, <2>2, <2>3
<1>5. CASE UnlinkInside(o)
  <2> DEFINE p == prevAll[o]
  <2>1. /\ p \in Objects /\ p # Null /\ nextAll[p] = o /\ life[p] = "live" /\ nextAll'[p] = nextAll[o]
        /\ \A x \in Objects : x # p => nextAll'[x] = nextAll[x]
    BY <1>1, <1>2, <1>5 DEF UnlinkInside, Linked, Live
  <2>3. CASE p \in C
    <3>1. nextAll[o] \in C \cup {Null}
      BY <2>1, <2>3
    <3>2. From(C, C \cup {o})
      BY <1>1, <2>1, <3>1 DEF From
    <3> QED BY <1>5, <2>1, <3>2 DEF UnlinkInside, UnlinkHead
  <2>4. CASE p \notin C
    <3>1. From(C, C)
      BY <1>1, <2>1, <2>4 DEF From
    <3> QED BY <1>5, <2>1, <3>1 DEF UnlinkInside, UnlinkHead
  <2> QED BY <2>3, <2>4
<1> QED BY <1>3, <1>4, <1>5

LEMMA ChainsFrom ==
  ASSUME IInv, BornInv, [Next]_vars, NEW C \in SUBSET Objects, Chained(C)'
  PROVE  \E D : From(C, D)
<1>1. ASSUME NEW t \in Threads, NEW o \in Objects, Create(t, o) PROVE \E D : From(C, D)
  BY <1>1, CreateChains
<1>3. ASSUME NEW t \in Threads, Unlink(t) PROVE \E D : From(C, D)
  BY <1>3, UnlinkChains
<1> SUFFICES ASSUME ~(\E t \in Threads, o \in Objects : Create(t, o)), ~(\E t \in Threads : Unlink(t))
             PROVE  From(C, C)
  BY <1>1, <1>3
<1> USE ObjectListAssumption DEF IInv, TypeOK, Pointers, Chained, OffList, From
<1>2. ASSUME NEW t \in Threads, NEW o \in Objects, Destruct(t, o) PROVE From(C, C)
  BY <1>2 DEF Destruct, lists
<1>4. ASSUME NEW t \in Threads, LinkRead(t) PROVE From(C, C)
  <2>1. /\ \A x \in Objects : x # dying[t] => life'[x] = life[x] /\ nextAll'[x] = nextAll[x]
        /\ dying[t] \in Objects /\ life'[dying[t]] = "linking"
    BY <1>4 DEF LinkRead
  <2> QED BY <2>1
<1>5. ASSUME NEW t \in Threads, LinkWrite(t) PROVE From(C, C)
  BY <1>5 DEF LinkWrite
<1>6. ASSUME NEW t \in Threads, SetDestructed(t) PROVE From(C, C)
  BY <1>6 DEF SetDestructed
<1>7. CASE Walks BY <1>7, WalksLeave DEF lists
<1>8. CASE SweepStart BY <1>8 DEF SweepStart, lists
<1>9. CASE SweepStep
  <2>1. ob \in Objects /\ life[ob] \in {"listed", "kept", "freed"}
    BY <1>9 DEF SweepStep, Closed, Out
  <2>2. PICK fate \in {"kept", "freed"} : life' = [life EXCEPT ![ob] = fate]
    BY <1>9 DEF SweepStep
  <2> QED BY <1>9, <2>1, <2>2 DEF SweepStep
<1>10. CASE SweepEnd BY <1>10 DEF SweepEnd
<1>11. CASE UNCHANGED vars BY <1>11 DEF vars, lists
<1> QED BY <1>2, <1>4, <1>5, <1>6, <1>7, <1>8, <1>9, <1>10, <1>11, Steps

\* Other steps neither create nor unlink.
LEMMA OthersLeave ==
  ASSUME IInv, [Next]_vars, ~(\E t \in Threads, o \in Objects : Create(t, o)),
         ~(\E t \in Threads : Unlink(t))
  PROVE  objList' = objList /\ Live' = Live
<1> USE ObjectListAssumption DEF IInv, TypeOK, Pointers, Live
<1>2. ASSUME NEW t \in Threads, NEW o \in Objects, Destruct(t, o) PROVE objList' = objList /\ Live' = Live
  BY <1>2 DEF Destruct, lists
<1>4. ASSUME NEW t \in Threads, LinkRead(t) PROVE objList' = objList /\ Live' = Live
  BY <1>4 DEF LinkRead
<1>5. ASSUME NEW t \in Threads, LinkWrite(t) PROVE objList' = objList /\ Live' = Live
  BY <1>5 DEF LinkWrite
<1>6. ASSUME NEW t \in Threads, SetDestructed(t) PROVE objList' = objList /\ Live' = Live
  BY <1>6 DEF SetDestructed
<1>7. CASE Walks BY <1>7, WalksLeave DEF lists
<1>8. CASE SweepStart BY <1>8 DEF SweepStart, lists
<1>9. CASE SweepStep
  <2>1. ob \in Objects /\ life[ob] \in {"listed", "kept", "freed"}
    BY <1>9 DEF SweepStep, Closed, Out
  <2>2. PICK fate \in {"kept", "freed"} : life' = [life EXCEPT ![ob] = fate]
    BY <1>9 DEF SweepStep
  <2> QED BY <1>9, <2>1, <2>2 DEF SweepStep
<1>10. CASE SweepEnd BY <1>10 DEF SweepEnd
<1>11. CASE UNCHANGED vars BY <1>11 DEF vars, lists
<1> QED BY <1>2, <1>4, <1>5, <1>6, <1>7, <1>8, <1>9, <1>10, <1>11, Steps

LEMMA WholeStep == ASSUME IInv, BornInv, Whole, [Next]_vars PROVE Whole'
<1> SUFFICES ASSUME NEW C \in SUBSET Objects, Chained(C)', objList' \in C \cup {Null}
             PROVE  Live' \subseteq C
  BY DEF Whole, Ahead
<1>0. objList' \in C /\ objList \in Objects /\ life[objList] = "live"
      /\ life \in [Objects -> {"unborn", "live", "unlinked", "linking", "listed", "kept", "freed"}]
      /\ life' \in [Objects -> {"unborn", "live", "unlinked", "linking", "listed", "kept", "freed"}]
  <2>1. objList' \in Live'
    BY LinkedStep DEF IInv, Linked
  <2> QED BY <2>1, TypeStep, ObjectListAssumption DEF Live, IInv, TypeOK, Linked
<1>1. ASSUME NEW D, From(C, D), objList \in D, NEW x \in Objects, life'[x] = "live", life[x] = "live"
      PROVE  x \in C
  BY <1>1 DEF From, Whole, Ahead, Live
<1>2. ASSUME NEW t \in Threads, NEW o \in Objects, Create(t, o) PROVE Live' \subseteq C
  <2>1. From(C, C \ {o}) /\ life[o] = "unborn" /\ nextAll'[o] = objList
    BY <1>2, CreateChains
  <2>2. objList' = o /\ \A x \in Objects : x # o => life'[x] = life[x]
    BY <1>2 DEF Create
  <2>3. objList \in C
    BY <1>0, <2>1, <2>2, ObjectListAssumption DEF Chained
  <2>4. objList \in C \ {o}
    BY <1>0, <2>1, <2>3
  <2> QED BY <1>0, <1>1, <2>1, <2>2, <2>4 DEF Live
<1>3. ASSUME NEW t \in Threads, Unlink(t) PROVE Live' \subseteq C
  <2>1. \A x \in Objects : life'[x] = "live" => life[x] = "live"
    BY <1>0, <1>3 DEF Unlink
  <2>2. \E D : From(C, D) /\ objList \in D
    <3>1. CASE UnlinkHead(dying[t])
      <4>1. objList' \in C
        BY <1>0
      <4>2. From(C, C \cup {dying[t]}) /\ objList = dying[t]
        BY <1>3, <3>1, <4>1, UnlinkChains
      <4> QED BY <4>2
    <3>2. CASE UnlinkInside(dying[t])
      <4>1. objList' = objList
        BY <3>2 DEF UnlinkInside
      <4>2. PICK D : From(C, D)
        BY <1>3, UnlinkChains
      <4> QED BY <1>0, <4>1, <4>2 DEF From
    <3> QED BY <1>3, <3>1, <3>2 DEF Unlink
  <2> QED BY <1>1, <2>1, <2>2 DEF Live
<1>4. ASSUME ~(\E t \in Threads, o \in Objects : Create(t, o)), ~(\E t \in Threads : Unlink(t))
      PROVE  Live' \subseteq C
  <2>1. objList' = objList /\ Live' = Live
    BY <1>4, OthersLeave
  <2>2. PICK D : From(C, D)
    BY ChainsFrom
  <2>3. objList \in D
    BY <1>0, <2>1, <2>2 DEF From
  <2> QED BY <1>1, <2>1, <2>2, <2>3 DEF Live
<1> QED BY <1>2, <1>3, <1>4

\* Nothing is unborn again, and only the unborn come to life.
LEMMA LifeGoesOn ==
  ASSUME IInv, [Next]_vars, NEW x \in Objects, life[x] # "unborn"
  PROVE  life'[x] # "unborn" /\ (life'[x] = "live" => life[x] = "live")
<1> USE ObjectListAssumption DEF IInv, TypeOK, Pointers
<1> DEFINE Goal == life'[x] # "unborn" /\ (life'[x] = "live" => life[x] = "live")
<1>1. ASSUME NEW t \in Threads, NEW o \in Objects, Create(t, o) PROVE Goal
  BY <1>1 DEF Create
<1>2. ASSUME NEW t \in Threads, NEW o \in Objects, Destruct(t, o) PROVE Goal
  BY <1>2 DEF Destruct, lists
<1>3. ASSUME NEW t \in Threads, Unlink(t) PROVE Goal
  BY <1>3 DEF Unlink
<1>4. ASSUME NEW t \in Threads, LinkRead(t) PROVE Goal
  BY <1>4 DEF LinkRead
<1>5. ASSUME NEW t \in Threads, LinkWrite(t) PROVE Goal
  BY <1>5 DEF LinkWrite
<1>6. ASSUME NEW t \in Threads, SetDestructed(t) PROVE Goal
  BY <1>6 DEF SetDestructed
<1>7. CASE Walks BY <1>7, WalksLeave DEF lists
<1>8. CASE SweepStart BY <1>8 DEF SweepStart, lists
<1>9. CASE SweepStep
  <2>2. PICK fate \in {"kept", "freed"} : life' = [life EXCEPT ![ob] = fate]
    BY <1>9 DEF SweepStep
  <2> QED BY <2>2
<1>10. CASE SweepEnd BY <1>10 DEF SweepEnd
<1>11. CASE UNCHANGED vars BY <1>11 DEF vars, lists
<1> QED BY <1>1, <1>2, <1>3, <1>4, <1>5, <1>6, <1>7, <1>8, <1>9, <1>10, <1>11, Steps

\* Whatever is created and destructed meanwhile, what is ahead stays ahead.
LEMMA AheadIsKept ==
  ASSUME IInv, BornInv, [Next]_vars, NEW p \in Pointers, Known(p), Ahead(p, Remaining),
         since' = since, visited' = visited
  PROVE  Known(p)' /\ Ahead(p, Remaining)'
<1>0. \A x \in Objects : life'[x] = "live" /\ x \in since => life[x] = "live"
  BY LifeGoesOn DEF BornInv
<1>1. Known(p)'
  BY LifeGoesOn DEF Known, Pointers
<1>2. ASSUME NEW C \in SUBSET Objects, Chained(C)', p \in C \cup {Null}
      PROVE  Remaining' \subseteq C
  <2>1. PICK D : From(C, D)
    BY <1>2, ChainsFrom
  <2>2. p \in D \cup {Null}
    BY <1>2, <2>1 DEF From, Known
  <2>3. Remaining \subseteq D
    BY <2>1, <2>2 DEF From, Ahead
  <2> QED BY <1>0, <2>1, <2>3 DEF From, Remaining, Live
<1> QED BY <1>1, <1>2 DEF Ahead

\* A step of the scan goes on from next_all of an object on the list or just taken
\* out of it.
LEMMA AheadOfNext ==
  ASSUME IInv, BornInv, Walks, NEW o \in Objects, ~OffList(o), Ahead(o, Remaining),
         since' = since, visited' = visited \cup {o}
  PROVE  /\ NextOf(o) = {nextAll[o]}
         /\ \A p : p = nextAll[o] => Known(p)' /\ Ahead(p, Remaining)'
<1> UNCHANGED <<nextAll, life>>
  BY WalksLeave DEF lists
<1>1. NextOf(o) = {nextAll[o]}
  BY DEF NextOf, InMemory, OffList
<1>2. Known(nextAll[o])
  BY DEF OffList, BornInv
<1>3. ASSUME NEW C \in SUBSET Objects, Chained(C)', nextAll[o] \in C \cup {Null}
      PROVE  Remaining' \subseteq C
  <2>1. Chained(C \cup {o})
    BY <1>3 DEF Chained, OffList
  <2>2. Remaining \subseteq C \cup {o}
    BY <2>1 DEF Ahead
  <2> QED BY <2>2 DEF Remaining, Live
<1> QED BY <1>1, <1>2, <1>3 DEF Ahead, Known

LEMMA RoundWalks == ASSUME IInv, CoverInv, Walks, [Next]_vars PROVE RoundInv'
<1> SUFFICES ASSUME UnderWay', ~derailed' PROVE Known(Place)' /\ Ahead(Place, Remaining)'
  BY DEF RoundInv
<1> UNCHANGED <<nextAll, life, objList>>
  BY WalksLeave DEF lists
<1>t. ob \in Pointers /\ next \in Pointers /\ cursor \in Pointers /\ objList \in Pointers
      /\ Null \notin Objects
  BY ObjectListAssumption DEF IInv, TypeOK
<1>1. CASE ScanRest
  BY <1>1 DEF ScanRest, MainIdle, UnderWay
<1>2. CASE ScanStart
  <2>1. CASE cursor = Null
    <3>1. Place' = objList /\ Remaining' = Live
      BY <1>2, <2>1 DEF ScanStart, Place, Remaining, Live
    <3>2. Known(objList) /\ Ahead(objList, Live)
      BY DEF CoverInv, Whole, IInv, Linked, Live, Known
    <3> QED BY <3>1, <3>2 DEF Known, Ahead, Chained, OffList
  <2>2. CASE cursor # Null
    <3>1. Place' = cursor /\ Place = cursor /\ Remaining' = Remaining /\ UnderWay /\ ~derailed
      BY <1>2, <2>2 DEF ScanStart, MainIdle, Place, UnderWay, Remaining, Live
    <3>2. Known(cursor) /\ Ahead(cursor, Remaining)
      BY <3>1 DEF CoverInv, RoundInv
    <3> QED BY <3>1, <3>2 DEF Known, Ahead, Chained, OffList
  <2> QED BY <2>1, <2>2
<1>3. ASSUME main = "scan", InBatch, ~OffList(ob), ~derailed
      PROVE  /\ ob \in Objects /\ Known(ob) /\ Ahead(ob, Remaining)
             /\ ob \notin destructed /\ InMemory(ob)
  BY <1>t, <1>3 DEF CoverInv, RoundInv, UnderWay, Place, InBatch, Pointers, OffList, BornInv, Out, InMemory
<1>4. CASE ScanDestructed
  <2>1. main = "scan" /\ InBatch /\ ~OffList(ob) /\ ~derailed /\ TRUE \in SeemsDead(ob)
    BY <1>4 DEF ScanDestructed
  <2> QED BY <1>3, <2>1 DEF SeemsDead
<1>5. CASE ScanPass
  <2>1. main = "scan" /\ InBatch /\ ~OffList(ob) /\ ~derailed
    BY <1>5 DEF ScanPass
  <2>2. since' = since /\ visited' = visited \cup {ob} /\ ob' \in NextOf(ob) /\ Place' = ob'
    BY <1>5 DEF ScanPass, Place
  <2>3. /\ NextOf(ob) = {nextAll[ob]}
        /\ \A p : p = nextAll[ob] => Known(p)' /\ Ahead(p, Remaining)'
    BY <1>3, <2>1, <2>2, AheadOfNext DEF CoverInv
  <2>4. PICK p : p = nextAll[ob]
    OBVIOUS
  <2>5. Place' = p /\ Known(p)' /\ Ahead(p, Remaining)'
    BY <2>2, <2>3, <2>4
  <2> QED BY <2>5 DEF Known, Ahead
<1>6. CASE ScanCall
  <2>1. main = "scan" /\ InBatch /\ ~OffList(ob) /\ ~derailed
    BY <1>6 DEF ScanCall
  <2>2. since' = since /\ visited' = visited \cup {ob} /\ next' \in NextOf(ob) /\ Place' = next'
    BY <1>6 DEF ScanCall, Place
  <2>3. /\ NextOf(ob) = {nextAll[ob]}
        /\ \A p : p = nextAll[ob] => Known(p)' /\ Ahead(p, Remaining)'
    BY <1>3, <2>1, <2>2, AheadOfNext DEF CoverInv
  <2>4. PICK p : p = nextAll[ob]
    OBVIOUS
  <2>5. Place' = p /\ Known(p)' /\ Ahead(p, Remaining)'
    BY <2>2, <2>3, <2>4
  <2> QED BY <2>5 DEF Known, Ahead
<1>7. CASE CallReturns \/ ScanEnd
  <2>1. UnderWay /\ Place' = Place /\ since' = since /\ visited' = visited /\ ~derailed
    BY <1>7 DEF CallReturns, ScanEnd, UnderWay, Place, history
  <2>2. PICK p : p = Place
    OBVIOUS
  <2>3. p \in Pointers /\ Known(p) /\ Ahead(p, Remaining)
    BY <1>t, <2>1, <2>2 DEF CoverInv, RoundInv, Place
  <2>4. Known(p)' /\ Ahead(p, Remaining)'
    BY <2>1, <2>3, AheadIsKept DEF CoverInv
  <2>5. Place' = p
    BY <2>1, <2>2
  <2> QED BY <2>4, <2>5 DEF Known, Ahead
<1> QED BY <1>1, <1>2, <1>4, <1>5, <1>6, <1>7 DEF Walks

LEMMA RoundStep == ASSUME IInv, CoverInv, [Next]_vars PROVE RoundInv'
<1>1. CASE Walks
  BY <1>1, RoundWalks
<1>2. CASE ~Walks
  <2> SUFFICES ASSUME UnderWay', ~derailed' PROVE Known(Place)' /\ Ahead(Place, Remaining)'
    BY DEF RoundInv
  <2>1. UnderWay /\ Place' = Place /\ since' = since /\ visited' = visited /\ ~derailed
    BY <1>2, Steps DEF Create, Destruct, Unlink, LinkRead, LinkWrite, SetDestructed, SweepStart,
       SweepStep, SweepEnd, MainIdle, vars, walk, history, UnderWay, Place
  <2>2. PICK p : p = Place
    OBVIOUS
  <2>3. p \in Pointers /\ Known(p) /\ Ahead(p, Remaining)
    BY <2>1, <2>2 DEF CoverInv, RoundInv, Place, IInv, TypeOK
  <2>4. Known(p)' /\ Ahead(p, Remaining)'
    BY <2>1, <2>3, AheadIsKept DEF CoverInv
  <2>5. Place' = p
    BY <2>1, <2>2
  <2> QED BY <2>4, <2>5 DEF Known, Ahead
<1> QED BY <1>1, <1>2

\* However objects come and go, next_all leads from the head of obj_list to every
\* live object, and from the place a round has kept to every one the round has still
\* to come to.
THEOREM ListReachesAll == Spec => [](IInv /\ CoverInv)
<1>1. ASSUME Init PROVE CoverInv
  <2>1. \A o \in Objects : life[o] = IF o = Master THEN "live" ELSE "unborn"
    BY <1>1 DEF Init
  <2>2. Live = {Master}
    BY <2>1, ObjectListAssumption DEF Live
  <2>3. BornInv
    BY <1>1, <2>1 DEF Init, BornInv, Known
  <2>4. Whole
    BY <1>1, <2>2, ObjectListAssumption DEF Init, Whole, Ahead
  <2>5. RoundInv
    BY <1>1 DEF Init, RoundInv, UnderWay
  <2> QED BY <2>3, <2>4, <2>5 DEF CoverInv
<1>2. ASSUME IInv, CoverInv, [Next]_vars PROVE CoverInv'
  BY <1>2, BornStep, WholeStep, RoundStep DEF CoverInv
<1> QED BY <1>1, <1>2, Invariant, PTL DEF Spec

\* A round of resets comes to every object that lived through it, for any objects,
\* threads and batch, and whatever the calls it makes create and destruct, unless it
\* went on from an object that was destructed.
THEOREM RoundsCover == Spec => RoundCovers
<1> DEFINE A == ~roundComplete /\ roundComplete' /\ ~derailed => since \cap Live \subseteq visited
<1>1. IInv /\ CoverInv /\ [Next]_vars => [A]_vars
  <2> SUFFICES ASSUME IInv, CoverInv, [Next]_vars, ~roundComplete, roundComplete', ~derailed
               PROVE  since \cap Live \subseteq visited
    OBVIOUS
  <2>1. ScanEnd
    BY Steps DEF Create, Destruct, Unlink, LinkRead, LinkWrite, SetDestructed, SweepStart,
       SweepStep, SweepEnd, Walks, ScanRest, ScanStart, ScanDestructed, ScanPass, ScanCall,
       CallReturns, vars, walk
  <2>2. main = "scan" /\ ob = Null
    BY <2>1 DEF ScanEnd
  <2>3. Ahead(Null, Remaining)
    BY <2>2 DEF CoverInv, RoundInv, UnderWay, Place
  <2>4. Remaining \subseteq {}
    <3>1. Chained({}) /\ {} \in SUBSET Objects /\ Null \in {} \cup {Null}
      BY DEF Chained
    <3> QED BY <2>3, <3>1 DEF Ahead
  <2> QED BY <2>4 DEF Remaining
<1> QED BY <1>1, ListReachesAll, PTL DEF Spec, RoundCovers
=============================================================================
