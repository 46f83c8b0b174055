---------------------------- MODULE SocketsProofs ----------------------------
(***************************************************************************)
(* Proofs about Sockets, for any slots, objects, bounds and nesting of     *)
(* callbacks.  No descriptor leaks and none is shared, a write that is due *)
(* is armed, and the bytes of a connection go out in order and are not     *)
(* lost: those hold whatever the callbacks end.  What socket_release()     *)
(* answers is true as long as they do not end the socket they are about.   *)
(***************************************************************************)
EXTENDS Sockets, SequenceTheorems, WellFoundedInduction, TLAPS

USE DEF States, Flags, Afterwards

-----------------------------------------------------------------------------
(* The inductive invariant                                                 *)

InUse(r) == r.state # "CLOSED"

\* Only a connection is blocked.
Plausible(r) == r \in Slot /\ ("BLOCKED" \in r.flags => r.state \in {"DATA_XFER", "FLUSHING"})

\* A record that a slot may hold after n sockets were made.
SlotOK(r, n) ==
  /\ Plausible(r)
  /\ IF InUse(r) THEN r.fd \in 1 .. n ELSE r = Cleared
  /\ Flushes(r) => "write" \in r.armed

Descriptors(slots) == {slots[s].fd : s \in {u \in Slots : InUse(slots[u])}}

SlotsInv ==
  /\ made \in 0 .. MaxMade
  /\ sock \in [Slots -> Slot]
  /\ \A s \in Slots : SlotOK(sock[s], made)
  /\ \A s, t \in Slots : InUse(sock[s]) /\ InUse(sock[t]) /\ sock[s].fd = sock[t].fd => s = t
  /\ open = Descriptors(sock)

CallsInv ==
  /\ stack \in Seq(Frame) /\ Len(stack) <= MaxDepth
  /\ destructed \subseteq Objects /\ user \subseteq Objects

SocketsInv == SlotsInv /\ CallsInv

-----------------------------------------------------------------------------
(* One slot at a time                                                      *)

LEMMA ClearedIsOK ==
  Cleared \in Slot /\ ~InUse(Cleared) /\ ~Flushes(Cleared) /\ \A n : SlotOK(Cleared, n)
<1>1. Cleared \in Slot
  BY SocketsAssumption DEF Cleared, Slot
<1> QED BY <1>1 DEF Cleared, InUse, Flushes, SlotOK, Plausible

\* A slot in use gets another record with its descriptor.
LEMMA SlotIsKept ==
  ASSUME SlotsInv, NEW s \in Slots, NEW r, Put(s, r), SlotOK(r, made), InUse(r),
         InUse(sock[s]), r.fd = sock[s].fd, UNCHANGED <<open, made>>
  PROVE  SlotsInv'
<1>1. /\ sock' = [sock EXCEPT ![s] = r] /\ sock' \in [Slots -> Slot] /\ sock'[s] = r
      /\ \A t \in Slots : t # s => sock'[t] = sock[t]
  BY DEF Put, SlotsInv, SlotOK, Plausible
<1>2. \A t \in Slots : sock'[t].fd = sock[t].fd /\ (InUse(sock'[t]) <=> InUse(sock[t]))
  BY <1>1
<1>3. Descriptors(sock') = Descriptors(sock)
  BY <1>2 DEF Descriptors
<1> QED BY <1>1, <1>2, <1>3 DEF SlotsInv

\* A slot is cleared, and the descriptor it had is closed.
LEMMA SlotIsCleared ==
  ASSUME SlotsInv, NEW s \in Slots, Put(s, Cleared), open' = open \ {sock[s].fd}, UNCHANGED made
  PROVE  SlotsInv'
<1>1. /\ sock' = [sock EXCEPT ![s] = Cleared] /\ sock' \in [Slots -> Slot] /\ sock'[s] = Cleared
      /\ \A t \in Slots : t # s => sock'[t] = sock[t]
  BY ClearedIsOK DEF Put, SlotsInv
<1>2. \A t \in Slots : InUse(sock'[t]) <=> t # s /\ InUse(sock[t])
  BY <1>1, ClearedIsOK
<1>3. \A t \in Slots : t # s /\ InUse(sock[t]) => sock[t].fd # sock[s].fd
  <2>1. SUFFICES ASSUME NEW t \in Slots, t # s, InUse(sock[t]), sock[t].fd = sock[s].fd, ~InUse(sock[s])
                 PROVE  FALSE
    BY DEF SlotsInv
  <2>2. sock[s].fd = 0 /\ sock[t].fd \in 1 .. made
    BY <2>1 DEF SlotsInv, SlotOK, Cleared
  <2> QED BY <2>1, <2>2 DEF SlotsInv
<1>4. Descriptors(sock') = Descriptors(sock) \ {sock[s].fd}
  BY <1>1, <1>2, <1>3 DEF Descriptors
<1>5. \A t \in Slots : SlotOK(sock'[t], made)
  BY <1>1, ClearedIsOK DEF SlotsInv
<1> QED BY <1>1, <1>2, <1>4, <1>5 DEF SlotsInv

\* A slot that is closed takes a new socket.
LEMMA SlotIsTaken ==
  ASSUME SlotsInv, NEW s \in Slots, NEW r, Put(s, r), SlotOK(r, made + 1), InUse(r), ~InUse(sock[s]),
         r.fd = made + 1, made' = made + 1, made < MaxMade, open' = open \cup {r.fd}
  PROVE  SlotsInv'
<1>1. /\ sock' = [sock EXCEPT ![s] = r] /\ sock' \in [Slots -> Slot] /\ sock'[s] = r
      /\ \A t \in Slots : t # s => sock'[t] = sock[t]
  BY DEF Put, SlotsInv, SlotOK, Plausible
<1>2. \A t \in Slots : InUse(sock'[t]) <=> t = s \/ InUse(sock[t])
  BY <1>1
<1>3. made \in Nat /\ made' \in 0 .. MaxMade
  BY SocketsAssumption DEF SlotsInv
<1>4. \A t \in Slots : InUse(sock[t]) => sock[t].fd \in 1 .. made /\ sock[t].fd # r.fd
  BY <1>3 DEF SlotsInv, SlotOK
<1>5. \A t \in Slots : SlotOK(sock'[t], made')
  BY <1>1, <1>3 DEF SlotsInv, SlotOK
<1>6. Descriptors(sock') = Descriptors(sock) \cup {r.fd}
  BY <1>1, <1>2 DEF Descriptors
<1> QED BY <1>1, <1>2, <1>3, <1>4, <1>5, <1>6 DEF SlotsInv

\* A record that a handler has made of the one in slot s, not yet stored.
Follows(r, s) == Plausible(r) /\ InUse(r) /\ InUse(sock[s]) /\ r.fd = sock[s].fd

LEMMA FollowsStored ==
  ASSUME SlotsInv, NEW s \in Slots, NEW r, Follows(r, s), Put(s, r), UNCHANGED <<open, made>>,
         Flushes(r) => "write" \in r.armed
  PROVE  SlotsInv'
<1>1. SlotOK(r, made)
  BY DEF SlotsInv, SlotOK, Follows
<1> QED BY <1>1, SlotIsKept DEF Follows

\* What socket_close() does at its end.
LEMMA CloseWorks ==
  ASSUME SlotsInv, NEW s \in Slots, NEW r, r = sock[s] \/ Follows(r, s), CloseNow(s, r),
         Flushes(r) => "write" \in r.armed, UNCHANGED made
  PROVE  SlotsInv'
<1>1. CASE Flushes(r)
  <2> DEFINE left == [r EXCEPT !.state = "FLUSHING", !.ssl = FALSE, !.ctx = FALSE]
  <2>1. Follows(r, s)
    BY <1>1, ClearedIsOK DEF SlotsInv, SlotOK, Follows
  <2>2. /\ left \in Slot /\ left.state = "FLUSHING" /\ left.fd = r.fd
        /\ left.flags = r.flags /\ left.armed = r.armed
    BY <2>1 DEF Follows, Plausible, Slot
  <2>3. Put(s, left) /\ open' = open
    BY <1>1 DEF CloseNow, AfterClose, StillOpen
  <2> HIDE DEF left
  <2>4. Follows(left, s) /\ "write" \in left.armed
    BY <1>1, <2>1, <2>2 DEF Follows, Plausible, InUse
  <2> QED BY <2>3, <2>4, FollowsStored
<1>2. CASE ~Flushes(r)
  <2>1. Put(s, Cleared) /\ open' = open \ {r.fd}
    BY <1>2 DEF CloseNow, AfterClose, StillOpen
  <2> QED BY <2>1, SlotIsCleared DEF Follows
<1> QED BY <1>1, <1>2

\* LPC is called.
LEMMA CallWorks ==
  ASSUME CallsInv, NEW o \in Objects \cup {NoObject}, NEW then \in Afterwards, NEW s \in Slots,
         Call(o, then, s)
  PROVE  stack' \in Seq(Frame) /\ Len(stack') <= MaxDepth
<1> DEFINE f == [obj |-> IF o \in destructed THEN NoObject ELSE o, then |-> then, slot |-> s, took |-> FALSE]
<1>1. f \in Frame
  BY DEF Frame
<1>2. stack' = <<f>> \o stack /\ Len(stack) < MaxDepth
  BY DEF Call, Calling
<1> HIDE DEF f
<1> QED BY <1>1, <1>2, SocketsAssumption DEF CallsInv

CallsStay == stack' \in Seq(Frame) /\ Len(stack') <= MaxDepth

LEMMA FailWorks ==
  ASSUME SocketsInv, NEW s \in Slots, NEW r, Follows(r, s), Fail(s, r), UNCHANGED made
  PROVE  SlotsInv' /\ CallsStay
<1> DEFINE dead == [r EXCEPT !.flags = @ \cup {"LINKDEAD"}]
<1>1. /\ dead \in Slot /\ dead.state = r.state /\ dead.fd = r.fd /\ ~Flushes(dead)
      /\ dead.flags = r.flags \cup {"LINKDEAD"}
  BY DEF Follows, Plausible, Slot, Flushes
<1>2. \/ CloseNow(s, dead) /\ UNCHANGED stack
      \/ Put(s, dead) /\ Call(r.owner, "close", s) /\ UNCHANGED open
  BY DEF Fail
<1> HIDE DEF dead
<1>3. Follows(dead, s) /\ r.owner \in Objects \cup {NoObject}
  BY <1>1 DEF Follows, Plausible, InUse, Slot
<1>4. CASE CloseNow(s, dead) /\ UNCHANGED stack
  BY <1>1, <1>3, <1>4, CloseWorks DEF SocketsInv, CallsInv, CallsStay
<1>5. CASE Put(s, dead) /\ Call(r.owner, "close", s) /\ UNCHANGED open
  BY <1>1, <1>3, <1>5, FollowsStored, CallWorks DEF SocketsInv, CallsStay
<1> QED BY <1>2, <1>4, <1>5

LEMMA UnblockedWorks ==
  ASSUME SocketsInv, NEW s \in Slots, NEW r, Follows(r, s), Unblocked(s, r), UNCHANGED made
  PROVE  SlotsInv' /\ CallsStay
<1> DEFINE free == [r EXCEPT !.flags = @ \ {"BLOCKED"}, !.woff = 0]
<1>1. /\ free \in Slot /\ free.state = r.state /\ free.fd = r.fd /\ ~Flushes(free)
      /\ "BLOCKED" \notin free.flags
  <2>1. r \in Slot
    BY DEF Follows, Plausible
  <2>2. free.state = r.state /\ free.fd = r.fd /\ free.flags = r.flags \ {"BLOCKED"}
    BY <2>1 DEF Slot
  <2>3. [r EXCEPT !.flags = @ \ {"BLOCKED"}] \in Slot
    BY <2>1 DEF Slot
  <2>4. \A q \in Slot : [q EXCEPT !.woff = 0] \in Slot
    BY DEF Slot
  <2>5. free = [[r EXCEPT !.flags = @ \ {"BLOCKED"}] EXCEPT !.woff = 0]
    BY <2>1 DEF Slot
  <2> QED BY <2>2, <2>3, <2>4, <2>5 DEF Flushes
<1>2. \/ CloseNow(s, free) /\ UNCHANGED stack
      \/ Put(s, free) /\ Call(r.owner, "written", s) /\ UNCHANGED open
  BY DEF Unblocked
<1> HIDE DEF free
<1>3. Follows(free, s) /\ r.owner \in Objects \cup {NoObject}
  BY <1>1 DEF Follows, Plausible, InUse, Slot
<1>4. CASE CloseNow(s, free) /\ UNCHANGED stack
  BY <1>1, <1>3, <1>4, CloseWorks DEF SocketsInv, CallsInv, CallsStay
<1>5. CASE Put(s, free) /\ Call(r.owner, "written", s) /\ UNCHANGED open
  BY <1>1, <1>3, <1>5, FollowsStored, CallWorks DEF SocketsInv, CallsStay
<1> QED BY <1>2, <1>4, <1>5

\* A record with its write event armed.
LEMMA ArmedFollows ==
  ASSUME NEW s \in Slots, NEW r, Follows(r, s), NEW armed \in SUBSET {"read", "write"}
  PROVE  /\ Follows([r EXCEPT !.armed = armed], s) /\ [r EXCEPT !.armed = armed].armed = armed
         /\ Flushes([r EXCEPT !.armed = armed]) <=> Flushes(r)
BY DEF Follows, Plausible, InUse, Slot, Flushes

LEMMA WriteHandlerWorks ==
  ASSUME SocketsInv, NEW s \in Slots, NEW r, Follows(r, s), WriteHandler(s, r), UNCHANGED made
  PROVE  SlotsInv' /\ CallsStay
<1>0. UNCHANGED stack => CallsStay
  BY DEF SocketsInv, CallsInv, CallsStay
<1> DEFINE again(q) == [q EXCEPT !.armed = @ \cup {"write"}]
<1>1. ASSUME NEW q, Follows(q, s), Put(s, again(q)), UNCHANGED <<open, stack>> PROVE SlotsInv' /\ CallsStay
  <2>1. /\ Follows(again(q), s) /\ "write" \in again(q).armed
    BY <1>1 DEF Follows, Plausible, InUse, Slot
  <2> HIDE DEF again
  <2> QED BY <1>0, <1>1, <2>1, FollowsStored DEF SocketsInv
<1>2. CASE ~Flushes(r) /\ Put(s, r) /\ UNCHANGED <<open, stack, log>>
  BY <1>0, <1>2, FollowsStored DEF SocketsInv
<1>3. CASE Flushes(r) /\ Fail(s, r)
  BY <1>3, FailWorks
<1>4. CASE Put(s, again(r)) /\ UNCHANGED <<open, stack, log>>
  BY <1>1, <1>4
<1>5. ASSUME NEW k \in 1 .. r.wlen,
             LET rest == [r EXCEPT !.woff = @ + k, !.wlen = @ - k] IN
             IF rest.wlen = 0 THEN Unblocked(s, rest)
             ELSE Put(s, again(rest)) /\ UNCHANGED <<open, stack>>
      PROVE  SlotsInv' /\ CallsStay
  <2> DEFINE rest == [r EXCEPT !.woff = @ + k, !.wlen = @ - k]
  <2>1. r.wlen \in Nat /\ r.woff \in Int /\ r.wlen - k \in Nat /\ r.woff + k \in Int
    BY DEF Follows, Plausible, Slot
  <2>2. Follows(rest, s)
    BY <2>1 DEF Follows, Plausible, InUse, Slot
  <2>3. Unblocked(s, rest) \/ (Put(s, again(rest)) /\ UNCHANGED <<open, stack>>)
    BY <1>5
  <2> HIDE DEF rest, again
  <2> QED BY <1>1, <2>2, <2>3, UnblockedWorks
<1>6. CASE Flushes(r) /\ r.wlen = 0 /\ Unblocked(s, r) /\ UNCHANGED log
  BY <1>6, UnblockedWorks
<1>7. CASE CloseNow(s, [r EXCEPT !.flags = @ \cup {"LINKDEAD"}]) /\ UNCHANGED <<stack, log>>
  <2> DEFINE dead == [r EXCEPT !.flags = @ \cup {"LINKDEAD"}]
  <2>1. Follows(dead, s) /\ ~Flushes(dead)
    BY DEF Follows, Plausible, InUse, Slot, Flushes
  <2> HIDE DEF dead
  <2> QED BY <1>0, <1>7, <2>1, CloseWorks DEF SocketsInv, dead
<1> HIDE DEF again
<1> QED BY <1>2, <1>3, <1>4, <1>5, <1>6, <1>7 DEF WriteHandler, again

LEMMA HandshakeWorks ==
  ASSUME SocketsInv, NEW s \in Slots, NEW r, Follows(r, s), r.state = "HANDSHAKE", Handshake(s, r),
         UNCHANGED made
  PROVE  SlotsInv' /\ CallsStay
<1>0. ~Flushes(r)
  BY DEF Follows, Plausible, Flushes
<1>1. ASSUME NEW armed \in {r.armed, r.armed \cup {"write"}}, Put(s, [r EXCEPT !.armed = armed]),
             UNCHANGED <<open, stack>>
      PROVE  SlotsInv' /\ CallsStay
  <2>1. armed \in SUBSET {"read", "write"}
    BY DEF Follows, Plausible, Slot
  <2>2. Follows([r EXCEPT !.armed = armed], s) /\ ~Flushes([r EXCEPT !.armed = armed])
    BY <1>0, <2>1, ArmedFollows
  <2> QED BY <1>1, <2>2, FollowsStored DEF SocketsInv, CallsInv, CallsStay
<1>2. CASE WriteHandler(s, [r EXCEPT !.state = "DATA_XFER", !.flags = @ \cup {"BLOCKED"},
                                     !.armed = @ \cup {"write"}])
  <2> DEFINE up == [r EXCEPT !.state = "DATA_XFER", !.flags = @ \cup {"BLOCKED"},
                             !.armed = @ \cup {"write"}]
  <2>1. Follows(up, s)
    BY DEF Follows, Plausible, InUse, Slot
  <2> HIDE DEF up
  <2> QED BY <1>2, <2>1, WriteHandlerWorks DEF up
<1>3. CASE CloseNow(s, [r EXCEPT !.flags = @ \ {"BLOCKED"}]) /\ UNCHANGED <<stack, log>>
  <2> DEFINE free == [r EXCEPT !.flags = @ \ {"BLOCKED"}]
  <2>1. Follows(free, s) /\ ~Flushes(free)
    BY DEF Follows, Plausible, InUse, Slot, Flushes
  <2> HIDE DEF free
  <2> QED BY <1>3, <2>1, CloseWorks DEF SocketsInv, CallsInv, CallsStay, free
<1> QED BY <1>1, <1>2, <1>3 DEF Handshake

-----------------------------------------------------------------------------
(* The efuns                                                               *)

\* A slot in use, as it is.
LEMMA SlotFollows ==
  ASSUME SlotsInv, NEW s \in Slots, InUse(sock[s])
  PROVE  Follows(sock[s], s) /\ sock[s] \in Slot /\ (Flushes(sock[s]) => "write" \in sock[s].armed)
BY DEF SlotsInv, SlotOK, Follows, Plausible

LEMMA LiveIsInUse ==
  ASSUME NEW s, Live(s) PROVE InUse(sock[s]) /\ sock[s].state # "FLUSHING"
BY DEF Live, InUse

LEMMA StackStays ==
  ASSUME SocketsInv, UNCHANGED stack PROVE CallsStay
BY DEF SocketsInv, CallsInv, CallsStay

LEMMA SlotsStay ==
  ASSUME SlotsInv, UNCHANGED <<sock, open, made>> PROVE SlotsInv'
BY DEF SlotsInv

\* The parts of the invariant that a step restores.
LEMMA Together ==
  ASSUME SlotsInv', CallsStay, destructed' \subseteq Objects, user' \subseteq Objects
  PROVE  SocketsInv'
BY DEF SocketsInv, CallsInv, CallsStay

LEMMA CommandStep ==
  ASSUME SocketsInv, NEW o \in Objects, Command(o) PROVE SocketsInv'
<1> DEFINE s == CHOOSE t \in Slots : TRUE
           f == [obj |-> o, then |-> "return", slot |-> s, took |-> FALSE]
<1>1. s \in Slots
  BY SocketsAssumption
<1> HIDE DEF s
<1>2. f \in Frame
  BY <1>1 DEF Frame
<1>3. /\ stack = <<>> /\ stack' = <<f>> \o stack
      /\ UNCHANGED <<sock, open, made, destructed, user>>
  BY DEF Command, Calling, s
<1> HIDE DEF f
<1>4. CallsStay
  BY <1>2, <1>3, SocketsAssumption DEF CallsStay
<1> QED BY <1>3, <1>4, SlotsStay, Together DEF SocketsInv, CallsInv

LEMMA NewSockIsOK ==
  ASSUME SlotsInv, NEW o \in Objects, NEW m \in {"STREAM", "DATAGRAM", "TLS"},
         NEW state \in {"UNBOUND", "DATA_XFER", "HANDSHAKE"}, NEW armed \in SUBSET {"read", "write"},
         made < MaxMade
  PROVE  LET r == NewSock(o, m, state, armed) IN
         SlotOK(r, made + 1) /\ InUse(r) /\ r.fd = made + 1 /\ r.owner = o
<1> DEFINE r == NewSock(o, m, state, armed)
<1>1. made + 1 \in 0 .. MaxMade /\ made + 1 \in 1 .. made + 1
  BY SocketsAssumption DEF SlotsInv
<1>2. PICK ssl \in BOOLEAN : ssl = (m = "TLS" /\ state = "HANDSHAKE")
  OBVIOUS
<1>3. r = [Cleared EXCEPT !.state = state, !.fd = made + 1, !.mode = m, !.owner = o,
                          !.armed = armed, !.ssl = ssl]
  BY <1>2, Zenon DEF NewSock
<1> HIDE DEF r
<1>4. r \in Slot /\ r.state = state /\ r.fd = made + 1 /\ r.owner = o /\ r.flags = Cleared.flags
  BY <1>1, <1>3, ClearedIsOK DEF Slot
<1>5. "BLOCKED" \notin r.flags
  BY <1>4 DEF Cleared
<1> QED BY <1>1, <1>4, <1>5 DEF SlotOK, Plausible, InUse, Flushes, r

LEMMA SocketCreateStep ==
  ASSUME SocketsInv, NEW o \in Objects, NEW m \in Modes, SocketCreate(o, m) PROVE SocketsInv'
<1> DEFINE r == NewSock(o, m, "UNBOUND", {})
<1>1. m \in {"STREAM", "DATAGRAM", "TLS"}
  BY SocketsAssumption
<1>2. made < MaxMade /\ Made(r) /\ UNCHANGED <<stack, destructed>>
  BY DEF SocketCreate
<1>3. PICK s \in Slots : sock[s].state = "CLOSED" /\ Put(s, r)
  BY DEF SocketCreate, IsNewSlot
<1>4. SlotOK(r, made + 1) /\ InUse(r) /\ r.fd = made + 1 /\ r.owner = o
  BY <1>1, <1>2, NewSockIsOK DEF SocketsInv
<1> HIDE DEF r
<1>5. made' = made + 1 /\ open' = open \cup {r.fd} /\ user' = user \cup {o}
  BY <1>2, <1>4 DEF Made
<1>6. SlotsInv'
  BY <1>2, <1>3, <1>4, <1>5, SlotIsTaken DEF SocketsInv, InUse
<1> QED BY <1>2, <1>5, <1>6, StackStays, Together DEF SocketsInv, CallsInv

LEMMA SocketAcceptStep ==
  ASSUME SocketsInv, NEW o \in Objects, NEW s \in Slots, SocketAccept(o, s) PROVE SocketsInv'
<1> DEFINE m == sock[s].mode
           state == IF m = "TLS" THEN "HANDSHAKE" ELSE "DATA_XFER"
           r == NewSock(o, m, state, {"read", "write"})
<1>1. m \in {"STREAM", "DATAGRAM", "TLS"}
  BY DEF SocketsInv, SlotsInv, Slot
<1>2. made < MaxMade /\ Made(r) /\ UNCHANGED <<stack, destructed>>
  BY DEF SocketAccept
<1>3. PICK new \in Slots : sock[new].state = "CLOSED" /\ Put(new, r)
  BY DEF SocketAccept, IsNewSlot
<1> HIDE DEF m
<1>4. SlotOK(r, made + 1) /\ InUse(r) /\ r.fd = made + 1 /\ r.owner = o
  BY <1>1, <1>2, NewSockIsOK DEF SocketsInv
<1> HIDE DEF r
<1>5. made' = made + 1 /\ open' = open \cup {r.fd} /\ user' = user \cup {o}
  BY <1>2, <1>4 DEF Made
<1>6. SlotsInv'
  BY <1>2, <1>3, <1>4, <1>5, SlotIsTaken DEF SocketsInv, InUse
<1> QED BY <1>2, <1>5, <1>6, StackStays, Together DEF SocketsInv, CallsInv

LEMMA SocketBindStep ==
  ASSUME SocketsInv, NEW o \in Objects, NEW s \in Slots, SocketBind(o, s) PROVE SocketsInv'
<1> DEFINE armed == IF sock[s].mode = "DATAGRAM" THEN {"read"} ELSE {}
           r == [sock[s] EXCEPT !.state = "BOUND", !.armed = armed]
<1>1. /\ sock[s].state = "UNBOUND" /\ Put(s, r)
      /\ UNCHANGED <<open, made, stack, destructed, user>>
  BY DEF SocketBind
<1>2. Follows(sock[s], s)
  BY <1>1, SlotFollows DEF SocketsInv, InUse
<1>3. Follows(r, s) /\ ~Flushes(r)
  BY <1>1, <1>2 DEF Follows, Plausible, InUse, Slot, Flushes
<1> HIDE DEF r
<1> QED BY <1>1, <1>3, FollowsStored, StackStays, Together DEF SocketsInv, CallsInv

LEMMA SocketListenStep ==
  ASSUME SocketsInv, NEW o \in Objects, NEW s \in Slots, SocketListen(o, s) PROVE SocketsInv'
<1>1. /\ sock[s].state = "BOUND" /\ user' = user \cup {o}
      /\ UNCHANGED <<open, made, stack, destructed>>
  BY DEF SocketListen
<1>2. PICK ctx \in BOOLEAN : Put(s, [sock[s] EXCEPT !.state = "LISTEN", !.armed = {"read"}, !.ctx = ctx])
  BY DEF SocketListen
<1> DEFINE r == [sock[s] EXCEPT !.state = "LISTEN", !.armed = {"read"}, !.ctx = ctx]
<1>3. Follows(sock[s], s)
  BY <1>1, SlotFollows DEF SocketsInv, InUse
<1>4. Follows(r, s) /\ ~Flushes(r)
  BY <1>1, <1>3 DEF Follows, Plausible, InUse, Slot, Flushes
<1>5. Put(s, r)
  BY <1>2
<1> HIDE DEF r
<1> QED BY <1>1, <1>4, <1>5, FollowsStored, StackStays, Together DEF SocketsInv, CallsInv

LEMMA SocketConnectStep ==
  ASSUME SocketsInv, NEW o \in Objects, NEW s \in Slots, SocketConnect(o, s) PROVE SocketsInv'
<1> DEFINE r == [sock[s] EXCEPT !.armed = {"read", "write"}]
           secure == [r EXCEPT !.state = "HANDSHAKE", !.ssl = TRUE, !.ctx = TRUE]
           plain == [r EXCEPT !.state = "DATA_XFER", !.flags = @ \cup {"BLOCKED"}]
<1>1. /\ sock[s].state \in {"UNBOUND", "BOUND"} /\ user' = user \cup {o}
      /\ UNCHANGED <<made, destructed>>
      /\ Handshake(s, secure) \/ (Put(s, plain) /\ UNCHANGED <<open, stack>>)
  BY DEF SocketConnect
<1>2. Follows(sock[s], s)
  BY <1>1, SlotFollows DEF SocketsInv, InUse
<1>3. Follows(secure, s) /\ secure.state = "HANDSHAKE"
  BY <1>1, <1>2 DEF Follows, Plausible, InUse, Slot
<1>4. Follows(plain, s) /\ "write" \in plain.armed
  BY <1>1, <1>2 DEF Follows, Plausible, InUse, Slot
<1> HIDE DEF secure, plain
<1>5. SlotsInv' /\ CallsStay
  BY <1>1, <1>3, <1>4, HandshakeWorks, FollowsStored, StackStays DEF SocketsInv
<1> QED BY <1>1, <1>5, Together DEF SocketsInv, CallsInv

LEMMA SocketWriteStep ==
  ASSUME SocketsInv, NEW o \in Objects, NEW s \in Slots, NEW n \in 1 .. MaxBytes, SocketWrite(o, s, n)
  PROVE  SocketsInv'
<1>1. sock[s].state = "DATA_XFER" /\ UNCHANGED <<made, destructed, user>>
  BY DEF SocketWrite
<1>2. Follows(sock[s], s) /\ (Flushes(sock[s]) => "write" \in sock[s].armed)
  BY <1>1, SlotFollows DEF SocketsInv, InUse
<1>3. CASE Fail(s, sock[s])
  BY <1>1, <1>2, <1>3, FailWorks, Together DEF SocketsInv, CallsInv
<1>4. ASSUME NEW off \in {-1} \cup 1 .. n, Put(s, Queue(sock[s], n, off)), UNCHANGED <<open, stack>>
      PROVE  SocketsInv'
  <2> DEFINE q == Queue(sock[s], n, off)
  <2>1. n \in Nat /\ off \in Int /\ n - off \in Nat
    BY SocketsAssumption
  <2>2. Follows(q, s) /\ (Flushes(q) => "write" \in q.armed)
    <3>1. CASE off = n
      BY <1>2, <3>1 DEF Queue
    <3>2. CASE off # n
      <4>1. q = [sock[s] EXCEPT !.flags = @ \cup {"BLOCKED"}, !.woff = off, !.wlen = n - off,
                                !.armed = @ \cup {"write"}]
        BY <3>2 DEF Queue
      <4> HIDE DEF q
      <4> QED BY <1>1, <1>2, <2>1, <4>1 DEF Follows, Plausible, InUse, Slot
    <3> QED BY <3>1, <3>2
  <2> HIDE DEF q
  <2>3. SlotsInv'
    BY <1>1, <1>4, <2>2, FollowsStored DEF SocketsInv, q
  <2> QED BY <1>1, <1>4, <2>3, StackStays, Together DEF SocketsInv, CallsInv
<1>5. \A off \in (IF sock[s].mode = "TLS" THEN {-1, n} ELSE 1 .. n) : off \in {-1} \cup 1 .. n
  BY SocketsAssumption
<1>6. \/ Fail(s, sock[s])
      \/ \E off \in (IF sock[s].mode = "TLS" THEN {-1, n} ELSE 1 .. n) :
           Put(s, Queue(sock[s], n, off)) /\ UNCHANGED <<open, stack>>
  BY Zenon DEF SocketWrite
<1> QED BY <1>3, <1>4, <1>5, <1>6

LEMMA SocketCloseStep ==
  ASSUME SocketsInv, NEW o \in Objects, NEW s \in Slots, SocketClose(o, s) PROVE SocketsInv'
<1>1. CloseNow(s, sock[s]) /\ Live(s) /\ UNCHANGED <<made, stack, destructed, user>>
  BY DEF SocketClose, Owns
<1>2. SlotsInv'
  BY <1>1, LiveIsInUse, SlotFollows, CloseWorks DEF SocketsInv
<1> QED BY <1>1, <1>2, StackStays, Together DEF SocketsInv, CallsInv

LEMMA SocketReleaseStep ==
  ASSUME SocketsInv, NEW o \in Objects, NEW s \in Slots, NEW t \in Objects, SocketRelease(o, s, t)
  PROVE  SocketsInv'
<1> DEFINE r == [sock[s] EXCEPT !.flags = @ \cup {"RELEASE"}, !.rel = t]
<1>1. Live(s) /\ Put(s, r) /\ Call(t, "release", s) /\ UNCHANGED <<open, made, destructed, user>>
  BY DEF SocketRelease, Owns
<1>2. Follows(sock[s], s) /\ (Flushes(sock[s]) => "write" \in sock[s].armed)
  BY <1>1, LiveIsInUse, SlotFollows DEF SocketsInv
<1>3. Follows(r, s) /\ (Flushes(r) => "write" \in r.armed)
  BY <1>2 DEF Follows, Plausible, InUse, Slot, Flushes
<1> HIDE DEF r
<1>4. SlotsInv' /\ CallsStay
  BY <1>1, <1>3, FollowsStored, CallWorks DEF SocketsInv, CallsStay
<1> QED BY <1>1, <1>4, Together DEF SocketsInv, CallsInv

LEMMA SocketAcquireStep ==
  ASSUME SocketsInv, NEW o \in Objects, NEW s \in Slots, SocketAcquire(o, s) PROVE SocketsInv'
<1> DEFINE r == [sock[s] EXCEPT !.flags = @ \ {"RELEASE"}, !.owner = o, !.rel = NoObject]
           i == Releasing(s)
<1>1. /\ Live(s) /\ Put(s, r) /\ stack' = [stack EXCEPT ![i].took = TRUE]
      /\ UNCHANGED <<open, made, destructed, user>>
  BY DEF SocketAcquire
<1>2. Follows(sock[s], s) /\ (Flushes(sock[s]) => "write" \in sock[s].armed)
  BY <1>1, LiveIsInUse, SlotFollows DEF SocketsInv
<1>3. Follows(r, s) /\ (Flushes(r) => "write" \in r.armed)
  BY <1>2 DEF Follows, Plausible, InUse, Slot, Flushes
<1> HIDE DEF r, i
<1>4. SlotsInv'
  BY <1>1, <1>3, FollowsStored DEF SocketsInv
<1>5. stack \in Seq(Frame) /\ Len(stack) <= MaxDepth
  BY DEF SocketsInv, CallsInv
<1>6. \A f \in Frame : [f EXCEPT !.took = TRUE] \in Frame
  BY DEF Frame
<1>7. stack' \in Seq(Frame) /\ Len(stack') = Len(stack)
  <2>1. CASE i \in 1 .. Len(stack)
    BY <1>1, <1>5, <1>6, <2>1
  <2>2. CASE i \notin 1 .. Len(stack)
    <3>1. stack' = stack
      BY <1>1, <1>5, <2>2
    <3> QED BY <1>5, <3>1
  <2> QED BY <2>1, <2>2
<1> QED BY <1>1, <1>4, <1>5, <1>7, Together DEF SocketsInv, CallsInv, CallsStay

\* What close_referencing_sockets() leaves of a slot in use.
LEMMA ClosedIsOK ==
  ASSUME SlotsInv, NEW s \in Slots, InUse(sock[s])
  PROVE  /\ SlotOK(AfterClose(sock[s]), made)
         /\ InUse(AfterClose(sock[s])) <=> Flushes(sock[s])
         /\ Flushes(sock[s]) => AfterClose(sock[s]).fd = sock[s].fd
<1>1. CASE Flushes(sock[s])
  <2> DEFINE left == [sock[s] EXCEPT !.state = "FLUSHING", !.ssl = FALSE, !.ctx = FALSE]
  <2>1. SlotOK(sock[s], made) /\ sock[s] \in Slot
    BY DEF SlotsInv
  <2>2. /\ left \in Slot /\ left.state = "FLUSHING" /\ left.fd = sock[s].fd
        /\ left.flags = sock[s].flags /\ left.armed = sock[s].armed
    BY <2>1 DEF Slot
  <2>3. AfterClose(sock[s]) = left
    BY <1>1 DEF AfterClose
  <2> HIDE DEF left
  <2> QED BY <1>1, <2>1, <2>2, <2>3 DEF SlotOK, Plausible, InUse
<1>2. CASE ~Flushes(sock[s])
  BY <1>2, ClearedIsOK DEF AfterClose
<1> QED BY <1>1, <1>2

LEMMA DestructStep ==
  ASSUME SocketsInv, NEW o \in Objects, NEW t \in Objects, Destruct(o, t) PROVE SocketsInv'
<1> DEFINE R == Referencing(t)
           Left(s) == s \in R => Flushes(sock[s])
<1>1. /\ destructed' = destructed \cup {t} /\ UNCHANGED <<made, stack, user>>
      /\ sock' = [s \in Slots |-> IF s \in R THEN AfterClose(sock[s]) ELSE sock[s]]
      /\ open' = {i \in open : \A s \in R : i \in StillOpen(sock[s])}
  BY DEF Destruct
<1>2. SlotsInv /\ R \subseteq Slots /\ \A s \in R : InUse(sock[s])
  BY LiveIsInUse DEF SocketsInv, Referencing
<1> HIDE DEF R
<1>3. \A s \in Slots : /\ SlotOK(sock'[s], made) /\ sock'[s] \in Slot
                       /\ InUse(sock'[s]) <=> InUse(sock[s]) /\ Left(s)
                       /\ InUse(sock'[s]) => sock'[s].fd = sock[s].fd
  <2>1. ASSUME NEW s \in Slots
        PROVE  /\ SlotOK(sock'[s], made)
               /\ InUse(sock'[s]) <=> InUse(sock[s]) /\ Left(s)
               /\ InUse(sock'[s]) => sock'[s].fd = sock[s].fd
    <3>1. CASE s \in R
      BY <1>1, <1>2, <3>1, ClosedIsOK
    <3>2. CASE s \notin R
      BY <1>1, <1>2, <3>2 DEF SlotsInv
    <3> QED BY <3>1, <3>2
  <2> QED BY <2>1 DEF SlotOK, Plausible
<1>4. open' = Descriptors(sock')
  <2>1. open' = {i \in open : \A s \in R : Flushes(sock[s]) \/ i # sock[s].fd}
    BY <1>1 DEF StillOpen
  <2>2. ASSUME NEW i \in open' PROVE i \in Descriptors(sock')
    <3>1. PICK s \in Slots : InUse(sock[s]) /\ i = sock[s].fd
      BY <1>2, <2>1, <2>2 DEF SlotsInv, Descriptors
    <3>2. InUse(sock'[s]) /\ i = sock'[s].fd
      BY <1>3, <2>1, <2>2, <3>1
    <3> QED BY <3>2 DEF Descriptors
  <2>3. ASSUME NEW i \in Descriptors(sock') PROVE i \in open'
    <3>1. PICK s \in Slots : InUse(sock'[s]) /\ i = sock'[s].fd
      BY <2>3 DEF Descriptors
    <3>2. InUse(sock[s]) /\ i = sock[s].fd /\ Left(s)
      BY <1>3, <3>1
    <3>3. i \in open
      BY <1>2, <3>2 DEF SlotsInv, Descriptors
    <3>4. \A r \in R : i = sock[r].fd => r = s
      BY <1>2, <3>2 DEF SlotsInv
    <3> QED BY <2>1, <3>2, <3>3, <3>4
  <2> QED BY <2>2, <2>3
<1>5. SlotsInv'
  <2>1. sock' \in [Slots -> Slot]
    BY <1>1, <1>3
  <2>2. \A s, u \in Slots : InUse(sock'[s]) /\ InUse(sock'[u]) /\ sock'[s].fd = sock'[u].fd => s = u
    BY <1>2, <1>3 DEF SlotsInv
  <2> QED BY <1>1, <1>2, <1>3, <1>4, <2>1, <2>2 DEF SlotsInv
<1> QED BY <1>1, <1>5, StackStays, Together DEF SocketsInv, CallsInv

-----------------------------------------------------------------------------
(* Returns and events                                                      *)

\* A slot whose record is stored as it is.
LEMMA SameIsStored ==
  ASSUME SlotsInv, NEW s \in Slots, Put(s, sock[s]), UNCHANGED <<open, made>> PROVE SlotsInv'
<1>1. sock' = sock
  BY DEF Put, SlotsInv
<1> QED BY <1>1, SlotsStay

LEMMA ReturnStep ==
  ASSUME SocketsInv, Return PROVE SocketsInv'
<1> DEFINE s == Head(stack).slot
           then == Head(stack).then
           armed == [sock[s] EXCEPT !.armed = @ \cup {"write"}]
           unset == [sock[s] EXCEPT !.flags = @ \ {"RELEASE"}, !.rel = NoObject]
<1>1. stack # <<>> /\ stack' = Tail(stack) /\ UNCHANGED <<made, destructed, user>>
  BY DEF Return
<1>2. Head(stack) \in Frame /\ CallsStay
  <2>1. stack \in Seq(Frame) /\ Len(stack) <= MaxDepth
    BY DEF SocketsInv, CallsInv
  <2>2. Head(stack) \in Frame /\ Tail(stack) \in Seq(Frame) /\ Len(Tail(stack)) = Len(stack) - 1
    BY <1>1, <2>1
  <2> QED BY <1>1, <2>1, <2>2, SocketsAssumption DEF CallsStay
<1>3. s \in Slots /\ then \in {"return", "close", "release", "written"}
  BY <1>2 DEF Frame
<1>4. /\ then = "return" => UNCHANGED <<sock, open>>
      /\ then = "close" => CloseNow(s, sock[s])
      /\ then = "written" => Put(s, IF sock[s].wlen = 0 THEN sock[s] ELSE armed) /\ UNCHANGED open
      /\ then = "release" => Put(s, IF Succeeded(s) THEN sock[s] ELSE unset) /\ UNCHANGED open
  BY <1>3 DEF Return
<1>5. Head(stack).slot \in Slots
  BY <1>3
<1> HIDE DEF s, then
<1>6. SlotsInv /\ SlotOK(sock[s], made) /\ sock[s] \in Slot
  BY <1>3 DEF SocketsInv, SlotsInv
<1>7. ASSUME then = "return" PROVE SlotsInv'
  BY <1>1, <1>4, <1>6, <1>7, SlotsStay
<1>8. ASSUME then = "close" PROVE SlotsInv'
  <2>1. Flushes(sock[s]) => "write" \in sock[s].armed
    BY <1>6 DEF SlotOK
  <2> QED BY <1>1, <1>3, <1>4, <1>6, <1>8, <2>1, CloseWorks
<1>9. ASSUME then = "written" PROVE SlotsInv'
  <2>1. CASE sock[s].wlen = 0
    BY <1>1, <1>3, <1>4, <1>6, <1>9, <2>1, SameIsStored
  <2>2. CASE sock[s].wlen # 0
    <3>1. InUse(sock[s])
      BY <1>6, <2>2 DEF SlotOK, Cleared
    <3>2. Follows(sock[s], s)
      BY <1>3, <1>6, <3>1, SlotFollows
    <3>3. Follows(armed, s) /\ "write" \in armed.armed
      BY <3>2 DEF Follows, Plausible, InUse, Slot
    <3>4. Put(s, armed) /\ UNCHANGED open
      BY <1>4, <1>9, <2>2
    <3> HIDE DEF armed
    <3> QED BY <1>1, <1>3, <1>6, <3>3, <3>4, FollowsStored
  <2> QED BY <2>1, <2>2
<1>10. ASSUME then = "release" PROVE SlotsInv'
  <2>1. CASE Succeeded(s)
    BY <1>1, <1>3, <1>4, <1>6, <1>10, <2>1, SameIsStored
  <2>2. CASE ~Succeeded(s)
    <3>1. InUse(sock[s])
      BY <1>6, <2>2 DEF SlotOK, Cleared, Succeeded
    <3>2. Follows(sock[s], s) /\ (Flushes(sock[s]) => "write" \in sock[s].armed)
      BY <1>3, <1>6, <3>1, SlotFollows
    <3>3. Follows(unset, s) /\ (Flushes(unset) => "write" \in unset.armed)
      BY <3>2 DEF Follows, Plausible, InUse, Slot, Flushes
    <3>4. Put(s, unset) /\ UNCHANGED open
      BY <1>4, <1>10, <2>2
    <3> HIDE DEF unset
    <3> QED BY <1>1, <1>3, <1>6, <3>3, <3>4, FollowsStored
  <2> QED BY <2>1, <2>2
<1>11. SlotsInv'
  BY <1>3, <1>7, <1>8, <1>9, <1>10
<1> QED BY <1>1, <1>2, <1>11, Together DEF SocketsInv, CallsInv

LEMMA ReadEventStep ==
  ASSUME SocketsInv, NEW s \in Slots, ReadEvent(s) PROVE SocketsInv'
<1>1. "read" \in sock[s].armed /\ UNCHANGED <<made, destructed, user>>
  BY DEF ReadEvent
<1>2. InUse(sock[s])
  BY <1>1 DEF SocketsInv, SlotsInv, SlotOK, Cleared
<1>3. Follows(sock[s], s) /\ sock[s].owner \in Objects \cup {NoObject}
  BY <1>2, SlotFollows DEF SocketsInv, Slot
<1>4. \/ sock[s].state = "HANDSHAKE" /\ Handshake(s, sock[s])
      \/ UNCHANGED <<sock, open, stack>>
      \/ Call(sock[s].owner, "return", s) /\ UNCHANGED <<sock, open>>
      \/ Fail(s, sock[s])
  BY DEF ReadEvent
<1>5. SlotsInv' /\ CallsStay
  <2>1. CASE sock[s].state = "HANDSHAKE" /\ Handshake(s, sock[s])
    BY <1>1, <1>3, <2>1, HandshakeWorks
  <2>2. CASE UNCHANGED <<sock, open, stack>>
    BY <1>1, <2>2, SlotsStay, StackStays DEF SocketsInv
  <2>3. CASE Call(sock[s].owner, "return", s) /\ UNCHANGED <<sock, open>>
    BY <1>1, <1>3, <2>3, SlotsStay, CallWorks DEF SocketsInv, CallsStay
  <2>4. CASE Fail(s, sock[s])
    BY <1>1, <1>3, <2>4, FailWorks
  <2> QED BY <1>4, <2>1, <2>2, <2>3, <2>4
<1> QED BY <1>1, <1>5, Together DEF SocketsInv, CallsInv

LEMMA WriteEventStep ==
  ASSUME SocketsInv, NEW s \in Slots, WriteEvent(s) PROVE SocketsInv'
<1> DEFINE r == [sock[s] EXCEPT !.armed = @ \ {"write"}]
<1>1. /\ "write" \in sock[s].armed /\ UNCHANGED <<made, destructed, user>>
      /\ IF r.state = "HANDSHAKE" THEN Handshake(s, r) ELSE WriteHandler(s, r)
  BY DEF WriteEvent
<1>2. InUse(sock[s])
  BY <1>1 DEF SocketsInv, SlotsInv, SlotOK, Cleared
<1>3. Follows(sock[s], s)
  BY <1>2, SlotFollows DEF SocketsInv
<1>4. Follows(r, s)
  BY <1>3 DEF Follows, Plausible, InUse, Slot
<1> HIDE DEF r
<1>5. SlotsInv' /\ CallsStay
  BY <1>1, <1>4, HandshakeWorks, WriteHandlerWorks
<1> QED BY <1>1, <1>5, Together DEF SocketsInv, CallsInv

-----------------------------------------------------------------------------
(* The theorems                                                            *)

LEMMA InitHolds ==
  ASSUME Init PROVE SocketsInv
<1>1. /\ sock = [s \in Slots |-> Cleared] /\ open = {} /\ made = 0 /\ stack = <<>>
      /\ destructed = {} /\ user = {}
  BY DEF Init
<1>2. Descriptors(sock) = {}
  BY <1>1, ClearedIsOK DEF Descriptors
<1>3. SlotsInv
  BY <1>1, <1>2, ClearedIsOK, SocketsAssumption DEF SlotsInv
<1>4. CallsInv
  BY <1>1, SocketsAssumption DEF CallsInv
<1> QED BY <1>3, <1>4 DEF SocketsInv

LEMMA NextHolds ==
  ASSUME SocketsInv, [Next]_vars PROVE SocketsInv'
<1>1. CASE Return
  BY <1>1, ReturnStep
<1>2. ASSUME NEW s \in Slots, ReadEvent(s) \/ WriteEvent(s) PROVE SocketsInv'
  BY <1>2, ReadEventStep, WriteEventStep
<1>3. ASSUME NEW o \in Objects,
             Command(o) \/ (\E m \in Modes : SocketCreate(o, m)) \/ \E t \in Objects : Destruct(o, t)
      PROVE  SocketsInv'
  BY <1>3, CommandStep, SocketCreateStep, DestructStep
<1>4. ASSUME NEW o \in Objects, NEW s \in Slots,
             \/ SocketBind(o, s) \/ SocketListen(o, s) \/ SocketAccept(o, s)
             \/ SocketConnect(o, s) \/ SocketClose(o, s) \/ SocketAcquire(o, s)
      PROVE  SocketsInv'
  BY <1>4, SocketBindStep, SocketListenStep, SocketAcceptStep, SocketConnectStep,
     SocketCloseStep, SocketAcquireStep
<1>5. ASSUME NEW o \in Objects, NEW s \in Slots,
             \/ \E n \in 1 .. MaxBytes : SocketWrite(o, s, n)
             \/ \E t \in Objects : SocketRelease(o, s, t)
      PROVE  SocketsInv'
  BY <1>5, SocketWriteStep, SocketReleaseStep
<1>6. CASE UNCHANGED vars
  <2>1. UNCHANGED <<sock, open, made, stack, destructed, user>>
    BY <1>6 DEF vars
  <2> QED BY <2>1, SlotsStay, StackStays, Together DEF SocketsInv, CallsInv
<1> QED BY <1>1, <1>2, <1>3, <1>4, <1>5, <1>6 DEF Next

\* The slots of lpc_socks, the descriptors and the unfinished calls of LPC stay as
\* the code means them: a slot is closed and cleared, or in use and alone with its
\* descriptor, and only a connection is blocked.
THEOREM SocketsInvariant == Spec => []SocketsInv
<1>1. Init => SocketsInv
  BY InitHolds
<1>2. SocketsInv /\ [Next]_vars => SocketsInv'
  BY NextHolds
<1> QED BY <1>1, <1>2, PTL DEF Spec

\* The slots, the descriptors and the calls of LPC have their types, in every reachable
\* state: no handler leaves half a record.
THEOREM TypeCorrect == Spec => []TypeOK
<1>1. SocketsInv => TypeOK
  <2> SUFFICES ASSUME SocketsInv PROVE open \subseteq 1 .. made
    BY DEF SocketsInv, SlotsInv, CallsInv, TypeOK
  <2> QED BY DEF SocketsInv, SlotsInv, SlotOK, Descriptors
<1> QED BY <1>1, SocketsInvariant, PTL

\* No descriptor leaks and none is shared, for any number of slots and objects,
\* whatever the callbacks do to the slot their caller goes on to close.
THEOREM NoDescriptorLeaks == Spec => []DescriptorsMatch
<1>1. SocketsInv => DescriptorsMatch
  <2> SUFFICES ASSUME SocketsInv PROVE DescriptorsMatch
    OBVIOUS
  <2>1. open = {sock[s].fd : s \in {u \in Slots : sock[u].state # "CLOSED"}}
    BY DEF SocketsInv, SlotsInv, Descriptors, InUse
  <2>2. ASSUME NEW s \in Slots, NEW t \in Slots, s # t, sock[s].fd = sock[t].fd PROVE sock[s].fd = 0
    <3>1. SlotOK(sock[s], made) /\ SlotOK(sock[t], made) /\ (~InUse(sock[s]) \/ ~InUse(sock[t]))
      BY <2>2 DEF SocketsInv, SlotsInv
    <3> QED BY <2>2, <3>1 DEF SlotOK, Cleared
  <2> QED BY <2>1, <2>2 DEF DescriptorsMatch
<1> QED BY <1>1, SocketsInvariant, PTL

\* A slot that waits for its connection or holds unsent bytes has its one-shot write
\* event armed, through any nesting of callbacks and closes.
THEOREM DueWritesAreArmed == Spec => []BlockedIsArmed
<1>1. SocketsInv => BlockedIsArmed
  BY DEF SocketsInv, SlotsInv, SlotOK, BlockedIsArmed
<1> QED BY <1>1, SocketsInvariant, PTL

-----------------------------------------------------------------------------
(* The bytes                                                               *)

\* The first n bytes of a connection.
Numbers(n) == [j \in 1 .. n |-> j]

Logs == [accepted : Nat, wire : Seq(Int), dead : BOOLEAN, mode : {"STREAM", "DATAGRAM", "TLS"}]

\* What the record of a slot in use says of the bytes of its socket: those that
\* were accepted and are not on the wire are the wlen last ones.
BytesOK(r, l) ==
  /\ l.mode = r.mode
  /\ r.state = "HANDSHAKE" => r.mode = "TLS"
  /\ r.mode = "STREAM" =>
       /\ r.wlen <= l.accepted /\ l.wire = Numbers(l.accepted - r.wlen)
       /\ "BLOCKED" \notin r.flags => r.wlen = 0
       /\ "LINKDEAD" \in r.flags => l.dead

BytesInv ==
  /\ log \in [1 .. MaxMade -> Logs]
  /\ \A s \in Slots : InUse(sock[s]) => BytesOK(sock[s], log[sock[s].fd])
  /\ \A i \in made + 1 .. MaxMade : log[i] = Untouched

\* No descriptor was closed with bytes of a healthy STREAM connection unsent.
NothingLost ==
  \A i \in open \ open' : log[i].mode = "STREAM" /\ ~log'[i].dead =>
    log'[i].wire = Numbers(log[i].accepted)

BytesKept == BytesInv' /\ NothingLost

LEMMA NumbersGrow ==
  ASSUME NEW a \in Nat, NEW k \in Nat
  PROVE  /\ Numbers(a) \in Seq(Int) /\ Len(Numbers(a)) = a
         /\ Numbers(a) \o [i \in 1 .. k |-> a + i] = Numbers(a + k)
<1> DEFINE w == Numbers(a)
           e == [i \in 1 .. k |-> a + i]
           x == Numbers(a + k)
<1>1. /\ w \in Seq(Int) /\ Len(w) = a /\ \A i \in 1 .. a : w[i] = i
      /\ e \in Seq(Int) /\ Len(e) = k /\ \A i \in 1 .. k : e[i] = a + i
      /\ x \in Seq(Int) /\ Len(x) = a + k /\ \A i \in 1 .. (a + k) : x[i] = i
  BY DEF Numbers
<1> HIDE DEF w, e, x
<1>2. w \o e \in Seq(Int) /\ Len(w \o e) = a + k
  BY <1>1, ConcatProperties
<1>3. \A i \in 1 .. (a + k) : (w \o e)[i] = IF i <= a THEN w[i] ELSE e[i - a]
  BY <1>1, ConcatProperties
<1>4. \A i \in 1 .. (a + k) : (w \o e)[i] = x[i]
  <2> SUFFICES ASSUME NEW i \in 1 .. (a + k) PROVE (w \o e)[i] = i
    BY <1>1
  <2>1. CASE i <= a
    BY <1>1, <1>3, <2>1
  <2>2. CASE ~(i <= a)
    BY <1>1, <1>3, <2>2
  <2> QED BY <2>1, <2>2
<1>5. w \o e = x
  BY <1>1, <1>2, <1>4, SeqEqual
<1> QED BY <1>1, <1>5 DEF w, e, x

LEMMA UntouchedIsALog == Untouched \in Logs
BY DEF Untouched, Logs

\* Two records that say the same of the bytes.
SameBytes(q, r) ==
  /\ q.mode = r.mode /\ q.wlen = r.wlen
  /\ q.state = "HANDSHAKE" => r.state = "HANDSHAKE"
  /\ "BLOCKED" \in r.flags => "BLOCKED" \in q.flags
  /\ "LINKDEAD" \in q.flags => "LINKDEAD" \in r.flags

LEMMA SameBytesOK ==
  ASSUME NEW q, NEW r, NEW l, SameBytes(q, r), BytesOK(r, l) PROVE BytesOK(q, l)
BY DEF SameBytes, BytesOK

\* The history of a socket that a step continues with l.
Continues(l, i) == l \in Logs /\ l.accepted = log[i].accepted /\ l.mode = log[i].mode

LEMMA LogStays ==
  ASSUME BytesInv, NEW i \in 1 .. MaxMade, UNCHANGED log
  PROVE  log' = [log EXCEPT ![i] = log[i]] /\ Continues(log[i], i)
BY DEF BytesInv, Continues

\* A slot in use and its socket are given another record and another history.
LEMMA BytesStored ==
  ASSUME SlotsInv, BytesInv, NEW s \in Slots, NEW r, NEW l \in Logs, Follows(r, s), BytesOK(r, l),
         Put(s, r), log' = [log EXCEPT ![sock[s].fd] = l], UNCHANGED <<open, made>>
  PROVE  BytesKept
<1>1. /\ sock'[s] = r /\ \A t \in Slots : t # s => sock'[t] = sock[t]
      /\ InUse(sock[s]) /\ r.fd = sock[s].fd /\ sock[s].fd \in 1 .. made /\ made \in Nat
  BY SocketsAssumption DEF Put, SlotsInv, SlotOK, Follows
<1>2. made <= MaxMade /\ sock[s].fd \in 1 .. MaxMade
  BY <1>1, SocketsAssumption DEF SlotsInv
<1>3. /\ log' \in [1 .. MaxMade -> Logs] /\ log'[sock[s].fd] = l
      /\ \A i \in 1 .. MaxMade : i # sock[s].fd => log'[i] = log[i]
  BY <1>2 DEF BytesInv
<1>4. \A t \in Slots : InUse(sock'[t]) => BytesOK(sock'[t], log'[sock'[t].fd])
  <2> SUFFICES ASSUME NEW t \in Slots, t # s, InUse(sock[t]) PROVE BytesOK(sock[t], log'[sock[t].fd])
    BY <1>1, <1>3
  <2>1. sock[t].fd # sock[s].fd /\ sock[t].fd \in 1 .. MaxMade
    BY <1>1, SocketsAssumption DEF SlotsInv, SlotOK
  <2> QED BY <1>3, <2>1 DEF BytesInv
<1>5. \A i \in made' + 1 .. MaxMade : log'[i] = Untouched
  BY <1>1, <1>2, <1>3 DEF BytesInv
<1> QED BY <1>3, <1>4, <1>5 DEF BytesKept, BytesInv, NothingLost

\* A slot is cleared with nothing left to send.
LEMMA BytesCleared ==
  ASSUME SlotsInv, BytesInv, NEW s \in Slots, NEW l, Continues(l, sock[s].fd), InUse(sock[s]),
         l.mode = "STREAM" /\ ~l.dead => l.wire = Numbers(l.accepted),
         Put(s, Cleared), open' = open \ {sock[s].fd},
         log' = [log EXCEPT ![sock[s].fd] = l], UNCHANGED made
  PROVE  BytesKept
<1>1. /\ sock'[s] = Cleared /\ \A t \in Slots : t # s => sock'[t] = sock[t]
      /\ sock[s].fd \in 1 .. made /\ made \in Nat
  BY SocketsAssumption DEF Put, SlotsInv, SlotOK
<1>2. made <= MaxMade /\ sock[s].fd \in 1 .. MaxMade
  BY <1>1, SocketsAssumption DEF SlotsInv
<1>3. /\ log' \in [1 .. MaxMade -> Logs] /\ log'[sock[s].fd] = l
      /\ \A i \in 1 .. MaxMade : i # sock[s].fd => log'[i] = log[i]
  BY <1>2 DEF BytesInv, Continues
<1>4. \A t \in Slots : InUse(sock'[t]) => BytesOK(sock'[t], log'[sock'[t].fd])
  <2> SUFFICES ASSUME NEW t \in Slots, t # s, InUse(sock[t]) PROVE BytesOK(sock[t], log'[sock[t].fd])
    BY <1>1, ClearedIsOK
  <2>1. sock[t].fd # sock[s].fd /\ sock[t].fd \in 1 .. MaxMade
    BY <1>1, SocketsAssumption DEF SlotsInv, SlotOK
  <2> QED BY <1>3, <2>1 DEF BytesInv
<1>5. \A i \in made' + 1 .. MaxMade : log'[i] = Untouched
  BY <1>1, <1>2, <1>3 DEF BytesInv
<1>6. NothingLost
  BY <1>3 DEF NothingLost, Continues
<1> QED BY <1>3, <1>4, <1>5, <1>6 DEF BytesKept, BytesInv

\* socket_close() flushes what is unsent, unless the link is dead.
LEMMA BytesClose ==
  ASSUME SlotsInv, BytesInv, NEW s \in Slots, NEW r, NEW l, Follows(r, s), BytesOK(r, l),
         Continues(l, sock[s].fd), CloseNow(s, r), log' = [log EXCEPT ![sock[s].fd] = l], UNCHANGED made
  PROVE  BytesKept
<1>1. CASE Flushes(r)
  <2> DEFINE left == [r EXCEPT !.state = "FLUSHING", !.ssl = FALSE, !.ctx = FALSE]
  <2>1. r \in Slot /\ r.fd = sock[s].fd /\ InUse(sock[s])
    BY DEF Follows, Plausible
  <2>2. /\ left \in Slot /\ left.state = "FLUSHING" /\ left.fd = r.fd
        /\ left.flags = r.flags /\ left.wlen = r.wlen /\ left.mode = r.mode
    BY <2>1 DEF Slot
  <2>3. Put(s, left) /\ open' = open
    BY <1>1 DEF CloseNow, AfterClose, StillOpen
  <2> HIDE DEF left
  <2>4. Follows(left, s) /\ BytesOK(left, l)
    BY <2>1, <2>2 DEF Follows, Plausible, InUse, BytesOK
  <2> QED BY <2>3, <2>4, BytesStored DEF Continues
<1>2. CASE ~Flushes(r)
  <2>1. Put(s, Cleared) /\ open' = open \ {sock[s].fd} /\ InUse(sock[s])
    BY <1>2 DEF CloseNow, AfterClose, StillOpen, Follows
  <2>2. l.mode = "STREAM" /\ ~l.dead => l.wire = Numbers(l.accepted)
    <3>1. l.accepted \in Nat
      BY DEF Continues, Logs
    <3> QED BY <1>2, <3>1 DEF BytesOK, Flushes
  <2> QED BY <2>1, <2>2, BytesCleared
<1> QED BY <1>1, <1>2

LEMMA FollowsFd ==
  ASSUME SlotsInv, BytesInv, NEW s \in Slots, NEW r, Follows(r, s)
  PROVE  r.fd = sock[s].fd /\ sock[s].fd \in 1 .. MaxMade /\ sock[s].fd \in 1 .. made /\ log[sock[s].fd] \in Logs
BY SocketsAssumption DEF SlotsInv, SlotOK, Follows, BytesInv

\* The link of a connection is found dead.
LEMMA BytesFail ==
  ASSUME SlotsInv, BytesInv, NEW s \in Slots, NEW r, Follows(r, s), BytesOK(r, log[sock[s].fd]),
         Fail(s, r), UNCHANGED made
  PROVE  BytesKept
<1> DEFINE dead == [r EXCEPT !.flags = @ \cup {"LINKDEAD"}]
           l == [log[sock[s].fd] EXCEPT !.dead = TRUE]
<1>1. /\ r.fd = sock[s].fd /\ sock[s].fd \in 1 .. MaxMade /\ log[sock[s].fd] \in Logs
  BY FollowsFd
<1>2. /\ dead \in Slot /\ dead.state = r.state /\ dead.fd = r.fd /\ dead.mode = r.mode
      /\ dead.wlen = r.wlen /\ dead.flags = r.flags \cup {"LINKDEAD"}
  BY DEF Follows, Plausible, Slot
<1>3. Continues(l, sock[s].fd) /\ l.dead /\ l.wire = log[sock[s].fd].wire
  BY <1>1 DEF Continues, Logs
<1>4. log' = [log EXCEPT ![sock[s].fd] = l]
  BY <1>1 DEF Fail
<1>5. (CloseNow(s, dead) \/ (Put(s, dead) /\ UNCHANGED open))
  BY DEF Fail
<1> HIDE DEF dead, l
<1>6. Follows(dead, s) /\ BytesOK(dead, l)
  BY <1>2, <1>3 DEF Follows, Plausible, InUse, BytesOK, Continues
<1>7. CASE CloseNow(s, dead)
  BY <1>3, <1>4, <1>6, <1>7, BytesClose
<1>8. CASE Put(s, dead) /\ UNCHANGED open
  BY <1>3, <1>4, <1>6, <1>8, BytesStored DEF Continues
<1> QED BY <1>5, <1>7, <1>8

\* The last byte is sent.
LEMMA BytesUnblocked ==
  ASSUME SlotsInv, BytesInv, NEW s \in Slots, NEW r, NEW l, Follows(r, s), BytesOK(r, l), r.wlen = 0,
         Continues(l, sock[s].fd), log' = [log EXCEPT ![sock[s].fd] = l], Unblocked(s, r), UNCHANGED made
  PROVE  BytesKept
<1> DEFINE free == [r EXCEPT !.flags = @ \ {"BLOCKED"}, !.woff = 0]
<1>1. /\ free \in Slot /\ free.state = r.state /\ free.fd = r.fd /\ free.mode = r.mode
      /\ free.wlen = r.wlen /\ free.flags = r.flags \ {"BLOCKED"}
  <2>1. r \in Slot
    BY DEF Follows, Plausible
  <2>2. [r EXCEPT !.flags = @ \ {"BLOCKED"}] \in Slot
    BY <2>1 DEF Slot
  <2>3. \A q \in Slot : [q EXCEPT !.woff = 0] \in Slot
    BY DEF Slot
  <2>4. free = [[r EXCEPT !.flags = @ \ {"BLOCKED"}] EXCEPT !.woff = 0]
    BY <2>1 DEF Slot
  <2>5. /\ free.state = r.state /\ free.fd = r.fd /\ free.mode = r.mode
        /\ free.wlen = r.wlen /\ free.flags = r.flags \ {"BLOCKED"}
    BY <2>1 DEF Slot
  <2> QED BY <2>2, <2>3, <2>4, <2>5
<1>2. CloseNow(s, free) \/ (Put(s, free) /\ UNCHANGED open)
  BY DEF Unblocked
<1> HIDE DEF free
<1>3. Follows(free, s) /\ BytesOK(free, l)
  BY <1>1 DEF Follows, Plausible, InUse, BytesOK
<1>4. CASE CloseNow(s, free)
  BY <1>3, <1>4, BytesClose
<1>5. CASE Put(s, free) /\ UNCHANGED open
  BY <1>3, <1>5, BytesStored DEF Continues
<1> QED BY <1>2, <1>4, <1>5

\* A slot in use, as it is.
LEMMA BytesAsTheyAre ==
  ASSUME SlotsInv, BytesInv, NEW s \in Slots, InUse(sock[s])
  PROVE  Follows(sock[s], s) /\ sock[s] \in Slot /\ BytesOK(sock[s], log[sock[s].fd])
BY SlotFollows DEF BytesInv

\* A record that says the same of the bytes is stored, and nothing is sent.
LEMMA BytesSame ==
  ASSUME SlotsInv, BytesInv, NEW s \in Slots, NEW r, Follows(r, s), BytesOK(r, log[sock[s].fd]),
         Put(s, r), UNCHANGED <<open, made, log>>
  PROVE  BytesKept
<1>1. sock[s].fd \in 1 .. MaxMade /\ log[sock[s].fd] \in Logs
  BY FollowsFd
<1>2. log' = [log EXCEPT ![sock[s].fd] = log[sock[s].fd]]
  BY <1>1, LogStays
<1> QED BY <1>1, <1>2, BytesStored

LEMMA BytesCloseQuietly ==
  ASSUME SlotsInv, BytesInv, NEW s \in Slots, NEW r, Follows(r, s), BytesOK(r, log[sock[s].fd]),
         CloseNow(s, r), UNCHANGED <<made, log>>
  PROVE  BytesKept
<1>1. sock[s].fd \in 1 .. MaxMade /\ log[sock[s].fd] \in Logs
  BY FollowsFd
<1>2. log' = [log EXCEPT ![sock[s].fd] = log[sock[s].fd]] /\ Continues(log[sock[s].fd], sock[s].fd)
  BY <1>1, LogStays
<1> QED BY <1>1, <1>2, BytesClose

\* Record r when the next k of its bytes are sent.
Rest(r, k) == [r EXCEPT !.woff = @ + k, !.wlen = @ - k]

\* The history of a socket of which the next k bytes of record r are sent.
LEMMA BytesSent ==
  ASSUME SlotsInv, BytesInv, NEW s \in Slots, NEW r, Follows(r, s), BytesOK(r, log[sock[s].fd]),
         NEW k \in 1 .. r.wlen, Flushes(r), Sent(r, k)
  PROVE  \E l : /\ Continues(l, sock[s].fd) /\ BytesOK(Rest(r, k), l) /\ Follows(Rest(r, k), s)
                /\ log' = [log EXCEPT ![sock[s].fd] = l]
<1> DEFINE q == Rest(r, k)
           h == log[sock[s].fd]
           more == [i \in 1 .. k |-> h.accepted - r.wlen + i]
           l == [h EXCEPT !.wire = @ \o more]
<1>1. /\ r.fd = sock[s].fd /\ sock[s].fd \in 1 .. MaxMade /\ h \in Logs
  BY FollowsFd
<1>2. r \in Slot /\ r.wlen \in Nat /\ k \in Nat /\ r.wlen - k \in Nat /\ r.woff + k \in Int
  BY DEF Follows, Plausible, Slot
<1>3. /\ q \in Slot /\ q.wlen = r.wlen - k /\ q.state = r.state /\ q.fd = r.fd
      /\ q.mode = r.mode /\ q.flags = r.flags
  BY <1>2 DEF Slot, Rest
<1> HIDE DEF q
<1>4. Follows(q, s)
  BY <1>3 DEF Follows, Plausible, InUse
<1>5. log' = [log EXCEPT ![sock[s].fd] = l]
  BY <1>1 DEF Sent, Bytes
<1> HIDE DEF h
<1>6. h.accepted \in Nat /\ h.wire \in Seq(Int) /\ h.dead \in BOOLEAN /\ h.mode \in {"STREAM", "DATAGRAM", "TLS"}
  BY <1>1 DEF Logs
<1>7. more \in Seq(Int)
  BY <1>2, <1>6
<1> HIDE DEF more
<1>8. h.wire \o more \in Seq(Int)
  BY <1>6, <1>7, ConcatProperties
<1>9. l \in Logs /\ l.wire = h.wire \o more /\ l.accepted = h.accepted /\ l.mode = h.mode /\ l.dead = h.dead
  BY <1>1, <1>8 DEF Logs
<1> HIDE DEF l
<1>10. BytesOK(r, h)
  BY DEF h
<1>11. r.mode = "STREAM" => q.wlen <= l.accepted /\ l.wire = Numbers(l.accepted - q.wlen)
  <2> SUFFICES ASSUME r.mode = "STREAM" PROVE q.wlen <= l.accepted /\ l.wire = Numbers(l.accepted - q.wlen)
    OBVIOUS
  <2>1. r.wlen <= h.accepted /\ h.wire = Numbers(h.accepted - r.wlen)
    BY <1>10 DEF BytesOK
  <2>2. h.accepted - r.wlen \in Nat /\ l.accepted - q.wlen = (h.accepted - r.wlen) + k
    BY <1>2, <1>3, <1>6, <1>9, <2>1
  <2>3. h.wire \o more = Numbers((h.accepted - r.wlen) + k)
    BY <1>2, <2>1, <2>2, NumbersGrow DEF more
  <2>4. q.wlen <= l.accepted
    BY <1>2, <1>3, <1>6, <1>9, <2>1
  <2>5. l.wire = Numbers(l.accepted - q.wlen)
    BY <1>9, <2>2, <2>3
  <2> QED BY <2>4, <2>5
<1>12. BytesOK(q, l)
  BY <1>3, <1>9, <1>10, <1>11 DEF BytesOK, Flushes
<1>13. Continues(l, sock[s].fd)
  BY <1>9 DEF Continues, h
<1> QED BY <1>4, <1>5, <1>12, <1>13 DEF q

LEMMA BytesWriteHandler ==
  ASSUME SlotsInv, BytesInv, NEW s \in Slots, NEW r, Follows(r, s), BytesOK(r, log[sock[s].fd]),
         WriteHandler(s, r), UNCHANGED made
  PROVE  BytesKept
<1> DEFINE again(q) == [q EXCEPT !.armed = @ \cup {"write"}]
<1>1. ASSUME NEW q, Follows(q, s) PROVE Follows(again(q), s) /\ SameBytes(again(q), q)
  BY <1>1 DEF Follows, Plausible, InUse, Slot, SameBytes
<1>2. CASE ~Flushes(r) /\ Put(s, r) /\ UNCHANGED <<open, stack, log>>
  BY <1>2, BytesSame
<1>3. CASE Flushes(r) /\ Fail(s, r)
  BY <1>3, BytesFail
<1>4. CASE Put(s, again(r)) /\ UNCHANGED <<open, stack, log>>
  <2>1. Follows(again(r), s) /\ SameBytes(again(r), r)
    BY <1>1
  <2> HIDE DEF again
  <2>2. BytesOK(again(r), log[sock[s].fd])
    BY <2>1, SameBytesOK
  <2> QED BY <1>4, <2>1, <2>2, BytesSame
<1>5. ASSUME NEW k \in 1 .. r.wlen, Flushes(r), Sent(r, k),
             LET rest == [r EXCEPT !.woff = @ + k, !.wlen = @ - k] IN
             IF rest.wlen = 0 THEN Unblocked(s, rest)
             ELSE Put(s, again(rest)) /\ UNCHANGED <<open, stack>>
      PROVE  BytesKept
  <2> DEFINE rest == Rest(r, k)
  <2>1. (rest.wlen = 0 /\ Unblocked(s, rest)) \/ (Put(s, again(rest)) /\ UNCHANGED <<open, stack>>)
    BY <1>5 DEF Rest
  <2>2. PICK l : /\ Continues(l, sock[s].fd) /\ BytesOK(rest, l) /\ Follows(rest, s)
                 /\ log' = [log EXCEPT ![sock[s].fd] = l]
    BY <1>5, BytesSent
  <2> HIDE DEF rest
  <2>3. CASE rest.wlen = 0 /\ Unblocked(s, rest)
    BY <2>2, <2>3, BytesUnblocked
  <2>4. CASE Put(s, again(rest)) /\ UNCHANGED <<open, stack>>
    <3>1. Follows(again(rest), s) /\ SameBytes(again(rest), rest)
      BY <1>1, <2>2
    <3> HIDE DEF again
    <3>2. BytesOK(again(rest), l)
      BY <2>2, <3>1, SameBytesOK
    <3> QED BY <2>2, <2>4, <3>1, <3>2, BytesStored DEF Continues
  <2> QED BY <2>1, <2>3, <2>4
<1>6. CASE Flushes(r) /\ r.wlen = 0 /\ Unblocked(s, r) /\ UNCHANGED log
  <2>1. sock[s].fd \in 1 .. MaxMade /\ log[sock[s].fd] \in Logs
    BY FollowsFd
  <2>2. log' = [log EXCEPT ![sock[s].fd] = log[sock[s].fd]] /\ Continues(log[sock[s].fd], sock[s].fd)
    BY <1>6, <2>1, LogStays
  <2> QED BY <1>6, <2>1, <2>2, BytesUnblocked
<1>7. CASE r.mode = "TLS" /\ CloseNow(s, [r EXCEPT !.flags = @ \cup {"LINKDEAD"}]) /\ UNCHANGED <<stack, log>>
  <2> DEFINE dead == [r EXCEPT !.flags = @ \cup {"LINKDEAD"}]
  <2>1. Follows(dead, s) /\ dead.mode = r.mode
    BY DEF Follows, Plausible, InUse, Slot
  <2>2. CloseNow(s, dead) /\ UNCHANGED log
    BY <1>7
  <2> HIDE DEF dead
  <2>3. BytesOK(dead, log[sock[s].fd])
    BY <1>7, <2>1 DEF BytesOK
  <2> QED BY <2>1, <2>2, <2>3, BytesCloseQuietly
<1> HIDE DEF again
<1> QED BY <1>2, <1>3, <1>4, <1>5, <1>6, <1>7 DEF WriteHandler, again

LEMMA BytesHandshake ==
  ASSUME SlotsInv, BytesInv, NEW s \in Slots, NEW r, Follows(r, s), BytesOK(r, log[sock[s].fd]),
         r.state = "HANDSHAKE", Handshake(s, r), UNCHANGED made
  PROVE  BytesKept
<1>0. r.mode = "TLS" /\ log[sock[s].fd].mode = "TLS"
  BY DEF BytesOK
<1>1. ASSUME NEW q, Follows(q, s), q.mode = "TLS" PROVE BytesOK(q, log[sock[s].fd])
  BY <1>0, <1>1 DEF BytesOK
<1>2. ASSUME NEW armed \in {r.armed, r.armed \cup {"write"}}, Put(s, [r EXCEPT !.armed = armed]),
             UNCHANGED <<open, log>>
      PROVE  BytesKept
  <2>1. armed \in SUBSET {"read", "write"} /\ r \in Slot
    BY DEF Follows, Plausible, Slot
  <2>2. Follows([r EXCEPT !.armed = armed], s) /\ [r EXCEPT !.armed = armed].mode = "TLS"
    BY <1>0, <2>1, ArmedFollows DEF Slot
  <2> QED BY <1>1, <1>2, <2>2, BytesSame
<1>3. CASE WriteHandler(s, [r EXCEPT !.state = "DATA_XFER", !.flags = @ \cup {"BLOCKED"},
                                     !.armed = @ \cup {"write"}])
  <2> DEFINE up == [r EXCEPT !.state = "DATA_XFER", !.flags = @ \cup {"BLOCKED"},
                             !.armed = @ \cup {"write"}]
  <2>1. Follows(up, s) /\ up.mode = "TLS"
    BY <1>0 DEF Follows, Plausible, InUse, Slot
  <2>2. WriteHandler(s, up)
    BY <1>3
  <2> HIDE DEF up
  <2> QED BY <1>1, <2>1, <2>2, BytesWriteHandler
<1>4. CASE CloseNow(s, [r EXCEPT !.flags = @ \ {"BLOCKED"}]) /\ UNCHANGED <<stack, log>>
  <2> DEFINE free == [r EXCEPT !.flags = @ \ {"BLOCKED"}]
  <2>1. Follows(free, s) /\ free.mode = "TLS"
    BY <1>0 DEF Follows, Plausible, InUse, Slot
  <2>2. CloseNow(s, free) /\ UNCHANGED log
    BY <1>4
  <2> HIDE DEF free
  <2> QED BY <1>1, <2>1, <2>2, BytesCloseQuietly
<1> QED BY <1>2, <1>3, <1>4 DEF Handshake

LEMMA BytesStay ==
  ASSUME BytesInv, UNCHANGED <<sock, open, made, log>> PROVE BytesKept
BY DEF BytesInv, BytesKept, NothingLost

\* A closed slot takes a new socket, of which no byte was written.
LEMMA BytesMade ==
  ASSUME SlotsInv, BytesInv, NEW s \in Slots, NEW o \in Objects, NEW m \in {"STREAM", "DATAGRAM", "TLS"},
         NEW state \in {"UNBOUND", "DATA_XFER", "HANDSHAKE"}, state = "HANDSHAKE" => m = "TLS",
         NEW armed \in SUBSET {"read", "write"}, made < MaxMade,
         Put(s, NewSock(o, m, state, armed)), Made(NewSock(o, m, state, armed)), ~InUse(sock[s])
  PROVE  BytesKept
<1> DEFINE r == NewSock(o, m, state, armed)
           l == [Untouched EXCEPT !.mode = m]
<1>1. r \in Slot /\ InUse(r) /\ r.fd = made + 1
  BY NewSockIsOK DEF SlotOK, Plausible
<1>2. r.mode = m /\ r.wlen = 0 /\ r.flags = {} /\ r.state = state
  BY DEF NewSock, Cleared
<1>3. Put(s, r) /\ Made(r)
  OBVIOUS
<1> HIDE DEF r
<1>4. l \in Logs /\ l.accepted = 0 /\ l.wire = <<>> /\ l.mode = m
  BY UntouchedIsALog DEF Logs, Untouched
<1>5. <<>> = Numbers(0)
  BY DEF Numbers
<1>6. BytesOK(r, l)
  BY <1>2, <1>4, <1>5 DEF BytesOK
<1>7. made \in Nat /\ made + 1 \in 1 .. MaxMade /\ MaxMade \in Nat
  BY SocketsAssumption DEF SlotsInv
<1>8. /\ made' = made + 1 /\ open' = open \cup {made + 1}
      /\ log' = [log EXCEPT ![made + 1] = [log[made + 1] EXCEPT !.mode = m]]
  BY <1>1, <1>2, <1>3 DEF Made
<1>9. log[made + 1] = Untouched
  BY <1>7 DEF BytesInv
<1> HIDE DEF l
<1>10. log' = [log EXCEPT ![made + 1] = l]
  BY <1>8, <1>9 DEF l
<1>11. /\ log' \in [1 .. MaxMade -> Logs] /\ log'[made + 1] = l
       /\ \A i \in 1 .. MaxMade : i # made + 1 => log'[i] = log[i]
  BY <1>4, <1>7, <1>10 DEF BytesInv
<1>12. sock'[s] = r /\ \A t \in Slots : t # s => sock'[t] = sock[t]
  BY <1>3 DEF Put, SlotsInv
<1>13. \A t \in Slots : InUse(sock'[t]) => BytesOK(sock'[t], log'[sock'[t].fd])
  <2> SUFFICES ASSUME NEW t \in Slots, t # s, InUse(sock[t]) PROVE BytesOK(sock[t], log'[sock[t].fd])
    BY <1>1, <1>6, <1>11, <1>12
  <2>1. sock[t].fd \in 1 .. made
    BY DEF SlotsInv, SlotOK
  <2>2. sock[t].fd # made + 1 /\ sock[t].fd \in 1 .. MaxMade
    BY <1>7, <2>1
  <2> QED BY <1>11, <2>2 DEF BytesInv
<1>14. \A i \in made' + 1 .. MaxMade : log'[i] = Untouched
  BY <1>7, <1>8, <1>11 DEF BytesInv
<1> QED BY <1>8, <1>11, <1>13, <1>14 DEF BytesKept, BytesInv, NothingLost

LEMMA BytesOfCreate ==
  ASSUME SlotsInv, BytesInv, NEW o \in Objects, NEW m \in Modes, SocketCreate(o, m) PROVE BytesKept
<1> DEFINE r == NewSock(o, m, "UNBOUND", {})
<1>1. m \in {"STREAM", "DATAGRAM", "TLS"}
  BY SocketsAssumption
<1>2. made < MaxMade /\ Made(r)
  BY DEF SocketCreate
<1>3. PICK s \in Slots : sock[s].state = "CLOSED" /\ Put(s, r)
  BY DEF SocketCreate, IsNewSlot
<1> QED BY <1>1, <1>2, <1>3, BytesMade DEF InUse

LEMMA BytesOfAccept ==
  ASSUME SlotsInv, BytesInv, NEW o \in Objects, NEW s \in Slots, SocketAccept(o, s) PROVE BytesKept
<1> DEFINE m == sock[s].mode
           state == IF m = "TLS" THEN "HANDSHAKE" ELSE "DATA_XFER"
           r == NewSock(o, m, state, {"read", "write"})
<1>1. m \in {"STREAM", "DATAGRAM", "TLS"}
  BY DEF SlotsInv, Slot
<1>2. made < MaxMade /\ Made(r)
  BY DEF SocketAccept
<1>3. PICK new \in Slots : sock[new].state = "CLOSED" /\ Put(new, r)
  BY DEF SocketAccept, IsNewSlot
<1> HIDE DEF m
<1>4. state \in {"UNBOUND", "DATA_XFER", "HANDSHAKE"} /\ (state = "HANDSHAKE" => m = "TLS")
  OBVIOUS
<1> HIDE DEF state
<1> QED BY <1>1, <1>2, <1>3, <1>4, BytesMade DEF InUse

LEMMA BytesOfBind ==
  ASSUME SlotsInv, BytesInv, NEW o \in Objects, NEW s \in Slots, SocketBind(o, s) PROVE BytesKept
<1> DEFINE armed == IF sock[s].mode = "DATAGRAM" THEN {"read"} ELSE {}
           r == [sock[s] EXCEPT !.state = "BOUND", !.armed = armed]
<1>1. sock[s].state = "UNBOUND" /\ Put(s, r) /\ UNCHANGED <<open, made, log>>
  BY DEF SocketBind
<1>2. Follows(sock[s], s) /\ sock[s] \in Slot /\ BytesOK(sock[s], log[sock[s].fd])
  BY <1>1, BytesAsTheyAre DEF InUse
<1>3. Follows(r, s) /\ SameBytes(r, sock[s])
  BY <1>1, <1>2 DEF Follows, Plausible, InUse, Slot, SameBytes
<1> HIDE DEF r
<1>4. BytesOK(r, log[sock[s].fd])
  BY <1>2, <1>3, SameBytesOK
<1> QED BY <1>1, <1>3, <1>4, BytesSame

LEMMA BytesOfListen ==
  ASSUME SlotsInv, BytesInv, NEW o \in Objects, NEW s \in Slots, SocketListen(o, s) PROVE BytesKept
<1>1. sock[s].state = "BOUND" /\ UNCHANGED <<open, made, log>>
  BY DEF SocketListen
<1>2. PICK ctx \in BOOLEAN : Put(s, [sock[s] EXCEPT !.state = "LISTEN", !.armed = {"read"}, !.ctx = ctx])
  BY DEF SocketListen
<1> DEFINE r == [sock[s] EXCEPT !.state = "LISTEN", !.armed = {"read"}, !.ctx = ctx]
<1>3. Follows(sock[s], s) /\ sock[s] \in Slot /\ BytesOK(sock[s], log[sock[s].fd])
  BY <1>1, BytesAsTheyAre DEF InUse
<1>4. Follows(r, s) /\ SameBytes(r, sock[s])
  BY <1>1, <1>3 DEF Follows, Plausible, InUse, Slot, SameBytes
<1>5. Put(s, r)
  BY <1>2
<1> HIDE DEF r
<1>6. BytesOK(r, log[sock[s].fd])
  BY <1>3, <1>4, SameBytesOK
<1> QED BY <1>1, <1>4, <1>5, <1>6, BytesSame

LEMMA BytesOfConnect ==
  ASSUME SlotsInv, BytesInv, NEW o \in Objects, NEW s \in Slots, SocketConnect(o, s) PROVE BytesKept
<1> DEFINE r == [sock[s] EXCEPT !.armed = {"read", "write"}]
           secure == [r EXCEPT !.state = "HANDSHAKE", !.ssl = TRUE, !.ctx = TRUE]
           plain == [r EXCEPT !.state = "DATA_XFER", !.flags = @ \cup {"BLOCKED"}]
<1>1. /\ sock[s].state \in {"UNBOUND", "BOUND"} /\ UNCHANGED made
      /\ \/ r.mode = "TLS" /\ Handshake(s, secure)
         \/ Put(s, plain) /\ UNCHANGED <<open, log>>
  BY DEF SocketConnect
<1>2. Follows(sock[s], s) /\ sock[s] \in Slot /\ BytesOK(sock[s], log[sock[s].fd])
  BY <1>1, BytesAsTheyAre DEF InUse
<1>3. r \in Slot /\ r.mode = sock[s].mode
  BY <1>2 DEF Slot
<1>4. Follows(secure, s) /\ secure.state = "HANDSHAKE" /\ secure.mode = sock[s].mode
  BY <1>1, <1>2 DEF Follows, Plausible, InUse, Slot
<1>5. Follows(plain, s) /\ SameBytes(plain, sock[s])
  BY <1>1, <1>2 DEF Follows, Plausible, InUse, Slot, SameBytes
<1> HIDE DEF secure, plain, r
<1>6. CASE r.mode = "TLS" /\ Handshake(s, secure)
  <2>1. BytesOK(secure, log[sock[s].fd])
    BY <1>2, <1>3, <1>4, <1>6 DEF BytesOK
  <2> QED BY <1>1, <1>4, <1>6, <2>1, BytesHandshake
<1>7. CASE Put(s, plain) /\ UNCHANGED <<open, log>>
  <2>1. BytesOK(plain, log[sock[s].fd])
    BY <1>2, <1>5, SameBytesOK
  <2> QED BY <1>1, <1>5, <1>7, <2>1, BytesSame
<1> QED BY <1>1, <1>6, <1>7

\* send() takes the first off bytes of a message and the rest is queued.
LEMMA BytesOfWrite ==
  ASSUME SlotsInv, BytesInv, NEW o \in Objects, NEW s \in Slots, NEW n \in 1 .. MaxBytes, SocketWrite(o, s, n)
  PROVE  BytesKept
<1>1. sock[s].state = "DATA_XFER" /\ sock[s].mode # "DATAGRAM" /\ "BLOCKED" \notin sock[s].flags /\ UNCHANGED made
  BY DEF SocketWrite
<1>2. Follows(sock[s], s) /\ sock[s] \in Slot /\ BytesOK(sock[s], log[sock[s].fd])
  BY <1>1, BytesAsTheyAre DEF InUse
<1>3. CASE Fail(s, sock[s])
  BY <1>1, <1>2, <1>3, BytesFail
<1>4. ASSUME NEW off \in {-1} \cup 1 .. n, sock[s].mode = "STREAM" => off \in 1 .. n,
             Put(s, Queue(sock[s], n, off)), UNCHANGED open,
             log' = [log EXCEPT ![sock[s].fd].accepted = @ + n,
                                ![sock[s].fd].wire = @ \o [i \in 1 .. off |-> log[sock[s].fd].accepted + i]]
      PROVE  BytesKept
  <2> DEFINE q == Queue(sock[s], n, off)
             h == log[sock[s].fd]
             more == [i \in 1 .. off |-> h.accepted + i]
             l == [h EXCEPT !.accepted = @ + n, !.wire = @ \o more]
  <2>1. n \in Nat /\ off \in Int /\ n - off \in Nat
    BY SocketsAssumption
  <2>2. /\ Follows(q, s) /\ q.mode = sock[s].mode /\ q.state = "DATA_XFER"
        /\ q.wlen = (IF off = n THEN sock[s].wlen ELSE n - off)
        /\ "BLOCKED" \in q.flags <=> off # n
        /\ "LINKDEAD" \in q.flags <=> "LINKDEAD" \in sock[s].flags
    <3>1. CASE off = n
      BY <1>1, <1>2, <3>1 DEF Queue
    <3>2. CASE off # n
      <4>1. q = [sock[s] EXCEPT !.flags = @ \cup {"BLOCKED"}, !.woff = off, !.wlen = n - off,
                                !.armed = @ \cup {"write"}]
        BY <3>2 DEF Queue
      <4> HIDE DEF q
      <4> QED BY <1>1, <1>2, <2>1, <3>2, <4>1 DEF Follows, Plausible, InUse, Slot
    <3> QED BY <3>1, <3>2
  <2>3. sock[s].fd \in 1 .. MaxMade /\ h \in Logs
    BY <1>2, FollowsFd
  <2>4. log' = [log EXCEPT ![sock[s].fd] = l]
    BY <1>4, <2>3 DEF Logs, BytesInv
  <2> HIDE DEF h
  <2>5. h.accepted \in Nat /\ h.wire \in Seq(Int) /\ h.dead \in BOOLEAN /\ h.mode \in {"STREAM", "DATAGRAM", "TLS"}
    BY <2>3 DEF Logs
  <2>6. more \in Seq(Int)
    <3>1. CASE off = -1
      <4>1. more = <<>>
        BY <3>1
      <4> QED BY <4>1
    <3>2. CASE off \in 1 .. n
      BY <2>5, <3>2
    <3> QED BY <3>1, <3>2
  <2>7. sock[s].mode = "STREAM" => more = [i \in 1 .. off |-> h.accepted + i] /\ off \in Nat
    BY <1>4
  <2> HIDE DEF more
  <2>8. h.wire \o more \in Seq(Int) /\ h.accepted + n \in Nat
    BY <2>1, <2>5, <2>6, ConcatProperties
  <2>9. /\ l \in Logs /\ l.accepted = h.accepted + n /\ l.wire = h.wire \o more
        /\ l.mode = h.mode /\ l.dead = h.dead
    BY <2>3, <2>8 DEF Logs
  <2> HIDE DEF l, q
  <2>10. BytesOK(sock[s], h)
    BY <1>2 DEF h
  <2>11. sock[s].mode = "STREAM" => q.wlen <= l.accepted /\ l.wire = Numbers(l.accepted - q.wlen)
    <3> SUFFICES ASSUME sock[s].mode = "STREAM"
                 PROVE  q.wlen <= l.accepted /\ l.wire = Numbers(l.accepted - q.wlen)
      OBVIOUS
    <3>1. sock[s].wlen = 0 /\ h.wire = Numbers(h.accepted - 0)
      BY <1>1, <2>10 DEF BytesOK
    <3>2. h.wire = Numbers(h.accepted)
      BY <2>5, <3>1
    <3>3. q.wlen = n - off
      BY <2>1, <2>2, <3>1
    <3>4. q.wlen <= l.accepted /\ l.accepted - q.wlen = h.accepted + off
      BY <1>4, <2>1, <2>5, <2>9, <3>3
    <3>5. h.wire \o more = Numbers(h.accepted + off)
      BY <2>5, <2>7, <3>2, NumbersGrow
    <3> QED BY <2>9, <3>4, <3>5
  <2>12. BytesOK(q, l)
    <3>1. sock[s].mode = "STREAM" => sock[s].wlen = 0 /\ l.mode = q.mode
      BY <1>1, <2>2, <2>9, <2>10 DEF BytesOK
    <3>2. l.mode = q.mode /\ ("LINKDEAD" \in sock[s].flags /\ sock[s].mode = "STREAM" => h.dead)
      BY <2>2, <2>9, <2>10 DEF BytesOK
    <3> QED BY <2>2, <2>9, <2>11, <3>1, <3>2 DEF BytesOK
  <2>13. Put(s, q)
    BY <1>4 DEF q
  <2> QED BY <1>1, <1>4, <2>2, <2>4, <2>9, <2>12, <2>13, BytesStored
<1>5. \A off \in (IF sock[s].mode = "TLS" THEN {-1, n} ELSE 1 .. n) :
        off \in {-1} \cup 1 .. n /\ (sock[s].mode = "STREAM" => off \in 1 .. n)
  BY SocketsAssumption
<1>6. \/ Fail(s, sock[s])
      \/ \E off \in (IF sock[s].mode = "TLS" THEN {-1, n} ELSE 1 .. n) :
           /\ Put(s, Queue(sock[s], n, off)) /\ UNCHANGED open
           /\ log' = [log EXCEPT ![sock[s].fd].accepted = @ + n,
                                 ![sock[s].fd].wire = @ \o [i \in 1 .. off |-> log[sock[s].fd].accepted + i]]
  BY Zenon DEF SocketWrite
<1> QED BY <1>3, <1>4, <1>5, <1>6

LEMMA BytesOfClose ==
  ASSUME SlotsInv, BytesInv, NEW o \in Objects, NEW s \in Slots, SocketClose(o, s) PROVE BytesKept
<1>1. CloseNow(s, sock[s]) /\ Live(s) /\ UNCHANGED <<made, log>>
  BY DEF SocketClose, Owns
<1> QED BY <1>1, LiveIsInUse, BytesAsTheyAre, BytesCloseQuietly

LEMMA BytesOfRelease ==
  ASSUME SlotsInv, BytesInv, NEW o \in Objects, NEW s \in Slots, NEW t \in Objects, SocketRelease(o, s, t)
  PROVE  BytesKept
<1> DEFINE r == [sock[s] EXCEPT !.flags = @ \cup {"RELEASE"}, !.rel = t]
<1>1. Live(s) /\ Put(s, r) /\ UNCHANGED <<open, made, log>>
  BY DEF SocketRelease, Owns
<1>2. Follows(sock[s], s) /\ sock[s] \in Slot /\ BytesOK(sock[s], log[sock[s].fd])
  BY <1>1, LiveIsInUse, BytesAsTheyAre
<1>3. Follows(r, s) /\ SameBytes(r, sock[s])
  BY <1>2 DEF Follows, Plausible, InUse, Slot, SameBytes
<1> HIDE DEF r
<1>4. BytesOK(r, log[sock[s].fd])
  BY <1>2, <1>3, SameBytesOK
<1> QED BY <1>1, <1>3, <1>4, BytesSame

LEMMA BytesOfAcquire ==
  ASSUME SlotsInv, BytesInv, NEW o \in Objects, NEW s \in Slots, SocketAcquire(o, s) PROVE BytesKept
<1> DEFINE r == [sock[s] EXCEPT !.flags = @ \ {"RELEASE"}, !.owner = o, !.rel = NoObject]
<1>1. Live(s) /\ Put(s, r) /\ UNCHANGED <<open, made, log>>
  BY DEF SocketAcquire
<1>2. Follows(sock[s], s) /\ sock[s] \in Slot /\ BytesOK(sock[s], log[sock[s].fd])
  BY <1>1, LiveIsInUse, BytesAsTheyAre
<1>3. Follows(r, s) /\ SameBytes(r, sock[s])
  BY <1>2 DEF Follows, Plausible, InUse, Slot, SameBytes
<1> HIDE DEF r
<1>4. BytesOK(r, log[sock[s].fd])
  BY <1>2, <1>3, SameBytesOK
<1> QED BY <1>1, <1>3, <1>4, BytesSame

\* close_referencing_sockets() flushes what is unsent on every slot it closes.
LEMMA BytesOfDestruct ==
  ASSUME SlotsInv, BytesInv, NEW o \in Objects, NEW t \in Objects, Destruct(o, t) PROVE BytesKept
<1> DEFINE R == Referencing(t)
<1>1. /\ UNCHANGED <<made, log>>
      /\ sock' = [s \in Slots |-> IF s \in R THEN AfterClose(sock[s]) ELSE sock[s]]
      /\ open' = {i \in open : \A s \in R : i \in StillOpen(sock[s])}
  BY DEF Destruct
<1>2. R \subseteq Slots /\ \A s \in R : InUse(sock[s])
  BY LiveIsInUse DEF Referencing
<1> HIDE DEF R
<1>3. ASSUME NEW s \in Slots, InUse(sock'[s]) PROVE BytesOK(sock'[s], log[sock'[s].fd])
  <2>1. CASE s \in R
    <3> DEFINE left == [sock[s] EXCEPT !.state = "FLUSHING", !.ssl = FALSE, !.ctx = FALSE]
    <3>1. InUse(sock[s]) /\ sock'[s] = AfterClose(sock[s])
      BY <1>1, <1>2, <2>1
    <3>2. sock[s] \in Slot /\ BytesOK(sock[s], log[sock[s].fd])
      BY <3>1, BytesAsTheyAre
    <3>3. sock'[s] = left
      BY <1>3, <3>1, ClearedIsOK DEF AfterClose
    <3>4. /\ left.state = "FLUSHING" /\ left.fd = sock[s].fd /\ left.flags = sock[s].flags
          /\ left.wlen = sock[s].wlen /\ left.mode = sock[s].mode
      BY <3>2 DEF Slot
    <3> HIDE DEF left
    <3> QED BY <3>2, <3>3, <3>4 DEF BytesOK
  <2>2. CASE s \notin R
    BY <1>1, <1>3, <2>2 DEF BytesInv
  <2> QED BY <2>1, <2>2
<1>4. BytesInv'
  BY <1>1, <1>3 DEF BytesInv
<1>5. ASSUME NEW i \in open \ open', log[i].mode = "STREAM", ~log'[i].dead
      PROVE  log'[i].wire = Numbers(log[i].accepted)
  <2>1. PICK s \in R : i \notin StillOpen(sock[s])
    BY <1>1, <1>5
  <2>2. ~Flushes(sock[s]) /\ i = sock[s].fd
    BY <1>5, <2>1 DEF StillOpen
  <2>3. sock[s] \in Slot /\ BytesOK(sock[s], log[i])
    BY <1>2, <2>2, BytesAsTheyAre
  <2>4. i \in 1 .. MaxMade
    BY <1>2, <2>2, SocketsAssumption DEF SlotsInv, SlotOK
  <2>5. log[i] \in Logs
    BY <2>4 DEF BytesInv
  <2>6. log[i].accepted \in Nat
    BY <2>5 DEF Logs
  <2> QED BY <1>1, <1>5, <2>2, <2>3, <2>6 DEF BytesOK, Flushes
<1> QED BY <1>4, <1>5 DEF BytesKept, NothingLost

LEMMA BytesOfReturn ==
  ASSUME SocketsInv, BytesInv, Return PROVE BytesKept
<1> DEFINE s == Head(stack).slot
           then == Head(stack).then
           armed == [sock[s] EXCEPT !.armed = @ \cup {"write"}]
           unset == [sock[s] EXCEPT !.flags = @ \ {"RELEASE"}, !.rel = NoObject]
<1>1. stack # <<>> /\ UNCHANGED <<made, log>> /\ SlotsInv
  BY DEF Return, SocketsInv
<1>2. Head(stack) \in Frame
  BY <1>1 DEF SocketsInv, CallsInv
<1>3. s \in Slots /\ then \in {"return", "close", "release", "written"}
  BY <1>2 DEF Frame
<1>4. /\ then = "return" => UNCHANGED <<sock, open>>
      /\ then = "close" => CloseNow(s, sock[s])
      /\ then = "written" => Put(s, IF sock[s].wlen = 0 THEN sock[s] ELSE armed) /\ UNCHANGED open
      /\ then = "release" => Put(s, IF Succeeded(s) THEN sock[s] ELSE unset) /\ UNCHANGED open
  BY <1>3 DEF Return
<1> HIDE DEF s, then
<1>5. SlotOK(sock[s], made) /\ sock[s] \in Slot
  BY <1>1, <1>3 DEF SlotsInv
<1>6. ASSUME Put(s, sock[s]), UNCHANGED open PROVE BytesKept
  <2>1. sock' = sock
    BY <1>1, <1>6 DEF Put, SlotsInv
  <2> QED BY <1>1, <1>6, <2>1, BytesStay
<1>7. ASSUME then = "return" PROVE BytesKept
  BY <1>1, <1>4, <1>7, BytesStay
<1>8. ASSUME then = "close" PROVE BytesKept
  <2>1. CASE InUse(sock[s])
    BY <1>1, <1>3, <1>4, <1>8, <2>1, BytesAsTheyAre, BytesCloseQuietly
  <2>2. CASE ~InUse(sock[s])
    <3>1. sock[s] = Cleared /\ ~Flushes(sock[s]) /\ sock[s].fd = 0
      BY <1>5, <2>2, ClearedIsOK DEF SlotOK, Cleared
    <3>2. Put(s, sock[s]) /\ open' = open \ {0}
      BY <1>4, <1>8, <3>1 DEF CloseNow, AfterClose, StillOpen
    <3>3. 0 \notin open
      BY <1>1 DEF SlotsInv, SlotOK, Descriptors
    <3> QED BY <1>6, <3>2, <3>3
  <2> QED BY <2>1, <2>2
<1>9. ASSUME then = "written" PROVE BytesKept
  <2>1. CASE sock[s].wlen = 0
    BY <1>4, <1>6, <1>9, <2>1
  <2>2. CASE sock[s].wlen # 0
    <3>1. InUse(sock[s])
      BY <1>5, <2>2 DEF SlotOK, Cleared
    <3>2. Follows(sock[s], s) /\ BytesOK(sock[s], log[sock[s].fd])
      BY <1>1, <1>3, <3>1, BytesAsTheyAre
    <3>3. Follows(armed, s) /\ SameBytes(armed, sock[s])
      BY <3>2 DEF Follows, Plausible, InUse, Slot, SameBytes
    <3>4. Put(s, armed) /\ UNCHANGED open
      BY <1>4, <1>9, <2>2
    <3> HIDE DEF armed
    <3>5. BytesOK(armed, log[sock[s].fd])
      BY <3>2, <3>3, SameBytesOK
    <3> QED BY <1>1, <1>3, <3>3, <3>4, <3>5, BytesSame
  <2> QED BY <2>1, <2>2
<1>10. ASSUME then = "release" PROVE BytesKept
  <2>1. CASE Succeeded(s)
    BY <1>4, <1>6, <1>10, <2>1
  <2>2. CASE ~Succeeded(s)
    <3>1. InUse(sock[s])
      BY <1>5, <2>2 DEF SlotOK, Cleared, Succeeded
    <3>2. Follows(sock[s], s) /\ BytesOK(sock[s], log[sock[s].fd])
      BY <1>1, <1>3, <3>1, BytesAsTheyAre
    <3>3. Follows(unset, s) /\ SameBytes(unset, sock[s])
      BY <3>2 DEF Follows, Plausible, InUse, Slot, SameBytes
    <3>4. Put(s, unset) /\ UNCHANGED open
      BY <1>4, <1>10, <2>2
    <3> HIDE DEF unset
    <3>5. BytesOK(unset, log[sock[s].fd])
      BY <3>2, <3>3, SameBytesOK
    <3> QED BY <1>1, <1>3, <3>3, <3>4, <3>5, BytesSame
  <2> QED BY <2>1, <2>2
<1> QED BY <1>3, <1>7, <1>8, <1>9, <1>10

LEMMA BytesOfReadEvent ==
  ASSUME SlotsInv, BytesInv, NEW s \in Slots, ReadEvent(s) PROVE BytesKept
<1>1. "read" \in sock[s].armed /\ UNCHANGED made
  BY DEF ReadEvent
<1>2. InUse(sock[s])
  BY <1>1 DEF SlotsInv, SlotOK, Cleared
<1>3. Follows(sock[s], s) /\ BytesOK(sock[s], log[sock[s].fd])
  BY <1>2, BytesAsTheyAre
<1>4. \/ sock[s].state = "HANDSHAKE" /\ Handshake(s, sock[s])
      \/ UNCHANGED <<sock, open, log>>
      \/ Fail(s, sock[s])
  BY DEF ReadEvent
<1>5. CASE sock[s].state = "HANDSHAKE" /\ Handshake(s, sock[s])
  BY <1>1, <1>3, <1>5, BytesHandshake
<1>6. CASE UNCHANGED <<sock, open, log>>
  BY <1>1, <1>6, BytesStay
<1>7. CASE Fail(s, sock[s])
  BY <1>1, <1>3, <1>7, BytesFail
<1> QED BY <1>4, <1>5, <1>6, <1>7

LEMMA BytesOfWriteEvent ==
  ASSUME SlotsInv, BytesInv, NEW s \in Slots, WriteEvent(s) PROVE BytesKept
<1> DEFINE r == [sock[s] EXCEPT !.armed = @ \ {"write"}]
<1>1. /\ "write" \in sock[s].armed /\ UNCHANGED made
      /\ IF r.state = "HANDSHAKE" THEN Handshake(s, r) ELSE WriteHandler(s, r)
  BY DEF WriteEvent
<1>2. InUse(sock[s])
  BY <1>1 DEF SlotsInv, SlotOK, Cleared
<1>3. Follows(sock[s], s) /\ BytesOK(sock[s], log[sock[s].fd])
  BY <1>2, BytesAsTheyAre
<1>4. Follows(r, s) /\ SameBytes(r, sock[s])
  BY <1>3 DEF Follows, Plausible, InUse, Slot, SameBytes
<1> HIDE DEF r
<1>5. BytesOK(r, log[sock[s].fd])
  BY <1>3, <1>4, SameBytesOK
<1> QED BY <1>1, <1>4, <1>5, BytesHandshake, BytesWriteHandler

LEMMA BytesInit ==
  ASSUME Init PROVE BytesInv
<1>1. sock = [s \in Slots |-> Cleared] /\ made = 0 /\ log = [i \in 1 .. MaxMade |-> Untouched]
  BY DEF Init
<1> QED BY <1>1, ClearedIsOK, UntouchedIsALog, SocketsAssumption DEF BytesInv

LEMMA BytesNext ==
  ASSUME SocketsInv, BytesInv, [Next]_vars PROVE BytesKept
<1>0. SlotsInv
  BY DEF SocketsInv
<1>1. CASE Return
  BY <1>1, BytesOfReturn
<1>2. ASSUME NEW s \in Slots, ReadEvent(s) \/ WriteEvent(s) PROVE BytesKept
  BY <1>0, <1>2, BytesOfReadEvent, BytesOfWriteEvent
<1>3. ASSUME NEW o \in Objects,
             Command(o) \/ (\E m \in Modes : SocketCreate(o, m)) \/ \E t \in Objects : Destruct(o, t)
      PROVE  BytesKept
  <2>1. CASE Command(o)
    <3>1. UNCHANGED <<sock, open, made, log>>
      BY <2>1 DEF Command
    <3> QED BY <3>1, BytesStay
  <2> QED BY <1>0, <1>3, <2>1, BytesOfCreate, BytesOfDestruct
<1>4. ASSUME NEW o \in Objects, NEW s \in Slots,
             \/ SocketBind(o, s) \/ SocketListen(o, s) \/ SocketAccept(o, s)
             \/ SocketConnect(o, s) \/ SocketClose(o, s) \/ SocketAcquire(o, s)
      PROVE  BytesKept
  BY <1>0, <1>4, BytesOfBind, BytesOfListen, BytesOfAccept, BytesOfConnect, BytesOfClose, BytesOfAcquire
<1>5. ASSUME NEW o \in Objects, NEW s \in Slots,
             \/ \E n \in 1 .. MaxBytes : SocketWrite(o, s, n)
             \/ \E t \in Objects : SocketRelease(o, s, t)
      PROVE  BytesKept
  BY <1>0, <1>5, BytesOfWrite, BytesOfRelease
<1>6. CASE UNCHANGED vars
  <2>1. UNCHANGED <<sock, open, made, log>>
    BY <1>6 DEF vars
  <2> QED BY <2>1, BytesStay
<1> QED BY <1>1, <1>2, <1>3, <1>4, <1>5, <1>6 DEF Next

\* A slot in use says of its connection how many accepted bytes are not on the wire
\* yet, and those are the last ones, after any step of any handler.
THEOREM BytesAreCounted == Spec => []BytesInv
<1>1. Init => BytesInv
  BY BytesInit
<1>2. SocketsInv /\ BytesInv /\ [Next]_vars => BytesInv'
  BY BytesNext DEF BytesKept
<1> QED BY <1>1, <1>2, SocketsInvariant, PTL DEF Spec

\* The bytes of a STREAM connection go out in the order in which socket_write() took
\* them, for any number of partial sends, of callbacks that write again and of closes
\* that flush, and for any number of bytes.
THEOREM StreamsStayInOrder == Spec => []StreamInOrder
<1>1. SocketsInv /\ BytesInv => StreamInOrder
  <2> SUFFICES ASSUME SocketsInv, BytesInv, NEW i \in open, log[i].mode = "STREAM"
               PROVE  log[i].wire = [j \in 1 .. Len(log[i].wire) |-> j]
    BY DEF StreamInOrder
  <2>1. PICK s \in Slots : InUse(sock[s]) /\ i = sock[s].fd
    BY DEF SocketsInv, SlotsInv, Descriptors
  <2>2. sock[s] \in Slot /\ BytesOK(sock[s], log[i]) /\ log[i] \in Logs
    BY <2>1, BytesAsTheyAre, FollowsFd DEF SocketsInv
  <2>3. sock[s].wlen \in Nat /\ log[i].accepted \in Nat
    BY <2>2 DEF Slot, Logs
  <2>4. log[i].accepted - sock[s].wlen \in Nat /\ log[i].wire = Numbers(log[i].accepted - sock[s].wlen)
    BY <2>2, <2>3 DEF BytesOK
  <2>5. Len(log[i].wire) = log[i].accepted - sock[s].wlen
    BY <2>4, NumbersGrow
  <2> QED BY <2>4, <2>5 DEF Numbers
<1> QED BY <1>1, SocketsInvariant, BytesAreCounted, PTL

\* No step closes the descriptor of a STREAM connection that did not fail before its
\* last byte was handed to the kernel: not a socket_close(), nor a destruct of the
\* owner, nor the end of a callback that wrote or closed in its turn.
THEOREM StreamsLoseNothing == Spec => StreamLosesNothing
<1>1. SocketsInv /\ BytesInv /\ [Next]_vars =>
        [\A i \in open \ open' : log[i].mode = "STREAM" /\ ~log'[i].dead =>
           log'[i].wire = [j \in 1..log[i].accepted |-> j]]_vars
  BY BytesNext DEF BytesKept, NothingLost, Numbers
<1> QED BY <1>1, SocketsInvariant, BytesAreCounted, PTL DEF Spec, StreamLosesNothing

-----------------------------------------------------------------------------
(* The releases                                                            *)

\* The socket_release() calls of slot s that wait for their callback, innermost first.
ReleasesIn(st, s) == {i \in 1 .. Len(st) : st[i].then = "release" /\ st[i].slot = s}

\* The innermost release succeeded if the flag is gone, the outer ones have all
\* succeeded, and no call that ends the slot runs above them.
ReleasesOK(st, r, s) ==
  /\ ReleasesIn(st, s) = {} => "RELEASE" \notin r.flags
  /\ \A i \in ReleasesIn(st, s) :
       /\ InUse(r)
       /\ st[i].took <=> (\E j \in ReleasesIn(st, s) : j < i) \/ "RELEASE" \notin r.flags
       /\ \A j \in 1 .. (i - 1) : st[j].then = "close" => st[j].slot # s

ReleaseInv == \A s \in Slots : ReleasesOK(stack, sock[s], s)

\* Two records that say the same of a release.
SameRelease(q, r) == (InUse(r) => InUse(q)) /\ ("RELEASE" \in q.flags <=> "RELEASE" \in r.flags)

LEMMA ReleasesSame ==
  ASSUME NEW st, NEW s, NEW r, NEW q, ReleasesOK(st, r, s), SameRelease(q, r) PROVE ReleasesOK(st, q, s)
BY DEF ReleasesOK, SameRelease

LEMMA NoReleases ==
  ASSUME NEW st, NEW s, NEW r, ReleasesIn(st, s) = {}, "RELEASE" \notin r.flags PROVE ReleasesOK(st, r, s)
BY DEF ReleasesOK

LEMMA FrameOnTop ==
  ASSUME NEW st \in Seq(Frame), NEW f \in Frame
  PROVE  /\ <<f>> \o st \in Seq(Frame) /\ Len(<<f>> \o st) = Len(st) + 1 /\ Len(st) \in Nat
         /\ (<<f>> \o st)[1] = f /\ \A i \in 1 .. Len(st) : (<<f>> \o st)[i + 1] = st[i]
OBVIOUS

\* LPC is called, by anything but a release of s.
LEMMA ReleasesUnder ==
  ASSUME NEW st \in Seq(Frame), NEW f \in Frame, NEW s, NEW r, ReleasesOK(st, r, s),
         ~(f.then = "release" /\ f.slot = s),
         f.then = "close" /\ f.slot = s => ReleasesIn(st, s) = {}
  PROVE  ReleasesOK(<<f>> \o st, r, s)
<1> SUFFICES ASSUME NEW q, q = <<f>> \o st PROVE ReleasesOK(q, r, s)
  OBVIOUS
<1>1. /\ q \in Seq(Frame) /\ Len(q) = Len(st) + 1 /\ Len(st) \in Nat
      /\ q[1] = f /\ \A i \in 1 .. Len(st) : q[i + 1] = st[i]
  BY FrameOnTop
<1>2. \A i \in 1 .. Len(q) : i \in ReleasesIn(q, s) <=> i # 1 /\ i - 1 \in ReleasesIn(st, s)
  <2> SUFFICES ASSUME NEW i \in 1 .. Len(q)
               PROVE  i \in ReleasesIn(q, s) <=> i # 1 /\ i - 1 \in ReleasesIn(st, s)
    OBVIOUS
  <2>1. CASE i = 1
    BY <1>1, <2>1 DEF ReleasesIn
  <2>2. CASE i # 1
    <3>1. i - 1 \in 1 .. Len(st) /\ (i - 1) + 1 = i
      BY <1>1, <2>2
    <3>2. q[i] = st[i - 1]
      BY <1>1, <3>1
    <3> QED BY <2>2, <3>1, <3>2 DEF ReleasesIn
  <2> QED BY <2>1, <2>2
<1>3. \A i \in ReleasesIn(st, s) : i \in 1 .. Len(st) /\ i + 1 \in 1 .. Len(q) /\ i + 1 \in ReleasesIn(q, s)
  <2> SUFFICES ASSUME NEW i \in ReleasesIn(st, s)
               PROVE  i \in 1 .. Len(st) /\ i + 1 \in 1 .. Len(q) /\ i + 1 \in ReleasesIn(q, s)
    OBVIOUS
  <2>1. i \in 1 .. Len(st) /\ i + 1 \in 1 .. Len(q) /\ (i + 1) - 1 = i /\ i + 1 # 1
    BY <1>1 DEF ReleasesIn
  <2> QED BY <1>2, <2>1
<1>4. ReleasesIn(q, s) = {} => "RELEASE" \notin r.flags
  BY <1>3 DEF ReleasesOK
<1>5. ASSUME NEW i \in ReleasesIn(q, s)
      PROVE  /\ InUse(r)
             /\ q[i].took <=> (\E j \in ReleasesIn(q, s) : j < i) \/ "RELEASE" \notin r.flags
             /\ \A j \in 1 .. (i - 1) : q[j].then = "close" => q[j].slot # s
  <2>1. i \in 1 .. Len(q)
    BY DEF ReleasesIn
  <2>6. i # 1 /\ i - 1 \in ReleasesIn(st, s)
    BY <1>2, <2>1
  <2>2. i # 1 /\ i - 1 \in ReleasesIn(st, s) /\ i - 1 \in 1 .. Len(st) /\ (i - 1) + 1 = i
    BY <1>1, <2>1, <2>6
  <2>3. q[i] = st[i - 1]
    BY <1>1, <2>2
  <2>4. (\E j \in ReleasesIn(q, s) : j < i) <=> (\E j \in ReleasesIn(st, s) : j < i - 1)
    <3>1. ASSUME NEW j \in ReleasesIn(q, s), j < i PROVE \E k \in ReleasesIn(st, s) : k < i - 1
      <4>1. j \in 1 .. Len(q)
        BY DEF ReleasesIn
      <4>2. j - 1 \in ReleasesIn(st, s) /\ j - 1 < i - 1
        BY <1>1, <1>2, <2>1, <3>1, <4>1
      <4> QED BY <4>2
    <3>2. ASSUME NEW j \in ReleasesIn(st, s), j < i - 1 PROVE \E k \in ReleasesIn(q, s) : k < i
      <4>1. j + 1 \in ReleasesIn(q, s) /\ j \in 1 .. Len(st) /\ j + 1 < i
        BY <1>1, <1>3, <2>1, <3>2
      <4> QED BY <4>1
    <3> QED BY <3>1, <3>2
  <2>5. ASSUME NEW j \in 1 .. (i - 1), q[j].then = "close" PROVE q[j].slot # s
    <3>1. CASE j = 1
      BY <1>1, <2>2, <2>5, <3>1
    <3>2. CASE j # 1
      <4>1. j - 1 \in 1 .. (i - 1) - 1 /\ j - 1 \in 1 .. Len(st) /\ (j - 1) + 1 = j
        BY <1>1, <2>1, <3>2
      <4>2. q[j] = st[j - 1]
        BY <1>1, <4>1
      <4> QED BY <2>2, <2>5, <4>1, <4>2 DEF ReleasesOK
    <3> QED BY <3>1, <3>2
  <2> QED BY <2>2, <2>3, <2>4, <2>5 DEF ReleasesOK
<1> QED BY <1>4, <1>5 DEF ReleasesOK

\* socket_release(): a release of s starts.
LEMMA ReleaseStarts ==
  ASSUME NEW st \in Seq(Frame), NEW f \in Frame, NEW s, NEW r, NEW q, ReleasesOK(st, r, s),
         f.then = "release", f.slot = s, f.took = FALSE, InUse(q),
         "RELEASE" \notin r.flags, "RELEASE" \in q.flags
  PROVE  ReleasesOK(<<f>> \o st, q, s)
<1> SUFFICES ASSUME NEW x, x = <<f>> \o st PROVE ReleasesOK(x, q, s)
  OBVIOUS
<1>1. /\ x \in Seq(Frame) /\ Len(x) = Len(st) + 1 /\ Len(st) \in Nat
      /\ x[1] = f /\ \A i \in 1 .. Len(st) : x[i + 1] = st[i]
  BY FrameOnTop
<1>2. 1 \in ReleasesIn(x, s)
  BY <1>1 DEF ReleasesIn
<1>3. ASSUME NEW i \in ReleasesIn(x, s)
      PROVE  /\ x[i].took <=> (\E j \in ReleasesIn(x, s) : j < i)
             /\ \A j \in 1 .. (i - 1) : x[j].then = "close" => x[j].slot # s
  <2>1. i \in 1 .. Len(x) /\ x[i].then = "release" /\ x[i].slot = s
    BY DEF ReleasesIn
  <2>2. CASE i = 1
    <3>1. \A j \in ReleasesIn(x, s) : ~(j < 1)
      BY <1>1 DEF ReleasesIn
    <3>2. ~x[i].took /\ \A j \in 1 .. (i - 1) : FALSE
      BY <1>1, <2>2
    <3> QED BY <2>2, <3>1, <3>2
  <2>3. CASE i # 1
    <3>1. i - 1 \in 1 .. Len(st) /\ (i - 1) + 1 = i /\ 1 < i
      BY <1>1, <2>1, <2>3
    <3>2. x[i] = st[i - 1]
      BY <1>1, <3>1
    <3>3. i - 1 \in ReleasesIn(st, s)
      BY <2>1, <3>1, <3>2 DEF ReleasesIn
    <3>4. x[i].took
      BY <3>2, <3>3 DEF ReleasesOK
    <3>5. ASSUME NEW j \in 1 .. (i - 1), x[j].then = "close" PROVE x[j].slot # s
      <4>1. CASE j = 1
        BY <1>1, <3>5, <4>1
      <4>2. CASE j # 1
        <5>1. j - 1 \in 1 .. (i - 1) - 1 /\ j - 1 \in 1 .. Len(st) /\ (j - 1) + 1 = j
          BY <1>1, <2>1, <4>2
        <5>2. x[j] = st[j - 1]
          BY <1>1, <5>1
        <5> QED BY <3>3, <3>5, <5>1, <5>2 DEF ReleasesOK
      <4> QED BY <4>1, <4>2
    <3> QED BY <1>2, <3>1, <3>4, <3>5
  <2> QED BY <2>2, <2>3
<1> QED BY <1>2, <1>3 DEF ReleasesOK

LEMMA FrameReplaced ==
  ASSUME NEW st \in Seq(Frame), NEW i \in 1 .. Len(st), NEW g \in Frame
  PROVE  \A x : x = [st EXCEPT ![i] = g] =>
           /\ x \in Seq(Frame) /\ Len(x) = Len(st) /\ Len(st) \in Nat /\ x[i] = g
           /\ \A j \in 1 .. Len(st) : j # i => x[j] = st[j]
BY ExceptSeq

\* socket_acquire(): the innermost release of s succeeds.
LEMMA ReleaseTaken ==
  ASSUME NEW st \in Seq(Frame), NEW s, NEW r, NEW q, ReleasesOK(st, r, s), InUse(r) => InUse(q),
         "RELEASE" \in r.flags, "RELEASE" \notin q.flags,
         NEW i \in ReleasesIn(st, s), \A j \in ReleasesIn(st, s) : ~(j < i),
         NEW g \in Frame, g.took = TRUE, g.then = st[i].then, g.slot = st[i].slot,
         NEW x, x = [st EXCEPT ![i] = g]
  PROVE  ReleasesOK(x, q, s) /\ \A t, p : t # s /\ ReleasesOK(st, p, t) => ReleasesOK(x, p, t)
<1>1. i \in 1 .. Len(st)
  BY DEF ReleasesIn
<1>2. /\ x \in Seq(Frame) /\ Len(x) = Len(st) /\ Len(st) \in Nat
      /\ x[i].took = TRUE /\ x[i].then = st[i].then /\ x[i].slot = st[i].slot
      /\ \A j \in 1 .. Len(st) : j # i => x[j] = st[j]
  <2>1. /\ x \in Seq(Frame) /\ Len(x) = Len(st) /\ Len(st) \in Nat /\ x[i] = g
        /\ \A j \in 1 .. Len(st) : j # i => x[j] = st[j]
    BY <1>1, FrameReplaced
  <2> QED BY <2>1
<1>3. \A t : ReleasesIn(x, t) = ReleasesIn(st, t)
  BY <1>2 DEF ReleasesIn
<1>4. \A t : \A k \in ReleasesIn(x, t) : \A j \in 1 .. (k - 1) : x[j].then = st[j].then /\ x[j].slot = st[j].slot
  <2> SUFFICES ASSUME NEW t, NEW k \in ReleasesIn(x, t), NEW j \in 1 .. (k - 1)
               PROVE  x[j].then = st[j].then /\ x[j].slot = st[j].slot
    OBVIOUS
  <2>1. j \in 1 .. Len(st)
    BY <1>2 DEF ReleasesIn
  <2> QED BY <1>2, <2>1
<1>5. ReleasesOK(x, q, s)
  <2>1. \A k \in ReleasesIn(st, s) : k \in 1 .. Len(st) /\ (k # i => i < k)
    BY <1>1, <1>2 DEF ReleasesIn
  <2>2. \A k \in ReleasesIn(st, s) : x[k].took
    BY <1>2, <2>1 DEF ReleasesOK
  <2>3. InUse(q)
    BY DEF ReleasesOK
  <2>4. \A k \in ReleasesIn(st, s) : \A j \in 1 .. (k - 1) : x[j].then = "close" => x[j].slot # s
    BY <1>3, <1>4 DEF ReleasesOK
  <2> QED BY <1>3, <2>2, <2>3, <2>4 DEF ReleasesOK
<1>6. ASSUME NEW t, NEW p, t # s, ReleasesOK(st, p, t) PROVE ReleasesOK(x, p, t)
  <2>1. \A k \in ReleasesIn(st, t) : x[k] = st[k]
    BY <1>2, <1>6 DEF ReleasesIn
  <2>2. \A k \in ReleasesIn(st, t) : \A j \in 1 .. (k - 1) : x[j].then = "close" => x[j].slot # t
    BY <1>3, <1>4, <1>6 DEF ReleasesOK
  <2> QED BY <1>3, <1>6, <2>1, <2>2 DEF ReleasesOK
<1> QED BY <1>5, <1>6

\* The innermost call of LPC returns.
LEMMA ReleaseReturns ==
  ASSUME NEW st \in Seq(Frame), st # <<>>, NEW s, NEW r, NEW q, ReleasesOK(st, r, s),
         \/ /\ Head(st).then = "release" /\ Head(st).slot = s
            /\ InUse(r) => InUse(q)
            /\ "RELEASE" \notin q.flags
         \/ Head(st).then = "close" /\ Head(st).slot = s /\ ("RELEASE" \notin r.flags => "RELEASE" \notin q.flags)
         \/ SameRelease(q, r) /\ (Head(st).then = "release" => Head(st).slot # s)
  PROVE  ReleasesOK(Tail(st), q, s)
<1> SUFFICES ASSUME NEW x, x = Tail(st) PROVE ReleasesOK(x, q, s)
  OBVIOUS
<1>1. /\ x \in Seq(Frame) /\ Len(st) = Len(x) + 1 /\ Len(x) \in Nat
      /\ Head(st) = st[1] /\ \A i \in 1 .. Len(x) : x[i] = st[i + 1]
  OBVIOUS
<1>2. \A i \in ReleasesIn(x, s) : i \in 1 .. Len(x) /\ i + 1 \in ReleasesIn(st, s)
  BY <1>1 DEF ReleasesIn
<1>3. \A i \in ReleasesIn(st, s) : i = 1 \/ i - 1 \in ReleasesIn(x, s)
  <2> SUFFICES ASSUME NEW i \in ReleasesIn(st, s), i # 1 PROVE i - 1 \in ReleasesIn(x, s)
    OBVIOUS
  <2>1. i - 1 \in 1 .. Len(x) /\ (i - 1) + 1 = i
    BY <1>1 DEF ReleasesIn
  <2>2. x[i - 1] = st[i]
    BY <1>1, <2>1
  <2> QED BY <2>1, <2>2 DEF ReleasesIn
<1>4. \A i \in ReleasesIn(x, s) : \A j \in 1 .. (i - 1) : x[j].then = "close" => x[j].slot # s
  <2> SUFFICES ASSUME NEW i \in ReleasesIn(x, s), NEW j \in 1 .. (i - 1), x[j].then = "close"
               PROVE  x[j].slot # s
    OBVIOUS
  <2>1. i \in 1 .. Len(x) /\ i + 1 \in ReleasesIn(st, s)
    BY <1>2
  <2>2. j \in 1 .. Len(x) /\ j + 1 \in 1 .. (i + 1) - 1
    BY <1>1, <2>1
  <2>3. x[j] = st[j + 1]
    BY <1>1, <2>2
  <2> QED BY <2>1, <2>2, <2>3 DEF ReleasesOK
<1>5. CASE /\ Head(st).then = "release" /\ Head(st).slot = s
           /\ InUse(r) => InUse(q)
           /\ "RELEASE" \notin q.flags
  <2>1. 1 \in ReleasesIn(st, s)
    BY <1>1, <1>5 DEF ReleasesIn
  <2>2. \A i \in ReleasesIn(x, s) : x[i].took /\ InUse(q)
    <3> SUFFICES ASSUME NEW i \in ReleasesIn(x, s) PROVE x[i].took /\ InUse(q)
      OBVIOUS
    <3>1. i \in 1 .. Len(x) /\ i + 1 \in ReleasesIn(st, s) /\ x[i] = st[i + 1] /\ 1 < i + 1
      BY <1>1, <1>2
    <3> QED BY <1>5, <2>1, <3>1 DEF ReleasesOK
  <2> QED BY <1>4, <1>5, <2>2 DEF ReleasesOK
<1>6. CASE Head(st).then = "close" /\ Head(st).slot = s /\ ("RELEASE" \notin r.flags => "RELEASE" \notin q.flags)
  <2>1. ReleasesIn(st, s) = {}
    <3> SUFFICES ASSUME NEW i \in ReleasesIn(st, s) PROVE FALSE
      OBVIOUS
    <3>1. i \in 1 .. Len(st) /\ st[i].then = "release"
      BY DEF ReleasesIn
    <3>2. 1 \in 1 .. (i - 1)
      BY <1>1, <1>6, <3>1
    <3> QED BY <1>1, <1>6, <3>2 DEF ReleasesOK
  <2>2. ReleasesIn(x, s) = {}
    BY <1>2, <2>1
  <2> QED BY <1>6, <2>1, <2>2 DEF ReleasesOK
<1>7. CASE SameRelease(q, r) /\ (Head(st).then = "release" => Head(st).slot # s)
  <2>1. 1 \notin ReleasesIn(st, s)
    BY <1>1, <1>7 DEF ReleasesIn
  <2>2. ReleasesIn(x, s) = {} => ReleasesIn(st, s) = {}
    BY <1>3, <2>1
  <2>3. ASSUME NEW i \in ReleasesIn(x, s)
        PROVE  InUse(q) /\ (x[i].took <=> (\E j \in ReleasesIn(x, s) : j < i) \/ "RELEASE" \notin q.flags)
    <3>1. i \in 1 .. Len(x) /\ i + 1 \in ReleasesIn(st, s) /\ x[i] = st[i + 1]
      BY <1>1, <1>2
    <3>2. (\E j \in ReleasesIn(st, s) : j < i + 1) <=> (\E j \in ReleasesIn(x, s) : j < i)
      <4>1. ASSUME NEW j \in ReleasesIn(st, s), j < i + 1 PROVE \E k \in ReleasesIn(x, s) : k < i
        <5>1. j - 1 \in ReleasesIn(x, s) /\ j \in 1 .. Len(st)
          BY <1>3, <2>1 DEF ReleasesIn
        <5>2. j - 1 < i
          BY <1>1, <3>1, <4>1, <5>1
        <5> QED BY <5>1, <5>2
      <4>2. ASSUME NEW j \in ReleasesIn(x, s), j < i PROVE \E k \in ReleasesIn(st, s) : k < i + 1
        <5>1. j + 1 \in ReleasesIn(st, s) /\ j \in 1 .. Len(x)
          BY <1>2
        <5>2. j + 1 < i + 1
          BY <1>1, <3>1, <4>2, <5>1
        <5> QED BY <5>1, <5>2
      <4> QED BY <4>1, <4>2
    <3> QED BY <1>7, <3>1, <3>2 DEF ReleasesOK, SameRelease
  <2> QED BY <1>4, <1>7, <2>2, <2>3 DEF ReleasesOK, SameRelease
<1> QED BY <1>5, <1>6, <1>7

\* The innermost release that socket_acquire() looks for exists.
LEMMA LeastExists ==
  ASSUME NEW S \in SUBSET Nat, S # {} PROVE \E i \in S : \A j \in S : ~(j < i)
<1> DEFINE R == {ss \in Nat \X Nat : ss[1] < ss[2]}
<1>1. IsWellFoundedOn(R, Nat)
  BY NatLessThanWellFounded, Zenon DEF OpToRel
<1> HIDE DEF R
<1>2. PICK i \in S : \A j \in S : ~(<<j, i>> \in R)
  BY <1>1, WFMin
<1>3. \A j \in S : j < i => <<j, i>> \in R
  <2> SUFFICES ASSUME NEW j \in S, j < i PROVE <<j, i>> \in R
    OBVIOUS
  <2>1. <<j, i>> \in Nat \X Nat /\ <<j, i>>[1] < <<j, i>>[2]
    OBVIOUS
  <2> QED BY <2>1 DEF R
<1> QED BY <1>2, <1>3

LEMMA ReleasingIsInnermost ==
  ASSUME stack \in Seq(Frame), NEW s, ReleasesIn(stack, s) # {}
  PROVE  Releasing(s) \in ReleasesIn(stack, s) /\ \A j \in ReleasesIn(stack, s) : ~(j < Releasing(s))
<1> DEFINE S == ReleasesIn(stack, s)
<1>1. S \in SUBSET Nat /\ Len(stack) \in Nat
  BY DEF ReleasesIn
<1>2. PICK i \in S : \A j \in S : ~(j < i)
  BY <1>1, LeastExists
<1>3. i \in 1 .. Len(stack) /\ stack[i].then = "release" /\ stack[i].slot = s
  BY DEF ReleasesIn
<1>4. \A j \in 1 .. (i - 1) : ~(stack[j].then = "release" /\ stack[j].slot = s)
  <2> SUFFICES ASSUME NEW j \in 1 .. (i - 1), stack[j].then = "release", stack[j].slot = s PROVE FALSE
    OBVIOUS
  <2>1. j \in 1 .. Len(stack) /\ j < i
    BY <1>1, <1>3
  <2> QED BY <1>2, <2>1 DEF ReleasesIn
<1> DEFINE k == Releasing(s)
<1>5. /\ k \in 1 .. Len(stack) /\ stack[k].then = "release" /\ stack[k].slot = s
      /\ \A j \in 1 .. (k - 1) : ~(stack[j].then = "release" /\ stack[j].slot = s)
  BY <1>3, <1>4 DEF Releasing
<1> HIDE DEF k
<1>6. \A j \in S : ~(j < k)
  <2> SUFFICES ASSUME NEW j \in S, j < k PROVE FALSE
    OBVIOUS
  <2>1. j \in 1 .. (k - 1)
    BY <1>1, <1>5 DEF ReleasesIn
  <2> QED BY <1>5, <2>1 DEF ReleasesIn
<1> QED BY <1>5, <1>6 DEF ReleasesIn, k

-----------------------------------------------------------------------------
(* What the steps do to the releases                                       *)

LEMMA UnfinishedReleases ==
  ASSUME NEW s, ~Unfinished(s) PROVE ReleasesIn(stack, s) = {}
BY DEF Unfinished, ReleasesIn

LEMMA Stacks == ASSUME SocketsInv PROVE SlotsInv /\ stack \in Seq(Frame) /\ destructed \subseteq Objects
BY DEF SocketsInv, CallsInv

LEMMA Putting ==
  ASSUME SlotsInv, NEW s \in Slots, NEW r, Put(s, r)
  PROVE  sock'[s] = r /\ \A t \in Slots : t # s => sock'[t] = sock[t]
BY DEF Put, SlotsInv

\* A slot gets a record that says the same, and no call starts or ends.
LEMMA ReleasesStored ==
  ASSUME SocketsInv, ReleaseInv, NEW s \in Slots, NEW r, SameRelease(r, sock[s]), Put(s, r), UNCHANGED stack
  PROVE  ReleaseInv'
<1>1. sock'[s] = r /\ \A t \in Slots : t # s => sock'[t] = sock[t]
  BY Stacks, Putting
<1>2. ASSUME NEW t \in Slots PROVE ReleasesOK(stack, sock'[t], t)
  BY <1>1, ReleasesSame DEF ReleaseInv
<1> QED BY <1>2 DEF ReleaseInv

\* A step of a handler on a slot that no caller is about to end.
Ends(s) ==
  /\ \E r : Put(s, r) /\ (SameRelease(r, sock[s]) \/ r = Cleared)
  /\ \/ UNCHANGED stack
     \/ \E f \in Frame : stack' = <<f>> \o stack /\ f.slot = s /\ f.then # "release"

LEMMA ReleasesEnded ==
  ASSUME SocketsInv, ReleaseInv, NEW s \in Slots, ~Unfinished(s), Ends(s) PROVE ReleaseInv'
<1>1. PICK r : Put(s, r) /\ (SameRelease(r, sock[s]) \/ r = Cleared)
  BY DEF Ends
<1>2. sock'[s] = r /\ \A t \in Slots : t # s => sock'[t] = sock[t]
  BY <1>1, Stacks, Putting
<1>3. ReleasesIn(stack, s) = {}
  BY UnfinishedReleases
<1>4. "RELEASE" \notin Cleared.flags
  BY DEF Cleared
<1>5. ASSUME NEW t \in Slots PROVE ReleasesOK(stack, sock'[t], t)
  BY <1>1, <1>2, <1>3, <1>4, ReleasesSame, NoReleases DEF ReleaseInv
<1>6. CASE UNCHANGED stack
  BY <1>5, <1>6 DEF ReleaseInv
<1>7. CASE \E f \in Frame : stack' = <<f>> \o stack /\ f.slot = s /\ f.then # "release"
  <2>1. PICK f \in Frame : stack' = <<f>> \o stack /\ f.slot = s /\ f.then # "release"
    BY <1>7
  <2>2. ASSUME NEW t \in Slots PROVE ReleasesOK(stack', sock'[t], t)
    <3>1. stack \in Seq(Frame)
      BY Stacks
    <3>2. ReleasesOK(<<f>> \o stack, sock'[t], t)
      BY <1>3, <1>5, <2>1, <3>1, ReleasesUnder
    <3> QED BY <2>1, <3>2
  <2> QED BY <2>2 DEF ReleaseInv
<1> QED BY <1>6, <1>7 DEF Ends

\* A record that a handler has made of the one in slot s, with what it says of a release.
Carries(r, s) == Follows(r, s) /\ ("RELEASE" \in r.flags <=> "RELEASE" \in sock[s].flags)

LEMMA CarriesSame ==
  ASSUME NEW s, NEW r, Carries(r, s) PROVE SameRelease(r, sock[s]) /\ Follows(r, s) /\ r \in Slot
BY DEF Carries, SameRelease, Follows, Plausible

\* A call of LPC starts for s.
Starts(then, s) == \E f \in Frame : stack' = <<f>> \o stack /\ f.slot = s /\ f.then = then /\ f.took = FALSE

LEMMA CallFrame ==
  ASSUME SocketsInv, NEW o \in Objects \cup {NoObject}, NEW then \in Afterwards, NEW s \in Slots, Call(o, then, s)
  PROVE  Starts(then, s)
<1> DEFINE f == [obj |-> IF o \in destructed THEN NoObject ELSE o, then |-> then, slot |-> s, took |-> FALSE]
<1>1. f \in Frame /\ f.slot = s /\ f.then = then /\ f.took = FALSE
  BY DEF Frame
<1>2. stack' = <<f>> \o stack
  BY DEF Call, Calling
<1> HIDE DEF f
<1> QED BY <1>1, <1>2 DEF Starts

LEMMA CloseEnds ==
  ASSUME NEW s \in Slots, NEW r, Carries(r, s), CloseNow(s, r), UNCHANGED stack PROVE Ends(s)
<1>1. CASE Flushes(r)
  <2> DEFINE left == [r EXCEPT !.state = "FLUSHING", !.ssl = FALSE, !.ctx = FALSE]
  <2>1. r \in Slot /\ ("RELEASE" \in r.flags <=> "RELEASE" \in sock[s].flags)
    BY DEF Carries, Follows, Plausible
  <2>2. left.state = "FLUSHING" /\ left.flags = r.flags
    BY <2>1 DEF Slot
  <2>3. Put(s, left)
    BY <1>1 DEF CloseNow, AfterClose
  <2> HIDE DEF left
  <2>4. SameRelease(left, sock[s])
    BY <2>1, <2>2 DEF SameRelease, InUse
  <2> QED BY <2>3, <2>4 DEF Ends
<1>2. CASE ~Flushes(r)
  BY <1>2 DEF CloseNow, AfterClose, Ends
<1> QED BY <1>1, <1>2

\* LPC is called after a record was stored.
LEMMA CallEnds ==
  ASSUME SocketsInv, NEW s \in Slots, NEW r, Carries(r, s), Put(s, r),
         NEW o \in Objects \cup {NoObject}, NEW then \in {"close", "written"}, Call(o, then, s)
  PROVE  Ends(s)
<1>1. \E f \in Frame : stack' = <<f>> \o stack /\ f.slot = s /\ f.then # "release"
  <2>1. then \in Afterwards /\ then # "release"
    OBVIOUS
  <2>2. Starts(then, s)
    BY <2>1, CallFrame
  <2>3. PICK f \in Frame : stack' = <<f>> \o stack /\ f.slot = s /\ f.then = then
    BY <2>2 DEF Starts
  <2> QED BY <2>1, <2>3
<1>2. SameRelease(r, sock[s])
  BY CarriesSame
<1> QED BY <1>1, <1>2 DEF Ends

LEMMA FailEnds ==
  ASSUME SocketsInv, NEW s \in Slots, NEW r, Carries(r, s), Fail(s, r) PROVE Ends(s)
<1> DEFINE dead == [r EXCEPT !.flags = @ \cup {"LINKDEAD"}]
<1>1. Carries(dead, s) /\ r.owner \in Objects \cup {NoObject}
  BY DEF Carries, Follows, Plausible, InUse, Slot
<1>2. \/ CloseNow(s, dead) /\ UNCHANGED stack
      \/ Put(s, dead) /\ Call(r.owner, "close", s)
  BY DEF Fail
<1> HIDE DEF dead
<1> QED BY <1>1, <1>2, CloseEnds, CallEnds

LEMMA UnblockedEnds ==
  ASSUME SocketsInv, NEW s \in Slots, NEW r, Carries(r, s), Unblocked(s, r) PROVE Ends(s)
<1> DEFINE free == [r EXCEPT !.flags = @ \ {"BLOCKED"}, !.woff = 0]
<1>1. r \in Slot
  BY DEF Carries, Follows, Plausible
<1>2. free \in Slot /\ free.state = r.state /\ free.fd = r.fd /\ free.flags = r.flags \ {"BLOCKED"}
  <2>1. [r EXCEPT !.flags = @ \ {"BLOCKED"}] \in Slot
    BY <1>1 DEF Slot
  <2>2. \A q \in Slot : [q EXCEPT !.woff = 0] \in Slot
    BY DEF Slot
  <2>3. free = [[r EXCEPT !.flags = @ \ {"BLOCKED"}] EXCEPT !.woff = 0]
    BY <1>1 DEF Slot
  <2>4. free.state = r.state /\ free.fd = r.fd /\ free.flags = r.flags \ {"BLOCKED"}
    BY <1>1 DEF Slot
  <2> QED BY <2>1, <2>2, <2>3, <2>4
<1>3. r.owner \in Objects \cup {NoObject}
  BY <1>1 DEF Slot
<1>4. \/ CloseNow(s, free) /\ UNCHANGED stack
      \/ Put(s, free) /\ Call(r.owner, "written", s)
  BY DEF Unblocked
<1> HIDE DEF free
<1>5. Carries(free, s)
  BY <1>2 DEF Carries, Follows, Plausible, InUse
<1> QED BY <1>3, <1>4, <1>5, CloseEnds, CallEnds

LEMMA PutEnds ==
  ASSUME NEW s \in Slots, NEW r, Carries(r, s), Put(s, r), UNCHANGED stack PROVE Ends(s)
BY CarriesSame DEF Ends

LEMMA WriteHandlerEnds ==
  ASSUME SocketsInv, NEW s \in Slots, NEW r, Carries(r, s), WriteHandler(s, r) PROVE Ends(s)
<1> DEFINE again(q) == [q EXCEPT !.armed = @ \cup {"write"}]
<1>1. ASSUME NEW q, Carries(q, s), Put(s, again(q)), UNCHANGED stack PROVE Ends(s)
  <2>1. Carries(again(q), s)
    BY <1>1 DEF Carries, Follows, Plausible, InUse, Slot
  <2> HIDE DEF again
  <2> QED BY <1>1, <2>1, PutEnds
<1>2. CASE Put(s, r) /\ UNCHANGED <<open, stack, log>>
  BY <1>2, PutEnds
<1>3. CASE Fail(s, r)
  BY <1>3, FailEnds
<1>4. CASE Put(s, again(r)) /\ UNCHANGED <<open, stack, log>>
  BY <1>1, <1>4
<1>5. ASSUME NEW k \in 1 .. r.wlen,
             LET rest == [r EXCEPT !.woff = @ + k, !.wlen = @ - k] IN
             IF rest.wlen = 0 THEN Unblocked(s, rest)
             ELSE Put(s, again(rest)) /\ UNCHANGED <<open, stack>>
      PROVE  Ends(s)
  <2> DEFINE rest == [r EXCEPT !.woff = @ + k, !.wlen = @ - k]
  <2>1. r \in Slot /\ r.wlen \in Nat /\ r.woff \in Int /\ r.wlen - k \in Nat /\ r.woff + k \in Int
    BY DEF Carries, Follows, Plausible, Slot
  <2>2. Carries(rest, s)
    BY <2>1 DEF Carries, Follows, Plausible, InUse, Slot
  <2>3. Unblocked(s, rest) \/ (Put(s, again(rest)) /\ UNCHANGED <<open, stack>>)
    BY <1>5
  <2> HIDE DEF rest, again
  <2> QED BY <1>1, <2>2, <2>3, UnblockedEnds
<1>6. CASE Unblocked(s, r)
  BY <1>6, UnblockedEnds
<1>7. CASE CloseNow(s, [r EXCEPT !.flags = @ \cup {"LINKDEAD"}]) /\ UNCHANGED <<stack, log>>
  <2> DEFINE dead == [r EXCEPT !.flags = @ \cup {"LINKDEAD"}]
  <2>1. Carries(dead, s)
    BY DEF Carries, Follows, Plausible, InUse, Slot
  <2>2. CloseNow(s, dead) /\ UNCHANGED stack
    BY <1>7
  <2> HIDE DEF dead
  <2> QED BY <2>1, <2>2, CloseEnds
<1> HIDE DEF again
<1> QED BY <1>2, <1>3, <1>4, <1>5, <1>6, <1>7 DEF WriteHandler, again

LEMMA HandshakeEnds ==
  ASSUME SocketsInv, NEW s \in Slots, NEW r, Carries(r, s), Handshake(s, r) PROVE Ends(s)
<1>1. ASSUME NEW armed \in {r.armed, r.armed \cup {"write"}}, Put(s, [r EXCEPT !.armed = armed]), UNCHANGED stack
      PROVE  Ends(s)
  <2>1. armed \in SUBSET {"read", "write"}
    BY DEF Carries, Follows, Plausible, Slot
  <2>2. Carries([r EXCEPT !.armed = armed], s)
    BY <2>1, ArmedFollows DEF Carries, Follows, Plausible, Slot
  <2> QED BY <1>1, <2>2, PutEnds
<1>2. CASE WriteHandler(s, [r EXCEPT !.state = "DATA_XFER", !.flags = @ \cup {"BLOCKED"},
                                     !.armed = @ \cup {"write"}])
  <2> DEFINE up == [r EXCEPT !.state = "DATA_XFER", !.flags = @ \cup {"BLOCKED"},
                             !.armed = @ \cup {"write"}]
  <2>1. Carries(up, s)
    BY DEF Carries, Follows, Plausible, InUse, Slot
  <2>2. WriteHandler(s, up)
    BY <1>2
  <2> HIDE DEF up
  <2> QED BY <2>1, <2>2, WriteHandlerEnds
<1>3. CASE CloseNow(s, [r EXCEPT !.flags = @ \ {"BLOCKED"}]) /\ UNCHANGED <<stack, log>>
  <2> DEFINE free == [r EXCEPT !.flags = @ \ {"BLOCKED"}]
  <2>1. Carries(free, s)
    BY DEF Carries, Follows, Plausible, InUse, Slot, Flushes
  <2>2. CloseNow(s, free) /\ UNCHANGED stack
    BY <1>3
  <2> HIDE DEF free
  <2> QED BY <2>1, <2>2, CloseEnds
<1> QED BY <1>1, <1>2, <1>3 DEF Handshake

\* A slot in use, as it is.
LEMMA CarriesItself ==
  ASSUME SocketsInv, NEW s \in Slots, InUse(sock[s]) PROVE Carries(sock[s], s) /\ sock[s] \in Slot
BY SlotFollows DEF SocketsInv, Carries

LEMMA EndsKeeps ==
  ASSUME SocketsInv, ReleaseInv, NEW s \in Slots, ~CallbacksClose, MayEnd(s), Ends(s) PROVE ReleaseInv'
BY ReleasesEnded DEF MayEnd

\* A closed slot takes a new socket.
LEMMA ReleasesOfNew ==
  ASSUME SocketsInv, ReleaseInv, NEW s \in Slots, ~InUse(sock[s]), NEW o, NEW m, NEW state, NEW armed,
         Put(s, NewSock(o, m, state, armed)), UNCHANGED stack
  PROVE  ReleaseInv'
<1> DEFINE r == NewSock(o, m, state, armed)
<1>1. r.flags = {}
  BY DEF NewSock, Cleared
<1>2. Put(s, r)
  OBVIOUS
<1> HIDE DEF r
<1>3. sock'[s] = r /\ \A t \in Slots : t # s => sock'[t] = sock[t]
  BY <1>2, Stacks, Putting
<1>4. ReleasesIn(stack, s) = {}
  BY DEF ReleaseInv, ReleasesOK
<1>5. ASSUME NEW t \in Slots PROVE ReleasesOK(stack, sock'[t], t)
  BY <1>1, <1>3, <1>4, NoReleases DEF ReleaseInv
<1> QED BY <1>5 DEF ReleaseInv

LEMMA ReleasesOfSockets ==
  ASSUME SocketsInv, ReleaseInv, NEW o \in Objects, NEW s \in Slots,
         \/ \E m \in Modes : SocketCreate(o, m)
         \/ SocketAccept(o, s)
  PROVE  ReleaseInv'
<1>1. CASE \E m \in Modes : SocketCreate(o, m)
  <2>1. PICK m \in Modes : SocketCreate(o, m)
    BY <1>1
  <2>2. PICK new \in Slots : sock[new].state = "CLOSED" /\ Put(new, NewSock(o, m, "UNBOUND", {}))
    BY <2>1 DEF SocketCreate, IsNewSlot
  <2> QED BY <2>1, <2>2, ReleasesOfNew DEF SocketCreate, InUse
<1>2. CASE SocketAccept(o, s)
  <2> DEFINE state == IF sock[s].mode = "TLS" THEN "HANDSHAKE" ELSE "DATA_XFER"
  <2>1. PICK new \in Slots : sock[new].state = "CLOSED" /\ Put(new, NewSock(o, sock[s].mode, state, {"read", "write"}))
    BY <1>2 DEF SocketAccept, IsNewSlot
  <2> HIDE DEF state
  <2> QED BY <1>2, <2>1, ReleasesOfNew DEF SocketAccept, InUse
<1> QED BY <1>1, <1>2

LEMMA ReleasesOfSetup ==
  ASSUME SocketsInv, ReleaseInv, NEW o \in Objects, NEW s \in Slots, SocketBind(o, s) \/ SocketListen(o, s)
  PROVE  ReleaseInv'
<1>1. InUse(sock[s]) /\ UNCHANGED stack
  BY DEF SocketBind, SocketListen, InUse
<1>2. sock[s] \in Slot
  BY <1>1, CarriesItself
<1>3. CASE SocketBind(o, s)
  <2> DEFINE armed == IF sock[s].mode = "DATAGRAM" THEN {"read"} ELSE {}
             r == [sock[s] EXCEPT !.state = "BOUND", !.armed = armed]
  <2>1. Put(s, r)
    BY <1>3 DEF SocketBind
  <2>2. SameRelease(r, sock[s])
    BY <1>2 DEF SameRelease, InUse, Slot
  <2> HIDE DEF r
  <2> QED BY <1>1, <2>1, <2>2, ReleasesStored
<1>4. CASE SocketListen(o, s)
  <2>1. PICK ctx \in BOOLEAN : Put(s, [sock[s] EXCEPT !.state = "LISTEN", !.armed = {"read"}, !.ctx = ctx])
    BY <1>4 DEF SocketListen
  <2> DEFINE r == [sock[s] EXCEPT !.state = "LISTEN", !.armed = {"read"}, !.ctx = ctx]
  <2>2. SameRelease(r, sock[s])
    BY <1>2 DEF SameRelease, InUse, Slot
  <2>3. Put(s, r)
    BY <2>1
  <2> HIDE DEF r
  <2> QED BY <1>1, <2>2, <2>3, ReleasesStored
<1> QED BY <1>3, <1>4

LEMMA ReleasesOfConnect ==
  ASSUME SocketsInv, ReleaseInv, ~CallbacksClose, NEW o \in Objects, NEW s \in Slots, SocketConnect(o, s)
  PROVE  ReleaseInv'
<1> DEFINE r == [sock[s] EXCEPT !.armed = {"read", "write"}]
           secure == [r EXCEPT !.state = "HANDSHAKE", !.ssl = TRUE, !.ctx = TRUE]
           plain == [r EXCEPT !.state = "DATA_XFER", !.flags = @ \cup {"BLOCKED"}]
<1>1. /\ sock[s].state \in {"UNBOUND", "BOUND"}
      /\ (MayEnd(s) /\ Handshake(s, secure)) \/ (Put(s, plain) /\ UNCHANGED stack)
  BY DEF SocketConnect
<1>2. Carries(sock[s], s)
  BY <1>1, CarriesItself DEF InUse
<1>3. Carries(secure, s) /\ Carries(plain, s)
  BY <1>1, <1>2 DEF Carries, Follows, Plausible, InUse, Slot
<1> HIDE DEF secure, plain
<1>4. CASE MayEnd(s) /\ Handshake(s, secure)
  BY <1>3, <1>4, HandshakeEnds, EndsKeeps
<1>5. CASE Put(s, plain) /\ UNCHANGED stack
  BY <1>3, <1>5, CarriesSame, ReleasesStored
<1> QED BY <1>1, <1>4, <1>5

LEMMA ReleasesOfWrite ==
  ASSUME SocketsInv, ReleaseInv, ~CallbacksClose, NEW o \in Objects, NEW s \in Slots, NEW n \in 1 .. MaxBytes,
         SocketWrite(o, s, n)
  PROVE  ReleaseInv'
<1>1. sock[s].state = "DATA_XFER"
  BY DEF SocketWrite
<1>2. Carries(sock[s], s) /\ sock[s] \in Slot
  BY <1>1, CarriesItself DEF InUse
<1>3. CASE MayEnd(s) /\ Fail(s, sock[s])
  BY <1>2, <1>3, FailEnds, EndsKeeps
<1>4. ASSUME NEW off, Put(s, Queue(sock[s], n, off)), UNCHANGED stack PROVE ReleaseInv'
  <2> DEFINE q == Queue(sock[s], n, off)
  <2>1. SameRelease(q, sock[s])
    BY <1>2 DEF Queue, SameRelease, InUse, Slot
  <2> HIDE DEF q
  <2> QED BY <1>4, <2>1, ReleasesStored DEF q
<1>5. \/ MayEnd(s) /\ Fail(s, sock[s])
      \/ \E off : Put(s, Queue(sock[s], n, off)) /\ UNCHANGED stack
  BY Zenon DEF SocketWrite
<1> QED BY <1>3, <1>4, <1>5

LEMMA ReleasesOfClose ==
  ASSUME SocketsInv, ReleaseInv, ~CallbacksClose, NEW o \in Objects, NEW s \in Slots, SocketClose(o, s)
  PROVE  ReleaseInv'
<1>1. Live(s) /\ MayEnd(s) /\ CloseNow(s, sock[s]) /\ UNCHANGED stack
  BY DEF SocketClose, Owns
<1>2. Carries(sock[s], s)
  BY <1>1, LiveIsInUse, CarriesItself
<1> QED BY <1>1, <1>2, CloseEnds, EndsKeeps

LEMMA ReleasesOfRelease ==
  ASSUME SocketsInv, ReleaseInv, NEW o \in Objects, NEW s \in Slots, NEW t \in Objects, SocketRelease(o, s, t)
  PROVE  ReleaseInv'
<1> DEFINE r == [sock[s] EXCEPT !.flags = @ \cup {"RELEASE"}, !.rel = t]
<1>1. Live(s) /\ "RELEASE" \notin sock[s].flags /\ Put(s, r) /\ Call(t, "release", s)
  BY DEF SocketRelease, Owns
<1>2. InUse(sock[s]) /\ sock[s] \in Slot
  BY <1>1, LiveIsInUse, CarriesItself
<1>3. InUse(r) /\ "RELEASE" \in r.flags
  BY <1>2 DEF InUse, Slot
<1> HIDE DEF r
<1>7. Starts("release", s)
  BY <1>1, CallFrame
<1>4. PICK f \in Frame : stack' = <<f>> \o stack /\ f.slot = s /\ f.then = "release" /\ f.took = FALSE
  BY <1>7 DEF Starts
<1>5. sock'[s] = r /\ \A u \in Slots : u # s => sock'[u] = sock[u]
  BY <1>1, Stacks, Putting
<1>6. ASSUME NEW u \in Slots PROVE ReleasesOK(<<f>> \o stack, sock'[u], u)
  <2>1. stack \in Seq(Frame) /\ ReleasesOK(stack, sock[u], u)
    BY Stacks DEF ReleaseInv
  <2>2. CASE u = s
    BY <1>1, <1>3, <1>4, <1>5, <2>1, <2>2, ReleaseStarts
  <2>3. CASE u # s
    BY <1>4, <1>5, <2>1, <2>3, ReleasesUnder
  <2> QED BY <2>2, <2>3
<1> QED BY <1>4, <1>6 DEF ReleaseInv

LEMMA ReleasesOfAcquire ==
  ASSUME SocketsInv, ReleaseInv, NEW o \in Objects, NEW s \in Slots, SocketAcquire(o, s) PROVE ReleaseInv'
<1> DEFINE r == [sock[s] EXCEPT !.flags = @ \ {"RELEASE"}, !.owner = o, !.rel = NoObject]
           i == Releasing(s)
           g == [stack[i] EXCEPT !.took = TRUE]
<1>1. Live(s) /\ "RELEASE" \in sock[s].flags /\ Put(s, r) /\ stack' = [stack EXCEPT ![i] = g]
  BY DEF SocketAcquire
<1>2. InUse(sock[s]) /\ sock[s] \in Slot
  BY <1>1, LiveIsInUse, CarriesItself
<1>3. InUse(r) /\ "RELEASE" \notin r.flags
  BY <1>2 DEF InUse, Slot
<1>4. stack \in Seq(Frame) /\ ReleasesOK(stack, sock[s], s)
  BY Stacks DEF ReleaseInv
<1>5. i \in ReleasesIn(stack, s) /\ \A j \in ReleasesIn(stack, s) : ~(j < i)
  <2>1. ReleasesIn(stack, s) # {}
    BY <1>1, <1>4 DEF ReleasesOK
  <2> QED BY <1>4, <2>1, ReleasingIsInnermost
<1> HIDE DEF r, i
<1>6. g \in Frame /\ g.took = TRUE /\ g.then = stack[i].then /\ g.slot = stack[i].slot
  <2>1. i \in 1 .. Len(stack)
    BY <1>5 DEF ReleasesIn
  <2>2. stack[i] \in Frame
    BY <1>4, <2>1
  <2> QED BY <2>2 DEF Frame
<1> HIDE DEF g
<1>7. sock'[s] = r /\ \A u \in Slots : u # s => sock'[u] = sock[u]
  BY <1>1, Stacks, Putting
<1>8. /\ ReleasesOK(stack', r, s)
      /\ \A t, p : t # s /\ ReleasesOK(stack, p, t) => ReleasesOK(stack', p, t)
  BY <1>1, <1>3, <1>4, <1>5, <1>6, ReleaseTaken
<1>9. ASSUME NEW u \in Slots PROVE ReleasesOK(stack', sock'[u], u)
  BY <1>7, <1>8 DEF ReleaseInv
<1> QED BY <1>9 DEF ReleaseInv

LEMMA ReleasesOfDestruct ==
  ASSUME SocketsInv, ReleaseInv, ~CallbacksClose, NEW o \in Objects, NEW t \in Objects, Destruct(o, t)
  PROVE  ReleaseInv'
<1> DEFINE R == Referencing(t)
<1>1. /\ UNCHANGED stack /\ \A s \in R : MayEnd(s)
      /\ sock' = [s \in Slots |-> IF s \in R THEN AfterClose(sock[s]) ELSE sock[s]]
  BY DEF Destruct
<1>2. \A s \in R : InUse(sock[s])
  BY LiveIsInUse DEF Referencing
<1> HIDE DEF R
<1>3. ASSUME NEW s \in Slots PROVE ReleasesOK(stack, sock'[s], s)
  <2>1. CASE s \notin R
    BY <1>1, <2>1 DEF ReleaseInv
  <2>2. CASE s \in R /\ ~Flushes(sock[s])
    <3>1. sock'[s] = Cleared
      BY <1>1, <2>2 DEF AfterClose
    <3>2. ReleasesIn(stack, s) = {}
      BY <1>1, <2>2, UnfinishedReleases DEF MayEnd
    <3> QED BY <3>1, <3>2, NoReleases DEF Cleared
  <2>3. CASE s \in R /\ Flushes(sock[s])
    <3> DEFINE left == [sock[s] EXCEPT !.state = "FLUSHING", !.ssl = FALSE, !.ctx = FALSE]
    <3>1. sock'[s] = left
      BY <1>1, <2>3 DEF AfterClose
    <3>2. sock[s] \in Slot
      BY <1>2, <2>3, CarriesItself
    <3>3. SameRelease(left, sock[s])
      BY <3>2 DEF SameRelease, InUse, Slot
    <3> HIDE DEF left
    <3> QED BY <3>1, <3>3, ReleasesSame DEF ReleaseInv
  <2> QED BY <2>1, <2>2, <2>3
<1> QED BY <1>1, <1>3 DEF ReleaseInv

LEMMA ReleasesOfReturn ==
  ASSUME SocketsInv, ReleaseInv, Return PROVE ReleaseInv'
<1> DEFINE s == Head(stack).slot
           then == Head(stack).then
           armed == [sock[s] EXCEPT !.armed = @ \cup {"write"}]
           unset == [sock[s] EXCEPT !.flags = @ \ {"RELEASE"}, !.rel = NoObject]
<1>1. stack # <<>> /\ stack' = Tail(stack) /\ SlotsInv /\ stack \in Seq(Frame)
  BY Stacks DEF Return
<1>2. Head(stack) \in Frame
  BY <1>1
<1>3. s \in Slots /\ then \in {"return", "close", "release", "written"}
  BY <1>2 DEF Frame
<1>4. /\ then = "return" => UNCHANGED sock
      /\ then = "close" => CloseNow(s, sock[s])
      /\ then = "written" => Put(s, IF sock[s].wlen = 0 THEN sock[s] ELSE armed)
      /\ then = "release" => Put(s, IF Succeeded(s) THEN sock[s] ELSE unset)
  BY <1>3 DEF Return
<1>5. \A t \in Slots : ReleasesOK(stack, sock[t], t) /\ SameRelease(sock[t], sock[t])
  BY DEF ReleaseInv, SameRelease
<1>6. Head(stack).slot = s /\ Head(stack).then = then
  OBVIOUS
<1> HIDE DEF s, then
<1>7. sock[s] \in Slot
  BY <1>1, <1>3 DEF SlotsInv
<1>8. ASSUME NEW r, Put(s, r),
             \/ then = "release" /\ (InUse(sock[s]) => InUse(r)) /\ "RELEASE" \notin r.flags
             \/ then = "close" /\ ("RELEASE" \notin sock[s].flags => "RELEASE" \notin r.flags)
             \/ then # "release" /\ SameRelease(r, sock[s])
      PROVE  ReleaseInv'
  <2>1. sock'[s] = r /\ \A t \in Slots : t # s => sock'[t] = sock[t]
    BY <1>1, <1>3, <1>8, Putting
  <2>2. ReleasesOK(stack', sock'[s], s)
    BY <1>1, <1>3, <1>5, <1>6, <1>8, <2>1, ReleaseReturns
  <2>3. ASSUME NEW t \in Slots, t # s PROVE ReleasesOK(stack', sock'[t], t)
    BY <1>1, <1>5, <1>6, <2>1, <2>3, ReleaseReturns
  <2> QED BY <2>2, <2>3 DEF ReleaseInv
<1>9. CASE then = "return"
  <2>1. Put(s, sock[s])
    BY <1>1, <1>4, <1>9 DEF Put, SlotsInv
  <2> QED BY <1>3, <1>5, <1>8, <1>9, <2>1
<1>10. CASE then = "close"
  <2> DEFINE r == AfterClose(sock[s])
  <2>1. Put(s, r)
    BY <1>4, <1>10 DEF CloseNow
  <2>2. "RELEASE" \notin sock[s].flags => "RELEASE" \notin r.flags
    BY <1>7 DEF AfterClose, Slot, Cleared
  <2> HIDE DEF r
  <2> QED BY <1>8, <1>10, <2>1, <2>2
<1>11. CASE then = "written"
  <2>1. CASE sock[s].wlen = 0
    BY <1>3, <1>4, <1>5, <1>8, <1>11, <2>1
  <2>2. CASE sock[s].wlen # 0
    <3>1. SameRelease(armed, sock[s])
      BY <1>7 DEF SameRelease, InUse, Slot
    <3>2. Put(s, armed)
      BY <1>4, <1>11, <2>2
    <3> HIDE DEF armed
    <3> QED BY <1>8, <1>11, <3>1, <3>2
  <2> QED BY <2>1, <2>2
<1>12. CASE then = "release"
  <2>1. CASE Succeeded(s)
    BY <1>4, <1>8, <1>12, <2>1 DEF Succeeded
  <2>2. CASE ~Succeeded(s)
    <3>1. (InUse(sock[s]) => InUse(unset)) /\ "RELEASE" \notin unset.flags
      BY <1>7 DEF InUse, Slot
    <3>2. Put(s, unset)
      BY <1>4, <1>12, <2>2
    <3> HIDE DEF unset
    <3> QED BY <1>8, <1>12, <3>1, <3>2
  <2> QED BY <2>1, <2>2
<1> QED BY <1>3, <1>9, <1>10, <1>11, <1>12

\* No call is open when the backend starts a command or libevent an event.
LEMMA NothingOpen ==
  ASSUME stack = <<>>, NEW s PROVE ~Unfinished(s) /\ ReleasesIn(stack, s) = {}
<1>1. Len(stack) = 0
  OBVIOUS
<1> QED BY <1>1 DEF Unfinished, ReleasesIn

\* A call that no release waits for starts, and the slots stay.
LEMMA ReleasesOfCall ==
  ASSUME SocketsInv, ReleaseInv, stack = <<>>, UNCHANGED sock,
         NEW f \in Frame, f.then = "return", stack' = <<f>> \o stack
  PROVE  ReleaseInv'
<1>1. ASSUME NEW t \in Slots PROVE ReleasesOK(<<f>> \o stack, sock[t], t)
  <2>1. stack \in Seq(Frame) /\ ReleasesOK(stack, sock[t], t)
    BY Stacks DEF ReleaseInv
  <2> QED BY <2>1, ReleasesUnder
<1> QED BY <1>1 DEF ReleaseInv

LEMMA ReleasesOfEvents ==
  ASSUME SocketsInv, ReleaseInv, NEW s \in Slots, ReadEvent(s) \/ WriteEvent(s) PROVE ReleaseInv'
<1> DEFINE r == [sock[s] EXCEPT !.armed = @ \ {"write"}]
<1>1. stack = <<>> /\ sock[s].armed # {}
  BY DEF ReadEvent, WriteEvent
<1>2. InUse(sock[s])
  BY <1>1, Stacks DEF SlotsInv, SlotOK, Cleared
<1>3. Carries(sock[s], s) /\ sock[s] \in Slot
  BY <1>2, CarriesItself
<1>4. Carries(r, s)
  BY <1>3 DEF Carries, Follows, Plausible, InUse, Slot
<1>5. sock[s].owner \in Objects \cup {NoObject}
  BY <1>3 DEF Slot
<1>6. CASE WriteEvent(s)
  <2>1. Handshake(s, r) \/ WriteHandler(s, r)
    BY <1>6 DEF WriteEvent
  <2> HIDE DEF r
  <2>2. Ends(s)
    BY <1>4, <2>1, HandshakeEnds, WriteHandlerEnds
  <2> QED BY <1>1, <2>2, NothingOpen, ReleasesEnded
<1>7. CASE ReadEvent(s)
  <2>1. \/ Handshake(s, sock[s])
        \/ UNCHANGED <<sock, stack>>
        \/ Call(sock[s].owner, "return", s) /\ UNCHANGED sock
        \/ Fail(s, sock[s])
    BY <1>7 DEF ReadEvent
  <2>2. CASE Handshake(s, sock[s]) \/ Fail(s, sock[s])
    <3>1. Ends(s)
      BY <1>3, <2>2, HandshakeEnds, FailEnds
    <3> QED BY <1>1, <3>1, NothingOpen, ReleasesEnded
  <2>3. CASE UNCHANGED <<sock, stack>>
    BY <2>3 DEF ReleaseInv
  <2>4. CASE Call(sock[s].owner, "return", s) /\ UNCHANGED sock
    <3>2. Starts("return", s)
      BY <1>5, <2>4, CallFrame
    <3>1. PICK f \in Frame : stack' = <<f>> \o stack /\ f.then = "return"
      BY <3>2 DEF Starts
    <3> QED BY <1>1, <2>4, <3>1, ReleasesOfCall
  <2> QED BY <2>1, <2>2, <2>3, <2>4
<1> QED BY <1>6, <1>7

LEMMA ReleasesOfCommand ==
  ASSUME SocketsInv, ReleaseInv, NEW o \in Objects, Command(o) PROVE ReleaseInv'
<1> DEFINE s == CHOOSE t \in Slots : TRUE
           f == [obj |-> o, then |-> "return", slot |-> s, took |-> FALSE]
<1>1. s \in Slots
  BY SocketsAssumption
<1>2. stack = <<>> /\ stack' = <<f>> \o stack /\ UNCHANGED sock
  BY DEF Command, Calling
<1> HIDE DEF s
<1>3. f \in Frame /\ f.then = "return"
  BY <1>1 DEF Frame
<1> HIDE DEF f
<1> QED BY <1>2, <1>3, ReleasesOfCall

LEMMA ReleasesInit ==
  ASSUME Init PROVE ReleaseInv
<1>1. stack = <<>> /\ \A s \in Slots : "RELEASE" \notin sock[s].flags
  BY DEF Init, Cleared
<1>2. ASSUME NEW s \in Slots PROVE ReleasesOK(stack, sock[s], s)
  BY <1>1, NothingOpen, NoReleases
<1> QED BY <1>2 DEF ReleaseInv

LEMMA ReleasesNext ==
  ASSUME SocketsInv, ReleaseInv, ~CallbacksClose, [Next]_vars PROVE ReleaseInv'
<1>1. CASE Return
  BY <1>1, ReleasesOfReturn
<1>2. ASSUME NEW s \in Slots, ReadEvent(s) \/ WriteEvent(s) PROVE ReleaseInv'
  BY <1>2, ReleasesOfEvents
<1>3. ASSUME NEW o \in Objects,
             Command(o) \/ (\E m \in Modes : SocketCreate(o, m)) \/ \E t \in Objects : Destruct(o, t)
      PROVE  ReleaseInv'
  <2>1. PICK s \in Slots : TRUE
    BY SocketsAssumption
  <2> QED BY <1>3, <2>1, ReleasesOfCommand, ReleasesOfSockets, ReleasesOfDestruct
<1>4. ASSUME NEW o \in Objects, NEW s \in Slots,
             \/ SocketBind(o, s) \/ SocketListen(o, s) \/ SocketAccept(o, s)
             \/ SocketConnect(o, s) \/ SocketClose(o, s) \/ SocketAcquire(o, s)
      PROVE  ReleaseInv'
  BY <1>4, ReleasesOfSetup, ReleasesOfSockets, ReleasesOfConnect, ReleasesOfClose, ReleasesOfAcquire
<1>5. ASSUME NEW o \in Objects, NEW s \in Slots,
             \/ \E n \in 1 .. MaxBytes : SocketWrite(o, s, n)
             \/ \E t \in Objects : SocketRelease(o, s, t)
      PROVE  ReleaseInv'
  BY <1>5, ReleasesOfWrite, ReleasesOfRelease
<1>6. CASE UNCHANGED vars
  BY <1>6 DEF vars, ReleaseInv
<1> QED BY <1>1, <1>2, <1>3, <1>4, <1>5, <1>6 DEF Next

\* socket_release() answers EESUCCESS exactly when the other object has acquired the
\* socket from its release callback, however deeply releases, acquires and other calls
\* of LPC are nested in one another.  The hypothesis is the scope of the claim: the
\* callback does not itself end the socket that its caller is about to answer for.
THEOREM ReleasesAreTrue ==
  ASSUME ~CallbacksClose
  PROVE  Spec => []ReleaseTellsTheTruth
<1>1. Init => ReleaseInv
  BY ReleasesInit
<1>2. SocketsInv /\ ReleaseInv /\ [Next]_vars => ReleaseInv'
  BY ReleasesNext
<1>3. SocketsInv /\ ReleaseInv => ReleaseTellsTheTruth
  <2> SUFFICES ASSUME SocketsInv, ReleaseInv, stack # <<>>, Head(stack).then = "release"
               PROVE  Succeeded(Head(stack).slot) = Head(stack).took
    BY DEF ReleaseTellsTheTruth
  <2>1. stack \in Seq(Frame) /\ Len(stack) \in Nat /\ 1 \in 1 .. Len(stack) /\ Head(stack) = stack[1]
    BY Stacks
  <2>2. stack[1] \in Frame
    BY <2>1
  <2>3. stack[1].slot \in Slots /\ stack[1].took \in BOOLEAN
    BY <2>2 DEF Frame
  <2>4. 1 \in ReleasesIn(stack, stack[1].slot)
    BY <2>1 DEF ReleasesIn
  <2>5. \A j \in ReleasesIn(stack, stack[1].slot) : ~(j < 1)
    BY <2>1 DEF ReleasesIn
  <2>6. stack[1].took <=> "RELEASE" \notin sock[stack[1].slot].flags
    BY <2>3, <2>4, <2>5 DEF ReleaseInv, ReleasesOK
  <2> QED BY <2>1, <2>3, <2>6 DEF Succeeded
<1> QED BY <1>1, <1>2, <1>3, SocketsInvariant, PTL DEF Spec
=============================================================================
