------------------------------- MODULE Sockets -------------------------------
(***************************************************************************)
(* The sockets of LPC (packages/sockets/socket_efuns.cc): a table of slots *)
(* with a small state machine each, driven by efuns that LPC calls and by  *)
(* the read and write events of libevent.  Every handler may call LPC in   *)
(* its middle, and that LPC may call any efun on any slot, also on the one *)
(* its caller is working on: the stack of unfinished calls is the heart of *)
(* the model.                                                              *)
(*                                                                         *)
(* A socket has an identity, the number of its making, that stands for its *)
(* descriptor: a slot is used again after a close, an identity never is.   *)
(* The bytes of a connection are numbered 1, 2, ... in the order in which  *)
(* socket_write() took them.  MUD mode is STREAM with another encoding,    *)
(* the BINARY modes are those of the same name; addresses, options and the *)
(* text of messages are left out.  LPC runs on the main thread only.       *)
(***************************************************************************)
EXTENDS Integers, Sequences

CONSTANTS Slots,          \* indices of lpc_socks that can be in use at once
          Objects,        \* LPC objects
          NoObject,       \* the null owner
          Modes,          \* subset of {"STREAM", "DATAGRAM", "TLS"}
          MaxMade,        \* bound: sockets made in a run
          MaxDepth,       \* bound: calls of LPC that are open at once
          MaxBytes,       \* bound: bytes given to socket_write() per socket
          CallbacksClose  \* LPC run from a close or a release callback may
                          \* end the socket the callback is about

ASSUME SocketsAssumption ==
  /\ Slots \subseteq Nat /\ Slots # {}
  /\ NoObject \notin Objects
  /\ Modes \subseteq {"STREAM", "DATAGRAM", "TLS"}
  /\ MaxMade \in Nat /\ MaxDepth \in Nat \ {0} /\ MaxBytes \in Nat
  /\ CallbacksClose \in BOOLEAN

VARIABLES
  sock,       \* lpc_socks: the slot records
  open,       \* descriptors the kernel holds open for them
  made,       \* sockets made so far
  stack,      \* calls of LPC, innermost first, with what their caller does next
  destructed, \* objects with O_DESTRUCTED
  user,       \* objects with O_EFUN_SOCKET
  log         \* history: what happened to each socket made

vars == <<sock, open, made, stack, destructed, user, log>>

States == {"CLOSED", "FLUSHING", "UNBOUND", "BOUND", "LISTEN", "HANDSHAKE", "DATA_XFER"}
Flags == {"BLOCKED", "LINKDEAD", "RELEASE"}

Slot == [state : States, fd : 0..MaxMade, mode : {"STREAM", "DATAGRAM", "TLS"},
         owner : Objects \cup {NoObject}, rel : Objects \cup {NoObject},
         flags : SUBSET Flags, woff : Int, wlen : Nat,
         armed : SUBSET {"read", "write"}, ssl : BOOLEAN, ctx : BOOLEAN]

\* What the caller of LPC does when the LPC returns.
Afterwards == {"return", "close", "release", "written"}
Frame == [obj : Objects \cup {NoObject}, then : Afterwards, slot : Slots, took : BOOLEAN]

\* A slot that clear_socket() has reset.
Cleared == [state |-> "CLOSED", fd |-> 0, mode |-> "STREAM", owner |-> NoObject,
            rel |-> NoObject, flags |-> {}, woff |-> 0, wlen |-> 0, armed |-> {},
            ssl |-> FALSE, ctx |-> FALSE]

Untouched == [accepted |-> 0, wire |-> <<>>, dead |-> FALSE, mode |-> "STREAM"]

Init ==
  /\ sock = [s \in Slots |-> Cleared]
  /\ open = {}
  /\ made = 0
  /\ stack = <<>>
  /\ destructed = {} /\ user = {}
  /\ log = [i \in 1..MaxMade |-> Untouched]

------------------------------------------------------------------------------
Live(s) == sock[s].state \notin {"CLOSED", "FLUSHING"}

\* The object whose code is running.
Runs(o) == stack # <<>> /\ Head(stack).obj = o

\* The checks at the head of every efun: a live slot that the caller owns.
Owns(o, s) == Runs(o) /\ Live(s) /\ sock[s].owner = o

\* Some caller is going to end s, or to end its release, after the LPC above it.
Unfinished(s) == \E i \in 1..Len(stack) : stack[i].slot = s /\ stack[i].then \in {"close", "release"}

MayEnd(s) == CallbacksClose \/ ~Unfinished(s)

\* find_new_socket(): the first closed slot, or a new one.
IsNewSlot(s) == /\ sock[s].state = "CLOSED"
                /\ \A t \in Slots : sock[t].state = "CLOSED" => s <= t

Calling(o, then, s) == <<[obj |-> o, then |-> then, slot |-> s, took |-> FALSE]>> \o stack

\* LPC runs in object o, if it still exists; a callback that is not set is
\* one that returns at once.
Call(o, then, s) ==
  /\ Len(stack) < MaxDepth
  /\ stack' = Calling(IF o \in destructed THEN NoObject ELSE o, then, s)

Put(s, r) == sock' = [sock EXCEPT ![s] = r]

\* Mutant: a close does not wait for the bytes that are not sent yet.
FlushesNever(r) == "BLOCKED" \in r.flags /\ "LINKDEAD" \in r.flags

\* socket_close() from the close callback on: what is blocked and not dead
\* flushes first, everything else is closed and cleared.
Flushes(r) == "BLOCKED" \in r.flags /\ "LINKDEAD" \notin r.flags

AfterClose(r) == IF Flushes(r) THEN [r EXCEPT !.state = "FLUSHING", !.ssl = FALSE, !.ctx = FALSE]
                 ELSE Cleared

\* Mutant: the descriptor is forgotten instead of closed.
StillOpenLeaks(r) == open

StillOpen(r) == IF Flushes(r) THEN open ELSE open \ {r.fd}

CloseNow(s, r) == Put(s, AfterClose(r)) /\ open' = StillOpen(r)

\* A dead link: the close callback runs first and the close follows it, or
\* closes at once when socket_close() has dropped the callbacks already.
Fail(s, r) ==
  LET dead == [r EXCEPT !.flags = @ \cup {"LINKDEAD"}] IN
  /\ log' = [log EXCEPT ![r.fd].dead = TRUE]
  /\ IF r.state = "FLUSHING" THEN CloseNow(s, dead) /\ UNCHANGED stack
     ELSE Put(s, dead) /\ Call(r.owner, "close", s) /\ UNCHANGED open
------------------------------------------------------------------------------
\* The backend runs some LPC: a command, a call out, a heart beat.
Command(o) ==
  /\ stack = <<>>
  /\ o \notin destructed
  /\ stack' = Calling(o, "return", CHOOSE s \in Slots : TRUE)
  /\ UNCHANGED <<sock, open, made, destructed, user, log>>

NewSock(o, m, state, armed) ==
  [Cleared EXCEPT !.state = state, !.fd = made + 1, !.mode = m, !.owner = o,
                  !.armed = armed, !.ssl = (m = "TLS" /\ state = "HANDSHAKE")]

Made(r) ==
  /\ made' = made + 1
  /\ open' = open \cup {r.fd}
  /\ log' = [log EXCEPT ![r.fd].mode = r.mode]
  /\ user' = user \cup {r.owner}

SocketCreate(o, m) ==
  /\ Runs(o) /\ made < MaxMade
  /\ LET r == NewSock(o, m, "UNBOUND", {}) IN
     Made(r) /\ \E new \in Slots : IsNewSlot(new) /\ Put(new, r)
  /\ UNCHANGED <<stack, destructed>>

SocketBind(o, s) ==
  /\ Owns(o, s) /\ sock[s].state = "UNBOUND"
  /\ Put(s, [sock[s] EXCEPT !.state = "BOUND",
                            !.armed = IF sock[s].mode = "DATAGRAM" THEN {"read"} ELSE {}])
  /\ UNCHANGED <<open, made, stack, destructed, user, log>>

\* A TLS listener has a context if it was given a certificate and a key.
SocketListen(o, s) ==
  /\ Owns(o, s) /\ sock[s].state = "BOUND" /\ sock[s].mode # "DATAGRAM"
  /\ \E ctx \in (IF sock[s].mode = "TLS" THEN BOOLEAN ELSE {FALSE}) :
       Put(s, [sock[s] EXCEPT !.state = "LISTEN", !.armed = {"read"}, !.ctx = ctx])
  /\ user' = user \cup {o}
  /\ UNCHANGED <<open, made, stack, destructed, log>>

\* A connection that is waiting becomes a socket of its own; the errors of
\* accept() and a TLS listener without a context change nothing.
SocketAccept(o, s) ==
  /\ Owns(o, s) /\ sock[s].state = "LISTEN" /\ made < MaxMade
  /\ sock[s].mode = "TLS" => sock[s].ctx
  /\ LET state == IF sock[s].mode = "TLS" THEN "HANDSHAKE" ELSE "DATA_XFER"
         r == NewSock(o, sock[s].mode, state, {"read", "write"})
     IN Made(r) /\ \E new \in Slots : IsNewSlot(new) /\ Put(new, r)
  /\ UNCHANGED <<stack, destructed>>

\* The numbers of the next k bytes that are sent for slot record r.
Bytes(r, k) == [i \in 1..k |-> log[r.fd].accepted - r.wlen + i]

Sent(r, k) == log' = [log EXCEPT ![r.fd].wire = @ \o Bytes(r, k)]

\* Nothing is left to send: a flushing slot is closed, the others get their
\* write callback, after which the handler looks at w_len again.
Unblocked(s, r) ==
  LET free == [r EXCEPT !.flags = @ \ {"BLOCKED"}, !.woff = 0] IN
  IF r.state = "FLUSHING" THEN CloseNow(s, free) /\ UNCHANGED stack
  ELSE Put(s, free) /\ Call(r.owner, "written", s) /\ UNCHANGED open

\* socket_write_select_handler() past its handshake part.  The event has
\* fired and is not armed: what is not done yet must arm it.  SSL_write()
\* sends all or nothing, and without a session it fails.
WriteHandler(s, r) ==
  \/ ~Flushes(r) /\ Put(s, r) /\ UNCHANGED <<open, stack, log>>
  \/ Flushes(r) /\ Fail(s, r)
  \/ /\ Flushes(r) /\ r.wlen > 0 /\ (r.mode = "TLS" => r.ssl)
     /\ Put(s, [r EXCEPT !.armed = @ \cup {"write"}])
     /\ UNCHANGED <<open, stack, log>>
  \/ \E k \in 1..r.wlen :
       /\ Flushes(r) /\ (r.mode = "TLS" => r.ssl /\ k = r.wlen)
       /\ Sent(r, k)
       /\ LET rest == [r EXCEPT !.woff = @ + k, !.wlen = @ - k] IN
          IF rest.wlen = 0 THEN Unblocked(s, rest)
          ELSE Put(s, [rest EXCEPT !.armed = @ \cup {"write"}]) /\ UNCHANGED <<open, stack>>
  \/ Flushes(r) /\ r.wlen = 0 /\ Unblocked(s, r) /\ UNCHANGED log
  \/ /\ Flushes(r) /\ r.wlen > 0 /\ r.mode = "TLS" /\ ~r.ssl
     /\ CloseNow(s, [r EXCEPT !.flags = @ \cup {"LINKDEAD"}])
     /\ UNCHANGED <<stack, log>>

\* One try of SSL_connect() or SSL_accept(): it waits for the peer, it is
\* done and the write handler runs at once, or it failed and the slot is closed.
Handshake(s, r) ==
  \/ /\ \E armed \in {r.armed, r.armed \cup {"write"}} : Put(s, [r EXCEPT !.armed = armed])
     /\ UNCHANGED <<open, stack, log>>
  \/ WriteHandler(s, [r EXCEPT !.state = "DATA_XFER", !.flags = @ \cup {"BLOCKED"},
                               !.armed = @ \cup {"write"}])
  \/ CloseNow(s, [r EXCEPT !.flags = @ \ {"BLOCKED"}]) /\ UNCHANGED <<stack, log>>

\* connect() was started; its errors change nothing but the callbacks.
SocketConnect(o, s) ==
  /\ Owns(o, s) /\ sock[s].state \in {"UNBOUND", "BOUND"} /\ sock[s].mode # "DATAGRAM"
  /\ LET r == [sock[s] EXCEPT !.armed = {"read", "write"}] IN
     IF r.mode = "TLS"
     THEN MayEnd(s) /\ Handshake(s, [r EXCEPT !.state = "HANDSHAKE", !.ssl = TRUE, !.ctx = TRUE])
     ELSE /\ Put(s, [r EXCEPT !.state = "DATA_XFER", !.flags = @ \cup {"BLOCKED"}])
          /\ UNCHANGED <<open, stack, log>>
  /\ user' = user \cup {o}
  /\ UNCHANGED <<made, destructed>>

\* Mutants: a message queued from its start, and a message queued without its
\* write event.
QueueWhole(r, n, off) ==
  IF off = n THEN r
  ELSE [r EXCEPT !.flags = @ \cup {"BLOCKED"}, !.woff = 0, !.wlen = n,
                 !.armed = @ \cup {"write"}]
QueueUnarmed(r, n, off) ==
  IF off = n THEN r
  ELSE [r EXCEPT !.flags = @ \cup {"BLOCKED"}, !.woff = off, !.wlen = n - off]

\* Queue what send() has not taken: off bytes of the n are on their way.
Queue(r, n, off) ==
  IF off = n THEN r
  ELSE [r EXCEPT !.flags = @ \cup {"BLOCKED"}, !.woff = off, !.wlen = n - off,
                 !.armed = @ \cup {"write"}]

\* send() takes some of the message, SSL_write() all of it or, with -1, none
\* for now; a hard error ends the connection.  A send() that would block is
\* reported and changes nothing, and so does a datagram.
SocketWrite(o, s, n) ==
  /\ Owns(o, s) /\ sock[s].state = "DATA_XFER" /\ sock[s].mode # "DATAGRAM"
  /\ "BLOCKED" \notin sock[s].flags
  /\ LET r == sock[s] IN
     \/ MayEnd(s) /\ Fail(s, r)
     \/ \E off \in (IF r.mode = "TLS" THEN {-1, n} ELSE 1..n) :
          /\ log[r.fd].accepted + n <= MaxBytes
          /\ Put(s, Queue(r, n, off))
          /\ log' = [log EXCEPT ![r.fd].accepted = @ + n,
                                ![r.fd].wire = @ \o [i \in 1..off |-> log[r.fd].accepted + i]]
          /\ UNCHANGED <<open, stack>>
  /\ UNCHANGED <<made, destructed, user>>

SocketClose(o, s) ==
  /\ Owns(o, s) /\ MayEnd(s)
  /\ CloseNow(s, sock[s])
  /\ UNCHANGED <<made, stack, destructed, user, log>>

\* socket_release(): t is asked to take the slot over.
SocketRelease(o, s, t) ==
  /\ Owns(o, s) /\ "RELEASE" \notin sock[s].flags /\ t \notin destructed
  /\ Put(s, [sock[s] EXCEPT !.flags = @ \cup {"RELEASE"}, !.rel = t])
  /\ Call(t, "release", s)
  /\ UNCHANGED <<open, made, destructed, user, log>>

\* The innermost socket_release() of s; the history notes that it succeeded.
Releasing(s) == CHOOSE i \in 1..Len(stack) :
  /\ stack[i].then = "release" /\ stack[i].slot = s
  /\ \A j \in 1..(i - 1) : ~(stack[j].then = "release" /\ stack[j].slot = s)

\* Mutant: the release is not marked as done.
SocketAcquireUnmarked(o, s) ==
  /\ Runs(o) /\ Live(s) /\ "RELEASE" \in sock[s].flags /\ sock[s].rel = o
  /\ Put(s, [sock[s] EXCEPT !.owner = o, !.rel = NoObject])
  /\ stack' = [stack EXCEPT ![Releasing(s)].took = TRUE]
  /\ UNCHANGED <<open, made, destructed, user, log>>

SocketAcquire(o, s) ==
  /\ Runs(o) /\ Live(s) /\ "RELEASE" \in sock[s].flags /\ sock[s].rel = o
  /\ Put(s, [sock[s] EXCEPT !.flags = @ \ {"RELEASE"}, !.owner = o, !.rel = NoObject])
  /\ stack' = [stack EXCEPT ![Releasing(s)].took = TRUE]
  /\ UNCHANGED <<open, made, destructed, user, log>>

\* close_referencing_sockets(), for an object with O_EFUN_SOCKET.
Referencing(t) == {s \in Slots : t \in user /\ Live(s) /\ sock[s].owner = t}

Destruct(o, t) ==
  /\ Runs(o) /\ t \notin destructed
  /\ \A s \in Referencing(t) : MayEnd(s)
  /\ destructed' = destructed \cup {t}
  /\ sock' = [s \in Slots |-> IF s \in Referencing(t) THEN AfterClose(sock[s]) ELSE sock[s]]
  /\ open' = {i \in open : \A s \in Referencing(t) : i \in StillOpen(sock[s])}
  /\ UNCHANGED <<made, stack, user, log>>
------------------------------------------------------------------------------
\* socket_release() answers EESUCCESS.
Succeeded(s) == "RELEASE" \notin sock[s].flags

\* The innermost LPC returns, by itself or by an error that safe_apply()
\* catches, and its caller goes on with the slot as it finds it.
Return ==
  /\ stack # <<>>
  /\ stack' = Tail(stack)
  /\ LET s == Head(stack).slot IN
     CASE Head(stack).then = "return" -> UNCHANGED <<sock, open>>
       [] Head(stack).then = "close" -> CloseNow(s, sock[s])
       [] Head(stack).then = "written" ->
            /\ Put(s, IF sock[s].wlen = 0 THEN sock[s] ELSE [sock[s] EXCEPT !.armed = @ \cup {"write"}])
            /\ UNCHANGED open
       [] OTHER ->
            /\ Put(s, IF Succeeded(s) THEN sock[s]
                      ELSE [sock[s] EXCEPT !.flags = @ \ {"RELEASE"}, !.rel = NoObject])
            /\ UNCHANGED open
  /\ UNCHANGED <<made, destructed, user, log>>

\* on_lpc_sock_read(): the listener is told of a connection, data or a
\* datagram is handed to the read callback, an error or the end of the
\* stream ends the connection, a handshake goes on.
ReadEvent(s) ==
  /\ stack = <<>> /\ "read" \in sock[s].armed
  /\ CASE sock[s].state = "HANDSHAKE" -> Handshake(s, sock[s])
       [] sock[s].state = "FLUSHING" -> UNCHANGED <<sock, open, stack, log>>
       [] OTHER ->
            \/ Call(sock[s].owner, "return", s) /\ UNCHANGED <<sock, open, log>>
            \/ sock[s].state # "LISTEN" /\ Fail(s, sock[s])
  /\ UNCHANGED <<made, destructed, user>>

\* on_lpc_sock_write(): the event is not persistent.
WriteEvent(s) ==
  /\ stack = <<>> /\ "write" \in sock[s].armed
  /\ LET r == [sock[s] EXCEPT !.armed = @ \ {"write"}] IN
     IF r.state = "HANDSHAKE" THEN Handshake(s, r) ELSE WriteHandler(s, r)
  /\ UNCHANGED <<made, destructed, user>>

Next ==
  \/ Return
  \/ \E s \in Slots : ReadEvent(s) \/ WriteEvent(s)
  \/ \E o \in Objects :
       \/ Command(o)
       \/ \E m \in Modes : SocketCreate(o, m)
       \/ \E s \in Slots :
            \/ SocketBind(o, s) \/ SocketListen(o, s) \/ SocketAccept(o, s)
            \/ SocketConnect(o, s) \/ SocketClose(o, s) \/ SocketAcquire(o, s)
            \/ \E n \in 1..MaxBytes : SocketWrite(o, s, n)
            \/ \E t \in Objects : SocketRelease(o, s, t)
       \/ \E t \in Objects : Destruct(o, t)

Spec == Init /\ [][Next]_vars
------------------------------------------------------------------------------
\* The types of the slots, the open calls of LPC and the descriptors.
TypeOK ==
  /\ sock \in [Slots -> Slot]
  /\ open \subseteq 1..made /\ made \in 0..MaxMade
  /\ stack \in Seq(Frame) /\ Len(stack) <= MaxDepth
  /\ destructed \subseteq Objects /\ user \subseteq Objects

\* No descriptor leaks and none is shared: whatever a callback did to the slot
\* that its caller goes on to close, the kernel holds open exactly the
\* descriptors of the slots in use, one for each.
DescriptorsMatch ==
  /\ open = {sock[s].fd : s \in {u \in Slots : sock[u].state # "CLOSED"}}
  /\ \A s, t \in Slots : s # t /\ sock[s].fd = sock[t].fd => sock[s].fd = 0

\* A write that is due will be made: a slot that waits for its connection or
\* holds unsent bytes has its one-shot write event armed.
BlockedIsArmed ==
  \A s \in Slots : Flushes(sock[s]) => "write" \in sock[s].armed

\* The bytes of a STREAM connection go out in the order in which
\* socket_write() took them, without a gap and without a repeat, through
\* partial sends, callbacks that write again and a close that flushes.
StreamInOrder ==
  \A i \in open : log[i].mode = "STREAM" =>
    log[i].wire = [j \in 1..Len(log[i].wire) |-> j]

\* socket_release() answers EESUCCESS exactly when the other object has
\* acquired the socket from its release callback.
ReleaseTellsTheTruth ==
  stack # <<>> /\ Head(stack).then = "release" =>
    Succeeded(Head(stack).slot) = Head(stack).took

\* A STREAM connection that did not fail is closed only after its last byte
\* was handed to the kernel, whoever closed it.
StreamLosesNothing ==
  [][\A i \in open \ open' : log[i].mode = "STREAM" /\ ~log'[i].dead =>
       log'[i].wire = [j \in 1..log[i].accepted |-> j]]_vars
==============================================================================
