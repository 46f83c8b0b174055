----------------------- MODULE UserConnectionProofs -----------------------
(***************************************************************************)
(* Proofs about UserConnection: a connection is removed once, nothing is   *)
(* served for a user before its logon, a command is the next line the user *)
(* sent, and what was said to a user is written before it is freed, for    *)
(* any users, buffers, messages and interleavings of the two threads and   *)
(* the workers.                                                            *)
(***************************************************************************)
EXTENDS UserConnection, SequenceTheorems, FiniteSetTheorems, TLAPS

-----------------------------------------------------------------------------
(* What a stack s of the main thread says of a user                        *)

Removes(frame, u)  == frame.at \in {"post", "wait"} /\ frame.ip = u
Connects(frame, u) == frame.then = "connect" /\ frame.ip = u

Removing(s, u)   == \E i \in 1 .. Len(s) : Removes(s[i], u)
Connecting(s, u) == \E i \in 1 .. Len(s) : Connects(s[i], u)

\* A removal is never begun inside a removal of the same user; what is to be done
\* after connect(), logon() or a command stands at the bottom.
Orderly(s) ==
  /\ s \in Seq(Frames)
  /\ \A i, j \in 1 .. Len(s) : Removes(s[i], s[j].ip) /\ Removes(s[j], s[j].ip) => i = j
  /\ \A i \in 1 .. Len(s) :
       /\ s[i].then # "return" => i = Len(s) /\ s[i].at \in {"lpc", "took"} /\ s[i].ip \in Users
       /\ s[i].at \in {"post", "wait"} => s[i].ip \in Users
       /\ s[i].at = "took" => s[i].then = "command"

-----------------------------------------------------------------------------
(* The inductive invariant                                                 *)

ControlOK ==
  /\ mem \in [Users -> {"none", "live", "freed"}]
  /\ ob \in [Users -> {"master", "body"}]
  /\ flags \in [Users -> SUBSET Flags]
  /\ timer \in [Users -> {"none", "idle", "armed"}]
  /\ bev \in [Users -> {"none", "open", "closed"}]
  /\ ioTasks \in Seq(Items({"setup", "output", "free"}))
  /\ events \in Seq(Items({"logon", "command", "gone"}))
  /\ hand \in Users \cup {Nobody}
  /\ Orderly(stack)

\* CLOSING marks the removals that have begun, and nothing clears it.
RemovalInv ==
  \A u \in Users :
    /\ "CLOSING" \in flags[u] <=> mem[u] = "freed" \/ Removing(stack, u)
    /\ Removing(stack, u) => mem[u] = "live"

\* Whoever is spoken of has an interactive_t, or had one.
Spoken(u) == Connecting(stack, u) \/ ob[u] = "body"

KnownInv ==
  /\ \A u \in Users : Spoken(u) => mem[u] # "none"
  /\ \A i \in 1 .. Len(events) : mem[events[i].ip] # "none"
  /\ \A i \in 1 .. Len(ioTasks) : mem[ioTasks[i].ip] # "none"
  /\ hand # Nobody => mem[hand] # "none"

\* The logon of u has been served; or it is about to be.
Begun(u) == ob[u] = "body" \/ mem[u] = "freed" \/ Connecting(stack, u) \/ Removing(stack, u)
LogonAmong(queue, u, n) == \E j \in 1 .. n : queue[j] = Item("logon", u)

\* The IO thread has set u up, so that it can bounce something of u.
Opened(u) == bev[u] = "open" \/ timer[u] = "armed" \/ "CMD_IN_BUF" \in flags[u]

\* The IO thread bounces nothing else of u before the logon, and what it has bounced
\* is behind it.
LogonInv ==
  \A u \in Users :
    /\ Opened(u) => Begun(u) \/ LogonAmong(events, u, Len(events))
    /\ \A i \in 1 .. Len(events) :
         events[i].ip = u /\ events[i].kind # "logon" => Begun(u) \/ LogonAmong(events, u, i - 1)

ConnectionInv == ControlOK /\ RemovalInv /\ KnownInv /\ LogonInv

-----------------------------------------------------------------------------
(* Stacks                                                                  *)

LEMMA EmptyIsOrderly ==
  /\ Orderly(<<>>)
  /\ \A u : ~Removing(<<>>, u) /\ ~Connecting(<<>>, u)
BY DEF Orderly, Removing, Connecting

LEMMA PopIsOrderly ==
  ASSUME NEW s, Orderly(s), s # <<>>
  PROVE  /\ Orderly(Tail(s)) /\ Head(s) = s[1] /\ s[1] \in Frames
         /\ \A u : Removing(Tail(s), u) <=> Removing(s, u) /\ ~Removes(s[1], u)
         /\ \A u : Connecting(s, u) <=> Connecting(Tail(s), u) \/ Connects(s[1], u)
         /\ s[1].then # "return" => Tail(s) = <<>>
<1> DEFINE t == Tail(s)
<1>0. s \in Seq(Frames) /\ Len(s) \in Nat \ {0}
  BY DEF Orderly
<1>1. t \in Seq(Frames) /\ Len(t) = Len(s) - 1 /\ \A i \in 1 .. Len(t) : t[i] = s[i + 1]
  BY <1>0
<1>2. Head(s) = s[1] /\ s[1] \in Frames /\ 1 \in 1 .. Len(s)
  BY <1>0
<1> HIDE DEF t
<1>3. s[1].then # "return" => t = <<>>
  <2>1. s[1].then # "return" => 1 = Len(s)
    BY <1>2 DEF Orderly
  <2>2. 1 = Len(s) => Len(t) = 0
    BY <1>0, <1>1
  <2> QED BY <1>1, <2>1, <2>2
<1>4. \A i \in 1 .. Len(t) : i + 1 \in 1 .. Len(s) /\ t[i] = s[i + 1] /\ i + 1 # 1
  BY <1>0, <1>1
<1>5. \A i \in 1 .. Len(s) : i = 1 \/ (i - 1 \in 1 .. Len(t) /\ t[i - 1] = s[i])
  <2>1. \A i \in 1 .. Len(s) : i = 1 \/ (i - 1 \in 1 .. Len(t) /\ (i - 1) + 1 = i)
    BY <1>0, <1>1
  <2> QED BY <1>1, <2>1
<1>6. Orderly(t)
  <2>1. ASSUME NEW i \in 1 .. Len(t), NEW j \in 1 .. Len(t), NEW u, Removes(t[i], u), Removes(t[j], u)
        PROVE  i = j
    <3>1. i + 1 = j + 1
      BY <1>4, <2>1 DEF Orderly, Removes
    <3> QED BY <3>1
  <2>2. ASSUME NEW i \in 1 .. Len(t)
        PROVE  /\ t[i].then # "return" =>
                    i + 1 = Len(s) /\ t[i].at \in {"lpc", "took"} /\ t[i].ip \in Users
               /\ t[i].at \in {"post", "wait"} => t[i].ip \in Users
               /\ t[i].at = "took" => t[i].then = "command"
    BY <1>4 DEF Orderly
  <2>3. \A i \in 1 .. Len(t) : i + 1 = Len(s) => i = Len(t)
    BY <1>0, <1>1
  <2> QED BY <1>1, <2>1, <2>2, <2>3 DEF Orderly
<1>7. \A u : Removing(t, u) <=> Removing(s, u) /\ ~Removes(s[1], u)
  <2>1. ASSUME NEW u, Removing(t, u) PROVE Removing(s, u) /\ ~Removes(s[1], u)
    BY <1>2, <1>4, <2>1 DEF Removing, Orderly, Removes
  <2>2. ASSUME NEW u, Removing(s, u), ~Removes(s[1], u) PROVE Removing(t, u)
    BY <1>5, <2>2 DEF Removing
  <2> QED BY <2>1, <2>2
<1>8. \A u : Connecting(s, u) <=> Connecting(t, u) \/ Connects(s[1], u)
  BY <1>2, <1>4, <1>5 DEF Connecting
<1> QED BY <1>2, <1>3, <1>6, <1>7, <1>8 DEF t

LEMMA PushIsOrderly ==
  ASSUME NEW s, Orderly(s), NEW f \in Frames,
         f.then # "return" => s = <<>> /\ f.at \in {"lpc", "took"} /\ f.ip \in Users,
         f.at \in {"post", "wait"} => f.ip \in Users /\ ~Removing(s, f.ip),
         f.at = "took" => f.then = "command"
  PROVE  /\ Orderly(<<f>> \o s)
         /\ \A u : Removing(<<f>> \o s, u) <=> Removing(s, u) \/ Removes(f, u)
         /\ \A u : Connecting(<<f>> \o s, u) <=> Connecting(s, u) \/ Connects(f, u)
<1> DEFINE t == <<f>> \o s
<1>0. s \in Seq(Frames) /\ Len(s) \in Nat
  BY DEF Orderly
<1>1. /\ t \in Seq(Frames) /\ Len(t) = Len(s) + 1 /\ t[1] = f
      /\ \A i \in 2 .. Len(t) : i - 1 \in 1 .. Len(s) /\ t[i] = s[i - 1]
  BY <1>0
<1> HIDE DEF t
<1>2. \A i \in 1 .. Len(t) : i = 1 \/ i \in 2 .. Len(t)
  BY <1>0, <1>1
<1>3. \A i \in 1 .. Len(s) : i + 1 \in 1 .. Len(t) /\ t[i + 1] = s[i]
  <2>1. \A i \in 1 .. Len(s) : i + 1 \in 2 .. Len(t) /\ i + 1 \in 1 .. Len(t) /\ (i + 1) - 1 = i
    BY <1>0, <1>1
  <2> QED BY <1>1, <2>1
<1>4. 1 \in 1 .. Len(t)
  BY <1>0, <1>1
<1>5. ASSUME NEW i \in 1 .. Len(t), NEW j \in 1 .. Len(t), NEW u, Removes(t[i], u), Removes(t[j], u)
      PROVE  i = j
  <2>1. CASE i \in 2 .. Len(t) /\ j \in 2 .. Len(t)
    <3>1. i - 1 = j - 1
      BY <1>1, <1>5, <2>1 DEF Orderly, Removes
    <3> QED BY <2>1, <3>1
  <2>2. CASE i = 1 /\ j \in 2 .. Len(t)
    BY <1>1, <1>5, <2>2 DEF Removes, Removing
  <2>3. CASE j = 1 /\ i \in 2 .. Len(t)
    BY <1>1, <1>5, <2>3 DEF Removes, Removing
  <2> QED BY <1>2, <2>1, <2>2, <2>3
<1>6. ASSUME NEW i \in 1 .. Len(t)
      PROVE  /\ t[i].then # "return" => i = Len(t) /\ t[i].at \in {"lpc", "took"} /\ t[i].ip \in Users
             /\ t[i].at \in {"post", "wait"} => t[i].ip \in Users
             /\ t[i].at = "took" => t[i].then = "command"
  <2>1. CASE i = 1
    <3>1. s = <<>> => Len(t) = 1
      BY <1>1
    <3> QED BY <1>1, <2>1, <3>1
  <2>2. CASE i \in 2 .. Len(t)
    <3>1. t[i] = s[i - 1] /\ i - 1 \in 1 .. Len(s)
      BY <1>1, <2>2
    <3>2. i - 1 = Len(s) => i = Len(t)
      BY <1>0, <1>1, <2>2
    <3> QED BY <3>1, <3>2 DEF Orderly
  <2> QED BY <1>2, <2>1, <2>2
<1>7. Orderly(t)
  BY <1>1, <1>5, <1>6 DEF Orderly
<1>8. \A u : Removing(t, u) <=> Removing(s, u) \/ Removes(f, u)
  BY <1>1, <1>2, <1>3, <1>4 DEF Removing
<1>9. \A u : Connecting(t, u) <=> Connecting(s, u) \/ Connects(f, u)
  BY <1>1, <1>2, <1>3, <1>4 DEF Connecting
<1> QED BY <1>7, <1>8, <1>9 DEF t

\* A stack of one call.
LEMMA OneCallIsOrderly ==
  ASSUME NEW then \in {"return", "connect", "logon", "command"}, NEW u \in Users \cup {Nobody},
         then # "return" => u \in Users
  PROVE  /\ Orderly(<<Lpc(then, u)>>)
         /\ \A v : ~Removing(<<Lpc(then, u)>>, v)
         /\ \A v : Connecting(<<Lpc(then, u)>>, v) <=> then = "connect" /\ v = u
<1> DEFINE f == Lpc(then, u)
<1>1. f \in Frames /\ f.at = "lpc" /\ f.then = then /\ f.ip = u
  BY DEF Lpc, Frames
<1> HIDE DEF f
<1>2. /\ Orderly(<<f>> \o <<>>)
      /\ \A v : Removing(<<f>> \o <<>>, v) <=> Removing(<<>>, v) \/ Removes(f, v)
      /\ \A v : Connecting(<<f>> \o <<>>, v) <=> Connecting(<<>>, v) \/ Connects(f, v)
  BY <1>1, EmptyIsOrderly, PushIsOrderly
<1>3. <<f>> \o <<>> = <<f>>
  BY <1>1
<1>4. \A v : ~Removes(f, v) /\ (Connects(f, v) <=> then = "connect" /\ v = u)
  BY <1>1 DEF Removes, Connects
<1> QED BY <1>2, <1>3, <1>4, EmptyIsOrderly DEF f

LEMMA RemoveInteractiveWorks ==
  ASSUME NEW u \in Users, NEW dested \in BOOLEAN, NEW below, Orderly(below),
         RemoveInteractive(u, dested, below), flags \in [Users -> SUBSET Flags],
         "CLOSING" \notin flags[u] => ~Removing(below, u)
  PROVE  /\ Orderly(stack') /\ flags' \in [Users -> SUBSET Flags]
         /\ \A v \in Users :
              /\ "CLOSING" \in flags'[v] <=> "CLOSING" \in flags[v] \/ v = u
              /\ "CMD_IN_BUF" \in flags'[v] <=> "CMD_IN_BUF" \in flags[v]
              /\ Removing(stack', v) <=>
                   Removing(below, v) \/ (v = u /\ "CLOSING" \notin flags[u])
              /\ Connecting(stack', v) <=> Connecting(below, v)
<1>1. CASE "CLOSING" \in flags[u]
  BY <1>1 DEF RemoveInteractive
<1>2. CASE "CLOSING" \notin flags[u]
  <2> DEFINE mid == <<Removal(u)>> \o below
  <2>0. below \in Seq(Frames)
    BY DEF Orderly
  <2>1. /\ Removal(u) \in Frames /\ Removal(u).at = "post" /\ Removal(u).then = "return"
        /\ Removal(u).ip = u
    BY DEF Removal, Frames
  <2>2. /\ Lpc("return", u) \in Frames /\ Lpc("return", u).at = "lpc"
        /\ Lpc("return", u).then = "return"
    BY DEF Lpc, Frames
  <2>3. /\ Orderly(mid)
        /\ \A v : Removing(mid, v) <=> Removing(below, v) \/ v = u
        /\ \A v : Connecting(mid, v) <=> Connecting(below, v)
    <3>1. ~Removing(below, Removal(u).ip)
      BY <1>2, <2>1
    <3>2. /\ Orderly(mid)
          /\ \A v : Removing(mid, v) <=> Removing(below, v) \/ Removes(Removal(u), v)
          /\ \A v : Connecting(mid, v) <=> Connecting(below, v) \/ Connects(Removal(u), v)
      BY <2>1, <3>1, PushIsOrderly
    <3> QED BY <2>1, <3>2 DEF Removes, Connects
  <2>4. mid \in Seq(Frames)
    BY <2>3 DEF Orderly
  <2>5. stack' = IF dested THEN mid ELSE <<Lpc("return", u)>> \o mid
    <3>1. <<>> \o <<Removal(u)>> = <<Removal(u)>>
      BY <2>1
    <3>2. (<<Lpc("return", u)>> \o <<Removal(u)>>) \o below
            = <<Lpc("return", u)>> \o (<<Removal(u)>> \o below)
      BY <2>0, <2>1, <2>2, ConcatAssociative
    <3> QED BY <1>2, <3>1, <3>2 DEF RemoveInteractive
  <2> HIDE DEF mid
  <2>6. /\ Orderly(stack')
        /\ \A v : Removing(stack', v) <=> Removing(below, v) \/ v = u
        /\ \A v : Connecting(stack', v) <=> Connecting(below, v)
    <3>1. CASE dested
      BY <2>3, <2>5, <3>1
    <3>2. CASE ~dested
      <4> DEFINE f == Lpc("return", u)
      <4>1. /\ Orderly(<<f>> \o mid)
            /\ \A v : Removing(<<f>> \o mid, v) <=> Removing(mid, v) \/ Removes(f, v)
            /\ \A v : Connecting(<<f>> \o mid, v) <=> Connecting(mid, v) \/ Connects(f, v)
        BY <2>2, <2>3, PushIsOrderly
      <4>2. \A v : ~Removes(f, v) /\ ~Connects(f, v)
        BY <2>2 DEF Removes, Connects
      <4> QED BY <2>3, <2>5, <3>2, <4>1, <4>2
    <3> QED BY <3>1, <3>2
  <2>7. flags' = [flags EXCEPT ![u] = @ \cup {"CLOSING"}]
    BY <1>2 DEF RemoveInteractive
  <2>8. flags' \in [Users -> SUBSET Flags]
    BY <2>7 DEF Flags
  <2>9. \A v \in Users :
          /\ "CLOSING" \in flags'[v] <=> "CLOSING" \in flags[v] \/ v = u
          /\ "CMD_IN_BUF" \in flags'[v] <=> "CMD_IN_BUF" \in flags[v]
    BY <2>7
  <2> QED BY <1>2, <2>6, <2>8, <2>9
<1> QED BY <1>1, <1>2

-----------------------------------------------------------------------------
(* What steps have in common                                               *)

\* A step that leaves the stack, the memory and CLOSING alone.
LEMMA StackIsKept ==
  ASSUME ConnectionInv, UNCHANGED <<stack, mem, ob>>,
         \A v \in Users : "CLOSING" \in flags'[v] <=> "CLOSING" \in flags[v]
  PROVE  /\ Orderly(stack)' /\ RemovalInv'
         /\ \A v \in Users : Spoken(v)' => mem'[v] # "none"
         /\ \A v \in Users : Begun(v) => Begun(v)'
BY DEF ConnectionInv, ControlOK, RemovalInv, KnownInv, Begun, Spoken

\* remove_interactive(u), called when connect() or logon() is over, or above the stack.
LEMMA RemovalBegins ==
  ASSUME ConnectionInv, NEW u \in Users, NEW dested \in BOOLEAN, NEW below,
         RemoveInteractive(u, dested, below), UNCHANGED <<mem, ob>>, mem[u] # "none",
         Orderly(below), \A v \in Users : Removing(below, v) <=> Removing(stack, v),
         \A v \in Users : Connecting(below, v) => Connecting(stack, v),
         \A v \in Users : Connecting(stack, v) => Connecting(below, v) \/ v = u
  PROVE  /\ Orderly(stack)' /\ RemovalInv' /\ flags' \in [Users -> SUBSET Flags]
         /\ \A v \in Users : Spoken(v)' => mem'[v] # "none"
         /\ \A v \in Users : Begun(v) => Begun(v)'
         /\ \A v \in Users : "CMD_IN_BUF" \in flags'[v] <=> "CMD_IN_BUF" \in flags[v]
<1>1. /\ Orderly(stack') /\ flags' \in [Users -> SUBSET Flags]
      /\ \A v \in Users :
           /\ "CLOSING" \in flags'[v] <=> "CLOSING" \in flags[v] \/ v = u
           /\ "CMD_IN_BUF" \in flags'[v] <=> "CMD_IN_BUF" \in flags[v]
           /\ Removing(stack', v) <=>
                Removing(below, v) \/ (v = u /\ "CLOSING" \notin flags[u])
           /\ Connecting(stack', v) <=> Connecting(below, v)
  <2>1. flags \in [Users -> SUBSET Flags]
    BY DEF ConnectionInv, ControlOK
  <2>2. "CLOSING" \notin flags[u] => ~Removing(below, u)
    BY DEF ConnectionInv, RemovalInv
  <2> QED BY <2>1, <2>2, RemoveInteractiveWorks
<1>2. RemovalInv'
  BY <1>1 DEF ConnectionInv, ControlOK, RemovalInv
<1>3. \A v \in Users : Spoken(v)' => mem'[v] # "none"
  BY <1>1 DEF ConnectionInv, KnownInv, Spoken
<1>4. \A v \in Users : Begun(v) => Begun(v)'
  BY <1>1 DEF ConnectionInv, RemovalInv, Begun
<1> QED BY <1>1, <1>2, <1>3, <1>4

\* The users of the queues.
LEMMA ItemsAreOfUsers ==
  ASSUME NEW kinds, NEW queue \in Seq(Items(kinds)), NEW i \in 1 .. Len(queue)
  PROVE  queue[i] \in Items(kinds) /\ queue[i].ip \in Users /\ queue[i].kind \in kinds
<1>1. queue[i] \in Items(kinds)
  OBVIOUS
<1> QED BY <1>1 DEF Items

\* A user that is set up has been allocated.
LEMMA OpenedIsKnown ==
  ASSUME ConnectionInv, NEW u \in Users, Opened(u) PROVE mem[u] # "none"
<1>1. CASE Begun(u)
  BY <1>1 DEF ConnectionInv, KnownInv, RemovalInv, Begun, Spoken
<1>2. CASE LogonAmong(events, u, Len(events))
  BY <1>2 DEF ConnectionInv, KnownInv, LogonAmong, Item
<1> QED BY <1>1, <1>2 DEF ConnectionInv, LogonInv

\* A step that leaves the events alone.
LEMMA EventsAreKept ==
  ASSUME ConnectionInv, events' = events, \A v \in Users : mem[v] # "none" => mem'[v] # "none",
         \A v \in Users : Begun(v) => Begun(v)',
         \A v \in Users : Opened(v)' => Opened(v) \/ Begun(v)'
  PROVE  LogonInv' /\ \A i \in 1 .. Len(events') : mem'[events'[i].ip] # "none"
<1>1. \A i \in 1 .. Len(events) : events[i].ip \in Users
  <2>1. events \in Seq(Items({"logon", "command", "gone"}))
    BY DEF ConnectionInv, ControlOK
  <2> QED BY <2>1, ItemsAreOfUsers
<1>2. LogonInv'
  <2>1. ASSUME NEW v \in Users
        PROVE  /\ Opened(v)' => Begun(v)' \/ LogonAmong(events', v, Len(events'))
               /\ \A i \in 1 .. Len(events') :
                    events'[i].ip = v /\ events'[i].kind # "logon"
                      => Begun(v)' \/ LogonAmong(events', v, i - 1)
    BY DEF ConnectionInv, LogonInv
  <2> QED BY <2>1 DEF LogonInv
<1> QED BY <1>1, <1>2 DEF ConnectionInv, KnownInv

\* A step that bounces an event: the logon, or another of a user set up before.
LEMMA EventIsBounced ==
  ASSUME ConnectionInv, NEW u \in Users, NEW kind \in {"logon", "command", "gone"},
         Bounce(kind, u), mem' = mem, mem[u] # "none", kind # "logon" => Opened(u),
         \A v \in Users : Begun(v) => Begun(v)',
         \A v \in Users : Opened(v)' => Opened(v) \/ (v = u /\ kind = "logon")
  PROVE  /\ events' \in Seq(Items({"logon", "command", "gone"})) /\ LogonInv'
         /\ \A i \in 1 .. Len(events') : mem'[events'[i].ip] # "none"
<1> DEFINE e == Item(kind, u)
           n == Len(events)
<1>0. events \in Seq(Items({"logon", "command", "gone"})) /\ n \in Nat
  BY DEF ConnectionInv, ControlOK
<1>1. e \in Items({"logon", "command", "gone"}) /\ e.kind = kind /\ e.ip = u
  BY DEF Item, Items
<1>2. /\ events' \in Seq(Items({"logon", "command", "gone"})) /\ Len(events') = n + 1
      /\ \A i \in 1 .. n : i \in 1 .. n + 1 /\ events'[i] = events[i]
      /\ events'[n + 1] = e
  BY <1>0, <1>1 DEF Bounce
<1>3. \A i \in 1 .. n + 1 : i \in 1 .. n \/ i = n + 1
  BY <1>0
<1>4. (n + 1) - 1 = n /\ n + 1 \in 1 .. n + 1
  BY <1>0
<1>5. kind = "logon" => e = Item("logon", u)
  OBVIOUS
<1>6. ASSUME NEW v, LogonAmong(events, v, n)
      PROVE  LogonAmong(events', v, n) /\ LogonAmong(events', v, n + 1)
  BY <1>2, <1>6 DEF LogonAmong
<1>7. ASSUME NEW v, NEW i \in 1 .. n, LogonAmong(events, v, i - 1)
      PROVE  LogonAmong(events', v, i - 1)
  <2>1. \A j \in 1 .. (i - 1) : j \in 1 .. n
    BY <1>0
  <2> QED BY <1>2, <1>7, <2>1 DEF LogonAmong
<1> HIDE DEF e, n
<1>8. ASSUME NEW v \in Users, Opened(v)'
      PROVE  Begun(v)' \/ LogonAmong(events', v, n + 1)
  <2>1. CASE v = u /\ kind = "logon"
    BY <1>2, <1>4, <1>5, <2>1 DEF LogonAmong
  <2>2. CASE Opened(v)
    <3>1. Begun(v) \/ LogonAmong(events, v, n)
      BY <2>2 DEF ConnectionInv, LogonInv, n
    <3> QED BY <1>6, <3>1
  <2> QED BY <1>8, <2>1, <2>2
<1>9. ASSUME NEW v \in Users, NEW i \in 1 .. n + 1, events'[i].ip = v, events'[i].kind # "logon"
      PROVE  Begun(v)' \/ LogonAmong(events', v, i - 1)
  <2>1. CASE i \in 1 .. n
    <3>1. Begun(v) \/ LogonAmong(events, v, i - 1)
      BY <1>2, <1>9, <2>1 DEF ConnectionInv, LogonInv, n
    <3> QED BY <1>7, <2>1, <3>1
  <2>2. CASE i = n + 1
    <3>1. v = u /\ Opened(u)
      BY <1>1, <1>2, <1>9, <2>2
    <3>2. Begun(v) \/ LogonAmong(events, v, n)
      BY <3>1 DEF ConnectionInv, LogonInv, n
    <3> QED BY <1>4, <1>6, <2>2, <3>2
  <2> QED BY <1>3, <2>1, <2>2
<1>10. LogonInv'
  BY <1>2, <1>8, <1>9 DEF LogonInv
<1>11. \A i \in 1 .. Len(events') : mem'[events'[i].ip] # "none"
  <2>1. \A i \in 1 .. n : mem[events[i].ip] # "none"
    BY DEF ConnectionInv, KnownInv, n
  <2> QED BY <1>1, <1>2, <1>3, <2>1
<1> QED BY <1>2, <1>10, <1>11

\* A step that serves the first event, of u.
LEMMA EventIsServed ==
  ASSUME ConnectionInv, events # <<>>, events' = Tail(events), mem' = mem,
         NEW u \in Users, events[1].ip = u, events[1].kind = "logon" => Begun(u)',
         \A v \in Users : Begun(v) => Begun(v)',
         \A v \in Users : Opened(v)' => Opened(v)
  PROVE  /\ events' \in Seq(Items({"logon", "command", "gone"})) /\ LogonInv'
         /\ \A i \in 1 .. Len(events') : mem'[events'[i].ip] # "none"
<1> DEFINE n == Len(events)
<1>0. events \in Seq(Items({"logon", "command", "gone"})) /\ n \in Nat \ {0}
  BY DEF ConnectionInv, ControlOK
<1>1. /\ events' \in Seq(Items({"logon", "command", "gone"})) /\ Len(events') = n - 1
      /\ \A i \in 1 .. n - 1 : events'[i] = events[i + 1]
  BY <1>0
<1>2. /\ \A i \in 1 .. n - 1 : i + 1 \in 1 .. n /\ (i + 1) - 1 = i
      /\ \A i \in 1 .. n : i = 1 \/ (i - 1 \in 1 .. n - 1 /\ (i - 1) + 1 = i)
  BY <1>0
<1>3. ASSUME NEW v \in Users, NEW m \in 0 .. n - 1, LogonAmong(events, v, m + 1)
      PROVE  Begun(v)' \/ LogonAmong(events', v, m)
  <2>1. PICK j \in 1 .. m + 1 : events[j] = Item("logon", v)
    BY <1>3 DEF LogonAmong
  <2>2. CASE j = 1
    BY <2>1, <2>2 DEF Item
  <2>3. CASE j # 1
    <3>1. j - 1 \in 1 .. m /\ j - 1 \in 1 .. n - 1 /\ (j - 1) + 1 = j
      BY <1>0, <2>3
    <3> QED BY <1>1, <2>1, <3>1 DEF LogonAmong
  <2> QED BY <2>2, <2>3
<1>4. ASSUME NEW v \in Users, Opened(v)'
      PROVE  Begun(v)' \/ LogonAmong(events', v, Len(events'))
  <2>1. Begun(v) \/ LogonAmong(events, v, n)
    BY <1>4 DEF ConnectionInv, LogonInv
  <2>2. n - 1 \in 0 .. n - 1 /\ (n - 1) + 1 = n
    BY <1>0
  <2> QED BY <1>1, <1>3, <2>1, <2>2
<1>5. ASSUME NEW v \in Users, NEW i \in 1 .. Len(events'), events'[i].ip = v, events'[i].kind # "logon"
      PROVE  Begun(v)' \/ LogonAmong(events', v, i - 1)
  <2>1. Begun(v) \/ LogonAmong(events, v, i)
    BY <1>1, <1>2, <1>5 DEF ConnectionInv, LogonInv
  <2>2. i - 1 \in 0 .. n - 1 /\ (i - 1) + 1 = i
    BY <1>0, <1>1
  <2> QED BY <1>3, <2>1, <2>2
<1>6. LogonInv'
  BY <1>4, <1>5 DEF LogonInv
<1>7. \A i \in 1 .. Len(events') : mem'[events'[i].ip] # "none"
  BY <1>1, <1>2 DEF ConnectionInv, KnownInv
<1> QED BY <1>1, <1>6, <1>7

-----------------------------------------------------------------------------
(* The IO thread and the messages                                          *)

LEMMA KeepIsQuiet ==
  ASSUME NEW u \in Users, NEW b, NEW more \in SUBSET {"CMD_IN_BUF"}, Keep(u, b, more),
         flags \in [Users -> SUBSET Flags]
  PROVE  /\ flags' \in [Users -> SUBSET Flags]
         /\ \A v \in Users :
              /\ "CLOSING" \in flags'[v] <=> "CLOSING" \in flags[v]
              /\ "CMD_IN_BUF" \in flags'[v]
                   => "CMD_IN_BUF" \in flags[v] \/ (v = u /\ "CMD_IN_BUF" \in more)
BY DEF Keep, Flags

LEMMA ReceiveStep ==
  ASSUME ConnectionInv, NEW u \in Users, Receive(u) PROVE ConnectionInv'
<1>1. PICK b, more :
         /\ Keep(u, b, more) /\ more \in SUBSET {"CMD_IN_BUF"}
         /\ timer' \in {timer, [timer EXCEPT ![u] = "armed"]}
  <2>1. \E b : /\ Keep(u, b, IF CmdInBuf(b) THEN {"CMD_IN_BUF"} ELSE {})
               /\ timer' = IF CmdInBuf(b) THEN [timer EXCEPT ![u] = "armed"] ELSE timer
    BY Zenon DEF Receive
  <2>2. PICK b : /\ Keep(u, b, IF CmdInBuf(b) THEN {"CMD_IN_BUF"} ELSE {})
                 /\ timer' = IF CmdInBuf(b) THEN [timer EXCEPT ![u] = "armed"] ELSE timer
    BY <2>1
  <2> QED BY <2>2
<1>2. bev[u] = "open" /\ UNCHANGED <<stack, mem, ob, bev, ioTasks, events, hand>>
  BY DEF Receive, life, queues
<1>3. /\ flags' \in [Users -> SUBSET Flags]
      /\ \A v \in Users :
           /\ "CLOSING" \in flags'[v] <=> "CLOSING" \in flags[v]
           /\ "CMD_IN_BUF" \in flags'[v] => "CMD_IN_BUF" \in flags[v] \/ v = u
  BY <1>1, KeepIsQuiet DEF ConnectionInv, ControlOK
<1>4. /\ Orderly(stack)' /\ RemovalInv'
      /\ \A v \in Users : Spoken(v)' => mem'[v] # "none"
      /\ \A v \in Users : Begun(v) => Begun(v)'
  BY <1>2, <1>3, StackIsKept
<1>5. timer' \in [Users -> {"none", "idle", "armed"}] /\ \A v \in Users \ {u} : timer'[v] = timer[v]
  BY <1>1 DEF ConnectionInv, ControlOK
<1>6. \A v \in Users : Opened(v)' => Opened(v)
  BY <1>2, <1>3, <1>5 DEF Opened
<1>7. LogonInv' /\ \A i \in 1 .. Len(events') : mem'[events'[i].ip] # "none"
  BY <1>2, <1>4, <1>6, EventsAreKept
<1>8. KnownInv'
  BY <1>2, <1>4, <1>7 DEF ConnectionInv, KnownInv
<1>9. ControlOK'
  BY <1>2, <1>3, <1>4, <1>5 DEF ConnectionInv, ControlOK
<1> QED BY <1>4, <1>7, <1>8, <1>9 DEF ConnectionInv

\* A step that leaves the stack, the memory, the flags and the events alone.
LEMMA QueuesOnly ==
  ASSUME ConnectionInv, UNCHANGED <<stack, mem, ob, flags, timer, bev, events>>,
         ioTasks' \in Seq(Items({"setup", "output", "free"})),
         \A i \in 1 .. Len(ioTasks') : mem[ioTasks'[i].ip] # "none",
         hand' \in Users \cup {Nobody}, hand' # Nobody => mem[hand'] # "none"
  PROVE  ConnectionInv'
<1>1. /\ Orderly(stack)' /\ RemovalInv'
      /\ \A v \in Users : Spoken(v)' => mem'[v] # "none"
      /\ \A v \in Users : Begun(v) => Begun(v)'
  BY StackIsKept
<1>2. \A v \in Users : Opened(v)' => Opened(v)
  BY DEF Opened
<1>3. LogonInv' /\ \A i \in 1 .. Len(events') : mem'[events'[i].ip] # "none"
  BY <1>1, <1>2, EventsAreKept
<1>4. KnownInv'
  BY <1>1, <1>3 DEF KnownInv
<1>5. ControlOK'
  BY <1>1 DEF ConnectionInv, ControlOK
<1> QED BY <1>1, <1>3, <1>4, <1>5 DEF ConnectionInv

\* A task that is posted for a user in memory.
LEMMA TaskIsPosted ==
  ASSUME ConnectionInv, NEW u \in Users, NEW kind \in {"setup", "output", "free"}, Post(kind, u),
         \A v \in Users : mem[v] # "none" => mem'[v] # "none", mem'[u] # "none"
  PROVE  /\ ioTasks' \in Seq(Items({"setup", "output", "free"}))
         /\ \A i \in 1 .. Len(ioTasks') : mem'[ioTasks'[i].ip] # "none"
<1> DEFINE e == Item(kind, u)
<1>1. e \in Items({"setup", "output", "free"}) /\ e.ip = u
  BY DEF Item, Items
<1>2. ioTasks \in Seq(Items({"setup", "output", "free"})) /\ ioTasks' = Append(ioTasks, e)
  BY DEF ConnectionInv, ControlOK, Post
<1> HIDE DEF e
<1>3. /\ ioTasks' \in Seq(Items({"setup", "output", "free"}))
      /\ \A i \in 1 .. Len(ioTasks') :
           ioTasks'[i] = e \/ (i \in 1 .. Len(ioTasks) /\ ioTasks'[i] = ioTasks[i])
  BY <1>1, <1>2
<1>4. \A i \in 1 .. Len(ioTasks) : ioTasks[i].ip \in Users
  BY <1>2, ItemsAreOfUsers
<1> QED BY <1>1, <1>3, <1>4 DEF ConnectionInv, KnownInv

LEMMA OnUserCommandStep ==
  ASSUME ConnectionInv, NEW u \in Users, OnUserCommand(u) PROVE ConnectionInv'
<1>1. /\ timer[u] = "armed" /\ timer' = [timer EXCEPT ![u] = "idle"] /\ Bounce("command", u)
      /\ UNCHANGED <<stack, mem, ob, flags, bev, ioTasks, hand>>
  BY DEF OnUserCommand, buffer, life
<1>2. timer' \in [Users -> {"none", "idle", "armed"}] /\ \A v \in Users \ {u} : timer'[v] = timer[v]
  BY <1>1 DEF ConnectionInv, ControlOK
<1>3. Opened(u) /\ \A v \in Users : Opened(v)' => Opened(v)
  BY <1>1, <1>2 DEF Opened
<1>4. /\ Orderly(stack)' /\ RemovalInv'
      /\ \A v \in Users : Spoken(v)' => mem'[v] # "none"
      /\ \A v \in Users : Begun(v) => Begun(v)'
  BY <1>1, StackIsKept
<1>5. mem[u] # "none"
  BY <1>3, OpenedIsKnown
<1>6. /\ events' \in Seq(Items({"logon", "command", "gone"})) /\ LogonInv'
      /\ \A i \in 1 .. Len(events') : mem'[events'[i].ip] # "none"
  BY <1>1, <1>3, <1>4, <1>5, EventIsBounced
<1>7. KnownInv'
  BY <1>1, <1>4, <1>6 DEF ConnectionInv, KnownInv
<1>8. ControlOK'
  BY <1>1, <1>2, <1>4, <1>6 DEF ConnectionInv, ControlOK
<1> QED BY <1>4, <1>6, <1>7, <1>8 DEF ConnectionInv

LEMMA OnUserEventsStep ==
  ASSUME ConnectionInv, NEW u \in Users, OnUserEvents(u) PROVE ConnectionInv'
<1>1. /\ bev[u] = "open" /\ flags' = [flags EXCEPT ![u] = @ \cup {"NET_DEAD"}] /\ Bounce("gone", u)
      /\ UNCHANGED <<stack, mem, ob, timer, bev, ioTasks, hand>>
  BY DEF OnUserEvents, life
<1>2. /\ flags' \in [Users -> SUBSET Flags]
      /\ \A v \in Users : /\ "CLOSING" \in flags'[v] <=> "CLOSING" \in flags[v]
                          /\ "CMD_IN_BUF" \in flags'[v] <=> "CMD_IN_BUF" \in flags[v]
  BY <1>1 DEF ConnectionInv, ControlOK, Flags
<1>3. Opened(u) /\ \A v \in Users : Opened(v)' => Opened(v)
  BY <1>1, <1>2 DEF Opened
<1>4. /\ Orderly(stack)' /\ RemovalInv'
      /\ \A v \in Users : Spoken(v)' => mem'[v] # "none"
      /\ \A v \in Users : Begun(v) => Begun(v)'
  BY <1>1, <1>2, StackIsKept
<1>5. mem[u] # "none"
  BY <1>3, OpenedIsKnown
<1>6. /\ events' \in Seq(Items({"logon", "command", "gone"})) /\ LogonInv'
      /\ \A i \in 1 .. Len(events') : mem'[events'[i].ip] # "none"
  BY <1>1, <1>3, <1>4, <1>5, EventIsBounced
<1>7. KnownInv'
  BY <1>1, <1>4, <1>6 DEF ConnectionInv, KnownInv
<1>8. ControlOK'
  BY <1>1, <1>2, <1>4, <1>6 DEF ConnectionInv, ControlOK
<1> QED BY <1>4, <1>6, <1>7, <1>8 DEF ConnectionInv

LEMMA RunTaskStep ==
  ASSUME ConnectionInv, RunTask PROVE ConnectionInv'
<1> DEFINE task == Head(ioTasks)
           u == task.ip
<1>1. /\ ioTasks \in Seq(Items({"setup", "output", "free"})) /\ ioTasks # <<>>
      /\ ioTasks' = Tail(ioTasks)
      /\ UNCHANGED <<stack, mem, ob, flags, hand>>
  BY DEF ConnectionInv, ControlOK, RunTask, buffer
<1>2. /\ ioTasks' \in Seq(Items({"setup", "output", "free"})) /\ task = ioTasks[1]
      /\ 1 \in 1 .. Len(ioTasks)
      /\ \A i \in 1 .. Len(ioTasks') : i + 1 \in 1 .. Len(ioTasks) /\ ioTasks'[i] = ioTasks[i + 1]
  BY <1>1
<1> HIDE DEF task
<1>3. u \in Users /\ task.kind \in {"setup", "output", "free"} /\ mem[u] # "none"
  BY <1>1, <1>2, ItemsAreOfUsers DEF ConnectionInv, KnownInv
<1> HIDE DEF u
<1>4. /\ Orderly(stack)' /\ RemovalInv'
      /\ \A v \in Users : Spoken(v)' => mem'[v] # "none"
      /\ \A v \in Users : Begun(v) => Begun(v)'
  BY <1>1, StackIsKept
<1>5. /\ timer' \in [Users -> {"none", "idle", "armed"}] /\ bev' \in [Users -> {"none", "open", "closed"}]
      /\ events' \in Seq(Items({"logon", "command", "gone"})) /\ LogonInv'
      /\ \A i \in 1 .. Len(events') : mem'[events'[i].ip] # "none"
  <2>1. CASE task.kind = "setup"
    <3>1. /\ bev' = [bev EXCEPT ![u] = "open"] /\ timer' = [timer EXCEPT ![u] = "idle"]
          /\ Bounce("logon", u)
      BY <2>1 DEF RunTask, SetUp, task, u
    <3>2. /\ timer' \in [Users -> {"none", "idle", "armed"}]
          /\ bev' \in [Users -> {"none", "open", "closed"}]
          /\ \A v \in Users \ {u} : timer'[v] = timer[v] /\ bev'[v] = bev[v]
      BY <3>1 DEF ConnectionInv, ControlOK
    <3>3. \A v \in Users : Opened(v)' => Opened(v) \/ (v = u /\ "logon" = "logon")
      BY <1>1, <3>2 DEF Opened
    <3> QED BY <1>1, <1>3, <1>4, <3>1, <3>2, <3>3, EventIsBounced
  <2>2. CASE task.kind # "setup"
    <3>1. UNCHANGED <<timer, events>> /\ bev' \in {bev, [bev EXCEPT ![u] = "closed"]}
      BY <1>3, <2>2 DEF RunTask, Output, FreeBev, task, u
    <3>2. bev' \in [Users -> {"none", "open", "closed"}]
      BY <3>1 DEF ConnectionInv, ControlOK
    <3>3. \A v \in Users : bev'[v] = "open" => bev[v] = "open"
      BY <3>1 DEF ConnectionInv, ControlOK
    <3>4. \A v \in Users : Opened(v)' => Opened(v)
      BY <1>1, <3>1, <3>3 DEF Opened
    <3>5. LogonInv' /\ \A i \in 1 .. Len(events') : mem'[events'[i].ip] # "none"
      BY <1>1, <1>4, <3>1, <3>4, EventsAreKept
    <3> QED BY <3>1, <3>2, <3>5 DEF ConnectionInv, ControlOK
  <2> QED BY <2>1, <2>2
<1>6. \A i \in 1 .. Len(ioTasks') : mem'[ioTasks'[i].ip] # "none"
  BY <1>1, <1>2 DEF ConnectionInv, KnownInv
<1>7. KnownInv'
  BY <1>1, <1>4, <1>5, <1>6 DEF ConnectionInv, KnownInv
<1>8. ControlOK'
  BY <1>1, <1>2, <1>4, <1>5 DEF ConnectionInv, ControlOK
<1> QED BY <1>4, <1>5, <1>7, <1>8 DEF ConnectionInv

LEMMA LpcSaysStep ==
  ASSUME ConnectionInv, NEW u \in Users, LpcSays(u) PROVE ConnectionInv'
<1>1. /\ Post("output", u) /\ mem[u] = "live"
      /\ UNCHANGED <<stack, mem, ob, flags, timer, bev, events, hand>>
  BY DEF LpcSays, Say, CanTell, buffer, life
<1>2. /\ ioTasks' \in Seq(Items({"setup", "output", "free"}))
      /\ \A i \in 1 .. Len(ioTasks') : mem'[ioTasks'[i].ip] # "none"
  BY <1>1, TaskIsPosted
<1> QED BY <1>1, <1>2, QueuesOnly DEF ConnectionInv, ControlOK, KnownInv

LEMMA WorkerLooksStep ==
  ASSUME ConnectionInv, NEW u \in Users, WorkerLooks(u) PROVE ConnectionInv'
<1>1. /\ hand' = u /\ mem[u] = "live"
      /\ UNCHANGED <<stack, mem, ob, flags, timer, bev, events, ioTasks>>
  BY DEF WorkerLooks, CanTell, buffer, life, queues
<1> QED BY <1>1, QueuesOnly DEF ConnectionInv, ControlOK, KnownInv

LEMMA WorkerSaysStep ==
  ASSUME ConnectionInv, WorkerSays PROVE ConnectionInv'
<1>1. /\ hand \in Users /\ mem[hand] # "none"
      /\ Post("output", hand) /\ hand' = Nobody
      /\ UNCHANGED <<stack, mem, ob, flags, timer, bev, events>>
  BY DEF WorkerSays, Say, buffer, life, ConnectionInv, ControlOK, KnownInv
<1>2. /\ ioTasks' \in Seq(Items({"setup", "output", "free"}))
      /\ \A i \in 1 .. Len(ioTasks') : mem'[ioTasks'[i].ip] # "none"
  BY <1>1, TaskIsPosted
<1> QED BY <1>1, <1>2, QueuesOnly

-----------------------------------------------------------------------------
(* The main thread                                                         *)

LEMMA NewConnectionStep ==
  ASSUME ConnectionInv, NEW u \in Users, NewConnection(u) PROVE ConnectionInv'
<1>1. /\ mem[u] = "none" /\ mem' = [mem EXCEPT ![u] = "live"] /\ Post("setup", u)
      /\ UNCHANGED <<stack, ob, flags, timer, bev, events, hand>>
  BY DEF NewConnection, buffer
<1>2. /\ mem' \in [Users -> {"none", "live", "freed"}] /\ mem'[u] # "none"
      /\ \A v \in Users : /\ mem[v] # "none" => mem'[v] # "none"
                          /\ mem'[v] = "freed" <=> mem[v] = "freed"
                          /\ mem[v] = "live" => mem'[v] = "live"
  BY <1>1 DEF ConnectionInv, ControlOK
<1>3. /\ ioTasks' \in Seq(Items({"setup", "output", "free"}))
      /\ \A i \in 1 .. Len(ioTasks') : mem'[ioTasks'[i].ip] # "none"
  BY <1>1, <1>2, TaskIsPosted
<1>4. \A v \in Users : (Begun(v) => Begun(v)') /\ (Opened(v)' => Opened(v))
  BY <1>1, <1>2 DEF Begun, Opened
<1>5. LogonInv' /\ \A i \in 1 .. Len(events') : mem'[events'[i].ip] # "none"
  BY <1>1, <1>2, <1>4, EventsAreKept
<1>6. RemovalInv'
  BY <1>1, <1>2 DEF ConnectionInv, RemovalInv
<1>7. KnownInv'
  BY <1>1, <1>2, <1>3, <1>5 DEF ConnectionInv, ControlOK, KnownInv, Spoken
<1>8. ControlOK'
  BY <1>1, <1>2, <1>3 DEF ConnectionInv, ControlOK
<1> QED BY <1>5, <1>6, <1>7, <1>8 DEF ConnectionInv

\* A step of the main thread that removes nobody.
LEMMA StackOnly ==
  ASSUME ConnectionInv, UNCHANGED <<mem, bev, ioTasks, events, hand>>,
         Orderly(stack)', \A v \in Users : Removing(stack, v)' <=> Removing(stack, v),
         ob' \in [Users -> {"master", "body"}], flags' \in [Users -> SUBSET Flags],
         timer' \in [Users -> {"none", "idle", "armed"}],
         \A v \in Users : Spoken(v) <=> Spoken(v)',
         \A v \in Users : "CLOSING" \in flags'[v] <=> "CLOSING" \in flags[v],
         \A v \in Users : Opened(v)' => Opened(v)
  PROVE  ConnectionInv'
<1>1. RemovalInv'
  BY DEF ConnectionInv, RemovalInv
<1>2. \A v \in Users : Begun(v) => Begun(v)'
  BY DEF Begun, Spoken
<1>3. LogonInv' /\ \A i \in 1 .. Len(events') : mem'[events'[i].ip] # "none"
  BY <1>2, EventsAreKept
<1>4. KnownInv'
  BY <1>3 DEF ConnectionInv, KnownInv
<1>5. ControlOK'
  BY DEF ConnectionInv, ControlOK
<1> QED BY <1>1, <1>3, <1>4, <1>5 DEF ConnectionInv

LEMMA OtherEventStep ==
  ASSUME ConnectionInv, OtherEvent PROVE ConnectionInv'
<1>1. /\ stack = <<>> /\ stack' = <<Lpc("return", Nobody)>>
      /\ UNCHANGED <<mem, ob, flags, timer, bev, ioTasks, events, hand>>
  BY DEF OtherEvent, buffer, life, queues
<1>2. Orderly(stack') /\ \A v : ~Removing(stack', v) /\ ~Connecting(stack', v)
  BY <1>1, OneCallIsOrderly
<1>3. \A v : ~Removing(stack, v) /\ ~Connecting(stack, v)
  BY <1>1, EmptyIsOrderly
<1>4. \A v \in Users : (Spoken(v) <=> Spoken(v)') /\ (Opened(v)' => Opened(v))
  BY <1>1, <1>2, <1>3 DEF Spoken, Opened
<1> QED BY <1>1, <1>2, <1>3, <1>4, StackOnly DEF ConnectionInv, ControlOK

\* What stands at the top of the stack.
LEMMA TopIsOrderly ==
  ASSUME ConnectionInv, stack # <<>>
  PROVE  /\ Top \in Frames /\ Orderly(Tail(stack))
         /\ \A u : Removing(Tail(stack), u) <=> Removing(stack, u) /\ ~Removes(Top, u)
         /\ \A u : Connecting(stack, u) <=> Connecting(Tail(stack), u) \/ Connects(Top, u)
         /\ \A u : Removes(Top, u) => Removing(stack, u) /\ u \in Users
         /\ Top.then # "return" =>
              Tail(stack) = <<>> /\ Top.ip \in Users /\ Top.at \in {"lpc", "took"}
         /\ Top.at = "took" => Top.then = "command"
<1>1. Orderly(stack)
  BY DEF ConnectionInv, ControlOK
<1>2. 1 \in 1 .. Len(stack)
  BY <1>1 DEF Orderly
<1>3. Top = stack[1]
  BY <1>1, PopIsOrderly DEF Top
<1>4. \A u : Removes(Top, u) => Removing(stack, u) /\ u \in Users
  BY <1>1, <1>2, <1>3 DEF Orderly, Removing, Removes
<1>5. /\ Top.then # "return" => Top.ip \in Users /\ Top.at \in {"lpc", "took"}
      /\ Top.at = "took" => Top.then = "command"
  BY <1>1, <1>2, <1>3 DEF Orderly
<1> QED BY <1>1, <1>3, <1>4, <1>5, PopIsOrderly

LEMMA CommandTakenStep ==
  ASSUME ConnectionInv, CommandTaken PROVE ConnectionInv'
<1>1. /\ stack # <<>> /\ Top.at = "took" /\ stack' = <<Lpc("command", Top.ip)>>
      /\ flags' \in {flags, [flags EXCEPT ![Top.ip] = @ \ {"CMD_IN_BUF"}]}
      /\ UNCHANGED <<mem, ob, timer, bev, ioTasks, events, hand>>
  BY DEF CommandTaken, At, life, queues
<1>2. Top.then = "command" /\ Top.ip \in Users /\ Tail(stack) = <<>>
  BY <1>1, TopIsOrderly
<1>3. \A v : ~Removing(stack, v) /\ ~Connecting(stack, v)
  BY <1>1, <1>2, TopIsOrderly, EmptyIsOrderly DEF Removes, Connects
<1>4. Orderly(stack') /\ \A v : ~Removing(stack', v) /\ ~Connecting(stack', v)
  BY <1>1, <1>2, OneCallIsOrderly
<1>5. /\ flags' \in [Users -> SUBSET Flags]
      /\ \A v \in Users :
           /\ "CLOSING" \in flags'[v] <=> "CLOSING" \in flags[v]
           /\ "CMD_IN_BUF" \in flags'[v] => "CMD_IN_BUF" \in flags[v]
  BY <1>1, <1>2 DEF ConnectionInv, ControlOK
<1>6. \A v \in Users : (Spoken(v) <=> Spoken(v)') /\ (Opened(v)' => Opened(v))
  BY <1>1, <1>3, <1>4, <1>5 DEF Spoken, Opened
<1> QED BY <1>1, <1>3, <1>4, <1>5, <1>6, StackOnly DEF ConnectionInv, ControlOK

LEMMA CommandReturnsStep ==
  ASSUME ConnectionInv, CommandReturns PROVE ConnectionInv'
<1>1. /\ stack # <<>> /\ Top.at = "lpc" /\ Top.then = "command" /\ stack' = <<>>
      /\ \/ timer' = timer
         \/ timer' = [timer EXCEPT ![Top.ip] = "armed"] /\ "CMD_IN_BUF" \in flags[Top.ip]
      /\ UNCHANGED <<mem, ob, flags, bev, ioTasks, events, hand>>
  BY DEF CommandReturns, Lpcs, At, buffer, life, queues
<1>2. Top.ip \in Users /\ Tail(stack) = <<>>
  BY <1>1, TopIsOrderly
<1>3. \A v : ~Removing(stack, v) /\ ~Connecting(stack, v)
  BY <1>1, <1>2, TopIsOrderly, EmptyIsOrderly DEF Removes, Connects
<1>4. Orderly(stack') /\ \A v : ~Removing(stack', v) /\ ~Connecting(stack', v)
  BY <1>1, EmptyIsOrderly
<1>5. /\ timer' \in [Users -> {"none", "idle", "armed"}]
      /\ \A v \in Users : timer'[v] = "armed" => timer[v] = "armed" \/ "CMD_IN_BUF" \in flags[v]
  BY <1>1, <1>2 DEF ConnectionInv, ControlOK
<1>6. \A v \in Users : (Spoken(v) <=> Spoken(v)') /\ (Opened(v)' => Opened(v))
  BY <1>1, <1>3, <1>4, <1>5 DEF Spoken, Opened
<1> QED BY <1>1, <1>3, <1>4, <1>5, <1>6, StackOnly DEF ConnectionInv, ControlOK

LEMMA LpcReturnsStep ==
  ASSUME ConnectionInv, LpcReturns PROVE ConnectionInv'
<1>1. /\ stack # <<>> /\ Top.at = "lpc" /\ Top.then = "return" /\ stack' = Tail(stack)
      /\ UNCHANGED <<mem, ob, flags, timer, bev, ioTasks, events, hand>>
  BY DEF LpcReturns, Lpcs, At, buffer, life, queues
<1>2. /\ Orderly(stack') /\ \A v : Removing(stack', v) <=> Removing(stack, v)
      /\ \A v : Connecting(stack', v) <=> Connecting(stack, v)
  BY <1>1, TopIsOrderly DEF Removes, Connects
<1>3. \A v \in Users : (Spoken(v) <=> Spoken(v)') /\ (Opened(v)' => Opened(v))
  BY <1>1, <1>2 DEF Spoken, Opened
<1> QED BY <1>1, <1>2, <1>3, StackOnly DEF ConnectionInv, ControlOK

LEMMA RemovePostsStep ==
  ASSUME ConnectionInv, RemovePosts PROVE ConnectionInv'
<1> DEFINE f == [Top EXCEPT !.at = "wait"]
           u == Top.ip
<1>1. /\ stack # <<>> /\ Top.at = "post" /\ Post("free", u) /\ stack' = <<f>> \o Tail(stack)
      /\ UNCHANGED <<mem, ob, flags, timer, bev, events, hand>>
  BY DEF RemovePosts, At, buffer, life
<1>2. /\ Top \in Frames /\ Top.then = "return" /\ u \in Users /\ Removing(stack, u)
      /\ Orderly(Tail(stack)) /\ ~Removing(Tail(stack), u)
      /\ \A v : Removing(Tail(stack), v) <=> Removing(stack, v) /\ v # u
      /\ \A v : Connecting(stack, v) <=> Connecting(Tail(stack), v)
  BY <1>1, TopIsOrderly DEF Removes, Connects
<1>3. f \in Frames /\ f.at = "wait" /\ f.then = "return" /\ f.ip = u
  BY <1>2 DEF Frames
<1> HIDE DEF f, u
<1>4. \A v : (Removes(f, v) <=> v = u) /\ ~Connects(f, v)
  BY <1>3 DEF Removes, Connects
<1>5. /\ Orderly(stack')
      /\ \A v : Removing(stack', v) <=> Removing(Tail(stack), v) \/ Removes(f, v)
      /\ \A v : Connecting(stack', v) <=> Connecting(Tail(stack), v) \/ Connects(f, v)
  BY <1>1, <1>2, <1>3, PushIsOrderly
<1>6. /\ \A v : Removing(stack', v) <=> Removing(stack, v)
      /\ \A v : Connecting(stack', v) <=> Connecting(stack, v)
  BY <1>2, <1>4, <1>5
<1>7. mem[u] = "live"
  BY <1>2 DEF ConnectionInv, RemovalInv
<1>8. /\ ioTasks' \in Seq(Items({"setup", "output", "free"}))
      /\ \A i \in 1 .. Len(ioTasks') : mem'[ioTasks'[i].ip] # "none"
  BY <1>1, <1>2, <1>7, TaskIsPosted
<1>9. \A v \in Users : (Begun(v) => Begun(v)') /\ (Opened(v)' => Opened(v))
  BY <1>1, <1>6 DEF Begun, Opened
<1>10. LogonInv' /\ \A i \in 1 .. Len(events') : mem'[events'[i].ip] # "none"
  BY <1>1, <1>9, EventsAreKept
<1>11. RemovalInv'
  BY <1>1, <1>6 DEF ConnectionInv, RemovalInv
<1>12. KnownInv'
  BY <1>1, <1>6, <1>8, <1>10 DEF ConnectionInv, KnownInv, Spoken
<1>13. ControlOK'
  BY <1>1, <1>5, <1>8 DEF ConnectionInv, ControlOK
<1> QED BY <1>10, <1>11, <1>12, <1>13 DEF ConnectionInv

LEMMA RemoveEndsStep ==
  ASSUME ConnectionInv, RemoveEnds PROVE ConnectionInv'
<1> DEFINE u == Top.ip
<1>1. /\ stack # <<>> /\ Top.at = "wait" /\ stack' = Tail(stack)
      /\ timer' = [timer EXCEPT ![u] = "none"] /\ mem' = [mem EXCEPT ![u] = "freed"]
      /\ UNCHANGED <<ob, flags, bev, ioTasks, events, hand>>
  BY DEF RemoveEnds, At, buffer, queues
<1>2. /\ u \in Users /\ Removing(stack, u) /\ Orderly(stack')
      /\ \A v : Removing(stack', v) <=> Removing(stack, v) /\ v # u
      /\ \A v : Connecting(stack', v) <=> Connecting(stack, v)
  BY <1>1, TopIsOrderly DEF Removes, Connects
<1> HIDE DEF u
<1>3. /\ mem' \in [Users -> {"none", "live", "freed"}] /\ mem'[u] = "freed"
      /\ timer' \in [Users -> {"none", "idle", "armed"}]
      /\ \A v \in Users \ {u} : mem'[v] = mem[v]
      /\ \A v \in Users : timer'[v] = "armed" => timer[v] = "armed"
  BY <1>1, <1>2 DEF ConnectionInv, ControlOK
<1>4. \A v \in Users : mem[v] # "none" => mem'[v] # "none"
  BY <1>3
<1>5. \A v \in Users : (Begun(v) => Begun(v)') /\ (Opened(v)' => Opened(v))
  BY <1>1, <1>2, <1>3 DEF Begun, Opened
<1>6. LogonInv' /\ \A i \in 1 .. Len(events') : mem'[events'[i].ip] # "none"
  BY <1>1, <1>4, <1>5, EventsAreKept
<1>7. RemovalInv'
  BY <1>1, <1>2, <1>3 DEF ConnectionInv, RemovalInv
<1>8. \A i \in 1 .. Len(ioTasks') : mem'[ioTasks'[i].ip] # "none"
  <2>1. ioTasks \in Seq(Items({"setup", "output", "free"}))
    BY DEF ConnectionInv, ControlOK
  <2> QED BY <1>1, <1>4, <2>1, ItemsAreOfUsers DEF ConnectionInv, KnownInv
<1>9. KnownInv'
  BY <1>1, <1>2, <1>4, <1>6, <1>8 DEF ConnectionInv, ControlOK, KnownInv, Spoken
<1>10. ControlOK'
  BY <1>1, <1>2, <1>3 DEF ConnectionInv, ControlOK
<1> QED BY <1>6, <1>7, <1>9, <1>10 DEF ConnectionInv

\* A step that calls remove_interactive(u), in the middle of LPC or after it.
LEMMA RemovalOnly ==
  ASSUME ConnectionInv, NEW u \in Users, NEW dested \in BOOLEAN, NEW below,
         RemoveInteractive(u, dested, below), mem[u] # "none",
         UNCHANGED <<mem, ob, bev, timer, ioTasks, events, hand>>,
         Orderly(below), \A v \in Users : Removing(below, v) <=> Removing(stack, v),
         \A v \in Users : Connecting(below, v) => Connecting(stack, v),
         \A v \in Users : Connecting(stack, v) => Connecting(below, v) \/ v = u
  PROVE  ConnectionInv'
<1>1. /\ Orderly(stack)' /\ RemovalInv' /\ flags' \in [Users -> SUBSET Flags]
      /\ \A v \in Users : Spoken(v)' => mem'[v] # "none"
      /\ \A v \in Users : Begun(v) => Begun(v)'
      /\ \A v \in Users : "CMD_IN_BUF" \in flags'[v] <=> "CMD_IN_BUF" \in flags[v]
  BY RemovalBegins
<1>2. \A v \in Users : Opened(v)' => Opened(v)
  BY <1>1 DEF Opened
<1>3. LogonInv' /\ \A i \in 1 .. Len(events') : mem'[events'[i].ip] # "none"
  BY <1>1, <1>2, EventsAreKept
<1>4. KnownInv'
  BY <1>1, <1>3 DEF ConnectionInv, KnownInv
<1>5. ControlOK'
  BY <1>1 DEF ConnectionInv, ControlOK
<1> QED BY <1>1, <1>3, <1>4, <1>5 DEF ConnectionInv

LEMMA LpcRemovesStep ==
  ASSUME ConnectionInv, NEW u \in Users, NEW dested \in BOOLEAN, LpcRemoves(u, dested)
  PROVE  ConnectionInv'
<1>1. /\ RemoveInteractive(u, dested, stack) /\ mem[u] # "none"
      /\ UNCHANGED <<mem, ob, bev, timer, ioTasks, events, hand>>
  BY DEF LpcRemoves, life, queues
<1>2. Orderly(stack)
  BY DEF ConnectionInv, ControlOK
<1> QED BY <1>1, <1>2, RemovalOnly

LEMMA ConnectReturnsStep ==
  ASSUME ConnectionInv, ConnectReturns PROVE ConnectionInv'
<1> DEFINE u == Top.ip
<1>1. /\ stack # <<>> /\ Top.at = "lpc" /\ Top.then = "connect"
      /\ UNCHANGED <<mem, bev, timer, ioTasks, events, hand>>
  BY DEF ConnectReturns, Lpcs, At, queues
<1>2. /\ u \in Users /\ Tail(stack) = <<>>
      /\ \A v : ~Removing(stack, v)
      /\ \A v : Connecting(stack, v) <=> v = u
  BY <1>1, TopIsOrderly, EmptyIsOrderly DEF Removes, Connects
<1>3. mem[u] # "none"
  BY <1>2 DEF ConnectionInv, KnownInv, Spoken
<1>4. CASE ob' = [ob EXCEPT ![u] = "body"] /\ stack' = <<Lpc("logon", u)>> /\ UNCHANGED flags
  <2>1. Orderly(stack') /\ \A v : ~Removing(stack', v) /\ ~Connecting(stack', v)
    BY <1>2, <1>4, OneCallIsOrderly
  <2>2. ob' \in [Users -> {"master", "body"}] /\ \A v \in Users : ob'[v] = "body" <=> ob[v] = "body" \/ v = u
    BY <1>2, <1>4 DEF ConnectionInv, ControlOK
  <2>3. \A v \in Users : (Spoken(v) <=> Spoken(v)') /\ (Opened(v)' => Opened(v))
    BY <1>1, <1>2, <1>4, <2>1, <2>2 DEF Spoken, Opened
  <2> QED BY <1>1, <1>2, <1>4, <2>1, <2>2, <2>3, StackOnly DEF ConnectionInv, ControlOK
<1>5. CASE RemoveInteractive(u, FALSE, <<>>) /\ UNCHANGED ob
  BY <1>1, <1>2, <1>3, <1>5, EmptyIsOrderly, RemovalOnly
<1> QED BY <1>4, <1>5 DEF ConnectReturns

LEMMA LogonReturnsStep ==
  ASSUME ConnectionInv, LogonReturns PROVE ConnectionInv'
<1> DEFINE u == Top.ip
<1>1. /\ stack # <<>> /\ Top.at = "lpc" /\ Top.then = "logon"
      /\ UNCHANGED <<mem, ob, bev, timer, ioTasks, events, hand>>
  BY DEF LogonReturns, Lpcs, At, life, queues
<1>2. /\ u \in Users /\ Tail(stack) = <<>>
      /\ \A v : ~Removing(stack, v) /\ ~Connecting(stack, v)
  BY <1>1, TopIsOrderly, EmptyIsOrderly DEF Removes, Connects
<1>3. CASE stack' = <<>> /\ UNCHANGED flags
  <2>1. Orderly(stack') /\ \A v : ~Removing(stack', v) /\ ~Connecting(stack', v)
    BY <1>3, EmptyIsOrderly
  <2>2. \A v \in Users : (Spoken(v) <=> Spoken(v)') /\ (Opened(v)' => Opened(v))
    BY <1>1, <1>2, <1>3, <2>1 DEF Spoken, Opened
  <2> QED BY <1>1, <1>2, <1>3, <2>1, <2>2, StackOnly DEF ConnectionInv, ControlOK
<1>4. CASE mem[u] = "live" /\ RemoveInteractive(u, FALSE, <<>>)
  BY <1>1, <1>2, <1>4, EmptyIsOrderly, RemovalOnly
<1> QED BY <1>3, <1>4 DEF LogonReturns

\* get_user_command() leaves CLOSING alone and runs nothing but a command.
LEMMA GetUserCommandWorks ==
  ASSUME NEW u \in Users, flags \in [Users -> SUBSET Flags], stack = <<>>, GetUserCommand(u)
  PROVE  /\ flags' \in [Users -> SUBSET Flags]
         /\ \A v \in Users : /\ "CLOSING" \in flags'[v] <=> "CLOSING" \in flags[v]
                             /\ "CMD_IN_BUF" \in flags'[v] => "CMD_IN_BUF" \in flags[v]
         /\ Orderly(stack') /\ \A v : ~Removing(stack', v) /\ ~Connecting(stack', v)
<1>1. \/ UNCHANGED <<flags, stack>>
      \/ \E b : Keep(u, b, {}) /\ stack' = stack
      \/ \E b : Keep(u, b, {}) /\ stack' = <<[at |-> "took", then |-> "command", ip |-> u,
                                             more |-> CmdInBuf(b)]>>
  <2>1. CASE "CMD_IN_BUF" \notin flags[u]
    BY <2>1 DEF GetUserCommand, buffer
  <2>2. CASE "CMD_IN_BUF" \in flags[u]
    BY <2>2, Zenon DEF GetUserCommand
  <2> QED BY <2>1, <2>2
<1>2. CASE UNCHANGED <<flags, stack>>
  BY <1>2, EmptyIsOrderly
<1>3. CASE \E b : Keep(u, b, {}) /\ stack' = stack
  BY <1>3, KeepIsQuiet, EmptyIsOrderly
<1>4. ASSUME NEW b, Keep(u, b, {}),
             stack' = <<[at |-> "took", then |-> "command", ip |-> u, more |-> CmdInBuf(b)]>>
      PROVE  /\ flags' \in [Users -> SUBSET Flags]
             /\ \A v \in Users : /\ "CLOSING" \in flags'[v] <=> "CLOSING" \in flags[v]
                                 /\ "CMD_IN_BUF" \in flags'[v] => "CMD_IN_BUF" \in flags[v]
             /\ Orderly(stack') /\ \A v : ~Removing(stack', v) /\ ~Connecting(stack', v)
  <2> DEFINE f == [at |-> "took", then |-> "command", ip |-> u, more |-> CmdInBuf(b)]
  <2>1. CmdInBuf(b) \in BOOLEAN
    BY DEF CmdInBuf
  <2>2. f \in Frames /\ f.at = "took" /\ f.then = "command" /\ f.ip = u
    BY <2>1 DEF Frames
  <2> HIDE DEF f
  <2>3. /\ Orderly(<<f>> \o <<>>)
        /\ \A v : Removing(<<f>> \o <<>>, v) <=> Removing(<<>>, v) \/ Removes(f, v)
        /\ \A v : Connecting(<<f>> \o <<>>, v) <=> Connecting(<<>>, v) \/ Connects(f, v)
    BY <2>2, EmptyIsOrderly, PushIsOrderly
  <2>4. <<f>> \o <<>> = stack'
    BY <1>4, <2>2 DEF f
  <2>5. \A v : ~Removes(f, v) /\ ~Connects(f, v)
    BY <2>2 DEF Removes, Connects
  <2> QED BY <1>4, <2>3, <2>4, <2>5, KeepIsQuiet, EmptyIsOrderly
<1> QED BY <1>1, <1>2, <1>3, <1>4

LEMMA NextEventStep ==
  ASSUME ConnectionInv, NextEvent PROVE ConnectionInv'
<1> DEFINE e == Head(events)
<1>1. /\ stack = <<>> /\ events # <<>> /\ events' = Tail(events)
      /\ UNCHANGED <<mem, ob, bev, timer, ioTasks, hand>>
  BY DEF NextEvent, life
<1>2. PICK u \in Users : /\ e = events[1] /\ e.ip = u /\ mem[u] # "none"
                         /\ e.kind \in {"logon", "command", "gone"}
  <2>1. events \in Seq(Items({"logon", "command", "gone"})) /\ 1 \in 1 .. Len(events)
    BY <1>1 DEF ConnectionInv, ControlOK
  <2>2. e = events[1]
    BY <1>1, <2>1
  <2> QED BY <2>1, <2>2, ItemsAreOfUsers DEF ConnectionInv, KnownInv
<1>3. \A v : ~Removing(stack, v) /\ ~Connecting(stack, v)
  BY <1>1, EmptyIsOrderly
<1>4. ASSUME Orderly(stack'), \A v : ~Removing(stack', v),
             \A v : Connecting(stack', v) => v = u,
             e.kind = "logon" => Connecting(stack', u) \/ mem[u] = "freed",
             flags' \in [Users -> SUBSET Flags],
             \A v \in Users : /\ "CLOSING" \in flags'[v] <=> "CLOSING" \in flags[v]
                              /\ "CMD_IN_BUF" \in flags'[v] => "CMD_IN_BUF" \in flags[v]
      PROVE  ConnectionInv'
  <2> HIDE DEF e
  <2>1. \A v \in Users : (Begun(v) => Begun(v)') /\ (Opened(v)' => Opened(v))
    BY <1>1, <1>3, <1>4 DEF Begun, Opened
  <2>2. e.kind = "logon" => Begun(u)'
    BY <1>1, <1>4 DEF Begun
  <2>3. /\ events' \in Seq(Items({"logon", "command", "gone"})) /\ LogonInv'
        /\ \A i \in 1 .. Len(events') : mem'[events'[i].ip] # "none"
    BY <1>1, <1>2, <2>1, <2>2, EventIsServed
  <2>4. RemovalInv'
    BY <1>1, <1>3, <1>4 DEF ConnectionInv, RemovalInv
  <2>5. KnownInv'
    BY <1>1, <1>2, <1>4, <2>3 DEF ConnectionInv, KnownInv, Spoken
  <2>6. ControlOK'
    BY <1>1, <1>4, <2>3 DEF ConnectionInv, ControlOK
  <2> QED BY <2>3, <2>4, <2>5, <2>6 DEF ConnectionInv
<1>5. CASE mem[u] = "freed"
  <2>1. UNCHANGED <<flags, stack>>
    BY <1>2, <1>5 DEF NextEvent, buffer
  <2> QED BY <1>1, <1>3, <1>4, <1>5, <2>1, EmptyIsOrderly DEF ConnectionInv, ControlOK
<1>6. CASE mem[u] # "freed" /\ e.kind = "logon"
  <2>1. stack' = <<Lpc("connect", u)>> /\ UNCHANGED flags
    BY <1>2, <1>6 DEF NextEvent, buffer
  <2>2. Orderly(stack') /\ \A v : ~Removing(stack', v) /\ (Connecting(stack', v) <=> v = u)
    BY <1>2, <2>1, OneCallIsOrderly
  <2> QED BY <1>4, <2>1, <2>2 DEF ConnectionInv, ControlOK
<1>7. CASE mem[u] # "freed" /\ e.kind = "command"
  <2>1. GetUserCommand(u)
    BY <1>2, <1>7 DEF NextEvent
  <2>2. flags \in [Users -> SUBSET Flags]
    BY DEF ConnectionInv, ControlOK
  <2>3. /\ flags' \in [Users -> SUBSET Flags]
        /\ \A v \in Users : /\ "CLOSING" \in flags'[v] <=> "CLOSING" \in flags[v]
                            /\ "CMD_IN_BUF" \in flags'[v] => "CMD_IN_BUF" \in flags[v]
        /\ Orderly(stack') /\ \A v : ~Removing(stack', v) /\ ~Connecting(stack', v)
    BY <1>1, <1>2, <2>1, <2>2, GetUserCommandWorks
  <2> QED BY <1>4, <1>7, <2>3
<1>8. CASE mem[u] # "freed" /\ e.kind = "gone"
  <2>1. CASE ob[u] # "body"
    <3>1. UNCHANGED <<flags, stack>>
      BY <1>2, <1>8, <2>1 DEF NextEvent
    <3> QED BY <1>1, <1>3, <1>4, <1>8, <3>1, EmptyIsOrderly DEF ConnectionInv, ControlOK
  <2>2. CASE ob[u] = "body"
    <3>1. RemoveInteractive(u, FALSE, <<>>)
      BY <1>2, <1>8, <2>2 DEF NextEvent
    <3> HIDE DEF e
    <3>2. /\ Orderly(stack)' /\ RemovalInv' /\ flags' \in [Users -> SUBSET Flags]
          /\ \A v \in Users : Spoken(v)' => mem'[v] # "none"
          /\ \A v \in Users : Begun(v) => Begun(v)'
          /\ \A v \in Users : "CMD_IN_BUF" \in flags'[v] <=> "CMD_IN_BUF" \in flags[v]
      BY <1>1, <1>2, <1>3, <3>1, EmptyIsOrderly, RemovalBegins
    <3>3. \A v \in Users : Opened(v)' => Opened(v)
      BY <1>1, <3>2 DEF Opened
    <3>4. events[1].kind # "logon" /\ events[1].ip = u
      BY <1>2, <1>8
    <3>5. /\ events' \in Seq(Items({"logon", "command", "gone"})) /\ LogonInv'
          /\ \A i \in 1 .. Len(events') : mem'[events'[i].ip] # "none"
      BY <1>1, <1>2, <3>2, <3>3, <3>4, EventIsServed
    <3>6. KnownInv'
      BY <1>1, <3>2, <3>5 DEF ConnectionInv, KnownInv
    <3>7. ControlOK'
      BY <1>1, <3>2, <3>5 DEF ConnectionInv, ControlOK
    <3> QED BY <3>2, <3>5, <3>6, <3>7 DEF ConnectionInv
  <2> QED BY <2>1, <2>2
<1> QED BY <1>2, <1>5, <1>6, <1>7, <1>8

-----------------------------------------------------------------------------
(* The invariant holds                                                     *)

LEMMA InitHolds ==
  ASSUME Init PROVE ConnectionInv
<1>1. /\ mem = [u \in Users |-> "none"] /\ ob = [u \in Users |-> "master"]
      /\ bev = [u \in Users |-> "none"] /\ timer = [u \in Users |-> "none"]
      /\ flags = [u \in Users |-> {}]
      /\ ioTasks = <<>> /\ events = <<>> /\ stack = <<>> /\ hand = Nobody
  BY DEF Init
<1>2. Orderly(stack) /\ \A u : ~Removing(stack, u) /\ ~Connecting(stack, u)
  BY <1>1, EmptyIsOrderly
<1>3. ControlOK
  BY <1>1, <1>2 DEF ControlOK
<1>4. RemovalInv /\ KnownInv
  BY <1>1, <1>2 DEF RemovalInv, KnownInv, Spoken
<1>5. LogonInv
  BY <1>1 DEF LogonInv, Opened
<1> QED BY <1>3, <1>4, <1>5 DEF ConnectionInv

LEMMA NextHolds ==
  ASSUME ConnectionInv, [Next]_vars PROVE ConnectionInv'
<1>1. CASE Next
  <2>1. CASE RunTask \/ WorkerSays
    BY <2>1, RunTaskStep, WorkerSaysStep
  <2>2. CASE NextEvent \/ OtherEvent \/ CommandTaken
    BY <2>2, NextEventStep, OtherEventStep, CommandTakenStep
  <2>3. CASE Returns
    BY <2>3, ConnectReturnsStep, LogonReturnsStep, CommandReturnsStep, LpcReturnsStep DEF Returns
  <2>4. CASE RemovePosts \/ RemoveEnds
    BY <2>4, RemovePostsStep, RemoveEndsStep
  <2>5. ASSUME NEW u \in Users, Receive(u) \/ OnUserCommand(u) \/ OnUserEvents(u) PROVE ConnectionInv'
    BY <2>5, ReceiveStep, OnUserCommandStep, OnUserEventsStep
  <2>6. ASSUME NEW u \in Users, NewConnection(u) \/ LpcSays(u) \/ WorkerLooks(u) PROVE ConnectionInv'
    BY <2>6, NewConnectionStep, LpcSaysStep, WorkerLooksStep
  <2>7. ASSUME NEW u \in Users, NEW dested \in BOOLEAN, LpcRemoves(u, dested) PROVE ConnectionInv'
    BY <2>7, LpcRemovesStep
  <2> QED BY <1>1, <2>1, <2>2, <2>3, <2>4, <2>5, <2>6, <2>7 DEF Next
<1>2. CASE UNCHANGED vars
  <2>1. UNCHANGED <<stack, mem, ob, flags, timer, bev, events, ioTasks, hand>>
    BY <1>2 DEF vars, buffer, life, queues
  <2> QED BY <2>1, QueuesOnly DEF ConnectionInv, ControlOK, KnownInv
<1> QED BY <1>1, <1>2

\* The stack, the flags and the queues of the two threads stay as the code means
\* them: CLOSING marks exactly the removals that have begun, and what the IO thread
\* bounces of a user is behind its logon.
THEOREM ConnectionInvariant == Spec => []ConnectionInv
<1>1. Init => ConnectionInv
  BY InitHolds
<1>2. ConnectionInv /\ [Next]_vars => ConnectionInv'
  BY NextHolds
<1> QED BY <1>1, <1>2, PTL DEF Spec

\* remove_interactive() is in the middle of a user once at most, and the user is in
\* memory until it is over, for any users and any nesting of net_dead(), destructs
\* and other removals: CLOSING is set before anything else can run.
THEOREM RemovalIsOnce == Spec => []RemovedOnce
<1>1. ConnectionInv => RemovedOnce
  <2>1. ASSUME ConnectionInv, NEW u \in Users
        PROVE  /\ \A i, j \in Removals(u) : i = j
               /\ Removals(u) # {} => mem[u] = "live"
    <3>1. ASSUME NEW i \in Removals(u), NEW j \in Removals(u) PROVE i = j
      BY <2>1 DEF Removals, Removes, ConnectionInv, ControlOK, Orderly
    <3>2. Removals(u) # {} => Removing(stack, u)
      BY DEF Removals, Removing, Removes
    <3> QED BY <2>1, <3>1, <3>2 DEF ConnectionInv, RemovalInv
  <2> QED BY <2>1 DEF RemovedOnce
<1> QED BY <1>1, ConnectionInvariant, PTL

\* What the main thread serves for a user in memory comes after the user's logon, for
\* any users and buffers and whatever the peers send: the IO thread is told to set a
\* user up, and bounces the logon before it can bounce anything else.
THEOREM LogonIsFirst == Spec => []NothingBeforeLogon
<1>1. ConnectionInv => NothingBeforeLogon
  <2> SUFFICES ASSUME ConnectionInv, stack = <<>>, events # <<>>,
                      mem[Head(events).ip] = "live", Head(events).kind # "logon"
               PROVE  ob[Head(events).ip] = "body"
    BY DEF NothingBeforeLogon
  <2> DEFINE u == Head(events).ip
  <2>1. /\ events \in Seq(Items({"logon", "command", "gone"})) /\ 1 \in 1 .. Len(events)
        /\ Head(events) = events[1]
    BY DEF ConnectionInv, ControlOK
  <2>2. u \in Users
    BY <2>1, ItemsAreOfUsers
  <2>3. Begun(u) \/ LogonAmong(events, u, 1 - 1)
    BY <2>1, <2>2 DEF ConnectionInv, LogonInv
  <2>4. ~LogonAmong(events, u, 1 - 1)
    BY DEF LogonAmong
  <2>5. ~Removing(stack, u) /\ ~Connecting(stack, u)
    BY EmptyIsOrderly
  <2> QED BY <2>3, <2>4, <2>5 DEF Begun
<1> QED BY <1>1, ConnectionInvariant, PTL

-----------------------------------------------------------------------------
(* The text buffer                                                         *)

Byte == [n : Nat, ends : BOOLEAN]

\* t, at s of the buffer, is the end of what was sent up to the n-th byte.
Held(t, s, n) ==
  /\ t \in Seq(Byte) /\ s \in Nat /\ s + Len(t) <= Cap /\ Len(t) <= n
  /\ \A i \in 1 .. Len(t) : t[i].n = (n - Len(t)) + i

\* The number of the byte a command ends with.
EndOf(command) == IF command = <<>> THEN 0 ELSE Last(command).n

\* The main thread has looked for a further command of u, in vain, and has yet to
\* clear CMD_IN_BUF.
Clearing(u) == At("took") /\ Top.ip = u /\ ~Top.more

\* Of whom nothing was lost the buffer begins behind the last command, and
\* CMD_IN_BUF says that there is another.
InStep(u) ==
  /\ "SKIP_COMMAND" \notin flags[u]
  /\ EndOf(line[u]) + Len(text[u]) = sent[u]
  /\ "CMD_IN_BUF" \in flags[u] => Ends(text[u]) # {} \/ Clearing(u)

BufferInv ==
  /\ text \in [Users -> Seq(Byte)] /\ start \in [Users -> Nat]
  /\ sent \in [Users -> Nat] /\ line \in [Users -> Seq(Byte)]
  /\ \A u \in Users : sent[u] <= Bytes[u] /\ Held(text[u], start[u], sent[u])
  /\ \A u \in Users \ lost : InStep(u)

\* A non-empty set of numbers has a least one.
LEMMA LeastOf ==
  ASSUME NEW S \in SUBSET Nat, S # {}
  PROVE  Min(S) \in S /\ \A i \in S : Min(S) <= i
<1> DEFINE R == {ss \in Nat \X Nat : ss[1] < ss[2]}
<1>1. IsWellFoundedOn(R, Nat)
  BY NatLessThanWellFounded, Zenon DEF OpToRel
<1> HIDE DEF R
<1>2. PICK i \in S : \A j \in S : ~(<<j, i>> \in R)
  BY <1>1, WFMin
<1>3. \A j \in S : j < i => <<j, i>> \in R
  <2> SUFFICES ASSUME NEW j \in S, j < i PROVE <<j, i>> \in R
    OBVIOUS
  <2>1. <<j, i>> \in Nat \X Nat /\ <<j, i>>[1] < <<j, i>>[2]
    OBVIOUS
  <2> QED BY <2>1 DEF R
<1>4. \A j \in S : ~(j < i)
  BY <1>2, <1>3
<1>5. \A j \in S : i <= j
  BY <1>4
<1> QED BY <1>5 DEF Min

LEMMA FirstEndWorks ==
  ASSUME NEW t \in Seq(Byte), Ends(t) # {}
  PROVE  /\ FirstEnd(t) \in 1 .. Len(t) /\ t[FirstEnd(t)].ends
         /\ \A i \in 1 .. FirstEnd(t) : t[i].ends => i = FirstEnd(t)
<1>1. Ends(t) \in SUBSET Nat
  BY DEF Ends
<1>2. FirstEnd(t) \in Ends(t) /\ \A i \in Ends(t) : FirstEnd(t) <= i
  BY <1>1, LeastOf DEF FirstEnd
<1>3. FirstEnd(t) \in 1 .. Len(t) /\ t[FirstEnd(t)].ends
  BY <1>2 DEF Ends
<1>4. ASSUME NEW i \in 1 .. FirstEnd(t), t[i].ends PROVE i = FirstEnd(t)
  <2>1. i \in 1 .. Len(t)
    BY <1>3
  <2>2. i \in Ends(t)
    BY <1>4, <2>1 DEF Ends
  <2> QED BY <1>2, <1>3, <2>2
<1> QED BY <1>3, <1>4

\* What is left behind the first k - 1 bytes.
LEMMA RestIsHeld ==
  ASSUME NEW t, NEW s, NEW n \in Nat, Held(t, s, n), NEW k \in 1 .. Len(t) + 1
  PROVE  /\ Len(From(t, k)) = Len(t) - (k - 1)
         /\ Held(From(t, k), s + (k - 1), n)
         /\ From(t, k) = <<>> => Held(From(t, k), 0, n)
<1> DEFINE r == From(t, k)
<1>1. t \in Seq(Byte) /\ Len(t) \in Nat /\ s \in Nat /\ s + Len(t) <= Cap /\ Len(t) <= n
  BY DEF Held
<1>2. /\ r \in Seq(Byte) /\ Len(r) = Len(t) - (k - 1)
      /\ \A i \in 1 .. Len(r) : r[i] = t[i + (k - 1)] /\ i + (k - 1) \in 1 .. Len(t)
  BY <1>1 DEF From
<1> HIDE DEF r
<1>3. Cap \in Nat
  BY UserConnectionAssumption
<1>4. \A i \in 1 .. Len(r) : r[i].n = (n - Len(r)) + i
  <2> SUFFICES ASSUME NEW i \in 1 .. Len(r) PROVE r[i].n = (n - Len(r)) + i
    OBVIOUS
  <2>1. t[i + (k - 1)].n = (n - Len(t)) + (i + (k - 1))
    BY <1>2 DEF Held
  <2> QED BY <1>1, <1>2, <2>1
<1>5. Held(r, s + (k - 1), n)
  BY <1>1, <1>2, <1>3, <1>4 DEF Held
<1>6. r = <<>> => Held(r, 0, n)
  BY <1>1, <1>3, <1>5 DEF Held
<1> QED BY <1>2, <1>5, <1>6 DEF r

\* clean_buf(), which does nothing but skip.
LEMMA CleanedIsHeld ==
  ASSUME NEW t, NEW s, NEW n \in Nat, Held(t, s, n), NEW skip \in BOOLEAN
  PROVE  /\ Held(Cleaned(t, s, skip).text, Cleaned(t, s, skip).start, n)
         /\ ~skip => Cleaned(t, s, skip).text = t /\ ~Cleaned(t, s, skip).skip
<1> DEFINE ends == skip /\ Ends(t) # {}
           rest == IF ends THEN From(t, FirstEnd(t) + 1) ELSE t
<1>1. t \in Seq(Byte) /\ Len(t) \in Nat /\ s \in Nat
  BY DEF Held
<1>2. /\ Cleaned(t, s, skip).text = rest
      /\ Cleaned(t, s, skip).skip = (skip /\ ~ends)
      /\ Cleaned(t, s, skip).start = IF rest = <<>> THEN 0 ELSE s + Len(t) - Len(rest)
  BY DEF Cleaned
<1>3. CASE ~ends
  <2>1. s + Len(t) - Len(t) = s
    BY <1>1
  <2>2. t = <<>> => Held(t, 0, n)
    BY <1>1, UserConnectionAssumption DEF Held
  <2> QED BY <1>2, <1>3, <2>1, <2>2
<1>4. CASE ends
  <2>1. FirstEnd(t) + 1 \in 1 .. Len(t) + 1 /\ FirstEnd(t) \in Nat
    BY <1>1, <1>4, FirstEndWorks
  <2> DEFINE r == From(t, FirstEnd(t) + 1)
             k == FirstEnd(t) + 1
  <2>2. /\ Len(r) = Len(t) - (k - 1)
        /\ Held(r, s + (k - 1), n)
        /\ r = <<>> => Held(r, 0, n)
    BY <2>1, RestIsHeld
  <2>3. s + Len(t) - Len(r) = s + (k - 1)
    BY <1>1, <2>1, <2>2
  <2> QED BY <1>2, <1>4, <2>2, <2>3
<1> QED BY <1>3, <1>4

\* What a read of k bytes adds.
Continues(new, n) == \A i \in 1 .. Len(new) : new[i].n = n + i

LEMMA NewIsHeld ==
  ASSUME NEW t, NEW s, NEW n \in Nat, Held(t, s, n), NEW new \in Seq(Byte),
         NEW k \in Nat, Len(new) = k, s + Len(t) + k <= Cap, Continues(new, n)
  PROVE  /\ Held(t \o new, s, n + k) /\ Len(t \o new) = Len(t) + k
         /\ Ends(t) # {} => Ends(t \o new) # {}
<1>1. t \in Seq(Byte) /\ Len(t) \in Nat /\ s \in Nat /\ Len(t) <= n
  BY DEF Held
<1>2. new \in Seq(Byte) /\ Len(new) = k
  OBVIOUS
<1>3. /\ t \o new \in Seq(Byte) /\ Len(t \o new) = Len(t) + k
      /\ \A i \in 1 .. Len(t) : (t \o new)[i] = t[i]
      /\ \A i \in Len(t) + 1 .. Len(t) + k : (t \o new)[i] = new[i - Len(t)] /\ i - Len(t) \in 1 .. k
  <2> DEFINE m == Len(t)
  <2>1. m \in Nat /\ \A i \in m + 1 .. m + k : i - m \in 1 .. k /\ ~(i \in 1 .. m) /\ i \in 1 .. m + k
    BY <1>1
  <2>2. /\ t \o new \in Seq(Byte) /\ Len(t \o new) = m + k
        /\ \A i \in 1 .. m : (t \o new)[i] = t[i]
    BY <1>1, <1>2
  <2>3. \A i \in 1 .. m + k : i > m => (t \o new)[i] = new[i - m]
    BY <1>1, <1>2
  <2>4. \A i \in m + 1 .. m + k : i > m
    BY <2>1
  <2> HIDE DEF m
  <2>5. \A i \in m + 1 .. m + k : (t \o new)[i] = new[i - m] /\ i - m \in 1 .. k
    BY <2>1, <2>3, <2>4
  <2> QED BY <2>2, <2>5 DEF m
<1>4. ASSUME NEW i \in 1 .. Len(t) + k PROVE (t \o new)[i].n = ((n + k) - (Len(t) + k)) + i
  <2>1. CASE i \in 1 .. Len(t)
    <3>1. t[i].n = (n - Len(t)) + i
      BY <2>1 DEF Held
    <3> QED BY <1>1, <1>3, <2>1, <3>1
  <2>2. CASE i \in Len(t) + 1 .. Len(t) + k
    <3>1. new[i - Len(t)].n = n + (i - Len(t))
      BY <1>2, <1>3, <2>2 DEF Continues
    <3> QED BY <1>1, <1>3, <2>2, <3>1
  <2> QED BY <1>1, <2>1, <2>2
<1>5. Held(t \o new, s, n + k)
  BY <1>1, <1>3, <1>4 DEF Held
<1>6. Ends(t) # {} => Ends(t \o new) # {}
  <2>1. \A i \in 1 .. Len(t) : i \in 1 .. Len(t \o new)
    BY <1>1, <1>3
  <2> QED BY <1>3, <2>1 DEF Ends
<1> QED BY <1>3, <1>5, <1>6

\* The room that get_user_data() makes.
LEMMA RoomyIsHeld ==
  ASSUME NEW u \in Users, Held(text[u], start[u], sent[u]), sent[u] \in Nat
  PROVE  /\ Held(Roomy(u).text, Roomy(u).start, sent[u])
         /\ Roomy(u).start + Len(Roomy(u).text) + Low <= Cap
         /\ Roomy(u).skip \in BOOLEAN /\ Roomy(u).lost \in BOOLEAN
         /\ ~Roomy(u).lost => Roomy(u).text = text[u] /\ Roomy(u).skip = Skips(u)
<1> DEFINE t == text[u]
           s == IF Cap - start[u] - Len(t) < Low THEN 0 ELSE start[u]
<1>1. t \in Seq(Byte) /\ Len(t) \in Nat /\ start[u] \in Nat /\ start[u] + Len(t) <= Cap /\ Len(t) <= sent[u]
  BY DEF Held
<1>2. Cap \in Nat /\ Low \in Nat /\ Low <= Cap
  BY UserConnectionAssumption
<1>3. s \in Nat /\ s <= start[u]
  BY <1>1
<1>4. Roomy(u) = IF Cap - s - Len(t) < Low
                 THEN [text |-> <<>>, start |-> 0, skip |-> TRUE, lost |-> TRUE]
                 ELSE [text |-> t, start |-> s, skip |-> Skips(u), lost |-> FALSE]
  BY DEF Roomy
<1> HIDE DEF s
<1>5. CASE Cap - s - Len(t) < Low
  <2>1. Roomy(u) = [text |-> <<>>, start |-> 0, skip |-> TRUE, lost |-> TRUE]
    BY <1>4, <1>5
  <2>2. Held(<<>>, 0, sent[u])
    BY <1>2 DEF Held
  <2>3. 0 + Len(<<>>) + Low <= Cap
    BY <1>2
  <2> QED BY <2>1, <2>2, <2>3
<1>6. CASE ~(Cap - s - Len(t) < Low)
  <2>1. Roomy(u) = [text |-> t, start |-> s, skip |-> Skips(u), lost |-> FALSE]
    BY <1>4, <1>6
  <2>2. Held(t, s, sent[u])
    BY <1>1, <1>2, <1>3 DEF Held
  <2>3. Skips(u) \in BOOLEAN
    BY DEF Skips
  <2>4. s + Len(t) + Low <= Cap
    <3>1. Len(t) \in Nat
      BY <1>1
    <3> HIDE DEF t
    <3> QED BY <1>2, <1>3, <1>6, <3>1
  <2>5. /\ Roomy(u).text = t /\ Roomy(u).start = s /\ Roomy(u).skip = Skips(u)
        /\ ~Roomy(u).lost /\ Roomy(u).lost = FALSE
    BY <2>1
  <2> HIDE DEF t
  <2>6. Roomy(u).text = text[u]
    BY <2>5 DEF t
  <2> QED BY <2>2, <2>3, <2>4, <2>5, <2>6
<1> QED BY <1>5, <1>6

\* A step that leaves the buffer, and what the main thread is taking, alone.
LEMMA BuffersAreKept ==
  ASSUME BufferInv, UNCHANGED <<text, start, sent, line, lost>>,
         \A u \in Users : Clearing(u) => Clearing(u)',
         \A u \in Users : /\ "SKIP_COMMAND" \in flags'[u] <=> "SKIP_COMMAND" \in flags[u]
                          /\ "CMD_IN_BUF" \in flags'[u] <=> "CMD_IN_BUF" \in flags[u]
  PROVE  BufferInv'
<1>1. \A u \in Users \ lost : InStep(u)'
  BY DEF BufferInv, InStep
<1> QED BY <1>1 DEF BufferInv

\* What Keep() leaves in the flags.
LEMMA KeepFlags ==
  ASSUME NEW u \in Users, NEW b, NEW more \in SUBSET {"CMD_IN_BUF"}, Keep(u, b, more),
         flags \in [Users -> SUBSET Flags]
  PROVE  /\ "SKIP_COMMAND" \in flags'[u] => b.skip
         /\ "CMD_IN_BUF" \in flags'[u] <=> "CMD_IN_BUF" \in flags[u] \/ "CMD_IN_BUF" \in more
         /\ \A v \in Users \ {u} : flags'[v] = flags[v]
BY DEF Keep

\* get_user_data() of k bytes, with what clean_buf() does then.
Read(u, k, ends) ==
  Cleaned(Roomy(u).text \o [i \in 1 .. k |-> [n |-> sent[u] + i, ends |-> ends[i]]],
          Roomy(u).start, Roomy(u).skip)

LEMMA ReceiveReads ==
  ASSUME NEW u \in Users, Receive(u)
  PROVE  \E k \in 1 .. (Low - 1) : \E ends \in [1 .. k -> BOOLEAN] :
           /\ sent[u] + k <= Bytes[u] /\ sent' = [sent EXCEPT ![u] = @ + k]
           /\ Keep(u, Read(u, k, ends), IF CmdInBuf(Read(u, k, ends)) THEN {"CMD_IN_BUF"} ELSE {})
           /\ lost' = IF Roomy(u).lost THEN lost \cup {u} ELSE lost
BY Zenon DEF Receive, Read

LEMMA ReadIsHeld ==
  ASSUME NEW u \in Users, Held(text[u], start[u], sent[u]), sent[u] \in Nat,
         NEW k \in 1 .. (Low - 1), NEW ends \in [1 .. k -> BOOLEAN]
  PROVE  /\ Held(Read(u, k, ends).text, Read(u, k, ends).start, sent[u] + k)
         /\ ~Roomy(u).lost /\ ~Skips(u) =>
              /\ ~Read(u, k, ends).skip /\ Len(Read(u, k, ends).text) = Len(text[u]) + k
              /\ Ends(text[u]) # {} => Ends(Read(u, k, ends).text) # {}
<1> DEFINE t == Roomy(u).text
           s == Roomy(u).start
           new == [i \in 1 .. k |-> [n |-> sent[u] + i, ends |-> ends[i]]]
           skip == Roomy(u).skip
<1>1. /\ Held(t, s, sent[u]) /\ s + Len(t) + Low <= Cap /\ skip \in BOOLEAN
      /\ ~Roomy(u).lost => t = text[u] /\ skip = Skips(u)
  BY RoomyIsHeld
<1>2. Low \in Nat /\ Cap \in Nat /\ k \in Nat /\ k <= Low
  BY UserConnectionAssumption
<1>3. Read(u, k, ends) = Cleaned(t \o new, s, skip)
  BY DEF Read
<1> HIDE DEF t, s, skip
<1>4. s \in Nat /\ Len(t) \in Nat
  BY <1>1 DEF Held
<1>5. s + Len(t) + k <= Cap
  BY <1>1, <1>2, <1>4
<1>10. new \in Seq(Byte) /\ Len(new) = k /\ Continues(new, sent[u])
  <2>1. \A i \in 1 .. k : [n |-> sent[u] + i, ends |-> ends[i]] \in Byte
    BY DEF Byte
  <2>2. new \in [1 .. k -> Byte]
    BY <2>1
  <2> QED BY <1>2, <2>2 DEF Continues
<1> HIDE DEF new
<1>6. /\ Held(t \o new, s, sent[u] + k) /\ Len(t \o new) = Len(t) + k
      /\ Ends(t) # {} => Ends(t \o new) # {}
  <2>1. Held(t, s, sent[u])
    BY <1>1
  <2> QED BY <1>2, <1>10, <1>5, <2>1, NewIsHeld
<1>7. sent[u] + k \in Nat
  BY <1>2
<1>8. /\ Held(Cleaned(t \o new, s, skip).text, Cleaned(t \o new, s, skip).start, sent[u] + k)
      /\ ~skip => Cleaned(t \o new, s, skip).text = t \o new /\ ~Cleaned(t \o new, s, skip).skip
  BY <1>1, <1>6, <1>7, CleanedIsHeld
<1>9. ASSUME ~Roomy(u).lost, ~Skips(u)
      PROVE  /\ ~Read(u, k, ends).skip /\ Len(Read(u, k, ends).text) = Len(text[u]) + k
             /\ Ends(text[u]) # {} => Ends(Read(u, k, ends).text) # {}
  <2>1. t = text[u] /\ ~skip
    BY <1>1, <1>9
  <2>2. Read(u, k, ends).text = t \o new /\ ~Read(u, k, ends).skip
    BY <1>3, <1>8, <2>1
  <2> QED BY <1>6, <2>1, <2>2
<1> QED BY <1>3, <1>8, <1>9

LEMMA EndOfIsNumber ==
  ASSUME NEW command \in Seq(Byte) PROVE EndOf(command) \in Nat
<1>1. command # <<>> => command[Len(command)] \in Byte
  OBVIOUS
<1>2. command # <<>> => command[Len(command)].n \in Nat
  BY <1>1 DEF Byte
<1> QED BY <1>2, Zenon DEF EndOf, Last

LEMMA ReceiveBuffers ==
  ASSUME ConnectionInv, BufferInv, NEW u \in Users, Receive(u) PROVE BufferInv'
<1>0. PICK k \in 1 .. (Low - 1) : \E ends \in [1 .. k -> BOOLEAN] :
           /\ sent[u] + k <= Bytes[u] /\ sent' = [sent EXCEPT ![u] = @ + k]
           /\ Keep(u, Read(u, k, ends), IF CmdInBuf(Read(u, k, ends)) THEN {"CMD_IN_BUF"} ELSE {})
           /\ lost' = IF Roomy(u).lost THEN lost \cup {u} ELSE lost
  BY ReceiveReads
<1>1. PICK ends \in [1 .. k -> BOOLEAN] :
           /\ sent[u] + k <= Bytes[u] /\ sent' = [sent EXCEPT ![u] = @ + k]
           /\ Keep(u, Read(u, k, ends), IF CmdInBuf(Read(u, k, ends)) THEN {"CMD_IN_BUF"} ELSE {})
           /\ lost' = IF Roomy(u).lost THEN lost \cup {u} ELSE lost
  BY <1>0
<1>2. UNCHANGED <<stack, line>>
  BY DEF Receive
<1>3. Held(text[u], start[u], sent[u]) /\ sent[u] \in Nat /\ k \in Nat
  BY UserConnectionAssumption DEF BufferInv
<1> DEFINE b == Read(u, k, ends)
<1>4. /\ Held(b.text, b.start, sent[u] + k)
      /\ ~Roomy(u).lost /\ ~Skips(u) =>
              /\ ~b.skip /\ Len(b.text) = Len(text[u]) + k
              /\ Ends(text[u]) # {} => Ends(b.text) # {}
  BY <1>3, ReadIsHeld
<1>5. /\ text' = [text EXCEPT ![u] = b.text] /\ start' = [start EXCEPT ![u] = b.start]
      /\ "SKIP_COMMAND" \in flags'[u] => b.skip
      /\ "CMD_IN_BUF" \in flags'[u] => "CMD_IN_BUF" \in flags[u] \/ CmdInBuf(b)
      /\ \A v \in Users \ {u} : flags'[v] = flags[v]
  <2>1. flags \in [Users -> SUBSET Flags]
    BY DEF ConnectionInv, ControlOK
  <2> DEFINE more == IF CmdInBuf(b) THEN {"CMD_IN_BUF"} ELSE {}
  <2>2. Keep(u, b, more) /\ more \in SUBSET {"CMD_IN_BUF"} /\ ("CMD_IN_BUF" \in more => CmdInBuf(b))
    BY <1>1
  <2> HIDE DEF more, b
  <2> QED BY <2>1, <2>2, KeepFlags DEF Keep
<1> HIDE DEF b
<1>6. b.text \in Seq(Byte) /\ b.start \in Nat
  BY <1>4 DEF Held
<1>7. /\ text' \in [Users -> Seq(Byte)] /\ start' \in [Users -> Nat] /\ sent' \in [Users -> Nat]
      /\ text'[u] = b.text /\ start'[u] = b.start /\ sent'[u] = sent[u] + k
      /\ \A v \in Users \ {u} : text'[v] = text[v] /\ start'[v] = start[v] /\ sent'[v] = sent[v]
  BY <1>1, <1>3, <1>5, <1>6 DEF BufferInv
<1>8. ASSUME NEW v \in Users PROVE sent'[v] <= Bytes[v] /\ Held(text'[v], start'[v], sent'[v])
  BY <1>1, <1>4, <1>7 DEF BufferInv
<1>9. ASSUME NEW v \in Users \ lost', v # u PROVE InStep(v)'
  <2>1. v \in Users \ lost
    BY <1>1, <1>9
  <2>2. flags'[v] = flags[v] /\ text'[v] = text[v] /\ sent'[v] = sent[v] /\ (Clearing(v) <=> Clearing(v)')
    BY <1>2, <1>5, <1>7, <1>9 DEF Clearing, At, Top
  <2> QED BY <1>2, <2>1, <2>2 DEF BufferInv, InStep
<1>10. ASSUME u \notin lost' PROVE InStep(u)'
  <2>1. u \notin lost /\ ~Roomy(u).lost
    BY <1>1, <1>10
  <2>2. InStep(u) /\ ~Skips(u)
    BY <2>1 DEF BufferInv, InStep, Skips
  <2>3. ~b.skip /\ Len(b.text) = Len(text[u]) + k /\ (Ends(text[u]) # {} => Ends(b.text) # {})
    BY <1>4, <2>1, <2>2
  <2>4. EndOf(line[u]) + Len(b.text) = sent[u] + k
    <3>1. EndOf(line[u]) \in Nat
      BY EndOfIsNumber DEF BufferInv
    <3>2. Len(text[u]) \in Nat
      BY <1>3 DEF Held
    <3> QED BY <1>3, <2>2, <2>3, <3>1, <3>2 DEF InStep
  <2>5. "CMD_IN_BUF" \in flags'[u] => Ends(b.text) # {} \/ Clearing(u)'
    BY <1>2, <1>5, <2>2, <2>3 DEF InStep, CmdInBuf, Clearing, At, Top
  <2> QED BY <1>2, <1>5, <1>7, <2>3, <2>4, <2>5 DEF InStep
<1>11. line' \in [Users -> Seq(Byte)]
  BY <1>2 DEF BufferInv
<1> QED BY <1>7, <1>8, <1>9, <1>10, <1>11 DEF BufferInv

\* first_cmd_in_buf(), of a buffer that is not empty.
LEMMA TakenWorks ==
  ASSUME NEW b, NEW n \in Nat, Held(b.text, b.start, n), b.text # <<>>
  PROVE  /\ Taken(b).line \in Seq(Byte) /\ Len(Taken(b).line) \in 1 .. Len(b.text)
         /\ Ends(b.text) # {} => Len(Taken(b).line) = FirstEnd(b.text)
         /\ \A i \in 1 .. Len(Taken(b).line) : Taken(b).line[i] = b.text[i]
         /\ EndOf(Taken(b).line) = (n - Len(b.text)) + Len(Taken(b).line)
         /\ Len(Taken(b).rest) = Len(b.text) - Len(Taken(b).line)
         /\ Held(Taken(b).rest, b.start + Len(Taken(b).line), n)
<1> DEFINE t == b.text
           k == IF CmdInBuf(b) THEN FirstEnd(t) ELSE Len(t)
           c == SubSeq(t, 1, k)
<1>1. Taken(b).line = c /\ Taken(b).rest = From(t, k + 1)
  BY DEF Taken
<1>2. t \in Seq(Byte) /\ Len(t) \in Nat \ {0} /\ Len(t) <= n /\ b.start \in Nat
  BY DEF Held
<1>3. k \in 1 .. Len(t) /\ (Ends(t) # {} => k = FirstEnd(t))
  BY <1>2, FirstEndWorks DEF CmdInBuf
<1> HIDE DEF k
<1>4. c \in Seq(Byte) /\ Len(c) = k /\ \A i \in 1 .. k : c[i] = t[i]
  BY <1>2, <1>3
<1>5. k + 1 \in 1 .. Len(t) + 1 /\ (k + 1) - 1 = k
  BY <1>2, <1>3
<1>6. Len(From(t, k + 1)) = Len(t) - k /\ Held(From(t, k + 1), b.start + k, n)
  <2>1. /\ Len(From(t, k + 1)) = Len(t) - ((k + 1) - 1)
        /\ Held(From(t, k + 1), b.start + ((k + 1) - 1), n)
    BY <1>5, RestIsHeld
  <2> QED BY <1>5, <2>1
<1>7. EndOf(c) = (n - Len(t)) + k
  <2>1. c # <<>> /\ k \in 1 .. k
    BY <1>3, <1>4
  <2>2. c[k].n = (n - Len(t)) + k
    BY <1>3, <1>4, <2>1 DEF Held
  <2> HIDE DEF c
  <2> QED BY <1>4, <2>1, <2>2 DEF EndOf, Last
<1> HIDE DEF c, t
<1> QED BY <1>1, <1>3, <1>4, <1>6, <1>7 DEF t

\* get_user_command(): what it looks at, and what it leaves.
Ready(u) == Cleaned(text[u], start[u], Skips(u))
Left(u) ==
  Cleaned(Taken(Ready(u)).rest, Ready(u).start + Len(Taken(Ready(u)).line), Ready(u).skip)

LEMMA CommandIsTaken ==
  ASSUME NEW u \in Users, GetUserCommand(u)
  PROVE  \/ UNCHANGED <<text, start, flags, stack, line>>
         \/ Keep(u, Ready(u), {}) /\ Ready(u).text = <<>> /\ UNCHANGED <<stack, line>>
         \/ /\ "CMD_IN_BUF" \in flags[u] /\ Ready(u).text # <<>> /\ Keep(u, Left(u), {})
            /\ line' = [line EXCEPT ![u] = Taken(Ready(u)).line]
            /\ stack' = <<[at |-> "took", then |-> "command", ip |-> u, more |-> CmdInBuf(Left(u))]>>
<1>1. CASE "CMD_IN_BUF" \notin flags[u]
  BY <1>1 DEF GetUserCommand, buffer
<1>2. CASE "CMD_IN_BUF" \in flags[u]
  BY <1>2, Zenon DEF GetUserCommand, Ready, Left
<1> QED BY <1>1, <1>2

\* Keep() changes the buffer of one user, and what is left there is held.
LEMMA KeepIsHeld ==
  ASSUME BufferInv, flags \in [Users -> SUBSET Flags], NEW u \in Users, NEW b, Keep(u, b, {}),
         UNCHANGED <<sent, lost>>, Held(b.text, b.start, sent[u]), line' \in [Users -> Seq(Byte)],
         \A v \in Users \ {u} : line'[v] = line[v] /\ ~Clearing(v),
         u \notin lost => InStep(u)'
  PROVE  BufferInv'
<1>1. b.text \in Seq(Byte) /\ b.start \in Nat
  BY DEF Held
<1>2. /\ text' \in [Users -> Seq(Byte)] /\ start' \in [Users -> Nat]
      /\ text'[u] = b.text /\ start'[u] = b.start
      /\ \A v \in Users \ {u} : text'[v] = text[v] /\ start'[v] = start[v] /\ flags'[v] = flags[v]
  BY <1>1 DEF Keep, BufferInv
<1>3. ASSUME NEW v \in Users PROVE sent'[v] <= Bytes[v] /\ Held(text'[v], start'[v], sent'[v])
  BY <1>2 DEF BufferInv
<1>4. ASSUME NEW v \in Users \ lost', v # u PROVE InStep(v)'
  BY <1>2, <1>4 DEF BufferInv, InStep
<1> QED BY <1>2, <1>3, <1>4 DEF BufferInv

\* The next command of a user of whom nothing was lost is the next line.
LEMMA LineIsNext ==
  ASSUME NEW u \in Users, Held(text[u], start[u], sent[u]), sent[u] \in Nat, InStep(u),
         ~Clearing(u), line \in [Users -> Seq(Byte)], "CMD_IN_BUF" \in flags[u]
  PROVE  LET taken == Taken(Ready(u)).line IN
         /\ Ready(u).text # <<>>
         /\ EndOf(taken) + Len(Left(u).text) = sent[u] /\ ~Left(u).skip
         /\ \A i \in 1 .. Len(taken) :
              /\ taken[i] \in Byte /\ taken[i].n = EndOf(line[u]) + i
              /\ taken[i].ends <=> i = Len(taken)
<1> DEFINE t == text[u]
           b == Ready(u)
           taken == Taken(b).line
<1>1. Ends(t) # {}
  BY DEF InStep
<1>2. ~Skips(u) /\ Skips(u) \in BOOLEAN
  BY DEF InStep, Skips
<1>3. b.text = t /\ ~b.skip /\ Held(b.text, b.start, sent[u])
  BY <1>2, CleanedIsHeld DEF Ready
<1>4. t \in Seq(Byte) /\ Len(t) \in Nat /\ Len(t) <= sent[u]
  BY DEF Held
<1>5. t # <<>>
  BY <1>1, <1>4 DEF Ends
<1> HIDE DEF b
<1>6. /\ taken \in Seq(Byte) /\ Len(taken) \in 1 .. Len(t) /\ Len(taken) = FirstEnd(t)
      /\ \A i \in 1 .. Len(taken) : taken[i] = t[i]
      /\ EndOf(taken) = (sent[u] - Len(t)) + Len(taken)
      /\ Len(Taken(b).rest) = Len(t) - Len(taken)
      /\ Held(Taken(b).rest, b.start + Len(taken), sent[u])
  BY <1>1, <1>3, <1>5, TakenWorks
<1>7. Left(u).text = Taken(b).rest /\ ~Left(u).skip
  <2>1. Left(u) = Cleaned(Taken(b).rest, b.start + Len(taken), b.skip)
    BY DEF Left, b
  <2>2. b.skip = FALSE
    BY <1>2, <1>3 DEF b, Ready, Cleaned
  <2> HIDE DEF taken
  <2>3. ~FALSE => /\ Cleaned(Taken(b).rest, b.start + Len(taken), FALSE).text = Taken(b).rest
                  /\ ~Cleaned(Taken(b).rest, b.start + Len(taken), FALSE).skip
    BY <1>6, CleanedIsHeld
  <2> QED BY <2>1, <2>2, <2>3
<1>8. EndOf(line[u]) + Len(t) = sent[u] /\ EndOf(line[u]) \in Nat
  BY EndOfIsNumber DEF InStep
<1>9. /\ t[FirstEnd(t)].ends
      /\ \A i \in 1 .. FirstEnd(t) : t[i].ends => i = FirstEnd(t)
  BY <1>1, <1>4, FirstEndWorks
<1> HIDE DEF taken
<1>10. EndOf(taken) + Len(Left(u).text) = sent[u]
  BY <1>4, <1>6, <1>7
<1>11. ASSUME NEW i \in 1 .. Len(taken)
       PROVE  taken[i] \in Byte /\ taken[i].n = EndOf(line[u]) + i /\ (taken[i].ends <=> i = Len(taken))
  <2>1. i \in 1 .. Len(t) /\ taken[i] = t[i]
    BY <1>4, <1>6
  <2>2. t[i].n = (sent[u] - Len(t)) + i /\ t[i] \in Byte
    BY <1>4, <2>1 DEF Held
  <2>3. (sent[u] - Len(t)) + i = EndOf(line[u]) + i
    BY <1>4, <1>8, <2>1
  <2>4. t[i].ends <=> i = Len(taken)
    BY <1>6, <1>9
  <2> QED BY <2>1, <2>2, <2>3, <2>4
<1> QED BY <1>3, <1>5, <1>7, <1>10, <1>11 DEF taken, b

LEMMA GetUserCommandBuffers ==
  ASSUME ConnectionInv, BufferInv, stack = <<>>, NEW u \in Users, GetUserCommand(u),
         UNCHANGED <<sent, lost>>
  PROVE  BufferInv'
<1>0. /\ flags \in [Users -> SUBSET Flags] /\ \A v : ~Clearing(v)
      /\ sent[u] \in Nat /\ Held(text[u], start[u], sent[u]) /\ Skips(u) \in BOOLEAN
  BY DEF ConnectionInv, ControlOK, Clearing, At, BufferInv, Skips
<1> DEFINE b == Ready(u)
           taken == Taken(b).line
<1>1. Held(b.text, b.start, sent[u]) /\ (~Skips(u) => b.text = text[u] /\ ~b.skip)
  BY <1>0, CleanedIsHeld DEF Ready
<1>2. CASE UNCHANGED <<text, start, flags, stack, line>>
  BY <1>2, BuffersAreKept DEF Clearing, At, Top
<1>3. CASE Keep(u, b, {}) /\ b.text = <<>> /\ UNCHANGED <<stack, line>>
  <2>1. u \notin lost => InStep(u)'
    <3> SUFFICES ASSUME u \notin lost PROVE InStep(u)'
      OBVIOUS
    <3>1. InStep(u) /\ ~Skips(u)
      BY DEF BufferInv, InStep, Skips
    <3>2. text'[u] = text[u]
      BY <1>1, <1>3, <3>1 DEF Keep, BufferInv
    <3>3. "SKIP_COMMAND" \notin flags'[u] /\ ("CMD_IN_BUF" \in flags'[u] => "CMD_IN_BUF" \in flags[u])
      BY <1>0, <1>1, <1>3, <3>1, KeepFlags
    <3>4. Clearing(u) => Clearing(u)'
      BY <1>0
    <3> QED BY <1>3, <3>1, <3>2, <3>3, <3>4 DEF InStep
  <2>2. line' \in [Users -> Seq(Byte)] /\ \A v \in Users \ {u} : line'[v] = line[v]
    BY <1>3 DEF BufferInv
  <2> QED BY <1>0, <1>1, <1>3, <2>1, <2>2, KeepIsHeld
<1>4. CASE /\ "CMD_IN_BUF" \in flags[u] /\ b.text # <<>> /\ Keep(u, Left(u), {})
           /\ line' = [line EXCEPT ![u] = taken]
           /\ stack' = <<[at |-> "took", then |-> "command", ip |-> u, more |-> CmdInBuf(Left(u))]>>
  <2>1. /\ taken \in Seq(Byte) /\ Held(Taken(b).rest, b.start + Len(taken), sent[u])
    BY <1>0, <1>1, <1>4, TakenWorks
  <2>2. Held(Left(u).text, Left(u).start, sent[u])
    <3>1. b.skip \in BOOLEAN
      BY <1>0 DEF Ready, Cleaned
    <3> HIDE DEF b, taken
    <3>2. /\ Held(Cleaned(Taken(b).rest, b.start + Len(taken), b.skip).text,
                  Cleaned(Taken(b).rest, b.start + Len(taken), b.skip).start, sent[u])
      BY <1>0, <2>1, <3>1, CleanedIsHeld
    <3> QED BY <3>2 DEF Left, b, taken
  <2>3. line' \in [Users -> Seq(Byte)] /\ line'[u] = taken /\ \A v \in Users \ {u} : line'[v] = line[v]
    BY <1>4, <2>1 DEF BufferInv
  <2>4. ASSUME u \notin lost PROVE InStep(u)'
    <3>1. InStep(u)
      BY <2>4 DEF BufferInv
    <3>2. EndOf(taken) + Len(Left(u).text) = sent[u] /\ ~Left(u).skip
      BY <1>0, <1>4, <3>1, LineIsNext DEF BufferInv
    <3>3. text'[u] = Left(u).text
      BY <1>4 DEF Keep, BufferInv
    <3>4. "SKIP_COMMAND" \notin flags'[u]
      BY <1>0, <1>4, <3>2, KeepFlags
    <3>5. Ends(Left(u).text) # {} \/ Clearing(u)'
      <4> HIDE DEF b, taken
      <4>1. Top' = [at |-> "took", then |-> "command", ip |-> u, more |-> CmdInBuf(Left(u))] /\ stack' # <<>>
        BY <1>4 DEF Top
      <4>2. At("took")' /\ Top'.ip = u /\ Top'.more = CmdInBuf(Left(u))
        BY <4>1 DEF At
      <4> QED BY <4>2 DEF Clearing, CmdInBuf
    <3> HIDE DEF taken
    <3> QED BY <2>3, <3>2, <3>3, <3>4, <3>5 DEF InStep
  <2> QED BY <1>0, <1>4, <2>2, <2>3, <2>4, KeepIsHeld
<1> QED BY <1>2, <1>3, <1>4, CommandIsTaken

LEMMA RemoveKeepsFlags ==
  ASSUME NEW u \in Users, NEW dested, NEW below, flags \in [Users -> SUBSET Flags],
         RemoveInteractive(u, dested, below)
  PROVE  \A v \in Users : /\ "SKIP_COMMAND" \in flags'[v] <=> "SKIP_COMMAND" \in flags[v]
                          /\ "CMD_IN_BUF" \in flags'[v] <=> "CMD_IN_BUF" \in flags[v]
BY DEF RemoveInteractive

LEMMA NextEventBuffers ==
  ASSUME ConnectionInv, BufferInv, NextEvent PROVE BufferInv'
<1> DEFINE e == Head(events)
<1>1. stack = <<>> /\ events # <<>> /\ UNCHANGED <<sent, lost>> /\ \A v : ~Clearing(v)
  BY DEF NextEvent, Clearing, At
<1>2. PICK u \in Users : e.ip = u /\ e.kind \in {"logon", "command", "gone"}
  <2>1. events \in Seq(Items({"logon", "command", "gone"})) /\ 1 \in 1 .. Len(events)
    BY <1>1 DEF ConnectionInv, ControlOK
  <2>2. e = events[1]
    BY <1>1, <2>1
  <2> QED BY <2>1, <2>2, ItemsAreOfUsers
<1>3. CASE UNCHANGED <<text, start, flags, line>>
  BY <1>1, <1>3, BuffersAreKept
<1>4. CASE GetUserCommand(u)
  BY <1>1, <1>4, GetUserCommandBuffers
<1>5. CASE RemoveInteractive(u, FALSE, <<>>) /\ UNCHANGED <<text, start, line>>
  <2>1. flags \in [Users -> SUBSET Flags]
    BY DEF ConnectionInv, ControlOK
  <2>2. \A v \in Users : /\ "SKIP_COMMAND" \in flags'[v] <=> "SKIP_COMMAND" \in flags[v]
                         /\ "CMD_IN_BUF" \in flags'[v] <=> "CMD_IN_BUF" \in flags[v]
    BY <1>5, <2>1, RemoveKeepsFlags
  <2> QED BY <1>1, <1>5, <2>2, BuffersAreKept
<1>6. CASE mem[u] = "freed"
  <2>1. UNCHANGED <<text, start, flags, line>>
    BY <1>2, <1>6 DEF NextEvent, buffer
  <2> QED BY <1>3, <2>1
<1>7. CASE mem[u] # "freed" /\ e.kind = "logon"
  <2>1. UNCHANGED <<text, start, flags, line>>
    BY <1>2, <1>7 DEF NextEvent, buffer
  <2> QED BY <1>3, <2>1
<1>8. CASE mem[u] # "freed" /\ e.kind = "command"
  <2>1. GetUserCommand(u)
    BY <1>2, <1>8 DEF NextEvent
  <2> QED BY <1>4, <2>1
<1>9. CASE mem[u] # "freed" /\ e.kind = "gone"
  <2>1. \/ UNCHANGED <<text, start, flags, line>>
        \/ RemoveInteractive(u, FALSE, <<>>) /\ UNCHANGED <<text, start, line>>
    BY <1>2, <1>9 DEF NextEvent
  <2> QED BY <1>3, <1>5, <2>1
<1> QED BY <1>2, <1>6, <1>7, <1>8, <1>9

LEMMA CommandTakenBuffers ==
  ASSUME ConnectionInv, BufferInv, CommandTaken PROVE BufferInv'
<1> DEFINE u == Top.ip
<1>1. /\ stack # <<>> /\ Top.at = "took"
      /\ flags' = IF Top.more THEN flags ELSE [flags EXCEPT ![u] = @ \ {"CMD_IN_BUF"}]
      /\ UNCHANGED <<text, start, sent, line, lost>>
  BY DEF CommandTaken, At, history
<1>2. u \in Users /\ flags \in [Users -> SUBSET Flags]
  BY <1>1, TopIsOrderly DEF ConnectionInv, ControlOK
<1>3. ASSUME NEW v \in Users \ lost PROVE InStep(v)'
  <2>1. InStep(v)
    BY DEF BufferInv
  <2>2. "SKIP_COMMAND" \in flags'[v] => "SKIP_COMMAND" \in flags[v]
    BY <1>1, <1>2
  <2>3. "CMD_IN_BUF" \in flags'[v] => "CMD_IN_BUF" \in flags[v] /\ ~Clearing(v)
    BY <1>1, <1>2 DEF Clearing
  <2> QED BY <1>1, <2>1, <2>2, <2>3 DEF InStep
<1> QED BY <1>1, <1>3 DEF BufferInv

\* The steps that leave the buffers alone.
LEMMA OtherBuffers ==
  ASSUME ConnectionInv, BufferInv,
         \/ RunTask \/ WorkerSays \/ OtherEvent \/ Returns \/ RemovePosts \/ RemoveEnds
         \/ \E u \in Users : \/ OnUserCommand(u) \/ OnUserEvents(u) \/ NewConnection(u)
                            \/ LpcSays(u) \/ WorkerLooks(u)
         \/ \E u \in Users, dested \in BOOLEAN : LpcRemoves(u, dested)
         \/ UNCHANGED vars
  PROVE  BufferInv' /\ UNCHANGED line
<1> DEFINE Alone == UNCHANGED <<text, start, sent, line, lost>>
           SameFlags == \A v \in Users : /\ "SKIP_COMMAND" \in flags'[v] <=> "SKIP_COMMAND" \in flags[v]
                                         /\ "CMD_IN_BUF" \in flags'[v] <=> "CMD_IN_BUF" \in flags[v]
           SameClearing == \A v \in Users : Clearing(v) => Clearing(v)'
<1>0. flags \in [Users -> SUBSET Flags]
  BY DEF ConnectionInv, ControlOK
<1>a. UNCHANGED flags => SameFlags
  OBVIOUS
<1>b. UNCHANGED stack => SameClearing
  BY DEF Clearing, At, Top
<1>c. stack = <<>> \/ At("lpc") \/ At("post") \/ At("wait") => SameClearing
  BY DEF Clearing, At
<1>d. Alone /\ SameFlags /\ SameClearing => BufferInv' /\ UNCHANGED line
  BY BuffersAreKept
<1> HIDE DEF SameFlags, SameClearing
<1>1. CASE RunTask
  <2>1. Alone /\ UNCHANGED <<flags, stack>>
    BY <1>1 DEF RunTask, buffer
  <2> QED BY <2>1, <1>a, <1>b, <1>d
<1>2. CASE WorkerSays
  <2>1. Alone /\ UNCHANGED <<flags, stack>>
    BY <1>2 DEF WorkerSays, buffer
  <2> QED BY <2>1, <1>a, <1>b, <1>d
<1>3. CASE OtherEvent
  <2>1. Alone /\ UNCHANGED flags /\ stack = <<>>
    BY <1>3 DEF OtherEvent, buffer, history
  <2> QED BY <2>1, <1>a, <1>c, <1>d
<1>4. CASE CommandReturns \/ LpcReturns
  <2>1. Alone /\ UNCHANGED flags /\ At("lpc")
    BY <1>4 DEF CommandReturns, LpcReturns, Lpcs, buffer, history
  <2> QED BY <2>1, <1>a, <1>c, <1>d
<1>5. ASSUME ConnectReturns \/ LogonReturns PROVE BufferInv' /\ UNCHANGED line
  <2>1. /\ Alone /\ At("lpc") /\ Top.then # "return"
        /\ UNCHANGED flags \/ RemoveInteractive(Top.ip, FALSE, <<>>)
    BY <1>5 DEF ConnectReturns, LogonReturns, Lpcs, history
  <2>2. Top.ip \in Users
    BY <2>1, TopIsOrderly DEF At
  <2>3. SameFlags
    BY <1>0, <1>a, <2>1, <2>2, RemoveKeepsFlags DEF SameFlags
  <2> QED BY <2>1, <2>3, <1>c, <1>d
<1>6. CASE RemovePosts \/ RemoveEnds
  <2>1. Alone /\ UNCHANGED flags /\ (At("post") \/ At("wait"))
    BY <1>6 DEF RemovePosts, RemoveEnds, buffer, history
  <2> QED BY <2>1, <1>a, <1>c, <1>d
<1>7. ASSUME NEW u \in Users, OnUserCommand(u) \/ NewConnection(u) \/ LpcSays(u) \/ WorkerLooks(u)
      PROVE  BufferInv' /\ UNCHANGED line
  <2>1. Alone /\ UNCHANGED <<flags, stack>>
    BY <1>7 DEF OnUserCommand, NewConnection, LpcSays, WorkerLooks, buffer, history
  <2> QED BY <2>1, <1>a, <1>b, <1>d
<1>8. ASSUME NEW u \in Users, OnUserEvents(u) PROVE BufferInv' /\ UNCHANGED line
  <2>1. Alone /\ UNCHANGED stack /\ flags' = [flags EXCEPT ![u] = @ \cup {"NET_DEAD"}]
    BY <1>8 DEF OnUserEvents, history
  <2>2. SameFlags
    BY <1>0, <2>1 DEF SameFlags
  <2> QED BY <2>1, <2>2, <1>b, <1>d
<1>9. ASSUME NEW u \in Users, NEW dested \in BOOLEAN, LpcRemoves(u, dested) PROVE BufferInv' /\ UNCHANGED line
  <2>1. Alone /\ At("lpc") /\ RemoveInteractive(u, dested, stack)
    BY <1>9 DEF LpcRemoves, history
  <2>2. SameFlags
    BY <1>0, <2>1, RemoveKeepsFlags DEF SameFlags
  <2> QED BY <2>1, <2>2, <1>c, <1>d
<1>10. CASE UNCHANGED vars
  <2>1. Alone /\ UNCHANGED <<flags, stack>>
    BY <1>10 DEF vars, buffer, history
  <2> QED BY <2>1, <1>a, <1>b, <1>d
<1> QED BY <1>1, <1>2, <1>3, <1>4, <1>5, <1>6, <1>7, <1>8, <1>9, <1>10 DEF Returns

LEMMA BufferInit == Init => BufferInv
<1> SUFFICES ASSUME Init PROVE BufferInv
  OBVIOUS
<1>1. /\ flags = [u \in Users |-> {}] /\ text = [u \in Users |-> <<>>] /\ start = [u \in Users |-> 0]
      /\ sent = [u \in Users |-> 0] /\ line = [u \in Users |-> <<>>] /\ lost = {}
  BY DEF Init
<1>2. Cap \in Nat /\ Bytes \in [Users -> Nat]
  BY UserConnectionAssumption
<1>3. Held(<<>>, 0, 0) /\ EndOf(<<>>) = 0
  BY <1>2 DEF Held, EndOf
<1>4. \A u \in Users : InStep(u)
  BY <1>1, <1>3 DEF InStep
<1> QED BY <1>1, <1>2, <1>3, <1>4 DEF BufferInv

LEMMA BufferNext ==
  ASSUME ConnectionInv, BufferInv, [Next]_vars PROVE BufferInv'
<1>1. CASE NextEvent
  BY <1>1, NextEventBuffers
<1>2. CASE CommandTaken
  BY <1>2, CommandTakenBuffers
<1>3. ASSUME NEW u \in Users, Receive(u) PROVE BufferInv'
  BY <1>3, ReceiveBuffers
<1>4. CASE RunTask \/ WorkerSays \/ OtherEvent \/ Returns \/ RemovePosts \/ RemoveEnds \/ UNCHANGED vars
  BY <1>4, OtherBuffers
<1>5. ASSUME NEW u \in Users,
             OnUserCommand(u) \/ OnUserEvents(u) \/ NewConnection(u) \/ LpcSays(u) \/ WorkerLooks(u)
      PROVE  BufferInv'
  BY <1>5, OtherBuffers
<1>6. ASSUME NEW u \in Users, NEW dested \in BOOLEAN, LpcRemoves(u, dested) PROVE BufferInv'
  BY <1>6, OtherBuffers
<1> QED BY <1>1, <1>2, <1>3, <1>4, <1>5, <1>6 DEF Next

-----------------------------------------------------------------------------
(* The buffers hold                                                        *)

\* What is in the text buffer of a user is the end of what the user sent, it fits,
\* and as long as nothing was lost it begins behind the last command.
THEOREM BufferInvariant == Spec => [](ConnectionInv /\ BufferInv)
<1>1. Init => ConnectionInv /\ BufferInv
  BY InitHolds, BufferInit
<1>2. ConnectionInv /\ BufferInv /\ [Next]_vars => (ConnectionInv /\ BufferInv)'
  BY NextHolds, BufferNext
<1> QED BY <1>1, <1>2, PTL DEF Spec

\* The variables keep their types for any users, buffers and messages, and what an
\* IO thread reads never runs over the end of the text buffer.
THEOREM TypesAreKept == Spec => []TypeOK
<1>1. ConnectionInv /\ BufferInv => TypeOK
  <2> SUFFICES ASSUME ConnectionInv, BufferInv PROVE TypeOK
    OBVIOUS
  <2>1. ASSUME NEW u \in Users
        PROVE  text[u] \in Seq([n : 1 .. Bytes[u], ends : BOOLEAN])
    <3> DEFINE t == text[u]
    <3>1. /\ t \in Seq(Byte) /\ Len(t) \in Nat /\ Len(t) <= sent[u] /\ sent[u] <= Bytes[u]
          /\ sent[u] \in Nat /\ Bytes[u] \in Nat
          /\ \A i \in 1 .. Len(t) : t[i].n = (sent[u] - Len(t)) + i
      BY UserConnectionAssumption DEF BufferInv, Held
    <3> HIDE DEF t
    <3>2. ASSUME NEW i \in 1 .. Len(t) PROVE t[i] \in [n : 1 .. Bytes[u], ends : BOOLEAN]
      <4>1. t[i] \in Byte /\ t[i].n = (sent[u] - Len(t)) + i
        BY <3>1
      <4>2. (sent[u] - Len(t)) + i \in 1 .. Bytes[u]
        BY <3>1
      <4> QED BY <4>1, <4>2 DEF Byte
    <3>3. t \in Seq([n : 1 .. Bytes[u], ends : BOOLEAN])
      <4>1. t = [i \in 1 .. Len(t) |-> t[i]]
        BY <3>1
      <4>2. t \in [1 .. Len(t) -> [n : 1 .. Bytes[u], ends : BOOLEAN]]
        BY <3>2, <4>1
      <4> DEFINE S == [n : 1 .. Bytes[u], ends : BOOLEAN]
                 m == Len(t)
      <4>3. m \in Nat /\ t \in [1 .. m -> S]
        BY <3>1, <4>2
      <4> HIDE DEF S, m
      <4>4. t \in Seq(S)
        BY <4>3
      <4> QED BY <4>4 DEF S
    <3> QED BY <3>3 DEF t
  <2>2. \A u \in Users : start[u] \in Nat /\ start[u] + Len(text[u]) <= Cap
    BY DEF BufferInv, Held
  <2>3. stack \in Seq(Frames)
    BY DEF ConnectionInv, ControlOK, Orderly
  <2> QED BY <2>1, <2>2, <2>3 DEF ConnectionInv, ControlOK, TypeOK
<1> QED BY <1>1, BufferInvariant, PTL

\* The step that takes a command takes the next line.
LEMMA CommandIsLine ==
  ASSUME ConnectionInv, BufferInv, NextEvent, NEW v \in Users \ lost', line'[v] # line[v]
  PROVE  \A i \in 1 .. Len(line'[v]) :
           line'[v][i] = [n |-> EndOf(line[v]) + i, ends |-> i = Len(line'[v])]
<1> DEFINE e == Head(events)
<1>1. stack = <<>> /\ events # <<>> /\ UNCHANGED <<sent, lost>> /\ \A u : ~Clearing(u)
  BY DEF NextEvent, Clearing, At
<1>2. PICK u \in Users : e.ip = u /\ e.kind \in {"logon", "command", "gone"}
  <2>1. events \in Seq(Items({"logon", "command", "gone"})) /\ 1 \in 1 .. Len(events)
    BY <1>1 DEF ConnectionInv, ControlOK
  <2>2. e = events[1]
    BY <1>1, <2>1
  <2> QED BY <2>1, <2>2, ItemsAreOfUsers
<1>3. GetUserCommand(u)
  <2>1. CASE mem[u] = "freed"
    BY <1>2, <2>1 DEF NextEvent
  <2>2. CASE mem[u] # "freed" /\ e.kind = "logon"
    BY <1>2, <2>2 DEF NextEvent
  <2>3. CASE mem[u] # "freed" /\ e.kind = "command"
    BY <1>2, <2>3 DEF NextEvent
  <2>4. CASE mem[u] # "freed" /\ e.kind = "gone"
    BY <1>2, <2>4 DEF NextEvent
  <2> QED BY <1>2, <2>1, <2>2, <2>3, <2>4
<1> DEFINE taken == Taken(Ready(u)).line
<1>4. "CMD_IN_BUF" \in flags[u] /\ line' = [line EXCEPT ![u] = taken]
  BY <1>3, CommandIsTaken
<1>5. v = u /\ line'[v] = taken
  BY <1>4 DEF BufferInv
<1>6. /\ Held(text[u], start[u], sent[u]) /\ sent[u] \in Nat /\ InStep(u)
      /\ line \in [Users -> Seq(Byte)] /\ EndOf(line[u]) \in Nat
  BY <1>1, <1>5, EndOfIsNumber DEF BufferInv
<1>7. \A i \in 1 .. Len(taken) :
        /\ taken[i] \in Byte /\ taken[i].n = EndOf(line[u]) + i
        /\ taken[i].ends <=> i = Len(taken)
  BY <1>1, <1>4, <1>6, LineIsNext
<1> HIDE DEF taken
<1>8. ASSUME NEW i \in 1 .. Len(taken)
      PROVE  taken[i] = [n |-> EndOf(line[u]) + i, ends |-> i = Len(taken)]
  <2>1. /\ taken[i] \in [n : Nat, ends : BOOLEAN] /\ taken[i].n = EndOf(line[u]) + i
        /\ taken[i].ends = (i = Len(taken))
    <3>1. taken[i].ends \in BOOLEAN
      BY <1>7 DEF Byte
    <3>2. taken[i].ends <=> i = Len(taken)
      BY <1>7
    <3>3. taken[i].ends = (i = Len(taken))
      BY <3>1, <3>2
    <3> QED BY <1>7, <3>3 DEF Byte
  <2> QED BY <2>1
<1> QED BY <1>5, <1>8

\* A command is the next line its user sent, for any reads, any size of the buffer and
\* any interleaving of the two threads, as long as the buffer was never emptied: the
\* bytes are numbered through, and CMD_IN_BUF is set only while a newline is there.
THEOREM LinesAreCommands == Spec => CommandsAreLines
<1> DEFINE A == \A u \in Users \ lost' : line'[u] # line[u] =>
                  LET before == IF line[u] = <<>> THEN 0 ELSE Last(line[u]).n
                      taken  == line'[u]
                  IN \A i \in 1 .. Len(taken) :
                       taken[i] = [n |-> before + i, ends |-> i = Len(taken)]
<1>1. ConnectionInv /\ BufferInv /\ [Next]_vars => [A]_vars
  <2> SUFFICES ASSUME ConnectionInv, BufferInv, Next PROVE A
    BY DEF vars
  <2>1. NextEvent \/ UNCHANGED line
    <3>1. CASE CommandTaken
      BY <3>1 DEF CommandTaken, history
    <3>2. ASSUME NEW u \in Users, Receive(u) PROVE UNCHANGED line
      BY <3>2 DEF Receive
    <3>3. CASE RunTask \/ WorkerSays \/ OtherEvent \/ Returns \/ RemovePosts \/ RemoveEnds
      BY <3>3, OtherBuffers
    <3>4. ASSUME NEW u \in Users,
                 OnUserCommand(u) \/ OnUserEvents(u) \/ NewConnection(u) \/ LpcSays(u) \/ WorkerLooks(u)
          PROVE  UNCHANGED line
      BY <3>4, OtherBuffers
    <3>5. ASSUME NEW u \in Users, NEW dested \in BOOLEAN, LpcRemoves(u, dested) PROVE UNCHANGED line
      BY <3>5, OtherBuffers
    <3> QED BY <3>1, <3>2, <3>3, <3>4, <3>5 DEF Next
  <2>2. CASE NextEvent
    BY <2>2, CommandIsLine, Zenon DEF EndOf
  <2>3. CASE UNCHANGED line
    BY <2>3
  <2> QED BY <2>1, <2>2, <2>3
<1>2. Spec => [][A]_vars
  BY <1>1, BufferInvariant, PTL DEF Spec
<1> QED BY <1>2 DEF CommandsAreLines

-----------------------------------------------------------------------------
(* The messages                                                            *)

OutputsIn(q, u) == {i \in 1 .. Len(q) : q[i] = Item("output", u)}
Unwritten(q, u) == Cardinality(OutputsIn(q, u))

LEMMA OutputsAreFinite ==
  ASSUME NEW q, Len(q) \in Nat, NEW u
  PROVE  IsFiniteSet(OutputsIn(q, u)) /\ Unwritten(q, u) \in Nat
<1>1. IsFiniteSet(1 .. Len(q))
  BY FS_Interval
<1>2. OutputsIn(q, u) \in SUBSET (1 .. Len(q))
  BY DEF OutputsIn
<1>3. IsFiniteSet(OutputsIn(q, u))
  BY <1>1, <1>2, FS_Subset
<1> QED BY <1>3, FS_CardinalityType DEF Unwritten

LEMMA OutputsAppended ==
  ASSUME NEW S, NEW q \in Seq(S), NEW e \in S, NEW u
  PROVE  Unwritten(Append(q, e), u) = IF e = Item("output", u) THEN Unwritten(q, u) + 1 ELSE Unwritten(q, u)
<1> DEFINE n == Len(q)
           o == Item("output", u)
           r == Append(q, e)
<1>1. n \in Nat /\ Len(r) = n + 1 /\ r[n + 1] = e /\ \A i \in 1 .. n : r[i] = q[i]
  OBVIOUS
<1> HIDE DEF r, o
<1>2. \A i \in 1 .. n + 1 : i \in 1 .. n \/ i = n + 1
  BY <1>1
<1>3. n + 1 \in 1 .. n + 1 /\ ~(n + 1 \in 1 .. n) /\ \A i \in 1 .. n : i \in 1 .. n + 1
  BY <1>1
<1> HIDE DEF n
<1>4. {i \in 1 .. n + 1 : r[i] = o} =
        IF e = o THEN {i \in 1 .. n : q[i] = o} \cup {n + 1} ELSE {i \in 1 .. n : q[i] = o}
  BY <1>1, <1>2, <1>3
<1>5. OutputsIn(r, u) = IF e = o THEN OutputsIn(q, u) \cup {n + 1} ELSE OutputsIn(q, u)
  BY <1>1, <1>4 DEF OutputsIn, o, n
<1>6. IsFiniteSet(OutputsIn(q, u)) /\ n + 1 \notin OutputsIn(q, u)
  <2>1. Len(q) \in Nat
    BY <1>1 DEF n
  <2> QED BY <1>3, <2>1, OutputsAreFinite DEF OutputsIn, n
<1>7. Cardinality(OutputsIn(q, u) \cup {n + 1}) = Cardinality(OutputsIn(q, u)) + 1
  BY <1>6, FS_AddElement
<1> QED BY <1>5, <1>7 DEF Unwritten, r, o

LEMMA OutputsServed ==
  ASSUME NEW S, NEW q \in Seq(S), q # <<>>, NEW u
  PROVE  Unwritten(Tail(q), u) = IF q[1] = Item("output", u) THEN Unwritten(q, u) - 1 ELSE Unwritten(q, u)
<1> DEFINE n == Len(q)
           o == Item("output", u)
           r == Tail(q)
           A == OutputsIn(r, u)
           B == OutputsIn(q, u) \ {1}
           f == [i \in A |-> i + 1]
<1>1. n \in Nat \ {0} /\ Len(r) = n - 1 /\ \A i \in 1 .. n - 1 : r[i] = q[i + 1]
  OBVIOUS
<1>2. /\ \A i \in 1 .. n - 1 : i + 1 \in 1 .. n /\ i + 1 # 1
      /\ \A i \in 1 .. n : i = 1 \/ (i - 1 \in 1 .. n - 1 /\ (i - 1) + 1 = i)
      /\ \A i, j \in 1 .. n - 1 : i + 1 = j + 1 => i = j
  BY <1>1
<1> HIDE DEF r, n
<1>3. A = {i \in 1 .. n - 1 : r[i] = o} /\ B = {i \in 1 .. n : q[i] = o} \ {1}
  BY <1>1 DEF OutputsIn, n
<1> HIDE DEF A, B, o
<1>4. f \in Bijection(A, B)
  <2>1. f \in [A -> B]
    BY <1>1, <1>2, <1>3
  <2>2. ASSUME NEW i \in A, NEW j \in A, f[i] = f[j] PROVE i = j
    BY <1>2, <1>3, <2>2
  <2>3. ASSUME NEW j \in B PROVE \E i \in A : f[i] = j
    <3>1. j - 1 \in A /\ (j - 1) + 1 = j
      BY <1>1, <1>2, <1>3
    <3> QED BY <3>1
  <2> HIDE DEF f
  <2> QED BY <2>1, <2>2, <2>3 DEF Bijection, Injection, Surjection, IsInjective
<1>5. IsFiniteSet(A) /\ IsFiniteSet(OutputsIn(q, u)) /\ Unwritten(q, u) \in Nat
  <2>1. Len(r) \in Nat /\ Len(q) \in Nat
    BY <1>1 DEF n
  <2> QED BY <2>1, OutputsAreFinite DEF A
<1>6. Cardinality(B) = Cardinality(A)
  <2>1. ExistsBijection(A, B)
    BY <1>4 DEF ExistsBijection
  <2> QED BY <1>5, <2>1, FS_Bijection
<1>7. Cardinality(B) = IF 1 \in OutputsIn(q, u) THEN Cardinality(OutputsIn(q, u)) - 1
                       ELSE Cardinality(OutputsIn(q, u))
  BY <1>5, FS_RemoveElement DEF B
<1>8. 1 \in OutputsIn(q, u) <=> q[1] = o
  <2>1. 1 \in 1 .. Len(q)
    BY <1>1 DEF n
  <2> QED BY <2>1 DEF OutputsIn, o
<1> QED BY <1>6, <1>7, <1>8 DEF Unwritten, A, r, o

\* The logon of u has been bounced.
Seen(u) == Begun(u) \/ LogonAmong(events, u, Len(events))

\* A user is set up once, before anything else is posted for it, and its bufferevent
\* is closed by a removal.
TaskInv ==
  \A u \in Users :
    /\ Seen(u) => bev[u] # "none"
    /\ mem[u] = "none" => bev[u] = "none"
    /\ mem[u] = "freed" => bev[u] = "closed"
    /\ bev[u] = "closed" => "CLOSING" \in flags[u]
    /\ \A i \in 1 .. Len(ioTasks) :
         /\ ioTasks[i] = Item("setup", u) =>
              /\ bev[u] = "none" /\ ~Seen(u)
              /\ \A j \in 1 .. Len(ioTasks) : ioTasks[j].ip = u => j = i
         /\ ioTasks[i] = Item("free", u) => "CLOSING" \in flags[u]

\* Messages are for users that have an object; so does who logs on.
LogOn(s, objects) ==
  \A i \in 1 .. Len(s) : s[i].then = "logon" => objects[s[i].ip] = "body"

BodyInv == (hand # Nobody => ob[hand] = "body") /\ LogOn(stack, ob)

\* What was said is written or waits before the end.
SaidInv ==
  /\ said \in [Users -> Nat] /\ written \in [Users -> Nat]
  /\ \A u \in Users \ strayed :
       /\ written[u] + Unwritten(ioTasks, u) = said[u]
       /\ \A i \in OutputsIn(ioTasks, u) :
            bev[u] = "open" /\ \A j \in 1 .. (i - 1) : ioTasks[j] # Item("free", u)

MessageInv == TaskInv /\ BodyInv /\ SaidInv

\* A step that leaves the tasks alone.
LEMMA TasksAreKept ==
  ASSUME TaskInv, UNCHANGED <<ioTasks, bev>>, \A v \in Users : Seen(v)' => Seen(v),
         \A v \in Users : mem'[v] = mem[v] \/ (mem'[v] = "freed" /\ bev[v] = "closed"),
         \A v \in Users : "CLOSING" \in flags[v] => "CLOSING" \in flags'[v]
  PROVE  TaskInv'
BY DEF TaskInv

LEMMA WordsAreKept ==
  ASSUME SaidInv, UNCHANGED <<ioTasks, bev, said, written, strayed>> PROVE SaidInv'
BY DEF SaidInv

\* A step that posts a task: the first of a user, or another of one that has logged on.
LEMMA TaskIsAdded ==
  ASSUME ConnectionInv, TaskInv, NEW u \in Users, NEW kind \in {"setup", "output", "free"},
         Post(kind, u), UNCHANGED <<bev, flags>>, \A v \in Users : Seen(v)' => Seen(v),
         \A v \in Users : mem'[v] = mem[v] \/ (mem[v] = "none" /\ mem'[v] = "live"),
         kind = "setup" => mem[u] = "none", kind # "setup" => Seen(u),
         kind = "free" => "CLOSING" \in flags[u]
  PROVE  TaskInv'
<1> DEFINE n == Len(ioTasks)
           e == Item(kind, u)
<1>1. /\ ioTasks \in Seq(Items({"setup", "output", "free"})) /\ n \in Nat
      /\ e \in Items({"setup", "output", "free"}) /\ e.ip = u /\ e.kind = kind
  BY DEF ConnectionInv, ControlOK, Item, Items
<1>2. ioTasks' = Append(ioTasks, e)
  BY DEF Post
<1> HIDE DEF e
<1>3. /\ Len(ioTasks') = n + 1 /\ ioTasks'[n + 1] = e
      /\ \A i \in 1 .. n : ioTasks'[i] = ioTasks[i]
      /\ \A i \in 1 .. n + 1 : i \in 1 .. n \/ i = n + 1
  BY <1>1, <1>2
<1>4. \A i \in 1 .. n : ioTasks[i].ip \in Users /\ mem[ioTasks[i].ip] # "none"
  BY <1>1, ItemsAreOfUsers DEF ConnectionInv, KnownInv
<1>5. mem[u] = "none" => ~Seen(u)
  <2>1. Begun(u) => mem[u] # "none"
    BY DEF ConnectionInv, KnownInv, RemovalInv, Begun, Spoken
  <2>2. LogonAmong(events, u, Len(events)) => mem[u] # "none"
    BY DEF ConnectionInv, KnownInv, LogonAmong, Item
  <2> QED BY <2>1, <2>2 DEF Seen
<1>6. \A v \in Users : \A k : Item(k, v).ip = v /\ Item(k, v).kind = k
  BY DEF Item
<1> HIDE DEF n
<1>7. ASSUME NEW v \in Users, NEW i \in 1 .. n + 1, ioTasks'[i] = Item("setup", v)
      PROVE  /\ bev'[v] = "none" /\ ~Seen(v)'
             /\ \A j \in 1 .. n + 1 : ioTasks'[j].ip = v => j = i
  <2>1. CASE i = n + 1
    <3>1. v = u /\ kind = "setup"
      BY <1>1, <1>3, <1>6, <1>7, <2>1
    <3>2. bev[v] = "none" /\ ~Seen(v)
      BY <1>5, <3>1 DEF TaskInv
    <3>3. \A j \in 1 .. n : ioTasks'[j].ip # v
      BY <1>3, <1>4, <3>1
    <3> QED BY <1>3, <2>1, <3>2, <3>3
  <2>2. CASE i \in 1 .. n
    <3>1. /\ bev[v] = "none" /\ ~Seen(v) /\ ioTasks[i].ip = v
          /\ \A j \in 1 .. n : ioTasks[j].ip = v => j = i
      BY <1>3, <1>6, <1>7, <2>2 DEF TaskInv, n
    <3>2. v # u
      BY <1>4, <2>2, <3>1
    <3> QED BY <1>1, <1>3, <3>1, <3>2
  <2> QED BY <1>3, <2>1, <2>2
<1>8. ASSUME NEW v \in Users, NEW i \in 1 .. n + 1, ioTasks'[i] = Item("free", v)
      PROVE  "CLOSING" \in flags'[v]
  <2>1. CASE i = n + 1
    BY <1>1, <1>3, <1>6, <1>8, <2>1
  <2>2. CASE i \in 1 .. n
    BY <1>3, <1>8, <2>2 DEF TaskInv, n
  <2> QED BY <1>3, <2>1, <2>2
<1>9. ASSUME NEW v \in Users
      PROVE  /\ Seen(v)' => bev'[v] # "none"
             /\ mem'[v] = "none" => bev'[v] = "none"
             /\ mem'[v] = "freed" => bev'[v] = "closed"
             /\ bev'[v] = "closed" => "CLOSING" \in flags'[v]
  BY DEF TaskInv
<1> QED BY <1>3, <1>7, <1>8, <1>9 DEF TaskInv

\* A step that posts a task, a message among them.
LEMMA WordIsAdded ==
  ASSUME ConnectionInv, SaidInv, NEW u \in Users, NEW kind \in {"setup", "output", "free"},
         Post(kind, u), UNCHANGED <<bev, written>>, strayed \subseteq strayed',
         said' = IF kind = "output" THEN [said EXCEPT ![u] = @ + 1] ELSE said,
         kind = "output" /\ u \notin strayed' =>
           bev[u] = "open" /\ \A j \in 1 .. Len(ioTasks) : ioTasks[j] # Item("free", u)
  PROVE  SaidInv'
<1> DEFINE n == Len(ioTasks)
           e == Item(kind, u)
<1>1. /\ ioTasks \in Seq(Items({"setup", "output", "free"})) /\ n \in Nat
      /\ e \in Items({"setup", "output", "free"}) /\ e.ip = u /\ e.kind = kind
  BY DEF ConnectionInv, ControlOK, Item, Items
<1>2. ioTasks' = Append(ioTasks, e)
  BY DEF Post
<1>3. \A v : e = Item("output", v) <=> kind = "output" /\ v = u
  BY DEF Item
<1> HIDE DEF e
<1>4. /\ Len(ioTasks') = n + 1 /\ ioTasks'[n + 1] = e
      /\ \A i \in 1 .. n : ioTasks'[i] = ioTasks[i]
      /\ \A i \in 1 .. n + 1 : i \in 1 .. n \/ i = n + 1
      /\ \A i \in 1 .. n + 1 : \A j \in 1 .. (i - 1) : j \in 1 .. n
  BY <1>1, <1>2
<1>5. \A v : /\ Unwritten(ioTasks, v) \in Nat
             /\ Unwritten(ioTasks', v) =
                  IF kind = "output" /\ v = u THEN Unwritten(ioTasks, v) + 1 ELSE Unwritten(ioTasks, v)
  BY <1>1, <1>2, <1>3, OutputsAppended, OutputsAreFinite
<1>6. said' \in [Users -> Nat] /\ written' \in [Users -> Nat]
  BY DEF SaidInv
<1>7. ASSUME NEW v \in Users \ strayed' PROVE written'[v] + Unwritten(ioTasks', v) = said'[v]
  <2>1. written[v] + Unwritten(ioTasks, v) = said[v] /\ written[v] \in Nat /\ said[v] \in Nat
    BY DEF SaidInv
  <2>2. said'[v] = IF kind = "output" /\ v = u THEN said[v] + 1 ELSE said[v]
    BY DEF SaidInv
  <2> QED BY <1>5, <2>1, <2>2
<1> HIDE DEF n
<1>8. ASSUME NEW v \in Users \ strayed', NEW i \in OutputsIn(ioTasks', v)
      PROVE  bev'[v] = "open" /\ \A j \in 1 .. (i - 1) : ioTasks'[j] # Item("free", v)
  <2>1. i \in 1 .. n + 1 /\ ioTasks'[i] = Item("output", v)
    BY <1>4, <1>8 DEF OutputsIn
  <2>2. CASE i = n + 1
    <3>1. kind = "output" /\ v = u
      BY <1>3, <1>4, <2>1, <2>2
    <3> QED BY <1>4, <2>1, <3>1 DEF n
  <2>3. CASE i \in 1 .. n
    <3>1. i \in OutputsIn(ioTasks, v) /\ v \in Users \ strayed
      BY <1>4, <2>1, <2>3 DEF OutputsIn, n
    <3>2. bev[v] = "open" /\ \A j \in 1 .. (i - 1) : ioTasks[j] # Item("free", v)
      BY <3>1 DEF SaidInv
    <3> QED BY <1>4, <2>1, <3>2
  <2> QED BY <1>4, <2>1, <2>2, <2>3
<1> QED BY <1>6, <1>7, <1>8 DEF SaidInv

\* The task that the IO thread is at, and what is behind it.
LEMMA TaskIsServed ==
  ASSUME ConnectionInv, RunTask
  PROVE  LET task == Head(ioTasks) IN
         /\ task.ip \in Users /\ task.kind \in {"setup", "output", "free"}
         /\ task = Item(task.kind, task.ip) /\ task = ioTasks[1] /\ 1 \in 1 .. Len(ioTasks)
         /\ ioTasks # <<>> /\ ioTasks' = Tail(ioTasks)
         /\ \A i \in 1 .. Len(ioTasks') :
              /\ i + 1 \in 1 .. Len(ioTasks) /\ i + 1 # 1 /\ ioTasks'[i] = ioTasks[i + 1]
              /\ 1 \in 1 .. (i + 1) - 1
              /\ \A j \in 1 .. (i - 1) : j \in 1 .. Len(ioTasks') /\ j + 1 \in 1 .. (i + 1) - 1
<1>1. /\ ioTasks \in Seq(Items({"setup", "output", "free"})) /\ ioTasks # <<>>
      /\ ioTasks' = Tail(ioTasks)
  BY DEF ConnectionInv, ControlOK, RunTask
<1>2. /\ Head(ioTasks) = ioTasks[1] /\ 1 \in 1 .. Len(ioTasks)
      /\ Len(ioTasks) \in Nat /\ Len(ioTasks') = Len(ioTasks) - 1
      /\ \A i \in 1 .. Len(ioTasks') : ioTasks'[i] = ioTasks[i + 1]
  BY <1>1
<1>3. \A i \in 1 .. Len(ioTasks') :
              /\ i + 1 \in 1 .. Len(ioTasks) /\ i + 1 # 1
              /\ 1 \in 1 .. (i + 1) - 1
              /\ \A j \in 1 .. (i - 1) : j \in 1 .. Len(ioTasks') /\ j + 1 \in 1 .. (i + 1) - 1
  BY <1>2
<1>4. Head(ioTasks) \in Items({"setup", "output", "free"})
  BY <1>1, <1>2
<1>5. /\ Head(ioTasks).ip \in Users /\ Head(ioTasks).kind \in {"setup", "output", "free"}
      /\ Head(ioTasks) = Item(Head(ioTasks).kind, Head(ioTasks).ip)
  BY <1>4 DEF Items, Item
<1> QED BY <1>1, <1>2, <1>3, <1>5

LEMMA RunTaskKeepsTasks ==
  ASSUME ConnectionInv, TaskInv, RunTask PROVE TaskInv'
<1> DEFINE task == Head(ioTasks)
           u == task.ip
<1>1. /\ u \in Users /\ task.kind \in {"setup", "output", "free"}
      /\ task = Item(task.kind, u) /\ task = ioTasks[1] /\ 1 \in 1 .. Len(ioTasks)
      /\ \A i \in 1 .. Len(ioTasks') :
           i + 1 \in 1 .. Len(ioTasks) /\ i + 1 # 1 /\ ioTasks'[i] = ioTasks[i + 1]
  BY TaskIsServed
<1>2. UNCHANGED <<stack, mem, ob, flags>> /\ mem[u] # "none"
  BY <1>1 DEF RunTask, buffer, ConnectionInv, KnownInv
<1>3. \A v \in Users : Begun(v)' <=> Begun(v)
  BY <1>2 DEF Begun
<1>4. \A v \in Users : \A k : Item(k, v).ip = v /\ Item(k, v).kind = k
  BY DEF Item
<1>5. CASE task.kind = "setup"
  <2>1. bev' = [bev EXCEPT ![u] = "open"] /\ Bounce("logon", u)
    BY <1>5 DEF RunTask, SetUp
  <2> HIDE DEF task
  <2>2. bev[u] = "none" /\ ~Seen(u) /\ \A i \in 1 .. Len(ioTasks') : ioTasks'[i].ip # u
    BY <1>1, <1>5 DEF TaskInv
  <2>3. bev'[u] = "open" /\ \A v \in Users \ {u} : bev'[v] = bev[v]
    BY <1>1, <2>1 DEF ConnectionInv, ControlOK
  <2>4. ASSUME NEW v \in Users \ {u}, Seen(v)' PROVE Seen(v)
    <3>1. /\ events \in Seq(Items({"logon", "command", "gone"}))
          /\ Item("logon", u) \in Items({"logon", "command", "gone"})
      BY <1>1 DEF ConnectionInv, ControlOK, Item, Items
    <3>2. \A i \in 1 .. Len(events') :
            events'[i] = Item("logon", u) \/ (i \in 1 .. Len(events) /\ events'[i] = events[i])
      BY <2>1, <3>1 DEF Bounce
    <3>3. Item("logon", u) # Item("logon", v)
      BY <1>4, <1>1
    <3> QED BY <1>3, <2>4, <3>2, <3>3 DEF Seen, LogonAmong
  <2>5. ASSUME NEW v \in Users, v # u
        PROVE  \A i \in 1 .. Len(ioTasks') :
                 /\ ioTasks'[i] = Item("setup", v) =>
                      /\ bev'[v] = "none" /\ ~Seen(v)'
                      /\ \A j \in 1 .. Len(ioTasks') : ioTasks'[j].ip = v => j = i
                 /\ ioTasks'[i] = Item("free", v) => "CLOSING" \in flags'[v]
    <3> SUFFICES ASSUME NEW i \in 1 .. Len(ioTasks')
                 PROVE  /\ ioTasks'[i] = Item("setup", v) =>
                             /\ bev'[v] = "none" /\ ~Seen(v)'
                             /\ \A j \in 1 .. Len(ioTasks') : ioTasks'[j].ip = v => j = i
                        /\ ioTasks'[i] = Item("free", v) => "CLOSING" \in flags'[v]
      OBVIOUS
    <3>1. /\ ioTasks[i + 1] = Item("setup", v) =>
                      /\ bev[v] = "none" /\ ~Seen(v)
                      /\ \A j \in 1 .. Len(ioTasks) : ioTasks[j].ip = v => j = i + 1
          /\ ioTasks[i + 1] = Item("free", v) => "CLOSING" \in flags[v]
      BY <1>1 DEF TaskInv
    <3>2. \A j \in 1 .. Len(ioTasks') : j + 1 = i + 1 => j = i
      OBVIOUS
    <3>3. \A j \in 1 .. Len(ioTasks') : ioTasks'[j].ip = ioTasks[j + 1].ip /\ j + 1 \in 1 .. Len(ioTasks)
      BY <1>1
    <3> QED BY <1>1, <1>2, <2>3, <2>4, <2>5, <3>1, <3>2, <3>3
  <2>6. ASSUME NEW i \in 1 .. Len(ioTasks'), NEW k PROVE ioTasks'[i] # Item(k, u)
    BY <1>1, <1>4, <2>2
  <2>7. ASSUME NEW v \in Users
        PROVE  /\ Seen(v)' => bev'[v] # "none"
               /\ mem'[v] = "none" => bev'[v] = "none"
               /\ mem'[v] = "freed" => bev'[v] = "closed"
               /\ bev'[v] = "closed" => "CLOSING" \in flags'[v]
    <3>1. CASE v = u
      BY <1>2, <2>2, <2>3, <3>1 DEF TaskInv
    <3>2. CASE v # u
      BY <1>2, <2>3, <2>4, <3>2 DEF TaskInv
    <3> QED BY <3>1, <3>2
  <2> QED BY <2>5, <2>6, <2>7 DEF TaskInv
<1>6. CASE task.kind # "setup"
  <2>1. /\ UNCHANGED events
        /\ bev' = bev \/ (task.kind = "free" /\ bev' = [bev EXCEPT ![u] = "closed"])
    BY <1>1, <1>6 DEF RunTask, Output, FreeBev
  <2> HIDE DEF task
  <2>2. task.kind = "free" => "CLOSING" \in flags[u]
    BY <1>1 DEF TaskInv
  <2>3. \A v \in Users : bev'[v] = bev[v] \/ (v = u /\ task.kind = "free" /\ bev'[v] = "closed")
    BY <1>1, <2>1 DEF ConnectionInv, ControlOK
  <2>4. \A v \in Users : Seen(v)' <=> Seen(v)
    BY <1>3, <2>1 DEF Seen, LogonAmong
  <2>5. ASSUME NEW v \in Users, NEW i \in 1 .. Len(ioTasks')
        PROVE  /\ ioTasks'[i] = Item("setup", v) =>
                    /\ bev'[v] = "none" /\ ~Seen(v)'
                    /\ \A j \in 1 .. Len(ioTasks') : ioTasks'[j].ip = v => j = i
               /\ ioTasks'[i] = Item("free", v) => "CLOSING" \in flags'[v]
    <3>1. /\ ioTasks[i + 1] = Item("setup", v) =>
                      /\ bev[v] = "none" /\ ~Seen(v)
                      /\ \A j \in 1 .. Len(ioTasks) : ioTasks[j].ip = v => j = i + 1
          /\ ioTasks[i + 1] = Item("free", v) => "CLOSING" \in flags[v]
      BY <1>1 DEF TaskInv
    <3>2. \A j \in 1 .. Len(ioTasks') : j + 1 = i + 1 => j = i
      OBVIOUS
    <3>3. \A j \in 1 .. Len(ioTasks') : ioTasks'[j].ip = ioTasks[j + 1].ip /\ j + 1 \in 1 .. Len(ioTasks)
      BY <1>1
    <3>4. ioTasks[i + 1] = Item("setup", v) => v # u
      BY <1>1, <1>4, <3>1
    <3> QED BY <1>1, <1>2, <2>3, <2>4, <3>1, <3>2, <3>3, <3>4
  <2>6. ASSUME NEW v \in Users
        PROVE  /\ Seen(v)' => bev'[v] # "none"
               /\ mem'[v] = "none" => bev'[v] = "none"
               /\ mem'[v] = "freed" => bev'[v] = "closed"
               /\ bev'[v] = "closed" => "CLOSING" \in flags'[v]
    BY <1>2, <2>2, <2>3, <2>4 DEF TaskInv
  <2> QED BY <2>5, <2>6 DEF TaskInv
<1> QED BY <1>5, <1>6

LEMMA RunTaskKeepsWords ==
  ASSUME ConnectionInv, TaskInv, SaidInv, RunTask PROVE SaidInv'
<1> DEFINE task == Head(ioTasks)
           u == task.ip
<1>1. /\ u \in Users /\ task.kind \in {"setup", "output", "free"}
      /\ task = Item(task.kind, u) /\ task = ioTasks[1] /\ 1 \in 1 .. Len(ioTasks)
      /\ ioTasks # <<>> /\ ioTasks' = Tail(ioTasks)
      /\ \A i \in 1 .. Len(ioTasks') :
              /\ i + 1 \in 1 .. Len(ioTasks) /\ i + 1 # 1 /\ ioTasks'[i] = ioTasks[i + 1]
              /\ 1 \in 1 .. (i + 1) - 1
              /\ \A j \in 1 .. (i - 1) : j \in 1 .. Len(ioTasks') /\ j + 1 \in 1 .. (i + 1) - 1
  BY TaskIsServed
<1>2. /\ UNCHANGED <<said, strayed>>
      /\ task.kind = "setup" => bev' = [bev EXCEPT ![u] = "open"] /\ written' = written
      /\ task.kind = "free" => bev' = [bev EXCEPT ![u] = "closed"] /\ written' = written
      /\ task.kind = "output" =>
           bev' = bev /\ written' = IF bev[u] = "open" THEN [written EXCEPT ![u] = @ + 1] ELSE written
  BY DEF RunTask, SetUp, Output, FreeBev
<1> HIDE DEF task, u
<1>3. \A v : task = Item("output", v) <=> task.kind = "output" /\ v = u
  BY <1>1 DEF Item
<1>4. written' \in [Users -> Nat]
  BY <1>1, <1>2 DEF SaidInv
<1>5. ASSUME NEW v \in Users \ strayed, NEW i \in OutputsIn(ioTasks', v)
      PROVE  /\ bev[v] = "open" /\ ~(task.kind = "free" /\ v = u)
             /\ \A j \in 1 .. (i - 1) : ioTasks'[j] # Item("free", v)
  <2>1. i \in 1 .. Len(ioTasks') /\ i + 1 \in OutputsIn(ioTasks, v)
    BY <1>1 DEF OutputsIn
  <2>2. bev[v] = "open" /\ \A j \in 1 .. (i + 1) - 1 : ioTasks[j] # Item("free", v)
    BY <2>1 DEF SaidInv
  <2> QED BY <1>1, <2>1, <2>2
<1>6. ASSUME NEW v \in Users \ strayed, NEW i \in OutputsIn(ioTasks', v)
      PROVE  bev'[v] = "open" /\ \A j \in 1 .. (i - 1) : ioTasks'[j] # Item("free", v)
  <2>1. /\ bev[v] = "open" /\ ~(task.kind = "free" /\ v = u)
        /\ \A j \in 1 .. (i - 1) : ioTasks'[j] # Item("free", v)
    BY <1>5
  <2>2. bev'[v] = "open"
    BY <1>1, <1>2, <2>1 DEF ConnectionInv, ControlOK
  <2> QED BY <2>1, <2>2
<1>7. ASSUME NEW v \in Users \ strayed PROVE written'[v] + Unwritten(ioTasks', v) = said'[v]
  <2>1. /\ written[v] + Unwritten(ioTasks, v) = said[v] /\ written[v] \in Nat /\ said[v] \in Nat
        /\ \A i \in OutputsIn(ioTasks, v) : bev[v] = "open"
    BY DEF SaidInv
  <2>2. /\ Unwritten(ioTasks, v) \in Nat
        /\ Unwritten(ioTasks', v) =
             IF task.kind = "output" /\ v = u THEN Unwritten(ioTasks, v) - 1 ELSE Unwritten(ioTasks, v)
    <3>1. ioTasks \in Seq(Items({"setup", "output", "free"})) /\ Len(ioTasks) \in Nat
      BY DEF ConnectionInv, ControlOK
    <3>2. Unwritten(Tail(ioTasks), v) =
            IF ioTasks[1] = Item("output", v) THEN Unwritten(ioTasks, v) - 1 ELSE Unwritten(ioTasks, v)
      BY <1>1, <3>1, OutputsServed
    <3> QED BY <1>1, <1>3, <3>1, <3>2, OutputsAreFinite
  <2>3. CASE task.kind = "output" /\ v = u
    <3>1. bev[u] = "open"
      BY <1>1, <1>3, <2>1, <2>3 DEF OutputsIn
    <3>2. written'[v] = written[v] + 1
      BY <1>2, <2>3, <3>1 DEF SaidInv
    <3> QED BY <1>2, <2>1, <2>2, <2>3, <3>2
  <2>4. CASE ~(task.kind = "output" /\ v = u)
    <3>1. written'[v] = written[v]
      BY <1>1, <1>2, <2>4 DEF SaidInv
    <3> QED BY <1>2, <2>1, <2>2, <2>4, <3>1
  <2> QED BY <2>3, <2>4
<1> QED BY <1>2, <1>4, <1>6, <1>7 DEF SaidInv

\* Who logs on has an object, also above and below what a removal puts on the stack.
LEMMA PushLogsOn ==
  ASSUME NEW s \in Seq(Frames), NEW f \in Frames, f.then # "logon", LogOn(s, ob)
  PROVE  LogOn(<<f>> \o s, ob) /\ <<f>> \o s \in Seq(Frames)
<1>1. /\ \A i \in 1 .. Len(<<f>> \o s) :
           (<<f>> \o s)[i] = f \/ (i - 1 \in 1 .. Len(s) /\ (<<f>> \o s)[i] = s[i - 1])
      /\ <<f>> \o s \in Seq(Frames)
  OBVIOUS
<1> QED BY <1>1 DEF LogOn

LEMMA RemovalLogsOn ==
  ASSUME NEW u \in Users, NEW dested \in BOOLEAN, NEW below \in Seq(Frames), LogOn(below, ob),
         RemoveInteractive(u, dested, below)
  PROVE  LogOn(stack', ob)
<1> DEFINE f == Lpc("return", u)
           g == Removal(u)
           mid == <<g>> \o below
<1>1. f \in Frames /\ f.then = "return" /\ g \in Frames /\ g.then = "return"
  BY DEF Lpc, Removal, Frames
<1>2. stack' = below \/ stack' = (IF dested THEN <<>> ELSE <<f>>) \o <<g>> \o below
  BY DEF RemoveInteractive
<1> HIDE DEF f, g
<1>3. stack' = below \/ stack' = mid \/ stack' = <<f>> \o mid
  <2>1. <<>> \o <<g>> = <<g>>
    BY <1>1
  <2>2. (<<f>> \o <<g>>) \o below = <<f>> \o (<<g>> \o below)
    BY <1>1, ConcatAssociative
  <2> QED BY <1>2, <2>1, <2>2
<1>4. LogOn(mid, ob) /\ mid \in Seq(Frames)
  BY <1>1, PushLogsOn
<1> HIDE DEF mid
<1>5. LogOn(<<f>> \o mid, ob)
  BY <1>1, <1>4, PushLogsOn
<1> QED BY <1>3, <1>4, <1>5

LEMMA OneCallLogsOn ==
  ASSUME NEW then, NEW u, NEW objects, then = "logon" => objects[u] = "body"
  PROVE  LogOn(<<Lpc(then, u)>>, objects) /\ LogOn(<<>>, objects)
BY DEF LogOn, Lpc

\* A step that leaves the stack, the objects, the tasks and the messages alone.
LEMMA MessagesAreKept ==
  ASSUME MessageInv,
         UNCHANGED <<ioTasks, bev, mem, said, written, strayed>>,
         \A v \in Users : Seen(v)' => Seen(v),
         \A v \in Users : "CLOSING" \in flags[v] => "CLOSING" \in flags'[v],
         LogOn(stack', ob'), hand' # Nobody => ob'[hand'] = "body"
  PROVE  MessageInv'
<1>1. TaskInv' /\ SaidInv'
  BY TasksAreKept, WordsAreKept DEF MessageInv
<1> QED BY <1>1 DEF MessageInv, BodyInv

\* The events bounced are not logons, apart from those of RunTask.
LEMMA SeenBefore ==
  ASSUME ConnectionInv, \A v \in Users : Begun(v)' => Begun(v),
         \/ UNCHANGED events
         \/ events # <<>> /\ events' = Tail(events)
         \/ \E u \in Users, kind \in {"command", "gone"} : Bounce(kind, u)
  PROVE  \A v \in Users : Seen(v)' => Seen(v)
<1>1. events \in Seq(Items({"logon", "command", "gone"}))
  BY DEF ConnectionInv, ControlOK
<1> SUFFICES ASSUME NEW v \in Users, LogonAmong(events', v, Len(events'))
             PROVE  LogonAmong(events, v, Len(events))
  BY DEF Seen
<1>2. CASE UNCHANGED events
  BY <1>2
<1>3. CASE events # <<>> /\ events' = Tail(events)
  <2>1. \A i \in 1 .. Len(events') : i + 1 \in 1 .. Len(events) /\ events'[i] = events[i + 1]
    BY <1>1, <1>3
  <2> QED BY <2>1 DEF LogonAmong
<1>4. ASSUME NEW u \in Users, NEW kind \in {"command", "gone"}, Bounce(kind, u)
      PROVE  LogonAmong(events, v, Len(events))
  <2>1. Item(kind, u) \in Items({"logon", "command", "gone"}) /\ Item(kind, u) # Item("logon", v)
    BY DEF Item, Items
  <2>2. \A i \in 1 .. Len(events') :
            events'[i] = Item(kind, u) \/ (i \in 1 .. Len(events) /\ events'[i] = events[i])
    BY <1>1, <1>4, <2>1 DEF Bounce
  <2> QED BY <2>1, <2>2 DEF LogonAmong
<1> QED BY <1>2, <1>3, <1>4

\* The steps of the IO thread and the workers but RunTask.
LEMMA SideSteps ==
  ASSUME ConnectionInv, MessageInv, UNCHANGED <<stack, ob, mem, ioTasks, bev, said, written, strayed>>,
         \/ UNCHANGED events
         \/ \E u \in Users, kind \in {"command", "gone"} : Bounce(kind, u),
         \A v \in Users : "CLOSING" \in flags[v] <=> "CLOSING" \in flags'[v],
         hand' # Nobody => ob[hand'] = "body"
  PROVE  MessageInv'
<1>1. \A v \in Users : Begun(v)' => Begun(v)
  BY DEF Begun
<1>2. \A v \in Users : Seen(v)' => Seen(v)
  BY <1>1, SeenBefore
<1> QED BY <1>2, MessagesAreKept DEF MessageInv, BodyInv

LEMMA ReceiveMessages ==
  ASSUME ConnectionInv, MessageInv, NEW u \in Users, Receive(u) PROVE MessageInv'
<1>1. PICK b, more : Keep(u, b, more) /\ more \in SUBSET {"CMD_IN_BUF"}
  <2>1. \E b : Keep(u, b, IF CmdInBuf(b) THEN {"CMD_IN_BUF"} ELSE {})
    BY Zenon DEF Receive
  <2>2. PICK b : Keep(u, b, IF CmdInBuf(b) THEN {"CMD_IN_BUF"} ELSE {})
    BY <2>1
  <2> QED BY <2>2
<1>2. UNCHANGED <<stack, ob, mem, bev, ioTasks, events, hand, said, written, strayed>>
  BY DEF Receive, life, queues
<1>3. \A v \in Users : "CLOSING" \in flags[v] <=> "CLOSING" \in flags'[v]
  BY <1>1, KeepIsQuiet DEF ConnectionInv, ControlOK
<1> QED BY <1>2, <1>3, SideSteps DEF MessageInv, BodyInv

LEMMA EventMessages ==
  ASSUME ConnectionInv, MessageInv, NEW u \in Users, OnUserCommand(u) \/ OnUserEvents(u) PROVE MessageInv'
<1>1. /\ UNCHANGED <<stack, ob, mem, bev, ioTasks, hand, said, written, strayed>>
      /\ \E kind \in {"command", "gone"} : Bounce(kind, u)
      /\ flags' = flags \/ flags' = [flags EXCEPT ![u] = @ \cup {"NET_DEAD"}]
  BY DEF OnUserCommand, OnUserEvents, buffer, life, history
<1>2. \A v \in Users : "CLOSING" \in flags[v] <=> "CLOSING" \in flags'[v]
  BY <1>1 DEF ConnectionInv, ControlOK
<1> QED BY <1>1, <1>2, SideSteps DEF MessageInv, BodyInv

LEMMA WorkerLooksMessages ==
  ASSUME ConnectionInv, MessageInv, NEW u \in Users, WorkerLooks(u) PROVE MessageInv'
<1>1. /\ UNCHANGED <<stack, ob, mem, bev, flags, events, ioTasks, said, written, strayed>>
      /\ hand' = u /\ ob[u] = "body"
  BY DEF WorkerLooks, CanTell, buffer, life, queues, history
<1> QED BY <1>1, SideSteps

\* A message for a user with an object.
LEMMA WordsAreSaid ==
  ASSUME ConnectionInv, MessageInv, NEW u \in Users, Say(u), ob[u] = "body",
         UNCHANGED <<stack, ob, mem, bev, flags, events, written>>, hand' # Nobody => ob[hand'] = "body",
         strayed \subseteq strayed', "CLOSING" \in flags[u] => u \in strayed'
  PROVE  MessageInv'
<1>1. Post("output", u) /\ said' = [said EXCEPT ![u] = @ + 1]
  BY DEF Say
<1>2. \A v \in Users : Begun(v)' => Begun(v)
  BY DEF Begun
<1>3. \A v \in Users : Seen(v)' => Seen(v)
  BY <1>2, SeenBefore
<1>4. Seen(u)
  BY DEF Seen, Begun
<1>5. TaskInv'
  BY <1>1, <1>3, <1>4, TaskIsAdded DEF MessageInv
<1>6. u \notin strayed' =>
        bev[u] = "open" /\ \A j \in 1 .. Len(ioTasks) : ioTasks[j] # Item("free", u)
  BY <1>4 DEF MessageInv, TaskInv, ConnectionInv, ControlOK
<1>7. SaidInv'
  BY <1>1, <1>6, WordIsAdded DEF MessageInv
<1> QED BY <1>5, <1>7 DEF MessageInv, BodyInv

LEMMA SaysMessages ==
  ASSUME ConnectionInv, MessageInv, WorkerSays \/ \E u \in Users : LpcSays(u) PROVE MessageInv'
<1>1. CASE WorkerSays
  <2>1. /\ hand \in Users /\ ob[hand] = "body" /\ Say(hand) /\ hand' = Nobody
        /\ UNCHANGED <<stack, ob, mem, bev, flags, events, written>>
        /\ strayed' = IF "CLOSING" \in flags[hand] THEN strayed \cup {hand} ELSE strayed
    BY <1>1 DEF WorkerSays, MessageInv, BodyInv, ConnectionInv, ControlOK, buffer, life
  <2> QED BY <2>1, WordsAreSaid
<1>2. ASSUME NEW u \in Users, LpcSays(u) PROVE MessageInv'
  <2>1. /\ ob[u] = "body" /\ "CLOSING" \notin flags[u] /\ Say(u)
        /\ UNCHANGED <<stack, ob, mem, bev, flags, events, written, hand, strayed>>
    BY <1>2 DEF LpcSays, CanTell, buffer, life
  <2> QED BY <2>1, WordsAreSaid DEF MessageInv, BodyInv
<1> QED BY <1>1, <1>2

LEMMA NewConnectionMessages ==
  ASSUME ConnectionInv, MessageInv, NEW u \in Users, NewConnection(u) PROVE MessageInv'
<1>1. /\ mem[u] = "none" /\ mem' = [mem EXCEPT ![u] = "live"] /\ Post("setup", u)
      /\ UNCHANGED <<stack, ob, flags, bev, events, hand, said, written, strayed>>
  BY DEF NewConnection, buffer, history
<1>2. \A v \in Users : mem'[v] = mem[v] \/ (mem[v] = "none" /\ mem'[v] = "live")
  BY <1>1 DEF ConnectionInv, ControlOK
<1>3. \A v \in Users : Begun(v)' => Begun(v)
  BY <1>1, <1>2 DEF Begun
<1>4. \A v \in Users : Seen(v)' => Seen(v)
  BY <1>1, <1>3, SeenBefore
<1>5. TaskInv'
  BY <1>1, <1>2, <1>4, TaskIsAdded DEF MessageInv
<1>6. SaidInv'
  BY <1>1, WordIsAdded DEF MessageInv
<1> QED BY <1>1, <1>5, <1>6 DEF MessageInv, BodyInv

\* A step of the main thread that touches no task.
LEMMA MainSteps ==
  ASSUME ConnectionInv, MessageInv, UNCHANGED <<mem, ioTasks, bev, hand, said, written, strayed>>,
         UNCHANGED events \/ (events # <<>> /\ events' = Tail(events)),
         \A v \in Users : Begun(v)' => Begun(v),
         \A v \in Users : "CLOSING" \in flags[v] => "CLOSING" \in flags'[v],
         \A v \in Users : ob[v] = "body" => ob'[v] = "body", LogOn(stack', ob')
  PROVE  MessageInv'
<1>1. \A v \in Users : Seen(v)' => Seen(v)
  BY SeenBefore
<1>2. hand' # Nobody => ob'[hand'] = "body"
  BY DEF MessageInv, BodyInv, ConnectionInv, ControlOK
<1> QED BY <1>1, <1>2, MessagesAreKept

\* remove_interactive() of a user that has an object, or for which connect() is at work.
LEMMA RemovalMessages ==
  ASSUME ConnectionInv, MessageInv, NEW u \in Users, NEW dested \in BOOLEAN, NEW below \in Seq(Frames),
         RemoveInteractive(u, dested, below), Begun(u), Orderly(below), LogOn(below, ob),
         \A v \in Users : Removing(below, v) => Removing(stack, v),
         \A v \in Users : Connecting(below, v) => Connecting(stack, v),
         UNCHANGED <<mem, ob, ioTasks, bev, hand, said, written, strayed>>,
         UNCHANGED events \/ (events # <<>> /\ events' = Tail(events))
  PROVE  MessageInv'
<1>1. \A v \in Users :
        /\ "CLOSING" \in flags[v] => "CLOSING" \in flags'[v]
        /\ Removing(stack', v) => Removing(below, v) \/ v = u
        /\ Connecting(stack', v) => Connecting(below, v)
  <2>1. flags \in [Users -> SUBSET Flags]
    BY DEF ConnectionInv, ControlOK
  <2>2. "CLOSING" \notin flags[u] => ~Removing(below, u)
    BY DEF ConnectionInv, RemovalInv
  <2>3. \A v \in Users :
              /\ "CLOSING" \in flags'[v] <=> "CLOSING" \in flags[v] \/ v = u
              /\ Removing(stack', v) <=>
                   Removing(below, v) \/ (v = u /\ "CLOSING" \notin flags[u])
              /\ Connecting(stack', v) <=> Connecting(below, v)
    BY <2>1, <2>2, RemoveInteractiveWorks
  <2> QED BY <2>3
<1>2. \A v \in Users : Begun(v)' => Begun(v)
  BY <1>1 DEF Begun
<1>3. LogOn(stack', ob)
  BY RemovalLogsOn
<1> QED BY <1>1, <1>2, <1>3, MainSteps

\* What is under the top of the stack logs on as before.
LEMMA PopLogsOn ==
  ASSUME NEW s \in Seq(Frames), s # <<>>, LogOn(s, ob)
  PROVE  LogOn(Tail(s), ob) /\ Tail(s) \in Seq(Frames)
<1>1. /\ Tail(s) \in Seq(Frames)
      /\ \A i \in 1 .. Len(Tail(s)) : i + 1 \in 1 .. Len(s) /\ Tail(s)[i] = s[i + 1]
  OBVIOUS
<1> QED BY <1>1 DEF LogOn

LEMMA CallMessages ==
  ASSUME ConnectionInv, MessageInv, OtherEvent \/ CommandTaken \/ CommandReturns \/ LpcReturns
  PROVE  MessageInv'
<1>1. /\ UNCHANGED <<mem, ob, ioTasks, bev, hand, said, written, strayed, events>>
      /\ \A v \in Users : "CLOSING" \in flags[v] => "CLOSING" \in flags'[v]
  <2>1. flags' = flags \/ flags' = [flags EXCEPT ![Top.ip] = @ \ {"CMD_IN_BUF"}]
    BY DEF OtherEvent, CommandTaken, CommandReturns, LpcReturns, buffer
  <2> QED BY <2>1 DEF OtherEvent, CommandTaken, CommandReturns, LpcReturns, buffer, life, queues, history,
                      ConnectionInv, ControlOK
<1>2. /\ \A v \in Users : /\ Removing(stack', v) => Removing(stack, v)
                          /\ Connecting(stack', v) => Connecting(stack, v)
      /\ LogOn(stack', ob)
  <2>1. CASE OtherEvent
    BY <2>1, OneCallIsOrderly, OneCallLogsOn DEF OtherEvent
  <2>2. CASE CommandTaken
    <3>1. stack # <<>> /\ Top.at = "took" /\ stack' = <<Lpc("command", Top.ip)>>
      BY <2>2 DEF CommandTaken, At
    <3>2. Top.ip \in Users
      BY <3>1, TopIsOrderly
    <3> QED BY <3>1, <3>2, OneCallIsOrderly, OneCallLogsOn
  <2>3. CASE CommandReturns
    <3>1. stack' = <<>>
      BY <2>3 DEF CommandReturns
    <3> QED BY <3>1, EmptyIsOrderly DEF LogOn
  <2>4. CASE LpcReturns
    <3>1. stack # <<>> /\ stack' = Tail(stack)
      BY <2>4 DEF LpcReturns, Lpcs, At
    <3>2. stack \in Seq(Frames) /\ LogOn(stack, ob)
      BY DEF ConnectionInv, ControlOK, Orderly, MessageInv, BodyInv
    <3> QED BY <3>1, <3>2, TopIsOrderly, PopLogsOn
  <2> QED BY <2>1, <2>2, <2>3, <2>4
<1>3. \A v \in Users : Begun(v)' => Begun(v)
  BY <1>1, <1>2 DEF Begun
<1> QED BY <1>1, <1>2, <1>3, MainSteps

LEMMA LogonMessages ==
  ASSUME ConnectionInv, MessageInv, ConnectReturns \/ LogonReturns PROVE MessageInv'
<1> DEFINE u == Top.ip
<1>1. /\ stack # <<>> /\ Top.at = "lpc" /\ Top.then \in {"connect", "logon"}
      /\ UNCHANGED <<mem, bev, ioTasks, events, hand, said, written, strayed>>
      /\ Top.then = "connect" \/ (Top.then = "logon" /\ UNCHANGED ob)
  BY DEF ConnectReturns, LogonReturns, Lpcs, At, life, queues, history
<1>2. u \in Users /\ stack \in Seq(Frames) /\ 1 \in 1 .. Len(stack) /\ Top = stack[1]
  BY <1>1, TopIsOrderly, PopIsOrderly DEF ConnectionInv, ControlOK, Orderly, Top
<1>3. Begun(u) /\ (Top.then = "logon" => ob[u] = "body")
  <2>1. Top.then = "logon" => ob[u] = "body"
    BY <1>2 DEF MessageInv, BodyInv, LogOn
  <2>2. Top.then = "connect" => Connecting(stack, u)
    BY <1>2 DEF Connecting, Connects
  <2> QED BY <1>1, <2>1, <2>2 DEF Begun
<1>4. CASE ob' = [ob EXCEPT ![u] = "body"] /\ stack' = <<Lpc("logon", u)>> /\ UNCHANGED flags
  <2>1. \A v \in Users : ob'[v] = "body" <=> ob[v] = "body" \/ v = u
    BY <1>2, <1>4 DEF ConnectionInv, ControlOK
  <2>2. LogOn(stack', ob')
    BY <1>2, <1>4, <2>1, OneCallLogsOn
  <2>3. \A v \in Users : ~Removing(stack', v) /\ ~Connecting(stack', v)
    BY <1>2, <1>4, OneCallIsOrderly
  <2>4. \A v \in Users : Begun(v)' => Begun(v)
    BY <1>1, <1>3, <2>1, <2>3 DEF Begun
  <2> QED BY <1>1, <1>4, <2>1, <2>2, <2>4, MainSteps
<1>5. CASE stack' = <<>> /\ UNCHANGED <<flags, ob>>
  <2>1. \A v \in Users : ~Removing(stack', v) /\ ~Connecting(stack', v)
    BY <1>5, EmptyIsOrderly
  <2>2. \A v \in Users : Begun(v)' => Begun(v)
    BY <1>1, <1>5, <2>1 DEF Begun
  <2>3. LogOn(stack', ob')
    BY <1>5 DEF LogOn
  <2> QED BY <1>1, <1>5, <2>2, <2>3, MainSteps
<1>6. CASE RemoveInteractive(u, FALSE, <<>>) /\ UNCHANGED ob
  <2>1. LogOn(<<>>, ob) /\ <<>> \in Seq(Frames)
    BY DEF LogOn
  <2> QED BY <1>1, <1>2, <1>3, <1>6, <2>1, EmptyIsOrderly, RemovalMessages
<1> QED BY <1>1, <1>4, <1>5, <1>6 DEF ConnectReturns, LogonReturns, Lpcs, At, life

LEMMA LpcRemovesMessages ==
  ASSUME ConnectionInv, MessageInv, NEW u \in Users, NEW dested \in BOOLEAN, LpcRemoves(u, dested)
  PROVE  MessageInv'
<1>1. /\ RemoveInteractive(u, dested, stack) /\ Begun(u)
      /\ UNCHANGED <<mem, ob, bev, ioTasks, events, hand, said, written, strayed>>
  BY DEF LpcRemoves, Begun, life, queues, history
<1>2. Orderly(stack) /\ stack \in Seq(Frames) /\ LogOn(stack, ob)
  BY DEF ConnectionInv, ControlOK, Orderly, MessageInv, BodyInv
<1> QED BY <1>1, <1>2, RemovalMessages

LEMMA RemovePostsMessages ==
  ASSUME ConnectionInv, MessageInv, RemovePosts PROVE MessageInv'
<1> DEFINE u == Top.ip
           f == [Top EXCEPT !.at = "wait"]
<1>1. /\ stack # <<>> /\ Top.at = "post" /\ Post("free", u) /\ stack' = <<f>> \o Tail(stack)
      /\ UNCHANGED <<mem, ob, flags, bev, events, hand, said, written, strayed>>
  BY DEF RemovePosts, At, buffer, life, history
<1>2. /\ Top \in Frames /\ Top.then = "return" /\ u \in Users /\ Removing(stack, u)
      /\ Orderly(Tail(stack)) /\ ~Removing(Tail(stack), u)
      /\ \A v : Removing(Tail(stack), v) <=> Removing(stack, v) /\ v # u
      /\ \A v : Connecting(stack, v) <=> Connecting(Tail(stack), v)
  BY <1>1, TopIsOrderly DEF Removes, Connects
<1>3. f \in Frames /\ f.at = "wait" /\ f.then = "return" /\ f.ip = u
  BY <1>2 DEF Frames
<1> HIDE DEF f, u
<1>4. \A v : (Removes(f, v) <=> v = u) /\ ~Connects(f, v)
  BY <1>3 DEF Removes, Connects
<1>5. /\ \A v : Removing(stack', v) <=> Removing(Tail(stack), v) \/ Removes(f, v)
      /\ \A v : Connecting(stack', v) <=> Connecting(Tail(stack), v) \/ Connects(f, v)
  BY <1>1, <1>2, <1>3, PushIsOrderly
<1>6. \A v \in Users : Begun(v)' => Begun(v)
  BY <1>1, <1>2, <1>4, <1>5 DEF Begun
<1>7. \A v \in Users : Seen(v)' => Seen(v)
  BY <1>1, <1>6, SeenBefore
<1>8. Seen(u) /\ "CLOSING" \in flags[u]
  BY <1>2 DEF Seen, Begun, ConnectionInv, RemovalInv
<1>9. TaskInv'
  BY <1>1, <1>2, <1>7, <1>8, TaskIsAdded DEF MessageInv
<1>10. SaidInv'
  BY <1>1, <1>2, WordIsAdded DEF MessageInv
<1>11. LogOn(stack', ob)
  <2>1. stack \in Seq(Frames) /\ LogOn(stack, ob)
    BY DEF ConnectionInv, ControlOK, Orderly, MessageInv, BodyInv
  <2>2. LogOn(Tail(stack), ob) /\ Tail(stack) \in Seq(Frames)
    BY <1>1, <2>1, PopLogsOn
  <2> QED BY <1>1, <1>3, <2>2, PushLogsOn
<1> QED BY <1>1, <1>9, <1>10, <1>11 DEF MessageInv, BodyInv

LEMMA RemoveEndsMessages ==
  ASSUME ConnectionInv, MessageInv, RemoveEnds PROVE MessageInv'
<1> DEFINE u == Top.ip
<1>1. /\ stack # <<>> /\ Top.at = "wait" /\ stack' = Tail(stack) /\ bev[u] = "closed"
      /\ mem' = [mem EXCEPT ![u] = "freed"]
      /\ UNCHANGED <<ob, flags, bev, ioTasks, events, hand, said, written, strayed>>
  BY DEF RemoveEnds, At, buffer, queues, history
<1>2. /\ u \in Users /\ Removing(stack, u)
      /\ \A v : Removing(stack', v) <=> Removing(stack, v) /\ v # u
      /\ \A v : Connecting(stack', v) <=> Connecting(stack, v)
  BY <1>1, TopIsOrderly DEF Removes, Connects
<1> HIDE DEF u
<1>3. \A v \in Users : mem'[v] = IF v = u THEN "freed" ELSE mem[v]
  BY <1>1, <1>2 DEF ConnectionInv, ControlOK
<1>4. \A v \in Users : Begun(v)' => Begun(v)
  BY <1>1, <1>2, <1>3 DEF Begun
<1>5. \A v \in Users : Seen(v)' => Seen(v)
  BY <1>1, <1>4, SeenBefore
<1>6. LogOn(stack', ob)
  BY <1>1, PopLogsOn DEF ConnectionInv, ControlOK, Orderly, MessageInv, BodyInv
<1>7. TaskInv' /\ SaidInv'
  BY <1>1, <1>3, <1>5, TasksAreKept, WordsAreKept DEF MessageInv
<1> QED BY <1>1, <1>6, <1>7 DEF MessageInv, BodyInv

LEMMA NextEventMessages ==
  ASSUME ConnectionInv, MessageInv, NextEvent PROVE MessageInv'
<1> DEFINE e == Head(events)
<1>1. /\ stack = <<>> /\ events # <<>> /\ events' = Tail(events)
      /\ UNCHANGED <<mem, ob, bev, ioTasks, hand, said, written, strayed>>
  BY DEF NextEvent, life
<1>2. PICK u \in Users : /\ e = events[1] /\ 1 \in 1 .. Len(events) /\ e.ip = u
                         /\ e.kind \in {"logon", "command", "gone"} /\ e = Item(e.kind, u)
  <2>1. events \in Seq(Items({"logon", "command", "gone"})) /\ 1 \in 1 .. Len(events)
    BY <1>1 DEF ConnectionInv, ControlOK
  <2>2. e = events[1] /\ e \in Items({"logon", "command", "gone"})
    BY <1>1, <2>1
  <2> HIDE DEF e
  <2> QED BY <2>1, <2>2 DEF Items, Item
<1>3. \A v : ~Removing(stack, v) /\ ~Connecting(stack, v)
  BY <1>1, EmptyIsOrderly
<1>4. ASSUME \A v \in Users : Begun(v)' => Begun(v),
             \A v \in Users : "CLOSING" \in flags[v] => "CLOSING" \in flags'[v], LogOn(stack', ob)
      PROVE  MessageInv'
  BY <1>1, <1>4, MainSteps
<1>5. CASE UNCHANGED <<flags, stack>>
  <2>1. \A v \in Users : Begun(v)' => Begun(v)
    BY <1>1, <1>5 DEF Begun
  <2> QED BY <1>4, <1>5, <2>1 DEF MessageInv, BodyInv
<1>6. CASE mem[u] = "freed"
  <2>1. UNCHANGED <<flags, stack>>
    BY <1>2, <1>6 DEF NextEvent, buffer
  <2> QED BY <1>5, <2>1
<1>7. CASE mem[u] # "freed" /\ e.kind = "logon"
  <2>1. stack' = <<Lpc("connect", u)>> /\ UNCHANGED flags
    BY <1>2, <1>7 DEF NextEvent, buffer
  <2>2. \A v \in Users : ~Removing(stack', v) /\ (Connecting(stack', v) => v = u)
    BY <1>2, <2>1, OneCallIsOrderly
  <2>3. LogOn(stack', ob)
    BY <2>1, OneCallLogsOn
  <2>4. LogonAmong(events, u, Len(events))
    BY <1>2, <1>7 DEF LogonAmong
  <2> HIDE DEF e
  <2>5. \A v \in Users : Seen(v)' => Seen(v)
    <3> SUFFICES ASSUME NEW v \in Users, Seen(v)' PROVE Seen(v)
      OBVIOUS
    <3>1. CASE v = u
      BY <2>4, <3>1 DEF Seen
    <3>2. CASE v # u
      <4>1. Begun(v)' => Begun(v)
        BY <1>1, <2>2, <3>2 DEF Begun
      <4>2. events \in Seq(Items({"logon", "command", "gone"}))
        BY DEF ConnectionInv, ControlOK
      <4>3. \A i \in 1 .. Len(events') : i + 1 \in 1 .. Len(events) /\ events'[i] = events[i + 1]
        BY <1>1, <4>2
      <4> QED BY <4>1, <4>3 DEF Seen, LogonAmong
    <3> QED BY <3>1, <3>2
  <2> QED BY <1>1, <2>1, <2>3, <2>5, MessagesAreKept DEF MessageInv, BodyInv
<1>8. CASE mem[u] # "freed" /\ e.kind = "command"
  <2>1. GetUserCommand(u)
    BY <1>2, <1>8 DEF NextEvent
  <2>2. flags \in [Users -> SUBSET Flags]
    BY DEF ConnectionInv, ControlOK
  <2>3. \A v \in Users : /\ "CLOSING" \in flags'[v] <=> "CLOSING" \in flags[v]
                         /\ ~Removing(stack', v) /\ ~Connecting(stack', v)
    BY <1>1, <2>1, <2>2, GetUserCommandWorks
  <2>4. \A v \in Users : Begun(v)' => Begun(v)
    BY <1>1, <2>3 DEF Begun
  <2>5. LogOn(stack', ob)
    <3>1. CASE UNCHANGED stack
      BY <3>1 DEF MessageInv, BodyInv
    <3>2. CASE stack' = <<[at |-> "took", then |-> "command", ip |-> u, more |-> CmdInBuf(Left(u))]>>
      BY <3>2 DEF LogOn
    <3> QED BY <2>1, <3>1, <3>2, CommandIsTaken
  <2> QED BY <1>4, <2>3, <2>4, <2>5
<1>9. CASE mem[u] # "freed" /\ e.kind = "gone"
  <2>1. CASE ob[u] # "body"
    <3>1. UNCHANGED <<flags, stack>>
      BY <1>2, <1>9, <2>1 DEF NextEvent
    <3> QED BY <1>5, <3>1
  <2>2. CASE ob[u] = "body"
    <3>1. RemoveInteractive(u, FALSE, <<>>) /\ Begun(u)
      BY <1>2, <1>9, <2>2 DEF NextEvent, Begun
    <3>2. LogOn(<<>>, ob) /\ <<>> \in Seq(Frames)
      BY DEF LogOn
    <3> HIDE DEF e
    <3> QED BY <1>1, <3>1, <3>2, EmptyIsOrderly, RemovalMessages
  <2> QED BY <2>1, <2>2
<1> QED BY <1>2, <1>6, <1>7, <1>8, <1>9

LEMMA MessageInit == Init => MessageInv
<1> SUFFICES ASSUME Init PROVE MessageInv
  OBVIOUS
<1>1. /\ mem = [u \in Users |-> "none"] /\ ob = [u \in Users |-> "master"]
      /\ bev = [u \in Users |-> "none"] /\ ioTasks = <<>> /\ events = <<>> /\ stack = <<>> /\ hand = Nobody
      /\ said = [u \in Users |-> 0] /\ written = [u \in Users |-> 0]
  BY DEF Init
<1>2. \A u \in Users : ~Seen(u)
  BY <1>1, EmptyIsOrderly DEF Seen, Begun, LogonAmong
<1>3. \A u : OutputsIn(<<>>, u) = {} /\ Unwritten(<<>>, u) = 0
  BY FS_EmptySet DEF OutputsIn, Unwritten
<1>4. TaskInv
  BY <1>1, <1>2 DEF TaskInv
<1>5. BodyInv
  BY <1>1 DEF BodyInv, LogOn
<1>6. SaidInv
  BY <1>1, <1>3 DEF SaidInv
<1> QED BY <1>4, <1>5, <1>6 DEF MessageInv

LEMMA MessageNext ==
  ASSUME ConnectionInv, MessageInv, [Next]_vars PROVE MessageInv'
<1>1. CASE RunTask
  BY <1>1, RunTaskKeepsTasks, RunTaskKeepsWords DEF RunTask, MessageInv, BodyInv
<1>2. CASE WorkerSays
  BY <1>2, SaysMessages
<1>3. CASE NextEvent
  BY <1>3, NextEventMessages
<1>4. CASE OtherEvent \/ CommandTaken \/ Returns
  BY <1>4, CallMessages, LogonMessages DEF Returns
<1>5. CASE RemovePosts \/ RemoveEnds
  BY <1>5, RemovePostsMessages, RemoveEndsMessages
<1>6. ASSUME NEW u \in Users, Receive(u) \/ OnUserCommand(u) \/ OnUserEvents(u) PROVE MessageInv'
  BY <1>6, ReceiveMessages, EventMessages
<1>7. ASSUME NEW u \in Users, NewConnection(u) \/ LpcSays(u) \/ WorkerLooks(u) PROVE MessageInv'
  BY <1>7, NewConnectionMessages, SaysMessages, WorkerLooksMessages
<1>8. ASSUME NEW u \in Users, NEW dested \in BOOLEAN, LpcRemoves(u, dested) PROVE MessageInv'
  BY <1>8, LpcRemovesMessages
<1>9. CASE UNCHANGED vars
  <2>1. UNCHANGED <<stack, ob, mem, flags, events, ioTasks, bev, said, written, strayed, hand>>
    BY <1>9 DEF vars, buffer, life, queues, history
  <2> QED BY <2>1, SideSteps DEF MessageInv, BodyInv
<1> QED BY <1>1, <1>2, <1>3, <1>4, <1>5, <1>6, <1>7, <1>8, <1>9 DEF Next

-----------------------------------------------------------------------------
(* The messages hold                                                       *)

\* A user is set up once and before all else, its bufferevent is closed by a removal,
\* and a message waits in front of the task that closes it.
THEOREM MessageInvariant == Spec => [](ConnectionInv /\ MessageInv)
<1>1. Init => ConnectionInv /\ MessageInv
  BY InitHolds, MessageInit
<1>2. ConnectionInv /\ MessageInv /\ [Next]_vars => (ConnectionInv /\ MessageInv)'
  BY NextHolds, MessageNext
<1> QED BY <1>1, <1>2, PTL DEF Spec

\* What was said to a user is written before the user is freed, for any users, any
\* messages and any interleaving, unless a worker posted it late: the IO thread takes
\* the task that closes the bufferevent after all of them, and remove_interactive()
\* waits for it.
THEOREM LastWordsAreWritten == Spec => []SaidIsWritten
<1>1. ConnectionInv /\ MessageInv => SaidIsWritten
  <2> SUFFICES ASSUME ConnectionInv, MessageInv, NEW u \in Users \ strayed, mem[u] = "freed"
               PROVE  written[u] = said[u]
    BY DEF SaidIsWritten
  <2>1. bev[u] = "closed"
    BY DEF MessageInv, TaskInv
  <2>2. OutputsIn(ioTasks, u) = {}
    BY <2>1 DEF MessageInv, SaidInv
  <2>3. Unwritten(ioTasks, u) = 0
    BY <2>2, FS_EmptySet DEF Unwritten
  <2>4. written[u] + Unwritten(ioTasks, u) = said[u] /\ written[u] \in Nat
    BY DEF MessageInv, SaidInv
  <2> QED BY <2>3, <2>4
<1> QED BY <1>1, MessageInvariant, PTL
=============================================================================
