--------------------------- MODULE UserConnection ---------------------------
(***************************************************************************)
(* The connections of telnet users (src/comm.cc).  An IO thread fills the  *)
(* text buffer of a user and owns its bufferevent and its command timer;   *)
(* the main thread takes the commands, runs LPC and removes the user.  The *)
(* IO thread hands events to the main thread by event_base_once(), which   *)
(* keeps their order, the main thread hands tasks to the IO thread by      *)
(* IOThread::post() (src/base/internal/io_thread.cc), a queue in order as  *)
(* well.  Both hold the interactive by a raw pointer.                      *)
(*                                                                         *)
(* The bytes a user sends are numbered 1, 2, ... and `ends' tells which of *)
(* them are newlines.  Left out: negotiation, single character mode,       *)
(* erased characters, exec(), snooping, the other kinds of ports, workers  *)
(* that remove users.  Each statement on the buffer and the flags is one   *)
(* step although both threads change them without a lock.  The memory of a *)
(* user is not given to a later one, and what an event or a task finds in  *)
(* memory that was freed makes it do nothing.                              *)
(***************************************************************************)
EXTENDS Naturals, SequencesExt

CONSTANTS
  Users,        \* connections, each with an object of its own to log on with
  Nobody,
  Cap,          \* sizeof(ip->text)
  Low,          \* sizeof(ip->text) / 16, more than one read brings
  Bytes,        \* bound: bytes a user sends
  MaxSaid       \* bound: messages to a user

ASSUME UserConnectionAssumption ==
  /\ Nobody \notin Users
  /\ Cap \in Nat /\ Low \in 2 .. Cap
  /\ Bytes \in [Users -> Nat] /\ MaxSaid \in Nat

VARIABLES
  mem,        \* the interactive_t: allocated, freed
  ob,         \* ip->ob: the master object until connect() has returned another
  flags,      \* iflags
  text,       \* the bytes from text_start to text_end
  start,      \* text_start
  timer,      \* ev_command, on the base of the IO thread
  bev,        \* ev_buffer
  ioTasks,    \* tasks posted to the IO thread
  events,     \* events activated on the base of the main thread
  stack,      \* what the main thread is in the middle of, innermost first
  hand,       \* the user a worker is about to post a message to
  sent,           \* history: bytes sent,
  line,           \* the bytes of the last command,
  lost,           \* users whose buffer was emptied by force,
  said, written,  \* messages posted, messages that reached the bufferevent,
  raced,          \* users that sent while their CMD_IN_BUF was being cleared,
  strayed         \* and users a worker wrote to when they were being removed

buffer  == <<flags, text, start>>
life    == <<mem, ob, bev>>
queues  == <<ioTasks, events>>
history == <<sent, line, lost, said, written, raced, strayed>>
vars    == <<buffer, life, timer, queues, stack, hand, history>>

Flags  == {"CMD_IN_BUF", "SKIP_COMMAND", "NET_DEAD", "CLOSING"}
Items(kinds) == [kind : kinds, ip : Users]
Frames == [at : {"lpc", "took", "post", "wait"},
           then : {"return", "connect", "logon", "command"},
           ip : Users \cup {Nobody}, more : BOOLEAN]

TypeOK ==
  /\ mem \in [Users -> {"none", "live", "freed"}]
  /\ ob \in [Users -> {"master", "body"}]
  /\ flags \in [Users -> SUBSET Flags]
  /\ \A u \in Users : /\ text[u] \in Seq([n : 1 .. Bytes[u], ends : BOOLEAN])
                      /\ start[u] \in Nat /\ start[u] + Len(text[u]) <= Cap
  /\ timer \in [Users -> {"none", "idle", "armed"}]
  /\ bev \in [Users -> {"none", "open", "closed"}]
  /\ ioTasks \in Seq(Items({"setup", "output", "free"}))
  /\ events \in Seq(Items({"logon", "command", "gone"}))
  /\ stack \in Seq(Frames)
  /\ hand \in Users \cup {Nobody}

Init ==
  /\ mem = [u \in Users |-> "none"] /\ ob = [u \in Users |-> "master"]
  /\ bev = [u \in Users |-> "none"] /\ timer = [u \in Users |-> "none"]
  /\ flags = [u \in Users |-> {}]
  /\ text = [u \in Users |-> <<>>] /\ start = [u \in Users |-> 0]
  /\ ioTasks = <<>> /\ events = <<>> /\ stack = <<>> /\ hand = Nobody
  /\ sent = [u \in Users |-> 0] /\ line = [u \in Users |-> <<>>] /\ lost = {}
  /\ said = [u \in Users |-> 0] /\ written = [u \in Users |-> 0]
  /\ raced = {} /\ strayed = {}

-----------------------------------------------------------------------------
Item(kind, u) == [kind |-> kind, ip |-> u]

\* IOThread::post(), event_base_once() without a delay.
Post(kind, u)   == ioTasks' = Append(ioTasks, Item(kind, u))
\* Mutant: a later event is served first.
BounceFirst(kind, u) == events' = <<Item(kind, u)>> \o events

Bounce(kind, u) == events' = Append(events, Item(kind, u))

Lpc(then, u) == [at |-> "lpc", then |-> then, ip |-> u, more |-> FALSE]
Removal(u)   == [at |-> "post", then |-> "return", ip |-> u, more |-> FALSE]

Top == Head(stack)
At(where) == stack # <<>> /\ Top.at = where
Lpcs(then) == At("lpc") /\ Top.then = then

-----------------------------------------------------------------------------
(* The text buffer *)

Ends(t) == {i \in 1 .. Len(t) : t[i].ends}
FirstEnd(t) == Min(Ends(t))
From(t, i) == SubSeq(t, i, Len(t))

\* clean_buf(): of the command to skip nothing remains once its end is there.
Cleaned(t, s, skip) ==
  LET ends == skip /\ Ends(t) # {}
      rest == IF ends THEN From(t, FirstEnd(t) + 1) ELSE t
  IN [text |-> rest, skip |-> skip /\ ~ends,
      start |-> IF rest = <<>> THEN 0 ELSE s + Len(t) - Len(rest)]

CmdInBuf(b) == Ends(b.text) # {}

Keep(u, b, more) ==
  /\ text' = [text EXCEPT ![u] = b.text]
  /\ start' = [start EXCEPT ![u] = b.start]
  /\ flags' = [flags EXCEPT ![u] = (@ \ {"SKIP_COMMAND"})
                                     \cup (IF b.skip THEN {"SKIP_COMMAND"} ELSE {}) \cup more]

Skips(u) == "SKIP_COMMAND" \in flags[u]

\* Mutant: the bytes are not moved to the front.
RoomyInPlace(u) ==
  [text |-> text[u], start |-> start[u], skip |-> Skips(u), lost |-> FALSE]

\* get_user_data() makes room: what is left moves to the front of the buffer, and
\* if that is not enough the buffer is emptied.
Roomy(u) ==
  LET t == text[u]
      s == IF Cap - start[u] - Len(t) < Low THEN 0 ELSE start[u]
  IN IF Cap - s - Len(t) < Low
     THEN [text |-> <<>>, start |-> 0, skip |-> TRUE, lost |-> TRUE]
     ELSE [text |-> t, start |-> s, skip |-> Skips(u), lost |-> FALSE]

-----------------------------------------------------------------------------
(* The IO thread *)

\* on_user_read() with get_user_data(): fewer bytes than the space kept free.
Receive(u) ==
  /\ bev[u] = "open" /\ "NET_DEAD" \notin flags[u]
  /\ \E k \in 1 .. (Low - 1) : \E ends \in [1 .. k -> BOOLEAN] :
       /\ sent[u] + k <= Bytes[u]
       /\ sent' = [sent EXCEPT ![u] = @ + k]
       /\ LET room == Roomy(u)
              new == [i \in 1 .. k |-> [n |-> sent[u] + i, ends |-> ends[i]]]
              b == Cleaned(room.text \o new, room.start, room.skip)
          IN /\ Keep(u, b, IF CmdInBuf(b) THEN {"CMD_IN_BUF"} ELSE {})
             /\ timer' = IF CmdInBuf(b) THEN [timer EXCEPT ![u] = "armed"] ELSE timer
             /\ lost' = IF room.lost THEN lost \cup {u} ELSE lost
  /\ raced' = IF At("took") /\ Top.ip = u /\ ~Top.more THEN raced \cup {u} ELSE raced
  /\ UNCHANGED <<life, queues, stack, hand, line, said, written, strayed>>

\* on_user_command()
OnUserCommand(u) ==
  /\ timer[u] = "armed"
  /\ timer' = [timer EXCEPT ![u] = "idle"]
  /\ Bounce("command", u)
  /\ UNCHANGED <<buffer, life, ioTasks, stack, hand, history>>

\* Mutant: the removal is left to whoever writes next.
OnUserEventsMarks(u) ==
  /\ bev[u] = "open" /\ "NET_DEAD" \notin flags[u]
  /\ flags' = [flags EXCEPT ![u] = @ \cup {"NET_DEAD"}]
  /\ UNCHANGED <<text, start, life, timer, queues, stack, hand, history>>

\* on_user_events(): the end of the stream or an error, after which nothing is read.
OnUserEvents(u) ==
  /\ bev[u] = "open" /\ "NET_DEAD" \notin flags[u]
  /\ flags' = [flags EXCEPT ![u] = @ \cup {"NET_DEAD"}]
  /\ Bounce("gone", u)
  /\ UNCHANGED <<text, start, life, timer, ioTasks, stack, hand, history>>

SetUp(u) ==
  /\ bev' = [bev EXCEPT ![u] = "open"]
  /\ timer' = [timer EXCEPT ![u] = "idle"]
  /\ Bounce("logon", u)
  /\ UNCHANGED written

Output(u) ==
  /\ written' = IF bev[u] = "open" THEN [written EXCEPT ![u] = @ + 1] ELSE written
  /\ UNCHANGED <<bev, timer, events>>

FreeBev(u) ==
  /\ bev' = [bev EXCEPT ![u] = "closed"]
  /\ UNCHANGED <<timer, events, written>>

RunTask ==
  /\ ioTasks # <<>>
  /\ ioTasks' = Tail(ioTasks)
  /\ LET task == Head(ioTasks) IN
     CASE task.kind = "setup"  -> SetUp(task.ip)
       [] task.kind = "output" -> Output(task.ip)
       [] task.kind = "free"   -> FreeBev(task.ip)
  /\ UNCHANGED <<buffer, mem, ob, stack, hand, sent, line, lost, said, raced, strayed>>

-----------------------------------------------------------------------------
(* Messages *)

\* What add_message() looks at.
CanTell(u) ==
  ob[u] = "body" /\ mem[u] = "live" /\ flags[u] \cap {"NET_DEAD", "CLOSING"} = {}

Say(u) == Post("output", u) /\ said' = [said EXCEPT ![u] = @ + 1]

LpcSays(u) ==
  /\ At("lpc") /\ CanTell(u) /\ said[u] < MaxSaid
  /\ Say(u)
  /\ UNCHANGED <<buffer, life, timer, events, stack, hand, sent, line, lost, written,
                 raced, strayed>>

\* LPC on a worker, where the main thread may come between the test and the post.
WorkerLooks(u) ==
  /\ hand = Nobody /\ CanTell(u) /\ said[u] < MaxSaid
  /\ hand' = u
  /\ UNCHANGED <<buffer, life, timer, queues, stack, history>>

WorkerSays ==
  /\ hand # Nobody
  /\ Say(hand) /\ hand' = Nobody
  /\ strayed' = IF "CLOSING" \in flags[hand] THEN strayed \cup {hand} ELSE strayed
  /\ UNCHANGED <<buffer, life, timer, events, stack, sent, line, lost, written, raced>>

-----------------------------------------------------------------------------
(* remove_interactive() *)

\* Mutant: only net_dead() is protected, by nothing.
RemoveInteractiveUnmarked(u, dested, below) ==
  /\ UNCHANGED flags
  /\ IF "CLOSING" \in flags[u] THEN stack' = below
     ELSE stack' = (IF dested THEN <<>> ELSE <<Lpc("return", u)>>) \o <<Removal(u)>> \o below

\* Up to the first place where it waits: net_dead() or the IO thread.
RemoveInteractive(u, dested, below) ==
  IF "CLOSING" \in flags[u] THEN stack' = below /\ UNCHANGED flags
  ELSE /\ flags' = [flags EXCEPT ![u] = @ \cup {"CLOSING"}]
       /\ stack' = (IF dested THEN <<>> ELSE <<Lpc("return", u)>>) \o <<Removal(u)>> \o below

\* destruct_object() of the user's object; the remove_interactive() efun.
LpcRemoves(u, dested) ==
  /\ At("lpc") /\ ob[u] = "body" /\ mem[u] = "live"
  /\ RemoveInteractive(u, dested, stack)
  /\ UNCHANGED <<text, start, life, timer, queues, hand, history>>

\* Mutant: the task overtakes those posted before it.
RemovePostsFirst ==
  /\ At("post")
  /\ ioTasks' = <<Item("free", Top.ip)>> \o ioTasks
  /\ stack' = <<[Top EXCEPT !.at = "wait"]>> \o Tail(stack)
  /\ UNCHANGED <<buffer, life, timer, events, hand, history>>

RemovePosts ==
  /\ At("post")
  /\ Post("free", Top.ip)
  /\ stack' = <<[Top EXCEPT !.at = "wait"]>> \o Tail(stack)
  /\ UNCHANGED <<buffer, life, timer, events, hand, history>>

RemoveEnds ==
  /\ At("wait") /\ bev[Top.ip] = "closed"
  /\ timer' = [timer EXCEPT ![Top.ip] = "none"]
  /\ mem' = [mem EXCEPT ![Top.ip] = "freed"]
  /\ stack' = Tail(stack)
  /\ UNCHANGED <<buffer, ob, bev, queues, hand, history>>

-----------------------------------------------------------------------------
(* The main thread *)

\* new_conn_handler()
NewConnection(u) ==
  /\ stack = <<>> /\ mem[u] = "none"
  /\ mem' = [mem EXCEPT ![u] = "live"]
  /\ Post("setup", u)
  /\ UNCHANGED <<buffer, ob, bev, timer, events, stack, hand, history>>

\* A tick, or another event that runs LPC.
OtherEvent ==
  /\ stack = <<>>
  /\ stack' = <<Lpc("return", Nobody)>>
  /\ UNCHANGED <<buffer, life, timer, queues, hand, history>>

\* Mutant: the first command is taken with all that follows it.
TakenAll(b) == [line |-> b.text, rest |-> <<>>]

\* first_cmd_in_buf(): up to the newline, or all there is.
Taken(b) ==
  LET n == IF CmdInBuf(b) THEN FirstEnd(b.text) ELSE Len(b.text)
  IN [line |-> SubSeq(b.text, 1, n), rest |-> From(b.text, n + 1)]

\* get_user_command(), up to the look for a further command.
GetUserCommand(u) ==
  LET b == Cleaned(text[u], start[u], Skips(u))
      took == Taken(b)
      left == Cleaned(took.rest, b.start + Len(took.line), b.skip)
  IN IF "CMD_IN_BUF" \notin flags[u] THEN UNCHANGED <<buffer, stack, line>>
     ELSE IF b.text = <<>> THEN Keep(u, b, {}) /\ UNCHANGED <<stack, line>>
     ELSE /\ Keep(u, left, {})
          /\ line' = [line EXCEPT ![u] = took.line]
          /\ stack' = <<[at |-> "took", then |-> "command", ip |-> u,
                         more |-> CmdInBuf(left)]>>

\* The next event; one of a user that was freed meets memory that is not its.
NextEvent ==
  /\ stack = <<>> /\ events # <<>>
  /\ events' = Tail(events)
  /\ LET e == Head(events) IN
     IF mem[e.ip] = "freed" THEN UNCHANGED <<buffer, stack, line>>
     ELSE CASE e.kind = "logon"   -> stack' = <<Lpc("connect", e.ip)>> /\ UNCHANGED <<buffer, line>>
            [] e.kind = "command" -> GetUserCommand(e.ip)
            [] e.kind = "gone"    ->
                 /\ IF ob[e.ip] = "body" THEN RemoveInteractive(e.ip, FALSE, <<>>) ELSE UNCHANGED <<flags, stack>>
                 /\ UNCHANGED <<text, start, line>>
  /\ UNCHANGED <<life, timer, ioTasks, hand, sent, lost, said, written, raced, strayed>>

\* Without another command CMD_IN_BUF is cleared; then the command runs.
CommandTaken ==
  /\ At("took")
  /\ flags' = IF Top.more THEN flags ELSE [flags EXCEPT ![Top.ip] = @ \ {"CMD_IN_BUF"}]
  /\ stack' = <<Lpc("command", Top.ip)>>
  /\ UNCHANGED <<text, start, life, timer, queues, hand, history>>

\* connect() gives the user an object, which logs on, or does not.
ConnectReturns ==
  /\ Lpcs("connect")
  /\ \/ /\ ob' = [ob EXCEPT ![Top.ip] = "body"]
        /\ stack' = <<Lpc("logon", Top.ip)>>
        /\ UNCHANGED flags
     \/ RemoveInteractive(Top.ip, FALSE, <<>>) /\ UNCHANGED ob
  /\ UNCHANGED <<text, start, mem, bev, timer, queues, hand, history>>

LogonReturns ==
  /\ Lpcs("logon")
  /\ \/ stack' = <<>> /\ UNCHANGED flags
     \/ mem[Top.ip] = "live" /\ RemoveInteractive(Top.ip, FALSE, <<>>)
  /\ UNCHANGED <<text, start, life, timer, queues, hand, history>>

\* Mutant: the next command waits for more input.
CommandReturnsOnly ==
  /\ Lpcs("command")
  /\ stack' = <<>>
  /\ UNCHANGED <<buffer, life, timer, queues, hand, history>>

\* maybe_schedule_user_command(), if the user is still there.
CommandReturns ==
  /\ Lpcs("command")
  /\ stack' = <<>>
  /\ timer' = IF mem[Top.ip] = "live" /\ "CMD_IN_BUF" \in flags[Top.ip]
              THEN [timer EXCEPT ![Top.ip] = "armed"] ELSE timer
  /\ UNCHANGED <<buffer, life, queues, hand, history>>

LpcReturns ==
  /\ Lpcs("return")
  /\ stack' = Tail(stack)
  /\ UNCHANGED <<buffer, life, timer, queues, hand, history>>

-----------------------------------------------------------------------------
Returns == ConnectReturns \/ LogonReturns \/ CommandReturns \/ LpcReturns

Next ==
  \/ RunTask \/ WorkerSays
  \/ NextEvent \/ OtherEvent \/ CommandTaken \/ Returns
  \/ RemovePosts \/ RemoveEnds
  \/ \E u \in Users :
       \/ Receive(u) \/ OnUserCommand(u) \/ OnUserEvents(u)
       \/ NewConnection(u) \/ LpcSays(u) \/ WorkerLooks(u)
       \/ \E dested \in BOOLEAN : LpcRemoves(u, dested)

Spec == Init /\ [][Next]_vars

\* The IO thread runs its tasks and timers, LPC returns, and an event that is
\* active is served although others come.
FairSpec ==
  /\ Spec
  /\ WF_vars(RunTask) /\ \A u \in Users : WF_vars(OnUserCommand(u))
  /\ SF_vars(NextEvent)
  /\ WF_vars(CommandTaken) /\ WF_vars(Returns) /\ WF_vars(RemovePosts) /\ WF_vars(RemoveEnds)

-----------------------------------------------------------------------------
(* Properties *)

\* A command is exactly the next line the user sent, from behind the last newline
\* to the next, however reads, moves of the buffer, timers and bounces interleave,
\* as long as the buffer was not emptied for lack of space.
CommandsAreLines ==
  [][\A u \in Users \ lost' : line'[u] # line[u] =>
       LET before == IF line[u] = <<>> THEN 0 ELSE Last(line[u]).n
           taken  == line'[u]
       IN \A i \in 1 .. Len(taken) :
            taken[i] = [n |-> before + i, ends |-> i = Len(taken)]]_vars

\* An event that main serves for a user in memory comes after its logon: before it
\* ip->ob is the master object, and remove_interactive() would be told to remove
\* the connection of the master.
NothingBeforeLogon ==
  stack = <<>> /\ events # <<>> =>
    LET e == Head(events) IN
    mem[e.ip] = "live" /\ e.kind # "logon" => ob[e.ip] = "body"

Removals(u) == {i \in 1 .. Len(stack) : stack[i].at \in {"post", "wait"} /\ stack[i].ip = u}

\* A connection is being removed by one remove_interactive() at most, whatever
\* net_dead() destructs and disconnects, and is in memory until that is done.
RemovedOnce ==
  \A u \in Users : /\ \A i, j \in Removals(u) : i = j
                   /\ Removals(u) # {} => mem[u] = "live"

\* A posted message finds its user in memory and its bufferevent in place: what was
\* said before the removal is written by then, the last words of a command that
\* destructs its user included, unless a worker was the one that posted it late.
SaidIsWritten ==
  \A u \in Users \ strayed : mem[u] = "freed" /\ hand # u => written[u] = said[u]

\* The complete lines in the buffer are taken, unless the user sent while the main
\* thread was clearing CMD_IN_BUF: then they wait for further input.
LineIsTaken ==
  \A u \in Users :
    Ends(text[u]) # {} ~> (Ends(text[u]) = {} \/ u \in raced \/ mem[u] = "freed")

\* A connection whose peer has gone, or that something has begun to remove, is
\* removed in the end: the main thread does not wait for the IO thread for ever.
GoneIsRemoved ==
  \A u \in Users : flags[u] \cap {"NET_DEAD", "CLOSING"} # {} ~> mem[u] = "freed"
=============================================================================
