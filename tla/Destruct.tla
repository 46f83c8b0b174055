----------------------------- MODULE Destruct -----------------------------
(***************************************************************************)
(* destruct_object() and move_object() (src/vm/internal/simulate.cc) with  *)
(* setup_new_commands() (src/packages/core/add_action.cc).  Each calls LPC *)
(* in its middle: on_destruct(), move_or_destruct() and init() may destruct*)
(* and move any object again, and may throw an error that unwinds the      *)
(* calls below them.  The stack of unfinished calls is the heart of the    *)
(* model; all of them are of one thread.                                   *)
(*                                                                         *)
(* Left out: shadows, the master and simul_efun objects, edit buffers, the *)
(* resets that move_object() makes when they are lazy, the object lists    *)
(* (see ObjectList) and whatever cannot call LPC.                          *)
(***************************************************************************)
EXTENDS Naturals, SequencesExt

CONSTANTS
  Objects,
  Null,
  Living,       \* objects with O_ENABLE_COMMANDS
  Notified,     \* objects with O_NOTIFY_DESTRUCT
  MaxDepth      \* unfinished calls, beyond which it is "Too deep recursion."

ASSUME DestructAssumption ==
  /\ Null \notin Objects
  /\ Living \subseteq Objects /\ Notified \subseteq Objects
  /\ MaxDepth \in Nat \ {0}

VARIABLES
  env,          \* super
  inv,          \* contains and next_inv: the inventory, last arrival first
  destructed,   \* objects with O_DESTRUCTED
  restrict,     \* restrict_destruct
  stack,        \* unfinished calls, innermost first
  finished      \* history: how often destruct_object() took an object out

vars == <<env, inv, destructed, restrict, stack, finished>>

Pointers == Objects \cup {Null}

Hooks    == {"command", "on_destruct", "move_or_destruct", "init"}
Destroys == {"begin", "notified", "contents", "asked"}
Moves    == {"enter", "room", "visit", "item", "other", "met"}

\* A call: where it is; the object that runs, is destructed or is moved; and the
\* locals: otmp or dest, the object visited, the one after it, and the restriction
\* to put back.
Calls == [at : Hooks \cup Destroys \cup Moves, ob : Objects, other : Pointers,
          here : Pointers, next : Pointers, save : Pointers]

TypeOK ==
  /\ env \in [Objects -> Pointers]
  /\ inv \in [Objects -> Seq(Objects)]
  /\ destructed \subseteq Objects
  /\ restrict \in Pointers
  /\ stack \in Seq(Calls) /\ Len(stack) <= MaxDepth
  /\ finished \in [Objects -> 0 .. 2]

Init ==
  /\ env = [o \in Objects |-> Null]
  /\ inv = [o \in Objects |-> <<>>]
  /\ destructed = {}
  /\ restrict = Null
  /\ stack = <<>>
  /\ finished = [o \in Objects |-> 0]

-----------------------------------------------------------------------------
Top  == Head(stack)
At(where) == stack # <<>> /\ Top.at = where
Lpc  == stack # <<>> /\ Top.at \in Hooks
Room == Len(stack) < MaxDepth

Call(where, o) ==
  [at |-> where, ob |-> o, other |-> Null, here |-> Null, next |-> Null, save |-> Null]

Returns   == stack' = Tail(stack)
Goes(top) == stack' = <<top>> \o Tail(stack)

\* error(): back to the innermost safe_apply(), or catch() of an LPC function.
\* on_destruct() and the commands of the backend are called safely.
Safe(call) == call.at \in {"command", "on_destruct"}

Error ==
  /\ restrict' = Null
  /\ \E i \in 1 .. Len(stack) :
       /\ \A j \in 1 .. (i - 1) : ~Safe(stack[j])
       /\ \/ stack[i].at \in Hooks /\ stack' = SubSeq(stack, i, Len(stack))
          \/ Safe(stack[i]) /\ stack' = SubSeq(stack, i + 1, Len(stack))

\* Mutant: the control stack is not looked at.
ApplyAlways(top, hook, o, r) ==
  restrict' = r /\ stack' = <<Call(hook, o), top>> \o Tail(stack)

\* apply(): the hook of o runs, with restriction r, before the innermost call goes
\* on as top; or the control stack is full.
Apply(top, hook, o, r) ==
  \/ Room /\ restrict' = r /\ stack' = <<Call(hook, o), top>> \o Tail(stack)
  \/ ~Room /\ Error

World == <<env, inv, destructed, finished>>

\* Where o is in the list of its environment, and the lists without it there:
\* the loop over contains takes an object out wherever it meets it, and it is
\* in one place only (InventoriesAgree).
Place(o) == CHOOSE i \in 1 .. Len(inv[env[o]]) : inv[env[o]][i] = o
Unlinked(o) ==
  IF env[o] = Null THEN inv ELSE [inv EXCEPT ![env[o]] = RemoveAt(@, Place(o))]

-----------------------------------------------------------------------------
Command(o) ==
  /\ stack = <<>> /\ o \notin destructed
  /\ stack' = <<Call("command", o)>>
  /\ UNCHANGED <<World, restrict>>

LpcReturns ==
  /\ Lpc
  /\ Returns
  /\ UNCHANGED <<World, restrict>>

LpcError == Lpc /\ Error /\ UNCHANGED World

-----------------------------------------------------------------------------
(* destruct_object() *)

Destroying(o) == [Call("begin", o) EXCEPT !.save = restrict]

LpcDestructs(o) ==
  /\ Lpc /\ Room /\ o \notin destructed
  /\ stack' = <<Destroying(o)>> \o stack
  /\ UNCHANGED <<World, restrict>>

Allowed(o) == restrict \in {Null, o}

DestructRefused ==
  /\ At("begin") /\ ~Allowed(Top.ob)
  /\ Error
  /\ UNCHANGED World

\* safe_apply(): an error of on_destruct() ends there.
DestructNotifies ==
  /\ At("begin") /\ Allowed(Top.ob)
  /\ LET top == [Top EXCEPT !.at = "notified"] IN
     IF Top.ob \notin Notified \ destructed THEN Goes(top) /\ UNCHANGED restrict
     ELSE IF Room THEN Apply(top, "on_destruct", Top.ob, restrict)
     ELSE Goes(top) /\ restrict' = Null
  /\ UNCHANGED World

DestructNotified ==
  /\ At("notified")
  /\ IF Top.ob \in destructed THEN Returns ELSE Goes([Top EXCEPT !.at = "contents"])
  /\ UNCHANGED <<World, restrict>>

DestructAsks ==
  /\ At("contents") /\ inv[Top.ob] # <<>>
  /\ LET otmp == Head(inv[Top.ob]) IN
     Apply([Top EXCEPT !.at = "asked", !.other = otmp], "move_or_destruct", otmp, otmp)
  /\ UNCHANGED World

Stays(o, otmp) == inv[o] # <<>> /\ Head(inv[o]) = otmp

\* Mutant: the restriction of the caller is not put back.
DestructAskedKeeps ==
  /\ At("asked")
  /\ UNCHANGED restrict
  /\ LET top  == [Top EXCEPT !.at = "contents", !.other = Null]
         otmp == [Call("begin", Top.other) EXCEPT !.save = Top.save]
     IN IF Top.ob \in destructed THEN Returns
        ELSE IF Stays(Top.ob, Top.other) THEN stack' = <<otmp, top>> \o Tail(stack)
        ELSE Goes(top)
  /\ UNCHANGED World

\* Mutant: what stays is destructed without the test of the restriction.
DestructAskedFreely ==
  /\ At("asked")
  /\ restrict' = Top.save
  /\ LET top  == [Top EXCEPT !.at = "contents", !.other = Null]
         otmp == [Call("notified", Top.other) EXCEPT !.save = Top.save]
     IN IF Top.ob \in destructed THEN Returns
        ELSE IF Stays(Top.ob, Top.other) THEN stack' = <<otmp, top>> \o Tail(stack)
        ELSE Goes(top)
  /\ UNCHANGED World

DestructAsked ==
  /\ At("asked")
  /\ restrict' = Top.save
  /\ LET top  == [Top EXCEPT !.at = "contents", !.other = Null]
         otmp == [Call("begin", Top.other) EXCEPT !.save = Top.save]
     IN IF Top.ob \in destructed THEN Returns
        ELSE IF Stays(Top.ob, Top.other) THEN stack' = <<otmp, top>> \o Tail(stack)
        ELSE Goes(top)
  /\ UNCHANGED World

\* Out of its environment, out of all lists, O_DESTRUCTED: no LPC runs meanwhile.
\* Nothing asks here whether a call made since has destructed the object already.
DestructFinishes ==
  /\ At("contents") /\ inv[Top.ob] = <<>>
  /\ LET o == Top.ob IN
     /\ inv' = Unlinked(o)
     /\ env' = [env EXCEPT ![o] = Null]
     /\ destructed' = destructed \cup {o}
     /\ finished' = [finished EXCEPT ![o] = IF @ < 2 THEN @ + 1 ELSE @]
  /\ Returns
  /\ UNCHANGED restrict

-----------------------------------------------------------------------------
(* move_object() *)

\* Along super no way leads out of S.
Upward(S) == \A p \in S : env[p] \in S \cup {Null}

\* o and everything it is in: what the walk along super comes to.
Around(o) == {p \in Objects : \A S \in SUBSET Objects : o \in S /\ Upward(S) => p \in S}

LpcMovesBadly(item, dest) ==
  /\ Lpc /\ item \notin destructed /\ dest \notin destructed
  /\ item \in Around(dest)
  /\ Error
  /\ UNCHANGED World

\* Mutant: the environments of the destination are not looked at.
LpcMovesAnywhere(item, dest) ==
  /\ Lpc /\ Room /\ item \notin destructed /\ dest \notin destructed
  /\ item # dest
  /\ inv' = [Unlinked(item) EXCEPT ![dest] = <<item>> \o @]
  /\ env' = [env EXCEPT ![item] = dest]
  /\ LET top == [Call("enter", item) EXCEPT !.other = dest] IN stack' = <<top>> \o stack
  /\ UNCHANGED <<destructed, restrict, finished>>

LpcMoves(item, dest) ==
  /\ Lpc /\ Room /\ item \notin destructed /\ dest \notin destructed
  /\ item \notin Around(dest)
  /\ inv' = [Unlinked(item) EXCEPT ![dest] = <<item>> \o @]
  /\ env' = [env EXCEPT ![item] = dest]
  /\ LET top == [Call("enter", item) EXCEPT !.other = dest] IN stack' = <<top>> \o stack
  /\ UNCHANGED <<destructed, restrict, finished>>

(* setup_new_commands(): the item meets its destination and what is there. *)

MoveEnters ==
  /\ At("enter")
  /\ LET top == [Top EXCEPT !.at = "room"] IN
     IF Top.ob \in Living THEN Apply(top, "init", Top.other, restrict)
     ELSE Goes(top) /\ UNCHANGED restrict
  /\ UNCHANGED World

Gone == env[Top.ob] # Top.other

First(o)    == IF inv[o] = <<>> THEN Null ELSE Head(inv[o])
\* next_inv
NextInv(o) ==
  IF env[o] = Null \/ Place(o) = Len(inv[env[o]]) THEN Null ELSE inv[env[o]][Place(o) + 1]

MoveLeaves ==
  /\ At("room") \/ At("item") \/ At("other")
  /\ Gone
  /\ Returns
  /\ UNCHANGED <<World, restrict>>

MoveLooks ==
  /\ At("room") /\ ~Gone
  /\ Goes([Top EXCEPT !.at = "visit", !.here = First(Top.other)])
  /\ UNCHANGED <<World, restrict>>

\* What the loop reached may have left meanwhile, or be the item itself.
MoveVisits ==
  /\ At("visit") /\ Top.here # Null
  /\ LET here == Top.here
         meets == [Top EXCEPT !.at = "item", !.next = NextInv(here)]
     IN IF here = Top.ob THEN Goes([Top EXCEPT !.here = NextInv(here)]) /\ UNCHANGED restrict
        ELSE IF env[here] # Top.other THEN Error
        ELSE IF here \in Living THEN Apply(meets, "init", Top.ob, restrict)
        ELSE Goes(meets) /\ UNCHANGED restrict
  /\ UNCHANGED World

MoveMeets ==
  /\ At("item") /\ ~Gone
  /\ LET on == [Top EXCEPT !.at = "visit", !.here = Top.next, !.next = Null] IN
     IF Top.here \in destructed THEN Error
     ELSE IF Top.ob \in Living THEN Apply([Top EXCEPT !.at = "other"], "init", Top.here, restrict)
     ELSE Goes(on) /\ UNCHANGED restrict
  /\ UNCHANGED World

MoveGoesOn ==
  /\ At("other") /\ ~Gone
  /\ Goes([Top EXCEPT !.at = "visit", !.here = Top.next, !.next = Null])
  /\ UNCHANGED <<World, restrict>>

\* The last one to meet is the destination, if it takes commands.
MoveEnds ==
  /\ At("visit") /\ Top.here = Null
  /\ LET met == [Top EXCEPT !.at = "met"] IN
     IF {Top.ob, Top.other} \cap destructed # {} THEN Error
     ELSE IF Top.other \in Living THEN Apply(met, "init", Top.ob, restrict)
     ELSE Goes(met) /\ UNCHANGED restrict
  /\ UNCHANGED World

MoveReturns ==
  /\ At("met")
  /\ Returns
  /\ UNCHANGED <<World, restrict>>

-----------------------------------------------------------------------------
LpcStep ==
  \/ LpcReturns \/ LpcError
  \/ \E o \in Objects : Command(o) \/ LpcDestructs(o)
  \/ \E o, p \in Objects : LpcMoves(o, p) \/ LpcMovesBadly(o, p)

DestructStep ==
  \/ DestructRefused \/ DestructNotifies \/ DestructNotified
  \/ DestructAsks \/ DestructAsked \/ DestructFinishes

MoveStep ==
  \/ MoveEnters \/ MoveLeaves \/ MoveLooks \/ MoveVisits
  \/ MoveMeets \/ MoveGoesOn \/ MoveEnds \/ MoveReturns

Next == LpcStep \/ DestructStep \/ MoveStep

Spec == Init /\ [][Next]_vars

-----------------------------------------------------------------------------
(* Properties *)

Contents(o) == ToSet(inv[o])

\* The lists on their own: super and the inventories agree, nothing is twice in a
\* list, and what was destructed is in nothing and holds nothing.
ListsAgree ==
  /\ \A o, p \in Objects : o \in Contents(p) <=> env[o] = p
  /\ \A p \in Objects : IsInjective(inv[p])
  /\ \A o \in destructed : env[o] = Null /\ inv[o] = <<>>

\* Nothing is inside itself, however deep.
NoCircles == \A o \in Objects : env[o] # Null => o \notin Around(env[o])

\* Whatever hooks do and however errors unwind them, super and the inventory
\* lists agree, and the walks along super come to an end.
InventoriesAgree == ListsAgree /\ NoCircles

Asked == {i \in 1 .. Len(stack) : stack[i].at = "asked"}

\* What restrict_destruct holds is the object that the innermost unfinished
\* move_or_destruct() was called in, through nested destructions, moves and
\* errors; without such a call nothing restricts.
RestrictIsInnermost ==
  restrict # Null =>
    /\ Asked # {}
    /\ \A i \in Asked : (\A j \in Asked : i <= j) => restrict = stack[i].other

\* The restriction that destruct_object() tests at its beginning still allows the
\* object when it is taken out, whatever its hooks and its contents did to it.
RestrictionKept == [][\A o \in destructed' \ destructed : Allowed(o)]_vars

\* simulate.cc:807 of an object that is removed: "It is first moved into the
\* destruct list, and not really destructed until later."
DestructedOnce == \A o \in Objects : finished[o] <= 1
=============================================================================
