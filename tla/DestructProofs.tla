-------------------------- MODULE DestructProofs --------------------------
(***************************************************************************)
(* Proofs about Destruct: the types, the agreement of environments and     *)
(* inventories, and the restriction on destruct(), for any objects and any *)
(* depth of the control stack.                                             *)
(***************************************************************************)
EXTENDS Destruct, SequenceTheorems, TLAPS

-----------------------------------------------------------------------------
(* The inductive invariant, over a restriction r and a stack s             *)

Past == {"notified", "contents", "asked"}

\* The calls name objects where they use them; an object is asked only where the
\* control stack had room for the question; destruct_object() begins on top.
CallsOK(s) ==
  /\ s \in Seq(Calls) /\ Len(s) <= MaxDepth
  /\ \A i \in 1 .. Len(s) :
       /\ s[i].at \in Moves \cup {"asked"} => s[i].other \in Objects
       /\ s[i].at = "item" => s[i].here \in Objects
       /\ s[i].at = "asked" => Len(s) - i + 1 < MaxDepth
       /\ s[i].at = "begin" => i = 1

NoneAsked(s, i, j) == \A k \in i .. j : s[k].at # "asked"

\* r is the restriction of the innermost question from call i on, or none.
Governs(r, s, i) ==
  r = Null \/ \E k \in i .. Len(s) :
    s[k].at = "asked" /\ s[k].other = r /\ NoneAsked(s, i, k - 1)

\* r allows what the destructions above that question are about.
Allows(r, s, i) ==
  \A k \in i .. Len(s) : s[k].at \in Past /\ NoneAsked(s, i, k) => r \in {Null, s[k].ob}

\* The restriction that call i puts back is right for what is below it.
Saved(s, i) ==
  s[i].at \in Destroys =>
    /\ Governs(s[i].save, s, i + 1) /\ Allows(s[i].save, s, i + 1)
    /\ s[i].at \in Past => s[i].save \in {Null, s[i].ob}

RestrictInv(r, s) ==
  /\ r \in Pointers
  /\ Governs(r, s, 1) /\ Allows(r, s, 1)
  /\ \A i \in 1 .. Len(s) : Saved(s, i) /\ (s[i].at = "begin" => s[i].save = r)

StackInv(r, s) == CallsOK(s) /\ RestrictInv(r, s)

\* The objects are where their environments say.
WorldInv ==
  /\ env \in [Objects -> Pointers] /\ inv \in [Objects -> Seq(Objects)]
  /\ destructed \subseteq Objects /\ finished \in [Objects -> 0 .. 2]
  /\ ListsAgree

DestructInv == WorldInv /\ NoCircles /\ StackInv(restrict, stack)

-----------------------------------------------------------------------------
(* Stacks that agree from some call on                                     *)

\* What is below a call does not depend on what is above it.
LEMMA BelowIsBelow ==
  ASSUME NEW s \in Seq(Calls), NEW t \in Seq(Calls), NEW d \in Int, NEW i \in Nat \ {0},
         Len(s) = Len(t) + d, i + d \in Nat \ {0},
         \A k \in i .. Len(t) : t[k] = s[k + d]
  PROVE  /\ \A r : Governs(r, s, i + d) => Governs(r, t, i)
         /\ \A r : Allows(r, s, i + d) => Allows(r, t, i)
<1>0. Len(s) \in Nat /\ Len(t) \in Nat
  OBVIOUS
<1>1. ASSUME NEW r, Governs(r, s, i + d) PROVE Governs(r, t, i)
  <2>1. CASE r = Null
    BY <2>1 DEF Governs
  <2>2. CASE r # Null
    <3>1. PICK k \in (i + d) .. Len(s) :
            s[k].at = "asked" /\ s[k].other = r /\ NoneAsked(s, i + d, k - 1)
      BY <1>1, <2>2 DEF Governs
    <3>2. k - d \in i .. Len(t) /\ t[k - d] = s[k]
      BY <1>0, <3>1
    <3>3. ASSUME NEW m \in i .. (k - d - 1) PROVE t[m].at # "asked"
      <4>1. m + d \in (i + d) .. (k - 1) /\ t[m] = s[m + d]
        BY <1>0, <3>1, <3>2
      <4> QED BY <3>1, <4>1 DEF NoneAsked
    <3> QED BY <3>1, <3>2, <3>3 DEF Governs, NoneAsked
  <2> QED BY <2>1, <2>2
<1>2. ASSUME NEW r, Allows(r, s, i + d) PROVE Allows(r, t, i)
  <2> SUFFICES ASSUME NEW k \in i .. Len(t), t[k].at \in Past, NoneAsked(t, i, k)
               PROVE  r \in {Null, t[k].ob}
    BY DEF Allows
  <2>1. k + d \in (i + d) .. Len(s) /\ t[k] = s[k + d]
    BY <1>0
  <2>2. ASSUME NEW m \in (i + d) .. (k + d) PROVE s[m].at # "asked"
    <3>1. m - d \in i .. k /\ m - d \in i .. Len(t) /\ (m - d) + d = m
      BY <1>0
    <3>2. t[m - d] = s[m]
      BY <3>1
    <3> QED BY <3>1, <3>2 DEF NoneAsked
  <2> QED BY <1>2, <2>1, <2>2 DEF Allows, NoneAsked
<1> QED BY <1>1, <1>2

LEMMA SavedIsSaved ==
  ASSUME NEW s \in Seq(Calls), NEW t \in Seq(Calls), NEW d \in Int, NEW i \in 1 .. Len(t),
         Len(s) = Len(t) + d, i + d \in 1 .. Len(s), Saved(s, i + d),
         \A k \in i .. Len(t) : t[k] = s[k + d]
  PROVE  Saved(t, i)
<1>0. Len(s) \in Nat /\ Len(t) \in Nat
  OBVIOUS
<1>1. t[i] = s[i + d]
  BY <1>0
<1>2. /\ \A r : Governs(r, s, i + 1 + d) => Governs(r, t, i + 1)
      /\ \A r : Allows(r, s, i + 1 + d) => Allows(r, t, i + 1)
  <2>1. \A k \in (i + 1) .. Len(t) : t[k] = s[k + d]
    BY <1>0
  <2>2. i + 1 \in Nat \ {0} /\ i + 1 + d \in Nat \ {0}
    BY <1>0
  <2> QED BY <2>1, <2>2, BelowIsBelow
<1>3. i + d + 1 = i + 1 + d
  BY <1>0
<1> QED BY <1>1, <1>2, <1>3 DEF Saved

\* A call that asks nothing changes nothing for what is above it.
LEMMA OneMore ==
  ASSUME NEW s \in Seq(Calls), NEW i \in 1 .. Len(s), s[i].at # "asked", NEW r
  PROVE  /\ Governs(r, s, i) <=> Governs(r, s, i + 1)
         /\ Allows(r, s, i) => Allows(r, s, i + 1)
         /\ Allows(r, s, i + 1) /\ (s[i].at \in Past => r \in {Null, s[i].ob}) => Allows(r, s, i)
<1>0. Len(s) \in Nat
  OBVIOUS
<1>1. \A k \in Int : NoneAsked(s, i, k) <=> NoneAsked(s, i + 1, k)
  BY <1>0 DEF NoneAsked
<1>2. Governs(r, s, i) <=> Governs(r, s, i + 1)
  <2>1. \A k \in i .. Len(s) : s[k].at = "asked" => k \in (i + 1) .. Len(s)
    BY <1>0
  <2>2. \A k \in (i + 1) .. Len(s) : k \in i .. Len(s)
    BY <1>0
  <2>3. \A k \in i .. Len(s) : NoneAsked(s, i, k - 1) <=> NoneAsked(s, i + 1, k - 1)
    BY <1>0, <1>1
  <2> QED BY <2>1, <2>2, <2>3 DEF Governs
<1>3. \A k \in i .. Len(s) : k = i \/ k \in (i + 1) .. Len(s)
  BY <1>0
<1>4. \A k \in (i + 1) .. Len(s) : k \in i .. Len(s) /\ k \in Int
  BY <1>0
<1> QED BY <1>1, <1>2, <1>3, <1>4 DEF Allows

-----------------------------------------------------------------------------
(* What the steps do with a stack that satisfies the invariant             *)

LEMMA SuffixKeeps ==
  ASSUME NEW r, NEW s, StackInv(r, s), NEW k \in 1 .. Len(s) + 1,
         k = 1 => s # <<>> /\ s[1].at # "begin"
  PROVE  StackInv(Null, SubSeq(s, k, Len(s)))
<1> DEFINE t == SubSeq(s, k, Len(s))
           d == k - 1
<1>0. s \in Seq(Calls) /\ Len(s) \in Nat /\ Len(s) <= MaxDepth /\ MaxDepth \in Nat
  BY DestructAssumption DEF StackInv, CallsOK
<1>1. t \in Seq(Calls) /\ Len(t) = Len(s) - d /\ \A i \in 1 .. Len(t) : t[i] = s[i + d]
  BY <1>0
<1>2. ASSUME NEW i \in 1 .. Len(t) PROVE i + d \in 1 .. Len(s) /\ t[i] = s[i + d]
  BY <1>0, <1>1
<1> HIDE DEF t
<1>3. ASSUME NEW i \in 1 .. Len(t) PROVE t[i].at # "begin"
  <2>1. i + d = 1 => k = 1 /\ i = 1
    BY <1>0, <1>1
  <2>2. s[i + d].at = "begin" => i + d = 1
    BY <1>2 DEF StackInv, CallsOK
  <2> QED BY <1>2, <2>1, <2>2
<1>4. CallsOK(t)
  <2>1. Len(t) <= MaxDepth
    BY <1>0, <1>1
  <2>2. ASSUME NEW i \in 1 .. Len(t)
        PROVE  /\ t[i].at \in Moves \cup {"asked"} => t[i].other \in Objects
               /\ t[i].at = "item" => t[i].here \in Objects
               /\ t[i].at = "asked" => Len(s) - (i + d) + 1 < MaxDepth
    BY <1>2 DEF StackInv, CallsOK
  <2>3. \A i \in 1 .. Len(t) : Len(s) - (i + d) + 1 = Len(t) - i + 1
    BY <1>0, <1>1
  <2> QED BY <1>1, <1>3, <2>1, <2>2, <2>3 DEF CallsOK
<1>5. ASSUME NEW i \in 1 .. Len(t) PROVE Saved(t, i)
  <2>1. Saved(s, i + d)
    BY <1>2 DEF StackInv, RestrictInv
  <2>2. \A j \in i .. Len(t) : t[j] = s[j + d]
    BY <1>1
  <2>3. d \in Int /\ Len(s) = Len(t) + d
    BY <1>0, <1>1
  <2> HIDE DEF d
  <2> QED BY <1>0, <1>1, <1>2, <2>1, <2>2, <2>3, SavedIsSaved
<1>6. Governs(Null, t, 1) /\ Allows(Null, t, 1)
  BY DEF Governs, Allows
<1>7. RestrictInv(Null, t)
  BY <1>3, <1>5, <1>6 DEF RestrictInv, Pointers
<1> QED BY <1>4, <1>7 DEF StackInv, t

LEMMA PopKeeps ==
  ASSUME NEW r, NEW s, StackInv(r, s), s # <<>>, s[1].at # "asked"
  PROVE  StackInv(r, Tail(s))
<1> DEFINE t == Tail(s)
<1>0. s \in Seq(Calls) /\ Len(s) \in Nat \ {0} /\ Len(s) <= MaxDepth /\ MaxDepth \in Nat
  BY DestructAssumption DEF StackInv, CallsOK
<1>1. t \in Seq(Calls) /\ Len(t) = Len(s) - 1 /\ \A i \in 1 .. Len(t) : t[i] = s[i + 1]
  BY <1>0
<1>2. ASSUME NEW i \in 1 .. Len(t) PROVE i + 1 \in 1 .. Len(s) /\ t[i] = s[i + 1]
  BY <1>0, <1>1
<1> HIDE DEF t
<1>3. ASSUME NEW i \in 1 .. Len(t) PROVE t[i].at # "begin"
  BY <1>2 DEF StackInv, CallsOK
<1>4. CallsOK(t)
  <2>1. ASSUME NEW i \in 1 .. Len(t)
        PROVE  /\ t[i].at \in Moves \cup {"asked"} => t[i].other \in Objects
               /\ t[i].at = "item" => t[i].here \in Objects
               /\ t[i].at = "asked" => Len(s) - (i + 1) + 1 < MaxDepth
    BY <1>2 DEF StackInv, CallsOK
  <2>2. \A i \in 1 .. Len(t) : Len(s) - (i + 1) + 1 = Len(t) - i + 1
    BY <1>0, <1>1
  <2>3. Len(t) <= MaxDepth
    BY <1>0, <1>1
  <2> QED BY <1>1, <1>3, <2>1, <2>2, <2>3 DEF CallsOK
<1>5. ASSUME NEW i \in 1 .. Len(t) PROVE Saved(t, i)
  <2>1. Saved(s, i + 1)
    BY <1>2 DEF StackInv, RestrictInv
  <2>2. \A j \in i .. Len(t) : t[j] = s[j + 1]
    BY <1>1
  <2>3. 1 \in Int /\ Len(s) = Len(t) + 1 /\ i + 1 \in 1 .. Len(s)
    BY <1>0, <1>1, <1>2
  <2>4. s \in Seq(Calls) /\ t \in Seq(Calls)
    BY <1>0, <1>1
  <2> QED BY <2>1, <2>2, <2>3, <2>4, SavedIsSaved
<1>6. Governs(r, s, 2) /\ Allows(r, s, 2)
  <2>1. Governs(r, s, 1) /\ Allows(r, s, 1)
    BY DEF StackInv, RestrictInv
  <2> QED BY <1>0, <2>1, OneMore
<1>7. Governs(r, t, 1) /\ Allows(r, t, 1)
  <2>0. PICK d \in Int : d = 1
    OBVIOUS
  <2>1. Len(s) = Len(t) + d /\ 1 + d = 2 /\ 1 \in Nat \ {0}
    BY <1>0, <1>1, <2>0
  <2>2. \A i \in 1 .. Len(t) : t[i] = s[i + d]
    BY <1>0, <1>1, <2>0
  <2>3. s \in Seq(Calls) /\ t \in Seq(Calls) /\ 1 + d \in Nat \ {0}
    BY <1>0, <1>1, <2>1
  <2>4. /\ Governs(r, s, 1 + d) => Governs(r, t, 1)
        /\ Allows(r, s, 1 + d) => Allows(r, t, 1)
    BY <2>1, <2>2, <2>3, BelowIsBelow
  <2> QED BY <1>6, <2>1, <2>4
<1>8. RestrictInv(r, t)
  BY <1>3, <1>5, <1>7 DEF RestrictInv, StackInv
<1> QED BY <1>4, <1>8 DEF StackInv, t

\* What is known of the call on top and of what is below it.
LEMMA TopGives ==
  ASSUME NEW r, NEW s, StackInv(r, s), s # <<>>
  PROVE  /\ s \in Seq(Calls) /\ Len(s) \in Nat \ {0} /\ 1 \in 1 .. Len(s)
         /\ Head(s) = s[1] /\ s[1] \in Calls
         /\ s[1].at \in Moves \cup {"asked"} => s[1].other \in Objects
         /\ s[1].at = "item" => s[1].here \in Objects
         /\ s[1].at # "asked" => Governs(r, s, 2) /\ Allows(r, s, 2)
         /\ s[1].at \in Destroys => Governs(s[1].save, s, 2) /\ Allows(s[1].save, s, 2)
         /\ s[1].at \in Past => s[1].save \in {Null, s[1].ob}
         /\ s[1].at \in Past \ {"asked"} => r \in {Null, s[1].ob}
         /\ s[1].at = "begin" => s[1].save = r
<1>0. s \in Seq(Calls) /\ Len(s) \in Nat \ {0}
  BY DEF StackInv, CallsOK
<1>1. 1 \in 1 .. Len(s) /\ Head(s) = s[1] /\ s[1] \in Calls /\ 1 + 1 = 2
  BY <1>0
<1>2. Governs(r, s, 1) /\ Allows(r, s, 1) /\ Saved(s, 1) /\ (s[1].at = "begin" => s[1].save = r)
  BY <1>1 DEF StackInv, RestrictInv
<1>3. s[1].at # "asked" => Governs(r, s, 2) /\ Allows(r, s, 2)
  BY <1>0, <1>1, <1>2, OneMore
<1>4. s[1].at \in Past \ {"asked"} => r \in {Null, s[1].ob}
  <2> SUFFICES ASSUME s[1].at \in Past \ {"asked"} PROVE r \in {Null, s[1].ob}
    OBVIOUS
  <2>1. NoneAsked(s, 1, 1)
    BY DEF NoneAsked
  <2> QED BY <1>1, <1>2, <2>1 DEF Allows
<1>5. s[1].at \in Past => s[1].at \in Destroys
  BY DEF Past, Destroys
<1> QED BY <1>0, <1>1, <1>2, <1>3, <1>4, <1>5 DEF Saved, StackInv, CallsOK

\* The call on top goes on as f, under restriction r.
LEMMA TopGoesOn ==
  ASSUME NEW q, NEW s, StackInv(q, s), s # <<>>, NEW r \in Pointers,
         NEW f \in Calls, f.at # "begin",
         f.at \in Moves \cup {"asked"} => f.other \in Objects,
         f.at = "item" => f.here \in Objects,
         f.at = "asked" => Len(s) < MaxDepth /\ r = f.other,
         f.at # "asked" =>
           Governs(r, s, 2) /\ Allows(r, s, 2) /\ (f.at \in Past => r \in {Null, f.ob}),
         f.at \in Destroys =>
           Governs(f.save, s, 2) /\ Allows(f.save, s, 2) /\ f.save \in {Null, f.ob}
  PROVE  StackInv(r, <<f>> \o Tail(s))
<1> DEFINE t == <<f>> \o Tail(s)
<1>0. s \in Seq(Calls) /\ Len(s) \in Nat \ {0} /\ Len(s) <= MaxDepth /\ MaxDepth \in Nat
  BY DestructAssumption DEF StackInv, CallsOK
<1>1. t \in Seq(Calls) /\ Len(t) = Len(s) /\ t[1] = f /\ \A i \in 2 .. Len(t) : t[i] = s[i]
  BY <1>0
<1> HIDE DEF t
<1>2. \A i \in 1 .. Len(t) : i \in 1 .. Len(s) /\ (i = 1 \/ i \in 2 .. Len(t))
  BY <1>0, <1>1
<1>3. ASSUME NEW i \in 1 .. Len(t) PROVE t[i].at # "begin"
  <2>1. i \in 2 .. Len(t) => i # 1
    BY <1>0, <1>1
  <2> QED BY <1>1, <1>2, <2>1 DEF StackInv, CallsOK
<1>4. CallsOK(t)
  <2>1. \A i \in 1 .. Len(t) : /\ t[i].at \in Moves \cup {"asked"} => t[i].other \in Objects
                               /\ t[i].at = "item" => t[i].here \in Objects
    BY <1>1, <1>2 DEF StackInv, CallsOK
  <2>2. \A i \in 2 .. Len(t) : t[i].at = "asked" => Len(t) - i + 1 < MaxDepth
    BY <1>1, <1>2 DEF StackInv, CallsOK
  <2>3. t[1].at = "asked" => Len(t) - 1 + 1 < MaxDepth
    BY <1>0, <1>1
  <2> QED BY <1>0, <1>1, <1>2, <1>3, <2>1, <2>2, <2>3 DEF CallsOK
<1>5. /\ \A p : Governs(p, s, 2) => Governs(p, t, 2)
      /\ \A p : Allows(p, s, 2) => Allows(p, t, 2)
  <2>0. PICK d \in Int : d = 0
    OBVIOUS
  <2>1. Len(s) = Len(t) + d /\ 2 + d = 2 /\ 2 \in Nat \ {0}
    BY <1>0, <1>1, <2>0
  <2>2. \A i \in 2 .. Len(t) : t[i] = s[i + d]
    BY <1>0, <1>1, <2>0
  <2>3. s \in Seq(Calls) /\ t \in Seq(Calls) /\ 2 + d \in Nat \ {0}
    BY <1>0, <1>1, <2>1
  <2>4. /\ \A p : Governs(p, s, 2 + d) => Governs(p, t, 2)
        /\ \A p : Allows(p, s, 2 + d) => Allows(p, t, 2)
    BY <2>1, <2>2, <2>3, BelowIsBelow
  <2> QED BY <2>1, <2>4
<1>6. 1 \in 1 .. Len(t) /\ 1 + 1 = 2
  BY <1>0, <1>1
<1>7. Saved(t, 1)
  BY <1>1, <1>5, <1>6 DEF Saved
<1>8. ASSUME NEW i \in 2 .. Len(t) PROVE Saved(t, i)
  <2>0. PICK d \in Int : d = 0
    OBVIOUS
  <2>1. Saved(s, i + d) /\ i + d \in 1 .. Len(s) /\ i \in 1 .. Len(t)
    BY <1>0, <1>1, <2>0 DEF StackInv, RestrictInv
  <2>2. \A j \in i .. Len(t) : t[j] = s[j + d]
    BY <1>0, <1>1, <2>0
  <2>3. Len(s) = Len(t) + d
    BY <1>0, <1>1, <2>0
  <2>4. s \in Seq(Calls) /\ t \in Seq(Calls)
    BY <1>0, <1>1
  <2> QED BY <2>1, <2>2, <2>3, <2>4, SavedIsSaved
<1>9. Governs(r, t, 1) /\ Allows(r, t, 1)
  <2>1. CASE f.at = "asked"
    <3>1. NoneAsked(t, 1, 1 - 1)
      BY DEF NoneAsked
    <3>2. \A i \in 1 .. Len(t) : ~NoneAsked(t, 1, i)
      BY <1>1, <2>1 DEF NoneAsked
    <3> QED BY <1>1, <1>6, <2>1, <3>1, <3>2 DEF Governs, Allows
  <2>2. CASE f.at # "asked"
    BY <1>1, <1>5, <1>6, <2>2, OneMore
  <2> QED BY <2>1, <2>2
<1>10. RestrictInv(r, t)
  BY <1>2, <1>3, <1>7, <1>8, <1>9 DEF RestrictInv
<1> QED BY <1>4, <1>10 DEF StackInv, t

\* A new call f on top, under the same restriction.
LEMMA PushKeeps ==
  ASSUME NEW r, NEW s, StackInv(r, s), s = <<>> \/ s[1].at # "begin",
         Len(s) < MaxDepth, NEW f \in Calls, f.at \in Hooks \cup {"begin", "enter"},
         f.at = "enter" => f.other \in Objects, f.at = "begin" => f.save = r
  PROVE  StackInv(r, <<f>> \o s)
<1> DEFINE t == <<f>> \o s
<1>0. s \in Seq(Calls) /\ Len(s) \in Nat /\ Len(s) <= MaxDepth /\ MaxDepth \in Nat
  BY DestructAssumption DEF StackInv, CallsOK
<1>1. /\ t \in Seq(Calls) /\ Len(t) = Len(s) + 1 /\ t[1] = f
      /\ \A i \in 2 .. Len(t) : i - 1 \in 1 .. Len(s) /\ t[i] = s[i - 1]
  BY <1>0
<1> HIDE DEF t
<1>2. \A i \in 1 .. Len(t) : i = 1 \/ i \in 2 .. Len(t)
  BY <1>0, <1>1
<1>3. ASSUME NEW i \in 2 .. Len(t) PROVE t[i].at # "begin"
  <2>1. s[i - 1].at = "begin" => i - 1 = 1 /\ s # <<>>
    BY <1>0, <1>1 DEF StackInv, CallsOK
  <2> QED BY <1>1, <2>1
<1>4. f.at \notin Past /\ f.at # "asked" /\ f.at # "item"
      /\ (f.at \in Moves => f.at = "enter") /\ (f.at \in Destroys => f.at = "begin")
  BY DEF Past, Hooks, Moves, Destroys
<1>5. CallsOK(t)
  <2>1. \A i \in 2 .. Len(t) :
          /\ t[i].at \in Moves \cup {"asked"} => t[i].other \in Objects
          /\ t[i].at = "item" => t[i].here \in Objects
          /\ t[i].at = "asked" => Len(s) - (i - 1) + 1 < MaxDepth
    BY <1>1 DEF StackInv, CallsOK
  <2>2. \A i \in 2 .. Len(t) : Len(s) - (i - 1) + 1 = Len(t) - i + 1
    BY <1>0, <1>1
  <2>3. Len(t) <= MaxDepth
    BY <1>0, <1>1
  <2> QED BY <1>1, <1>2, <1>3, <1>4, <2>1, <2>2, <2>3 DEF CallsOK
<1>6. Governs(r, t, 2) /\ Allows(r, t, 2)
  <2>0. PICK d \in Int : d = -1
    OBVIOUS
  <2>1. Len(s) = Len(t) + d /\ 2 + d = 1 /\ 2 \in Nat \ {0}
    BY <1>0, <1>1, <2>0
  <2>2. \A i \in 2 .. Len(t) : t[i] = s[i + d]
    BY <1>0, <1>1, <2>0
  <2>3. s \in Seq(Calls) /\ t \in Seq(Calls) /\ 2 + d \in Nat \ {0}
    BY <1>0, <1>1, <2>1
  <2>4. /\ \A p : Governs(p, s, 2 + d) => Governs(p, t, 2)
        /\ \A p : Allows(p, s, 2 + d) => Allows(p, t, 2)
    BY <2>1, <2>2, <2>3, BelowIsBelow
  <2>5. Governs(r, s, 1) /\ Allows(r, s, 1)
    BY DEF StackInv, RestrictInv
  <2> QED BY <2>1, <2>4, <2>5
<1>7. 1 \in 1 .. Len(t) /\ 1 + 1 = 2
  BY <1>0, <1>1
<1>8. Saved(t, 1)
  BY <1>1, <1>4, <1>6, <1>7 DEF Saved
<1>9. ASSUME NEW i \in 2 .. Len(t) PROVE Saved(t, i)
  <2>0. PICK d \in Int : d = -1
    OBVIOUS
  <2>1. Saved(s, i + d) /\ i + d \in 1 .. Len(s) /\ i \in 1 .. Len(t)
    BY <1>0, <1>1, <2>0 DEF StackInv, RestrictInv
  <2>2. \A j \in i .. Len(t) : t[j] = s[j + d]
    BY <1>0, <1>1, <2>0
  <2>3. Len(s) = Len(t) + d
    BY <1>0, <1>1, <2>0
  <2>4. s \in Seq(Calls) /\ t \in Seq(Calls)
    BY <1>0, <1>1
  <2> QED BY <2>1, <2>2, <2>3, <2>4, SavedIsSaved
<1>10. Governs(r, t, 1) /\ Allows(r, t, 1)
  BY <1>1, <1>4, <1>6, <1>7, OneMore
<1>11. RestrictInv(r, t)
  BY <1>1, <1>2, <1>3, <1>8, <1>9, <1>10 DEF RestrictInv, StackInv
<1> QED BY <1>5, <1>11 DEF StackInv, t

LEMMA ErrorKeeps ==
  ASSUME StackInv(restrict, stack), Error
  PROVE  StackInv(restrict', stack')
<1>1. PICK i \in 1 .. Len(stack) :
        \/ stack[i].at \in Hooks /\ stack' = SubSeq(stack, i, Len(stack))
        \/ Safe(stack[i]) /\ stack' = SubSeq(stack, i + 1, Len(stack))
  BY DEF Error
<1>2. stack \in Seq(Calls) /\ Len(stack) \in Nat /\ stack # <<>>
  BY <1>1 DEF StackInv, CallsOK
<1>3. restrict' = Null
  BY DEF Error
<1>4. CASE stack[i].at \in Hooks /\ stack' = SubSeq(stack, i, Len(stack))
  <2>1. i \in 1 .. Len(stack) + 1 /\ (i = 1 => stack[1].at # "begin")
    BY <1>2, <1>4 DEF Hooks
  <2> QED BY <1>2, <1>3, <1>4, <2>1, SuffixKeeps
<1>5. CASE Safe(stack[i]) /\ stack' = SubSeq(stack, i + 1, Len(stack))
  <2>1. i + 1 \in 1 .. Len(stack) + 1 /\ i + 1 # 1
    BY <1>2
  <2> QED BY <1>3, <1>5, <2>1, SuffixKeeps
<1> QED BY <1>1, <1>4, <1>5

\* A hook is called, or there is no room for it.
LEMMA ApplyKeeps ==
  ASSUME StackInv(restrict, stack), stack # <<>>, NEW top \in Calls, NEW hook \in Hooks,
         NEW o \in Objects, NEW r, Apply(top, hook, o, r), top.at # "begin",
         Len(stack) < MaxDepth => StackInv(r, <<top>> \o Tail(stack))
  PROVE  StackInv(restrict', stack')
<1> DEFINE s == <<top>> \o Tail(stack)
<1>0. stack \in Seq(Calls) /\ Len(stack) \in Nat /\ Len(stack) > 0
  BY DEF StackInv, CallsOK
<1>1. s \in Seq(Calls) /\ Len(s) = Len(stack) /\ s[1] = top
  BY <1>0
<1>2. CASE Room /\ restrict' = r /\ stack' = <<Call(hook, o), top>> \o Tail(stack)
  <2>1. stack' = <<Call(hook, o)>> \o s
    BY <1>0, <1>2
  <2>2. Call(hook, o) \in Calls /\ Call(hook, o).at = hook /\ hook \notin {"begin", "enter"}
    BY DEF Call, Calls, Hooks, Pointers
  <2>3. Len(stack) < MaxDepth /\ StackInv(r, s)
    BY <1>2 DEF Room
  <2> HIDE DEF s
  <2> QED BY <1>1, <1>2, <2>1, <2>2, <2>3, PushKeeps
<1>3. CASE ~Room /\ Error
  BY <1>3, ErrorKeeps
<1> QED BY <1>2, <1>3 DEF Apply

-----------------------------------------------------------------------------
(* Environments and inventories                                            *)

LEMMA RemoveAtRemoves ==
  ASSUME NEW s \in Seq(Objects), IsInjective(s), NEW i \in 1 .. Len(s)
  PROVE  /\ RemoveAt(s, i) \in Seq(Objects) /\ IsInjective(RemoveAt(s, i))
         /\ \A x : x \in ToSet(RemoveAt(s, i)) <=> x \in ToSet(s) /\ x # s[i]
<1> DEFINE t == RemoveAt(s, i)
<1>0. Len(s) \in Nat /\ DOMAIN s = 1 .. Len(s)
  OBVIOUS
<1>1. /\ t \in Seq(Objects) /\ Len(t) = Len(s) - 1
      /\ \A k \in 1 .. Len(t) : t[k] = IF k < i THEN s[k] ELSE s[k + 1]
  <2> DEFINE a == SubSeq(s, 1, i - 1)
             b == SubSeq(s, i + 1, Len(s))
  <2>1. a \in Seq(Objects) /\ Len(a) = i - 1 /\ \A k \in 1 .. i - 1 : a[k] = s[k]
    BY <1>0
  <2>2. b \in Seq(Objects) /\ Len(b) = Len(s) - i /\ \A k \in 1 .. Len(s) - i : b[k] = s[k + i]
    <3>1. i + 1 \in Int /\ Len(s) \in Int /\ \A k \in i + 1 .. Len(s) : s[k] \in Objects
      BY <1>0
    <3>2. /\ b \in Seq(Objects)
          /\ Len(b) = IF i + 1 <= Len(s) THEN Len(s) - (i + 1) + 1 ELSE 0
          /\ \A k \in 1 .. Len(s) - (i + 1) + 1 : b[k] = s[(i + 1) + k - 1]
      BY <3>1, SubSeqProperties
    <3> HIDE DEF b
    <3>3. Len(s) - (i + 1) + 1 = Len(s) - i /\ \A k \in Int : (i + 1) + k - 1 = k + i
      BY <1>0
    <3>4. Len(b) = Len(s) - i
      <4>0. i \in Int /\ i <= Len(s) /\ Len(s) \in Int
        BY <1>0
      <4>1. CASE i + 1 <= Len(s)
        BY <3>2, <3>3, <4>1
      <4>2. CASE ~(i + 1 <= Len(s))
        <5>1. Len(b) = 0
          BY <3>2, <4>2
        <5>2. Len(s) - i = 0
          BY <4>0, <4>2
        <5> QED BY <5>1, <5>2
      <4> QED BY <4>1, <4>2
    <3>5. \A k \in 1 .. Len(s) - i : k \in Int
      OBVIOUS
    <3> QED BY <3>2, <3>3, <3>4, <3>5
  <2>3. t = a \o b
    BY DEF RemoveAt
  <2> HIDE DEF a, b, t
  <2>4. t \in Seq(Objects) /\ Len(t) = Len(s) - 1
    <3>1. t \in Seq(Objects) /\ Len(t) = Len(a) + Len(b)
      BY <2>1, <2>2, <2>3, ConcatProperties
    <3> QED BY <1>0, <2>1, <2>2, <3>1
  <2>5. ASSUME NEW k \in 1 .. Len(t), k < i PROVE t[k] = s[k]
    <3>1. k \in 1 .. i - 1 /\ k \in 1 .. Len(a) /\ k \in 1 .. Len(a) + Len(b)
      BY <1>0, <2>1, <2>2, <2>4, <2>5
    <3> QED BY <2>1, <2>2, <2>3, <3>1
  <2>6. ASSUME NEW k \in 1 .. Len(t), ~(k < i) PROVE t[k] = s[k + 1]
    <3>1. /\ k - Len(a) \in 1 .. Len(s) - i /\ (k - Len(a)) + i = k + 1
          /\ k > Len(a) /\ k \in 1 .. Len(a) + Len(b)
      BY <1>0, <2>1, <2>2, <2>4, <2>6
    <3>2. t[k] = b[k - Len(a)]
      BY <2>1, <2>2, <2>3, <3>1
    <3> QED BY <2>2, <3>1, <3>2
  <2> QED BY <2>4, <2>5, <2>6
<1> HIDE DEF t
<1>2. DOMAIN t = 1 .. Len(t) /\ Len(t) \in Nat
  BY <1>1
<1>3. ASSUME NEW j \in DOMAIN t, NEW k \in DOMAIN t, t[j] = t[k] PROVE j = k
  <2>1. \A m \in 1 .. Len(t) : m \in DOMAIN s /\ m + 1 \in DOMAIN s
    BY <1>0, <1>1
  <2> DEFINE at(m) == IF m < i THEN m ELSE m + 1
  <2>2. t[j] = s[at(j)] /\ t[k] = s[at(k)] /\ at(j) \in DOMAIN s /\ at(k) \in DOMAIN s
    BY <1>1, <1>2, <2>1
  <2>3. at(j) = at(k)
    BY <1>3, <2>2 DEF IsInjective
  <2> QED BY <1>2, <2>3
<1>4. ASSUME NEW x, x \in ToSet(t) PROVE x \in ToSet(s) /\ x # s[i]
  <2>1. PICK k \in 1 .. Len(t) : t[k] = x
    BY <1>2, <1>4 DEF ToSet
  <2>2. PICK j \in 1 .. Len(s) : s[j] = x /\ j # i
    BY <1>0, <1>1, <2>1
  <2> QED BY <1>0, <2>2 DEF ToSet, IsInjective
<1>5. ASSUME NEW x, x \in ToSet(s), x # s[i] PROVE x \in ToSet(t)
  <2>1. PICK j \in 1 .. Len(s) : s[j] = x /\ j # i
    BY <1>0, <1>5 DEF ToSet
  <2>2. \E k \in 1 .. Len(t) : t[k] = x
    <3>1. CASE j < i
      BY <1>0, <1>1, <2>1, <3>1
    <3>2. CASE j > i
      <4>1. j - 1 \in 1 .. Len(t) /\ ~(j - 1 < i) /\ (j - 1) + 1 = j
        BY <1>0, <1>1, <3>2
      <4> QED BY <1>1, <2>1, <4>1
    <3> QED BY <2>1, <3>1, <3>2
  <2> QED BY <1>2, <2>2 DEF ToSet
<1> QED BY <1>1, <1>3, <1>4, <1>5 DEF IsInjective, t

LEMMA PrependPrepends ==
  ASSUME NEW s \in Seq(Objects), IsInjective(s), NEW o \in Objects, o \notin ToSet(s)
  PROVE  /\ <<o>> \o s \in Seq(Objects) /\ IsInjective(<<o>> \o s)
         /\ \A x : x \in ToSet(<<o>> \o s) <=> x \in ToSet(s) \/ x = o
<1> DEFINE t == <<o>> \o s
<1>0. Len(s) \in Nat /\ DOMAIN s = 1 .. Len(s)
  OBVIOUS
<1>1. /\ t \in Seq(Objects) /\ DOMAIN t = 1 .. Len(s) + 1 /\ t[1] = o
      /\ \A k \in 2 .. Len(s) + 1 : k - 1 \in DOMAIN s /\ t[k] = s[k - 1]
  BY <1>0
<1> HIDE DEF t
<1>2. \A k \in DOMAIN s : k + 1 \in DOMAIN t /\ t[k + 1] = s[k]
  <2>1. \A k \in DOMAIN s : k + 1 \in 2 .. Len(s) + 1 /\ (k + 1) - 1 = k
    BY <1>0
  <2> QED BY <1>0, <1>1, <2>1
<1>3. \A k \in DOMAIN t : k = 1 \/ k \in 2 .. Len(s) + 1
  BY <1>0, <1>1
<1>4. \A k \in DOMAIN s : s[k] # o
  BY DEF ToSet
<1>5. IsInjective(t)
  <2> SUFFICES ASSUME NEW j \in DOMAIN t, NEW k \in DOMAIN t, t[j] = t[k] PROVE j = k
    BY DEF IsInjective
  <2>1. CASE j = 1 \/ k = 1
    BY <1>1, <1>3, <1>4, <2>1
  <2>2. CASE j # 1 /\ k # 1
    <3>1. j - 1 \in DOMAIN s /\ k - 1 \in DOMAIN s /\ s[j - 1] = s[k - 1]
      BY <1>1, <1>3, <2>2
    <3> QED BY <1>0, <1>1, <3>1 DEF IsInjective
  <2> QED BY <2>1, <2>2
<1>6. 1 \in DOMAIN t
  BY <1>0, <1>1
<1>7. ASSUME NEW x PROVE x \in ToSet(t) <=> x \in ToSet(s) \/ x = o
  <2>1. ASSUME x \in ToSet(t) PROVE x \in ToSet(s) \/ x = o
    <3>1. PICK k \in DOMAIN t : t[k] = x
      BY <2>1 DEF ToSet
    <3> QED BY <1>1, <1>3, <3>1 DEF ToSet
  <2>2. ASSUME x \in ToSet(s) PROVE x \in ToSet(t)
    <3>1. PICK k \in DOMAIN s : s[k] = x
      BY <2>2 DEF ToSet
    <3>2. k + 1 \in DOMAIN t /\ t[k + 1] = x
      BY <1>2, <3>1
    <3> QED BY <3>2 DEF ToSet
  <2>3. o \in ToSet(t)
    BY <1>1, <1>6 DEF ToSet
  <2> QED BY <2>1, <2>2, <2>3
<1> QED BY <1>1, <1>5, <1>7 DEF t

LEMMA PlaceIsPlace ==
  ASSUME WorldInv, NEW o \in Objects, env[o] # Null
  PROVE  env[o] \in Objects /\ Place(o) \in 1 .. Len(inv[env[o]]) /\ inv[env[o]][Place(o)] = o
<1>1. env[o] \in Objects
  BY DEF WorldInv, Pointers
<1>2. inv[env[o]] \in Seq(Objects) /\ o \in ToSet(inv[env[o]])
  BY <1>1 DEF WorldInv, ListsAgree, Contents
<1>3. \E i \in 1 .. Len(inv[env[o]]) : inv[env[o]][i] = o
  BY <1>2 DEF ToSet
<1> QED BY <1>1, <1>3 DEF Place

LEMMA UnlinkedIsOut ==
  ASSUME WorldInv, NEW o \in Objects
  PROVE  /\ Unlinked(o) \in [Objects -> Seq(Objects)]
         /\ \A p \in Objects : IsInjective(Unlinked(o)[p])
         /\ \A q, p \in Objects : q \in ToSet(Unlinked(o)[p]) <=> q # o /\ env[q] = p
         /\ \A p \in Objects : inv[p] = <<>> => Unlinked(o)[p] = <<>>
<1>0. /\ inv \in [Objects -> Seq(Objects)] /\ \A p \in Objects : IsInjective(inv[p])
      /\ \A q, p \in Objects : q \in ToSet(inv[p]) <=> env[q] = p
  BY DEF WorldInv, ListsAgree, Contents
<1>1. CASE env[o] = Null
  <2>1. Unlinked(o) = inv /\ \A p \in Objects : env[o] # p
    BY <1>1, DestructAssumption DEF Unlinked
  <2> QED BY <1>0, <2>1
<1>2. CASE env[o] # Null
  <2> DEFINE e == env[o]
             rest == RemoveAt(inv[e], Place(o))
  <2>1. e \in Objects /\ Place(o) \in 1 .. Len(inv[e]) /\ inv[e][Place(o)] = o
    BY <1>2, PlaceIsPlace
  <2>2. /\ rest \in Seq(Objects) /\ IsInjective(rest)
        /\ \A x : x \in ToSet(rest) <=> x \in ToSet(inv[e]) /\ x # o
    BY <1>0, <2>1, RemoveAtRemoves
  <2>3. Unlinked(o) = [inv EXCEPT ![e] = rest]
    BY <1>2 DEF Unlinked
  <2>4. inv[e] # <<>>
    BY <1>0, <2>1
  <2>5. \A p \in Objects : Unlinked(o)[p] = IF p = e THEN rest ELSE inv[p]
    BY <1>0, <2>3
  <2>6. Unlinked(o) \in [Objects -> Seq(Objects)]
    BY <1>0, <2>2, <2>3
  <2> HIDE DEF rest
  <2>7. \A p \in Objects : IsInjective(Unlinked(o)[p]) /\ (inv[p] = <<>> => Unlinked(o)[p] = <<>>)
    BY <1>0, <2>2, <2>4, <2>5
  <2>8. ASSUME NEW q \in Objects, NEW p \in Objects
        PROVE  q \in ToSet(Unlinked(o)[p]) <=> q # o /\ env[q] = p
    <3>1. CASE p = e
      <4>1. Unlinked(o)[p] = rest
        BY <2>5, <3>1
      <4> HIDE DEF e
      <4> QED BY <1>0, <2>2, <3>1, <4>1
    <3>2. CASE p # e
      <4>1. Unlinked(o)[p] = inv[p]
        BY <2>5, <3>2
      <4>2. env[q] = p => q # o
        BY <3>2
      <4> QED BY <1>0, <4>1, <4>2
    <3> QED BY <3>1, <3>2
  <2> QED BY <2>6, <2>7, <2>8
<1> QED BY <1>1, <1>2

LEMMA NextInvIsPointer ==
  ASSUME WorldInv, NEW o \in Objects
  PROVE  NextInv(o) \in Pointers
<1>1. CASE env[o] = Null \/ Place(o) = Len(inv[env[o]])
  BY <1>1 DEF NextInv, Pointers
<1>2. CASE env[o] # Null /\ Place(o) # Len(inv[env[o]])
  <2>1. env[o] \in Objects /\ Place(o) \in 1 .. Len(inv[env[o]])
    BY <1>2, PlaceIsPlace
  <2>2. inv[env[o]] \in Seq(Objects)
    BY <2>1 DEF WorldInv
  <2>3. inv[env[o]][Place(o) + 1] \in Objects
    BY <1>2, <2>1, <2>2
  <2> QED BY <1>2, <2>3 DEF NextInv, Pointers
<1> QED BY <1>1, <1>2

LEMMA FirstIsPointer ==
  ASSUME WorldInv, NEW o \in Objects
  PROVE  First(o) \in Pointers
<1>1. inv[o] \in Seq(Objects)
  BY DEF WorldInv
<1> QED BY <1>1 DEF First, Pointers

-----------------------------------------------------------------------------
(* The steps                                                               *)

LEMMA WorldStays ==
  ASSUME WorldInv, UNCHANGED World
  PROVE  WorldInv'
BY DEF World, WorldInv, ListsAgree, Contents

LEMMA ReturnsKeeps ==
  ASSUME StackInv(restrict, stack), stack # <<>>, Top.at # "asked", Returns, UNCHANGED restrict
  PROVE  StackInv(restrict', stack')
BY TopGives, PopKeeps DEF Returns, Top

\* The call on top of the stack, in the words of TopGives.
LEMMA TopIsCall ==
  ASSUME StackInv(restrict, stack), stack # <<>>
  PROVE  /\ Top = stack[1] /\ Top \in Calls /\ stack \in Seq(Calls) /\ Len(stack) \in Nat
         /\ restrict \in Pointers
         /\ Top.at \in Moves \cup {"asked"} => Top.other \in Objects
         /\ Top.at = "item" => Top.here \in Objects
         /\ Top.at # "asked" => Governs(restrict, stack, 2) /\ Allows(restrict, stack, 2)
         /\ Top.at \in Destroys => Governs(Top.save, stack, 2) /\ Allows(Top.save, stack, 2)
         /\ Top.at \in Past => Top.save \in {Null, Top.ob}
         /\ Top.at \in Past \ {"asked"} => restrict \in {Null, Top.ob}
         /\ Top.at = "begin" => Top.save = restrict
BY TopGives DEF Top, StackInv, RestrictInv

\* A step of a move or of a destruction goes on without a hook.
LEMMA MoveGoes ==
  ASSUME StackInv(restrict, stack), stack # <<>>, Top.at \in Moves, NEW f \in Calls, f.at \in Moves,
         f.other \in Objects, f.at = "item" => f.here \in Objects
  PROVE  StackInv(restrict, <<f>> \o Tail(stack))
<1>1. /\ f.at # "begin" /\ f.at # "asked" /\ f.at \notin Past /\ f.at \notin Destroys
      /\ Top.at # "asked"
  BY DEF Moves, Past, Destroys
<1>2. restrict \in Pointers /\ Governs(restrict, stack, 2) /\ Allows(restrict, stack, 2)
  BY <1>1, TopIsCall
<1> QED BY <1>1, <1>2, TopGoesOn

\* Each step of LPC keeps the stack in order.
LEMMA LpcStepKeeps ==
  ASSUME DestructInv, LpcStep
  PROVE  StackInv(restrict', stack')
<1> USE DEF DestructInv
<1>0. Lpc => stack # <<>> /\ Top.at \in Hooks /\ Top.at # "asked" /\ Top.at # "begin"
  BY DEF Lpc, Hooks
<1>1. CASE LpcReturns
  BY <1>0, <1>1, ReturnsKeeps DEF LpcReturns
<1>2. CASE LpcError
  BY <1>2, ErrorKeeps DEF LpcError
<1>3. ASSUME NEW o \in Objects, Command(o) PROVE StackInv(restrict', stack')
  <2>1. Call("command", o) \in Calls /\ Call("command", o).at = "command"
    BY DEF Call, Calls, Hooks, Pointers
  <2>2. stack = <<>> /\ stack' = <<Call("command", o)>> \o stack /\ restrict' = restrict
    BY <1>3, <2>1 DEF Command
  <2>3. Len(stack) < MaxDepth /\ "command" \in Hooks
    BY <2>2, DestructAssumption DEF Hooks
  <2> QED BY <2>1, <2>2, <2>3, PushKeeps
<1>4. ASSUME NEW o \in Objects, LpcDestructs(o) PROVE StackInv(restrict', stack')
  <2>1. restrict \in Pointers
    BY DEF StackInv, RestrictInv
  <2>2. /\ Destroying(o) \in Calls /\ Destroying(o).at = "begin"
        /\ Destroying(o).save = restrict
    BY <2>1 DEF Destroying, Call, Calls, Destroys, Pointers
  <2>3. stack' = <<Destroying(o)>> \o stack /\ restrict' = restrict /\ Len(stack) < MaxDepth
    BY <1>4 DEF LpcDestructs, Room
  <2>4. stack[1].at # "begin"
    BY <1>0, <1>4, TopIsCall DEF LpcDestructs
  <2> QED BY <2>2, <2>3, <2>4, PushKeeps
<1>5. ASSUME NEW o \in Objects, NEW p \in Objects, LpcMoves(o, p) PROVE StackInv(restrict', stack')
  <2> DEFINE top == [Call("enter", o) EXCEPT !.other = p]
  <2>1. top \in Calls /\ top.at = "enter" /\ top.other = p
    BY DEF Call, Calls, Moves, Pointers
  <2>2. stack' = <<top>> \o stack /\ restrict' = restrict /\ Len(stack) < MaxDepth
    BY <1>5 DEF LpcMoves, Room
  <2>3. stack[1].at # "begin"
    BY <1>0, <1>5, TopIsCall DEF LpcMoves
  <2> HIDE DEF top
  <2> QED BY <2>1, <2>2, <2>3, PushKeeps
<1>6. ASSUME NEW o \in Objects, NEW p \in Objects, LpcMovesBadly(o, p)
      PROVE  StackInv(restrict', stack')
  BY <1>6, ErrorKeeps DEF LpcMovesBadly
<1> QED BY <1>1, <1>2, <1>3, <1>4, <1>5, <1>6 DEF LpcStep

\* So does each step of destruct_object().
LEMMA DestructStepKeeps ==
  ASSUME DestructInv, DestructStep
  PROVE  StackInv(restrict', stack')
<1> USE DEF DestructInv
<1>1. CASE DestructRefused
  BY <1>1, ErrorKeeps DEF DestructRefused
<1>2. CASE DestructNotifies
  <2> DEFINE top == [Top EXCEPT !.at = "notified"]
  <2>1. stack # <<>> /\ Top.at = "begin" /\ Allowed(Top.ob)
    BY <1>2 DEF DestructNotifies, At
  <2>2. Top \in Calls /\ Top.save = restrict /\ restrict \in {Null, Top.ob}
        /\ Governs(restrict, stack, 2) /\ Allows(restrict, stack, 2)
        /\ restrict \in Pointers /\ Top.ob \in Objects
    BY <2>1, TopIsCall DEF Allowed, Calls
  <2>3. /\ top \in Calls /\ top.at = "notified" /\ top.ob = Top.ob /\ top.save = restrict
        /\ "notified" \notin Moves \cup {"asked", "begin"} /\ "on_destruct" \in Hooks
    BY <2>2 DEF Calls, Moves, Destroys, Hooks
  <2> HIDE DEF top
  <2>4. ASSUME NEW r \in {restrict, Null} PROVE StackInv(r, <<top>> \o Tail(stack))
    <3>1. r \in Pointers /\ Governs(r, stack, 2) /\ Allows(r, stack, 2) /\ r \in {Null, top.ob}
      BY <2>2, <2>3 DEF Governs, Allows, Pointers
    <3>2. top.at # "item"
      BY <2>3
    <3> QED BY <2>1, <2>2, <2>3, <3>1, <3>2, TopGoesOn
  <2>5. CASE Goes(top) /\ UNCHANGED restrict
    BY <2>4, <2>5 DEF Goes
  <2>6. CASE Apply(top, "on_destruct", Top.ob, restrict)
    BY <2>1, <2>2, <2>3, <2>4, <2>6, ApplyKeeps
  <2>7. CASE Goes(top) /\ restrict' = Null
    BY <2>4, <2>7 DEF Goes
  <2> QED BY <1>2, <2>5, <2>6, <2>7 DEF DestructNotifies, top
<1>3. CASE DestructNotified
  <2> DEFINE top == [Top EXCEPT !.at = "contents"]
  <2>1. stack # <<>> /\ Top.at = "notified" /\ UNCHANGED restrict
    BY <1>3 DEF DestructNotified, At
  <2>2. CASE Returns
    BY <2>1, <2>2, ReturnsKeeps
  <2>3. CASE Goes(top)
    <3>1. /\ Top \in Calls /\ Top.save \in {Null, Top.ob} /\ restrict \in {Null, Top.ob}
          /\ Governs(restrict, stack, 2) /\ Allows(restrict, stack, 2)
          /\ Governs(Top.save, stack, 2) /\ Allows(Top.save, stack, 2) /\ restrict \in Pointers
      BY <2>1, TopIsCall DEF Past, Destroys
    <3>2. /\ top \in Calls /\ top.at = "contents" /\ top.ob = Top.ob /\ top.save = Top.save
          /\ "contents" \notin Moves \cup {"asked", "begin"}
      BY <3>1 DEF Calls, Moves, Destroys
    <3>3. stack' = <<top>> \o Tail(stack)
      BY <2>3 DEF Goes
    <3> HIDE DEF top
    <3>4. top.at # "item"
      BY <3>2
    <3> QED BY <2>1, <3>1, <3>2, <3>3, <3>4, TopGoesOn
  <2> QED BY <1>3, <2>2, <2>3 DEF DestructNotified
<1>4. CASE DestructAsks
  <2> DEFINE otmp == Head(inv[Top.ob])
             top == [Top EXCEPT !.at = "asked", !.other = otmp]
  <2>1. stack # <<>> /\ Top.at = "contents" /\ inv[Top.ob] # <<>>
        /\ Apply(top, "move_or_destruct", otmp, otmp)
    BY <1>4 DEF DestructAsks, At
  <2>2. /\ Top \in Calls /\ Top.ob \in Objects /\ Top.save \in {Null, Top.ob}
        /\ Governs(Top.save, stack, 2) /\ Allows(Top.save, stack, 2)
    BY <2>1, TopIsCall DEF Past, Destroys, Calls
  <2>3. otmp \in Objects
    <3>1. inv[Top.ob] \in Seq(Objects)
      BY <2>2 DEF WorldInv
    <3> QED BY <2>1, <3>1
  <2>4. /\ top \in Calls /\ top.at = "asked" /\ top.ob = Top.ob /\ top.save = Top.save
        /\ top.other = otmp /\ otmp \in Pointers /\ "move_or_destruct" \in Hooks
    BY <2>2, <2>3 DEF Calls, Moves, Destroys, Hooks, Pointers
  <2> HIDE DEF top, otmp
  <2>5. Len(stack) < MaxDepth => StackInv(otmp, <<top>> \o Tail(stack))
    <3>1. top.at # "item" /\ top.at # "begin"
      BY <2>4
    <3> QED BY <2>1, <2>2, <2>3, <2>4, <3>1, TopGoesOn
  <2>6. top.at # "begin"
    BY <2>4
  <2> QED BY <2>1, <2>3, <2>4, <2>5, <2>6, ApplyKeeps
<1>5. CASE DestructAsked
  <2> DEFINE top  == [Top EXCEPT !.at = "contents", !.other = Null]
             otmp == [Call("begin", Top.other) EXCEPT !.save = Top.save]
  <2>1. stack # <<>> /\ Top.at = "asked" /\ restrict' = Top.save
    BY <1>5 DEF DestructAsked, At
  <2>2. /\ Top \in Calls /\ Top.other \in Objects /\ Top.save \in {Null, Top.ob}
        /\ Governs(Top.save, stack, 2) /\ Allows(Top.save, stack, 2) /\ Top.save \in Pointers
        /\ Top = stack[1]
    BY <2>1, TopIsCall DEF Past, Destroys, Calls
  <2>3. /\ top \in Calls /\ top.at = "contents" /\ top.ob = Top.ob /\ top.save = Top.save
        /\ "contents" \notin Moves \cup {"asked", "begin", "item"}
    BY <2>2 DEF Calls, Moves, Destroys, Pointers
  <2>4. otmp \in Calls /\ otmp.at = "begin" /\ otmp.save = Top.save
    BY <2>2 DEF Call, Calls, Destroys, Pointers
  <2> DEFINE s == <<top>> \o Tail(stack)
  <2>5. stack \in Seq(Calls) /\ Len(stack) \in Nat /\ Len(stack) > 0 /\ Len(stack) < MaxDepth
    <3>1. stack \in Seq(Calls) /\ Len(stack) \in Nat /\ Len(stack) > 0 /\ 1 \in 1 .. Len(stack)
      BY <2>1 DEF StackInv, CallsOK
    <3>2. Len(stack) - 1 + 1 < MaxDepth
      BY <2>1, <2>2, <3>1 DEF StackInv, CallsOK
    <3> QED BY <3>1, <3>2
  <2>6. s \in Seq(Calls) /\ Len(s) = Len(stack) /\ s[1] = top /\ Tail(s) = Tail(stack) /\ s # <<>>
    <3> HIDE DEF top
    <3> QED BY <2>3, <2>5
  <2>7. StackInv(restrict', s)
    <3> HIDE DEF top
    <3> QED BY <2>1, <2>2, <2>3, TopGoesOn
  <2>8. CASE Top.ob \in destructed /\ Returns
    <3>1. s[1].at # "asked"
      BY <2>3, <2>6
    <3> HIDE DEF s
    <3> QED BY <2>6, <2>7, <2>8, <3>1, PopKeeps DEF Returns
  <2>9. CASE stack' = <<otmp, top>> \o Tail(stack)
    <3>1. stack' = <<otmp>> \o s
      <4> HIDE DEF otmp, top
      <4> QED BY <2>3, <2>4, <2>5, <2>9
    <3>2. s[1].at # "begin" /\ Len(s) < MaxDepth
      BY <2>3, <2>5, <2>6
    <3> HIDE DEF s, otmp
    <3> QED BY <2>1, <2>4, <2>7, <3>1, <3>2, PushKeeps
  <2>10. CASE Goes(top)
    BY <2>7, <2>10 DEF Goes
  <2> QED BY <1>5, <2>8, <2>9, <2>10 DEF DestructAsked
<1>6. CASE DestructFinishes
  <2>1. stack # <<>> /\ Top.at # "asked"
    BY <1>6 DEF DestructFinishes, At
  <2> QED BY <1>6, <2>1, ReturnsKeeps DEF DestructFinishes
<1> QED BY <1>1, <1>2, <1>3, <1>4, <1>5, <1>6 DEF DestructStep

\* And each step of setup_new_commands().
LEMMA MoveStepKeeps ==
  ASSUME DestructInv, MoveStep
  PROVE  StackInv(restrict', stack')
<1> USE DEF DestructInv
<1>0. /\ stack # <<>> /\ Top.at \in Moves /\ Top.at # "asked" /\ Top.at # "begin"
      /\ Top \in Calls /\ Top.ob \in Objects /\ Top.other \in Objects
      /\ Top.here \in Pointers /\ Top.next \in Pointers /\ (Top.at = "item" => Top.here \in Objects)
  <2>1. stack # <<>> /\ Top.at \in Moves
    BY DEF MoveStep, MoveEnters, MoveLeaves, MoveLooks, MoveVisits, MoveMeets, MoveGoesOn,
           MoveEnds, MoveReturns, At, Moves
  <2> QED BY <2>1, TopIsCall DEF Calls, Moves
<1>00. "init" \in Hooks /\ {"room", "visit", "item", "other", "met"} \subseteq Moves
       /\ "begin" \notin Moves
  BY DEF Hooks, Moves
\* A step goes on as a call f of the same move, after init() of an object or without.
<1>1. ASSUME NEW f \in Calls, f.at \in Moves, f.other \in Objects,
             f.at = "item" => f.here \in Objects,
             \/ Goes(f) /\ UNCHANGED restrict
             \/ \E o \in Objects : Apply(f, "init", o, restrict)
      PROVE  StackInv(restrict', stack')
  <2>1. StackInv(restrict, <<f>> \o Tail(stack)) /\ f.at # "begin"
    BY <1>0, <1>00, <1>1, MoveGoes
  <2>2. CASE Goes(f) /\ UNCHANGED restrict
    BY <2>1, <2>2 DEF Goes
  <2>3. CASE \E o \in Objects : Apply(f, "init", o, restrict)
    BY <1>0, <1>00, <2>1, <2>3, ApplyKeeps
  <2> QED BY <1>1, <2>2, <2>3
<1>2. CASE MoveEnters
  <2> DEFINE f == [Top EXCEPT !.at = "room"]
  <2>1. f \in Calls /\ f.at = "room" /\ f.other = Top.other
    BY <1>0, <1>00 DEF Calls
  <2>2. \/ Goes(f) /\ UNCHANGED restrict
        \/ Apply(f, "init", Top.other, restrict)
    BY <1>2 DEF MoveEnters
  <2> HIDE DEF f
  <2> QED BY <1>0, <1>00, <1>1, <2>1, <2>2
<1>3. CASE MoveLeaves
  BY <1>0, <1>3, ReturnsKeeps DEF MoveLeaves
<1>4. CASE MoveLooks
  <2> DEFINE f == [Top EXCEPT !.at = "visit", !.here = First(Top.other)]
  <2>1. f \in Calls /\ f.at = "visit" /\ f.other = Top.other
    BY <1>0, <1>00, FirstIsPointer DEF Calls
  <2>2. Goes(f) /\ UNCHANGED restrict
    BY <1>4 DEF MoveLooks
  <2> HIDE DEF f
  <2> QED BY <1>0, <1>00, <1>1, <2>1, <2>2
<1>5. CASE MoveVisits
  <2> DEFINE on == [Top EXCEPT !.here = NextInv(Top.here)]
             meets == [Top EXCEPT !.at = "item", !.next = NextInv(Top.here)]
  <2>1. Top.at = "visit" /\ Top.here \in Objects /\ NextInv(Top.here) \in Pointers
    BY <1>0, <1>5, NextInvIsPointer DEF MoveVisits, At, Pointers
  <2>2. /\ on \in Calls /\ on.at = "visit" /\ on.other = Top.other
        /\ meets \in Calls /\ meets.at = "item" /\ meets.other = Top.other /\ meets.here = Top.here
    BY <1>0, <1>00, <2>1 DEF Calls
  <2>3. \/ Goes(on) /\ UNCHANGED restrict
        \/ Error
        \/ Apply(meets, "init", Top.ob, restrict)
        \/ Goes(meets) /\ UNCHANGED restrict
    BY <1>5 DEF MoveVisits
  <2> HIDE DEF on, meets
  <2> QED BY <1>0, <1>00, <1>1, <2>1, <2>2, <2>3, ErrorKeeps
<1>6. CASE MoveMeets
  <2> DEFINE on == [Top EXCEPT !.at = "visit", !.here = Top.next, !.next = Null]
             f  == [Top EXCEPT !.at = "other"]
  <2>1. Top.at = "item" /\ Null \in Pointers
    BY <1>6 DEF MoveMeets, At, Pointers
  <2>2. /\ on \in Calls /\ on.at = "visit" /\ on.other = Top.other
        /\ f \in Calls /\ f.at = "other" /\ f.other = Top.other
    BY <1>0, <1>00, <2>1 DEF Calls
  <2>3. \/ Error
        \/ Apply(f, "init", Top.here, restrict)
        \/ Goes(on) /\ UNCHANGED restrict
    BY <1>6 DEF MoveMeets
  <2> HIDE DEF on, f
  <2> QED BY <1>0, <1>00, <1>1, <2>1, <2>2, <2>3, ErrorKeeps
<1>7. CASE MoveGoesOn
  <2> DEFINE on == [Top EXCEPT !.at = "visit", !.here = Top.next, !.next = Null]
  <2>1. on \in Calls /\ on.at = "visit" /\ on.other = Top.other
    BY <1>0, <1>00 DEF Calls, Pointers
  <2>2. Goes(on) /\ UNCHANGED restrict
    BY <1>7 DEF MoveGoesOn
  <2> HIDE DEF on
  <2> QED BY <1>0, <1>00, <1>1, <2>1, <2>2
<1>8. CASE MoveEnds
  <2> DEFINE met == [Top EXCEPT !.at = "met"]
  <2>1. met \in Calls /\ met.at = "met" /\ met.other = Top.other
    BY <1>0, <1>00 DEF Calls
  <2>2. \/ Error
        \/ Apply(met, "init", Top.ob, restrict)
        \/ Goes(met) /\ UNCHANGED restrict
    BY <1>8 DEF MoveEnds
  <2> HIDE DEF met
  <2> QED BY <1>0, <1>00, <1>1, <2>1, <2>2, ErrorKeeps
<1>9. CASE MoveReturns
  BY <1>0, <1>9, ReturnsKeeps DEF MoveReturns
<1> QED BY <1>2, <1>3, <1>4, <1>5, <1>6, <1>7, <1>8, <1>9 DEF MoveStep

\* Only a move and the end of a destruction change environments.
LEMMA MoveKeepsWorld ==
  ASSUME WorldInv, NEW o \in Objects, NEW p \in Objects, LpcMoves(o, p)
  PROVE  WorldInv'
<1> DEFINE rest == Unlinked(o)
           list == <<o>> \o rest[p]
<1>0. /\ o \notin destructed /\ p \notin destructed
      /\ inv' = [rest EXCEPT ![p] = list] /\ env' = [env EXCEPT ![o] = p]
      /\ destructed' = destructed /\ finished' = finished
  BY DEF LpcMoves
<1>1. /\ rest \in [Objects -> Seq(Objects)]
      /\ \A x \in Objects : IsInjective(rest[x])
      /\ \A x, y \in Objects : x \in ToSet(rest[y]) <=> x # o /\ env[x] = y
      /\ \A x \in Objects : inv[x] = <<>> => rest[x] = <<>>
  BY UnlinkedIsOut
<1> HIDE DEF rest
<1>2. /\ list \in Seq(Objects) /\ IsInjective(list)
      /\ \A x : x \in ToSet(list) <=> x \in ToSet(rest[p]) \/ x = o
  BY <1>1, PrependPrepends
<1> HIDE DEF list
<1>3. /\ inv' \in [Objects -> Seq(Objects)] /\ env' \in [Objects -> Pointers]
      /\ \A x \in Objects : inv'[x] = IF x = p THEN list ELSE rest[x]
      /\ \A x \in Objects : env'[x] = IF x = o THEN p ELSE env[x]
  BY <1>0, <1>1, <1>2 DEF WorldInv, Pointers
<1>4. ASSUME NEW x \in Objects, NEW y \in Objects PROVE x \in ToSet(inv'[y]) <=> env'[x] = y
  <2>1. CASE y = p
    BY <1>1, <1>2, <1>3, <2>1
  <2>2. CASE y # p
    BY <1>1, <1>3, <2>2
  <2> QED BY <2>1, <2>2
<1>5. \A x \in Objects : IsInjective(inv'[x])
  BY <1>1, <1>2, <1>3
<1>6. \A x \in destructed : env'[x] = Null /\ inv'[x] = <<>>
  BY <1>0, <1>1, <1>3 DEF WorldInv, ListsAgree
<1> QED BY <1>0, <1>3, <1>4, <1>5, <1>6 DEF WorldInv, ListsAgree, Contents

LEMMA DestructionKeepsWorld ==
  ASSUME DestructInv, DestructFinishes
  PROVE  WorldInv'
<1> DEFINE o == Top.ob
           rest == Unlinked(o)
<1>0. /\ o \in Objects /\ inv[o] = <<>> /\ inv' = rest /\ env' = [env EXCEPT ![o] = Null]
      /\ destructed' = destructed \cup {o}
      /\ finished' = [finished EXCEPT ![o] = IF @ < 2 THEN @ + 1 ELSE @]
  <2>1. stack # <<>>
    BY DEF DestructFinishes, At
  <2> QED BY <2>1, TopIsCall DEF DestructInv, DestructFinishes, Calls
<1> HIDE DEF o
<1>1. /\ rest \in [Objects -> Seq(Objects)]
      /\ \A x \in Objects : IsInjective(rest[x])
      /\ \A x, y \in Objects : x \in ToSet(rest[y]) <=> x # o /\ env[x] = y
      /\ \A x \in Objects : inv[x] = <<>> => rest[x] = <<>>
  BY <1>0, UnlinkedIsOut DEF DestructInv
<1> HIDE DEF rest
<1>2. /\ env' \in [Objects -> Pointers]
      /\ \A x \in Objects : env'[x] = IF x = o THEN Null ELSE env[x]
  BY <1>0 DEF DestructInv, WorldInv, Pointers
<1>3. finished' \in [Objects -> 0 .. 2]
  BY <1>0 DEF DestructInv, WorldInv
<1>4. \A x, y \in Objects : x \in ToSet(inv'[y]) <=> env'[x] = y
  BY <1>0, <1>1, <1>2, DestructAssumption
<1>5. \A x \in destructed' : env'[x] = Null /\ inv'[x] = <<>>
  BY <1>0, <1>1, <1>2 DEF DestructInv, WorldInv, ListsAgree
<1> QED BY <1>0, <1>1, <1>2, <1>3, <1>4, <1>5 DEF DestructInv, WorldInv, ListsAgree, Contents

\* A set that shows that o is not inside itself: all that o is in, and not o.
Clears(S, o) == env[o] \in S /\ Upward(S) /\ o \notin S

LEMMA CirclesAreShown ==
  ASSUME env \in [Objects -> Pointers]
  PROVE  NoCircles <=> \A o \in Objects : env[o] # Null => \E S \in SUBSET Objects : Clears(S, o)
BY DEF NoCircles, Around, Clears, Pointers

\* A destruction empties one environment: what nothing led out of stays so.
LEMMA DestructionMakesNoCircle ==
  ASSUME env \in [Objects -> Pointers], NoCircles, NEW o \in Objects, env' = [env EXCEPT ![o] = Null]
  PROVE  NoCircles'
<1>1. env' \in [Objects -> Pointers] /\ \A x \in Objects : env'[x] = IF x = o THEN Null ELSE env[x]
  BY DEF Pointers
<1>2. ASSUME NEW x \in Objects, env'[x] # Null
      PROVE  \E S \in SUBSET Objects : env'[x] \in S /\ (Upward(S))' /\ x \notin S
  <2>1. PICK S \in SUBSET Objects : Clears(S, x)
    BY <1>1, <1>2, CirclesAreShown
  <2> QED BY <1>1, <1>2, <2>1 DEF Clears, Upward
<1> QED BY <1>1, <1>2 DEF NoCircles, Around, Pointers

\* A move: T is what the destination is in, without the item.  A set that shows
\* that x is not inside itself still does, or grows by T, or shrinks to T.
LEMMA MoveMakesNoCircle ==
  ASSUME env \in [Objects -> Pointers], NoCircles, NEW o \in Objects, NEW p \in Objects, o \notin Around(p),
         env' = [env EXCEPT ![o] = p]
  PROVE  NoCircles'
<1>1. env' \in [Objects -> Pointers] /\ \A x \in Objects : env'[x] = IF x = o THEN p ELSE env[x]
  BY DEF Pointers
<1>2. PICK T \in SUBSET Objects : p \in T /\ Upward(T) /\ o \notin T
  BY DEF Around
<1>3. (Upward(T))'
  BY <1>1, <1>2 DEF Upward
<1>4. ASSUME NEW x \in Objects, env'[x] # Null
      PROVE  \E S \in SUBSET Objects : env'[x] \in S /\ (Upward(S))' /\ x \notin S
  <2>1. CASE x = o
    BY <1>1, <1>2, <1>3, <2>1
  <2>2. CASE x # o
    <3>1. PICK S \in SUBSET Objects : Clears(S, x)
      BY <1>1, <1>4, <2>2, CirclesAreShown
    <3>2. CASE x \notin T
      <4>1. (Upward(S \cup T))'
        BY <1>1, <1>2, <3>1 DEF Upward, Clears
      <4>2. env'[x] \in S \cup T /\ x \notin S \cup T
        BY <1>1, <2>2, <3>1, <3>2 DEF Clears
      <4> QED BY <4>1, <4>2
    <3>3. CASE x \in T
      <4>1. (Upward(S \cap T))'
        BY <1>1, <1>2, <3>1 DEF Upward, Clears
      <4>2. env'[x] \in S \cap T /\ x \notin S \cap T
        BY <1>1, <1>2, <1>4, <2>2, <3>1, <3>3 DEF Clears, Upward
      <4> QED BY <4>1, <4>2
    <3> QED BY <3>2, <3>3
  <2> QED BY <2>1, <2>2
<1> QED BY <1>1, <1>4 DEF NoCircles, Around, Pointers

LEMMA InvStarts == Init => DestructInv
<1> SUFFICES ASSUME Init PROVE DestructInv
  OBVIOUS
<1>1. \A p \in Objects : ToSet(inv[p]) = {} /\ IsInjective(inv[p])
  BY DEF Init, ToSet, IsInjective
<1>2. WorldInv
  BY <1>1, DestructAssumption DEF Init, WorldInv, ListsAgree, Contents, Pointers
<1>3. stack = <<>> /\ Len(stack) = 0 /\ stack \in Seq(Calls) /\ restrict = Null
  BY DEF Init
<1>4. \A i \in 1 .. Len(stack) : FALSE
  BY <1>3
<1>5. CallsOK(stack)
  BY <1>3, <1>4, DestructAssumption DEF CallsOK
<1>6. RestrictInv(restrict, stack)
  BY <1>3, <1>4 DEF RestrictInv, Governs, Allows, Pointers
<1>7. NoCircles
  BY DEF Init, NoCircles
<1> QED BY <1>2, <1>5, <1>6, <1>7 DEF DestructInv, StackInv

LEMMA InvKept == DestructInv /\ [Next]_vars => DestructInv'
<1> SUFFICES ASSUME DestructInv, [Next]_vars PROVE DestructInv'
  OBVIOUS
<1>1. CASE Next
  <2>1. StackInv(restrict', stack')
    BY <1>1, LpcStepKeeps, DestructStepKeeps, MoveStepKeeps DEF Next
  <2>2. \/ UNCHANGED World
        \/ \E o, p \in Objects : LpcMoves(o, p)
        \/ DestructFinishes
    BY <1>1 DEF Next, LpcStep, DestructStep, MoveStep, LpcReturns, LpcError, Command, LpcDestructs,
      LpcMovesBadly, DestructRefused, DestructNotifies, DestructNotified, DestructAsks,
      DestructAsked, MoveEnters, MoveLeaves, MoveLooks, MoveVisits, MoveMeets, MoveGoesOn,
      MoveEnds, MoveReturns
  <2>3. WorldInv'
    BY <2>2, WorldStays, MoveKeepsWorld, DestructionKeepsWorld DEF DestructInv
  <2>4. NoCircles'
    <3>0. env \in [Objects -> Pointers] /\ NoCircles
      BY DEF DestructInv, WorldInv
    <3>1. CASE UNCHANGED World
      BY <3>0, <3>1 DEF World, NoCircles, Around, Upward
    <3>2. ASSUME NEW o \in Objects, NEW p \in Objects, LpcMoves(o, p) PROVE NoCircles'
      BY <3>0, <3>2, MoveMakesNoCircle DEF LpcMoves
    <3>3. CASE DestructFinishes
      <4>1. Top.ob \in Objects
        BY <3>3, TopIsCall DEF DestructInv, DestructFinishes, At, Calls
      <4> QED BY <3>0, <3>3, <4>1, DestructionMakesNoCircle DEF DestructFinishes
    <3> QED BY <2>2, <3>1, <3>2, <3>3
  <2> QED BY <2>1, <2>3, <2>4 DEF DestructInv
<1>2. CASE UNCHANGED vars
  <2>1. UNCHANGED World /\ restrict' = restrict /\ stack' = stack
    BY <1>2 DEF vars, World
  <2>2. WorldInv'
    BY <2>1, WorldStays DEF DestructInv
  <2>3. NoCircles'
    BY <2>1 DEF DestructInv, World, NoCircles, Around, Upward
  <2> QED BY <2>1, <2>2, <2>3 DEF DestructInv
<1> QED BY <1>1, <1>2

LEMMA InvHolds == Spec => []DestructInv
BY InvStarts, InvKept, PTL DEF Spec

-----------------------------------------------------------------------------
(* Theorems                                                                *)

\* Whatever hooks and errors do, the stack of unfinished calls stays within the
\* control stack, and environments, inventories and locals are what they should be.
THEOREM TypeCorrect == Spec => []TypeOK
<1>1. DestructInv => TypeOK
  BY DEF DestructInv, WorldInv, StackInv, CallsOK, RestrictInv, TypeOK
<1> QED BY <1>1, InvHolds, PTL

\* super and the inventory lists agree, no object is twice in a list or inside
\* itself, and what was destructed is in nothing and holds nothing, through every
\* destruction and move that hooks start in the middle of another.
THEOREM InventoriesAlwaysAgree == Spec => []InventoriesAgree
<1>1. DestructInv => InventoriesAgree
  BY DEF DestructInv, WorldInv, InventoriesAgree
<1> QED BY <1>1, InvHolds, PTL

\* The restriction on destruct() is the one of the innermost unfinished
\* move_or_destruct(), however destructions nest and errors unwind them.
THEOREM RestrictionIsInnermost == Spec => []RestrictIsInnermost
<1>1. DestructInv => RestrictIsInnermost
  <2> SUFFICES ASSUME DestructInv, restrict # Null
               PROVE  /\ Asked # {}
                      /\ \A i \in Asked : (\A j \in Asked : i <= j) => restrict = stack[i].other
    BY DEF RestrictIsInnermost
  <2>1. stack \in Seq(Calls) /\ Len(stack) \in Nat /\ Governs(restrict, stack, 1)
    BY DEF DestructInv, StackInv, CallsOK, RestrictInv
  <2>2. PICK k \in 1 .. Len(stack) :
          stack[k].at = "asked" /\ stack[k].other = restrict /\ NoneAsked(stack, 1, k - 1)
    BY <2>1 DEF Governs
  <2>3. k \in Asked
    BY <2>2 DEF Asked
  <2>4. ASSUME NEW i \in Asked, \A j \in Asked : i <= j PROVE i = k
    <3>1. i <= k /\ i \in 1 .. Len(stack) /\ stack[i].at = "asked"
      BY <2>3, <2>4 DEF Asked
    <3>2. i \in 1 .. k - 1 => stack[i].at # "asked"
      BY <2>2 DEF NoneAsked
    <3> QED BY <2>1, <3>1, <3>2
  <2> QED BY <2>2, <2>3, <2>4
<1> QED BY <1>1, InvHolds, PTL

\* An object is taken out only while the restriction allows it, although the
\* test was made before its hooks and those of its contents ran.
THEOREM RestrictionIsKept == Spec => RestrictionKept
<1>1. DestructInv /\ [Next]_vars => [\A o \in destructed' \ destructed : Allowed(o)]_vars
  <2> SUFFICES ASSUME DestructInv, Next, NEW o \in destructed' \ destructed PROVE Allowed(o)
    BY DEF vars
  <2>1. DestructFinishes
    <3>1. destructed' # destructed
      OBVIOUS
    <3> QED BY <3>1 DEF Next, LpcStep, DestructStep, MoveStep, LpcReturns, LpcError, Command,
      LpcDestructs, LpcMoves, LpcMovesBadly, DestructRefused, DestructNotifies, DestructNotified,
      DestructAsks, DestructAsked, MoveEnters, MoveLeaves, MoveLooks, MoveVisits, MoveMeets,
      MoveGoesOn, MoveEnds, MoveReturns, World
  <2>2. stack # <<>> /\ Top.at = "contents" /\ o = Top.ob
    BY <2>1 DEF DestructFinishes, At
  <2>3. restrict \in {Null, Top.ob}
    BY <2>2, TopIsCall DEF DestructInv, Past
  <2> QED BY <2>2, <2>3 DEF Allowed
<1> QED BY <1>1, InvHolds, PTL DEF Spec, RestrictionKept
=============================================================================
