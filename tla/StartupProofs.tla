---------------------------- MODULE StartupProofs ----------------------------
(* Proofs about Startup, for all clients, command lines and settings.        *)
EXTENDS Startup, TLAPS, WellFoundedInduction

-----------------------------------------------------------------------------
(***************************************************************************)
(* What oep_notify finds and attaches.                                     *)
(***************************************************************************)

ClientOK ==
  /\ client.signatures \subseteq Signatures
  /\ client.layout \in Layouts

\* Every hook that is attached has its pointer set, in one transaction or none.
LEMMA Attaching ==
  /\ Commit(ToAttach) \in {{}, ToAttach} /\ ToAttach \subseteq Hooks
  /\ ToAttach \subseteq Pointers /\ Pointers \subseteq Functions
<1>1. Commit(ToAttach) \in {{}, ToAttach}
  BY DEF Commit
<1>2. ToAttach \subseteq Hooks /\ ToAttach \subseteq Pointers /\ Pointers \subseteq Functions
  BY DEF ToAttach, Pointers, Functions
<1>3. QED  BY <1>1, <1>2

-----------------------------------------------------------------------------
(***************************************************************************)
(* The inductive invariant.                                                *)
(***************************************************************************)

\* The offset the layout of this client calls for.
Layout == IF "processConfirmClick" \in Matched THEN client.layout ELSE 0

\* Nothing has happened before the one call of oep_notify that does its work, and
\* what is set and placed then stays as it is.
StartInv ==
  /\ ClientOK
  /\ initdone \in BOOLEAN /\ firstrun \in BOOLEAN /\ requested \in BOOLEAN
  /\ ~initdone => /\ notified = 0 /\ original = {} /\ hooked = {} /\ UIPanelOffset = 0
                  /\ attached = [f \in Hooks |-> 0]
                  /\ ~requested /\ firstrun /\ fault = ""
  /\ initdone  => /\ original = Pointers /\ hooked = Commit(ToAttach)
                  /\ UIPanelOffset = Layout
                  /\ attached = [f \in Hooks |-> IF f \in hooked THEN 1 ELSE 0]
  /\ fault \in {"", "stoi", "null"}
  /\ requested /\ "RequestLogin" \in hooked => ~firstrun
  /\ "RequestLogin" \notin hooked => firstrun

LEMMA ZeroNotPositive == ~(0 > 0)
OBVIOUS

LEMMA InitStart == Init => StartInv
<1> SUFFICES ASSUME Init PROVE StartInv  OBVIOUS
<1>1. ClientOK
  BY ConstantsAssumption DEF Init, ConstantsAssumption, ClientOK
<1>2. QED  BY <1>1 DEF Init, StartInv

LEMMA NextStart == StartInv /\ [Next]_vars => StartInv'
<1> SUFFICES ASSUME StartInv, [Next]_vars PROVE StartInv'  OBVIOUS
<1>1. UNCHANGED client
  BY DEF Next, Notify, Call, vars
<1>2. /\ ClientOK' = ClientOK /\ Pointers' = Pointers /\ Commit(ToAttach)' = Commit(ToAttach)
      /\ Layout' = Layout
  BY <1>1 DEF ClientOK, Pointers, Commit, ToAttach, Matched, Layout
<1>3. CASE UNCHANGED vars
  BY <1>2, <1>3 DEF vars, StartInv
<1>4. CASE Notify
  <2>1. CASE initdone
    BY <1>2, <1>4, <2>1 DEF Notify, Guard, StartInv
  <2>2. CASE ~initdone
    <3>1. /\ initdone' = TRUE /\ original' = Pointers /\ hooked' = Commit(ToAttach)
          /\ UIPanelOffset' = Layout
          /\ attached' = [f \in Hooks |->
               IF f \in Commit(ToAttach) THEN attached[f] + 1 ELSE attached[f]]
          /\ fault' \in {"", "stoi"} /\ UNCHANGED <<firstrun, requested>>
      BY <1>4, <2>2 DEF Notify, Guard, StartInv, OffsetFound, Layout
    <3>2. attached' = [f \in Hooks |-> IF f \in hooked' THEN 1 ELSE 0]
      <4>1. attached = [f \in Hooks |-> 0]
        BY <2>2 DEF StartInv
      <4>2. \A f \in Hooks : attached[f] + 1 = 1 /\ attached[f] = 0
        BY <4>1
      <4>3. QED  BY <3>1, <4>2
    <3>3. QED  BY <1>2, <2>2, <3>1, <3>2 DEF StartInv
  <2>3. QED  BY <2>1, <2>2
<1>5. CASE Call
  <2> PICK f \in Hooks, confirms \in BOOLEAN :
        /\ fault = "" /\ notified > 0
        /\ fault' = IF Callees(f, confirms) \subseteq original THEN "" ELSE "null"
        /\ requested' = (requested \/ f = "RequestLogin")
        /\ firstrun' = (firstrun /\ ~(f = "RequestLogin" /\ f \in hooked))
        /\ UNCHANGED <<client, fixprogramid, args, initdone, original, hooked,
                       UIPanelOffset, keeppin, swap_programid, attached, notified>>
    BY <1>5 DEF Call
  <2>1. initdone
    <3>1. ~initdone => notified = 0
      BY DEF StartInv
    <3>2. notified # 0
      BY Zenon, ZeroNotPositive
    <3>3. QED  BY <3>1, <3>2
  <2>2. /\ initdone /\ original = Pointers /\ hooked = Commit(ToAttach)
        /\ UIPanelOffset = Layout
    BY <2>1 DEF StartInv
  <2>3. fault' \in {"", "stoi", "null"}
    BY Zenon
  <2>4. /\ requested' \in BOOLEAN /\ firstrun' \in BOOLEAN
        /\ requested' /\ "RequestLogin" \in hooked' => ~firstrun'
        /\ "RequestLogin" \notin hooked' => firstrun'
    BY Zenon DEF StartInv
  <2>5. QED  BY <1>2, <2>2, <2>3, <2>4 DEF StartInv
<1>6. QED  BY <1>3, <1>4, <1>5 DEF Next

LEMMA Invariant == Spec => []StartInv
BY InitStart, NextStart, PTL DEF Spec
-----------------------------------------------------------------------------
(***************************************************************************)
(* The theorems.                                                           *)
(***************************************************************************)

LEMMA MaxNotifyIsNat == MaxNotify \in Nat /\ 0 \in Layouts
BY ConstantsAssumption DEF ConstantsAssumption

LEMMA InitType == Init => TypeOK
<1> SUFFICES ASSUME Init PROVE TypeOK  OBVIOUS
<1> USE MaxNotifyIsNat
<1>1. /\ initdone \in BOOLEAN /\ keeppin \in BOOLEAN /\ swap_programid \in BOOLEAN
      /\ firstrun \in BOOLEAN /\ requested \in BOOLEAN
  BY Zenon DEF Init
<1>2. UIPanelOffset \in Layouts /\ attached \in [Hooks -> Nat] /\ notified \in 0..MaxNotify
  <2>1. UIPanelOffset = 0 /\ attached = [f \in Hooks |-> 0] /\ notified = 0
    BY DEF Init
  <2>2. QED  BY <2>1
<1>3. QED  BY <1>1, <1>2 DEF Init, TypeOK

LEMMA NextType == TypeOK /\ StartInv /\ [Next]_vars => TypeOK'
<1> SUFFICES ASSUME TypeOK, StartInv, StartInv', [Next]_vars PROVE TypeOK'
  BY NextStart
<1> USE MaxNotifyIsNat
<1>1. notified' \in 0..MaxNotify
  <2>1. notified \in 0..MaxNotify
    BY DEF TypeOK
  <2>2. notified' = notified \/ (notified < MaxNotify /\ notified' = notified + 1)
    BY DEF Next, Notify, Call, vars
  <2>3. QED  BY <2>1, <2>2
<1>2. keeppin' \in BOOLEAN /\ swap_programid' \in BOOLEAN
  <2>1. keeppin \in BOOLEAN /\ swap_programid \in BOOLEAN
    BY DEF TypeOK
  <2>2. /\ keeppin' = keeppin \/ keeppin' = (keeppin \/ HasFlag(CommandText, "-KEEPPIN"))
        /\ \/ swap_programid' = swap_programid
           \/ \E n \in Parsed : swap_programid' = (swap_programid \/ FixWanted(n))
    BY DEF Next, Notify, Call, vars
  <2>3. QED  BY <2>1, <2>2, Zenon
<1>3. UIPanelOffset' \in Layouts /\ Layout' \in Layouts
  BY DEF StartInv, ClientOK, Layout
<1>5. original' \subseteq Functions /\ hooked' \subseteq Hooks /\ hooked' \subseteq original'
  <2>1. CASE ~initdone'
    BY <2>1 DEF StartInv
  <2>2. CASE initdone'
    <3>1. original' = Pointers' /\ hooked' = Commit(ToAttach)'
      BY <2>2 DEF StartInv
    <3>2. UNCHANGED client
      BY DEF Next, Notify, Call, vars
    <3>3. Pointers' = Pointers /\ Commit(ToAttach)' = Commit(ToAttach)
      BY <3>2 DEF Pointers, Commit, ToAttach, Matched
    <3>4. QED  BY <3>1, <3>3, Attaching
  <2>3. QED  BY <2>1, <2>2
<1>6. attached' \in [Hooks -> Nat]
  <2>1. \/ attached' = [f \in Hooks |-> 0]
        \/ attached' = [f \in Hooks |-> IF f \in hooked' THEN 1 ELSE 0]
    BY DEF StartInv
  <2>2. QED  BY <2>1
<1>7. initdone' \in BOOLEAN /\ firstrun' \in BOOLEAN /\ requested' \in BOOLEAN
  BY DEF StartInv
<1>8. fault' \in {"", "stoi", "null"}
  BY DEF StartInv
<1>9. QED  BY <1>1, <1>2, <1>3, <1>5, <1>6, <1>7, <1>8 DEF TypeOK

\* The state stays well formed; a hook in place has the pointer of its original.
THEOREM TypeCorrect == Spec => []TypeOK
BY InitType, NextType, Invariant, PTL DEF Spec

\* initdone keeps a second notification from hooking the hooks.
THEOREM AttachedOnce == Spec => []HooksOnce
<1>1. StartInv => HooksOnce
  <2> SUFFICES ASSUME StartInv, NEW f \in Hooks PROVE attached[f] <= 1
    BY DEF HooksOnce
  <2>1. attached[f] \in {0, 1}
    BY DEF StartInv
  <2>2. QED  BY <2>1
<1>2. QED  BY <1>1, Invariant, PTL

\* Where events are hooked, a request ends the first run exactly in the clients whose
\* RequestLogin is found: Detours places both hooks or neither, and only RequestLogin's
\* hook writes firstrun.
THEOREM FirstrunEnds == Spec => []RequestEndsFirstrun
<1>1. StartInv => RequestEndsFirstrun
  BY DEF StartInv, RequestEndsFirstrun, Commit, ToAttach, Hooks
<1>2. QED  BY <1>1, Invariant, PTL

-----------------------------------------------------------------------------
(***************************************************************************)
(* Induction, as a fact about sets of numbers.                             *)
(***************************************************************************)

LEMMA Smallest ==
  ASSUME NEW T, T \subseteq Nat, T # {}
  PROVE  \E x \in T : \A y \in T : x <= y
<1> DEFINE R == {ss \in Nat \X Nat : ss[1] < ss[2]}
<1>1. OpToRel(<, Nat) = R
  BY DEF OpToRel
<1>2. IsWellFoundedOn(R, Nat)
  BY <1>1, NatLessThanWellFounded
<1> HIDE DEF R
<1>3. PICK x \in T : \A y \in T : ~(<<y, x>> \in R)
  BY <1>2, WFMin
<1>4. ASSUME NEW y \in T PROVE x <= y
  <2>1. x \in Nat /\ y \in Nat /\ ~(<<y, x>> \in R)
    BY <1>3
  <2>2. <<y, x>> \in Nat \X Nat
    BY <2>1
  <2>3. ~(y < x)
    BY <2>1, <2>2 DEF R
  <2>4. QED BY <2>1, <2>3
<1>5. QED BY <1>4

LEMMA Induction ==
  ASSUME NEW T, 0 \in T, \A n \in Nat : n \in T => n + 1 \in T
  PROVE  Nat \subseteq T
<1> DEFINE Rest == {n \in Nat : n \notin T}
<1> SUFFICES ASSUME Rest # {} PROVE FALSE
  OBVIOUS
<1>1. PICK x \in Rest : \A y \in Rest : x <= y
  <2>1. Rest \subseteq Nat
    OBVIOUS
  <2> HIDE DEF Rest
  <2>2. QED BY <2>1, Smallest
<1>2. x \in Nat /\ x # 0
  OBVIOUS
<1>3. x - 1 \in Nat /\ ~(x <= x - 1) /\ (x - 1) + 1 = x
  BY <1>2
<1>4. x - 1 \in T
  BY <1>1, <1>3
<1>5. x \in T
  BY <1>3, <1>4
<1>6. QED BY <1>5

-----------------------------------------------------------------------------
(***************************************************************************)
(* Texts put together: what FlattenSeq makes of a sequence of texts.       *)
(***************************************************************************)

\* r is s and then t.
Joined(r, s, t) ==
  /\ Len(r) = Len(s) + Len(t)
  /\ \A i \in 1..Len(s) : r[i] = s[i]
  /\ \A i \in 1..Len(t) : r[Len(s) + i] = t[i]

LEMMA TwoTexts ==
  ASSUME NEW S, NEW s \in Seq(S), NEW t \in Seq(S)
  PROVE  s \o t \in Seq(S) /\ Joined(s \o t, s, t)
BY DEF Joined

\* The texts put together so far.
SoFar(u, ss) ==
  /\ u[0] = << >>
  /\ \A k \in 1..Len(ss) : u[k] = u[k - 1] \o ss[k]

Flattened(f, ss, m) ==
  \A i \in 1..m : f[i] = IF i = 1 THEN ss[i] ELSE f[i - 1] \o ss[i]

CanFlatten(ss, S, m) == \E f \in [1..m -> Seq(S)] : Flattened(f, ss, m)

LEMMA FlattenOne ==
  ASSUME NEW S, NEW ss \in Seq(Seq(S)), 1 <= Len(ss)
  PROVE  CanFlatten(ss, S, 1)
<1> DEFINE f == [i \in 1..1 |-> ss[1]]
<1>1. ss[1] \in Seq(S)
  OBVIOUS
<1>2. f \in [1..1 -> Seq(S)]
  BY <1>1
<1>3. \A i \in 1..1 : i = 1 /\ f[i] = ss[i]
  OBVIOUS
<1> HIDE DEF f
<1> QED BY <1>2, <1>3 DEF CanFlatten, Flattened

LEMMA FlattenOneMore ==
  ASSUME NEW S, NEW ss \in Seq(Seq(S)), NEW m \in Nat \ {0}, m + 1 <= Len(ss),
         CanFlatten(ss, S, m)
  PROVE  CanFlatten(ss, S, m + 1)
<1>1. PICK f \in [1..m -> Seq(S)] : Flattened(f, ss, m)
  BY DEF CanFlatten
<1> DEFINE g == [i \in 1..(m + 1) |-> IF i = m + 1 THEN f[m] \o ss[m + 1] ELSE f[i]]
<1>2. f[m] \in Seq(S) /\ ss[m + 1] \in Seq(S)
  OBVIOUS
<1>3. f[m] \o ss[m + 1] \in Seq(S)
  BY <1>2
<1>4. g \in [1..(m + 1) -> Seq(S)]
  BY <1>3
<1>5. g[m + 1] = f[m] \o ss[m + 1] /\ \A i \in 1..m : g[i] = f[i]
  <2>1. m + 1 \in 1..(m + 1) /\ \A i \in 1..m : i \in 1..(m + 1) /\ i # m + 1
    OBVIOUS
  <2> QED BY <2>1, Zenon
<1> HIDE DEF g
<1>6. ASSUME NEW i \in 1..(m + 1)
      PROVE  g[i] = IF i = 1 THEN ss[i] ELSE g[i - 1] \o ss[i]
  <2>1. CASE i = m + 1
    <3>1. i - 1 = m /\ i # 1 /\ m \in 1..m
      BY <2>1
    <3>2. g[i] = f[m] \o ss[i] /\ g[i - 1] = f[m]
      BY <1>5, <2>1, <3>1
    <3> QED BY <3>1, <3>2
  <2>2. CASE i # m + 1
    <3>1. i \in 1..m /\ (i # 1 => i - 1 \in 1..m)
      BY <2>2
    <3>2. g[i] = f[i] /\ (i # 1 => g[i - 1] = f[i - 1])
      BY <1>5, <3>1
    <3>3. f[i] = IF i = 1 THEN ss[i] ELSE f[i - 1] \o ss[i]
      BY <1>1, <3>1 DEF Flattened
    <3> QED BY <3>2, <3>3
  <2> QED BY <2>1, <2>2
<1> QED BY <1>4, <1>6 DEF CanFlatten, Flattened

LEMMA FlattenExists ==
  ASSUME NEW S, NEW ss \in Seq(Seq(S)), NEW n \in 1..Len(ss)
  PROVE  CanFlatten(ss, S, n)
<1> DEFINE T == {m \in Nat : m + 1 <= Len(ss) => CanFlatten(ss, S, m + 1)}
<1>1. 0 \in T
  BY FlattenOne
<1>2. ASSUME NEW m \in Nat, m \in T PROVE m + 1 \in T
  <2> SUFFICES ASSUME (m + 1) + 1 <= Len(ss) PROVE CanFlatten(ss, S, (m + 1) + 1)
    OBVIOUS
  <2>1. m + 1 <= Len(ss) /\ m + 1 \in Nat \ {0}
    OBVIOUS
  <2>2. CanFlatten(ss, S, m + 1)
    BY <1>2, <2>1
  <2> QED BY <2>1, <2>2, FlattenOneMore
<1>3. n - 1 \in Nat /\ (n - 1) + 1 = n /\ n <= Len(ss)
  OBVIOUS
<1> HIDE DEF T
<1>4. n - 1 \in T
  BY <1>1, <1>2, <1>3, Induction
<1>5. QED BY <1>3, <1>4 DEF T

LEMMA Flattening ==
  ASSUME NEW S, NEW ss \in Seq(Seq(S))
  PROVE  \E u \in [0..Len(ss) -> Seq(S)] : SoFar(u, ss) /\ FlattenSeq(ss) = u[Len(ss)]
<1> DEFINE n == Len(ss)
<1>1. CASE n = 0
  <2> DEFINE u == [k \in 0..n |-> << >>]
  <2>1. FlattenSeq(ss) = ss /\ ss = << >>
    BY <1>1 DEF FlattenSeq
  <2>2. << >> \in Seq(S)
    OBVIOUS
  <2>3. u \in [0..n -> Seq(S)] /\ SoFar(u, ss) /\ u[n] = << >>
    BY <1>1, <2>2 DEF SoFar
  <2> QED BY <2>1, <2>3
<1>2. CASE n # 0
  <2> DEFINE flat == CHOOSE g : g = [i \in 1..n |-> IF i = 1 THEN ss[i] ELSE g[i - 1] \o ss[i]]
  <2>1. n \in 1..n
    BY <1>2
  <2>2. PICK f \in [1..n -> Seq(S)] :
          \A i \in 1..n : f[i] = IF i = 1 THEN ss[i] ELSE f[i - 1] \o ss[i]
    <3>1. CanFlatten(ss, S, n)
      BY <2>1, FlattenExists
    <3> QED BY <3>1 DEF CanFlatten, Flattened
  <2>3. f = [i \in 1..n |-> IF i = 1 THEN ss[i] ELSE f[i - 1] \o ss[i]]
    BY <2>2, Zenon
  <2>4. flat = [i \in 1..n |-> IF i = 1 THEN ss[i] ELSE flat[i - 1] \o ss[i]]
    BY <2>3, Zenon
  <2>5. FlattenSeq(ss) = flat[n]
    BY <1>2 DEF FlattenSeq
  <2> HIDE DEF flat
  <2>6. \A i \in 1..n : flat[i] = IF i = 1 THEN ss[i] ELSE flat[i - 1] \o ss[i]
    BY <2>4
  <2> DEFINE T == {m \in Nat : m + 1 <= n => flat[m + 1] \in Seq(S)}
  <2>7. 0 \in T
    <3>1. 1 <= n => flat[1] = ss[1] /\ ss[1] \in Seq(S)
      BY <2>6
    <3> QED BY <3>1
  <2>8. ASSUME NEW m \in Nat, m \in T PROVE m + 1 \in T
    <3> SUFFICES ASSUME m + 2 <= n PROVE flat[m + 2] \in Seq(S)
      OBVIOUS
    <3>1. m + 2 \in 1..n /\ m + 2 # 1 /\ (m + 2) - 1 = m + 1
      OBVIOUS
    <3>2. flat[m + 2] = flat[m + 1] \o ss[m + 2]
      BY <2>6, <3>1
    <3>3. flat[m + 1] \in Seq(S) /\ ss[m + 2] \in Seq(S)
      BY <2>8, <3>1
    <3> QED BY <3>2, <3>3
  <2>9. ASSUME NEW k \in 1..n PROVE flat[k] \in Seq(S)
    <3>1. k - 1 \in Nat /\ (k - 1) + 1 = k /\ k <= n
      OBVIOUS
    <3> HIDE DEF T
    <3>2. k - 1 \in T
      BY <2>7, <2>8, <3>1, Induction
    <3> QED BY <3>1, <3>2 DEF T
  <2> DEFINE u == [k \in 0..n |-> IF k = 0 THEN << >> ELSE flat[k]]
  <2>10. u \in [0..n -> Seq(S)]
    <3>1. << >> \in Seq(S)
      OBVIOUS
    <3> QED BY <2>9, <3>1
  <2>11. ASSUME NEW k \in 1..n PROVE u[k] = u[k - 1] \o ss[k]
    <3>1. u[k] = flat[k]
      OBVIOUS
    <3>2. CASE k = 1
      <4>1. u[k - 1] = << >> /\ flat[k] = ss[k] /\ ss[k] \in Seq(S)
        BY <2>6, <3>2
      <4>2. << >> \o ss[k] = ss[k]
        BY <4>1
      <4> QED BY <3>1, <4>1, <4>2
    <3>3. CASE k # 1
      <4>1. k - 1 \in 0..n /\ k - 1 # 0
        BY <3>3
      <4>2. u[k - 1] = flat[k - 1]
        BY <4>1
      <4> QED BY <2>6, <3>1, <3>3, <4>2
    <3> QED BY <3>2, <3>3
  <2>12. SoFar(u, ss)
    <3>1. u[0] = << >>
      OBVIOUS
    <3> QED BY <2>11, <3>1 DEF SoFar
  <2>13. u[n] = flat[n]
    BY <2>1
  <2> QED BY <2>5, <2>10, <2>12, <2>13
<1>3. QED BY <1>1, <1>2

-----------------------------------------------------------------------------
(***************************************************************************)
(* How the text of a command line is laid out: a block for each argument, one *)
(* after the other, and no place between them.                             *)
(***************************************************************************)

\* The characters of a text.
Symbols == STRING \union Options \union {"p", ":", "=", Space, Quote}

Block(arg) == <<Space>> \o Rendered(arg)

Size(arg) == Len(Block(arg))

\* What follows the blank before an argument.
LEMMA PlainBlock ==
  ASSUME NEW arg \in Argument, arg.kind = "plain"
  PROVE  /\ arg.name \in Options /\ arg.value \in Seq(STRING)
         /\ Block(arg) \in Seq(Symbols) /\ Size(arg) = Len(arg.value) + 3
         /\ Block(arg)[1] = Space /\ Block(arg)[2] = arg.name /\ Block(arg)[3] = ":"
         /\ \A d \in 1..Len(arg.value) : Block(arg)[d + 3] = arg.value[d]
<1>1. arg.name \in Options /\ arg.value \in Seq(STRING)
  BY DEF Argument
<1>2. arg.value \in Seq(Symbols) /\ <<Space>> \in Seq(Symbols) /\ <<arg.name, ":">> \in Seq(Symbols)
  BY <1>1 DEF Symbols
<1>3. Block(arg) = <<Space>> \o (<<arg.name, ":">> \o arg.value)
  BY DEF Block, Rendered
<1> HIDE DEF Symbols
<1> DEFINE s == <<arg.name, ":">> \o arg.value
<1>4. /\ s \in Seq(Symbols) /\ Len(s) = 2 + Len(arg.value) /\ s[1] = arg.name /\ s[2] = ":"
      /\ \A d \in 1..Len(arg.value) : s[2 + d] = arg.value[d]
  BY <1>2
<1> HIDE DEF s
<1>5. /\ <<Space>> \o s \in Seq(Symbols) /\ Len(<<Space>> \o s) = 1 + Len(s)
      /\ (<<Space>> \o s)[1] = Space
      /\ \A d \in 1..Len(s) : (<<Space>> \o s)[1 + d] = s[d]
  BY <1>2, <1>4
<1>6. Block(arg) = <<Space>> \o s
  BY <1>3 DEF s
<1>7. Size(arg) = Len(arg.value) + 3
  BY <1>2, <1>4, <1>5, <1>6 DEF Size
<1>8. Block(arg)[2] = arg.name /\ Block(arg)[3] = ":"
  <2>1. 1 \in 1..Len(s) /\ 2 \in 1..Len(s) /\ 1 + 1 = 2 /\ 1 + 2 = 3
    BY <1>1, <1>4
  <2> QED BY <1>4, <1>5, <1>6, <2>1
<1>9. ASSUME NEW d \in 1..Len(arg.value) PROVE Block(arg)[d + 3] = arg.value[d]
  <2>1. 2 + d \in 1..Len(s) /\ 1 + (2 + d) = d + 3
    BY <1>1, <1>4
  <2> QED BY <1>4, <1>5, <1>6, <2>1
<1> QED BY <1>1, <1>5, <1>6, <1>7, <1>8, <1>9

LEMMA QuotedBlock ==
  ASSUME NEW arg \in Argument, arg.kind = "quoted"
  PROVE  /\ arg.name \in Options /\ arg.value \in Seq(STRING)
         /\ Block(arg) \in Seq(Symbols) /\ Size(arg) = Len(arg.value) + 5
         /\ Block(arg)[1] = Space /\ Block(arg)[2] = arg.name /\ Block(arg)[3] = "="
         /\ Block(arg)[4] = Quote /\ Block(arg)[Len(arg.value) + 5] = Quote
         /\ \A d \in 1..Len(arg.value) : Block(arg)[d + 4] = arg.value[d]
<1>1. arg.name \in Options /\ arg.value \in Seq(STRING)
  BY DEF Argument
<1>2. /\ arg.value \in Seq(Symbols) /\ <<Space>> \in Seq(Symbols) /\ <<Quote>> \in Seq(Symbols)
      /\ <<arg.name, "=">> \in Seq(Symbols)
  BY <1>1 DEF Symbols
<1>3. Block(arg) = <<Space>> \o (<<arg.name, "=">> \o ((<<Quote>> \o arg.value) \o <<Quote>>))
  BY DEF Block, Rendered, Quoted
<1> HIDE DEF Symbols
<1> DEFINE q == <<Quote>> \o arg.value
           r == q \o <<Quote>>
           s == <<arg.name, "=">> \o r
<1>4. /\ q \in Seq(Symbols) /\ Len(q) = 1 + Len(arg.value) /\ q[1] = Quote
      /\ \A d \in 1..Len(arg.value) : q[1 + d] = arg.value[d]
  BY <1>2
<1> HIDE DEF q
<1>5. /\ r \in Seq(Symbols) /\ Len(r) = Len(q) + 1 /\ r[Len(q) + 1] = Quote
      /\ \A d \in 1..Len(q) : r[d] = q[d]
  BY <1>2, <1>4
<1> HIDE DEF r
<1>6. /\ s \in Seq(Symbols) /\ Len(s) = 2 + Len(r) /\ s[1] = arg.name /\ s[2] = "="
      /\ \A d \in 1..Len(r) : s[2 + d] = r[d]
  BY <1>2, <1>5
<1> HIDE DEF s
<1>7. /\ <<Space>> \o s \in Seq(Symbols) /\ Len(<<Space>> \o s) = 1 + Len(s)
      /\ (<<Space>> \o s)[1] = Space
      /\ \A d \in 1..Len(s) : (<<Space>> \o s)[1 + d] = s[d]
  BY <1>2, <1>6
<1>8. Block(arg) = <<Space>> \o s
  BY <1>3 DEF s, r, q
<1>9. /\ Len(arg.value) \in Nat /\ Len(q) = Len(arg.value) + 1
      /\ Len(r) = Len(arg.value) + 2 /\ Len(s) = Len(arg.value) + 4
  BY <1>1, <1>4, <1>5, <1>6
<1>10. Size(arg) = Len(arg.value) + 5
  BY <1>7, <1>8, <1>9 DEF Size
<1>11. /\ Block(arg)[2] = arg.name /\ Block(arg)[3] = "="
       /\ \A d \in 1..Len(r) : Block(arg)[d + 3] = r[d]
  <2>1. 1 \in 1..Len(s) /\ 2 \in 1..Len(s) /\ 1 + 1 = 2 /\ 1 + 2 = 3
    BY <1>9
  <2>2. ASSUME NEW d \in 1..Len(r) PROVE 2 + d \in 1..Len(s) /\ 1 + (2 + d) = d + 3
    BY <1>9
  <2> QED BY <1>6, <1>7, <1>8, <2>1, <2>2
<1>12. Block(arg)[4] = Quote
  <2>1. 1 \in 1..Len(r) /\ 1 + 3 = 4 /\ 1 \in 1..Len(q)
    BY <1>9
  <2> QED BY <1>4, <1>5, <1>11, <2>1
<1>13. Block(arg)[Len(arg.value) + 5] = Quote
  <2>1. Len(q) + 1 \in 1..Len(r) /\ (Len(q) + 1) + 3 = Len(arg.value) + 5
    BY <1>9
  <2> QED BY <1>5, <1>11, <2>1
<1>14. ASSUME NEW d \in 1..Len(arg.value) PROVE Block(arg)[d + 4] = arg.value[d]
  <2>1. 1 + d \in 1..Len(q) /\ 1 + d \in 1..Len(r) /\ (1 + d) + 3 = d + 4
    BY <1>9
  <2> QED BY <1>4, <1>5, <1>11, <2>1
<1> QED BY <1>1, <1>7, <1>8, <1>10, <1>11, <1>12, <1>13, <1>14

LEMMA OtherBlock ==
  ASSUME NEW arg \in Argument, arg.kind = "other"
  PROVE  /\ arg.value \in Seq(STRING) /\ Block(arg) = <<Space>> \o arg.value
         /\ Block(arg) \in Seq(Symbols) /\ Size(arg) = Len(arg.value) + 1
         /\ Block(arg)[1] = Space
         /\ \A d \in 1..Len(arg.value) : Block(arg)[d + 1] = arg.value[d]
<1>1. arg.value \in Seq(STRING)
  BY DEF Argument
<1>2. arg.value \in Seq(Symbols) /\ <<Space>> \in Seq(Symbols)
  BY <1>1 DEF Symbols
<1>3. Block(arg) = <<Space>> \o arg.value
  BY DEF Block, Rendered
<1> HIDE DEF Symbols
<1>4. /\ <<Space>> \o arg.value \in Seq(Symbols)
      /\ Len(<<Space>> \o arg.value) = Len(arg.value) + 1
      /\ (<<Space>> \o arg.value)[1] = Space
      /\ \A d \in 1..Len(arg.value) : (<<Space>> \o arg.value)[d + 1] = arg.value[d]
  BY <1>2
<1> QED BY <1>1, <1>3, <1>4 DEF Size

LEMMA BlockType ==
  ASSUME NEW arg \in Argument
  PROVE  /\ Block(arg) \in Seq(Symbols) /\ Size(arg) \in Nat /\ Size(arg) >= 1
         /\ Block(arg)[1] = Space
<1>1. arg.kind \in {"plain", "quoted", "other"} /\ Len(arg.value) \in Nat
  BY DEF Argument
<1>2. CASE arg.kind = "plain"
  BY <1>1, <1>2, PlainBlock
<1>3. CASE arg.kind = "quoted"
  BY <1>1, <1>3, QuotedBlock
<1>4. CASE arg.kind = "other"
  BY <1>1, <1>4, OtherBlock
<1> QED BY <1>1, <1>2, <1>3, <1>4

\* at[k] is where the block of the k-th argument begins in t, and the last of at is
\* where the text has ended.
Laid(t, al, at) ==
  /\ t \in Seq(Symbols) /\ t[1] = "p"
  /\ at \in [1..(Len(al) + 1) -> Nat]
  /\ at[1] = 2 /\ at[Len(al) + 1] = Len(t) + 1
  /\ \A k \in 1..Len(al) : at[k + 1] = at[k] + Size(al[k])
  /\ \A k \in 1..Len(al) : \A d \in 1..Size(al[k]) : t[at[k] + d - 1] = Block(al[k])[d]

Starts(s, t) == Len(s) <= Len(t) /\ \A e \in 1..Len(s) : t[e] = s[e]

LEMMA StartsLater ==
  ASSUME NEW S, NEW ss \in Seq(Seq(S)), NEW u \in [0..Len(ss) -> Seq(S)], SoFar(u, ss),
         NEW k \in 0..Len(ss)
  PROVE  Starts(u[k], u[Len(ss)])
<1> DEFINE T == {j \in Nat : k + j <= Len(ss) => Starts(u[k], u[k + j])}
<1>1. 0 \in T
  <2>1. u[k] \in Seq(S) /\ k + 0 = k
    OBVIOUS
  <2> QED BY <2>1 DEF Starts
<1>2. ASSUME NEW j \in Nat, j \in T PROVE j + 1 \in T
  <2> SUFFICES ASSUME k + (j + 1) <= Len(ss) PROVE Starts(u[k], u[k + (j + 1)])
    OBVIOUS
  <2>1. k + (j + 1) \in 1..Len(ss) /\ (k + (j + 1)) - 1 = k + j /\ k + j \in 0..Len(ss)
    OBVIOUS
  <2>2. u[k] \in Seq(S) /\ u[k + j] \in Seq(S) /\ ss[k + (j + 1)] \in Seq(S)
    <3>1. u[k] \in Seq(S)
      OBVIOUS
    <3>2. u[k + j] \in Seq(S)
      BY <2>1
    <3>3. ss[k + (j + 1)] \in Seq(S)
      BY <2>1
    <3> QED BY <3>1, <3>2, <3>3
  <2>3. u[k + (j + 1)] = u[k + j] \o ss[k + (j + 1)]
    BY <2>1 DEF SoFar
  <2>4. Starts(u[k], u[k + j])
    BY <1>2, <2>1
  <2>5. /\ Len(u[k + (j + 1)]) = Len(u[k + j]) + Len(ss[k + (j + 1)])
        /\ \A e \in 1..Len(u[k + j]) : u[k + (j + 1)][e] = u[k + j][e]
    <3>1. Joined(u[k + j] \o ss[k + (j + 1)], u[k + j], ss[k + (j + 1)])
      BY <2>2, TwoTexts
    <3> QED BY <2>3, <3>1 DEF Joined
  <2>6. Len(u[k]) \in Nat /\ Len(u[k + j]) \in Nat /\ Len(ss[k + (j + 1)]) \in Nat
    BY <2>2
  <2> HIDE DEF T
  <2>7. Len(u[k]) <= Len(u[k + j]) /\ Len(u[k]) <= Len(u[k + (j + 1)])
    <3>1. Len(u[k]) <= Len(u[k + j])
      BY <2>4 DEF Starts
    <3>2. Len(u[k + (j + 1)]) = Len(u[k + j]) + Len(ss[k + (j + 1)])
      BY <2>5
    <3> DEFINE a == Len(u[k])
               b == Len(u[k + j])
               c == Len(ss[k + (j + 1)])
               d == Len(u[k + (j + 1)])
    <3>3. a \in Nat /\ b \in Nat /\ c \in Nat /\ a <= b /\ d = b + c
      BY <2>6, <3>1, <3>2
    <3> HIDE DEF a, b, c, d
    <3>4. a <= b /\ a <= d
      BY <3>3
    <3> QED BY <3>4 DEF a, b, d
  <2>8. ASSUME NEW e \in 1..Len(u[k]) PROVE u[k + (j + 1)][e] = u[k][e]
    <3>1. e \in 1..Len(u[k + j])
      BY <2>6, <2>7
    <3> QED BY <2>4, <2>5, <3>1 DEF Starts
  <2> QED BY <2>7, <2>8 DEF Starts
<1>3. Len(ss) - k \in Nat /\ k + (Len(ss) - k) = Len(ss) /\ Len(ss) <= Len(ss)
  OBVIOUS
<1> HIDE DEF T
<1>4. Len(ss) - k \in T
  BY <1>1, <1>2, <1>3, Induction
<1> QED BY <1>3, <1>4 DEF T

LEMMA LaidOut ==
  ASSUME NEW al \in Seq(Argument)
  PROVE  \E at : Laid(Text(<<"p">>, al), al, at)
<1> DEFINE n  == Len(al)
           ss == [k \in DOMAIN al |-> <<Space>> \o Rendered(al[k])]
           t  == Text(<<"p">>, al)
<1>1. n \in Nat /\ DOMAIN al = 1..n /\ \A k \in 1..n : al[k] \in Argument
  OBVIOUS
<1>2. ss \in Seq(Seq(Symbols)) /\ Len(ss) = n /\ \A k \in 1..n : ss[k] = Block(al[k])
  <2>1. \A k \in 1..n : <<Space>> \o Rendered(al[k]) \in Seq(Symbols)
    BY <1>1, BlockType DEF Block
  <2>2. \A k \in 1..n : ss[k] = Block(al[k])
    BY DEF Block
  <2> QED BY <1>1, <2>1, <2>2
<1>3. t = <<"p">> \o FlattenSeq(ss)
  BY DEF Text
<1> HIDE DEF ss
<1>4. PICK u \in [0..n -> Seq(Symbols)] : SoFar(u, ss) /\ FlattenSeq(ss) = u[n]
  BY <1>2, Flattening
<1>5. \A k \in 0..n : u[k] \in Seq(Symbols) /\ Len(u[k]) \in Nat
  OBVIOUS
<1>6. <<"p">> \in Seq(Symbols)
  BY DEF Symbols
<1>7. /\ t \in Seq(Symbols) /\ Len(t) = Len(u[n]) + 1 /\ t[1] = "p"
      /\ \A e \in 1..Len(u[n]) : t[1 + e] = u[n][e]
  <2>1. u[n] \in Seq(Symbols) /\ t = <<"p">> \o u[n]
    BY <1>1, <1>3, <1>4, <1>5
  <2> HIDE DEF t
  <2> QED BY <1>6, <2>1
<1> HIDE DEF t
<1> DEFINE at == [k \in 1..(n + 1) |-> 2 + Len(u[k - 1])]
<1>8. at \in [1..(n + 1) -> Nat]
  <2>1. ASSUME NEW k \in 1..(n + 1) PROVE 2 + Len(u[k - 1]) \in Nat
    <3>1. k - 1 \in 0..n
      BY <1>1
    <3> QED BY <1>5, <3>1
  <2> QED BY <2>1
<1>9. at[1] = 2 /\ at[n + 1] = Len(t) + 1
  <2>1. u[0] = << >> /\ Len(<< >>) = 0
    BY <1>4 DEF SoFar
  <2>2. 1 \in 1..(n + 1) /\ n + 1 \in 1..(n + 1) /\ (n + 1) - 1 = n /\ 1 - 1 = 0
    BY <1>1
  <2>3. at[1] = 2 + Len(u[0]) /\ at[n + 1] = 2 + Len(u[n])
    BY <2>2
  <2>4. Len(u[n]) \in Nat
    BY <1>1, <1>5
  <2> HIDE DEF at
  <2> QED BY <1>7, <2>1, <2>3, <2>4
<1>10. ASSUME NEW k \in 1..n
       PROVE  /\ at[k] = 2 + Len(u[k - 1]) /\ at[k + 1] = 2 + Len(u[k])
              /\ k - 1 \in 0..n /\ k \in 0..n
  <2>1. k \in 1..(n + 1) /\ k + 1 \in 1..(n + 1) /\ (k + 1) - 1 = k
    BY <1>1
  <2>2. k - 1 \in 0..n /\ k \in 0..n
    BY <1>1
  <2> QED BY <2>1, <2>2
<1> HIDE DEF at
<1>11. ASSUME NEW k \in 1..n
       PROVE  /\ Len(u[k]) = Len(u[k - 1]) + Size(al[k])
              /\ \A d \in 1..Size(al[k]) : u[k][Len(u[k - 1]) + d] = Block(al[k])[d]
  <2>1. u[k] = u[k - 1] \o Block(al[k])
    BY <1>2, <1>4 DEF SoFar
  <2>2. u[k - 1] \in Seq(Symbols) /\ Block(al[k]) \in Seq(Symbols)
    BY <1>1, <1>5, <1>10, BlockType
  <2>3. Joined(u[k - 1] \o Block(al[k]), u[k - 1], Block(al[k]))
    BY <2>2, TwoTexts
  <2> QED BY <2>1, <2>3 DEF Size, Joined
<1>12. ASSUME NEW k \in 1..n
      PROVE  /\ Len(u[k - 1]) \in Nat /\ Size(al[k]) \in Nat /\ Len(u[k]) \in Nat
             /\ Len(u[n]) \in Nat
  <2>1. Len(u[k - 1]) \in Nat
    BY <1>5, <1>10
  <2>2. Len(u[k]) \in Nat
    BY <1>5, <1>10
  <2>3. Len(u[n]) \in Nat
    BY <1>1, <1>5
  <2>4. Size(al[k]) \in Nat
    BY <1>1, BlockType
  <2> QED BY <2>1, <2>2, <2>3, <2>4
<1>13. ASSUME NEW k \in 1..n PROVE at[k + 1] = at[k] + Size(al[k])
  <2>1. Len(u[k - 1]) \in Nat /\ Size(al[k]) \in Nat
    BY <1>12
  <2>2. at[k] = 2 + Len(u[k - 1]) /\ at[k + 1] = 2 + Len(u[k])
    BY <1>10
  <2>3. Len(u[k]) = Len(u[k - 1]) + Size(al[k])
    BY <1>11
  <2> QED BY <2>1, <2>2, <2>3
<1>14. ASSUME NEW k \in 1..n, NEW d \in 1..Size(al[k])
       PROVE  t[at[k] + d - 1] = Block(al[k])[d]
  <2>1. Len(u[k - 1]) \in Nat /\ Size(al[k]) \in Nat /\ Len(u[k]) \in Nat /\ Len(u[n]) \in Nat
    BY <1>12
  <2>2. Starts(u[k], u[n])
    BY <1>2, <1>4, <1>10, StartsLater
  <2>3. Len(u[k - 1]) + d \in 1..Len(u[k]) /\ Len(u[k - 1]) + d \in 1..Len(u[n])
    <3>1. Len(u[k]) <= Len(u[n])
      BY <2>2 DEF Starts
    <3>2. Len(u[k]) = Len(u[k - 1]) + Size(al[k])
      BY <1>11
    <3> QED BY <2>1, <3>1, <3>2
  <2>4. u[n][Len(u[k - 1]) + d] = Block(al[k])[d]
    BY <1>11, <2>2, <2>3 DEF Starts
  <2>5. at[k] + d - 1 = 1 + (Len(u[k - 1]) + d)
    BY <1>10, <2>1
  <2> QED BY <1>7, <2>3, <2>4, <2>5
<1>15. Laid(t, al, at)
  BY <1>7, <1>8, <1>9, <1>13, <1>14 DEF Laid
<1> QED BY <1>15 DEF t

LEMMA InOrder ==
  ASSUME NEW al \in Seq(Argument), NEW t, NEW at, Laid(t, al, at),
         NEW j \in 1..(Len(al) + 1), NEW k \in 1..(Len(al) + 1), j < k
  PROVE  at[j] < at[k]
<1> DEFINE T == {i \in Nat : j + 1 + i <= Len(al) + 1 => at[j] < at[j + 1 + i]}
<1>0. \A m \in 1..Len(al) : /\ at[m] \in Nat /\ at[m + 1] \in Nat
                            /\ al[m] \in Argument /\ at[m + 1] = at[m] + Size(al[m])
  <2> SUFFICES ASSUME NEW m \in 1..Len(al)
               PROVE  /\ at[m] \in Nat /\ at[m + 1] \in Nat
                      /\ al[m] \in Argument /\ at[m + 1] = at[m] + Size(al[m])
    OBVIOUS
  <2>1. m \in 1..(Len(al) + 1) /\ m + 1 \in 1..(Len(al) + 1) /\ al[m] \in Argument
    OBVIOUS
  <2>2. at \in [1..(Len(al) + 1) -> Nat]
    BY DEF Laid
  <2>3. at[m + 1] = at[m] + Size(al[m])
    BY Zenon DEF Laid
  <2> QED BY <2>1, <2>2, <2>3
<1>1. ASSUME NEW m \in 1..Len(al) PROVE at[m] \in Nat /\ at[m + 1] \in Nat /\ at[m] < at[m + 1]
  <2>1. Size(al[m]) \in Nat /\ Size(al[m]) >= 1
    BY <1>0, BlockType
  <2>2. at[m] \in Nat /\ at[m + 1] \in Nat /\ at[m + 1] = at[m] + Size(al[m])
    BY <1>0
  <2> QED BY <2>1, <2>2
<1>2. 0 \in T
  <2>1. j + 1 + 0 <= Len(al) + 1 => j \in 1..Len(al) /\ j + 1 + 0 = j + 1
    OBVIOUS
  <2> QED BY <1>1, <2>1
<1>3. ASSUME NEW i \in Nat, i \in T PROVE i + 1 \in T
  <2> SUFFICES ASSUME j + 1 + (i + 1) <= Len(al) + 1 PROVE at[j] < at[j + 1 + (i + 1)]
    OBVIOUS
  <2>1. j + 1 + i \in 1..Len(al) /\ (j + 1 + i) + 1 = j + 1 + (i + 1) /\ j \in 1..Len(al)
    OBVIOUS
  <2>2. at[j] < at[j + 1 + i]
    BY <1>3, <2>1
  <2>3. at[j] \in Nat /\ at[j + 1 + i] \in Nat /\ at[(j + 1 + i) + 1] \in Nat
    BY <1>1, <2>1
  <2>4. at[j + 1 + i] < at[(j + 1 + i) + 1]
    BY <1>1, <2>1
  <2> HIDE DEF T
  <2>5. at[j] < at[(j + 1 + i) + 1]
    BY <2>2, <2>3, <2>4
  <2> QED BY <2>1, <2>5
<1>4. k - j - 1 \in Nat /\ j + 1 + (k - j - 1) = k
  OBVIOUS
<1> HIDE DEF T
<1>5. k - j - 1 \in T
  BY <1>2, <1>3, <1>4, Induction
<1> QED BY <1>4, <1>5 DEF T

\* Every place after the first is in the block of an argument.
LEMMA InBlock ==
  ASSUME NEW al \in Seq(Argument), NEW t, NEW at, Laid(t, al, at), NEW i \in 2..Len(t)
  PROVE  \E k \in 1..Len(al) : \E d \in 1..Size(al[k]) : i = at[k] + d - 1
<1> DEFINE n == Len(al)
           S == {k \in 1..n : i < at[k + 1]}
<1>0. /\ n \in Nat /\ Len(t) \in Nat /\ at \in [1..(n + 1) -> Nat]
      /\ at[1] = 2 /\ at[n + 1] = Len(t) + 1
  BY DEF Laid
<1>1. n # 0
  BY <1>0
<1>2. n \in S
  <2>1. i < Len(t) + 1 /\ n \in 1..n
    BY <1>0, <1>1
  <2> QED BY <1>0, <2>1
<1>3. PICK k \in S : \A m \in S : k <= m
  <2>1. S \subseteq Nat
    OBVIOUS
  <2> HIDE DEF S
  <2> QED BY <1>2, <2>1, Smallest
<1>4. k \in 1..n /\ i < at[k + 1]
  OBVIOUS
<1>5. at[k] <= i
  <2>1. CASE k = 1
    BY <1>0, <2>1
  <2>2. CASE k # 1
    <3>1. k - 1 \in 1..n /\ (k - 1) + 1 = k /\ ~(k <= k - 1)
      BY <1>4, <2>2
    <3>2. k - 1 \notin S
      BY <1>3, <3>1
    <3>3. ~(i < at[k])
      BY <3>1, <3>2
    <3>4. at[k] \in Nat
      BY <1>0, <1>4
    <3> QED BY <3>3, <3>4
  <2> QED BY <2>1, <2>2
<1> HIDE DEF S
<1>6. at[k] \in Nat /\ at[k + 1] = at[k] + Size(al[k]) /\ Size(al[k]) \in Nat
  <2>1. al[k] \in Argument
    BY <1>4
  <2>2. at[k + 1] = at[k] + Size(al[k])
    BY <1>4 DEF Laid
  <2>3. at[k] \in Nat
    BY <1>0, <1>4
  <2> QED BY <2>1, <2>2, <2>3, BlockType
<1>7. i - at[k] + 1 \in 1..Size(al[k]) /\ i = at[k] + (i - at[k] + 1) - 1
  BY <1>4, <1>5, <1>6
<1> QED BY <1>4, <1>7

\* The block of arg stands in t at i, and a blank or nothing after it.
InPlace(t, arg, i) ==
  /\ t \in Seq(Symbols) /\ arg \in Argument
  /\ i \in Nat /\ i >= 2 /\ i + Size(arg) <= Len(t) + 1
  /\ Ends(t, i + Size(arg))
  /\ \A d \in 1..Size(arg) : t[i + d - 1] = Block(arg)[d]

LEMMA BlockInPlace ==
  ASSUME NEW al \in Seq(Argument), NEW t, NEW at, Laid(t, al, at), NEW k \in 1..Len(al)
  PROVE  InPlace(t, al[k], at[k]) /\ at[k] \in Nat
<1> DEFINE n == Len(al)
<1>1. /\ t \in Seq(Symbols) /\ at \in [1..(n + 1) -> Nat]
      /\ at[1] = 2 /\ at[n + 1] = Len(t) + 1 /\ at[k + 1] = at[k] + Size(al[k])
  BY DEF Laid
<1>2. /\ n \in Nat /\ k \in 1..(n + 1) /\ k + 1 \in 1..(n + 1)
      /\ n + 1 \in 1..(n + 1) /\ 1 \in 1..(n + 1)
  OBVIOUS
<1>3. al[k] \in Argument
  OBVIOUS
<1>4. at[k] \in Nat /\ at[k + 1] \in Nat /\ Len(t) \in Nat
  <2>1. Len(t) \in Nat
    BY <1>1
  <2> HIDE DEF n
  <2>2. at[k] \in Nat /\ at[k + 1] \in Nat
    BY <1>1, <1>2
  <2> QED BY <2>1, <2>2
<1>5. at[k] >= 2
  <2>1. CASE k = 1
    BY <1>1, <2>1
  <2>2. CASE k # 1
    <3>1. 1 < k
      BY <2>2
    <3>2. at[1] < at[k]
      BY <1>2, <3>1, InOrder
    <3> QED BY <1>1, <1>4, <3>2
  <2> QED BY <2>1, <2>2
<1>6. at[k + 1] <= Len(t) + 1 /\ Ends(t, at[k + 1])
  <2>1. CASE k = n
    BY <1>1, <1>4, <2>1 DEF Ends
  <2>2. CASE k # n
    <3>1. k + 1 \in 1..n /\ k + 1 < n + 1
      BY <1>2, <2>2
    <3>2. at[k + 1] < at[n + 1]
      BY <1>2, <3>1, InOrder
    <3>3. al[k + 1] \in Argument
      BY <3>1
    <3>4. 1 \in 1..Size(al[k + 1]) /\ Block(al[k + 1])[1] = Space
      BY <3>3, BlockType
    <3>5. t[at[k + 1] + 1 - 1] = Space
      BY <3>1, <3>4, Zenon DEF Laid
    <3>6. at[k + 1] + 1 - 1 = at[k + 1]
      BY <1>4
    <3>7. at[1] < at[k + 1]
      <4>1. 1 < k + 1
        BY <1>2
      <4> QED BY <1>2, <4>1, InOrder
    <3>8. at[k + 1] \in DOMAIN t
      BY <1>1, <1>4, <3>2, <3>7
    <3>9. Is(t, at[k + 1], {Space})
      BY <3>5, <3>6, <3>8 DEF Is
    <3> QED BY <1>1, <1>4, <3>2, <3>9 DEF Ends
  <2> QED BY <2>1, <2>2
<1>7. \A d \in 1..Size(al[k]) : t[at[k] + d - 1] = Block(al[k])[d]
  BY Zenon DEF Laid
<1> QED BY <1>1, <1>3, <1>4, <1>5, <1>6, <1>7 DEF InPlace

\* The letters of the expressions are different.
LEMMA Letters ==
  /\ Space # Quote /\ Space # ":" /\ Space # "=" /\ Quote # ":" /\ Quote # "=" /\ Space # "p"
  /\ \A o \in Options : o \notin {Space, Quote, ":", "="} /\ o \notin Flags
  /\ \A f \in Flags : f \notin {Space, Quote, ":", "="}
  /\ \A d \in Digits : d \notin {Space, Quote}
<1>1. Space # Quote /\ Space # ":" /\ Space # "=" /\ Quote # ":" /\ Quote # "=" /\ Space # "p"
  BY DEF Space, Quote
<1>2. \A o \in Options : o \notin {Space, Quote, ":", "="} /\ o \notin Flags
  BY DEF Options, Flags, Space, Quote
<1>3. \A f \in Flags : f \notin {Space, Quote, ":", "="}
  BY DEF Flags, Space, Quote
<1>4. \A d \in Digits : d \notin {Space, Quote}
  BY DEF Digits, Space, Quote
<1> QED BY <1>1, <1>2, <1>3, <1>4

LEMMA InPlaceTypes ==
  ASSUME NEW t, NEW arg, NEW i, InPlace(t, arg, i)
  PROVE  /\ i \in Nat /\ i >= 2 /\ Size(arg) \in Nat /\ Size(arg) >= 1 /\ Len(t) \in Nat
         /\ i + Size(arg) <= Len(t) + 1 /\ DOMAIN t = 1..Len(t)
         /\ \A d \in 1..Size(arg) :
              i + d - 1 \in DOMAIN t /\ i + d - 1 < i + Size(arg) /\ t[i + d - 1] = Block(arg)[d]
<1>1. /\ i \in Nat /\ i >= 2 /\ Len(t) \in Nat /\ DOMAIN t = 1..Len(t)
      /\ i + Size(arg) <= Len(t) + 1 /\ arg \in Argument
  BY DEF InPlace
<1>2. Size(arg) \in Nat /\ Size(arg) >= 1
  BY <1>1, BlockType
<1>3. ASSUME NEW d \in 1..Size(arg)
      PROVE  i + d - 1 \in DOMAIN t /\ i + d - 1 < i + Size(arg) /\ t[i + d - 1] = Block(arg)[d]
  <2>1. i + d - 1 \in 1..Len(t) /\ i + d - 1 < i + Size(arg)
    BY <1>1, <1>2
  <2>2. t[i + d - 1] = Block(arg)[d]
    BY DEF InPlace
  <2> QED BY <1>1, <2>1, <2>2
<1> QED BY <1>1, <1>2, <1>3

\* What stands at the end of a block is a blank, if anything.
LEMMA AfterBlock ==
  ASSUME NEW t, NEW arg, NEW i, InPlace(t, arg, i), NEW S, Is(t, i + Size(arg), S)
  PROVE  Space \in S
<1>1. i + Size(arg) \in 1..Len(t) /\ t[i + Size(arg)] \in S
  BY InPlaceTypes DEF Is
<1>2. i + Size(arg) # Len(t) + 1
  BY <1>1, InPlaceTypes
<1>3. t[i + Size(arg)] = Space
  BY <1>2 DEF InPlace, Ends, Is
<1> QED BY <1>1, <1>3

\* What stands in a block.
LEMMA IsInBlock ==
  ASSUME NEW t, NEW arg, NEW i, InPlace(t, arg, i), NEW d \in 1..Size(arg), NEW S
  PROVE  Is(t, i + d - 1, S) <=> Block(arg)[d] \in S
BY InPlaceTypes DEF Is

-----------------------------------------------------------------------------
(***************************************************************************)
(* Where options begin and flags stand: in the blocks of their own arguments. *)
(***************************************************************************)

\* Where the name of an option can stand in a block.
LEMMA NamePlace ==
  ASSUME NEW arg \in Argument, arg.kind # "other", Plain(arg),
         NEW d \in 1..Size(arg), NEW o \in Options \union Flags, Block(arg)[d] = o
  PROVE  d = 2 /\ o = arg.name
<1>1. \A e \in 1..Len(arg.value) : arg.value[e] # o
  <2>1. arg.value \in Seq(STRING)
    BY DEF Argument
  <2>2. o \notin ToSet(arg.value)
    BY DEF Plain
  <2> QED BY <2>1, <2>2 DEF ToSet
<1>2. o \notin {Space, Quote, ":", "="}
  BY Letters
<1>3. CASE arg.kind = "plain"
  <2>1. /\ Block(arg)[1] = Space /\ Block(arg)[2] = arg.name /\ Block(arg)[3] = ":"
        /\ \A e \in 1..Len(arg.value) : Block(arg)[e + 3] = arg.value[e]
        /\ Size(arg) = Len(arg.value) + 3 /\ Len(arg.value) \in Nat
    BY <1>3, PlainBlock
  <2>2. d \notin {1, 3}
    BY <1>2, <2>1
  <2>3. ~(d > 3)
    <3> SUFFICES ASSUME d > 3 PROVE FALSE
      OBVIOUS
    <3>1. d - 3 \in 1..Len(arg.value) /\ (d - 3) + 3 = d
      BY <2>1
    <3> QED BY <1>1, <2>1, <3>1
  <2>4. d = 2
    BY <2>2, <2>3
  <2> QED BY <2>1, <2>4
<1>4. CASE arg.kind = "quoted"
  <2>1. /\ Block(arg)[1] = Space /\ Block(arg)[2] = arg.name /\ Block(arg)[3] = "="
        /\ Block(arg)[4] = Quote /\ Block(arg)[Len(arg.value) + 5] = Quote
        /\ \A e \in 1..Len(arg.value) : Block(arg)[e + 4] = arg.value[e]
        /\ Size(arg) = Len(arg.value) + 5 /\ Len(arg.value) \in Nat
    BY <1>4, QuotedBlock
  <2>2. d \notin {1, 3, 4} /\ d # Len(arg.value) + 5
    BY <1>2, <2>1
  <2>3. ~(d > 4)
    <3> SUFFICES ASSUME d > 4 PROVE FALSE
      OBVIOUS
    <3>1. d - 4 \in 1..Len(arg.value) /\ (d - 4) + 4 = d
      BY <2>1, <2>2
    <3> QED BY <1>1, <2>1, <3>1
  <2>4. d = 2
    BY <2>2, <2>3
  <2> QED BY <2>1, <2>4
<1> QED BY <1>3, <1>4 DEF Argument

\* An option begins in a block if it is the block of its argument, at its blank.
LEMMA BeginsInside ==
  ASSUME NEW t, NEW arg, NEW i, InPlace(t, arg, i), NEW d \in 1..Size(arg), NEW o \in Options,
         IF arg.kind = "other" THEN Silent(arg.value) ELSE Plain(arg),
         Begins(t, i + d - 1, o)
  PROVE  arg.kind # "other" /\ d = 1 /\ o = arg.name
<1>1. /\ i \in Nat /\ Size(arg) \in Nat
      /\ Is(t, i + d - 1, {Space}) /\ Is(t, i + d, {o}) /\ Is(t, i + d + 1, {":", "="})
  <2>1. i \in Nat /\ Size(arg) \in Nat
    BY InPlaceTypes
  <2>2. (i + d - 1) + 1 = i + d /\ (i + d - 1) + 2 = i + d + 1
    BY <2>1
  <2> QED BY <2>1, <2>2 DEF Begins
<1>2. d # Size(arg)
  <2> SUFFICES ASSUME d = Size(arg) PROVE FALSE
    OBVIOUS
  <2>1. Space \in {o}
    BY <1>1, AfterBlock
  <2> QED BY <2>1, Letters
<1>3. d + 1 # Size(arg)
  <2> SUFFICES ASSUME d + 1 = Size(arg) PROVE FALSE
    OBVIOUS
  <2>1. i + d + 1 = i + Size(arg)
    BY <1>1
  <2>2. Space \in {":", "="}
    BY <1>1, <2>1, AfterBlock
  <2> QED BY <2>2, Letters
<1>4. /\ d + 1 \in 1..Size(arg) /\ d + 2 \in 1..Size(arg)
      /\ i + (d + 1) - 1 = i + d /\ i + (d + 2) - 1 = i + d + 1
  BY <1>1, <1>2, <1>3
<1>5. Block(arg)[d] = Space /\ Block(arg)[d + 1] = o /\ Block(arg)[d + 2] \in {":", "="}
  <2>1. Is(t, i + (d + 1) - 1, {o}) /\ Is(t, i + (d + 2) - 1, {":", "="})
    BY <1>1, <1>4
  <2>2. Block(arg)[d] \in {Space} /\ Block(arg)[d + 1] \in {o} /\ Block(arg)[d + 2] \in {":", "="}
    BY <1>1, <1>4, <2>1, IsInBlock
  <2> QED BY <2>2
<1>6. arg \in Argument
  BY DEF InPlace
<1>7. arg.kind # "other"
  <2> SUFFICES ASSUME arg.kind = "other" PROVE FALSE
    OBVIOUS
  <2>1. Block(arg) = <<Space>> \o arg.value /\ Block(arg) \in Seq(Symbols)
    BY <1>6, OtherBlock
  <2>2. DOMAIN Block(arg) = 1..Size(arg)
    BY <2>1 DEF Size
  <2>3. Begins(Block(arg), d, o)
    BY <1>4, <1>5, <2>2 DEF Begins, Is
  <2> QED BY <2>1, <2>2, <2>3 DEF Silent
<1>8. d + 1 = 2 /\ o = arg.name
  BY <1>4, <1>5, <1>6, <1>7, NamePlace
<1> QED BY <1>7, <1>8

\* A flag stands in a block if it is all of another text.
LEMMA FlagInside ==
  ASSUME NEW t, NEW arg, NEW i, InPlace(t, arg, i), NEW d \in 1..Size(arg), NEW f \in Flags,
         IF arg.kind = "other" THEN Silent(arg.value) ELSE Plain(arg),
         Is(t, i + d - 1, {Space}), Is(t, i + d, {f}), Ends(t, i + d + 1)
  PROVE  arg.kind = "other" /\ arg.value = <<f>>
<1>1. i \in Nat /\ Size(arg) \in Nat /\ i + Size(arg) <= Len(t) + 1 /\ Len(t) \in Nat
  BY InPlaceTypes
<1>2. d # Size(arg)
  <2> SUFFICES ASSUME d = Size(arg) PROVE FALSE
    OBVIOUS
  <2>1. Space \in {f}
    BY AfterBlock
  <2> QED BY <2>1, Letters
<1>3. d + 1 \in 1..Size(arg) /\ i + (d + 1) - 1 = i + d
  BY <1>1, <1>2
<1>4. Block(arg)[d] = Space /\ Block(arg)[d + 1] = f
  <2>1. Is(t, i + (d + 1) - 1, {f})
    BY <1>3
  <2>2. Block(arg)[d] \in {Space} /\ Block(arg)[d + 1] \in {f}
    BY <1>3, <2>1, IsInBlock
  <2> QED BY <2>2
<1>5. arg \in Argument
  BY DEF InPlace
<1>6. arg.kind = "other"
  <2> SUFFICES ASSUME arg.kind # "other" PROVE FALSE
    OBVIOUS
  <2>1. f = arg.name
    BY <1>3, <1>4, <1>5, NamePlace
  <2>2. arg.name \in Options
    BY <1>5 DEF Argument
  <2> QED BY <2>1, <2>2, Letters
<1>7. Block(arg) = <<Space>> \o arg.value /\ Block(arg) \in Seq(Symbols)
  BY <1>5, <1>6, OtherBlock
<1>8. DOMAIN Block(arg) = 1..Size(arg) /\ Len(Block(arg)) = Size(arg)
  BY <1>7 DEF Size
<1>9. arg.value \in Seq(STRING)
  BY <1>5, <1>6 DEF Argument
<1>10. Len(arg.value) \in Nat /\ DOMAIN arg.value = 1..Len(arg.value)
       /\ Size(arg) = Len(arg.value) + 1
  <2>1. Len(<<Space>> \o arg.value) = Len(arg.value) + 1
    BY <1>7, <1>9
  <2> QED BY <1>7, <1>8, <1>9, <2>1
<1>11. ASSUME d < Len(arg.value) PROVE Block(arg)[d + 2] = Space
  <2>1. d + 2 \in 1..Size(arg) /\ i + (d + 2) - 1 = i + d + 1 /\ i + d + 1 # Len(t) + 1
    BY <1>1, <1>10, <1>11
  <2>2. Is(t, i + (d + 2) - 1, {Space})
    BY <2>1 DEF Ends
  <2>3. Block(arg)[d + 2] \in {Space}
    BY <2>1, <2>2, IsInBlock
  <2> QED BY <2>3
<1>12. d \in DOMAIN arg.value
  BY <1>3, <1>10
<1> QED BY <1>4, <1>6, <1>7, <1>11, <1>12 DEF Silent

-----------------------------------------------------------------------------
(***************************************************************************)
(* What the expressions capture in the block of an option: its value, or   *)
(* nothing if it is a PIN not of six digits.                               *)
(***************************************************************************)

LEMMA SubText ==
  ASSUME NEW t, NEW m \in Nat, NEW n \in Nat
  PROVE  SubSeq(t, m, n) = [k \in 1..(n - m + 1) |-> t[m + k - 1]]
OBVIOUS

\* The value v stands in t at b, and is followed there by z.
ValueIn(t, b, v) ==
  /\ t \in Seq(Symbols) /\ v \in Seq(STRING) /\ b \in Nat /\ b >= 2
  /\ b + Len(v) <= Len(t) + 1
  /\ \A e \in 1..Len(v) : t[b + e - 1] = v[e]

LEMMA ValueTypes ==
  ASSUME NEW t, NEW b, NEW v, ValueIn(t, b, v)
  PROVE  /\ b \in Nat /\ b >= 2 /\ Len(v) \in Nat /\ Len(t) \in Nat /\ b + Len(v) <= Len(t) + 1
         /\ DOMAIN t = 1..Len(t) /\ DOMAIN v = 1..Len(v)
         /\ \A k \in b..(b + Len(v) - 1) :
              /\ k - b + 1 \in DOMAIN v /\ k \in DOMAIN t
              /\ t[k] = v[k - b + 1] /\ t[k] \in ToSet(v)
<1>1. /\ b \in Nat /\ b >= 2 /\ Len(v) \in Nat /\ Len(t) \in Nat /\ b + Len(v) <= Len(t) + 1
      /\ DOMAIN t = 1..Len(t) /\ DOMAIN v = 1..Len(v)
  BY DEF ValueIn
<1>2. ASSUME NEW k \in b..(b + Len(v) - 1)
      PROVE  /\ k - b + 1 \in DOMAIN v /\ k \in DOMAIN t
             /\ t[k] = v[k - b + 1] /\ t[k] \in ToSet(v)
  <2>1. k - b + 1 \in 1..Len(v) /\ b + (k - b + 1) - 1 = k /\ k \in 1..Len(t)
    BY <1>1
  <2>2. t[b + (k - b + 1) - 1] = v[k - b + 1]
    BY <2>1 DEF ValueIn
  <2>3. t[k] = v[k - b + 1]
    BY <2>1, <2>2
  <2>4. v[k - b + 1] \in ToSet(v)
    BY <1>1, <2>1 DEF ToSet
  <2> QED BY <1>1, <2>1, <2>3, <2>4
<1> QED BY <1>1, <1>2

\* Reading where it stands gives the value.
LEMMA ValueRead ==
  ASSUME NEW t, NEW b, NEW v, ValueIn(t, b, v)
  PROVE  SubSeq(t, b, b + Len(v) - 1) = v
<1>1. SubSeq(t, b, b + Len(v) - 1) = [k \in 1..(b + Len(v) - 1 - b + 1) |-> t[b + k - 1]]
  <2>1. b \in Nat /\ b + Len(v) - 1 \in Nat
    BY ValueTypes
  <2> QED BY <2>1, SubText
<1>2. b + Len(v) - 1 - b + 1 = Len(v)
  BY ValueTypes
<1>3. v = [k \in 1..Len(v) |-> v[k]]
  BY DEF ValueIn
<1>4. \A k \in 1..Len(v) : t[b + k - 1] = v[k]
  BY DEF ValueIn
<1> QED BY <1>1, <1>2, <1>3, <1>4

\* A run from where it stands that holds none of S, up to one of S or to the end, ends
\* in the value or after it.
LEMMA ValueRun ==
  ASSUME NEW t, NEW b, NEW v, ValueIn(t, b, v), NEW S, ToSet(v) \intersect S = {},
         b + Len(v) = Len(t) + 1 \/ Is(t, b + Len(v), S)
  PROVE  RunEnds(t, b, S) = b..(b + Len(v))
<1>1. /\ b \in Nat /\ Len(v) \in Nat /\ Len(t) \in Nat /\ b + Len(v) <= Len(t) + 1
      /\ \A k \in b..(b + Len(v) - 1) : t[k] \in ToSet(v)
  BY ValueTypes
<1>2. ASSUME NEW e \in b..(b + Len(v)) PROVE e \in RunEnds(t, b, S)
  <2>1. e \in b..(Len(t) + 1)
    BY <1>1
  <2>2. ASSUME NEW k \in b..(e - 1) PROVE t[k] \notin S
    <3>1. k \in b..(b + Len(v) - 1)
      BY <1>1
    <3> QED BY <1>1, <3>1
  <2> QED BY <2>1, <2>2 DEF RunEnds
<1>3. ASSUME NEW e \in RunEnds(t, b, S) PROVE e \in b..(b + Len(v))
  <2>1. e \in b..(Len(t) + 1) /\ \A k \in b..(e - 1) : t[k] \notin S
    BY DEF RunEnds
  <2>2. ~(e > b + Len(v))
    <3> SUFFICES ASSUME e > b + Len(v) PROVE FALSE
      OBVIOUS
    <3>1. b + Len(v) \in b..(e - 1) /\ b + Len(v) # Len(t) + 1
      BY <1>1, <2>1
    <3>2. t[b + Len(v)] \in S
      BY <3>1 DEF Is
    <3> QED BY <2>1, <3>1, <3>2
  <2> QED BY <1>1, <2>1, <2>2
<1> QED BY <1>2, <1>3

\* The value of an option stands after its name, and after the quote if it is in quotes;
\* what follows is the end, or the quote and the end.
LEMMA PlainValue ==
  ASSUME NEW t, NEW arg, NEW i, InPlace(t, arg, i), arg.kind = "plain", Plain(arg)
  PROVE  /\ ValueIn(t, i + 3, arg.value) /\ Ends(t, i + 3 + Len(arg.value))
         /\ ~Is(t, i + 3, {Quote}) /\ OptionalQuote(t, i + 3) = {i + 3}
<1> DEFINE v == arg.value
           E == i + 3 + Len(v)
<1>1. arg \in Argument /\ t \in Seq(Symbols)
  BY DEF InPlace
<1>2. /\ v \in Seq(STRING) /\ Size(arg) = Len(v) + 3 /\ Len(v) \in Nat
      /\ \A d \in 1..Len(v) : Block(arg)[d + 3] = v[d]
  BY <1>1, PlainBlock
<1>3. /\ i \in Nat /\ i >= 2 /\ i + Size(arg) <= Len(t) + 1 /\ Len(t) \in Nat
      /\ \A d \in 1..Size(arg) : t[i + d - 1] = Block(arg)[d]
  BY InPlaceTypes
<1>9. /\ Len(v) \in Nat /\ i \in Nat /\ i >= 2 /\ Len(t) \in Nat
      /\ Size(arg) = Len(v) + 3 /\ i + Size(arg) <= Len(t) + 1
  BY <1>2, <1>3
<1>4. i + Size(arg) = E
  <2> HIDE DEF v
  <2> QED BY <1>9
<1>5. Ends(t, E)
  BY <1>4 DEF InPlace
<1>6. ValueIn(t, i + 3, v)
  <2>1. ASSUME NEW e \in 1..Len(v) PROVE t[i + 3 + e - 1] = v[e]
    <3>1. e + 3 \in 1..Size(arg) /\ i + (e + 3) - 1 = i + 3 + e - 1
      BY <1>2, <1>3
    <3> QED BY <1>2, <1>3, <3>1
  <2>2. i + 3 \in Nat /\ i + 3 >= 2 /\ i + 3 + Len(v) <= Len(t) + 1
    <3> HIDE DEF v
    <3> QED BY <1>9
  <2> QED BY <1>1, <1>2, <2>1, <2>2 DEF ValueIn
<1>7. ~Is(t, i + 3, {Quote})
  <2> SUFFICES ASSUME Is(t, i + 3, {Quote}) PROVE FALSE
    OBVIOUS
  <2>1. CASE Len(v) = 0
    <3>1. i + Size(arg) = i + 3
      BY <1>2, <1>3, <2>1
    <3>2. Space \in {Quote}
      BY <3>1, AfterBlock
    <3> QED BY <3>2, Letters
  <2>2. CASE Len(v) # 0
    <3>1. i + 3 \in (i + 3)..(i + 3 + Len(v) - 1)
      <4> HIDE DEF v
      <4> QED BY <1>9, <2>2
    <3>2. t[i + 3] \in ToSet(v)
      BY <1>6, <3>1, ValueTypes
    <3> QED BY <3>2 DEF Is, Plain
  <2> QED BY <2>1, <2>2
<1>8. OptionalQuote(t, i + 3) = {i + 3}
  BY <1>7 DEF OptionalQuote
<1> QED BY <1>5, <1>6, <1>7, <1>8

LEMMA QuotedValue ==
  ASSUME NEW t, NEW arg, NEW i, InPlace(t, arg, i), arg.kind = "quoted", Plain(arg)
  PROVE  /\ ValueIn(t, i + 4, arg.value) /\ Is(t, i + 3, {Quote})
         /\ OptionalQuote(t, i + 3) = {i + 3, i + 4}
         /\ Is(t, i + 4 + Len(arg.value), {Quote}) /\ Ends(t, i + 5 + Len(arg.value))
<1> DEFINE v == arg.value
           E == i + 5 + Len(v)
<1>1. arg \in Argument /\ t \in Seq(Symbols)
  BY DEF InPlace
<1>2. /\ v \in Seq(STRING) /\ Size(arg) = Len(v) + 5 /\ Len(v) \in Nat
      /\ \A d \in 1..Len(v) : Block(arg)[d + 4] = v[d]
      /\ Block(arg)[4] = Quote /\ Block(arg)[Len(v) + 5] = Quote
  <2>1. v \in Seq(STRING) /\ Size(arg) = Len(v) + 5
    BY <1>1, QuotedBlock
  <2>2. Block(arg)[4] = Quote /\ Block(arg)[Len(v) + 5] = Quote
    BY <1>1, QuotedBlock
  <2>3. \A d \in 1..Len(v) : Block(arg)[d + 4] = v[d]
    BY <1>1, QuotedBlock
  <2> QED BY <2>1, <2>2, <2>3
<1>3. /\ i \in Nat /\ i >= 2 /\ i + Size(arg) <= Len(t) + 1 /\ Len(t) \in Nat
      /\ \A d \in 1..Size(arg) : t[i + d - 1] = Block(arg)[d]
  BY InPlaceTypes
<1>9. /\ Len(v) \in Nat /\ i \in Nat /\ i >= 2 /\ Len(t) \in Nat
      /\ Size(arg) = Len(v) + 5 /\ i + Size(arg) <= Len(t) + 1
  BY <1>2, <1>3
<1>4. i + Size(arg) = E
  <2> HIDE DEF v
  <2> QED BY <1>9
<1>5. Ends(t, E)
  BY <1>4 DEF InPlace
<1>6. ValueIn(t, i + 4, v)
  <2>1. ASSUME NEW e \in 1..Len(v) PROVE t[i + 4 + e - 1] = v[e]
    <3>1. e + 4 \in 1..Size(arg) /\ i + (e + 4) - 1 = i + 4 + e - 1
      BY <1>2, <1>3
    <3> QED BY <1>2, <1>3, <3>1
  <2>2. i + 4 \in Nat /\ i + 4 >= 2 /\ i + 4 + Len(v) <= Len(t) + 1
    <3> HIDE DEF v
    <3> QED BY <1>9
  <2> QED BY <1>1, <1>2, <2>1, <2>2 DEF ValueIn
<1>7. Is(t, i + 3, {Quote}) /\ Is(t, i + 4 + Len(v), {Quote})
  <2>1. 4 \in 1..Size(arg) /\ Len(v) + 5 \in 1..Size(arg)
    BY <1>2
  <2>2. i + 4 - 1 = i + 3 /\ i + (Len(v) + 5) - 1 = i + 4 + Len(v)
    <3> HIDE DEF v
    <3> QED BY <1>9
  <2>3. Is(t, i + 4 - 1, {Quote}) /\ Is(t, i + (Len(v) + 5) - 1, {Quote})
    BY <1>2, <2>1, IsInBlock
  <2> QED BY <2>2, <2>3
<1>8. OptionalQuote(t, i + 3) = {i + 3, i + 4}
  <2>1. (i + 3) + 1 = i + 4
    BY <1>3
  <2> QED BY <1>7, <2>1 DEF OptionalQuote
<1> QED BY <1>5, <1>6, <1>7, <1>8

\* In a value without blanks or quotes nothing ends.
LEMMA NoEndInValue ==
  ASSUME NEW t, NEW b, NEW v, ValueIn(t, b, v), NEW k \in b..(b + Len(v) - 1), Quote \notin ToSet(v)
  PROVE  /\ ~Is(t, k, {Quote}) /\ OptionalQuote(t, k) = {k}
         /\ Space \notin ToSet(v) => ~Ends(t, k)
<1>1. t[k] \in ToSet(v) /\ k \in 1..Len(t) /\ Len(t) \in Nat
  BY ValueTypes
<1>2. k # Len(t) + 1
  BY <1>1
<1> QED BY <1>1, <1>2 DEF Is, OptionalQuote, Ends

\* What an option's value can hold.
LEMMA PlainLetters ==
  ASSUME NEW arg, Plain(arg)
  PROVE  /\ Quote \notin ToSet(arg.value)
         /\ arg.name # "-PASSWORD" \/ arg.kind # "quoted" => Space \notin ToSet(arg.value)
BY DEF Plain

LEMMA EndStops ==
  ASSUME NEW t, NEW k, Ends(t, k), NEW S, Space \in S
  PROVE  k = Len(t) + 1 \/ Is(t, k, S)
BY DEF Ends, Is

LEMMA EndIsNoQuote ==
  ASSUME NEW t, t \in Seq(Symbols), NEW k, Ends(t, k)
  PROVE  ~Is(t, k, {Quote})
<1>1. DOMAIN t = 1..Len(t) /\ Len(t) \in Nat
  OBVIOUS
<1>2. Len(t) + 1 \notin DOMAIN t
  BY <1>1
<1> QED BY <1>2, Letters DEF Ends, Is

LEMMA UsernamePlain ==
  ASSUME NEW t, NEW arg, NEW i, InPlace(t, arg, i), Plain(arg),
         arg.kind = "plain", arg.name = "-USERNAME"
  PROVE  UsernameAt(t, i) = {arg.value}
<1> DEFINE v == arg.value
           b == i + 3
           good(f) == \E g \in OptionalQuote(t, f) : Ends(t, g)
<1>1. /\ ValueIn(t, b, v) /\ Ends(t, b + Len(v)) /\ OptionalQuote(t, b) = {b}
      /\ Quote \notin ToSet(v) /\ Space \notin ToSet(v)
  BY PlainValue, PlainLetters
<1> HIDE DEF v
<1>2. RunEnds(t, b, {Space, Quote}) = b..(b + Len(v))
  <2>1. ToSet(v) \intersect {Space, Quote} = {}
    BY <1>1
  <2>2. b + Len(v) = Len(t) + 1 \/ Is(t, b + Len(v), {Space, Quote})
    BY <1>1, EndStops
  <2> HIDE DEF b
  <2> QED BY <1>1, <2>1, <2>2, ValueRun
<1>3. b \in Nat /\ Len(v) \in Nat
  BY <1>1, ValueTypes
<1>4. SubSeq(t, b, b + Len(v) - 1) = v
  BY <1>1, ValueRead
<1> HIDE DEF b
<1>5. good(b + Len(v))
  BY <1>1 DEF OptionalQuote
<1>6. ASSUME NEW f \in b..(b + Len(v)), good(f) PROVE f = b + Len(v)
  <2> SUFFICES ASSUME f # b + Len(v) PROVE FALSE
    OBVIOUS
  <2>1. f \in b..(b + Len(v) - 1)
    BY <1>3
  <2>2. ~Ends(t, f) /\ OptionalQuote(t, f) = {f}
    BY <1>1, <2>1, NoEndInValue
  <2> QED BY <1>6, <2>2
<1>7. {f \in RunEnds(t, b, {Space, Quote}) : good(f)} = {b + Len(v)}
  <2>1. b + Len(v) \in b..(b + Len(v))
    BY <1>3
  <2> HIDE DEF good
  <2> QED BY <1>2, <1>5, <1>6, <2>1
<1>8. UsernameAt(t, i) = UNION {{SubSeq(t, a, e - 1) :
            e \in {f \in RunEnds(t, a, {Space, Quote}) : good(f)}}
           : a \in OptionalQuote(t, b)}
  BY DEF UsernameAt, b
<1> HIDE DEF good
<1>9. UsernameAt(t, i) = {SubSeq(t, b, b + Len(v) - 1)}
  <2> DEFINE ends(a) == {f \in RunEnds(t, a, {Space, Quote}) : good(f)}
             out(a)  == {SubSeq(t, a, e - 1) : e \in ends(a)}
  <2>1. ends(b) = {b + Len(v)}
    BY <1>7
  <2>2. UsernameAt(t, i) = UNION {out(a) : a \in {b}}
    BY <1>1, <1>8
  <2> HIDE DEF ends
  <2>3. out(b) = {SubSeq(t, b, b + Len(v) - 1)}
    <3> DEFINE m == b + Len(v)
    <3>0. m - 1 = b + Len(v) - 1
      BY <1>3
    <3>1. ends(b) = {m}
      BY <2>1
    <3> HIDE DEF m
    <3>2. out(b) = {SubSeq(t, b, m - 1)}
      BY <3>1
    <3> QED BY <3>0, <3>2
  <2> HIDE DEF out
  <2> QED BY <2>2, <2>3
<1> QED BY <1>4, <1>9 DEF v

LEMMA UsernameQuoted ==
  ASSUME NEW t, NEW arg, NEW i, InPlace(t, arg, i), Plain(arg),
         arg.kind = "quoted", arg.name = "-USERNAME"
  PROVE  UsernameAt(t, i) = {arg.value}
<1> DEFINE v == arg.value
           q == i + 3
           b == i + 4
           z == i + 5 + Len(v)
           good(f) == \E g \in OptionalQuote(t, f) : Ends(t, g)
<1>1. /\ ValueIn(t, b, v) /\ Is(t, q, {Quote}) /\ OptionalQuote(t, q) = {q, b}
      /\ Is(t, b + Len(v), {Quote}) /\ Ends(t, z)
      /\ Quote \notin ToSet(v) /\ Space \notin ToSet(v)
  BY QuotedValue, PlainLetters
<1> HIDE DEF v
<1>2. b \in Nat /\ q \in Nat /\ Len(v) \in Nat /\ Len(t) \in Nat /\ DOMAIN t = 1..Len(t)
  <2>1. i \in Nat
    BY InPlaceTypes
  <2> QED BY <1>1, <2>1, ValueTypes
<1>3. b = q + 1 /\ z = (b + Len(v)) + 1
  <2>1. i \in Nat
    BY InPlaceTypes
  <2> QED BY <1>2, <2>1
<1>4. UsernameAt(t, i) = UNION {{SubSeq(t, a, e - 1) :
            e \in {f \in RunEnds(t, a, {Space, Quote}) : good(f)}}
           : a \in OptionalQuote(t, q)}
  BY DEF UsernameAt, q
<1> HIDE DEF b, q, z
<1>5. RunEnds(t, b, {Space, Quote}) = b..(b + Len(v))
  <2>1. ToSet(v) \intersect {Space, Quote} = {}
    BY <1>1
  <2>2. Is(t, b + Len(v), {Space, Quote})
    BY <1>1 DEF Is
  <2> QED BY <1>1, <2>1, <2>2, ValueRun
<1>6. SubSeq(t, b, b + Len(v) - 1) = v
  BY <1>1, ValueRead
<1>7. good(b + Len(v))
  BY <1>1, <1>3 DEF OptionalQuote
<1>8. ASSUME NEW f \in b..(b + Len(v)), good(f) PROVE f = b + Len(v)
  <2> SUFFICES ASSUME f # b + Len(v) PROVE FALSE
    OBVIOUS
  <2>1. f \in b..(b + Len(v) - 1)
    BY <1>2
  <2>2. ~Ends(t, f) /\ OptionalQuote(t, f) = {f}
    BY <1>1, <2>1, NoEndInValue
  <2> QED BY <1>8, <2>2
<1>9. {f \in RunEnds(t, b, {Space, Quote}) : good(f)} = {b + Len(v)}
  <2>1. b + Len(v) \in b..(b + Len(v))
    BY <1>2
  <2> HIDE DEF good
  <2> QED BY <1>5, <1>7, <1>8, <2>1
<1>10. {f \in RunEnds(t, q, {Space, Quote}) : good(f)} = {}
  <2> SUFFICES ASSUME NEW f \in RunEnds(t, q, {Space, Quote}), good(f) PROVE FALSE
    OBVIOUS
  <2>1. f = q
    <3>1. f \in q..(Len(t) + 1) /\ \A k \in q..(f - 1) : t[k] \notin {Space, Quote}
      BY DEF RunEnds
    <3>2. t[q] \in {Space, Quote}
      BY <1>1 DEF Is
    <3>3. ~(q \in q..(f - 1))
      BY <3>1, <3>2
    <3> QED BY <1>2, <3>1, <3>3
  <2>2. ~Ends(t, q)
    BY <1>1, EndIsNoQuote DEF ValueIn
  <2>3. ~Ends(t, b)
    <3>1. CASE Len(v) = 0
      <4>1. Is(t, b, {Quote})
        BY <1>1, <1>2, <3>1
      <4> QED BY <1>1, <4>1, EndIsNoQuote DEF ValueIn
    <3>2. CASE Len(v) # 0
      <4>1. b \in b..(b + Len(v) - 1)
        BY <1>2, <3>2
      <4> QED BY <1>1, <4>1, NoEndInValue
    <3> QED BY <3>1, <3>2
  <2> QED BY <1>1, <2>1, <2>2, <2>3
<1> HIDE DEF good
<1>11. UsernameAt(t, i) = {SubSeq(t, b, b + Len(v) - 1)}
  <2> DEFINE ends(a) == {f \in RunEnds(t, a, {Space, Quote}) : good(f)}
             out(a)  == {SubSeq(t, a, e - 1) : e \in ends(a)}
  <2>1. ends(b) = {b + Len(v)} /\ ends(q) = {}
    BY <1>9, <1>10
  <2>2. UsernameAt(t, i) = UNION {out(a) : a \in {q, b}}
    BY <1>1, <1>4
  <2> HIDE DEF ends
  <2>3. out(b) = {SubSeq(t, b, b + Len(v) - 1)}
    <3> DEFINE m == b + Len(v)
    <3>0. m - 1 = b + Len(v) - 1
      BY <1>2
    <3>1. ends(b) = {m}
      BY <2>1
    <3> HIDE DEF m
    <3>2. out(b) = {SubSeq(t, b, m - 1)}
      BY <3>1
    <3> QED BY <3>0, <3>2
  <2>4. out(q) = {}
    BY <2>1
  <2> HIDE DEF out
  <2> QED BY <2>2, <2>3, <2>4
<1> QED BY <1>6, <1>11 DEF v

LEMMA PasswordPlain ==
  ASSUME NEW t, NEW arg, NEW i, InPlace(t, arg, i), Plain(arg),
         arg.kind = "plain", arg.name = "-PASSWORD"
  PROVE  PasswordAt(t, i) = {arg.value}
<1> DEFINE v == arg.value
           b == i + 3
           quoted == {e \in RunEnds(t, i + 4, {Quote}) :
                       Is(t, i + 3, {Quote}) /\ Is(t, e, {Quote}) /\ Ends(t, e + 1)}
           bare == {e \in RunEnds(t, b, {Space, Quote}) : Ends(t, e)}
<1>1. /\ ValueIn(t, b, v) /\ Ends(t, b + Len(v)) /\ ~Is(t, b, {Quote})
      /\ Quote \notin ToSet(v) /\ Space \notin ToSet(v)
  BY PlainValue, PlainLetters
<1> HIDE DEF v
<1>2. quoted = {}
  BY <1>1
<1>3. PasswordAt(t, i) =
        {SubSeq(t, i + 4, e - 1) : e \in quoted} \union {SubSeq(t, b, e - 1) : e \in bare}
  BY DEF PasswordAt
<1> HIDE DEF quoted, b
<1>4. RunEnds(t, b, {Space, Quote}) = b..(b + Len(v))
  <2>1. ToSet(v) \intersect {Space, Quote} = {}
    BY <1>1
  <2>2. b + Len(v) = Len(t) + 1 \/ Is(t, b + Len(v), {Space, Quote})
    BY <1>1, EndStops
  <2> QED BY <1>1, <2>1, <2>2, ValueRun
<1>5. b \in Nat /\ Len(v) \in Nat
  BY <1>1, ValueTypes
<1>6. SubSeq(t, b, b + Len(v) - 1) = v
  BY <1>1, ValueRead
<1>7. ASSUME NEW f \in b..(b + Len(v)), Ends(t, f) PROVE f = b + Len(v)
  <2> SUFFICES ASSUME f # b + Len(v) PROVE FALSE
    OBVIOUS
  <2>1. f \in b..(b + Len(v) - 1)
    BY <1>5
  <2>2. ~Ends(t, f)
    BY <1>1, <2>1, NoEndInValue
  <2> QED BY <1>7, <2>2
<1>8. bare = {b + Len(v)}
  <2>1. b + Len(v) \in b..(b + Len(v))
    BY <1>5
  <2> QED BY <1>1, <1>4, <1>7, <2>1
<1> HIDE DEF bare
<1>9. PasswordAt(t, i) = {SubSeq(t, b, b + Len(v) - 1)}
  <2>1. {SubSeq(t, i + 4, e - 1) : e \in quoted} = {}
    BY <1>2
  <2>2. {SubSeq(t, b, e - 1) : e \in bare} = {SubSeq(t, b, b + Len(v) - 1)}
    <3> DEFINE m == b + Len(v)
    <3>0. m - 1 = b + Len(v) - 1
      BY <1>5
    <3>1. bare = {m}
      BY <1>8
    <3> HIDE DEF m
    <3>2. {SubSeq(t, b, e - 1) : e \in bare} = {SubSeq(t, b, m - 1)}
      BY <3>1
    <3> QED BY <3>0, <3>2
  <2> QED BY <1>3, <2>1, <2>2
<1> QED BY <1>6, <1>9 DEF v

LEMMA PasswordQuoted ==
  ASSUME NEW t, NEW arg, NEW i, InPlace(t, arg, i), Plain(arg),
         arg.kind = "quoted", arg.name = "-PASSWORD"
  PROVE  PasswordAt(t, i) = {arg.value}
<1> DEFINE v == arg.value
           q == i + 3
           b == i + 4
           z == i + 5 + Len(v)
           quoted == {e \in RunEnds(t, b, {Quote}) :
                       Is(t, q, {Quote}) /\ Is(t, e, {Quote}) /\ Ends(t, e + 1)}
           bare == {e \in RunEnds(t, q, {Space, Quote}) : Ends(t, e)}
<1>1. /\ ValueIn(t, b, v) /\ Is(t, q, {Quote})
      /\ Is(t, b + Len(v), {Quote}) /\ Ends(t, z) /\ Quote \notin ToSet(v)
  BY QuotedValue, PlainLetters
<1> HIDE DEF v
<1>2. b \in Nat /\ q \in Nat /\ Len(v) \in Nat /\ Len(t) \in Nat /\ DOMAIN t = 1..Len(t)
  <2>1. i \in Nat
    BY InPlaceTypes
  <2> QED BY <1>1, <2>1, ValueTypes
<1>3. z = (b + Len(v)) + 1
  <2>1. i \in Nat
    BY InPlaceTypes
  <2> QED BY <1>2, <2>1
<1>4. PasswordAt(t, i) =
        {SubSeq(t, b, e - 1) : e \in quoted} \union {SubSeq(t, q, e - 1) : e \in bare}
  BY DEF PasswordAt
<1> HIDE DEF b, q, z
<1>5. RunEnds(t, b, {Quote}) = b..(b + Len(v))
  <2>1. ToSet(v) \intersect {Quote} = {}
    BY <1>1
  <2> QED BY <1>1, <2>1, ValueRun
<1>6. SubSeq(t, b, b + Len(v) - 1) = v
  BY <1>1, ValueRead
<1>7. ASSUME NEW f \in b..(b + Len(v)), Is(t, f, {Quote}) PROVE f = b + Len(v)
  <2> SUFFICES ASSUME f # b + Len(v) PROVE FALSE
    OBVIOUS
  <2>1. f \in b..(b + Len(v) - 1)
    BY <1>2
  <2>2. ~Is(t, f, {Quote})
    BY <1>1, <2>1, NoEndInValue
  <2> QED BY <1>7, <2>2
<1>8. quoted = {b + Len(v)}
  <2>1. b + Len(v) \in b..(b + Len(v))
    BY <1>2
  <2> QED BY <1>1, <1>3, <1>5, <1>7, <2>1
<1>9. bare = {}
  <2> SUFFICES ASSUME NEW f \in RunEnds(t, q, {Space, Quote}), Ends(t, f) PROVE FALSE
    OBVIOUS
  <2>1. f = q
    <3>1. f \in q..(Len(t) + 1) /\ \A k \in q..(f - 1) : t[k] \notin {Space, Quote}
      BY DEF RunEnds
    <3>2. t[q] \in {Space, Quote}
      BY <1>1 DEF Is
    <3>3. ~(q \in q..(f - 1))
      BY <3>1, <3>2
    <3> QED BY <1>2, <3>1, <3>3
  <2>2. ~Ends(t, q)
    BY <1>1, EndIsNoQuote DEF ValueIn
  <2> QED BY <2>1, <2>2
<1> HIDE DEF quoted, bare
<1>10. PasswordAt(t, i) = {SubSeq(t, b, b + Len(v) - 1)}
  <2>1. {SubSeq(t, q, e - 1) : e \in bare} = {}
    BY <1>9
  <2>2. {SubSeq(t, b, e - 1) : e \in quoted} = {SubSeq(t, b, b + Len(v) - 1)}
    <3> DEFINE m == b + Len(v)
    <3>0. m - 1 = b + Len(v) - 1
      BY <1>2
    <3>1. quoted = {m}
      BY <1>8
    <3> HIDE DEF m
    <3>2. {SubSeq(t, b, e - 1) : e \in quoted} = {SubSeq(t, b, m - 1)}
      BY <3>1
    <3> QED BY <3>0, <3>2
  <2> QED BY <1>4, <2>1, <2>2
<1> QED BY <1>6, <1>10 DEF v

\* What the expression for -PIN asks of the place b.
SixDigits(t, b) ==
  /\ \A k \in b..(b + 5) : Is(t, k, Digits)
  /\ \E f \in OptionalQuote(t, b + 6) : Ends(t, f)

IsPin(v) == Len(v) = 6 /\ ToSet(v) \subseteq Digits

LEMMA PinValue ==
  ASSUME NEW t, NEW b, NEW v, ValueIn(t, b, v), ToSet(v) \intersect {Space, Quote} = {},
         ~Is(t, b + Len(v), Digits),
         Ends(t, b + Len(v)) \/ (Is(t, b + Len(v), {Quote}) /\ Ends(t, b + Len(v) + 1))
  PROVE  SixDigits(t, b) <=> IsPin(v)
<1>1. /\ b \in Nat /\ Len(v) \in Nat /\ DOMAIN v = 1..Len(v)
      /\ \A k \in b..(b + Len(v) - 1) : k \in DOMAIN t /\ t[k] \in ToSet(v)
  BY ValueTypes
<1>2. ASSUME SixDigits(t, b) PROVE IsPin(v)
  <2>1. ~(Len(v) < 6)
    <3> SUFFICES ASSUME Len(v) < 6 PROVE FALSE
      OBVIOUS
    <3>1. b + Len(v) \in b..(b + 5)
      BY <1>1
    <3> QED BY <1>2, <3>1 DEF SixDigits
  <2>2. ~(Len(v) > 6)
    <3> SUFFICES ASSUME Len(v) > 6 PROVE FALSE
      OBVIOUS
    <3>1. b + 6 \in b..(b + Len(v) - 1)
      BY <1>1
    <3>2. ~Ends(t, b + 6) /\ OptionalQuote(t, b + 6) = {b + 6}
      BY <3>1, NoEndInValue
    <3> QED BY <1>2, <3>2 DEF SixDigits
  <2>3. Len(v) = 6
    BY <1>1, <2>1, <2>2
  <2>4. ASSUME NEW e \in DOMAIN v PROVE v[e] \in Digits
    <3>1. b + e - 1 \in b..(b + 5)
      BY <1>1, <2>3
    <3>2. t[b + e - 1] \in Digits
      BY <1>2, <3>1 DEF SixDigits, Is
    <3>3. t[b + e - 1] = v[e]
      BY <1>1 DEF ValueIn
    <3> QED BY <3>2, <3>3
  <2> QED BY <2>3, <2>4 DEF IsPin, ToSet
<1>3. ASSUME IsPin(v) PROVE SixDigits(t, b)
  <2>1. Len(v) = 6 /\ ToSet(v) \subseteq Digits
    BY <1>3 DEF IsPin
  <2>2. \A k \in b..(b + 5) : Is(t, k, Digits)
    <3> SUFFICES ASSUME NEW k \in b..(b + 5) PROVE Is(t, k, Digits)
      OBVIOUS
    <3>1. k \in b..(b + Len(v) - 1)
      BY <1>1, <2>1
    <3> QED BY <1>1, <2>1, <3>1 DEF Is
  <2>3. \E f \in OptionalQuote(t, b + 6) : Ends(t, f)
    <3>1. CASE Ends(t, b + Len(v))
      BY <2>1, <3>1 DEF OptionalQuote
    <3>2. CASE Is(t, b + Len(v), {Quote}) /\ Ends(t, b + Len(v) + 1)
      <4>1. Is(t, b + 6, {Quote}) /\ Ends(t, (b + 6) + 1)
        BY <2>1, <3>2
      <4> QED BY <4>1 DEF OptionalQuote
    <3> QED BY <3>1, <3>2
  <2> QED BY <2>2, <2>3 DEF SixDigits
<1> QED BY <1>2, <1>3

\* What it captures, from the places it can begin at.
LEMMA PinCaptured ==
  ASSUME NEW t, NEW i, NEW v, NEW b \in OptionalQuote(t, i + 3), ValueIn(t, b, v),
         SixDigits(t, b) <=> IsPin(v),
         \A a \in OptionalQuote(t, i + 3) : SixDigits(t, a) => a = b
  PROVE  PinAt(t, i) = IF IsPin(v) THEN {v} ELSE {}
<1> DEFINE places == {a \in OptionalQuote(t, i + 3) : SixDigits(t, a)}
<1>1. PinAt(t, i) = {SubSeq(t, a, a + 5) : a \in places}
  BY DEF PinAt, SixDigits
<1>2. places = IF IsPin(v) THEN {b} ELSE {}
  OBVIOUS
<1> HIDE DEF places
<1>3. CASE IsPin(v)
  <2>1. Len(v) = 6
    BY <1>3 DEF IsPin
  <2>2. b \in Nat
    BY ValueTypes
  <2>3. b + Len(v) - 1 = b + 5
    BY <2>1, <2>2
  <2>4. SubSeq(t, b, b + 5) = v
    BY <2>3, ValueRead
  <2>5. places = {b}
    BY <1>2, <1>3
  <2>6. {SubSeq(t, a, a + 5) : a \in places} = {SubSeq(t, b, b + 5)}
    BY <2>5
  <2> QED BY <1>1, <1>3, <2>4, <2>6
<1>4. CASE ~IsPin(v)
  <2>1. places = {}
    BY <1>2, <1>4
  <2> QED BY <1>1, <1>4, <2>1
<1> QED BY <1>3, <1>4

LEMMA PinPlain ==
  ASSUME NEW t, NEW arg, NEW i, InPlace(t, arg, i), Plain(arg),
         arg.kind = "plain", arg.name = "-PIN"
  PROVE  PinAt(t, i) = IF IsPin(arg.value) THEN {arg.value} ELSE {}
<1> DEFINE v == arg.value
           b == i + 3
<1>1. /\ ValueIn(t, b, v) /\ Ends(t, b + Len(v)) /\ OptionalQuote(t, b) = {b}
      /\ Quote \notin ToSet(v) /\ Space \notin ToSet(v)
  BY PlainValue, PlainLetters
<1> HIDE DEF v
<1>2. ~Is(t, b + Len(v), Digits)
  <2>1. DOMAIN t = 1..Len(t) /\ Len(t) \in Nat
    BY <1>1, ValueTypes
  <2>2. Len(t) + 1 \notin DOMAIN t /\ Space \notin Digits
    BY <2>1, Letters
  <2> QED BY <1>1, <2>2 DEF Ends, Is
<1>3. ToSet(v) \intersect {Space, Quote} = {}
  BY <1>1
<1>4. SixDigits(t, b) <=> IsPin(v)
  <2> HIDE DEF b
  <2> QED BY <1>1, <1>2, <1>3, PinValue
<1>5. b \in OptionalQuote(t, i + 3) /\ \A a \in OptionalQuote(t, i + 3) : SixDigits(t, a) => a = b
  BY <1>1
<1>6. PinAt(t, i) = IF IsPin(v) THEN {v} ELSE {}
  <2> HIDE DEF b
  <2> QED BY <1>1, <1>4, <1>5, PinCaptured
<1> QED BY <1>6 DEF v

LEMMA PinQuoted ==
  ASSUME NEW t, NEW arg, NEW i, InPlace(t, arg, i), Plain(arg),
         arg.kind = "quoted", arg.name = "-PIN"
  PROVE  PinAt(t, i) = IF IsPin(arg.value) THEN {arg.value} ELSE {}
<1> DEFINE v == arg.value
           q == i + 3
           b == i + 4
<1>1. /\ ValueIn(t, b, v) /\ Is(t, q, {Quote}) /\ OptionalQuote(t, q) = {q, b}
      /\ Is(t, b + Len(v), {Quote}) /\ Ends(t, i + 5 + Len(v))
      /\ Quote \notin ToSet(v) /\ Space \notin ToSet(v)
  BY QuotedValue, PlainLetters
<1> HIDE DEF v
<1>2. b + Len(v) + 1 = i + 5 + Len(v) /\ q \in Nat
  <2>1. i \in Nat /\ Len(v) \in Nat
    BY <1>1, InPlaceTypes, ValueTypes
  <2> QED BY <2>1
<1>3. Quote \notin Digits
  BY Letters
<1>4. ToSet(v) \intersect {Space, Quote} = {}
  BY <1>1
<1>5. ~Is(t, b + Len(v), Digits) /\ Ends(t, b + Len(v) + 1)
  BY <1>1, <1>2, <1>3 DEF Is
<1>6. SixDigits(t, b) <=> IsPin(v)
  <2> HIDE DEF b
  <2> QED BY <1>1, <1>4, <1>5, PinValue
<1>7. ~SixDigits(t, q)
  <2>1. q \in q..(q + 5)
    BY <1>2
  <2>2. ~Is(t, q, Digits)
    BY <1>1, <1>3 DEF Is
  <2> QED BY <2>1, <2>2 DEF SixDigits
<1>8. b \in OptionalQuote(t, i + 3) /\ \A a \in OptionalQuote(t, i + 3) : SixDigits(t, a) => a = b
  BY <1>1, <1>7
<1>9. PinAt(t, i) = IF IsPin(v) THEN {v} ELSE {}
  <2> HIDE DEF b
  <2> QED BY <1>1, <1>6, <1>8, PinCaptured
<1> QED BY <1>9 DEF v

\* What is captured where an option's block begins.
LEMMA CapturedHere ==
  ASSUME NEW t, NEW arg, NEW i, InPlace(t, arg, i), arg.kind # "other", Plain(arg)
  PROVE  CapturesAt(t, i, arg.name) = IF Acceptable(arg) THEN {arg.value} ELSE {}
<1>1. arg \in Argument
  BY DEF InPlace
<1>2. arg.kind \in {"plain", "quoted"} /\ arg.name \in Options
  BY <1>1 DEF Argument
<1>3. Begins(t, i, arg.name)
  <2>1. /\ Size(arg) \in Nat /\ Size(arg) >= 3 /\ Block(arg)[1] = Space
        /\ Block(arg)[2] = arg.name /\ Block(arg)[3] \in {":", "="}
    <3>1. Len(arg.value) \in Nat
      BY <1>1 DEF Argument
    <3>2. CASE arg.kind = "plain"
      BY <1>1, <3>1, <3>2, PlainBlock
    <3>3. CASE arg.kind = "quoted"
      BY <1>1, <3>1, <3>3, QuotedBlock
    <3> QED BY <1>2, <3>2, <3>3
  <2>2. 1 \in 1..Size(arg) /\ 2 \in 1..Size(arg) /\ 3 \in 1..Size(arg)
    BY <2>1
  <2>3. i \in Nat
    BY InPlaceTypes
  <2>4. i + 1 - 1 = i /\ i + 2 - 1 = i + 1 /\ i + 3 - 1 = i + 2
    BY <2>3
  <2>5. /\ Is(t, i + 1 - 1, {Space}) /\ Is(t, i + 2 - 1, {arg.name})
        /\ Is(t, i + 3 - 1, {":", "="})
    BY <2>1, <2>2, IsInBlock
  <2> QED BY <2>4, <2>5 DEF Begins
<1>4. CASE arg.name = "-PIN"
  <2>1. CapturesAt(t, i, arg.name) = PinAt(t, i)
    BY <1>3, <1>4 DEF CapturesAt
  <2>2. PinAt(t, i) = IF IsPin(arg.value) THEN {arg.value} ELSE {}
    BY <1>2, <1>4, PinPlain, PinQuoted
  <2>3. Acceptable(arg) <=> IsPin(arg.value)
    BY <1>4 DEF Acceptable, IsPin
  <2> QED BY <2>1, <2>2, <2>3
<1>5. CASE arg.name = "-USERNAME"
  <2>1. CapturesAt(t, i, arg.name) = UsernameAt(t, i)
    BY <1>3, <1>5 DEF CapturesAt
  <2>2. UsernameAt(t, i) = {arg.value}
    BY <1>2, <1>5, UsernamePlain, UsernameQuoted
  <2>3. Acceptable(arg)
    BY <1>5 DEF Acceptable
  <2> QED BY <2>1, <2>2, <2>3
<1>6. CASE arg.name = "-PASSWORD"
  <2>1. CapturesAt(t, i, arg.name) = PasswordAt(t, i)
    BY <1>3, <1>6 DEF CapturesAt
  <2>2. PasswordAt(t, i) = {arg.value}
    BY <1>2, <1>6, PasswordPlain, PasswordQuoted
  <2>3. Acceptable(arg)
    BY <1>6 DEF Acceptable
  <2> QED BY <2>1, <2>2, <2>3
<1> QED BY <1>2, <1>4, <1>5, <1>6 DEF Options

-----------------------------------------------------------------------------
(***************************************************************************)
(* What a search in the whole text finds.                                  *)
(***************************************************************************)

\* The arguments that give an option a value.
Given(al, o) ==
  {k \in DOMAIN al : al[k].kind # "other" /\ al[k].name = o /\ Acceptable(al[k])}

\* The places of a text where an expression captures anything.
Capturing(t, o) == {i \in DOMAIN t : CapturesAt(t, i, o) # {}}

\* A place where an option begins is the blank of its argument.
LEMMA BeginsWhere ==
  ASSUME NEW al \in Seq(Argument), AllPlain(al), NEW t, NEW at, Laid(t, al, at),
         NEW i \in DOMAIN t, NEW o \in Options, Begins(t, i, o)
  PROVE  \E k \in 1..Len(al) : i = at[k] /\ al[k].kind # "other" /\ al[k].name = o
<1>1. t \in Seq(Symbols) /\ t[1] = "p" /\ DOMAIN t = 1..Len(t) /\ Len(t) \in Nat
  BY DEF Laid
<1>2. t[i] = Space
  BY DEF Begins, Is
<1>3. i # 1
  BY <1>1, <1>2, Letters
<1>4. i \in 2..Len(t)
  BY <1>1, <1>3
<1>5. \E k \in 1..Len(al) : \E d \in 1..Size(al[k]) : i = at[k] + d - 1
  BY <1>4, InBlock
<1>6. PICK k \in 1..Len(al) : \E d \in 1..Size(al[k]) : i = at[k] + d - 1
  BY <1>5
<1>7. PICK d \in 1..Size(al[k]) : i = at[k] + d - 1
  BY <1>6
<1>8. InPlace(t, al[k], at[k]) /\ at[k] \in Nat
  BY BlockInPlace
<1>9. IF al[k].kind = "other" THEN Silent(al[k].value) ELSE Plain(al[k])
  BY DEF AllPlain
<1>10. Begins(t, at[k] + d - 1, o)
  BY <1>7
<1>11. al[k].kind # "other" /\ d = 1 /\ o = al[k].name
  BY <1>8, <1>9, <1>10, BeginsInside
<1>12. i = at[k]
  BY <1>7, <1>8, <1>11
<1> QED BY <1>11, <1>12

\* What an expression captures at the places of the arguments, and that there are no
\* other places.
CaughtAt(t, al, at, o) ==
  /\ \A k \in Given(al, o) : at[k] \in Capturing(t, o) /\ CapturesAt(t, at[k], o) = {al[k].value}
  /\ \A i \in Capturing(t, o) : \E k \in Given(al, o) : i = at[k]

LEMMA CapturedAt ==
  ASSUME NEW al \in Seq(Argument), AllPlain(al), NEW t, NEW at, Laid(t, al, at), NEW o \in Options
  PROVE  CaughtAt(t, al, at, o)
<1>1. ASSUME NEW k \in 1..Len(al), al[k].kind # "other", al[k].name = o
      PROVE  /\ CapturesAt(t, at[k], o) = IF Acceptable(al[k]) THEN {al[k].value} ELSE {}
             /\ at[k] \in DOMAIN t
  <2>1. InPlace(t, al[k], at[k]) /\ at[k] \in Nat
    BY BlockInPlace
  <2>2. Plain(al[k])
    BY <1>1 DEF AllPlain
  <2>3. CapturesAt(t, at[k], o) = IF Acceptable(al[k]) THEN {al[k].value} ELSE {}
    BY <1>1, <2>1, <2>2, CapturedHere
  <2>4. at[k] \in DOMAIN t
    <3>1. /\ at[k] >= 2 /\ Size(al[k]) >= 1 /\ at[k] + Size(al[k]) <= Len(t) + 1 /\ Len(t) \in Nat
          /\ DOMAIN t = 1..Len(t) /\ Size(al[k]) \in Nat
      BY <2>1, InPlaceTypes
    <3> QED BY <2>1, <3>1
  <2> QED BY <2>3, <2>4
<1>2. ASSUME NEW k \in Given(al, o)
      PROVE  at[k] \in Capturing(t, o) /\ CapturesAt(t, at[k], o) = {al[k].value}
  <2>1. k \in 1..Len(al) /\ al[k].kind # "other" /\ al[k].name = o /\ Acceptable(al[k])
    BY DEF Given
  <2>2. CapturesAt(t, at[k], o) = {al[k].value} /\ at[k] \in DOMAIN t
    BY <1>1, <2>1
  <2> QED BY <2>2 DEF Capturing
<1>3. ASSUME NEW i \in Capturing(t, o) PROVE \E k \in Given(al, o) : i = at[k]
  <2>1. i \in DOMAIN t /\ CapturesAt(t, i, o) # {}
    BY DEF Capturing
  <2>2. Begins(t, i, o)
    BY <2>1 DEF CapturesAt
  <2>3. PICK k \in 1..Len(al) : i = at[k] /\ al[k].kind # "other" /\ al[k].name = o
    BY <2>1, <2>2, BeginsWhere
  <2>4. Acceptable(al[k])
    BY <1>1, <2>1, <2>3
  <2>5. k \in Given(al, o)
    BY <2>3, <2>4 DEF Given
  <2> QED BY <2>3, <2>5
<1> QED BY <1>2, <1>3 DEF CaughtAt

\* regex_search finds the first of them, which is what is meant.
LEMMA CapturesMeant ==
  ASSUME NEW al \in Seq(Argument), AllPlain(al), NEW o \in Options
  PROVE  Captures(Text(<<"p">>, al), o) = Meant(al, o)
<1> DEFINE t == Text(<<"p">>, al)
           ks == Given(al, o)
           is == Capturing(t, o)
<1>1. PICK at : Laid(t, al, at)
  BY LaidOut
<1>2. Captures(t, o) =
        IF is = {} THEN {} ELSE CapturesAt(t, CHOOSE i \in is : \A j \in is : i <= j, o)
  BY DEF Captures, Capturing
<1>3. Meant(al, o) = IF ks = {} THEN {} ELSE {al[CHOOSE k \in ks : \A j \in ks : k <= j].value}
  BY DEF Meant, Given
<1> HIDE DEF t
<1>4. /\ \A k \in ks : at[k] \in is /\ CapturesAt(t, at[k], o) = {al[k].value}
      /\ \A i \in is : \E k \in ks : i = at[k]
  <2>1. CaughtAt(t, al, at, o)
    BY <1>1, CapturedAt
  <2> QED BY <2>1 DEF CaughtAt
<1>5. ks \subseteq 1..Len(al) /\ is \subseteq Nat
  <2>1. t \in Seq(Symbols)
    BY <1>1 DEF Laid
  <2> QED BY <2>1 DEF Given, Capturing
<1> HIDE DEF ks, is
<1>6. CASE ks = {}
  <2>1. is = {}
    BY <1>4, <1>6
  <2> QED BY <1>2, <1>3, <1>6, <2>1 DEF t
<1>7. CASE ks # {}
  <2>1. ks \subseteq Nat
    BY <1>5
  <2>2. PICK k \in ks : \A j \in ks : k <= j
    BY <1>7, <2>1, Smallest
  <2>3. at[k] \in is
    BY <1>4
  <2>4. ASSUME NEW i \in is PROVE at[k] <= i
    <3>1. PICK j \in ks : i = at[j]
      BY <1>4
    <3>2. k <= j /\ k \in 1..(Len(al) + 1) /\ j \in 1..(Len(al) + 1)
      BY <1>5, <2>2
    <3>3. CASE k = j
      <4>1. i \in Nat
        BY <1>5
      <4> QED BY <3>1, <3>3, <4>1
    <3>4. CASE k # j
      <4>1. k < j
        BY <3>2, <3>4
      <4>2. at[k] < at[j]
        BY <1>1, <3>2, <4>1, InOrder
      <4>3. at[k] \in Nat /\ at[j] \in Nat
        BY <1>5, <2>3, <3>1
      <4> QED BY <3>1, <4>2, <4>3
    <3> QED BY <3>3, <3>4
  <2>5. (CHOOSE i \in is : \A j \in is : i <= j) = at[k]
    <3>1. ASSUME NEW i \in is, \A j \in is : i <= j PROVE i = at[k]
      <4>1. i <= at[k] /\ at[k] <= i /\ i \in Nat /\ at[k] \in Nat
        BY <1>5, <2>3, <2>4, <3>1
      <4> QED BY <4>1
    <3> QED BY <2>3, <2>4, <3>1
  <2>6. (CHOOSE m \in ks : \A j \in ks : m <= j) = k
    <3>1. ASSUME NEW m \in ks, \A j \in ks : m <= j PROVE m = k
      <4>1. m <= k /\ k <= m /\ m \in Nat /\ k \in Nat
        BY <2>1, <2>2, <3>1
      <4> QED BY <4>1
    <3> QED BY <2>2, <3>1
  <2>7. is # {}
    BY <2>3
  <2>8. Captures(t, o) = CapturesAt(t, at[k], o)
    BY <1>2, <2>5, <2>7 DEF t
  <2>9. Meant(al, o) = {al[k].value}
    BY <1>3, <1>7, <2>6
  <2>10. CapturesAt(t, at[k], o) = {al[k].value}
    BY <1>4
  <2> QED BY <2>8, <2>9, <2>10 DEF t
<1> QED BY <1>6, <1>7

\* A flag is set by an argument that is all of it.
LEMMA FlagMeant ==
  ASSUME NEW al \in Seq(Argument), AllPlain(al), NEW f \in Flags
  PROVE  HasFlag(Text(<<"p">>, al), f) <=> MeantFlag(al, f)
<1> DEFINE t == Text(<<"p">>, al)
<1>1. PICK at : Laid(t, al, at)
  BY LaidOut
<1> HIDE DEF t
<1>2. t \in Seq(Symbols) /\ t[1] = "p" /\ DOMAIN t = 1..Len(t) /\ Len(t) \in Nat
  BY <1>1 DEF Laid
<1>3. ASSUME HasFlag(t, f) PROVE MeantFlag(al, f)
  <2>1. PICK i \in DOMAIN t : Is(t, i, {Space}) /\ Is(t, i + 1, {f}) /\ Ends(t, i + 2)
    BY <1>3 DEF HasFlag
  <2>2. i # 1
    BY <1>2, <2>1, Letters DEF Is
  <2>3. i \in 2..Len(t)
    BY <1>2, <2>2
  <2>4. \E k \in 1..Len(al) : \E d \in 1..Size(al[k]) : i = at[k] + d - 1
    BY <1>1, <2>3, InBlock
  <2>5. PICK k \in 1..Len(al) : \E d \in 1..Size(al[k]) : i = at[k] + d - 1
    BY <2>4
  <2>6. PICK d \in 1..Size(al[k]) : i = at[k] + d - 1
    BY <2>5
  <2>7. InPlace(t, al[k], at[k]) /\ at[k] \in Nat
    BY <1>1, BlockInPlace
  <2>8. i + 1 = at[k] + d /\ i + 2 = at[k] + d + 1
    BY <2>6, <2>7
  <2>9. /\ Is(t, at[k] + d - 1, {Space}) /\ Is(t, at[k] + d, {f}) /\ Ends(t, at[k] + d + 1)
    BY <2>1, <2>6, <2>8
  <2>10. IF al[k].kind = "other" THEN Silent(al[k].value) ELSE Plain(al[k])
    BY DEF AllPlain
  <2>11. al[k].kind = "other" /\ al[k].value = <<f>>
    BY <2>7, <2>9, <2>10, FlagInside
  <2> QED BY <2>11 DEF MeantFlag
<1>4. ASSUME MeantFlag(al, f) PROVE HasFlag(t, f)
  <2>1. PICK k \in 1..Len(al) : al[k].kind = "other" /\ al[k].value = <<f>>
    BY <1>4 DEF MeantFlag
  <2>2. InPlace(t, al[k], at[k]) /\ at[k] \in Nat /\ al[k] \in Argument
    BY <1>1, BlockInPlace
  <2>3. Size(al[k]) = 2 /\ Block(al[k])[1] = Space /\ Block(al[k])[2] = f
    <3>1. /\ Size(al[k]) = Len(al[k].value) + 1 /\ Block(al[k])[1] = Space
          /\ \A d \in 1..Len(al[k].value) : Block(al[k])[d + 1] = al[k].value[d]
      BY <2>1, <2>2, OtherBlock
    <3>2. Len(al[k].value) = 1 /\ al[k].value[1] = f
      BY <2>1
    <3>3. Block(al[k])[1 + 1] = f
      BY <3>1, <3>2
    <3> QED BY <3>1, <3>2, <3>3
  <2>4. 1 \in 1..Size(al[k]) /\ 2 \in 1..Size(al[k])
    BY <2>3
  <2>5. at[k] + 1 - 1 = at[k] /\ at[k] + 2 - 1 = at[k] + 1
    BY <2>2
  <2>6. Is(t, at[k] + 1 - 1, {Space}) /\ Is(t, at[k] + 2 - 1, {f})
    BY <2>2, <2>3, <2>4, IsInBlock
  <2>7. Ends(t, at[k] + 2)
    BY <2>2, <2>3 DEF InPlace
  <2>8. Is(t, at[k], {Space}) /\ Is(t, at[k] + 1, {f})
    BY <2>5, <2>6
  <2>9. at[k] \in DOMAIN t
    BY <2>8 DEF Is
  <2> QED BY <2>7, <2>8, <2>9 DEF HasFlag
<1> QED BY <1>3, <1>4 DEF t

-----------------------------------------------------------------------------
(***************************************************************************)
(* The options and the switches.                                           *)
(***************************************************************************)

\* The arguments stay those of a command line.
ArgumentsOK == args \in Seq(Argument)

LEMMA ArgumentsStay == Spec => []ArgumentsOK
<1>1. Init => ArgumentsOK
  BY ConstantsAssumption DEF Init, ConstantsAssumption, ArgumentsOK
<1>2. ArgumentsOK /\ [Next]_vars => ArgumentsOK'
  BY DEF Next, Notify, Call, vars, ArgumentsOK
<1>3. QED  BY <1>1, <1>2, PTL DEF Spec

\* A number the variable may be read as leaves the switch at b.
Read(b) == \E n \in Parsed : n # NotANumber /\ (b <=> FixWanted(n))

\* The switches are off until oep_notify has read them, and then stay what it read;
\* if std::stoi throws, it is the end.
SwitchInv ==
  /\ ~initdone => ~keeppin /\ ~swap_programid
  /\ initdone  => /\ keeppin <=> HasFlag(CommandText, "-KEEPPIN")
                  /\ fault = "stoi" => ~swap_programid
                  /\ fault # "stoi" => Read(swap_programid)

LEMMA InitSwitch == Init => SwitchInv
BY DEF Init, SwitchInv

LEMMA NextSwitch == SwitchInv /\ StartInv /\ [Next]_vars => SwitchInv'
<1> SUFFICES ASSUME SwitchInv, StartInv, [Next]_vars PROVE SwitchInv'  OBVIOUS
<1> DEFINE keep == HasFlag(CommandText, "-KEEPPIN")
<1>1. UNCHANGED <<args, fixprogramid>>
  BY DEF Next, Notify, Call, vars
<1>2. keep' = keep /\ Parsed' = Parsed /\ \A n : FixWanted(n)' = FixWanted(n)
  BY <1>1 DEF CommandText, Parsed, FixWanted
<1> HIDE DEF keep
<1>3. SwitchInv <=> /\ ~initdone => ~keeppin /\ ~swap_programid
                    /\ initdone  => /\ keeppin <=> keep
                                    /\ fault = "stoi" => ~swap_programid
                                    /\ fault # "stoi" => Read(swap_programid)
  BY Zenon DEF SwitchInv, keep
<1>4. SwitchInv' <=> /\ ~initdone' => ~keeppin' /\ ~swap_programid'
                     /\ initdone'  => /\ keeppin' <=> keep
                                      /\ fault' = "stoi" => ~swap_programid'
                                      /\ fault' # "stoi" => Read(swap_programid)'
  BY <1>2, Zenon DEF SwitchInv, keep
<1>5. swap_programid' = swap_programid => (Read(swap_programid)' <=> Read(swap_programid))
  BY <1>1 DEF Read, Parsed, FixWanted, CommandText
<1>6. CASE UNCHANGED <<initdone, keeppin, swap_programid, fault>>
  BY <1>3, <1>4, <1>5, <1>6, Zenon
<1>7. CASE Notify /\ ~initdone
  <2>1. ~keeppin /\ ~swap_programid
    BY <1>3, <1>7
  <2>2. PICK n \in Parsed :
          IF n = NotANumber THEN fault' = "stoi" /\ UNCHANGED swap_programid
          ELSE fault' = "" /\ swap_programid' = (swap_programid \/ FixWanted(n))
    BY <1>7 DEF Notify, Guard
  <2>3. initdone' = TRUE /\ keeppin' = (keeppin \/ keep)
    BY <1>7 DEF Notify, Guard, keep
  <2>4. CASE n = NotANumber
    BY <1>4, <2>1, <2>2, <2>3, <2>4, Zenon
  <2>5. CASE n # NotANumber
    <3>1. fault' = "" /\ (swap_programid' <=> FixWanted(n))
      BY <2>1, <2>2, <2>5, Zenon
    <3>2. n \in Parsed' /\ (swap_programid' <=> FixWanted(n)')
      BY <1>1, <3>1 DEF Parsed, FixWanted, CommandText
    <3>3. Read(swap_programid)'
      BY <2>5, <3>2, Zenon DEF Read
    <3>4. fault' # "stoi"
      BY <3>1
    <3>5. QED  BY <1>4, <2>1, <2>3, <3>3, <3>4, Zenon
  <2>6. QED  BY <2>4, <2>5
<1>8. CASE Notify /\ initdone
  <2>1. UNCHANGED <<initdone, keeppin, swap_programid, fault>>
    BY <1>8 DEF Notify, Guard
  <2>2. QED  BY <1>6, <2>1
<1>9. CASE Call
  <2>1. UNCHANGED <<initdone, keeppin, swap_programid>> /\ fault = "" /\ fault' # "stoi"
    BY <1>9 DEF Call
  <2>2. fault # "stoi"
    BY <2>1
  <2>3. QED  BY <1>3, <1>4, <1>5, <2>1, <2>2, Zenon
<1>10. CASE UNCHANGED vars
  BY <1>6, <1>10 DEF vars
<1>11. QED  BY <1>7, <1>8, <1>9, <1>10 DEF Next

LEMMA SwitchInvariant == Spec => []SwitchInv
BY InitSwitch, NextSwitch, Invariant, PTL DEF Spec

\* What oep_notify's hooks read from the command line is what its arguments mean, for
\* every command line: values are whole, nobody else's, and of the first argument that
\* has one the expression takes.
THEOREM ArgumentsRead == Spec => []ArgumentsAsMeant
<1>1. ArgumentsOK => ArgumentsAsMeant
  <2> SUFFICES ASSUME ArgumentsOK, AllPlain(args), NEW o \in Options
               PROVE  Captures(CommandText, o) = Meant(args, o)
    BY DEF ArgumentsAsMeant
  <2>1. QED  BY CapturesMeant DEF ArgumentsOK, CommandText
<1>2. QED  BY <1>1, ArgumentsStay, PTL

\* oep_notify leaves each switch as the arguments and the variable mean it: no text that
\* only looks like the flag turns it on, and a flag among options is not missed.
THEOREM SwitchesSet == Spec => []SwitchesAsMeant
<1>1. ArgumentsOK /\ SwitchInv => SwitchesAsMeant
  <2> DEFINE flag == MeantFlag(args, "-FIXPROGRAMID")
  <2> SUFFICES ASSUME ArgumentsOK, SwitchInv, initdone, AllPlain(args)
               PROVE  /\ keeppin <=> MeantFlag(args, "-KEEPPIN")
                      /\ swap_programid => 1 \in Parsed \/ flag
                      /\ fault # "stoi" /\ (Parsed = {1} \/ flag) => swap_programid
    BY DEF SwitchesAsMeant
  <2>1. "-KEEPPIN" \in Flags /\ "-FIXPROGRAMID" \in Flags
    BY DEF Flags
  <2>2. /\ HasFlag(CommandText, "-KEEPPIN") <=> MeantFlag(args, "-KEEPPIN")
        /\ HasFlag(CommandText, "-FIXPROGRAMID") <=> flag
    BY <2>1, FlagMeant DEF ArgumentsOK, CommandText
  <2>3. /\ keeppin <=> HasFlag(CommandText, "-KEEPPIN")
        /\ fault = "stoi" => ~swap_programid
        /\ fault # "stoi" => Read(swap_programid)
    BY DEF SwitchInv
  <2> HIDE DEF flag
  <2>4. Read(swap_programid) => \E n \in Parsed : swap_programid <=> (n = 1 \/ flag)
    BY <2>2, Zenon DEF Read, FixWanted
  <2>5. Read(swap_programid) => (swap_programid => 1 \in Parsed \/ flag)
    BY <2>4, Zenon
  <2>6. Read(swap_programid) => (Parsed = {1} \/ flag => swap_programid)
    BY <2>4, Zenon
  <2>7. QED  BY <2>2, <2>3, <2>5, <2>6, Zenon
<1>2. QED  BY <1>1, ArgumentsStay, SwitchInvariant, PTL
=============================================================================
