------------------------ MODULE ServerOverrideProofs ------------------------
(* Proofs about ServerOverride, for all settings, readings and calls.        *)
EXTENDS ServerOverride, TLAPS

-----------------------------------------------------------------------------
(***************************************************************************)
(* The records the hook works on, field by field.                          *)
(***************************************************************************)

\* A buffer holds a reading of its variable, and nothing if that is not set.
LEMMA BufferFields ==
  ASSUME NEW b \in Buffers, NEW f \in Fields
  PROVE  b[f] \in IF Unset(f) THEN {Empty} ELSE Reading[env[f]]
BY DEF Buffers, ForFields, Fields, TextFields, NumberFields

LEMMA AskedFields ==
  ASSUME NEW a \in Args
  PROVE  /\ a = [f \in Fields |-> a[f]]
         /\ \A f \in TextFields : a[f] \in GameTexts
         /\ \A f \in NumberFields : a[f] \in UInt16
BY ConstantsAssumption
   DEF ConstantsAssumption, Args, ForFields, Fields, TextFields, NumberFields

\* Only the program id is swapped, and what it is swapped for is not swapped.
LEMMA SwappedFields ==
  ASSUME NEW a, a = [f \in Fields |-> a[f]]
  PROVE  /\ Swapped(a) = [f \in Fields |-> Swapped(a)[f]]
         /\ \A f \in Fields \ {"npProgramId"} : Swapped(a)[f] = a[f]
         /\ ~swap_programid => Swapped(a) = a
         /\ swap_programid => Swapped(a)["npProgramId"] \notin DOMAIN SwapOf
         /\ Swapped(a)["npProgramId"] \in {a["npProgramId"], 301, 321, 346, 347}
<1>1. CASE swap_programid /\ a["npProgramId"] \in DOMAIN SwapOf
  <2>1. Swapped(a) = [a EXCEPT !["npProgramId"] = SwapOf[a["npProgramId"]]]
    BY <1>1 DEF Swapped
  <2>2. a["npProgramId"] \in {302, 306, 342, 343}
    BY <1>1 DEF SwapOf
  <2>3. SwapOf[a["npProgramId"]] \in {301, 321, 346, 347}
    BY <2>2 DEF SwapOf
  <2>4. /\ Swapped(a) = [f \in Fields |-> Swapped(a)[f]]
        /\ \A f \in Fields \ {"npProgramId"} : Swapped(a)[f] = a[f]
        /\ Swapped(a)["npProgramId"] = SwapOf[a["npProgramId"]]
    BY <2>1, SMTT(20) DEF Fields, NumberFields
  <2>5. SwapOf[a["npProgramId"]] \notin DOMAIN SwapOf
    BY <2>3 DEF SwapOf
  <2>6. QED  BY <1>1, <2>3, <2>4, <2>5
<1>2. CASE ~(swap_programid /\ a["npProgramId"] \in DOMAIN SwapOf)
  BY <1>2 DEF Swapped
<1>3. QED  BY <1>1, <1>2

LEMMA SixteenBits ==
  ASSUME NEW n \in Int
  PROVE  U16(n) \in UInt16 /\ IsSet(U16(n))
BY SMTT(20) DEF U16, UInt16, IsSet

\* Settings that are read as they stand.
Settings ==
  [f \in Fields |-> IF f \in TextFields THEN env[f]
                    ELSE U16(IF Unset(f) THEN -1 ELSE Stoi[env[f]])]

\* A setting that is stored was read; where nothing throws each that is set is.
LEMMA StoredFields ==
  ASSUME NEW b, NEW f \in Fields
  PROVE  /\ Stored(b, f) => ~Unset(f) /\ ~ThrowsAt(b, f)
         /\ ~Throws(b) => (Stored(b, f) <=> ~Unset(f))
<1>1. Rank[f] \in Nat
  BY DEF Rank, Fields, TextFields, NumberFields
<1>2. ~(Rank[f] < Rank[f])
  BY <1>1
<1>3. QED  BY <1>2 DEF Stored, Throws

\* The settings GetServer leaves: well formed ones in any case, and those of the
\* environment where it does not end the process.
LEMMA ServerFields ==
  ASSUME TypeOK, \A f \in TextFields : Unset(f) => lhdata[f] = Empty,
         NEW b \in Buffers
  PROVE  LET d == GetServer(b) IN
         /\ d = [f \in Fields |-> d[f]]
         /\ \A f \in TextFields   : d[f] \in Values /\ (Unset(f) => d[f] = Empty)
         /\ \A f \in NumberFields : d[f] \in UInt16 /\ IsSet(d[f]) /\ (Unset(f) => d[f] = U16(-1))
         /\ ~Throws(b) => \A f \in Fields : Fits(f) => d[f] = Settings[f]
<1> USE ConstantsAssumption DEF ConstantsAssumption
<1> DEFINE d == GetServer(b)
<1>1. d = [f \in Fields |-> d[f]]
  BY DEF GetServer
<1>2. \A f \in Fields : b[f] \in IF Unset(f) THEN {Empty} ELSE Reading[env[f]]
  BY BufferFields
<1>3. \A f \in Fields : b[f] \in Values /\ (Fits(f) => b[f] = env[f])
  <2>1. \A f \in Fields : ~Unset(f) => Reading[env[f]] \subseteq Values
    BY DEF TypeOK, Unset, Values
  <2>2. QED  BY <1>2, <2>1 DEF Fits, Values
<1>4. ASSUME NEW f \in TextFields
      PROVE  /\ d[f] \in Values /\ (Unset(f) => d[f] = Empty)
             /\ ~Throws(b) => (Fits(f) => d[f] = Settings[f])
  <2>1. f \in Fields /\ d[f] = IF Stored(b, f) THEN b[f] ELSE lhdata[f]
    BY DEF GetServer, Fields
  <2>2. /\ Stored(b, f) => ~Unset(f)
        /\ ~Throws(b) => (Stored(b, f) <=> ~Unset(f))
    BY <2>1, StoredFields
  <2>3. d[f] \in Values /\ (Unset(f) => d[f] = Empty)
    BY <1>3, <2>1, <2>2 DEF TypeOK
  <2>4. QED  BY <1>3, <2>1, <2>2, <2>3 DEF Fits, Settings
<1>5. ASSUME NEW f \in NumberFields
      PROVE  /\ d[f] \in UInt16 /\ IsSet(d[f]) /\ (Unset(f) => d[f] = U16(-1))
             /\ ~Throws(b) => (Fits(f) => d[f] = Settings[f])
  <2>1. /\ f \in Fields /\ f \notin TextFields
        /\ d[f] = U16(IF Stored(b, f) THEN Stoi[b[f]] ELSE -1)
    BY DEF GetServer, Fields, TextFields, NumberFields
  <2>2. /\ Stored(b, f) => ~Unset(f) /\ ~ThrowsAt(b, f)
        /\ ~Throws(b) => (Stored(b, f) <=> ~Unset(f))
    BY <2>1, StoredFields
  <2>3. (IF Stored(b, f) THEN Stoi[b[f]] ELSE -1) \in Int
    BY <1>3, <2>1, <2>2 DEF ThrowsAt
  <2>4. Unset(f) => d[f] = U16(-1)
    BY <2>1, <2>2
  <2>5. ~Throws(b) => (Fits(f) => d[f] = Settings[f])
    BY <1>3, <2>1, <2>2 DEF Fits, Settings
  <2>6. QED  BY <2>1, <2>3, <2>4, <2>5, SixteenBits
<1>6. QED  BY <1>1, <1>4, <1>5 DEF Fields
-----------------------------------------------------------------------------
(***************************************************************************)
(* The arguments a request is passed on with.                              *)
(***************************************************************************)

\* A text that was never set was never read. Each argument of the last request is
\* the setting, where it is read as it stands, and is the game's or the number -1
\* leaves in sixteen bits, where there is none.
PassedInv ==
  /\ \A f \in TextFields : Unset(f) => lhdata[f] = Empty
  /\ asked = [f \in Fields |-> asked[f]] /\ passed = [f \in Fields |-> passed[f]]
  /\ Passed =>
       /\ \A f \in Fields : Fits(f) => passed[f] = Settings[f]
       /\ \A f \in TextFields : Unset(f) => passed[f] = asked[f]
       /\ HasAny => \A f \in NumberFields : Unset(f) => passed[f] = U16(-1)
       /\ ~HasAny => passed = Swapped(asked)

\* A request that is passed on: what it leaves of the arguments it was made with.
LEMMA PassedOn ==
  ASSUME TypeOK, \A f \in TextFields : Unset(f) => lhdata[f] = Empty,
         NEW a \in Args, NEW b \in Buffers, ~Throws(b), NEW p,
         p = IF HasAny THEN Override(Swapped(a), GetServer(b)) ELSE Swapped(a)
  PROVE  /\ p = [f \in Fields |-> p[f]]
         /\ \A f \in TextFields   : p[f] \in Values \union GameTexts
         /\ \A f \in NumberFields : p[f] \in UInt16
         /\ \A f \in Fields       : Fits(f) => p[f] = Settings[f]
         /\ \A f \in TextFields   : Unset(f) => p[f] = a[f]
         /\ HasAny => \A f \in NumberFields : Unset(f) => p[f] = U16(-1)
<1> DEFINE d == GetServer(b)
<1>1. /\ d = [f \in Fields |-> d[f]]
      /\ \A f \in TextFields   : d[f] \in Values /\ (Unset(f) => d[f] = Empty)
      /\ \A f \in NumberFields : d[f] \in UInt16 /\ IsSet(d[f]) /\ (Unset(f) => d[f] = U16(-1))
      /\ \A f \in Fields : Fits(f) => d[f] = Settings[f]
  BY ServerFields
<1>2. /\ a = [f \in Fields |-> a[f]]
      /\ \A f \in TextFields : a[f] \in GameTexts
      /\ \A f \in NumberFields : a[f] \in UInt16
  BY AskedFields
<1>3. /\ Swapped(a) = [f \in Fields |-> Swapped(a)[f]]
      /\ \A f \in TextFields : Swapped(a)[f] = a[f]
      /\ \A f \in NumberFields : Swapped(a)[f] \in UInt16
  <2>1. /\ Swapped(a) = [f \in Fields |-> Swapped(a)[f]]
        /\ \A f \in Fields \ {"npProgramId"} : Swapped(a)[f] = a[f]
        /\ Swapped(a)["npProgramId"] \in {a["npProgramId"], 301, 321, 346, 347}
    BY <1>2, SwappedFields
  <2>2. /\ TextFields \subseteq Fields \ {"npProgramId"}
        /\ NumberFields \subseteq Fields /\ "npProgramId" \in NumberFields
    BY DEF Fields, TextFields, NumberFields
  <2>3. {301, 321, 346, 347} \subseteq UInt16
    BY DEF UInt16
  <2>4. QED  BY <1>2, <2>1, <2>2, <2>3
<1> HIDE DEF d
<1>4. CASE HasAny
  <2>1. p = Override(Swapped(a), d)
    BY <1>4 DEF d
  <2>2. /\ p = [f \in Fields |-> p[f]]
        /\ \A f \in TextFields : p[f] = IF d[f] # Empty THEN d[f] ELSE a[f]
        /\ \A f \in NumberFields : p[f] = d[f]
    BY <1>1, <1>3, <2>1 DEF Override, Fields, TextFields, NumberFields
  <2>3. \A f \in TextFields : Fits(f) => p[f] = Settings[f]
    <3>1. \A f \in TextFields : Fits(f) => Settings[f] # Empty
      BY DEF Fits, Settings, Unset, Fields
    <3>2. QED  BY <1>1, <2>2, <3>1 DEF Fields
  <2>4. /\ \A f \in TextFields   : p[f] \in Values \union GameTexts
        /\ \A f \in NumberFields : p[f] \in UInt16 /\ (Fits(f) => p[f] = Settings[f])
        /\ \A f \in TextFields   : Unset(f) => p[f] = a[f]
        /\ \A f \in NumberFields : Unset(f) => p[f] = U16(-1)
    BY <1>1, <1>2, <2>2 DEF Fields
  <2>5. \A f \in Fields : Fits(f) => p[f] = Settings[f]
    BY <2>3, <2>4 DEF Fields
  <2>6. QED  BY <2>2, <2>4, <2>5
<1>5. CASE ~HasAny
  <2>1. p = Swapped(a) /\ \A f \in Fields : ~Fits(f)
    BY <1>5 DEF HasAny, Fits
  <2>2. QED  BY <1>2, <1>3, <1>5, <2>1 DEF Fields
<1>6. QED  BY <1>4, <1>5
-----------------------------------------------------------------------------
(***************************************************************************)
(* The inductive invariant.                                                *)
(***************************************************************************)

Inv == TypeOK /\ PassedInv

LEMMA InitInv == Init => Inv
<1> SUFFICES ASSUME Init PROVE Inv  OBVIOUS
<1> USE ConstantsAssumption DEF ConstantsAssumption
<1>1. env \in [Fields -> Values]
  BY DEF Init, ForFields, Fields, TextFields, NumberFields, Values, Texts
<1>2. /\ lhdata = [f \in Fields |-> IF f \in TextFields THEN Empty ELSE 0]
      /\ asked = lhdata /\ passed = lhdata /\ requests = 0
  BY DEF Init
<1>3. /\ \A f \in TextFields : lhdata[f] = Empty
      /\ \A f \in NumberFields : lhdata[f] = 0
  BY <1>2 DEF Fields, TextFields, NumberFields
<1> HIDE DEF Init
<1>4. DOMAIN lhdata = Fields /\ 0 \in UInt16 /\ Empty \in Values
  <2>1. DOMAIN lhdata = Fields
    BY ONLY <1>2
  <2>2. 0 \in UInt16
    BY ONLY DEF UInt16
  <2>3. Empty \in Values
    BY DEF Values
  <2>4. QED  BY <2>1, <2>2, <2>3
<1>5. /\ firstrun \in BOOLEAN /\ swap_programid \in BOOLEAN /\ alive \in BOOLEAN
      /\ requests \in 0..MaxRequests
  <2>1. firstrun \in BOOLEAN /\ swap_programid \in BOOLEAN /\ alive \in BOOLEAN
    BY Zenon DEF Init
  <2>2. requests \in 0..MaxRequests
    BY <1>2
  <2>3. QED  BY <2>1, <2>2
<1>6. TypeOK
  BY <1>1, <1>2, <1>3, <1>4, <1>5 DEF TypeOK
<1>7. PassedInv
  BY <1>2, <1>3 DEF PassedInv, Passed
<1>8. QED  BY <1>6, <1>7 DEF Inv

LEMMA NextInv == Inv /\ [Next]_vars => Inv'
<1> SUFFICES ASSUME Inv, [Next]_vars PROVE Inv'  OBVIOUS
<1> USE ConstantsAssumption DEF ConstantsAssumption, Inv
<1>1. CASE UNCHANGED vars
  <2>1. TypeOK'
    BY <1>1 DEF TypeOK, vars
  <2>2. PassedInv'
    BY <1>1 DEF PassedInv, vars, Passed, HasAny, Unset, Fits, Settings, Swapped
  <2>3. QED  BY <2>1, <2>2
<1>2. CASE RequestLogin
  <2> PICK a \in Args, b \in Buffers :
        /\ alive /\ requests < MaxRequests
        /\ requests' = requests + 1
        /\ asked' = a /\ firstrun' = FALSE
        /\ lhdata' = GetServer(b)
        /\ IF Throws(b)
           THEN alive' = FALSE /\ UNCHANGED passed
           ELSE /\ passed' = IF HasAny THEN Override(Swapped(a), lhdata') ELSE Swapped(a)
                /\ UNCHANGED alive
        /\ UNCHANGED <<env, swap_programid>>
    BY <1>2 DEF RequestLogin
  <2>1. a = [f \in Fields |-> a[f]] /\ DOMAIN asked' = Fields
    BY AskedFields
  <2>2. /\ requests' \in 0..MaxRequests /\ firstrun' \in BOOLEAN
        /\ alive' \in BOOLEAN /\ swap_programid' \in BOOLEAN /\ env' \in [Fields -> Values]
    <3>1. requests' \in 0..MaxRequests /\ env' \in [Fields -> Values]
      BY DEF TypeOK
    <3>2. alive \in BOOLEAN /\ swap_programid \in BOOLEAN
      BY DEF TypeOK
    <3>3. firstrun' \in BOOLEAN /\ swap_programid' \in BOOLEAN
      BY <3>2, Zenon
    <3>4. alive' \in BOOLEAN
      BY <3>2, Zenon
    <3>5. QED  BY <3>1, <3>3, <3>4
  <2>3. /\ DOMAIN lhdata' = Fields
        /\ \A f \in TextFields   : lhdata'[f] \in Values /\ (Unset(f) => lhdata'[f] = Empty)
        /\ \A f \in NumberFields : lhdata'[f] \in UInt16
    <3>1. /\ lhdata' = [f \in Fields |-> lhdata'[f]]
          /\ \A f \in TextFields   : lhdata'[f] \in Values /\ (Unset(f) => lhdata'[f] = Empty)
          /\ \A f \in NumberFields : lhdata'[f] \in UInt16
      BY ServerFields DEF PassedInv
    <3>2. QED  BY <3>1
  <2>4. CASE Throws(b)
    <3>1. UNCHANGED <<passed, env, swap_programid>> /\ ~alive' /\ asked' = a
      BY <2>4
    <3>2. TypeOK'
      BY <2>1, <2>2, <2>3, <3>1 DEF TypeOK
    <3>3. PassedInv'
      BY <2>1, <2>3, <3>1 DEF PassedInv, Passed, Unset
    <3>4. QED  BY <3>2, <3>3
  <2>5. CASE ~Throws(b)
    <3>1. /\ passed' = IF HasAny THEN Override(Swapped(a), GetServer(b)) ELSE Swapped(a)
          /\ UNCHANGED <<alive, env, swap_programid>>
      BY <2>5
    <3>2. /\ passed' = [f \in Fields |-> passed'[f]]
          /\ \A f \in TextFields   : passed'[f] \in Values \union GameTexts
          /\ \A f \in NumberFields : passed'[f] \in UInt16
          /\ \A f \in Fields       : Fits(f) => passed'[f] = Settings[f]
          /\ \A f \in TextFields   : Unset(f) => passed'[f] = a[f]
          /\ HasAny => \A f \in NumberFields : Unset(f) => passed'[f] = U16(-1)
          /\ ~HasAny => passed' = Swapped(a)
      BY <2>5, <3>1, PassedOn DEF PassedInv
    <3>3. TypeOK'
      <4>1. DOMAIN passed' = Fields
        BY <3>2
      <4>2. QED  BY <2>1, <2>2, <2>3, <3>2, <4>1 DEF TypeOK
    <3>4. /\ \A f : Unset(f)' = Unset(f) /\ Fits(f)' = Fits(f)
          /\ HasAny' = HasAny /\ Settings' = Settings
          /\ Swapped(asked)' = Swapped(a)
      BY <3>1 DEF Unset, Fits, HasAny, Settings, Swapped
    <3>5. PassedInv'
      BY <2>1, <2>3, <3>2, <3>4 DEF PassedInv
    <3>6. QED  BY <3>3, <3>5
  <2>6. QED  BY <2>4, <2>5
<1>3. QED  BY <1>1, <1>2 DEF Next

LEMMA Invariant == Spec => []Inv
BY InitInv, NextInv, PTL DEF Spec
-----------------------------------------------------------------------------
(***************************************************************************)
(* The theorems.                                                           *)
(***************************************************************************)

\* The state stays well formed, and whatever the environment holds the game is
\* handed texts, and numbers of sixteen bits (GetServer, hkLobby_RequestLogin).
THEOREM TypeCorrect == Spec => []TypeOK
BY Invariant, PTL DEF Inv

\* An address or a game code that is set, and not too long to be read, is the one
\* the game's request is passed on with; one that is not set leaves the game's.
THEOREM TextsPassedOn == Spec => []TextsAsConfigured
<1>1. Inv => TextsAsConfigured
  BY DEF Inv, PassedInv, TextsAsConfigured, Settings, Fields
<1>2. QED  BY <1>1, Invariant, PTL

\* A port or a program id that is set is the one passed on, cut to sixteen bits, also
\* when -FIXPROGRAMID would exchange the game's id or this one.
THEOREM NumbersPassedOn == Spec => []NumbersAsConfigured
<1>1. Inv => NumbersAsConfigured
  <2>1. \A f \in NumberFields : f \in Fields /\ f \notin TextFields
    BY DEF Fields, TextFields, NumberFields
  <2>2. \A f \in NumberFields : Fits(f) => Settings[f] = U16(Stoi[env[f]])
    BY <2>1 DEF Settings, Fits
  <2>3. QED  BY <2>1, <2>2 DEF Inv, PassedInv, NumbersAsConfigured
<1>2. QED  BY <1>1, Invariant, PTL

\* With no server setting a request is the game's own but for the program id, and
\* with -FIXPROGRAMID an id that has a counterpart is never passed on.
THEOREM AloneButForTheId == Spec => []OnlyTheIdIsFixed
<1>1. Inv => OnlyTheIdIsFixed
  <2> SUFFICES ASSUME Inv, Passed, \A f \in Fields : Unset(f)
               PROVE  /\ \A f \in Fields \ {"npProgramId"} : passed[f] = asked[f]
                      /\ ~swap_programid => passed = asked
                      /\ swap_programid => passed["npProgramId"] \notin DOMAIN SwapOf
    BY DEF OnlyTheIdIsFixed
  <2>1. passed = Swapped(asked) /\ asked = [f \in Fields |-> asked[f]]
    BY DEF Inv, PassedInv, HasAny
  <2>2. QED  BY <2>1, SwappedFields
<1>2. QED  BY <1>1, Invariant, PTL
=============================================================================
