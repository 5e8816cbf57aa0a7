--------------------------- MODULE PinPanelProofs ---------------------------
(* Proofs about PinPanel, for all texts, secrets, readings and bounds.       *)
EXTENDS PinPanel, TLAPS

\* The mark for no submission is well formed.
LEMMA NobodyType == Nobody \in [auto : BOOLEAN, code : Pins] /\ ~Nobody.auto
BY DEF Nobody, NoDigit, Pins

\* Reading a source keeps the PIN, the sources and the history well formed.
LEMMA LoadType ==
  ASSUME TypeOK, NEW s \in Sources, Load(s)
  PROVE  /\ pincode' \in Pins
         /\ given' \in [Sources -> EnvValues]
         /\ \A t \in PinSources : given'[t] \in Texts \union {Unset}
         /\ given'[OtpSource] \in Secrets \union {Unset}
         /\ loadedIn' \in [Sources -> SUBSET (1..MaxLaunch)]
<1> USE ConstantsAssumption DEF ConstantsAssumption
<1>1. pincode' \in Pins
  <2>1. CASE s = OtpSource
    <3>1. given[s] \in Secrets
      BY <2>1 DEF Load, FirstSource, TypeOK
    <3>2. Totp[given[s]][now] \subseteq DigitPins
      BY <3>1 DEF TypeOK
    <3>3. DigitPins \subseteq Pins
      BY DEF DigitPins, Pins
    <3>4. QED  BY <2>1, <3>2, <3>3 DEF Load, Readings
  <2>2. CASE s # OtpSource
    <3>1. given[s] \in Texts
      BY <2>2 DEF Load, FirstSource, Sources, TypeOK
    <3>2. Reading[given[s]] \subseteq Pins
      BY <3>1
    <3>3. QED  BY <2>2, <3>2 DEF Load, Readings
  <2>3. QED  BY <2>1, <2>2
<1>2. /\ given' \in [Sources -> EnvValues]
      /\ \A t \in PinSources : given'[t] \in Texts \union {Unset}
      /\ given'[OtpSource] \in Secrets \union {Unset}
  BY DEF Load, Consumed, TypeOK, EnvValues, Sources, PinSources, OtpSource
<1>3. loadedIn' \in [Sources -> SUBSET (1..MaxLaunch)]
  BY DEF Load, TypeOK
<1>4. QED  BY <1>1, <1>2, <1>3

\* Any step of the hook leaves the panel well formed.
LEMMA HookType ==
  ASSUME TypeOK, NEW fail \in 0..5, NEW entered \in {0, 6}, NEW layout \in Layouts,
         NEW queue \in Nat, pincount < MaxUpdates,
         hkUpdateVerifyMode(fail, entered, layout, queue)
  PROVE  /\ alive' \in BOOLEAN
         /\ given' \in [Sources -> EnvValues]
         /\ \A s \in PinSources : given'[s] \in Texts \union {Unset}
         /\ given'[OtpSource] \in Secrets \union {Unset}
         /\ pincode' \in Pins /\ pincount' \in 0..MaxUpdates
         /\ numpad' \in [Buttons -> 0..9] /\ input' \in Pins
         /\ curInputCount' \in {0, 6} /\ verifyFailCount' \in 0..4
         /\ keyboardEnabled' \in BOOLEAN /\ inFlight' \in Nat
         /\ submission' \in [auto : BOOLEAN, code : Pins]
         /\ loadedIn' \in [Sources -> SUBSET (1..MaxLaunch)]
<1> USE ConstantsAssumption DEF ConstantsAssumption
<1>1. keyboardEnabled' \in BOOLEAN /\ verifyFailCount' \in 0..4
  BY DEF hkUpdateVerifyMode, Clamped
<1>2. numpad' \in [Buttons -> 0..9]
  BY DEF hkUpdateVerifyMode, Unrandomized, Buttons
<1>3. CASE AutoConfirm(queue)
  <2>1. /\ pincode' \in Pins
        /\ given' \in [Sources -> EnvValues]
        /\ \A s \in PinSources : given'[s] \in Texts \union {Unset}
        /\ given'[OtpSource] \in Secrets \union {Unset}
        /\ loadedIn' \in [Sources -> SUBSET (1..MaxLaunch)]
    <3>1. CASE UNCHANGED <<pincode, given, loadedIn>>
      BY <3>1 DEF TypeOK
    <3>2. CASE \E s \in Sources : Load(s)
      BY <3>2, LoadType
    <3>3. QED  BY <1>3, <3>1, <3>2 DEF AutoConfirm, GetPinTrue
  <2>2. Code(numpad', input') \in Pins
    <3>1. \A i \in Pos : (IF input'[i] \in Buttons THEN numpad'[input'[i]] ELSE NoDigit) \in Int
      <4>1. \A b \in Buttons : numpad'[b] \in Int
        BY <1>2
      <4>2. NoDigit \in Int
        BY DEF NoDigit
      <4>3. QED  BY <4>1, <4>2
    <3>2. QED  BY <3>1 DEF Code, Pins
  <2>3. submission' = [auto |-> TRUE, code |-> Code(numpad', input')]
    BY <1>3 DEF AutoConfirm, hkProcessConfirmClick, GameConfirm
  <2>4. submission' \in [auto : BOOLEAN, code : Pins]
    BY <2>2, <2>3 DEF TypeOK
  <2>5. /\ alive' \in BOOLEAN /\ pincount' \in 0..MaxUpdates /\ inFlight' \in Nat
        /\ input' \in Pins /\ curInputCount' \in {0, 6}
    BY <1>3, <2>1 DEF AutoConfirm, hkProcessConfirmClick, GameConfirm, TypeOK
  <2>6. QED  BY <1>1, <1>2, <2>1, <2>4, <2>5
<1>4. CASE NoAutoConfirm(entered, queue) /\ UNCHANGED <<pincode, given, loadedIn>>
  BY <1>1, <1>2, <1>4, NobodyType DEF NoAutoConfirm, TypeOK
<1>5. CASE Terminate
  <2>1. pincount' \in 0..MaxUpdates
    BY <1>5 DEF Terminate, TypeOK
  <2>2. submission' \in [auto : BOOLEAN, code : Pins]
    BY <1>5, NobodyType DEF Terminate
  <2>3. QED  BY <1>1, <1>2, <1>5, <2>1, <2>2 DEF Terminate, TypeOK
<1>6. QED
  BY <1>3, <1>4, <1>5 DEF hkUpdateVerifyMode, GetPinFalse
-----------------------------------------------------------------------------
(***************************************************************************)
(* Type correctness.                                                       *)
(***************************************************************************)

LEMMA InitType == Init => TypeOK
<1> SUFFICES ASSUME Init PROVE TypeOK  OBVIOUS
<1> USE ConstantsAssumption DEF ConstantsAssumption
<1>1. /\ given \in [Sources -> EnvValues]
      /\ \A s \in PinSources : given[s] \in Texts \union {Unset}
      /\ given[OtpSource] \in Secrets \union {Unset}
      /\ given0 = given
  BY DEF Init, EnvValues
<1>2. NoPin \in Pins
  BY DEF NoPin, Pins
<1>3. Nobody \in [auto : BOOLEAN, code : Pins]
  BY NobodyType
<1>4. numpad \in [Buttons -> 0..9]
  BY DEF Init
<1>5. loadedIn \in [Sources -> SUBSET (1..MaxLaunch)]
  BY DEF Init
<1>6. /\ pincount \in 0..MaxUpdates /\ curInputCount \in {0, 6}
      /\ verifyFailCount \in 0..4 /\ inFlight \in Nat
      /\ now \in 0..MaxTime /\ launch \in 1..MaxLaunch
  BY DEF Init
<1>7. /\ alive \in BOOLEAN /\ keeppin \in BOOLEAN /\ panelOpen \in BOOLEAN
      /\ keyboardEnabled \in BOOLEAN
      /\ rejected \in BOOLEAN /\ failedHere \in BOOLEAN
  BY DEF Init
<1>8. pincode \in Pins /\ input \in Pins /\ submission = Nobody
  BY <1>2 DEF Init
<1>9. QED  BY <1>1, <1>3, <1>4, <1>5, <1>6, <1>7, <1>8 DEF TypeOK

LEMMA NextType == TypeOK /\ [Next]_vars => TypeOK'
<1> SUFFICES ASSUME TypeOK, [Next]_vars PROVE TypeOK'  OBVIOUS
<1> USE ConstantsAssumption DEF ConstantsAssumption
<1>1. CASE Open
  <2> PICK layout \in Layouts, fail \in {0, verifyFailCount} :
        /\ alive /\ ~panelOpen /\ pincount < MaxUpdates
        /\ panelOpen' = TRUE
        /\ hkUpdateVerifyMode(fail, 0, layout, 0)
        /\ failedHere' = (failedHere /\ fail # 0)
        /\ UNCHANGED <<keeppin, now, launch, given0, rejected>>
    BY <1>1 DEF Open
  <2>1. fail \in 0..5
    BY DEF TypeOK
  <2>2. QED  BY <2>1, HookType DEF TypeOK
<1>2. CASE Redraw
  <2> PICK layout \in Layouts :
        /\ Usable /\ pincount < MaxUpdates
        /\ hkUpdateVerifyMode(verifyFailCount, curInputCount, layout, inFlight)
        /\ UNCHANGED <<panelOpen, failedHere, keeppin, now, launch, given0, rejected>>
    BY <1>2 DEF Redraw
  <2>1. verifyFailCount \in 0..5 /\ curInputCount \in {0, 6} /\ inFlight \in Nat
    BY DEF TypeOK
  <2>2. QED  BY <2>1, HookType, SMTT(20) DEF TypeOK
<1>3. CASE UserConfirm
  <2>1. input' \in Pins /\ curInputCount' \in {0, 6}
    <3>1. DigitPins \subseteq Pins
      BY DEF DigitPins, Pins
    <3>2. QED  BY <1>3, <3>1 DEF UserConfirm, TypeOK
  <2>2. Code(numpad', input') \in Pins
    <3>1. \A b \in Buttons : numpad'[b] \in Int
      <4>1. numpad' = numpad /\ numpad \in [Buttons -> 0..9]
        BY <1>3 DEF UserConfirm, TypeOK
      <4>2. QED  BY <4>1
    <3>2. NoDigit \in Int
      BY DEF NoDigit
    <3>3. QED  BY <3>1, <3>2 DEF Code, Pins
  <2>3. submission' \in [auto : BOOLEAN, code : Pins]
    <3>1. \/ submission' = [auto |-> FALSE, code |-> Code(numpad', input')]
          \/ submission' = Nobody
      BY <1>3 DEF UserConfirm, hkProcessConfirmClick, GameConfirm
    <3>3. CASE submission' = Nobody
      BY <3>3, NobodyType
    <3>4. CASE submission' = [auto |-> FALSE, code |-> Code(numpad', input')]
      BY <2>2, <3>4
    <3>5. QED  BY <3>1, <3>3, <3>4
  <2>4. inFlight' \in Nat /\ pincount' \in 0..MaxUpdates
    BY <1>3 DEF UserConfirm, hkProcessConfirmClick, GameConfirm, TypeOK
  <2>5. QED  BY <1>3, <2>1, <2>3, <2>4 DEF UserConfirm, process, TypeOK
<1>4. CASE Refuse
  <2> PICK layout \in Layouts :
        /\ alive /\ panelOpen /\ inFlight > 0 /\ pincount < MaxUpdates
        /\ hkUpdateVerifyMode(verifyFailCount + 1, 0, layout, inFlight - 1)
        /\ rejected' = TRUE /\ failedHere' = TRUE
        /\ UNCHANGED <<panelOpen, keeppin, now, launch, given0>>
    BY <1>4 DEF Refuse
  <2>1. verifyFailCount + 1 \in 0..5 /\ inFlight - 1 \in Nat
    BY DEF TypeOK
  <2>2. QED  BY <2>1, HookType DEF TypeOK
<1>5. CASE Close
  BY <1>5, NobodyType DEF Close, plugin, panel, history, process, TypeOK
<1>6. CASE Tick
  <2>1. now' \in 0..MaxTime
    BY <1>6 DEF Tick, TypeOK
  <2>2. QED  BY <1>6, <2>1, NobodyType DEF Tick, plugin, panel, history, process, TypeOK
<1>7. CASE Relaunch
  <2>1. NoPin \in Pins
    BY DEF NoPin, Pins
  <2>2. Nobody \in [auto : BOOLEAN, code : Pins]
    BY NobodyType
  <2>3. launch' \in 1..MaxLaunch
    BY <1>7 DEF Relaunch, TypeOK
  <2>4. /\ pincode' \in Pins /\ input' \in Pins
        /\ submission' \in [auto : BOOLEAN, code : Pins]
    BY <1>7, <2>1, <2>2 DEF Relaunch
  <2>5. /\ given0' \in [Sources -> EnvValues] /\ given' = given
        /\ \A s \in PinSources : given0'[s] \in Texts \union {Unset}
        /\ given0'[OtpSource] \in Secrets \union {Unset}
    BY <1>7 DEF Relaunch, TypeOK
  <2>6. /\ pincount' \in 0..MaxUpdates /\ curInputCount' \in {0, 6}
        /\ verifyFailCount' \in 0..4 /\ inFlight' \in Nat /\ now' \in 0..MaxTime
        /\ numpad' \in [Buttons -> 0..9]
        /\ loadedIn' \in [Sources -> SUBSET (1..MaxLaunch)]
    BY <1>7 DEF Relaunch, TypeOK
  <2>7. /\ alive' \in BOOLEAN /\ keeppin' \in BOOLEAN /\ panelOpen' \in BOOLEAN
        /\ keyboardEnabled' \in BOOLEAN
        /\ rejected' \in BOOLEAN /\ failedHere' \in BOOLEAN
    BY <1>7 DEF Relaunch, TypeOK
  <2>8. /\ given' \in [Sources -> EnvValues]
        /\ \A s \in PinSources : given'[s] \in Texts \union {Unset}
        /\ given'[OtpSource] \in Secrets \union {Unset}
    BY <2>5 DEF TypeOK
  <2>9. QED  BY <2>3, <2>4, <2>5, <2>6, <2>7, <2>8 DEF TypeOK
<1>8. CASE UNCHANGED vars
  BY <1>8 DEF vars, TypeOK
<1>9. QED  BY <1>1, <1>2, <1>3, <1>4, <1>5, <1>6, <1>7, <1>8 DEF Next

\* Every reachable state is well formed, whatever texts, secrets and bounds:
\* in particular _verifyFailCount never reaches five between two calls.
THEOREM TypeCorrect == Spec => []TypeOK
<1>1. QED  BY InitType, NextType, PTL DEF Spec
-----------------------------------------------------------------------------
(***************************************************************************)
(* No automatic retry.                                                     *)
(***************************************************************************)

\* What one call of the hook does to the counters: it submits, which takes an
\* unfailed panel and no earlier update, and leaves pincount at zero; or it
\* counts an update, also when an exception leaves it.
LEMMA HookCases ==
  ASSUME NEW fail, NEW entered, NEW layout, NEW queue,
         hkUpdateVerifyMode(fail, entered, layout, queue)
  PROVE  /\ verifyFailCount' = Clamped(fail)
         /\ \/ fail = 0 /\ pincount = 0 /\ pincount' = 0
            \/ pincount' = pincount + 1 /\ ~submission'.auto
<1>1. verifyFailCount' = Clamped(fail)
  BY DEF hkUpdateVerifyMode
<1>2. CASE AutoWanted(fail) /\ AutoConfirm(queue)
  BY <1>1, <1>2 DEF AutoWanted, AutoConfirm, hkProcessConfirmClick
<1>3. CASE NoAutoConfirm(entered, queue)
  BY <1>1, <1>3, NobodyType DEF NoAutoConfirm
<1>4. CASE Terminate
  BY <1>1, <1>4, NobodyType DEF Terminate
<1>5. QED  BY <1>2, <1>3, <1>4 DEF hkUpdateVerifyMode

\* A refusal leaves its mark on both counters that the condition of the hook
\* reads: on _verifyFailCount for the same verification,
FailInv == failedHere => verifyFailCount > 0

\* on pincount until the user's next click.
RejectInv == rejected => pincount > 0

RetryInv == FailInv /\ RejectInv

\* A call of the hook keeps a failure counted and submits only where none is.
LEMMA HookFails ==
  ASSUME NEW fail \in 0..5, NEW entered, NEW layout, NEW queue,
         hkUpdateVerifyMode(fail, entered, layout, queue)
  PROVE  /\ fail # 0 => verifyFailCount' > 0 /\ ~submission'.auto
BY HookCases DEF Clamped

LEMMA FailStep ==
  ASSUME TypeOK, FailInv, [Next]_vars
  PROVE  FailInv' /\ [AutoStep => ~failedHere']_vars
<1> USE DEF FailInv, AutoStep
<1>1. CASE Open
  <2> PICK layout \in Layouts, fail \in {0, verifyFailCount} :
        /\ hkUpdateVerifyMode(fail, 0, layout, 0)
        /\ failedHere' = (failedHere /\ fail # 0)
    BY <1>1 DEF Open
  <2>1. fail \in 0..5
    BY DEF TypeOK
  <2>2. QED  BY <2>1, HookFails
<1>2. CASE Redraw
  <2> PICK layout \in Layouts :
        /\ hkUpdateVerifyMode(verifyFailCount, curInputCount, layout, inFlight)
        /\ UNCHANGED failedHere
    BY <1>2 DEF Redraw
  <2>1. verifyFailCount \in 0..5
    BY DEF TypeOK
  <2>2. QED  BY <2>1, HookFails
<1>3. CASE UserConfirm
  <2>1. ~submission'.auto
    BY <1>3, NobodyType DEF UserConfirm, hkProcessConfirmClick, GameConfirm
  <2>2. QED  BY <1>3, <2>1 DEF UserConfirm
<1>4. CASE Refuse
  <2> PICK layout \in Layouts :
        hkUpdateVerifyMode(verifyFailCount + 1, 0, layout, inFlight - 1)
    BY <1>4 DEF Refuse
  <2>1. verifyFailCount + 1 \in 0..5 /\ verifyFailCount + 1 # 0
    BY DEF TypeOK
  <2>2. QED  BY <2>1, HookFails
<1>5. CASE Close
  BY <1>5, NobodyType DEF Close, plugin, panel, history
<1>6. CASE Tick
  BY <1>6, NobodyType DEF Tick, plugin, panel, history
<1>7. CASE Relaunch
  BY <1>7, NobodyType DEF Relaunch
<1>8. CASE UNCHANGED vars
  BY <1>8 DEF vars
<1>9. QED  BY <1>1, <1>2, <1>3, <1>4, <1>5, <1>6, <1>7, <1>8 DEF Next

LEMMA RejectStep ==
  ASSUME TypeOK, RejectInv, [Next]_vars
  PROVE  RejectInv' /\ [AutoStep => ~rejected /\ ~rejected']_vars
<1> USE DEF RejectInv, AutoStep
<1>1. pincount \in Nat
  BY ConstantsAssumption DEF ConstantsAssumption, TypeOK
<1>2. ASSUME NEW fail, NEW entered, NEW layout, NEW queue,
             hkUpdateVerifyMode(fail, entered, layout, queue)
      PROVE  /\ rejected => pincount' > 0 /\ ~submission'.auto
             /\ ~submission'.auto => pincount' > 0 \/ pincount = 0
  BY <1>1, <1>2, HookCases
<1>3. CASE Open
  BY <1>2, <1>3 DEF Open
<1>4. CASE Redraw
  BY <1>2, <1>4 DEF Redraw
<1>5. CASE UserConfirm
  <2>1. ~submission'.auto
    BY <1>5, NobodyType DEF UserConfirm, hkProcessConfirmClick, GameConfirm
  <2>2. QED  BY <1>5, <2>1 DEF UserConfirm
<1>6. CASE Refuse
  <2> PICK layout \in Layouts :
        hkUpdateVerifyMode(verifyFailCount + 1, 0, layout, inFlight - 1)
    BY <1>6 DEF Refuse
  <2>1. verifyFailCount + 1 # 0
    BY DEF TypeOK
  <2>2. pincount' = pincount + 1 /\ ~submission'.auto
    BY <2>1, HookCases
  <2>3. QED  BY <1>1, <2>2
<1>7. CASE Close
  BY <1>7, NobodyType DEF Close, plugin, history
<1>8. CASE Tick
  BY <1>8, NobodyType DEF Tick, plugin, history
<1>9. CASE Relaunch
  BY <1>9, NobodyType DEF Relaunch
<1>10. CASE UNCHANGED vars
  BY <1>10 DEF vars
<1>11. QED  BY <1>3, <1>4, <1>5, <1>6, <1>7, <1>8, <1>9, <1>10 DEF Next

LEMMA RetryInvariant == Spec => [](TypeOK /\ RetryInv)
<1>1. Init => RetryInv
  BY DEF Init, RetryInv, FailInv, RejectInv
<1>2. TypeOK /\ RetryInv /\ [Next]_vars => RetryInv'
  BY FailStep, RejectStep DEF RetryInv
<1>3. QED  BY <1>1, <1>2, InitType, NextType, PTL DEF Spec

\* Whatever the order of redraws, clicks, late answers and reopenings, the
\* hook never submits a code in a verification that has seen a refusal.
THEOREM NeverRetries == Spec => NoAutoRetry
<1>1. TypeOK /\ RetryInv /\ [Next]_vars => [AutoStep => ~failedHere']_vars
  BY FailStep DEF RetryInv
<1>2. QED  BY <1>1, RetryInvariant, PTL DEF Spec, NoAutoRetry

\* Nor does it submit one in a later verification, before the user confirmed.
THEOREM NeverAfterRefusal == Spec => NoAutoAfterRefusal
<1>1. TypeOK /\ RetryInv /\ [Next]_vars => [AutoStep => ~rejected]_vars
  BY RejectStep DEF RetryInv
<1>2. QED  BY <1>1, RetryInvariant, PTL DEF Spec, NoAutoAfterRefusal
-----------------------------------------------------------------------------
(***************************************************************************)
(* Where the PIN comes from.                                               *)
(***************************************************************************)

\* A call of the hook reads a source only when no PIN is loaded, and one.
LEMMA HookLoads ==
  ASSUME NEW fail, NEW entered, NEW layout, NEW queue,
         hkUpdateVerifyMode(fail, entered, layout, queue)
  PROVE  \/ UNCHANGED <<pincode, given, loadedIn>>
         \/ pincode[1] = -1 /\ \E s \in Sources : Load(s)
BY DEF hkUpdateVerifyMode, AutoConfirm, GetPinTrue, GetPinFalse, Terminate

\* Every step leaves the sources alone or reads one, and only a new launch
\* forgets a PIN that is loaded.
LEMMA StepLoads ==
  ASSUME [Next]_vars
  PROVE  /\ keeppin' = keeppin
         /\ UNCHANGED <<given, loadedIn>> \/ \E s \in Sources : Load(s)
         /\ launch' = launch => UNCHANGED pincode \/ pincode[1] = -1
<1>1. CASE Open
  BY <1>1, HookLoads DEF Open
<1>2. CASE Redraw
  BY <1>2, HookLoads DEF Redraw
<1>3. CASE UserConfirm
  BY <1>3 DEF UserConfirm, process
<1>4. CASE Refuse
  BY <1>4, HookLoads DEF Refuse
<1>5. CASE Close
  BY <1>5 DEF Close, plugin, process
<1>6. CASE Tick
  BY <1>6 DEF Tick, plugin, process
<1>7. CASE Relaunch
  <2>1. launch' # launch \/ UNCHANGED pincode
    BY <1>7 DEF Relaunch, TypeOK
  <2>2. QED  BY <1>7, <2>1 DEF Relaunch
<1>8. CASE UNCHANGED vars
  BY <1>8 DEF vars
<1>9. QED  BY <1>1, <1>2, <1>3, <1>4, <1>5, <1>6, <1>7, <1>8 DEF Next

\* A variable that gave its PIN is empty from then on; Load needs it not to be.
EnvInv ==
  ~keeppin => \A s \in Sources \ {"-PIN"} :
                /\ loadedIn[s] # {} => given[s] = Unset
                /\ \A m, n \in loadedIn[s] : m = n

LEMMA EnvStep == TypeOK /\ EnvInv /\ [Next]_vars => EnvInv'
<1> SUFFICES ASSUME TypeOK, EnvInv, [Next]_vars, ~keeppin',
                    NEW s \in Sources \ {"-PIN"}
             PROVE  /\ loadedIn'[s] # {} => given'[s] = Unset
                    /\ \A m, n \in loadedIn'[s] : m = n
  BY DEF EnvInv
<1>1. /\ ~keeppin
      /\ loadedIn[s] # {} => given[s] = Unset
      /\ \A m, n \in loadedIn[s] : m = n
  BY StepLoads DEF EnvInv
<1>2. CASE UNCHANGED <<given, loadedIn>>
  BY <1>1, <1>2
<1>3. ASSUME NEW t \in Sources, Load(t)
      PROVE  /\ loadedIn'[s] # {} => given'[s] = Unset
             /\ \A m, n \in loadedIn'[s] : m = n
  <2>1. CASE t = s
    <3>1. loadedIn[s] = {}
      BY <1>1, <1>3, <2>1 DEF Load, FirstSource
    <3>2. loadedIn'[s] = {launch}
      BY <1>3, <2>1, <3>1 DEF Load, TypeOK
    <3>3. given'[s] = Unset
      BY <1>1, <1>3, <2>1 DEF Load, Consumed, TypeOK
    <3>4. QED  BY <3>2, <3>3
  <2>2. CASE t # s
    <3>1. loadedIn'[s] = loadedIn[s]
      BY <1>3, <2>2 DEF Load, TypeOK
    <3>2. given'[s] = given[s]
      BY <1>3, <2>2 DEF Load, Consumed, TypeOK
    <3>3. QED  BY <1>1, <3>1, <3>2
  <2>3. QED  BY <2>1, <2>2
<1>4. QED  BY <1>2, <1>3, StepLoads

\* Without -KEEPPIN no variable gives its PIN to two launches of the game.
THEOREM EnvPinUsedOnce == Spec => []EnvPinOnce
<1>1. Init => EnvInv
  BY DEF Init, EnvInv
<1>2. EnvInv => EnvPinOnce
  BY DEF EnvInv, EnvPinOnce
<1>3. QED  BY <1>1, <1>2, EnvStep, InitType, NextType, PTL DEF Spec

\* With -KEEPPIN the sources stay as they were, so the first stays the first.
KeptInv ==
  keeppin => \A s \in Sources : loadedIn[s] # {} => FirstSource(given, s)

LEMMA KeptStep == TypeOK /\ KeptInv /\ [Next]_vars => KeptInv'
<1> SUFFICES ASSUME TypeOK, KeptInv, [Next]_vars, keeppin',
                    NEW s \in Sources, loadedIn'[s] # {}
             PROVE  FirstSource(given', s)
  BY DEF KeptInv, FirstSource
<1>1. /\ keeppin
      /\ loadedIn[s] # {} => FirstSource(given, s)
  BY StepLoads DEF KeptInv
<1>2. CASE UNCHANGED <<given, loadedIn>>
  BY <1>1, <1>2
<1>3. ASSUME NEW t \in Sources, Load(t) PROVE FirstSource(given', s)
  <2>1. given' = given
    BY <1>1, <1>3 DEF Load, Consumed
  <2>2. CASE t = s
    BY <1>3, <2>1, <2>2 DEF Load
  <2>3. CASE t # s
    <3>1. loadedIn'[s] = loadedIn[s]
      BY <1>3, <2>3 DEF Load, TypeOK
    <3>2. QED  BY <1>1, <2>1, <3>1
  <2>4. QED  BY <2>2, <2>3
<1>4. QED  BY <1>2, <1>3, StepLoads

\* GetPin's order is strict: at most one source is the first.
LEMMA FirstSourceUnique ==
  ASSUME NEW g, NEW s \in Sources, NEW t \in Sources, FirstSource(g, s), FirstSource(g, t)
  PROVE  s = t
<1>1. Rank[s] <= Rank[t] /\ Rank[t] <= Rank[s]
  BY DEF FirstSource
<1>2. Rank[s] \in 1..4 /\ Rank[t] \in 1..4
  BY DEF Rank
<1>3. Rank[s] = Rank[t]
  BY <1>1, <1>2
<1>4. QED  BY <1>3 DEF Rank, Sources, PinSources, OtpSource

\* With -KEEPPIN every launch that loads a PIN loads it from one source.
THEOREM KeptPinFromOneSource == Spec => []KeptPinSameSource
<1>1. Init => KeptInv
  BY DEF Init, KeptInv
<1>2. KeptInv => KeptPinSameSource
  BY FirstSourceUnique DEF KeptInv, KeptPinSameSource
<1>3. QED  BY <1>1, <1>2, KeptStep, InitType, NextType, PTL DEF Spec

-----------------------------------------------------------------------------
(***************************************************************************)
(* The code that is submitted.                                             *)
(***************************************************************************)

\* The codes that source s of this process has stood for up to now.
CodesOf(s) == UNION {Readings(s, given0[s], w) : w \in 0..now}

Proper(s) == FirstSource(given0, s) /\ CodesOf(s) \subseteq DigitPins

\* The first source is untouched, or its code is loaded and cached; this is
\* what keeps a source that is emptied from giving way to the next one.
CodeInv ==
  \A s \in Sources : Proper(s) =>
    /\ (pincode[1] = -1 /\ given = given0) \/ pincode \in CodesOf(s)
    /\ submission.auto => submission.code \in CodesOf(s)

\* On the unshuffled pad six buttons are the digits they stand for.
LEMMA UnrandomizedCode ==
  ASSUME NEW layout, NEW pin \in DigitPins
  PROVE  Code(Unrandomized(layout), pin) = pin
<1>1. \A i \in Pos : pin[i] \in Buttons /\ Unrandomized(layout)[pin[i]] = pin[i]
  BY DEF DigitPins, Buttons, Unrandomized
<1>2. pin = [i \in Pos |-> pin[i]]
  BY DEF DigitPins
<1>3. Code(Unrandomized(layout), pin) = [i \in Pos |-> pin[i]]
  BY <1>1 DEF Code
<1>4. QED  BY <1>2, <1>3

LEMMA HookCode ==
  ASSUME TypeOK, NEW s \in Sources, Proper(s),
         (pincode[1] = -1 /\ given = given0) \/ pincode \in CodesOf(s),
         NEW fail, NEW entered, NEW layout, NEW queue,
         hkUpdateVerifyMode(fail, entered, layout, queue)
  PROVE  /\ (pincode'[1] = -1 /\ given' = given0) \/ pincode' \in CodesOf(s)
         /\ submission' = Nobody \/ submission'.code \in CodesOf(s)
<1>1. pincode \in CodesOf(s) => pincode[1] \in 0..9
  BY DEF Proper, DigitPins, Pos
<1>2. ASSUME pincode[1] = -1, NEW t \in Sources, Load(t)
      PROVE  pincode' \in CodesOf(s)
  <2>1. given = given0
    BY <1>1, <1>2
  <2>2. t = s
    BY <1>2, <2>1, FirstSourceUnique DEF Load, Proper
  <2>3. pincode' \in Readings(s, given0[s], now) /\ now \in 0..now
    BY <1>2, <2>1, <2>2, ConstantsAssumption DEF Load, TypeOK
  <2>4. QED  BY <2>3 DEF CodesOf
<1>3. CASE AutoConfirm(queue)
  <2>1. pincode' \in CodesOf(s)
    <3>1. CASE Loaded /\ UNCHANGED pincode
      BY <3>1 DEF Loaded
    <3>2. CASE pincode[1] = -1 /\ \E t \in Sources : Load(t)
      BY <1>2, <3>2
    <3>3. QED  BY <1>3, <3>1, <3>2 DEF AutoConfirm, GetPinTrue
  <2>2. pincode' \in DigitPins
    BY <2>1 DEF Proper
  <2>3. submission'.code = Code(numpad', input')
    BY <1>3 DEF AutoConfirm, hkProcessConfirmClick, GameConfirm
  <2>4. numpad' = Unrandomized(layout) /\ input' = pincode'
    BY <1>3 DEF hkUpdateVerifyMode, AutoConfirm
  <2>5. submission'.code = pincode'
    BY <2>2, <2>3, <2>4, UnrandomizedCode
  <2>6. QED  BY <2>1, <2>5
<1>4. CASE NoAutoConfirm(entered, queue) /\ UNCHANGED <<pincode, given>>
  BY <1>4 DEF NoAutoConfirm
<1>5. CASE Terminate
  BY <1>5 DEF Terminate
<1>6. QED  BY <1>3, <1>4, <1>5 DEF hkUpdateVerifyMode, GetPinFalse

LEMMA CodeStep == TypeOK /\ CodeInv /\ [Next]_vars => CodeInv'
<1> SUFFICES ASSUME TypeOK, CodeInv, [Next]_vars, NEW s \in Sources, Proper(s)'
             PROVE  /\ (pincode'[1] = -1 /\ given' = given0') \/ pincode' \in CodesOf(s)'
                    /\ submission'.auto => submission'.code \in CodesOf(s)'
  BY DEF CodeInv
<1>1. ASSUME given0' = given0, now' \in {now, now + 1}
      PROVE  Proper(s) /\ CodesOf(s) \subseteq CodesOf(s)'
  <2>1. now \in Int
    BY ConstantsAssumption DEF TypeOK
  <2>2. 0..now \subseteq 0..now'
    BY <1>1, <2>1
  <2>3. CodesOf(s) \subseteq CodesOf(s)'
    BY <1>1, <2>2 DEF CodesOf, Readings
  <2>4. QED  BY <1>1, <2>3 DEF Proper, FirstSource
<1>2. ASSUME UNCHANGED <<given0, now>>
      PROVE  /\ Proper(s) /\ CodesOf(s)' = CodesOf(s)
             /\ (pincode[1] = -1 /\ given = given0) \/ pincode \in CodesOf(s)
             /\ submission.auto => submission.code \in CodesOf(s)
  BY <1>1, <1>2 DEF CodesOf, Readings, CodeInv
<1>3. ASSUME UNCHANGED <<given0, now>>, NEW fail, NEW entered, NEW layout, NEW queue,
             hkUpdateVerifyMode(fail, entered, layout, queue)
      PROVE  /\ (pincode'[1] = -1 /\ given' = given0') \/ pincode' \in CodesOf(s)'
             /\ submission'.auto => submission'.code \in CodesOf(s)'
  BY <1>2, <1>3, HookCode, NobodyType
<1>4. CASE Open
  BY <1>3, <1>4 DEF Open
<1>5. CASE Redraw
  BY <1>3, <1>5 DEF Redraw
<1>6. CASE UserConfirm
  <2>1. ~submission'.auto
    BY <1>6, NobodyType DEF UserConfirm, hkProcessConfirmClick, GameConfirm
  <2>2. QED  BY <1>2, <1>6, <2>1 DEF UserConfirm, process
<1>7. CASE Refuse
  BY <1>3, <1>7 DEF Refuse
<1>8. CASE Close
  BY <1>2, <1>8, NobodyType DEF Close, plugin, process
<1>9. CASE Tick
  BY <1>1, <1>9, NobodyType DEF Tick, plugin, process, CodeInv
<1>10. CASE Relaunch
  BY <1>10 DEF Relaunch, NoPin, Nobody, Pos
<1>11. CASE UNCHANGED vars
  BY <1>2, <1>11 DEF vars
<1>12. QED
  BY <1>4, <1>5, <1>6, <1>7, <1>8, <1>9, <1>10, <1>11 DEF Next

\* What the hook submits is the PIN of the source that GetPin's order puts
\* first, read on a pad that is dealt in order.
THEOREM SubmitsTheConfiguredCode == Spec => []AutoCodeIsConfigured
<1>1. Init => CodeInv
  BY DEF Init, CodeInv, NoPin, Nobody, Pos
<1>2. CodeInv => AutoCodeIsConfigured
  BY DEF CodeInv, AutoCodeIsConfigured, Proper, CodesOf
<1>3. QED  BY <1>1, <1>2, CodeStep, InitType, NextType, PTL DEF Spec
-----------------------------------------------------------------------------
(***************************************************************************)
(* PinPanel implements PinContract.                                        *)
(***************************************************************************)

\* What a PIN spells on the ordered pad is a code, and not the mark for none.
LEMMA SpelledCode ==
  ASSUME NEW digits \in Pins
  PROVE  Code([b \in Buttons |-> b], digits) \in Pins \ {<<>>}
<1>1. \A i \in Pos : (IF digits[i] \in Buttons THEN [b \in Buttons |-> b][digits[i]]
                                             ELSE NoDigit) \in Int
  BY DEF NoDigit, Buttons, Pins
<1>2. Code([b \in Buttons |-> b], digits) \in Pins
  BY <1>1 DEF Code, Pins
<1>3. \A c \in Pins : c # <<>>
  <2> SUFFICES ASSUME NEW c \in Pins, c = <<>> PROVE FALSE  OBVIOUS
  <2>1. 1 \in DOMAIN c
    BY DEF Pins, Pos
  <2>2. DOMAIN <<>> = {}
    BY SMT
  <2>3. QED  BY <2>1, <2>2
<1>4. QED  BY <1>2, <1>3

\* A PIN that is settled on is loaded, so it stays while pincode does.
LEMMA SettledStays ==
  ASSUME UNCHANGED pincode \/ pincode[1] = -1
  PROVE  Settled # <<>> => Settled' = Settled
BY DEF Settled, Loaded, Code

\* A call of the hook, from outside: a submission of what is then settled, if
\* anything is, with no failure and no update before; or none.
LEMMA HookContract ==
  ASSUME TypeOK, NEW fail \in 0..5, NEW entered \in {0, 6}, NEW layout \in Layouts,
         NEW queue \in Nat, pincount < MaxUpdates, inFlight = queue \/ fail # 0,
         hkUpdateVerifyMode(fail, entered, layout, queue)
  PROVE  /\ Settled # <<>> => Settled' = Settled
         /\ \/ /\ fail = 0 /\ pincount = 0
               /\ submission'.auto /\ submission'.code \in Pins
               /\ Settled' # <<>> => submission'.code = Settled'
               /\ inFlight' = queue + 1
            \/ ~submission'.auto /\ inFlight' = queue
<1>1. Settled # <<>> => Settled' = Settled
  BY HookLoads, SettledStays
<1>2. CASE AutoWanted(fail) /\ AutoConfirm(queue)
  <2>1. pincode' \in Pins
    BY HookType
  <2>2. /\ numpad' = [b \in Buttons |-> b] /\ input' = pincode'
        /\ inFlight' = queue + 1
        /\ submission' = [auto |-> TRUE, code |-> Code(numpad', input')]
    BY <1>2 DEF hkUpdateVerifyMode, Unrandomized, AutoConfirm, hkProcessConfirmClick,
                GameConfirm
  <2>3. submission'.auto /\ submission'.code = Code([b \in Buttons |-> b], pincode')
    BY <2>2
  <2>4. Settled' # <<>> => Settled' = Code([b \in Buttons |-> b], pincode')
    BY DEF Settled, Code
  <2>5. QED  BY <1>1, <1>2, <2>1, <2>2, <2>3, <2>4, SpelledCode DEF AutoWanted
<1>3. CASE NoAutoConfirm(entered, queue)
  BY <1>1, <1>3, NobodyType DEF NoAutoConfirm
<1>4. CASE AutoWanted(fail) /\ Terminate
  BY <1>1, <1>4, NobodyType DEF AutoWanted, Terminate
<1>5. QED  BY <1>2, <1>3, <1>4 DEF hkUpdateVerifyMode

\* A window that is not shown has nothing unanswered.
ClosedInv == ~panelOpen => inFlight = 0

LEMMA ClosedStep == TypeOK /\ ClosedInv /\ [Next]_vars => ClosedInv'
<1> SUFFICES ASSUME TypeOK, ClosedInv, [Next]_vars PROVE ClosedInv'  OBVIOUS
<1> USE DEF ClosedInv
<1>1. CASE Open
  BY <1>1 DEF Open
<1>2. CASE Redraw
  BY <1>2 DEF Redraw, Usable
<1>3. CASE UserConfirm
  BY <1>3 DEF UserConfirm, Usable
<1>4. CASE Refuse
  BY <1>4 DEF Refuse
<1>5. CASE Close
  BY <1>5 DEF Close
<1>6. CASE Tick
  BY <1>6 DEF Tick
<1>7. CASE Relaunch
  BY <1>7 DEF Relaunch
<1>8. CASE UNCHANGED vars
  BY <1>8 DEF vars
<1>9. QED  BY <1>1, <1>2, <1>3, <1>4, <1>5, <1>6, <1>7, <1>8 DEF Next

LEMMA ContractInit == Init => Contract!Init
BY NobodyType DEF Init, Contract!Init, Settled, Loaded, NoPin, Pos

\* Every step of PinPanel is one of the contract's.
LEMMA ContractStep ==
  ASSUME TypeOK, RetryInv, ClosedInv, RetryInv', [Next]_vars
  PROVE  [Contract!Next]_(Contract!vars)
<1> USE DEF Contract!Next
<1>1. CASE Open
  <2> PICK layout \in Layouts, fail \in {0, verifyFailCount} :
        /\ alive /\ ~panelOpen /\ pincount < MaxUpdates
        /\ panelOpen' = TRUE
        /\ hkUpdateVerifyMode(fail, 0, layout, 0)
        /\ failedHere' = (failedHere /\ fail # 0)
        /\ UNCHANGED rejected
    BY <1>1 DEF Open
  <2>1. fail \in 0..5 /\ inFlight = 0 /\ 0 \in Nat
    BY DEF TypeOK, ClosedInv
  <2>2. failedHere \in BOOLEAN /\ rejected \in BOOLEAN
    BY DEF TypeOK
  <2>3. /\ Settled # <<>> => Settled' = Settled
        /\ \/ /\ fail = 0 /\ pincount = 0
              /\ submission'.auto /\ submission'.code \in Pins
              /\ Settled' # <<>> => submission'.code = Settled'
              /\ inFlight' = 0 + 1
           \/ ~submission'.auto /\ inFlight' = 0
    BY <2>1, HookContract
  <2>4. Contract!Auto(0) \/ Contract!Idle(0)
    BY <2>2, <2>3 DEF Contract!Auto, Contract!Idle, RetryInv, FailInv, RejectInv
  <2>5. QED  BY <2>2, <2>4 DEF Contract!Appear
<1>2. CASE Redraw
  <2> PICK layout \in Layouts :
        /\ panelOpen /\ pincount < MaxUpdates
        /\ hkUpdateVerifyMode(verifyFailCount, curInputCount, layout, inFlight)
        /\ UNCHANGED <<panelOpen, failedHere, rejected>>
    BY <1>2 DEF Redraw, Usable
  <2>1. verifyFailCount \in 0..5 /\ curInputCount \in {0, 6} /\ inFlight \in Nat
    BY DEF TypeOK
  <2>2. failedHere \in BOOLEAN /\ rejected \in BOOLEAN
    BY DEF TypeOK
  <2>3. /\ Settled # <<>> => Settled' = Settled
        /\ \/ /\ verifyFailCount = 0 /\ pincount = 0
              /\ submission'.auto /\ submission'.code \in Pins
              /\ Settled' # <<>> => submission'.code = Settled'
              /\ inFlight' = inFlight + 1
           \/ ~submission'.auto /\ inFlight' = inFlight
    BY <2>1, HookContract
  <2>4. Contract!Auto(inFlight) \/ Contract!Idle(inFlight)
    BY <2>2, <2>3 DEF Contract!Auto, Contract!Idle, RetryInv, FailInv, RejectInv
  <2>5. QED  BY <2>2, <2>4 DEF Contract!Draw
<1>3. CASE UserConfirm
  <2>1. ~submission'.auto /\ inFlight' \in {inFlight, inFlight + 1}
    BY <1>3, NobodyType DEF UserConfirm, hkProcessConfirmClick, GameConfirm
  <2>2. Settled' = Settled
    BY <1>3 DEF UserConfirm, Settled, Loaded, Code
  <2>3. QED  BY <1>3, <2>1, <2>2 DEF UserConfirm, Usable, Contract!Click
<1>4. CASE Refuse
  <2> PICK layout \in Layouts :
        /\ panelOpen /\ inFlight > 0 /\ pincount < MaxUpdates
        /\ hkUpdateVerifyMode(verifyFailCount + 1, 0, layout, inFlight - 1)
        /\ rejected' = TRUE /\ failedHere' = TRUE
        /\ UNCHANGED panelOpen
    BY <1>4 DEF Refuse
  <2>1. verifyFailCount + 1 \in 1..5 /\ inFlight - 1 \in Nat
    BY DEF TypeOK
  <2>2. ~submission'.auto /\ inFlight' = inFlight - 1
    BY <2>1, HookContract
  <2>3. UNCHANGED pincode
    BY <2>1 DEF hkUpdateVerifyMode, AutoWanted
  <2>4. Settled' = Settled
    BY <2>3 DEF Settled, Loaded, Code
  <2>5. QED  BY <2>2, <2>4 DEF Contract!Refused
<1>5. CASE Close
  <2>1. Settled' = Settled
    BY <1>5 DEF Close, plugin, Settled, Loaded, Code
  <2>2. QED  BY <1>5, <2>1, NobodyType DEF Close, history, Contract!Disappear
<1>6. CASE Tick
  <2>1. Settled' = Settled
    BY <1>6 DEF Tick, plugin, Settled, Loaded, Code
  <2>2. QED  BY <1>6, <2>1, NobodyType DEF Tick, history, Contract!Pass
<1>7. CASE Relaunch
  <2>1. Settled' = <<>>
    BY <1>7 DEF Relaunch, NoPin, Pos, Settled, Loaded
  <2>2. QED  BY <1>7, <2>1, NobodyType DEF Relaunch, Contract!Restart
<1>8. CASE UNCHANGED vars
  <2>1. Settled' = Settled
    BY <1>8 DEF vars, Settled, Loaded, Code
  <2>2. QED  BY <1>8, <2>1 DEF vars, Contract!vars
<1>9. QED  BY <1>1, <1>2, <1>3, <1>4, <1>5, <1>6, <1>7, <1>8 DEF Next

\* The PIN window keeps its contract, for every configuration and every order
\* of the game's calls, the user's clicks and the server's answers.
THEOREM ContractKept == Spec => KeepsContract
<1>1. Init => RetryInv /\ ClosedInv
  BY DEF Init, RetryInv, FailInv, RejectInv, ClosedInv
<1>2. TypeOK /\ RetryInv /\ ClosedInv /\ [Next]_vars
        => RetryInv' /\ ClosedInv' /\ [Contract!Next]_(Contract!vars)
  <2> SUFFICES ASSUME TypeOK, RetryInv, ClosedInv, [Next]_vars
               PROVE  RetryInv' /\ ClosedInv' /\ [Contract!Next]_(Contract!vars)
    OBVIOUS
  <2>1. RetryInv'
    BY FailStep, RejectStep DEF RetryInv
  <2>2. QED  BY <2>1, ClosedStep, ContractStep
<1>3. QED
  BY <1>1, <1>2, ContractInit, InitType, NextType, PTL DEF Spec, KeepsContract, Contract!Spec
=============================================================================
