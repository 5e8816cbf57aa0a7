------------------------------ MODULE PinPanel ------------------------------
(***************************************************************************)
(* The PIN window: GetPin and the two hooks of LoginOtp.h, together with   *)
(* the part of the game they are called from (the panel, the user who      *)
(* clicks, the server that answers), which is modelled only as far as the  *)
(* hooks rely on it.                                                       *)
(*                                                                         *)
(* All hooks run on the game's UI thread, so a hook is one action.  What   *)
(* can interleave is the order in which the game calls them: openings and  *)
(* redraws of the panel, clicks, late answers, the passing of time, and    *)
(* the game restarting itself with the environment its process left.       *)
(***************************************************************************)
EXTENDS Integers

CONSTANTS
  Texts,           \* texts a PIN can be configured with
  Secrets,         \* texts the OTP secret can be configured with
  Malformed,       \* the secrets fromUnpaddedBase32 may throw on
  Unset,           \* a variable that is absent or empty, an absent option
  Reading,         \* Reading[t]: the values of text[i] - '0', i < 6, for text t
  Totp,            \* Totp[s][w]: what the TOTP of secret s in window w can be
  UserPins,        \* the buttons a user may press before clicking confirm
  Layouts,         \* the orders the game deals the number pad in
  MaxUpdates,      \* bound on pincount
  MaxInFlight,     \* bound on unanswered submissions
  MaxTime,         \* bound on the TOTP windows
  MaxLaunch        \* bound on the launches of the game

Pos       == 1..6                  \* the six slots of pincode and _otpInputList
Buttons   == 0..9                  \* the entries of _otpNumpadList
Pins      == [Pos -> Int]
DigitPins == [Pos -> 0..9]

PinSources == {"BNS_PINCODE", "BNS_PROFILE_PIN", "-PIN"}
OtpSource  == "BNS_PROFILE_OTP_SECRET"
Sources    == PinSources \union {OtpSource}

(***************************************************************************)
(* A text of fewer than six characters is read past its end, one of more   *)
(* than 255 leaves the buffer unwritten: such a text has several readings. *)
(* So has a secret of more than 2047 characters: what lies in otpsecret    *)
(* may decode to any key, or not at all (then the secret is in Malformed   *)
(* too).  Totp[s][w] is empty where the secret never decodes.  The command *)
(* line's PIN passed the expression [0-9]{6}.                              *)
(***************************************************************************)
CmdTexts == {t \in Texts : Reading[t] \subseteq DigitPins}

ASSUME ConstantsAssumption ==
  /\ Malformed \subseteq Secrets
  /\ Unset \notin Texts \union Secrets
  /\ Reading \in [Texts -> SUBSET Pins]
  /\ Totp \in [Secrets -> [0..MaxTime -> SUBSET DigitPins]]
  /\ UserPins \subseteq DigitPins
  /\ Layouts \subseteq [Buttons -> 0..9]
  /\ MaxUpdates \in Nat /\ MaxInFlight \in Nat
  /\ MaxTime \in Nat /\ MaxLaunch \in Nat \ {0}

VARIABLES
  alive,            \* the process runs: no exception has left a hook
  given,            \* what each source of the PIN holds
  keeppin,          \* the -KEEPPIN option
  pincode,          \* the loaded PIN; its first entry -1: none, -2: never
  pincount,         \* updates of the panel since the last confirm click
  panelOpen,        \* the PIN window is shown
  numpad,           \* _otpNumpadList: the value behind each button
  input,            \* _otpInputList: the buttons entered
  curInputCount,    \* _curInputCount
  verifyFailCount,  \* _verifyFailCount
  keyboardEnabled,  \* _keyboardEnabled
  inFlight,         \* submissions the server has not answered
  now,              \* the current TOTP window, time(NULL) / 30
  launch,           \* which launch of the game this is
  submission,       \* history: the code the last step submitted, if it did, and who
  rejected,         \* history: a code was refused since the user last confirmed
  failedHere,       \* history: a code was refused in this verification
  loadedIn,         \* history: the launches that loaded the PIN from a source
  given0            \* history: given when this process started

plugin  == <<pincode, pincount>>
panel   == <<numpad, input, curInputCount, verifyFailCount, keyboardEnabled>>
history == <<rejected, failedHere>>
process == <<alive, keeppin, launch, given0>>
vars    == <<alive, given, keeppin, pincode, pincount, panelOpen, numpad, input,
             curInputCount, verifyFailCount, keyboardEnabled, inFlight, now,
             launch, submission, rejected, failedHere, loadedIn, given0>>

NoPin   == [i \in Pos |-> IF i = 1 THEN -1 ELSE 0]
NoDigit == -1                           \* what a button outside 0..9 stands for
Nobody  == [auto |-> FALSE, code |-> [i \in Pos |-> NoDigit]]

-----------------------------------------------------------------------------
(***************************************************************************)
(* GetPin.                                                                 *)
(***************************************************************************)

\* The order in which GetPin looks at the sources.
Rank == [s \in Sources |-> CASE s = "BNS_PINCODE"     -> 1
                             [] s = "BNS_PROFILE_PIN" -> 2
                             [] s = OtpSource         -> 3
                             [] OTHER                 -> 4]

FirstSource(g, s) ==
  /\ g[s] # Unset
  /\ \A t \in Sources : g[t] # Unset => Rank[s] <= Rank[t]

\* The PINs that reading the value v of source s can give in window w.
Readings(s, v, w) == IF s = OtpSource THEN Totp[v][w] ELSE Reading[v]

Throws(s) == s = OtpSource /\ given[s] \in Malformed

ConsumedNever(s)  == given                     \* mutant: no variable is emptied
ConsumedAlways(s) ==                           \* mutant: -KEEPPIN is ignored
  IF s = "-PIN" THEN given ELSE [given EXCEPT ![s] = Unset]

\* Without -KEEPPIN the variable that gave the PIN is emptied.
Consumed(s) ==
  IF keeppin \/ s = "-PIN" THEN given ELSE [given EXCEPT ![s] = Unset]

Loaded == pincode[1] \notin {-1, -2}

Load(s) ==
  /\ FirstSource(given, s)
  /\ pincode' \in Readings(s, given[s], now)
  /\ given' = Consumed(s)
  /\ loadedIn' = [loadedIn EXCEPT ![s] = @ \union {launch}]

GetPinTrue ==
  \/ Loaded /\ UNCHANGED <<pincode, given, loadedIn>>
  \/ pincode[1] = -1 /\ \E s \in Sources : Load(s)

GetPinFalse ==
  /\ pincode[1] = -2 \/ (pincode[1] = -1 /\ \A s \in Sources : given[s] = Unset)
  /\ UNCHANGED <<pincode, given, loadedIn>>

GetPinThrows == pincode[1] = -1 /\ \E s \in Sources : FirstSource(given, s) /\ Throws(s)

-----------------------------------------------------------------------------
(***************************************************************************)
(* The hooks.  numpad', input' and curInputCount' are the panel as the     *)
(* hook leaves it, which is what the game's own processConfirmClick reads. *)
(***************************************************************************)

\* The code the game submits: the value behind each entered button.
Code(layout, buttons) ==
  [i \in Pos |-> IF buttons[i] \in Buttons THEN layout[buttons[i]] ELSE NoDigit]

\* Game: processConfirmClick submits a complete entry and ignores any other.
GameConfirm(queue, auto) ==
  IF curInputCount' = 6
  THEN /\ inFlight' = queue + 1
       /\ submission' = [auto |-> auto, code |-> Code(numpad', input')]
  ELSE inFlight' = queue /\ submission' = Nobody

hkProcessConfirmClick(queue, auto) == pincount' = 0 /\ GameConfirm(queue, auto)

AsDealt(layout) == layout                      \* mutant: the pad stays shuffled

\* The number pad is dealt in order, whatever the game dealt.
Unrandomized(layout) == [b \in Buttons |-> b]

ClampedToZero(fail) == IF fail > 4 THEN 0 ELSE fail     \* mutant: failures forgotten

ClampedLate(fail) == IF fail > 5 THEN 1 ELSE fail       \* mutant: off by one

\* The game never gets to see a fifth failure.
Clamped(fail) == IF fail > 4 THEN 1 ELSE fail

WantedByCount(fail)    == pincount = 0         \* mutant: failures do not matter
WantedByFailures(fail) == fail = 0             \* mutant: updates do not matter

WantedNever(fail) == fail = 0 /\ pincount + 1 = 0      \* mutant: after the increment

\* The condition on _verifyFailCount and on pincount before its increment.
AutoWanted(fail) == fail = 0 /\ pincount = 0

\* GetPin returned true: the six slots are filled and confirmed.
AutoConfirm(queue) ==
  /\ GetPinTrue
  /\ input' = pincode'
  /\ curInputCount' = 6
  /\ hkProcessConfirmClick(queue, TRUE)
  /\ UNCHANGED alive

\* No PIN is wanted, or there is none.
NoAutoConfirm(entered, queue) ==
  /\ pincount' = pincount + 1
  /\ curInputCount' = entered
  /\ inFlight' = queue /\ submission' = Nobody
  /\ UNCHANGED <<alive, input>>

\* The exception leaves the hook, the update counted, and ends the process.
Terminate ==
  /\ alive' = FALSE /\ submission' = Nobody
  /\ pincount' = pincount + 1
  /\ UNCHANGED <<given, pincode, input, curInputCount, inFlight, loadedIn>>

(***************************************************************************)
(* updateVerifyMode as the game calls it: with `fail' failures and         *)
(* `entered' digits in the panel, the pad dealt as `layout', and `queue'   *)
(* submissions unanswered.                                                 *)
(***************************************************************************)
hkUpdateVerifyMode(fail, entered, layout, queue) ==
  /\ keyboardEnabled' = TRUE
  /\ numpad' = Unrandomized(layout)
  /\ verifyFailCount' = Clamped(fail)
  /\ \/ AutoWanted(fail) /\ AutoConfirm(queue)
     \/ AutoWanted(fail) /\ GetPinFalse /\ NoAutoConfirm(entered, queue)
     \/ AutoWanted(fail) /\ GetPinThrows /\ Terminate
     \/ ~AutoWanted(fail) /\ NoAutoConfirm(entered, queue)
                          /\ UNCHANGED <<pincode, given, loadedIn>>

-----------------------------------------------------------------------------
(***************************************************************************)
(* The game's calls.                                                       *)
(***************************************************************************)

\* The window is redrawn and clicked whether or not an answer is outstanding.
Usable == alive /\ panelOpen /\ inFlight < MaxInFlight

\* The window is shown, for a new verification or to go on with the last.
Open == \E layout \in Layouts, fail \in {0, verifyFailCount} :
  /\ alive /\ ~panelOpen /\ pincount < MaxUpdates
  /\ panelOpen' = TRUE
  /\ hkUpdateVerifyMode(fail, 0, layout, 0)
  /\ failedHere' = (failedHere /\ fail # 0)
  /\ UNCHANGED <<keeppin, now, launch, given0, rejected>>

\* The window is redrawn without an answer having arrived.
Redraw == \E layout \in Layouts :
  /\ Usable /\ pincount < MaxUpdates
  /\ hkUpdateVerifyMode(verifyFailCount, curInputCount, layout, inFlight)
  /\ UNCHANGED <<panelOpen, failedHere, keeppin, now, launch, given0, rejected>>

\* The user enters six digits, or too few, and clicks confirm.
UserConfirm ==
  /\ Usable
  /\ \/ input' \in UserPins /\ curInputCount' = 6
     \/ curInputCount < 6 /\ UNCHANGED <<input, curInputCount>>
  /\ numpad' = numpad
  /\ hkProcessConfirmClick(inFlight, FALSE)
  /\ rejected' = FALSE
  /\ UNCHANGED <<given, pincode, panelOpen, verifyFailCount, keyboardEnabled, now,
                 failedHere, loadedIn>> /\ UNCHANGED process

\* The server refuses a code: one more failure, and the window is redrawn.
Refuse == \E layout \in Layouts :
  /\ alive /\ panelOpen /\ inFlight > 0 /\ pincount < MaxUpdates
  /\ hkUpdateVerifyMode(verifyFailCount + 1, 0, layout, inFlight - 1)
  /\ rejected' = TRUE /\ failedHere' = TRUE
  /\ UNCHANGED <<panelOpen, keeppin, now, launch, given0>>

\* The server accepts a code, or the user closes the window.
Close ==
  /\ alive /\ panelOpen
  /\ panelOpen' = FALSE /\ inFlight' = 0 /\ submission' = Nobody
  /\ UNCHANGED <<given, now, loadedIn>>
  /\ UNCHANGED plugin /\ UNCHANGED panel /\ UNCHANGED history /\ UNCHANGED process

\* A TOTP window passes.
Tick ==
  /\ now < MaxTime
  /\ now' = now + 1 /\ submission' = Nobody
  /\ UNCHANGED <<given, panelOpen, inFlight, loadedIn>>
  /\ UNCHANGED plugin /\ UNCHANGED panel /\ UNCHANGED history /\ UNCHANGED process

\* The game starts itself anew: the child inherits the environment.
Relaunch ==
  /\ alive /\ ~panelOpen /\ launch < MaxLaunch
  /\ launch' = launch + 1
  /\ given0' = given
  /\ pincode' = NoPin /\ pincount' = 0
  /\ verifyFailCount' = 0 /\ curInputCount' = 0 /\ keyboardEnabled' = FALSE
  /\ input' = NoPin
  /\ submission' = Nobody /\ rejected' = FALSE /\ failedHere' = FALSE
  /\ UNCHANGED <<alive, given, keeppin, panelOpen, numpad, inFlight, now, loadedIn>>

Init ==
  /\ alive = TRUE
  /\ given \in [Sources -> Texts \union Secrets \union {Unset}]
  /\ \A s \in PinSources : given[s] \in Texts \union {Unset}
  /\ given["-PIN"] \in CmdTexts \union {Unset}
  /\ given[OtpSource] \in Secrets \union {Unset}
  /\ keeppin \in BOOLEAN
  /\ pincode = NoPin /\ pincount = 0
  /\ panelOpen = FALSE
  /\ numpad \in Layouts
  /\ input = NoPin /\ curInputCount = 0 /\ verifyFailCount = 0
  /\ keyboardEnabled = FALSE
  /\ inFlight = 0 /\ now = 0 /\ launch = 1
  /\ submission = Nobody /\ rejected = FALSE /\ failedHere = FALSE
  /\ loadedIn = [s \in Sources |-> {}]
  /\ given0 = given

Next == Open \/ Redraw \/ UserConfirm \/ Refuse \/ Close \/ Tick \/ Relaunch

Spec == Init /\ [][Next]_vars

-----------------------------------------------------------------------------
(***************************************************************************)
(* Properties.                                                             *)
(***************************************************************************)

EnvValues == Texts \union Secrets \union {Unset}

\* The state is well formed; verifyFailCount in particular stays below the
\* five failures at which the game would lock the window.
TypeOK ==
  /\ alive \in BOOLEAN /\ keeppin \in BOOLEAN /\ panelOpen \in BOOLEAN
  /\ given \in [Sources -> EnvValues] /\ given0 \in [Sources -> EnvValues]
  /\ \A s \in PinSources : given[s] \in Texts \union {Unset}
  /\ \A s \in PinSources : given0[s] \in Texts \union {Unset}
  /\ given[OtpSource] \in Secrets \union {Unset}
  /\ given0[OtpSource] \in Secrets \union {Unset}
  /\ pincode \in Pins /\ pincount \in 0..MaxUpdates
  /\ numpad \in [Buttons -> 0..9] /\ input \in Pins
  /\ curInputCount \in {0, 6} /\ verifyFailCount \in 0..4
  /\ keyboardEnabled \in BOOLEAN
  /\ inFlight \in Nat /\ now \in 0..MaxTime /\ launch \in 1..MaxLaunch
  /\ submission \in [auto : BOOLEAN, code : Pins]
  /\ rejected \in BOOLEAN /\ failedHere \in BOOLEAN
  /\ loadedIn \in [Sources -> SUBSET (1..MaxLaunch)]

\* The step in which the plugin, not the user, submits a code.
AutoStep == submission'.auto

\* No automatic retry: once the server refused a code, none is submitted
\* automatically for as long as that verification goes on, however often the
\* window is redrawn or reopened and however many failures have been counted.
NoAutoRetry == [][AutoStep => ~failedHere']_vars

\* Nor is one submitted automatically after a refusal in any later
\* verification, until the user has clicked confirm himself.
NoAutoAfterRefusal == [][AutoStep => ~rejected]_vars

\* An automatic submission is, digit by digit, the PIN of the source that
\* comes first in GetPin's order among those the process was started with,
\* provided that source holds six digits.
AutoCodeIsConfigured ==
  submission.auto =>
    \A s \in Sources :
      LET codes == UNION {Readings(s, given0[s], w) : w \in 0..now}
      IN  FirstSource(given0, s) /\ codes \subseteq DigitPins => submission.code \in codes

\* Without -KEEPPIN a variable of the environment gives its PIN to one launch
\* of the game only, though every launch inherits the environment.
EnvPinOnce ==
  ~keeppin => \A s \in Sources \ {"-PIN"} : \A m, n \in loadedIn[s] : m = n

\* With -KEEPPIN every launch that loads a PIN loads it from the same source.
KeptPinSameSource ==
  keeppin => \A s, t \in Sources : loadedIn[s] # {} /\ loadedIn[t] # {} => s = t

\* The code the plugin has settled on: what the loaded PIN spells on a pad in
\* order.
Settled == IF Loaded THEN Code([b \in Buttons |-> b], pincode) ELSE <<>>

Contract == INSTANCE PinContract WITH
  Codes <- Pins, NoCode <- <<>>, shown <- panelOpen, unanswered <- inFlight,
  pin <- Settled, clean <- ~failedHere, trusted <- ~rejected, sent <- submission

\* Seen from outside the window keeps PinContract: what the two counters, the
\* cached PIN, the clamp and the dealt pad add up to, in every step, is that the
\* plugin submits one settled code, and only where it may.
KeepsContract == Contract!Spec

=============================================================================
