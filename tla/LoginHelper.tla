---------------------------- MODULE LoginHelper ----------------------------
(***************************************************************************)
(* The plugin in the game: the title screen (LoginPanel) and the PIN       *)
(* window (PinPanel) in one process.  Their hooks share the counter        *)
(* pincount, which ProcessEvent resets on the first run and on which the   *)
(* PIN window's limit to automatic submissions rests; the game shares the  *)
(* thread they run on and the launch that starts both anew.                *)
(*                                                                         *)
(* PinPanel takes it for granted that nobody else changes pincount.  Here  *)
(* the title screen's hooks do, on any event the game cares to deliver.    *)
(* The composition is PinPanel all the same, but for one case: a launcher  *)
(* has logged the account in, the plugin serves the PIN window only, no    *)
(* login is ever requested and every event counts as one of the first run. *)
(***************************************************************************)
EXTENDS Integers, Sequences

CONSTANTS
  Texts, Secrets, Malformed, Unset, Reading, Totp, UserPins, Layouts,
  MaxUpdates, MaxInFlight, MaxTime,                                \* of PinPanel
  LoginTexts, Empty, Absent, LoginReading, Remembered, Typed,
  MaxRequests, MaxTyped,                                           \* of LoginPanel
  MaxLaunch                                                        \* of both

VARIABLES
  \* of PinPanel
  alive, given, keeppin, pincode, panelOpen, numpad, input, curInputCount,
  verifyFailCount, keyboardEnabled, inFlight, now, submission, rejected, failedHere,
  loadedIn, given0,
  \* of LoginPanel
  env, args, loggedin, m_account, m_password, loginOpen, boxes, firstrun, waiting,
  sent, typed, env0, loginLoadedIn,
  \* of both
  pincount, launch,
  \* of the game
  screen,      \* the screen the game is at, "title" or "pin"
  pinShown,    \* history: the PIN window was shown in this launch
  early        \* history: it was shown before any login had been requested

Pin == INSTANCE PinPanel

Login == INSTANCE LoginPanel WITH
  Texts <- LoginTexts, Reading <- LoginReading,
  panelOpen <- loginOpen, loadedIn <- loginLoadedIn

ASSUME ConstantsAssumption == Pin!ConstantsAssumption /\ Login!ConstantsAssumption

pinOwn   == <<alive, given, keeppin, pincode, panelOpen, numpad, input, curInputCount,
              verifyFailCount, keyboardEnabled, inFlight, now, submission, rejected,
              failedHere, loadedIn, given0>>
loginOwn == <<env, args, loggedin, m_account, m_password, loginOpen, boxes, firstrun,
              waiting, sent, typed, env0, loginLoadedIn>>
game     == <<screen, pinShown, early>>
vars     == <<pinOwn, loginOwn, pincount, launch, game>>

-----------------------------------------------------------------------------
(***************************************************************************)
(* The title screen.  Events may reach its panel at any time, under the    *)
(* PIN window too.                                                         *)
(***************************************************************************)

TitleOpen  == alive /\ screen = "title" /\ Login!Open /\ UNCHANGED pinOwn /\ UNCHANGED game
TitleEvent == alive /\ Login!Event /\ UNCHANGED pinOwn /\ UNCHANGED game
TitleType  == alive /\ screen = "title" /\ Login!Type /\ UNCHANGED pinOwn /\ UNCHANGED game

\* The server refuses a login, or it asks for the PIN.
TitleAnswer ==
  /\ alive /\ screen = "title"
  /\ Login!Answer
  /\ screen' \in {"title", "pin"}
  /\ UNCHANGED <<pinShown, early>> /\ UNCHANGED pinOwn

\* The server asks for the PIN of an account that a launcher has logged in: the
\* title screen's panel had no part in it.
PinAsked ==
  /\ alive /\ screen = "title" /\ ~loginOpen
  /\ screen' = "pin"
  /\ UNCHANGED <<pincount, launch, pinShown, early>>
  /\ UNCHANGED pinOwn /\ UNCHANGED loginOwn

(***************************************************************************)
(* The PIN window.                                                         *)
(***************************************************************************)

PinOpen ==
  /\ screen = "pin" /\ Pin!Open
  /\ pinShown' = TRUE /\ early' = (early \/ sent = <<>>)
  /\ UNCHANGED screen /\ UNCHANGED loginOwn

PinUse ==
  /\ screen = "pin"
  /\ Pin!Redraw \/ Pin!UserConfirm \/ Pin!Refuse \/ Pin!Close
  /\ UNCHANGED loginOwn /\ UNCHANGED game

Tick == Pin!Tick /\ UNCHANGED loginOwn /\ UNCHANGED game

\* Back to the title screen, where the user may log in with another account.
Leave ==
  /\ alive /\ screen = "pin" /\ ~panelOpen
  /\ screen' = "title"
  /\ UNCHANGED <<pincount, launch, pinShown, early>>
  /\ UNCHANGED pinOwn /\ UNCHANGED loginOwn

\* The game starts itself anew.
Relaunch ==
  /\ Pin!Relaunch /\ Login!Relaunch
  /\ screen' = "title" /\ pinShown' = FALSE /\ early' = FALSE

Init ==
  /\ Pin!Init /\ Login!Init
  /\ screen = "title" /\ pinShown = FALSE /\ early = FALSE

Next == TitleOpen \/ TitleEvent \/ TitleType \/ TitleAnswer \/ PinAsked
          \/ PinOpen \/ PinUse \/ Tick \/ Leave \/ Relaunch

Spec == Init /\ [][Next]_vars

-----------------------------------------------------------------------------
(***************************************************************************)
(* Properties.                                                             *)
(***************************************************************************)

\* An event of a launch that has shown its PIN window without a login request:
\* firstrun is still set, and the counter of the window is reset.
CounterReset ==
  /\ firstrun /\ early
  /\ pincount' = 0
  /\ UNCHANGED launch /\ UNCHANGED pinOwn

\* The PIN window behaves as PinPanel says, whatever the title screen's hooks
\* do to the counter they share, but for the resets of a launch that showed it
\* without a login request.
PinSpec == Pin!Init /\ [][Pin!Next \/ CounterReset]_(Pin!vars)

\* Those resets included, a verification that has seen a refusal is left to the
\* user: events at the title screen never bring the plugin's code back.
NoAutoRetry == Pin!NoAutoRetry

\* Nor does a later verification, before the user has clicked, unless a reset
\* has made the hook forget the refusal.
NoAutoAfterRefusal == [][Pin!AutoStep /\ rejected => early]_vars

\* The first PIN window of a launch is answered automatically with a PIN that
\* is configured, whatever happened at the title screen before.
FirstPinAnswered ==
  [][PinOpen /\ ~pinShown
       /\ (\E s \in Pin!Sources :
             /\ Pin!FirstSource(given, s) /\ ~Pin!Throws(s)
             /\ Pin!Readings(s, given[s], now) \subseteq Pin!DigitPins)
       => Pin!AutoStep]_vars
=============================================================================
