------------------------- MODULE LoginHelperProofs -------------------------
(***************************************************************************)
(* Proofs about LoginHelper: the title screen is what LoginPanel says, and *)
(* the PIN window what PinPanel says, but for the resets of a launch that  *)
(* shows it without a login request; those are shown to be harmless while  *)
(* a verification lasts, and impossible after a login request.             *)
(***************************************************************************)
EXTENDS LoginHelper, TLAPS

PinProofs == INSTANCE PinPanelProofs

\* LoginPanel knows of the counter only whether it is zero.
TitleProofs == INSTANCE LoginPanelProofs WITH
  Texts <- LoginTexts, Reading <- LoginReading,
  panelOpen <- loginOpen, loadedIn <- loginLoadedIn,
  pincount <- IF pincount = 0 THEN 0 ELSE 1

-----------------------------------------------------------------------------
(***************************************************************************)
(* Pin and PinProofs are the same PinPanel; their definitions agree.       *)
(***************************************************************************)

LEMMA PinConstants == PinProofs!ConstantsAssumption
BY ConstantsAssumption
   DEF ConstantsAssumption, Pin!ConstantsAssumption, PinProofs!ConstantsAssumption,
       Pin!Pos, PinProofs!Pos, Pin!Buttons, PinProofs!Buttons,
       Pin!Pins, PinProofs!Pins, Pin!DigitPins, PinProofs!DigitPins

LEMMA SameInit == Pin!Init => PinProofs!Init
BY ZenonT(60) DEF Pin!Init, PinProofs!Init,
       Pin!Pos, PinProofs!Pos, Pin!PinSources, PinProofs!PinSources, Pin!OtpSource, PinProofs!OtpSource,
       Pin!Sources, PinProofs!Sources, Pin!NoPin, PinProofs!NoPin, Pin!NoDigit, PinProofs!NoDigit,
       Pin!Nobody, PinProofs!Nobody, Pin!CmdTexts, PinProofs!CmdTexts, Pin!Pins, PinProofs!Pins,
       Pin!DigitPins, PinProofs!DigitPins

LEMMA SameNext == Pin!Next => PinProofs!Next
BY ZenonT(60)
   DEF Pin!Pos, PinProofs!Pos, Pin!Buttons, PinProofs!Buttons,
       Pin!Pins, PinProofs!Pins, Pin!DigitPins, PinProofs!DigitPins,
       Pin!PinSources, PinProofs!PinSources,
       Pin!OtpSource, PinProofs!OtpSource, Pin!Sources, PinProofs!Sources,
       Pin!plugin, PinProofs!plugin, Pin!panel, PinProofs!panel,
       Pin!history, PinProofs!history, Pin!process, PinProofs!process,
       Pin!NoPin, PinProofs!NoPin,
       Pin!NoDigit, PinProofs!NoDigit, Pin!Nobody, PinProofs!Nobody,
       Pin!Rank, PinProofs!Rank, Pin!FirstSource, PinProofs!FirstSource,
       Pin!Readings, PinProofs!Readings, Pin!Throws, PinProofs!Throws,
       Pin!Consumed, PinProofs!Consumed, Pin!Loaded, PinProofs!Loaded,
       Pin!Load, PinProofs!Load, Pin!GetPinTrue, PinProofs!GetPinTrue,
       Pin!GetPinFalse, PinProofs!GetPinFalse,
       Pin!GetPinThrows, PinProofs!GetPinThrows, Pin!Code, PinProofs!Code,
       Pin!GameConfirm, PinProofs!GameConfirm,
       Pin!hkProcessConfirmClick, PinProofs!hkProcessConfirmClick,
       Pin!Unrandomized, PinProofs!Unrandomized,
       Pin!Clamped, PinProofs!Clamped, Pin!AutoWanted, PinProofs!AutoWanted,
       Pin!AutoConfirm, PinProofs!AutoConfirm,
       Pin!NoAutoConfirm, PinProofs!NoAutoConfirm,
       Pin!Terminate, PinProofs!Terminate,
       Pin!hkUpdateVerifyMode, PinProofs!hkUpdateVerifyMode,
       Pin!Usable, PinProofs!Usable, Pin!Open, PinProofs!Open,
       Pin!Redraw, PinProofs!Redraw, Pin!UserConfirm, PinProofs!UserConfirm,
       Pin!Refuse, PinProofs!Refuse, Pin!Close, PinProofs!Close,
       Pin!Tick, PinProofs!Tick, Pin!Relaunch, PinProofs!Relaunch,
       Pin!Next, PinProofs!Next
-----------------------------------------------------------------------------
(***************************************************************************)
(* The composition implements LoginPanel as well.                          *)
(***************************************************************************)

LEMMA TitleConstants == TitleProofs!ConstantsAssumption
BY ConstantsAssumption
   DEF ConstantsAssumption, Login!ConstantsAssumption, TitleProofs!ConstantsAssumption,
       Login!Values, TitleProofs!Values, Login!Boxes, TitleProofs!Boxes

LEMMA SameTitleInit == Login!Init => TitleProofs!Init
BY DEF Login!Init, TitleProofs!Init, Login!Vars, TitleProofs!Vars, Login!Opts,
       TitleProofs!Opts, Login!Values, TitleProofs!Values

\* What the title screen does is done in both, the counter told apart from zero or not.
LEMMA SameTitle ==
  /\ Login!Open => TitleProofs!Open
  /\ Login!Event => TitleProofs!Event
  /\ Login!Type => TitleProofs!Type
  /\ Login!Answer => TitleProofs!Answer
  /\ Login!Relaunch => TitleProofs!Relaunch
<1> USE DEF
       Login!Vars, TitleProofs!Vars, Login!Opts, TitleProofs!Opts,
       Login!User, TitleProofs!User, Login!Pass, TitleProofs!Pass,
       Login!Values, TitleProofs!Values, Login!Boxes, TitleProofs!Boxes,
       Login!login, TitleProofs!login, Login!process, TitleProofs!process,
       Login!vars, TitleProofs!vars, Login!Bool, TitleProofs!Bool,
       Login!GetLoginAgain, TitleProofs!GetLoginAgain, Login!FromEnv, TitleProofs!FromEnv,
       Login!FromArgs, TitleProofs!FromArgs, Login!NoLogin, TitleProofs!NoLogin,
       Login!GetLogin, TitleProofs!GetLogin, Login!GameBoxes, TitleProofs!GameBoxes,
       Login!hkOpenLoginPanel, TitleProofs!hkOpenLoginPanel, Login!Ready, TitleProofs!Ready,
       Login!Request, TitleProofs!Request, Login!hkLobby_RequestLogin, TitleProofs!hkLobby_RequestLogin,
       Login!hkTitleLoginPanel_ProcessEvent, TitleProofs!hkTitleLoginPanel_ProcessEvent
<1>1. Login!Open => TitleProofs!Open
  BY DEF Login!Open, TitleProofs!Open
<1>2. Login!Event => TitleProofs!Event
  BY DEF Login!Event, TitleProofs!Event
<1>3. Login!Type => TitleProofs!Type
  BY DEF Login!Type, TitleProofs!Type
<1>4. Login!Answer => TitleProofs!Answer
  BY DEF Login!Answer, TitleProofs!Answer
<1>5. Login!Relaunch => TitleProofs!Relaunch
  BY DEF Login!Relaunch, TitleProofs!Relaunch
<1>6. QED  BY <1>1, <1>2, <1>3, <1>4, <1>5

\* A step of the PIN window is one of the counter's at most.
LEMMA TitleStep == [Next]_vars => [TitleProofs!Next]_(TitleProofs!vars)
<1> SUFFICES ASSUME [Next]_vars PROVE [TitleProofs!Next]_(TitleProofs!vars)  OBVIOUS
<1> USE DEF TitleProofs!Next
<1>1. CASE TitleOpen
  BY <1>1, SameTitle DEF TitleOpen
<1>2. CASE TitleEvent
  BY <1>2, SameTitle DEF TitleEvent
<1>3. CASE TitleType
  BY <1>3, SameTitle DEF TitleType
<1>4. CASE TitleAnswer
  BY <1>4, SameTitle DEF TitleAnswer
<1>5. CASE PinAsked
  BY <1>5 DEF PinAsked, loginOwn, TitleProofs!vars
<1>6. ASSUME UNCHANGED <<launch, loginOwn>>
      PROVE  TitleProofs!PinUpdate
  BY <1>6 DEF loginOwn, TitleProofs!PinUpdate, TitleProofs!login, TitleProofs!process
<1>7. CASE PinOpen
  BY <1>6, <1>7 DEF PinOpen, Pin!Open
<1>8. CASE PinUse
  BY <1>6, <1>8 DEF PinUse, Pin!Redraw, Pin!UserConfirm, Pin!Refuse, Pin!Close, Pin!process
<1>9. CASE Tick
  BY <1>9 DEF Tick, Pin!Tick, Pin!plugin, Pin!process, loginOwn, TitleProofs!vars
<1>10. CASE Leave
  BY <1>10 DEF Leave, loginOwn, TitleProofs!vars
<1>11. CASE Relaunch
  BY <1>11, SameTitle DEF Relaunch
<1>12. CASE UNCHANGED vars
  BY <1>12 DEF vars, loginOwn, TitleProofs!vars
<1>13. QED
  BY <1>1, <1>2, <1>3, <1>4, <1>5, <1>7, <1>8, <1>9, <1>10, <1>11, <1>12 DEF Next

\* The title screen behaves as LoginPanel says, whatever the PIN window's hooks do with
\* the counter and whenever it is shown: all that is proved of LoginPanel holds here.
THEOREM ImplementsLoginPanel == Spec => TitleProofs!Spec
<1>1. Init => TitleProofs!Init
  BY SameTitleInit DEF Init
<1>2. QED  BY <1>1, TitleStep, PTL DEF Spec, TitleProofs!Spec

\* So firstrun tells whether a login was requested in this launch.
RunInv == firstrun \in BOOLEAN /\ (firstrun <=> sent = <<>>)

LEMMA RunInvariant == Spec => []RunInv
<1>1. TitleProofs!ConstantsAssumption
  BY TitleConstants
<1>2. TitleProofs!Spec => [](TitleProofs!TypeOK /\ TitleProofs!SourceInv /\ TitleProofs!RequestInv)
  BY <1>1, TitleProofs!RequestInvariant DEF TitleProofs!ConstantsAssumption
<1>3. TitleProofs!TypeOK /\ TitleProofs!RequestInv => RunInv
  BY DEF TitleProofs!TypeOK, TitleProofs!RequestInv, RunInv
<1>4. QED  BY <1>2, <1>3, ImplementsLoginPanel, PTL
-----------------------------------------------------------------------------
(***************************************************************************)
(* The composition implements PinPanel, but for the counter's resets.      *)
(***************************************************************************)

\* A PIN window shown on the first run was shown early.  Before any was shown nothing
\* has touched the PIN or the counters.
LaunchInv ==
  /\ firstrun /\ pinShown => early
  /\ ~pinShown => pincount = 0 /\ pincode[1] = -1 /\ verifyFailCount = 0 /\ ~panelOpen

\* An event resets the counter on the first run, which it may end and cannot begin.
LEMMA EventInLaunch ==
  ASSUME RunInv, Login!Event
  PROVE  /\ pincount' = (IF firstrun THEN 0 ELSE pincount) /\ UNCHANGED launch
         /\ firstrun' => firstrun
<1> PICK clicked \in BOOLEAN :
      /\ Login!hkTitleLoginPanel_ProcessEvent(clicked)
      /\ UNCHANGED launch
  BY DEF Login!Event, Login!process
<1>1. pincount' = IF firstrun THEN 0 ELSE pincount
  BY DEF Login!hkTitleLoginPanel_ProcessEvent
<1> DEFINE own  == IF firstrun /\ Login!Ready THEN <<Login!Request(TRUE)>> ELSE <<>>
           made == own \o (IF clicked THEN <<Login!Request(FALSE)>> ELSE <<>>)
<1>2. firstrun' = (firstrun /\ made = <<>>)
  BY DEF Login!hkTitleLoginPanel_ProcessEvent, Login!hkLobby_RequestLogin
<1> HIDE DEF made
<1>3. firstrun' => firstrun
  BY <1>2, Zenon DEF RunInv
<1>4. QED  BY <1>1, <1>3

LEMMA LaunchInit == Init => LaunchInv
BY DEF Init, Pin!Init, Pin!NoPin, Pin!Pos, LaunchInv

LEMMA LaunchStep == RunInv /\ LaunchInv /\ [Next]_vars => LaunchInv'
<1> SUFFICES ASSUME RunInv, LaunchInv, [Next]_vars PROVE LaunchInv'  OBVIOUS
<1>1. CASE TitleOpen
  BY <1>1 DEF TitleOpen, Login!Open, pinOwn, game, LaunchInv
<1>2. CASE TitleEvent
  BY <1>2, EventInLaunch DEF TitleEvent, pinOwn, game, LaunchInv
<1>3. CASE TitleType
  BY <1>3 DEF TitleType, Login!Type, pinOwn, game, LaunchInv
<1>4. CASE TitleAnswer
  BY <1>4 DEF TitleAnswer, Login!Answer, pinOwn, LaunchInv
<1>5. CASE PinAsked
  BY <1>5 DEF PinAsked, pinOwn, loginOwn, LaunchInv
<1>6. CASE PinOpen
  BY <1>6 DEF PinOpen, loginOwn, RunInv, LaunchInv
<1>7. CASE PinUse
  <2>1. panelOpen
    BY <1>7 DEF PinUse, Pin!Redraw, Pin!UserConfirm, Pin!Refuse, Pin!Close, Pin!Usable
  <2>2. QED  BY <1>7, <2>1 DEF PinUse, loginOwn, game, LaunchInv
<1>8. CASE Tick
  BY <1>8 DEF Tick, Pin!Tick, Pin!plugin, Pin!panel, loginOwn, game, LaunchInv
<1>9. CASE Leave
  BY <1>9 DEF Leave, pinOwn, loginOwn, LaunchInv
<1>10. CASE Relaunch
  BY <1>10 DEF Relaunch, Pin!Relaunch, Pin!NoPin, Pin!Pos, LaunchInv
<1>11. CASE UNCHANGED vars
  BY <1>11 DEF vars, pinOwn, loginOwn, game, LaunchInv
<1>12. QED
  BY <1>1, <1>2, <1>3, <1>4, <1>5, <1>6, <1>7, <1>8, <1>9, <1>10, <1>11 DEF Next

LEMMA LaunchInvariant == Spec => [](RunInv /\ LaunchInv)
BY RunInvariant, LaunchInit, LaunchStep, PTL DEF Spec

\* A step of the game is one of the PIN window's, or resets the counter, or leaves the
\* window alone.  Only a new launch forgets that the window was shown early.
LEMMA PinStep ==
  ASSUME RunInv, LaunchInv, [Next]_vars
  PROVE  /\ Pin!Next \/ (CounterReset /\ early') \/ UNCHANGED Pin!vars
         /\ (early => early') \/ Pin!Relaunch
<1>1. CASE TitleOpen
  BY <1>1 DEF TitleOpen, Login!Open, Login!process, pinOwn, game, Pin!vars
<1>2. CASE TitleEvent
  <2>1. UNCHANGED pincount \/ (firstrun /\ early /\ pincount' = 0)
    BY <1>2, EventInLaunch DEF TitleEvent, LaunchInv
  <2>2. UNCHANGED <<launch, pinOwn, early>>
    BY <1>2, EventInLaunch DEF TitleEvent, game
  <2>3. QED  BY <2>1, <2>2 DEF CounterReset, pinOwn, Pin!vars
<1>3. CASE TitleType
  BY <1>3 DEF TitleType, Login!Type, Login!process, pinOwn, game, Pin!vars
<1>4. CASE TitleAnswer
  BY <1>4 DEF TitleAnswer, Login!Answer, Login!process, pinOwn, Pin!vars
<1>5. CASE PinAsked
  BY <1>5 DEF PinAsked, pinOwn, Pin!vars
<1>6. CASE PinOpen
  BY <1>6 DEF PinOpen, Pin!Next
<1>7. CASE PinUse
  BY <1>7 DEF PinUse, game, Pin!Next
<1>8. CASE Tick
  BY <1>8 DEF Tick, game, Pin!Next
<1>9. CASE Leave
  BY <1>9 DEF Leave, pinOwn, Pin!vars
<1>10. CASE Relaunch
  BY <1>10 DEF Relaunch, Pin!Next
<1>11. CASE UNCHANGED vars
  BY <1>11 DEF vars, pinOwn, game, Pin!vars
<1>12. QED
  BY <1>1, <1>2, <1>3, <1>4, <1>5, <1>6, <1>7, <1>8, <1>9, <1>10, <1>11 DEF Next

\* Whatever happens at the title screen, and whenever its hook on ProcessEvent runs,
\* the PIN window and its counter behave as if it were alone, but for the resets on
\* the first run of a launch that has shown it without a login request.
THEOREM ImplementsPinPanel == Spec => PinSpec
<1>1. Init => Pin!Init
  BY DEF Init
<1>2. RunInv /\ LaunchInv /\ [Next]_vars => [Pin!Next \/ CounterReset]_(Pin!vars)
  BY PinStep
<1>3. QED  BY <1>1, <1>2, LaunchInvariant, PTL DEF Spec, PinSpec
-----------------------------------------------------------------------------
(***************************************************************************)
(* No automatic retry in the game.                                         *)
(***************************************************************************)

\* The failure count survives a reset of pincount, and pincount itself is not reset
\* where no PIN window was shown early.  The last submission, if it was automatic, met
\* what it has to meet.
GameInv ==
  /\ PinProofs!TypeOK
  /\ PinProofs!FailInv
  /\ early \/ PinProofs!RejectInv
  /\ submission.auto => ~failedHere /\ (rejected => early)

LEMMA GameInit == Init => GameInv
<1> SUFFICES ASSUME Init PROVE GameInv  OBVIOUS
<1>1. PinProofs!ConstantsAssumption
  BY PinConstants
<1>2. PinProofs!Init
  BY SameInit DEF Init
<1>3. PinProofs!TypeOK
  BY <1>1, <1>2, PinProofs!InitType DEF PinProofs!ConstantsAssumption
<1>4. ~failedHere /\ ~rejected
  BY DEF Init, Pin!Init
<1>5. QED  BY <1>3, <1>4 DEF GameInv, PinProofs!FailInv, PinProofs!RejectInv

LEMMA GameStep ==
  ASSUME RunInv, LaunchInv, GameInv, [Next]_vars
  PROVE  GameInv' /\ (Pin!AutoStep /\ rejected => early)
<1>1. PinProofs!ConstantsAssumption
  BY PinConstants
<1>2. CASE Pin!Next
  <2>1. [PinProofs!Next]_(PinProofs!vars)
    BY <1>2, SameNext
  <2>2. PinProofs!TypeOK'
    BY <1>1, <2>1, PinProofs!NextType DEF PinProofs!ConstantsAssumption, GameInv
  <2>3. PinProofs!FailInv' /\ [PinProofs!AutoStep => ~failedHere']_(PinProofs!vars)
    BY <1>1, <2>1, PinProofs!FailStep DEF PinProofs!ConstantsAssumption, GameInv
  <2>4. early \/ (/\ PinProofs!RejectInv'
                  /\ [PinProofs!AutoStep => ~rejected /\ ~rejected']_(PinProofs!vars))
    BY <1>1, <2>1, PinProofs!RejectStep DEF PinProofs!ConstantsAssumption, GameInv
  <2>5. CASE Pin!Relaunch
    <3>1. ~rejected' /\ ~submission'.auto
      BY <2>5 DEF Pin!Relaunch, Pin!Nobody
    <3>2. QED
      BY <2>2, <2>3, <3>1 DEF GameInv, Pin!AutoStep, PinProofs!RejectInv
  <2>6. CASE early => early'
    BY <2>2, <2>3, <2>4, <2>6
       DEF GameInv, Pin!AutoStep, PinProofs!AutoStep, PinProofs!vars
  <2>7. QED  BY <2>5, <2>6, PinStep
<1>3. CASE CounterReset /\ early'
  <2>1. PinProofs!TypeOK'
    <3>1. pincount' = 0 /\ 0 \in 0..MaxUpdates
      BY <1>1, <1>3 DEF CounterReset, PinProofs!ConstantsAssumption
    <3>2. QED
      BY <1>3, <3>1 DEF CounterReset, pinOwn, GameInv, PinProofs!TypeOK
  <2>2. QED
    BY <1>3, <2>1 DEF CounterReset, pinOwn, GameInv, PinProofs!FailInv, Pin!AutoStep
<1>4. CASE UNCHANGED Pin!vars /\ (early => early')
  <2>1. PinProofs!TypeOK'
    BY <1>4 DEF Pin!vars, GameInv, PinProofs!TypeOK
  <2>2. QED
    BY <1>4, <2>1
       DEF Pin!vars, GameInv, PinProofs!FailInv, PinProofs!RejectInv, Pin!AutoStep
<1>5. CASE Pin!Relaunch
  BY <1>2, <1>5 DEF Pin!Next
<1>6. QED  BY <1>2, <1>3, <1>4, <1>5, PinStep

LEMMA GameInvariant == Spec => [](RunInv /\ LaunchInv /\ GameInv)
<1>1. RunInv /\ LaunchInv /\ GameInv /\ [Next]_vars => GameInv'
  BY GameStep
<1>2. QED  BY <1>1, GameInit, LaunchInvariant, PTL DEF Spec

\* A verification that has seen a refusal is left to the user, whatever the title
\* screen's hook on ProcessEvent does to the counter meanwhile.
THEOREM NeverRetriesInGame == Spec => NoAutoRetry
<1>1. GameInv' => [Pin!AutoStep => ~failedHere']_(Pin!vars)
  BY DEF GameInv, Pin!AutoStep
<1>2. QED  BY <1>1, GameInvariant, PTL DEF NoAutoRetry, Pin!NoAutoRetry

\* In a launch whose PIN windows follow a login request, a refusal is also remembered
\* by any later verification, until the user clicks: the shared counter is not reset.
THEOREM NeverAfterRefusalInGame == Spec => NoAutoAfterRefusal
<1>1. RunInv /\ LaunchInv /\ GameInv /\ [Next]_vars
        => [Pin!AutoStep /\ rejected => early]_vars
  BY GameStep
<1>2. QED  BY <1>1, GameInvariant, PTL DEF Spec, NoAutoAfterRefusal
-----------------------------------------------------------------------------
(***************************************************************************)
(* The first PIN window of a launch.                                       *)
(***************************************************************************)

\* GetPin's order has one first source.
LEMMA OneFirstSource ==
  ASSUME NEW g, NEW s \in Pin!Sources, NEW t \in Pin!Sources,
         Pin!FirstSource(g, s), Pin!FirstSource(g, t)
  PROVE  s = t
<1>1. PinProofs!ConstantsAssumption
  BY PinConstants
<1>2. /\ s \in PinProofs!Sources /\ t \in PinProofs!Sources
      /\ PinProofs!FirstSource(g, s) /\ PinProofs!FirstSource(g, t)
  BY DEF Pin!Sources, PinProofs!Sources, Pin!PinSources, PinProofs!PinSources,
         Pin!OtpSource, PinProofs!OtpSource, Pin!Rank, PinProofs!Rank,
         Pin!FirstSource, PinProofs!FirstSource
<1>3. QED  BY <1>1, <1>2, PinProofs!FirstSourceUnique DEF PinProofs!ConstantsAssumption

\* Called with no failure, no update and no PIN looked for before, the hook submits
\* what the first source gives, if that is not a secret std::invalid_argument is
\* thrown on.
LEMMA HookAnswers ==
  ASSUME pincount = 0, pincode[1] = -1,
         NEW s \in Pin!Sources, Pin!FirstSource(given, s), ~Pin!Throws(s),
         NEW layout, Pin!hkUpdateVerifyMode(0, 0, layout, 0)
  PROVE  Pin!AutoStep
<1>1. Pin!AutoWanted(0)
  BY DEF Pin!AutoWanted
<1>2. ~Pin!GetPinFalse
  BY DEF Pin!GetPinFalse, Pin!FirstSource
<1>3. ~Pin!GetPinThrows
  BY OneFirstSource DEF Pin!GetPinThrows
<1>4. Pin!AutoConfirm(0)
  BY <1>1, <1>2, <1>3 DEF Pin!hkUpdateVerifyMode
<1>5. QED
  BY <1>4 DEF Pin!AutoConfirm, Pin!hkProcessConfirmClick, Pin!GameConfirm, Pin!AutoStep

\* A PIN that is configured answers the first PIN window of every launch: no event and
\* no login at the title screen before it uses the plugin's one submission up.
THEOREM AnswersTheFirstPin == Spec => FirstPinAnswered
<1> DEFINE Configured(s) == /\ Pin!FirstSource(given, s) /\ ~Pin!Throws(s)
                            /\ Pin!Readings(s, given[s], now) \subseteq Pin!DigitPins
<1>1. LaunchInv /\ [Next]_vars
        => [PinOpen /\ ~pinShown /\ (\E s \in Pin!Sources : Configured(s))
              => Pin!AutoStep]_vars
  <2> SUFFICES ASSUME LaunchInv, PinOpen, ~pinShown, NEW s \in Pin!Sources, Configured(s)
               PROVE  Pin!AutoStep
    OBVIOUS
  <2>1. pincount = 0 /\ pincode[1] = -1 /\ verifyFailCount = 0
    BY DEF LaunchInv
  <2>2. PICK layout \in Layouts : Pin!hkUpdateVerifyMode(0, 0, layout, 0)
    BY <2>1 DEF PinOpen, Pin!Open
  <2>3. QED  BY <2>1, <2>2, HookAnswers
<1>2. QED  BY <1>1, LaunchInvariant, PTL DEF Spec, FirstPinAnswered
=============================================================================
