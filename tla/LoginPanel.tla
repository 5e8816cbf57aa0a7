----------------------------- MODULE LoginPanel -----------------------------
(***************************************************************************)
(* The title screen's login panel: GetLogin and the hooks of Lobby.h on    *)
(* OpenLoginPanel, ProcessEvent and RequestLogin, with the game they are   *)
(* called from.  What RequestLogin does to its arguments is the module     *)
(* ServerOverride; here it matters that a request is made, and by whom.    *)
(*                                                                         *)
(* The hooks run on the game's UI thread, one at a time.  What varies is   *)
(* the order of the game's calls: the panel opened again after a refusal,  *)
(* events before it is first opened, the user typing in between.           *)
(***************************************************************************)
EXTENDS Integers, Sequences

CONSTANTS
  Texts,          \* accounts and passwords
  Empty,          \* the empty text; a variable that holds it is as good as unset
  Absent,         \* an option the command line does not have
  Reading,        \* Reading[t]: what the buffer may hold after reading t
  Remembered,     \* the account the game puts into the panel it opens
  Typed,          \* what the user may type: texts for the two boxes
  MaxRequests,    \* bound on the login requests of a launch
  MaxTyped,       \* bound on the times the user types in a launch
  MaxLaunch       \* bound on the launches of the game

Vars == {"BNS_PROFILE_USERNAME", "BNS_PROFILE_PASSWORD"}
Opts == {"-USERNAME", "-PASSWORD"}
User == "BNS_PROFILE_USERNAME"
Pass == "BNS_PROFILE_PASSWORD"

Values == Texts \union {Empty}
Boxes  == [account : Values, password : Values]

ASSUME ConstantsAssumption ==
  /\ Empty \notin Texts /\ Absent \notin Values
  /\ Reading \in [Texts -> SUBSET Values]
  /\ Remembered \in Values
  /\ Typed \subseteq Boxes
  /\ MaxRequests \in Nat /\ MaxTyped \in Nat /\ MaxLaunch \in Nat \ {0}

VARIABLES
  env,          \* the two variables of the environment
  args,         \* the two options of the command line
  loggedin,     \* 0: GetLogin was not called; 2: it found a login; -1: it did not
  m_account,    \* the login it found
  m_password,
  panelOpen,    \* the login panel is shown
  boxes,        \* the panel's two edit boxes
  firstrun,     \* no login request was made yet
  pincount,     \* the counter shared with the PIN window
  waiting,      \* a request the server has not answered
  sent,         \* history: the requests of this launch, and who made them
  typed,        \* history: how often the user typed
  launch,       \* which launch of the game this is
  env0,         \* history: env when this process started
  loadedIn      \* history: the launches that took a login from the environment

login   == <<loggedin, m_account, m_password>>
process == <<args, launch, env0>>
vars    == <<env, args, loggedin, m_account, m_password, panelOpen, boxes, firstrun,
             pincount, waiting, sent, typed, launch, env0, loadedIn>>

-----------------------------------------------------------------------------
(***************************************************************************)
(* GetLogin: found is what it returns.                                     *)
(***************************************************************************)

Bool(n) == n # 0                 \* the conversion of loggedin to GetLogin's bool

\* Once called, GetLogin returns what it remembers of the first call.
GetLoginAgain(found) ==
  /\ loggedin # 0
  /\ found = Bool(loggedin)
  /\ UNCHANGED <<env, loadedIn>> /\ UNCHANGED login

FromEnvKept(found) ==                       \* mutant: the variables stay set
  /\ loggedin = 0 /\ env[User] # Empty
  /\ m_account' \in Reading[env[User]]
  /\ found = (env[Pass] # Empty)
  /\ m_password' \in IF found THEN Reading[env[Pass]] ELSE {m_password}
  /\ loggedin' = IF found THEN 2 ELSE -1
  /\ loadedIn' = IF found THEN loadedIn \union {launch} ELSE loadedIn
  /\ UNCHANGED env

FromEnvMixed(found) ==                      \* mutant: the command line fills in
  /\ loggedin = 0 /\ env[User] # Empty
  /\ m_account' \in Reading[env[User]]
  /\ found = (env[Pass] # Empty \/ args["-PASSWORD"] # Absent)
  /\ m_password' \in IF env[Pass] # Empty THEN Reading[env[Pass]]
                     ELSE IF found THEN {args["-PASSWORD"]} ELSE {m_password}
  /\ loggedin' = IF found THEN 2 ELSE -1
  /\ loadedIn' = IF found THEN loadedIn \union {launch} ELSE loadedIn
  /\ env' = [v \in Vars |-> Empty]

\* The user variable is emptied in any case, the password only after a user.
FromEnv(found) ==
  /\ loggedin = 0 /\ env[User] # Empty
  /\ m_account' \in Reading[env[User]]
  /\ found = (env[Pass] # Empty)
  /\ IF found
     THEN /\ m_password' \in Reading[env[Pass]]
          /\ loggedin' = 2
          /\ env' = [v \in Vars |-> Empty]
          /\ loadedIn' = loadedIn \union {launch}
     ELSE /\ loggedin' = -1
          /\ env' = [env EXCEPT ![User] = Empty]
          /\ UNCHANGED <<m_password, loadedIn>>

ArgsUnchecked(found) ==                     \* mutant: -PASSWORD need not match
  /\ loggedin = 0 /\ env[User] = Empty /\ args["-USERNAME"] # Absent
  /\ found = TRUE
  /\ m_account' = args["-USERNAME"] /\ m_password' = args["-PASSWORD"]
  /\ loggedin' = 2
  /\ UNCHANGED <<env, loadedIn>>

FromArgs(found) ==
  /\ loggedin = 0 /\ env[User] = Empty /\ args["-USERNAME"] # Absent
  /\ m_account' = args["-USERNAME"]
  /\ found = (args["-PASSWORD"] # Absent)
  /\ m_password' = IF found THEN args["-PASSWORD"] ELSE m_password
  /\ loggedin' = IF found THEN 2 ELSE -1
  /\ UNCHANGED <<env, loadedIn>>

NoLogin(found) ==
  /\ loggedin = 0 /\ env[User] = Empty /\ args["-USERNAME"] = Absent
  /\ loggedin' = -1 /\ ~found
  /\ UNCHANGED <<env, m_account, m_password, loadedIn>>

GetLogin(found) ==
  GetLoginAgain(found) \/ FromEnv(found) \/ FromArgs(found) \/ NoLogin(found)

-----------------------------------------------------------------------------
(***************************************************************************)
(* The hooks.                                                              *)
(***************************************************************************)

\* Game: what the panel shows when the game itself has opened it.
GameBoxes == [account |-> Remembered, password |-> Empty]

OpenSwapped ==                              \* mutant: the boxes are mixed up
  \E found \in BOOLEAN :
    /\ GetLogin(found)
    /\ boxes' = IF found THEN [account |-> m_password', password |-> m_account']
                         ELSE GameBoxes

hkOpenLoginPanel ==
  \E found \in BOOLEAN :
    /\ GetLogin(found)
    /\ boxes' = IF found THEN [account |-> m_account', password |-> m_password']
                         ELSE GameBoxes

\* Game: processLogin requests a login when both boxes are filled.
Ready == boxes.account # Empty /\ boxes.password # Empty

Request(auto) == [auto |-> auto, boxes |-> boxes]

FirstrunStays(made) ==              \* mutant: firstrun is never cleared
  /\ sent' = sent \o made
  /\ firstrun' = firstrun
  /\ waiting' = (waiting \/ made # <<>>)

\* RequestLogin: `made' are the requests one event leads to.
hkLobby_RequestLogin(made) ==
  /\ sent' = sent \o made
  /\ firstrun' = (firstrun /\ made = <<>>)
  /\ waiting' = (waiting \/ made # <<>>)

EventAlwaysResets(clicked) ==               \* mutant: pincount is always reset
  LET own    == IF firstrun /\ Ready THEN <<Request(TRUE)>> ELSE <<>>
      events == IF clicked THEN <<Request(FALSE)>> ELSE <<>>
  IN  pincount' = 0 /\ hkLobby_RequestLogin(own \o events)

EventPassive(clicked) ==                    \* mutant: processLogin is not called
  LET events == IF clicked THEN <<Request(FALSE)>> ELSE <<>>
  IN  /\ pincount' = IF firstrun THEN 0 ELSE pincount
      /\ hkLobby_RequestLogin(events)

\* On the first run the hook calls processLogin itself, and the game's own
\* handler of the event may call it once more.
hkTitleLoginPanel_ProcessEvent(clicked) ==
  LET own    == IF firstrun /\ Ready THEN <<Request(TRUE)>> ELSE <<>>
      events == IF clicked THEN <<Request(FALSE)>> ELSE <<>>
  IN  /\ pincount' = IF firstrun THEN 0 ELSE pincount
      /\ hkLobby_RequestLogin(own \o events)

-----------------------------------------------------------------------------
(***************************************************************************)
(* The game's calls.                                                       *)
(***************************************************************************)

\* The panel is shown: first when the title screen appears, then whenever the
\* server has refused a login.
Open ==
  /\ ~panelOpen
  /\ panelOpen' = TRUE
  /\ hkOpenLoginPanel
  /\ UNCHANGED <<firstrun, pincount, waiting, sent, typed>> /\ UNCHANGED process

\* An event reaches the title screen's panel, even one that is not shown yet.
Event == \E clicked \in BOOLEAN :
  /\ Len(sent) < MaxRequests
  /\ clicked => panelOpen /\ Ready
  /\ hkTitleLoginPanel_ProcessEvent(clicked)
  /\ UNCHANGED <<env, panelOpen, boxes, typed, loadedIn>>
  /\ UNCHANGED login /\ UNCHANGED process

\* The user types into the boxes.
Type ==
  /\ panelOpen /\ typed < MaxTyped
  /\ boxes' \in Typed
  /\ typed' = typed + 1
  /\ UNCHANGED <<env, panelOpen, firstrun, pincount, waiting, sent, loadedIn>>
  /\ UNCHANGED login /\ UNCHANGED process

\* The server answers; the game will open the panel again, after a refusal or
\* when it comes back to the title screen.
Answer ==
  /\ waiting /\ panelOpen
  /\ waiting' = FALSE /\ panelOpen' = FALSE
  /\ UNCHANGED <<env, boxes, firstrun, pincount, sent, typed, loadedIn>>
  /\ UNCHANGED login /\ UNCHANGED process

\* The PIN window uses the counter; only whether it is zero matters here.  It
\* may do so in a launch without any login request, when it was a launcher that
\* logged the account in.
PinUpdate ==
  /\ pincount' \in {0, 1}
  /\ UNCHANGED <<env, panelOpen, boxes, firstrun, waiting, sent, typed, loadedIn>>
  /\ UNCHANGED login /\ UNCHANGED process

\* The game starts itself anew: the child inherits environment and arguments.
Relaunch ==
  /\ ~panelOpen /\ launch < MaxLaunch
  /\ launch' = launch + 1
  /\ env0' = env
  /\ loggedin' = 0 /\ m_account' = Empty /\ m_password' = Empty
  /\ boxes' = [account |-> Empty, password |-> Empty]
  /\ firstrun' = TRUE /\ pincount' = 0
  /\ waiting' = FALSE /\ sent' = <<>> /\ typed' = 0
  /\ UNCHANGED <<env, args, panelOpen, loadedIn>>

Init ==
  /\ env \in [Vars -> Values]
  /\ args \in [Opts -> Values \union {Absent}]
  /\ loggedin = 0 /\ m_account = Empty /\ m_password = Empty
  /\ panelOpen = FALSE
  /\ boxes = [account |-> Empty, password |-> Empty]
  /\ firstrun = TRUE /\ pincount = 0
  /\ waiting = FALSE /\ sent = <<>> /\ typed = 0
  /\ launch = 1 /\ env0 = env /\ loadedIn = {}

Next == Open \/ Event \/ Type \/ Answer \/ PinUpdate \/ Relaunch

Spec == Init /\ [][Next]_vars

(***************************************************************************)
(* The game opens its title screen and delivers events to it (it polls the *)
(* mouse on every frame); nothing makes the user type, the server refuse   *)
(* or the game start anew.                                                 *)
(***************************************************************************)
FairSpec == Spec /\ WF_vars(Open) /\ WF_vars(Event)

-----------------------------------------------------------------------------
(***************************************************************************)
(* Properties.                                                             *)
(***************************************************************************)

\* The state is well formed.
TypeOK ==
  /\ env \in [Vars -> Values] /\ env0 \in [Vars -> Values]
  /\ args \in [Opts -> Values \union {Absent}]
  /\ loggedin \in {0, 2, -1} /\ m_account \in Values /\ m_password \in Values
  /\ panelOpen \in BOOLEAN /\ boxes \in Boxes
  /\ firstrun \in BOOLEAN /\ pincount \in {0, 1} /\ waiting \in BOOLEAN
  /\ sent \in Seq([auto : BOOLEAN, boxes : Boxes]) /\ Len(sent) <= MaxRequests + 1
  /\ typed \in 0..MaxTyped /\ launch \in 1..MaxLaunch
  /\ loadedIn \subseteq 1..MaxLaunch

\* A login is configured: both variables, or else both options.
Configured ==
  IF env0[User] # Empty THEN env0[Pass] # Empty
  ELSE args["-USERNAME"] # Absent /\ args["-PASSWORD"] # Absent

\* The logins it stands for.
Logins ==
  IF env0[User] # Empty
  THEN [account : Reading[env0[User]], password : Reading[env0[Pass]]]
  ELSE [account : {args["-USERNAME"]}, password : {args["-PASSWORD"]}]

\* The login GetLogin found is a configured one, whole: never the account of
\* the environment with the password of the command line, in any call.
LoginFromOneSource ==
  loggedin = 2 => Configured /\ [account |-> m_account, password |-> m_password] \in Logins

\* The environment's login serves one launch only, though it is inherited.
EnvLoginOnce == \A m, n \in loadedIn : m = n

\* The plugin makes the first login request of a launch or none: a login the
\* server refused, or the user replaced, is never requested again by itself.
AutoOnlyFirst == \A i \in 2..Len(sent) : ~sent[i].auto

\* A request the plugin makes before the user typed is the configured login.
AutoSendsLogin ==
  sent # <<>> /\ sent[1].auto /\ typed = 0 => Configured /\ sent[1].boxes \in Logins

\* With a login configured, and no text of it empty, it is requested without
\* the user doing anything, unless he types into the boxes first.
AutoLogin ==
  (Configured /\ \A l \in Logins : Empty \notin {l.account, l.password})
    ~> (typed > 0 \/ (sent # <<>> /\ sent[1].auto))

\* Without a configured login the panel is left as the game opened it.
OpenLeavesBoxes ==
  [][panelOpen' /\ ~panelOpen /\ ~Configured => boxes' = GameBoxes]_vars

\* Without a configured login the plugin requests none.
AutoOnlyIfConfigured == \A i \in DOMAIN sent : sent[i].auto => Configured
=============================================================================
