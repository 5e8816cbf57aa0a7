------------------------------ MODULE Startup ------------------------------
(***************************************************************************)
(* oep_notify (dllmain.cpp): it looks for the signatures of six functions  *)
(* of the game, attaches the hooks in one transaction of the Detours       *)
(* library and reads the options; then the game runs and calls what is     *)
(* hooked.  What a hook does beyond its calls is the subject of PinPanel,  *)
(* LoginPanel and ServerOverride, which assume what is shown here.         *)
(***************************************************************************)
EXTENDS CommandLine, FiniteSets

CONSTANTS
  Layouts,      \* distances of a client's panel fields from those of Data.h
  Cases,        \* the clients, and the arguments each is started with
  Number,       \* Number[t]: what std::stoi may make of BNS_SERVER_FIXPROGRAMID
  NotANumber,   \* what it throws on
  Absent,       \* the variable is not set
  MaxNotify,    \* bound on the calls of oep_notify
  MaxFailing    \* bound on the functions Detours cannot attach to

Hooks      == {"updateVerifyMode", "processConfirmClick", "RequestLogin",
               "OpenLoginPanel", "ProcessEvent"}
Functions  == Hooks \union {"processLogin", "UIEngineInterfaceGetInstance"}
\* processLogin has a second signature, for clients without the first.
Signatures == Hooks \union {"processLogin", "processLogin2"}

ASSUME ConstantsAssumption ==
  /\ Layouts \subseteq Int /\ 0 \in Layouts
  /\ \A c \in Cases :
       /\ c.client.signatures \subseteq Signatures /\ c.client.layout \in Layouts
       /\ c.client.failing \subseteq Hooks /\ Cardinality(c.client.failing) <= MaxFailing
       /\ c.args \in Seq(Argument)
  /\ NotANumber \notin Int /\ Absent \notin DOMAIN Number
  /\ \A t \in DOMAIN Number : Number[t] \subseteq Int \union {NotANumber}
  /\ MaxNotify \in Nat /\ MaxFailing \in Nat

VARIABLES
  client,          \* the client: its signatures, layout and unattachable functions
  fixprogramid,    \* the variable BNS_SERVER_FIXPROGRAMID
  args,            \* the arguments of the command line
  initdone,
  original,        \* the functions whose pointer o... is set
  hooked,          \* the functions whose hook is in place
  UIPanelOffset,
  keeppin,
  swap_programid,
  firstrun,
  fault,           \* why the process ended; "" while it runs
  attached,        \* history: how often a hook was attached to each function
  notified,        \* history: how often oep_notify was called
  requested        \* history: the game's RequestLogin ran

vars == <<client, fixprogramid, args, initdone, original, hooked, UIPanelOffset,
          keeppin, swap_programid, firstrun, fault, attached, notified, requested>>

-----------------------------------------------------------------------------
(***************************************************************************)
(* oep_notify.                                                             *)
(***************************************************************************)

Matched == client.signatures

\* The hooks that are attached: those whose signature is found.
ToAttach == Matched \intersect Hooks

\* The pointers that are set: the originals of the hooks, the function that is
\* only called, and the one whose address the code of OpenLoginPanel holds.
Pointers ==
  ToAttach
    \union (IF Matched \intersect {"processLogin", "processLogin2"} # {}
            THEN {"processLogin"} ELSE {})
    \union (IF "OpenLoginPanel" \in Matched THEN {"UIEngineInterfaceGetInstance"} ELSE {})

RawOffset ==                             \* mutant: taken as it stands in the code
  IF "processConfirmClick" \in Matched THEN client.layout + 664 ELSE UIPanelOffset

\* The code that processConfirmClick's signature matches holds a field's offset;
\* where it is not found the layout of Data.h is taken for the client's.
OffsetFound ==
  IF "processConfirmClick" \in Matched THEN client.layout ELSE UIPanelOffset

CommitEach(S) == S \ client.failing      \* mutant: a transaction for each hook

\* Detours: a transaction in which an attach failed is aborted as a whole.
Commit(S) == IF S \intersect client.failing = {} THEN S ELSE {}

\* GetCommandLineW
CommandText == Text(<<"p">>, args)

\* What std::stoi may make of the variable: a text of 256 or more characters
\* leaves the buffer as it was, and whatever is there is read.  0 stands for a
\* variable that is not set.
Parsed == IF fixprogramid = Absent THEN {0} ELSE Number[fixprogramid]

\* It reads 1, or the command line has the flag.
FixWanted(n) == n = 1 \/ HasFlag(CommandText, "-FIXPROGRAMID")

NoGuard == TRUE                          \* mutant: initdone is not looked at

Guard == ~initdone

\* The whole of oep_notify; std::stoi throws after the hooks are in place.
Notify ==
  /\ fault = "" /\ notified < MaxNotify
  /\ notified' = notified + 1
  /\ IF Guard
     THEN /\ initdone' = TRUE
          /\ original' = original \union Pointers
          /\ UIPanelOffset' = OffsetFound
          /\ hooked' = hooked \union Commit(ToAttach)
          /\ attached' = [f \in Hooks |->
               IF f \in Commit(ToAttach) THEN attached[f] + 1 ELSE attached[f]]
          /\ keeppin' = (keeppin \/ HasFlag(CommandText, "-KEEPPIN"))
          /\ \E n \in Parsed :
               IF n = NotANumber
               THEN fault' = "stoi" /\ UNCHANGED swap_programid
               ELSE fault' = "" /\ swap_programid' = (swap_programid \/ FixWanted(n))
     ELSE UNCHANGED <<initdone, original, UIPanelOffset, hooked, attached, keeppin,
                      fault, swap_programid>>
  /\ UNCHANGED <<client, fixprogramid, args, firstrun, requested>>

-----------------------------------------------------------------------------
(***************************************************************************)
(* The game's calls of the functions that are hooked.                      *)
(***************************************************************************)

\* The PIN window's hook confirms the PIN it has filled in, if it has one.
PinCallees(f, confirms) ==
  IF f = "updateVerifyMode" /\ confirms THEN {"processConfirmClick"} ELSE {}

\* The title screen's hooks: where the UI engine is, and the login of the first run.
TitleCallees(f) ==
  IF f = "OpenLoginPanel" THEN {"UIEngineInterfaceGetInstance"}
  ELSE IF f = "ProcessEvent" /\ firstrun THEN {"processLogin"} ELSE {}

\* The pointers a call of f goes through.
Callees(f, confirms) ==
  IF f \in hooked THEN {f} \union PinCallees(f, confirms) \union TitleCallees(f) ELSE {}

\* Before it has started the game calls nothing.  ProcessEvent may lead to a
\* request of its own, by processLogin, and only RequestLogin's hook ends the
\* first run.
Call == \E f \in Hooks, confirms \in BOOLEAN :
  /\ fault = "" /\ notified > 0
  /\ fault' = IF Callees(f, confirms) \subseteq original THEN "" ELSE "null"
  /\ requested' = (requested \/ f = "RequestLogin")
  /\ firstrun' = (firstrun /\ ~(f = "RequestLogin" /\ f \in hooked))
  /\ UNCHANGED <<client, fixprogramid, args, initdone, original, hooked,
                 UIPanelOffset, keeppin, swap_programid, attached, notified>>

Init ==
  /\ \E c \in Cases : client = c.client /\ args = c.args
  /\ fixprogramid \in DOMAIN Number \union {Absent}
  /\ initdone = FALSE /\ original = {} /\ hooked = {} /\ UIPanelOffset = 0
  /\ keeppin = FALSE /\ swap_programid = FALSE /\ firstrun = TRUE
  /\ fault = "" /\ attached = [f \in Hooks |-> 0] /\ notified = 0
  /\ requested = FALSE

Next == Notify \/ Call

Spec == Init /\ [][Next]_vars

-----------------------------------------------------------------------------
(***************************************************************************)
(* Properties.                                                             *)
(***************************************************************************)

\* The state is well formed.
TypeOK ==
  /\ initdone \in BOOLEAN /\ keeppin \in BOOLEAN /\ swap_programid \in BOOLEAN
  /\ firstrun \in BOOLEAN /\ requested \in BOOLEAN
  /\ original \subseteq Functions /\ hooked \subseteq Hooks /\ hooked \subseteq original
  /\ UIPanelOffset \in Layouts
  /\ attached \in [Hooks -> Nat] /\ notified \in 0..MaxNotify
  /\ fault \in {"", "stoi", "null"}

\* A function is hooked once, however often oep_notify is called; a hook on
\* top of itself would count every update of the PIN window twice.
HooksOnce == \A f \in Hooks : attached[f] <= 1

\* Where events are hooked, a login request ends the first run in the clients whose
\* RequestLogin is found, and in no other: if it does not end, every event logs in
\* again and resets pincount.  Detours failing on some function makes no exception,
\* for the two hooks are placed together or not at all.
RequestEndsFirstrun ==
  "ProcessEvent" \in hooked /\ requested => (~firstrun <=> "RequestLogin" \in Matched)

\* What the expressions read is what the arguments mean, in whatever order they
\* are given and in or without quotes: a value is whole, nobody else's, and of
\* the first argument that has one.  An argument no expression fits has none.
ArgumentsAsMeant ==
  AllPlain(args) => \A o \in Options : Captures(CommandText, o) = Meant(args, o)

\* Once started, the plugin has the switches the arguments and the variable
\* stand for, and no argument that only looks like one turns it on.  A variable
\* that may be read as 1 or not may turn the exchange of ids on.
SwitchesAsMeant ==
  initdone /\ AllPlain(args) =>
    /\ keeppin <=> MeantFlag(args, "-KEEPPIN")
    /\ swap_programid => 1 \in Parsed \/ MeantFlag(args, "-FIXPROGRAMID")
    /\ fault # "stoi" /\ (Parsed = {1} \/ MeantFlag(args, "-FIXPROGRAMID")) => swap_programid
=============================================================================
