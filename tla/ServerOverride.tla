--------------------------- MODULE ServerOverride ---------------------------
(***************************************************************************)
(* GetServer and the arguments hkLobby_RequestLogin passes on (Lobby.h):   *)
(* each server setting of the environment replaces the game's own, and     *)
(* -FIXPROGRAMID exchanges the game's program id for another region's.     *)
(* Who makes a request, and what its account and password are, is the      *)
(* subject of LoginPanel.                                                  *)
(***************************************************************************)
EXTENDS Integers

CONSTANTS
  Addresses,    \* texts the variables of addresses and codes can hold
  Numerals,     \* texts the variables of ports and ids can hold
  Empty,        \* the empty text, and a variable that is not set
  Reading,      \* Reading[t]: what the buffer may hold after reading t
  Stoi,         \* Stoi[t]: the number std::stoi makes of t
  NotANumber,   \* what it throws on
  GameTexts,    \* addresses and game codes the game asks for
  GamePorts,    \* ports the game asks for
  GameIds,      \* program ids the game asks for
  MaxRequests   \* bound on the requests of a process

TextFields   == {"npAddress", "npGameCode", "lobbyAddress"}
NumberFields == {"npPort", "npProgramId", "lobbyPort"}
Fields       == TextFields \union NumberFields
UInt16       == 0..65535

U16Wide(n) == n                        \* mutant: the fields are int

\* unsigned __int16
U16(n) == n % 65536

Texts  == Addresses \union Numerals
Values == Texts \union {Empty}

\* One value for each field, from the set of the field.
ForFields(S(_)) ==
  [npAddress : S("npAddress"), npPort : S("npPort"), npProgramId : S("npProgramId"),
   npGameCode : S("npGameCode"), lobbyAddress : S("lobbyAddress"), lobbyPort : S("lobbyPort")]

Args ==
  LET Asks(f) == IF f \in TextFields THEN GameTexts
                 ELSE IF f = "npProgramId" THEN GameIds ELSE GamePorts
  IN  ForFields(Asks)

ASSUME ConstantsAssumption ==
  /\ Empty \notin Texts
  /\ Reading \in [Texts -> SUBSET Values]
  /\ NotANumber \notin Int
  /\ Stoi \in [Values -> Int \union {NotANumber}]
  /\ Stoi[Empty] = NotANumber
  /\ GamePorts \subseteq UInt16 /\ GameIds \subseteq UInt16
  /\ MaxRequests \in Nat

VARIABLES
  env,              \* the variable BNS_SERVER_... of each field
  swap_programid,   \* -FIXPROGRAMID
  firstrun,         \* no request was made yet; read by the hook on ProcessEvent
  lhdata,           \* the settings GetServer has read
  alive,            \* the process runs: std::stoi has not thrown
  asked,            \* history: the arguments of the last request
  passed,           \* history: the arguments it was passed on with
  requests          \* history: how many there were

vars == <<env, swap_programid, firstrun, lhdata, alive, asked, passed, requests>>

-----------------------------------------------------------------------------
Unset(f) == env[f] = Empty

\* What GetServer may find in the buffer for each field, all read in one call.
Buffers ==
  LET Held(f) == IF Unset(f) THEN {Empty} ELSE Reading[env[f]]
  IN  ForFields(Held)

\* The order in which GetServer looks at the settings.
Rank == [npAddress |-> 1, npPort |-> 2, npProgramId |-> 3,
         npGameCode |-> 4, lobbyAddress |-> 5, lobbyPort |-> 6]

ThrowsAt(b, f) == f \in NumberFields /\ ~Unset(f) /\ Stoi[b[f]] = NotANumber

Throws(b) == \E f \in Fields : ThrowsAt(b, f)

\* GetServer gets as far as storing f: nothing up to f has thrown.
Stored(b, f) == ~Unset(f) /\ \A g \in Fields : ThrowsAt(b, g) => Rank[f] < Rank[g]

AlwaysAny == TRUE                            \* mutant: GetServer's result ignored

HasAny == \E f \in Fields : ~Unset(f)

GetServerByName(b) ==                        \* mutant: one address for both
  [f \in Fields |-> IF f \in TextFields
                    THEN LET g == IF f = "lobbyAddress" THEN "npAddress" ELSE f
                         IN  IF Stored(b, g) THEN b[g] ELSE lhdata[g]
                    ELSE U16(IF Stored(b, f) THEN Stoi[b[f]] ELSE -1)]

\* The settings after GetServer, also when std::stoi has thrown out of it: a
\* text that is not stored stays what it was, a number is -1 in sixteen bits.
GetServer(b) ==
  [f \in Fields |-> IF f \in TextFields THEN IF Stored(b, f) THEN b[f] ELSE lhdata[f]
                    ELSE U16(IF Stored(b, f) THEN Stoi[b[f]] ELSE -1)]

SwapOf == [id \in {302, 306, 342, 343} |->
             CASE id = 302 -> 301 [] id = 306 -> 321 [] id = 342 -> 346 [] id = 343 -> 347]

Swapped(a) ==
  IF swap_programid /\ a["npProgramId"] \in DOMAIN SwapOf
  THEN [a EXCEPT !["npProgramId"] = SwapOf[@]] ELSE a

\* The comparison of an unsigned field with -1: it is promoted, and differs.
IsSet(n) == n # -1

Override(a, d) ==
  [f \in Fields |-> IF f \in TextFields THEN IF d[f] # Empty THEN d[f] ELSE a[f]
                    ELSE IF IsSet(d[f]) THEN d[f] ELSE a[f]]

AskLate == \E a \in Args, b \in Buffers :    \* mutant: read after they are used
  /\ alive /\ requests < MaxRequests
  /\ requests' = requests + 1
  /\ asked' = a /\ firstrun' = FALSE
  /\ lhdata' = GetServer(b)
  /\ IF Throws(b)
     THEN alive' = FALSE /\ UNCHANGED passed
     ELSE /\ passed' = IF HasAny THEN Override(Swapped(a), lhdata) ELSE Swapped(a)
          /\ UNCHANGED alive
  /\ UNCHANGED <<env, swap_programid>>

SwapLate == \E a \in Args, b \in Buffers :   \* mutant: the swap comes last
  /\ alive /\ requests < MaxRequests
  /\ requests' = requests + 1
  /\ asked' = a /\ firstrun' = FALSE
  /\ lhdata' = GetServer(b)
  /\ IF Throws(b)
     THEN alive' = FALSE /\ UNCHANGED passed
     ELSE /\ passed' = Swapped(IF HasAny THEN Override(a, lhdata') ELSE a)
          /\ UNCHANGED alive
  /\ UNCHANGED <<env, swap_programid>>

\* One call of hkLobby_RequestLogin.
RequestLogin == \E a \in Args, b \in Buffers :
  /\ alive /\ requests < MaxRequests
  /\ requests' = requests + 1
  /\ asked' = a /\ firstrun' = FALSE
  /\ lhdata' = GetServer(b)
  /\ IF Throws(b)
     THEN alive' = FALSE /\ UNCHANGED passed
     ELSE /\ passed' = IF HasAny THEN Override(Swapped(a), lhdata') ELSE Swapped(a)
          /\ UNCHANGED alive
  /\ UNCHANGED <<env, swap_programid>>

Init ==
  /\ LET Holds(f) == {Empty} \union (IF f \in TextFields THEN Addresses ELSE Numerals)
     IN  env \in ForFields(Holds)
  /\ swap_programid \in BOOLEAN
  /\ lhdata = [f \in Fields |-> IF f \in TextFields THEN Empty ELSE 0]
  /\ firstrun = TRUE /\ alive = TRUE
  /\ asked = lhdata /\ passed = lhdata /\ requests = 0

Next == RequestLogin

Spec == Init /\ [][Next]_vars

-----------------------------------------------------------------------------
(***************************************************************************)
(* Properties, of the last request that was passed on.                     *)
(***************************************************************************)

Passed == requests > 0 /\ alive

\* The variable is read as it stands.
Fits(f) == ~Unset(f) /\ Reading[env[f]] = {env[f]}

\* The state is well formed; what the game is handed are sixteen-bit numbers.
TypeOK ==
  /\ env \in [Fields -> Values]
  /\ firstrun \in BOOLEAN /\ swap_programid \in BOOLEAN /\ alive \in BOOLEAN /\ requests \in 0..MaxRequests
  /\ DOMAIN lhdata = Fields /\ DOMAIN asked = Fields /\ DOMAIN passed = Fields
  /\ \A f \in TextFields : /\ lhdata[f] \in Values
                            /\ passed[f] \in Values \union GameTexts
  /\ \A f \in NumberFields : lhdata[f] \in UInt16 /\ passed[f] \in UInt16

\* An address or a game code that is set replaces the game's, one that is not
\* leaves it alone, whatever the other settings are.
TextsAsConfigured ==
  Passed => \A f \in TextFields :
              /\ Fits(f) => passed[f] = env[f]
              /\ Unset(f) => passed[f] = asked[f]

\* A number that is set replaces the game's, -FIXPROGRAMID or not.
NumbersAsConfigured ==
  Passed => \A f \in NumberFields : Fits(f) => passed[f] = U16(Stoi[env[f]])

\* With no server variable set a request differs in the program id at most,
\* and with -FIXPROGRAMID no id that has a counterpart is passed on.
OnlyTheIdIsFixed ==
  Passed /\ (\A f \in Fields : Unset(f)) =>
    /\ \A f \in Fields \ {"npProgramId"} : passed[f] = asked[f]
    /\ ~swap_programid => passed = asked
    /\ swap_programid => passed["npProgramId"] \notin DOMAIN SwapOf

\* A request that is repeated goes to the same server as before.
RepeatedAlike ==
  [][Passed /\ alive' /\ asked' = asked /\ (\A f \in Fields : Unset(f) \/ Fits(f))
       => passed' = passed]_vars

\* A number that is not set leaves the game's alone.
NumbersUnsetLeftAlone ==
  Passed => \A f \in NumberFields : Unset(f) => passed[f] = Swapped(asked)[f]
=============================================================================
