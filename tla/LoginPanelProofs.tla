-------------------------- MODULE LoginPanelProofs --------------------------
(* Proofs about LoginPanel, for all texts, readings, inputs and bounds.      *)
EXTENDS LoginPanel, SequenceTheorems, TLAPS

Requests == [auto : BOOLEAN, boxes : Boxes]

-----------------------------------------------------------------------------
(***************************************************************************)
(* What GetLogin and the hooks do.                                         *)
(***************************************************************************)

\* GetLogin leaves what it keeps, and the environment, well formed.
LEMMA GetLoginType ==
  ASSUME TypeOK, NEW found \in BOOLEAN, GetLogin(found)
  PROVE  /\ env' \in [Vars -> Values] /\ loggedin' \in {0, 2, -1}
         /\ m_account' \in Values /\ m_password' \in Values
         /\ loadedIn' \subseteq 1..MaxLaunch
<1> USE ConstantsAssumption DEF ConstantsAssumption
<1>1. CASE GetLoginAgain(found)
  BY <1>1 DEF GetLoginAgain, login, TypeOK
<1>2. CASE FromEnv(found)
  <2>1. \A v \in Vars : env[v] # Empty => env[v] \in Texts /\ Reading[env[v]] \subseteq Values
    BY DEF TypeOK, Values
  <2>2. User \in Vars /\ Pass \in Vars
    BY DEF User, Pass, Vars
  <2>3. m_account' \in Values /\ m_password' \in Values
    BY <1>2, <2>1, <2>2 DEF FromEnv, TypeOK
  <2>4. env' \in [Vars -> Values] /\ loadedIn' \subseteq 1..MaxLaunch
    <3>1. /\ env \in [Vars -> Values] /\ launch \in 1..MaxLaunch
          /\ loadedIn \subseteq 1..MaxLaunch /\ Empty \in Values
      BY DEF TypeOK, Values
    <3>2. CASE found
      <4>1. env' = [v \in Vars |-> Empty] /\ loadedIn' = loadedIn \union {launch}
        BY <1>2, <3>2 DEF FromEnv
      <4>2. QED BY <3>1, <4>1
    <3>3. CASE ~found
      <4>1. env' = [env EXCEPT ![User] = Empty] /\ loadedIn' = loadedIn
        BY <1>2, <3>3 DEF FromEnv
      <4>2. QED BY <3>1, <4>1
    <3>4. QED BY <3>2, <3>3
  <2>5. QED  BY <1>2, <2>3, <2>4 DEF FromEnv
<1>3. CASE FromArgs(found)
  BY <1>3 DEF FromArgs, TypeOK, Opts
<1>4. CASE NoLogin(found)
  BY <1>4 DEF NoLogin, TypeOK
<1>5. QED  BY <1>1, <1>2, <1>3, <1>4 DEF GetLogin

\* What one event leads to: a request of the plugin's own, if and only if it is a
\* first run with filled boxes, and the user's, in this order.
LEMMA EventRequests ==
  ASSUME TypeOK, NEW clicked \in BOOLEAN, hkTitleLoginPanel_ProcessEvent(clicked)
  PROVE  \E made \in Seq(Requests) :
           /\ Len(made) <= 2
           /\ sent' = sent \o made
           /\ firstrun' = (firstrun /\ made = <<>>)
           /\ waiting' = (waiting \/ made # <<>>)
           /\ \A i \in 1..Len(made) :
                made[i].boxes = boxes /\ (made[i].auto => i = 1 /\ firstrun /\ Ready)
           /\ firstrun /\ Ready => 1 \in 1..Len(made) /\ made[1].auto
<1> DEFINE auto == Request(TRUE)  user == Request(FALSE)
           own == IF firstrun /\ Ready THEN <<auto>> ELSE <<>>
           events == IF clicked THEN <<user>> ELSE <<>>
           made == own \o events
<1>1. /\ auto \in Requests /\ user \in Requests
      /\ auto.boxes = boxes /\ user.boxes = boxes /\ auto.auto /\ ~user.auto
  BY DEF Request, Requests, TypeOK
<1>2. /\ sent' = sent \o made
      /\ firstrun' = (firstrun /\ made = <<>>)
      /\ waiting' = (waiting \/ made # <<>>)
  BY DEF hkTitleLoginPanel_ProcessEvent, hkLobby_RequestLogin
<1> HIDE DEF auto, user
<1>3. \/ own = <<auto>> /\ firstrun /\ Ready
      \/ own = <<>> /\ ~(firstrun /\ Ready)
  OBVIOUS
<1>4. events = <<user>> \/ events = <<>>
  OBVIOUS
<1> HIDE DEF own, events
<1>5. /\ own \in Seq(Requests) /\ Len(own) \in {0, 1}
      /\ \A i \in 1..Len(own) : own[i] = auto /\ own # <<>>
  <2>1. CASE own = <<auto>>
    BY <1>1, <2>1
  <2>2. CASE own = <<>>
    <3>1. own \in Seq(Requests) /\ Len(own) = 0
      BY <2>2
    <3>2. \A i \in 1..Len(own) : FALSE
      BY <3>1
    <3>3. QED  BY <3>1, <3>2
  <2>3. QED  BY <1>3, <2>1, <2>2
<1>6. /\ events \in Seq(Requests) /\ Len(events) \in {0, 1}
      /\ \A i \in 1..Len(events) : events[i] = user
  <2>1. CASE events = <<user>>
    BY <1>1, <2>1
  <2>2. CASE events = <<>>
    <3>1. events \in Seq(Requests) /\ Len(events) = 0
      BY <2>2
    <3>2. \A i \in 1..Len(events) : FALSE
      BY <3>1
    <3>3. QED  BY <3>1, <3>2
  <2>3. QED  BY <1>4, <2>1, <2>2
<1>7. own # <<>> => firstrun /\ Ready
  BY <1>3
<1>8. /\ made \in Seq(Requests) /\ Len(made) = Len(own) + Len(events)
      /\ \A i \in 1..Len(made) :
           made[i] = IF i <= Len(own) THEN own[i] ELSE events[i - Len(own)]
  BY <1>5, <1>6, ConcatProperties
<1> HIDE DEF made
<1>9. ASSUME NEW i \in 1..Len(made)
      PROVE  made[i].boxes = boxes /\ (made[i].auto => i = 1 /\ firstrun /\ Ready)
  <2>1. CASE i <= Len(own)
    <3>1. i \in 1..Len(own) /\ i = 1 /\ made[i] = own[i]
      BY <1>5, <1>8, <2>1
    <3>2. QED  BY <1>5, <1>1, <1>7, <3>1
  <2>2. CASE ~(i <= Len(own))
    <3>1. i - Len(own) \in 1..Len(events) /\ made[i] = events[i - Len(own)]
      BY <1>5, <1>6, <1>8, <2>2
    <3>2. QED  BY <1>6, <1>1, <3>1
  <2>3. QED  BY <2>1, <2>2
<1>10. Len(made) <= 2
  BY <1>5, <1>6, <1>8
<1>11. ASSUME firstrun /\ Ready PROVE 1 \in 1..Len(made) /\ made[1].auto
  <2>1. own = <<auto>>
    BY <1>3, <1>11
  <2>2. Len(own) = 1
    BY <2>1
  <2>3. /\ 1 \in 1..Len(made) /\ 1 \in 1..Len(own) /\ 1 <= Len(own)
    BY <1>6, <1>8, <2>2
  <2>4. made[1] = auto
    BY <1>5, <1>8, <2>3
  <2>5. QED  BY <1>1, <2>3, <2>4
<1>12. QED  BY <1>2, <1>8, <1>9, <1>10, <1>11
-----------------------------------------------------------------------------
(***************************************************************************)
(* Type correctness.                                                       *)
(***************************************************************************)

LEMMA InitType == Init => TypeOK
<1> SUFFICES ASSUME Init PROVE TypeOK  OBVIOUS
<1> USE ConstantsAssumption DEF ConstantsAssumption, Init
<1>1. Empty \in Values /\ boxes \in Boxes
  BY DEF Values, Boxes
<1>2. sent \in Seq([auto : BOOLEAN, boxes : Boxes]) /\ Len(sent) <= MaxRequests + 1
  <2>1. sent \in Seq([auto : BOOLEAN, boxes : Boxes]) /\ Len(sent) = 0
    BY EmptySeq
  <2>2. QED  BY <2>1
<1>3. /\ env0 \in [Vars -> Values] /\ launch \in 1..MaxLaunch
      /\ loadedIn \subseteq 1..MaxLaunch /\ typed \in 0..MaxTyped
  OBVIOUS
<1>4. QED  BY <1>1, <1>2, <1>3 DEF TypeOK

LEMMA NextType == TypeOK /\ [Next]_vars => TypeOK'
<1> SUFFICES ASSUME TypeOK, [Next]_vars PROVE TypeOK'  OBVIOUS
<1> USE ConstantsAssumption DEF ConstantsAssumption
<1>1. CASE Open
  <2> PICK found \in BOOLEAN :
        /\ GetLogin(found)
        /\ boxes' = IF found THEN [account |-> m_account', password |-> m_password']
                             ELSE GameBoxes
    BY <1>1 DEF Open, hkOpenLoginPanel
  <2>1. /\ env' \in [Vars -> Values] /\ loggedin' \in {0, 2, -1}
        /\ m_account' \in Values /\ m_password' \in Values
        /\ loadedIn' \subseteq 1..MaxLaunch
    BY GetLoginType
  <2>2. boxes' \in Boxes
    BY <2>1 DEF GameBoxes, Boxes, Values
  <2>3. QED  BY <1>1, <2>1, <2>2 DEF Open, process, TypeOK
<1>2. CASE Event
  <2> PICK clicked \in BOOLEAN :
        Len(sent) < MaxRequests /\ hkTitleLoginPanel_ProcessEvent(clicked)
    BY <1>2 DEF Event
  <2> PICK made \in Seq(Requests) :
        /\ Len(made) <= 2 /\ sent' = sent \o made
        /\ firstrun' = (firstrun /\ made = <<>>)
        /\ waiting' = (waiting \/ made # <<>>)
    BY EventRequests
  <2>1. /\ sent' \in Seq([auto : BOOLEAN, boxes : Boxes])
        /\ Len(sent') <= MaxRequests + 1
    <3>1. sent \in Seq(Requests) /\ Len(sent) \in Nat /\ Len(made) \in Nat
      BY LenProperties DEF TypeOK, Requests
    <3>2. sent' \in Seq(Requests) /\ Len(sent') = Len(sent) + Len(made)
      BY <3>1, ConcatProperties
    <3>3. QED  BY <3>1, <3>2 DEF Requests
  <2>2. firstrun' \in BOOLEAN /\ waiting' \in BOOLEAN
    OBVIOUS
  <2>3. pincount' \in {0, 1}
    BY DEF hkTitleLoginPanel_ProcessEvent, TypeOK
  <2>4. QED  BY <1>2, <2>1, <2>2, <2>3 DEF Event, login, process, TypeOK
<1>3. CASE Type
  BY <1>3 DEF Type, login, process, TypeOK
<1>4. CASE Answer
  BY <1>4 DEF Answer, login, process, TypeOK
<1>5. CASE PinUpdate
  BY <1>5 DEF PinUpdate, login, process, TypeOK
<1>6. CASE Relaunch
  <2>1. m_account' \in Values /\ m_password' \in Values /\ boxes' \in Boxes
    BY <1>6 DEF Relaunch, Values, Boxes
  <2>2. /\ sent' \in Seq([auto : BOOLEAN, boxes : Boxes])
        /\ Len(sent') <= MaxRequests + 1
    BY <1>6, EmptySeq DEF Relaunch
  <2>3. launch' \in 1..MaxLaunch /\ typed' \in 0..MaxTyped
    BY <1>6 DEF Relaunch, TypeOK
  <2>4. QED  BY <1>6, <2>1, <2>2, <2>3 DEF Relaunch, TypeOK
<1>7. CASE UNCHANGED vars
  BY <1>7 DEF vars, TypeOK
<1>8. QED  BY <1>1, <1>2, <1>3, <1>4, <1>5, <1>6, <1>7 DEF Next

\* Every reachable state is well formed: whatever the buffers give, the login
\* is made of texts, and an event makes two requests at most.
THEOREM TypeCorrect == Spec => []TypeOK
<1>1. QED  BY InitType, NextType, PTL DEF Spec
-----------------------------------------------------------------------------
(***************************************************************************)
(* Where the login comes from.                                             *)
(***************************************************************************)

\* Until GetLogin has looked, the environment is the one the process got; and
\* it has a password only with an account from the same source.
SourceInv ==
  /\ loggedin = 0 => env = env0
  /\ loggedin # 2 => m_password = Empty
  /\ LoginFromOneSource

\* What is configured does not change while the process runs.
LEMMA ConfigurationStays ==
  ASSUME UNCHANGED <<args, env0>>
  PROVE  Configured' = Configured /\ Logins' = Logins
BY DEF Configured, Logins

LEMMA GetLoginSource ==
  ASSUME TypeOK, SourceInv, NEW found \in BOOLEAN, GetLogin(found), UNCHANGED <<args, env0>>
  PROVE  SourceInv'
<1> USE DEF SourceInv, LoginFromOneSource
<1>1. CASE GetLoginAgain(found)
  BY <1>1, ConfigurationStays DEF GetLoginAgain, login
<1>2. CASE FromEnv(found)
  <2>1. env = env0 /\ m_password = Empty /\ env0[User] # Empty
    BY <1>2 DEF FromEnv
  <2>2. CASE env[Pass] # Empty
    <3>1. /\ m_account' \in Reading[env0[User]] /\ m_password' \in Reading[env0[Pass]]
          /\ loggedin' = 2
      BY <1>2, <2>1, <2>2 DEF FromEnv
    <3>2. Configured
      BY <2>1, <2>2 DEF Configured
    <3>3. [account |-> m_account', password |-> m_password'] \in Logins
      BY <2>1, <3>1 DEF Logins
    <3>4. QED  BY <3>1, <3>2, <3>3, ConfigurationStays
  <2>3. CASE env[Pass] = Empty
    <3>1. loggedin' = -1 /\ m_password' = m_password
      BY <1>2, <2>3 DEF FromEnv
    <3>2. QED  BY <2>1, <3>1
  <2>4. QED  BY <2>2, <2>3
<1>3. CASE FromArgs(found)
  <2>1. env = env0 /\ m_password = Empty /\ env0[User] = Empty
    BY <1>3 DEF FromArgs
  <2>2. CASE args["-PASSWORD"] # Absent
    <3>1. /\ m_account' = args["-USERNAME"] /\ m_password' = args["-PASSWORD"]
          /\ loggedin' = 2 /\ args["-USERNAME"] # Absent
      BY <1>3, <2>2 DEF FromArgs
    <3>2. Configured
      BY <2>1, <2>2, <3>1 DEF Configured
    <3>3. [account |-> m_account', password |-> m_password'] \in Logins
      BY <2>1, <3>1 DEF Logins
    <3>4. QED  BY <3>1, <3>2, <3>3, ConfigurationStays
  <2>3. CASE args["-PASSWORD"] = Absent
    <3>1. loggedin' = -1 /\ m_password' = m_password
      BY <1>3, <2>3 DEF FromArgs
    <3>2. QED  BY <2>1, <3>1
  <2>4. QED  BY <2>2, <2>3
<1>4. CASE NoLogin(found)
  BY <1>4 DEF NoLogin
<1>5. QED  BY <1>1, <1>2, <1>3, <1>4 DEF GetLogin

LEMMA SourceStep == TypeOK /\ SourceInv /\ [Next]_vars => SourceInv'
<1> SUFFICES ASSUME TypeOK, SourceInv, [Next]_vars PROVE SourceInv'  OBVIOUS
<1>1. CASE Open
  BY <1>1, GetLoginSource DEF Open, hkOpenLoginPanel, process
<1>2. ASSUME UNCHANGED <<env, args, env0>> /\ UNCHANGED login PROVE SourceInv'
  BY <1>2, ConfigurationStays DEF login, SourceInv, LoginFromOneSource
<1>3. CASE Event
  BY <1>2, <1>3 DEF Event, process
<1>4. CASE Type
  BY <1>2, <1>4 DEF Type, process
<1>5. CASE Answer
  BY <1>2, <1>5 DEF Answer, process
<1>6. CASE PinUpdate
  BY <1>2, <1>6 DEF PinUpdate, process
<1>7. CASE Relaunch
  BY <1>7 DEF Relaunch, SourceInv, LoginFromOneSource
<1>8. CASE UNCHANGED vars
  BY <1>2, <1>8 DEF vars, login
<1>9. QED  BY <1>1, <1>3, <1>4, <1>5, <1>6, <1>7, <1>8 DEF Next

LEMMA SourceInvariant == Spec => [](TypeOK /\ SourceInv)
<1>1. Init => SourceInv
  BY DEF Init, SourceInv, LoginFromOneSource
<1>2. QED  BY <1>1, SourceStep, InitType, NextType, PTL DEF Spec

\* GetLogin never joins an account of one source to a password of another.
THEOREM LoginIsWhole == Spec => []LoginFromOneSource
<1>1. SourceInv => LoginFromOneSource
  BY DEF SourceInv
<1>2. QED  BY <1>1, SourceInvariant, PTL

\* A launch that took its login from the environment has emptied the variable
\* without which no other launch takes one.
TakenInv == EnvLoginOnce /\ (loadedIn # {} => env[User] = Empty)

LEMMA TakenStep == TypeOK /\ TakenInv /\ [Next]_vars => TakenInv'
<1> SUFFICES ASSUME TypeOK, TakenInv, [Next]_vars PROVE TakenInv'  OBVIOUS
<1> USE DEF TakenInv, EnvLoginOnce
<1>1. ASSUME NEW found \in BOOLEAN, GetLogin(found) PROVE TakenInv'
  <2>1. CASE FromEnv(found)
    <3>1. loadedIn = {} /\ loadedIn' \in {{}, {launch}}
      BY <2>1 DEF FromEnv
    <3>2. env'[User] = Empty
      BY <2>1 DEF FromEnv, TypeOK, User, Vars
    <3>3. QED  BY <3>1, <3>2
  <2>2. CASE UNCHANGED <<env, loadedIn>>
    BY <2>2
  <2>3. QED
    BY <1>1, <2>1, <2>2 DEF GetLogin, GetLoginAgain, FromArgs, NoLogin
<1>2. CASE Open
  BY <1>1, <1>2 DEF Open, hkOpenLoginPanel
<1>3. CASE UNCHANGED <<env, loadedIn>>
  BY <1>3
<1>4. QED
  BY <1>2, <1>3 DEF Next, Event, Type, Answer, PinUpdate, Relaunch, vars

\* The environment's login serves one launch, though every launch inherits it.
THEOREM EnvLoginTakenOnce == Spec => []EnvLoginOnce
<1>1. Init => TakenInv
  BY DEF Init, TakenInv, EnvLoginOnce
<1>2. TakenInv => EnvLoginOnce
  BY DEF TakenInv
<1>3. QED  BY <1>1, <1>2, TakenStep, InitType, NextType, PTL DEF Spec
-----------------------------------------------------------------------------
(***************************************************************************)
(* The requests of a launch.                                               *)
(***************************************************************************)

\* The requests one event adds come after those there were.
LEMMA SentGrows ==
  ASSUME TypeOK, NEW made \in Seq(Requests), sent' = sent \o made
  PROVE  /\ Len(sent) \in Nat /\ Len(made) \in Nat /\ Len(sent') = Len(sent) + Len(made)
         /\ \A i \in 1..Len(sent) : sent'[i] = sent[i]
         /\ \A i \in 1..Len(made) : sent'[Len(sent) + i] = made[i]
         /\ sent = <<>> <=> Len(sent) = 0
         /\ made = <<>> <=> Len(made) = 0
         /\ sent' = <<>> <=> Len(sent') = 0
<1>1. sent \in Seq(Requests)
  BY DEF TypeOK, Requests
<1>2. /\ sent' \in Seq(Requests) /\ Len(sent') = Len(sent) + Len(made)
      /\ \A i \in 1..(Len(sent) + Len(made)) :
           sent'[i] = IF i <= Len(sent) THEN sent[i] ELSE made[i - Len(sent)]
  BY <1>1, ConcatProperties
<1>3. Len(sent) \in Nat /\ Len(made) \in Nat
  BY <1>1, LenProperties
<1>4. ASSUME NEW i \in 1..Len(made) PROVE sent'[Len(sent) + i] = made[i]
  <2>1. /\ Len(sent) + i \in 1..(Len(sent) + Len(made))
        /\ ~(Len(sent) + i <= Len(sent)) /\ Len(sent) + i - Len(sent) = i
    BY <1>3
  <2>2. QED  BY <1>2, <2>1
<1>5. \A i \in 1..Len(sent) : sent'[i] = sent[i]
  BY <1>2, <1>3
<1>6. \A s \in Seq(Requests) : s = <<>> <=> Len(s) = 0
  BY EmptySeq
<1>7. QED  BY <1>1, <1>2, <1>3, <1>4, <1>5, <1>6

\* The flag firstrun tells whether a request was made; the boxes, as long as the
\* user has not typed, hold no password or the login GetLogin found.
RequestInv ==
  /\ firstrun <=> sent = <<>>
  /\ typed = 0 => \/ boxes.password = Empty
                  \/ loggedin = 2 /\ boxes = [account |-> m_account, password |-> m_password]
  /\ AutoOnlyFirst
  /\ AutoSendsLogin

\* Opening the panel fills the boxes with no password but that of the login.
LEMMA OpenBoxes ==
  ASSUME TypeOK, SourceInv, SourceInv', TypeOK', Open
  PROVE  \/ boxes'.password = Empty
         \/ loggedin' = 2 /\ boxes' = [account |-> m_account', password |-> m_password']
<1> PICK found \in BOOLEAN :
      boxes' = IF found THEN [account |-> m_account', password |-> m_password']
                        ELSE GameBoxes
  BY DEF Open, hkOpenLoginPanel
<1>1. CASE found /\ loggedin' = 2
  BY <1>1
<1>2. CASE found /\ loggedin' # 2
  BY <1>2 DEF SourceInv
<1>3. CASE ~found
  BY <1>3 DEF GameBoxes
<1>4. QED  BY <1>1, <1>2, <1>3

LEMMA RequestStep ==
  ASSUME TypeOK, TypeOK', SourceInv, SourceInv', RequestInv, [Next]_vars
  PROVE  RequestInv'
<1> USE DEF RequestInv, AutoOnlyFirst, AutoSendsLogin
<1>1. CASE Open
  <2>1. UNCHANGED <<args, env0, sent, typed, firstrun>>
    BY <1>1 DEF Open, process
  <2>2. QED  BY <1>1, <2>1, OpenBoxes, ConfigurationStays
<1>2. CASE Event
  <2> PICK clicked \in BOOLEAN : hkTitleLoginPanel_ProcessEvent(clicked)
    BY <1>2 DEF Event
  <2> PICK made \in Seq(Requests) :
        /\ Len(made) <= 2 /\ sent' = sent \o made
        /\ firstrun' = (firstrun /\ made = <<>>)
        /\ \A i \in 1..Len(made) :
             made[i].boxes = boxes /\ (made[i].auto => i = 1 /\ firstrun /\ Ready)
    BY EventRequests
  <2>1. /\ Len(sent) \in Nat /\ Len(made) \in Nat /\ Len(sent') = Len(sent) + Len(made)
        /\ \A i \in 1..Len(sent) : sent'[i] = sent[i]
        /\ \A i \in 1..Len(made) : sent'[Len(sent) + i] = made[i]
        /\ sent = <<>> <=> Len(sent) = 0
        /\ made = <<>> <=> Len(made) = 0
        /\ sent' = <<>> <=> Len(sent') = 0
    BY SentGrows
  <2>2. UNCHANGED <<args, env0, typed, boxes, loggedin, m_account, m_password>>
    BY <1>2 DEF Event, process, login
  <2>3. firstrun' <=> sent' = <<>>
    <3>1. sent' = <<>> <=> sent = <<>> /\ made = <<>>
      BY <2>1
    <3>2. QED  BY <3>1, Zenon
  <2>4. AutoOnlyFirst'
    <3> SUFFICES ASSUME NEW i \in 2..Len(sent') PROVE ~sent'[i].auto
      OBVIOUS
    <3>1. CASE i <= Len(sent)
      BY <2>1, <3>1
    <3>2. CASE ~(i <= Len(sent))
      <4>1. i - Len(sent) \in 1..Len(made) /\ sent'[i] = made[i - Len(sent)]
        <5>1. i - Len(sent) \in 1..Len(made) /\ Len(sent) + (i - Len(sent)) = i
          BY <2>1, <3>2
        <5>2. QED  BY <2>1, <5>1
      <4>2. CASE firstrun
        BY <2>1, <4>1, <4>2
      <4>3. CASE ~firstrun
        BY <4>1, <4>3
      <4>4. QED  BY <4>2, <4>3
    <3>3. QED  BY <3>1, <3>2
  <2>5. AutoSendsLogin'
    <3> SUFFICES ASSUME sent' # <<>>, sent'[1].auto, typed = 0
                 PROVE  Configured /\ sent'[1].boxes \in Logins
      BY <2>2, ConfigurationStays
    <3>1. CASE sent # <<>>
      <4>1. 1 \in 1..Len(sent)
        BY <2>1, <3>1
      <4>2. QED  BY <2>1, <3>1, <4>1
    <3>2. CASE sent = <<>>
      <4>1. 1 \in 1..Len(made) /\ sent'[1] = made[1]
        <5>1. Len(sent) + 1 = 1 /\ 1 \in 1..Len(made)
          BY <2>1, <3>2
        <5>2. QED  BY <2>1, <5>1
      <4>2. made[1].boxes = boxes /\ boxes.password # Empty
        BY <4>1 DEF Ready
      <4>3. loggedin = 2 /\ boxes = [account |-> m_account, password |-> m_password]
        BY <4>2
      <4>4. QED  BY <4>1, <4>2, <4>3 DEF SourceInv, LoginFromOneSource
    <3>3. QED  BY <3>1, <3>2
  <2>6. QED  BY <2>2, <2>3, <2>4, <2>5
<1>3. CASE Type
  <2>1. /\ UNCHANGED <<args, env0, sent, firstrun>> /\ typed' = typed + 1
        /\ typed \in Nat
    BY <1>3 DEF Type, process, TypeOK
  <2>2. QED  BY <1>3, <2>1 DEF Type
<1>4. CASE Answer
  BY <1>4, ConfigurationStays DEF Answer, login, process
<1>5. CASE PinUpdate
  BY <1>5, ConfigurationStays DEF PinUpdate, login, process
<1>6. CASE Relaunch
  <2>1. sent' = <<>> /\ Len(sent') = 0 /\ firstrun' = TRUE
        /\ boxes'.password = Empty
    BY <1>6 DEF Relaunch
  <2>2. QED  BY <2>1
<1>7. CASE UNCHANGED vars
  BY <1>7, ConfigurationStays DEF vars
<1>8. QED  BY <1>1, <1>2, <1>3, <1>4, <1>5, <1>6, <1>7 DEF Next

LEMMA RequestInvariant == Spec => [](TypeOK /\ SourceInv /\ RequestInv)
<1>1. Init => SourceInv /\ RequestInv
  BY DEF Init, SourceInv, LoginFromOneSource, RequestInv, AutoOnlyFirst, AutoSendsLogin
<1>2. TypeOK /\ TypeOK' /\ SourceInv /\ SourceInv' /\ RequestInv /\ [Next]_vars => RequestInv'
  BY RequestStep
<1>3. QED  BY <1>1, <1>2, InitType, NextType, SourceStep, PTL DEF Spec

\* A login is requested by the plugin first or never, in any launch.
THEOREM OnlyTheFirstIsAutomatic == Spec => []AutoOnlyFirst
<1>1. RequestInv => AutoOnlyFirst
  BY DEF RequestInv
<1>2. QED  BY <1>1, RequestInvariant, PTL

\* What it then requests, if the user has not typed, is the login that is
\* configured, however often the panel was opened before.
THEOREM AutomaticIsConfigured == Spec => []AutoSendsLogin
<1>1. RequestInv => AutoSendsLogin
  BY DEF RequestInv
<1>2. QED  BY <1>1, RequestInvariant, PTL
-----------------------------------------------------------------------------
(***************************************************************************)
(* A configured login is requested by the first event that finds the panel *)
(* open.  That such an event comes is what AutoLogin adds, under fairness. *)
(***************************************************************************)

\* A login is configured, and no buffer gives the empty text for it.
Wanted == Configured /\ \A l \in Logins : Empty \notin {l.account, l.password}

RequestsWanted ==
  [][Event /\ panelOpen /\ firstrun /\ typed = 0 /\ Wanted
       => sent' # <<>> /\ sent'[1].auto /\ sent'[1].boxes \in Logins]_vars

\* GetLogin misses no login that is configured, and the open panel shows it.
FoundInv ==
  /\ loggedin = -1 => ~Configured
  /\ panelOpen => loggedin # 0
  /\ panelOpen /\ typed = 0 /\ loggedin = 2
       => boxes = [account |-> m_account, password |-> m_password]

LEMMA GetLoginFinds ==
  ASSUME TypeOK, SourceInv, FoundInv, NEW found \in BOOLEAN, GetLogin(found),
         UNCHANGED <<args, env0>>
  PROVE  /\ loggedin' = -1 => ~Configured
         /\ loggedin' # 0
         /\ loggedin' = 2 => found
<1> USE DEF FoundInv
<1>1. CASE GetLoginAgain(found)
  BY <1>1 DEF GetLoginAgain, Bool, login
<1>2. CASE FromEnv(found)
  <2>1. env0 = env /\ env0[User] # Empty
    BY <1>2 DEF FromEnv, SourceInv
  <2>2. CASE found
    BY <1>2, <2>2 DEF FromEnv
  <2>3. CASE ~found
    <3>1. env[Pass] = Empty /\ loggedin' = -1
      BY <1>2, <2>3 DEF FromEnv
    <3>2. QED  BY <2>1, <3>1 DEF Configured
  <2>4. QED  BY <2>2, <2>3
<1>3. CASE FromArgs(found)
  <2>1. env0 = env /\ env0[User] = Empty
    BY <1>3 DEF FromArgs, SourceInv
  <2>2. CASE found
    BY <1>3, <2>2 DEF FromArgs
  <2>3. CASE ~found
    <3>1. args["-PASSWORD"] = Absent /\ loggedin' = -1
      BY <1>3, <2>3 DEF FromArgs
    <3>2. QED  BY <2>1, <3>1 DEF Configured
  <2>4. QED  BY <2>2, <2>3
<1>4. CASE NoLogin(found)
  BY <1>4 DEF NoLogin, SourceInv, Configured
<1>5. QED  BY <1>1, <1>2, <1>3, <1>4 DEF GetLogin

LEMMA FoundStep == TypeOK /\ SourceInv /\ FoundInv /\ [Next]_vars => FoundInv'
<1> SUFFICES ASSUME TypeOK, SourceInv, FoundInv, [Next]_vars PROVE FoundInv'  OBVIOUS
<1>1. CASE Open
  <2> PICK found \in BOOLEAN :
        /\ GetLogin(found)
        /\ boxes' = IF found THEN [account |-> m_account', password |-> m_password']
                             ELSE GameBoxes
    BY <1>1 DEF Open, hkOpenLoginPanel
  <2>1. UNCHANGED <<args, env0>>
    BY <1>1 DEF Open, process
  <2>2. QED  BY <2>1, GetLoginFinds, ConfigurationStays DEF FoundInv
<1>2. CASE Event
  BY <1>2, ConfigurationStays DEF Event, login, process, FoundInv
<1>3. CASE Type
  <2>1. typed' # 0
    BY <1>3 DEF Type, TypeOK
  <2>2. QED  BY <1>3, <2>1, ConfigurationStays DEF Type, login, process, FoundInv
<1>4. CASE Answer
  BY <1>4, ConfigurationStays DEF Answer, login, process, FoundInv
<1>5. CASE PinUpdate
  BY <1>5, ConfigurationStays DEF PinUpdate, login, process, FoundInv
<1>6. CASE Relaunch
  BY <1>6 DEF Relaunch, FoundInv
<1>7. CASE UNCHANGED vars
  BY <1>7, ConfigurationStays DEF vars, FoundInv
<1>8. QED  BY <1>1, <1>2, <1>3, <1>4, <1>5, <1>6, <1>7 DEF Next

\* With a login configured, the first event at the open panel requests it, by
\* the plugin and unchanged, if the user has not typed.
THEOREM WantedIsRequested == Spec => RequestsWanted
<1> DEFINE Requested == sent' # <<>> /\ sent'[1].auto /\ sent'[1].boxes \in Logins
<1>1. Init => FoundInv
  BY DEF Init, FoundInv
<1>2. ASSUME TypeOK, SourceInv, RequestInv, FoundInv,
             Event, panelOpen, firstrun, typed = 0, Wanted
      PROVE  Requested
  <2>1. loggedin = 2
    BY <1>2 DEF FoundInv, TypeOK, Wanted
  <2>2. boxes = [account |-> m_account, password |-> m_password]
    BY <1>2, <2>1 DEF FoundInv
  <2>3. boxes \in Logins /\ Empty \notin {boxes.account, boxes.password}
    BY <1>2, <2>1, <2>2 DEF SourceInv, LoginFromOneSource, Wanted
  <2>4. Ready
    BY <2>3 DEF Ready
  <2> PICK clicked \in BOOLEAN : hkTitleLoginPanel_ProcessEvent(clicked)
    BY <1>2 DEF Event
  <2> PICK made \in Seq(Requests) :
        /\ sent' = sent \o made
        /\ \A i \in 1..Len(made) : made[i].boxes = boxes
        /\ firstrun /\ Ready => 1 \in 1..Len(made) /\ made[1].auto
    BY <1>2, EventRequests
  <2>5. 1 \in 1..Len(made) /\ made[1].auto /\ made[1].boxes = boxes
    BY <1>2, <2>4
  <2>6. /\ Len(sent) = 0 /\ sent'[Len(sent) + 1] = made[1]
        /\ sent' = <<>> <=> Len(sent') = 0
        /\ Len(made) \in Nat /\ Len(sent') = Len(sent) + Len(made)
    BY <1>2, <2>5, SentGrows DEF RequestInv
  <2>7. sent' # <<>> /\ sent'[1] = made[1]
    BY <2>5, <2>6
  <2>8. QED  BY <2>3, <2>5, <2>7
<1>3. TypeOK /\ SourceInv /\ RequestInv /\ FoundInv /\ [Next]_vars
        => [Event /\ panelOpen /\ firstrun /\ typed = 0 /\ Wanted => Requested]_vars
  BY <1>2
<1>4. QED
  BY <1>1, <1>3, FoundStep, RequestInvariant, PTL DEF Spec, RequestsWanted
=============================================================================
