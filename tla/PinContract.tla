---------------------------- MODULE PinContract -----------------------------
(***************************************************************************)
(* What the PIN window with the plugin owes its user, told from outside:   *)
(* the window, the server's answers and what is submitted, and by whom.    *)
(* Nothing is said of counters, number pads or slots.  A code the server   *)
(* refuses takes from the plugin the right to submit; a new verification   *)
(* and a click of the user's own, both, give it back.  What the plugin     *)
(* submits is the PIN it has settled on, to the end of the process.        *)
(* PinPanel is shown to implement this.                                    *)
(***************************************************************************)
EXTENDS Naturals

CONSTANTS
  Codes,        \* what can be submitted
  NoCode        \* the plugin has settled on no PIN

VARIABLES
  shown,        \* the window is shown
  unanswered,   \* the submissions the server has not answered
  pin,          \* the PIN the plugin has settled on
  clean,        \* no code was refused in this verification
  trusted,      \* no code was refused since the user clicked last
  sent          \* what the last step submitted, and whether the plugin did

vars == <<shown, unanswered, pin, clean, trusted, sent>>

\* The plugin submits: one more than the `queue' that is under way.
Auto(queue) ==
  /\ trusted /\ clean'
  /\ sent'.auto /\ sent'.code \in Codes
  /\ pin' # NoCode => sent'.code = pin'
  /\ pin # NoCode => pin' = pin
  /\ unanswered' = queue + 1

\* The window is drawn and the plugin leaves it to the user, though it may
\* have learnt the PIN.
Idle(queue) ==
  /\ ~sent'.auto
  /\ pin # NoCode => pin' = pin
  /\ unanswered' = queue

\* The window appears, for a new verification or to go on with the last.
Appear ==
  /\ ~shown /\ shown'
  /\ clean' \in {clean, TRUE}
  /\ Auto(0) \/ Idle(0)
  /\ UNCHANGED trusted

Draw ==
  /\ shown
  /\ Auto(unanswered) \/ Idle(unanswered)
  /\ UNCHANGED <<shown, clean, trusted>>

\* The user confirms an entry, which is submitted if it is complete.
Click ==
  /\ shown
  /\ trusted'
  /\ ~sent'.auto /\ unanswered' \in {unanswered, unanswered + 1}
  /\ UNCHANGED <<shown, pin, clean>>

\* A refusal is the end of the plugin's right, in the same step.
Refused ==
  /\ shown /\ unanswered > 0
  /\ unanswered' = unanswered - 1
  /\ ~clean' /\ ~trusted' /\ ~sent'.auto
  /\ UNCHANGED <<shown, pin>>

Disappear ==
  /\ shown /\ ~shown' /\ unanswered' = 0 /\ ~sent'.auto
  /\ UNCHANGED <<pin, clean, trusted>>

\* The process is started anew: its child knows no PIN and has seen no refusal.
Restart ==
  /\ ~shown /\ pin' = NoCode /\ clean' /\ trusted' /\ ~sent'.auto
  /\ UNCHANGED <<shown, unanswered>>

\* Nothing happens at the window.
Pass == ~sent'.auto /\ UNCHANGED <<shown, unanswered, pin, clean, trusted>>

Init ==
  /\ shown = FALSE /\ unanswered = 0 /\ pin = NoCode
  /\ clean = TRUE /\ trusted = TRUE /\ sent.auto = FALSE

Next == Appear \/ Draw \/ Click \/ Refused \/ Disappear \/ Restart \/ Pass

Spec == Init /\ [][Next]_vars
=============================================================================
