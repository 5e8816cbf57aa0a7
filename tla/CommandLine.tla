---------------------------- MODULE CommandLine -----------------------------
(***************************************************************************)
(* The options of the command line, which the plugin reads with regular    *)
(* expressions: -PIN (LoginOtp.h), -USERNAME and -PASSWORD (Lobby.h), and  *)
(* -KEEPPIN and -FIXPROGRAMID (dllmain.cpp).  A command line is a sequence *)
(* of characters, in which the name of an option, in whatever case, counts *)
(* as one.  An expression is the set of what it captures at a place: each  *)
(* of its pieces is a condition on the places where the piece ends.        *)
(***************************************************************************)
EXTENDS Integers, Sequences, SequencesExt

Space   == " "
Quote   == "\""
Digits  == {"0", "1", "2", "3", "4", "5", "6", "7", "8", "9"}
Options == {"-PIN", "-USERNAME", "-PASSWORD"}
Flags   == {"-KEEPPIN", "-FIXPROGRAMID"}

-----------------------------------------------------------------------------
(***************************************************************************)
(* The pieces of the expressions: t is the text, j where a piece begins.   *)
(***************************************************************************)

Is(t, j, S) == j \in DOMAIN t /\ t[j] \in S

EndsAnywhere(t, j) == j \in 1..(Len(t) + 1)      \* mutant: the end is not asked for

\* (?:$| )
Ends(t, j) == j = Len(t) + 1 \/ Is(t, j, {Space})

\* "?
OptionalQuote(t, j) == {j} \union {k \in {j + 1} : Is(t, j, {Quote})}

\* [^ "]* and [^"]*: the places a run without the characters of S may end.
RunEnds(t, j, S) == {e \in j..(Len(t) + 1) : \A k \in j..(e - 1) : t[k] \notin S}

\* The name of the option after a blank, and [:=].
Begins(t, i, option) ==
  Is(t, i, {Space}) /\ Is(t, i + 1, {option}) /\ Is(t, i + 2, {":", "="})

-----------------------------------------------------------------------------
(***************************************************************************)
(* What each expression captures at the place i.                           *)
(***************************************************************************)

PinAt(t, i) ==
  {SubSeq(t, a, a + 5) :
     a \in {b \in OptionalQuote(t, i + 3) :
              /\ \A k \in b..(b + 5) : Is(t, k, Digits)
              /\ \E f \in OptionalQuote(t, b + 6) : Ends(t, f)}}

UsernameAt(t, i) ==
  UNION {{SubSeq(t, a, e - 1) :
            e \in {f \in RunEnds(t, a, {Space, Quote}) :
                     \E g \in OptionalQuote(t, f) : Ends(t, g)}}
           : a \in OptionalQuote(t, i + 3)}

PasswordAsUsername(t, i) == UsernameAt(t, i)     \* mutant: the other's expression

PasswordAt(t, i) ==
  LET quoted == {e \in RunEnds(t, i + 4, {Quote}) :
                   Is(t, i + 3, {Quote}) /\ Is(t, e, {Quote}) /\ Ends(t, e + 1)}
      plain  == {e \in RunEnds(t, i + 3, {Space, Quote}) : Ends(t, e)}
  IN  {SubSeq(t, i + 4, e - 1) : e \in quoted} \union {SubSeq(t, i + 3, e - 1) : e \in plain}

CapturesAt(t, i, option) ==
  IF ~Begins(t, i, option) THEN {}
  ELSE CASE option = "-PIN"      -> PinAt(t, i)
         [] option = "-USERNAME" -> UsernameAt(t, i)
         [] option = "-PASSWORD" -> PasswordAt(t, i)

\* regex_search: the captures at the first place there are any.
Captures(t, option) ==
  LET places == {i \in DOMAIN t : CapturesAt(t, i, option) # {}}
  IN  IF places = {} THEN {}
      ELSE CapturesAt(t, CHOOSE i \in places : \A j \in places : i <= j, option)

HasFlag(t, flag) ==
  \E i \in DOMAIN t : Is(t, i, {Space}) /\ Is(t, i + 1, {flag}) /\ Ends(t, i + 2)

-----------------------------------------------------------------------------
(***************************************************************************)
(* How a command line is written: the program, and arguments with a blank  *)
(* before each.  An argument is an option with its value, in quotes or     *)
(* not, or any other text, a flag among them.                              *)
(***************************************************************************)
Argument ==
  [kind : {"plain", "quoted"}, name : Options, value : Seq(STRING)]
    \union [kind : {"other"}, value : Seq(STRING)]

Quoted(value) == <<Quote>> \o value \o <<Quote>>

Rendered(arg) ==
  CASE arg.kind = "plain"  -> <<arg.name, ":">> \o arg.value
    [] arg.kind = "quoted" -> <<arg.name, "=">> \o Quoted(arg.value)
    [] arg.kind = "other"  -> arg.value

Text(program, args) ==
  program \o FlattenSeq([k \in DOMAIN args |-> <<Space>> \o Rendered(args[k])])

\* Values an option can be given: any without a quote, and with a blank only a
\* password in quotes.  None may spell an option, for the expressions do not know
\* that they are looking into a value.
Plain(arg) ==
  /\ ToSet(arg.value) \intersect ({Quote} \union Options \union Flags) = {}
  /\ Space \in ToSet(arg.value) => arg.name = "-PASSWORD" /\ arg.kind = "quoted"

\* Any other text is taken for what it is if no option begins in it, and no flag
\* is a word of it, between blanks, that is not the whole of it.
Silent(text) ==
  LET t == <<Space>> \o text
      Word(w) == \E i \in DOMAIN text :
                   t[i] = Space /\ t[i + 1] = w /\ (i < Len(text) => t[i + 2] = Space)
  IN  /\ \A o \in Options, i \in DOMAIN t : ~Begins(t, i, o)
      /\ \A flag \in Flags : Word(flag) => text = <<flag>>

AllPlain(args) ==
  \A k \in DOMAIN args :
    IF args[k].kind = "other" THEN Silent(args[k].value) ELSE Plain(args[k])

\* A PIN that is not one of six digits is passed over for the next that is.
Acceptable(arg) ==
  arg.name = "-PIN" => Len(arg.value) = 6 /\ ToSet(arg.value) \subseteq Digits

\* The value the arguments mean an option to have.
Meant(args, option) ==
  LET given == {k \in DOMAIN args :
                  args[k].kind # "other" /\ args[k].name = option /\ Acceptable(args[k])}
  IN  IF given = {} THEN {}
      ELSE {args[CHOOSE k \in given : \A j \in given : k <= j].value}

MeantFlag(args, flag) ==
  \E k \in DOMAIN args : args[k].kind = "other" /\ args[k].value = <<flag>>
=============================================================================
