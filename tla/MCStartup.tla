----------------------------- MODULE MCStartup -----------------------------
(* Startup with every set of signatures, on clients of the layout of Data.h  *)
(* and of moved ones, with one function at most that Detours cannot attach   *)
(* to, started with each choice of the two switches; and one client started  *)
(* with up to two arguments, options in and without quotes, neighbours of    *)
(* their own kind and of others, and texts that only look like an option.    *)
EXTENDS Startup

CONSTANTS tOne, tZero, tWord, tLong

MCNumber == [t \in {tOne, tZero, tWord, tLong} |->
               CASE t = tOne  -> {1}
                 [] t = tZero -> {0}
                 [] t = tWord -> {NotANumber}
                 [] t = tLong -> {0, 1, NotANumber}]

MCLayouts == {0, 24, -8}

Clients == [signatures : SUBSET Signatures, layout : MCLayouts,
            failing : {S \in SUBSET Hooks : Cardinality(S) <= MaxFailing}]
Usual   == [signatures |-> Signatures, layout |-> 0, failing |-> {}]

Other(text)        == [kind |-> "other", value |-> text]
Arg(kind, o, text) == [kind |-> kind, name |-> o, value |-> text]

Switches == {<<>>, <<Other(<<"-KEEPPIN">>)>>, <<Other(<<"-FIXPROGRAMID">>)>>,
             <<Other(<<"-FIXPROGRAMID">>), Other(<<"-KEEPPIN">>)>>}

Pin(x) == [k \in 1..6 |-> x]

Arguments ==
  {Arg(kind, "-PIN", v) : kind \in {"plain", "quoted"},
                          v \in {Pin("1"), Pin("2"), <<"1", "2">>, Pin("3") \o <<"3">>}}
  \union {Arg(kind, o, v) : kind \in {"plain", "quoted"}, o \in {"-USERNAME", "-PASSWORD"},
                            v \in {<<"a">>, <<"b", ":", "1">>, <<>>}}
  \union {Arg("quoted", "-PASSWORD", v) : v \in {<<"a", " ", "b">>, <<" ", "a">>}}
  \union {Other(v) : v \in {<<>>, <<"a">>, <<"-KEEPPIN">>, <<"-KEEPPIN", "a">>,
                            <<"a", "-KEEPPIN">>, <<"-FIXPROGRAMID">>, <<"-PIN">>,
                            <<"-PIN", "1">>, <<"a", "-PIN", ":">> \o Pin("1"),
                            <<"\"", "a", " ", "b", "\"">>}}

UpTo(n, S) == UNION {[1..k -> S] : k \in 0..n}

MCCases == [client : Clients, args : Switches]
             \union [client : {Usual}, args : UpTo(2, Arguments)]
=============================================================================
