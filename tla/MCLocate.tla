------------------------------ MODULE MCLocate ------------------------------
(* Locate on clients whose first section of code holds any choice of the      *)
(* functions, in either order, with a piece that only looks like one of them  *)
(* before, between or after; alone, after a section of data that holds copies *)
(* of them all, and before a second section of code.                          *)
EXTENDS Locate, SequencesExt

Whole(f) == [of |-> f, form |-> "whole"]
Alike(f, form) == [of |-> f, form |-> form]

Chosen(S)  == SelectSeq([k \in DOMAIN Order |-> Order[k]], LAMBDA f : f \in S)
Pieces(S)  == [k \in DOMAIN Chosen(S) |-> Whole(Chosen(S)[k])]
Lists      == UNION {{Pieces(S), Reverse(Pieces(S))} : S \in SUBSET Functions}

Section(code, address, pieces) ==
  [code |-> code, VirtualAddress |-> address, pieces |-> pieces]
All == Pieces(Functions)

Around(pieces) ==
  {<<Section(TRUE, 4096, pieces)>>,
   <<Section(FALSE, 4096, All), Section(TRUE, 8192, pieces), Section(TRUE, 12288, All)>>}

Client(sections, layout, engine) ==
  [sections |-> sections, layout |-> layout, engine |-> engine]

Decoyed ==
  {InsertAt(All, k, Alike(f, form)) :
     k \in {1, 4, 8}, f \in Functions, form \in {"like", "cut", "altered"}}

MCClients ==
  {Client(s, 0, 65536) : s \in UNION {Around(l) : l \in Lists}}
    \union {Client(<<Section(TRUE, 4096, l)>>, 24, 70000) : l \in Decoyed}
    \union {Client(<<Section(TRUE, 4096, All)>>, layout, engine) :
              layout \in {-8, 0, 24, 1000, 60000}, engine \in {16, 2048, 4500, 2^30}}
    \union {Client(s, 0, 2048) : s \in {<<>>, <<Section(FALSE, 4096, All)>>}}
=============================================================================
