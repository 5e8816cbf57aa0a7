------------------------------- MODULE Locate -------------------------------
(***************************************************************************)
(* How oep_notify (dllmain.cpp) finds the game's functions: it takes the   *)
(* first section of code of the game's image (pe/module.inl, segment.inl), *)
(* searches it for one signature after the other, and computes from where  *)
(* one matches the function's address, and from the operands of the code   *)
(* that matched the offset of the panels and a second address.  Addresses  *)
(* are relative to the image (handle), and 0 is a pointer that is not set. *)
(* The search itself is the subject of PatternSearch; Startup begins where *)
(* it is known which signatures are found.                                 *)
(***************************************************************************)
EXTENDS Integers, Sequences, FiniteSets

CONSTANT
  Clients       \* the clients: what their sections hold, the distance of their
                \* panels' fields from those of Data.h, and where the game keeps
                \* the address of UIEngineInterface's GetInstance

Byte == 0..255
xx   == 256     \* ?? in a signature
nop  == \h90
ret  == \hC3

Functions == {"updateVerifyMode", "processConfirmClick", "RequestLogin",
              "OpenLoginPanel", "processLogin", "processLogin2", "ProcessEvent"}

Signature ==
  [ updateVerifyMode |->
        <<\h48, \h8B, \hC4, \h56, \h57, \h41, \h55, \h41, \h56, \h41, \h57, \h48,
          \h81, \hEC, \h80, \h00, \h00, \h00, \h48, \hC7, \h40, \h98, \hFE, \hFF,
          \hFF, \hFF, \h48, \h89, \h58, \h10, \h48, \h89, \h68, \h18, \h0F, \h29,
          \h70, \hC8>>,
    processConfirmClick |->
        <<\h83, \hBB, xx, xx, \h00, \h00, \h00, \h0F, \h8E, xx, xx, xx, xx, \h83,
          \hBB, xx, xx, xx, xx, \h00, \h0F, \h8E, xx, xx, xx, xx, \hE8, xx, xx,
          xx, xx>>,
    RequestLogin |->
        <<\h0F, \h84, \hF0, \h03, \h00, \h00, \h33, \hF6, \h66, \h41, \h3B, \hF0,
          \h0F, \h84, \hE4, \h03, \h00, \h00, \h4D, \h85, \hED, \h0F, \h84, \hDB,
          \h03, \h00, \h00, \h66, \h3B, \h75, \h70, \h0F, \h84, \hD1, \h03, \h00,
          \h00, \h48, \h85, \hDB, \h0F, \h84, \hC8, \h03, \h00, \h00, \h48, \h85,
          \hC0, \h0F, \h84, \hBF, \h03, \h00, \h00>>,
    OpenLoginPanel |->
        <<\h48, \h89, \h7C, \h24, \h18, \h41, \h56, \h48, \h83, \hEC, \h20, \h4C,
          \h8B, \hF1, \hFF, \h15, xx, xx, xx, xx, \h48, \h8B, \hF8, \h48, \h85,
          \hC0, \h0F, \h84, \hE9, \h01, \h00, \h00>>,
    processLogin |->
        <<\h48, \h8B, \hC4, \h55, \h57, \h41, \h56, \h48, \h8D, \h68, \hA8, \h48,
          \h81, \hEC, \h40, \h01, \h00, \h00, \h48, \hC7, \h44, \h24, \h68, \hFE,
          \hFF, \hFF, \hFF>>,
    processLogin2 |->
        <<\h33, \hDB, \h48, \h89, \h5D, \hD7, \h4C, \h8B, \h08, \h4C, \h8D, \h45,
          \hD7, \h41, \h8B, \h94, \h24, xx, xx, \h00, \h00, \h48, \h8B, \hC8>>,
    ProcessEvent |->
        <<\h48, \h89, \h5C, \h24, \h08, \h57, \h48, \h83, \hEC, \h20, \h48, \h8B,
          \hFA, \h48, \h8B, \hD9, \hFF, \h15, xx, xx, xx, xx, \h4C, \h8B, \hC8>> ]

\* The order they are searched for in; the last form of processLogin only if
\* the first is not found.
Order == <<"updateVerifyMode", "processConfirmClick", "RequestLogin", "OpenLoginPanel",
           "processLogin", "processLogin2", "ProcessEvent">>

Pointers == (Functions \ {"processLogin2"}) \union {"UIEngineInterfaceGetInstance"}

-----------------------------------------------------------------------------
(***************************************************************************)
(* A client's code.  A section holds pieces one after the other: a whole   *)
(* function; one that is cut off within the bytes of its signature; one    *)
(* that differs from the signature in its last fixed byte; and other code  *)
(* that reads like a function and is not it.                               *)
(***************************************************************************)
Panel0 == \h298      \* where Data.h has the field that processConfirmClick reads

\* How far into the game's function the code is that its signature is of.
Distance ==
  [f \in Functions |-> IF f = "processConfirmClick" THEN 139
                       ELSE IF f = "RequestLogin" THEN 94
                       ELSE IF f = "processLogin2" THEN 82 ELSE 0]

LittleEndian(n) ==
  <<n % 256, (n \div 256) % 256, (n \div 65536) % 256, (n \div 16777216) % 256>>

\* What the operands of a function's code are, if they matter.
Operand(f, client, address) ==
  IF f = "processConfirmClick" THEN LittleEndian(client.layout + Panel0)
  ELSE IF f = "OpenLoginPanel" THEN LittleEndian(client.engine - (address + 20))
  ELSE <<17, 34, 51, 68>>

Compiled(f, client, address) ==
  LET sig     == Signature[f]
      open(k) == Cardinality({m \in 1..k : sig[m] = xx})
  IN  [k \in 1..Len(sig) |->
         IF sig[k] = xx THEN Operand(f, client, address)[((open(k) - 1) % 4) + 1] ELSE sig[k]]

Fixed(f) == {k \in DOMAIN Signature[f] : Signature[f][k] # xx}

Forms    == {"whole", "like", "cut", "altered"}
Sections == [code : BOOLEAN, VirtualAddress : Nat,
             pieces : Seq([of : Functions, form : Forms])]

Piece(p, client, address) ==
  LET code == Compiled(p.of, client, address)
      last == CHOOSE k \in Fixed(p.of) : \A m \in Fixed(p.of) : m <= k
  IN  [k \in 1..Distance[p.of] |-> nop] \o
        (IF p.form \in {"whole", "like"} THEN code \o <<ret>>
         ELSE IF p.form = "cut" THEN SubSeq(code, 1, last - 1)
         ELSE [code EXCEPT ![last] = (@ + 1) % 256])

\* The bytes of a section up to its k-th piece, each compiled for where it stands.
Upto(s, client) ==
  LET upto[k \in 0..Len(s.pieces)] ==
        IF k = 0 THEN <<>>
        ELSE LET before == upto[k - 1]
             IN  before \o Piece(s.pieces[k], client, s.VirtualAddress + Len(before))
  IN  upto

Bytes(s, client) == Upto(s, client)[Len(s.pieces)]

\* Where in the image a piece begins.
PieceAt(s, client, k) == s.VirtualAddress + Len(Upto(s, client)[k - 1])

\* Where in a section of code a signature fits.
MatchesAt(bytes, sig, i) == \A k \in DOMAIN sig : sig[k] \in {xx, bytes[i + k - 1]}

Fits(bytes, sig) == {i \in 1..(Len(bytes) + 1 - Len(sig)) : MatchesAt(bytes, sig, i)}

\* std::find_if: the first section with IMAGE_SCN_CNT_CODE.
FirstOfCode(sections) ==
  {n \in DOMAIN sections : sections[n].code /\ \A m \in 1..(n - 1) : ~sections[m].code}

MaxAddress == \h7FFFFFFF

\* The fields of the panels are where two bytes reach, which is what the signature of
\* processConfirmClick leaves open; and an image is no longer than 2 GB.
ASSUME ClientsAssumption ==
  \A c \in Clients :
    /\ c.sections \in Seq(Sections)
    /\ c.layout \in Int /\ 0 <= c.layout + Panel0 /\ c.layout + Panel0 < 65536
    /\ c.engine \in Nat /\ c.engine <= MaxAddress
    /\ \A n \in DOMAIN c.sections :
         c.sections[n].VirtualAddress + Len(Bytes(c.sections[n], c)) <= MaxAddress

-----------------------------------------------------------------------------
VARIABLES
  client,
  segment,        \* the number of the section that is searched; 0 before
  data,           \* its bytes
  next,           \* the signature that is next
  original,       \* the pointers o...
  UIPanelOffset,
  fault           \* why the process ended; "none" while it runs

vars == <<client, segment, data, next, original, UIPanelOffset, fault>>

AnySection ==                            \* mutant: the first section of whatever kind
  IF client.sections = <<>> THEN {} ELSE {1}

CodeSection == FirstOfCode(client.sections)

\* The end of the sections is not checked for: to look at it violates a
\* contract of gsl::span's iterators, which ends the process.
AsBytes ==
  /\ fault = "none" /\ segment = 0
  /\ IF CodeSection = {}
     THEN fault' = "no code" /\ UNCHANGED <<segment, data>>
     ELSE /\ segment' = CHOOSE n \in CodeSection : TRUE
          /\ data' = Bytes(client.sections[segment'], client)
          /\ UNCHANGED fault
  /\ UNCHANGED <<client, next, original, UIPanelOffset>>

\* The first place a signature matches, or none.
Places(sig) == Fits(data, sig)
First(S)    == {i \in S : \A m \in S : i <= m}

\* Little endian, in two's complement.
Dword(i) ==
  data[i] + 256 * data[i + 1] + 65536 * data[i + 2]
    + 16777216 * (IF data[i + 3] >= 128 THEN data[i + 3] - 256 ELSE data[i + 3])

\* The address, less the handle, of the byte a match begins with.
AddressOf(i) == client.sections[segment].VirtualAddress + i - 1

LeadOfOne ==                             \* mutant: the distance of one signature for all
  [f \in Functions |-> IF f \in {"RequestLogin", "processConfirmClick", "processLogin2"}
                       THEN \h5E ELSE 0]

\* What is subtracted from where a signature matches.
Lead ==
  [f \in Functions |-> IF f = "processConfirmClick" THEN \h8B
                       ELSE IF f = "RequestLogin" THEN \h5E
                       ELSE IF f = "processLogin2" THEN \h52 ELSE 0]

FunctionAt(f, i) == AddressOf(i) - Lead[f]

FromOperand(i) == AddressOf(i) + 16 + Dword(i + 16)     \* mutant: not past the operand

\* The operand of the call is relative to the instruction that follows it.
CalledAt(i) == AddressOf(i) + 16 + Dword(i + 16) + 4

OffsetAt(i) == Dword(i + 2) - Panel0

Set(f, i) ==
  [original EXCEPT
     ![IF f = "processLogin2" THEN "processLogin" ELSE f] = FunctionAt(f, i),
     !["UIEngineInterfaceGetInstance"] = IF f = "OpenLoginPanel" THEN CalledAt(i) ELSE @]

NotFound ==
  /\ fault = "none" /\ segment # 0 /\ next <= Len(Order)
  /\ Places(Signature[Order[next]]) = {}
  /\ next' = next + 1
  /\ UNCHANGED <<client, segment, data, original, UIPanelOffset, fault>>

Found ==
  /\ fault = "none" /\ segment # 0 /\ next <= Len(Order)
  /\ \E i \in First(Places(Signature[Order[next]])) :
       /\ original' = Set(Order[next], i)
       /\ UIPanelOffset' = IF Order[next] = "processConfirmClick" THEN OffsetAt(i)
                                                                  ELSE UIPanelOffset
  /\ next' = IF Order[next] = "processLogin" THEN next + 2 ELSE next + 1
  /\ UNCHANGED <<client, segment, data, fault>>

Init ==
  /\ client \in Clients
  /\ segment = 0 /\ data = <<>> /\ next = 1
  /\ original = [p \in Pointers |-> 0] /\ UIPanelOffset = 0 /\ fault = "none"

Next == AsBytes \/ NotFound \/ Found

Spec == Init /\ [][Next]_vars

-----------------------------------------------------------------------------
(***************************************************************************)
(* Properties.                                                             *)
(***************************************************************************)

Searched == segment # 0 /\ next > Len(Order)

\* Where the client has the function f, if it is in its first section of code.
Whereabouts(f) ==
  LET coded == {n \in DOMAIN client.sections : client.sections[n].code}
  IN  UNION {{PieceAt(client.sections[n], client, k) :
                k \in {m \in DOMAIN client.sections[n].pieces :
                         client.sections[n].pieces[m] = [of |-> f, form |-> "whole"]}}
             : n \in First(coded)}

\* Where code begins, in that section, that reads like the function f.
Likenesses(f) ==
  UNION {{client.sections[n].VirtualAddress + i - 1 - Distance[f] :
            i \in Fits(Bytes(client.sections[n], client), Signature[f])}
         : n \in FirstOfCode(client.sections)}

\* What a signature is chosen for: it fits nothing but the function it is a piece of.
\* Nothing in dllmain.cpp makes sure of it.
Telling == \A f \in Functions : Likenesses(f) = Whereabouts(f)

OrNone(S) == IF S = {} THEN {0} ELSE S

OneSignature == Functions \ {"processLogin", "processLogin2"}

\* In a client whose functions the signatures tell from all its other code, a pointer
\* is set to the beginning of the function it is named for, in whatever order and
\* company the functions are in the section, and to nothing when the client has no
\* such function there: never to a piece that looks like it, and never to the copy
\* in another section.  Only a client without code is given up.
FindsFunctions ==
  /\ fault # "none" => \A n \in DOMAIN client.sections : ~client.sections[n].code
  /\ Searched /\ Telling =>
       /\ \A f \in OneSignature : original[f] \in OrNone(Whereabouts(f))
       /\ original["processLogin"] \in
            OrNone(IF Whereabouts("processLogin") # {} THEN Whereabouts("processLogin")
                                                       ELSE Whereabouts("processLogin2"))

\* In any client a function that is there is missed only for the sake of code before it
\* that reads the same; the second form of processLogin also if something, anywhere,
\* reads like the first.
MissedForLikeness ==
  Searched =>
    /\ \A f \in OneSignature : \A a \in Whereabouts(f) :
         original[f] = a \/ (original[f] \in Likenesses(f) /\ original[f] < a)
    /\ \A a \in Whereabouts("processLogin") :
         \/ original["processLogin"] = a
         \/ original["processLogin"] \in Likenesses("processLogin")
              /\ original["processLogin"] < a
    /\ \A a \in Whereabouts("processLogin2") :
         \/ original["processLogin"] = a
         \/ original["processLogin"] \in Likenesses("processLogin")
         \/ original["processLogin"] \in Likenesses("processLogin2")
              /\ original["processLogin"] < a

\* Where the signatures tell the functions from all other code, the operands of the
\* code that matched are decoded to what the client's compiler put there: how its
\* panels' fields are displaced, either way, and where GetInstance is kept, before
\* the code or after it.
OperandsAsCompiled ==
  Searched /\ Telling =>
    /\ UIPanelOffset = IF Whereabouts("processConfirmClick") = {} THEN 0 ELSE client.layout
    /\ original["UIEngineInterfaceGetInstance"] =
         IF Whereabouts("OpenLoginPanel") = {} THEN 0 ELSE client.engine
=============================================================================
