# loginhelper in TLA+

Modules that describe the login plugin of this repository, TLC configurations
that check them on small instances, and proofs for every value of the
constants. Line numbers refer to `src/src/loginhelper/` unless a path is given.

## The system

The repository is a DLL that a plugin loader puts into a game client
(`BNSR.exe`). When the process reaches its entry point, `oep_notify` searches
the client's code for signatures of six functions and hooks five of them. From
then on the plugin is nothing but these hooks: it has no thread, no timer and
no file; its state is a handful of globals, and everything it does it does when
the game calls a hooked function. The game's UI thread makes all these calls.

| component | state | operations | interacts with |
|---|---|---|---|
| PIN window (`LoginOtp.h`) | `pincode`, `keeppin`, `pincount`; of the game's panel `_otpInputList`, `_otpNumpadList`, `_curInputCount`, `_verifyFailCount`, `_keyboardEnabled` | `GetPin`, hooks on `processConfirmClick`, `updateVerifyMode` | environment, command line, clock; writes the panel; `processConfirmClick` submits |
| title screen (`Lobby.h`) | `loggedin`, `m_account`, `m_password`, `firstrun`, and `pincount` again | `GetLogin`, hooks on `OpenLoginPanel`, `ProcessEvent`, `RequestLogin` | environment, command line; fills the panel's boxes; calls the game's `processLogin` |
| server override (`Lobby.h`) | `lhdata`, `swap_programid` | `GetServer`, the arguments of `RequestLogin` | environment; replaces what the game asks for |
| startup (`dllmain.cpp`) | `initdone`, the pointers `o...`, `UIPanelOffset` | `oep_notify` | signature search, the image's sections, Detours, options |
| command line (`LoginOtp.h`, `Lobby.h`, `dllmain.cpp`) | - | five regular expressions | read by `GetPin`, `GetLogin`, `oep_notify` |
| signature search (`searchers.h`) | masked bytes | `compile_pattern`, `pattern_searcher` | the code section |
| OTP secret (`totp.h`, `libcppotp/bytes.cpp`) | - | `normalizedBase32String`, `fromUnpaddedBase32`, `toBase32` | called by `GetPin` |
| one-time password (`libcppotp/sha1.cpp`, `otp.cpp`) | - | `sha1`, `hmacSha1`, `hotp`, `totp` | called by `GetPin` |

What is hard about it is order. The hooks know neither what the game is doing
nor whether the server has answered; they infer it from two counters, one of
them shared between the two screens, and from a flag. The game may redraw a
window, deliver an event early, open a panel again after a refusal, or restart
itself with the environment its process left behind. And a client may lack a
signature, or lay its panels out differently. `PROJECT.json` lists these
hazards at their lines.

## Modules

| module | models | kind |
|---|---|---|
| `PinPanel` | `LoginOtp.h` and the game around the PIN window | component |
| `PinContract` | what a PIN window promises: no attempt of the plugin's after a refusal until the user gives it back | abstract specification |
| `PinPanelProofs` | seven theorems about `PinPanel`, that it keeps `PinContract` among them | proofs |
| `LoginPanel` | `Lobby.h`: `GetLogin` and the title screen's hooks | component |
| `ServerOverride` | `Lobby.h`: `GetServer` and the arguments of a request | component |
| `Startup` | `dllmain.cpp`: `oep_notify` and the calls that follow | component |
| `CommandLine` | the expressions of the options, and how a command line is written | operators, used by `Startup` |
| `Locate` | `dllmain.cpp` 33-167, `pe/`: from the image to the pointers | algorithm |
| `LoginHelper` | `PinPanel` and `LoginPanel` in one process | composition |
| `PatternSearch` | `searchers.h` | algorithm |
| `Base32` | `totp.h`, `libcppotp/bytes.cpp` | algorithm |
| `Hotp` | `libcppotp/sha1.cpp`, `otp.cpp`, `LoginOtp.h` 41-48 | algorithm |
| `Otp` | `Base32` and `Hotp`, from the secret's text to the digits | composition |
| `LoginPanelProofs`, `ServerOverrideProofs`, `StartupProofs` | theorems about the component each is named for | proofs |
| `LoginHelperProofs` | that the composition implements `LoginPanel`, and `PinPanel` but for the counter's resets, and what holds in spite of these | proofs |
| `PatternSearchProofs` | that the search is right for every signature and section | proofs |
| `LocateProofs` | where the pointers end up in every client, and what the operands give | proofs |
| `OtpProofs` | the decoder for every text and byte string, the schedule and the digits for every key and counter | proofs |
| `MC...` | the constants of each for TLC | instances |

A definition marked `mutant:` is a wrong version of the one below it. It is
used nowhere in the specification; putting it in the place of the right one
must make TLC report the property it is meant for.

### Conventions

A hook is one action: all hooks run on one thread, and the only nested calls
(`updateVerifyMode` calls `processConfirmClick`, `ProcessEvent` calls
`processLogin`, which calls `RequestLogin`) are inside the same action. What the
game, the user and the server do is external to the repository; it is modelled
as freely as the hooks' assumptions allow, and every such definition is marked
external in `PROJECT.json`. An environment variable that is set to the empty
text reads as unset (`GetEnvironmentVariable` returns 0 for both); a text too
long for the buffer, or a PIN too short, is read as one of several values, given
by the constant `Reading`; for the secret these are in `Totp` and `Malformed`, for
`BNS_SERVER_FIXPROGRAMID` in `Number`.

### PinPanel

`hkUpdateVerifyMode` is lines 81-127 with the call of `GetPin` (7-66) inside:
it enables the keyboard, deals the pad in order, and, when there was neither a
failure nor an update since the last confirm click, fills the six slots and
confirms. `GetPin` takes the first of four sources and empties it, unless
`-KEEPPIN`; it throws on a malformed secret, which ends the process
(`Terminate`) after the update was counted. The game's side is `Open`, `Redraw`,
`UserConfirm`, `Refuse`, `Close`, `Tick` and `Relaunch`. `inFlight` counts
submissions that are not answered; the window is redrawn and clicked whether there
are any or not. A redraw before the answer therefore submits the PIN once more,
since the confirm click of the first submission has reset `pincount` (LoginOtp.h
74). No line of the repository says whether the game redraws the window then, so
nothing is claimed of it but what holds anyway: it is the same code, and no
submission follows a refusal.

What must hold: the plugin never submits again after a refusal (an account is
locked after a few), submits only what is configured, keeps the failure counter
below the game's limit, and lets a PIN in the environment serve one launch.

`PinContract` says the same without the plugin: a window that appears, draws
itself, is clicked, has a code refused and disappears, and a right to answer
that a refusal takes away and that a new verification and the user's own click
together give back; the answer is the PIN that was read first. `KeepsContract`
is the refinement, with the mapping in `PinPanel`.

### LoginPanel

`hkOpenLoginPanel` opens the panel as the game does and fills its boxes when
`GetLogin` returns true; `hkTitleLoginPanel_ProcessEvent` calls `processLogin`
itself on the first run; `hkLobby_RequestLogin` ends the first run.
`GetLoginAgain` keeps the conversion of -1 to `true`. The PIN window is
represented by `PinUpdate`, which sets the shared counter to anything at any time:
README.md:10-12 of the repository has the PIN window used without any login of the
plugin's.

What must hold: a login whole and from one source; only the first request is
the plugin's; and, with a login configured, it is requested in the end. What the
events do to the PIN window's counter is the subject of `LoginHelper`.

### ServerOverride

One action, a call of `hkLobby_RequestLogin` with arbitrary arguments of the
game: the swap of the program id, `GetServer` with its sixteen-bit fields, then
the overrides. `Throws` is `std::stoi` on a text that is no number: what was read
before it, in the order of the code (`Rank`), is stored by then (`Stored`), and the
numbers not yet read are -1.

### Startup

`Notify` is the whole of `oep_notify` for a client: any set of signatures, a
panel layout, and a set of functions Detours cannot attach to. `Call` is the
game calling a hooked function, with the pointers the hook goes through
(`Callees`). A client may have a hook without what it calls: updateVerifyMode's
without processConfirmClick, ProcessEvent's without processLogin. The model has
these clients, and the call through the null pointer ends their process; the code
has no guard for them and promises nothing, so no property is about it. The same
goes for a moved client whose processConfirmClick is not found, in which
`UIPanelOffset` stays 0. As committed, the braces of `oep_notify` do not balance: the one
at line 183 closes `if (module)` early. The model follows the indentation, in
which it is left over from a block that was removed. What follows it does the
same under both readings, as the game's module is always there. `Parsed` is what
`std::stoi` may make of `BNS_SERVER_FIXPROGRAMID`: a text that does not fit the
buffer leaves it as it was, and may be read as anything.

The options are those of the arguments (`args`), written out by `CommandLine`'s
`Text` and read by its operators, each the expression of the same name: a piece
of an expression is a condition on where it may end, so that the captures are
all that the expression admits. An option's name counts as one character, in
whatever case (`icase`). `AllPlain` says for which command lines this is right:
no value contains a quote or spells an option, and no other text contains the
beginning of an option, or a flag as one word among others (`Silent`). For these
the expressions have no escape: they do not know that they look into a value. The
proof found the part about other texts; the arguments of the run are all such.
That an option's value ends up in `pincode` or `m_password` is the subject of
`PinPanel` and `LoginPanel`, which take it as given.

### Locate

The image of a client is compiled from a list of its functions: the bytes of
their signatures, with operands for where they stand, and pieces that are cut
off or differ in one byte. `AsBytes` takes the first section of code, `Found`
and `NotFound` are one search each, in the order of the code. The seven
signatures are those of `dllmain.cpp`, byte for byte. An address is relative to
the image's handle; all of an image's addresses are positive and below 2^31, so
that `rva_to`'s 32 bits lose nothing. What the search does with a signature is
shown by `PatternSearch`, and what follows from which signatures are found by
`Startup`. A client without code ends the process (`gsl::span`'s iterator checks
its contract), which no game is; it is modelled because nothing checks for it.

`ClientsAssumption` says what a client is, and TLC evaluates it on all clients of
the run: the panels' fields are where the two bytes reach that the signature of
`processConfirmClick` leaves open, and an image is no longer than 2 GB. How far into
its function the code of a signature lies is a fact of the client (`Distance`, in
decimal; the game's binary is not in the repository, so these are the three numbers
the code was written with), what is subtracted from a match is the code's (`Lead`,
dllmain.cpp 83, 105, 148): the pieces are built with the one and searched with the
other, and a `Lead` that is wrong for one function misses it.

That a signature fits nothing but its function is what it was chosen for; nothing in
the code makes sure of it. The clients therefore hold other code too: pieces that are
cut off or altered and, where the form is "like", code that reads like the function
and is not it. `MissedForLikeness` is about all clients: a function that is there is
found at its beginning, or passed over only for earlier code that reads the same.
`FindsFunctions` and `OperandsAsCompiled` say more, that nothing else is ever found,
and state as their condition (`Telling`) that the client has no such code.

### LoginHelper

Instances of `PinPanel` and `LoginPanel` over one `pincount` and one `launch`.
The title screen's events may arrive under the PIN window. The server asks for a PIN
after a request of the title screen (`TitleAnswer`) or without one (`PinAsked`):
README.md:10-12 has the automatic PIN used "without ingame-login and with pretty much
any launcher", which logs the account in itself. In such a launch `firstrun` stays
set until somebody logs in at the title screen, and each event that reaches the
title screen's panel resets `pincount` (Lobby.h 181-182, `CounterReset`); `early`
remembers that a launch has shown its PIN window before any request.

The property `PinSpec` is `PinPanel`'s own specification, with these resets: every
step of the game is one of `PinPanel`'s or a `CounterReset`, and a launch whose first
PIN window follows a request has none while a window was shown. What the resets can
do is give an automatic submission back. They do not in a verification that has seen
a refusal (`NoAutoRetry`, which the failure counter upholds alone), and
`NoAutoAfterRefusal` holds in every launch that is not `early`. In an early one it
does fail: refused, closed, an event, a new verification, and the code is submitted
again. Nothing in the repository promises that it is not, so this is stated as the
exception it is.

### PatternSearch, Base32, Hotp, Otp

`PatternSearch` represents a byte by its two halves and a mask by the halves it
keeps. `FindsFirst` compares the compiled search with the meaning of the text of
the signature: its `Marks` are the digits and wildcards, the `Rank` of a mark
says which half of which byte it is about (`Half`), and `Denotes` holds of a
place where each mark is a wildcard or that half. It is stated of signatures of
whole bytes (`Whole`); with an odd digit at the end the code keeps the wrong half
of the last byte (searchers.h 88-91), but no signature in `dllmain.cpp` has one.

`Base32` runs the decoder a chunk to a step on arbitrary texts; a character is
abstracted to the value of its digit, its case, padding, a separator, or
anything else. The 64-bit integer that carries a chunk is two numbers of twenty
bits, which is all that is shifted through it. `normalizedBase32String` is the
text of the places that are not skipped (`Kept`), in their order (`Rank`, `Nth`).
Padding inside a longer text (`MY======MY======`) is accepted, chunk by chunk, as
the code does.

`Hotp` runs SHA-1 a word of the schedule or a round to a step. A `uint32_t` is
its four bytes: `And` works bit by bit on each, `Or` and `Xor` follow from it, and
`Add` carries from byte to byte. A rotation by n takes each byte from the
(n div 8)-th further on and shifts by the rest with `Power`. `Tens` are the
powers of ten that a `uint32_t` can hold.

`Otp` lets `Hotp` begin when
`Base32` has decoded the secret, with what was decoded for the key, as `GetPin`
does; its properties are the parts', now of a key that came from a text. A
secret that does not decode ends there: the exception leaves `GetPin`.

## Runs

| run | shows | bounds | states |
|---|---|---|---|
| `pin` | the PIN window's safety, and that it keeps `PinContract` | 3 updates between clicks, 2 answers outstanding, 2 TOTP windows, 2 launches, 5 texts and 3 secrets of all kinds | 1.1 M |
| `pin_totp` | **violated**: a TOTP is cached beyond its life | the same | |
| `login` | the title screen's safety, and that a configured login is requested | 2 requests, 2 inputs, 2 launches, a text too long | 182 k |
| `login_boxes` | **violated**: the second opening overwrites the boxes | one launch | |
| `login_unasked` | **violated**: a request nobody configured | one launch | |
| `server` | the override passes on what is configured | 2 requests, 2 addresses and 4 numerals of all kinds, 3 ids | 332 k |
| `server_unset` | **violated**: unset numbers become 65535 | the same | |
| `startup` | nothing is hooked twice; where events are hooked a request ends the first run exactly if RequestLogin is found; options and switches are what the arguments mean | all 128 sets of signatures, 3 layouts, 1 function that cannot be attached, 2 calls of `oep_notify`; up to 2 of 32 arguments | 289 k |
| `search` | the first match is found | 2 digits, 5 characters, 3 bytes | 774 k |
| `locate` | functions are found, or missed only for code that reads the same; operands are the client's | all 128 sets of functions in 2 orders, alone and among 3 sections; 63 look-alikes (3 forms of 7 functions, in 3 places); 5 layouts, 4 addresses | 4.9 k |
| `otp` | from the secret's text to the password | 1 byte of 256, up to 7 of 2; texts to 17 characters; 22 keys and counters | 30 k |
| `loginhelper` | the composition implements `PinPanel`, but for resets that bring no refused verification its code back | 2 updates, 1 answer outstanding, 2 requests, 2 launches, 2 TOTP windows, the PIN in `BNS_PINCODE` or the arguments | 2.1 M |

Why the bounds are enough. The hooks compare `pincount` with 0 only and the
failure counter with 0 and 4; the failures are not bounded but by the clamp
itself, and three updates are one more than the hook tells apart. Two launches
show inheritance, as a third has the environment of the second or less. Two
requests are one first and one other. The search's bounds contain a signature
longer and one shorter than the data and every position of a match among three.
The decoder handles chunks alike, and the texts have up to three. In `otp` the
keys are of 0, 20, 64, 65 and 120 bytes: shorter than a block, a block, longer,
and one whose padding takes a block of its own. Two arguments are an option and
its neighbour on either side. In `locate` the functions' code does not depend on
each other but for its place, and the operands have both signs and all widths
that the signatures leave open.

CHECK_DEADLOCK is off everywhere: a process that has ended, a computation that
is done and a bound that is reached stop the model, and the real system too may
wait for the user forever.

### Fairness

Only `AutoLogin`, in the run `login`, needs any: weak fairness of `Open` and
`Event`. The game shows its title screen without being asked, and its UI
delivers events to the panel continuously (the mouse is enough). Nothing is
assumed of the user, the server or a restart. A user who types into the boxes
before the first event may prevent the request, rightly, so `AutoLogin` excepts
him.

### What the violated runs show

1. `pin_totp`: `GetPin` returns the cached `pincode` (LoginOtp.h 11) also when
   it was a TOTP; a second verification of the same process submits a code of an
   earlier window.
2. `login_boxes`: `return loggedin` with -1 is `true` (Lobby.h 9-10); when the
   server has refused a login typed by hand, the panel that is opened again gets
   both boxes emptied, the remembered account included.
3. `login_unasked`: `ProcessEvent` calls `processLogin` on the first run without
   asking whether a login was found (Lobby.h 181-186).
4. `server_unset`: the unset mark -1 in unsigned sixteen-bit fields (Lobby.h
   138, 140, 146; Data.h 67-71).

## Proofs

The theorems hold for every value of the constants that `ConstantsAssumption` of
the module (`ClientsAssumption` of `Locate`) admits (sets of texts, readings,
layouts, clients, bounds; for `Otp` byte strings and texts of any length), and use
no other assumption. The bounds of the runs are not
among the assumptions: `MaxUpdates`, `MaxRequests` and so on are any naturals.

Each theorem rests on type correctness and on an inductive invariant, as hardly
any of the properties is inductive by itself. Lemmas about the hooks and helpers
(what they leave alone, what they return) serve several of the invariants, so
that each action needs only its own case.

### PinPanelProofs

Type correctness, `NoAutoRetry`, `NoAutoAfterRefusal`, `EnvPinOnce`,
`KeptPinSameSource`, `AutoCodeIsConfigured`, and
`ContractKept`, that `PinPanel` implements `PinContract`.

- `RetryInv`: while a verification has seen a refusal the failure counter is
  above 0 (`FailInv`), and after a refusal the user has not confirmed since
  `pincount` is above 0 (`RejectInv`). Either blocks the automatic submission. The first holds because the
  clamp goes back to 1, the second because only a confirm click resets
  `pincount`.
- `EnvInv`: a variable that was loaded without `-KEEPPIN` is unset from then on.
- `KeptInv`: with `-KEEPPIN` the source of an earlier launch is still the first.
- `CodeInv`: `pincode` is a reading of the first source this process was given,
  or nothing was loaded and the sources are as they were.
- `ClosedInv`: between two windows nothing is unanswered. With type correctness
  it gives `ContractStep`: every action is a step of `PinContract` or none, by
  one case for each; the hook's case (`HookContract`) is shared by the three
  actions that call it.

### LoginPanelProofs

Type correctness, `LoginFromOneSource`, `EnvLoginOnce`, `AutoOnlyFirst`,
`AutoSendsLogin`, and `WantedIsRequested`: the step in which
an event reaches an untouched panel of a configured first run makes the request,
with the login. It is the part of `AutoLogin` that needs no fairness.

- `SourceInv`: until `GetLogin` has looked, the environment is as it was
  inherited, and there is no password without a login found. Otherwise a
  password and an account could come from different looks.
- `TakenInv`: a launch that took the login from the environment has emptied the
  account's variable, without which no launch takes one.
- `RequestInv`: `firstrun` says whether a request was made, and boxes nobody typed
  into hold no password or the login.
- `FoundInv`: `GetLogin` misses no login that is configured, and the open panel
  shows it.

### ServerOverrideProofs

Type correctness, `TextsAsConfigured`, `NumbersAsConfigured` and `OnlyTheIdIsFixed`.

- `PassedInv`: a text that is unset was never read into `lhdata`, and each
  argument of the last request is the setting, the game's, or -1 in sixteen
  bits, according to which of them are set. It is needed because `lhdata` lives
  longer than a request: what a request passes on depends on what earlier ones
  left.

### StartupProofs

Type correctness, `HooksOnce`, `RequestEndsFirstrun` for every client: any set of
signatures, any layout, any functions that cannot be attached; and
`ArgumentsAsMeant` and `SwitchesAsMeant` for every command line: any number of
arguments, of any values.

- `StartInv`: before the one call of `oep_notify` that does its work nothing is
  set, attached or requested; after it the pointers, the hooks and the offset are
  those of the client (`Pointers`, `Commit`, `Layout`) and do not change; with the
  request's hook a request ends the first run, and without it nothing does.
- `SwitchInv`: the switches are off before that call, and after it they are what
  the expressions found and `std::stoi` read, `swap_programid` only if it did not
  throw.
- `Laid`: the text of a command line is a block for each argument, one after the
  other from the second place on, with no place between them (`LaidOut`,
  `InBlock`), and after each block a blank or nothing (`InPlace`). An option
  begins in a block only at its first place and only in its own argument's
  (`BeginsInside`), a flag stands only where it is all of an argument
  (`FlagInside`), and at the first place the expression takes the value and
  nothing more or less (`CapturedHere`): a run of characters ends in the value or
  just behind it (`ValueRun`), and in a value nothing ends. As the blocks are in
  the arguments' order, the first place that captures anything is that of the
  first argument with an acceptable value (`CapturesMeant`).
- `Induction` is the principle for sets of numbers instead of predicates, from
  the library's well-foundedness of `<`; with it follows what `FlattenSeq` makes
  of any number of texts (`Flattening`).

### LoginHelperProofs

The module instantiates `PinPanelProofs` and `LoginPanelProofs`, whose assumptions
are those of the composition, so that their lemmas about the hooks need not be proved
again. `ImplementsLoginPanel` is one direction: the real PIN window is `LoginPanel`'s
`PinUpdate`. `LoginPanel` knows of the counter only whether it is 0, so the mapping
caps it at 1. `ImplementsPinPanel` (the property `PinSpec`) is the other, with the
resets; `NeverRetriesInGame`, `NeverAfterRefusalInGame` and `AnswersTheFirstPin` are
the other properties of the run.

- `RunInv`: the first run ends with a request and no other way, by `LoginPanel`'s
  `RequestInv`.
- `LaunchInv`: a PIN window that was shown on the first run was shown early; and
  before the first PIN window of a launch the counter is 0, no PIN is loaded and
  there is no failure. The title screen may write the counter only while it is 0
  already or the launch is early (`PinStep`).
- `GameInv`: of `PinPanel`'s `RetryInv` the part about failures (`FailInv`) survives
  the resets, since they touch the counter of updates only; the part about that
  counter (`RejectInv`) holds unless the launch is early.

### PatternSearchProofs

`FirstPlaceFound`: for every signature of whole bytes and every section,
`FindsFirst`. `SearchInv` describes the compiler midway: with 2n or 2n + 1 marks
read there are n masked bytes complete (`Counted`), the ranks of the marks read
are the numbers up to how many they are (`Ranked`), each mark's half of its masked
byte says what the mark says (`Kept`), and the byte under construction is fresh or
still has its low half to be read (`Half0Kept`). When the text is read, matching the masked
bytes at a place is therefore denoting it, and the search takes the first.

### LocateProofs

`FunctionsFound` (`MissedForLikeness`, for every client), `OnlyFunctionsFound`
(`FindsFunctions`) and `OperandsDecoded` (`OperandsAsCompiled`), the last two with
`Telling` as the condition in the property, for clients with any number of
sections, of any pieces in any order, at any address.

- `ReadsLikeItself`: each of the seven signatures fits the code of the functions it
  is a piece of, wherever that stands in a section (`WholeInSection`; by `Induction`
  on the number of pieces, `UptoGrows`), and whatever its operands are: a function
  that is there is among the code that reads like it (`Likenesses`).
- `RightPlace`: the pointer computed from the first match is the first of the
  likenesses, as the code's distance is the client's (`SameDistance`) and it and the
  section's address cancel. No place at all (`NoPlace`) means no likeness, and so no
  function.
- `Decodes`: four bytes read in two's complement are the number they were written
  for, from -2^31 up to 2^31 - 1. With it `OffsetRead` and `AddressRead` follow the
  operands: the operand of `processConfirmClick` has its upper bytes in the signature
  and not left open, and that of the call is relative to the instruction after it.
- `LocateInv`: the section that is searched is the first of code, and what the
  searches up to `next` set is settled (`PointersSettled`), the rest being 0. The
  pointer to `processLogin` is settled only after the sixth search, and before that
  one, if it is made, nothing in the section reads like its first form.

### OtpProofs

- `PaddingKept` (`PaddingAsEncoded`), by `LastAccepted`: the chunk that was
  decoded last had not thrown. A chunk that does not throw has digits and then one
  of five numbers of padding characters (`Accepted`), each of which the encoder
  writes for its number of bytes.
- `SecretsComeBack` (`RoundTrip`), by `EncodedSecret`: after c chunks the decoder
  is at place 8c + 1 of the encoder's text and has the first 5c bytes. It needs
  that each of the four ways a secret is written normalizes and pads to the
  encoder's own text, and that a chunk decodes to what it was encoded from.
- `DigitsDecoded` (`DecodesDigits`), by `DigitsRead`: as long as nothing but digits
  and separators was met, the bits of the bytes so far are the first bits of the
  text. That a text is rejected exactly for its length comes from the padding that
  is added: 1, 3 or 6 digits in the last chunk take a number of padding characters
  no chunk has.
- `ScheduleCorrect` (`ScheduleIsSHA1`), by `ComputeInv`: what is hashed are bytes
  and words, the words while hashing are at least sixteen, and each beyond the
  sixteenth is the recurrence's. The step that adds a word beyond the
  thirty-second uses this of four earlier ones: by the recurrence, bit by bit,
  the four that the standard looks at are ten others, of which six occur twice
  and cancel (`PairsCancel`); what remains are the four the code looks at, rotated
  once; and to rotate once more is to rotate by two (`RotatedTwice`). Words are
  equal when their bits are (`SameWord`).
- `DigitsEntered` (`PinIsCode`), also by `ComputeInv`: a digest has twenty bytes, so
  the four that are taken exist for every offset, the number is below a million,
  and a number below a million has six digits.

### Only model-checked

- `AutoLogin`, a liveness property: fairness is beyond the prover. Its safety part
  is `WantedIsRequested`.
- `RepeatedAlike`: in the model the variables of the server settings never change, so
  that there is little to prove.
- `CodesAsTested`: concrete vectors. That SHA-1's rounds are the standard's is
  shown by these, as there is no second description of the rounds to compare with.

## Not modelled

- Hexadecimal conversion in `libcppotp`: only its vendor's tests call it.
  Clearing a byte string leaves no state a model of this kind has.
- `memset.h`: its list is empty and the call that would write is commented out,
  so that the loop in `oep_notify` changes nothing. `ntapi/mprotect.h`,
  `ntapi/string.h`, `ntapi/critsec.h` and `fnv1a.h` are reached by no code that
  runs; most of `pe/` neither (`get_module` is called without a name).
- The plugin interface, the resources, and debug output, which is not built.
- Vendored headers: `phnt` (some 30,000 lines of declarations of the Windows
  API), `SafeInt.hpp` and the GSL (generic libraries of which the program uses a
  span's iterators), `xorstr.hpp` (string literals that are encrypted by the
  compiler and decrypted in place: the identity at run time). They are the bulk
  of the repository's lines and hold none of its behaviour, so that the share of
  all lines that the models cover is small however complete they are: of the
  plugin's own code and `libcppotp`, everything that runs is modelled.

The server and the game appear as the callers of the hooks only.

## Plan

Done: the components, their compositions and the algorithms, the contract of the
PIN window, and the proofs named above: of every safety property the runs check
but the two listed as only model-checked.

Next: `ServerOverride` in the composition, with an exception out of a request;
`Locate` and `Startup` as one, so that the hooks' pointers come out of the image.
