# Provenance Ledger application: TLA+ models, checks and proofs

This directory keeps a formal model of the Provenance application for Ledger devices (`src/rust-app`):
what it does with commands, blocks, buttons and prompts, what it promises about a signature, and the
properties that make it correct. TLC checks them on small instances; TLAPS proves the most important
ones for every value of the constants. Definitions are translated from the Rust source; `PROJECT.json`
maps each of them to the lines it models.

Contents: [the system](#1-the-system) · [modules](#2-modules-and-how-they-correspond-to-the-code) ·
[runs](#3-runs) · [fairness](#4-fairness) · [proofs](#5-what-is-proved) ·
[assumptions](#6-assumptions-about-code-outside-the-repository) · [disagreements](#7-disagreements-found) ·
[not modelled](#8-what-is-not-modelled) · [plan](#9-plan).

## 1. The system

The application runs alone on the device. A host (a wallet, the TypeScript tests) sends APDU commands
over USB; the user presses two buttons. There is one thread, one pending request at most, and one
persistent byte.

| Component | Source | State | Operations |
|---|---|---|---|
| Event loop | `main_nanos.rs`, `bin-src/main.rs` | `states` (the pending request's future), `idle_menu`, `busy_menu`, what is on the screen | a command, a press, a tick, a panic, exit |
| Menus | `menu.rs` | `IdleMenu` with its settings submenu, `BusyMenu` | `move_left`, `move_right`, `handle_both`, `label` |
| Settings | `settings.rs` | the blind-signing byte: in NVM on `nanos`, in a struct that is *copied* elsewhere | `get`, `set` |
| Instruction decoding | `interface.rs` | none | `Ins::try_from`: CLA, P1, P2 are zero, INS is known |
| Instruction dispatch | `implementation.rs:512-543` | the future of the request | one arm per instruction; `GetVersion` and `GetVersionStr` inline |
| Sign handler | `implementation.rs:424-510` | two block streams, the length, the path, `known_txn`, the hash | read length and path, dry pass, pass with prompts or warning, hash pass, question, signature |
| Transaction parser and prompts | `implementation.rs:86-163`, `230-422` | none between fields | `txn_messages_parser::<false>` (recognize) and `::<true>` (show) |
| Amount conversion | `implementation.rs:165-228` | three indices and a flag of a scan | `get_amount_in_decimals` |
| Address handler | `implementation.rs:38-84` | path, key, result buffer | `get_address_apdu` with and without prompts |
| Block protocol | `docs/block-protocol.md`, library | the last command sent, the block received | START, GET_CHUNK and its answers, RESULT_FINAL |
| Cryptography and formatting | `crypto_helpers.rs` | none | key, address, signature and hash formats |
| Prompt helpers | `utils.rs` | none | `scroller`, `scroller_paginated` |
| Pending review screen | `pending.rs` | a page | two loops over buttons |
| Protobuf schema | `proto/` | none | declarations |

**How they interact.** `app_main` calls `poll_apdu_handlers` for each command. START makes a new future
with `handle_apdu_async(io, ins, settings)`, so the request owns a *copy* of `Settings`; an answer to a
GET_CHUNK polls the pending future again. The future runs until it awaits the next block (the reply is
then GET_CHUNK), finishes (`result_final`), or awaits `reject()` (an error, and the future is dropped).
Prompts run *inside* a poll and block the loop: they have the buttons to themselves. Between two commands
buttons go to the idle menu or, if a request is pending, to the busy menu. After a command `busy_menu` is
reset if no request is left, and the menu is drawn again. The idle menu sets the blind-signing byte, which
only `sign_apdu` reads.

**What is hard.**

- *Interleaving.* Presses come between any two commands of a request and must go to the right menu; the
  screen, two menus, the setting and a copy of the setting have to agree after every order of presses,
  commands, errors, panics and restarts (`stale_state`, `interleaving` hazards).
- *An untrusted host read three times.* `sign_apdu` reads the transaction once to see whether it can be
  shown, once to show it, once to hash it. Each time the blocks come from the host again. What is signed
  has to be what was shown, although the host may answer each pass as it likes, or not at all.
- *Failures that look alike.* The dry pass runs in a `TryFuture`: a message of an unknown type, bytes that
  do not parse, a host that stops answering and a chain that ends early all give `known_txn = false`, the
  path to blind signing. All consents of that path have to be asked then.
- *Prompts that answer None without the user.* A text that cannot be drawn answers `None`, like a user who
  declines; some prompts are checked with `?`, some are dropped.
- *Ends of a request.* A result, a reject, a wrong command, a START in the middle, a panic and a lost supply
  all have to leave menus, screen and request consistent.
- *Bytes against blocks.* A derivation path is read byte by byte while its bytes come in blocks the host cuts;
  a step may begin in one block and end in another.
- *Replacing a future.* A START while another future waits for a block takes its place; nothing of the old one
  may be delivered to the new one, and a prompt in the middle of a poll has to keep everything else away.
- *Index arithmetic* in the amount conversion and in `format_signature`: subtractions of lengths and slices by
  computed bounds.

**What makes each component correct.**

| Component | Properties |
|---|---|
| Event loop | the next press acts on the menu shown (`PressActsOnMenuShown`); a request is pending only while the host owes its answer (`BusyOnlyWhileHostOwes`); the busy menu is reset however a request ends (`BusyMenuResetWhenDone`, in `LoopInv`); every reply is to the request that is served, and a request keeps its instruction and its setting through every command that continues it: `LoopPromise` |
| Menus and settings | the submenu never prints the opposite of the setting (`BlindSigningScreenTruthful`); it is enabled only by a press on the screen that says "disabled" (`ConsentToBlindSigning`); a request's copy is never stale (`HandlerSettingsCurrent`); a restart keeps the byte in NVM and clears the one in RAM (`LoopPromise`, checked on both builds); the button sequence of the tests flips the setting and returns (`ToggleTestReturns`) |
| Sign handler | what was shown is what is signed (`ReviewedIsSigned`); an unseen transaction needs the setting and three consents (`BlindSignatureNeedsConsent`, `BlindNeedsSetting`); a recognized transaction holds no surprise in later passes (`RecognizedStaysRecognized`); every step of a request leaves fewer to come (`EveryStepCounts`), and a request ends (`EveryRequestEnds`); all in one: `SigningPromise` |
| Amount conversion | the text shown denotes the amount (`ValuePreserved`), has one form (`Canonical`), no slice is out of range (`PanicOnlyOnEmpty`), refused exactly when it must be (`RefusedExactly`) |
| Sign handler, the other way | whoever cooperates through all passes gets the signature: the promise is not kept by refusing (`CooperationIsSigned`) |
| Address handler | however the host cuts the bytes into blocks, the path read is the one they spell, first byte least significant (`CutIndependent`, in `StreamInv`); key and address returned, and the address shown, are those of that path (`AnswerMatchesRequest`); both in one: `AddressPromise`; every step of a request leaves fewer to come (`EveryStepCounts`); no good path is refused (`CooperationIsAnswered`) |
| Formatting | each half of a signature denotes its integer whatever its length (`HalvesDenote`), nothing underflows (`NeverPanics`); compressed keys stay apart (`KeysStayApart`) |
| Pending review screen | after whatever ended the application, both pages are read and left anew, in their order, before it runs again (`EachStartReviewed`) |
| The application as a whole | the loop and the future it polls agree (`HandlerMatchesLoop`); the loop gives each handler the environment its module assumes (`ImplementsSign`, `ImplementsAddress`); no result leaves the device but for the request it answers (`ResultIsEarned`); a poll has a bounded number of steps (`PollsRunOut`), and every command that enters one is answered (`CommandAnswered`) |

## 2. Modules and how they correspond to the code

```
 Menu   Interface        Transactions     (EventLoop implements LoopPromise)
   |  \  /    |            |       |
   |   \/     |      SignApdu   SigningPromise     GetAddress   AddressPromise
   |   /\     |       |    \__implements__|          |    \__implements__|
   EventLoop  PendingScreen                          |
        \_________|________________App_______________|

 AmountDecimals      CryptoHelpers
```

`App` extends `EventLoop` and instantiates `SignApdu`, `GetAddress` and `PendingScreen`, the first two through
the modules with their proofs, so that what is proved of a handler can be cited of the handler in the loop.
`EventLoop`, `SignApdu`, `GetAddress`, `AmountDecimals`, `CryptoHelpers` and `App` each have an instance `MC...`
for TLC and theorems in `...Proofs`; `Recursion` has lemmas that two of those share.

- **`Menu`** — both menus as functions from an entry (and the setting) to an entry. `Settings(None)` is
  `"Settings"`, `Settings(Some(x))` is `x`. Labels are shortened to one word each.
- **`Interface`** — the instruction codes, `Ins::try_from`, and the command bytes of the block protocol.
- **`EventLoop`** — `app_main`. `pc = "next_event"` is the wait at the top of the loop, `pc = "poll"` is
  inside `poll_apdu_handlers`; a command is two steps, entering the poll and returning from it, and the
  handler's outcome (`PollPending`, `PollReady`, `PollReadyEmpty`, `PollReject`, `PollExit`, `PollPanic`)
  is all that matters here; `App` has the handlers themselves. The tail of the command branch (`EndCommand`: reset of `busy_menu`, redraw) is
  part of each. At first the application is installed and off; `Launch` enters `app_main`. Buttons: `ButtonIdle`, `ButtonExit`, `ButtonBusy`, `ButtonCancel`. `PowerLoss` and `Launch`
  are a restart; `Launch` rebuilds everything but `nvm`. The constant `Nvm` chooses between the two
  implementations of `Settings`. `HostIOState.sent_command` of the library decides which commands may
  continue a request. The ticker changes nothing and is left out. `AfterPresses` is
  the button sequence of the integration tests (`ts-tests/common.ts`) as a function of the idle menu and the setting.
- **`LoopPromise`** — the abstract specification of the loop, as host and user see it: off, free, serving a request
  or asking the host for a block; one request at most, made under the setting of its moment; replies to that request;
  no menus, screens, futures or polls, and no copy of the setting. It says which answer each step may send, that a
  reply with a result or an error ends the request, that only a request which asked can be continued, and what a
  restart does to the setting. `EventLoop` implements it: `KeepsPromise`, under `Session` and `Request`. `Session`
  has a value, "stranded", that the promise does not know: a request pending that no command can continue.
- **`Transactions`** — a transaction as a sequence of *pieces* in stream order: a message, the fee, a field
  that is dropped, bytes that do not parse. Per piece: does the dry pass accept it (`DryAccepts`), and the
  list of prompts of the pass with prompts, each with its title (the source's without its spaces), whether its
  answer is used (`checked`) and what drawing it does (`ok`, `none`, `panic`).
- **`SignApdu`** — `sign_apdu`, one action per read, prompt and branch, in the order of the code: `Start`,
  `ReadLength`, `ReadPath`, `DryPiece`/`DryEnd`, then `PromptPiece`/`ShowPrompt`/`PieceShown`/`PromptEnd`
  or `WarnDisabled`/`Warn`, then `HashPiece`/`HashEnd`, `ShowHash`, `Accept`, `Sign`. The host chooses any
  block at any time, the user any answer; `HostFailure`, `WrongAnswer`, `EndOfChain`, `StartWithoutParams`,
  `SignFails` and `Stop` (lost supply, exit, panic elsewhere) are the ways to fail. The hash of a block is
  the sequence of data it commits to, so a hash comparison is an equality of sequences. `shown` and
  `consent` are history: what the user has seen and agreed to.
- **`SigningPromise`** — the abstract specification: a request commits to a transaction and a path, the
  user consents (informed, only if everything checked can be shown; blindly, only if it was switched on),
  and a signature may be released over just that transaction with the key of just that path. Which pieces
  can be reviewed is a constant operator, `Reviewable`; `SignApdu` supplies that of `Transactions`. `SignApdu`
  implements it: `KeepsPromise` is its specification under the mapping `Stage`, `request`, `Signature`.
- **`AmountDecimals`** — `get_amount_in_decimals`, a step per turn of the scan and one for what follows.
  `Decimals` (9) and `Cap` (64) are constants. The early `return Err` is `ScanInvalid`; a slice out of range
  is `FormatPanic`; a push beyond the buffer is `FormatErr`.
- **`GetAddress`** — `get_address_apdu`, for VERIFY_ADDRESS (`prompt = TRUE`) and GET_PUBKEY. `Fetch` takes a
  block, `ReadCount`, `ReadByte` and `ReadStep` are the reads of `BIP_PATH_PARSER` on its bytes: the count, a
  byte of a little-endian step, the last byte of a step. A count of zero and a full `ArrayVec` are the edges.
  Then `CheckPrefix` (two steps of the three are compared), `Derive`, the three prompts, `Answer`. `KeyOf` and
  `AddressOf` are opaque. `word` has the bytes of the step that is being read, and `LittleEndian` is what the library
  makes of them, from the last byte on. The properties do not use it: `StepIn` takes a step at its place in the uncut
  bytes, and `Spelled` adds up its bytes by what their places count. `shown` and `declined` are history.
- **`AddressPromise`** — the abstract specification of both address instructions: a request commits to a path, its
  address may be shown, must be before VERIFY_ADDRESS answers, and the answer is the key and the address of that
  same path, under the prefix. `GetAddress` implements it: `KeepsPromise`, under `PathOf`, which reads the path off
  the uncut bytes of the request, and `Stage`.
- **`CryptoHelpers`** — `format_signature` (`Decode`, `WriteR`, `WriteS`, with the panics of an underflow and
  of a copy of the wrong length) and `compress_public_key` (`Compress`). Radix, width and the modulus of the curve
  are constants. `Shift(n)[k]` is an integer without its last `k` bytes.
- **`PendingScreen`** — `sample_pending`: two pages, each left by one button; commands are swallowed, and `owed`
  says that the host still waits for one. `seen` is history: the pages left since the last start.
- **`App`** — the loop of `EventLoop` with the handlers in place of their outcomes. A loop action and a handler
  action are one step where the code is one call: `CommandStart` with `Dispatch` (the new future, the old one is
  gone), `CommandResponse` with `Deliver` (the block reaches the future that asked), `CommandRefused`, a drop or
  an end of the application with `Forget`. Inside a poll the handler runs alone (`HandlerStep`); the poll returns
  as the handler stands (`PollReturns`: it waits, is done, or has rejected). `BeforeLaunch` has the pages. Every end of
  the application, whatever ends it, is also the end of `PendingScreen`, so both pages come again (`ReviewInApp`).
  The conjunction of a loop action and a handler action is a step of both modules, which is what
  `ImplementsSign`, `ImplementsAddress` and the theorem `ImplementsLoop` say.
- **`MC*`** — instances and reference definitions for TLC. `MCSignPromise` extends `MCSignApdu` with the host and
  the user who cooperate (section 4). **`*Proofs`** — theorems. **`Recursion`** — induction and recursion over the places of
  a sequence, and what `FlattenSeq` is at each place, for the proofs about bytes.

Definitions named as variants of others (`EndCommandNoReset`, `BlindPathAlways`, ...) and commented
"Mutant of" are plausible bugs. Nothing uses them; each is kept with the property that notices it
(`mutants` of `PROJECT.json`).

## 3. Runs

| Run | Question | Result |
|---|---|---|
| `event_loop_nvm` | Does the loop of the NVM build implement `LoopPromise`, and do screen, menus and setting stay in agreement under every press? | holds |
| `cancel_resets` | Does Cancel in the busy menu leave the application running? | **violated**, see 7 |
| `get_version_str` | Does GET_VERSION_STR get a result? | **violated**, see 7 |
| `sign_safety` | Is only what was shown, or consented to blindly, ever signed; is the invariant of the proofs true; does every step bring the request nearer its end? | holds |
| `sign_promise` | Does the handler implement `SigningPromise` over several requests, does every request end, and does everyone who cooperates get a signature for what can be signed? | holds, the last two under fairness |
| `sign_send_parties` | Has whoever signs a send seen "From" and "To"? | **violated**, see 7 |
| `address` | Does the handler implement `AddressPromise`: is one path read, shown and returned, however its bytes are cut; does every step bring the end nearer; is every good path answered? | holds, the last under fairness |
| `address_declined` | Does VERIFY_ADDRESS refuse when the user declines? | **violated**, see 7 |
| `crypto_formats` | Are signatures and keys formatted without loss and without panic? | holds |
| `app` | Do loop and handlers fit together on the RAM build, over both instructions and several requests; is the invariant of the loop true there; is every result the one its request earned; has a poll a bounded number of steps; does the loop of this build too keep `LoopPromise`, so that a restart switches blind signing off; is each start behind both pages, read anew; is every command that enters a poll answered? | holds, the last under fairness |
| `amount` | Is the conversion right on short texts, at the limits of the buffer, and on the examples of the comment and the tests? | holds |
| `amount_panics` | Is a bad amount always an error and never a panic? | **violated**, see 7 |

**Bounds, and why they are enough.**

- `MCHeaders`: one good header per instruction, and one refused for each of CLA, INS, P1, P2. The loop looks
  at nothing else of a header. Nothing else is bounded in `EventLoop`: its state is finite.
- `Nvm` is TRUE in `event_loop_nvm`, FALSE in `app`, `cancel_resets` and `get_version_str`.
  `HandlerSettingsCurrent` is checked where it can fail: with NVM there is no copy. `KeepsPromise` of the loop is
  checked on both: what a restart does to the setting is the one thing in which `LoopPromise` tells them apart.
- `MaxStarts` (1 in `sign_send_parties`, 2 in `sign_safety` and `app`, 3 in `sign_promise`) bounds the requests
  of a behaviour. Two are the least for a START in the middle of a request, or after one that signed, to be able
  to mix two requests up; nothing but the setting survives a request, so a third adds nothing new and is there
  for the refinement only. Behaviours in which host and user cooperate count their requests too (`Begin` of
  `SignApdu`): up to three follow one another. `GetAddress` counts none.
- Transactions have at most two pieces. Passes treat pieces one at a time; two are the least for an order
  between pieces, a pass that stops in the middle, and a good piece next to a bad one. The 13 kinds of piece
  of `MCPieces` cover each way to be accepted, refused by the type or the bytes, drawn in full or in part,
  refused while drawn, and fatal. The length is below, at and beyond the end of the chain, and zero.
- `AllBlocks` is every block of every chain: the host can answer any request for a block with any of them.
- `amount` has the sizes of the code, nine decimals and 64 bytes. Its texts are all of up to twelve zeros and
  ones (every place of the first and the last digit that counts, on both sides of the point), all of up to four
  bytes over two digits, a nine and the two bytes next to the digits, texts of 63 and 64 bytes with digits at the
  ends, around the point and next to it, and the examples of the comment and of the tests. The theorems of
  `AmountDecimalsProofs` have no such bound.
- `address` and `address_declined`: bytes of base 5, steps of 2 bytes, at most 3 steps. Ten parameters have each
  shape: the two steps that are compared, the first alone, one more, one with a byte left over, a wrong step, the
  two bytes of a step swapped, a step that is cut off, one step too many, no step, no byte. Each is cut into three
  blocks at every two places, so that every step is cut in its middle, blocks are empty at the front, in the middle
  and at the end, and the count comes alone. Where host and user cooperate a request follows a restart, since
  nothing of an earlier one is left; elsewhere a START comes after an answer and in the middle of a request too.
- `crypto_formats`: bytes of base 4 and halves of 3 bytes; all pairs of integers from 1 to 63, that is, of 1, 2
  and 3 bytes with and without the zero DER puts in front. The curve y² = x³ + 7 modulo 61 has pairs of keys that
  differ in y only, as secp256k1 has.
- `app`: four transactions of one piece (reviewed, fatal, unknown, too short), two paths, and three parameters of
  one-byte steps, enough for each handler to be reviewed, signed blindly, refused, fatal, cut short, and to wait
  for a second block. What the handlers do in detail is the matter of their own runs; here it is how they are
  started, continued, replaced and dropped. It is the build that copies the setting, with the pages of
  `pending.rs` before the loop.

`CHECK_DEADLOCK FALSE` is set for the conversions (`amount`, `amount_panics`, `crypto_formats`) only, which end. All other modules are checked for
deadlock.

## 4. Fairness

`FairSpec` of `SignApdu` has weak fairness of `HostAnswers` (the host sends the block that is due, or says it
cannot), of `UserAnswers` (the user presses something in a prompt), and of `Handler` (steps that wait for
nobody). The last is what the loop does: `poll_apdu_handlers` runs the future until it awaits. The first
two are the environment: the device has no timeout, so a host that stops or a user who walks away leaves the
request pending, which is intended. No fairness is assumed for a particular answer; a host that fails and a
user who declines are as fair as any other. Starts, toggles and losses of power are not fair.

`MCSignPromise` and `MCGetAddress` put the handler in two environments, told apart by `cooperates`, which a behaviour
chooses once. Where it is FALSE everything is as in the handler's own specification. Where it is TRUE the host sends
every block it is asked for, the user agrees to everything (in `GetAddress`, whose answers change nothing, answers),
no system call fails and nothing is interrupted; weak fairness of these steps taken together (`Cooperation`) says
only that somebody goes on. `CooperationIsSigned` and `CooperationIsAnswered` speak of these behaviours,
`EveryRequestEnds` of all.

`FairAppSpec` has weak fairness of `AtPoll`: inside a poll the device runs on, and a user who is asked something
presses something. The host is not asked for anything, since within a poll nobody waits for it. That a poll
returns therefore rests on the handlers: each of their steps brings them nearer to a block, an end or a reject.

What `EveryRequestEnds` rests on is `EveryStepCounts`: `StepsLeft`, computed from where the handler is, what is
left of the pass and the prompts of the piece, goes down with every step of a request, whoever takes it, and the
number is fixed by the chain START committed to. `PollsRunOut` says the same of a poll in the loop. Both are safety
properties and proved for every instance (section 5); what fairness adds is that somebody takes the next step.

## 5. What is proved

All theorems are for every value of the constants that satisfies the named assumptions.

**`EventLoopProofs`** (both builds, any set of headers). `LoopInvariant`: `Spec => []LoopInv`. The
properties of the screen are not inductive. To know that "Blind Signing Enabled" on the screen is true one
needs that the screen shows the menu the loop would draw now (`PressActsOnMenuShown`) *and* that the entry
the submenu has selected agrees with the setting (`MenuEntryCurrent`); the entry is changed without looking
at the setting by "both" on it, so the argument is that the entry and the setting flip together
(`IdleMovesAgree`). `HandlerSettingsCurrent` needs that no press reaches the idle menu while a request is
pending, and that a request holds the copy taken at its START. `BusyOnlyWhileHostOwes` and
`BusyMenuResetWhenDone` are kept by one lemma about the end of a command, `EndOfCommand`, which each way to
return from the poll uses. From `LoopInv` follow `TypeCorrect`, `ScreenTruthful`, `HandlerSettings`,
`NoStrandedRequest`, and the step properties `Consent` (the one press that can switch blind signing on is
made on the entry, and therefore the screen, that says it is off).
`PromiseKept` is the refinement of `LoopPromise`. `BusyOnlyWhileHostOwes` is why no session is "stranded", and
`HandlerSettingsCurrent` why the setting of a request is that of the moment it was made (`SessionIs`). A command is
`Start`, `Continue`, `Refuse` or `Misunderstand` (`CommandsPromised`), the return of a poll `Ask` or `Finish`
(`PollsPromised`), a press `Toggle`, `PowerOff` or a stutter (`PressesPromised`); panics, exits and losses of power are
all `PowerOff`. `ToggleReturns` follows the eight presses of the tests through the menus (`AfterPressesIs`).
Assumptions: `NvmAssumption`, `HeadersAssumption`, `NoHandlerAssumption`.

**`AmountDecimalsProofs`** (any number of decimals of at least two, any capacity of at least two more, any
texts that fit). `AmountInvariant`: the types, and `ScanInv`, which says of the bytes passed that they are
digits, that only zeros come before `start_ix` and after `last_non_zero_ix`, and that both point at a
non-zero digit once there is one. `SlicesSafe`: no slice is out of range unless the text is empty; it needs
`start_ix <= last_non_zero_ix < Len(amount)` from `ScanInv`, and in the branch above one that the first
non-zero digit comes before the point. `RefusedIff`: a text of digits is refused exactly when it fills the
buffer and neither end is a zero, by counting the length of the text shown. `SameValue` and `OneText`: the text shown
denotes the amount and has one form. `ShownAboveOne` and `ShownBelowOne` say what is in each place of the two kinds
of text; `ShownDigits` follows the digit that counts 10^k from the amount to the text, where the digits left out are
zeros by `ScanInv`; `ShownEnds` finds a digit that counts at either end, or the point next to it. No fold over the
digits is needed, since two numbers are compared digit by digit.
What they say of one conversion gives what matters about two. `Shows` collects it, over all places: `EveryTextShows`.
`SameTextIffSameAmount` needs nothing else: two texts that are equal have their point at the same place, so the amounts
agree in every digit; amounts that agree in every digit, and are not zero, have texts of equal length with equal digits
(`NoneReachesFurther`: of two plain texts the longer one would have a digit that counts where the other has none).
Assumptions: `DecimalsAssumption`, `CapAssumption`, `AmountsAssumption`.

**`SignApduProofs`** (any chains, paths and blocks the types allow, of any length and number; any bound on
requests). `SignInvariant`: `Spec => []SignInv`. That what is signed is what was shown
(`ReviewedIsSigned`) is a statement about the moment of the signature and says nothing of the passes before
it. `SignInv` does, in five named parts:

- `TypeOK`;
- `ChainInv`: length, path and the hash the passes start from are those START committed to. Reading a block
  keeps it since a block is taken only if its hash is the cursor (`GenuineBlock`);
- `PassInv`: in any pass `Done = length - left` pieces have been read and the cursor has exactly the rest of
  `input0`; the pieces before it were accepted (dry pass) or hashed (last pass), and a recognized
  transaction is one whose first `length` pieces all exist and were accepted. This ties the three passes
  together, whatever the host sends in each;
- `ShownInv`: the pieces before the current one were shown to their last prompt that can be drawn, and the
  current one up to prompt `step`; no checked prompt was passed without being drawn. `DrawnGrows` is the lemma
  about one more prompt;
- `ConsentInv`: the set of answers given at each point, and that the copy of the setting is the setting while a
  request is pending (the device model lets it change in the idle menu only).

There is one lemma per action (`ReadLengthKeeps`, ..., `SignKeeps`), two for all that begins or advances a
pass (`PassBegins`, `PassAdvances`), and `DropKeeps` for every end of a request. From `SignInv` follow
`SignTypes`, `WhatYouSee`, `BlindNeedsConsent`, `NoSurprise`, `BlindWhileOn`, and the refinement
`PromiseKept`: a START is `Begin`, the last "yes" is `ConsentInformed` or `ConsentBlindly`
(`AcceptIsConsent`, where `Complete` and `Reviewable` come out of `PassInv` and `ShownInv`), a signature is
`Release`, every drop is `Abandon`, and all else is a stutter (`OpenSteps`).
`RequestsRunOut` is the variant of termination, `EveryStepCounts`: three passes of at most `length` pieces, each of
at most four prompts (`PromptsFew`); a pass that ends pays for the next one out of what `length` still promises, and
`ShownInv` keeps `step` from running past the prompts of a piece.
Assumptions: `Transactions1Assumption`, `Paths2Assumption`, `BlocksAssumption`, `MaxStartsAssumption`,
`NoRequestAssumption`; and, by the shape of the model, that SHA-256 has no collisions.

**`GetAddressProofs`** (bytes of any radix, steps of any width, any parameters, blocks and prefix).
`AddressInvariant`: `Spec => []AddressInv`. That the address shown is the one returned speaks of the end of a
request; `AnswerInv` says what is on the screen and in the result at each point before it, that nothing of an
earlier request is left on either while a path is read, and that from the prefix check on the path is fixed and
under the prefix. There is one lemma per action; `DropKeeps` serves every end of a request, `BeginKeeps` every
beginning. From it follow `AddressTypes` (a path never outgrows its `ArrayVec`) and `SameAddress`.

`StreamInvariant` is the induction behind "the cuts do not matter". What the host committed to is a sequence of
blocks; what counts is the sequence of their bytes, `Bytes`. `StreamInv` says that at any time the bytes read so far
(`Taken`, from the steps complete and those of `word`) and the bytes to come (`Rest`: those unread, then those of the
blocks not yet fetched) are `Bytes`, place by place; that `word` and each step in `path` are what stands at their
places; and that `left` is what the count in front still promises. A block that comes moves bytes inside `Rest`
and changes none (`FetchMovesBytes`), a read takes the first (`ByteTaken`), and the last byte of a step makes the step
that `StepIn` computes from `Bytes` (`StepComplete`). `StepIn` looks neither at blocks nor at how the device reads a
step: that Horner's scheme from the last byte on (`LittleEndian`) gives the sum of the bytes by their places
(`Spelled`) is `FirstByteIsLeast`. Its induction moves one byte at a time from one to the other: what the last `N - k`
bytes give, times what place `k` counts, plus the sum of the first `k` bytes, is the same for every `k`
(`ByteMoves`). `CutsDoNotMatter` follows.
The refinement `PromiseKept` uses it twice: `Show` and `Release` of `AddressPromise` speak of the path the uncut bytes
spell. A START is `Begin`, the second prompt `Show`, the result `Release`, every end `Abandon`, all reads stutter.
`RequestsRunOut` is the variant: blocks to fetch, bytes to read, prompts to show.
Assumptions: `SizesAssumption`, `ParamsAssumption`, `AddressBlocksAssumption`, `PrefixAssumption`,
`NoAddressRequestAssumption`.

**`CryptoHelpersProofs`** (any even radix, any width, any signature of two scalars, any curve). `FormatInvariant`:
the decoder leaves the magnitudes of the two integers in `r` and `s`, a half that is not written yet is empty, and a
half that is written holds its integer place by place (`Holds`), zeros in front included (`ShiftStaysZero`).
`NoPanic`: no padding underflows and no copy has the wrong length. A magnitude has between one byte and the width,
since the minimum of a set of positions is one of them (`MagnitudeIs`), and the zero DER may put in front is the one
byte the decoder takes off (`DecodeReturns`). `SignatureValues`: each half of the result denotes its integer
(`HalvesDenote`), since `n = (n div radix) * radix + n mod radix` at every place (`DenotesValue`, by induction over
the places). `KeysApartAlways`: the last byte of y has its parity since the radix is
even (`ParityOfLastByte`), the bytes of x determine x (`FixedTells`), and of the two points over one x the ordinates
add up to the odd modulus, so the parities differ (`KeysApart`).
Assumptions: `SizesAssumption`, `InputsAssumption`, `CurveAssumption`.

**`Recursion`**. `BoundedInduction` is induction over the numbers up to a bound for a *set* of good places, and
`RecursionExists` that a recursive function with a step given as a function has a value at every place
(`RecurrenceHolds`: and what satisfies the recurrence is one): the theorems
of the library take the predicate and the step as operators, which the backends cannot instantiate, while a set and a
function are terms. `Flattens` and the lemmas after it say what `FlattenSeq` is, place by place.

**`AppProofs`** (all of the constants of the loop and of both handlers). The modules of the handlers assume
things of the loop: a request is replaced or fed only while it waits for a block; the setting does not change
while one is pending; a block that does not have the hash asked for never gets through; a dropped future leaves
nothing. These are theorems here. `AppInv` ties the variables of the loop to those of the handlers
(`HandlerMatchesLoop`, and that `sent_command` is GET_CHUNK while a request is pending). From it, every step of
`AppNext` is a step of the loop or a stutter (`ImplementsLoop`), a step of `SignApdu` or a stutter (`SignInLoop`),
and a step of `GetAddress` or a stutter (`AddressInLoop`); `Agreement` is the invariant itself. What is
proved of `EventLoop`, `SignApdu` and `GetAddress` by itself therefore holds of their variables in the
application: `ReviewedInApp`, `BlindInApp`, `AddressInApp`, `LoopInApp`, and `PromisesInApp`, that the application
implements all three abstract promises. The pages in front are part of it: `ReviewInApp` (every step of the
application is one of `PendingScreen` or a stutter) and `EachStart`: which page is up tells which pages have been left
since the last end of the application (`PagesInv`), every end of it brings the first one back with nothing read
(`StartHasPages`), and the loop is entered behind the last only. Two results need loop and handlers together.
`EveryResultEarned`: a result can leave the device in one step only, the return of a poll whose future is done (`ResultsAreReady`); there
`HandlerMatchesLoop` says that it is the future of the instruction the reply names, with its prompts and the setting of
this moment, and the properties of the handler say what that future went through (`SignaturesAreEarned`,
`AddressesAreEarned`). `PollsAreBounded`: a step of one future lowers its `StepsLeft` and leaves the other alone, so
what a poll still has to do goes down with each of its steps.
Assumptions: those of the loop, and `SignAssumption` and `AddressAssumption`, which are the assumptions of the two
handler modules about their constants.

**Only model-checked.** Liveness (`EveryRequestEnds`, `CooperationIsSigned`, `CooperationIsAnswered`,
`CommandAnswered`), since fairness and ENABLED are out of the prover's reach; of the first and the last the variant is
proved (`EveryStepCounts`, `PollsRunOut`), and what TLC adds is that the next step is always enabled and fair.
`ExamplesConverted` is the literal amounts of a comment and of the tests, for which a run is the whole truth.

## 6. Assumptions about code outside the repository

- `alamgu_async_block`: a command that does not answer the last one sent, and a block whose hash is not the
  one asked for, is an error that drops the request. GET_CHUNK_RESPONSE_FAILURE, and a read past the end of
  a chain, reject inside the read. SHA-256 has no collisions. The library may serve a block from its buffer
  when a later pass begins; the model asks the host again each time, which allows more. One datum per block:
  how bytes are cut into blocks does not matter to the handler, which reads them one by one.
- `ledger_prompts_ui`: a prompt answers `Some` or `None`; text that cannot be drawn answers `None`.
- `ledger_parser_combinators`: the parser of an absent field does not run. Of a repeated coin one is kept;
  pieces carry at most one.
- `pin_cell`, `nanos_sdk`: `borrow_mut` of a borrowed cell panics, `exiting_panic` ends the application;
  a write to NVM is atomic (`AtomicStorage`).

- `nanos_sdk`: `deterministic_sign` returns DER, whose integers have no superfluous bytes and a zero in front
  where the top bit is set; `cx_ecfp_decode_sig_der` points behind that zero. `sample_pending` runs before
  `sample_main` where the feature is on; `next_event` itself refuses a header it cannot decode.
- `ledger_parser_combinators`: the parser of a `DArray` rejects a step its `ArrayVec` has no room for, and reads
  nothing after the last step.

The empty amount is fatal in `SignApdu`, which is `PanicOnlyOnEmpty` read backwards and `amount_panics`. What
`SignApdu` and `GetAddress` assume of the loop is not an assumption any more: `App` discharges it. Of the curve,
`CurveAssumption` has what every curve `y² = f(x)` over a field of odd order has: two points with the same `x` are
equal or have ordinates that add up to the modulus. It is used by `KeysApartAlways` only.

## 7. Disagreements found

1. **Cancel panics** (`cancel_resets`). `main_nanos.rs:88` matches on `states.borrow().is_none()`; the `Ref`
   is a temporary of the scrutinee and lives to the end of the match, so `states.borrow_mut()` in the Cancel
   arm (line 98) panics and the application exits instead of "Resetting at user direction via busy menu".
2. **GET_VERSION_STR has no answer** (`get_version_str`). The arm at `implementation.rs:539` is empty: the poll a
   START of it enters returns at once with no RESULT_FINAL in the reply (`PollReadyEmpty`). `docs/apdu.md:14` has it
   return the version as a string.
3. **The empty amount panics** (`amount_panics`). For an empty text the slice `[0..1]` of an empty buffer is
   taken (`implementation.rs:224`); `docs/apdu.md:143` has an error for bad input.
4. **A send can be signed without its parties being shown** (`sign_send_parties`). The results of the
   "From" and "To" prompts are dropped (`implementation.rs:286-303`), so an absent or illegible
   address is skipped; `signing-tests.ts:37,42` expect both prompts. `ReviewedIsSigned` therefore speaks of
   the prompts that can be drawn, and `Reviewable` of the checked ones.
5. **VERIFY_ADDRESS answers even when the user declines** (`address_declined`). The results of all three
   prompts, `final_accept_prompt` among them, are dropped (`implementation.rs:58-60`), so key and address are
   returned either way; `docs/apdu.md:143` has an error for "user rejectected".

Two more, seen while modelling and visible in the source without a run: `interface.rs:13` reads the steps of a path
as `U32<{ Endianness::Little }>` where `docs/apdu.md:55,88,126` say big-endian (`GetAddress` follows the code, and so
does `Spelled`, the sum its properties compare with); and the pending review screen matches a command with `_ => ()`
(`pending.rs:14`, `:21`) where `docs/block-protocol.md:32` has the application respond to each (`owed` in
`PendingScreen`; the feature is off by default).

## 8. What is not modelled

- Protobuf decoding (varints, field numbers, lengths within messages): the library's work. A piece is the
  result of it. Which of several coins in one message is kept is the library's choice.
- Wording, icons, pages and scrolling; logging; the version bytes.
- Key derivation, the signature itself, the hash and the Bech32 text of an address: system calls of the device
  and a library; opaque in `GetAddress`. The text has 41 characters and the result 76 bytes, of 50 and 128.
- What the parser drops by design (memo, tip, timeout, payer, granter, chain id): signed without being
  shown, which nothing in the repository says otherwise. A `Dropped` piece stands for each.
- PUT_CHUNK and RESULT_ACCUMULATING of the block protocol, which the application never uses.
- Build files, packaging, and the protobuf declarations, which have no behaviour.

## 9. Plan

Done: the event loop with its menus, both handlers with everything they read, show and return, the amount
conversion, the formats of signatures and keys, the pending review screen, and their composition, each with proofs.
The loop and both handlers implement an abstract promise, alone and in the application. All invariants and action
properties of the runs are theorems, but for `ExamplesConverted`.

Left: the liveness properties, which stay with TLC while the prover does not know fairness; and two things that are
not in the repository, the parser library (which of several coins of one message is kept) and the block library (what
of a chain it keeps in its buffer between two passes). Should their sources be added here, `Transactions` and
`SignApdu` name the places where they belong.
