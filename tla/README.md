# flipper-apps: a TLA+ model of the two applications

The repository holds two independent applications for the Flipper Zero:

* **Tesla Key Card** (`tesla_key_card/`) generates a key identity, keeps it in two
  files, and answers a car's NFC reader with it while the app is open;
* **MFC NDEF Format** (`mfc_ndef_format/`) rewrites a MIFARE Classic 1K card as an
  empty NDEF card, key by key and block by block.

Both are small, but nearly every line runs next to something that can go wrong at
a bad moment: a storage call that fails in the middle of several, a power loss, a
second thread, a card that leaves the field, an answer that is lost. That is what
these modules model. The contents of keys, records and screens are abstract.

## Inventory

| component | state | operations | interacts with | hard behaviour | what makes it correct |
|---|---|---|---|---|---|
| Identity storage `tesla_identity.c` | `identity.bin`, `identity.tmp` | load (with fallback and rename), save (staged, renamed), delete | called by the GUI thread; SD card, secure enclave | power loss between calls, one call of several failing | never two identities, never a lost pairing, never a revived one, always a way out of the error state |
| Key card app `tesla_key_card.c` | identity, crypto context, applet, screen, view model, event queue | start, reset dialog, cancel, confirm, tick, exit | starts and stops the applet, loads and deletes the identity, drains the event queue | join of the listener, freeing what a callback uses, stale events | one identity served, honest screen, no use after free, no deadlock |
| NFC applet `tesla_nfc.c` | listener, session, callback in flight | start, stop, received data, field off, halted | firmware's listener thread; APDU; event callback into the app | readers coming and going, failures of crypto and radio | session bound to its reader, only real authentications are told |
| APDU `tesla_apdu.c` | `selected` | one command in, one answer out | applet, crypto callback | lengths claimed by the reader | no read beyond what arrived, answers that fit |
| Crypto `tesla_crypto.c` | private key, public point, public key, `key_ready`; buffers of a computation | alloc, free, set, generate, authenticate | mbedTLS; called by both threads of the key card app | calls that fail halfway; a key replaced while it is in use | a context is one key or none; nothing of a computation is left behind |
| Layout `ndef_layout.c` | none | target content and keys of a block | format run | access bits as bytes | no trailer locks a sector |
| Format run `ndef_format.c` | position, probe result | detect, probe, write B, write A | NFC poller, cancel flag, progress callback | cards removed or swapped, lost answers, torn writes, cancel, retry | Ok means formatted, failure means a foreign card, nothing is bricked |
| Format app `mfc_ndef_format.c` | view, worker, stop flag, progress, result and failed block | menu, start, cancel, result, exit | worker thread through shared fields and the dispatcher's queue | two threads, full queue, join | popup until Done, no stale result, no deadlock, every run reports |
| Firmware and cards | SD card, NFC stack, view dispatcher, MIFARE chip | | | | outside the repository, see *External parts* |

PROJECT.json lists the hazards with their lines and the properties aimed at each.

## Modules

    IdentityVault  <~~~~ TeslaIdentity <---- TeslaIdentityProofs, MCTeslaIdentity

    KeyHolder <~~~~ TeslaCrypto <---- TeslaCryptoProofs, MCTeslaCrypto
        ^
        +------- TeslaNfc <---- TeslaKeyCard <---- TeslaKeyCardProofs, MCTeslaKeyCard
    TeslaApdu <----+ ^
                     +---- TeslaNfcProofs, MCTeslaNfc

    FormatRun <~~~~ NdefFormat <---- MCNdefFormat
        ^               ^--- NdefFormatProofs <---- NdefFormatOutcomeProofs
        |
        ~~~~~~~ NdefApp <---- NdefAppProofs, MCNdefApp
    NdefLayout <---- MifareClassic <---- NdefFormat

`A <---- B` means that B extends A, `A <~~~~ B` that B implements A under a refinement
mapping. The three abstract specifications are IdentityVault, KeyHolder and FormatRun.

* **TeslaIdentity**: the files, one action for each storage call of load, save and
  delete, and the GUI thread's path through them (`pc` names the call that comes
  next). A rename is three steps, because the firmware's may stop between them.
  Every call can fail, and `Crash` loses power anywhere. `paired`, `condemned` and
  `retired` are history: what the user relies on and what the user gave up.
* **IdentityVault**: the promise, without files. It has one identity stored, one
  served and one promised, and five actions that say how they may change.
  `TeslaIdentity` implements it with `stored` mapped to what a load would find.
* **TeslaApdu**: `tesla_apdu_process` as an operator. A request is reduced to what the
  code looks at; the answer carries, besides command, status word and size, how many
  bytes of the request were read and whether the private key was used.
* **KeyHolder**: what the crypto context is to its callers: one identity's key or none,
  and a computation that uses the key held from its beginning to its end.
* **TeslaCrypto**: the context and the buffers behind that, with every mbedTLS call
  failing. Keys, points and encoded bytes are named by the identity they belong to;
  `Part` is memory that a failed call has begun to fill. `auth.stage` is the call that
  the computation makes next and `auth.full` the buffers that may hold something.
  The module assumes that its calls come one at a time.
* **TeslaNfc**: the listener's callback (received, answered, telling), the session,
  the computation of an authenticator, which takes its time, and start and stop of the
  listener, which joins a callback in flight.
* **TeslaKeyCard**: the GUI thread composed with TeslaNfc. `gui` is the event loop, a
  tick in progress, or the wait for a join; the files are reduced to calls that succeed
  or fail. It keeps to KeyHolder (`HolderSpec`): the assumption of TeslaCrypto.
* **NdefLayout**: target contents and keys. Access bytes are numbers, because
  **MifareClassic** computes from their bits what the card allows next.
* **NdefFormat**: `mfc_ndef_format_run`, one action per NFC call, with the user's hand
  (`Remove`, `Place`) and calls that fail before, after or in the middle of what the
  card does (`Glitch`, `Torn`).
* **NdefApp**: the GUI thread and the worker thread, store by store, with the queue, the
  cancel flag, the progress block, the result and the failed block. What a run does to
  the card is left to NdefFormat; here it visits the blocks and may end at any.
* **FormatRun**: one run with neither card nor threads: blocks in order, one outcome,
  and a cancel that takes effect between two blocks.

### State and actions against the code

| model | code |
|---|---|
| `LoadMain`, `LoadTmp`, `SetKey`, `Generate` | `tesla_identity_load`, `tesla_key_card_prepare_identity` |
| `SealRecord`, `RemoveTmp`, `OpenTmp`, `WriteTmp`, `CleanTmp` | `tesla_identity_save` |
| `DeleteMain`, `DeleteTmp`, `ReallocCrypto`, `ResumeNfc` | `tesla_identity_delete`, `tesla_key_card_reset_identity` |
| `Receive`, `ProcessRequest`, `SendAnswer`, `LoseReader`, `Return` | `tesla_nfc_listener_callback` |
| `BeginAuthenticate`, `EndAuthenticate` | `tesla_nfc_authenticate` |
| `Alloc`, `Free`, `SetPrivateKey`, `Generate` | `tesla_crypto_alloc`, `_free`, `_set_private_key`, `_generate_private_key` |
| `Begin`, `Stage`, `Cleanup`, `Take` | `tesla_crypto_authenticate`, `tesla_crypto_authenticate_with_salt` |
| `Start`, `BeginStop`, `EndStop` | `tesla_nfc_start`, `tesla_nfc_stop` |
| `HandleRequest`, `OpenDialog`, `HandleCancel`, `HandleConfirm`, `ResetIdentity`, `Ignore` | `tesla_key_card_custom_event_callback` |
| `BeginTick`, `TakeNfcEvent`, `EndTick` | `tesla_key_card_tick_event_callback` |
| `Detect`, `Probe`, `NextBlock`, `WriteKeyB`, `WriteKeyA` | `mfc_ndef_format_run` |
| `DetectCard`, `LoopHead`, `HandleBlock`, `SendProgress` | `mfc_ndef_format_run` and `mfc_ndef_progress_cb`, as the worker runs them |
| `StoreResult`, `StoreFailBlock`, `SendDone`, `ExitThread` | `mfc_ndef_worker` |
| `ChooseFormat`, `StartWorker`, `CancelFormat`, `HandleDone`, ... | the callbacks of `mfc_ndef_format.c` |

`map` in PROJECT.json gives the lines of every definition.

## Runs

| run | question | bounds, and why they are enough | states |
|---|---|---|---|
| `identity_faults` | what can faults and power loss do to the two files? | 7 identities so that a fresh one always exists; 3 failures, 2 power losses, 2 resets: enough for a failure in a load that follows a failed save that follows a failed delete | 27 000 |
| `identity_promise` | is the vault implemented when removals work? | as above; every kind of failure but `remove` | 13 000 |
| `identity_recovery` | does the card always get back in service? | 4 identities, 2 failures, 1 power loss, 1 reset (no symmetry with liveness) | 25 000 |
| `identity_reset_retires`, `identity_failed_reset_keeps` | the same promises with removals that fail: violated (findings) | | |
| `format_any_cards` | can any interruption lock a sector, touch block 0 or make Ok untrue, also on a second run? is FormatRun implemented? | the MAD sector and an NDEF sector, all others being alike; a genuine card and a clone that may be swapped, either found under foreign keys; 2 runs, 1 removal, 1 failed or torn call | 434 000 |
| `format_once` | is a failure the card's fault? is another card type left alone? | 3 sectors, three cards, one run | 460 000 |
| `format_resumed` | a second run after a cancelled one: violated (finding) | no faults at all | |
| `app_threads` | do the two threads agree, always finish, and implement FormatRun? | 5 blocks against a queue of 2, so that it fills up; 3 runs, to see leftovers of one in the next; deadlock is checked | 43 700 |
| `crypto_calls` | what is left in the context and its buffers when any call fails? | 3 keys: one before, one that fails, one after; no bound on the calls | 356 |
| `card_session` | bounds of every request, in every session | real sizes: requests on both sides of each compared length (4, 5, AID 10, data 81, Le against 65, 16 and 2) | 25 000 |
| `keycard_reset` | GUI thread against listener through ticks, resets and exit; is the key left alone while in use? | a queue of 2 emptied one at a time (16 and 8 in the code), 2 identities, 2 events waiting, a reader that selects and authenticates; deadlock is checked | 329 000 |

`CHECK_DEADLOCK FALSE` is used only in the format runs, where the number of runs is
bounded and the user's hand may rest. In the other models nothing may stop except
an app that has been left, which stutters (`Off`).

Bounds are constants (`MaxFaults`, `MaxCrashes`, `MaxResets`, `MaxRuns`, `MaxMoves`,
`MaxGlitches`, `MaxIds`, `MaxPending`, `Requests`) and appear as guards of the
environment's actions, never of the program's; the exception is `MaxIds` in
KeyHolder and what extends it, which limits how many new identities are generated,
where keeping the old one or failing stays possible.

`card_session` does not repeat the type invariant: `TypeOK` of `keycard_reset` contains
it, and `NfcTypeCorrect` proves it for every set of requests. In the same way the
inductive invariants `IInv` and `FormatInv` were given to TLC before they were proved
and are not part of the runs.

What the properties say is in the comment above each. A short guide:

* *Identity.* `OneIdentityOnDisk`, `NewIdentityOnlyOnEmptyDisk` (where a new identity is
  made, before the save removes `identity.tmp`, as well as where it is written),
  `PairingSurvives`, `RetiredStaysRetired`, the refinement `ImplementsVault`, and for recovery
  `SelfHeals` and `RebootRestores`.
* *Format.* `NeverLocksOut` evaluates the real access bytes with the card's own
  rules: whatever the interruption, every sector still takes all its blocks under
  one of the two key sets, except one whose trailer was torn. `OkMeansFormatted`,
  `WriteFailedMeansForeign`, `Block0Untouched`, `OtherCardsUntouched`, and the
  refinement `ImplementsRun`.
* *Format app.* `PopupUntilDone`, `JoinsOnlyFinished`, `ResultIsLatest` (result and
  failed block belong together), `ProgressIsCurrent`, `EveryRunReports`, and
  `ImplementsRun`: in particular no run is cancelled by the request for another.
* *Crypto.* `NothingLeftBehind`, `OneKeyInMemory` (also of what a failed load leaves,
  which `ImplementsHolder` does not see), and `ImplementsHolder`.
* *Card session.* `ReadsOnlyArrived`, `AnswersFit`, `OnlyAfterSelect`,
  `AuthenticatedMeansProved`.
* *Key card app.* `DialogQuiescent`, `NoUseAfterFree`, `ServesOneIdentity`,
  `CountersOfCurrent`, `StatusHonest`, `ShownIsServed`, `DialogStartsClean`,
  `StopReturns`, and `HolderSpec`.

### Disagreements between code and text

1. **A reset may not delete** (`identity_reset_retires`). `tesla_identity_delete`
   drops the result of removing `identity.tmp` (line 362). When the record is there
   and the removal fails, the reset succeeds and loads the old identity again;
   README.md:11 of the app says that reset deletes the local identity.
2. **A failed reset may delete** (`identity_failed_reset_keeps`). When removing
   `identity.bin` fails, `identity.tmp` is gone already. If it was the only whole
   copy, the app resumes with an identity that storage no longer has, and it is lost
   when the app closes.
3. **A cancelled format cannot be resumed** (`format_resumed`). Once block 3 is
   written, the probe takes the whole card for formatted, and every later run stops
   with "Write failed" at the first sector that is not, although the card has no
   unknown keys (README.md:53-54 of the app).

Not a run, but seen on the way: the key card's main screen draws a left button
"Exit" (`tesla_key_card.c:124`), while `tesla_key_card_main_input_callback` handles
only the centre button; the app is left with Back.

## Fairness

* `TeslaIdentity!Fairness`: every storage or NFC call returns and the GUI thread goes
  on (WF on `Step`); the owner opens the app (WF on `Boot`); and the owner of a card
  that is out of service does not avoid for ever the reset that its screen asks for
  (SF, because leaving and opening the app in turn would disable it again and again).
  Only this last part is about the user; faults and power losses are finite by their
  bounds.
* `NdefApp!Fairness`: the scheduler runs both threads; events are handled; a join
  returns when its thread has ended. No fairness on inputs.
* `TeslaKeyCard!Fairness`: a callback that has begun finishes and the GUI thread takes
  its turns. Nothing is assumed of readers or of the user.

Safety needs none of this: the proofs use only `Init /\ [][Next]_vars`, and the
hypotheses named with each theorem.

## Proofs

A module of proofs for each component, two for the format run, checked by TLAPS for all
values of the constants that satisfy the named assumptions. Every safety invariant and
every action property that the runs check is stated by a theorem, and so are the four
refinements. The other theorems say what no run asks.

* *One identity on disk.* `OneIdentityOnDisk` is not inductive: that both files agree
  after a rename depends on where the GUI thread is. `DiskInv` adds what the disk
  must look like at each call: a rename runs only with the held identity whole in
  `identity.tmp` and never over a whole `identity.bin` (`RenameInv`), a save only on
  an empty disk (`SaveInv`), and what is about to be served is what a load would find
  (`ServeInv`). `OneIdentity` and `NewIdentityGuarded` follow with any faults: a new
  identity is made only while neither file exists, so that no damage and no error of
  either file can lead to one.
* *The promises.* Without hypotheses they are false, as the two violation runs show,
  but each depends on one removal only. `PairingKept` and the refinement `Refinement`
  assume `MainRemoved`: in a reset, the removal of `identity.bin` fails only while the
  record is in it. `ResetIsFinal` assumes `TmpRemoved`: the removal of `identity.tmp`
  does not leave a record behind. Every other call may fail, the removals of load and
  save included. `PairingKeptWithoutReset` replaces the hypothesis by one on the user:
  where no reset is confirmed, no failure takes the identity away. `PromisesKept`
  derives all three promises from `"remove" \notin FaultKinds`, which is how the run
  `identity_promise` checks them. The invariant is `IInv` (`PromiseInductive`), in four
  parts because the two hypotheses need different ones. `VaultIsEnough` shows that
  IdentityVault is not an empty promise: whatever implements it keeps the pairing and
  serves what it keeps, so the card does (`CardServesStored`).
* *The format.* `FormatInv` says that, unless another card took its place, the blocks
  before `blk` have their target content on the card that was last on the field
  (`PrefixWritten`), that this card was recognised (`RightType`), and that every trailer
  under known keys that was not torn is the factory's or the format's
  (`KnownTrailers`). `OkIsFormatted` and `OtherCardsSafe` follow from the first two; for
  `FormatLocksNothing` the access bits of the three trailers are computed in lemmas,
  and the third part does the rest. `WritesOneBlock` and `StoppedRunIsAPrefix` say what
  a run that did not finish leaves: everything before the block it was at is
  formatted. All hold for any sets of cards and clones and any number of runs, moves
  and failed calls.
* *How a format ends.* `WriteFailedMeansForeign` is false in general (the third
  disagreement). What it needs is that the sectors the app knows are all of one kind
  when the run probes the first of them (`UniformAtProbe`). Then it holds for any number
  of runs (`UniformFailsForeign`), and more: an undisturbed run that nobody cancels
  succeeds if all keys are known, and otherwise fails at the first block of the first
  sector whose keys are not (`UniformOutcome`). Cards come that way, so the first run
  needs no assumption (`FirstRunOutcome`, and `OneRunFailsForeign` for the run
  `format_once`), and a run that succeeds leaves the card that way (`OkLeavesUniform`):
  a format can be repeated, only a stopped one cannot be resumed. The invariant adds to
  `FormatInv` that foreign sectors are never changed and never passed
  (`ForeignUntouched`, `OkMeansNoForeign`) and that what the probe found is still true
  of the sectors ahead (`Recognised`).
* *The format app.* `AppInv` ties the two threads together through the queue: while the
  worker runs there is no Done in it, after it there is at most one, behind every
  progress event, and a view other than the popup means that it has been handled. The
  joins, the result screen and the refinement `AppIsARun` follow, that no popup waits
  for an event that will not come (`PopupIsAnswered`), that no thread waits for the
  other with a queue of any length (`ThreadsNeverDeadlock`), and that a result screen
  agrees with the blocks the run dealt with (`ScreensAreTrue`).
* *The crypto context.* `CryptoInv` says that a context that is ready is one key throughout and
  that one that does not exist is blank (`OneKey`), that a computation past its first
  check has a key and is bound to the one still held (`Bound`), and what is in memory
  when it ends (`Left`). The refinement needs the first two; `ContextIsWhole` adds that
  an authenticator verifies under the public key that is given out. `OneKeyAtATime`
  needs one thing more, that what a load or a computation that failed has left behind
  is of the key it was made with (`OfOneKey`).
* *The card session.* `NfcInv` relates the session to `opened`, an answer to its request
  and its authenticator to the key that is held; the bounds are lemmas about
  `Process`, stated for every request. `AnswersAlwaysFit` and `ToldIsProved` assume
  `Capacity >= 2`, room for a status word (the code's buffer has 67 bytes).
* *The key card app.* `CardInv` is the conjunction of `NfcInv` and of one part for each
  concern: when a listener or a callback may exist (`Listening`), what then belongs
  together (`OneIdentity`), what the dialog leaves behind (`Dialog`), whose events are
  in the queue and in the counters (`Counted`), when the screen may promise a card
  (`Status`), and in which order custom events can wait (`Order`). None of the parts is
  inductive alone: that a late event cannot turn an error into "Ready" rests on the
  queue being cleared after the join, which rests on no callback outliving a listener.
  `KeepsToTheHolder` discharges the assumption under which `CryptoIsAHolder` is proved.
  What the applet keeps in a session of one identity it keeps in the app, where resets
  come between (`AppKeepsSessions`, `AuthenticatesAsOneself`).

Everything under fairness (`SelfHeals`, `RebootRestores`, `EveryRunReports`,
`StopReturns`) stays model-checked, because fairness is stated with ENABLED, which is
out of the prover's reach. The part of these arguments that is safety is proved, as
measures that every step of a thread lowers and nothing else raises meanwhile:

| theorem | measure | of |
|---|---|---|
| `EveryBootEnds` | at most 16 calls to the event loop, whichever fail | load, save and delete |
| `BootStaysOnCourse` | without faults, a boot goes nowhere but to serving what is stored | `RebootRestores` |
| `RunComesToItsEnd` | NFC calls and loop heads still ahead: one pass, no retry | `mfc_ndef_format_run` |
| `EveryStepCounts` | the worker's steps and the events in the queue | `EveryRunReports` |
| `JoinComesToItsEnd` | at most 6 steps of the callback in flight and the join | `StopReturns` |
| `AuthenticateEnds` | at most 8 stages, cleanup and return included | `tesla_crypto_authenticate` |

What is left to fairness is that an enabled step is taken. `SelfHeals` has no such part:
it also needs an owner who resets a card that is out of service.

## External parts

Modelled from how the code uses them, with the weakest behaviour that use allows:

* *Storage.* A rename unlinks the destination, copies, and drops the source, and may
  stop after any of these. A write that was not synced may leave the record or
  garbage. Reads and removes may fail. Files do not rot by themselves.
* *NFC listener.* One callback at a time; stopping joins the callback in flight and no
  new one begins. Allocation may fail.
* *NFC poller.* Each call activates the card on the field; it may fail before or after
  the card has acted, or while it does.
* *MIFARE Classic.* Data sheet access conditions; a genuine card refuses a readable
  key B, some clones do not. A write that is cut short leaves a data block with
  anything, and a trailer with each of its parts old or new, or with access bits that
  block the sector.
* *mbedTLS.* Any call may fail, having written part of its result. Freeing a point, a
  number or a cipher clears it.
* *View dispatcher.* Custom events are handled in the order they were sent, and a send
  waits while the queue is full. TeslaKeyCard lets inputs and custom events reach the
  GUI thread in any order. NdefApp assumes that waiting custom events get their turn
  before a second input: with no such order a second press of OK on a result screen
  could queue a BackToMenu that is handled after a new format has begun.

## Not modelled, and why

Drawing, texts and notifications (no state that matters later); ECDH, SHA-1, AES,
MACs and the enclave's ciphers (mathematics of libraries; a record is whole or
damaged, a computation succeeds or fails, a result is known by the key it was made
with); the time shown for a computation, whose wrap needs more than a minute; a full
event queue dropping the newest event, which the code declares best-effort; the linker
shim `mbedtls_ct_memcpy_if`, a copy under a mask; the host tests and the CI workflow.

## Plan

Modelled, checked and proved: identity storage, format run and layout, format app,
crypto context, card session and APDU, key card app. What could still be added:

1. The file-level TeslaIdentity and the thread-level TeslaKeyCard in one composition; at
   present the second reduces load, save and delete to their outcomes (`Prepares`,
   `PrepareFails`, `DeleteFails`).
2. NdefFormat under NdefApp's threads in one model. Both implement FormatRun today,
   which is what each of them needs of the other.
3. What FormatRun promises by itself, proved of the abstract run as `VaultIsEnough` does
   for the vault, and the same for KeyHolder.
