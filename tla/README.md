# TLA+ models of the Claude Buddy firmware

Specifications of the firmware in `src/app/src`: a desk gadget that talks to Claude
Desktop over BLE (newline-delimited JSON over the Nordic UART service), shows the
permission prompts of Claude, sends the user's decisions back, receives animated
characters, and keeps a small pet alive with the tokens that are spent.

Each module names the source file it was translated from. The modules are checked by TLC
on small instances and the most important statements about them are proved with TLAPS for
every value of their constants.

Contents: [the system](#the-system) · [modules](#modules) · [runs](#runs) ·
[disagreements](#where-the-code-and-its-documents-disagree) · [proofs](#proofs) ·
[what is only model-checked](#what-is-only-model-checked) ·
[what is not modelled](#what-is-not-modelled) · [plan](#plan)

## The system

### Threads

| Thread | Runs | Enters the core through |
| --- | --- | --- |
| BLE host | GATT write callback, link events | `buddy_app_on_ble_rx`, `buddy_app_on_ble_passkey` |
| main loop (UI) | `buddy_app_tick`, `buddy_ui_run_once` | model copy, decisions, species, settings, factory reset |
| shell | `buddy_perm`, `buddy_pair`, `buddy_unpair` | decisions, unpairing |
| interrupt / key driver | `buddy_ui_post_action` | one word of pending bits, with interrupts off |

There is no lock around the core (`BuddyApp`, `BuddyProtocol`) nor around the transport.
The only mutex is the one of `buddy_prefs.c`, and it covers one write of the flash.
`buddy_ble_nus_send` sleeps between notifications, so every command that answers and every
decision that is sent is a point at which another thread runs.

### Inventory

| Component | State | Operations | What makes it correct |
| --- | --- | --- | --- |
| `core/JsonLineAssembler` | line buffer, `discarding_`, two counters | `feed`, `reset` | newline framing: no byte lost, no overrun, an overlong line costs only itself, writes may cut anywhere |
| `core/BuddyProtocol`, prompts | `snapshot_` prompt part, `permission_sent_` | snapshot, clear, `emit_permission`, factory reset | one decision per prompt and thread; the blocking flag belongs to the prompt of now |
| `ui/buddy_ui_390x450.c`, approval | copy of the model, pending buttons, `s_prompt_id`, `s_prompt_decision` | refresh, button, draw | says "approved" only for what went out, and for the prompt it went out for; shows the prompt that stays |
| `core/BuddyProtocol`, transfer | `character_transfer_` counters | `char_begin`, `file`, `chunk`, `file_end`, `char_end`, abort | unsigned accounting never wraps; an acknowledged package is whole |
| `storage/buddy_character_store.c` | `.incoming`, `active`, `.previous`, name file, open file | hooks of the transfer, commit, deletions, init | the active directory never mixes packages; a failed package costs nothing but in two named cases; a deletion deletes |
| `transport/ble_nus_sifli.c` | `g_nus`: connection, MTU, CCCD | send, link events | the bytes of a line stay in order; the caller learns the truth; send returns |
| `core/BuddyProtocol`, pet | `pet_stats_`, `last_bridge_tokens_` | token totals, approvals, denials, load, reset, mood | no token counted twice; level follows tokens and survives; ring and median are of the latest answers |
| `storage/buddy_prefs.c` and its callers | keys on flash, values in RAM | change, save, load, clear, factory reset | what was saved is what a restart loads; a reset forgets |
| `storage/buddy_character_runtime.c` | cached manifest, `s_invalidated` | load, path, invalidate | a cache that nothing has invalidated is that of the active directory |
| `core/BuddyApp`, pairing | passkey, its time, its flag | passkey callback, tick, reset | a passkey comes up, stays for 120 s and goes, whatever runs beside it |
| `ui/buddy_ui_390x450.c`, pages | screen, view, hidden pages, running slides, armed reset | keys, touches, redraw, ends of animations | after the slides only the page on view is there |
| home page: persona, species, GIF | species, last snapshot, uptime | species command, pet key, snapshot, tick | the key reaches every pet; awake while a desktop is heard |
| `ascii/` | tables of eighteen characters | render | every pose exists and fits the canvas |
| manifest, path and base64 checks, twice | none | pure functions | decoded is what was encoded; what is acknowledged can be shown |
| platform, drivers, simulator | registers, pixels | I/O | not modelled |

Interactions: transport → assembler → protocol by call on the host thread; protocol →
transport, store and preferences through hook tables; UI → protocol by direct calls; UI ←
protocol by copying the model without a lock.

Behaviours that are hard: decisions racing snapshots and each other; buttons handled after
the prompt on the screen has changed; sends that interleave, break off or cross a
reconnection; commits and deletions cut by a failing call or a power loss; values copied
before the mutex that protects their write; a factory reset beside a save, a commit or the
loading of the cache; pages switched while they slide; clocks that wrap; two validators that
must agree; counters, sizes and ring indices at their limits. `PROJECT.json` lists them one by
one under `hazards`.

## Modules

A definition marked `FAULT` in a module is **not** part of its specification. It is a
plausible bug of the definition that follows it, kept so that each property can be seen to
notice one: `PROJECT.json` pairs every property with such a definition under `mutants`.
Variables marked `history` record what happened; no guard reads them except to bound a
behaviour.

| Module | Source | What it is |
| --- | --- | --- |
| `LineFraming` | promise of the receive path | abstract: cut at LF, drop what is too long |
| `JsonLineAssembler` | `JsonLineAssembler.cpp`, RX callback | detailed: one byte per step, writes that cut lines, reconnections the assembler is not told of; implements `LineFraming` |
| `PermissionFlow` | `BuddyProtocol.cpp` 169-187, 397-468, 1141-1167 | prompts, and any number of threads that check, send, remember |
| `PermissionUi` | `buddy_ui_390x450.c` refresh | the UI loop with its two buttons, composed with `PermissionFlow`, of which it is one thread |
| `PermissionPress` | the same, and the user | `PermissionUi` with a history of what was on the screen at each press |
| `CharacterFiles` | shared constants | files of a package |
| `CharacterTransfer` | `BuddyProtocol.cpp` 530-754, 1398-1420 | every transfer command with every refusal, over `uint32_t` of a small width |
| `CharacterStore` | `buddy_character_store.c` | operators: what a hook, or a step of one, does to the directories |
| `CharacterInstall` | both | transfer and store together: commit and deletions one call at a time, failing calls, power losses; implements `CharacterSlot` |
| `CharacterSlot` | promise of the store | abstract: one slot, replaced as a whole and emptied by an ordered deletion; the two ways to lose what it holds are actions of their own |
| `NusTx` | `ble_nus_sifli.c` 167-241, 390-538 | sends of several threads, one notification per step, and link events |
| `PackageFormat` | `BuddyProtocol.cpp` 848-1022, `buddy_character_runtime.c` | functions: base64, names, manifests, by the protocol and by the display |
| `CharacterCommands` | transfer commands with their contents | `CharacterTransfer` with texts, names and a manifest |
| `CharacterDisplay` | `buddy_character_runtime.c`, GIF and reset of the UI | the UI thread beside `CharacterInstall`: load in several calls, reset file by file |
| `BuddyScreens` | `buddy_ui_390x450.c`: pages, keys, settings | a turn of the loop per step, LVGL's animations between turns |
| `PairingPasskey` | `BuddyApp.cpp`, link events, `main.c` | passkey callback, tick and copy, cut at every shared access |
| `AsciiBuddies` | `ascii/` | the tables of the characters and the renderer's arithmetic |
| `BuddyHome` | species, persona, choice of the pet | what the home page shows, on a clock that wraps |
| `PetStats` | `BuddyProtocol.cpp` 775-846, 1202-1362 | statistics of the pet, the block on flash, restarts |
| `Preferences` | `buddy_prefs.c` and its callers | two threads that change, copy, write and reset |
| `MC*` | – | values of the constants for TLC |
| `*Proofs` | – | theorems and their proofs |

Correspondence, where it is not one action per function:

* **`emit_permission`** is four actions: `Begin` (the check of the prompt and of
  `permission_sent_`), `Copy` (the id goes into the JSON text), `SendCompletes` or
  `SendFails` (the send sleeps), `Finish` (`permission_sent_` and the statistics). A snapshot
  may come between any two, so the id that is sent may be that of a later prompt than the
  one that was checked, or the empty one. `handle_snapshot` is one step: it does not sleep between its accesses.
* **`buddy_ui_refresh`** is a loop of `ReadFlag`, `ReadId` (the two halves of the copied
  model, between which a snapshot may come), `TakeActions`, `UiBegin`, `UiCopy` … `UiFinish`
  per button, `ReadAgain`, and `Draw` or `SkipDraw` (the 250 ms throttle).
* **`buddy_character_store_commit`** and the deletions are one action per file call, named
  by the variable `step`; the other handlers of the transfer are one action with all their
  file calls, since a power loss inside them leaves only the staging area different, and
  the next `char_begin` makes that anew.
* **`buddy_ble_nus_send`** is `SendBegins`, then `Accepts` or `Refuses` per notification,
  then `GivesUp` or `SendReturns`. The stack may refuse at any time.
* **A save** in `Preferences` is `Change` (RAM), `Copy` (the argument is made), `Write`
  (under the mutex); a reset is `ResetBegins`, `Clear` (under the mutex), `Forget` (RAM).
  A value is the set of changes it contains, so "an old value came back" can be said.
* **The cache** of `CharacterDisplay` is loaded in `LoadBegins` (the flag goes down),
  `ReadsManifest`, `ChecksFile` per file and `LoadEnds`; the reset of the settings page
  closes the file, lists the tree and removes it entry by entry and file by file, while the
  host thread is in any of its own steps. Host calls that find their directory or descriptor
  gone are actions of their own (`OpensNothing`, `ChunkIsLost`, `ClosesNothing`,
  `CommitFindsNothing`, `CommitEndsReset`, `CommitFailedReset`). The name in the
  manifest is read for the log only, so it is left out. Which file of the manifest is drawn
  is left open there and chosen in `PackageFormat`.
* **A turn of `buddy_ui_refresh`** is one step of `BuddyScreens` (`TakesKeys` or
  `Redraws`): what can happen inside it, between its two reads of the model, is an input
  (`prompt`, `after`). LVGL runs on the same thread between turns, so its touches and ends of
  animations are steps of their own.
* **`on_ble_passkey`** is three stores in program order, each a step; `tick` is cut at the
  flag, the link's status and the time; the copy for the screen at the flag and the
  passkey; `BuddyApp::factory_reset` at its three stores. A passkey is stored modulo
  `PasskeyRange`, as the code keeps six digits, and may be 0. Time is counted in units of a
  minute in `PairingPasskey` and of 15 s in `BuddyHome`.
* **Formats** are functions: a name is its length and the classes of its characters, a
  manifest a function from the states to what was found for them, a text of a chunk a
  sequence of base64 values. The bits that an encoder leaves under the padding of the last
  block are a parameter (`fill`), since the decoder takes any. The sanitized name of `char_begin` is left out: the store
  ignores it and it is never empty.
* **`AsciiBuddies`** keeps of a character the order of its poses, the offset and shake of each
  beat, and the widest line of its drawings. A pose is an entry of the array `P` of its
  animation, not a drawing: the sleep of Cat and of Chonk and the attention of Blob have one
  drawing in two entries, and the drawings `DREAM` of Cat and `DROOL` of Chonk are declared
  in the source and never shown. That every frame is inside the canvas depends on no state,
  so it is no property of a run: `MCBuddyHome` has it as the assumption `FramesAreWhole`,
  which TLC evaluates for every character, state and tick of a cycle, and `EveryFrameIsWhole`
  proves it.
* **`PetStats`** takes a handler with its save as one step; what threads do to each other's
  saves is the subject of `Preferences`.

Assumptions about the platform, each a property of the SDK that `src/` relies on: the RX
callback and the link events run on one thread; one link at a time; an aligned word is
read and written whole; the two threads that count into `pet_stats_` are not preempted
inside an increment; a rename of the file system happens or does not; `share_prefs` writes
a key as a whole.

## Runs

On two workers the longest runs, `permission` (1 million distinct states, with liveness),
`character_display` and `character_install`, take two minutes or so and the others a minute
or less.

| Run | Instance | Shows |
| --- | --- | --- |
| `assembler` | lines of 2 bytes, writes of up to 3, 7 bytes | framing is implemented; a connection is itself again after one LF |
| `permission` | 2 prompts, UI and shell, 2 changes of the prompt, statistics that count to 0 | one decision per thread and prompt, the flag is that of the prompt, the screen claims only what was sent and only under the prompt it was sent for; the last prompt is shown for good |
| `character_commands` | counters of 6 values, chunks of up to 3, five names, manifests of every shape | no wrap-around; what is acknowledged is whole, what is written was sent, whatever bits the padding hides, what is activated can be shown |
| `character_install` | 2 packages, 2 failing calls, 1 power loss | the active directory is one package; deletions delete; the slot is implemented, with no loss but the two it names |
| `character_display` | 2 packages of one byte, 1 reset by the UI, no failing call or power loss | the cache is of the active directory; a reset leaves no directory, and no name but that of a commit it has overtaken |
| `nus_tx` | 2 threads, lines of 3, 2 connections, 2 MTUs, 2 tries | order of bytes, truth of the result, every send returns |
| `screens` | 3 animations at a time | the pages settle |
| `pairing_passkey` | 2 passkeys, 0 and one too long for its digits, clock of 8 values, up for 2 | a passkey comes up, stays up, goes |
| `home` | 18 characters and the GIF, clock of 6 values, stale after 2 | every pet is reached, and awake when heard; every frame fits the canvas (assumption) |
| `pet_stats` | 2 tokens per level, level ≤ 1, tokens ≤ 4, counts ≤ 3, ring of 3 | level, tokens, ring, median and mood |
| `preferences` | 3 changes, 1 failing call, any number of power losses | saved is saved; a reset that was not overlapped forgets |
| `permission_press` | 2 prompts, UI only | a violation, see below |

**Why the bounds are enough.** The lines of `assembler` pass the limit by one byte with,
before and after a CR, and 7 bytes hold an overlong line, its LF, a reconnection and a line
after it. Two prompts and two changes are what it takes for a prompt to be replaced, and to
come back, under a decision; no guard reads the statistics, so `permission` leaves their
counting to `pet_stats`. In `character_commands` a counter of six values has
room for sizes around the limit on both sides, and the proof covers every width; a chunk
of 0 to 4 bytes ends in every padding, the names lie below, at and beyond the limit of their
length, and the lists of a manifest are empty, mixed and one longer than the four
files that are kept. Two faults and one power loss in `character_install` meet every step of
a commit and of a deletion: a renaming and the one back may both fail, with power lost
before, between or after. In `character_display` one
reset falls between any two file calls of a transfer, a commit, a deletion or a load; faults
are the subject of `character_install` and excepted by the property anyway. Lines of three
bytes in notifications of one or two have a first, a middle and a short last notification.
A slide takes two animations, so three let a second slide begin while the first runs; the
proof covers any number. The clocks of `pairing_passkey` and `home` wrap after a few times
the interval that is compared, so every distance from the wrap occurs. In `pet_stats` every
counter reaches its limit, the ring wraps, and totals fall below and rise above the last
one. `preferences` has a change before, during and after a reset.

**State-space reductions.** `character_install` and `character_display` use symmetry of the
two packages (no liveness there) and views that forget what no guard and no property
reads: acknowledgements, the GIF on the screen, the remains of a load that failed. No run
with a liveness property uses symmetry.

**Deadlock** is checked everywhere.

**Fairness.** `FairUiSpec`: the main loop never stops (`WF` on its step: every send it
makes ends, each notification being tried twenty times at most with timed sleeps), and
250 ms pass again and again, so the throttle does not skip every redraw (`SF` on `Draw`:
a redraw is possible in every turn but enabled only at its end). No fairness is assumed of
the desktop, the buttons, the shell or the link. `FairSpec` of `NusTx`: a thread inside
`buddy_ble_nus_send` goes on, since its sleeps are timed; the stack may refuse for ever.
`FairSpec` of `PairingPasskey`: the main loop goes on, and a passkey callback that has begun
runs to its end; the stack need not ask for a passkey, nor the link come up.

## Where the code and its documents disagree

`permission_press` is a violation run, listed with its quotation under `findings`: a button
decides the prompt that is current when it is handled, not the one that was on the screen as
it was pressed. The screen shows p1, a snapshot replaces it by p2, and the button that was
pressed with p1 before the user's eyes sends a decision with the id of p2: only the flag is
compared, never the id.

Five more statements of the documents are written in the modules, each with its quotation or
its reason, and are violated by the code. They are not part of the runs. To see a
counterexample, put the property in place of those of the configuration with the constants
of the last column.

| Statement | What happens | Configuration |
| --- | --- | --- |
| `PermissionFlow!FlagMeansAnswered` | the write of `permission_sent_` after the send hits the next prompt, which then cannot be answered on the device | `MCPermissionUi.cfg` |
| `CharacterInstall!PreviousStaysIntact` | between the two renames of a commit there is no active character, and after a power loss nothing looks for `.previous`; a rename that fails twice, there and back, does the same | `MCCharacterInstall.cfg`, `MaxFaults = 0` |
| `NusTx!LinesAreWhole` | notifications of two lines interleave; a line that breaks off after twenty refusals spoils the next one in the same way | `MCNusTx.cfg`, `MaxLine = 2`, `MaxConnections = 1`, `TxSpec` |
| `Preferences!ResetForgets` | a save of the UI thread during a `factory_reset` command puts a value from before the reset back on flash | `MCPreferences.cfg`, `MaxChanges = 2`, `MaxFaults = 0` |
| `CharacterDisplay!GifIsCurrent` | a new package has a file with the path of the GIF that is playing, which is then not opened anew | `MCCharacterDisplay.cfg`, `MaxResets = 0`, without symmetry and view |

The properties that do hold say how far the damage goes, and except what the code does not
promise; none of them should be read as excluding these cases:

* `OncePerThread`, `AnsweredBlocks`, `FlagIsFresh`: two threads may both pass the check before
  either has returned, and then each sends a decision. `FlagIsFresh` holds even when the flag
  of an old decision is raised under a new prompt.
* `DrawnClaimIsForPrompt`: a prompt that goes and comes back between two looks of the UI is
  not seen to have gone, and shows what was decided in between for another one.
* `SlotSpec`: power lost between the two renamings of a commit, and a commit whose second
  renaming and renaming back both fail, lose the old character. `src/docs/protocol.md:151`
  promises that it stays intact. They are the actions `PowerLoss` and `CannotRestore` of
  `CharacterSlot`; what holds is that there is no third way. `ActiveIsPackage` says nothing
  when there is no active directory.
* `NameIsOfActive`: with a failing call or a power loss the name may be that of the old
  character.
* `ResetLeavesNothing`: a commit that was under way as the reset of the settings page looked
  for what was left writes its name file after the acknowledgement
  (`buddy_character_store.c:453`). The history `overtaken` is that commit's package; any other
  name, and any directory, is excluded.
* `CacheIsOfActive`: file calls that failed. A reset or a deletion that failed half-way, and
  a commit that has put the old directory back, do not invalidate the cache, whatever a load
  has read in between.
* `UndisturbedLinesAreWhole`: overlapping sends, lines that break off after twenty refusals,
  and lines carried over to a new connection; the last ones are even reported as sent.
* `SettledSurvives`, `QuietResetForgets`: operations that failed or were overlapped by one of
  the other thread.
* `PasskeyGoesAway`: a passkey asked for in the last two minutes before the millisecond counter
  wraps. `PasskeyStaysUp` and `PasskeyComesUp`: a passkey asked for while an older one is up,
  as in a pairing that is tried again, or during a reset. When `tick` has found the older one
  expired and the flag is stored again before `tick` clears it, the new one is taken down
  with it.
* `PetIsAwakeWhenHeard`: a snapshot at the uptime 0, which counts as none, and a pet that is
  awake although its last snapshot is a whole turn of the counter old.

## Proofs

| Module | Theorems | Argument |
| --- | --- | --- |
| `LineProofs`, of `JsonLineAssembler` | `TypeCorrect`, `AssemblingHolds`, `ImplementsFraming`, `Resync`, `DropsOwn` | The buffer is the piece since the last LF unless that is too long. `SessionOwnsBuffer` adds that after one LF the piece is the connection's own, which `Assembling` cannot tell. |
| `LineProofs`, of `NusTx` | `BytesInOrderHolds`, `SentMeansAcceptedHolds`, `UndisturbedLinesAreWholeHolds`; `SendIsBounded`, `SendComesCloser` | `TxInv`: what the stream has of a sender's line is the part before its offset (`SenderIsAhead`), so the next notification continues it. For whole lines `LineInv` says which thread the unfinished line at the end of the stream belongs to. `OffersLeft` counts the offers a send has left: it falls with each of its steps, a byte that is accepted outweighing the offers it brings back, and nothing else raises it. |
| `PermissionProofs` | `FlowTypeCorrect`, `OncePerThreadHolds`, `AnsweredBlocksHolds`, `FlagIsFreshHolds`; `LoopKeepsTheFlow`, `ClaimIsTrueHolds`, `DrawnClaimHolds`, `UiTypeCorrect`; `LoopComesAround`, `RedrawsCatchUp`, `ScreenCatchesUpHolds` | Epochs of jobs and answers never exceed the present one, and a thread that could begin again in an epoch it has answered in would find the flag down, against `AnsweredBlocks`. Every step of the UI loop is a step of one thread or a stutter, so these invariants hold of the composition. `ClaimIsTrue` says nothing while a button is being handled; the invariant adds what the decision under way will leave. For which prompt it is: `ReadInv` keeps what the loop has read and in which epochs, `MeantInv` that a decision has the id the UI keeps or was begun after that prompt had been replaced, which the next look at the model notices. For liveness `LoopInv` ties the place in the loop to its copies; at most fourteen steps lie between two redraws, and once the prompt stays, a redraw leaves nothing that was read of an older one, and every later one shows the prompt. |
| `CharacterProofs`, of transfer and store | `TransferTypeCorrect`, `AccountingHolds`, `AcknowledgedIsWholeHolds`; `ActiveIsPackageHolds`, `StagedAgreesHolds`, `DeletedIsGoneHolds`, `NameIsOfActiveHolds`; `SlotSpecHolds` | What is left of the open file fits in what is left of the package, so no subtraction wraps; this needs the range of every counter at once. That a command of the installation is one of the transfer follows from the definitions (`InstallImplementsTransfer`, a lemma); at the commit `Whole` and `StagedAgrees` make the staged directory complete, and no later step mixes it. `GoneInv` says what a deletion without a failure has passed already, `NameInv` what the steps between directory and name know of the directory. The slot is implemented step by step for any number of failing calls and power losses: each step of a commit or a deletion is one action of the slot, the abstract loss exactly where the old directory is set aside (`SlotInv`). |
| `CharacterProofs`, of the display | `ResetLeavesNothingHolds`, `ActiveIsPackageWithDisplay`, `CacheIsOfActiveHolds` | `HostInv`: as long as no reset of the UI thread is under way or has failed, what is proved of the host alone holds beside it; once one has come, what was begun before it is nowhere. `NamedInv` says that once everything was removed only the commit that was overtaken still has a name to write. For the cache, `Agrees` says what a load knows of the directory it has read, and `Settling` which steps of a commit or a deletion will still invalidate it. |
| `CharacterCommandsProofs` | `DecodeInvertsEncode`, `DecodeTakesEncodings`, `CommandsAreAccounted`, `WrittenIsWhatWasSentHolds`, `ActivatedCanBeShownHolds` | The arithmetic of one block of base64: three octets and four symbols determine each other, with one and two paddings too; texts are then compared block by block, whatever their number. The decoder takes exactly the well-formed texts, with any bits under the padding. The display's checks follow from those of the protocol state by state, given that its limits are not the narrower ones (`LimitsAssumption`). |
| `PetStatsProofs` | `PetTypeCorrect`, `LevelFollowsTokensHolds`, `LevelIsDurableHolds`, `NeverOvercountsHolds`; `RingHoldsLatestHolds`, `MedianIsUpperMedianHolds`, `DenialNeverCheersHolds` | `LevelInv` (level is that of the tokens) makes the comparison in `update_bridge_tokens` sound; `SpentInv` relates tokens, the last total and the desktop's total, live and on flash. `RingInv` is the ring's, for the block on flash as well: a step writes the slot one back from the next index and moves all others one further back. For the median, `FillInv` adds that a ring that is not full is filled from its first slot; by induction on the rounds of the insertion sort every filled slot has a place of its own in the sorted sequence, and counting injections gives both halves. `NoMoreSaved` says a restart brings no more denials than there are. |
| `PreferencesProofs` | `PrefsTypeCorrect`, `SettledSurvivesHolds`, `QuietResetForgetsHolds` | A job that nothing has overlapped is apart from the other thread's stores, so what it copied is still what RAM holds when it writes; a quiet store holds only numbers from after the reset, in RAM, on flash and in every copy. |
| `PairingPasskeyProofs` | `PasskeyTypeCorrect`, `PasskeyGoesAwayHolds`, `PasskeyStaysUpHolds`; `PasskeyComesUpHolds` | Which of the three stores of the callback have been made, and where `tick` is, bounds the age of the passkey on view; `tick` compares with the time the passkey was asked at, or with the 0 that a reset has stored, which is older still, or leaves it alone (`TimeOK`, `OverdueOK`). This holds of passkeys that follow others too, but such a one may be taken down in place of the older one, so `PasskeyStaysUp` excepts it. It comes up: the three stores are made one after the other whatever `tick` reads between them, and then at most seven steps of the loop lie before the copy. |
| `BuddyUiProofs` | `PagesSettleHolds`; `HomeTypeCorrect`, `PetIsAwakeWhenHeardHolds`, `CycleReachesEveryPetHolds`; `EveryFrameIsWhole` | Only the page on view slides in, and it is doing so as long as another page is visible or it is out of place: its animation's end is what hides the page that left. `AgeIsTrue`: until the counter wraps, the age the device computes is the true one; after one wrap it still is while the snapshot is younger than the time-out, the counter being longer than that. By induction on the presses, each press shows the next pet of the round, in which the GIF comes last. A character is drawn whole: each line of a pose is centred in its overlay by its length, so a bound on the lengths of a pose's lines and its offset is enough, and which poses an animation uses is read off its table, one lemma per character. |

Every invariant was first checked by TLC. The inductive ones are stronger than the
properties because the properties do not mention the jobs under way: a state in which a
thread is about to write a stale copy satisfies the property and steps out of it.

Induction over data is done over sets: the prover cannot instantiate the induction theorems
of its library, which take a predicate, but the set of the numbers for which a statement
holds is a constant like any other. `LeastOfSet` and `SetOfAllNat` derive induction from the
well-foundedness of the naturals; with them a recursive function is shown to exist
(`RoundsExist`, `PressesExist`) and to be what it should be (`RoundsSort`,
`RankAfterPresses`).

Assumptions are the `ASSUME`s of the modules: the empty id is no prompt, the sentinels are
no values, limits are naturals, time-outs are shorter than a turn of the
millisecond counter, the largest level has room in the token counter; bytes are
the 256 octets, a garbled text is not an encoding, and the display's limits of a path and of
a manifest are not below those of the protocol. TLC evaluates each of them in the runs.

**Liveness.** Of the runs' three liveness properties `ScreenCatchesUpHolds` and
`PasskeyComesUpHolds` are proved, for any number of prompts, passkeys and threads: a count
of the steps left falls with each fair step and never rises, and the temporal logic of the
prover does the rest. `ENABLED` is opaque to it, so the theorems have as hypotheses that the
fair steps are enabled where they are needed:
`[](ENABLED <<UiStep>>_vars)` and `[](uiPc = "draw" => ENABLED <<Draw>>_vars)`;
`[](ENABLED <<MainStep>>_vars)` and `[](~HostIsFree => ENABLED <<OnBlePasskey>>_vars)`. They
hold by the guards: at every place in the loop there is a step to take. To have TLC confirm
them, write the state predicates as invariants and add them to `MCPermissionUi.cfg` and
`MCPairingPasskey.cfg`. `LoopComesAround` and `RedrawsCatchUp` need no such hypothesis:
they start from steps that are taken again and again. `PasskeyComesUpHolds` assumes
`0 < DisplayMs`: a passkey whose time is nothing would be taken down before it is copied; the
code has two minutes.

## What is only model-checked

* `EverySendReturns`. Its count, `OffersLeft`, has no bound that is the same for all lines,
  so the proof is an induction on a temporal formula, which the prover cannot instantiate.
  Proved are both parts of it: the count falls and never rises (`SendIsBounded`), and under
  the fairness of its thread a send within n + 1 comes to be within n (`SendComesCloser`, for
  every n, with `[](Sending(t) => ENABLED <<SendStep(t)>>_txVars)` as a hypothesis). The
  induction is left to the reader, and to TLC on the instance.
* The facts about `ENABLED` above.

## What is not modelled

* `status`, `unpair`, `time` and the shell's `buddy_pair`: one step each on fields nothing
  else depends on; the synchronised time is stored and never read.
* `record_nap_end` and the energy: nothing in `src/` calls it.
* Formatting a file system that cannot be mounted at boot; the charger's I2C register;
  boards, display drivers, fonts, the PC simulator, tests, vendored code.
* The drawings of the ASCII characters and the letters that float around them, which the
  renderer clips; the page numbers inside the info and transcript pages; the texts of labels.
* In `Preferences` the four keys of the settings are one key and the shell is left out (it
  only decides, as the UI does). After a `factory_reset` of the desktop the display settings
  stay in RAM until a restart.
* In `PetStats` there is one desktop: two that take turns with different totals are credited
  for the difference, which the code cannot notice.
* A transfer survives a disconnection: the next connection's `char_begin` is refused with
  `transfer_active`. The transfer modules have no link, so this is neither required nor
  excluded. The size of a notification is taken once per line; `NusTx` has it so, and a
  smaller MTU in the middle of a line is one of the stack's refusals.
* Torn reads of strings (ids are values) and the cut of ids at 63 characters.

## Plan

Done, the most important behaviour first: receive path, permission flow and screen, transfer,
store and their composition, transmit path, pet statistics, preferences; then the display's
cache beside the host thread, package formats, pages, passkey, home page and built-in
characters; the abstract specifications `LineFraming` and `CharacterSlot`; and the proofs
above: every property of the passing runs but `EverySendReturns` is a theorem.

What is left, in this order:

1. `character_display` with a failing call, once the state space is smaller: the reset that
   fails half-way and leaves the cache. `ResetLeavesNothingHolds` and
   `ActiveIsPackageWithDisplay` cover failing calls already.
2. A link for the transfer, so that a disconnection meets a package half received.
3. `status` beside the changes it reports.
