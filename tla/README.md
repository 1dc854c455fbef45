# CrossRSVP: a verification project

CrossRSVP is firmware for ESP32 e-readers, a fork of CrossPoint Reader that adds
RSVP reading: the words of an EPUB are shown one group at a time at a fixed point
of the display. This directory holds TLA+ models of its RSVP core, of the activity
manager under it, of where a book goes on and of the firmware update, TLC
configurations that check them, and TLAPS proofs about them.

    tlc -config RsvpSession.cfg RsvpSessionMC.tla
    tlapm RsvpReaderProofs.tla

`PROJECT.json` lists components, runs, mutants, the source lines behind each
definition, findings, hazards and theorems.

## 1. The system

| component | state | operations | interacts with | what is hard |
|---|---|---|---|---|
| RSVP session (`lib/Rsvp/RsvpSession`) | state, four-slot event buffer, six replay descriptors, pending frame, durable anchor, checkpoint flags, deadline | `step(action)`, `configureWhilePaused`, `restoreAfterCheckpoint` | pulls events from a source, is stepped by both tasks of the activity, measures through a callback | displayed group and read-ahead share one buffer; replay and recording share one cursor; checkpoints owed across a pending frame |
| Presentation grouping (inside the session) | none (pure) | resolve a group from four events | fit callback of the renderer | chains of prefixes and postfixes at capacity |
| RSVP reader activity (`activities/reader/RsvpReaderActivity`) | `currentDecision`, action queue, failure latch, fatal and mode-switch flags, touch flags | `loop`, `renderBook`, `onSystemModalOpening`, `applySettings`, `onExit` | ActivityManager, session, checkpoint file, display | two tasks, one lock, atomics outside it, display failures |
| Activity manager (`activities/ActivityManager`) | current activity, stack, pending action and activity, result handlers, requested update, render notification, waiter slot | passes of `loop`, push, pop, replace, `goToSleep`, `requestUpdate`, `requestUpdateAndWait`, `RenderLock` | every activity | deferred transitions that replace each other, passes that return early, collapsing notifications, objects drawn by another task |
| Checkpoint file (`activities/reader/RsvpCheckpointFile`) | file, `.tmp`, `.bak` | `load`, `save`, `invalidate` | activity, Paged reader, SD card | crash between storage calls, failing calls |
| Mode switch and resume (`RsvpModeSwitch`, `EpubReaderActivity`, `RsvpReaderActivity`, `KOReaderSyncActivity`) | launch context, resume intent, pending invalidation, pending switch; on the card the checkpoint and `progress.bin` | open, navigate, switch, save, finish, sync | both readers, render task, checkpoint file | two records written one after the other, invalidation that fails, a Section that is made before it is placed |
| Visible content stream | parser position, anchor counters | `open(anchor)`, `next` | session | anchors across reopening |
| Firmware update (`network/FirmwareFlasher`, `OtaUpdater`, `OtaBootSwitch`) | two partitions, two otadata entries | check, flash, `switchTo`, restart | bootloader | loss of power between flash operations, a card that is exchanged |
| everything else | | | | parsing, layout, drawing, HTTP, settings: data transformation and I/O, mostly upstream |

How a word is read: `loop()` (main task) polls input into the queue, takes the
RenderLock without waiting, pops one action and calls `session->step`. The decision
becomes `currentDecision`; a frame in it requests an update. ActivityManager notifies
the render task, which takes the lock, draws, refreshes the display for some hundred
milliseconds, and steps the session with `FramePresented`. Only that moves the durable
anchor and starts the deadline of the next group. Checkpoint requests are answered by
the main task with `RsvpCheckpointFile::save`.

What makes each part correct:

- session: no word is skipped or shown out of order except by the reader's request;
  the durable anchor is never ahead of what was shown; owed checkpoints are kept;
- activity: both tasks agree on the frame; a pending frame is never forgotten; failures
  and fatal errors end;
- checkpoint file: a register that survives loss of power;
- lifecycle: a reader opens where its user was, or at the page chosen since; neither
  record is ahead of what was shown; a finished or rejected record is dropped;
- activity manager: every activity entered is exited, a result goes to the handler of
  its child (with the exception of section 3), no update and no waiter is forgotten, nothing is destroyed while it is drawn;
- firmware update: the device starts a whole image at every moment.

## 2. Modules

| module | models | kind |
|---|---|---|
| `RsvpGrouping` | group resolver, as operators over four events | pure |
| `RsvpSession` | one action per action of `step`, and `configureWhilePaused` | state machine |
| `ReadingOrder` | what a reader is promised of the order of words | abstract specification |
| `RsvpControl` | the session as the activity sees it: state, pause reason, pending | interface |
| `RsvpReader` | main task, render task, manager, lock, display latch | composition over `RsvpControl` |
| `CheckpointFile` | one action per storage call, failures, loss of power | state machine |
| `CheckpointRegister` | a durable register with a weak clear | abstract specification |
| `ActivityManager` | passes of the main task, calls of an activity, transitions, render task | state machine |
| `ResumeLifecycle` | Paged, RSVP and sync with their launch context and the two records | composition over a register |
| `FirmwareUpdate` | an update from check to restart, bootloader | state machine |
| `*Props` | invariants, action properties, liveness, refinement mappings | |
| `*MC` | instances for TLC | |
| `RsvpGroupingLemmas` | what the operators of the resolver return, for the proofs of grouping and session | lemmas |
| `*Proofs` | theorems | |

**RsvpSession.** A book is a sequence of events and an anchor is a position in it.
`events`, `cursor`, `consumed` are the code's buffer, source cursor and `consumedCount`;
`history` and `historyCursor` the replay descriptors (1-based, 0 for none).
`bufferThrough`, `findNextWord`, `prepareGroup` and `emitNextWord` are the operators
`Fill`, `Drain`, `PrepareGroup`, `EmitNext`. Time is abstracted to the two comparisons
of the code: 30 s since the last periodic request (`elapsed`, only while playing), and
the deadline (`Tick` may happen whenever the session plays and nothing is pending;
`Idle` is the tick before it). What the text of a word does is in fields of its event:
companion role, length class, boundaries, whether it can be prepared. The fit callback
is a choice among the ranges that contain the active word.

**RsvpReader.** A critical section of the main task is one action, enabled while the
render task does not hold the lock; the render task holds it from drawing to
acknowledgement, in several actions, because flags are stored outside the lock there
and the main task goes on polling. `main` and `task` are program counters. The session
answers with `Responses(session, action)` of `RsvpControl`, and `RsvpSession` is
checked to implement that interface: `ImplementsControl` says for each action that a step
given that action, taken or ignored, is one of the responses to that action, and that nothing
visible happens without one. So nothing is assumed about the session. `fits` says whether the
renderer can draw the frame. Modelled is the production build with checked display updates; the
diagnostic branches (`#if`) are left out.
`refusalLost` is a history variable: the log line of a full queue.

**CheckpointFile.** Each of the three files is absent, a valid checkpoint of this
book, or unusable (torn, corrupt, of another revision). Removing, renaming, opening and
writing may fail at each call; power may be lost between any two. `Faults` names three
more faults that the code does not survive, so that the runs can have them on and off.
A rename is atomic and fails if its target exists (the SD library, not in this repository).

**ActivityManager.** `pc` is where the main task is: between passes (`idle`), in a
callback of the current activity (`call`, and `within` says which), blocked in
`requestUpdateAndWait`, carrying out transitions (`process`), or between the last
activity popped and Home (`home`). `rpc` is the same for the render task: it waits, has
taken its notification, draws with the lock held, or has released it and still has to
look at the waiter slot. An activity is an identity; a callback may ask for updates and
transitions, at most `MaxCalls` of them. `handler[a]` is the child whose result the
`resultHandler` of `a` waits for. A transition is one action, under the lock. `dirty`
is a history variable: the current activity has content that no drawing has begun with.
`Checked` holds the activities with a display recovery (of this code, the RSVP reader); `failed` and
`recovering` are its two flags. While its display has failed, a drawing draws nothing
(`DrawNothing`), passes return early, and `loop()` asks at most once for a recovery
(`RequestRecovery`), when the controller is ready; only a drawing that was asked for so clears the
failure, and one that fails again takes the request back. A callback may end without asking.
A gesture or a suppressed release ends a pass without processing what is pending, as the
returns at lines 83 to 132 do. Notifications of a task are a flag, because
`ulTaskNotifyTake(pdTRUE)` takes all of them. `RsvpReader` keeps its own, smaller manager
with the details that only the RSVP reader meets.

**ResumeLifecycle.** One chapter of words; a page is `PageSize` words. `checkpoint`,
`backup` and `progress` are what the two records on the card mean to a load: a word,
nothing, `Rejected` (corrupt or of another revision) or `Moved` (it loads, but its word
is no longer where it was). The actions of `RsvpCheckpointFile` have the atomic effect that
`CheckpointRegister` allows, each may fail, and a failed invalidation may leave or bring
back a checkpoint. `launch` is the `ReaderLaunchContext` the reader was opened with;
`page`, `section`, `pagedResumeIntent`, `rsvpCheckpointInvalidationPending`,
`rsvpSwitchPending` are the Paged reader's fields; `frame` is the word the session has
requested and `word` the last one acknowledged (`currentAnchor`). `RenderPage` and
`PlaceSection` belong to the render task. `loadBook` is an operator with the records
that result from the step before (`PagedLoads`, `RsvpLoads`), as the transition runs in one pass
of the manager. `due`, `uncertain`, `reached`, `detours` and `done` are history variables
that say where the reader expects to go on; the actions never read them. `uncertain` is set by a
storage call that fails and by loss of power, and by nothing else; `remote` is the page of a remote
position that was applied over a checkpoint. `detours` counts in one launch: a book that is
closed, or left for a sync, starts again.

**FirmwareUpdate.** A partition holds a whole image or part of one; an otadata entry has
a sequence number and a state. `switchTo` is two actions, the erasure and the write of
its sector, and `Restart` may come between any two steps. The bootloader
is modelled from its documented use: the valid entry with the highest number, the other
partition if that image does not verify, and a new image that does not come up is aborted.
From the card, an image is verified before it is flashed, and the file is opened again
afterwards; over the network the image is verified after it was written, and
`esp_ota_set_boot_partition()`, external, is taken to replace an entry as `switchTo` does. The comment in
`OtaBootSwitch.h:10` says that both paths bypass the runtime check; `OtaUpdater.cpp:229-235` no
longer does.

## 3. Runs

Passing:

- `rsvp_session`: eleven properties. `ImplementsReadingOrder` is the refinement:
  a group shown is the next words of the book, a replay or the successor of a rewind,
  and the committed position is the last word of the group that is shown.
  `DurablePositionOmitsNothing`: every word up to the durable anchor has been shown and
  acknowledged. `PlaybackStopsAtElements`, `RestIsSaved` (a pause, a chapter pause, an
  exit asks for a checkpoint), `OwedCheckpointHeld`, `HistoryIsGapFree`.
  *Bounds:* four books of 10 to 13 events, started at any word, with the real history of
  six groups and buffer of four. They contain every kind of event, all companion roles,
  a fourth-word postfix, words that cannot be prepared, and more groups than the history
  holds. About 495,000 states, no bound in the guards.
- `rsvp_grouping`: all texts of five words over a vocabulary of roles, lengths and
  boundaries, the renderer roomy or tight. The expected frames are stated
  declaratively (what a word claims before and after it), not by the code's loops.
  `VocabularyAssumption` says what the proofs use of the vocabulary: a postfix is short, since
  the words that the code takes for one (`RsvpCompanionPolicy.cpp:115-134`) have at most two
  letters. The run's vocabulary satisfies it, and TLC evaluates it.
- `rsvp_reader`: five properties under two tasks. *Bounds:* a queue of 2 (the code has
  16; a full queue is reached at once, and the proof of `PendingFrameIsDrawn` is for any
  capacity), the buttons and controls that differ in what the activity does with them
  (Exit, Toggle, Settings), touch on, one failing display update. Two frame ids suffice:
  an id is only compared with the current one. 1.26 million states.
- `checkpoint_file`: three checkpoints, so that old, previous and new differ; 8,083 states.

- `activity_manager`: eight properties. `EnteredAreHeld` follows the objects through
  transitions that displace each other. `ResultsReachTheirLauncher`: a result handler gets its own
  child's result. It excepts one case, which the model has: the RSVP reader starts its settings in a
  pass that began while its display had failed, the pass returns early, and in the next one the
  light panel displaces the child (`ActivityManager.cpp:335`, "should never happen in practice").
  The handler then gets the panel's result, and is called although no settings were open; it
  does not look at the result (`RsvpReaderActivity.cpp:523`). `UpdateIsOnItsWay` and
  `ScreenCatchesUp` say that no early return, transition or collapsed notification loses an
  update; the latter leaves out a display that has failed, whose recovery `rsvp_reader`
  is about (`FrameSettles`; and there are screens that stay stale, `reader_recovery` and
  `SwitchHeldBack`); `WaiterIsServed` that a task that blocks is released; `SleepScreenIsEntered` holds
  unless the pass of `goToSleep` is `displaced`, by a gesture, an early return or the
  activity's own transition request: then the code does sleep on another screen.
  *Bounds:* seven objects of every kind that the manager treats differently (two homes, a
  screen that can fail to draw, an ordinary one, an exclusive one, a panel, the sleep screen),
  which gives stacks of up to three and a free object for each; one repeated call per callback.
  221,131 states. The proofs are for any number of each.
- `resume`: nine properties. `EntryFollowsTheReader`: with no storage failure and no loss of
  power since the last save, RSVP goes on at the word it showed last, or at the page chosen since,
  through any detour and any sync; `ChosenPageWins` is the part of it that holds whatever failed.
  A remote position that is applied while there is a checkpoint does not count as chosen, because
  the code goes on at the checkpoint; that this is not what the guide says is the finding of
  `resume_sync`. `StoresAgree`: native progress is on the page of the checkpoint, or on that of a
  remote position applied over it, which `KOReaderSyncActivity.cpp:85` writes to native
  progress alone. `NothingUnseenIsStored`, `FinishedIsNotOffered`, `DetourIsNotRepeated`; and as liveness,
  `SwitchHappens` and `FinishedIsFinalized`. *Bounds:* five words on three pages, so that
  there is a page before, a page after, a word that starts no page and an incomplete last page.
  351,773 states; nothing is bounded in the guards.
- `firmware_update`: three properties over up to eight sequence numbers, about four
  updates after another, which is more than the two entries hold; 7,984 states. The code's
  bound is 2^32 - 2; the proof is for any.

Expected violations, each a finding in `PROJECT.json` with the text it contradicts:

| run | what happens |
|---|---|
| `reader_refused` | a poll during the refresh clears the renderer's flag and the refused word is acknowledged |
| `reader_recovery` | a recovery scheduled between two stores of the renderer is lost; the reader freezes |
| `checkpoint_promotion` | an ignored rename failure lets `save` remove the only good copy |
| `resume_sync` | an applied remote position is overridden by the RSVP checkpoint that was left in place |
| `resume_race` | a switch made while the Section is not yet placed starts at the beginning of the chapter |

Five more configurations show findings of the same kind and are kept beside the runs:

| configuration, with its `MC` module | what happens |
|---|---|
| `RsvpSessionElementPause.cfg` | stopping at an image, table or rule requests no checkpoint |
| `RsvpReaderModal.cfg` | the session plays under a modal opened while a frame is requested |
| `RsvpReaderFatal.cfg` | an error in the first step stays on its error screen |
| `CheckpointFileFlush.cfg` | a write lost in `flush`/`close` replaces the last good checkpoint |
| `ActivityManagerWait.cfg` | `requestUpdateAndWait` is answered by a drawing that began before it |

`FrameSettles` and `ReadingErrorLeaves` hold with named exceptions
(`RecoveryLost`, `TouchWedged`, `SwitchHeldBack`, `refusalLost` in `RsvpReaderProps`):
each is a situation in which the code does get stuck, and the formula shows that there
is no other.

Every property of a passing run has a mutant in `PROJECT.json`: a wrong variant of a
definition, kept next to it in its module, under which TLC finds the property violated.
`rsvp_grouping` ends when the text is cut, so deadlock is not checked there; every other
passing run checks it.

## 4. Fairness

- Session (`FairSpec` in `RsvpSessionProps`): weak fairness of the tick while playing
  and of the acknowledgement while a frame is pending. `loop()` steps on every pass, and
  the render task acknowledges each drawn frame. Nothing is assumed about the reader's keys.
- Reader (`FairSpec` in `RsvpReaderProps`): weak fairness of each task (the Arduino
  loop never ends, FreeRTOS schedules both); strong fairness of finding a failed
  controller ready, since failures are bounded and readiness is polled on every pass; and
  in the end no more user input, so that whatever is promised needs no further key.

- Activity manager (`FairSpec` in `ActivityManager`): weak fairness of the main task's own
  steps and of the render task, and strong fairness of a pass that reaches the activity, since
  gestures come and go. No drawing is assumed to succeed. `requestUpdate` is fair because an activity
  that is entered asks to be drawn.
- Lifecycle (`FairSpec` in `ResumeLifecycle`): the render task runs; `loop()` makes a pending
  switch before it looks at input (line 380), hence strong fairness of `PendingSwitch`, which is
  disabled again whenever a jump discards the Section; and the card does not refuse for ever
  what a finished book asks of it on every pass (line 1124).
- Firmware update: none. Nothing has to happen; only what has happened must be right.

## 5. Proofs

All proofs are complete: every leaf is checked. Assumptions are the named ASSUMEs of
the modules and nothing else: the types of the constants, that a document ends where its end
event is, and what `VocabularyAssumption` says of postfixes.

- `CheckpointFileProofs`: `TypeCorrect` (for all faults). `InOrder`: `FilesInOrder` is
  inductive when `Faults = {}`. Its conjuncts say where the good copy is at each point of
  the code: before the backup is removed the file itself is good (or no backup exists),
  between the two renames the backup holds the old checkpoint and the temporary file the
  new one. `Implementation`: from this invariant each storage call maps to `Commit`
  (the rename that installs), `Confirm`, `Refuse`, `Clear`, `Drop`, or a stutter of the register.
- `RsvpReaderProofs`: three theorems, for every capacity of the queue, set of buttons and
  controls, device, and number of display failures. `DrawnFrame`, `Spec => []PendingFrameIsDrawn`:
  the invariant (`Agree`) needs the types of session, frame and decision, that a shown frame
  has no pause reason and that the session is open. The step follows three lines: what
  the session answers (`ResponsesAreShown`), that applying a decision keeps the copy in
  agreement (`StepAgrees`), and that the other stores touch neither (`OthersAgree`).
  `ReaderTypeOK` includes the bound of the queue. `WaitingFrameIsOnItsWay` is not inductive
  alone: a pending frame could be one that nobody marked for drawing, and the notification
  that stands for it would be spent on nothing. `DrawIsDue` excludes that (a pending frame is
  marked, or a failure is latched), and with it each step that takes away one of the things
  that may settle the frame is shown to leave another.
- `RsvpGroupingProofs`, over the lemmas of `RsvpGroupingLemmas`: two theorems, for every
  vocabulary and every length of text. `FramesPartitionText` holds whatever fits on the
  display: frames cut so far lie before the head, and a new one starts there.
  `FramesFollowRules` compares the resolver with the rules for the text as a whole. It rests
  on three facts: expected frames of different words are disjoint (`GroupsApart`), so that no
  expected frame straddles the head; and a word that is accepted, or rejected, at the head in
  the window of four is one that the rules accept (`AcceptedIsExpected`) or reject
  (`RejectedIsExpected`). The last two are where the four events of the buffer are seen to
  be enough: the limits on letters and on words never look further.
- `RsvpSessionProofs`: ten theorems over `ObsSpec` (which `FairSpec` implies), for every set of
  documents and every history capacity: each property of the run except `PlaybackComesToRest`. The
  inductive invariant has seven parts. `Flags`: the types that no position enters. `Opened`:
  the document and the word it was opened at. `Placed`: `events`, `cursor` and `history` are
  laid out in the document: the buffer is one stretch of it, with nothing but separators
  between the group and what follows, and the history is a row of stretches with no word
  between them. `Controlled`: what each state of the session says of the display,
  of the pause reason and of the pending frame, which `configureWhilePaused` and the
  acknowledgement rely on. `ReadSoFar`: the words from the session's start to the presented
  anchor are covered by acknowledged frames. `Chapters`: a chapter boundary behind the
  displayed group has had its pause or is to have it next. `OwedCheckpointHeld` is the property itself. All steps that move are
  shown to have one of a few outcomes (`Emitted` and its neighbours: a group is newly shown,
  replayed, or an obstacle is stopped at), and the theorems about movement are proved from the
  outcomes. `KeepsReadingOrder` is the refinement of `ReadingOrder`: each outcome is
  one of `ReadingOrder`'s steps under the mapping of `RsvpSessionProps`, or a stutter;
  `KeepsToTheInterface` says that each step given an action answers that action as `RsvpControl`
  does, also when the action is ignored (`Accepts` says when), which closes the composition:
  what `RsvpReaderProofs` assumes of the session's answer to an action is what the session does.
- `ActivityManagerProofs`: seven theorems, one for each property of the run except the
  liveness, for any sets of activities. The invariant joins the properties with what
  they need: that Home is launched whenever nothing is current (`HomeIsNext`), that the sleep
  screen never has anything above it and is on its way while the pass has not been
  displaced (`SleepIsLast`, `SleepIsComing`), that an activity that has not been entered has
  no handler (`HandlersAreEntered`), and a stronger form of `UpdateIsOnItsWay` (`UpdateComes`: a
  drawing in progress does not stand for what changed since it began). Each conjunct is
  preserved by a lemma of its own with one step per action. `ResultsAreTheirs` needs to know which child a
  handler waits for (`HandlersAwaitTheirChild`: it is pending, or just above its launcher) and who
  can be left with a child that was displaced (`HandlersAreUsed`: outside `Checked` only the current
  activity, which is then about to be destroyed).
- `ResumeLifecycleProofs`: seven theorems, for every length of book and page. `Seen` strengthens
  `NothingUnseenIsStored` to everything a word can reach the card from (the launch context,
  the selected page, the word presented); `FinishedIsForgotten` adds the backup, which a failed
  invalidation could bring back, and that RSVP is not reading; `DetourEnds` says that Paged, opened after
  a rejected checkpoint, either has no checkpoint or suppresses it. `ChosenPageStarts` is an
  action property: only `SwitchToRsvp` leads from Paged to RSVP, and after a navigation
  its context asks for no checkpoint. `BothRecordsAgree` and `GoesOnWhereTheReaderWas` need a
  second invariant, `Expected`, proved on top of the first: what the reader expects (`due`) is
  what the records, the launch context and the fields of the reader that is open will lead to.
  It says so at each place in turn: in the records when nothing is open (`RecordsMatch`,
  `DueIsStored`), in the context handed over (`AnchorIsDue`, `FinishedIsHandedOver`), on the
  page of Paged (`PageMatches`, `PagedIsDue`) and in the session's word (`RsvpIsDue`).
- `FirmwareUpdateProofs`: three theorems, for any bound on the sequence numbers. The running
  partition is never written (`RunningIsWhole`); the entry that was decided outranks the other
  one and its slot is free until it is written (`EntryOutranks`); if it does not count, the
  bootloader returns to the running partition (`RollbackReturns`). The step of the restart goes through
  the possible outcomes of the active entry.

So every invariant, action property and refinement that a passing run checks is also stated by
a theorem. Only model-checked are

- the six liveness properties: `PlaybackComesToRest`, `FrameSettles`, `ReadingErrorLeaves`,
  `ScreenCatchesUp`, `SwitchHappens`, `FinishedIsFinalized`. They depend on fairness, and so on
  ENABLED, which the prover does not support;
- the violations, which are counterexamples and need no proof.

Where an argument goes along a sequence or a text (the next word of a document, the end of a
chain of prefixes) it takes the least or the greatest element of a set of positions
(`MinProperties`, `MaxProperties`) instead of an induction over the data, which the prover has no
theorem for. `DiscardProperties` does the same for the one recursive function in a proved
module: no length of the queue can be the least at which it fails. TLC has checked the
inductive invariants of all of these with the constants of the runs, too.

## 6. Not modelled, and the plan

Not modelled: text processing (lexical core, layout, tokeniser, codec), drawing, the
diagnostic builds, the Paged engine, web server, settings, dictionary, the sync client.
They are data transformation or I/O; `PROJECT.json` gives the reason for each. Most of the
repository's lines are of this kind: generated fonts and hyphenation tables, vendored
parsers, and upstream's EPUB engine.

Left out of the modules above:

- ResumeLifecycle: sections that fail to build, a layout changed between two openings (the code
  maps offsets to pages again), the end-of-book page and several chapters. A failed read of the
  book's revision is the same as a failed read of its checkpoint. The launch context handed to RSVP
  does not carry `checkpointInvalidationPending` (`EpubReaderActivity.cpp:1225`), so an RSVP reader
  that is left before its first presentation, after an invalidation that failed, returns to
  the superseded checkpoint: `EntryFollowsTheReader` excludes it through `uncertain`.
- ActivityManager: what the activities do apart from their calls of the manager.
- FirmwareUpdate: the format of an image and its checks, the transfer, the screens.

Next, in this order:

1. `RsvpPacing`: the deadline and the active time with a clock of width w; property: no
   frame is cut short or held beyond its pause, except at the wrap.
2. `ProgressFile`: the crash points of the remove-then-rename of `progress.bin`.
3. `VisibleContentStream`: anchors of a reopened stream.
4. Proofs: that the manager in `RsvpReader` implements `ActivityManager`, and that the
   operations of `ResumeLifecycle` on the checkpoint implement `CheckpointRegister`; both are
   modelled twice, at different detail, and compared by hand only.
