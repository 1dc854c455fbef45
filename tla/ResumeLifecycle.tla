----------------------------- MODULE ResumeLifecycle -----------------------------
(***************************************************************************)
(* Where a book goes on: the Paged reader, RSVP mode and KOReader sync     *)
(* hand each other a launch context and share two records on the card, the *)
(* RSVP checkpoint and the native progress.  One chapter of words, pages   *)
(* of PageSize words.  The checkpoint file is used as CheckpointRegister   *)
(* describes it: a save commits or changes nothing, a failed invalidation  *)
(* may leave or bring back a checkpoint.                                   *)
(***************************************************************************)
EXTENDS Naturals

CONSTANTS
    LastWord,   \* the words of the book are 0..LastWord
    PageSize,   \* words on a page
    None,       \* no word
    Rejected,   \* a checkpoint record that does not load: corrupt, or of another book
    Moved       \* one that loads, but its word is no longer at its place, here 0

Words == 0..LastWord
PageStart(w) == w - (w % PageSize)
Pages == {PageStart(w) : w \in Words}

ASSUME ConstantsAssumption ==
    /\ LastWord \in Nat /\ PageSize \in Nat \ {0}
    /\ None \notin Words /\ Rejected \notin Words \cup {None}
    /\ Moved \notin Words \cup {None, Rejected}

VARIABLES
    checkpoint,      \* what a load of the checkpoint returns
    backup,          \* an older checkpoint that a failed invalidation may bring back
    progress,        \* progress.bin: the word it points at
    mode,            \* the reader that is open
    launch,          \* its ReaderLaunchContext
    page,            \* Paged: the first word of the page that is selected
    section,         \* its Section: none, being placed by the render task, or ready
    pagedResumeIntent,
    rsvpCheckpointInvalidationPending,
    rsvpSwitchPending,
    frame, word,     \* RSVP: the word requested, the last word presented
    state,           \* reading, finished, or falling back to native progress
    invalidateCheckpointOnNativeFallback,
    completionFinalized,
    due,             \* the word last presented, unless a page was selected after it
    uncertain,       \* a storage operation has failed or power was lost since that was saved
    remote,          \* the page of the remote position applied since over a checkpoint
    reached,         \* the furthest word presented or selected
    detours,         \* rejected checkpoints met since RSVP last read, in one launch
    done             \* the book was finished and has not been read in RSVP since

stored == <<checkpoint, backup, progress>>
paged == <<page, section, pagedResumeIntent, rsvpCheckpointInvalidationPending, rsvpSwitchPending>>
rsvp == <<frame, word, state, invalidateCheckpointOnNativeFallback, completionFinalized>>
doubts == <<uncertain, remote>>
ghosts == <<due, doubts, reached, detours, done>>
vars == <<stored, mode, launch, paged, rsvp, ghosts>>

Context(anchor, restore, suppressed) ==
    [anchor |-> anchor, restoreCheckpoint |-> restore, checkpointInvalidationPending |-> suppressed]
Fresh == Context(None, FALSE, FALSE)

\* A storage operation settles where the book goes on, or leaves it uncertain.
Settled(ok) == uncertain' = ~ ok /\ remote' = None

Furthest(w) == reached' = IF w > reached THEN w ELSE reached

\* Only the launch context remembers the last word of a finished book.
DueLater == IF done THEN None ELSE due

NoPaged ==
    /\ page' = 0 /\ section' = "none" /\ pagedResumeIntent' = "CheckpointEligible"
    /\ rsvpCheckpointInvalidationPending' = FALSE /\ rsvpSwitchPending' = FALSE
NoRsvp ==
    /\ frame' = 0 /\ word' = None /\ state' = "reading"
    /\ invalidateCheckpointOnNativeFallback' = FALSE /\ completionFinalized' = FALSE
Closed == mode' = "closed" /\ launch' = Fresh /\ detours' = 0 /\ NoPaged /\ NoRsvp

Init ==
    /\ checkpoint = None /\ backup = None /\ progress = None
    /\ mode = "closed" /\ launch = Fresh
    /\ page = 0 /\ section = "none" /\ pagedResumeIntent = "CheckpointEligible"
    /\ rsvpCheckpointInvalidationPending = FALSE /\ rsvpSwitchPending = FALSE
    /\ frame = 0 /\ word = None /\ state = "reading"
    /\ invalidateCheckpointOnNativeFallback = FALSE /\ completionFinalized = FALSE
    /\ due = None /\ uncertain = FALSE /\ remote = None /\ reached = 0 /\ detours = 0 /\ done = FALSE

---------------------------------------------------------------------------
(* The two records. *)

\* invalidate(): TRUE when no copy of the checkpoint is left.
Invalidated(ok) ==
    IF ok THEN checkpoint' = None /\ backup' = None
    ELSE checkpoint' \in {checkpoint, backup} /\ UNCHANGED backup

saveCheckpointOfFrame(saved) ==
    IF word = None \/ completionFinalized
    THEN saved = FALSE /\ UNCHANGED <<stored, doubts>>
    ELSE \E progressSaved \in BOOLEAN, checkpointSaved \in BOOLEAN :
           /\ saved = (checkpointSaved /\ progressSaved)
           /\ checkpoint' = IF checkpointSaved THEN frame ELSE checkpoint
           /\ backup' \in IF checkpointSaved THEN {None, checkpoint} ELSE {backup}
           /\ progress' = IF progressSaved THEN frame ELSE progress
           /\ Settled(saved)

saveCheckpointOnly(saved) ==
    IF word = None \/ completionFinalized
    THEN saved = FALSE /\ UNCHANGED <<stored, doubts>>
    ELSE \E checkpointSaved \in BOOLEAN :
           /\ saved = checkpointSaved
           /\ checkpoint' = IF checkpointSaved THEN word ELSE checkpoint
           /\ backup' \in IF checkpointSaved THEN {None, checkpoint} ELSE {backup}
           /\ UNCHANGED progress
           /\ Settled(saved)

saveCheckpointAlways(saved) ==
    IF word = None
    THEN saved = FALSE /\ UNCHANGED <<stored, doubts>>
    ELSE \E progressSaved \in BOOLEAN, checkpointSaved \in BOOLEAN :
           /\ saved = (checkpointSaved /\ progressSaved)
           /\ checkpoint' = IF checkpointSaved THEN word ELSE checkpoint
           /\ backup' \in IF checkpointSaved THEN {None, checkpoint} ELSE {backup}
           /\ progress' = IF progressSaved THEN word ELSE progress
           /\ Settled(saved)

\* saveCheckpoint(): the checkpoint, then native progress.  Without a presented word
\* neither is touched.
saveCheckpoint(saved) ==
    IF word = None \/ completionFinalized
    THEN saved = FALSE /\ UNCHANGED <<stored, doubts>>
    ELSE \E progressSaved \in BOOLEAN, checkpointSaved \in BOOLEAN :
           /\ saved = (checkpointSaved /\ progressSaved)
           /\ checkpoint' = IF checkpointSaved THEN word ELSE checkpoint
           /\ backup' \in IF checkpointSaved THEN {None, checkpoint} ELSE {backup}
           /\ progress' = IF progressSaved THEN word ELSE progress
           /\ Settled(saved)

\* finalizeCompletedBook(): native progress, then no checkpoint.
finalizeCompletedBook(finalized) ==
    \E progressSaved \in BOOLEAN, invalidated \in BOOLEAN :
        /\ finalized = (progressSaved /\ invalidated)
        /\ progress' = IF progressSaved THEN word ELSE progress
        /\ IF progressSaved THEN Invalidated(invalidated) ELSE UNCHANGED <<checkpoint, backup>>
        /\ Settled(finalized)

---------------------------------------------------------------------------
(* The Paged reader. *)

\* Constructor and loadBook(): the checkpoint is used when no anchor is handed over.
PagedLoads(context) ==
    /\ mode' = "paged"
    /\ \E readable \in BOOLEAN :
         launch' = IF context.anchor = None /\ ~ context.checkpointInvalidationPending
                      /\ readable /\ checkpoint' \notin {None, Rejected}
                   THEN Context(IF checkpoint' = Moved THEN 0 ELSE checkpoint', TRUE, FALSE)
                   ELSE context
    /\ page' = PageStart(IF launch'.anchor # None THEN launch'.anchor
                         ELSE IF progress' # None THEN progress' ELSE 0)
    /\ section' = "none" /\ pagedResumeIntent' = "CheckpointEligible"
    /\ rsvpCheckpointInvalidationPending' = context.checkpointInvalidationPending
    /\ rsvpSwitchPending' = FALSE

Open ==
    /\ mode = "closed"
    /\ UNCHANGED <<stored, rsvp, ghosts>>
    /\ PagedLoads(Fresh)

PlaceSectionUnasked ==
    /\ mode = "paged" /\ section = "none" /\ ~ rsvpSwitchPending
    /\ section' = "placing"
    /\ UNCHANGED <<stored, mode, launch, page, pagedResumeIntent,
                   rsvpCheckpointInvalidationPending, rsvpSwitchPending, rsvp, ghosts>>

\* The render task creates the Section before it has moved it to the selected page.
PlaceSection ==
    /\ mode = "paged" /\ section = "none"
    /\ section' = "placing"
    /\ UNCHANGED <<stored, mode, launch, page, pagedResumeIntent,
                   rsvpCheckpointInvalidationPending, rsvpSwitchPending, rsvp, ghosts>>

\* The page is drawn and saved; a save that fails is made again with the next drawing.
RenderPage ==
    /\ mode = "paged" /\ section # "none"
    /\ section' = "ready"
    /\ progress' \in {page, progress}
    /\ Furthest(page)
    /\ UNCHANGED <<checkpoint, backup, mode, launch, page, pagedResumeIntent,
                   rsvpCheckpointInvalidationPending, rsvpSwitchPending, rsvp,
                   due, doubts, detours, done>>

\* retryRsvpCheckpointInvalidation()
RetryInvalidation ==
    \E ok \in BOOLEAN :
        /\ Invalidated(ok)
        /\ rsvpCheckpointInvalidationPending' = ~ ok
        /\ Settled(ok)

markExplicitPagedNavigation ==
    /\ pagedResumeIntent' = "ExplicitNavigation"
    /\ IF pagedResumeIntent = "ExplicitNavigation" /\ ~ rsvpCheckpointInvalidationPending
       THEN UNCHANGED <<checkpoint, backup, rsvpCheckpointInvalidationPending, doubts>>
       ELSE RetryInvalidation

\* A page turn stays in the Section; a jump discards it.
Navigate ==
    /\ mode = "paged"
    /\ \E p \in Pages :
         /\ page' = p /\ Furthest(p)
         /\ \/ section = "ready" /\ UNCHANGED section /\ (p = page + PageSize \/ page = p + PageSize)
            \/ section' = "none"
    /\ markExplicitPagedNavigation
    /\ due' = None
    /\ UNCHANGED <<progress, mode, launch, rsvpSwitchPending, rsvp, detours, done>>

\* onExit(); the RetryInvalidation of a switch and the one of onExit() are one here.
PagedExits ==
    IF rsvpCheckpointInvalidationPending
    THEN \E ok \in BOOLEAN : Invalidated(ok) /\ Settled(ok)
    ELSE UNCHANGED <<checkpoint, backup, doubts>>

ClosePaged ==
    /\ mode = "paged"
    /\ PagedExits /\ Closed
    /\ due' = DueLater
    /\ UNCHANGED <<progress, reached, done>>

---------------------------------------------------------------------------
(* The switch to RSVP. *)

\* The start of the page that the Section is on: its first one until it is placed.
PageStartAnchor == IF section = "placing" THEN 0 ELSE page

Explicit == pagedResumeIntent = "ExplicitNavigation"

fromPagedForgetful(suppressed) ==
    LET usePageStart == Explicit \/ suppressed
        anchor == IF usePageStart \/ launch.anchor = None THEN PageStartAnchor ELSE launch.anchor
    IN  Context(anchor, FALSE, FALSE)

fromPagedRestoring(suppressed) ==
    LET usePageStart == Explicit \/ suppressed
        anchor == IF usePageStart \/ launch.anchor = None THEN PageStartAnchor ELSE launch.anchor
        restore == ~ usePageStart /\ launch.anchor = None
    IN  Context(anchor, restore \/ launch.restoreCheckpoint, FALSE)

\* RsvpModeSwitch::fromPaged() and what switchToRsvp() adds to it.
fromPaged(suppressed) ==
    LET usePageStart == Explicit \/ suppressed
        anchor == IF usePageStart \/ launch.anchor = None THEN PageStartAnchor ELSE launch.anchor
        restore == ~ usePageStart /\ launch.anchor = None
    IN  Context(anchor, restore \/ (launch.restoreCheckpoint /\ ~ Explicit), FALSE)

FallBack(invalidate) ==
    /\ state' = "fallback" /\ invalidateCheckpointOnNativeFallback' = invalidate
    /\ frame' = 0 /\ word' = None
    /\ detours' = IF invalidate THEN detours + 1 ELSE 0
    /\ due' = IF invalidate THEN None ELSE DueLater
    /\ UNCHANGED done

StartAtNext(w, restored) ==
    \E grouping \in BOOLEAN :
        /\ word' = IF restored /\ grouping THEN w ELSE None
        /\ frame' = IF restored /\ grouping THEN w + 1 ELSE w
        /\ state' = IF restored /\ grouping /\ w = LastWord THEN "finished" ELSE "reading"
        /\ invalidateCheckpointOnNativeFallback' = FALSE
        /\ detours' = 0 /\ done' = FALSE
        /\ due' = IF restored /\ grouping THEN w ELSE DueLater

\* With grouping a restored word counts as presented and the next one is requested.
StartAt(w, restored) ==
    \E grouping \in BOOLEAN :
        /\ word' = IF restored /\ grouping THEN w ELSE None
        /\ frame' = IF restored /\ grouping /\ w < LastWord THEN w + 1 ELSE w
        /\ state' = IF restored /\ grouping /\ w = LastWord THEN "finished" ELSE "reading"
        /\ invalidateCheckpointOnNativeFallback' = FALSE
        /\ detours' = 0 /\ done' = FALSE
        /\ due' = IF restored /\ grouping THEN w ELSE DueLater

\* loadBook() and its first session step.
RsvpLoads(context) ==
    /\ completionFinalized' = FALSE
    /\ \/ FallBack(FALSE)  \* the book or its checkpoint cannot be read
       \/ /\ context.restoreCheckpoint
          /\ \/ checkpoint' \in Words /\ StartAt(checkpoint', TRUE)
             \/ checkpoint' = None /\ StartAt(context.anchor, FALSE)
             \/ checkpoint' \in {Rejected, Moved} /\ FallBack(TRUE)
       \/ ~ context.restoreCheckpoint /\ StartAt(context.anchor, FALSE)

\* Without a page in the Section the switch waits for one; loop() makes it before it
\* looks at input.
SwitchWaits ==
    /\ mode = "paged" /\ section # "ready"
    /\ rsvpSwitchPending' = TRUE
    /\ UNCHANGED <<stored, mode, launch, page, section, pagedResumeIntent,
                   rsvpCheckpointInvalidationPending, rsvp, ghosts>>

SwitchToRsvp ==
    /\ mode = "paged" /\ section # "none"
    /\ mode' = "rsvp" /\ launch' = fromPaged(rsvpCheckpointInvalidationPending)
    /\ PagedExits /\ NoPaged
    /\ RsvpLoads(launch')
    /\ UNCHANGED <<progress, reached>>

PendingSwitch == rsvpSwitchPending /\ SwitchToRsvp

---------------------------------------------------------------------------
(* RSVP mode. *)

Reading == mode = "rsvp" /\ state = "reading"

\* The display has acknowledged the requested word.
Present ==
    /\ Reading /\ word # frame
    /\ word' = frame /\ due' = frame /\ Furthest(frame)
    /\ UNCHANGED <<stored, mode, launch, paged, frame, state,
                   invalidateCheckpointOnNativeFallback, completionFinalized,
                   doubts, detours, done>>

\* Playback requests the next word, a rewind an earlier one.
Request ==
    /\ Reading /\ word = frame
    /\ frame' \in {w \in Words : w <= frame + 1} \ {frame}
    /\ UNCHANGED <<stored, mode, launch, paged, word, state,
                   invalidateCheckpointOnNativeFallback, completionFinalized, ghosts>>

\* A checkpoint is due after 30 s of playback, and on a pause.
SaveWhileReading ==
    /\ Reading
    /\ \E saved \in BOOLEAN : saveCheckpoint(saved)
    /\ UNCHANGED <<mode, launch, paged, rsvp, due, reached, detours, done>>

Finalizes ==
    \E finalized \in BOOLEAN :
        /\ finalizeCompletedBook(finalized)
        /\ completionFinalized' = finalized /\ done' = finalized
        /\ due' = IF finalized THEN None ELSE due

Finish ==
    /\ Reading /\ word = LastWord /\ frame = LastWord
    /\ state' = "finished" /\ Finalizes
    /\ UNCHANGED <<mode, launch, paged, frame, word, invalidateCheckpointOnNativeFallback,
                   reached, detours>>

FinalizeOnce ==
    /\ mode = "rsvp" /\ state = "finished" /\ ~ completionFinalized /\ ~ uncertain
    /\ Finalizes
    /\ UNCHANGED <<mode, launch, paged, frame, word, state,
                   invalidateCheckpointOnNativeFallback, reached, detours>>

\* Every pass in the finished state tries again.
FinalizeAgain ==
    /\ mode = "rsvp" /\ state = "finished" /\ ~ completionFinalized
    /\ Finalizes
    /\ UNCHANGED <<mode, launch, paged, frame, word, state,
                   invalidateCheckpointOnNativeFallback, reached, detours>>

\* Home, the file browser, sleep: onExit().
CloseRsvp ==
    /\ mode = "rsvp"
    /\ \/ /\ state = "reading" /\ (\E saved \in BOOLEAN : saveCheckpoint(saved))
          /\ UNCHANGED <<due, done>>
       \/ /\ state = "finished" /\ ~ completionFinalized
          /\ \E finalized \in BOOLEAN :
                /\ finalizeCompletedBook(finalized)
                /\ done' = finalized /\ due' = IF finalized THEN None ELSE due
       \/ /\ state = "fallback" \/ completionFinalized
          /\ UNCHANGED <<stored, due, doubts, done>>
    /\ Closed
    /\ UNCHANGED reached

\* switchToPaged() with the session's anchor, also after a fatal error.
SwitchToPaged ==
    /\ mode = "rsvp" /\ state # "fallback"
    /\ \E saved \in BOOLEAN, grouping \in BOOLEAN :
         /\ saveCheckpoint(saved)
         /\ PagedLoads(Context(word, saved /\ grouping, FALSE))
    /\ due' = IF word # None THEN word ELSE due
    /\ NoRsvp
    /\ UNCHANGED <<reached, detours, done>>

FallBackUnsuppressed ==
    /\ mode = "rsvp" /\ state = "fallback"
    /\ IF invalidateCheckpointOnNativeFallback
       THEN \E ok \in BOOLEAN : Invalidated(ok) /\ Settled(ok) /\ UNCHANGED progress
       ELSE UNCHANGED <<stored, doubts>>
    /\ PagedLoads(Fresh)
    /\ NoRsvp
    /\ UNCHANGED <<due, reached, detours, done>>

\* switchToPaged() to native progress.
FallBackToPaged ==
    /\ mode = "rsvp" /\ state = "fallback"
    /\ IF invalidateCheckpointOnNativeFallback
       THEN \E ok \in BOOLEAN :
              /\ Invalidated(ok) /\ Settled(ok)
              /\ UNCHANGED progress
              /\ PagedLoads(Context(None, FALSE, ~ ok))
       ELSE UNCHANGED <<stored, doubts>> /\ PagedLoads(Fresh)
    /\ NoRsvp
    /\ UNCHANGED <<due, reached, detours, done>>

---------------------------------------------------------------------------
(* KOReader sync, a loss of power, a file that is replaced. *)

\* launchKOReaderSync() goes on only when the current page has been saved.  The return
\* from the sync is a launch of its own: it knows nothing of a checkpoint that was
\* suppressed before, and a detour after it is the first of that launch.
LaunchSync ==
    /\ mode = "paged"
    /\ mode' = "sync" /\ progress' = page
    /\ PagedExits /\ NoPaged
    /\ launch' = Fresh /\ detours' = 0 /\ due' = DueLater
    /\ UNCHANGED <<rsvp, reached, done>>

\* saveProgressAndReturn() and returnToReader(): a fresh context.  Native progress alone
\* is written: a checkpoint stays what it is, and goes before it.
ApplyRemote ==
    /\ mode = "sync"
    /\ \E w \in Words :
         /\ progress' = w /\ Furthest(w)
         /\ remote' = IF checkpoint \in Words THEN PageStart(w) ELSE None
    /\ UNCHANGED <<checkpoint, backup>>
    /\ PagedLoads(Fresh)
    /\ due' = IF checkpoint \in Words THEN due ELSE None
    /\ UNCHANGED <<rsvp, uncertain, detours, done>>

SyncReturns ==
    /\ mode = "sync"
    /\ UNCHANGED stored
    /\ PagedLoads(Fresh)
    /\ UNCHANGED <<rsvp, ghosts>>

\* Power may go between the two records of saveCheckpoint().
LosePower ==
    /\ mode # "closed"
    /\ Closed
    /\ \/ UNCHANGED checkpoint
       \/ Reading /\ word # None /\ checkpoint' = word
    /\ uncertain' = IF mode = "rsvp" /\ word # None THEN TRUE ELSE uncertain
    /\ due' = DueLater
    /\ UNCHANGED <<backup, progress, remote, reached, done>>

\* The book or its checkpoint is replaced by another, over USB or the web server.
ReplaceFile ==
    /\ mode = "closed" /\ checkpoint \in Words
    /\ checkpoint' \in {Rejected, Moved} /\ backup' = IF backup = None THEN None ELSE Rejected
    /\ due' = None
    /\ UNCHANGED <<progress, mode, launch, paged, rsvp, doubts, reached, detours, done>>

---------------------------------------------------------------------------
PagedStep == Navigate \/ ClosePaged \/ SwitchWaits \/ SwitchToRsvp \/ LaunchSync
RenderStep == PlaceSection \/ RenderPage
RsvpStep == Present \/ Request \/ SaveWhileReading \/ Finish \/ FinalizeAgain \/ CloseRsvp
            \/ SwitchToPaged \/ FallBackToPaged
SyncStep == ApplyRemote \/ SyncReturns

Next == Open \/ PagedStep \/ RenderStep \/ RsvpStep \/ SyncStep \/ LosePower \/ ReplaceFile

Spec == Init /\ [][Next]_vars

\* The render task runs, loop() makes the pending switch before it looks at input, and
\* the card does not refuse for ever what a finished book asks of it.
FairSpec ==
    /\ Spec
    /\ WF_vars(RenderStep) /\ SF_vars(PendingSwitch)
    /\ SF_vars(FinalizeAgain /\ completionFinalized')
=============================================================================
