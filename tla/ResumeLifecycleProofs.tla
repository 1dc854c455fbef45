-------------------------- MODULE ResumeLifecycleProofs --------------------------
(* What the hand-over between the reading modes keeps, for every length of the   *)
(* book and of its pages.                                                        *)
EXTENDS ResumeLifecycleProps, TLAPS

Records == Words \cup {None, Rejected, Moved}
Anchors == Words \cup {None}
Contexts == [anchor : Anchors, restoreCheckpoint : BOOLEAN, checkpointInvalidationPending : BOOLEAN]

\* The parts of the type invariant.
StoreTyped == {checkpoint, backup} \subseteq Records /\ progress \in Anchors
PagedTyped ==
    /\ page \in Pages /\ section \in {"none", "placing", "ready"}
    /\ pagedResumeIntent \in {"CheckpointEligible", "ExplicitNavigation"}
    /\ {rsvpCheckpointInvalidationPending, rsvpSwitchPending} \subseteq BOOLEAN
RsvpTyped ==
    /\ frame \in Words /\ word \in Anchors
    /\ state \in {"reading", "finished", "fallback"}
    /\ {invalidateCheckpointOnNativeFallback, completionFinalized} \subseteq BOOLEAN
DoubtsTyped == uncertain \in BOOLEAN /\ remote \in Pages \cup {None}
GhostTyped ==
    /\ due \in Anchors /\ reached \in Words /\ detours \in Nat /\ done \in BOOLEAN
    /\ DoubtsTyped
ModeTyped == mode \in {"closed", "paged", "rsvp", "sync"} /\ launch \in Contexts
Typed == StoreTyped /\ PagedTyped /\ RsvpTyped /\ GhostTyped /\ ModeTyped

\* Nothing that is stored, handed over or selected lies beyond what was presented or
\* selected.
Known == {checkpoint, backup, progress, launch.anchor, page, word}
Seen == \A w \in Known \cap Words : w <= reached

\* A finished book has no checkpoint left, and nothing that may still write one.
FinishedIsForgotten ==
    /\ done => checkpoint = None /\ backup = None
    /\ mode = "rsvp" /\ state = "reading" => ~ done
    /\ mode = "rsvp" /\ state = "finished" /\ done => completionFinalized

\* A rejected checkpoint is removed or suppressed by the time Paged has opened.
DetourEnds ==
    /\ detours \in {0, 1}
    /\ mode \in {"closed", "sync"} => detours = 0
    /\ mode = "rsvp" /\ state # "fallback" => detours = 0
    /\ mode = "rsvp" /\ state = "fallback" /\ detours = 1 => invalidateCheckpointOnNativeFallback
    /\ mode = "paged" /\ detours = 1 =>
         /\ ~ launch.restoreCheckpoint
         /\ rsvpCheckpointInvalidationPending \/ (checkpoint = None /\ backup = None)

IInv == Typed /\ Seen /\ FinishedIsForgotten /\ DetourEnds

---------------------------------------------------------------------------
(* The operators the actions are built from. *)

\* A page begins at a word of the book, not after the word it is the page of.
LEMMA PageStartIsWord ==
    ASSUME NEW w \in Words
    PROVE  PageStart(w) \in Pages /\ PageStart(w) \in Words /\ PageStart(w) <= w
<1>1. w % PageSize \in 0..w
      BY ConstantsAssumption DEF Words
<1>2. PageStart(w) \in 0..w
      BY <1>1, ConstantsAssumption DEF PageStart, Words
<1>3. QED BY <1>2, ConstantsAssumption DEF Words, Pages

LEMMA PagesAreWords == Pages \subseteq Words /\ 0 \in Pages /\ 0 \in Words
<1>1. Pages \subseteq Words
      BY PageStartIsWord DEF Pages
<1>2. 0 \in Words
      BY ConstantsAssumption DEF Words
<1>3. PageStart(0) = 0
      BY <1>2, PageStartIsWord DEF Words
<1>4. QED BY <1>1, <1>2, <1>3, PageStartIsWord

\* The furthest word moves forward only, and at least as far as the new one.
LEMMA FurthestGrows ==
    ASSUME reached \in Words, NEW w \in Words, Furthest(w)
    PROVE  reached' \in Words /\ w <= reached' /\ reached <= reached'
BY ConstantsAssumption DEF Furthest, Words

\* A record keeps to what was stored before when it is invalidated, and is gone when
\* that succeeds.
LEMMA InvalidatedIs ==
    ASSUME NEW ok, Invalidated(ok)
    PROVE  /\ checkpoint' \in {None, checkpoint, backup} /\ backup' \in {None, backup}
           /\ ok => checkpoint' = None /\ backup' = None
BY DEF Invalidated

\* What a storage operation leaves open.
LEMMA SettledIs ==
    ASSUME NEW ok \in BOOLEAN, Settled(ok)
    PROVE  DoubtsTyped'
<1>1. (~ ok) \in BOOLEAN
      OBVIOUS
<1>2. QED BY <1>1 DEF Settled, DoubtsTyped

LEMMA DoubtsStay ==
    ASSUME DoubtsTyped, UNCHANGED doubts
    PROVE  DoubtsTyped'
BY DEF DoubtsTyped, doubts

\* A save stores the last word presented, in both records or in some of them.
LEMMA SaveIs ==
    ASSUME NEW saved \in BOOLEAN, DoubtsTyped, saveCheckpoint(saved)
    PROVE  /\ checkpoint' \in {checkpoint, word} /\ progress' \in {progress, word}
           /\ backup' \in {None, backup, checkpoint}
           /\ word = None \/ completionFinalized => UNCHANGED stored
           /\ word = None => UNCHANGED stored
           /\ DoubtsTyped'
<1>1. CASE word = None \/ completionFinalized
      BY <1>1, DoubtsStay DEF saveCheckpoint, stored
<1>2. CASE ~ (word = None \/ completionFinalized)
      <2>1. DoubtsTyped'
            BY <1>2, SettledIs DEF saveCheckpoint
      <2>2. QED BY <1>2, <2>1 DEF saveCheckpoint
<1>3. QED BY <1>1, <1>2

\* Paged opens at an anchor, at the checkpoint, at native progress or at the beginning.
LEMMA PagedLoadsIs ==
    ASSUME NEW context \in Contexts, PagedLoads(context),
           checkpoint' \in Records, progress' \in Anchors
    PROVE  /\ mode' = "paged" /\ section' = "none" /\ pagedResumeIntent' = "CheckpointEligible"
           /\ rsvpSwitchPending' = FALSE
           /\ rsvpCheckpointInvalidationPending' = context.checkpointInvalidationPending
           /\ launch' \in Contexts
           /\ launch'.anchor \in {context.anchor, checkpoint', 0}
           /\ page' \in Pages
           /\ \E w \in {launch'.anchor, progress', 0} \cap Words : page' <= w
           /\ context.checkpointInvalidationPending \/ checkpoint' = None => launch' = context
<1>1. PICK readable \in BOOLEAN :
         launch' = IF context.anchor = None /\ ~ context.checkpointInvalidationPending
                      /\ readable /\ checkpoint' \notin {None, Rejected}
                   THEN Context(IF checkpoint' = Moved THEN 0 ELSE checkpoint', TRUE, FALSE)
                   ELSE context
      BY DEF PagedLoads
<1>2. launch' \in Contexts /\ launch'.anchor \in {context.anchor, checkpoint', 0}
      <2>1. CASE launch' = context
            BY <2>1
      <2>2. CASE launch' # context
            <3>1. checkpoint' \notin {None, Rejected}
                  /\ launch' = Context(IF checkpoint' = Moved THEN 0 ELSE checkpoint', TRUE, FALSE)
                  BY <1>1, <2>2
            <3>2. PICK w \in Words \cap {checkpoint', 0} : launch' = Context(w, TRUE, FALSE)
                  BY <3>1, PagesAreWords DEF Records
            <3>3. w \in Anchors
                  BY DEF Anchors
            <3>4. launch'.anchor = w /\ launch' \in Contexts
                  BY <3>2, <3>3 DEF Context, Contexts
            <3>5. QED BY <3>2, <3>4
      <2>3. QED BY <2>1, <2>2
<1>3. launch'.anchor \in Anchors
      BY <1>2 DEF Contexts
<1>4. page' = PageStart(IF launch'.anchor # None THEN launch'.anchor
                        ELSE IF progress' # None THEN progress' ELSE 0)
      BY DEF PagedLoads
<1>5. PICK w \in {launch'.anchor, progress', 0} \cap Words : page' = PageStart(w)
      BY <1>3, <1>4, PagesAreWords DEF Anchors
<1>6. page' \in Pages /\ page' <= w
      BY <1>5, PageStartIsWord
<1>7. context.checkpointInvalidationPending \/ checkpoint' = None => launch' = context
      BY <1>1
<1>8. QED BY <1>2, <1>5, <1>6, <1>7 DEF PagedLoads


\* What is known stays within reach when it was known, or is.
LEMMA SeenGrows ==
    ASSUME Typed, Seen, reached' \in Words, reached <= reached',
           \A w \in Known' \cap Words : w \in Known \/ w <= reached'
    PROVE  Seen'
BY ConstantsAssumption DEF Typed, GhostTyped, Seen, Words

\* Nothing is typed anew when a book is closed.
LEMMA ClosedIs ==
    ASSUME Closed
    PROVE  /\ PagedTyped' /\ RsvpTyped' /\ ModeTyped'
           /\ mode' = "closed" /\ launch'.anchor = None /\ page' = 0 /\ word' = None /\ detours' = 0
<1>1. launch' \in Contexts /\ launch'.anchor = None
      BY DEF Closed, Fresh, Context, Contexts, Anchors
<1>2. PagedTyped' /\ page' = 0
      BY PagesAreWords DEF Closed, NoPaged, PagedTyped
<1>3. RsvpTyped' /\ word' = None
      BY PagesAreWords DEF Closed, NoRsvp, RsvpTyped, Anchors
<1>4. QED BY <1>1, <1>2, <1>3 DEF Closed, ModeTyped

\* A fresh RSVP reader.
LEMMA NoRsvpIs ==
    ASSUME NoRsvp
    PROVE  RsvpTyped' /\ word' = None /\ state' = "reading" /\ completionFinalized' = FALSE
BY PagesAreWords DEF NoRsvp, RsvpTyped, Anchors

LEMMA NoPagedIs ==
    ASSUME NoPaged
    PROVE  PagedTyped' /\ page' = 0
BY PagesAreWords DEF NoPaged, PagedTyped

LEMMA FreshIs == Fresh \in Contexts /\ Fresh.anchor = None /\ Fresh.restoreCheckpoint = FALSE
                 /\ Fresh.checkpointInvalidationPending = FALSE
BY DEF Fresh, Context, Contexts, Anchors

\* Opening Paged keeps types, and what it knows is what it was given.
LEMMA OpensPaged ==
    ASSUME Typed, Seen, NEW context \in Contexts, PagedLoads(context),
           StoreTyped', RsvpTyped', GhostTyped', reached <= reached',
           \A w \in {checkpoint', backup', progress', context.anchor, word'} \cap Words :
              w \in Known \/ w <= reached'
    PROVE  Typed' /\ Seen'
<1>1. checkpoint' \in Records /\ progress' \in Anchors /\ reached' \in Words
      BY DEF StoreTyped, GhostTyped
<1>2. Typed'
      <2>1. mode' = "paged" /\ launch' \in Contexts
            BY <1>1, PagedLoadsIs
      <2>2. PagedTyped'
            <3>1. context.checkpointInvalidationPending \in BOOLEAN
                  BY DEF Contexts
            <3>2. QED BY <1>1, <3>1, PagedLoadsIs DEF PagedTyped
      <2>3. QED BY <2>1, <2>2 DEF Typed, ModeTyped
<1>3. \A w \in {checkpoint', backup', progress', context.anchor, word'} \cap Words : w <= reached'
      BY <1>1, ConstantsAssumption DEF Typed, GhostTyped, Seen, Words
<1>4. 0 <= reached'
      BY <1>1, ConstantsAssumption DEF Words
<1>5. launch'.anchor \in Words => launch'.anchor <= reached'
      BY <1>1, <1>3, <1>4, PagedLoadsIs
<1>6. page' \in Words /\ page' <= reached'
      <2>1. PICK w \in {launch'.anchor, progress', 0} \cap Words : page' <= w
            BY <1>1, PagedLoadsIs
      <2>2. w <= reached'
            BY <1>3, <1>4, <1>5
      <2>3. page' \in Words
            BY <1>1, PagedLoadsIs, PagesAreWords
      <2>4. QED BY <1>1, <2>1, <2>2, <2>3, ConstantsAssumption DEF Words
<1>7. Seen'
      BY <1>3, <1>5, <1>6 DEF Seen, Known
<1>8. QED BY <1>2, <1>7

---------------------------------------------------------------------------
(* The steps of the Paged reader and of its render task. *)

LEMMA PlaceSectionStep ==
    ASSUME IInv, PlaceSection
    PROVE  IInv'
<1> USE DEF stored, paged, rsvp, ghosts, doubts, DoubtsTyped
<1>1. Typed'
      BY DEF IInv, Typed, StoreTyped, PagedTyped, RsvpTyped, GhostTyped, ModeTyped, PlaceSection
<1>2. Seen'
      <2>1. reached' \in Words /\ reached <= reached'
            BY ConstantsAssumption DEF IInv, Typed, GhostTyped, Words, PlaceSection
      <2>2. \A w \in Known' \cap Words : w \in Known \/ w <= reached'
            BY ConstantsAssumption DEF IInv, Typed, GhostTyped, RsvpTyped, Known, PlaceSection
      <2>3. QED BY <2>1, <2>2, SeenGrows DEF IInv
<1>3. FinishedIsForgotten'
      BY DEF IInv, FinishedIsForgotten, PlaceSection
<1>4. DetourEnds'
      BY DEF IInv, DetourEnds, PlaceSection
<1>5. QED BY <1>1, <1>2, <1>3, <1>4 DEF IInv

LEMMA SwitchWaitsStep ==
    ASSUME IInv, SwitchWaits
    PROVE  IInv'
<1> USE DEF stored, paged, rsvp, ghosts, doubts, DoubtsTyped
<1>1. Typed'
      BY DEF IInv, Typed, StoreTyped, PagedTyped, RsvpTyped, GhostTyped, ModeTyped, SwitchWaits
<1>2. Seen'
      <2>1. reached' \in Words /\ reached <= reached'
            BY ConstantsAssumption DEF IInv, Typed, GhostTyped, Words, SwitchWaits
      <2>2. \A w \in Known' \cap Words : w \in Known \/ w <= reached'
            BY ConstantsAssumption DEF IInv, Typed, GhostTyped, RsvpTyped, Known, SwitchWaits
      <2>3. QED BY <2>1, <2>2, SeenGrows DEF IInv
<1>3. FinishedIsForgotten'
      BY DEF IInv, FinishedIsForgotten, SwitchWaits
<1>4. DetourEnds'
      BY DEF IInv, DetourEnds, SwitchWaits
<1>5. QED BY <1>1, <1>2, <1>3, <1>4 DEF IInv

LEMMA RenderPageStep ==
    ASSUME IInv, RenderPage
    PROVE  IInv'
<1>1. /\ mode' = mode /\ launch' = launch /\ page' = page /\ section' = "ready"
      /\ progress' \in {page, progress} /\ Furthest(page)
      /\ UNCHANGED <<checkpoint, backup, pagedResumeIntent, rsvpCheckpointInvalidationPending,
                     rsvpSwitchPending, frame, word, state, invalidateCheckpointOnNativeFallback,
                     completionFinalized, due, doubts, detours, done>>
      BY DEF RenderPage, rsvp
<1>2. page \in Words /\ page \in Pages
      BY PagesAreWords DEF IInv, Typed, PagedTyped
<1>3. reached' \in Words /\ page <= reached' /\ reached <= reached'
      BY <1>1, <1>2, FurthestGrows DEF IInv, Typed, GhostTyped
<1>4. Typed'
      BY DoubtsStay, <1>1, <1>2, <1>3
      DEF IInv, Typed, StoreTyped, PagedTyped, RsvpTyped, GhostTyped, ModeTyped, Anchors
<1>5. Seen'
      <2>1. \A w \in Known' \cap Words : w \in Known \/ w <= reached'
            BY <1>1, <1>3 DEF Known
      <2>2. QED BY <1>3, <2>1, SeenGrows DEF IInv
<1>6. FinishedIsForgotten' /\ DetourEnds'
      BY <1>1 DEF IInv, FinishedIsForgotten, DetourEnds
<1>7. QED BY <1>4, <1>5, <1>6 DEF IInv

LEMMA OpenStep ==
    ASSUME IInv, Open
    PROVE  IInv'
<1>1. mode = "closed" /\ PagedLoads(Fresh)
      /\ UNCHANGED <<checkpoint, backup, progress, frame, word, state,
                     invalidateCheckpointOnNativeFallback, completionFinalized,
                     due, doubts, reached, detours, done>>
      BY DEF Open, stored, rsvp, ghosts
<1>2. StoreTyped' /\ RsvpTyped' /\ GhostTyped' /\ reached <= reached'
      BY DoubtsStay, <1>1, ConstantsAssumption DEF IInv, Typed, StoreTyped, RsvpTyped, GhostTyped, Words
<1>3. Typed' /\ Seen'
      <2>1. \A w \in {checkpoint', backup', progress', Fresh.anchor, word'} \cap Words : w \in Known
            BY <1>1, FreshIs, ConstantsAssumption DEF Known
      <2>2. QED BY <1>1, <1>2, <2>1, FreshIs, OpensPaged DEF IInv
<1>4. mode' = "paged"
      BY <1>1 DEF PagedLoads
<1>5. FinishedIsForgotten'
      BY <1>1, <1>4 DEF IInv, FinishedIsForgotten
<1>6. DetourEnds'
      BY <1>1, <1>4 DEF IInv, DetourEnds
<1>7. QED BY <1>3, <1>5, <1>6 DEF IInv

\* An explicit navigation removes the checkpoint, or remembers that it must be removed.
LEMMA MarkIs ==
    ASSUME markExplicitPagedNavigation
    PROVE  /\ checkpoint' \in {None, checkpoint, backup} /\ backup' \in {None, backup}
           /\ pagedResumeIntent' = "ExplicitNavigation"
           /\ \/ UNCHANGED <<checkpoint, backup, rsvpCheckpointInvalidationPending, doubts>>
              \/ /\ rsvpCheckpointInvalidationPending' \in BOOLEAN /\ DoubtsTyped'
                 /\ rsvpCheckpointInvalidationPending' \/ (checkpoint' = None /\ backup' = None)
<1>1. CASE RetryInvalidation
      <2>1. PICK ok \in BOOLEAN : /\ Invalidated(ok) /\ rsvpCheckpointInvalidationPending' = ~ ok
                                  /\ Settled(ok)
            BY <1>1 DEF RetryInvalidation
      <2>2. CASE ok = TRUE
            BY SettledIs, <2>1, <2>2 DEF markExplicitPagedNavigation, Invalidated
      <2>3. CASE ok = FALSE
            BY SettledIs, <2>1, <2>3 DEF markExplicitPagedNavigation, Invalidated
      <2>4. QED BY <2>2, <2>3
<1>2. CASE UNCHANGED <<checkpoint, backup, rsvpCheckpointInvalidationPending, doubts>>
      BY <1>2 DEF markExplicitPagedNavigation
<1>3. QED BY <1>1, <1>2 DEF markExplicitPagedNavigation

LEMMA NavigateStep ==
    ASSUME IInv, Navigate
    PROVE  IInv'
<1>1. /\ mode = "paged" /\ mode' = mode /\ launch' = launch /\ progress' = progress /\ due' = None
      /\ UNCHANGED <<frame, word, state, invalidateCheckpointOnNativeFallback, completionFinalized,
                     rsvpSwitchPending, detours, done>>
      BY DEF Navigate, rsvp
<1>2. PICK p \in Pages : page' = p /\ Furthest(p) /\ section' \in {section, "none"}
      BY DEF Navigate
<1>3. markExplicitPagedNavigation
      BY DEF Navigate
<1>4. reached' \in Words /\ p <= reached' /\ reached <= reached'
      BY <1>2, PagesAreWords, FurthestGrows DEF IInv, Typed, GhostTyped
<1>5. checkpoint' \in {None, checkpoint, backup} /\ backup' \in {None, backup}
      BY <1>3, MarkIs
<1>6. rsvpCheckpointInvalidationPending' \in BOOLEAN /\ DoubtsTyped'
      BY <1>3, MarkIs, DoubtsStay DEF IInv, Typed, PagedTyped, GhostTyped
<1>7. Typed'
      <2>1. StoreTyped'
            BY <1>1, <1>5 DEF IInv, Typed, StoreTyped, Records
      <2>2. PagedTyped'
            BY <1>1, <1>2, <1>3, <1>6, MarkIs DEF IInv, Typed, PagedTyped
      <2>3. RsvpTyped' /\ ModeTyped'
            BY <1>1 DEF IInv, Typed, RsvpTyped, ModeTyped
      <2>4. GhostTyped'
            BY <1>1, <1>4, <1>6 DEF IInv, Typed, GhostTyped, Anchors
      <2>5. QED BY <2>1, <2>2, <2>3, <2>4 DEF Typed
<1>8. Seen'
      <2>1. \A w \in Known' \cap Words : w \in Known \/ w <= reached'
            BY <1>1, <1>2, <1>4, <1>5, ConstantsAssumption DEF Known
      <2>2. QED BY <1>4, <2>1, SeenGrows DEF IInv
<1>9. FinishedIsForgotten'
      BY <1>1, <1>5 DEF IInv, FinishedIsForgotten
<1>10. DetourEnds'
      <2>1. detours = 1 => rsvpCheckpointInvalidationPending' \/ (checkpoint' = None /\ backup' = None)
            BY <1>1, <1>3, MarkIs DEF IInv, DetourEnds
      <2>2. QED BY <1>1, <2>1 DEF IInv, DetourEnds
<1>11. QED BY <1>7, <1>8, <1>9, <1>10 DEF IInv

\* Leaving Paged tries once more to remove what was superseded.
LEMMA PagedExitsIs ==
    ASSUME PagedExits, Typed
    PROVE  /\ checkpoint' \in {None, checkpoint, backup} /\ backup' \in {None, backup}
           /\ DoubtsTyped'
           /\ ~ rsvpCheckpointInvalidationPending => UNCHANGED <<checkpoint, backup>>
<1>1. CASE rsvpCheckpointInvalidationPending
      <2>1. PICK ok \in BOOLEAN : Invalidated(ok) /\ Settled(ok)
            BY <1>1 DEF PagedExits
      <2>2. QED BY SettledIs, <1>1, <2>1, InvalidatedIs
<1>2. CASE ~ rsvpCheckpointInvalidationPending
      BY DoubtsStay, <1>2 DEF PagedExits, Typed, GhostTyped
<1>3. QED BY <1>1, <1>2

LEMMA ClosePagedStep ==
    ASSUME IInv, ClosePaged
    PROVE  IInv'
<1>1. /\ mode = "paged" /\ PagedExits /\ Closed /\ due' = DueLater
      /\ UNCHANGED <<progress, reached, done>>
      BY DEF ClosePaged
<1>2. checkpoint' \in {None, checkpoint, backup} /\ backup' \in {None, backup} /\ DoubtsTyped'
      BY <1>1, PagedExitsIs DEF IInv
<1>3. Typed'
      <2>1. StoreTyped'
            BY <1>1, <1>2 DEF IInv, Typed, StoreTyped, Records
      <2>2. GhostTyped'
            BY <1>1, <1>2, ClosedIs DEF IInv, Typed, GhostTyped, DueLater, Anchors
      <2>3. QED BY <1>1, <2>1, <2>2, ClosedIs DEF Typed
<1>4. Seen'
      <2>1. reached' \in Words /\ reached <= reached' /\ 0 <= reached'
            BY <1>1, ConstantsAssumption DEF IInv, Typed, GhostTyped, Words
      <2>2. \A w \in Known' \cap Words : w \in Known \/ w <= reached'
            BY <1>1, <1>2, <2>1, ClosedIs, ConstantsAssumption DEF Known
      <2>3. QED BY <2>1, <2>2, SeenGrows DEF IInv
<1>5. FinishedIsForgotten'
      BY <1>1, <1>2, ClosedIs DEF IInv, FinishedIsForgotten
<1>6. DetourEnds'
      BY <1>1, ClosedIs DEF DetourEnds
<1>7. QED BY <1>3, <1>4, <1>5, <1>6 DEF IInv

---------------------------------------------------------------------------
(* The switch to RSVP. *)

LEMMA StartAtIs ==
    ASSUME Typed, NEW w \in Words, NEW restored \in BOOLEAN, StartAt(w, restored)
    PROVE  /\ word' \in {None, w} /\ frame' \in Words /\ state' \in {"reading", "finished"}
           /\ invalidateCheckpointOnNativeFallback' = FALSE
           /\ detours' = 0 /\ done' = FALSE /\ due' \in Anchors
           /\ ~ restored => frame' = w
<1>1. PICK grouping \in BOOLEAN :
        /\ word' = IF restored /\ grouping THEN w ELSE None
        /\ frame' = IF restored /\ grouping /\ w < LastWord THEN w + 1 ELSE w
        /\ state' = IF restored /\ grouping /\ w = LastWord THEN "finished" ELSE "reading"
        /\ invalidateCheckpointOnNativeFallback' = FALSE
        /\ detours' = 0 /\ done' = FALSE
        /\ due' = IF restored /\ grouping THEN w ELSE DueLater
      BY DEF StartAt
<1>2. frame' \in Words
      BY <1>1, ConstantsAssumption DEF Words
<1>3. DueLater \in Anchors
      BY DEF Typed, GhostTyped, DueLater, Anchors
<1>4. due' \in Anchors
      BY <1>1, <1>3 DEF Anchors
<1>5. QED BY <1>1, <1>2, <1>4

LEMMA FallBackIs ==
    ASSUME Typed, NEW invalidate \in BOOLEAN, FallBack(invalidate)
    PROVE  /\ word' = None /\ frame' = 0 /\ state' = "fallback" /\ done' = done
           /\ invalidateCheckpointOnNativeFallback' = invalidate
           /\ detours' = IF invalidate THEN detours + 1 ELSE 0
           /\ due' \in Anchors
BY DEF FallBack, Typed, GhostTyped, DueLater, Anchors

\* RSVP reads, or falls back; a fall-back is a detour only when a checkpoint that was to
\* be restored was rejected.
LEMMA RsvpLoadsIs ==
    ASSUME Typed, NEW context, context.anchor \in Words, RsvpLoads(context)
    PROVE  /\ RsvpTyped' /\ due' \in Anchors /\ done' \in BOOLEAN
           /\ word' \in {None, checkpoint', context.anchor}
           /\ state' # "fallback" => detours' = 0 /\ done' = FALSE
           /\ state' = "fallback" => done' = done
           /\ \/ detours' = 0
              \/ /\ detours' = detours + 1 /\ state' = "fallback"
                 /\ invalidateCheckpointOnNativeFallback' = TRUE
                 /\ context.restoreCheckpoint /\ checkpoint' \in {Rejected, Moved}
<1>1. completionFinalized' = FALSE
      BY DEF RsvpLoads
<1>2. CASE FallBack(FALSE)
      BY <1>1, <1>2, FallBackIs, PagesAreWords DEF RsvpTyped, Anchors, Typed, GhostTyped
<1>3. CASE context.restoreCheckpoint /\ checkpoint' \in {Rejected, Moved} /\ FallBack(TRUE)
      BY <1>1, <1>3, FallBackIs, PagesAreWords DEF RsvpTyped, Anchors, Typed, GhostTyped
<1>4. CASE checkpoint' \in Words /\ StartAt(checkpoint', TRUE)
      BY <1>1, <1>4, StartAtIs DEF RsvpTyped, Anchors
<1>5. CASE StartAt(context.anchor, FALSE)
      BY <1>1, <1>5, StartAtIs DEF RsvpTyped, Anchors
<1>6. QED BY <1>2, <1>3, <1>4, <1>5 DEF RsvpLoads

\* RSVP is asked to restore the checkpoint only when nothing has superseded it.
LEMMA FromPagedIs ==
    ASSUME Typed, NEW context, context = fromPaged(rsvpCheckpointInvalidationPending)
    PROVE  /\ context \in Contexts /\ context.anchor \in Words
           /\ context.anchor \in {0, page, launch.anchor}
           /\ context.restoreCheckpoint =>
                launch.restoreCheckpoint \/ ~ rsvpCheckpointInvalidationPending
<1>1. PageStartAnchor \in Words /\ PageStartAnchor \in {0, page}
      BY PagesAreWords DEF Typed, PagedTyped, PageStartAnchor
<1>2. launch.anchor \in Anchors
      BY DEF Typed, ModeTyped, Contexts
<1>3. PICK a \in Words \cap {0, page, launch.anchor}, r \in BOOLEAN :
        /\ context = Context(a, r, FALSE)
        /\ r => launch.restoreCheckpoint \/ ~ rsvpCheckpointInvalidationPending
      BY <1>1, <1>2 DEF fromPaged, Anchors
<1>4. /\ context = [anchor |-> a, restoreCheckpoint |-> r, checkpointInvalidationPending |-> FALSE]
      BY <1>3 DEF Context
<1>5. context.anchor = a /\ context.restoreCheckpoint = r /\ context \in Contexts
      BY <1>4 DEF Contexts, Anchors
<1>6. QED BY <1>3, <1>5

LEMMA SwitchToRsvpStep ==
    ASSUME IInv, SwitchToRsvp
    PROVE  IInv'
<1>1. /\ mode = "paged" /\ mode' = "rsvp" /\ launch' = fromPaged(rsvpCheckpointInvalidationPending)
      /\ PagedExits /\ NoPaged /\ RsvpLoads(launch') /\ progress' = progress /\ reached' = reached
      BY DEF SwitchToRsvp
<1>2. /\ launch' \in Contexts /\ launch'.anchor \in Words
      /\ launch'.anchor \in {0, page, launch.anchor}
      /\ launch'.restoreCheckpoint => launch.restoreCheckpoint \/ ~ rsvpCheckpointInvalidationPending
      BY <1>1, FromPagedIs DEF IInv
<1>3. /\ checkpoint' \in {None, checkpoint, backup} /\ backup' \in {None, backup}
      /\ DoubtsTyped'
      /\ ~ rsvpCheckpointInvalidationPending => UNCHANGED <<checkpoint, backup>>
      BY <1>1, PagedExitsIs DEF IInv
<1>4. /\ RsvpTyped' /\ due' \in Anchors /\ done' \in BOOLEAN
      /\ word' \in {None, checkpoint', launch'.anchor}
      /\ state' # "fallback" => detours' = 0 /\ done' = FALSE
      /\ state' = "fallback" => done' = done
      /\ \/ detours' = 0
         \/ /\ detours' = detours + 1 /\ state' = "fallback"
            /\ invalidateCheckpointOnNativeFallback' = TRUE
            /\ launch'.restoreCheckpoint /\ checkpoint' \in {Rejected, Moved}
      BY <1>1, <1>2, RsvpLoadsIs DEF IInv
<1>5. Typed'
      <2>1. StoreTyped'
            BY <1>1, <1>3 DEF IInv, Typed, StoreTyped, Records
      <2>2. detours' \in Nat
            BY <1>4 DEF IInv, Typed, GhostTyped
      <2>3. GhostTyped'
            BY <1>1, <1>3, <1>4, <2>2 DEF IInv, Typed, GhostTyped
      <2>4. QED BY <1>1, <1>2, <1>4, <2>1, <2>3, NoPagedIs DEF Typed, ModeTyped
<1>6. Seen'
      <2>1. reached' \in Words /\ reached <= reached' /\ 0 <= reached'
            BY <1>1, ConstantsAssumption DEF IInv, Typed, GhostTyped, Words
      <2>2. \A w \in Known' \cap Words : w \in Known \/ w <= reached'
            BY <1>1, <1>2, <1>3, <1>4, <2>1, NoPagedIs, ConstantsAssumption DEF Known
      <2>3. QED BY <2>1, <2>2, SeenGrows DEF IInv
<1>7. FinishedIsForgotten'
      <2>1. done' => done
            BY <1>4
      <2>2. state' \in {"reading", "finished"} => ~ done'
            BY <1>4
      <2>3. QED BY <1>3, <2>1, <2>2 DEF IInv, FinishedIsForgotten
<1>8. DetourEnds'
      <2>1. detours' \in {0, 1}
            <3>1. CASE detours = 0
                  BY <1>4, <3>1
            <3>2. CASE detours = 1
                  <4>1. ~ launch.restoreCheckpoint
                        BY <1>1, <3>2 DEF IInv, DetourEnds
                  <4>2. launch'.restoreCheckpoint => checkpoint' = None
                        BY <1>1, <1>2, <1>3, <3>2, <4>1 DEF IInv, DetourEnds
                  <4>3. checkpoint' \in {Rejected, Moved} => checkpoint' # None
                        BY ConstantsAssumption
                  <4>4. QED BY <1>4, <4>2, <4>3
            <3>3. QED BY <3>1, <3>2 DEF IInv, DetourEnds
      <2>2. QED BY <1>1, <1>4, <2>1 DEF DetourEnds
<1>9. QED BY <1>5, <1>6, <1>7, <1>8 DEF IInv

---------------------------------------------------------------------------
(* RSVP mode. *)

LEMMA PresentStep ==
    ASSUME IInv, Present
    PROVE  IInv'
<1>1. /\ word' = frame /\ due' = frame /\ Furthest(frame)
      /\ UNCHANGED <<checkpoint, backup, progress, mode, launch, page, section, pagedResumeIntent,
                     rsvpCheckpointInvalidationPending, rsvpSwitchPending, frame, state,
                     invalidateCheckpointOnNativeFallback, completionFinalized, doubts,
                     detours, done>>
      BY DEF Present, stored, paged
<1>2. frame \in Words
      BY DEF IInv, Typed, RsvpTyped
<1>3. reached' \in Words /\ frame <= reached' /\ reached <= reached'
      BY <1>1, <1>2, FurthestGrows DEF IInv, Typed, GhostTyped
<1>4. Typed'
      BY DoubtsStay, <1>1, <1>2, <1>3
      DEF IInv, Typed, StoreTyped, PagedTyped, RsvpTyped, GhostTyped, ModeTyped, Anchors
<1>5. Seen'
      <2>1. \A w \in Known' \cap Words : w \in Known \/ w <= reached'
            BY <1>1, <1>3 DEF Known
      <2>2. QED BY <1>3, <2>1, SeenGrows DEF IInv
<1>6. FinishedIsForgotten' /\ DetourEnds'
      BY <1>1 DEF IInv, FinishedIsForgotten, DetourEnds
<1>7. QED BY <1>4, <1>5, <1>6 DEF IInv

LEMMA RequestStep ==
    ASSUME IInv, Request
    PROVE  IInv'
<1> USE DEF stored, paged, rsvp, ghosts, doubts, DoubtsTyped
<1>1. Typed'
      BY DEF IInv, Typed, StoreTyped, PagedTyped, RsvpTyped, GhostTyped, ModeTyped, Request
<1>2. Seen'
      <2>1. reached' \in Words /\ reached <= reached'
            BY ConstantsAssumption DEF IInv, Typed, GhostTyped, Words, Request
      <2>2. \A w \in Known' \cap Words : w \in Known \/ w <= reached'
            BY ConstantsAssumption DEF IInv, Typed, GhostTyped, RsvpTyped, Known, Request
      <2>3. QED BY <2>1, <2>2, SeenGrows DEF IInv
<1>3. FinishedIsForgotten'
      BY DEF IInv, FinishedIsForgotten, Request
<1>4. DetourEnds'
      BY DEF IInv, DetourEnds, Request
<1>5. QED BY <1>1, <1>2, <1>3, <1>4 DEF IInv

\* A step that writes the records only, as a save or a finalization does, and may know
\* less of the session than before.
LEMMA StoresOnly ==
    ASSUME IInv, checkpoint' \in {None, checkpoint, backup, word},
           backup' \in {None, backup, checkpoint}, progress' \in {progress, word},
           reached' = reached, launch'.anchor \in {launch.anchor, None},
           page' \in {page, 0}, word' \in {word, None}
    PROVE  StoreTyped' /\ Seen'
<1>1. StoreTyped'
      <2>1. word \in Anchors /\ Anchors \subseteq Records /\ None \in Anchors
            BY DEF IInv, Typed, RsvpTyped, Anchors, Records
      <2>2. QED BY <2>1 DEF IInv, Typed, StoreTyped
<1>2. reached' \in Words /\ reached <= reached' /\ 0 <= reached'
      BY ConstantsAssumption DEF IInv, Typed, GhostTyped, Words
<1>3. \A w \in Known' \cap Words : w \in Known \/ w <= reached'
      BY <1>2, ConstantsAssumption DEF Known
<1>4. QED BY <1>1, <1>2, <1>3, SeenGrows DEF IInv

LEMMA SaveWhileReadingStep ==
    ASSUME IInv, SaveWhileReading
    PROVE  IInv'
<1>1. PICK saved \in BOOLEAN : saveCheckpoint(saved)
      BY DEF SaveWhileReading
<1>2. /\ mode = "rsvp" /\ state = "reading"
      /\ UNCHANGED <<mode, launch, page, section, pagedResumeIntent,
                     rsvpCheckpointInvalidationPending, rsvpSwitchPending, frame, word, state,
                     invalidateCheckpointOnNativeFallback, completionFinalized, due, reached,
                     detours, done>>
      BY DEF SaveWhileReading, Reading, paged, rsvp
<1>3. DoubtsTyped'
      BY <1>1, SaveIs DEF IInv, Typed, GhostTyped
<1>4. StoreTyped' /\ Seen'
      <2>1. DoubtsTyped
            BY DEF IInv, Typed, GhostTyped
      <2>2. QED BY <1>1, <1>2, <2>1, SaveIs, StoresOnly
<1>5. Typed'
      BY <1>2, <1>3, <1>4 DEF IInv, Typed, PagedTyped, RsvpTyped, GhostTyped, ModeTyped
<1>6. FinishedIsForgotten' /\ DetourEnds'
      BY <1>2 DEF IInv, FinishedIsForgotten, DetourEnds
<1>7. QED BY <1>4, <1>5, <1>6 DEF IInv

\* The end of the book is stored as a save is, and the checkpoint is gone when it is done.
LEMMA FinalizeIs ==
    ASSUME NEW finalized, finalizeCompletedBook(finalized)
    PROVE  /\ checkpoint' \in {None, checkpoint, backup} /\ backup' \in {None, backup}
           /\ progress' \in {progress, word} /\ DoubtsTyped'
           /\ finalized => checkpoint' = None /\ backup' = None
<1>1. PICK progressSaved \in BOOLEAN, invalidated \in BOOLEAN :
        /\ finalized = (progressSaved /\ invalidated)
        /\ progress' = IF progressSaved THEN word ELSE progress
        /\ IF progressSaved THEN Invalidated(invalidated) ELSE UNCHANGED <<checkpoint, backup>>
        /\ Settled(finalized)
      BY DEF finalizeCompletedBook
<1>2. finalized \in BOOLEAN
      BY <1>1
<1>3. DoubtsTyped'
      BY <1>1, <1>2, SettledIs
<1>4. QED BY <1>1, <1>3 DEF Invalidated

LEMMA FinalizesStep ==
    ASSUME IInv, mode = "rsvp", Finalizes, state' = "finished",
           UNCHANGED <<mode, launch, paged, frame, word, invalidateCheckpointOnNativeFallback,
                       reached, detours>>,
           state # "fallback"
    PROVE  IInv'
<1>1. PICK finalized \in BOOLEAN :
        /\ finalizeCompletedBook(finalized)
        /\ completionFinalized' = finalized /\ done' = finalized
        /\ due' = IF finalized THEN None ELSE due
      BY DEF Finalizes
<1>2. UNCHANGED <<page, section, pagedResumeIntent, rsvpCheckpointInvalidationPending, rsvpSwitchPending>>
      BY DEF paged
<1>3. StoreTyped' /\ Seen'
      BY <1>1, <1>2, FinalizeIs, StoresOnly
<1>4. Typed'
      <2>1. PagedTyped' /\ ModeTyped'
            BY <1>2 DEF IInv, Typed, PagedTyped, ModeTyped
      <2>2. RsvpTyped'
            BY <1>1 DEF IInv, Typed, RsvpTyped
      <2>3. GhostTyped'
            BY <1>1, FinalizeIs DEF IInv, Typed, GhostTyped, Anchors
      <2>4. QED BY <1>3, <2>1, <2>2, <2>3 DEF Typed
<1>5. FinishedIsForgotten'
      BY <1>1, FinalizeIs DEF FinishedIsForgotten
<1>6. DetourEnds'
      BY DEF IInv, DetourEnds
<1>7. QED BY <1>3, <1>4, <1>5, <1>6 DEF IInv

LEMMA FinishStep ==
    ASSUME IInv, Finish
    PROVE  IInv'
BY FinalizesStep DEF Finish, Reading

LEMMA FinalizeAgainStep ==
    ASSUME IInv, FinalizeAgain
    PROVE  IInv'
BY FinalizesStep DEF FinalizeAgain

LEMMA CloseRsvpStep ==
    ASSUME IInv, CloseRsvp
    PROVE  IInv'
<1>1. mode = "rsvp" /\ Closed /\ reached' = reached
      BY DEF CloseRsvp
<1>2. /\ checkpoint' \in {None, checkpoint, backup, word} /\ backup' \in {None, backup, checkpoint}
      /\ progress' \in {progress, word} /\ DoubtsTyped' /\ due' \in Anchors
      /\ done' \in BOOLEAN /\ (done' => checkpoint' = None /\ backup' = None)
      <2>1. CASE state = "reading" /\ (\E saved \in BOOLEAN : saveCheckpoint(saved)) /\ UNCHANGED <<due, done>>
            BY <1>1, <2>1, SaveIs DEF IInv, Typed, GhostTyped, FinishedIsForgotten
      <2>2. CASE \E finalized \in BOOLEAN :
                   /\ finalizeCompletedBook(finalized)
                   /\ done' = finalized /\ due' = IF finalized THEN None ELSE due
            BY <2>2, FinalizeIs DEF IInv, Typed, GhostTyped, Anchors
      <2>3. CASE UNCHANGED <<stored, due, doubts, done>>
            BY DoubtsStay, <2>3 DEF IInv, Typed, GhostTyped, FinishedIsForgotten, stored
      <2>4. QED BY <2>1, <2>2, <2>3 DEF CloseRsvp
<1>3. StoreTyped' /\ Seen'
      BY <1>1, <1>2, ClosedIs, StoresOnly
<1>4. Typed'
      <2>1. GhostTyped'
            BY <1>1, <1>2, ClosedIs DEF IInv, Typed, GhostTyped
      <2>2. QED BY <1>1, <1>3, <2>1, ClosedIs DEF Typed
<1>5. FinishedIsForgotten' /\ DetourEnds'
      BY <1>1, <1>2, ClosedIs DEF FinishedIsForgotten, DetourEnds
<1>6. QED BY <1>3, <1>4, <1>5 DEF IInv

LEMMA SwitchToPagedStep ==
    ASSUME IInv, SwitchToPaged
    PROVE  IInv'
<1>1. /\ mode = "rsvp" /\ state # "fallback" /\ NoRsvp
      /\ due' = (IF word # None THEN word ELSE due)
      /\ UNCHANGED <<reached, detours, done>>
      BY DEF SwitchToPaged
<1>2. PICK saved \in BOOLEAN, r \in BOOLEAN : saveCheckpoint(saved) /\ PagedLoads(Context(word, r, FALSE))
      <2>1. PICK saved \in BOOLEAN, grouping \in BOOLEAN :
              saveCheckpoint(saved) /\ PagedLoads(Context(word, saved /\ grouping, FALSE))
            BY DEF SwitchToPaged
      <2>2. (saved /\ grouping) \in BOOLEAN
            OBVIOUS
      <2>3. QED BY <2>1, <2>2
<1> DEFINE c == [anchor |-> word, restoreCheckpoint |-> r, checkpointInvalidationPending |-> FALSE]
<1>3. PagedLoads(c)
      BY <1>2 DEF Context
<1>4. word \in Anchors
      BY DEF IInv, Typed, RsvpTyped
<1>5. c \in Contexts /\ c.anchor = word
      BY <1>4 DEF Contexts
<1>6. /\ checkpoint' \in {checkpoint, word} /\ progress' \in {progress, word}
      /\ backup' \in {None, backup, checkpoint}
      /\ word = None \/ completionFinalized => UNCHANGED stored
      BY <1>2, SaveIs DEF IInv, Typed, GhostTyped
<1>7. StoreTyped'
      <2>1. Anchors \subseteq Records /\ None \in Records
            BY DEF Anchors, Records
      <2>2. QED BY <1>4, <1>6, <2>1 DEF IInv, Typed, StoreTyped
<1>8. GhostTyped'
      <2>1. DoubtsTyped'
            BY <1>2, SaveIs DEF IInv, Typed, GhostTyped
      <2>2. QED BY <1>1, <1>4, <2>1 DEF IInv, Typed, GhostTyped
<1>9. RsvpTyped' /\ word' = None
      BY <1>1, NoRsvpIs
<1>10. \A w \in {checkpoint', backup', progress', c.anchor, word'} \cap Words : w \in Known \/ w <= reached'
      BY <1>5, <1>6, <1>9, ConstantsAssumption DEF Known
<1>11. reached <= reached'
      BY <1>1, ConstantsAssumption DEF IInv, Typed, GhostTyped, Words
<1>12. Typed' /\ Seen'
      <2> HIDE DEF c
      <2>1. QED BY <1>3, <1>5, <1>7, <1>8, <1>9, <1>10, <1>11, OpensPaged DEF IInv
<1>13. mode' = "paged"
      BY <1>3 DEF PagedLoads
<1>14. FinishedIsForgotten'
      <2>1. done => completionFinalized
            BY <1>1 DEF IInv, Typed, RsvpTyped, FinishedIsForgotten
      <2>2. done => UNCHANGED <<checkpoint, backup>>
            BY <1>6, <2>1 DEF stored
      <2>3. QED BY <1>1, <1>13, <2>2 DEF IInv, FinishedIsForgotten
<1>15. DetourEnds'
      BY <1>1, <1>13 DEF IInv, DetourEnds
<1>16. QED BY <1>12, <1>14, <1>15 DEF IInv

LEMMA FallBackToPagedStep ==
    ASSUME IInv, FallBackToPaged
    PROVE  IInv'
<1>1. /\ mode = "rsvp" /\ state = "fallback" /\ NoRsvp
      /\ UNCHANGED <<due, reached, detours, done>>
      BY DEF FallBackToPaged
<1>2. PICK p \in BOOLEAN :
        /\ PagedLoads(Context(None, FALSE, p))
        /\ checkpoint' \in {None, checkpoint, backup} /\ backup' \in {None, backup}
        /\ progress' = progress /\ DoubtsTyped'
        /\ invalidateCheckpointOnNativeFallback => p \/ (checkpoint' = None /\ backup' = None)
      <2>1. CASE invalidateCheckpointOnNativeFallback
            <3>1. PICK ok \in BOOLEAN :
                    /\ Invalidated(ok) /\ Settled(ok) /\ UNCHANGED progress
                    /\ PagedLoads(Context(None, FALSE, ~ ok))
                  BY <2>1 DEF FallBackToPaged
            <3>2. CASE ok = TRUE
                  <4>1. PagedLoads(Context(None, FALSE, FALSE))
                        BY <3>1, <3>2
                  <4>2. QED BY SettledIs, <3>1, <3>2, <4>1, InvalidatedIs
            <3>3. CASE ok = FALSE
                  <4>1. PagedLoads(Context(None, FALSE, TRUE))
                        BY <3>1, <3>3
                  <4>2. QED BY SettledIs, <3>1, <3>3, <4>1, InvalidatedIs
            <3>4. QED BY <3>2, <3>3
      <2>2. CASE ~ invalidateCheckpointOnNativeFallback
            BY DoubtsStay, <2>2 DEF FallBackToPaged, Fresh, stored, IInv, Typed, GhostTyped
      <2>3. QED BY <2>1, <2>2
<1> DEFINE c == [anchor |-> None, restoreCheckpoint |-> FALSE, checkpointInvalidationPending |-> p]
<1>3. PagedLoads(c)
      BY <1>2 DEF Context
<1>4. /\ c \in Contexts /\ c.anchor = None
      /\ c.restoreCheckpoint = FALSE /\ c.checkpointInvalidationPending = p
      BY DEF Contexts, Anchors
<1> HIDE DEF c
<1>5. StoreTyped' /\ GhostTyped'
      BY <1>1, <1>2 DEF IInv, Typed, StoreTyped, GhostTyped, Records
<1>6. RsvpTyped' /\ word' = None
      BY <1>1, NoRsvpIs
<1>7. \A w \in {checkpoint', backup', progress', c.anchor, word'} \cap Words : w \in Known \/ w <= reached'
      BY <1>2, <1>4, <1>6, ConstantsAssumption DEF Known
<1>8. reached <= reached'
      BY <1>1, ConstantsAssumption DEF IInv, Typed, GhostTyped, Words
<1>9. Typed' /\ Seen'
      BY <1>3, <1>4, <1>5, <1>6, <1>7, <1>8, OpensPaged DEF IInv
<1>10. /\ mode' = "paged" /\ rsvpCheckpointInvalidationPending' = p
       /\ p \/ checkpoint' = None => launch' = c
      BY <1>3, <1>4, <1>5, PagedLoadsIs DEF StoreTyped
<1>11. FinishedIsForgotten'
      BY <1>1, <1>2, <1>10 DEF IInv, FinishedIsForgotten
<1>12. DetourEnds'
      <2>1. detours = 1 => p \/ (checkpoint' = None /\ backup' = None)
            BY <1>1, <1>2 DEF IInv, DetourEnds
      <2>2. detours = 1 => launch'.restoreCheckpoint = FALSE
            BY <1>4, <1>10, <2>1
      <2>3. QED BY <1>1, <1>10, <2>1, <2>2 DEF IInv, DetourEnds
<1>13. QED BY <1>9, <1>11, <1>12 DEF IInv

---------------------------------------------------------------------------
(* Sync, a loss of power, a replaced file. *)

LEMMA LaunchSyncStep ==
    ASSUME IInv, LaunchSync
    PROVE  IInv'
<1>1. /\ mode' = "sync" /\ progress' = page /\ PagedExits /\ NoPaged /\ launch' = Fresh
      /\ detours' = 0 /\ due' = DueLater
      /\ UNCHANGED <<frame, word, state, invalidateCheckpointOnNativeFallback, completionFinalized,
                     reached, done>>
      BY DEF LaunchSync, rsvp
<1>2. checkpoint' \in {None, checkpoint, backup} /\ backup' \in {None, backup} /\ DoubtsTyped'
      BY <1>1, PagedExitsIs DEF IInv
<1>3. page \in Words
      BY PagesAreWords DEF IInv, Typed, PagedTyped
<1>4. Typed'
      <2>1. StoreTyped'
            BY <1>1, <1>2, <1>3 DEF IInv, Typed, StoreTyped, Records, Anchors
      <2>2. GhostTyped'
            BY <1>1, <1>2 DEF IInv, Typed, GhostTyped, DueLater, Anchors
      <2>3. RsvpTyped' /\ ModeTyped'
            BY <1>1, FreshIs DEF IInv, Typed, RsvpTyped, ModeTyped
      <2>4. QED BY <1>1, <2>1, <2>2, <2>3, NoPagedIs DEF Typed
<1>5. Seen'
      <2>1. reached' \in Words /\ reached <= reached' /\ 0 <= reached'
            BY <1>1, ConstantsAssumption DEF IInv, Typed, GhostTyped, Words
      <2>2. \A w \in Known' \cap Words : w \in Known \/ w <= reached'
            BY <1>1, <1>2, <2>1, NoPagedIs, FreshIs, ConstantsAssumption DEF Known
      <2>3. QED BY <2>1, <2>2, SeenGrows DEF IInv
<1>6. FinishedIsForgotten' /\ DetourEnds'
      BY <1>1, <1>2 DEF IInv, FinishedIsForgotten, DetourEnds
<1>7. QED BY <1>4, <1>5, <1>6 DEF IInv

\* Paged opens without a context after sync.
LEMMA ReturnFromSync ==
    ASSUME IInv, mode = "sync", PagedLoads(Fresh), GhostTyped', reached <= reached',
           progress' \in Words => progress' \in Known \/ progress' <= reached',
           progress' \in Anchors, detours' = detours, done' = done,
           UNCHANGED <<checkpoint, backup, rsvp>>
    PROVE  IInv'
<1>1. UNCHANGED <<frame, word, state, invalidateCheckpointOnNativeFallback, completionFinalized>>
      BY DEF rsvp
<1>2. StoreTyped' /\ RsvpTyped'
      BY <1>1 DEF IInv, Typed, StoreTyped, RsvpTyped
<1>3. \A w \in {checkpoint', backup', progress', Fresh.anchor, word'} \cap Words : w \in Known \/ w <= reached'
      BY <1>1, FreshIs, ConstantsAssumption DEF Known
<1>4. Typed' /\ Seen'
      BY <1>2, <1>3, FreshIs, OpensPaged DEF IInv
<1>5. mode' = "paged"
      BY DEF PagedLoads
<1>6. FinishedIsForgotten' /\ DetourEnds'
      BY <1>5 DEF IInv, FinishedIsForgotten, DetourEnds
<1>7. QED BY <1>4, <1>6 DEF IInv

LEMMA ApplyRemoteStep ==
    ASSUME IInv, ApplyRemote
    PROVE  IInv'
<1>1. PICK w \in Words : /\ progress' = w /\ Furthest(w)
                         /\ remote' = IF checkpoint \in Words THEN PageStart(w) ELSE None
      BY DEF ApplyRemote
<1>2. reached' \in Words /\ w <= reached' /\ reached <= reached'
      BY <1>1, FurthestGrows DEF IInv, Typed, GhostTyped
<1>3. mode = "sync" /\ PagedLoads(Fresh) /\ due' \in {due, None}
      /\ UNCHANGED <<checkpoint, backup, rsvp, uncertain, detours, done>>
      BY DEF ApplyRemote
<1>4. GhostTyped'
      BY <1>1, <1>2, <1>3, PageStartIsWord DEF IInv, Typed, GhostTyped, DoubtsTyped, Anchors
<1>5. progress' \in Anchors /\ (progress' \in Words => progress' <= reached')
      BY <1>1, <1>2 DEF Anchors
<1>6. QED BY <1>2, <1>3, <1>4, <1>5, ReturnFromSync

LEMMA SyncReturnsStep ==
    ASSUME IInv, SyncReturns
    PROVE  IInv'
<1>1. mode = "sync" /\ PagedLoads(Fresh)
      /\ UNCHANGED <<checkpoint, backup, progress, rsvp, due, doubts, reached, detours, done>>
      BY DEF SyncReturns, stored, ghosts
<1>2. GhostTyped' /\ reached <= reached'
      BY DoubtsStay, <1>1, ConstantsAssumption DEF IInv, Typed, GhostTyped, Words
<1>3. progress' \in Anchors /\ progress' \in Known
      BY <1>1 DEF IInv, Typed, StoreTyped, Known
<1>4. QED BY <1>1, <1>2, <1>3, ReturnFromSync

LEMMA LosePowerStep ==
    ASSUME IInv, LosePower
    PROVE  IInv'
<1>1. /\ Closed /\ due' = DueLater /\ UNCHANGED <<backup, progress, remote, reached, done>>
      /\ uncertain' = (IF mode = "rsvp" /\ word # None THEN TRUE ELSE uncertain)
      BY DEF LosePower
<1>2. checkpoint' = checkpoint \/ (mode = "rsvp" /\ state = "reading" /\ checkpoint' = word)
      BY DEF LosePower, Reading
<1>3. StoreTyped' /\ Seen'
      BY <1>1, <1>2, ClosedIs, StoresOnly
<1>4. GhostTyped'
      <2>1. DoubtsTyped /\ due \in Anchors /\ reached \in Words /\ done \in BOOLEAN
            BY DEF IInv, Typed, GhostTyped
      <2>2. DoubtsTyped'
            BY <1>1, <2>1 DEF DoubtsTyped
      <2>3. due' \in Anchors
            BY <1>1, <2>1 DEF DueLater, Anchors
      <2>4. detours' = 0
            BY <1>1, ClosedIs
      <2>5. QED BY <1>1, <2>1, <2>2, <2>3, <2>4 DEF GhostTyped
<1>5. Typed'
      BY <1>1, <1>3, <1>4, ClosedIs DEF Typed
<1>6. FinishedIsForgotten' /\ DetourEnds'
      BY <1>1, <1>2, ClosedIs DEF IInv, FinishedIsForgotten, DetourEnds
<1>7. QED BY <1>3, <1>5, <1>6 DEF IInv

LEMMA ReplaceFileStep ==
    ASSUME IInv, ReplaceFile
    PROVE  IInv'
<1> USE DEF stored, paged, rsvp, ghosts, doubts, DoubtsTyped
<1>1. Typed'
      BY DEF IInv, Typed, StoreTyped, PagedTyped, RsvpTyped, GhostTyped, ModeTyped, Records, Anchors,
             ReplaceFile
<1>2. Seen'
      <2>1. reached' \in Words /\ reached <= reached'
            BY ConstantsAssumption DEF IInv, Typed, GhostTyped, Words, ReplaceFile
      <2>2. \A w \in Known' \cap Words : w \in Known \/ w <= reached'
            BY ConstantsAssumption DEF IInv, Typed, GhostTyped, RsvpTyped, Known, ReplaceFile
      <2>3. QED BY <2>1, <2>2, SeenGrows DEF IInv
<1>3. FinishedIsForgotten'
      BY ConstantsAssumption DEF IInv, FinishedIsForgotten, ReplaceFile
<1>4. DetourEnds'
      BY DEF IInv, DetourEnds, ReplaceFile
<1>5. QED BY <1>1, <1>2, <1>3, <1>4 DEF IInv

---------------------------------------------------------------------------
LEMMA InitStep ==
    ASSUME Init
    PROVE  IInv
<1>1. Typed
      BY PagesAreWords, FreshIs
      DEF Init, Typed, StoreTyped, PagedTyped, RsvpTyped, GhostTyped, ModeTyped, Records, Anchors, DoubtsTyped
<1>2. Seen
      BY FreshIs, ConstantsAssumption DEF Init, Seen, Known, Words
<1>3. FinishedIsForgotten /\ DetourEnds
      BY DEF Init, FinishedIsForgotten, DetourEnds
<1>4. QED BY <1>1, <1>2, <1>3 DEF IInv

LEMMA NextStep ==
    ASSUME IInv, [Next]_vars
    PROVE  IInv'
<1>1. CASE UNCHANGED vars
      <2>1. UNCHANGED <<checkpoint, backup, progress, mode, launch, page, section, pagedResumeIntent,
                        rsvpCheckpointInvalidationPending, rsvpSwitchPending, frame, word, state,
                        invalidateCheckpointOnNativeFallback, completionFinalized, due, doubts,
                        reached, detours, done>>
            BY <1>1 DEF vars, stored, paged, rsvp, ghosts
      <2>2. Typed'
            BY DoubtsStay, <2>1 DEF IInv, Typed, StoreTyped, PagedTyped, RsvpTyped, GhostTyped, ModeTyped
      <2>3. QED BY <2>1, <2>2 DEF IInv, Seen, Known, FinishedIsForgotten, DetourEnds
<1>2. CASE PagedStep
      BY <1>2, NavigateStep, ClosePagedStep, SwitchWaitsStep, SwitchToRsvpStep, LaunchSyncStep DEF PagedStep
<1>3. CASE RenderStep
      BY <1>3, PlaceSectionStep, RenderPageStep DEF RenderStep
<1>4. CASE RsvpStep
      BY <1>4, PresentStep, RequestStep, SaveWhileReadingStep, FinishStep, FinalizeAgainStep,
         CloseRsvpStep, SwitchToPagedStep, FallBackToPagedStep DEF RsvpStep
<1>5. CASE SyncStep
      BY <1>5, ApplyRemoteStep, SyncReturnsStep DEF SyncStep
<1>6. CASE Open \/ LosePower \/ ReplaceFile
      BY <1>6, OpenStep, LosePowerStep, ReplaceFileStep
<1>7. QED BY <1>1, <1>2, <1>3, <1>4, <1>5, <1>6 DEF Next

\* The invariant holds in every state of every behaviour.
THEOREM IInvHolds == Spec => []IInv
<1>1. Init => IInv
      BY InitStep
<1>2. IInv /\ [Next]_vars => IInv'
      BY NextStep
<1>3. QED BY <1>1, <1>2, PTL DEF Spec

\* Types of the records, the readers and what is remembered about them.
THEOREM TypeCorrect == Spec => []TypeOK
<1>1. IInv => TypeOK
      BY DEF IInv, TypeOK, Typed, StoreTyped, PagedTyped, RsvpTyped, GhostTyped, ModeTyped,
             Records, Anchors, Contexts, DoubtsTyped
<1>2. QED BY <1>1, IInvHolds, PTL

\* No word that was never shown or chosen is recorded, for any length of the book.
THEOREM OnlySeenIsStored == Spec => []NothingUnseenIsStored
<1>1. IInv => NothingUnseenIsStored
      BY DEF IInv, Seen, Known, NothingUnseenIsStored
<1>2. QED BY <1>1, IInvHolds, PTL

\* A finished book has no checkpoint until it is read in RSVP again.
THEOREM FinishedStaysFinished == Spec => []FinishedIsNotOffered
<1>1. IInv => FinishedIsNotOffered
      BY DEF IInv, FinishedIsForgotten, FinishedIsNotOffered
<1>2. QED BY <1>1, IInvHolds, PTL

\* A rejected checkpoint costs at most one detour.
THEOREM DetoursEnd == Spec => []DetourIsNotRepeated
<1>1. IInv => DetourIsNotRepeated
      BY DEF IInv, DetourEnds, DetourIsNotRepeated
<1>2. QED BY <1>1, IInvHolds, PTL

\* Only the switch leads from the Paged reader to RSVP.
LEMMA OnlyTheSwitchStarts ==
    ASSUME [Next]_vars, Starting
    PROVE  SwitchToRsvp
<1>1. mode = "paged" /\ mode' = "rsvp"
      BY DEF Starting
<1>2. ~ UNCHANGED vars
      BY <1>1 DEF vars
<1>3. ~ (Navigate \/ ClosePaged \/ SwitchWaits \/ LaunchSync)
      BY <1>1 DEF Navigate, ClosePaged, Closed, SwitchWaits, LaunchSync
<1>4. ~ RenderStep
      BY <1>1 DEF RenderStep, PlaceSection, RenderPage
<1>5. ~ RsvpStep
      BY <1>1 DEF RsvpStep, Present, Request, SaveWhileReading, Finish, FinalizeAgain, CloseRsvp,
                  SwitchToPaged, FallBackToPaged, Reading
<1>6. ~ (SyncStep \/ Open \/ LosePower \/ ReplaceFile)
      BY <1>1 DEF SyncStep, ApplyRemote, SyncReturns, Open, LosePower, Closed, ReplaceFile
<1>7. QED BY <1>2, <1>3, <1>4, <1>5, <1>6 DEF Next, PagedStep

\* A page that was selected decides where RSVP starts once the page is placed, whatever
\* the card still holds.
THEOREM ChosenPageStarts == Spec => ChosenPageWins
<1>1. ASSUME IInv, [Next]_vars, Starting, section # "placing",
             pagedResumeIntent = "ExplicitNavigation"
      PROVE  frame' = page
      <2>1. /\ launch' = fromPaged(rsvpCheckpointInvalidationPending) /\ RsvpLoads(launch')
            /\ state' # "fallback"
            BY <1>1, OnlyTheSwitchStarts DEF SwitchToRsvp, Starting
      <2>2. launch'.anchor = page /\ launch'.restoreCheckpoint = FALSE
            BY <1>1, <2>1 DEF fromPaged, Explicit, PageStartAnchor, Context
      <2>3. StartAt(launch'.anchor, FALSE)
            BY <2>1, <2>2 DEF RsvpLoads, FallBack
      <2>4. frame' = launch'.anchor
            BY <2>3 DEF StartAt
      <2>5. QED BY <2>2, <2>4
<1>2. IInv /\ [Next]_vars =>
        [Starting /\ section # "placing" /\ pagedResumeIntent = "ExplicitNavigation"
          => frame' = page]_vars
      BY <1>1
<1>3. QED BY <1>2, IInvHolds, PTL DEF Spec, ChosenPageWins

---------------------------------------------------------------------------
(* Where the reader expects to go on.  Unless storage has failed or power was lost, the  *)
(* word that is due is the one the checkpoint holds, or, where there is none any more,   *)
(* the one that the launch context hands over, and native progress points at the same    *)
(* page, or at that of a remote position that was applied since.                         *)

RecordsMatch ==
    ~ uncertain /\ checkpoint \in Words =>
      progress \in Words /\ PageStart(progress) \in StoredPages

PageMatches == mode = "paged" /\ ~ uncertain /\ checkpoint \in Words => page \in StoredPages

\* While RSVP has presented a word, that word is yet to be saved.
DueIsStored ==
    ~ uncertain /\ ~ done /\ (mode = "rsvp" => word = None) =>
      IF due = None THEN checkpoint \notin Words ELSE checkpoint = due

\* Only the launch context remembers where a finished book ended.
FinishedIsHandedOver == done /\ due # None => mode = "paged" /\ launch.anchor = due

RsvpIsDue ==
    mode = "rsvp" =>
      /\ word # None /\ ~ completionFinalized => due = word
      /\ completionFinalized => done
      /\ state = "fallback" => word = None
      /\ state = "fallback" /\ invalidateCheckpointOnNativeFallback => due = None

PagedIsDue ==
    mode = "paged" =>
      /\ Explicit \/ rsvpCheckpointInvalidationPending => due = None
      /\ rsvpCheckpointInvalidationPending => uncertain

\* An anchor that was handed over is the word that is due, except where the checkpoint's
\* word has moved.
AnchorIsDue ==
    mode = "paged" /\ ~ uncertain /\ ~ Explicit /\ launch.anchor # None =>
      IF due = None THEN checkpoint = Moved /\ launch.restoreCheckpoint ELSE launch.anchor = due

Expected == /\ RecordsMatch /\ PageMatches /\ DueIsStored /\ FinishedIsHandedOver
            /\ RsvpIsDue /\ PagedIsDue /\ AnchorIsDue

\* The page of a page is itself.
LEMMA PageStartAgain ==
    ASSUME NEW p \in Pages
    PROVE  PageStart(p) = p
<1> USE ConstantsAssumption
<1>1. PICK w \in Words : p = PageStart(w)
      BY DEF Pages
<1>2. w \in Nat /\ p \in Words
      BY PagesAreWords DEF Words
<1>3. p = w - (w % PageSize)
      BY <1>1 DEF PageStart
<1>4. (w - (w % PageSize)) % PageSize = 0
      BY <1>2
<1>5. p % PageSize = 0 /\ p \in Nat
      BY <1>2, <1>3, <1>4 DEF Words
<1>6. QED BY <1>5 DEF PageStart

LEMMA NoneIsNoWord == None \notin Words /\ Moved \notin Words \cup {None} /\ Rejected \notin Words \cup {None}
BY ConstantsAssumption

\* What none of this is about.
LEMMA ExpectedStays ==
    ASSUME Expected,
           UNCHANGED <<checkpoint, progress, doubts, mode, launch, page, pagedResumeIntent,
                       rsvpCheckpointInvalidationPending, word, state,
                       invalidateCheckpointOnNativeFallback, completionFinalized, due, done>>
    PROVE  Expected'
<1>1. RecordsMatch' /\ PageMatches' /\ DueIsStored' /\ FinishedIsHandedOver'
      BY DEF Expected, RecordsMatch, PageMatches, DueIsStored, FinishedIsHandedOver, PageStart, StoredPages, doubts
<1>2. RsvpIsDue' /\ PagedIsDue' /\ AnchorIsDue'
      BY DEF Expected, RsvpIsDue, PagedIsDue, AnchorIsDue, Explicit, StoredPages, doubts
<1>3. QED BY <1>1, <1>2 DEF Expected

\* A book that is closed, or left for a sync, keeps only what is stored.
LEMMA ExpectedOutside ==
    ASSUME mode' \in {"closed", "sync"}, RecordsMatch', DueIsStored', done' => due' = None
    PROVE  Expected'
BY DEF Expected, PageMatches, FinishedIsHandedOver, RsvpIsDue, PagedIsDue, AnchorIsDue

\* Opening Paged: at the anchor that is due, or at what the records say.
LEMMA ExpectedInPaged ==
    ASSUME NEW context \in Contexts, PagedLoads(context), IInv', RecordsMatch',
           ~ uncertain' /\ ~ done' => IF due' = None THEN checkpoint' \notin Words ELSE checkpoint' = due',
           context.checkpointInvalidationPending => uncertain' /\ due' = None,
           context.anchor # None => due' = context.anchor,
           done' /\ due' # None => context.anchor = due'
    PROVE  Expected'
<1>1. /\ mode' = "paged" /\ pagedResumeIntent' = "CheckpointEligible"
      /\ rsvpCheckpointInvalidationPending' = context.checkpointInvalidationPending
      /\ page' = PageStart(IF launch'.anchor # None THEN launch'.anchor
                           ELSE IF progress' # None THEN progress' ELSE 0)
      BY DEF PagedLoads
<1>2. /\ checkpoint' \in Records /\ due' \in Anchors /\ done' \in BOOLEAN
      /\ done' => checkpoint' = None
      BY DEF IInv, Typed, StoreTyped, GhostTyped, FinishedIsForgotten
<1>3. \/ launch' = context
      \/ /\ context.anchor = None /\ launch'.restoreCheckpoint
         /\ \/ checkpoint' \in Words /\ launch'.anchor = checkpoint'
            \/ checkpoint' = Moved
      <2>1. PICK readable \in BOOLEAN :
              launch' = IF context.anchor = None /\ ~ context.checkpointInvalidationPending
                           /\ readable /\ checkpoint' \notin {None, Rejected}
                        THEN Context(IF checkpoint' = Moved THEN 0 ELSE checkpoint', TRUE, FALSE)
                        ELSE context
            BY DEF PagedLoads
      <2>2. CASE launch' = context
            BY <2>2
      <2>3. CASE launch' # context
            <3>1. /\ context.anchor = None /\ checkpoint' \notin {None, Rejected}
                  /\ launch' = Context(IF checkpoint' = Moved THEN 0 ELSE checkpoint', TRUE, FALSE)
                  BY <2>1, <2>3
            <3>2. checkpoint' \in Words \/ checkpoint' = Moved
                  BY <1>2, <3>1 DEF Records
            <3>3. /\ launch'.restoreCheckpoint
                  /\ launch'.anchor = IF checkpoint' = Moved THEN 0 ELSE checkpoint'
                  BY <3>1 DEF Context
            <3>4. QED BY <3>1, <3>2, <3>3, NoneIsNoWord
      <2>4. QED BY <2>2, <2>3
<1>4. PageMatches'
      <2> SUFFICES ASSUME ~ uncertain', checkpoint' \in Words
                   PROVE  page' \in StoredPages'
          BY DEF PageMatches
      <2>1. due' = checkpoint' /\ checkpoint' # None
            BY <1>2, NoneIsNoWord
      <2>2. /\ progress' \in Words /\ PageStart(progress') \in StoredPages'
            /\ PageStart(checkpoint') \in StoredPages'
            BY DEF RecordsMatch, StoredPages, PageStart
      <2>3. CASE launch' = context
            BY <1>1, <2>1, <2>2, <2>3, NoneIsNoWord
      <2>4. CASE launch'.anchor = checkpoint'
            BY <1>1, <2>1, <2>2, <2>4
      <2>5. QED BY <1>3, <2>3, <2>4, NoneIsNoWord
<1>5. FinishedIsHandedOver'
      <2>1. done' /\ due' # None => launch' = context
            BY <1>3
      <2>2. QED BY <1>1, <2>1 DEF FinishedIsHandedOver
<1>6. PagedIsDue'
      BY <1>1 DEF PagedIsDue, Explicit
<1>7. AnchorIsDue'
      <2> SUFFICES ASSUME ~ uncertain', launch'.anchor # None
                   PROVE  IF due' = None THEN checkpoint' = Moved /\ launch'.restoreCheckpoint
                          ELSE launch'.anchor = due'
          BY DEF AnchorIsDue
      <2>1. CASE launch' = context
            BY <2>1
      <2>2. CASE checkpoint' \in Words /\ launch'.anchor = checkpoint'
            BY <1>2, <2>2, NoneIsNoWord
      <2>3. CASE checkpoint' = Moved /\ launch'.restoreCheckpoint
            <3>1. due' # None => checkpoint' = due'
                  BY <1>2, <2>3, NoneIsNoWord
            <3>2. due' = None
                  BY <1>2, <2>3, <3>1, NoneIsNoWord DEF Anchors
            <3>3. QED BY <2>3, <3>2
      <2>4. QED BY <1>3, <2>1, <2>2, <2>3
<1>8. DueIsStored' /\ RsvpIsDue'
      BY <1>1 DEF DueIsStored, RsvpIsDue
<1>9. QED BY <1>4, <1>5, <1>6, <1>7, <1>8 DEF Expected

\* Leaving Paged: what was superseded is removed, or storage has failed, or there was
\* nothing to remove.
LEMMA ExitLeaves ==
    ASSUME Expected, mode = "paged", PagedExits
    PROVE  ~ uncertain' => \/ checkpoint' = None /\ due = None
                           \/ UNCHANGED <<checkpoint, doubts>> /\ ~ uncertain
                              /\ ~ rsvpCheckpointInvalidationPending
<1>1. CASE rsvpCheckpointInvalidationPending
      <2>1. PICK ok \in BOOLEAN : Invalidated(ok) /\ Settled(ok)
            BY <1>1 DEF PagedExits
      <2>2. due = None
            BY <1>1 DEF Expected, PagedIsDue
      <2>3. QED BY <2>1, <2>2 DEF Invalidated, Settled
<1>2. CASE ~ rsvpCheckpointInvalidationPending
      BY <1>2 DEF PagedExits, doubts
<1>3. QED BY <1>1, <1>2

LEMMA OpenExpected ==
    ASSUME IInv', Expected, Open
    PROVE  Expected'
<1>1. mode = "closed" /\ PagedLoads(Fresh)
      /\ UNCHANGED <<checkpoint, backup, progress, due, doubts, reached, detours, done>>
      BY DEF Open, stored, ghosts
<1>2. RecordsMatch'
      BY <1>1 DEF Expected, RecordsMatch, StoredPages, PageStart, doubts
<1>3. ~ uncertain' /\ ~ done' => IF due' = None THEN checkpoint' \notin Words ELSE checkpoint' = due'
      BY <1>1 DEF Expected, DueIsStored, doubts
<1>4. done' => due' = None
      BY <1>1 DEF Expected, FinishedIsHandedOver
<1>5. QED BY <1>1, <1>2, <1>3, <1>4, FreshIs, ExpectedInPaged

LEMMA RenderPageExpected ==
    ASSUME IInv, Expected, RenderPage
    PROVE  Expected'
<1>1. /\ mode = "paged" /\ mode' = mode /\ launch' = launch /\ page' = page
      /\ progress' \in {page, progress}
      /\ UNCHANGED <<checkpoint, pagedResumeIntent, rsvpCheckpointInvalidationPending, word, state,
                     invalidateCheckpointOnNativeFallback, completionFinalized, due, doubts, done>>
      BY DEF RenderPage, rsvp
<1>2. page \in Words /\ PageStart(page) = page
      BY PagesAreWords, PageStartAgain DEF IInv, Typed, PagedTyped
<1>3. RecordsMatch'
      <2> SUFFICES ASSUME ~ uncertain, checkpoint \in Words
                   PROVE  progress' \in Words /\ PageStart(progress') \in StoredPages
          BY <1>1 DEF RecordsMatch, StoredPages, PageStart, doubts
      <2>1. page \in StoredPages
            BY <1>1 DEF Expected, PageMatches
      <2>2. CASE progress' = page
            BY <1>2, <2>1, <2>2
      <2>3. CASE progress' = progress
            BY <2>3 DEF Expected, RecordsMatch, doubts
      <2>4. QED BY <1>1, <2>2, <2>3
<1>4. PageMatches' /\ DueIsStored' /\ FinishedIsHandedOver'
      BY <1>1 DEF Expected, PageMatches, DueIsStored, FinishedIsHandedOver, PageStart, StoredPages, doubts
<1>5. RsvpIsDue' /\ PagedIsDue' /\ AnchorIsDue'
      BY <1>1 DEF Expected, RsvpIsDue, PagedIsDue, AnchorIsDue, Explicit, StoredPages, doubts
<1>6. QED BY <1>3, <1>4, <1>5 DEF Expected

\* A navigation leaves no checkpoint to go on from, unless its removal has failed.
LEMMA NavigateExpected ==
    ASSUME IInv, Expected, Navigate
    PROVE  Expected'
<1>1. /\ mode = "paged" /\ mode' = mode /\ due' = None /\ done' = done
      /\ markExplicitPagedNavigation /\ pagedResumeIntent' = "ExplicitNavigation"
      BY DEF Navigate, markExplicitPagedNavigation
<1>2. ~ uncertain' => checkpoint' \notin Words /\ ~ rsvpCheckpointInvalidationPending'
      <2>1. CASE RetryInvalidation
            <3>1. PICK ok \in BOOLEAN : /\ Invalidated(ok) /\ rsvpCheckpointInvalidationPending' = ~ ok
                                        /\ Settled(ok)
                  BY <2>1 DEF RetryInvalidation
            <3>2. ok => checkpoint' = None
                  BY <3>1, InvalidatedIs
            <3>3. CASE ok = TRUE
                  BY <3>1, <3>2, <3>3, NoneIsNoWord
            <3>4. CASE ok = FALSE
                  BY <3>1, <3>4 DEF Settled
            <3>5. QED BY <3>3, <3>4
      <2>2. CASE /\ Explicit /\ ~ rsvpCheckpointInvalidationPending
                 /\ UNCHANGED <<checkpoint, backup, rsvpCheckpointInvalidationPending, doubts>>
            <3>1. due = None
                  BY <1>1, <2>2 DEF Expected, PagedIsDue
            <3>2. CASE done
                  BY <2>2, <3>2, NoneIsNoWord DEF IInv, FinishedIsForgotten
            <3>3. CASE ~ done
                  BY <1>1, <2>2, <3>1, <3>3 DEF Expected, DueIsStored, doubts
            <3>4. QED BY <2>2, <3>2, <3>3
      <2>3. QED BY <1>1, <2>1, <2>2 DEF markExplicitPagedNavigation, Explicit
<1>3. RecordsMatch' /\ PageMatches' /\ DueIsStored' /\ FinishedIsHandedOver'
      BY <1>1, <1>2 DEF RecordsMatch, PageMatches, DueIsStored, FinishedIsHandedOver
<1>4. RsvpIsDue' /\ PagedIsDue' /\ AnchorIsDue'
      BY <1>1, <1>2 DEF RsvpIsDue, PagedIsDue, AnchorIsDue, Explicit
<1>5. QED BY <1>3, <1>4 DEF Expected

LEMMA ClosePagedExpected ==
    ASSUME IInv, Expected, ClosePaged
    PROVE  Expected'
<1>1. /\ mode = "paged" /\ mode' = "closed" /\ PagedExits /\ due' = DueLater
      /\ UNCHANGED <<progress, done>>
      BY DEF ClosePaged, Closed
<1>2. RecordsMatch'
      BY <1>1, ExitLeaves, NoneIsNoWord DEF Expected, RecordsMatch, StoredPages, PageStart, doubts
<1>3. DueIsStored'
      BY <1>1, ExitLeaves, NoneIsNoWord DEF Expected, DueIsStored, DueLater
<1>4. done' => due' = None
      BY <1>1 DEF DueLater
<1>5. QED BY <1>1, <1>2, <1>3, <1>4, ExpectedOutside

LEMMA LaunchSyncExpected ==
    ASSUME IInv, Expected, LaunchSync
    PROVE  Expected'
<1>1. /\ mode = "paged" /\ mode' = "sync" /\ progress' = page /\ PagedExits /\ due' = DueLater
      /\ done' = done
      BY DEF LaunchSync
<1>2. page \in Words /\ PageStart(page) = page
      BY PagesAreWords, PageStartAgain DEF IInv, Typed, PagedTyped
<1>3. RecordsMatch'
      <2> SUFFICES ASSUME ~ uncertain', checkpoint' \in Words
                   PROVE  page \in StoredPages'
          BY <1>1, <1>2 DEF RecordsMatch, PageStart
      <2>1. UNCHANGED <<checkpoint, doubts>> /\ ~ uncertain
            BY <1>1, ExitLeaves, NoneIsNoWord
      <2>2. page \in StoredPages
            BY <1>1, <2>1 DEF Expected, PageMatches
      <2>3. QED BY <2>1, <2>2 DEF StoredPages, PageStart, doubts
<1>4. DueIsStored'
      BY <1>1, ExitLeaves, NoneIsNoWord DEF Expected, DueIsStored, DueLater
<1>5. done' => due' = None
      BY <1>1 DEF DueLater
<1>6. QED BY <1>1, <1>3, <1>4, <1>5, ExpectedOutside

\* RSVP starts with a word that counts as presented, or with the same word due as before.
LEMMA StartIsDue ==
    ASSUME NEW w, NEW restored, StartAt(w, restored)
    PROVE  /\ state' # "fallback" /\ done' = FALSE
           /\ (word' = w /\ due' = w) \/ (word' = None /\ due' = DueLater)
<1>1. PICK grouping \in BOOLEAN :
        /\ word' = IF restored /\ grouping THEN w ELSE None
        /\ state' = IF restored /\ grouping /\ w = LastWord THEN "finished" ELSE "reading"
        /\ done' = FALSE
        /\ due' = IF restored /\ grouping THEN w ELSE DueLater
      BY DEF StartAt
<1>2. QED BY <1>1

LEMMA LoadIsDue ==
    ASSUME NEW context, context.anchor \in Words, RsvpLoads(context)
    PROVE  /\ completionFinalized' = FALSE
           /\ state' = "fallback" => word' = None /\ done' = done
           /\ state' = "fallback" /\ invalidateCheckpointOnNativeFallback' => due' = None
           /\ state' # "fallback" => done' = FALSE
           /\ \/ word' # None /\ due' = word'
              \/ word' = None /\ due' = DueLater
              \/ word' = None /\ due' = None /\ checkpoint' \in {Rejected, Moved}
<1>1. completionFinalized' = FALSE
      BY DEF RsvpLoads
<1>2. CASE FallBack(FALSE)
      BY <1>1, <1>2 DEF FallBack
<1>3. CASE checkpoint' \in {Rejected, Moved} /\ FallBack(TRUE)
      BY <1>1, <1>3 DEF FallBack
<1>4. CASE checkpoint' \in Words /\ StartAt(checkpoint', TRUE)
      BY <1>1, <1>4, StartIsDue, NoneIsNoWord
<1>5. CASE StartAt(context.anchor, FALSE)
      BY <1>1, <1>5, StartIsDue, NoneIsNoWord
<1>6. QED BY <1>2, <1>3, <1>4, <1>5 DEF RsvpLoads

LEMMA SwitchToRsvpExpected ==
    ASSUME IInv, Expected, SwitchToRsvp
    PROVE  Expected'
<1>1. /\ mode = "paged" /\ mode' = "rsvp" /\ launch' = fromPaged(rsvpCheckpointInvalidationPending)
      /\ PagedExits /\ RsvpLoads(launch') /\ progress' = progress
      BY DEF SwitchToRsvp
<1>2. /\ completionFinalized' = FALSE
      /\ state' = "fallback" => word' = None /\ done' = done
      /\ state' = "fallback" /\ invalidateCheckpointOnNativeFallback' => due' = None
      /\ state' # "fallback" => done' = FALSE
      /\ \/ word' # None /\ due' = word'
         \/ word' = None /\ due' = DueLater
         \/ word' = None /\ due' = None /\ checkpoint' \in {Rejected, Moved}
      BY <1>1, FromPagedIs, LoadIsDue DEF IInv
<1>3. ~ uncertain' => \/ checkpoint' = None /\ due = None
                      \/ UNCHANGED <<checkpoint, doubts>> /\ ~ uncertain
      BY <1>1, ExitLeaves
<1>4. RecordsMatch'
      BY <1>1, <1>3, NoneIsNoWord DEF Expected, RecordsMatch, StoredPages, PageStart, doubts
<1>5. DueIsStored'
      <2> SUFFICES ASSUME ~ uncertain', ~ done', word' = None
                   PROVE  IF due' = None THEN checkpoint' \notin Words ELSE checkpoint' = due'
          BY <1>1 DEF DueIsStored
      <2>1. CASE due' = None /\ checkpoint' \in {Rejected, Moved}
            BY <2>1, NoneIsNoWord
      <2>2. CASE due' = DueLater
            <3>1. CASE checkpoint' = None /\ due = None
                  BY <2>2, <3>1, NoneIsNoWord DEF DueLater
            <3>2. CASE checkpoint' = checkpoint /\ ~ uncertain /\ done
                  BY <2>2, <3>2, NoneIsNoWord DEF DueLater, IInv, FinishedIsForgotten
            <3>3. CASE checkpoint' = checkpoint /\ ~ uncertain /\ ~ done
                  BY <1>1, <2>2, <3>3 DEF DueLater, Expected, DueIsStored
            <3>4. QED BY <1>3, <3>1, <3>2, <3>3
      <2>3. QED BY <1>2, <2>1, <2>2
<1>6. FinishedIsHandedOver'
      <2>1. done' => done /\ word' = None
            BY <1>2
      <2>2. done' => due' = None
            BY <1>2, <2>1 DEF DueLater
      <2>3. QED BY <2>2 DEF FinishedIsHandedOver
<1>7. RsvpIsDue'
      BY <1>2 DEF RsvpIsDue
<1>8. PageMatches' /\ PagedIsDue' /\ AnchorIsDue'
      BY <1>1 DEF PageMatches, PagedIsDue, AnchorIsDue
<1>9. QED BY <1>4, <1>5, <1>6, <1>7, <1>8 DEF Expected

\* While RSVP stays open, Paged expects nothing.
LEMMA ExpectedInRsvp ==
    ASSUME mode' = "rsvp", RecordsMatch', DueIsStored', RsvpIsDue', done' => due' = None
    PROVE  Expected'
BY DEF Expected, PageMatches, FinishedIsHandedOver, PagedIsDue, AnchorIsDue

\* A reader that reads has not finished.
LEMMA ReadingIsOpen ==
    ASSUME IInv, Expected, Reading
    PROVE  ~ done /\ ~ completionFinalized
BY DEF IInv, FinishedIsForgotten, Expected, RsvpIsDue, Reading

LEMMA PresentExpected ==
    ASSUME IInv, Expected, Present
    PROVE  Expected'
<1>1. /\ mode = "rsvp" /\ state = "reading" /\ word' = frame /\ due' = frame
      /\ UNCHANGED <<checkpoint, progress, mode, state, invalidateCheckpointOnNativeFallback,
                     completionFinalized, doubts, done>>
      BY DEF Present, Reading, stored
<1>2. frame # None /\ ~ done /\ ~ completionFinalized
      BY ReadingIsOpen, NoneIsNoWord DEF Present, IInv, Typed, RsvpTyped
<1>3. RecordsMatch' /\ DueIsStored' /\ RsvpIsDue'
      BY <1>1, <1>2 DEF Expected, RecordsMatch, DueIsStored, RsvpIsDue, PageStart, StoredPages, doubts
<1>4. QED BY <1>1, <1>2, <1>3, ExpectedInRsvp

\* A save that succeeds leaves both records at the last word presented.
LEMMA SaveStoresDue ==
    ASSUME NEW saved \in BOOLEAN, saveCheckpoint(saved)
    PROVE  \/ (word = None \/ completionFinalized) /\ UNCHANGED <<checkpoint, progress, doubts>>
           \/ /\ word # None /\ ~ completionFinalized
              /\ ~ uncertain' => checkpoint' = word /\ progress' = word
<1>1. CASE word = None \/ completionFinalized
      BY <1>1 DEF saveCheckpoint, stored
<1>2. CASE ~ (word = None \/ completionFinalized)
      BY <1>2 DEF saveCheckpoint, Settled
<1>3. QED BY <1>1, <1>2

\* What a save makes of the records and of the word that is due.
LEMMA SaveExpected ==
    ASSUME IInv, Expected, mode = "rsvp",
           NEW saved \in BOOLEAN, saveCheckpoint(saved)
    PROVE  /\ RecordsMatch'
           /\ ~ uncertain' /\ ~ done =>
                IF word # None THEN checkpoint' = word
                ELSE IF due = None THEN checkpoint' \notin Words ELSE checkpoint' = due
<1>1. CASE (word = None \/ completionFinalized) /\ UNCHANGED <<checkpoint, progress, doubts>>
      <2>1. RecordsMatch'
            BY <1>1 DEF Expected, RecordsMatch, StoredPages, PageStart, doubts
      <2>2. ~ done => word = None
            BY <1>1 DEF Expected, RsvpIsDue
      <2>3. QED BY <1>1, <2>1, <2>2 DEF Expected, DueIsStored, doubts
<1>2. CASE word # None /\ (~ uncertain' => checkpoint' = word /\ progress' = word)
      <2>1. word \in Words
            BY <1>2 DEF IInv, Typed, RsvpTyped, Anchors
      <2>2. RecordsMatch'
            BY <1>2, <2>1 DEF RecordsMatch, PageStart, StoredPages
      <2>3. QED BY <1>2, <2>2
<1>3. QED BY <1>1, <1>2, SaveStoresDue

LEMMA SaveWhileReadingExpected ==
    ASSUME IInv, Expected, SaveWhileReading
    PROVE  Expected'
<1>1. PICK saved \in BOOLEAN : saveCheckpoint(saved)
      BY DEF SaveWhileReading
<1>2. /\ mode = "rsvp" /\ state = "reading"
      /\ UNCHANGED <<mode, word, state, invalidateCheckpointOnNativeFallback, completionFinalized,
                     due, done>>
      BY DEF SaveWhileReading, Reading, rsvp
<1>3. ~ done
      BY ReadingIsOpen DEF SaveWhileReading
<1>4. RecordsMatch' /\ DueIsStored'
      BY <1>1, <1>2, SaveExpected DEF DueIsStored
<1>5. RsvpIsDue'
      BY <1>2 DEF Expected, RsvpIsDue
<1>6. QED BY <1>2, <1>3, <1>4, <1>5, ExpectedInRsvp

\* After the end of the book there is no checkpoint, or storage has failed.
LEMMA FinalizeExpected ==
    ASSUME NEW finalized \in BOOLEAN, finalizeCompletedBook(finalized)
    PROVE  RecordsMatch' /\ (~ uncertain' => finalized)
<1>1. uncertain' = ~ finalized
      BY DEF finalizeCompletedBook, Settled
<1>2. finalized => checkpoint' \notin Words
      BY FinalizeIs, NoneIsNoWord
<1>3. QED BY <1>1, <1>2 DEF RecordsMatch

LEMMA FinalizesExpected ==
    ASSUME IInv, Expected, mode = "rsvp", Finalizes, state' = "finished",
           UNCHANGED <<mode, word>>, ~ completionFinalized
    PROVE  Expected'
<1>1. PICK finalized \in BOOLEAN :
        /\ finalizeCompletedBook(finalized)
        /\ completionFinalized' = finalized /\ done' = finalized
        /\ due' = IF finalized THEN None ELSE due
      BY DEF Finalizes
<1>2. RecordsMatch' /\ (~ uncertain' => done')
      BY <1>1, FinalizeExpected
<1>3. DueIsStored'
      BY <1>2 DEF DueIsStored
<1>4. RsvpIsDue'
      BY <1>1 DEF Expected, RsvpIsDue
<1>5. done' => due' = None
      BY <1>1
<1>6. QED BY <1>2, <1>3, <1>4, <1>5, ExpectedInRsvp

LEMMA FinishExpected ==
    ASSUME IInv, Expected, Finish
    PROVE  Expected'
BY ReadingIsOpen, FinalizesExpected DEF Finish, Reading

LEMMA FinalizeAgainExpected ==
    ASSUME IInv, Expected, FinalizeAgain
    PROVE  Expected'
BY FinalizesExpected DEF FinalizeAgain

LEMMA CloseRsvpExpected ==
    ASSUME IInv, Expected, CloseRsvp
    PROVE  Expected'
<1>1. mode = "rsvp" /\ mode' = "closed"
      BY DEF CloseRsvp, Closed
<1>2. RecordsMatch' /\ DueIsStored' /\ (done' => due' = None)
      <2>1. CASE state = "reading" /\ (\E saved \in BOOLEAN : saveCheckpoint(saved)) /\ UNCHANGED <<due, done>>
            <3>1. ~ done /\ ~ completionFinalized
                  BY <1>1, <2>1, ReadingIsOpen DEF Reading
            <3>2. word # None => due = word
                  BY <1>1, <3>1 DEF Expected, RsvpIsDue
            <3>3. PICK saved \in BOOLEAN : saveCheckpoint(saved)
                  BY <2>1
            <3>4. RecordsMatch'
                  BY <1>1, <2>1, <3>3, SaveExpected
            <3>5. DueIsStored'
                  BY <1>1, <2>1, <3>1, <3>2, <3>3, SaveExpected DEF DueIsStored
            <3>6. QED BY <2>1, <3>1, <3>4, <3>5
      <2>2. CASE \E finalized \in BOOLEAN :
                   /\ finalizeCompletedBook(finalized)
                   /\ done' = finalized /\ due' = IF finalized THEN None ELSE due
            BY <2>2, FinalizeExpected DEF DueIsStored
      <2>3. CASE (state = "fallback" \/ completionFinalized) /\ UNCHANGED <<stored, due, doubts, done>>
            <3>1. UNCHANGED <<checkpoint, progress, due, doubts, done>>
                  BY <2>3 DEF stored
            <3>2. RecordsMatch'
                  BY <3>1 DEF Expected, RecordsMatch, StoredPages, PageStart, doubts
            <3>3. done \/ word = None
                  BY <1>1, <2>3 DEF Expected, RsvpIsDue
            <3>4. DueIsStored'
                  BY <3>1, <3>3 DEF Expected, DueIsStored, doubts
            <3>5. QED BY <1>1, <3>1, <3>2, <3>4 DEF Expected, FinishedIsHandedOver
      <2>4. QED BY <2>1, <2>2, <2>3 DEF CloseRsvp
<1>3. QED BY <1>1, <1>2, ExpectedOutside

LEMMA SwitchToPagedExpected ==
    ASSUME IInv, IInv', Expected, SwitchToPaged
    PROVE  Expected'
<1>1. /\ mode = "rsvp" /\ due' = (IF word # None THEN word ELSE due) /\ done' = done
      BY DEF SwitchToPaged
<1>2. PICK saved \in BOOLEAN, r \in BOOLEAN : saveCheckpoint(saved) /\ PagedLoads(Context(word, r, FALSE))
      <2>1. PICK saved \in BOOLEAN, grouping \in BOOLEAN :
              saveCheckpoint(saved) /\ PagedLoads(Context(word, saved /\ grouping, FALSE))
            BY DEF SwitchToPaged
      <2>2. (saved /\ grouping) \in BOOLEAN
            OBVIOUS
      <2>3. QED BY <2>1, <2>2
<1> DEFINE c == [anchor |-> word, restoreCheckpoint |-> r, checkpointInvalidationPending |-> FALSE]
<1>3. PagedLoads(c)
      BY <1>2 DEF Context
<1>4. c \in Contexts /\ c.anchor = word /\ c.checkpointInvalidationPending = FALSE
      BY DEF IInv, Typed, RsvpTyped, Contexts
<1> HIDE DEF c
<1>5. RecordsMatch'
      BY <1>1, <1>2, SaveExpected
<1>6. ~ uncertain' /\ ~ done' => IF due' = None THEN checkpoint' \notin Words ELSE checkpoint' = due'
      BY <1>1, <1>2, SaveExpected
<1>7. done' /\ due' # None => c.anchor = due'
      BY <1>1, <1>4 DEF Expected, FinishedIsHandedOver
<1>8. c.anchor # None => due' = c.anchor
      BY <1>1, <1>4
<1>9. QED BY <1>3, <1>4, <1>5, <1>6, <1>7, <1>8, ExpectedInPaged

LEMMA FallBackToPagedExpected ==
    ASSUME IInv, IInv', Expected, FallBackToPaged
    PROVE  Expected'
<1>1. /\ mode = "rsvp" /\ state = "fallback" /\ word = None /\ UNCHANGED <<due, done>>
      BY DEF FallBackToPaged, Expected, RsvpIsDue
<1>2. done' => due' = None
      BY <1>1 DEF Expected, FinishedIsHandedOver
<1>3. CASE invalidateCheckpointOnNativeFallback
      <2>1. PICK ok \in BOOLEAN :
              /\ Invalidated(ok) /\ Settled(ok)
              /\ PagedLoads(Context(None, FALSE, ~ ok))
            BY <1>3 DEF FallBackToPaged
      <2>2. due' = None
            BY <1>1, <1>3 DEF Expected, RsvpIsDue
      <2>3. ~ uncertain' => checkpoint' \notin Words
            BY <2>1, InvalidatedIs, NoneIsNoWord DEF Settled
      <2> DEFINE c == [anchor |-> None, restoreCheckpoint |-> FALSE,
                       checkpointInvalidationPending |-> ~ ok]
      <2>4. PagedLoads(c)
            BY <2>1 DEF Context
      <2>5. (~ ok) \in BOOLEAN
            OBVIOUS
      <2>6. c \in Contexts /\ c.anchor = None
            BY <2>5 DEF Contexts, Anchors
      <2>7. c.checkpointInvalidationPending => uncertain'
            BY <2>1 DEF Settled
      <2> HIDE DEF c
      <2>8. RecordsMatch'
            BY <2>3 DEF RecordsMatch
      <2>9. QED BY <2>2, <2>3, <2>4, <2>6, <2>7, <2>8, ExpectedInPaged
<1>4. CASE ~ invalidateCheckpointOnNativeFallback
      <2>1. PagedLoads(Fresh) /\ UNCHANGED <<checkpoint, progress, doubts>>
            BY <1>4 DEF FallBackToPaged, stored
      <2>2. RecordsMatch'
            BY <2>1 DEF Expected, RecordsMatch, StoredPages, PageStart, doubts
      <2>3. ~ uncertain' /\ ~ done' => IF due' = None THEN checkpoint' \notin Words ELSE checkpoint' = due'
            BY <1>1, <2>1 DEF Expected, DueIsStored, doubts
      <2>4. QED BY <1>2, <2>1, <2>2, <2>3, FreshIs, ExpectedInPaged
<1>5. QED BY <1>3, <1>4

LEMMA ApplyRemoteExpected ==
    ASSUME IInv', Expected, ApplyRemote
    PROVE  Expected'
<1>1. PICK w \in Words : /\ progress' = w
                         /\ remote' = IF checkpoint \in Words THEN PageStart(w) ELSE None
      BY DEF ApplyRemote
<1>2. /\ mode = "sync" /\ PagedLoads(Fresh) /\ UNCHANGED <<checkpoint, uncertain, done>>
      /\ due' = IF checkpoint \in Words THEN due ELSE None
      BY DEF ApplyRemote
<1>3. RecordsMatch'
      BY <1>1, <1>2 DEF RecordsMatch, StoredPages, PageStart
<1>4. ~ uncertain' /\ ~ done' => IF due' = None THEN checkpoint' \notin Words ELSE checkpoint' = due'
      BY <1>2 DEF Expected, DueIsStored
<1>5. done' => due' = None
      BY <1>2 DEF Expected, FinishedIsHandedOver
<1>6. QED BY <1>2, <1>3, <1>4, <1>5, FreshIs, ExpectedInPaged

LEMMA SyncReturnsExpected ==
    ASSUME IInv', Expected, SyncReturns
    PROVE  Expected'
<1>1. mode = "sync" /\ PagedLoads(Fresh) /\ UNCHANGED <<checkpoint, progress, due, doubts, done>>
      BY DEF SyncReturns, stored, ghosts
<1>2. RecordsMatch'
      BY <1>1 DEF Expected, RecordsMatch, StoredPages, PageStart, doubts
<1>3. ~ uncertain' /\ ~ done' => IF due' = None THEN checkpoint' \notin Words ELSE checkpoint' = due'
      BY <1>1 DEF Expected, DueIsStored, doubts
<1>4. done' => due' = None
      BY <1>1 DEF Expected, FinishedIsHandedOver
<1>5. QED BY <1>1, <1>2, <1>3, <1>4, FreshIs, ExpectedInPaged

LEMMA LosePowerExpected ==
    ASSUME Expected, LosePower
    PROVE  Expected'
<1>1. /\ mode' = "closed" /\ due' = DueLater /\ UNCHANGED <<progress, remote, done>>
      /\ uncertain' = IF mode = "rsvp" /\ word # None THEN TRUE ELSE uncertain
      BY DEF LosePower, Closed
<1>2. ~ uncertain' => checkpoint' = checkpoint /\ ~ uncertain /\ (mode = "rsvp" => word = None)
      BY <1>1 DEF LosePower, Reading
<1>3. RecordsMatch'
      BY <1>1, <1>2 DEF Expected, RecordsMatch, StoredPages, PageStart, doubts
<1>4. DueIsStored'
      BY <1>1, <1>2 DEF Expected, DueIsStored, DueLater
<1>5. done' => due' = None
      BY <1>1 DEF DueLater
<1>6. QED BY <1>1, <1>3, <1>4, <1>5, ExpectedOutside

LEMMA ReplaceFileExpected ==
    ASSUME Expected, ReplaceFile
    PROVE  Expected'
<1>1. mode' = "closed" /\ due' = None /\ checkpoint' \notin Words
      BY NoneIsNoWord DEF ReplaceFile
<1>2. RecordsMatch' /\ DueIsStored'
      BY <1>1 DEF RecordsMatch, DueIsStored
<1>3. QED BY <1>1, <1>2, ExpectedOutside

LEMMA InitExpected ==
    ASSUME Init
    PROVE  Expected
BY NoneIsNoWord
   DEF Init, Expected, RecordsMatch, PageMatches, DueIsStored, FinishedIsHandedOver, RsvpIsDue,
       PagedIsDue, AnchorIsDue

LEMMA NextExpected ==
    ASSUME IInv, IInv', Expected, [Next]_vars
    PROVE  Expected'
<1>1. CASE UNCHANGED vars \/ PlaceSection \/ SwitchWaits \/ Request
      <2>1. UNCHANGED <<checkpoint, progress, doubts, mode, launch, page, pagedResumeIntent,
                        rsvpCheckpointInvalidationPending, word, state,
                        invalidateCheckpointOnNativeFallback, completionFinalized, due, done>>
            BY <1>1 DEF vars, stored, paged, rsvp, ghosts, PlaceSection, SwitchWaits, Request
      <2>2. QED BY <2>1, ExpectedStays
<1>2. CASE Navigate \/ ClosePaged \/ SwitchToRsvp \/ LaunchSync
      BY <1>2, NavigateExpected, ClosePagedExpected, SwitchToRsvpExpected, LaunchSyncExpected
<1>3. CASE Present \/ SaveWhileReading \/ Finish \/ FinalizeAgain \/ CloseRsvp
      BY <1>3, PresentExpected, SaveWhileReadingExpected, FinishExpected, FinalizeAgainExpected,
         CloseRsvpExpected
<1>4. CASE SwitchToPaged \/ FallBackToPaged
      BY <1>4, SwitchToPagedExpected, FallBackToPagedExpected
<1>5. CASE SyncStep \/ Open
      BY <1>5, ApplyRemoteExpected, SyncReturnsExpected, OpenExpected DEF SyncStep
<1>6. CASE RenderPage \/ LosePower \/ ReplaceFile
      BY <1>6, RenderPageExpected, LosePowerExpected, ReplaceFileExpected
<1>7. QED BY <1>1, <1>2, <1>3, <1>4, <1>5, <1>6 DEF Next, PagedStep, RenderStep, RsvpStep

\* What the reader expects is where the records and the launch context lead.
THEOREM ExpectedHolds == Spec => []Expected
<1>1. Init => Expected
      BY InitExpected
<1>2. IInv /\ IInv' /\ Expected /\ [Next]_vars => Expected'
      BY NextExpected
<1>3. QED BY <1>1, <1>2, IInvHolds, PTL DEF Spec

\* Outside RSVP native progress points at the checkpoint's page, or at that of a remote
\* position that was applied since, unless storage has failed or power was lost.
THEOREM BothRecordsAgree == Spec => []StoresAgree
<1>1. Expected => StoresAgree
      BY NoneIsNoWord DEF Expected, RecordsMatch, StoresAgree
<1>2. QED BY <1>1, ExpectedHolds, PTL

\* Where StartAt shows the word it was given.
LEMMA StartShows ==
    ASSUME NEW w \in Words, NEW restored \in BOOLEAN, StartAt(w, restored)
    PROVE  /\ ~ restored => frame' = w
           /\ frame' = w \/ (word' = w /\ frame' = w + 1)
<1>1. PICK grouping \in BOOLEAN :
        /\ word' = IF restored /\ grouping THEN w ELSE None
        /\ frame' = IF restored /\ grouping /\ w < LastWord THEN w + 1 ELSE w
      BY DEF StartAt
<1>2. QED BY <1>1

\* RSVP goes on at the word it showed last, or at the page that was selected since, also
\* after a sync, unless storage has failed or power was lost.
THEOREM GoesOnWhereTheReaderWas == Spec => EntryFollowsTheReader
<1>1. ASSUME IInv, IInv', Expected, [Next]_vars, Starting, ~ uncertain, ~ uncertain',
             section # "placing"
      PROVE  IF due = None THEN frame' = page
             ELSE frame' = due \/ (word' = due /\ frame' = due + 1)
      <2>1. /\ mode = "paged" /\ launch' = fromPaged(rsvpCheckpointInvalidationPending)
            /\ PagedExits /\ RsvpLoads(launch') /\ state' # "fallback"
            BY <1>1, OnlyTheSwitchStarts DEF SwitchToRsvp, Starting
      <2>2. ~ rsvpCheckpointInvalidationPending
            BY <1>1, <2>1 DEF Expected, PagedIsDue
      <2>3. checkpoint' = checkpoint
            BY <2>1, <2>2 DEF PagedExits
      <2>4. launch'.anchor \in Words
            BY <1>1, <2>1, FromPagedIs DEF IInv
      <2>5. /\ launch'.anchor = (IF Explicit \/ launch.anchor = None THEN page ELSE launch.anchor)
            /\ launch'.restoreCheckpoint <=>
                 ~ Explicit /\ (launch.anchor = None \/ launch.restoreCheckpoint)
            <3>1. launch' = Context(IF Explicit \/ launch.anchor = None THEN PageStartAnchor
                                    ELSE launch.anchor,
                                    (~ Explicit /\ launch.anchor = None)
                                      \/ (launch.restoreCheckpoint /\ ~ Explicit), FALSE)
                  BY <2>1, <2>2 DEF fromPaged
            <3>2. PageStartAnchor = page
                  BY <1>1 DEF PageStartAnchor
            <3>3. QED BY <3>1, <3>2 DEF Context
      <2>6. \/ launch'.restoreCheckpoint /\ checkpoint \in Words /\ StartAt(checkpoint, TRUE)
            \/ launch'.restoreCheckpoint /\ checkpoint = None /\ StartAt(launch'.anchor, FALSE)
            \/ ~ launch'.restoreCheckpoint /\ StartAt(launch'.anchor, FALSE)
            BY <2>1, <2>3 DEF RsvpLoads, FallBack
      <2>7. CASE launch'.restoreCheckpoint /\ checkpoint \in Words /\ StartAt(checkpoint, TRUE)
            <3>1. ~ done
                  BY <2>7, NoneIsNoWord, <1>1 DEF IInv, FinishedIsForgotten
            <3>2. due = checkpoint /\ due # None
                  BY <1>1, <2>1, <2>7, <3>1, NoneIsNoWord DEF Expected, DueIsStored
            <3>3. QED BY <2>7, <3>2, StartShows
      <2>8. CASE launch'.restoreCheckpoint /\ checkpoint = None /\ StartAt(launch'.anchor, FALSE)
            <3>1. frame' = launch'.anchor
                  BY <2>4, <2>8, StartShows
            <3>2. CASE launch.anchor = None
                  <4>1. due = None
                        BY <1>1, <2>1, <2>8, <3>2 DEF Expected, DueIsStored, FinishedIsHandedOver
                  <4>2. QED BY <2>5, <3>1, <3>2, <4>1
            <3>3. CASE launch.anchor # None
                  <4>1. launch.anchor = due
                        BY <1>1, <2>1, <2>5, <2>8, <3>3, NoneIsNoWord DEF Expected, AnchorIsDue
                  <4>2. QED BY <2>5, <2>8, <3>1, <3>3, <4>1
            <3>4. QED BY <3>2, <3>3
      <2>9. CASE ~ launch'.restoreCheckpoint /\ StartAt(launch'.anchor, FALSE)
            <3>1. frame' = launch'.anchor
                  BY <2>4, <2>9, StartShows
            <3>2. CASE Explicit
                  <4>1. due = None
                        BY <1>1, <2>1, <3>2 DEF Expected, PagedIsDue
                  <4>2. QED BY <2>5, <3>1, <3>2, <4>1
            <3>3. CASE ~ Explicit
                  <4>1. launch.anchor # None /\ ~ launch.restoreCheckpoint
                        BY <2>5, <2>9, <3>3
                  <4>2. launch.anchor = due
                        BY <1>1, <2>1, <3>3, <4>1 DEF Expected, AnchorIsDue
                  <4>3. QED BY <2>5, <3>1, <3>3, <4>1, <4>2
            <3>4. QED BY <3>2, <3>3
      <2>10. QED BY <2>6, <2>7, <2>8, <2>9
<1>2. IInv /\ IInv' /\ Expected /\ [Next]_vars =>
        [Starting /\ ~ uncertain /\ ~ uncertain' /\ section # "placing" =>
           IF due = None THEN frame' = page
           ELSE frame' = due \/ (word' = due /\ frame' = due + 1)]_vars
      BY <1>1
<1>3. QED BY <1>2, IInvHolds, ExpectedHolds, PTL DEF Spec, EntryFollowsTheReader


=============================================================================
