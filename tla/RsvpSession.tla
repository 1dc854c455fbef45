------------------------------- MODULE RsvpSession -------------------------------
(***************************************************************************)
(* The RSVP session controller: one call of RsvpSession::step (or of       *)
(* configureWhilePaused) is one action.                                    *)
(*                                                                         *)
(* A document is a sequence of source events and an anchor is a position   *)
(* in it (0: no anchor).  The four-slot event buffer holds positions;      *)
(* events[0 .. consumedCount) is the group on the display.  Time enters    *)
(* through what the code compares it with: `elapsed' says that 30 s have   *)
(* passed since the last periodic checkpoint request, and a Tick happens   *)
(* at or after the deadline of the frame.                                  *)
(***************************************************************************)
EXTENDS RsvpGrouping

CONSTANTS Docs,            \* the documents a session may be opened on
          HistoryCapacity  \* RsvpSession::HISTORY_CAPACITY

IsDocument(d) ==
    /\ d \in Seq(Event)
    /\ d # << >>
    /\ \A p \in DOMAIN d : d[p].kind = "End" <=> p = Len(d)

ASSUME DocsAssumption == \A d \in Docs : IsDocument(d)
ASSUME HistoryAssumption == HistoryCapacity \in Nat \ {0}

VARIABLES
    doc,              \* the book; never changes
    start,            \* initialAnchor
    restoring,        \* restoreIdentityPending
    grouping,         \* groupingEnabled
    state,            \* the session state
    reason,           \* fallbackReason
    events,           \* events[0 .. eventCount), as positions of doc
    cursor,           \* the position source.next() reads next
    consumed,         \* consumedCount: how many events the frame shows
    history,          \* replay descriptors, oldest first
    historyCursor,    \* 1-based index of the displayed entry, 0 if none
    pending,          \* framePresented: a frame waits for its acknowledgement
    framed,           \* frameId # 0
    presented,        \* presentedAnchor
    chapterPending,
    chapterPauseShown,
    checkpointRequested,     \* checkpointRequestedThisStep
    periodicPending,         \* periodicCheckpointPending
    checkpointAfter,         \* checkpointAfterPresentation
    clockStarted             \* checkpointClockStarted

bookVars == <<doc, start>>
queueVars == <<events, cursor, consumed>>
historyVars == <<history, historyCursor>>
chapterVars == <<chapterPending, chapterPauseShown>>
vars == <<bookVars, restoring, grouping, state, reason, queueVars, historyVars,
          pending, framed, presented, chapterVars, checkpointRequested,
          periodicPending, checkpointAfter, clockStarted>>

States == {"Empty", "Paused", "Playing", "Boundary", "Error", "Finished", "Exited"}
Terminal == {"Error", "Finished", "Exited"}
Reasons == {"None", "NonText", "Oversized", "Error"}
Descriptor == [first : Nat, count : 1 .. MaxGroup, active : 1 .. MaxGroup]

-----------------------------------------------------------------------------
(* The event source and the buffer in front of it.                         *)

\* Variant: an image or a table is drained like a separator.
SeparatorOrElement(p) == doc[p].kind \in {"NonLexical", "Paragraph", "Chapter", "NonText"}

Separator(p) == doc[p].kind \in {"NonLexical", "Paragraph", "Chapter"}

\* The first position from p on that is shown or stops playback.
NextContent(p) == Min({q \in p .. Len(doc) : ~ Separator(q)})

\* A buffer: the positions in it and the source cursor behind it.
Buffer(q, c) == [events |-> q, cursor |-> c]

\* bufferThrough(n - 1): read until the buffer holds n events.
Fill(b, n) ==
    LET missing == Max({0, n - Len(b.events)})
    IN Buffer(b.events \o [i \in 1 .. missing |-> b.cursor + i - 1],
              b.cursor + missing)

\* Drop leading separators, reading on until an event that is not one.
Drain(b) ==
    LET kept == {i \in DOMAIN b.events : ~ Separator(b.events[i])}
    IN IF kept # {}
       THEN Buffer(SubSeq(b.events, Min(kept), Len(b.events)), b.cursor)
       ELSE Buffer(<<NextContent(b.cursor)>>, NextContent(b.cursor) + 1)

\* What the resolver would see at the head of the buffer; past the end, the end.
Look(b) ==
    [i \in 1 .. EventCapacity |->
        LET p == IF i <= Len(b.events) THEN b.events[i]
                 ELSE b.cursor + (i - Len(b.events)) - 1
        IN doc[Min({p, Len(doc)})]]

-----------------------------------------------------------------------------
(* Outcomes shared by the actions that move to another group.              *)

\* The buffer is left as b, nothing of it is shown.
NothingShown(b) ==
    /\ events' = b.events
    /\ cursor' = b.cursor
    /\ consumed' = 0
    /\ pending' = FALSE
    /\ UNCHANGED framed

\* setError: the session ends in Error; the decision resets and asks for a save.
Fail(b) ==
    /\ state' = "Error"
    /\ reason' = "Error"
    /\ NothingShown(b)

\* Variant: the end of the book leaves the playback state alone.
FinishKeepsState(b) ==
    /\ NothingShown(b)
    /\ UNCHANGED <<state, reason>>

\* The book ends; an element that was stepped over is forgotten.
Finish(b) ==
    /\ state' = "Finished"
    /\ reason' = (IF state = "Boundary" THEN "None" ELSE reason)
    /\ NothingShown(b)

Stop(b, why) ==
    /\ state' = "Boundary"
    /\ reason' = why
    /\ NothingShown(b)

\* findNextWord met something else than a word at the head of the buffer.
NoWord(b) ==
    LET kind == doc[b.events[1]].kind IN
    \/ kind = "Error" /\ Fail(b)
    \/ kind = "End" /\ Finish(b)
    \/ kind = "NonText" /\ Stop(b, "NonText")
    \/ kind = "Oversized" /\ Stop(b, "Oversized")

\* prepareGroup succeeded: the group is a prefix of the buffer, the separators
\* behind it are gone and the event after them is buffered.
Show(b, group, resumed) ==
    LET shown == SubSeq(b.events, 1, group.count)
        rest  == Drain(Buffer(SubSeq(b.events, group.count + 1, Len(b.events)), b.cursor))
    IN /\ events' = shown \o rest.events
       /\ cursor' = rest.cursor
       /\ consumed' = group.count
       /\ chapterPending' =
             \E p \in shown[group.count] .. rest.events[1] : doc[p].kind = "Chapter"
       /\ chapterPauseShown' = FALSE
       /\ state' = resumed
       /\ reason' = "None"
       /\ pending' = TRUE
       /\ framed' = TRUE

\* prepareGroup for a group whose words are buffered in b.
PrepareGroup(b, group, resumed, chapter, shownPause) ==
    LET active == doc[b.events[group.active]] IN
    \/ active.prep = "ok" /\ Show(b, group, resumed)
    \/ /\ active.prep # "ok"
       /\ IF active.prep = "overflow" THEN Stop(b, "Oversized") ELSE Fail(b)
       /\ chapterPending' = chapter
       /\ chapterPauseShown' = shownPause

\* Variant: a full history is not shifted.
RecordedUnbounded(b, group) ==
    history \o << [first |-> b.events[1], count |-> group.count, active |-> group.active] >>

\* Append a descriptor, forgetting the oldest one when the history is full.
Recorded(b, group) ==
    LET full == Len(history) = HistoryCapacity
    IN (IF full THEN Tail(history) ELSE history)
          \o << [first |-> b.events[1], count |-> group.count, active |-> group.active] >>

\* Variant: a replay shows the first word of the descriptor only.
ReplaySingle(b, entry, resumed, chapter, shownPause) ==
    PrepareGroup(b, Single, resumed, chapter, shownPause)

\* Words of a descriptor that are missing from the source end the session.
Replay(b, entry, resumed, chapter, shownPause) ==
    LET full == Fill(b, entry.count)
        words == \A i \in 1 .. entry.count :
                     full.events[i] <= Len(doc) /\ doc[full.events[i]].kind = "Word"
    IN \/ words /\ PrepareGroup(full, entry, resumed, chapter, shownPause)
       \/ /\ ~ words
          /\ Fail(full)
          /\ chapterPending' = chapter
          /\ chapterPauseShown' = shownPause

\* A group that is new to the session, chosen by the resolver and the renderer.
NewGroup(b, resumed, chapter, shownPause) ==
    \E group \in IF grouping THEN Fitted(Candidate(Look(b))) ELSE {Single} :
        LET full == IF grouping THEN Fill(b, Buffered(Look(b))) ELSE b IN
        /\ PrepareGroup(full, group, resumed, chapter, shownPause)
        /\ IF pending'
           THEN /\ history' = Recorded(full, group)
                /\ historyCursor' = Len(history')
           ELSE UNCHANGED historyVars

(***************************************************************************)
(* emitNextWord on the buffer b from which the displayed group is gone.    *)
(* `resumed' is the state in which a group is shown; chapter and           *)
(* shownPause are the chapter flags to keep when no group is shown.        *)
(***************************************************************************)
EmitNext(b, resumed, chapter, shownPause) ==
    LET found == Drain(b)
        kind  == doc[found.events[1]].kind IN
    \/ /\ kind = "Word"
       /\ historyCursor < Len(history)
       /\ historyCursor' = historyCursor + 1
       /\ UNCHANGED history
       /\ Replay(found, history[historyCursor + 1], resumed, chapter, shownPause)
    \/ /\ kind = "Word"
       /\ historyCursor = Len(history)
       /\ NewGroup(found, resumed, chapter, shownPause)
    \/ /\ NoWord(found)
       /\ chapterPending' = chapter
       /\ chapterPauseShown' = shownPause
       /\ UNCHANGED historyVars

\* Variant: the lookahead is thrown away with the group.
WithoutLookahead(n) == Buffer(<< >>, cursor)

\* What is left in the buffer once n events at its head are discarded.
Without(n) == Buffer(SubSeq(events, n + 1, Len(events)), cursor)

-----------------------------------------------------------------------------
(* The checkpoint clock, at the head of every step.                        *)

\* The 30 s of the periodic checkpoint can only run out during playback.
MayElapse(elapsed) == elapsed => state = "Playing" /\ clockStarted

\* Variants: the explicit request is lost; the periodic one is always deferred.
RequestPeriodicOnly(elapsed, asks) ==
    /\ MayElapse(elapsed)
    /\ checkpointRequested' = (elapsed /\ ~ pending)
    /\ periodicPending' = (periodicPending \/ (elapsed /\ pending))

RequestDefers(elapsed, asks) ==
    /\ MayElapse(elapsed)
    /\ checkpointRequested' = asks
    /\ periodicPending' = (periodicPending \/ elapsed)

\* The flags after a step that itself requests a checkpoint when `asks' holds.
Request(elapsed, asks) ==
    /\ MayElapse(elapsed)
    /\ checkpointRequested' = (asks \/ (elapsed /\ ~ pending))
    /\ periodicPending' = (periodicPending \/ (elapsed /\ pending))

-----------------------------------------------------------------------------
Init ==
    /\ doc \in Docs
    /\ start \in {p \in DOMAIN doc : p = 1 \/ doc[p].kind = "Word"}
    /\ restoring \in BOOLEAN
    /\ grouping \in BOOLEAN
    /\ state = "Empty"
    /\ reason = "None"
    /\ events = << >>
    /\ cursor = start
    /\ consumed = 0
    /\ history = << >>
    /\ historyCursor = 0
    /\ pending = FALSE
    /\ framed = FALSE
    /\ presented = 0
    /\ chapterPending = FALSE
    /\ chapterPauseShown = FALSE
    /\ checkpointRequested = FALSE
    /\ periodicPending = FALSE
    /\ checkpointAfter = FALSE
    /\ clockStarted = FALSE

\* The source cannot be opened at the initial anchor.
OpenFails ==
    /\ state = "Empty"
    /\ Fail(Buffer(<< >>, cursor))
    /\ checkpointRequested' = TRUE
    /\ UNCHANGED <<bookVars, restoring, grouping, historyVars, presented,
                   chapterVars, periodicPending, checkpointAfter, clockStarted>>

\* The first step of a session that starts at an anchor without an identity.
Open ==
    /\ state = "Empty"
    /\ ~ restoring
    /\ EmitNext(Buffer(<< >>, start), "Paused", FALSE, FALSE)
    /\ checkpointRequested' = (state' = "Error")
    /\ UNCHANGED <<bookVars, restoring, grouping, presented, periodicPending,
                   checkpointAfter, clockStarted>>

\* The first step of a session restored from a checkpoint.  The token at the
\* anchor must be the saved one; with grouping it has been read already.
Restore(matches) ==
    LET found == Drain(Buffer(<< >>, start))
        same  == matches /\ doc[found.events[1]].kind = "Word"
                         /\ doc[found.events[1]].prep = "ok" IN
    /\ state = "Empty"
    /\ restoring
    /\ \/ /\ ~ same
          /\ Fail(found)
          /\ UNCHANGED <<restoring, historyVars, presented, chapterVars>>
       \/ /\ same
          /\ restoring' = FALSE
          /\ \/ /\ grouping
                /\ presented' = found.events[1]
                /\ EmitNext(Buffer(Tail(found.events), found.cursor), "Paused", FALSE, FALSE)
             \/ /\ ~ grouping
                /\ UNCHANGED presented
                /\ EmitNext(found, "Paused", FALSE, FALSE)
    /\ checkpointRequested' = (state' = "Error")
    /\ UNCHANGED <<bookVars, grouping, periodicPending, checkpointAfter, clockStarted>>

\* Action::ModeSwitch and Action::Exit.
Leave(elapsed) ==
    /\ state # "Empty"
    /\ state' = "Exited"
    /\ Request(elapsed, TRUE)
    /\ UNCHANGED <<bookVars, restoring, grouping, reason, queueVars, historyVars,
                   pending, framed, presented, chapterVars, checkpointAfter, clockStarted>>

\* Variant: the read-ahead is committed instead of the last displayed word.
RequestedAnchorAhead == IF consumed # 0 THEN events[consumed + 1] ELSE 0

\* requestedAnchor(): the last source word of the displayed group.
RequestedAnchor == IF consumed # 0 THEN events[consumed] ELSE 0

\* Action::FramePresented for the current frame, the first time.
FramePresented(elapsed) ==
    /\ state # "Empty"
    /\ framed
    /\ pending
    /\ presented' = RequestedAnchor
    /\ pending' = FALSE
    /\ MayElapse(elapsed)
    /\ checkpointRequested' = (periodicPending \/ elapsed \/ checkpointAfter)
    /\ periodicPending' = FALSE
    /\ checkpointAfter' = FALSE
    /\ UNCHANGED <<bookVars, restoring, grouping, state, reason, queueVars,
                   historyVars, framed, chapterVars, clockStarted>>

\* Action::FramePresentationFailed: pause, keep the frame for another attempt.
FramePresentationFailed(elapsed) ==
    /\ state \notin Terminal \cup {"Empty"}
    /\ framed
    /\ pending
    /\ state' = "Paused"
    /\ Request(elapsed, FALSE)
    /\ UNCHANGED <<bookVars, restoring, grouping, reason, queueVars, historyVars,
                   pending, framed, presented, chapterVars, checkpointAfter, clockStarted>>

\* Action::TogglePlayback on a playing session.
Pause(elapsed) ==
    /\ state = "Playing"
    /\ ~ pending
    /\ state' = "Paused"
    /\ Request(elapsed, TRUE)
    /\ UNCHANGED <<bookVars, restoring, grouping, reason, queueVars, historyVars,
                   pending, framed, presented, chapterVars, checkpointAfter, clockStarted>>

\* Action::TogglePlayback on a paused session; it also leaves a chapter pause.
Play ==
    /\ state = "Paused"
    /\ ~ pending
    /\ state' = "Playing"
    /\ chapterPauseShown' = FALSE
    /\ chapterPending' = (chapterPending /\ ~ chapterPauseShown)
    /\ clockStarted' = TRUE
    /\ Request(FALSE, FALSE)
    /\ UNCHANGED <<bookVars, restoring, grouping, reason, queueVars, historyVars,
                   pending, framed, presented, checkpointAfter>>

\* Action::StepForward over the image, table or rule that stopped playback.
SkipElement ==
    /\ state = "Boundary"
    /\ reason = "NonText"
    /\ EmitNext(Without(1), "Paused", chapterPending, chapterPauseShown)
    /\ checkpointAfter' = pending'
    /\ Request(FALSE, state' = "Error")
    /\ UNCHANGED <<bookVars, restoring, grouping, presented, clockStarted>>

\* Variant: a step is taken while the frame is still unacknowledged.
StepGroupAnytime ==
    /\ state = "Paused"
    /\ EmitNext(Without(consumed), "Paused", FALSE, FALSE)
    /\ checkpointAfter' = pending'
    /\ Request(FALSE, state' = "Error")
    /\ UNCHANGED <<bookVars, restoring, grouping, presented, clockStarted>>

\* Action::StepForward to the next group of a paused session.
StepGroup ==
    /\ state = "Paused"
    /\ ~ pending
    /\ EmitNext(Without(consumed), "Paused", FALSE, FALSE)
    /\ checkpointAfter' = pending'
    /\ Request(FALSE, state' = "Error")
    /\ UNCHANGED <<bookVars, restoring, grouping, presented, clockStarted>>

\* Action::RewindFive, with the source opened at the entry that it returns to.
RewindFive(elapsed) ==
    LET target == Max({1, historyCursor - 5})
        opened == Drain(Buffer(<< >>, history[target].first)) IN
    /\ state \notin Terminal \cup {"Empty"}
    /\ ~ pending
    /\ history # << >>
    /\ \/ /\ doc[opened.events[1]].kind = "Word"
          /\ Replay(opened, history[target], "Paused", FALSE, FALSE)
          /\ historyCursor' = target
       \/ /\ NoWord(opened)
          /\ UNCHANGED <<historyCursor>>
          /\ chapterPending' = FALSE
          /\ chapterPauseShown' = FALSE
    /\ checkpointAfter' = pending'
    /\ Request(elapsed, state' = "Error")
    /\ UNCHANGED <<bookVars, restoring, grouping, history, presented, clockStarted>>

\* Action::RewindFive when the source cannot be opened again.
RewindFails(elapsed) ==
    /\ state \notin Terminal \cup {"Empty"}
    /\ ~ pending
    /\ history # << >>
    /\ state' = "Error"
    /\ reason' = "Error"
    /\ chapterPending' = FALSE
    /\ chapterPauseShown' = FALSE
    /\ checkpointAfter' = FALSE
    /\ Request(elapsed, TRUE)
    /\ UNCHANGED <<bookVars, restoring, grouping, queueVars, historyVars, pending,
                   framed, presented, clockStarted>>

\* Action::WordDoesNotFit, from the renderer.
WordDoesNotFit(elapsed) ==
    /\ state \notin Terminal \cup {"Empty"}
    /\ state' = "Boundary"
    /\ reason' = "Oversized"
    /\ pending' = FALSE
    /\ Request(elapsed, FALSE)
    /\ UNCHANGED <<bookVars, restoring, grouping, queueVars, historyVars, framed,
                   presented, chapterVars, checkpointAfter, clockStarted>>

\* Action::None once the deadline has passed: a chapter pause or the next group.
Tick(elapsed) ==
    /\ state = "Playing"
    /\ ~ pending
    /\ \/ /\ chapterPending
          /\ state' = "Paused"
          /\ chapterPauseShown' = TRUE
          /\ Request(elapsed, TRUE)
          /\ UNCHANGED <<reason, queueVars, historyVars, pending, framed, chapterPending>>
       \/ /\ ~ chapterPending
          /\ EmitNext(Without(consumed), "Playing", FALSE, chapterPauseShown)
          /\ Request(elapsed, state' = "Error")
    /\ UNCHANGED <<bookVars, restoring, grouping, presented, checkpointAfter, clockStarted>>

\* Any step that changes nothing but the checkpoint flags: the deadline has not
\* come, the pace changes, or the session does not take the action now.
Idle(elapsed) ==
    /\ state # "Empty"
    /\ Request(elapsed, FALSE)
    /\ UNCHANGED <<bookVars, restoring, grouping, state, reason, queueVars,
                   historyVars, pending, framed, presented, chapterVars,
                   checkpointAfter, clockStarted>>

\* configureWhilePaused; the displayed group stays.
Configure ==
    /\ state = "Paused"
    /\ grouping' \in BOOLEAN
    /\ UNCHANGED <<bookVars, restoring, state, reason, queueVars, historyVars,
                   pending, framed, presented, chapterVars, checkpointRequested,
                   periodicPending, checkpointAfter, clockStarted>>

Next ==
    \/ OpenFails
    \/ Open
    \/ \E matches \in BOOLEAN : Restore(matches)
    \/ Play
    \/ SkipElement
    \/ StepGroup
    \/ Configure
    \/ \E elapsed \in BOOLEAN :
          \/ Leave(elapsed)
          \/ FramePresented(elapsed)
          \/ FramePresentationFailed(elapsed)
          \/ Pause(elapsed)
          \/ RewindFive(elapsed)
          \/ RewindFails(elapsed)
          \/ WordDoesNotFit(elapsed)
          \/ Tick(elapsed)
          \/ Idle(elapsed)

Spec == Init /\ [][Next]_vars
=============================================================================
