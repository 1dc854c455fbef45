---------------------------- MODULE RsvpSessionProps ----------------------------
(***************************************************************************)
(* Properties of RsvpSession.  Three history variables record what the     *)
(* reader has seen and what has been saved; they never restrict a step.    *)
(***************************************************************************)
EXTENDS RsvpSession

VARIABLES
    read,         \* the words of every acknowledged frame
    saved,        \* the anchor of the last step that requested a checkpoint
    chapterSeen   \* a chapter pause has been shown since the last frame

obsVars == <<vars, read, saved, chapterSeen>>

NewFrame == ~ pending /\ pending'
Acknowledged == pending /\ ~ pending' /\ consumed # 0 /\ presented' = events[consumed]

ObsInit ==
    /\ Init
    /\ read = {}
    /\ saved = 0
    /\ chapterSeen = FALSE

\* A session restored with grouping starts behind the word it was restored to.
Resumed == state = "Empty" /\ presented' # 0

Observe ==
    /\ read' = CASE Acknowledged -> read \cup {events[i] : i \in 1 .. consumed}
                 [] Resumed -> {presented'}
                 [] OTHER -> read
    /\ saved' = IF checkpointRequested' THEN presented' ELSE saved
    /\ chapterSeen' = IF NewFrame THEN FALSE ELSE chapterSeen \/ chapterPauseShown'

ObsSpec == ObsInit /\ [][Next /\ Observe]_obsVars

-----------------------------------------------------------------------------
IsWord(p) == doc[p].kind = "Word"
Words(from, to) == {p \in from .. to : IsWord(p)}
LastOf(entry) == entry.first + entry.count - 1

OnDisplay == consumed # 0

\* Every variable has its type, and every position lies in the document.
TypeOK ==
    /\ doc \in Docs
    /\ start \in DOMAIN doc
    /\ restoring \in BOOLEAN
    /\ grouping \in BOOLEAN
    /\ state \in States
    /\ reason \in Reasons
    /\ events \in Seq(DOMAIN doc)
    /\ cursor \in 1 .. Len(doc) + 1
    /\ consumed \in 0 .. MaxGroup
    /\ history \in Seq(Descriptor)
    /\ Len(history) <= HistoryCapacity
    /\ historyCursor \in 0 .. Len(history)
    /\ pending \in BOOLEAN
    /\ framed \in BOOLEAN
    /\ presented \in 0 .. Len(doc)
    /\ chapterPending \in BOOLEAN
    /\ chapterPauseShown \in BOOLEAN
    /\ checkpointRequested \in BOOLEAN
    /\ periodicPending \in BOOLEAN
    /\ checkpointAfter \in BOOLEAN
    /\ clockStarted \in BOOLEAN

(***************************************************************************)
(* The four-slot buffer is enough and stays in step with the source.  The  *)
(* displayed words are its prefix, exactly one run of neighbouring words;  *)
(* the event after them is buffered, is not a separator, and only          *)
(* separators lie between; what is behind it is the unread continuation.   *)
(* RsvpSession.h:73 promises this layout ("Three source words plus one     *)
(* lookahead"), and every index of configureCurrentGap relies on it.       *)
(***************************************************************************)
BufferFollowsDocument ==
    state \notin {"Empty", "Error", "Exited"} =>
        /\ consumed < Len(events)
        /\ Len(events) <= EventCapacity
        /\ \A i \in 1 .. consumed : IsWord(events[i])
        /\ \A i \in 1 .. Len(events) - 1 :
              i # consumed => events[i + 1] = events[i] + 1
        /\ OnDisplay => \A p \in events[consumed] + 1 .. events[consumed + 1] - 1 : Separator(p)
        /\ ~ Separator(events[consumed + 1])
        /\ cursor = events[Len(events)] + 1

(***************************************************************************)
(* Rewinding restores the exact earlier group (spec 0005, story 29): the   *)
(* group on the display is always the history entry under the cursor, so   *)
(* a replay never regroups the text, also after the grouping setting has   *)
(* changed in between.                                                     *)
(***************************************************************************)
DisplayedIsHistoryEntry ==
    (OnDisplay /\ state # "Exited" /\ state # "Error") =>
        /\ historyCursor \in DOMAIN history
        /\ history[historyCursor].first = events[1]
        /\ history[historyCursor].count = consumed

(***************************************************************************)
(* No word is lost between two frames that can be replayed one after the   *)
(* other, nor between the current entry and the frontier, across element   *)
(* skips, boundaries, rewinds and the shift of a full history.             *)
(***************************************************************************)
HistoryIsGapFree ==
    /\ \A i \in 1 .. Len(history) - 1 :
          /\ LastOf(history[i]) < history[i + 1].first
          /\ Words(LastOf(history[i]) + 1, history[i + 1].first - 1) = {}
    /\ (historyCursor # 0 /\ state \notin {"Error", "Exited"}) =>
          Words(LastOf(history[historyCursor]) + 1, events[consumed + 1] - 1) = {}

(***************************************************************************)
(* The durable position never omits a word (spec 0004: "never skip an      *)
(* unacknowledged word"): every word from the start of the session to the  *)
(* presented anchor has been on the display and was acknowledged, in this  *)
(* session or in the one whose checkpoint it was restored from.            *)
(***************************************************************************)
DurablePositionOmitsNothing == Words(start, presented) \subseteq read

(***************************************************************************)
(* Playback by itself never passes an image, a table, a rule, an oversized *)
(* word or unreadable text, and passes a chapter boundary only after its   *)
(* pause was shown (ADR 0003: "playback never skips these elements         *)
(* automatically"; "chapter boundaries pause before their first word").    *)
(***************************************************************************)
PlaybackStopsAtElements ==
    [][(NewFrame /\ state' = "Playing") =>
          \A p \in events[consumed] + 1 .. events'[1] - 1 :
              \/ doc[p].kind \in {"NonLexical", "Paragraph"}
              \/ doc[p].kind = "Chapter" /\ chapterSeen]_obsVars

(***************************************************************************)
(* A checkpoint that is owed is not forgotten: one that fell due while a   *)
(* frame was waiting for its acknowledgement, or that a manual step or a   *)
(* rewind asked for, stays tied to a frame that is still pending, so       *)
(* reading cannot go on past that frame with the request outstanding.      *)
(***************************************************************************)
OwedCheckpointHeld ==
    ((periodicPending \/ checkpointAfter) /\ state \in {"Playing", "Paused"}) => pending

(***************************************************************************)
(* Whenever a session ends, or playback comes to rest on a chapter pause   *)
(* or on the reader's pause, the last acknowledged group has been handed   *)
(* to the checkpoint (ADR 0003, spec 0004: pause, Mode Switch, chapter     *)
(* transition, sleep and exit).                                            *)
(***************************************************************************)
RestIsSaved ==
    [][(state' # state /\
           \/ state' = "Exited"
           \/ state' = "Error"
           \/ state = "Playing" /\ state' = "Paused" /\ ~ pending')
        => saved' = presented']_obsVars

(***************************************************************************)
(* Stated by ADR 0003: images, tables and rules "pause playback" and the   *)
(* checkpoint is written "on pause".  The step that runs into the element  *)
(* does not request a checkpoint.                                          *)
(***************************************************************************)
ElementPauseIsSaved ==
    [][(state = "Playing" /\ state' = "Boundary" /\ reason' = "NonText")
        => saved' = presented']_obsVars

-----------------------------------------------------------------------------
(* The reading order that the session implements.                          *)

Frontier ==
    IF Len(events) > consumed THEN NextContent(events[consumed + 1]) ELSE NextContent(cursor)

Order == INSTANCE ReadingOrder WITH
    Books <- Docs,
    Memory <- HistoryCapacity,
    book <- doc,
    trail <- [i \in DOMAIN history |-> <<history[i].first, LastOf(history[i])>>],
    at <- historyCursor,
    shown <- OnDisplay,
    frontier <- Frontier,
    committed <- presented

(***************************************************************************)
(* Every step of the session is a step of ReadingOrder: groups are shown   *)
(* in the order of the document, a return shows a remembered group, only   *)
(* an explicit step passes an element, and only a shown group is committed. *)
(***************************************************************************)
ImplementsReadingOrder == Order!Spec

-----------------------------------------------------------------------------
(* What the reader activity sees of a session.                             *)

\* The pause reason of a decision, as fillDecision derives it.
PauseReason ==
    CASE state = "Boundary" -> reason
      [] state = "Error"    -> "Error"
      [] state = "Paused" /\ chapterPauseShown -> "Chapter"
      [] OTHER -> "None"

Interface == INSTANCE RsvpControl

Seen == Interface!Looks(state, PauseReason, pending)

\* The states in which step() does what action a asks for.  The action None and the two
\* of the pace always may leave everything as it is.
Accepts(a) ==
    CASE a = "Toggle"             -> state \in {"Playing", "Paused"} /\ ~ pending
      [] a = "StepForward"        -> \/ state = "Paused" /\ ~ pending
                                     \/ state = "Boundary" /\ reason = "NonText"
      [] a = "Rewind"             -> state \notin Terminal /\ ~ pending /\ history # << >>
      [] a = "FramePresented"     -> framed /\ pending
      [] a = "PresentationFailed" -> state \notin Terminal /\ framed /\ pending
      [] a = "WordDoesNotFit"     -> state \notin Terminal
      [] OTHER                    -> a \in {"ModeSwitch", "Exit"}

\* The first step opens the session, whatever it is asked for.
Opens == OpenFails \/ Open \/ \E matches \in BOOLEAN : Restore(matches)

Takes(a, elapsed) ==
    \/ a = "None" /\ Tick(elapsed)
    \/ a = "Toggle" /\ (Play \/ Pause(elapsed))
    \/ a = "StepForward" /\ (SkipElement \/ StepGroup)
    \/ a = "Rewind" /\ (RewindFive(elapsed) \/ RewindFails(elapsed))
    \/ a \in {"ModeSwitch", "Exit"} /\ Leave(elapsed)
    \/ a = "FramePresented" /\ FramePresented(elapsed)
    \/ a = "PresentationFailed" /\ FramePresentationFailed(elapsed)
    \/ a = "WordDoesNotFit" /\ WordDoesNotFit(elapsed)

\* A step of the session that is given action a.
StepWith(a) ==
    Opens \/ \E elapsed \in BOOLEAN : Takes(a, elapsed) \/ (Idle(elapsed) /\ ~ Accepts(a))

(***************************************************************************)
(* The session keeps to the interface that RsvpReader is built on: a step  *)
(* with action a, taken or ignored, leaves the session in one of the ways  *)
(* that the interface gives for a; a step without an action shows nothing. *)
(***************************************************************************)
ImplementsControl ==
    [][/\ \A a \in Interface!Actions : StepWith(a) => Seen' \in Interface!Responses(Seen, a)
       /\ Seen' # Seen => \E a \in Interface!Actions : StepWith(a)]_obsVars

-----------------------------------------------------------------------------
(* Fairness: the activity steps the session on every pass of its loop, and *)
(* every frame handed to the renderer is presented or reported as failed.  *)

TickReady == state = "Playing" /\ ~ pending
AckReady == state # "Empty" /\ pending

\* Weak fairness, with the enabling conditions of Tick and of FramePresented
\* written out.
FairSpec ==
    /\ ObsSpec
    /\ []<> ~ TickReady \/ []<> <<\E elapsed \in BOOLEAN : Tick(elapsed)>>_vars
    /\ []<> ~ AckReady \/ []<> <<\E elapsed \in BOOLEAN : FramePresented(elapsed)>>_vars

\* Playback always comes to rest: at a chapter, an element, an error, the end
\* of the book, or by the reader's hand.  It never stalls on a frame.
PlaybackComesToRest == (state = "Playing") ~> (state # "Playing")

=============================================================================
