------------------------------- MODULE RsvpReader -------------------------------
(***************************************************************************)
(* The RSVP reader activity: the main task that polls input and steps the  *)
(* session, the render task that draws and acknowledges frames, the        *)
(* RenderLock between them, and what ActivityManager does around them.     *)
(*                                                                         *)
(* A critical section of the main task is one action, enabled while the    *)
(* render task does not hold the lock.  The render task holds it from the  *)
(* drawing of a frame to the end of the display refresh, several actions   *)
(* later; the main task goes on polling meanwhile, and the atomic flags    *)
(* and currentDecision.render are read and written outside the lock.       *)
(* The session is seen through RsvpControl, the production build (checked  *)
(* display updates) is modelled.                                           *)
(***************************************************************************)
EXTENDS RsvpControl, SequencesExt

CONSTANTS QueueCapacity,   \* RsvpPendingActions::CAPACITY
          Buttons,         \* the actions the device has buttons for
          HasTouch,        \* a touch screen, with control panel and gestures
          Controls,        \* what a tap on the control panel can ask for
          MaxFailures      \* bound: how often a checked display update fails

\* The user actions of the queue in the order in which pop() looks for them.
Priority ==
    <<"Exit", "ModeSwitch", "Toggle", "WordDoesNotFit", "Pace", "Rewind", "StepForward">>
Queued == {Priority[i] : i \in DOMAIN Priority}

ASSUME CapacityAssumption == QueueCapacity \in Nat \ {0}
ASSUME ButtonsAssumption == Buttons \subseteq Queued \ {"WordDoesNotFit"}
ASSUME TouchAssumption == HasTouch \in BOOLEAN
ASSUME ControlsAssumption ==
    Controls \subseteq {"Toggle", "StepForward", "Rewind", "Pace", "ModeSwitch", "Settings"}
ASSUME FailuresAssumption == MaxFailures \in Nat

VARIABLES
    session,          \* what the session looks like (RsvpControl)
    frame,            \* its frameId; two ids tell a frame from its neighbours
    fits,             \* whether the renderer can draw that frame
    decision,         \* currentDecision
    queue,            \* pendingActions, in the order of arrival
    panel,            \* panelVisible
    pauseTouch,       \* pauseTouchPending
    refusalLost,      \* a WordDoesNotFit found the queue full (the log line of 971)
    wordDoesNotFit,   \* wordDoesNotFitPending
    failed,           \* productionDisplayFailure
    recovering,       \* productionDisplayRecoveryRequested
    failures,         \* failed updates so far
    deferred,         \* checkpointRequestedFromRender
    fatalPending,     \* fatalFallbackPending
    fatalReady,       \* fatalFallbackReady
    switching,        \* switchToPagedPending
    top,              \* the activity on the display
    transition,       \* ActivityManager::pendingAction
    requested,        \* ActivityManager::requestedUpdate
    notified,         \* a notification waits for the render task
    main,             \* where the main task is
    held,             \* this pass began with a display recovery pending
    task              \* where the render task is

sessionVars == <<session, frame, fits>>
inputVars == <<queue, panel, pauseTouch, refusalLost>>
displayVars == <<failed, recovering, failures>>
fatalVars == <<fatalPending, fatalReady, switching>>
managerVars == <<top, transition>>
renderVars == <<requested, notified>>
vars == <<sessionVars, decision, inputVars, wordDoesNotFit, displayVars, deferred,
          fatalVars, managerVars, renderVars, main, held, task>>

FrameIds == {1, 2}
NextFrame == IF frame = 1 THEN 2 ELSE 1

Decision == [state : SessionStates, reason : PauseReasons, render : BOOLEAN,
             frame : FrameIds \cup {0}]

Decide(state, reason, render, id) ==
    [state |-> state, reason |-> reason, render |-> render, frame |-> id]

\* The render task holds the RenderLock.
Rendering == task \in {"display", "recovered", "failing", "latched", "ack"}

\* pauseMessage() != nullptr: a message is drawn instead of the frame.
Message == decision.reason # "None" \/ decision.state = "Finished"

-----------------------------------------------------------------------------
(* The action queue.                                                       *)

\* A wrong variant: the capacity is not checked.
PushUnchecked(q, a) == Append(q, a)

\* push: an action that finds the queue full is lost.
Push(q, a) == IF Len(q) < QueueCapacity THEN Append(q, a) ELSE q

\* discard: every instance of an action goes, the others keep their order.
Discard(q, a) ==
    LET kept[n \in 0 .. Len(q)] ==
            IF n = 0 THEN << >>
            ELSE IF q[n] = a THEN kept[n - 1]
            ELSE Append(kept[n - 1], q[n])
    IN kept[Len(q)]

\* The action that pop() returns.
Popped ==
    IF queue = << >> THEN "None"
    ELSE Priority[Min({i \in DOMAIN Priority : Priority[i] \in ToSet(queue)})]

-----------------------------------------------------------------------------
(* Decisions of the session.                                               *)

\* A step of the session; a frame that it shows gets a fresh id.
StepSession(a) ==
    /\ session' \in Responses(session, a)
    /\ IF ~ session.pending /\ session'.pending
       THEN frame' = NextFrame /\ fits' \in BOOLEAN
       ELSE UNCHANGED <<frame, fits>>

\* The decision that such a step returns.
Stepped ==
    LET shown == ~ session.pending /\ session'.pending
    IN Decide(session'.state, session'.reason, shown, IF shown THEN frame' ELSE 0)

\* A wrong variant: a frame to render does not replace the decision.
ReplacesForMessages(d) == d.reason # "None" \/ d.state \in {"Finished", "Error"}

Replaces(d) == d.render \/ d.reason # "None" \/ d.state \in {"Finished", "Error"}

\* applyDecision: what becomes of currentDecision.
Applied(d) == IF Replaces(d) THEN d ELSE [decision EXCEPT !.state = d.state]

AsksForUpdate(d) == d.render \/ d.state # decision.state \/ d.reason # decision.reason

\* applyDecision; `repaced' when the decision has another pace.
ApplyDecision(d, repaced) ==
    /\ decision' = Applied(d)
    /\ requested' = (requested \/ repaced \/ AsksForUpdate(d))
    /\ panel' = (HasTouch /\ d.state # "Playing")
    /\ pauseTouch' = (pauseTouch /\ d.state = "Playing")

-----------------------------------------------------------------------------
(* ActivityManager::loop around the reader.                                *)

\* A system gesture to the home screen.
HomeGesture ==
    /\ main = "manager"
    /\ top = "reader"
    /\ HasTouch
    /\ ~ failed
    /\ transition' = "Replace"
    /\ UNCHANGED <<sessionVars, decision, inputVars, wordDoesNotFit, displayVars, deferred,
                   fatalVars, top, renderVars, main, held, task>>

\* The gesture of the light panel waits for the lock to open the modal.
LightGesture ==
    /\ main = "manager"
    /\ top = "reader"
    /\ HasTouch
    /\ ~ failed
    /\ main' = "opening"
    /\ UNCHANGED <<sessionVars, decision, inputVars, wordDoesNotFit, displayVars, deferred,
                   fatalVars, managerVars, renderVars, held, task>>

\* onSystemModalOpening and the push of the modal; a gesture returns from the
\* manager's loop, so that the push waits for the next pass.
OpenModal ==
    /\ main \in {"opening", "settings"}
    /\ ~ Rendering
    /\ IF decision.state = "Playing"
       THEN /\ StepSession("Toggle")
            /\ decision' = [Applied(Stepped) EXCEPT !.render = TRUE]
            /\ requested' = (requested \/ AsksForUpdate(Stepped))
       ELSE /\ decision' = [decision EXCEPT !.render = TRUE]
            /\ UNCHANGED <<sessionVars, requested>>
    /\ queue' = Discard(queue, "Toggle")
    /\ pauseTouch' = FALSE
    /\ panel' = HasTouch
    /\ transition' = IF main = "opening" THEN "PushPanel" ELSE "PushSettings"
    /\ main' = IF main = "opening" THEN "manager" ELSE "finish"
    /\ UNCHANGED <<refusalLost, wordDoesNotFit, displayVars, deferred, fatalVars, top, notified,
                   held, task>>

\* A wrong variant: a pass with a recovery pending returns without a notification.
FinishHeldQuietly ==
    /\ main = "finish"
    /\ \/ held \/ transition = "None"
       \/ ~ Rendering
    /\ IF held
       THEN UNCHANGED <<managerVars, renderVars>>
       ELSE /\ top' = CASE transition = "Replace"      -> "gone"
                        [] transition = "PushPanel"    -> "panel"
                        [] transition = "PushSettings" -> "settings"
                        [] OTHER -> top
            /\ transition' = "None"
            /\ notified' = (notified \/ requested)
            /\ requested' = FALSE
    /\ held' = FALSE
    /\ main' = "manager"
    /\ UNCHANGED <<sessionVars, decision, inputVars, wordDoesNotFit, displayVars, deferred,
                   fatalVars, task>>

\* The end of the loop: the transition, if there is one, and the notification
\* of the render task.
Finish ==
    /\ main = "finish"
    /\ \/ held \/ transition = "None"
       \/ ~ Rendering
    /\ IF held
       THEN UNCHANGED managerVars
       ELSE /\ top' = CASE transition = "Replace"      -> "gone"
                        [] transition = "PushPanel"    -> "panel"
                        [] transition = "PushSettings" -> "settings"
                        [] OTHER -> top
            /\ transition' = "None"
    /\ notified' = (notified \/ requested)
    /\ requested' = FALSE
    /\ held' = FALSE
    /\ main' = "manager"
    /\ UNCHANGED <<sessionVars, decision, inputVars, wordDoesNotFit, displayVars, deferred,
                   fatalVars, task>>

\* A wrong variant: the panel closes without an update of the reader.
CloseModalQuietly ==
    /\ main = "manager"
    /\ top \in {"panel", "settings"}
    /\ ~ Rendering
    /\ top' = "reader"
    /\ main' = IF top = "settings" THEN "apply" ELSE main
    /\ UNCHANGED <<sessionVars, decision, inputVars, wordDoesNotFit, displayVars, deferred,
                   fatalVars, transition, renderVars, held, task>>

\* The modal closes; the reader is on the display again.
CloseModal ==
    /\ main = "manager"
    /\ top \in {"panel", "settings"}
    /\ ~ Rendering
    /\ top' = "reader"
    /\ IF top = "settings"
       THEN main' = "apply" /\ UNCHANGED notified
       ELSE notified' = TRUE /\ UNCHANGED main
    /\ UNCHANGED <<sessionVars, decision, inputVars, wordDoesNotFit, displayVars, deferred,
                   fatalVars, transition, requested, held, task>>

\* The home gesture in a modal, sleep: the whole stack goes.
LeaveModal ==
    /\ main = "manager"
    /\ top \in {"panel", "settings"}
    /\ ~ Rendering
    /\ top' = "gone"
    /\ UNCHANGED <<sessionVars, decision, inputVars, wordDoesNotFit, displayVars, deferred,
                   fatalVars, transition, renderVars, main, held, task>>

\* The modal draws itself.
ModalDraws ==
    /\ main = "manager"
    /\ top \in {"panel", "settings"}
    /\ notified' = TRUE
    /\ UNCHANGED <<sessionVars, decision, inputVars, wordDoesNotFit, displayVars, deferred,
                   fatalVars, managerVars, requested, main, held, task>>

\* applySettings after the settings have closed: configureWhilePaused, and a
\* redraw with fonts in which the frame may fit or not.
ApplySettings ==
    LET paused == session.state = "Paused"
        d == Decide(session.state, session.reason, paused, IF paused THEN frame ELSE 0) IN
    /\ main = "apply"
    /\ ~ Rendering
    /\ decision' = [Applied(d) EXCEPT !.render = TRUE]
    /\ panel' = (HasTouch /\ d.state # "Playing")
    /\ pauseTouch' = (pauseTouch /\ d.state = "Playing")
    /\ fits' \in BOOLEAN
    /\ notified' = TRUE
    /\ requested' = FALSE
    /\ main' = "manager"
    /\ UNCHANGED <<session, frame, queue, refusalLost, wordDoesNotFit, displayVars, deferred,
                   fatalVars, managerVars, held, task>>

-----------------------------------------------------------------------------
(* RsvpReaderActivity::loop.                                               *)

\* The manager enters the reader's loop; while a display recovery is pending
\* no transition will follow it.
Enters ==
    /\ main = "manager"
    /\ top = "reader"
    /\ held' = failed

\* The fatal error screen has been shown, or Paged Mode was asked for before.
SwitchToPaged ==
    /\ Enters
    /\ fatalReady \/ switching
    /\ fatalReady' = FALSE
    /\ switching' = TRUE
    /\ transition' = "Replace"
    /\ main' = "finish"
    /\ UNCHANGED <<sessionVars, decision, inputVars, wordDoesNotFit, displayVars, deferred,
                   fatalPending, top, renderVars, task>>

Reads == Enters /\ ~ fatalReady /\ ~ switching

PanelRoutes == HasTouch /\ panel /\ ~ failed /\ ~ pauseTouch

\* A control of the panel: its action, or the settings.
PanelTap(control) ==
    /\ Reads
    /\ PanelRoutes
    /\ queue' = CASE control = "Settings" -> queue
                  [] control = "Toggle"   -> Push(Discard(queue, "Toggle"), "Toggle")
                  [] OTHER -> Push(queue, control)
    /\ main' = IF control = "Settings" THEN "settings" ELSE "finish"
    /\ UNCHANGED <<sessionVars, decision, panel, pauseTouch, refusalLost, wordDoesNotFit,
                   displayVars, deferred, fatalVars, managerVars, renderVars, task>>

\* The rest of the input: a touch that pauses, the renderer's complaint, and at
\* most one button.
PollInput(touched, button) ==
    LET kept == IF touched THEN Discard(queue, "Toggle") ELSE queue
        told == IF wordDoesNotFit THEN Push(kept, "WordDoesNotFit") ELSE kept IN
    /\ Reads
    /\ touched => HasTouch /\ decision.state = "Playing" /\ ~ failed /\ ~ pauseTouch
    /\ pauseTouch' = (pauseTouch \/ touched)
    /\ queue' = IF button = "None" THEN told ELSE Push(told, button)
    /\ refusalLost' = (refusalLost \/ (wordDoesNotFit /\ told = kept))
    /\ wordDoesNotFit' = FALSE
    /\ main' = "gate"
    /\ UNCHANGED <<sessionVars, decision, panel, displayVars, deferred, fatalVars,
                   managerVars, renderVars, task>>

\* A failed update holds the loop here; a ready controller gets the frame again.
Gate(ready) ==
    /\ main = "gate"
    /\ IF failed
       THEN /\ main' = "finish"
            /\ IF ready /\ ~ recovering
               THEN /\ recovering' = TRUE
                    /\ decision' = [decision EXCEPT !.render = TRUE]
                    /\ requested' = TRUE
               ELSE UNCHANGED <<recovering, decision, requested>>
       ELSE /\ main' = "deferred"
            /\ UNCHANGED <<recovering, decision, requested>>
    /\ UNCHANGED <<sessionVars, inputVars, wordDoesNotFit, failed, failures, deferred,
                   fatalVars, managerVars, notified, held, task>>

\* The checkpoint that an acknowledgement asked for, unless a frame is drawn now.
SaveDeferred ==
    /\ main = "deferred"
    /\ IF deferred /\ Rendering
       THEN main' = "finish" /\ UNCHANGED deferred
       ELSE main' = "step" /\ deferred' = FALSE
    /\ UNCHANGED <<sessionVars, decision, inputVars, wordDoesNotFit, displayVars, fatalVars,
                   managerVars, renderVars, held, task>>

\* The lock is taken: nothing is waited for, the pass ends.
Busy ==
    /\ main = "step"
    /\ Rendering
    /\ main' = "finish"
    /\ UNCHANGED <<sessionVars, decision, inputVars, wordDoesNotFit, displayVars, deferred,
                   fatalVars, managerVars, renderVars, held, task>>

PausesByTouch == pauseTouch /\ decision.state = "Playing"

\* The action that this pass gives to the session.
Taken == IF PausesByTouch THEN "Toggle" ELSE Popped

Remaining ==
    IF PausesByTouch \/ queue = << >> THEN queue ELSE RemoveFirst(queue, Popped)

ExitReader ==
    /\ main = "step"
    /\ ~ Rendering
    /\ Taken = "Exit"
    /\ queue' = Remaining
    /\ transition' = "Replace"
    /\ main' = "finish"
    /\ UNCHANGED <<sessionVars, decision, panel, pauseTouch, refusalLost, wordDoesNotFit,
                   displayVars, deferred, fatalVars, top, renderVars, held, task>>

\* One step of the session, with the action taken from the queue.
Step ==
    /\ main = "step"
    /\ ~ Rendering
    /\ Taken # "Exit"
    /\ StepSession(Taken)
    /\ \E repaced \in BOOLEAN : (repaced => Taken = "Pace") /\ ApplyDecision(Stepped, repaced)
    /\ queue' = Remaining
    /\ main' = IF session'.state = "Error" THEN "error" ELSE "finish"
    /\ IF Taken = "ModeSwitch"
       THEN switching' = TRUE /\ transition' = "Replace"
       ELSE UNCHANGED <<switching, transition>>
    /\ UNCHANGED <<refusalLost, wordDoesNotFit, displayVars, deferred, fatalPending, fatalReady,
                   top, notified, held, task>>

\* fatalFallbackPending is set after the lock is released.
Fatal ==
    /\ main = "error"
    /\ fatalPending' = TRUE
    /\ main' = "finish"
    /\ UNCHANGED <<sessionVars, decision, inputVars, wordDoesNotFit, displayVars, deferred,
                   fatalReady, switching, managerVars, renderVars, held, task>>

-----------------------------------------------------------------------------
(* The render task: ActivityManager::renderTaskLoop and renderBook.        *)

\* ulTaskNotifyTake and the lock: however many notifications have come, one
\* drawing follows.
Wakes ==
    /\ task = "wait"
    /\ notified
    /\ notified' = FALSE

NothingToDraw ==
    \/ top # "reader"
    \/ ~ decision.render /\ ~ Message
    \/ failed /\ ~ recovering

DrawNothing ==
    /\ Wakes
    /\ NothingToDraw
    /\ UNCHANGED <<sessionVars, decision, inputVars, wordDoesNotFit, displayVars, deferred,
                   fatalVars, managerVars, requested, main, held, task>>

\* Whether currentDecision holds a frame that the renderer can draw.
Drawable == decision.frame # 0 /\ fits

\* The frame or the message is drawn into the buffer; the lock is held from here on.
Draw ==
    /\ Wakes
    /\ ~ NothingToDraw
    /\ wordDoesNotFit' = (wordDoesNotFit \/ (~ Message /\ ~ Drawable))
    /\ task' = "display"
    /\ UNCHANGED <<sessionVars, decision, inputVars, displayVars, deferred, fatalVars,
                   managerVars, requested, main, held>>

\* The display update succeeds; a recovery clears its two flags one by one.
Display ==
    /\ task = "display"
    /\ task' = IF recovering THEN "recovered" ELSE "ack"
    /\ recovering' = FALSE
    /\ UNCHANGED <<sessionVars, decision, inputVars, wordDoesNotFit, failed, failures, deferred,
                   fatalVars, managerVars, renderVars, main, held>>

Recovered ==
    /\ task = "recovered"
    /\ failed' = FALSE
    /\ task' = "ack"
    /\ UNCHANGED <<sessionVars, decision, inputVars, wordDoesNotFit, recovering, failures,
                   deferred, fatalVars, managerVars, renderVars, main, held>>

\* The display update fails: two stores to the latch, then one to the decision.
DisplayFails ==
    /\ task = "display"
    /\ failures < MaxFailures
    /\ failures' = failures + 1
    /\ recovering' = FALSE
    /\ task' = "failing"
    /\ UNCHANGED <<sessionVars, decision, inputVars, wordDoesNotFit, failed, deferred,
                   fatalVars, managerVars, renderVars, main, held>>

Latch ==
    /\ task = "failing"
    /\ failed' = TRUE
    /\ task' = "latched"
    /\ UNCHANGED <<sessionVars, decision, inputVars, wordDoesNotFit, recovering, failures,
                   deferred, fatalVars, managerVars, renderVars, main, held>>

StopRendering ==
    /\ task = "latched"
    /\ decision' = [decision EXCEPT !.render = FALSE]
    /\ task' = "wait"
    /\ UNCHANGED <<sessionVars, inputVars, wordDoesNotFit, displayVars, deferred,
                   fatalVars, managerVars, renderVars, main, held>>

\* A wrong variant: a message does not complete the handshake of a fatal error.
AcknowledgeFramesOnly(asks) ==
    /\ asks => ~ Message /\ ~ wordDoesNotFit
    /\ task = "ack"
    /\ session' \in IF ~ Message /\ ~ wordDoesNotFit /\ decision.frame = frame
                    THEN Responses(session, "FramePresented")
                    ELSE {session}
    /\ deferred' = (deferred \/ asks)
    /\ fatalReady' = (fatalReady \/ (fatalPending /\ ~ Message))
    /\ task' = "wait"
    /\ UNCHANGED <<frame, fits, decision, inputVars, wordDoesNotFit, displayVars,
                   fatalPending, switching, managerVars, renderVars, main, held>>

\* FramePresented for the frame of the decision; `asks' when the session answers
\* with a checkpoint request.
Acknowledge(asks) ==
    /\ asks => ~ Message /\ ~ wordDoesNotFit
    /\ task = "ack"
    /\ session' \in IF ~ Message /\ ~ wordDoesNotFit /\ decision.frame = frame
                    THEN Responses(session, "FramePresented")
                    ELSE {session}
    /\ deferred' = (deferred \/ asks)
    /\ fatalReady' = (fatalReady \/ fatalPending)
    /\ task' = "wait"
    /\ UNCHANGED <<frame, fits, decision, inputVars, wordDoesNotFit, displayVars,
                   fatalPending, switching, managerVars, renderVars, main, held>>

-----------------------------------------------------------------------------
Init ==
    /\ session \in NextGroup("Paused")
    /\ frame = (IF session.pending THEN 1 ELSE 0)
    /\ fits \in BOOLEAN
    /\ decision = Decide(session.state, session.reason, session.pending, frame)
    /\ queue = << >>
    /\ panel = HasTouch
    /\ pauseTouch = FALSE
    /\ refusalLost = FALSE
    /\ wordDoesNotFit = FALSE
    /\ failed = FALSE
    /\ recovering = FALSE
    /\ failures = 0
    /\ deferred = FALSE
    /\ fatalPending = FALSE
    /\ fatalReady = FALSE
    /\ switching = FALSE
    /\ top = "reader"
    /\ transition = "None"
    /\ requested = TRUE
    /\ notified = FALSE
    /\ main = "finish"
    /\ held = FALSE
    /\ task = "wait"

\* The activity is gone: nothing of it is left to step.
Gone ==
    /\ top = "gone"
    /\ UNCHANGED vars

Poll ==
    \/ \E control \in Controls : PanelTap(control)
    \/ \E touched \in BOOLEAN, button \in Buttons \cup {"None"} : PollInput(touched, button)

Main ==
    \/ HomeGesture
    \/ LightGesture
    \/ OpenModal
    \/ Finish
    \/ CloseModal
    \/ LeaveModal
    \/ ModalDraws
    \/ ApplySettings
    \/ SwitchToPaged
    \/ Poll
    \/ \E ready \in BOOLEAN : Gate(ready)
    \/ SaveDeferred
    \/ Busy
    \/ ExitReader
    \/ Step
    \/ Fatal

Render ==
    \/ DrawNothing
    \/ Draw
    \/ Display
    \/ Recovered
    \/ DisplayFails
    \/ Latch
    \/ StopRendering
    \/ \E asks \in BOOLEAN : Acknowledge(asks)

Next == Main \/ Render \/ Gone

Spec == Init /\ [][Next]_vars
=============================================================================
