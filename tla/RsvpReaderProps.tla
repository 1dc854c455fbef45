---------------------------- MODULE RsvpReaderProps ----------------------------
(***************************************************************************)
(* Properties of RsvpReader, and the fairness of its two tasks.            *)
(***************************************************************************)
EXTENDS RsvpReader

MainPoints == {"manager", "opening", "settings", "apply", "gate", "deferred", "step",
               "error", "finish"}
TaskPoints == {"wait", "display", "recovered", "failing", "latched", "ack"}
Modals == {"panel", "settings"}

\* Every variable has its type, and the queue keeps to its capacity.
TypeOK ==
    /\ session \in Control
    /\ frame \in FrameIds \cup {0}
    /\ fits \in BOOLEAN
    /\ decision \in Decision
    /\ queue \in Seq(Queued)
    /\ Len(queue) <= QueueCapacity
    /\ {panel, pauseTouch, refusalLost, wordDoesNotFit, failed, recovering, deferred,
        fatalPending, fatalReady, switching, requested, notified, held} \subseteq BOOLEAN
    /\ failures \in 0 .. MaxFailures
    /\ top \in Modals \cup {"reader", "gone"}
    /\ transition \in {"None", "Replace", "PushPanel", "PushSettings"}
    /\ main \in MainPoints
    /\ task \in TaskPoints

(***************************************************************************)
(* The copy of the decision that both tasks work from never falls behind   *)
(* the session: it has the session's state, and the frame that waits for   *)
(* its acknowledgement is the one the render task will draw, with its own  *)
(* id and not covered by a message.  So no acknowledgement is refused as   *)
(* stale, and none confirms a frame that was replaced meanwhile            *)
(* (RsvpReaderActivity.cpp:1966-1969 only logs that case).                 *)
(***************************************************************************)
PendingFrameIsDrawn ==
    /\ decision.state = session.state
    /\ session.pending => decision.frame = frame /\ frame # 0 /\ ~ Message

(***************************************************************************)
(* A frame that waits for its acknowledgement is never forgotten: an       *)
(* update is requested, notified or under way, or the renderer's refusal   *)
(* is on its way to the session, or the display is being recovered.        *)
(* Otherwise the session would wait for ever, for it takes no tick, step   *)
(* or toggle while a frame is pending.  (A refusal that finds the queue    *)
(* full is dropped with a log line; nothing renews it.)                    *)
(***************************************************************************)
FrameIsOnItsWay ==
    (session.pending /\ session.state # "Exited" /\ top = "reader") =>
        \/ requested
        \/ notified
        \/ Rendering
        \/ wordDoesNotFit
        \/ "WordDoesNotFit" \in ToSet(queue)
        \/ failed
        \/ main = "apply"
        \/ refusalLost

-----------------------------------------------------------------------------
(* Fairness.  The Arduino loop runs the main task for ever and FreeRTOS    *)
(* schedules the render task; a display update ends, and a controller that *)
(* failed is found ready on some pass.  The reader leaves the device alone *)
(* in the end: whatever is promised must need no further input.            *)

UserInput ==
    \/ HomeGesture
    \/ LightGesture
    \/ CloseModal
    \/ LeaveModal
    \/ \E control \in Controls : PanelTap(control)
    \/ \E touched \in BOOLEAN, button \in Buttons \cup {"None"} :
          (touched \/ button # "None") /\ PollInput(touched, button)

FairSpec ==
    /\ Spec
    /\ <>[][~ UserInput]_vars
    /\ WF_vars(Main)
    /\ SF_vars(failed /\ Gate(TRUE))
    /\ WF_vars(Render)

\* A failed update whose recovery was requested, with nothing left to draw.
RecoveryLost == failed /\ recovering /\ ~ decision.render /\ ~ Message

\* A touch asks for a pause that the session cannot take: its frame was refused,
\* and the refusal stays in the queue for as long as the touch is not served.
TouchWedged ==
    /\ pauseTouch
    /\ session.pending
    /\ wordDoesNotFit \/ "WordDoesNotFit" \in ToSet(queue)

\* The switch to Paged Mode is asked for again on every pass and keeps the loop
\* from the gate that would recover the display; until then it is held back.
SwitchHeldBack == failed /\ switching

(***************************************************************************)
(* Every frame comes to an end: acknowledged, refused, or left behind for  *)
(* a modal or another activity; except in the situations above, and when   *)
(* its refusal was lost in a full queue.                                   *)
(***************************************************************************)
FrameSettles ==
    session.pending ~> \/ ~ session.pending
                       \/ top # "reader"
                       \/ RecoveryLost \/ SwitchHeldBack
                       \/ TouchWedged \/ refusalLost

(***************************************************************************)
(* A fatal error met while reading leaves RSVP: the handshake of the two   *)
(* tasks (fatalFallbackPending, the error screen, fatalFallbackReady) ends *)
(* in the switch to Paged Mode, also when the error screen's update fails, *)
(* unless it fails after an earlier one has succeeded.                     *)
(***************************************************************************)
ReadingErrorLeaves ==
    (session.state = "Error" /\ frame # 0 /\ top = "reader")
        ~> (top # "reader" \/ SwitchHeldBack)

-----------------------------------------------------------------------------
(* What the code or its documents say and the code does not keep.          *)

(***************************************************************************)
(* Spec 0004: "never skip an unacknowledged word", "Only a matching        *)
(* successful presentation acknowledgement may advance the durable         *)
(* anchor".  A word that the renderer refused to draw is not acknowledged. *)
(***************************************************************************)
RefusedFrameIsNotAcknowledged ==
    [][(session.pending /\ ~ session'.pending /\ task = "ack") => fits]_vars

(***************************************************************************)
(* RsvpReaderActivity.cpp:1074-1076: "Readiness only schedules the same    *)
(* pending frame for a checked full resync; the latch is cleared by        *)
(* renderBook after that resync succeeds."  Failures are bounded, so the   *)
(* latch is cleared in the end, if the reader stays on the display and no  *)
(* switch to Paged Mode is held back.  The code lets the main task ask for *)
(* the recovery between the renderer's two stores, and the second one      *)
(* takes the frame away that the recovery was to draw.                     *)
(***************************************************************************)
FailedDisplayRecovers == failed ~> (~ failed \/ top # "reader" \/ SwitchHeldBack)

(***************************************************************************)
(* RsvpReaderActivity.cpp:1276: "The modal is a pause barrier, including   *)
(* input captured during a refresh."  Nothing plays under a modal.         *)
(***************************************************************************)
ModalIsPauseBarrier == top \in Modals => session.state # "Playing"

(***************************************************************************)
(* docs/specs/0001-rsvp-reading-mode-x3.md:80: "Fatal cases report an      *)
(* error and return to Paged Mode at the nearest safe Resume Anchor."  The *)
(* first step of the session may be the one that fails.                    *)
(***************************************************************************)
FatalErrorLeaves == (session.state = "Error" /\ top = "reader") ~> top # "reader"
=============================================================================
