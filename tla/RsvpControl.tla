------------------------------- MODULE RsvpControl -------------------------------
(***************************************************************************)
(* What the reader activity can see of an RSVP session: its state, the     *)
(* pause reason of its decisions and whether a frame waits for its         *)
(* acknowledgement.  Responses(c, a) are the ways in which a step with     *)
(* action a may leave a session that looks like c; which of them happens   *)
(* depends on the book.  RsvpSession implements this interface and         *)
(* RsvpReader is built on it.                                              *)
(***************************************************************************)
EXTENDS Naturals

SessionStates ==
    {"Empty", "Paused", "Playing", "Boundary", "Error", "Finished", "Exited"}
PauseReasons == {"None", "Chapter", "NonText", "Oversized", "Error"}
Ended == {"Error", "Finished", "Exited"}

Control == [state : SessionStates, reason : PauseReasons, pending : BOOLEAN]

\* The actions of rsvp::Action; Pace stands for PaceUp and PaceDown.
Actions == {"None", "Toggle", "StepForward", "Rewind", "Pace", "ModeSwitch",
            "Exit", "FramePresented", "PresentationFailed", "WordDoesNotFit"}

Looks(state, reason, pending) ==
    [state |-> state, reason |-> reason, pending |-> pending]

\* Where looking for another group may end; `resumed' is the state it is shown in.
NextGroup(resumed) ==
    {Looks(resumed, "None", TRUE), Looks("Boundary", "NonText", FALSE),
     Looks("Boundary", "Oversized", FALSE), Looks("Finished", "None", FALSE),
     Looks("Error", "Error", FALSE)}

Toggled(c) ==
    IF c.pending \/ c.state \notin {"Playing", "Paused"} THEN c
    ELSE Looks(IF c.state = "Playing" THEN "Paused" ELSE "Playing", "None", FALSE)

Waits(c) == c.state = "Paused" /\ ~ c.pending

\* The deadline of a playing frame: not yet, a chapter pause, or the next group.
Ticked(c) ==
    IF c.state = "Playing" /\ ~ c.pending
    THEN {c, Looks("Paused", "Chapter", FALSE)} \cup NextGroup("Playing")
    ELSE {c}

Rewound(c) == IF c.pending THEN {c} ELSE {c} \cup NextGroup("Paused")

StepsForward(c) ==
    IF Waits(c) \/ (c.state = "Boundary" /\ c.reason = "NonText")
    THEN NextGroup("Paused")
    ELSE {c}

PresentationFails(c) ==
    IF c.pending THEN Looks("Paused", "None", TRUE) ELSE c

\* A session that is open and has not ended.
Handled(c, a) ==
    IF a = "Toggle" THEN {Toggled(c)}
    ELSE IF a = "StepForward" THEN StepsForward(c)
    ELSE IF a = "Rewind" THEN Rewound(c)
    ELSE IF a = "WordDoesNotFit" THEN {Looks("Boundary", "Oversized", FALSE)}
    ELSE IF a = "PresentationFailed" THEN {PresentationFails(c)}
    ELSE IF a = "None" THEN Ticked(c)
    ELSE {c}

Responses(c, a) ==
    IF c.state = "Empty" THEN NextGroup("Paused")
    ELSE IF a \in {"ModeSwitch", "Exit"} THEN {Looks("Exited", "None", c.pending)}
    ELSE IF a = "FramePresented" THEN {Looks(c.state, c.reason, FALSE)}
    ELSE IF c.state \in Ended THEN {c}
    ELSE Handled(c, a)
=============================================================================
