---------------------------- MODULE RsvpReaderProofs ----------------------------
(***************************************************************************)
(* Proofs about RsvpReader: the type invariant, the agreement of the       *)
(* decision that the two tasks share with the frame that waits for its     *)
(* acknowledgement, and that this frame is never forgotten; for every      *)
(* capacity of the queue, set of buttons and controls, and number of       *)
(* display failures.                                                       *)
(* The records of a session and of a decision are used through the lemmas  *)
(* that give their fields.                                                 *)
(***************************************************************************)
EXTENDS RsvpReaderProps, SequenceTheorems, WellFoundedInduction, TLAPS

\* A frame that waits is shown: playing or paused, unless the session was left.
Shown(c) ==
    c.pending => c.reason = "None" /\ c.state \in {"Paused", "Playing", "Exited"}

\* What Looks makes is of type Control.
LEMMA LooksIsControl ==
    ASSUME NEW s \in SessionStates, NEW r \in PauseReasons, NEW p \in BOOLEAN
    PROVE  /\ Looks(s, r, p) \in Control
           /\ Looks(s, r, p).state = s
           /\ Looks(s, r, p).reason = r
           /\ Looks(s, r, p).pending = p
BY DEF Looks, Control

(***************************************************************************)
(* Whatever a step of the session answers has its type, and a frame that   *)
(* waits in it is neither covered by a pause reason nor by an ended state; *)
(* a session that has been stepped is open.                                *)
(***************************************************************************)
LEMMA ResponsesAreShown ==
    ASSUME NEW c \in Control, Shown(c), NEW a, NEW d \in Responses(c, a)
    PROVE  d \in Control /\ Shown(d) /\ d.state # "Empty"
<1>. DEFINE Good(e) == e \in Control /\ Shown(e) /\ e.state # "Empty"
<1>0. c.state \in SessionStates /\ c.reason \in PauseReasons /\ c.pending \in BOOLEAN
  BY DEF Control
<1>1. \A s \in SessionStates \ {"Empty"}, r \in PauseReasons : Good(Looks(s, r, FALSE))
  BY LooksIsControl DEF Shown
<1>2. \A s \in {"Paused", "Playing", "Exited"}, p \in BOOLEAN : Good(Looks(s, "None", p))
  BY LooksIsControl DEF Shown, SessionStates, PauseReasons
<1>3. c.state # "Empty" => Good(c)
  OBVIOUS
<1>. HIDE DEF Good
<1>. USE <1>0, <1>1, <1>2, <1>3 DEF SessionStates, PauseReasons
<1>4. \A s \in {"Paused", "Playing"} : \A e \in NextGroup(s) : Good(e)
  BY DEF NextGroup
<1>5. ASSUME c.state # "Empty"
      PROVE  \A e \in Handled(c, a) : Good(e)
  <2>. USE <1>5
  <2>1. Good(Toggled(c))
    BY DEF Toggled
  <2>2. \A e \in StepsForward(c) \cup Rewound(c) : Good(e)
    BY <1>4 DEF StepsForward, Rewound
  <2>3. \A e \in Ticked(c) : Good(e)
    BY <1>4 DEF Ticked
  <2>4. Good(PresentationFails(c))
    BY DEF PresentationFails
  <2>. QED BY <2>1, <2>2, <2>3, <2>4 DEF Handled
<1>. QED BY <1>4, <1>5 DEF Responses, Good

-----------------------------------------------------------------------------
(***************************************************************************)
(* The inductive invariant: the three variables that the two tasks agree   *)
(* on have their types, and the session only waits for a frame that it     *)
(* shows; without that a decision with a pause reason could replace the    *)
(* one that holds the frame.                                               *)
(***************************************************************************)
Agree ==
    /\ session \in Control
    /\ session.state # "Empty"
    /\ frame \in FrameIds \cup {0}
    /\ decision \in Decision
    /\ Shown(session)
    /\ PendingFrameIsDrawn

\* What Decide makes is of type Decision.
LEMMA DecideIsDecision ==
    ASSUME NEW s \in SessionStates, NEW r \in PauseReasons, NEW render \in BOOLEAN,
           NEW id \in FrameIds \cup {0}
    PROVE  /\ Decide(s, r, render, id) \in Decision
           /\ Decide(s, r, render, id).state = s
           /\ Decide(s, r, render, id).reason = r
           /\ Decide(s, r, render, id).render = render
           /\ Decide(s, r, render, id).frame = id
BY DEF Decide, Decision

\* The fields of a decision.
LEMMA DecisionFields ==
    ASSUME NEW d \in Decision
    PROVE  /\ d.state \in SessionStates /\ d.reason \in PauseReasons
           /\ d.render \in BOOLEAN /\ d.frame \in FrameIds \cup {0}
BY DEF Decision

\* A decision with another state.
LEMMA StateReplaced ==
    ASSUME NEW d \in Decision, NEW s \in SessionStates
    PROVE  /\ [d EXCEPT !.state = s] \in Decision
           /\ [d EXCEPT !.state = s].state = s
           /\ [d EXCEPT !.state = s].reason = d.reason
           /\ [d EXCEPT !.state = s].frame = d.frame
BY DEF Decision

\* A decision with another render flag.
LEMMA RenderReplaced ==
    ASSUME NEW d \in Decision, NEW render \in BOOLEAN
    PROVE  /\ [d EXCEPT !.render = render] \in Decision
           /\ [d EXCEPT !.render = render].state = d.state
           /\ [d EXCEPT !.render = render].reason = d.reason
           /\ [d EXCEPT !.render = render].frame = d.frame
BY DEF Decision

\* The fields of what the session looks like.
LEMMA ControlFields ==
    ASSUME NEW c \in Control
    PROVE  c.state \in SessionStates /\ c.reason \in PauseReasons /\ c.pending \in BOOLEAN
BY DEF Control

\* What PendingFrameIsDrawn says of the variables, of any session, frame and decision.
Drawn(c, f, d) ==
    /\ d.state = c.state
    /\ c.pending => d.frame = f /\ f # 0 /\ d.reason = "None" /\ d.state # "Finished"

\* A step of the session and applyDecision with its decision keep the agreement.
LEMMA StepAgrees ==
    ASSUME Agree, NEW a, StepSession(a)
    PROVE  /\ session' \in Control /\ Shown(session)' /\ session'.state # "Empty"
           /\ frame' \in FrameIds \cup {0}
           /\ Applied(Stepped) \in Decision
           /\ Drawn(session', frame', Applied(Stepped))
<1>1. session' \in Control /\ Shown(session)' /\ session'.state # "Empty"
  BY ResponsesAreShown DEF Agree, StepSession, Shown
<1>2. /\ session.pending \in BOOLEAN
      /\ session'.state \in SessionStates
      /\ session'.reason \in PauseReasons
      /\ session'.pending \in BOOLEAN
  BY <1>1, ControlFields DEF Agree
<1>. DEFINE shows == ~ session.pending /\ session'.pending
<1>3. frame' \in FrameIds \cup {0} /\ (shows => frame' # 0) /\ (~ shows => frame' = frame)
  BY DEF Agree, StepSession, NextFrame, FrameIds
<1>4. /\ Stepped \in Decision
      /\ Stepped.state = session'.state
      /\ Stepped.reason = session'.reason
      /\ Stepped.render = shows
      /\ Stepped.frame = IF shows THEN frame' ELSE 0
  <2>1. shows \in BOOLEAN /\ (IF shows THEN frame' ELSE 0) \in FrameIds \cup {0}
    BY <1>2, <1>3
  <2>2. Stepped = Decide(session'.state, session'.reason, shows, IF shows THEN frame' ELSE 0)
    BY DEF Stepped
  <2>. HIDE DEF shows
  <2>. QED BY <1>2, <2>1, <2>2, DecideIsDecision
<1>5. session'.pending => session'.reason = "None" /\ session'.state \notin {"Finished", "Error"}
  BY <1>1 DEF Shown
<1>6. CASE Replaces(Stepped)
  BY <1>2, <1>3, <1>4, <1>5, <1>1, <1>6 DEF Replaces, Applied, Drawn
<1>7. CASE ~ Replaces(Stepped)
  <2>1. /\ decision \in Decision
        /\ session.pending => decision.frame = frame /\ frame # 0 /\ decision.reason = "None"
    BY DEF Agree, PendingFrameIsDrawn, Message
  <2>2. ~ shows
    BY <1>7, <1>4 DEF Replaces
  <2>3. Applied(Stepped) = [decision EXCEPT !.state = session'.state]
    BY <1>7, <1>4 DEF Applied
  <2>4. /\ Applied(Stepped) \in Decision
        /\ Applied(Stepped).state = session'.state
        /\ Applied(Stepped).reason = decision.reason
        /\ Applied(Stepped).frame = decision.frame
    BY <2>1, <2>3, <1>2, StateReplaced
  <2>. QED BY <1>1, <1>2, <1>3, <1>5, <2>1, <2>2, <2>4 DEF Drawn
<1>. QED BY <1>6, <1>7

\* The invariant says nothing of the other variables.
LEMMA OthersAgree ==
    ASSUME Agree, UNCHANGED <<session, frame, decision>>
    PROVE  Agree'
BY DEF Agree, Shown, PendingFrameIsDrawn, Message

\* Agree in terms of Drawn, which the lemma on the session's steps establishes.
LEMMA AgreeFromDrawn ==
    ASSUME session' \in Control, Shown(session)', session'.state # "Empty", frame' \in FrameIds \cup {0},
           decision' \in Decision, Drawn(session', frame', decision')
    PROVE  Agree'
BY DEF Agree, Drawn, PendingFrameIsDrawn, Message

\* Which flag asks for a drawing does not matter.
LEMMA RenderAgrees ==
    ASSUME Agree, UNCHANGED <<session, frame>>, NEW render \in BOOLEAN,
           decision' = [decision EXCEPT !.render = render]
    PROVE  Agree'
<1>1. Drawn(session, frame, decision)
  BY DEF Agree, PendingFrameIsDrawn, Message, Drawn
<1>. QED BY <1>1, RenderReplaced, AgreeFromDrawn DEF Agree, Drawn, Shown

\* The first decision shows the frame of the first step, if there is one.
LEMMA AgreeInit ==
    ASSUME Init
    PROVE  Agree
<1>1. session \in Control /\ Shown(session) /\ session.state # "Empty"
  <2>. DEFINE empty == Looks("Empty", "None", FALSE)
  <2>1. empty \in Control /\ empty.state = "Empty" /\ ~ empty.pending
    BY DEF Looks, Control, SessionStates, PauseReasons
  <2>. HIDE DEF empty
  <2>2. Shown(empty)
    BY <2>1 DEF Shown
  <2>3. session \in Responses(empty, "None")
    BY <2>1 DEF Init, Responses
  <2>. QED BY <2>1, <2>2, <2>3, ResponsesAreShown
<1>2. frame \in FrameIds \cup {0} /\ (session.pending => frame # 0)
  BY DEF Init, FrameIds
<1>3. /\ decision \in Decision
      /\ decision.state = session.state
      /\ decision.reason = session.reason
      /\ decision.frame = frame
  BY <1>1, <1>2, ControlFields, DecideIsDecision DEF Init
<1>. QED BY <1>1, <1>2, <1>3 DEF Agree, PendingFrameIsDrawn, Message, Shown

\* Every step of the two tasks keeps the agreement.
LEMMA AgreeStep ==
    ASSUME Agree, [Next]_vars
    PROVE  Agree'
<1>1. CASE OpenModal
  <2>1. CASE decision.state = "Playing"
    <3>1. /\ StepSession("Toggle")
          /\ decision' = [Applied(Stepped) EXCEPT !.render = TRUE]
      BY <1>1, <2>1 DEF OpenModal
    <3>2. decision' \in Decision /\ Drawn(session', frame', decision')
      BY <3>1, StepAgrees, RenderReplaced DEF Drawn
    <3>. QED BY <3>1, <3>2, StepAgrees, AgreeFromDrawn
  <2>2. CASE decision.state # "Playing"
    <3>1. UNCHANGED <<session, frame>> /\ decision' = [decision EXCEPT !.render = TRUE]
      BY <1>1, <2>2 DEF OpenModal, sessionVars
    <3>. QED BY <3>1, RenderAgrees
  <2>. QED BY <2>1, <2>2
<1>2. CASE ApplySettings
  <2>. DEFINE paused == session.state = "Paused"
              d == Decide(session.state, session.reason, paused, IF paused THEN frame ELSE 0)
  <2>1. /\ UNCHANGED <<session, frame>>
        /\ decision' = [Applied(d) EXCEPT !.render = TRUE]
    BY <1>2 DEF ApplySettings
  <2>2. /\ d \in Decision /\ d.state = session.state /\ d.reason = session.reason
        /\ d.render = paused /\ (paused => d.frame = frame)
    <3>1. paused \in BOOLEAN /\ (IF paused THEN frame ELSE 0) \in FrameIds \cup {0}
      BY DEF Agree
    <3>2. session.state \in SessionStates /\ session.reason \in PauseReasons
      BY ControlFields DEF Agree
    <3>. HIDE DEF paused
    <3>. QED BY <3>1, <3>2, DecideIsDecision
  <2>. HIDE DEF d
  <2>3. /\ decision \in Decision
        /\ decision.state = session.state
        /\ session.state \in SessionStates
        /\ session.pending =>
              /\ session.reason = "None" /\ session.state # "Finished" /\ session.state # "Error"
              /\ decision.frame = frame /\ frame # 0 /\ decision.reason = "None"
    BY ControlFields DEF Agree, PendingFrameIsDrawn, Message, Shown
  <2>4. Applied(d) \in Decision /\ Drawn(session, frame, Applied(d))
    <3>1. CASE Replaces(d)
      BY <2>2, <2>3, <3>1 DEF Replaces, Applied, Drawn
    <3>2. CASE ~ Replaces(d)
      <4>1. Applied(d) = [decision EXCEPT !.state = session.state]
        BY <2>2, <3>2 DEF Applied
      <4>. QED BY <2>3, <4>1, StateReplaced DEF Drawn
    <3>. QED BY <3>1, <3>2
  <2>5. decision' \in Decision /\ Drawn(session, frame, decision')
    BY <2>1, <2>4, RenderReplaced DEF Drawn
  <2>. QED BY <2>1, <2>5, AgreeFromDrawn DEF Agree, Shown
<1>3. CASE Step
  <2>1. StepSession(Taken) /\ decision' = Applied(Stepped)
    BY <1>3 DEF Step, ApplyDecision
  <2>. QED BY <2>1, StepAgrees, AgreeFromDrawn
<1>4. CASE \E ready \in BOOLEAN : Gate(ready)
  <2>1. /\ UNCHANGED <<session, frame>>
        /\ decision' = decision \/ decision' = [decision EXCEPT !.render = TRUE]
    BY <1>4 DEF Gate, sessionVars
  <2>. QED BY <2>1, RenderAgrees, OthersAgree
<1>5. CASE StopRendering
  <2>1. UNCHANGED <<session, frame>> /\ decision' = [decision EXCEPT !.render = FALSE]
    BY <1>5 DEF StopRendering, sessionVars
  <2>. QED BY <2>1, RenderAgrees
<1>6. CASE \E asks \in BOOLEAN : Acknowledge(asks)
  <2>1. /\ UNCHANGED <<frame, decision>>
        /\ session' = session \/ session' \in Responses(session, "FramePresented")
    BY <1>6 DEF Acknowledge
  <2>2. CASE session' = session
    BY <2>1, <2>2, OthersAgree
  <2>3. CASE session' \in Responses(session, "FramePresented")
    <3>1. session' \in Control /\ Shown(session)' /\ session'.state # "Empty"
      BY <2>3, ResponsesAreShown DEF Agree, Shown
    <3>2. session' = Looks(session.state, session.reason, FALSE)
      BY <2>3 DEF Responses, Agree
    <3>3. session'.state = session.state /\ session'.pending = FALSE
      BY <3>2, LooksIsControl, ControlFields DEF Agree
    <3>. QED BY <2>1, <3>1, <3>3 DEF Agree, PendingFrameIsDrawn
  <2>. QED BY <2>1, <2>2, <2>3
<1>7. CASE \/ HomeGesture \/ LightGesture \/ Finish \/ CloseModal \/ LeaveModal
           \/ ModalDraws \/ SwitchToPaged \/ Poll \/ SaveDeferred \/ Busy
           \/ ExitReader \/ Fatal
  BY <1>7, OthersAgree
     DEF HomeGesture, LightGesture, Finish, CloseModal, LeaveModal, ModalDraws,
         SwitchToPaged, Poll, PanelTap, PollInput, SaveDeferred, Busy, ExitReader, Fatal,
         sessionVars
<1>8. CASE DrawNothing \/ Draw \/ Display \/ Recovered \/ DisplayFails \/ Latch
  BY <1>8, OthersAgree
     DEF DrawNothing, Draw, Display, Recovered, DisplayFails, Latch, sessionVars
<1>9. CASE Gone \/ UNCHANGED vars
  BY <1>9, OthersAgree DEF Gone, vars, sessionVars
<1>. QED
  BY <1>1, <1>2, <1>3, <1>4, <1>5, <1>6, <1>7, <1>8, <1>9 DEF Next, Main, Render

(***************************************************************************)
(* The frame that waits for its acknowledgement is the one that the render *)
(* task draws and acknowledges, for every queue capacity, set of buttons   *)
(* and controls and number of display failures.                            *)
(***************************************************************************)
THEOREM DrawnFrame == Spec => []PendingFrameIsDrawn
<1>1. Agree => PendingFrameIsDrawn
  BY DEF Agree
<1>. QED BY <1>1, AgreeInit, AgreeStep, PTL DEF Spec

-----------------------------------------------------------------------------
\* Every set of natural numbers has a least one.
LEMMA LeastNumber ==
    ASSUME NEW S \in SUBSET Nat, S # {}
    PROVE  \E x \in S : \A y \in S : x <= y
<1>1. OpToRel(<, Nat) = {ss \in Nat \X Nat : ss[1] < ss[2]}
  BY DEF OpToRel
<1>2. PICK x \in S : \A y \in S : ~ (<<y, x>> \in OpToRel(<, Nat))
  BY NatLessThanWellFounded, WFMin
<1>3. \A y \in S : <<y, x>> \in OpToRel(<, Nat) <=> y < x
  <2>. SUFFICES ASSUME NEW y \in S PROVE <<y, x>> \in OpToRel(<, Nat) <=> y < x
    OBVIOUS
  <2>1. <<y, x>> \in Nat \X Nat /\ <<y, x>>[1] = y /\ <<y, x>>[2] = x
    OBVIOUS
  <2>. QED BY Zenon, <1>1, <2>1
<1>4. \A y \in S : ~ (y < x)
  BY Zenon, <1>2, <1>3
<1>. QED BY <1>4

(***************************************************************************)
(* Discarding an action keeps every other one, in a queue that does not    *)
(* grow.  The recursive function of Discard exists, and has these          *)
(* properties, because no length can be the least one at which it fails.   *)
(***************************************************************************)
LEMMA DiscardProperties ==
    ASSUME NEW S, NEW q \in Seq(S), NEW a
    PROVE  /\ Discard(q, a) \in Seq(S)
           /\ Len(Discard(q, a)) <= Len(q)
           /\ \A i \in 1 .. Len(q) : q[i] # a =>
                 \E j \in 1 .. Len(Discard(q, a)) : Discard(q, a)[j] = q[i]
<1>. DEFINE next(f, n) == IF n = 0 THEN << >>
                          ELSE IF q[n] = a THEN f[n - 1]
                          ELSE Append(f[n - 1], q[n])
            kept == CHOOSE f : f = [n \in 0 .. Len(q) |-> next(f, n)]
            follows(f, m) == f \in [0 .. m -> Seq(S)] /\ \A n \in 0 .. m : f[n] = next(f, n)
            bad == {m \in 0 .. Len(q) : ~ \E f : follows(f, m)}
            wrong == {m \in 0 .. Len(q) :
                        ~ /\ kept[m] \in Seq(S)
                          /\ Len(kept[m]) <= m
                          /\ \A i \in 1 .. m : q[i] # a =>
                                \E j \in 1 .. Len(kept[m]) : kept[m][j] = q[i]}
<1>1. Len(q) \in Nat /\ \A n \in 1 .. Len(q) : q[n] \in S
  OBVIOUS
<1>2. bad = {}
  <2>. SUFFICES ASSUME bad # {} PROVE FALSE
    OBVIOUS
  <2>0. bad \in SUBSET Nat
    BY <1>1
  <2>1. PICK m \in bad : \A y \in bad : m <= y
    <3>. HIDE DEF bad
    <3>. QED BY <2>0, LeastNumber
  <2>m. m \in 0 .. Len(q) /\ ~ \E f : follows(f, m)
    BY <2>1
  <2>2. m # 0
    <3>1. follows([n \in 0 .. 0 |-> << >>], 0)
      OBVIOUS
    <3>. QED BY <2>1, <3>1
  <2>3. PICK f : follows(f, m - 1)
    <3>1. m - 1 \in 0 .. Len(q) /\ ~ (m <= m - 1)
      BY <2>m, <2>2, <1>1
    <3>2. m - 1 \notin bad
      <4>. HIDE DEF bad
      <4>. QED BY <2>1, <3>1
    <3>. HIDE DEF follows
    <3>. QED BY <3>1, <3>2
  <2>. DEFINE g == [n \in 0 .. m |-> IF n = m THEN next(f, m) ELSE f[n]]
  <2>4. next(f, m) \in Seq(S)
    BY <1>1, <2>1, <2>2, <2>3
  <2>5. g \in [0 .. m -> Seq(S)]
    BY <1>1, <2>1, <2>3, <2>4
  <2>6. \A n \in 0 .. m : g[n] = next(g, n)
    <3>0. \A n \in 0 .. m - 1 : f[n] = next(f, n)
      BY <2>3
    <3>1. \A n \in 0 .. m - 1 : g[n] = f[n]
      BY <1>1, <2>m, <2>2
    <3>2. \A n \in 1 .. m : g[n - 1] = f[n - 1]
      BY <1>1, <2>m, <2>2, <2>3
    <3>3. g[m] = next(f, m)
      BY <1>1, <2>m, <2>2, <2>3
    <3>. HIDE DEF g
    <3>. QED BY <1>1, <2>m, <2>2, <3>0, <3>1, <3>2, <3>3
  <2>. QED BY <2>m, <2>5, <2>6
<1>3. kept = [n \in 0 .. Len(q) |-> next(kept, n)]
  <2>1. PICK f : follows(f, Len(q))
    BY <1>1, <1>2
  <2>2. f = [n \in 0 .. Len(q) |-> next(f, n)]
    BY <2>1
  <2>. QED BY <2>2
<1>4. Discard(q, a) = kept[Len(q)]
  BY DEF Discard
<1>. HIDE DEF kept
<1>5. wrong = {}
  <2>. SUFFICES ASSUME wrong # {} PROVE FALSE
    OBVIOUS
  <2>0. wrong \in SUBSET Nat
    BY <1>1
  <2>1. PICK m \in wrong : \A y \in wrong : m <= y
    <3>. HIDE DEF wrong
    <3>. QED BY <2>0, LeastNumber
  <2>2. m # 0
    BY <1>1, <1>3, <2>1
  <2>3. /\ kept[m - 1] \in Seq(S)
        /\ Len(kept[m - 1]) <= m - 1
        /\ \A i \in 1 .. m - 1 : q[i] # a =>
              \E j \in 1 .. Len(kept[m - 1]) : kept[m - 1][j] = q[i]
    BY <1>1, <2>1, <2>2
  <2>4. kept[m] = IF q[m] = a THEN kept[m - 1] ELSE Append(kept[m - 1], q[m])
    BY <1>1, <1>3, <2>1, <2>2
  <2>5. m \in Nat \ {0} /\ q[m] \in S
    BY <1>1, <2>1, <2>2
  <2>6. CASE q[m] = a
    <3>1. kept[m] = kept[m - 1]
      BY <2>4, <2>6
    <3>2. \A i \in 1 .. m : q[i] # a => i \in 1 .. m - 1
      BY <2>5, <2>6
    <3>3. kept[m] \in Seq(S) /\ Len(kept[m]) <= m
      <4>1. Len(kept[m - 1]) \in Nat
        BY <2>3
      <4>. QED BY <2>3, <2>5, <3>1, <4>1
    <3>4. \A i \in 1 .. m : q[i] # a => \E j \in 1 .. Len(kept[m]) : kept[m][j] = q[i]
      BY <2>3, <3>1, <3>2
    <3>. QED BY <2>1, <3>3, <3>4
  <2>7. CASE q[m] # a
    <3>1. kept[m] = Append(kept[m - 1], q[m])
      BY <2>4, <2>7
    <3>2. kept[m] \in Seq(S) /\ Len(kept[m]) = Len(kept[m - 1]) + 1
      BY <3>1, <2>3, <2>5
    <3>3. \A j \in 1 .. Len(kept[m - 1]) : kept[m][j] = kept[m - 1][j]
      BY <3>1, <2>3, <2>5
    <3>4. kept[m][Len(kept[m])] = q[m]
      BY <3>1, <2>3, <2>5
    <3>5. Len(kept[m - 1]) \in Nat
      BY <2>3
    <3>. HIDE DEF next
    <3>6. \A i \in 1 .. m : q[i] # a => \E j \in 1 .. Len(kept[m]) : kept[m][j] = q[i]
      <4>. SUFFICES ASSUME NEW i \in 1 .. m, q[i] # a
                    PROVE  \E j \in 1 .. Len(kept[m]) : kept[m][j] = q[i]
        OBVIOUS
      <4>1. CASE i = m
        BY <3>2, <3>4, <3>5, <4>1
      <4>2. CASE i # m
        BY <2>3, <2>5, <3>2, <3>3, <3>5, <4>2
      <4>. QED BY <4>1, <4>2
    <3>. QED BY <2>1, <2>3, <2>5, <3>2, <3>5, <3>6
  <2>. QED BY <2>6, <2>7
<1>. QED BY <1>1, <1>4, <1>5
\* A sequence loses at most the instance of e that comes first.
LEMMA RemoveFirstProperties ==
    ASSUME NEW S, NEW q \in Seq(S), NEW e
    PROVE  /\ RemoveFirst(q, e) \in Seq(S)
           /\ Len(RemoveFirst(q, e)) <= Len(q)
           /\ \A i \in 1 .. Len(q) : q[i] # e =>
                 \E j \in 1 .. Len(RemoveFirst(q, e)) : RemoveFirst(q, e)[j] = q[i]
<1>. DEFINE at == {i \in 1 .. Len(q) : q[i] = e}
            k == Min(at)
            before == SubSeq(q, 1, k - 1)
            after == SubSeq(q, k + 1, Len(q))
<1>1. CASE at = {}
  <2>1. RemoveFirst(q, e) = q
    BY <1>1 DEF RemoveFirst
  <2>. QED BY <2>1
<1>2. CASE at # {}
  <2>0. Len(q) \in Nat
    OBVIOUS
  <2>1. k \in 1 .. Len(q) /\ q[k] = e
    <3>1. at \in SUBSET Nat
      BY <2>0
    <3>2. k \in at
      <4>. HIDE DEF at
      <4>1. PICK x \in at : \A y \in at : x <= y
        BY <1>2, <3>1, LeastNumber
      <4>. QED BY <4>1 DEF Min
    <3>. HIDE DEF k
    <3>. QED BY <3>2
  <2>2. RemoveFirst(q, e) = before \o after
    BY <1>2 DEF RemoveFirst, RemoveAt, SelectInSeq
  <2>. HIDE DEF k
  <2>3. /\ before \in Seq(S) /\ Len(before) = k - 1
        /\ \A i \in 1 .. k - 1 : before[i] = q[i]
    BY <2>0, <2>1
  <2>4. /\ after \in Seq(S) /\ Len(after) = Len(q) - k
        /\ \A i \in 1 .. Len(q) - k : after[i] = q[i + k]
    BY <2>0, <2>1
  <2>. HIDE DEF before, after
  <2>5. /\ before \o after \in Seq(S) /\ Len(before \o after) = Len(q) - 1
        /\ \A i \in 1 .. k - 1 : (before \o after)[i] = q[i]
        /\ \A i \in k .. Len(q) - 1 : (before \o after)[i] = q[i + 1]
    <3>1. /\ before \o after \in Seq(S) /\ Len(before \o after) = Len(q) - 1
      BY <2>0, <2>1, <2>3, <2>4, ConcatProperties
    <3>2. \A i \in 1 .. k - 1 : (before \o after)[i] = before[i]
      BY <2>0, <2>1, <2>3, <2>4, ConcatProperties
    <3>3. \A i \in k .. Len(q) - 1 : (before \o after)[i] = after[i - (k - 1)]
      BY <2>0, <2>1, <2>3, <2>4, ConcatProperties
    <3>4. \A i \in k .. Len(q) - 1 : i - (k - 1) \in 1 .. Len(q) - k /\ i - (k - 1) + k = i + 1
      BY <2>0, <2>1
    <3>. QED BY <2>3, <2>4, <3>1, <3>2, <3>3, <3>4
  <2>6. ASSUME NEW i \in 1 .. Len(q), q[i] # e
        PROVE  \E j \in 1 .. Len(before \o after) : (before \o after)[j] = q[i]
    <3>1. CASE i < k
      BY <2>0, <2>1, <2>5, <3>1
    <3>2. CASE i > k
      <4>1. i - 1 \in k .. Len(q) - 1 /\ i - 1 + 1 = i /\ i - 1 \in 1 .. Len(q) - 1
        BY <2>0, <2>1, <3>2
      <4>. QED BY <2>5, <4>1
    <3>. QED BY <2>0, <2>1, <2>6, <3>1, <3>2
  <2>7. Len(before \o after) <= Len(q)
    BY <2>0, <2>5
  <2>. QED BY <2>2, <2>5, <2>6, <2>7
<1>. QED BY <1>1, <1>2

\* What a push leaves in the queue.
LEMMA PushProperties ==
    ASSUME NEW S, NEW q \in Seq(S), NEW a \in S, Len(q) <= QueueCapacity
    PROVE  /\ Push(q, a) \in Seq(S)
           /\ Len(Push(q, a)) <= QueueCapacity
           /\ \A i \in 1 .. Len(q) : \E j \in 1 .. Len(Push(q, a)) : Push(q, a)[j] = q[i]
           /\ Push(q, a) # q => \E j \in 1 .. Len(Push(q, a)) : Push(q, a)[j] = a
<1>. USE CapacityAssumption
<1>1. CASE Len(q) < QueueCapacity
  <2>1. Push(q, a) = Append(q, a)
    BY <1>1 DEF Push
  <2>. QED BY <1>1, <2>1
<1>2. CASE ~ Len(q) < QueueCapacity
  <2>1. Push(q, a) = q
    BY <1>2 DEF Push
  <2>. QED BY <2>1
<1>. QED BY <1>1, <1>2

(***************************************************************************)
(* The type invariant without the variables that Agree types, and with one *)
(* conjunct per flag.                                                      *)
(***************************************************************************)
QueueTyped == queue \in Seq(Queued) /\ Len(queue) <= QueueCapacity

FlagsTyped ==
    /\ fits \in BOOLEAN /\ panel \in BOOLEAN /\ pauseTouch \in BOOLEAN
    /\ refusalLost \in BOOLEAN /\ wordDoesNotFit \in BOOLEAN
    /\ failed \in BOOLEAN /\ recovering \in BOOLEAN /\ deferred \in BOOLEAN
    /\ fatalPending \in BOOLEAN /\ fatalReady \in BOOLEAN /\ switching \in BOOLEAN
    /\ requested \in BOOLEAN /\ notified \in BOOLEAN /\ held \in BOOLEAN

PointsTyped ==
    /\ failures \in 0 .. MaxFailures
    /\ top \in Modals \cup {"reader", "gone"}
    /\ transition \in {"None", "Replace", "PushPanel", "PushSettings"}
    /\ main \in MainPoints
    /\ task \in TaskPoints

Typed == QueueTyped /\ FlagsTyped /\ PointsTyped

\* Together with Agree this is the type invariant.
LEMMA TypedIsTypeOK ==
    ASSUME Agree, Typed
    PROVE  TypeOK
BY DEF Agree, Typed, QueueTyped, FlagsTyped, PointsTyped, TypeOK

\* Every action that is put into the queue is one of its actions.
LEMMA QueuedActions ==
    /\ Queued = {"Exit", "ModeSwitch", "Toggle", "WordDoesNotFit", "Pace", "Rewind", "StepForward"}
    /\ Buttons \subseteq Queued
    /\ Controls \ {"Settings"} \subseteq Queued
<1>1. /\ DOMAIN Priority = 1 .. 7
      /\ Priority[1] = "Exit" /\ Priority[2] = "ModeSwitch" /\ Priority[3] = "Toggle"
      /\ Priority[4] = "WordDoesNotFit" /\ Priority[5] = "Pace" /\ Priority[6] = "Rewind"
      /\ Priority[7] = "StepForward"
  BY DEF Priority
<1>2. 1 .. 7 = {1, 2, 3, 4, 5, 6, 7}
  OBVIOUS
<1>3. Queued = {Priority[1], Priority[2], Priority[3], Priority[4], Priority[5], Priority[6],
                Priority[7]}
  BY <1>1, <1>2 DEF Queued
<1>. QED BY <1>1, <1>3, ButtonsAssumption, ControlsAssumption

\* The queue keeps its type and its capacity.
LEMMA QueueStep ==
    ASSUME Typed, [Next]_vars
    PROVE  QueueTyped'
<1>. USE DEF QueueTyped, Typed
<1>. USE QueuedActions
<1>1. CASE OpenModal
  BY <1>1, DiscardProperties, CapacityAssumption DEF OpenModal
<1>2. CASE \E control \in Controls : PanelTap(control)
  <2>1. PICK control \in Controls : PanelTap(control)
    BY <1>2
  <2>2. CASE control = "Settings"
    BY <2>1, <2>2 DEF PanelTap
  <2>3. CASE control = "Toggle"
    <3>1. queue' = Push(Discard(queue, "Toggle"), "Toggle")
      BY <2>1, <2>3 DEF PanelTap
    <3>2. Discard(queue, "Toggle") \in Seq(Queued) /\ Len(Discard(queue, "Toggle")) <= QueueCapacity
      BY DiscardProperties, CapacityAssumption
    <3>. QED BY <3>1, <3>2, PushProperties
  <2>4. CASE control \notin {"Settings", "Toggle"}
    <3>1. queue' = Push(queue, control)
      BY <2>1, <2>4 DEF PanelTap
    <3>. QED BY <2>4, <3>1, PushProperties
  <2>. QED BY <2>2, <2>3, <2>4
<1>3. CASE \E touched \in BOOLEAN, button \in Buttons \cup {"None"} : PollInput(touched, button)
  <2>1. PICK touched \in BOOLEAN, button \in Buttons \cup {"None"} : PollInput(touched, button)
    BY <1>3
  <2>. DEFINE kept == IF touched THEN Discard(queue, "Toggle") ELSE queue
              told == IF wordDoesNotFit THEN Push(kept, "WordDoesNotFit") ELSE kept
  <2>2. kept \in Seq(Queued) /\ Len(kept) <= QueueCapacity
    BY DiscardProperties, CapacityAssumption
  <2>3. queue' = IF button = "None" THEN told ELSE Push(told, button)
    BY <2>1 DEF PollInput
  <2>. HIDE DEF kept
  <2>4. told \in Seq(Queued) /\ Len(told) <= QueueCapacity
    BY <2>2, PushProperties
  <2>. HIDE DEF told
  <2>5. CASE button = "None"
    BY <2>3, <2>4, <2>5
  <2>6. CASE button # "None"
    <3>1. button \in Queued /\ queue' = Push(told, button)
      BY <2>3, <2>6
    <3>. QED BY <2>4, <3>1, PushProperties
  <2>. QED BY <2>5, <2>6
<1>4. CASE ExitReader \/ Step
  <2>1. queue' = queue \/ queue' = RemoveFirst(queue, Popped)
    BY <1>4 DEF ExitReader, Step, Remaining
  <2>. QED BY <2>1, RemoveFirstProperties, CapacityAssumption
<1>5. CASE \/ HomeGesture \/ LightGesture \/ Finish \/ CloseModal \/ LeaveModal
           \/ ModalDraws \/ ApplySettings \/ SwitchToPaged \/ (\E ready \in BOOLEAN : Gate(ready))
           \/ SaveDeferred \/ Busy \/ Fatal \/ Render \/ Gone \/ UNCHANGED vars
  <2>1. UNCHANGED queue
    BY <1>5 DEF HomeGesture, LightGesture, Finish, CloseModal, LeaveModal, ModalDraws,
                ApplySettings, SwitchToPaged, Gate, SaveDeferred, Busy, Fatal, Render,
                DrawNothing, Draw, Display, Recovered, DisplayFails, Latch, StopRendering,
                Acknowledge, Gone, vars, inputVars
  <2>. QED BY <2>1
<1>. QED BY <1>1, <1>2, <1>3, <1>4, <1>5 DEF Next, Main, Poll

\* The flags stay Boolean.
LEMMA FlagsStep ==
    ASSUME Typed, [Next]_vars
    PROVE  FlagsTyped'
<1>. USE TouchAssumption DEF FlagsTyped, Typed
<1>1. CASE OpenModal
  <2>1. requested' \in BOOLEAN
    BY <1>1 DEF OpenModal
  <2>2. fits' \in BOOLEAN
    BY <1>1 DEF OpenModal, StepSession, sessionVars
  <2>. QED BY <1>1, <2>1, <2>2 DEF OpenModal, displayVars, fatalVars
<1>2. CASE ApplySettings
  <2>1. panel' \in BOOLEAN /\ pauseTouch' \in BOOLEAN
    BY <1>2 DEF ApplySettings
  <2>. QED BY <1>2, <2>1 DEF ApplySettings, displayVars, fatalVars
<1>3. CASE Step
  <2>1. fits' \in BOOLEAN
    BY <1>3 DEF Step, StepSession
  <2>2. switching' \in BOOLEAN
    BY <1>3 DEF Step
  <2>3. requested' \in BOOLEAN
    BY <1>3 DEF Step, ApplyDecision
  <2>4. panel' \in BOOLEAN
    BY <1>3 DEF Step, ApplyDecision
  <2>5. pauseTouch' \in BOOLEAN
    BY <1>3 DEF Step, ApplyDecision
  <2>. QED BY <1>3, <2>1, <2>2, <2>3, <2>4, <2>5 DEF Step, displayVars
<1>4. CASE Poll
  <2>1. pauseTouch' \in BOOLEAN
    BY <1>4 DEF Poll, PanelTap, PollInput
  <2>2. refusalLost' \in BOOLEAN
    BY <1>4 DEF Poll, PanelTap, PollInput
  <2>3. held' \in BOOLEAN
    BY <1>4 DEF Poll, PanelTap, PollInput, Reads, Enters
  <2>4. wordDoesNotFit' \in BOOLEAN
    BY <1>4 DEF Poll, PanelTap, PollInput
  <2>5. UNCHANGED <<fits, panel, failed, recovering, deferred, fatalPending, fatalReady,
                    switching, requested, notified>>
    BY <1>4 DEF Poll, PanelTap, PollInput, sessionVars, displayVars, fatalVars, renderVars
  <2>. QED BY <2>1, <2>2, <2>3, <2>4, <2>5
<1>5. CASE HomeGesture \/ LightGesture \/ CloseModal \/ LeaveModal \/ ModalDraws \/ Busy
           \/ ExitReader \/ Gone \/ UNCHANGED vars
  <2>1. notified' \in BOOLEAN
    BY <1>5 DEF HomeGesture, LightGesture, CloseModal, LeaveModal, ModalDraws, Busy, ExitReader,
                Gone, vars, renderVars
  <2>2. UNCHANGED <<fits, panel, pauseTouch, refusalLost, wordDoesNotFit, failed, recovering>>
    BY <1>5 DEF HomeGesture, LightGesture, CloseModal, LeaveModal, ModalDraws, Busy, ExitReader,
                Gone, vars, sessionVars, inputVars, displayVars
  <2>3. UNCHANGED <<deferred, fatalPending, fatalReady, switching, requested, held>>
    BY <1>5 DEF HomeGesture, LightGesture, CloseModal, LeaveModal, ModalDraws, Busy, ExitReader,
                Gone, vars, fatalVars, renderVars
  <2>. QED BY <2>1, <2>2, <2>3
<1>6. CASE Finish \/ SwitchToPaged \/ (\E ready \in BOOLEAN : Gate(ready)) \/ SaveDeferred \/ Fatal
  <2>1. notified' \in BOOLEAN
    BY <1>6 DEF Finish, SwitchToPaged, Gate, SaveDeferred, Fatal, renderVars
  <2>2. requested' \in BOOLEAN /\ recovering' \in BOOLEAN
    BY <1>6 DEF Finish, SwitchToPaged, Gate, SaveDeferred, Fatal, renderVars, displayVars
  <2>3. held' \in BOOLEAN
    BY <1>6 DEF Finish, SwitchToPaged, Enters, Gate, SaveDeferred, Fatal
  <2>4. deferred' \in BOOLEAN /\ fatalPending' \in BOOLEAN
    BY <1>6 DEF Finish, SwitchToPaged, Gate, SaveDeferred, Fatal, fatalVars
  <2>5. fatalReady' \in BOOLEAN /\ switching' \in BOOLEAN
    BY <1>6 DEF Finish, SwitchToPaged, Gate, SaveDeferred, Fatal, fatalVars
  <2>6. UNCHANGED <<fits, panel, pauseTouch, refusalLost, wordDoesNotFit, failed>>
    BY <1>6 DEF Finish, SwitchToPaged, Gate, SaveDeferred, Fatal, sessionVars, inputVars,
                displayVars
  <2>. QED BY <2>1, <2>2, <2>3, <2>4, <2>5, <2>6
<1>7. CASE Render
  <2>1. wordDoesNotFit' \in BOOLEAN
    BY <1>7 DEF Render, DrawNothing, Draw, Display, Recovered, DisplayFails, Latch,
                StopRendering, Acknowledge
  <2>2. deferred' \in BOOLEAN
    BY <1>7 DEF Render, DrawNothing, Draw, Display, Recovered, DisplayFails, Latch,
                StopRendering, Acknowledge
  <2>3. fatalReady' \in BOOLEAN
    BY <1>7 DEF Render, DrawNothing, Draw, Display, Recovered, DisplayFails, Latch,
                StopRendering, Acknowledge, fatalVars
  <2>4. failed' \in BOOLEAN /\ recovering' \in BOOLEAN /\ notified' \in BOOLEAN
    BY <1>7 DEF Render, DrawNothing, Draw, Wakes, Display, Recovered, DisplayFails, Latch,
                StopRendering, Acknowledge, displayVars, renderVars
  <2>5. UNCHANGED <<fits, panel, pauseTouch, refusalLost, fatalPending, switching, requested,
                    held>>
    BY <1>7 DEF Render, DrawNothing, Draw, Display, Recovered, DisplayFails, Latch,
                StopRendering, Acknowledge, sessionVars, inputVars, fatalVars, renderVars
  <2>. QED BY <2>1, <2>2, <2>3, <2>4, <2>5
<1>. QED BY <1>1, <1>2, <1>3, <1>4, <1>5, <1>6, <1>7 DEF Next, Main

\* The two tasks, the manager and the bound keep their types.
LEMMA PointsStep ==
    ASSUME Typed, [Next]_vars
    PROVE  PointsTyped'
<1>. USE FailuresAssumption DEF PointsTyped, Typed, Modals, MainPoints, TaskPoints
<1>1. CASE OpenModal \/ Step \/ Poll
  BY <1>1 DEF OpenModal, Step, Poll, PanelTap, PollInput, Reads, Enters, displayVars, managerVars
<1>2. CASE Finish
  <2>1. top' \in Modals \cup {"reader", "gone"}
    BY <1>2, Zenon DEF Finish, managerVars
  <2>. QED BY <1>2, <2>1 DEF Finish, displayVars, managerVars
<1>3. CASE \/ HomeGesture \/ LightGesture \/ CloseModal \/ LeaveModal \/ ModalDraws
           \/ ApplySettings \/ SwitchToPaged \/ (\E ready \in BOOLEAN : Gate(ready))
  BY <1>3 DEF HomeGesture, LightGesture, CloseModal, LeaveModal, ModalDraws, ApplySettings,
              SwitchToPaged, Enters, Gate, displayVars, managerVars
<1>4. CASE SaveDeferred \/ Busy \/ ExitReader \/ Fatal \/ Gone \/ UNCHANGED vars
  BY <1>4 DEF SaveDeferred, Busy, ExitReader, Fatal, Gone, vars, displayVars, managerVars
<1>5. CASE Render
  BY <1>5 DEF Render, DrawNothing, Draw, Display, Recovered, DisplayFails, Latch,
              StopRendering, Acknowledge, displayVars, managerVars
<1>. QED BY <1>1, <1>2, <1>3, <1>4, <1>5 DEF Next, Main

(***************************************************************************)
(* The strengthening of FrameIsOnItsWay.  A frame that waits is marked for *)
(* drawing or the display has failed; the mark is only taken away after    *)
(* the failure is latched, so a drawing that was notified never finds      *)
(* nothing to draw.                                                        *)
(***************************************************************************)
DrawIsDue ==
    /\ session.pending => decision.render \/ failed
    /\ session.pending /\ task \in {"display", "recovered", "failing", "ack"} => decision.render
    /\ task = "latched" => failed

IInv == Agree /\ Typed /\ DrawIsDue /\ FrameIsOnItsWay

\* A step of the session leaves a frame marked for drawing: a new one, or the old one.
LEMMA StepIsDrawn ==
    ASSUME Agree, NEW a, StepSession(a)
    PROVE  /\ session'.pending /\ ~ session.pending =>
                 Applied(Stepped).render /\ AsksForUpdate(Stepped)
           /\ session'.pending /\ session.pending => Applied(Stepped).render = decision.render
<1>1. session' \in Control /\ Shown(session)'
  BY StepAgrees
<1>2. /\ session'.state \in SessionStates
      /\ session'.reason \in PauseReasons
      /\ session.pending \in BOOLEAN
      /\ session'.pending \in BOOLEAN
  BY <1>1, ControlFields DEF Agree
<1>. DEFINE shows == ~ session.pending /\ session'.pending
<1>3. frame' \in FrameIds \cup {0}
  BY StepAgrees
<1>4. /\ Stepped.state = session'.state
      /\ Stepped.reason = session'.reason
      /\ Stepped.render = shows
  <2>1. shows \in BOOLEAN /\ (IF shows THEN frame' ELSE 0) \in FrameIds \cup {0}
    BY <1>2, <1>3
  <2>2. Stepped = Decide(session'.state, session'.reason, shows, IF shows THEN frame' ELSE 0)
    BY DEF Stepped
  <2>. HIDE DEF shows
  <2>. QED BY <1>2, <2>1, <2>2, DecideIsDecision
<1>5. CASE shows
  BY <1>4, <1>5 DEF Applied, Replaces, AsksForUpdate
<1>6. CASE session.pending /\ session'.pending
  <2>1. session'.reason = "None" /\ session'.state \notin {"Finished", "Error"}
    BY <1>1, <1>6 DEF Shown
  <2>2. ~ Replaces(Stepped)
    BY <1>4, <1>6, <2>1 DEF Replaces
  <2>3. Applied(Stepped) = [decision EXCEPT !.state = session'.state]
    BY <1>4, <2>2 DEF Applied
  <2>4. decision \in Decision
    BY DEF Agree
  <2>. QED BY <1>6, <2>3, <2>4 DEF Decision
<1>. QED BY <1>5, <1>6

\* The session forgets a frame that the renderer refused.
LEMMA RefusalEndsTheFrame ==
    ASSUME NEW c \in Control, Shown(c), c.state # "Empty",
           NEW d \in Responses(c, "WordDoesNotFit"), d.pending
    PROVE  d.state = "Exited"
<1>1. CASE c.state \in Ended
  <2>1. d = c
    BY <1>1 DEF Responses, Ended
  <2>. QED BY <1>1, <2>1 DEF Shown, Ended
<1>2. CASE c.state \notin Ended
  <2>1. d = Looks("Boundary", "Oversized", FALSE)
    BY <1>2 DEF Responses, Handled
  <2>2. d.pending = FALSE
    BY <2>1 DEF Looks
  <2>. QED BY <2>2
<1>. QED BY <1>1, <1>2

\* The mark of a frame that waits is only taken away with the failure latched.
LEMMA DrawIsDueStep ==
    ASSUME IInv, [Next]_vars
    PROVE  DrawIsDue'
<1>. USE DEF IInv
<1>0. /\ session.pending \in BOOLEAN /\ session'.pending \in BOOLEAN
      /\ decision \in Decision /\ decision.render \in BOOLEAN
      /\ session.pending => ~ Message
  BY AgreeStep, ControlFields, DecisionFields DEF Agree, PendingFrameIsDrawn
<1>1. CASE OpenModal
  <2>1. decision'.render /\ UNCHANGED <<failed, task>>
    <3>1. CASE decision.state = "Playing"
      <4>1. StepSession("Toggle") /\ decision' = [Applied(Stepped) EXCEPT !.render = TRUE]
        BY <1>1, <3>1 DEF OpenModal
      <4>2. Applied(Stepped) \in Decision
        BY <4>1, StepAgrees
      <4>. QED BY <1>1, <4>1, <4>2 DEF OpenModal, displayVars, Decision
    <3>2. CASE decision.state # "Playing"
      BY <1>0, <1>1, <3>2 DEF OpenModal, displayVars, Decision
    <3>. QED BY <3>1, <3>2
  <2>. QED BY <2>1 DEF DrawIsDue
<1>2. CASE ApplySettings
  <2>1. UNCHANGED <<failed, task>>
    BY <1>2 DEF ApplySettings, displayVars
  <2>2. decision'.render
    <3>. DEFINE paused == session.state = "Paused"
                d == Decide(session.state, session.reason, paused, IF paused THEN frame ELSE 0)
    <3>1. decision' = [Applied(d) EXCEPT !.render = TRUE]
      BY <1>2 DEF ApplySettings
    <3>2. d \in Decision /\ d.state \in SessionStates
      <4>1. paused \in BOOLEAN /\ (IF paused THEN frame ELSE 0) \in FrameIds \cup {0}
        BY DEF Agree
      <4>2. session.state \in SessionStates /\ session.reason \in PauseReasons
        BY ControlFields DEF Agree
      <4>. HIDE DEF paused
      <4>. QED BY <4>1, <4>2, DecideIsDecision
    <3>. HIDE DEF d
    <3>3. Applied(d) \in Decision
      BY <1>0, <3>2, StateReplaced DEF Applied
    <3>. QED BY <3>1, <3>3 DEF Decision
  <2>. QED BY <2>1, <2>2 DEF DrawIsDue
<1>3. CASE Step
  <2>1. /\ StepSession(Taken) /\ decision' = Applied(Stepped)
        /\ UNCHANGED <<failed, task>> /\ ~ Rendering
    BY <1>3 DEF Step, ApplyDecision, displayVars
  <2>. QED BY <1>0, <2>1, StepIsDrawn DEF DrawIsDue, Rendering
<1>4. CASE \E ready \in BOOLEAN : Gate(ready)
  <2>1. /\ UNCHANGED <<session, failed, task>>
        /\ decision' = decision \/ decision' = [decision EXCEPT !.render = TRUE]
    BY <1>4 DEF Gate, sessionVars
  <2>2. decision' = decision \/ decision'.render
    BY <1>0, <2>1 DEF Decision
  <2>. QED BY <2>1, <2>2 DEF DrawIsDue
<1>5. CASE \/ HomeGesture \/ LightGesture \/ Finish \/ CloseModal \/ LeaveModal
           \/ ModalDraws \/ SwitchToPaged \/ Poll \/ SaveDeferred \/ Busy
           \/ ExitReader \/ Fatal \/ DrawNothing \/ Gone \/ UNCHANGED vars
  <2>1. UNCHANGED <<session, decision, failed, task>>
    BY <1>5 DEF HomeGesture, LightGesture, Finish, CloseModal, LeaveModal, ModalDraws,
         SwitchToPaged, Poll, PanelTap, PollInput, SaveDeferred, Busy, ExitReader, Fatal,
         DrawNothing, Gone, vars, sessionVars, displayVars
  <2>. QED BY <2>1 DEF DrawIsDue
<1>6. CASE Draw
  BY <1>0, <1>6 DEF Draw, Wakes, NothingToDraw, DrawIsDue, sessionVars, displayVars
<1>7. CASE Display \/ Recovered \/ DisplayFails \/ Latch
  BY <1>0, <1>7 DEF Display, Recovered, DisplayFails, Latch, DrawIsDue, sessionVars
<1>8. CASE StopRendering
  BY <1>8 DEF StopRendering, DrawIsDue, sessionVars, displayVars
<1>9. CASE \E asks \in BOOLEAN : Acknowledge(asks)
  <2>1. /\ UNCHANGED <<decision, failed>> /\ task' = "wait" /\ task = "ack"
        /\ session' = session \/ session' \in Responses(session, "FramePresented")
    BY <1>9 DEF Acknowledge, displayVars
  <2>2. session'.pending => session.pending
    <3>1. CASE session' \in Responses(session, "FramePresented")
      <4>1. session'.pending = FALSE
        BY <3>1 DEF Responses, Agree, Looks
      <4>. QED BY <4>1
    <3>. QED BY <2>1, <3>1
  <2>. QED BY <2>1, <2>2 DEF DrawIsDue
<1>. QED
  BY <1>1, <1>2, <1>3, <1>4, <1>5, <1>6, <1>7, <1>8, <1>9 DEF Next, Main, Render

\* Whether an action is in a queue.
Holds(q, a) == a \in ToSet(q)

\* A queue keeps an action when another one is discarded, removed or pushed.
LEMMA HoldsKept ==
    ASSUME NEW q \in Seq(Queued), Len(q) <= QueueCapacity, NEW a, Holds(q, a), NEW b, b # a
    PROVE  /\ Holds(Discard(q, b), a)
           /\ Holds(RemoveFirst(q, b), a)
           /\ b \in Queued => Holds(Push(q, b), a)
<1>1. PICK i \in 1 .. Len(q) : q[i] = a
  BY DEF Holds, ToSet
<1>2. Holds(Discard(q, b), a)
  BY <1>1, DiscardProperties DEF Holds, ToSet
<1>3. Holds(RemoveFirst(q, b), a)
  BY <1>1, RemoveFirstProperties DEF Holds, ToSet
<1>4. ASSUME b \in Queued
      PROVE  Holds(Push(q, b), a)
  <2>1. Push(q, b) \in Seq(Queued)
    BY <1>4, PushProperties
  <2>2. PICK j \in 1 .. Len(Push(q, b)) : Push(q, b)[j] = q[i]
    BY <1>4, PushProperties
  <2>. QED BY <1>1, <2>1, <2>2 DEF Holds, ToSet
<1>. QED BY <1>2, <1>3, <1>4

\* Whoever takes one of the signals of a waiting frame leaves another one behind.
LEMMA FrameStep ==
    ASSUME IInv, [Next]_vars
    PROVE  FrameIsOnItsWay'
<1>. USE DEF IInv
<1>. DEFINE due == /\ session.pending /\ session.state # "Exited" /\ top = "reader"
            refused == Holds(queue, "WordDoesNotFit")
<1>0. /\ session \in Control /\ Shown(session) /\ session.state # "Empty"
      /\ session.pending \in BOOLEAN /\ session'.pending \in BOOLEAN
      /\ session.pending => ~ Message
      /\ queue \in Seq(Queued) /\ Len(queue) <= QueueCapacity
      /\ "WordDoesNotFit" \in Queued
  BY AgreeStep, ControlFields, QueuedActions
     DEF Agree, PendingFrameIsDrawn, Typed, QueueTyped
<1>a. due => \/ requested \/ notified \/ Rendering \/ wordDoesNotFit \/ refused
             \/ failed \/ main = "apply" \/ refusalLost
  BY DEF FrameIsOnItsWay, Holds
<1>b. \/ (requested \/ notified \/ Rendering \/ wordDoesNotFit \/ refused
           \/ failed \/ main = "apply" \/ refusalLost)'
      \/ ~ due'
      => FrameIsOnItsWay'
  BY DEF FrameIsOnItsWay, Holds
<1>c. ASSUME NEW a, StepSession(a), session.state = "Exited"
      PROVE  session'.state = "Exited"
  <2>1. session' = session \/ session' = Looks("Exited", "None", session.pending)
                           \/ session' = Looks(session.state, session.reason, FALSE)
    BY <1>c, <1>0 DEF StepSession, Responses, Ended
  <2>. QED BY <1>c, <2>1 DEF Looks
<1>. HIDE DEF refused
<1>1. CASE OpenModal
  <2>1. refused => refused'
    BY <1>0, <1>1, HoldsKept DEF OpenModal, refused
  <2>2. /\ ~ Rendering /\ main # "apply"
        /\ UNCHANGED <<notified, wordDoesNotFit, failed, refusalLost, top>>
        /\ requested => requested'
    BY <1>1 DEF OpenModal, displayVars
  <2>3. CASE decision.state = "Playing"
    <3>1. /\ StepSession("Toggle")
          /\ requested' = (requested \/ AsksForUpdate(Stepped))
      BY <1>1, <2>3 DEF OpenModal
    <3>2. session'.pending /\ ~ session.pending => requested'
      BY <3>1, StepIsDrawn
    <3>. QED BY <1>0, <1>a, <1>b, <1>c, <2>1, <2>2, <3>1, <3>2
  <2>4. CASE decision.state # "Playing"
    <3>1. UNCHANGED session
      BY <1>1, <2>4 DEF OpenModal, sessionVars
    <3>. QED BY <1>a, <1>b, <2>1, <2>2, <3>1
  <2>. QED BY <2>3, <2>4
<1>2. CASE Step
  <2>1. /\ ~ Rendering /\ main # "apply"
        /\ UNCHANGED <<notified, wordDoesNotFit, failed, refusalLost, top>>
        /\ requested => requested'
        /\ AsksForUpdate(Stepped) => requested'
        /\ StepSession(Taken) /\ queue' = Remaining
    BY <1>2 DEF Step, ApplyDecision, displayVars
  <2>2. session'.pending /\ ~ session.pending => requested'
    BY <2>1, StepIsDrawn
  <2>3. refused => refused' \/ Taken = "WordDoesNotFit"
    BY <1>0, <2>1, HoldsKept DEF Taken, Remaining, refused
  <2>4. CASE Taken = "WordDoesNotFit"
    <3>1. session'.pending => session'.state = "Exited"
      BY <1>0, <2>1, <2>4, RefusalEndsTheFrame DEF StepSession
    <3>. QED BY <1>b, <3>1
  <2>5. CASE Taken # "WordDoesNotFit"
    BY <1>0, <1>a, <1>b, <1>c, <2>1, <2>2, <2>3, <2>5
  <2>. QED BY <2>4, <2>5
<1>3. CASE \E control \in Controls : PanelTap(control)
  <2>1. PICK control \in Controls : PanelTap(control)
    BY <1>3
  <2>2. /\ UNCHANGED <<session, requested, notified, task, wordDoesNotFit, failed, refusalLost, top>>
        /\ main = "manager"
    BY <2>1 DEF PanelTap, Reads, Enters, sessionVars, displayVars, renderVars, managerVars
  <2>3. refused => refused'
    <3>1. CASE control = "Settings"
      BY <2>1, <3>1 DEF PanelTap, refused
    <3>2. CASE control = "Toggle"
      <4>1. queue' = Push(Discard(queue, "Toggle"), "Toggle")
        BY <2>1, <3>2 DEF PanelTap
      <4>2. /\ Discard(queue, "Toggle") \in Seq(Queued)
            /\ Len(Discard(queue, "Toggle")) <= QueueCapacity
        BY <1>0, DiscardProperties, CapacityAssumption
      <4>3. refused => Holds(Discard(queue, "Toggle"), "WordDoesNotFit")
        BY <1>0, HoldsKept DEF refused
      <4>. QED BY <4>1, <4>2, <4>3, HoldsKept, QueuedActions DEF refused
    <3>3. CASE control \notin {"Settings", "Toggle"}
      <4>1. queue' = Push(queue, control) /\ control # "WordDoesNotFit" /\ control \in Queued
        BY <2>1, <3>3, QueuedActions, ControlsAssumption DEF PanelTap
      <4>. QED BY <1>0, <4>1, HoldsKept DEF refused
    <3>. QED BY <3>1, <3>2, <3>3
  <2>. QED BY <1>a, <1>b, <2>2, <2>3 DEF Rendering
<1>4. CASE \E touched \in BOOLEAN, button \in Buttons \cup {"None"} : PollInput(touched, button)
  <2>1. PICK touched \in BOOLEAN, button \in Buttons \cup {"None"} : PollInput(touched, button)
    BY <1>4
  <2>. DEFINE kept == IF touched THEN Discard(queue, "Toggle") ELSE queue
              told == IF wordDoesNotFit THEN Push(kept, "WordDoesNotFit") ELSE kept
  <2>2. /\ UNCHANGED <<session, requested, notified, task, failed, top>>
        /\ main = "manager"
        /\ refusalLost' = (refusalLost \/ (wordDoesNotFit /\ told = kept))
        /\ queue' = IF button = "None" THEN told ELSE Push(told, button)
    BY <2>1 DEF PollInput, Reads, Enters, sessionVars, displayVars, renderVars, managerVars
  <2>3. /\ kept \in Seq(Queued) /\ Len(kept) <= QueueCapacity
        /\ refused => Holds(kept, "WordDoesNotFit")
    BY <1>0, DiscardProperties, HoldsKept, CapacityAssumption DEF refused
  <2>. HIDE DEF kept
  <2>4. /\ told \in Seq(Queued) /\ Len(told) <= QueueCapacity
        /\ refused => Holds(told, "WordDoesNotFit")
        /\ wordDoesNotFit => Holds(told, "WordDoesNotFit") \/ told = kept
    <3>1. CASE wordDoesNotFit
      <4>1. told = Push(kept, "WordDoesNotFit")
        BY <3>1
      <4>2. told # kept => Holds(told, "WordDoesNotFit")
        <5>. SUFFICES ASSUME told # kept PROVE Holds(told, "WordDoesNotFit")
          OBVIOUS
        <5>1. told \in Seq(Queued)
          BY <1>0, <2>3, <4>1, PushProperties
        <5>2. PICK j \in 1 .. Len(told) : told[j] = "WordDoesNotFit"
          BY <1>0, <2>3, <4>1, PushProperties
        <5>. HIDE DEF told
        <5>. QED BY <5>1, <5>2 DEF Holds, ToSet
      <4>. QED BY <1>0, <2>3, <4>1, <4>2, PushProperties
    <3>2. CASE ~ wordDoesNotFit
      BY <2>3, <3>2
    <3>. QED BY <3>1, <3>2
  <2>. HIDE DEF told
  <2>5. Holds(told, "WordDoesNotFit") => refused'
    <3>1. CASE button = "None"
      BY <2>2, <3>1 DEF refused
    <3>2. CASE button # "None"
      <4>1. button \in Queued /\ button # "WordDoesNotFit" /\ queue' = Push(told, button)
        BY <2>2, <3>2, ButtonsAssumption
      <4>. QED BY <2>4, <4>1, HoldsKept DEF refused
    <3>. QED BY <3>1, <3>2
  <2>. QED BY <1>a, <1>b, <2>2, <2>4, <2>5 DEF Rendering
<1>5. CASE Finish
  <2>1. /\ UNCHANGED <<session, queue, wordDoesNotFit, failed, refusalLost, task>>
        /\ main = "finish" /\ notified' = (notified \/ requested)
    BY <1>5 DEF Finish, sessionVars, inputVars, displayVars
  <2>2. top' = "reader" => top = "reader"
    BY <1>5, Zenon DEF Finish, managerVars
  <2>. QED BY <1>a, <1>b, <2>1, <2>2 DEF Rendering, refused
<1>6. CASE CloseModal \/ LeaveModal \/ ModalDraws \/ ApplySettings
  <2>1. notified' \/ main' = "apply" \/ top' # "reader"
    BY <1>6 DEF CloseModal, LeaveModal, ModalDraws, ApplySettings, managerVars, Modals
  <2>. QED BY <1>b, <2>1
<1>7. CASE HomeGesture \/ LightGesture \/ SwitchToPaged \/ SaveDeferred \/ Busy \/ ExitReader
           \/ Fatal \/ (\E ready \in BOOLEAN : Gate(ready)) \/ Gone \/ UNCHANGED vars
  <2>1. CASE Gone \/ UNCHANGED vars
    BY <1>a, <1>b, <2>1 DEF Gone, vars, sessionVars, inputVars, displayVars, renderVars,
                            managerVars, Rendering, refused
  <2>2. CASE ExitReader
    <3>1. /\ UNCHANGED <<session, requested, notified, wordDoesNotFit, failed, refusalLost, task, top>>
          /\ main # "apply" /\ queue' = Remaining /\ Taken = "Exit"
      BY <2>2 DEF ExitReader, sessionVars, displayVars, renderVars
    <3>2. refused => refused'
      BY <1>0, <3>1, HoldsKept DEF Taken, Remaining, refused
    <3>. QED BY <1>a, <1>b, <3>1, <3>2 DEF Rendering
  <2>3. CASE HomeGesture \/ LightGesture \/ SwitchToPaged \/ SaveDeferred \/ Busy
             \/ Fatal \/ (\E ready \in BOOLEAN : Gate(ready))
    <3>1. /\ UNCHANGED <<session, queue, wordDoesNotFit, failed, refusalLost>>
          /\ main # "apply"
      BY <2>3 DEF HomeGesture, LightGesture, SwitchToPaged, Enters, SaveDeferred, Busy,
                  Fatal, Gate, sessionVars, inputVars, displayVars
    <3>2. /\ UNCHANGED <<notified, task, top>>
          /\ requested => requested'
      BY <2>3 DEF HomeGesture, LightGesture, SwitchToPaged, Enters, SaveDeferred, Busy,
                  Fatal, Gate, managerVars, renderVars
    <3>. QED BY <1>a, <1>b, <3>1, <3>2 DEF Rendering, refused
  <2>. QED BY <1>7, <2>1, <2>2, <2>3
<1>8. CASE DrawNothing
  <2>1. /\ UNCHANGED <<session, top, failed>>
        /\ top # "reader" \/ (~ decision.render /\ ~ Message) \/ failed
    BY <1>8 DEF DrawNothing, NothingToDraw, sessionVars, managerVars, displayVars
  <2>. QED BY <1>0, <1>b, <2>1 DEF DrawIsDue
<1>9. CASE Draw \/ Display \/ Recovered \/ DisplayFails \/ Latch
  <2>1. Rendering'
    BY <1>9 DEF Draw, Display, Recovered, DisplayFails, Latch, Rendering
  <2>. QED BY <1>b, <2>1
<1>10. CASE StopRendering
  <2>1. failed'
    BY <1>10 DEF StopRendering, DrawIsDue, displayVars
  <2>. QED BY <1>b, <2>1
<1>11. CASE \E asks \in BOOLEAN : Acknowledge(asks)
  <2>1. /\ UNCHANGED wordDoesNotFit
        /\ session' \in IF ~ Message /\ ~ wordDoesNotFit /\ decision.frame = frame
                        THEN Responses(session, "FramePresented")
                        ELSE {session}
    BY <1>11 DEF Acknowledge
  <2>2. CASE session' \in Responses(session, "FramePresented")
    <3>1. session'.pending = FALSE
      BY <1>0, <2>2 DEF Responses, Looks
    <3>. QED BY <1>b, <3>1
  <2>3. CASE session' = session /\ (Message \/ wordDoesNotFit \/ decision.frame # frame)
    <3>1. session.pending => wordDoesNotFit
      BY <2>3 DEF Agree, PendingFrameIsDrawn
    <3>. QED BY <1>b, <2>1, <2>3, <3>1
  <2>. QED BY <2>1, <2>2, <2>3
<1>. QED
  BY <1>1, <1>2, <1>3, <1>4, <1>5, <1>6, <1>7, <1>8, <1>9, <1>10, <1>11
     DEF Next, Main, Render, Poll

\* The first update is requested when the activity is entered.
LEMMA IInvInit ==
    ASSUME Init
    PROVE  IInv
<1>. USE DEF Init
<1>1. Agree
  BY AgreeInit
<1>2. Typed
  <2>1. QueueTyped
    BY CapacityAssumption DEF QueueTyped
  <2>2. FlagsTyped
    BY TouchAssumption DEF FlagsTyped
  <2>3. PointsTyped
    BY FailuresAssumption DEF PointsTyped, Modals, MainPoints, TaskPoints
  <2>. QED BY <2>1, <2>2, <2>3 DEF Typed
<1>3. DrawIsDue
  <2>1. session.state \in SessionStates /\ session.reason \in PauseReasons
        /\ session.pending \in BOOLEAN /\ frame \in FrameIds \cup {0}
    BY <1>1, ControlFields DEF Agree
  <2>2. decision.render = session.pending
    BY <2>1, DecideIsDecision
  <2>. QED BY <2>2 DEF DrawIsDue
<1>4. FrameIsOnItsWay
  BY DEF FrameIsOnItsWay
<1>. QED BY <1>1, <1>2, <1>3, <1>4 DEF IInv

\* The inductive invariant holds for ever.
LEMMA IInvHolds == Spec => []IInv
<1>1. IInv /\ [Next]_vars => IInv'
  BY AgreeStep, QueueStep, FlagsStep, PointsStep, DrawIsDueStep, FrameStep DEF IInv, Typed
<1>. QED BY <1>1, IInvInit, PTL DEF Spec

(***************************************************************************)
(* Every variable of the two tasks keeps its type, and the queue keeps to  *)
(* its capacity, whatever is pushed, discarded and popped.                 *)
(***************************************************************************)
THEOREM ReaderTypeOK == Spec => []TypeOK
<1>1. IInv => TypeOK
  BY TypedIsTypeOK DEF IInv
<1>. QED BY <1>1, IInvHolds, PTL

(***************************************************************************)
(* A frame that waits for its acknowledgement is never forgotten by the    *)
(* two tasks: something that will settle it is always under way.           *)
(***************************************************************************)
THEOREM WaitingFrameIsOnItsWay == Spec => []FrameIsOnItsWay
<1>1. IInv => FrameIsOnItsWay
  BY DEF IInv
<1>. QED BY <1>1, IInvHolds, PTL
=============================================================================
