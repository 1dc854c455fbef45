----------------------------- MODULE ActivityManager -----------------------------
(***************************************************************************)
(* The activity manager: the main task runs passes of loop(), calls the    *)
(* current activity and carries out the transition it left behind, and the *)
(* render task draws the current activity when it is notified.  The two    *)
(* share the activity, its content and the notifications.                  *)
(*                                                                         *)
(* Activities are objects: an identity that has been destroyed may be used *)
(* for a new one.  Only what an activity asks of the manager is modelled.  *)
(***************************************************************************)
EXTENDS Sequences, FiniteSets, Naturals

CONSTANTS
    Homes,      \* HomeActivity objects
    Screens,    \* all other activities
    Panels,     \* FrontlightPanelActivity objects
    Checked,    \* activities whose displayRecoveryPending() may answer true
    Exclusive,  \* activities that require the exclusive-storage loop
    Sleep,      \* the SleepActivity
    None, Lost, \* no activity; a child destroyed before it was entered
    MaxCalls    \* bound: calls of the manager in one callback of an activity

Activities == Homes \cup Screens \cup Panels \cup {Sleep}

ASSUME ConstantsAssumption ==
    /\ None \notin Activities /\ Lost \notin Activities \cup {None}
    /\ Checked \subseteq Screens /\ Exclusive \subseteq Screens
    /\ Sleep \notin Homes \cup Screens \cup Panels
    /\ MaxCalls \in Nat

VARIABLES
    pc,              \* where the main task is
    within,          \* the callback it is in
    calls,           \* calls made by that callback
    asked,           \* that callback has requested an update
    current, stack,  \* currentActivity, stackActivities
    pendingAction, pendingActivity,
    handler,         \* [a]: the child whose result a's resultHandler waits for
    entered,         \* activities between onEnter() and onExit()
    requestedUpdate,
    notified,        \* the render task has a notification
    waiter,          \* waitingTaskHandle is set
    released,        \* the main task has a notification
    rpc,             \* where the render task is
    dirty,           \* the current activity has content no drawing has begun with
    failed,          \* activities whose last display update failed: productionDisplayFailure
    recovering,      \* those of them that have requested a recovery drawing since
    sleeping,        \* the pass is goToSleep's
    displaced        \* something in that pass came before the sleep screen

transition == <<pendingAction, pendingActivity, handler>>
objects == <<current, stack, entered>>
signals == <<requestedUpdate, notified, waiter, released, rpc>>
latch == <<failed, recovering>>
vars == <<pc, within, calls, asked, transition, objects, signals, dirty, latch,
          sleeping, displaced>>

Fresh(S) == S \ entered

Early == current \in Exclusive \cup failed

Init ==
    /\ pc = "call" /\ within = "enter" /\ calls = 0 /\ asked = FALSE
    /\ current \in Homes \cup Screens /\ stack = << >> /\ entered = {current}
    /\ pendingAction = "None" /\ pendingActivity = None
    /\ handler = [a \in Activities |-> None]
    /\ requestedUpdate = FALSE /\ notified = FALSE /\ waiter = FALSE /\ released = FALSE
    /\ rpc = "wait" /\ dirty = TRUE /\ failed = {} /\ recovering = {} /\ sleeping = FALSE /\ displaced = FALSE

---------------------------------------------------------------------------
(* The transition requests.  A pending activity they replace is destroyed. *)

WithoutPending ==
    IF current \in Activities /\ pendingActivity # None /\ handler[current] = pendingActivity
    THEN [handler EXCEPT ![current] = Lost]
    ELSE handler

replaceActivity(a) ==
    /\ pendingActivity' = a /\ pendingAction' = "Replace" /\ handler' = WithoutPending

pushActivity(a) ==
    /\ pendingActivity' = a /\ pendingAction' = "Push" /\ handler' = WithoutPending

popActivityOnly == pendingActivity' = None /\ handler' = WithoutPending /\ UNCHANGED pendingAction

popActivity ==
    /\ pendingActivity' = None /\ pendingAction' = "Pop" /\ handler' = WithoutPending

startActivityForResult(a) ==
    /\ pendingActivity' = a /\ pendingAction' = "Push"
    /\ handler' = [handler EXCEPT ![current] = a]

goHome == \E h \in Fresh(Homes) : replaceActivity(h)

---------------------------------------------------------------------------
(* The passes of the main task. *)

EndOfPass == IF sleeping THEN "asleep" ELSE "idle"

FlushIfWaiting ==
    /\ notified' = (notified \/ (requestedUpdate /\ rpc = "wait"))
    /\ requestedUpdate' = FALSE
    /\ UNCHANGED <<waiter, released, rpc>>

\* A pass ends; a deferred request notifies the render task.
Flush ==
    /\ notified' = IF requestedUpdate THEN TRUE ELSE notified
    /\ requestedUpdate' = FALSE
    /\ UNCHANGED <<waiter, released, rpc>>

Callback(c) == pc' = "call" /\ within' = c /\ calls' = 0 /\ asked' = FALSE

GoToSleepByPush ==
    /\ pc = "idle" /\ ~ sleeping /\ ~ Early
    /\ pushActivity(Sleep)
    /\ sleeping' = TRUE /\ displaced' = FALSE
    /\ UNCHANGED <<pc, within, calls, asked, objects, signals, dirty, latch>>

\* The main loop decides to sleep: goToSleep() replaces, then runs one more pass.
GoToSleep ==
    /\ pc = "idle" /\ ~ sleeping /\ ~ Early
    /\ replaceActivity(Sleep)
    /\ sleeping' = TRUE /\ displaced' = FALSE
    /\ UNCHANGED <<pc, within, calls, asked, objects, signals, dirty, latch>>

Interrupted ==
    /\ pc = "idle" /\ pc' = EndOfPass /\ displaced' = sleeping
    /\ UNCHANGED <<within, calls, asked, objects, signals, dirty, latch, sleeping>>

SuppressedRelease == Interrupted /\ UNCHANGED transition

HomeGesture ==
    /\ ~ Early /\ current \notin Homes
    /\ goHome \/ popActivity  \* handleHomeGesture() closes an overlay
    /\ Interrupted

PanelGesture ==
    /\ ~ Early /\ current \notin Panels
    /\ \E p \in Fresh(Panels) : pushActivity(p)
    /\ Interrupted

CallLoop ==
    /\ pc = "idle"
    /\ Callback(IF Early THEN "early" ELSE "loop")
    /\ displaced' = IF Early THEN sleeping ELSE FALSE
    /\ UNCHANGED <<transition, objects, signals, dirty, latch, sleeping>>

---------------------------------------------------------------------------
(* What an activity may ask for in a callback. *)

InCallback == pc = "call" /\ current \in Activities \ {Sleep}

Asks ==
    /\ InCallback /\ (asked => calls < MaxCalls)
    /\ calls' = IF asked THEN calls + 1 ELSE calls
    /\ asked' = TRUE /\ dirty' = TRUE
    /\ UNCHANGED <<within, transition, objects, rpc, latch, sleeping, displaced>>

requestUpdate ==
    /\ Asks
    /\ \/ requestedUpdate' = TRUE /\ UNCHANGED notified
       \/ notified' = TRUE /\ UNCHANGED requestedUpdate
    /\ UNCHANGED <<pc, waiter, released>>

requestUpdateAndWait ==
    /\ Asks
    /\ pc' = "blocked" /\ waiter' = TRUE /\ notified' = TRUE
    /\ UNCHANGED <<requestedUpdate, released>>

WaitEnds ==
    /\ pc = "blocked" /\ released
    /\ pc' = "call" /\ released' = FALSE
    /\ UNCHANGED <<within, calls, asked, transition, objects, requestedUpdate, notified,
                   waiter, rpc, dirty, latch, sleeping, displaced>>

RequestTransition ==
    /\ InCallback /\ calls < MaxCalls /\ current \notin Exclusive
    /\ \/ popActivity
       \/ \E a \in Fresh(Homes \cup Screens) : replaceActivity(a)
       \/ /\ current \notin Panels \cup failed  \* RSVP routes no panel input then
          /\ \E a \in Fresh(Screens) : startActivityForResult(a)
    /\ calls' = calls + 1 /\ displaced' = sleeping
    /\ UNCHANGED <<pc, within, asked, objects, signals, dirty, latch, sleeping>>

\* The gate at the end of RsvpReaderActivity::loop(): one recovery is requested for a
\* failure, if the controller is ready, and nothing follows in that callback.
RequestRecovery ==
    /\ pc = "call" /\ within \in {"loop", "early"} /\ current \in failed \ recovering
    /\ recovering' = recovering \cup {current}
    /\ requestedUpdate' = TRUE /\ dirty' = TRUE
    /\ asked' = TRUE /\ calls' = MaxCalls
    /\ UNCHANGED <<pc, within, transition, objects, notified, waiter, released, rpc, failed,
                   sleeping, displaced>>

\* Every activity draws itself or asks to be drawn when it is entered, unless it
\* leaves at once.
Returns ==
    /\ pc = "call"
    /\ within = "enter" => asked \/ pendingAction # "None" \/ current = Sleep
    /\ within' = "loop" /\ calls' = 0 /\ asked' = FALSE
    /\ UNCHANGED <<transition, objects, latch, sleeping, displaced>>

EarlyReturnsUnflushed ==
    /\ Returns /\ within = "early" /\ pc' = EndOfPass
    /\ UNCHANGED <<signals, dirty>>

EarlyReturns ==
    /\ Returns /\ within = "early" /\ pc' = EndOfPass
    /\ Flush /\ UNCHANGED dirty

CallbackReturns ==
    /\ Returns /\ within # "early" /\ pc' = "process"
    /\ requestedUpdate' = IF within = "handler" /\ pendingAction = "None" THEN TRUE ELSE requestedUpdate
    /\ UNCHANGED <<notified, waiter, released, rpc, dirty>>

---------------------------------------------------------------------------
(* The transitions, under the RenderLock. *)

Processing(action) == pc = "process" /\ pendingAction = action
LockedNot == TRUE
Locked == rpc # "drawing"

\* The activities gone are destroyed after onExit().
Exit(gone) ==
    /\ handler' = [a \in Activities |-> IF a \in gone THEN None ELSE handler[a]]
    /\ failed' = failed \ gone /\ recovering' = recovering \ gone

PopKeepsHandler ==
    /\ Processing("Pop") /\ Locked /\ stack # << >>
    /\ LET top == stack[Len(stack)] IN
       /\ current' = top /\ stack' = SubSeq(stack, 1, Len(stack) - 1)
       /\ entered' = entered \ {current}
       /\ failed' = failed \ {current} /\ recovering' = recovering \ {current}
       /\ handler' = [handler EXCEPT ![current] = None]
       /\ IF handler[top] # None
          THEN Callback("handler") /\ UNCHANGED requestedUpdate
          ELSE requestedUpdate' = TRUE /\ UNCHANGED <<pc, within, calls, asked>>
    /\ pendingAction' = "None" /\ dirty' = TRUE
    /\ UNCHANGED <<pendingActivity, notified, waiter, released, rpc, sleeping, displaced>>

Pop ==
    /\ Processing("Pop") /\ Locked /\ stack # << >>
    /\ LET top == stack[Len(stack)] IN
       /\ current' = top /\ stack' = SubSeq(stack, 1, Len(stack) - 1)
       /\ entered' = entered \ {current}
       /\ failed' = failed \ {current} /\ recovering' = recovering \ {current}
       /\ handler' = [handler EXCEPT ![current] = None, ![top] = None]
       /\ IF handler[top] # None
          THEN Callback("handler") /\ UNCHANGED requestedUpdate
          ELSE requestedUpdate' = TRUE /\ UNCHANGED <<pc, within, calls, asked>>
    /\ pendingAction' = "None" /\ dirty' = TRUE
    /\ UNCHANGED <<pendingActivity, notified, waiter, released, rpc, sleeping, displaced>>

PopLast ==
    /\ Processing("Pop") /\ Locked /\ stack = << >>
    /\ Exit({current}) /\ dirty' = TRUE
    /\ current' = None /\ entered' = {} /\ pendingAction' = "None" /\ pc' = "home"
    /\ UNCHANGED <<within, calls, asked, stack, pendingActivity, signals, sleeping, displaced>>

\* replaceActivity() without a current activity: launched at once and without the lock.
LaunchHome ==
    /\ pc = "home"
    /\ \E h \in Fresh(Homes) : current' = h /\ entered' = {h}
    /\ Callback("enter")
    /\ UNCHANGED <<stack, transition, signals, dirty, latch, sleeping, displaced>>

Launch ==
    /\ current' = pendingActivity
    /\ pendingAction' = "None" /\ pendingActivity' = None
    /\ Callback("enter")
    /\ UNCHANGED <<signals, sleeping, displaced>>

ReplaceCurrentOnly ==
    /\ Processing("Replace") /\ Locked
    /\ Exit({current}) /\ dirty' = IF pendingActivity = Sleep THEN FALSE ELSE TRUE
    /\ stack' = << >> /\ entered' = (entered \ {current}) \cup {pendingActivity}
    /\ Launch

Replace ==
    /\ Processing("Replace") /\ Locked
    /\ Exit(entered)
    /\ dirty' = IF pendingActivity = Sleep THEN FALSE ELSE TRUE  \* SleepActivity draws itself in onEnter()
    /\ stack' = << >> /\ entered' = {pendingActivity}
    /\ Launch

Push ==
    /\ Processing("Push") /\ Locked
    /\ stack' = Append(stack, current) /\ entered' = entered \cup {pendingActivity}
    /\ dirty' = TRUE
    /\ Launch /\ UNCHANGED <<handler, latch>>

PassEnds ==
    /\ Processing("None") /\ pc' = EndOfPass
    /\ Flush
    /\ UNCHANGED <<within, calls, asked, transition, objects, dirty, latch, sleeping,
                   displaced>>

\* Deep sleep ends in a reset, which is Init again.
Asleep == pc = "asleep" /\ UNCHANGED vars

---------------------------------------------------------------------------
(* The render task. *)

Rendering == UNCHANGED <<pc, within, calls, asked, transition, objects, requestedUpdate,
                         sleeping, displaced>> /\ pc # "asleep"

TakeNotification ==
    /\ rpc = "wait" /\ notified
    /\ rpc' = "woken" /\ notified' = FALSE
    /\ UNCHANGED <<waiter, released, dirty, latch>> /\ Rendering

BeginDrawing ==
    /\ rpc = "woken" /\ current \notin failed \ recovering
    /\ rpc' = "drawing" /\ dirty' = IF current = None THEN dirty ELSE FALSE
    /\ UNCHANGED <<notified, waiter, released, latch>> /\ Rendering

\* renderBook() returns while the display has failed and no recovery is requested; and
\* for a recovery requested before the failing drawing cleared currentDecision.render.
DrawNothing ==
    /\ rpc = "woken" /\ current \in failed
    /\ rpc' = "released"
    /\ UNCHANGED <<notified, waiter, released, dirty, latch>> /\ Rendering

DrawingDone ==
    /\ rpc = "drawing"
    /\ rpc' = "released"
    /\ failed' = failed \ ({current} \cap recovering) /\ recovering' = recovering \ {current}
    /\ UNCHANGED <<notified, waiter, released, dirty>> /\ Rendering

DrawingFails ==
    /\ rpc = "drawing" /\ current \in Checked
    /\ rpc' = "released" /\ dirty' = TRUE
    /\ failed' = failed \cup {current} /\ recovering' = recovering \ {current}
    /\ UNCHANGED <<notified, waiter, released>> /\ Rendering

NotifyNobody ==
    /\ rpc = "released"
    /\ rpc' = "wait" /\ waiter' = FALSE
    /\ UNCHANGED <<notified, released, dirty, latch>> /\ Rendering

\* After the lock is released.
NotifyWaiter ==
    /\ rpc = "released"
    /\ rpc' = "wait" /\ waiter' = FALSE /\ released' = IF waiter THEN TRUE ELSE released
    /\ UNCHANGED <<notified, dirty, latch>> /\ Rendering

---------------------------------------------------------------------------
Gesture == SuppressedRelease \/ HomeGesture \/ PanelGesture
Asking == requestUpdate \/ requestUpdateAndWait \/ RequestRecovery \/ RequestTransition
MainStep == EarlyReturns \/ CallbackReturns \/ WaitEnds \/ Pop \/ PopLast \/ LaunchHome
            \/ Replace \/ Push \/ PassEnds
RenderStep == TakeNotification \/ BeginDrawing \/ DrawNothing \/ DrawingDone \/ DrawingFails
              \/ NotifyWaiter

Next == GoToSleep \/ Gesture \/ CallLoop \/ Asking \/ MainStep \/ Asleep \/ RenderStep

Spec == Init /\ [][Next]_vars

\* Both tasks run; passes without a gesture recur; a callback makes its calls and
\* returns.
FairSpec ==
    /\ Spec
    /\ SF_vars(CallLoop) /\ WF_vars(MainStep) /\ WF_vars(requestUpdate)
    /\ WF_vars(RenderStep)
=============================================================================
