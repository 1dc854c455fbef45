--------------------------- MODULE ActivityManagerProps ---------------------------
(* What the activity manager and the render task promise together. *)
EXTENDS ActivityManager

PendingActions == {"None", "Push", "Pop", "Replace"}

ControlTypes ==
    /\ pc \in {"idle", "call", "blocked", "process", "home", "asleep"}
    /\ within \in {"loop", "early", "enter", "handler"}
    /\ asked \in BOOLEAN
    /\ sleeping \in BOOLEAN /\ displaced \in BOOLEAN

ObjectTypes ==
    /\ current \in Activities \cup {None} /\ stack \in Seq(Activities)
    /\ pendingAction \in PendingActions /\ pendingActivity \in Activities \cup {None}
    /\ handler \in [Activities -> Activities \cup {None, Lost}]
    /\ entered \in SUBSET Activities
    /\ failed \in SUBSET Activities /\ recovering \in SUBSET Activities

SignalTypes ==
    /\ requestedUpdate \in BOOLEAN /\ notified \in BOOLEAN /\ dirty \in BOOLEAN
    /\ waiter \in BOOLEAN /\ released \in BOOLEAN
    /\ rpc \in {"wait", "woken", "drawing", "released"}

TypeOK == calls \in 0..MaxCalls /\ ControlTypes /\ ObjectTypes /\ SignalTypes

\* The activities that were entered and not exited are the current one and those on
\* the stack, each held once; the pending one is new, and there is one exactly when a
\* push or a replacement is pending.  (Every entered activity gets its onExit(), also
\* those a replacement finds on the stack, and the loop at 138 never spins.)
EnteredAreHeld ==
    /\ entered = {stack[i] : i \in DOMAIN stack} \cup ({current} \ {None})
    /\ \A i \in DOMAIN stack : stack[i] # current /\ \A j \in 1..(i - 1) : stack[j] # stack[i]
    /\ pendingActivity \notin entered
    /\ pendingActivity # None <=> pendingAction \in {"Push", "Replace"}

\* Content that no drawing has begun with has a drawing coming: a notification is on
\* its way, or the main task will give one before its pass ends, however often its
\* passes return early and transitions replace each other.
UpdateIsOnItsWay ==
    dirty =>
        \/ requestedUpdate \/ notified \/ rpc = "woken"
        \/ current \in failed
        \/ pc \in {"call", "blocked"} /\ (within = "handler" \/ (within = "enter" /\ ~ asked))
        \/ pc = "home"
        \/ pc = "process" /\ pendingAction # "None"

\* A task that blocks for a drawing is not forgotten: either its slot is set and a pass
\* of the render task that will look at it is under way or notified, or it has been
\* released.  (Clearing the slot, notifying and taking the notification are separate
\* steps of two tasks; a wake-up lost between them would stop the program.)
WaiterIsServed ==
    pc = "blocked" => released \/ (waiter /\ (notified \/ rpc # "wait"))

\* The device goes to sleep on the sleep screen, with every other activity exited,
\* unless the pass that goToSleep() runs returned early or the activity's own request
\* displaced it.
SleepScreenIsEntered ==
    pc = "asleep" => displaced \/ (current = Sleep /\ entered = {Sleep})

\* The activity the render task draws is neither replaced nor destroyed under it.
DrawnActivityStays ==
    [][rpc = "drawing" /\ current # None
           => current' = current /\ entered \subseteq entered']_vars

\* A result handler is called with the result of the activity that was started for it.
\* Only an activity with a display recovery can be called with another one's: a child it
\* starts in a pass that began before its display recovered stays pending after that
\* pass, where the light panel may displace it, and the panel's result is handled in its
\* place (166-173).
ResultsReachTheirLauncher ==
    [][pc = "process" /\ pc' = "call" /\ within' = "handler" =>
         \/ handler[current'] = current
         \/ handler[current'] = Lost /\ current' \in Checked]_vars

\* A drawing begins with what an activity has to show, unless the activity stops being
\* the current one or its display update has failed: a failed display is drawn on only
\* after a recovery, which the controller may never be ready for.
ScreenCatchesUp ==
    \A a \in Activities :
        (current = a /\ dirty) ~> (~ dirty \/ current # a \/ a \in failed \/ pc = "asleep")

\* ActivityManager.h:118: "Trigger a render and block until it completes."
WaitShowsTheScreen ==
    pc = "blocked" /\ released => ~ dirty \/ current \in failed
=============================================================================
