------------------------- MODULE ActivityManagerProofs -------------------------
(***************************************************************************)
(* Proofs about ActivityManager for every set of activities and number of  *)
(* calls in a callback: type correctness, which activities are entered,    *)
(* that updates and waits are not lost, and that the device sleeps on the  *)
(* sleep screen.                                                           *)
(***************************************************************************)
EXTENDS ActivityManagerProps, TLAPS

\* Without a current activity home is about to be launched.
HomeIsNext ==
    /\ pc = "home" <=> current = None
    /\ pc = "home" => stack = << >> /\ pendingAction = "None"

\* The sleep screen is only ever on its way or current, in the pass of goToSleep().
SleepIsLast ==
    /\ Sleep \in entered \/ pendingActivity = Sleep => sleeping
    /\ pendingActivity = Sleep => pendingAction = "Replace"
    /\ Sleep \in entered =>
        /\ current = Sleep /\ entered = {Sleep} /\ dirty = FALSE /\ pendingAction = "None"
        /\ (pc = "call" /\ within = "enter") \/ pc \in {"process", "asleep"}

SleepIsComing ==
    /\ pc = "asleep" => sleeping
    /\ sleeping /\ (displaced = FALSE \/ pc = "idle") =>
          \/ /\ pendingActivity = Sleep
             /\ pc \in {"idle", "process"} \/ (pc \in {"call", "blocked"} /\ within = "loop")
          \/ Sleep \in entered

\* A drawing under way does not answer for what has changed since it began.
UpdateComes ==
    dirty =>
        \/ requestedUpdate \/ notified \/ rpc = "woken"
        \/ current \in failed /\ rpc # "drawing"
        \/ pc \in {"call", "blocked"} /\ (within = "handler" \/ (within = "enter" /\ ~ asked))
        \/ pc = "home"
        \/ pc = "process" /\ pendingAction # "None"

\* Only entered activities have a result handler.
HandlersAreEntered == \A a \in Activities \ entered : handler[a] = None

\* A handler's child is pending, or above its launcher, or was destroyed before it was
\* entered.
HandlersAwaitTheirChild ==
    \A a \in entered : handler[a] \notin {None, Lost} =>
        \/ a = current /\ handler[a] = pendingActivity /\ pendingAction = "Push"
        \/ \E i \in DOMAIN stack : a = stack[i]
              /\ handler[a] = IF i = Len(stack) THEN current ELSE stack[i + 1]

\* An activity without a display recovery gives a handler only in a pass that carries out
\* its transition; one whose child was displaced there is about to be destroyed.
HandlersAreUsed ==
    /\ failed \subseteq Checked
    /\ pc \in {"call", "blocked"} /\ within = "early" => current \in Exclusive \cup Checked
    /\ \A a \in Activities : a \in Exclusive => handler[a] = None
    /\ \A a \in Activities : a \notin Checked =>
        /\ handler[a] = Lost => a = current /\ pendingAction \in {"Pop", "Replace"}
        /\ a = current /\ handler[a] # None =>
              pc \in {"call", "blocked", "process"} /\ pendingAction # "None"

IInv ==
    /\ TypeOK /\ EnteredAreHeld /\ HomeIsNext /\ SleepIsLast /\ SleepIsComing
    /\ UpdateComes /\ WaiterIsServed /\ HandlersAreEntered /\ HandlersAwaitTheirChild
    /\ HandlersAreUsed

USE ConstantsAssumption DEF Activities, PendingActions, transition, objects, signals,
    latch, Fresh, Early, WithoutPending, replaceActivity, pushActivity, popActivity,
    startActivityForResult, goHome, EndOfPass,
    Flush, Callback, Interrupted, InCallback, Asks, Returns, Processing,
    Locked, Exit, Launch, Rendering

\* The main task stays in one of its places, whatever it does.
LEMMA ControlStep ==
    ASSUME TypeOK, [Next]_vars
    PROVE  ControlTypes'
<1> USE DEF TypeOK, ControlTypes
<1>1. CASE GoToSleep  BY <1>1 DEF GoToSleep
<1>2. CASE SuppressedRelease  BY <1>2 DEF SuppressedRelease
<1>3. CASE HomeGesture  BY <1>3 DEF HomeGesture
<1>4. CASE PanelGesture  BY <1>4 DEF PanelGesture
<1>5. CASE CallLoop  BY <1>5 DEF CallLoop
<1>6. CASE requestUpdate  BY <1>6 DEF requestUpdate
<1>7. CASE requestUpdateAndWait  BY <1>7 DEF requestUpdateAndWait
<1>8. CASE RequestTransition  BY <1>8 DEF RequestTransition
<1>9. CASE EarlyReturns  BY <1>9 DEF EarlyReturns
<1>10. CASE CallbackReturns  BY <1>10 DEF CallbackReturns
<1>11. CASE WaitEnds  BY <1>11 DEF WaitEnds
<1>12. CASE Pop  BY <1>12 DEF Pop
<1>13. CASE PopLast  BY <1>13 DEF PopLast
<1>14. CASE LaunchHome  BY <1>14 DEF LaunchHome
<1>15. CASE Replace  BY <1>15 DEF Replace
<1>16. CASE Push  BY <1>16 DEF Push
<1>17. CASE PassEnds  BY <1>17 DEF PassEnds
<1>18. CASE Asleep  BY <1>18 DEF Asleep, vars
<1>19. CASE TakeNotification  BY <1>19 DEF TakeNotification
<1>20. CASE BeginDrawing  BY <1>20 DEF BeginDrawing
<1>21. CASE DrawingDone  BY <1>21 DEF DrawingDone
<1>22. CASE DrawingFails  BY <1>22 DEF DrawingFails
<1>23. CASE NotifyWaiter  BY <1>23 DEF NotifyWaiter
<1>24. CASE UNCHANGED vars  BY <1>24 DEF vars
<1>25. CASE RequestRecovery  BY <1>25 DEF RequestRecovery
<1>26. CASE DrawNothing  BY <1>26 DEF DrawNothing
<1>. QED  BY <1>1, <1>2, <1>3, <1>4, <1>5, <1>6, <1>7, <1>8, <1>9, <1>10, <1>11, <1>12,
    <1>13, <1>14, <1>15, <1>16, <1>17, <1>18, <1>19, <1>20, <1>21, <1>22, <1>23, <1>24,
    <1>25, <1>26
         DEF Next, Gesture, Asking, MainStep, RenderStep

\* The notifications and the place of the render task keep their types.
LEMMA SignalStep ==
    ASSUME TypeOK, [Next]_vars
    PROVE  SignalTypes'
<1> USE DEF TypeOK, SignalTypes
<1>1. CASE GoToSleep  BY <1>1 DEF GoToSleep
<1>2. CASE SuppressedRelease  BY <1>2 DEF SuppressedRelease
<1>3. CASE HomeGesture  BY <1>3 DEF HomeGesture
<1>4. CASE PanelGesture  BY <1>4 DEF PanelGesture
<1>5. CASE CallLoop  BY <1>5 DEF CallLoop
<1>6. CASE requestUpdate  BY <1>6 DEF requestUpdate
<1>7. CASE requestUpdateAndWait  BY <1>7 DEF requestUpdateAndWait
<1>8. CASE RequestTransition  BY <1>8 DEF RequestTransition
<1>9. CASE EarlyReturns  BY <1>9 DEF EarlyReturns
<1>10. CASE CallbackReturns  BY <1>10 DEF CallbackReturns
<1>11. CASE WaitEnds  BY <1>11 DEF WaitEnds
<1>12. CASE Pop  BY <1>12 DEF Pop
<1>13. CASE PopLast  BY <1>13 DEF PopLast
<1>14. CASE LaunchHome  BY <1>14 DEF LaunchHome
<1>15. CASE Replace  BY <1>15 DEF Replace
<1>16. CASE Push  BY <1>16 DEF Push
<1>17. CASE PassEnds  BY <1>17 DEF PassEnds
<1>18. CASE Asleep  BY <1>18 DEF Asleep, vars
<1>19. CASE TakeNotification  BY <1>19 DEF TakeNotification
<1>20. CASE BeginDrawing  BY <1>20 DEF BeginDrawing
<1>21. CASE DrawingDone  BY <1>21 DEF DrawingDone
<1>22. CASE DrawingFails  BY <1>22 DEF DrawingFails
<1>23. CASE NotifyWaiter  BY <1>23 DEF NotifyWaiter
<1>24. CASE UNCHANGED vars  BY <1>24 DEF vars
<1>25. CASE RequestRecovery  BY <1>25 DEF RequestRecovery
<1>26. CASE DrawNothing  BY <1>26 DEF DrawNothing
<1>. QED  BY <1>1, <1>2, <1>3, <1>4, <1>5, <1>6, <1>7, <1>8, <1>9, <1>10, <1>11, <1>12,
    <1>13, <1>14, <1>15, <1>16, <1>17, <1>18, <1>19, <1>20, <1>21, <1>22, <1>23, <1>24,
    <1>25, <1>26
         DEF Next, Gesture, Asking, MainStep, RenderStep

\* A callback makes no more calls than the bound.
LEMMA CallsStep ==
    ASSUME TypeOK, [Next]_vars
    PROVE  (calls \in 0..MaxCalls)'
<1> USE DEF TypeOK, ControlTypes, ObjectTypes, SignalTypes
<1>1. CASE GoToSleep  BY SMT, <1>1 DEF GoToSleep
<1>2. CASE SuppressedRelease  BY SMT, <1>2 DEF SuppressedRelease
<1>3. CASE HomeGesture  BY SMT, <1>3 DEF HomeGesture
<1>4. CASE PanelGesture  BY SMT, <1>4 DEF PanelGesture
<1>5. CASE CallLoop  BY SMT, <1>5 DEF CallLoop
<1>6. CASE requestUpdate  BY SMT, <1>6 DEF requestUpdate
<1>7. CASE requestUpdateAndWait  BY SMT, <1>7 DEF requestUpdateAndWait
<1>8. CASE RequestTransition  BY SMT, <1>8 DEF RequestTransition
<1>9. CASE EarlyReturns  BY SMT, <1>9 DEF EarlyReturns
<1>10. CASE CallbackReturns  BY SMT, <1>10 DEF CallbackReturns
<1>11. CASE WaitEnds  BY SMT, <1>11 DEF WaitEnds
<1>12. CASE Pop  BY SMT, <1>12 DEF Pop
<1>13. CASE PopLast  BY SMT, <1>13 DEF PopLast
<1>14. CASE LaunchHome  BY SMT, <1>14 DEF LaunchHome
<1>15. CASE Replace  BY SMT, <1>15 DEF Replace
<1>16. CASE Push  BY SMT, <1>16 DEF Push
<1>17. CASE PassEnds  BY SMT, <1>17 DEF PassEnds
<1>18. CASE Asleep  BY SMT, <1>18 DEF Asleep, vars
<1>19. CASE TakeNotification  BY SMT, <1>19 DEF TakeNotification
<1>20. CASE BeginDrawing  BY SMT, <1>20 DEF BeginDrawing
<1>21. CASE DrawingDone  BY SMT, <1>21 DEF DrawingDone
<1>22. CASE DrawingFails  BY SMT, <1>22 DEF DrawingFails
<1>23. CASE NotifyWaiter  BY SMT, <1>23 DEF NotifyWaiter
<1>24. CASE UNCHANGED vars  BY SMT, <1>24 DEF vars
<1>25. CASE RequestRecovery  BY SMT, <1>25 DEF RequestRecovery
<1>26. CASE DrawNothing  BY SMT, <1>26 DEF DrawNothing
<1>. QED  BY <1>1, <1>2, <1>3, <1>4, <1>5, <1>6, <1>7, <1>8, <1>9, <1>10, <1>11, <1>12,
    <1>13, <1>14, <1>15, <1>16, <1>17, <1>18, <1>19, <1>20, <1>21, <1>22, <1>23, <1>24,
    <1>25, <1>26
         DEF Next, Gesture, Asking, MainStep, RenderStep

\* Activities only ever come from the sets of activities; a pending one is there to launch.
LEMMA ObjectStep ==
    ASSUME IInv, [Next]_vars
    PROVE  ObjectTypes'
<1> USE DEF IInv, TypeOK, ControlTypes, ObjectTypes, SignalTypes, EnteredAreHeld,
      HomeIsNext, SleepIsLast, SleepIsComing, UpdateComes, WaiterIsServed
<1>1. CASE GoToSleep  BY SMT, <1>1 DEF GoToSleep
<1>2. CASE SuppressedRelease  BY SMT, <1>2 DEF SuppressedRelease
<1>3. CASE HomeGesture  BY SMT, <1>3 DEF HomeGesture
<1>4. CASE PanelGesture  BY SMT, <1>4 DEF PanelGesture
<1>5. CASE CallLoop  BY SMT, <1>5 DEF CallLoop
<1>6. CASE requestUpdate  BY SMT, <1>6 DEF requestUpdate
<1>7. CASE requestUpdateAndWait  BY SMT, <1>7 DEF requestUpdateAndWait
<1>8. CASE RequestTransition  BY SMT, <1>8 DEF RequestTransition
<1>9. CASE EarlyReturns  BY SMT, <1>9 DEF EarlyReturns
<1>10. CASE CallbackReturns  BY SMT, <1>10 DEF CallbackReturns
<1>11. CASE WaitEnds  BY SMT, <1>11 DEF WaitEnds
<1>12. CASE Pop  BY SMT, <1>12 DEF Pop
<1>13. CASE PopLast  BY SMT, <1>13 DEF PopLast
<1>14. CASE LaunchHome  BY SMT, <1>14 DEF LaunchHome
<1>15. CASE Replace  BY SMT, <1>15 DEF Replace
<1>16. CASE Push  BY SMT, <1>16 DEF Push
<1>17. CASE PassEnds  BY SMT, <1>17 DEF PassEnds
<1>18. CASE Asleep  BY SMT, <1>18 DEF Asleep, vars
<1>19. CASE TakeNotification  BY SMT, <1>19 DEF TakeNotification
<1>20. CASE BeginDrawing  BY SMT, <1>20 DEF BeginDrawing
<1>21. CASE DrawingDone  BY SMT, <1>21 DEF DrawingDone
<1>22. CASE DrawingFails  BY SMT, <1>22 DEF DrawingFails
<1>23. CASE NotifyWaiter  BY SMT, <1>23 DEF NotifyWaiter
<1>24. CASE UNCHANGED vars  BY SMT, <1>24 DEF vars
<1>25. CASE RequestRecovery  BY SMT, <1>25 DEF RequestRecovery
<1>26. CASE DrawNothing  BY SMT, <1>26 DEF DrawNothing
<1>. QED  BY <1>1, <1>2, <1>3, <1>4, <1>5, <1>6, <1>7, <1>8, <1>9, <1>10, <1>11, <1>12,
    <1>13, <1>14, <1>15, <1>16, <1>17, <1>18, <1>19, <1>20, <1>21, <1>22, <1>23, <1>24,
    <1>25, <1>26
         DEF Next, Gesture, Asking, MainStep, RenderStep

\* Each step keeps the entered activities held; Pop takes the top off the stack.
LEMMA EnteredAreHeldStep ==
    ASSUME IInv, [Next]_vars
    PROVE  EnteredAreHeld'
<1> USE DEF IInv, TypeOK, ControlTypes, ObjectTypes, SignalTypes, EnteredAreHeld,
      HomeIsNext, SleepIsLast, SleepIsComing, UpdateComes, WaiterIsServed
<1>1. CASE GoToSleep  BY SMT, <1>1 DEF GoToSleep
<1>2. CASE SuppressedRelease  BY SMT, <1>2 DEF SuppressedRelease
<1>3. CASE HomeGesture  BY SMT, <1>3 DEF HomeGesture
<1>4. CASE PanelGesture  BY SMT, <1>4 DEF PanelGesture
<1>5. CASE CallLoop  BY SMT, <1>5 DEF CallLoop
<1>6. CASE requestUpdate  BY SMT, <1>6 DEF requestUpdate
<1>7. CASE requestUpdateAndWait  BY SMT, <1>7 DEF requestUpdateAndWait
<1>8. CASE RequestTransition  BY SMT, <1>8 DEF RequestTransition
<1>9. CASE EarlyReturns  BY SMT, <1>9 DEF EarlyReturns
<1>10. CASE CallbackReturns  BY SMT, <1>10 DEF CallbackReturns
<1>11. CASE WaitEnds  BY SMT, <1>11 DEF WaitEnds
<1>12. CASE Pop
  <2> DEFINE top == stack[Len(stack)]
  <2>1. /\ stack \in Seq(Activities) /\ stack # << >> /\ current' = top
        /\ stack' = SubSeq(stack, 1, Len(stack) - 1) /\ entered' = entered \ {current}
        /\ pendingActivity' = pendingActivity /\ pendingAction = "Pop" /\ pendingAction' = "None"
    BY <1>12, SMT DEF Pop
  <2>2. /\ Len(stack) \in DOMAIN stack /\ top \in Activities /\ top # None
        /\ DOMAIN stack' = 1..(Len(stack) - 1) /\ DOMAIN stack = 1..Len(stack)
        /\ \A i \in DOMAIN stack' : stack'[i] = stack[i]
    BY <2>1, SMT
  <2>3. {stack[i] : i \in DOMAIN stack} = {stack'[i] : i \in DOMAIN stack'} \cup {top}
    BY <2>2, SMT
  <2>4. \A i \in DOMAIN stack' : stack'[i] # top /\ \A j \in 1..(i - 1) : stack'[j] # stack'[i]
    BY <2>2, SMT
  <2>5. entered' = {stack[i] : i \in DOMAIN stack}
    BY <2>1, SMT
  <2>6. entered' = {stack'[i] : i \in DOMAIN stack'} \cup ({current'} \ {None})
    BY <2>1, <2>2, <2>3, <2>5
  <2>7. pendingActivity' \notin entered' /\ pendingActivity' = None
    BY <2>1
  <2> QED
    BY <2>1, <2>4, <2>6, <2>7
<1>13. CASE PopLast  BY SMT, <1>13 DEF PopLast
<1>14. CASE LaunchHome  BY SMT, <1>14 DEF LaunchHome
<1>15. CASE Replace  BY SMT, <1>15 DEF Replace
<1>16. CASE Push  BY SMT, <1>16 DEF Push
<1>17. CASE PassEnds  BY SMT, <1>17 DEF PassEnds
<1>18. CASE Asleep  BY SMT, <1>18 DEF Asleep, vars
<1>19. CASE TakeNotification  BY SMT, <1>19 DEF TakeNotification
<1>20. CASE BeginDrawing  BY SMT, <1>20 DEF BeginDrawing
<1>21. CASE DrawingDone  BY SMT, <1>21 DEF DrawingDone
<1>22. CASE DrawingFails  BY SMT, <1>22 DEF DrawingFails
<1>23. CASE NotifyWaiter  BY SMT, <1>23 DEF NotifyWaiter
<1>24. CASE UNCHANGED vars  BY SMT, <1>24 DEF vars
<1>25. CASE RequestRecovery  BY SMT, <1>25 DEF RequestRecovery
<1>26. CASE DrawNothing  BY SMT, <1>26 DEF DrawNothing
<1>. QED  BY <1>1, <1>2, <1>3, <1>4, <1>5, <1>6, <1>7, <1>8, <1>9, <1>10, <1>11, <1>12,
    <1>13, <1>14, <1>15, <1>16, <1>17, <1>18, <1>19, <1>20, <1>21, <1>22, <1>23, <1>24,
    <1>25, <1>26
         DEF Next, Gesture, Asking, MainStep, RenderStep

\* Only the last Pop leaves no current activity, and home is launched next.
LEMMA HomeIsNextStep ==
    ASSUME IInv, [Next]_vars
    PROVE  HomeIsNext'
<1> USE DEF IInv, TypeOK, ControlTypes, ObjectTypes, SignalTypes, EnteredAreHeld,
      HomeIsNext, SleepIsLast, SleepIsComing, UpdateComes, WaiterIsServed
<1>1. CASE GoToSleep  BY SMT, <1>1 DEF GoToSleep
<1>2. CASE SuppressedRelease  BY SMT, <1>2 DEF SuppressedRelease
<1>3. CASE HomeGesture  BY SMT, <1>3 DEF HomeGesture
<1>4. CASE PanelGesture  BY SMT, <1>4 DEF PanelGesture
<1>5. CASE CallLoop  BY SMT, <1>5 DEF CallLoop
<1>6. CASE requestUpdate  BY SMT, <1>6 DEF requestUpdate
<1>7. CASE requestUpdateAndWait  BY SMT, <1>7 DEF requestUpdateAndWait
<1>8. CASE RequestTransition  BY SMT, <1>8 DEF RequestTransition
<1>9. CASE EarlyReturns  BY SMT, <1>9 DEF EarlyReturns
<1>10. CASE CallbackReturns  BY SMT, <1>10 DEF CallbackReturns
<1>11. CASE WaitEnds  BY SMT, <1>11 DEF WaitEnds
<1>12. CASE Pop  BY SMT, <1>12 DEF Pop
<1>13. CASE PopLast  BY SMT, <1>13 DEF PopLast
<1>14. CASE LaunchHome  BY SMT, <1>14 DEF LaunchHome
<1>15. CASE Replace  BY SMT, <1>15 DEF Replace
<1>16. CASE Push  BY SMT, <1>16 DEF Push
<1>17. CASE PassEnds  BY SMT, <1>17 DEF PassEnds
<1>18. CASE Asleep  BY SMT, <1>18 DEF Asleep, vars
<1>19. CASE TakeNotification  BY SMT, <1>19 DEF TakeNotification
<1>20. CASE BeginDrawing  BY SMT, <1>20 DEF BeginDrawing
<1>21. CASE DrawingDone  BY SMT, <1>21 DEF DrawingDone
<1>22. CASE DrawingFails  BY SMT, <1>22 DEF DrawingFails
<1>23. CASE NotifyWaiter  BY SMT, <1>23 DEF NotifyWaiter
<1>24. CASE UNCHANGED vars  BY SMT, <1>24 DEF vars
<1>25. CASE RequestRecovery  BY SMT, <1>25 DEF RequestRecovery
<1>26. CASE DrawNothing  BY SMT, <1>26 DEF DrawNothing
<1>. QED  BY <1>1, <1>2, <1>3, <1>4, <1>5, <1>6, <1>7, <1>8, <1>9, <1>10, <1>11, <1>12,
    <1>13, <1>14, <1>15, <1>16, <1>17, <1>18, <1>19, <1>20, <1>21, <1>22, <1>23, <1>24,
    <1>25, <1>26
         DEF Next, Gesture, Asking, MainStep, RenderStep

\* Nothing follows the sleep screen.
LEMMA SleepIsLastStep ==
    ASSUME IInv, [Next]_vars
    PROVE  SleepIsLast'
<1> USE DEF IInv, TypeOK, ControlTypes, ObjectTypes, SignalTypes, EnteredAreHeld,
      HomeIsNext, SleepIsLast, SleepIsComing, UpdateComes, WaiterIsServed
<1>1. CASE GoToSleep  BY SMT, <1>1 DEF GoToSleep
<1>2. CASE SuppressedRelease  BY SMT, <1>2 DEF SuppressedRelease
<1>3. CASE HomeGesture  BY SMT, <1>3 DEF HomeGesture
<1>4. CASE PanelGesture  BY SMT, <1>4 DEF PanelGesture
<1>5. CASE CallLoop  BY SMT, <1>5 DEF CallLoop
<1>6. CASE requestUpdate  BY SMT, <1>6 DEF requestUpdate
<1>7. CASE requestUpdateAndWait  BY SMT, <1>7 DEF requestUpdateAndWait
<1>8. CASE RequestTransition  BY SMT, <1>8 DEF RequestTransition
<1>9. CASE EarlyReturns  BY SMT, <1>9 DEF EarlyReturns
<1>10. CASE CallbackReturns
  <2>1. SleepIsLast  BY DEF IInv
  <2>2. UNCHANGED <<pendingActivity, pendingAction, entered, current, dirty, sleeping>> /\
    pc' = "process"
    BY <1>10 DEF CallbackReturns
  <2> QED  BY <2>1, <2>2 DEF SleepIsLast
<1>11. CASE WaitEnds  BY SMT, <1>11 DEF WaitEnds
<1>12. CASE Pop  BY SMT, <1>12 DEF Pop
<1>13. CASE PopLast  BY SMT, <1>13 DEF PopLast
<1>14. CASE LaunchHome  BY SMT, <1>14 DEF LaunchHome
<1>15. CASE Replace  BY SMT, <1>15 DEF Replace
<1>16. CASE Push  BY SMT, <1>16 DEF Push
<1>17. CASE PassEnds
  <2>1. SleepIsLast BY DEF IInv
  <2> QED BY <1>17, <2>1, SMT DEF SleepIsLast, PassEnds
<1>18. CASE Asleep  BY SMT, <1>18 DEF Asleep, vars
<1>19. CASE TakeNotification
  <2>1. SleepIsLast BY DEF IInv
  <2>2. UNCHANGED <<pc, within, pendingActivity, pendingAction, entered, current, dirty, sleeping>>
    BY <1>19 DEF TakeNotification
  <2> QED BY <2>1, <2>2 DEF SleepIsLast
<1>20. CASE BeginDrawing  BY SMT, <1>20 DEF BeginDrawing
<1>21. CASE DrawingDone  BY SMT, <1>21 DEF DrawingDone
<1>22. CASE DrawingFails  BY SMT, <1>22 DEF DrawingFails
<1>23. CASE NotifyWaiter
  <2>1. SleepIsLast  BY DEF IInv
  <2>2. UNCHANGED <<pendingActivity, pendingAction, entered, current, dirty, sleeping, pc, within>>
    BY <1>23 DEF NotifyWaiter
  <2> QED  BY <2>1, <2>2 DEF SleepIsLast
<1>24. CASE UNCHANGED vars  BY SMT, <1>24 DEF vars
<1>25. CASE RequestRecovery  BY SMT, <1>25 DEF RequestRecovery
<1>26. CASE DrawNothing  BY SMT, <1>26 DEF DrawNothing
<1>. QED  BY <1>1, <1>2, <1>3, <1>4, <1>5, <1>6, <1>7, <1>8, <1>9, <1>10, <1>11, <1>12,
    <1>13, <1>14, <1>15, <1>16, <1>17, <1>18, <1>19, <1>20, <1>21, <1>22, <1>23, <1>24,
    <1>25, <1>26
         DEF Next, Gesture, Asking, MainStep, RenderStep

\* Whatever comes between goToSleep() and its screen is recorded in displaced.
LEMMA SleepIsComingStep ==
    ASSUME IInv, [Next]_vars
    PROVE  SleepIsComing'
<1> USE DEF IInv, TypeOK, ControlTypes, ObjectTypes, SignalTypes, EnteredAreHeld,
      HomeIsNext, SleepIsLast, SleepIsComing, UpdateComes, WaiterIsServed
<1>1. CASE GoToSleep  BY SMT, <1>1 DEF GoToSleep
<1>2. CASE SuppressedRelease  BY SMT, <1>2 DEF SuppressedRelease
<1>3. CASE HomeGesture  BY SMT, <1>3 DEF HomeGesture
<1>4. CASE PanelGesture  BY SMT, <1>4 DEF PanelGesture
<1>5. CASE CallLoop  BY SMT, <1>5 DEF CallLoop
<1>6. CASE requestUpdate  BY SMT, <1>6 DEF requestUpdate
<1>7. CASE requestUpdateAndWait  BY SMT, <1>7 DEF requestUpdateAndWait
<1>8. CASE RequestTransition  BY SMT, <1>8 DEF RequestTransition
<1>9. CASE EarlyReturns  BY SMT, <1>9 DEF EarlyReturns
<1>10. CASE CallbackReturns  BY SMT, <1>10 DEF CallbackReturns
<1>11. CASE WaitEnds  BY SMT, <1>11 DEF WaitEnds
<1>12. CASE Pop  BY SMT, <1>12 DEF Pop
<1>13. CASE PopLast  BY SMT, <1>13 DEF PopLast
<1>14. CASE LaunchHome  BY SMT, <1>14 DEF LaunchHome
<1>15. CASE Replace  BY SMT, <1>15 DEF Replace
<1>16. CASE Push  BY SMT, <1>16 DEF Push
<1>17. CASE PassEnds  BY SMT, <1>17 DEF PassEnds
<1>18. CASE Asleep  BY SMT, <1>18 DEF Asleep, vars
<1>19. CASE TakeNotification  BY SMT, <1>19 DEF TakeNotification
<1>20. CASE BeginDrawing  BY SMT, <1>20 DEF BeginDrawing
<1>21. CASE DrawingDone  BY SMT, <1>21 DEF DrawingDone
<1>22. CASE DrawingFails  BY SMT, <1>22 DEF DrawingFails
<1>23. CASE NotifyWaiter  BY SMT, <1>23 DEF NotifyWaiter
<1>24. CASE UNCHANGED vars  BY SMT, <1>24 DEF vars
<1>25. CASE RequestRecovery  BY SMT, <1>25 DEF RequestRecovery
<1>26. CASE DrawNothing  BY SMT, <1>26 DEF DrawNothing
<1>. QED  BY <1>1, <1>2, <1>3, <1>4, <1>5, <1>6, <1>7, <1>8, <1>9, <1>10, <1>11, <1>12,
    <1>13, <1>14, <1>15, <1>16, <1>17, <1>18, <1>19, <1>20, <1>21, <1>22, <1>23, <1>24,
    <1>25, <1>26
         DEF Next, Gesture, Asking, MainStep, RenderStep

\* Each step that makes content dirty leaves a drawing coming.
LEMMA UpdateComesStep ==
    ASSUME IInv, [Next]_vars
    PROVE  UpdateComes'
<1> USE DEF IInv, TypeOK, ControlTypes, ObjectTypes, SignalTypes, EnteredAreHeld,
      HomeIsNext, SleepIsLast, SleepIsComing, UpdateComes, WaiterIsServed
<1>1. CASE GoToSleep  BY SMT, <1>1 DEF GoToSleep
<1>2. CASE SuppressedRelease  BY SMT, <1>2 DEF SuppressedRelease
<1>3. CASE HomeGesture  BY SMT, <1>3 DEF HomeGesture
<1>4. CASE PanelGesture  BY SMT, <1>4 DEF PanelGesture
<1>5. CASE CallLoop  BY SMT, <1>5 DEF CallLoop
<1>6. CASE requestUpdate  BY SMT, <1>6 DEF requestUpdate
<1>7. CASE requestUpdateAndWait  BY SMT, <1>7 DEF requestUpdateAndWait
<1>8. CASE RequestTransition  BY SMT, <1>8 DEF RequestTransition
<1>9. CASE EarlyReturns  BY SMT, <1>9 DEF EarlyReturns
<1>10. CASE CallbackReturns  BY SMT, <1>10 DEF CallbackReturns
<1>11. CASE WaitEnds  BY SMT, <1>11 DEF WaitEnds
<1>12. CASE Pop  BY SMT, <1>12 DEF Pop
<1>13. CASE PopLast  BY SMT, <1>13 DEF PopLast
<1>14. CASE LaunchHome  BY SMT, <1>14 DEF LaunchHome
<1>15. CASE Replace  BY SMT, <1>15 DEF Replace
<1>16. CASE Push  BY SMT, <1>16 DEF Push
<1>17. CASE PassEnds  BY SMT, <1>17 DEF PassEnds
<1>18. CASE Asleep  BY SMT, <1>18 DEF Asleep, vars
<1>19. CASE TakeNotification  BY SMT, <1>19 DEF TakeNotification
<1>20. CASE BeginDrawing
  <2>1. CASE current = None  BY <1>20, <2>1, SMT DEF BeginDrawing
  <2>2. CASE current # None
    <3>1. dirty' = FALSE  BY <1>20, <2>2 DEF BeginDrawing
    <3> QED  BY <3>1
  <2> QED  BY <2>1, <2>2
<1>21. CASE DrawingDone  BY SMT, <1>21 DEF DrawingDone
<1>22. CASE DrawingFails  BY SMT, <1>22 DEF DrawingFails
<1>23. CASE NotifyWaiter  BY SMT, <1>23 DEF NotifyWaiter
<1>24. CASE UNCHANGED vars  BY SMT, <1>24 DEF vars
<1>25. CASE RequestRecovery  BY SMT, <1>25 DEF RequestRecovery
<1>26. CASE DrawNothing  BY SMT, <1>26 DEF DrawNothing
<1>. QED  BY <1>1, <1>2, <1>3, <1>4, <1>5, <1>6, <1>7, <1>8, <1>9, <1>10, <1>11, <1>12,
    <1>13, <1>14, <1>15, <1>16, <1>17, <1>18, <1>19, <1>20, <1>21, <1>22, <1>23, <1>24,
    <1>25, <1>26
         DEF Next, Gesture, Asking, MainStep, RenderStep

\* Each step of either task keeps the wait and its release together.
LEMMA WaiterIsServedStep ==
    ASSUME IInv, [Next]_vars
    PROVE  WaiterIsServed'
<1> USE DEF IInv, TypeOK, ControlTypes, ObjectTypes, SignalTypes, EnteredAreHeld,
      HomeIsNext, SleepIsLast, SleepIsComing, UpdateComes, WaiterIsServed
<1>1. CASE GoToSleep  BY SMT, <1>1 DEF GoToSleep
<1>2. CASE SuppressedRelease  BY SMT, <1>2 DEF SuppressedRelease
<1>3. CASE HomeGesture  BY SMT, <1>3 DEF HomeGesture
<1>4. CASE PanelGesture  BY SMT, <1>4 DEF PanelGesture
<1>5. CASE CallLoop  BY SMT, <1>5 DEF CallLoop
<1>6. CASE requestUpdate  BY SMT, <1>6 DEF requestUpdate
<1>7. CASE requestUpdateAndWait  BY SMT, <1>7 DEF requestUpdateAndWait
<1>8. CASE RequestTransition  BY SMT, <1>8 DEF RequestTransition
<1>9. CASE EarlyReturns  BY SMT, <1>9 DEF EarlyReturns
<1>10. CASE CallbackReturns  BY SMT, <1>10 DEF CallbackReturns
<1>11. CASE WaitEnds  BY SMT, <1>11 DEF WaitEnds
<1>12. CASE Pop  BY SMT, <1>12 DEF Pop
<1>13. CASE PopLast  BY SMT, <1>13 DEF PopLast
<1>14. CASE LaunchHome  BY SMT, <1>14 DEF LaunchHome
<1>15. CASE Replace  BY SMT, <1>15 DEF Replace
<1>16. CASE Push  BY SMT, <1>16 DEF Push
<1>17. CASE PassEnds  BY SMT, <1>17 DEF PassEnds
<1>18. CASE Asleep  BY SMT, <1>18 DEF Asleep, vars
<1>19. CASE TakeNotification  BY SMT, <1>19 DEF TakeNotification
<1>20. CASE BeginDrawing  BY SMT, <1>20 DEF BeginDrawing
<1>21. CASE DrawingDone  BY SMT, <1>21 DEF DrawingDone
<1>22. CASE DrawingFails  BY SMT, <1>22 DEF DrawingFails
<1>23. CASE NotifyWaiter  BY SMT, <1>23 DEF NotifyWaiter
<1>24. CASE UNCHANGED vars  BY SMT, <1>24 DEF vars
<1>25. CASE RequestRecovery  BY SMT, <1>25 DEF RequestRecovery
<1>26. CASE DrawNothing  BY SMT, <1>26 DEF DrawNothing
<1>. QED  BY <1>1, <1>2, <1>3, <1>4, <1>5, <1>6, <1>7, <1>8, <1>9, <1>10, <1>11, <1>12,
    <1>13, <1>14, <1>15, <1>16, <1>17, <1>18, <1>19, <1>20, <1>21, <1>22, <1>23, <1>24,
    <1>25, <1>26
         DEF Next, Gesture, Asking, MainStep, RenderStep

\* A handler is set by an entered activity and goes when that is destroyed.
LEMMA HandlersAreEnteredStep ==
    ASSUME IInv, [Next]_vars
    PROVE  HandlersAreEntered'
<1> USE DEF IInv, TypeOK, ControlTypes, ObjectTypes, SignalTypes, EnteredAreHeld,
      HomeIsNext, HandlersAreEntered, HandlersAwaitTheirChild
<1>1. CASE GoToSleep  BY SMT, <1>1 DEF GoToSleep
<1>2. CASE SuppressedRelease  BY SMT, <1>2 DEF SuppressedRelease
<1>3. CASE HomeGesture  BY SMT, <1>3 DEF HomeGesture
<1>4. CASE PanelGesture  BY SMT, <1>4 DEF PanelGesture
<1>5. CASE CallLoop  BY SMT, <1>5 DEF CallLoop
<1>6. CASE requestUpdate  BY SMT, <1>6 DEF requestUpdate
<1>7. CASE requestUpdateAndWait  BY SMT, <1>7 DEF requestUpdateAndWait
<1>8. CASE RequestTransition  BY SMT, <1>8 DEF RequestTransition
<1>9. CASE EarlyReturns  BY SMT, <1>9 DEF EarlyReturns
<1>10. CASE CallbackReturns  BY SMT, <1>10 DEF CallbackReturns
<1>11. CASE WaitEnds  BY SMT, <1>11 DEF WaitEnds
<1>12. CASE Pop  BY SMT, <1>12 DEF Pop
<1>13. CASE PopLast  BY SMT, <1>13 DEF PopLast
<1>14. CASE LaunchHome  BY SMT, <1>14 DEF LaunchHome
<1>15. CASE Replace  BY SMT, <1>15 DEF Replace
<1>16. CASE Push  BY SMT, <1>16 DEF Push
<1>17. CASE PassEnds  BY SMT, <1>17 DEF PassEnds
<1>18. CASE Asleep  BY SMT, <1>18 DEF Asleep, vars
<1>19. CASE TakeNotification  BY SMT, <1>19 DEF TakeNotification
<1>20. CASE BeginDrawing  BY SMT, <1>20 DEF BeginDrawing
<1>21. CASE DrawingDone  BY SMT, <1>21 DEF DrawingDone
<1>22. CASE DrawingFails  BY SMT, <1>22 DEF DrawingFails
<1>23. CASE NotifyWaiter  BY SMT, <1>23 DEF NotifyWaiter
<1>24. CASE UNCHANGED vars  BY SMT, <1>24 DEF vars
<1>25. CASE RequestRecovery  BY SMT, <1>25 DEF RequestRecovery
<1>26. CASE DrawNothing  BY SMT, <1>26 DEF DrawNothing
<1>. QED  BY <1>1, <1>2, <1>3, <1>4, <1>5, <1>6, <1>7, <1>8, <1>9, <1>10, <1>11, <1>12,
    <1>13, <1>14, <1>15, <1>16, <1>17, <1>18, <1>19, <1>20, <1>21, <1>22, <1>23, <1>24,
    <1>25, <1>26
         DEF Next, Gesture, Asking, MainStep, RenderStep

\* A request that displaces the pending child makes its handler's child Lost; Push and Pop
\* move the child and its launcher together.
LEMMA HandlersAwaitTheirChildStep ==
    ASSUME IInv, [Next]_vars
    PROVE  HandlersAwaitTheirChild'
<1>a. ASSUME UNCHANGED <<current, stack, entered, handler, pendingActivity, pendingAction>>
      PROVE  HandlersAwaitTheirChild'
  BY <1>a DEF IInv, HandlersAwaitTheirChild
<1>b. ASSUME UNCHANGED <<current, stack, entered>>, handler' = WithoutPending
      PROVE  HandlersAwaitTheirChild'
  <2> SUFFICES ASSUME NEW a \in entered, handler'[a] \notin {None, Lost}
               PROVE  \E i \in DOMAIN stack : a = stack[i]
                         /\ handler'[a] = IF i = Len(stack) THEN current ELSE stack[i + 1]
    BY <1>b DEF HandlersAwaitTheirChild
  <2>1. handler'[a] = handler[a] /\ ~ (a = current /\ handler[a] = pendingActivity)
    BY <1>b, SMT DEF IInv, TypeOK, ObjectTypes
  <2> QED
    BY <2>1 DEF IInv, HandlersAwaitTheirChild
<1>1. CASE GoToSleep  BY <1>b, <1>1 DEF GoToSleep
<1>2. CASE SuppressedRelease  BY <1>a, <1>2 DEF SuppressedRelease
<1>3. CASE HomeGesture  BY <1>b, <1>3 DEF HomeGesture
<1>4. CASE PanelGesture  BY <1>b, <1>4 DEF PanelGesture
<1>5. CASE CallLoop  BY <1>a, <1>5 DEF CallLoop
<1>6. CASE requestUpdate  BY <1>a, <1>6 DEF requestUpdate
<1>7. CASE requestUpdateAndWait  BY <1>a, <1>7 DEF requestUpdateAndWait
<1>8. CASE RequestTransition
  <2>1. CASE popActivity \/ \E a \in Fresh(Homes \cup Screens) : replaceActivity(a)
    BY <1>b, <1>8, <2>1 DEF RequestTransition
  <2>2. CASE \E c \in Fresh(Screens) : startActivityForResult(c)
    <3>1. UNCHANGED <<current, stack, entered>> /\ current \in Activities
      BY <1>8 DEF RequestTransition
    <3>2. PICK c \in Fresh(Screens) : startActivityForResult(c)
      BY <2>2
    <3>3. /\ pendingActivity' = c /\ pendingAction' = "Push"
          /\ handler' = [handler EXCEPT ![current] = c]
      BY <3>2
    <3> QED
      BY <3>1, <3>3, SMT DEF IInv, TypeOK, ObjectTypes, EnteredAreHeld, HandlersAwaitTheirChild
  <2> QED
    BY <1>8, <2>1, <2>2 DEF RequestTransition
<1>9. CASE EarlyReturns  BY <1>a, <1>9 DEF EarlyReturns
<1>10. CASE CallbackReturns  BY <1>a, <1>10 DEF CallbackReturns
<1>11. CASE WaitEnds  BY <1>a, <1>11 DEF WaitEnds
<1>12. CASE Pop
  <2> DEFINE top == stack[Len(stack)]
  <2>1. /\ stack \in Seq(Activities) /\ stack # << >> /\ current' = top
        /\ stack' = SubSeq(stack, 1, Len(stack) - 1) /\ entered' = entered \ {current}
        /\ pendingAction = "Pop"
    BY <1>12, SMT DEF Pop, IInv, TypeOK, ObjectTypes
  <2>a. Len(stack) \in Nat \ {0} /\ DOMAIN stack = 1..Len(stack)
    BY <2>1, SMT
  <2>b. Len(stack') = Len(stack) - 1
    BY <2>1, <2>a, SMT
  <2>c. DOMAIN stack' = 1..(Len(stack) - 1) /\ \A i \in DOMAIN stack' : stack'[i] = stack[i]
    BY <2>1, <2>a, SMT
  <2>2. /\ DOMAIN stack' = 1..(Len(stack) - 1) /\ DOMAIN stack = 1..Len(stack)
        /\ Len(stack') = Len(stack) - 1 /\ Len(stack) \in Nat
        /\ \A i \in DOMAIN stack' : stack'[i] = stack[i]
    BY <2>a, <2>b, <2>c
  <2> SUFFICES ASSUME NEW a \in entered', handler'[a] \notin {None, Lost}
               PROVE  \E i \in DOMAIN stack' : a = stack'[i]
                         /\ handler'[a] = IF i = Len(stack') THEN current' ELSE stack'[i + 1]
    BY DEF HandlersAwaitTheirChild
  <2>3. a \in entered /\ a # current /\ a # top /\ handler'[a] = handler[a]
    BY <1>12, <2>1, SMT DEF Pop, IInv, TypeOK, ObjectTypes
  <2>4. PICK i \in DOMAIN stack :
            a = stack[i] /\ handler[a] = IF i = Len(stack) THEN current ELSE stack[i + 1]
    BY <2>3 DEF IInv, HandlersAwaitTheirChild
  <2>5. i # Len(stack) /\ i \in 1..Len(stack)
    BY <2>2, <2>3, <2>4
  <2>6. i \in DOMAIN stack' /\ handler[a] = stack[i + 1]
    BY <2>2, <2>4, <2>5, SMT
  <2>7. stack[i + 1] = IF i = Len(stack') THEN current' ELSE stack'[i + 1]
    BY <2>1, <2>2, <2>5, SMT
  <2> QED
    BY <2>2, <2>3, <2>4, <2>6, <2>7
<1>13. CASE PopLast
  BY <1>13, SMT DEF PopLast, IInv, TypeOK, ObjectTypes, EnteredAreHeld, HandlersAreEntered,
    HandlersAwaitTheirChild
<1>14. CASE LaunchHome
  BY <1>14, SMT DEF LaunchHome, IInv, TypeOK, ObjectTypes, EnteredAreHeld,
    HandlersAreEntered, HandlersAwaitTheirChild, HomeIsNext
<1>15. CASE Replace
  BY <1>15, SMT DEF Replace, IInv, TypeOK, ObjectTypes, EnteredAreHeld, HandlersAreEntered,
    HandlersAwaitTheirChild
<1>16. CASE Push
  <2>1. /\ stack \in Seq(Activities) /\ stack' = Append(stack, current) /\ current \in Activities
        /\ current' = pendingActivity /\ entered' = entered \cup {pendingActivity}
        /\ handler' = handler /\ pendingAction = "Push"
    BY <1>16, SMT DEF Push, HomeIsNext, IInv, TypeOK, ObjectTypes
  <2>2. /\ DOMAIN stack' = 1..(Len(stack) + 1) /\ DOMAIN stack = 1..Len(stack)
        /\ Len(stack') = Len(stack) + 1 /\ Len(stack) \in Nat
        /\ stack'[Len(stack) + 1] = current /\ \A i \in DOMAIN stack : stack'[i] = stack[i]
    BY <2>1, SMT
  <2> SUFFICES ASSUME NEW a \in entered', handler'[a] \notin {None, Lost}
               PROVE  \E i \in DOMAIN stack' : a = stack'[i]
                         /\ handler'[a] = IF i = Len(stack') THEN current' ELSE stack'[i + 1]
    BY DEF HandlersAwaitTheirChild
  <2>3. a \in entered /\ handler'[a] = handler[a]
    BY <2>1, SMT DEF IInv, TypeOK, ObjectTypes, EnteredAreHeld, HandlersAreEntered
  <2>4. CASE a = current /\ handler[a] = pendingActivity
    <3>1. Len(stack) + 1 \in DOMAIN stack'  BY <2>2, SMT
    <3> QED  BY <2>1, <2>2, <2>3, <2>4, <3>1
  <2>5. CASE \E i \in DOMAIN stack : a = stack[i]
                /\ handler[a] = IF i = Len(stack) THEN current ELSE stack[i + 1]
    <3>1. PICK i \in DOMAIN stack :
              a = stack[i] /\ handler[a] = IF i = Len(stack) THEN current ELSE stack[i + 1]
      BY <2>5
    <3>2. i \in DOMAIN stack' /\ i # Len(stack')
      BY <2>2, SMT
    <3>3. stack'[i + 1] = IF i = Len(stack) THEN current ELSE stack[i + 1]
      BY <2>2, SMT
    <3> QED
      BY <2>2, <2>3, <3>1, <3>2, <3>3
  <2> QED
    BY <2>3, <2>4, <2>5 DEF IInv, HandlersAwaitTheirChild
<1>17. CASE PassEnds  BY <1>a, <1>17 DEF PassEnds
<1>18. CASE Asleep  BY <1>a, <1>18 DEF Asleep, vars
<1>19. CASE TakeNotification  BY <1>a, <1>19 DEF TakeNotification
<1>20. CASE BeginDrawing  BY <1>a, <1>20 DEF BeginDrawing
<1>21. CASE DrawingDone  BY <1>a, <1>21 DEF DrawingDone
<1>22. CASE DrawingFails  BY <1>a, <1>22 DEF DrawingFails
<1>23. CASE NotifyWaiter  BY <1>a, <1>23 DEF NotifyWaiter
<1>24. CASE UNCHANGED vars  BY <1>a, <1>24 DEF vars
<1>25. CASE RequestRecovery  BY <1>a, <1>25 DEF RequestRecovery
<1>26. CASE DrawNothing  BY <1>a, <1>26 DEF DrawNothing
<1>. QED  BY <1>1, <1>2, <1>3, <1>4, <1>5, <1>6, <1>7, <1>8, <1>9, <1>10, <1>11, <1>12,
    <1>13, <1>14, <1>15, <1>16, <1>17, <1>18, <1>19, <1>20, <1>21, <1>22, <1>23, <1>24,
    <1>25, <1>26
         DEF Next, Gesture, Asking, MainStep, RenderStep

\* Only a pass that returns early leaves a handler's child pending, and only a display
\* recovery makes a pass return early in an activity that has a handler.
LEMMA HandlersAreUsedStep ==
    ASSUME IInv, [Next]_vars
    PROVE  HandlersAreUsed'
<1> USE DEF IInv, TypeOK, ControlTypes, ObjectTypes, SignalTypes, EnteredAreHeld,
      HomeIsNext, HandlersAreEntered, HandlersAreUsed
<1>1. CASE GoToSleep  BY SMT, <1>1 DEF GoToSleep
<1>2. CASE SuppressedRelease  BY SMT, <1>2 DEF SuppressedRelease
<1>3. CASE HomeGesture  BY SMT, <1>3 DEF HomeGesture
<1>4. CASE PanelGesture  BY SMT, <1>4 DEF PanelGesture
<1>5. CASE CallLoop  BY SMT, <1>5 DEF CallLoop
<1>6. CASE requestUpdate  BY SMT, <1>6 DEF requestUpdate
<1>7. CASE requestUpdateAndWait  BY SMT, <1>7 DEF requestUpdateAndWait
<1>8. CASE RequestTransition  BY SMT, <1>8 DEF RequestTransition
<1>9. CASE EarlyReturns  BY SMT, <1>9 DEF EarlyReturns
<1>10. CASE CallbackReturns  BY SMT, <1>10 DEF CallbackReturns
<1>11. CASE WaitEnds  BY SMT, <1>11 DEF WaitEnds
<1>12. CASE Pop
  <2> DEFINE top == stack[Len(stack)]
  <2>1. /\ stack \in Seq(Activities) /\ stack # << >> /\ current' = top
        /\ handler' = [handler EXCEPT ![current] = None, ![top] = None]
        /\ pendingAction = "Pop" /\ (within' = within \/ within' = "handler")
        /\ pc' = "process" \/ (pc' = "call" /\ within' = "handler")
        /\ failed' \subseteq failed
    BY <1>12, SMT DEF Pop
  <2>2. top \in Activities /\ current \in Activities
    BY <2>1, SMT
  <2>3. /\ handler'[top] = None /\ handler'[current] = None
        /\ \A a \in Activities : handler'[a] = None \/ handler'[a] = handler[a]
    BY <2>1, <2>2
  <2> QED
    BY <2>1, <2>2, <2>3
<1>13. CASE PopLast  BY SMT, <1>13 DEF PopLast
<1>14. CASE LaunchHome  BY SMT, <1>14 DEF LaunchHome
<1>15. CASE Replace  BY SMT, <1>15 DEF Replace
<1>16. CASE Push  BY SMT, <1>16 DEF Push
<1>17. CASE PassEnds  BY SMT, <1>17 DEF PassEnds
<1>18. CASE Asleep  BY SMT, <1>18 DEF Asleep, vars
<1>19. CASE TakeNotification  BY SMT, <1>19 DEF TakeNotification
<1>20. CASE BeginDrawing  BY SMT, <1>20 DEF BeginDrawing
<1>21. CASE DrawingDone  BY SMT, <1>21 DEF DrawingDone
<1>22. CASE DrawingFails  BY SMT, <1>22 DEF DrawingFails
<1>23. CASE NotifyWaiter  BY SMT, <1>23 DEF NotifyWaiter
<1>24. CASE UNCHANGED vars  BY SMT, <1>24 DEF vars
<1>25. CASE RequestRecovery  BY SMT, <1>25 DEF RequestRecovery
<1>26. CASE DrawNothing  BY SMT, <1>26 DEF DrawNothing
<1>. QED  BY <1>1, <1>2, <1>3, <1>4, <1>5, <1>6, <1>7, <1>8, <1>9, <1>10, <1>11, <1>12,
    <1>13, <1>14, <1>15, <1>16, <1>17, <1>18, <1>19, <1>20, <1>21, <1>22, <1>23, <1>24,
    <1>25, <1>26
         DEF Next, Gesture, Asking, MainStep, RenderStep

\* The device starts with one entered activity that has not asked for anything.
LEMMA InitStep == Init => IInv
<1> SUFFICES ASSUME Init PROVE IInv
  OBVIOUS
<1>1. calls \in 0..MaxCalls /\ ObjectTypes
  BY SMT DEF Init, ObjectTypes
<1>a. ControlTypes /\ SignalTypes
  BY DEF Init, ControlTypes, SignalTypes
<1>2. EnteredAreHeld /\ HomeIsNext /\ HandlersAreEntered /\ HandlersAwaitTheirChild
        /\ HandlersAreUsed
  BY SMT DEF Init, EnteredAreHeld, HomeIsNext, HandlersAreEntered, HandlersAwaitTheirChild,
    HandlersAreUsed
<1>3. SleepIsLast /\ SleepIsComing
  BY SMT DEF Init, SleepIsLast, SleepIsComing
<1>4. UpdateComes /\ WaiterIsServed
  BY DEF Init, UpdateComes, WaiterIsServed
<1> QED
  BY <1>1, <1>a, <1>2, <1>3, <1>4 DEF IInv, TypeOK

\* Together they are an invariant, for every set of activities.
THEOREM IInvHolds == Spec => []IInv
<1>1. IInv /\ [Next]_vars => IInv'
  <2> SUFFICES ASSUME IInv, [Next]_vars PROVE IInv'
    OBVIOUS
  <2>1. TypeOK
    BY DEF IInv
  <2>2. TypeOK'
    BY <2>1, ControlStep, SignalStep, CallsStep, ObjectStep DEF TypeOK
  <2> QED
    BY <2>2, EnteredAreHeldStep, HomeIsNextStep, SleepIsLastStep, SleepIsComingStep,
       UpdateComesStep, WaiterIsServedStep, HandlersAreEnteredStep,
       HandlersAwaitTheirChildStep, HandlersAreUsedStep DEF IInv
<1> QED
  BY <1>1, InitStep, PTL DEF Spec

\* Every variable keeps its type.
THEOREM Typed == Spec => []TypeOK
<1>1. IInv => TypeOK  BY DEF IInv
<1> QED  BY <1>1, IInvHolds, PTL

\* Whatever transitions displace each other, every entered activity is current or on the
\* stack, so it will get its onExit(), and a pending transition has its activity.
THEOREM NothingEnteredIsLost == Spec => []EnteredAreHeld
<1>1. IInv => EnteredAreHeld  BY DEF IInv
<1> QED  BY <1>1, IInvHolds, PTL

\* Content that no drawing has begun with always has a drawing coming.
THEOREM UpdatesAreNotLost == Spec => []UpdateIsOnItsWay
<1>1. IInv => UpdateIsOnItsWay  BY DEF IInv, UpdateComes, UpdateIsOnItsWay
<1> QED  BY <1>1, IInvHolds, PTL

\* A blocked requestUpdateAndWait() is released or has a render pass ahead that releases it.
THEOREM WaitersAreServed == Spec => []WaiterIsServed
<1>1. IInv => WaiterIsServed  BY DEF IInv
<1> QED  BY <1>1, IInvHolds, PTL

\* The device sleeps on the sleep screen unless something in that pass came first.
THEOREM SleepsOnTheSleepScreen == Spec => []SleepScreenIsEntered
<1>1. IInv => SleepScreenIsEntered
  BY DEF IInv, SleepIsLast, SleepIsComing, SleepScreenIsEntered, HomeIsNext, TypeOK, ControlTypes
<1> QED  BY <1>1, IInvHolds, PTL

\* The lock: no step of the main task replaces or exits the activity being drawn.
THEOREM DrawingIsUndisturbed == Spec => DrawnActivityStays
<1>1. IInv /\ [Next]_vars => [rpc = "drawing" /\ current # None
                                => current' = current /\ entered \subseteq entered']_vars
  <2> SUFFICES ASSUME IInv, [Next]_vars, rpc = "drawing", current # None
               PROVE  current' = current /\ entered \subseteq entered'
    OBVIOUS
  <2>1. CASE GoToSleep  BY <2>1 DEF GoToSleep
  <2>2. CASE SuppressedRelease  BY <2>2 DEF SuppressedRelease
  <2>3. CASE HomeGesture  BY <2>3 DEF HomeGesture
  <2>4. CASE PanelGesture  BY <2>4 DEF PanelGesture
  <2>5. CASE CallLoop  BY <2>5 DEF CallLoop
  <2>6. CASE requestUpdate  BY <2>6 DEF requestUpdate
  <2>7. CASE requestUpdateAndWait  BY <2>7 DEF requestUpdateAndWait
  <2>8. CASE RequestTransition  BY <2>8 DEF RequestTransition
  <2>9. CASE EarlyReturns  BY <2>9 DEF EarlyReturns
  <2>10. CASE CallbackReturns  BY <2>10 DEF CallbackReturns
  <2>11. CASE WaitEnds  BY <2>11 DEF WaitEnds
  <2>12. CASE Pop  BY <2>12 DEF Pop
  <2>13. CASE PopLast  BY <2>13 DEF PopLast
  <2>14. CASE LaunchHome  BY <2>14 DEF LaunchHome, IInv, HomeIsNext
  <2>15. CASE Replace  BY <2>15 DEF Replace
  <2>16. CASE Push  BY <2>16 DEF Push
  <2>17. CASE PassEnds  BY <2>17 DEF PassEnds
  <2>18. CASE Asleep  BY <2>18 DEF Asleep, vars
  <2>19. CASE TakeNotification  BY <2>19 DEF TakeNotification
  <2>20. CASE BeginDrawing  BY <2>20 DEF BeginDrawing
  <2>21. CASE DrawingDone  BY <2>21 DEF DrawingDone
  <2>22. CASE DrawingFails  BY <2>22 DEF DrawingFails
  <2>23. CASE NotifyWaiter  BY <2>23 DEF NotifyWaiter
  <2>24. CASE UNCHANGED vars  BY <2>24 DEF vars
  <2>25. CASE RequestRecovery  BY <2>25 DEF RequestRecovery
  <2>26. CASE DrawNothing  BY <2>26 DEF DrawNothing
  <2> QED
    BY <2>1, <2>2, <2>3, <2>4, <2>5, <2>6, <2>7, <2>8, <2>9, <2>10, <2>11, <2>12, <2>13,
       <2>14, <2>15, <2>16, <2>17, <2>18, <2>19, <2>20, <2>21, <2>22, <2>23, <2>24, <2>25, <2>26
       DEF Next, Gesture, Asking, MainStep, RenderStep
<1> QED
  BY <1>1, IInvHolds, PTL DEF Spec, DrawnActivityStays

\* A result handler is called with its own child's result; only an activity with a display
\* recovery can be called with another's, and then its child is gone.
THEOREM ResultsAreTheirs == Spec => ResultsReachTheirLauncher
<1>1. IInv /\ [Next]_vars => [pc = "process" /\ pc' = "call" /\ within' = "handler" =>
                                  \/ handler[current'] = current
                                  \/ handler[current'] = Lost /\ current' \in Checked]_vars
  <2> SUFFICES ASSUME IInv, [Next]_vars, pc = "process", pc' = "call", within' = "handler"
               PROVE  \/ handler[current'] = current
                      \/ handler[current'] = Lost /\ current' \in Checked
    OBVIOUS
  <2>1. CASE Pop
    <3> DEFINE top == stack[Len(stack)]
    <3>1. /\ stack \in Seq(Activities) /\ stack # << >> /\ current' = top
          /\ handler[top] # None
      BY <2>1, SMT DEF Pop, IInv, TypeOK, ObjectTypes
    <3>2. Len(stack) \in DOMAIN stack /\ DOMAIN stack = 1..Len(stack) /\ top \in Activities
      BY <3>1, SMT
    <3>3. top \in entered /\ top # current
      BY <3>2 DEF IInv, EnteredAreHeld
    <3>4. CASE handler[top] = Lost
      BY <3>1, <3>2, <3>3, <3>4 DEF IInv, HandlersAreUsed
    <3>5. CASE handler[top] # Lost
      <4>1. PICK i \in DOMAIN stack :
                top = stack[i] /\ handler[top] = IF i = Len(stack) THEN current ELSE stack[i + 1]
        BY <3>1, <3>3, <3>5 DEF IInv, HandlersAwaitTheirChild
      <4>2. i \in 1..Len(stack) /\ Len(stack) \in Nat
        BY <3>1, <3>2, SMT
      <4>3. i = Len(stack)
        <5> SUFFICES ASSUME i # Len(stack) PROVE FALSE
          OBVIOUS
        <5>1. i \in 1..(Len(stack) - 1)
          BY <4>2, SMT
        <5> QED
          BY <3>2, <4>1, <5>1 DEF IInv, EnteredAreHeld
      <4> QED
        BY <3>1, <4>1, <4>3
    <3> QED
      BY <3>4, <3>5
  <2>2. CASE ~ Pop
    <3>1. FALSE
      BY <2>2 DEF Next, Gesture, Asking, MainStep, RenderStep, GoToSleep, SuppressedRelease,
        HomeGesture, PanelGesture, CallLoop, requestUpdate, requestUpdateAndWait,
        RequestRecovery, RequestTransition, EarlyReturns, CallbackReturns, WaitEnds, PopLast,
        LaunchHome, Replace, Push, PassEnds, Asleep, TakeNotification, BeginDrawing,
        DrawNothing, DrawingDone, DrawingFails, NotifyWaiter, vars
    <3> QED
      BY <3>1
  <2> QED
    BY <2>1, <2>2
<1> QED
  BY <1>1, IInvHolds, PTL DEF Spec, ResultsReachTheirLauncher
=============================================================================
