---------------------------- MODULE BridgeProofs ----------------------------
(***************************************************************************)
(* Proofs about module Bridge, for every number of identifiers, windows,   *)
(* seats and queued inputs and for every set of binding modes.             *)
(***************************************************************************)
EXTENDS Bridge, TLAPS

\* An input of each kind is one; the queue is built from these alone.
LEMMA InputsAreTyped ==
  ASSUME NEW s \in Ids, NEW w \in Ids, NEW mode \in Modes
  PROVE  /\ [kind |-> "key", seat |-> s, window |-> 0, mode |-> mode] \in Inputs
         /\ [kind |-> "click", seat |-> s, window |-> w, mode |-> "normal"] \in Inputs
         /\ [kind |-> "press", seat |-> s, window |-> w, mode |-> "normal"] \in Inputs
BY BridgeAssumption DEF Inputs

\* What drawing and adding one input does to the queue.
LEMMA QueueSteps ==
  ASSUME NEW S, NEW q \in Seq(S), NEW x \in S
  PROVE  /\ Append(q, x) \in Seq(S)
         /\ \A i \in DOMAIN Append(q, x) : Append(q, x)[i] = x \/ \E j \in DOMAIN q : Append(q, x)[i] = q[j]
         /\ q # <<>> => /\ Head(q) \in S
                        /\ Tail(q) \in Seq(S)
                        /\ 1 \in DOMAIN q /\ Head(q) = q[1]
                        /\ \A i \in DOMAIN Tail(q) : \E j \in DOMAIN q : Tail(q)[i] = q[j]
<1>1. Append(q, x) \in Seq(S) OBVIOUS
<1>2. \A i \in DOMAIN Append(q, x) : Append(q, x)[i] = x \/ \E j \in DOMAIN q : Append(q, x)[i] = q[j]
  OBVIOUS
<1>3. ASSUME q # <<>> PROVE /\ Head(q) \in S /\ Tail(q) \in Seq(S)
                            /\ 1 \in DOMAIN q /\ Head(q) = q[1]
  BY <1>3
<1>4. ASSUME q # <<>> PROVE \A i \in DOMAIN Tail(q) : \E j \in DOMAIN q : Tail(q)[i] = q[j]
  <2>1. \A i \in DOMAIN Tail(q) : i + 1 \in DOMAIN q /\ Tail(q)[i] = q[i + 1] BY <1>4
  <2> QED BY <2>1
<1> QED BY <1>1, <1>2, <1>3, <1>4

\* One input ends the operation, leaves it, or is the press that begins one.
LEMMA DrainedInput ==
  ASSUME RecordsOK, DrainInput
  PROVE  /\ Head(queue) \in Inputs /\ Tail(queue) \in Seq(Inputs)
         /\ \E i \in DOMAIN queue : queue[i] = Head(queue)
         /\ \/ wmOperation' \in {wmOperation, NoOperation}
            \/ /\ wmOperation = NoOperation
               /\ Head(queue).kind = "press" /\ Delivered(Head(queue))
               /\ wmOperation' = [seat |-> Head(queue).seat, window |-> Head(queue).window]
<1>1. /\ queue # <<>> /\ Head(queue) \in Inputs /\ Tail(queue) \in Seq(Inputs)
      /\ 1 \in DOMAIN queue /\ Head(queue) = queue[1]
  BY QueueSteps DEF DrainInput, RecordsOK
<1>2. \/ wmOperation' \in {wmOperation, NoOperation}
      \/ /\ wmOperation = NoOperation
         /\ Head(queue).kind = "press" /\ Delivered(Head(queue))
         /\ wmOperation' = [seat |-> Head(queue).seat, window |-> Head(queue).window]
  BY <1>1 DEF DrainInput, PolicyTakes, MayEndOperation, Inputs
<1> QED BY <1>1, <1>2

-----------------------------------------------------------------------------
(* Types *)

\* No action makes a record refer to one that is gone.
LEMMA RecordsStep == RecordsOK /\ [Next]_vars => RecordsOK'
<1> SUFFICES ASSUME RecordsOK, [Next]_vars PROVE RecordsOK'
  OBVIOUS
<1> USE BridgeAssumption DEF RecordsOK, Idle, lifecycleVars, seatVars, lockVars, pointerVars, keyVars,
             phaseVars, stopVars, wmVars
<1>1. ASSUME IdsExhausted PROVE RecordsOK'
  BY <1>1 DEF IdsExhausted, Failures
<1>2. ASSUME WindowCreated PROVE RecordsOK'
  BY <1>2 DEF WindowCreated, Ids
<1>3. ASSUME SeatCreated PROVE RecordsOK'
  BY <1>3 DEF SeatCreated, Ids
<1>4. ASSUME ManagerFinished PROVE RecordsOK'
  BY <1>4 DEF ManagerFinished
<1>5. ASSUME NEW w \in Ids, WindowClosed(w) PROVE RecordsOK'
  BY <1>5 DEF WindowClosed, Live
<1>6. ASSUME NEW w \in Ids, NEW p \in Ids \cup {0}, ParentSet(w, p) PROVE RecordsOK'
  BY <1>6 DEF ParentSet, Live
<1>7. ASSUME NEW s \in Ids, SeatRemoved(s) PROVE RecordsOK'
  BY <1>7 DEF SeatRemoved
<1>8. ASSUME NEW s \in Ids, LayerExclusive(s) PROVE RecordsOK'
  BY <1>8 DEF LayerExclusive
<1>9. ASSUME NEW s \in Ids, NEW some \in BOOLEAN, LayerShared(s, some) PROVE RecordsOK'
  BY <1>9 DEF LayerShared
<1>10. ASSUME TopologyChanged PROVE RecordsOK'
  BY <1>10 DEF TopologyChanged
<1>11. ASSUME SessionLocked PROVE RecordsOK'
  BY <1>11 DEF SessionLocked
<1>12. ASSUME SessionUnlocked PROVE RecordsOK'
  BY <1>12 DEF SessionUnlocked
<1>13. ASSUME NEW s \in Ids, NEW mode \in Modes, KeyPressed(s, mode) PROVE RecordsOK'
  BY <1>13, InputsAreTyped, QueueSteps DEF KeyPressed, Listening, Enqueue
<1>14. ASSUME NEW s \in Ids, NEW w \in Ids, Clicked(s, w) PROVE RecordsOK'
  BY <1>14, InputsAreTyped, QueueSteps DEF Clicked, Listening, Enqueue
<1>15. ASSUME NEW s \in Ids, NEW w \in Ids, ButtonPressed(s, w) PROVE RecordsOK'
  BY <1>15, InputsAreTyped, QueueSteps DEF ButtonPressed, Listening, Enqueue
<1>16. ASSUME NEW s \in Ids, PointerMoved(s) PROVE RecordsOK'
  BY <1>16 DEF PointerMoved
<1>17. ASSUME NEW s \in Ids, ButtonsReleased(s) PROVE RecordsOK'
  BY <1>17 DEF ButtonsReleased
<1>18. ASSUME ManageStart PROVE RecordsOK'
  BY <1>18 DEF ManageStart, Steps, ManageSteps
<1>19. ASSUME RenderStart PROVE RecordsOK'
  BY <1>19 DEF RenderStart, Steps, ManageSteps
<1>20. ASSUME PublishLock PROVE RecordsOK'
  BY <1>20 DEF PublishLock, Steps, ManageSteps, NoOperation, Operations
<1>21. ASSUME RemoveClosed PROVE RecordsOK'
  BY <1>21 DEF RemoveClosed, Steps, ManageSteps, MayEndOperation, NoOperation, Operations, Live
<1>22. ASSUME Announce PROVE RecordsOK'
  BY <1>22 DEF Announce, Steps, ManageSteps, MayEndOperation, NoOperation, Operations
<1>23. ASSUME NEW w \in Ids, PublishParent(w) PROVE RecordsOK'
  BY <1>23 DEF PublishParent, MayEndOperation, NoOperation, Operations
<1>24. ASSUME ParentsPublished PROVE RecordsOK'
  BY <1>24 DEF ParentsPublished, Steps, ManageSteps
<1>25. ASSUME UpdateSeats PROVE RecordsOK'
  BY <1>25 DEF UpdateSeats, ConfigureSeat, Steps, ManageSteps, EndOperationOf, SetBindingMode, HeadOf, NoOperation, Operations
<1>26. ASSUME CancelPointer PROVE RecordsOK'
  BY <1>26 DEF CancelPointer, Steps, ManageSteps, EndOperationOf, NoOperation, Operations
<1>27. ASSUME DrainInput PROVE RecordsOK'
  <2>1. queue' \in Seq(Inputs)
    BY <1>27, DrainedInput DEF DrainInput
  <2>2. wmOperation' \in Operations
    <3>1. CASE wmOperation' \in {wmOperation, NoOperation}
      BY <3>1 DEF NoOperation, Operations
    <3>2. CASE /\ Head(queue).kind = "press" /\ Delivered(Head(queue))
               /\ wmOperation' = [seat |-> Head(queue).seat, window |-> Head(queue).window]
      <4>1. Head(queue).seat \in Ids /\ Head(queue).window \in Ids
        BY <1>27, <3>2, DrainedInput DEF Delivered, Inputs, Live
      <4> QED BY <3>2, <4>1 DEF Operations
    <3> QED BY <1>27, <3>1, <3>2, DrainedInput
  <2>3. wmMode' \in Modes /\ effects' \subseteq Effects
    BY <1>27, DrainedInput DEF DrainInput, PolicyTakes, Inputs
  <2> QED
    BY <1>27, <2>1, <2>2, <2>3 DEF DrainInput
<1>28. ASSUME InputDrained PROVE RecordsOK'
  BY <1>28 DEF InputDrained, Steps, ManageSteps
<1>29. ASSUME PublishDeltas PROVE RecordsOK'
  BY <1>29 DEF PublishDeltas, Steps, ManageSteps, EndOperationOf, MayEndOperation, NoOperation, Operations
<1>30. ASSUME ApplyPolicy PROVE RecordsOK'
  BY <1>30 DEF ApplyPolicy, Steps, ManageSteps, SetBindingMode, SetPointerOperation, SetFocus, Failures, NoOperation, Operations
<1>31. ASSUME ExecuteEffects PROVE RecordsOK'
  BY <1>31 DEF ExecuteEffects, ReloadBindings, Steps, ManageSteps, SetBindingMode, Effects
<1>32. ASSUME ManageFinish PROVE RecordsOK'
  BY <1>32 DEF ManageFinish, Steps, ManageSteps, SendStop
<1>33. ASSUME RenderFinish PROVE RecordsOK'
  BY <1>33 DEF RenderFinish, Steps, ManageSteps, SendStop
<1>34. ASSUME CallbackFails PROVE RecordsOK'
  BY <1>34 DEF CallbackFails
<1>35. ASSUME UNCHANGED vars PROVE RecordsOK'
  BY <1>35 DEF vars
<1> QED
  BY <1>1, <1>2, <1>3, <1>4, <1>5, <1>6, <1>7, <1>8, <1>9, <1>10, <1>11, <1>12, <1>13, <1>14, <1>15, <1>16, <1>17, <1>18, <1>19, <1>20, <1>21, <1>22, <1>23, <1>24, <1>25, <1>26, <1>27, <1>28, <1>29, <1>30, <1>31, <1>32, <1>33, <1>34, <1>35 DEF Next, Compositor, Lifecycle, SetParent, RemoveSeat, ChangeLayer, LockSession, PressKey, Click, UsePointer, Handler

\* Flags stay Boolean.
LEMMA FlagsStep == FlagsOK /\ [Next]_vars => FlagsOK'
<1> SUFFICES ASSUME FlagsOK, [Next]_vars PROVE FlagsOK'
  OBVIOUS
<1> USE DEF FlagsOK, Idle, lifecycleVars, seatVars, lockVars, pointerVars, keyVars,
             phaseVars, stopVars, wmVars
<1>1. ASSUME IdsExhausted PROVE FlagsOK'
  BY <1>1 DEF IdsExhausted
<1>2. ASSUME WindowCreated PROVE FlagsOK'
  BY <1>2 DEF WindowCreated
<1>3. ASSUME SeatCreated PROVE FlagsOK'
  BY <1>3 DEF SeatCreated
<1>4. ASSUME ManagerFinished PROVE FlagsOK'
  BY <1>4 DEF ManagerFinished, SendStop
<1>5. ASSUME NEW w \in Ids, WindowClosed(w) PROVE FlagsOK'
  BY <1>5 DEF WindowClosed
<1>6. ASSUME NEW w \in Ids, NEW p \in Ids \cup {0}, ParentSet(w, p) PROVE FlagsOK'
  BY <1>6 DEF ParentSet
<1>7. ASSUME NEW s \in Ids, SeatRemoved(s) PROVE FlagsOK'
  BY <1>7 DEF SeatRemoved
<1>8. ASSUME NEW s \in Ids, LayerExclusive(s) PROVE FlagsOK'
  <2>1. UNCHANGED <<override, locked, lockChanged, deltaPending, releasePending, managed, awaitingRender, stopRequested, stopSent, finished, callbackFailed, wmLocked>>
    BY <1>8 DEF LayerExclusive
  <2>2. cancelBatch' \in BOOLEAN
    BY <1>8 DEF LayerExclusive
  <2>3. disturbed' \in BOOLEAN
    BY <1>8 DEF LayerExclusive
  <2> QED BY <2>1, <2>2, <2>3
<1>9. ASSUME NEW s \in Ids, NEW some \in BOOLEAN, LayerShared(s, some) PROVE FlagsOK'
  BY <1>9 DEF LayerShared
<1>10. ASSUME TopologyChanged PROVE FlagsOK'
  <2>1. UNCHANGED <<override, locked, lockChanged, deltaPending, releasePending, managed, awaitingRender, stopRequested, stopSent, finished, callbackFailed, wmLocked>>
    BY <1>10 DEF TopologyChanged
  <2>2. cancelBatch' \in BOOLEAN
    BY <1>10 DEF TopologyChanged
  <2>3. disturbed' \in BOOLEAN
    BY <1>10 DEF TopologyChanged
  <2> QED BY <2>1, <2>2, <2>3
<1>11. ASSUME SessionLocked PROVE FlagsOK'
  <2>1. UNCHANGED <<override, deltaPending, releasePending, managed, awaitingRender, stopRequested, stopSent, finished, callbackFailed, wmLocked>>
    BY <1>11 DEF SessionLocked
  <2>2. locked' \in BOOLEAN
    BY <1>11 DEF SessionLocked
  <2>3. lockChanged' \in BOOLEAN
    BY <1>11 DEF SessionLocked
  <2>4. cancelBatch' \in BOOLEAN
    BY <1>11 DEF SessionLocked
  <2>5. disturbed' \in BOOLEAN
    BY <1>11 DEF SessionLocked
  <2> QED BY <2>1, <2>2, <2>3, <2>4, <2>5
<1>12. ASSUME SessionUnlocked PROVE FlagsOK'
  <2>1. UNCHANGED <<override, deltaPending, releasePending, cancelBatch, disturbed, managed, awaitingRender, stopRequested, stopSent, finished, callbackFailed, wmLocked>>
    BY <1>12 DEF SessionUnlocked
  <2>2. locked' \in BOOLEAN
    BY <1>12 DEF SessionUnlocked
  <2>3. lockChanged' \in BOOLEAN
    BY <1>12 DEF SessionUnlocked
  <2> QED BY <2>1, <2>2, <2>3
<1>13. ASSUME NEW s \in Ids, NEW mode \in Modes, KeyPressed(s, mode) PROVE FlagsOK'
  BY <1>13 DEF KeyPressed, Listening, Enqueue
<1>14. ASSUME NEW s \in Ids, NEW w \in Ids, Clicked(s, w) PROVE FlagsOK'
  BY <1>14 DEF Clicked, Listening, Enqueue
<1>15. ASSUME NEW s \in Ids, NEW w \in Ids, ButtonPressed(s, w) PROVE FlagsOK'
  BY <1>15 DEF ButtonPressed, Listening, Enqueue
<1>16. ASSUME NEW s \in Ids, PointerMoved(s) PROVE FlagsOK'
  BY <1>16 DEF PointerMoved
<1>17. ASSUME NEW s \in Ids, ButtonsReleased(s) PROVE FlagsOK'
  BY <1>17 DEF ButtonsReleased
<1>18. ASSUME ManageStart PROVE FlagsOK'
  BY <1>18 DEF ManageStart
<1>19. ASSUME RenderStart PROVE FlagsOK'
  BY <1>19 DEF RenderStart
<1>20. ASSUME PublishLock PROVE FlagsOK'
  <2>1. UNCHANGED <<override, locked, deltaPending, releasePending, cancelBatch, disturbed, managed, awaitingRender, stopRequested, stopSent, finished, callbackFailed>>
    BY <1>20 DEF PublishLock
  <2>2. lockChanged' \in BOOLEAN
    BY <1>20 DEF PublishLock
  <2>3. wmLocked' \in BOOLEAN
    BY <1>20 DEF PublishLock
  <2> QED BY <2>1, <2>2, <2>3
<1>21. ASSUME RemoveClosed PROVE FlagsOK'
  BY <1>21 DEF RemoveClosed
<1>22. ASSUME Announce PROVE FlagsOK'
  BY <1>22 DEF Announce
<1>23. ASSUME NEW w \in Ids, PublishParent(w) PROVE FlagsOK'
  BY <1>23 DEF PublishParent
<1>24. ASSUME ParentsPublished PROVE FlagsOK'
  BY <1>24 DEF ParentsPublished
<1>25. ASSUME UpdateSeats PROVE FlagsOK'
  <2>1. UNCHANGED <<locked, lockChanged, deltaPending, releasePending, cancelBatch, disturbed, managed, awaitingRender, stopRequested, stopSent, finished, callbackFailed, wmLocked>>
    BY <1>25 DEF UpdateSeats, ConfigureSeat
  <2>2. override' \in BOOLEAN
    BY <1>25 DEF UpdateSeats, ConfigureSeat
  <2> QED BY <2>1, <2>2
<1>26. ASSUME CancelPointer PROVE FlagsOK'
  <2>1. UNCHANGED <<locked, lockChanged, deltaPending, releasePending, cancelBatch, disturbed, managed, awaitingRender, stopRequested, stopSent, finished, callbackFailed, wmLocked>>
    BY <1>26 DEF CancelPointer
  <2>2. override' \in BOOLEAN
    BY <1>26 DEF CancelPointer
  <2> QED BY <2>1, <2>2
<1>27. ASSUME DrainInput PROVE FlagsOK'
  <2>1. UNCHANGED <<locked, lockChanged, deltaPending, releasePending, cancelBatch, disturbed, managed, awaitingRender, stopRequested, stopSent, finished, callbackFailed, wmLocked>>
    BY <1>27 DEF DrainInput
  <2>2. override' \in BOOLEAN
    BY <1>27 DEF DrainInput
  <2> QED BY <2>1, <2>2
<1>28. ASSUME InputDrained PROVE FlagsOK'
  BY <1>28 DEF InputDrained
<1>29. ASSUME PublishDeltas PROVE FlagsOK'
  <2>1. UNCHANGED <<override, locked, lockChanged, disturbed, managed, awaitingRender, stopRequested, stopSent, finished, callbackFailed, wmLocked>>
    BY <1>29 DEF PublishDeltas
  <2>2. cancelBatch' = FALSE
    BY <1>29 DEF PublishDeltas
  <2>3. deltaPending' \in BOOLEAN
    BY <1>29 DEF PublishDeltas
  <2>4. releasePending' \in BOOLEAN
    BY <1>29 DEF PublishDeltas
  <2>5. cancelBatch' \in BOOLEAN
    BY <2>2
  <2> QED BY <2>1, <2>3, <2>4, <2>5
<1>30. ASSUME ApplyPolicy PROVE FlagsOK'
  <2>1. UNCHANGED <<override, locked, lockChanged, cancelBatch, disturbed, managed, awaitingRender, stopRequested, stopSent, finished, callbackFailed, wmLocked>>
    BY <1>30 DEF ApplyPolicy
  <2>2. deltaPending' \in BOOLEAN
    BY <1>30 DEF ApplyPolicy, SetPointerOperation
  <2>3. releasePending' \in BOOLEAN
    BY <1>30 DEF ApplyPolicy, SetPointerOperation
  <2> QED BY <2>1, <2>2, <2>3
<1>31. ASSUME ExecuteEffects PROVE FlagsOK'
  <2>1. UNCHANGED <<override, locked, lockChanged, deltaPending, releasePending, cancelBatch, disturbed, managed, awaitingRender, stopSent, finished, callbackFailed, wmLocked>>
    BY <1>31 DEF ExecuteEffects, ReloadBindings
  <2>2. stopRequested' \in BOOLEAN
    BY <1>31 DEF ExecuteEffects, ReloadBindings
  <2> QED BY <2>1, <2>2
<1>32. ASSUME ManageFinish PROVE FlagsOK'
  <2>1. UNCHANGED <<override, locked, lockChanged, deltaPending, releasePending, cancelBatch, stopRequested, finished, callbackFailed, wmLocked>>
    BY <1>32 DEF ManageFinish, SendStop
  <2>2. managed' \in BOOLEAN
    BY <1>32 DEF ManageFinish, SendStop
  <2>3. awaitingRender' \in BOOLEAN
    BY <1>32 DEF ManageFinish, SendStop
  <2>4. disturbed' \in BOOLEAN
    BY <1>32 DEF ManageFinish, SendStop
  <2>5. stopSent' \in BOOLEAN
    BY <1>32 DEF ManageFinish, SendStop
  <2> QED BY <2>1, <2>2, <2>3, <2>4, <2>5
<1>33. ASSUME RenderFinish PROVE FlagsOK'
  <2>1. UNCHANGED <<override, locked, lockChanged, deltaPending, releasePending, cancelBatch, disturbed, managed, stopRequested, finished, callbackFailed, wmLocked>>
    BY <1>33 DEF RenderFinish, SendStop
  <2>2. awaitingRender' \in BOOLEAN
    BY <1>33 DEF RenderFinish, SendStop
  <2>3. stopSent' \in BOOLEAN
    BY <1>33 DEF RenderFinish, SendStop
  <2> QED BY <2>1, <2>2, <2>3
<1>34. ASSUME CallbackFails PROVE FlagsOK'
  <2>1. UNCHANGED <<override, locked, lockChanged, deltaPending, releasePending, cancelBatch, disturbed, managed, awaitingRender, stopSent, finished, wmLocked>>
    BY <1>34 DEF CallbackFails
  <2>2. callbackFailed' \in BOOLEAN
    BY <1>34 DEF CallbackFails
  <2>3. stopRequested' \in BOOLEAN
    BY <1>34 DEF CallbackFails
  <2> QED BY <2>1, <2>2, <2>3
<1>35. ASSUME UNCHANGED vars PROVE FlagsOK'
  BY <1>35 DEF vars
<1> QED
  BY <1>1, <1>2, <1>3, <1>4, <1>5, <1>6, <1>7, <1>8, <1>9, <1>10, <1>11, <1>12, <1>13, <1>14, <1>15, <1>16, <1>17, <1>18, <1>19, <1>20, <1>21, <1>22, <1>23, <1>24, <1>25, <1>26, <1>27, <1>28, <1>29, <1>30, <1>31, <1>32, <1>33, <1>34, <1>35 DEF Next, Compositor, Lifecycle, SetParent, RemoveSeat, ChangeLayer, LockSession, PressKey, Click, UsePointer, Handler

-----------------------------------------------------------------------------
(* What the compositor's events change and what they leave alone           *)

CompositorEffect ==
  /\ at = "idle" /\ at' \in {"idle", "lock", "render"}
  /\ UNCHANGED <<announced, configured, pointer, armed, focus, callbackFailed, wmVars>>
  /\ nextId' >= nextId
  /\ windows' \cup seats' \subseteq windows \cup seats \cup {nextId'}
  /\ windows \subseteq windows'
  /\ primary' = primary \/ (primary = 0 /\ primary' = nextId + 1)
  /\ lockChanged' \/ (~lockChanged /\ locked' = locked)
  /\ cancelBatch => cancelBatch'
  /\ disturbed' => disturbed \/ cancelBatch'
  /\ failure' \in {failure, "ids"}
  /\ \A i \in DOMAIN queue' : \/ pointer = NoOperation
                             \/ queue'[i].kind # "press"
                             \/ \E j \in DOMAIN queue : queue'[i] = queue[j]

\* Between sequences nothing is published, started or enabled: the compositor
\* only adds records and input, raises flags and marks records as gone.
LEMMA CompositorSteps == TypeOK /\ Compositor => CompositorEffect
<1> SUFFICES ASSUME TypeOK, Compositor PROVE CompositorEffect
  OBVIOUS
<1> USE DEF TypeOK, RecordsOK, CompositorEffect, Idle, lifecycleVars, seatVars, lockVars,
        pointerVars, keyVars, phaseVars, stopVars, wmVars
<1>1. ASSUME IdsExhausted PROVE CompositorEffect
  BY <1>1 DEF IdsExhausted
<1>2. ASSUME WindowCreated PROVE CompositorEffect
  BY <1>2 DEF WindowCreated, Ids
<1>3. ASSUME SeatCreated PROVE CompositorEffect
  BY <1>3 DEF SeatCreated, Ids
<1>4. ASSUME ManagerFinished PROVE CompositorEffect
  BY <1>4 DEF ManagerFinished
<1>5. ASSUME NEW w \in Ids, WindowClosed(w) PROVE CompositorEffect
  BY <1>5 DEF WindowClosed
<1>6. ASSUME NEW w \in Ids, NEW p \in Ids \cup {0}, ParentSet(w, p) PROVE CompositorEffect
  BY <1>6 DEF ParentSet
<1>7. ASSUME NEW s \in Ids, SeatRemoved(s) PROVE CompositorEffect
  BY <1>7 DEF SeatRemoved
<1>8. ASSUME NEW s \in Ids, LayerExclusive(s) PROVE CompositorEffect
  <2>1. (cancelBatch => cancelBatch') /\ (disturbed' => disturbed \/ cancelBatch')
    BY <1>8, Zenon DEF LayerExclusive
  <2> QED BY <1>8, <2>1 DEF LayerExclusive
<1>9. ASSUME NEW s \in Ids, NEW some \in BOOLEAN, LayerShared(s, some) PROVE CompositorEffect
  BY <1>9 DEF LayerShared
<1>10. ASSUME TopologyChanged PROVE CompositorEffect
  BY <1>10 DEF TopologyChanged
<1>11. ASSUME SessionLocked PROVE CompositorEffect
  BY <1>11 DEF SessionLocked
<1>12. ASSUME SessionUnlocked PROVE CompositorEffect
  BY <1>12 DEF SessionUnlocked
<1>13. ASSUME NEW s \in Ids, NEW mode \in Modes, KeyPressed(s, mode) PROVE CompositorEffect
  BY <1>13, InputsAreTyped, QueueSteps DEF KeyPressed, Enqueue, Listening
<1>14. ASSUME NEW s \in Ids, NEW w \in Ids, Clicked(s, w) PROVE CompositorEffect
  BY <1>14, InputsAreTyped, QueueSteps DEF Clicked, Enqueue, Listening
<1>15. ASSUME NEW s \in Ids, NEW w \in Ids, ButtonPressed(s, w) PROVE CompositorEffect
  BY <1>15, InputsAreTyped, QueueSteps DEF ButtonPressed, Enqueue, Listening
<1>16. ASSUME NEW s \in Ids, PointerMoved(s) PROVE CompositorEffect
  BY <1>16 DEF PointerMoved
<1>17. ASSUME NEW s \in Ids, ButtonsReleased(s) PROVE CompositorEffect
  BY <1>17 DEF ButtonsReleased
<1>18. ASSUME ManageStart PROVE CompositorEffect
  BY <1>18 DEF ManageStart
<1>19. ASSUME RenderStart PROVE CompositorEffect
  BY <1>19 DEF RenderStart
<1> QED
  BY <1>1, <1>2, <1>3, <1>4, <1>5, <1>6, <1>7, <1>8, <1>9, <1>10, <1>11,
     <1>12, <1>13, <1>14, <1>15, <1>16, <1>17, <1>18, <1>19
  DEF Compositor, Lifecycle, SetParent, RemoveSeat, ChangeLayer, LockSession, PressKey, Click,
     UsePointer


-----------------------------------------------------------------------------
(* Each part of the inductive invariant, one step per action of the bridge *)

\* A new window or seat gets an identifier no record has.
LEMMA FreshIdsStep == TypeOK /\ TypeOK' /\ FreshIds /\ [Next]_vars => FreshIds'
<1> SUFFICES ASSUME TypeOK, TypeOK', FreshIds, [Next]_vars PROVE FreshIds'
  OBVIOUS
<1> USE BridgeAssumption DEF FreshIds, Live,
        TypeOK, RecordsOK, Ids, Steps, ManageSteps, Failures, lifecycleVars, seatVars, lockVars,
        pointerVars, keyVars, phaseVars, stopVars, wmVars
<1>1. CASE Compositor
  BY <1>1, CompositorSteps DEF CompositorEffect
<1>2. CASE PublishLock
  BY <1>2 DEF PublishLock
<1>3. CASE RemoveClosed
  BY <1>3 DEF RemoveClosed, MayEndOperation
<1>4. CASE Announce
  BY <1>4 DEF Announce, MayEndOperation
<1>5. CASE \E w \in Ids : PublishParent(w)
  BY <1>5 DEF PublishParent, MayEndOperation
<1>6. CASE ParentsPublished
  BY <1>6 DEF ParentsPublished
<1>7. CASE UpdateSeats
  BY <1>7 DEF UpdateSeats, ConfigureSeat, EndOperationOf, SetBindingMode, HeadOf
<1>8. CASE CancelPointer
  BY <1>8 DEF CancelPointer, EndOperationOf
<1>9. CASE DrainInput
  BY <1>9 DEF DrainInput
<1>10. CASE InputDrained
  BY <1>10 DEF InputDrained
<1>11. CASE PublishDeltas
  BY <1>11 DEF PublishDeltas, EndOperationOf, MayEndOperation
<1>12. CASE ApplyPolicy
  BY <1>12 DEF ApplyPolicy, SetBindingMode, SetPointerOperation, SetFocus
<1>13. CASE ExecuteEffects
  BY <1>13 DEF ExecuteEffects, ReloadBindings, SetBindingMode
<1>14. CASE ManageFinish
  BY <1>14 DEF ManageFinish
<1>15. CASE RenderFinish
  BY <1>15 DEF RenderFinish
<1>16. CASE CallbackFails
  BY <1>16 DEF CallbackFails
<1>17. CASE UNCHANGED vars
  BY <1>17 DEF vars
<1> QED BY <1>1, <1>2, <1>3, <1>4, <1>5, <1>6, <1>7, <1>8, <1>9, <1>10, <1>11,
           <1>12, <1>13, <1>14, <1>15, <1>16, <1>17 DEF Next, Handler

\* Publishing and removing keep the policy's windows and the announced ones equal.
LEMMA WindowsKnownStep == TypeOK /\ TypeOK' /\ WindowsKnown /\ [Next]_vars => WindowsKnown'
<1> SUFFICES ASSUME TypeOK, TypeOK', WindowsKnown, [Next]_vars PROVE WindowsKnown'
  OBVIOUS
<1> USE BridgeAssumption DEF WindowsKnown, AllAnnounced, Live,
        TypeOK, RecordsOK, Ids, Steps, ManageSteps, Failures, lifecycleVars, seatVars, lockVars,
        pointerVars, keyVars, phaseVars, stopVars, wmVars
<1>1. CASE Compositor
  BY <1>1, CompositorSteps DEF CompositorEffect
<1>2. CASE PublishLock
  BY <1>2 DEF PublishLock
<1>3. CASE RemoveClosed
  BY <1>3 DEF RemoveClosed, MayEndOperation
<1>4. CASE Announce
  BY <1>4 DEF Announce, MayEndOperation
<1>5. CASE \E w \in Ids : PublishParent(w)
  BY <1>5 DEF PublishParent, MayEndOperation
<1>6. CASE ParentsPublished
  BY <1>6 DEF ParentsPublished
<1>7. CASE UpdateSeats
  BY <1>7 DEF UpdateSeats, ConfigureSeat, EndOperationOf, SetBindingMode, HeadOf
<1>8. CASE CancelPointer
  BY <1>8 DEF CancelPointer, EndOperationOf
<1>9. CASE DrainInput
  BY <1>9 DEF DrainInput
<1>10. CASE InputDrained
  BY <1>10 DEF InputDrained
<1>11. CASE PublishDeltas
  BY <1>11 DEF PublishDeltas, EndOperationOf, MayEndOperation
<1>12. CASE ApplyPolicy
  BY <1>12 DEF ApplyPolicy, SetBindingMode, SetPointerOperation, SetFocus
<1>13. CASE ExecuteEffects
  BY <1>13 DEF ExecuteEffects, ReloadBindings, SetBindingMode
<1>14. CASE ManageFinish
  BY <1>14 DEF ManageFinish
<1>15. CASE RenderFinish
  BY <1>15 DEF RenderFinish
<1>16. CASE CallbackFails
  BY <1>16 DEF CallbackFails
<1>17. CASE UNCHANGED vars
  BY <1>17 DEF vars
<1> QED BY <1>1, <1>2, <1>3, <1>4, <1>5, <1>6, <1>7, <1>8, <1>9, <1>10, <1>11,
           <1>12, <1>13, <1>14, <1>15, <1>16, <1>17 DEF Next, Handler

\* The lock is published by the first step of a sequence and not before.
LEMMA LockKnownStep == TypeOK /\ TypeOK' /\ LockKnown /\ [Next]_vars => LockKnown'
<1> SUFFICES ASSUME TypeOK, TypeOK', LockKnown, [Next]_vars PROVE LockKnown'
  OBVIOUS
<1> USE BridgeAssumption DEF LockKnown,
        TypeOK, RecordsOK, Ids, Steps, ManageSteps, Failures, lifecycleVars, seatVars, lockVars,
        pointerVars, keyVars, phaseVars, stopVars, wmVars
<1>1. CASE Compositor
  BY <1>1, CompositorSteps DEF CompositorEffect
<1>2. CASE PublishLock
  BY <1>2 DEF PublishLock
<1>3. CASE RemoveClosed
  BY <1>3 DEF RemoveClosed, MayEndOperation
<1>4. CASE Announce
  BY <1>4 DEF Announce, MayEndOperation
<1>5. CASE \E w \in Ids : PublishParent(w)
  BY <1>5 DEF PublishParent, MayEndOperation
<1>6. CASE ParentsPublished
  BY <1>6 DEF ParentsPublished
<1>7. CASE UpdateSeats
  BY <1>7 DEF UpdateSeats, ConfigureSeat, EndOperationOf, SetBindingMode, HeadOf
<1>8. CASE CancelPointer
  BY <1>8 DEF CancelPointer, EndOperationOf
<1>9. CASE DrainInput
  BY <1>9 DEF DrainInput
<1>10. CASE InputDrained
  BY <1>10 DEF InputDrained
<1>11. CASE PublishDeltas
  BY <1>11 DEF PublishDeltas, EndOperationOf, MayEndOperation
<1>12. CASE ApplyPolicy
  BY <1>12 DEF ApplyPolicy, SetBindingMode, SetPointerOperation, SetFocus
<1>13. CASE ExecuteEffects
  BY <1>13 DEF ExecuteEffects, ReloadBindings, SetBindingMode
<1>14. CASE ManageFinish
  BY <1>14 DEF ManageFinish
<1>15. CASE RenderFinish
  BY <1>15 DEF RenderFinish
<1>16. CASE CallbackFails
  BY <1>16 DEF CallbackFails
<1>17. CASE UNCHANGED vars
  BY <1>17 DEF vars
<1> QED BY <1>1, <1>2, <1>3, <1>4, <1>5, <1>6, <1>7, <1>8, <1>9, <1>10, <1>11,
           <1>12, <1>13, <1>14, <1>15, <1>16, <1>17 DEF Next, Handler

\* Event 7 clears the focus of a locked session; nothing sets it outside event 7.
LEMMA FocusKnownStep == TypeOK /\ TypeOK' /\ FocusKnown /\ LockKnown /\ [Next]_vars => FocusKnown'
<1> SUFFICES ASSUME TypeOK, TypeOK', FocusKnown, LockKnown, [Next]_vars PROVE FocusKnown'
  OBVIOUS
<1> USE BridgeAssumption DEF FocusKnown, LockKnown, Settled,
        TypeOK, RecordsOK, Ids, Steps, ManageSteps, Failures, lifecycleVars, seatVars, lockVars,
        pointerVars, keyVars, phaseVars, stopVars, wmVars
<1>1. CASE Compositor
  <2>1. at = "idle" /\ at' \in {"idle", "lock", "render"} /\ UNCHANGED <<focus, callbackFailed, wmLocked>>
    BY <1>1, CompositorSteps DEF CompositorEffect
  <2>2. primary' = 0 => primary = 0
    BY <1>1, CompositorSteps DEF CompositorEffect
  <2> QED BY <2>1, <2>2
<1>2. CASE PublishLock
  BY <1>2 DEF PublishLock
<1>3. CASE RemoveClosed
  BY <1>3 DEF RemoveClosed, MayEndOperation
<1>4. CASE Announce
  BY <1>4 DEF Announce, MayEndOperation
<1>5. CASE \E w \in Ids : PublishParent(w)
  BY <1>5 DEF PublishParent, MayEndOperation
<1>6. CASE ParentsPublished
  BY <1>6 DEF ParentsPublished
<1>7. CASE UpdateSeats
  BY <1>7 DEF UpdateSeats, ConfigureSeat, EndOperationOf, SetBindingMode, HeadOf
<1>8. CASE CancelPointer
  BY <1>8 DEF CancelPointer, EndOperationOf
<1>9. CASE DrainInput
  BY <1>9 DEF DrainInput
<1>10. CASE InputDrained
  BY <1>10 DEF InputDrained
<1>11. CASE PublishDeltas
  BY <1>11 DEF PublishDeltas, EndOperationOf, MayEndOperation
<1>12. CASE ApplyPolicy
  BY <1>12 DEF ApplyPolicy, SetBindingMode, SetPointerOperation, SetFocus
<1>13. CASE ExecuteEffects
  BY <1>13 DEF ExecuteEffects, ReloadBindings, SetBindingMode
<1>14. CASE ManageFinish
  BY <1>14 DEF ManageFinish
<1>15. CASE RenderFinish
  BY <1>15 DEF RenderFinish
<1>16. CASE CallbackFails
  BY <1>16 DEF CallbackFails
<1>17. CASE UNCHANGED vars
  BY <1>17 DEF vars
<1> QED BY <1>1, <1>2, <1>3, <1>4, <1>5, <1>6, <1>7, <1>8, <1>9, <1>10, <1>11,
           <1>12, <1>13, <1>14, <1>15, <1>16, <1>17 DEF Next, Handler

\* Event 7 arms the policy's mode; a seat that arrives later has no keys yet.
LEMMA KeysKnownStep == TypeOK /\ TypeOK' /\ KeysKnown /\ LockKnown /\ FreshIds /\ [Next]_vars => KeysKnown'
<1> SUFFICES ASSUME TypeOK, TypeOK', KeysKnown, LockKnown, FreshIds, [Next]_vars PROVE KeysKnown'
  OBVIOUS
<1> USE BridgeAssumption DEF KeysKnown, LockKnown, FreshIds, Settled,
        TypeOK, RecordsOK, Ids, Steps, ManageSteps, Failures, lifecycleVars, seatVars, lockVars,
        pointerVars, keyVars, phaseVars, stopVars, wmVars
<1>1. CASE Compositor
  BY <1>1, CompositorSteps DEF CompositorEffect
<1>2. CASE PublishLock
  BY <1>2 DEF PublishLock
<1>3. CASE RemoveClosed
  BY <1>3 DEF RemoveClosed, MayEndOperation
<1>4. CASE Announce
  BY <1>4 DEF Announce, MayEndOperation
<1>5. CASE \E w \in Ids : PublishParent(w)
  BY <1>5 DEF PublishParent, MayEndOperation
<1>6. CASE ParentsPublished
  BY <1>6 DEF ParentsPublished
<1>7. CASE UpdateSeats
  BY <1>7 DEF UpdateSeats, ConfigureSeat, EndOperationOf, SetBindingMode, HeadOf
<1>8. CASE CancelPointer
  BY <1>8 DEF CancelPointer, EndOperationOf
<1>9. CASE DrainInput
  BY <1>9 DEF DrainInput
<1>10. CASE InputDrained
  BY <1>10 DEF InputDrained
<1>11. CASE PublishDeltas
  BY <1>11 DEF PublishDeltas, EndOperationOf, MayEndOperation
<1>12. CASE ApplyPolicy
  BY <1>12 DEF ApplyPolicy, SetBindingMode, SetPointerOperation, SetFocus
<1>13. CASE ExecuteEffects
  BY <1>13 DEF ExecuteEffects, ReloadBindings, SetBindingMode
<1>14. CASE ManageFinish
  BY <1>14 DEF ManageFinish
<1>15. CASE RenderFinish
  BY <1>15 DEF RenderFinish
<1>16. CASE CallbackFails
  BY <1>16 DEF CallbackFails
<1>17. CASE UNCHANGED vars
  BY <1>17 DEF vars
<1> QED BY <1>1, <1>2, <1>3, <1>4, <1>5, <1>6, <1>7, <1>8, <1>9, <1>10, <1>11,
           <1>12, <1>13, <1>14, <1>15, <1>16, <1>17 DEF Next, Handler

\* A press is queued only while no operation is on, and an operation is begun
\* only after the queue was drained.
LEMMA PressesWaitStep == TypeOK /\ TypeOK' /\ PressesWait /\ [Next]_vars => PressesWait'
<1> SUFFICES ASSUME TypeOK, TypeOK', PressesWait, [Next]_vars PROVE PressesWait'
  OBVIOUS
<1> USE BridgeAssumption DEF PressesWait, AllDrained, NoOperation, Operations,
        TypeOK, RecordsOK, Ids, Steps, ManageSteps, Failures, lifecycleVars, seatVars, lockVars,
        pointerVars, keyVars, phaseVars, stopVars, wmVars
<1>1. CASE Compositor
  BY <1>1, CompositorSteps DEF CompositorEffect
<1>2. CASE PublishLock
  BY <1>2 DEF PublishLock
<1>3. CASE RemoveClosed
  BY <1>3 DEF RemoveClosed, MayEndOperation
<1>4. CASE Announce
  BY <1>4 DEF Announce, MayEndOperation
<1>5. CASE \E w \in Ids : PublishParent(w)
  BY <1>5 DEF PublishParent, MayEndOperation
<1>6. CASE ParentsPublished
  BY <1>6 DEF ParentsPublished
<1>7. CASE UpdateSeats
  BY <1>7 DEF UpdateSeats, ConfigureSeat, EndOperationOf, SetBindingMode, HeadOf
<1>8. CASE CancelPointer
  BY <1>8 DEF CancelPointer, EndOperationOf
<1>9. CASE DrainInput
  BY <1>9, QueueSteps DEF DrainInput
<1>10. CASE InputDrained
  BY <1>10 DEF InputDrained
<1>11. CASE PublishDeltas
  BY <1>11 DEF PublishDeltas, EndOperationOf, MayEndOperation
<1>12. CASE ApplyPolicy
  BY <1>12 DEF ApplyPolicy, SetBindingMode, SetPointerOperation, SetFocus
<1>13. CASE ExecuteEffects
  BY <1>13 DEF ExecuteEffects, ReloadBindings, SetBindingMode
<1>14. CASE ManageFinish
  BY <1>14 DEF ManageFinish
<1>15. CASE RenderFinish
  BY <1>15 DEF RenderFinish
<1>16. CASE CallbackFails
  BY <1>16 DEF CallbackFails
<1>17. CASE UNCHANGED vars
  BY <1>17 DEF vars
<1> QED BY <1>1, <1>2, <1>3, <1>4, <1>5, <1>6, <1>7, <1>8, <1>9, <1>10, <1>11,
           <1>12, <1>13, <1>14, <1>15, <1>16, <1>17 DEF Next, Handler

\* What the policy believes of the operation, step by step.
LEMMA OperationKnownStep == TypeOK /\ TypeOK' /\ OperationKnown /\ PressesWait /\ [Next]_vars => OperationKnown'
<1> SUFFICES ASSUME TypeOK, TypeOK', OperationKnown, PressesWait, [Next]_vars PROVE OperationKnown'
  OBVIOUS
<1> USE BridgeAssumption DEF OperationKnown, PressesWait, Startable, Settled, NoOperation, Operations, Live,
        AllDrained,
        TypeOK, RecordsOK, Ids, Steps, ManageSteps, Failures, lifecycleVars, seatVars, lockVars,
        pointerVars, keyVars, phaseVars, stopVars, wmVars
<1>1. CASE Compositor
  BY <1>1, CompositorSteps DEF CompositorEffect
<1>2. CASE PublishLock
  BY <1>2 DEF PublishLock
<1>3. CASE RemoveClosed
  BY <1>3 DEF RemoveClosed, MayEndOperation
<1>4. CASE Announce
  BY <1>4 DEF Announce, MayEndOperation
<1>5. CASE \E w \in Ids : PublishParent(w)
  BY <1>5 DEF PublishParent, MayEndOperation
<1>6. CASE ParentsPublished
  BY <1>6 DEF ParentsPublished
<1>7. CASE UpdateSeats
  BY <1>7 DEF UpdateSeats, ConfigureSeat, EndOperationOf, SetBindingMode, HeadOf
<1>8. CASE CancelPointer
  BY <1>8 DEF CancelPointer, EndOperationOf
<1>9. CASE DrainInput
  <2>1. /\ at = "inputs"
        /\ UNCHANGED <<at, pointer, primary, locked, exclusive, windows, closed, callbackFailed>>
    BY <1>9 DEF DrainInput
  <2>2. CASE wmOperation' \in {wmOperation, NoOperation}
    BY <2>1, <2>2
  <2>3. CASE /\ wmOperation = NoOperation
             /\ Head(queue).kind = "press" /\ Delivered(Head(queue))
             /\ wmOperation' = [seat |-> Head(queue).seat, window |-> Head(queue).window]
    <3>1. pointer = NoOperation
      BY <1>9, <2>3, DrainedInput
    <3>2. Startable(wmOperation')
      BY <1>9, <2>1, <2>3, DrainedInput DEF Delivered, Inputs
    <3> QED BY <2>1, <3>1, <3>2
  <2> QED BY <1>9, <2>2, <2>3, DrainedInput
<1>10. CASE InputDrained
  BY <1>10 DEF InputDrained
<1>11. CASE PublishDeltas
  BY <1>11 DEF PublishDeltas, EndOperationOf, MayEndOperation
<1>12. CASE ApplyPolicy
  BY <1>12 DEF ApplyPolicy, SetBindingMode, SetPointerOperation, SetFocus
<1>13. CASE ExecuteEffects
  BY <1>13 DEF ExecuteEffects, ReloadBindings, SetBindingMode
<1>14. CASE ManageFinish
  BY <1>14 DEF ManageFinish
<1>15. CASE RenderFinish
  BY <1>15 DEF RenderFinish
<1>16. CASE CallbackFails
  BY <1>16 DEF CallbackFails
<1>17. CASE UNCHANGED vars
  BY <1>17 DEF vars
<1> QED BY <1>1, <1>2, <1>3, <1>4, <1>5, <1>6, <1>7, <1>8, <1>9, <1>10, <1>11,
           <1>12, <1>13, <1>14, <1>15, <1>16, <1>17 DEF Next, Handler

\* An operation ends with its window and with its seat.
LEMMA OperationLiveStep == TypeOK /\ TypeOK' /\ OperationLive /\ [Next]_vars => OperationLive'
<1> SUFFICES ASSUME TypeOK, TypeOK', OperationLive, [Next]_vars PROVE OperationLive'
  OBVIOUS
<1> USE BridgeAssumption DEF OperationLive, NoOperation, Operations, Live,
        TypeOK, RecordsOK, Ids, Steps, ManageSteps, Failures, lifecycleVars, seatVars, lockVars,
        pointerVars, keyVars, phaseVars, stopVars, wmVars
<1>1. CASE Compositor
  <2>1. /\ UNCHANGED <<wmOperation, callbackFailed>> /\ windows \subseteq windows'
        /\ primary' = primary \/ primary = 0
    BY <1>1, CompositorSteps DEF CompositorEffect
  <2>2. wmOperation # NoOperation => wmOperation.seat # 0
    <3>1. \A op \in [seat : Ids, window : Ids] : op.seat \in 1 .. MaxId
      OBVIOUS
    <3> QED BY <3>1
  <2> QED BY <2>1, <2>2
<1>2. CASE PublishLock
  BY <1>2 DEF PublishLock
<1>3. CASE RemoveClosed
  BY <1>3 DEF RemoveClosed, MayEndOperation
<1>4. CASE Announce
  BY <1>4 DEF Announce, MayEndOperation
<1>5. CASE \E w \in Ids : PublishParent(w)
  BY <1>5 DEF PublishParent, MayEndOperation
<1>6. CASE ParentsPublished
  BY <1>6 DEF ParentsPublished
<1>7. CASE UpdateSeats
  BY <1>7 DEF UpdateSeats, ConfigureSeat, EndOperationOf, SetBindingMode, HeadOf
<1>8. CASE CancelPointer
  BY <1>8 DEF CancelPointer, EndOperationOf
<1>9. CASE DrainInput
  <2>1. UNCHANGED <<primary, windows, closed, callbackFailed>>
    BY <1>9 DEF DrainInput
  <2>2. CASE wmOperation' \in {wmOperation, NoOperation}
    BY <2>1, <2>2
  <2>3. CASE /\ Delivered(Head(queue)) /\ Head(queue).kind = "press"
             /\ wmOperation' = [seat |-> Head(queue).seat, window |-> Head(queue).window]
    BY <2>1, <2>3 DEF Delivered
  <2> QED BY <1>9, <2>2, <2>3, DrainedInput
<1>10. CASE InputDrained
  BY <1>10 DEF InputDrained
<1>11. CASE PublishDeltas
  BY <1>11 DEF PublishDeltas, EndOperationOf, MayEndOperation
<1>12. CASE ApplyPolicy
  BY <1>12 DEF ApplyPolicy, SetBindingMode, SetPointerOperation, SetFocus
<1>13. CASE ExecuteEffects
  BY <1>13 DEF ExecuteEffects, ReloadBindings, SetBindingMode
<1>14. CASE ManageFinish
  BY <1>14 DEF ManageFinish
<1>15. CASE RenderFinish
  BY <1>15 DEF RenderFinish
<1>16. CASE CallbackFails
  BY <1>16 DEF CallbackFails
<1>17. CASE UNCHANGED vars
  BY <1>17 DEF vars
<1> QED BY <1>1, <1>2, <1>3, <1>4, <1>5, <1>6, <1>7, <1>8, <1>9, <1>10, <1>11,
           <1>12, <1>13, <1>14, <1>15, <1>16, <1>17 DEF Next, Handler

\* A disturbance is remembered until the input is drained and ends the operation.
LEMMA DisturbanceKnownStep == TypeOK /\ TypeOK' /\ DisturbanceKnown /\ OperationKnown /\ [Next]_vars => DisturbanceKnown'
<1> SUFFICES ASSUME TypeOK, TypeOK', DisturbanceKnown, OperationKnown, [Next]_vars PROVE DisturbanceKnown'
  OBVIOUS
<1> USE BridgeAssumption DEF DisturbanceKnown, DisturbanceEndsOperation, OperationKnown, Settled,
        NoOperation, Operations,
        TypeOK, RecordsOK, Ids, Steps, ManageSteps, Failures, lifecycleVars, seatVars, lockVars,
        pointerVars, keyVars, phaseVars, stopVars, wmVars
<1>1. CASE Compositor
  BY <1>1, CompositorSteps DEF CompositorEffect
<1>2. CASE PublishLock
  BY <1>2 DEF PublishLock
<1>3. CASE RemoveClosed
  BY <1>3 DEF RemoveClosed, MayEndOperation
<1>4. CASE Announce
  BY <1>4 DEF Announce, MayEndOperation
<1>5. CASE \E w \in Ids : PublishParent(w)
  BY <1>5 DEF PublishParent, MayEndOperation
<1>6. CASE ParentsPublished
  BY <1>6 DEF ParentsPublished
<1>7. CASE UpdateSeats
  BY <1>7 DEF UpdateSeats, ConfigureSeat, EndOperationOf, SetBindingMode, HeadOf
<1>8. CASE CancelPointer
  BY <1>8 DEF CancelPointer, EndOperationOf
<1>9. CASE DrainInput
  <2>1. at = "inputs" /\ UNCHANGED <<at, cancelBatch, disturbed, callbackFailed>>
    BY <1>9 DEF DrainInput
  <2>2. ~callbackFailed /\ cancelBatch => wmOperation' = NoOperation
    BY <1>9, <2>1, DrainedInput DEF Delivered
  <2> QED BY <2>1, <2>2
<1>10. CASE InputDrained
  BY <1>10 DEF InputDrained
<1>11. CASE PublishDeltas
  BY <1>11 DEF PublishDeltas, EndOperationOf, MayEndOperation
<1>12. CASE ApplyPolicy
  BY <1>12 DEF ApplyPolicy, SetBindingMode, SetPointerOperation, SetFocus
<1>13. CASE ExecuteEffects
  BY <1>13 DEF ExecuteEffects, ReloadBindings, SetBindingMode
<1>14. CASE ManageFinish
  BY <1>14 DEF ManageFinish
<1>15. CASE RenderFinish
  BY <1>15 DEF RenderFinish
<1>16. CASE CallbackFails
  BY <1>16 DEF CallbackFails
<1>17. CASE UNCHANGED vars
  BY <1>17 DEF vars
<1> QED BY <1>1, <1>2, <1>3, <1>4, <1>5, <1>6, <1>7, <1>8, <1>9, <1>10, <1>11,
           <1>12, <1>13, <1>14, <1>15, <1>16, <1>17 DEF Next, Handler

\* Event 7 never has to replace an operation.
LEMMA OnlyIdsRunOutStep == TypeOK /\ TypeOK' /\ OnlyIdsRunOut /\ OperationKnown /\ [Next]_vars => OnlyIdsRunOut'
<1> SUFFICES ASSUME TypeOK, TypeOK', OnlyIdsRunOut, OperationKnown, [Next]_vars PROVE OnlyIdsRunOut'
  OBVIOUS
<1> USE BridgeAssumption DEF OnlyIdsRunOut, OperationKnown, Settled, NoOperation, Operations,
        TypeOK, RecordsOK, Ids, Steps, ManageSteps, Failures, lifecycleVars, seatVars, lockVars,
        pointerVars, keyVars, phaseVars, stopVars, wmVars
<1>1. CASE Compositor
  BY <1>1, CompositorSteps DEF CompositorEffect
<1>2. CASE PublishLock
  BY <1>2 DEF PublishLock
<1>3. CASE RemoveClosed
  BY <1>3 DEF RemoveClosed, MayEndOperation
<1>4. CASE Announce
  BY <1>4 DEF Announce, MayEndOperation
<1>5. CASE \E w \in Ids : PublishParent(w)
  BY <1>5 DEF PublishParent, MayEndOperation
<1>6. CASE ParentsPublished
  BY <1>6 DEF ParentsPublished
<1>7. CASE UpdateSeats
  BY <1>7 DEF UpdateSeats, ConfigureSeat, EndOperationOf, SetBindingMode, HeadOf
<1>8. CASE CancelPointer
  BY <1>8 DEF CancelPointer, EndOperationOf
<1>9. CASE DrainInput
  BY <1>9 DEF DrainInput
<1>10. CASE InputDrained
  BY <1>10 DEF InputDrained
<1>11. CASE PublishDeltas
  BY <1>11 DEF PublishDeltas, EndOperationOf, MayEndOperation
<1>12. CASE ApplyPolicy
  BY <1>12 DEF ApplyPolicy, SetBindingMode, SetPointerOperation, SetFocus
<1>13. CASE ExecuteEffects
  BY <1>13 DEF ExecuteEffects, ReloadBindings, SetBindingMode
<1>14. CASE ManageFinish
  BY <1>14 DEF ManageFinish
<1>15. CASE RenderFinish
  BY <1>15 DEF RenderFinish
<1>16. CASE CallbackFails
  BY <1>16 DEF CallbackFails
<1>17. CASE UNCHANGED vars
  BY <1>17 DEF vars
<1> QED BY <1>1, <1>2, <1>3, <1>4, <1>5, <1>6, <1>7, <1>8, <1>9, <1>10, <1>11,
           <1>12, <1>13, <1>14, <1>15, <1>16, <1>17 DEF Next, Handler

-----------------------------------------------------------------------------
(* Theorems *)

LEMMA TypesAtFirst == Init => TypeOK
<1>1. Init => RecordsOK
  BY BridgeAssumption DEF Init, RecordsOK, Ids, NoOperation, Operations, Steps, ManageSteps,
      Failures, Effects
<1>2. Init => FlagsOK
  BY DEF Init, FlagsOK
<1> QED BY <1>1, <1>2 DEF TypeOK

\* The inductive invariant holds in every behaviour: types, what the policy
\* knows of windows, lock, keys and operation, and how far a sequence has come.
THEOREM BridgeInvariant == Spec => []BridgeInv
<1>1. Init => BridgeInv
  BY TypesAtFirst
  DEF Init, BridgeInv, FreshIds, WindowsKnown, LockKnown, FocusKnown, KeysKnown, PressesWait,
      OperationKnown, OperationLive, DisturbanceKnown, DisturbanceEndsOperation, OnlyIdsRunOut,
      Settled, AllAnnounced, AllDrained, ManageSteps
<1>2. BridgeInv /\ [Next]_vars => BridgeInv'
  <2>1. TypeOK /\ [Next]_vars => TypeOK'
    BY RecordsStep, FlagsStep DEF TypeOK
  <2> QED
    BY <2>1, FreshIdsStep, WindowsKnownStep, LockKnownStep, FocusKnownStep, KeysKnownStep,
       PressesWaitStep, OperationKnownStep, OperationLiveStep, DisturbanceKnownStep, OnlyIdsRunOutStep
    DEF BridgeInv
<1> QED BY <1>1, <1>2, PTL DEF Spec

\* Between sequences the compositor and the policy agree on the operation.
THEOREM PointerAgreement == Spec => []PointerAgrees
<1>1. BridgeInv => PointerAgrees
  BY DEF BridgeInv, OperationKnown, Settled, PointerAgrees
<1> QED BY <1>1, BridgeInvariant, PTL

\* An operation that is on has a seat, which is the primary one, and a window.
THEOREM OperationHasRecords == Spec => []OperationOnRecords
<1>1. BridgeInv => OperationOnRecords
  <2> SUFFICES ASSUME BridgeInv, at = "idle", ~callbackFailed, pointer # NoOperation
               PROVE  /\ pointer.seat = primary /\ pointer.seat \in seats
                      /\ pointer.window \in windows
    BY DEF OperationOnRecords
  <2>1. wmOperation = pointer
    BY DEF BridgeInv, OperationKnown, Settled
  <2>2. pointer.seat = primary /\ pointer.window \in windows
    BY <2>1 DEF BridgeInv, OperationLive
  <2>3. pointer.seat \in Ids /\ primary \in seats \cup {0}
    BY DEF BridgeInv, TypeOK, RecordsOK, Operations
  <2> QED BY <2>2, <2>3, BridgeAssumption DEF Ids
<1> QED BY <1>1, BridgeInvariant, PTL

\* The bridge never fails because the policy replaced an operation.
THEOREM NeverReplaced == Spec => []OnlyIdsRunOut
<1>1. BridgeInv => OnlyIdsRunOut
  BY DEF BridgeInv
<1> QED BY <1>1, BridgeInvariant, PTL

\* A lock, a change of outputs or panels or an exclusive layer ends dragging.
THEOREM DisturbanceEnds == Spec => []DisturbanceEndsOperation
<1>1. BridgeInv => DisturbanceEndsOperation
  BY DEF BridgeInv, DisturbanceKnown
<1> QED BY <1>1, BridgeInvariant, PTL

\* The enabled keys are those of the policy's mode, none under a lock.
THEOREM KeysFollowMode == Spec => []ArmedKeysFollowMode
<1>1. BridgeInv => ArmedKeysFollowMode
  BY DEF BridgeInv, KeysKnown, Settled, ArmedKeysFollowMode
<1> QED BY <1>1, BridgeInvariant, PTL

\* The policy's windows are the announced ones, all of them once announced.
THEOREM WindowsAgree == Spec => []PolicyKnowsWindows
<1>1. BridgeInv => PolicyKnowsWindows
  BY DEF BridgeInv, WindowsKnown, AllAnnounced, PolicyKnowsWindows, ManageSteps
<1> QED BY <1>1, BridgeInvariant, PTL

\* A parent is never published before the window it names.
THEOREM ParentsInOrder == Spec => []ParentsAnnouncedFirst
<1>1. BridgeInv => ParentsAnnouncedFirst
  BY DEF BridgeInv, WindowsKnown, AllAnnounced, ParentsAnnouncedFirst, TypeOK, RecordsOK
<1> QED BY <1>1, BridgeInvariant, PTL

\* The policy knows of a lock, which leaves no window focused.
THEOREM LockKnownToPolicy == Spec => []LockReachesPolicy
<1>1. BridgeInv => LockReachesPolicy
  BY DEF BridgeInv, LockKnown, FocusKnown, Settled, LockReachesPolicy
<1> QED BY <1>1, BridgeInvariant, PTL

\* What reaches the policy is the input of the seat that is primary now, in an
\* unlocked session, about a window the policy knows.
THEOREM InputIsLive == Spec => OnlyLiveInput
<1> DEFINE Live1 == at = "inputs" /\ <<wmMode, wmOperation, effects>>' # <<wmMode, wmOperation, effects>> =>
                      /\ Head(queue).seat \in seats /\ Head(queue).seat = primary /\ ~wmLocked
                      /\ Head(queue).kind # "key" => Head(queue).window \in wmWindows
<1>1. BridgeInv /\ [Next]_vars => Live1
  <2> SUFFICES ASSUME BridgeInv, [Next]_vars, at = "inputs",
                      <<wmMode, wmOperation, effects>>' # <<wmMode, wmOperation, effects>>
               PROVE  /\ Head(queue).seat \in seats /\ Head(queue).seat = primary /\ ~wmLocked
                      /\ Head(queue).kind # "key" => Head(queue).window \in wmWindows
    OBVIOUS
  <2>1. DrainInput
    <3>1. ~Compositor
      BY CompositorSteps DEF CompositorEffect, BridgeInv
    <3>2. ~(UNCHANGED vars)
      BY DEF vars, wmVars
    <3>3. ~CallbackFails /\ ~InputDrained
      BY DEF CallbackFails, InputDrained, wmVars
    <3> QED
      BY <3>1, <3>2, <3>3 DEF Next, Handler, PublishLock, RemoveClosed, Announce, PublishParent,
          ParentsPublished, UpdateSeats, CancelPointer, PublishDeltas, ApplyPolicy, ExecuteEffects,
          ManageFinish, RenderFinish
  <2>2. Delivered(Head(queue)) /\ ~callbackFailed
    BY <2>1 DEF DrainInput
  <2> QED
    BY <2>2 DEF Delivered, BridgeInv, LockKnown, WindowsKnown, AllAnnounced, ManageSteps, Live,
        TypeOK, RecordsOK
<1>2. BridgeInv /\ [Next]_vars => [at = "inputs" /\ <<wmMode, wmOperation, effects>>' # <<wmMode, wmOperation, effects>> =>
       LET input == Head(queue)
       IN  /\ input.seat \in seats /\ input.seat = primary /\ ~wmLocked
           /\ input.kind # "key" => input.window \in wmWindows]_vars
  BY <1>1
<1> QED BY <1>2, BridgeInvariant, PTL DEF Spec, OnlyLiveInput

=============================================================================
