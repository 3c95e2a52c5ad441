--------------------------- MODULE ShutdownProofs ---------------------------
(***************************************************************************)
(* Proofs about module Shutdown. The invariant is preserved part by part:  *)
(* types, then the gate, then the child given the gate, then the exit.     *)
(***************************************************************************)
EXTENDS Shutdown, TLAPS

\* No step leaves the places of the threads and the child.
LEMMA PlacesStep == PlacesOK /\ [Next]_vars => PlacesOK'
<1> SUFFICES ASSUME PlacesOK, [Next]_vars PROVE PlacesOK'
  OBVIOUS
<1> USE DEF PlacesOK, loopVars, exitVars, workerVars, childVars, Interruptible
<1>1. CASE Top
  BY <1>1 DEF Top, Fail
<1>2. CASE Flush
  BY <1>2 DEF Flush, LoseConnection, Fail
<1>3. CASE Poll
  BY <1>3 DEF Poll
<1>4. CASE Read
  BY <1>4 DEF Read, LoseConnection, Fail
<1>5. CASE Dispatched
  BY <1>5 DEF Dispatched
<1>6. CASE Cleanup
  BY <1>6 DEF Cleanup
<1>7. CASE KillWorker
  BY <1>7 DEF KillWorker
<1>8. CASE WorkerKilled
  BY <1>8 DEF WorkerKilled
<1>9. CASE Release
  BY <1>9 DEF Release
<1>10. CASE Discovered
  BY <1>10 DEF Discovered
<1>11. CASE ConfirmSessionExit
  BY <1>11 DEF ConfirmSessionExit, Managing
<1>12. CASE Restart
  BY <1>12 DEF Restart, Managing
<1>13. CASE CallbackFails
  BY <1>13 DEF CallbackFails, Managing
<1>14. CASE ManagerFinished
  BY <1>14 DEF ManagerFinished
<1>15. CASE BridgeFails
  BY <1>15 DEF BridgeFails, Fail
<1>16. CASE CreateProcess
  BY <1>16 DEF CreateProcess, WorkerStep
<1>17. CASE ReadAnswer
  BY <1>17 DEF ReadAnswer, WorkerStep
<1>18. CASE WaitForProcess
  BY <1>18 DEF WaitForProcess, WorkerStep
<1>19. CASE Decide
  BY <1>19 DEF Decide, WorkerStep, Accepted
<1>20. CASE StopConfirmation
  BY <1>20 DEF StopConfirmation, WorkerStep
<1>21. CASE Escalate
  BY <1>21 DEF Escalate, WorkerStep
<1>22. CASE PollExit
  BY <1>22 DEF PollExit, WorkerStep
<1>23. CASE BracketLeft
  BY <1>23 DEF BracketLeft, WorkerStep
<1>24. CASE ReceiveKill
  BY <1>24 DEF ReceiveKill
<1>25. CASE GiveGate
  BY <1>25 DEF GiveGate, WorkerStep
<1>26. CASE ChildAnswers
  BY <1>26 DEF ChildAnswers
<1>27. CASE ChildExits
  BY <1>27 DEF ChildExits
<1>28. CASE Signal
  BY <1>28 DEF Signal
<1>29. CASE CompositorGone
  BY <1>29 DEF CompositorGone
<1>30. CASE UNCHANGED vars
  BY <1>30 DEF vars
<1> QED
  BY <1>1, <1>2, <1>3, <1>4, <1>5, <1>6, <1>7, <1>8, <1>9, <1>10, <1>11, <1>12, <1>13, <1>14, <1>15, <1>16, <1>17, <1>18, <1>19, <1>20, <1>21, <1>22, <1>23, <1>24, <1>25, <1>26, <1>27, <1>28, <1>29, <1>30
  DEF Next, Main, Event, Worker, World

\* Flags stay flags.
LEMMA FlagsStep == FlagsOK /\ [Next]_vars => FlagsOK'
<1> SUFFICES ASSUME FlagsOK, [Next]_vars PROVE FlagsOK'
  OBVIOUS
<1> USE DEF FlagsOK, loopVars, exitVars, workerVars, childVars
<1>1. CASE Top
  <2>1. running' \in BOOLEAN
    BY <1>1 DEF Top, Fail
  <2>2. exitRequested' \in BOOLEAN
    BY <1>1 DEF Top, Fail
  <2>3. exitSent' \in BOOLEAN
    BY <1>1 DEF Top, Fail
  <2>4. UNCHANGED <<finished, interrupted, connected, callbackFailed, confirmed, gate, forked, killPending, success, reaped, waiter>>
    BY <1>1 DEF Top, Fail
  <2> QED BY <2>1, <2>2, <2>3, <2>4
<1>2. CASE Flush
  <2>1. running' \in BOOLEAN
    BY <1>2 DEF Flush, LoseConnection, Fail
  <2>2. UNCHANGED <<finished, interrupted, connected, callbackFailed, exitRequested, exitSent, confirmed, gate, forked, killPending, success, reaped, waiter>>
    BY <1>2 DEF Flush, LoseConnection, Fail
  <2> QED BY <2>1, <2>2
<1>3. CASE Poll
  BY <1>3 DEF Poll
<1>4. CASE Read
  <2>1. running' \in BOOLEAN
    BY <1>4 DEF Read, LoseConnection, Fail
  <2>2. UNCHANGED <<finished, interrupted, connected, callbackFailed, exitRequested, exitSent, confirmed, gate, forked, killPending, success, reaped, waiter>>
    BY <1>4 DEF Read, LoseConnection, Fail
  <2> QED BY <2>1, <2>2
<1>5. CASE Dispatched
  BY <1>5 DEF Dispatched
<1>6. CASE Cleanup
  BY <1>6 DEF Cleanup
<1>7. CASE KillWorker
  <2>1. killPending' \in BOOLEAN
    BY <1>7 DEF KillWorker
  <2>2. UNCHANGED <<running, finished, interrupted, connected, callbackFailed, exitRequested, exitSent, confirmed, gate, forked, success, reaped, waiter>>
    BY <1>7 DEF KillWorker
  <2> QED BY <2>1, <2>2
<1>8. CASE WorkerKilled
  <2>1. killPending' \in BOOLEAN
    BY <1>8 DEF WorkerKilled
  <2>2. UNCHANGED <<running, finished, interrupted, connected, callbackFailed, exitRequested, exitSent, confirmed, gate, forked, success, reaped, waiter>>
    BY <1>8 DEF WorkerKilled
  <2> QED BY <2>1, <2>2
<1>9. CASE Release
  BY <1>9 DEF Release
<1>10. CASE Discovered
  BY <1>10 DEF Discovered
<1>11. CASE ConfirmSessionExit
  BY <1>11 DEF ConfirmSessionExit, Managing
<1>12. CASE Restart
  BY <1>12 DEF Restart, Managing
<1>13. CASE CallbackFails
  BY <1>13 DEF CallbackFails, Managing
<1>14. CASE ManagerFinished
  <2>1. running' \in BOOLEAN
    BY <1>14 DEF ManagerFinished
  <2>2. finished' \in BOOLEAN
    BY <1>14 DEF ManagerFinished
  <2>3. UNCHANGED <<interrupted, connected, callbackFailed, exitRequested, exitSent, confirmed, gate, forked, killPending, success, reaped, waiter>>
    BY <1>14 DEF ManagerFinished
  <2> QED BY <2>1, <2>2, <2>3
<1>15. CASE BridgeFails
  <2>1. running' \in BOOLEAN
    BY <1>15 DEF BridgeFails, Fail
  <2>2. UNCHANGED <<finished, interrupted, connected, callbackFailed, exitRequested, exitSent, confirmed, gate, forked, killPending, success, reaped, waiter>>
    BY <1>15 DEF BridgeFails, Fail
  <2> QED BY <2>1, <2>2
<1>16. CASE CreateProcess
  BY <1>16 DEF CreateProcess, WorkerStep
<1>17. CASE ReadAnswer
  BY <1>17 DEF ReadAnswer, WorkerStep
<1>18. CASE WaitForProcess
  BY <1>18 DEF WaitForProcess, WorkerStep
<1>19. CASE Decide
  BY <1>19 DEF Decide, WorkerStep, Accepted
<1>20. CASE StopConfirmation
  BY <1>20 DEF StopConfirmation, WorkerStep
<1>21. CASE Escalate
  BY <1>21 DEF Escalate, WorkerStep
<1>22. CASE PollExit
  BY <1>22 DEF PollExit, WorkerStep
<1>23. CASE BracketLeft
  BY <1>23 DEF BracketLeft, WorkerStep
<1>24. CASE ReceiveKill
  <2>1. killPending' \in BOOLEAN
    BY <1>24 DEF ReceiveKill
  <2>2. UNCHANGED <<running, finished, interrupted, connected, callbackFailed, exitRequested, exitSent, confirmed, gate, forked, success, reaped, waiter>>
    BY <1>24 DEF ReceiveKill
  <2> QED BY <2>1, <2>2
<1>25. CASE GiveGate
  BY <1>25 DEF GiveGate, WorkerStep
<1>26. CASE ChildAnswers
  BY <1>26 DEF ChildAnswers
<1>27. CASE ChildExits
  BY <1>27 DEF ChildExits
<1>28. CASE Signal
  BY <1>28 DEF Signal
<1>29. CASE CompositorGone
  <2>1. connected' \in BOOLEAN
    BY <1>29 DEF CompositorGone
  <2>2. UNCHANGED <<running, finished, interrupted, callbackFailed, exitRequested, exitSent, confirmed, gate, forked, killPending, success, reaped, waiter>>
    BY <1>29 DEF CompositorGone
  <2> QED BY <2>1, <2>2
<1>30. CASE UNCHANGED vars
  BY <1>30 DEF vars
<1> QED
  BY <1>1, <1>2, <1>3, <1>4, <1>5, <1>6, <1>7, <1>8, <1>9, <1>10, <1>11, <1>12, <1>13, <1>14, <1>15, <1>16, <1>17, <1>18, <1>19, <1>20, <1>21, <1>22, <1>23, <1>24, <1>25, <1>26, <1>27, <1>28, <1>29, <1>30
  DEF Next, Main, Event, Worker, World

\* The gate is held by the thread that runs, and no exception is pending elsewhere.
LEMMA GateStep == (TypeOK /\ GateKnown) /\ [Next]_vars => GateKnown'
<1> SUFFICES ASSUME (TypeOK /\ GateKnown), [Next]_vars PROVE GateKnown'
  OBVIOUS
<1> USE DEF GateKnown, loopVars, exitVars, workerVars, childVars, TypeOK, PlacesOK, FlagsOK, Interruptible
<1>1. CASE Top
  BY <1>1 DEF Top, Fail
<1>2. CASE Flush
  BY <1>2 DEF Flush, LoseConnection, Fail
<1>3. CASE Poll
  BY <1>3 DEF Poll
<1>4. CASE Read
  BY <1>4 DEF Read, LoseConnection, Fail
<1>5. CASE Dispatched
  BY <1>5 DEF Dispatched
<1>6. CASE Cleanup
  BY <1>6 DEF Cleanup
<1>7. CASE KillWorker
  BY <1>7 DEF KillWorker
<1>8. CASE WorkerKilled
  BY <1>8 DEF WorkerKilled
<1>9. CASE Release
  BY <1>9 DEF Release
<1>10. CASE Discovered
  BY <1>10 DEF Discovered
<1>11. CASE ConfirmSessionExit
  BY <1>11 DEF ConfirmSessionExit, Managing
<1>12. CASE Restart
  BY <1>12 DEF Restart, Managing
<1>13. CASE CallbackFails
  BY <1>13 DEF CallbackFails, Managing
<1>14. CASE ManagerFinished
  BY <1>14 DEF ManagerFinished
<1>15. CASE BridgeFails
  BY <1>15 DEF BridgeFails, Fail
<1>16. CASE CreateProcess
  BY <1>16 DEF CreateProcess, WorkerStep
<1>17. CASE ReadAnswer
  BY <1>17 DEF ReadAnswer, WorkerStep
<1>18. CASE WaitForProcess
  BY <1>18 DEF WaitForProcess, WorkerStep
<1>19. CASE Decide
  BY <1>19 DEF Decide, WorkerStep, Accepted
<1>20. CASE StopConfirmation
  BY <1>20 DEF StopConfirmation, WorkerStep
<1>21. CASE Escalate
  BY <1>21 DEF Escalate, WorkerStep
<1>22. CASE PollExit
  BY <1>22 DEF PollExit, WorkerStep
<1>23. CASE BracketLeft
  BY <1>23 DEF BracketLeft, WorkerStep
<1>24. CASE ReceiveKill
  BY <1>24 DEF ReceiveKill
<1>25. CASE GiveGate
  BY <1>25 DEF GiveGate, WorkerStep
<1>26. CASE ChildAnswers
  BY <1>26 DEF ChildAnswers
<1>27. CASE ChildExits
  BY <1>27 DEF ChildExits
<1>28. CASE Signal
  BY <1>28 DEF Signal
<1>29. CASE CompositorGone
  BY <1>29 DEF CompositorGone
<1>30. CASE UNCHANGED vars
  BY <1>30 DEF vars
<1> QED
  BY <1>1, <1>2, <1>3, <1>4, <1>5, <1>6, <1>7, <1>8, <1>9, <1>10, <1>11, <1>12, <1>13, <1>14, <1>15, <1>16, <1>17, <1>18, <1>19, <1>20, <1>21, <1>22, <1>23, <1>24, <1>25, <1>26, <1>27, <1>28, <1>29, <1>30
  DEF Next, Main, Event, Worker, World

\* A thread past its child has it reaped or handed to a waiter.
LEMMA ChildStep == (TypeOK /\ GateKnown /\ ChildKnown) /\ [Next]_vars => ChildKnown'
<1> SUFFICES ASSUME (TypeOK /\ GateKnown /\ ChildKnown), [Next]_vars PROVE ChildKnown'
  OBVIOUS
<1> USE DEF ChildKnown, loopVars, exitVars, workerVars, childVars, TypeOK, PlacesOK, FlagsOK, GateKnown, Interruptible
<1>1. CASE Top
  BY <1>1 DEF Top, Fail
<1>2. CASE Flush
  BY <1>2 DEF Flush, LoseConnection, Fail
<1>3. CASE Poll
  BY <1>3 DEF Poll
<1>4. CASE Read
  BY <1>4 DEF Read, LoseConnection, Fail
<1>5. CASE Dispatched
  BY <1>5 DEF Dispatched
<1>6. CASE Cleanup
  BY <1>6 DEF Cleanup
<1>7. CASE KillWorker
  BY <1>7 DEF KillWorker
<1>8. CASE WorkerKilled
  BY <1>8 DEF WorkerKilled
<1>9. CASE Release
  BY <1>9 DEF Release
<1>10. CASE Discovered
  BY <1>10 DEF Discovered
<1>11. CASE ConfirmSessionExit
  BY <1>11 DEF ConfirmSessionExit, Managing
<1>12. CASE Restart
  BY <1>12 DEF Restart, Managing
<1>13. CASE CallbackFails
  BY <1>13 DEF CallbackFails, Managing
<1>14. CASE ManagerFinished
  BY <1>14 DEF ManagerFinished
<1>15. CASE BridgeFails
  BY <1>15 DEF BridgeFails, Fail
<1>16. CASE CreateProcess
  BY <1>16 DEF CreateProcess, WorkerStep
<1>17. CASE ReadAnswer
  BY <1>17 DEF ReadAnswer, WorkerStep
<1>18. CASE WaitForProcess
  BY <1>18 DEF WaitForProcess, WorkerStep
<1>19. CASE Decide
  BY <1>19 DEF Decide, WorkerStep, Accepted
<1>20. CASE StopConfirmation
  BY <1>20 DEF StopConfirmation, WorkerStep
<1>21. CASE Escalate
  BY <1>21 DEF Escalate, WorkerStep
<1>22. CASE PollExit
  BY <1>22 DEF PollExit, WorkerStep
<1>23. CASE BracketLeft
  BY <1>23 DEF BracketLeft, WorkerStep
<1>24. CASE ReceiveKill
  BY <1>24 DEF ReceiveKill
<1>25. CASE GiveGate
  BY <1>25 DEF GiveGate, WorkerStep
<1>26. CASE ChildAnswers
  BY <1>26 DEF ChildAnswers
<1>27. CASE ChildExits
  BY <1>27 DEF ChildExits
<1>28. CASE Signal
  BY <1>28 DEF Signal
<1>29. CASE CompositorGone
  BY <1>29 DEF CompositorGone
<1>30. CASE UNCHANGED vars
  BY <1>30 DEF vars
<1> QED
  BY <1>1, <1>2, <1>3, <1>4, <1>5, <1>6, <1>7, <1>8, <1>9, <1>10, <1>11, <1>12, <1>13, <1>14, <1>15, <1>16, <1>17, <1>18, <1>19, <1>20, <1>21, <1>22, <1>23, <1>24, <1>25, <1>26, <1>27, <1>28, <1>29, <1>30
  DEF Next, Main, Event, Worker, World

\* An exit is requested by a confirmation only, and never sent after a loss.
LEMMA ExitStep == (TypeOK /\ ChildKnown /\ ExitKnown) /\ [Next]_vars => ExitKnown'
<1> SUFFICES ASSUME (TypeOK /\ ChildKnown /\ ExitKnown), [Next]_vars PROVE ExitKnown'
  OBVIOUS
<1> USE DEF ExitKnown, loopVars, exitVars, workerVars, childVars, TypeOK, PlacesOK, FlagsOK, ChildKnown, Ended, Interruptible
<1>1. CASE Top
  BY <1>1 DEF Top, Fail
<1>2. CASE Flush
  BY <1>2 DEF Flush, LoseConnection, Fail
<1>3. CASE Poll
  BY <1>3 DEF Poll
<1>4. CASE Read
  BY <1>4 DEF Read, LoseConnection, Fail
<1>5. CASE Dispatched
  BY <1>5 DEF Dispatched
<1>6. CASE Cleanup
  BY <1>6 DEF Cleanup
<1>7. CASE KillWorker
  BY <1>7 DEF KillWorker
<1>8. CASE WorkerKilled
  BY <1>8 DEF WorkerKilled
<1>9. CASE Release
  BY <1>9 DEF Release
<1>10. CASE Discovered
  BY <1>10 DEF Discovered
<1>11. CASE ConfirmSessionExit
  BY <1>11 DEF ConfirmSessionExit, Managing
<1>12. CASE Restart
  BY <1>12 DEF Restart, Managing
<1>13. CASE CallbackFails
  BY <1>13 DEF CallbackFails, Managing
<1>14. CASE ManagerFinished
  BY <1>14 DEF ManagerFinished
<1>15. CASE BridgeFails
  BY <1>15 DEF BridgeFails, Fail
<1>16. CASE CreateProcess
  BY <1>16 DEF CreateProcess, WorkerStep
<1>17. CASE ReadAnswer
  BY <1>17 DEF ReadAnswer, WorkerStep
<1>18. CASE WaitForProcess
  BY <1>18 DEF WaitForProcess, WorkerStep
<1>19. CASE Decide
  BY <1>19 DEF Decide, WorkerStep, Accepted
<1>20. CASE StopConfirmation
  BY <1>20 DEF StopConfirmation, WorkerStep
<1>21. CASE Escalate
  BY <1>21 DEF Escalate, WorkerStep
<1>22. CASE PollExit
  BY <1>22 DEF PollExit, WorkerStep
<1>23. CASE BracketLeft
  BY <1>23 DEF BracketLeft, WorkerStep
<1>24. CASE ReceiveKill
  BY <1>24 DEF ReceiveKill
<1>25. CASE GiveGate
  BY <1>25 DEF GiveGate, WorkerStep
<1>26. CASE ChildAnswers
  BY <1>26 DEF ChildAnswers
<1>27. CASE ChildExits
  BY <1>27 DEF ChildExits
<1>28. CASE Signal
  BY <1>28 DEF Signal
<1>29. CASE CompositorGone
  BY <1>29 DEF CompositorGone
<1>30. CASE UNCHANGED vars
  BY <1>30 DEF vars
<1> QED
  BY <1>1, <1>2, <1>3, <1>4, <1>5, <1>6, <1>7, <1>8, <1>9, <1>10, <1>11, <1>12, <1>13, <1>14, <1>15, <1>16, <1>17, <1>18, <1>19, <1>20, <1>21, <1>22, <1>23, <1>24, <1>25, <1>26, <1>27, <1>28, <1>29, <1>30
  DEF Next, Main, Event, Worker, World

-----------------------------------------------------------------------------

\* The inductive invariant holds in every reachable state: the gate, the
\* thread, its child and the exit flag go together (Runtime.hs, execute).
THEOREM ShutdownInvariant == Spec => []ShutdownInv
<1>1. Init => ShutdownInv
  BY DEF Init, ShutdownInv, TypeOK, PlacesOK, FlagsOK, GateKnown, ChildKnown, ExitKnown, Interruptible
<1>2. ShutdownInv /\ [Next]_vars => ShutdownInv'
  BY PlacesStep, FlagsStep, GateStep, ChildStep, ExitStep DEF ShutdownInv, TypeOK
<1> QED BY <1>1, <1>2, PTL DEF Spec

\* No confirmation thread or unreaped child survives runWithReload, wherever
\* killThread's exception reached the thread.
THEOREM ReleaseIsComplete == Spec => []NoConfirmationSurvives
<1>1. ShutdownInv => NoConfirmationSurvives
  BY DEF ShutdownInv, GateKnown, ChildKnown, NoConfirmationSurvives
<1> QED BY <1>1, ShutdownInvariant, PTL

\* The exit request of bridge.c is sent only after a confirmed exit.
THEOREM ExitNeedsConfirmation == Spec => []ExitOnlyConfirmed
<1>1. ShutdownInv => ExitOnlyConfirmed
  BY DEF ShutdownInv, ExitKnown, ExitOnlyConfirmed
<1> QED BY <1>1, ShutdownInvariant, PTL

\* The compositor's leaving after an exit was sent is not a failure of xw_run.
THEOREM ExitSucceeds == Spec => []ExitIsNoFailure
<1>1. ShutdownInv => ExitIsNoFailure
  BY DEF ShutdownInv, TypeOK, PlacesOK, ExitKnown, ExitIsNoFailure
<1> QED BY <1>1, ShutdownInvariant, PTL

\* Every step of the manager is a step of the promise or leaves it alone.
LEMMA PromiseStep ==
  ShutdownInv /\ ShutdownInv' /\ [Next]_vars => [Promise!Next]_(Promise!vars)
<1> SUFFICES ASSUME ShutdownInv, ShutdownInv', [Next]_vars
             PROVE  Promise!Next \/ UNCHANGED Promise!vars
  OBVIOUS
<1> USE DEF ShutdownInv, TypeOK, PlacesOK, FlagsOK, GateKnown, ChildKnown, ExitKnown, Interruptible,
            Manager, Promise!Next, Promise!vars, loopVars, exitVars, workerVars, childVars
<1>1. CASE Top
  <2>1. CASE pc' = "cleanup"
    BY <1>1, <2>1 DEF Top, Promise!Leave
  <2>2. CASE exitRequested /\ pc' = "flush" /\ exitSent' # exitSent
    BY <1>1, <2>2 DEF Top, Promise!EndSession
  <2>3. CASE pc' = "flush" /\ exitSent' = exitSent
    BY <1>1, <2>3 DEF Top
  <2> QED BY <1>1, <2>1, <2>2, <2>3 DEF Top
<1>2. CASE Flush
  BY <1>2 DEF Flush, LoseConnection, Fail
<1>3. CASE Poll
  BY <1>3 DEF Poll
<1>4. CASE Read
  BY <1>4 DEF Read, LoseConnection, Fail
<1>5. CASE Dispatched
  BY <1>5 DEF Dispatched
<1>6. CASE Cleanup
  BY <1>6 DEF Cleanup
<1>7. CASE KillWorker
  BY <1>7 DEF KillWorker
<1>8. CASE WorkerKilled
  BY <1>8 DEF WorkerKilled
<1>9. CASE Release
  BY <1>9 DEF Release, Promise!Return
<1>10. CASE Discovered
  BY <1>10 DEF Discovered
<1>11. CASE ConfirmSessionExit
  BY <1>11 DEF ConfirmSessionExit, Managing, Promise!Open
<1>12. CASE Restart
  BY <1>12 DEF Restart, Managing, Promise!Leave
<1>13. CASE CallbackFails
  BY <1>13 DEF CallbackFails, Managing
<1>14. CASE ManagerFinished
  BY <1>14 DEF ManagerFinished
<1>15. CASE BridgeFails
  BY <1>15 DEF BridgeFails, Fail
<1>16. CASE pc # "restarted" /\ CreateProcess
  BY <1>16 DEF CreateProcess, WorkerStep
<1>17. CASE pc # "restarted" /\ ReadAnswer
  BY <1>17 DEF ReadAnswer, WorkerStep
<1>18. CASE pc # "restarted" /\ WaitForProcess
  BY <1>18 DEF WaitForProcess, WorkerStep
<1>19. CASE pc # "restarted" /\ Decide
  BY <1>19 DEF Decide, WorkerStep, Promise!Grant
<1>20. CASE pc # "restarted" /\ StopConfirmation
  BY <1>20 DEF StopConfirmation, WorkerStep
<1>21. CASE pc # "restarted" /\ Escalate
  BY <1>21 DEF Escalate, WorkerStep
<1>22. CASE pc # "restarted" /\ PollExit
  BY <1>22 DEF PollExit, WorkerStep
<1>23. CASE pc # "restarted" /\ BracketLeft
  BY <1>23 DEF BracketLeft, WorkerStep
<1>24. CASE pc # "restarted" /\ ReceiveKill
  BY <1>24 DEF ReceiveKill
<1>25. CASE pc # "restarted" /\ GiveGate
  BY <1>25 DEF GiveGate, WorkerStep, Promise!Close
<1>26. CASE ChildAnswers
  BY <1>26 DEF ChildAnswers
<1>27. CASE ChildExits
  BY <1>27 DEF ChildExits
<1>28. CASE Signal
  BY <1>28 DEF Signal
<1>29. CASE CompositorGone
  BY <1>29 DEF CompositorGone
<1>30. CASE UNCHANGED vars
  BY <1>30 DEF vars
<1> QED
  BY <1>1, <1>2, <1>3, <1>4, <1>5, <1>6, <1>7, <1>8, <1>9, <1>10, <1>11, <1>12, <1>13, <1>14, <1>15, <1>16, <1>17, <1>18, <1>19, <1>20, <1>21, <1>22, <1>23, <1>24, <1>25, <1>26, <1>27, <1>28, <1>29, <1>30
  DEF Next, Main, Event, Worker, World

\* The end of the manager implements its promise: an exit only on the user's
\* word, a return only with no confirmation open.
THEOREM ManagerKeepsPromise == Spec => KeepsPromise
<1>1. Init => Promise!Init
  BY DEF Init, Promise!Init, Manager
<1>2. ShutdownInv /\ ShutdownInv' /\ [Next]_vars => [Promise!Next]_(Promise!vars)
  BY PromiseStep
<1> QED BY <1>1, <1>2, ShutdownInvariant, PTL DEF Spec, KeepsPromise, Promise!Spec

=============================================================================
