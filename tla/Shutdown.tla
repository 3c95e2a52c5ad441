------------------------------ MODULE Shutdown ------------------------------
(***************************************************************************)
(* How the manager ends: the event loop of bridge.c (xw_run), the signals  *)
(* that interrupt it, the thread that asks the user to confirm the end of  *)
(* the session, its child process, and the release of the runtime.         *)
(*                                                                         *)
(* Four parties take steps of their own: the main thread, one confirmation *)
(* thread, the child it started, and whatever is outside (the compositor   *)
(* and the signals). The two threads share an atomic flag, the gate (an    *)
(* MVar) and the asynchronous exception of killThread, which is received   *)
(* only where the code lets exceptions in.                                 *)
(*                                                                         *)
(* The gate lets one confirmation run at a time, so one record of a thread *)
(* and a child is enough. A signal after the handlers were restored is the *)
(* business of the Haskell runtime and not modelled.                       *)
(***************************************************************************)

VARIABLES
  pc,             \* where the main thread stands
  running, finished, interrupted,
  failure,        \* what fail() was called for: a lost connection or another
  globals,        \* what registry discovery found
  connected,
  exitRequested,  \* the atomic flag
  exitSent,
  callbackFailed,
  status,         \* exit status of the manager, "none" before
  gate,           \* confirmationLock is full
  forked,         \* confirmationWorker holds a thread
  worker,         \* where that thread stands
  killPending,    \* killThread waits for it to receive the exception
  child, answer, success, reaped,
  waiter,         \* a detached thread reaps the child
  confirmed       \* history: a child has confirmed the exit

loopVars == <<running, finished, interrupted, failure, globals, connected, callbackFailed, status>>
exitVars == <<exitRequested, exitSent, confirmed>>
workerVars == <<gate, forked, worker, killPending>>
childVars == <<child, answer, success, reaped, waiter>>

vars == <<pc, loopVars, exitVars, workerVars, childVars>>

-----------------------------------------------------------------------------

\* xw_run after the connection is made; runWithReload has set the runtime.
Init ==
  /\ pc = "top" /\ running = TRUE /\ finished = FALSE /\ interrupted = FALSE
  /\ failure = "none" /\ globals = "unknown" /\ connected = TRUE
  /\ exitRequested = FALSE /\ exitSent = FALSE /\ confirmed = FALSE
  /\ callbackFailed = FALSE /\ status = "none"
  /\ gate = TRUE /\ forked = FALSE /\ worker = "none" /\ killPending = FALSE
  /\ child = "none" /\ answer = "none" /\ success = FALSE /\ reaped = FALSE /\ waiter = FALSE

Ended == ~running \/ failure # "none" \/ interrupted

Bound == globals \in {"version3", "version4"}

\* fail(); the first reason stays.
Fail(reason) ==
  /\ failure' = IF failure = "none" THEN reason ELSE failure
  /\ running' = FALSE

\* A variant for mutation: an exit that was sent does not excuse the loss.
LoseConnectionAlways ==
  IF interrupted THEN UNCHANGED <<running, failure>> ELSE Fail("lost")

\* The compositor is gone: after exit_session that is what was asked for.
LoseConnection ==
  IF exitSent THEN running' = FALSE /\ UNCHANGED failure
  ELSE IF interrupted THEN UNCHANGED <<running, failure>>
  ELSE Fail("lost")

-----------------------------------------------------------------------------
(* The main thread: dispatch_once, then the release of the runtime         *)

\* A loop test, and the exit flag, which is consumed whatever the version.
Top ==
  /\ pc = "top"
  /\ IF Ended \/ globals = "missing"
     THEN /\ pc' = "cleanup"
          /\ IF Ended THEN UNCHANGED <<running, failure>> ELSE Fail("other")
          /\ UNCHANGED <<exitRequested, exitSent>>
     ELSE /\ pc' = "flush"
          /\ exitRequested' = (exitRequested /\ ~Bound)
          /\ exitSent' = (exitSent \/ (exitRequested /\ globals = "version4"))
          /\ UNCHANGED <<running, failure>>
  /\ UNCHANGED <<finished, interrupted, globals, connected, callbackFailed, status, confirmed,
                 workerVars, childVars>>

\* A variant for mutation: the flag is read at the top and cleared after.
FlushClearingFlag ==
  /\ pc = "flush"
  /\ pc' = IF Ended THEN "top" ELSE "poll"
  /\ exitRequested' = FALSE
  /\ UNCHANGED <<loopVars, exitSent, confirmed, workerVars, childVars>>

\* prepare_read, flush: a loss may be noticed here or by the read.
Flush ==
  /\ pc = "flush"
  /\ \/ /\ Ended /\ pc' = "top" /\ UNCHANGED <<running, failure>>
     \/ /\ ~Ended /\ pc' = "poll" /\ UNCHANGED <<running, failure>>
     \/ /\ ~Ended /\ ~connected /\ pc' = "top" /\ LoseConnection
  /\ UNCHANGED <<finished, interrupted, globals, connected, callbackFailed, status, exitVars,
                 workerVars, childVars>>

\* poll waits a tenth of a second; a connection that is gone is readable.
Poll ==
  /\ pc = "poll"
  /\ \/ (connected \/ interrupted) /\ pc' = "top"
     \/ ~interrupted /\ pc' = "read"
  /\ UNCHANGED <<loopVars, exitVars, workerVars, childVars>>

Read ==
  /\ pc = "read"
  /\ IF connected THEN pc' = "dispatch" /\ UNCHANGED <<running, failure>>
                  ELSE pc' = "top" /\ LoseConnection
  /\ UNCHANGED <<finished, interrupted, globals, connected, callbackFailed, status, exitVars,
                 workerVars, childVars>>

Dispatched ==
  /\ pc = "dispatch" /\ pc' = "top"
  /\ UNCHANGED <<loopVars, exitVars, workerVars, childVars>>

\* cleanup, restore_signal_handlers, and what runWithReload makes of the result.
Cleanup ==
  /\ pc = "cleanup" /\ pc' = "kill"
  /\ status' = IF callbackFailed \/ failure # "none" THEN "failure" ELSE "success"
  /\ UNCHANGED <<running, finished, interrupted, failure, globals, connected, callbackFailed,
                 exitVars, workerVars, childVars>>

\* A variant for mutation: the release only waits for the confirmation.
WaitForWorker ==
  /\ pc = "kill" /\ pc' = "gate"
  /\ UNCHANGED <<loopVars, exitVars, workerVars, childVars>>

\* killThread throws and then waits until the exception is received.
KillWorker ==
  /\ pc = "kill"
  /\ IF forked /\ worker # "done" THEN killPending' = TRUE /\ pc' = "killing"
                                  ELSE killPending' = FALSE /\ pc' = "gate"
  /\ UNCHANGED <<loopVars, exitVars, gate, forked, worker, childVars>>

WorkerKilled ==
  /\ pc = "killing"
  /\ ~killPending \/ worker = "done"
  /\ killPending' = FALSE
  /\ pc' = "gate"
  /\ UNCHANGED <<loopVars, exitVars, gate, forked, worker, childVars>>

\* A variant for mutation: the release ends with killThread.
ReleaseAtOnce ==
  /\ pc = "gate"
  /\ pc' = "returned"
  /\ UNCHANGED <<loopVars, exitVars, workerVars, childVars>>

\* readMVar confirmationGate: the thread has given the gate back.
Release ==
  /\ pc = "gate" /\ gate
  /\ pc' = "returned"
  /\ UNCHANGED <<loopVars, exitVars, workerVars, childVars>>

Main ==
  \/ Top \/ Flush \/ Poll \/ Read \/ Dispatched
  \/ Cleanup \/ KillWorker \/ WorkerKilled \/ Release

-----------------------------------------------------------------------------
(* Events the main thread dispatches                                       *)

\* The registry: both globals, one of them missing, or an older manager.
Discovered ==
  /\ pc = "dispatch" /\ globals = "unknown"
  /\ globals' \in {"version3", "version4", "missing"}
  /\ UNCHANGED <<pc, running, finished, interrupted, failure, connected, callbackFailed, status,
                 exitVars, workerVars, childVars>>

\* The policy runs: a manage sequence, no failure and no exception so far.
Managing == pc = "dispatch" /\ Bound /\ failure = "none" /\ ~callbackFailed /\ ~finished

\* execute ConfirmSessionExit: a second request is ignored while one is open.
ConfirmSessionExit ==
  /\ Managing /\ gate
  /\ gate' = FALSE /\ forked' = TRUE /\ worker' = "create"
  /\ child' = "none" /\ answer' = "none" /\ success' = FALSE
  /\ reaped' = FALSE /\ waiter' = FALSE
  /\ UNCHANGED <<pc, loopVars, exitVars, killPending>>

\* execute RestartRuntime: the process image is replaced, nothing is released.
Restart ==
  /\ Managing
  /\ pc' = "restarted"
  /\ UNCHANGED <<loopVars, exitVars, workerVars, childVars>>

CallbackFails ==
  /\ Managing
  /\ callbackFailed' = TRUE
  /\ UNCHANGED <<pc, running, finished, interrupted, failure, globals, connected, status,
                 exitVars, workerVars, childVars>>

\* manager_finished, after a stop; manager_unavailable and other refusals.
ManagerFinished ==
  /\ pc = "dispatch" /\ Bound /\ ~finished
  /\ finished' = TRUE /\ running' = FALSE
  /\ UNCHANGED <<pc, interrupted, failure, globals, connected, callbackFailed, status, exitVars,
                 workerVars, childVars>>

BridgeFails ==
  /\ pc = "dispatch"
  /\ Fail("other")
  /\ UNCHANGED <<pc, finished, interrupted, globals, connected, callbackFailed, status, exitVars,
                 workerVars, childVars>>

Event ==
  \/ Discovered \/ ConfirmSessionExit \/ Restart \/ CallbackFails
  \/ ManagerFinished \/ BridgeFails

-----------------------------------------------------------------------------
(* The confirmation thread                                                 *)

\* Where its code is unmasked: a pending exception can be received here.
Interruptible == {"create", "read", "wait", "decide", "closed"}

WorkerStep(from, to) == worker = from /\ worker' = to

CreateProcess ==
  /\ \/ WorkerStep("create", "read") /\ child' = "running"
     \/ WorkerStep("create", "give") /\ UNCHANGED child
  /\ UNCHANGED <<pc, loopVars, exitVars, gate, forked, killPending, answer, success, reaped,
                 waiter>>

\* The question is written and the answer read to its end, or a pipe fails.
ReadAnswer ==
  /\ \/ WorkerStep("read", "wait") /\ answer # "none"
     \/ WorkerStep("read", "stop")
  /\ UNCHANGED <<pc, loopVars, exitVars, gate, forked, killPending, childVars>>

WaitForProcess ==
  /\ WorkerStep("wait", "decide") /\ child = "dead"
  /\ reaped' = TRUE
  /\ UNCHANGED <<pc, loopVars, exitVars, gate, forked, killPending, child, answer, success,
                 waiter>>

\* A variant for mutation: the exit code of the child is not looked at.
AcceptedByAnswer == answer = "Exit"

Accepted == success /\ answer = "Exit"

Decide ==
  /\ WorkerStep("decide", "stop")
  /\ exitRequested' = (exitRequested \/ Accepted)
  /\ confirmed' = (confirmed \/ (child = "dead" /\ success /\ answer = "Exit"))
  /\ UNCHANGED <<pc, loopVars, exitSent, gate, forked, killPending, childVars>>

\* A variant for mutation: a child that has ended is left alone.
StopIfRunning ==
  /\ WorkerStep("stop", IF child = "dead" THEN "closed" ELSE "terminating")
  /\ UNCHANGED <<pc, loopVars, exitVars, gate, forked, killPending, childVars>>

\* The release of bracket: a child that was reaped gets no signal, another
\* gets SIGTERM, then SIGKILL, and is polled for a second.
StopConfirmation ==
  /\ WorkerStep("stop", IF reaped THEN "closed" ELSE "terminating")
  /\ UNCHANGED <<pc, loopVars, exitVars, gate, forked, killPending, childVars>>

Escalate ==
  /\ WorkerStep("terminating", "polling")
  /\ UNCHANGED <<pc, loopVars, exitVars, gate, forked, killPending, childVars>>

PollExit ==
  /\ WorkerStep("polling", "closed")
  /\ reaped' = (child = "dead")
  /\ waiter' = (child # "dead")
  /\ UNCHANGED <<pc, loopVars, exitVars, gate, forked, killPending, child, answer, success>>

BracketLeft ==
  /\ WorkerStep("closed", "give")
  /\ UNCHANGED <<pc, loopVars, exitVars, gate, forked, killPending, childVars>>

\* The exception is received: a child that was started is stopped first.
ReceiveKill ==
  /\ killPending /\ worker \in Interruptible
  /\ killPending' = FALSE
  /\ worker' = IF worker \in {"create", "closed"} THEN "give" ELSE "stop"
  /\ UNCHANGED <<pc, loopVars, exitVars, gate, forked, childVars>>

\* putMVar, in finally.
GiveGate ==
  /\ WorkerStep("give", "done")
  /\ gate' = TRUE
  /\ UNCHANGED <<pc, loopVars, exitVars, forked, killPending, childVars>>

\* The thread ends with the process image.
Worker ==
  /\ pc # "restarted"
  /\ \/ CreateProcess \/ ReadAnswer \/ WaitForProcess \/ Decide
     \/ StopConfirmation \/ Escalate \/ PollExit \/ BracketLeft
     \/ ReceiveKill \/ GiveGate

-----------------------------------------------------------------------------
(* The child and the rest of the world                                     *)

\* Its output ends, perhaps after its own end, if a descendant held the pipe.
ChildAnswers ==
  /\ child # "none" /\ answer = "none"
  /\ answer' \in {"Exit", "other"}
  /\ UNCHANGED <<pc, loopVars, exitVars, workerVars, child, success, reaped, waiter>>

ChildExits ==
  /\ child = "running"
  /\ child' = "dead"
  /\ success' \in BOOLEAN
  /\ UNCHANGED <<pc, loopVars, exitVars, workerVars, answer, reaped, waiter>>

\* SIGINT or SIGTERM while the handlers are installed.
Signal ==
  /\ pc \in {"top", "flush", "poll", "read", "dispatch", "cleanup"}
  /\ interrupted' = TRUE
  /\ UNCHANGED <<pc, running, finished, failure, globals, connected, callbackFailed, status,
                 exitVars, workerVars, childVars>>

CompositorGone ==
  /\ connected /\ connected' = FALSE
  /\ UNCHANGED <<pc, running, finished, interrupted, failure, globals, callbackFailed, status,
                 exitVars, workerVars, childVars>>

World == ChildAnswers \/ ChildExits \/ Signal \/ CompositorGone

Next == Main \/ Event \/ Worker \/ World

Spec == Init /\ [][Next]_vars

\* Both threads run, poll and the waits of stopConfirmation are bounded, and
\* what was read in one go is dispatched in finite time. Nothing is assumed
\* of the child: it may never answer and ignore every signal.
FairSpec == Spec /\ WF_vars(Main) /\ WF_vars(Worker)

-----------------------------------------------------------------------------
(* Properties *)

PlacesOK ==
  /\ pc \in {"top", "flush", "poll", "read", "dispatch", "cleanup", "kill", "killing", "gate",
             "returned", "restarted"}
  /\ failure \in {"none", "lost", "other"}
  /\ globals \in {"unknown", "version3", "version4", "missing"}
  /\ status \in {"none", "success", "failure"}
  /\ worker \in Interruptible \cup {"none", "stop", "terminating", "polling", "give", "done"}
  /\ child \in {"none", "running", "dead"} /\ answer \in {"none", "Exit", "other"}

FlagsOK ==
  /\ running \in BOOLEAN /\ finished \in BOOLEAN /\ interrupted \in BOOLEAN
  /\ connected \in BOOLEAN /\ callbackFailed \in BOOLEAN
  /\ exitRequested \in BOOLEAN /\ exitSent \in BOOLEAN /\ confirmed \in BOOLEAN
  /\ gate \in BOOLEAN /\ forked \in BOOLEAN /\ killPending \in BOOLEAN
  /\ success \in BOOLEAN /\ reaped \in BOOLEAN /\ waiter \in BOOLEAN

\* Every variable has its type.
TypeOK == PlacesOK /\ FlagsOK

\* The inductive invariant. The gate is empty exactly while a thread has it;
\* a thread past its child has it reaped or handed on; an exception is only
\* waited for in one place; a lost connection fails before an exit is sent.
GateKnown ==
  /\ gate <=> worker \in {"none", "done"}
  /\ forked <=> worker # "none"
  /\ killPending => pc = "killing"
  /\ pc = "returned" => gate

ChildKnown ==
  /\ worker = "create" => child = "none"
  /\ worker \in {"read", "wait", "decide", "stop", "terminating", "polling"} => child # "none"
  /\ worker = "decide" => child = "dead" /\ reaped
  /\ worker \in {"none", "closed", "give", "done"} /\ child # "none" => reaped \/ waiter

ExitKnown ==
  /\ exitRequested \/ exitSent => confirmed
  /\ failure = "lost" => ~exitSent
  /\ status = "failure" => callbackFailed \/ failure # "none"

ShutdownInv == TypeOK /\ GateKnown /\ ChildKnown /\ ExitKnown

\* When runWithReload returns, no confirmation thread can touch the runtime or
\* the bridge any more and its child is reaped or left to a thread that reaps
\* it, wherever the exception found the thread.
NoConfirmationSurvives ==
  pc = "returned" => /\ worker \in {"none", "done"} /\ gate
                     /\ child # "none" => reaped \/ waiter

\* The session ends only after a child has answered Exit and succeeded, never
\* by an answer that was cut short, a failed child or a killed confirmation.
ExitOnlyConfirmed == exitRequested \/ exitSent => confirmed

\* Once the compositor was told to end the session its leaving is no failure:
\* the exit status is a success unless something else went wrong.
ExitIsNoFailure ==
  exitSent /\ status = "failure" => callbackFailed \/ failure = "other"

\* A signal, a failure or the end of the manager object ends the process,
\* whatever the confirmation and its child are doing.
ManagerReturns == Ended ~> pc \in {"returned", "restarted"}

\* A confirmed exit reaches a compositor that can take it, also when it comes
\* while the main thread waits in poll.
ConfirmedExitIsSent ==
  exitRequested /\ globals = "version4" ~> exitSent \/ Ended \/ pc = "restarted"

\* The manager as module Session sees it. The gate is empty while a
\* confirmation is open; a return or a restart is where runWithReload is left.
Manager ==
  IF pc \in {"cleanup", "kill", "killing", "gate"} THEN "ending"
  ELSE IF pc = "returned" THEN "returned"
  ELSE IF pc = "restarted" THEN "replaced"
  ELSE "working"

Promise == INSTANCE Session WITH
  manager <- Manager, confirmation <- ~gate, granted <- confirmed, ended <- exitSent

\* The end of the manager keeps the promise of module Session: with two
\* threads, a child, signals and a lost connection, every step opens or closes
\* a confirmation, grants or sends the exit, leaves, or returns with no
\* confirmation open, or is none of the promise's business.
KeepsPromise == Promise!Spec

=============================================================================
