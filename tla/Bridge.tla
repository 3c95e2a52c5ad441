------------------------------- MODULE Bridge -------------------------------
(***************************************************************************)
(* The Wayland side of the manager, cbits/bridge.c: it records what the    *)
(* compositor sends between two sequences, publishes it to the policy when *)
(* a manage sequence starts, and turns the policy's answer into requests.  *)
(*                                                                         *)
(* A handler runs to its end before the next one, so every compositor      *)
(* event is one action; manage_start, which calls the policy many times,   *)
(* is one action per call or group of calls, "at" saying where it stands.  *)
(*                                                                         *)
(* The policy (Runtime.hs and Policy.hs) is reduced to what the bridge can *)
(* tell: the windows it was told of, the lock, the binding mode, whether a *)
(* pointer operation is on and the effects pending. Where module Policy    *)
(* decides by focus or geometry, every outcome it may have is allowed.     *)
(*                                                                         *)
(* The compositor keeps to the protocol: a manage sequence is answered by  *)
(* a render sequence before the next one starts. Outputs appear here only  *)
(* as changes that cancel a pointer operation.                             *)
(***************************************************************************)
EXTENDS Integers, Sequences, FiniteSets

CONSTANTS
  MaxId,      \* the last identifier new_id can give: UINT32_MAX in the code
  Modes,      \* binding modes
  MaxQueue,   \* bound on the inputs of one batch; the code has none
  Kinds       \* the kinds of event this instance feeds

ASSUME BridgeAssumption ==
  /\ MaxId \in Nat
  /\ {"normal", "picker"} \subseteq Modes
  /\ "none" \notin Modes
  /\ MaxQueue \in Nat

VARIABLES
  nextId,          \* the last identifier given
  windows,         \* identifiers of the window records
  closed,          \* those the compositor has closed
  announced,       \* those published with event 3
  parent,          \* parent_id of each window
  parentDirty,     \* windows whose parent is to be published
  seats,           \* identifiers of the seat records, oldest smallest
  removedSeats,
  configured,      \* seats with key bindings
  primary,         \* the seat that counts, 0 if none
  exclusive,       \* seats whose keyboard a layer surface holds for itself,
  onDemand,        \*   or holds until the user clicks elsewhere
  override,        \* layer_focus_override of the primary seat
  queue,           \* inputs waiting for the next manage sequence
  locked, lockChanged,
  pointer,         \* the operation the compositor was asked to start
  deltaPending, releasePending,
  cancelBatch,     \* pointer_cancel_batch
  bindingMode,     \* the mode last asked for
  armed,           \* the mode whose keys are enabled, "none" if no key is
  focus,           \* the window of the last focus request, 0 if cleared
  at,              \* the place in the handler that runs, or "idle"
  managed, awaitingRender,
  stopRequested, stopSent, finished,
  failure,         \* why fail() was called, "none" if it was not
  callbackFailed,  \* an exception was contained; the policy is frozen
  wmWindows, wmLocked, wmMode, wmOperation,    \* what the policy knows
  effects,         \* effects executed at the end of event 7
  disturbed        \* history: a lock, output, panel or exclusive layer came

lifecycleVars == <<nextId, windows, closed, announced, parent, parentDirty>>
seatVars == <<seats, removedSeats, configured, primary, exclusive, onDemand>>
lockVars == <<locked, lockChanged>>
pointerVars == <<pointer, deltaPending, releasePending, cancelBatch, disturbed>>
keyVars == <<bindingMode, armed, focus>>
phaseVars == <<managed, awaitingRender>>
stopVars == <<stopRequested, stopSent, finished, failure, callbackFailed>>
wmVars == <<wmWindows, wmLocked, wmMode, wmOperation, effects>>

vars == <<lifecycleVars, seatVars, override, queue, lockVars, pointerVars, keyVars, at,
          phaseVars, stopVars, wmVars>>

-----------------------------------------------------------------------------

Ids == 1 .. MaxId
NoOperation == [seat |-> 0, window |-> 0]
Operations == [seat : Ids, window : Ids] \cup {NoOperation}
Inputs == [kind : {"click", "key", "press"}, seat : Ids, window : Ids \cup {0}, mode : Modes]
Effects == {"stop", "reload"}
ManageSteps == {"lock", "closed", "announce", "parents", "seats", "cancel", "inputs",
                "deltas", "apply", "effects", "finish"}
Steps == ManageSteps \cup {"idle", "render"}
Failures == {"none", "ids", "replace"}

\* Records find_window finds.
Live == windows \ closed

Init ==
  /\ nextId = 0
  /\ windows = {} /\ closed = {} /\ announced = {} /\ parentDirty = {}
  /\ parent = [w \in Ids |-> 0]
  /\ seats = {} /\ removedSeats = {} /\ configured = {} /\ primary = 0
  /\ exclusive = {} /\ onDemand = {} /\ override = FALSE
  /\ queue = <<>>
  /\ locked = FALSE /\ lockChanged = FALSE
  /\ pointer = NoOperation /\ deltaPending = FALSE /\ releasePending = FALSE
  /\ cancelBatch = FALSE /\ disturbed = FALSE
  /\ bindingMode = "normal" /\ armed = "none" /\ focus = 0
  /\ at = "idle" /\ managed = FALSE /\ awaitingRender = FALSE
  /\ stopRequested = FALSE /\ stopSent = FALSE /\ finished = FALSE
  /\ failure = "none" /\ callbackFailed = FALSE
  /\ wmWindows = {} /\ wmLocked = FALSE /\ wmMode = "normal"
  /\ wmOperation = NoOperation /\ effects = {}

-----------------------------------------------------------------------------
(* Events of the compositor. The loop takes none after a failure or after  *)
(* finished; what the rest of a batch still changes is then only freed.    *)

Idle == at = "idle" /\ failure = "none" /\ ~finished

\* new_id: the record of an identifier that cannot be given never matters.
IdsExhausted ==
  /\ Idle /\ nextId = MaxId
  /\ failure' = "ids"
  /\ UNCHANGED <<lifecycleVars, seatVars, override, queue, lockVars, pointerVars, keyVars, at,
                 phaseVars, stopRequested, stopSent, finished, callbackFailed, wmVars>>

WindowCreated ==
  /\ Idle /\ nextId < MaxId
  /\ nextId' = nextId + 1
  /\ windows' = windows \cup {nextId'}
  /\ UNCHANGED <<closed, announced, parent, parentDirty, seatVars, override, queue, lockVars,
                 pointerVars, keyVars, at, phaseVars, stopVars, wmVars>>

WindowClosed(w) ==
  /\ Idle /\ w \in Live
  /\ closed' = closed \cup {w}
  /\ UNCHANGED <<nextId, windows, announced, parent, parentDirty, seatVars, override, queue,
                 lockVars, pointerVars, keyVars, at, phaseVars, stopVars, wmVars>>

\* window_parent: the proxy is resolved among the live records at once.
ParentSet(w, p) ==
  /\ Idle /\ w \in Live /\ p \in (Live \ {w}) \cup {0}
  /\ parent' = [parent EXCEPT ![w] = p]
  /\ parentDirty' = parentDirty \cup {w}
  /\ UNCHANGED <<nextId, windows, closed, announced, seatVars, override, queue, lockVars,
                 pointerVars, keyVars, at, phaseVars, stopVars, wmVars>>

SeatCreated ==
  /\ Idle /\ nextId < MaxId
  /\ nextId' = nextId + 1
  /\ seats' = seats \cup {nextId'}
  /\ primary' = IF primary = 0 THEN nextId' ELSE primary
  /\ UNCHANGED <<windows, closed, announced, parent, parentDirty, removedSeats, configured,
                 exclusive, onDemand, override, queue, lockVars, pointerVars, keyVars, at,
                 phaseVars, stopVars, wmVars>>

SeatRemoved(s) ==
  /\ Idle /\ s \in seats \ removedSeats
  /\ removedSeats' = removedSeats \cup {s}
  /\ UNCHANGED <<lifecycleVars, seats, configured, primary, exclusive, onDemand, override,
                 queue, lockVars, pointerVars, keyVars, at, phaseVars, stopVars, wmVars>>

LayerExclusive(s) ==
  /\ Idle /\ s \in seats \ removedSeats
  /\ exclusive' = exclusive \cup {s}
  /\ onDemand' = onDemand \ {s}
  /\ cancelBatch' = (cancelBatch \/ s = primary)
  /\ disturbed' = (disturbed \/ s = primary)
  /\ UNCHANGED <<lifecycleVars, seats, removedSeats, configured, primary, override, queue,
                 lockVars, pointer, deltaPending, releasePending, keyVars, at, phaseVars,
                 stopVars, wmVars>>

\* layer_focus_non_exclusive and layer_focus_none.
LayerShared(s, some) ==
  /\ Idle /\ s \in seats \ removedSeats
  /\ exclusive' = exclusive \ {s}
  /\ onDemand' = IF some THEN onDemand \cup {s} ELSE onDemand \ {s}
  /\ UNCHANGED <<lifecycleVars, seats, removedSeats, configured, primary, override, queue,
                 lockVars, pointerVars, keyVars, at, phaseVars, stopVars, wmVars>>

\* An output left, moved or was resized, or a panel changed its work area.
TopologyChanged ==
  /\ Idle
  /\ cancelBatch' = TRUE
  /\ disturbed' = TRUE
  /\ UNCHANGED <<lifecycleVars, seatVars, override, queue, lockVars, pointer, deltaPending,
                 releasePending, keyVars, at, phaseVars, stopVars, wmVars>>

\* A variant for mutation: a lock is remembered as a state only.
SessionLockedOnly ==
  /\ Idle
  /\ locked' = TRUE /\ lockChanged' = TRUE
  /\ disturbed' = TRUE
  /\ UNCHANGED <<lifecycleVars, seatVars, override, queue, pointer, deltaPending,
                 releasePending, cancelBatch, keyVars, at, phaseVars, stopVars, wmVars>>

SessionLocked ==
  /\ Idle
  /\ locked' = TRUE /\ lockChanged' = TRUE
  /\ cancelBatch' = TRUE
  /\ disturbed' = TRUE
  /\ UNCHANGED <<lifecycleVars, seatVars, override, queue, pointer, deltaPending,
                 releasePending, keyVars, at, phaseVars, stopVars, wmVars>>

SessionUnlocked ==
  /\ Idle
  /\ locked' = FALSE /\ lockChanged' = TRUE
  /\ UNCHANGED <<lifecycleVars, seatVars, override, queue, pointerVars, keyVars, at, phaseVars,
                 stopVars, wmVars>>

\* queue_input and queue_pointer; inputs they drop leave nothing behind.
Enqueue(input) ==
  /\ Len(queue) < MaxQueue
  /\ queue' = Append(queue, input)
  /\ UNCHANGED <<lifecycleVars, seatVars, override, lockVars, pointerVars, keyVars, at,
                 phaseVars, stopVars, wmVars>>

Listening(s) == Idle /\ ~locked /\ s = primary /\ s \in seats \ removedSeats

\* A key of any mode: a disabled binding may have been pressed in time.
KeyPressed(s, mode) ==
  /\ Listening(s) /\ s \in configured
  /\ Enqueue([kind |-> "key", seat |-> s, window |-> 0, mode |-> mode])

Clicked(s, w) ==
  /\ Listening(s) /\ w \in Live
  /\ Enqueue([kind |-> "click", seat |-> s, window |-> w, mode |-> "normal"])

\* A variant for mutation: a press is queued while an operation is on.
ButtonPressedAgain(s, w) ==
  /\ Listening(s) /\ w \in Live /\ s \notin exclusive
  /\ Enqueue([kind |-> "press", seat |-> s, window |-> w, mode |-> "normal"])

\* A pointer binding over w, or a client that asks to be moved or resized.
ButtonPressed(s, w) ==
  /\ Listening(s) /\ w \in Live
  /\ pointer = NoOperation /\ s \notin exclusive
  /\ Enqueue([kind |-> "press", seat |-> s, window |-> w, mode |-> "normal"])

PointerMoved(s) ==
  /\ Idle /\ s \in seats \ removedSeats /\ s = pointer.seat
  /\ deltaPending' = TRUE
  /\ UNCHANGED <<lifecycleVars, seatVars, override, queue, lockVars, pointer, releasePending,
                 cancelBatch, disturbed, keyVars, at, phaseVars, stopVars, wmVars>>

ButtonsReleased(s) ==
  /\ Idle /\ s \in seats \ removedSeats /\ s = pointer.seat
  /\ releasePending' = TRUE
  /\ UNCHANGED <<lifecycleVars, seatVars, override, queue, lockVars, pointer, deltaPending,
                 cancelBatch, disturbed, keyVars, at, phaseVars, stopVars, wmVars>>

\* The compositor answers a stop request.
ManagerFinished ==
  /\ Idle /\ stopSent
  /\ finished' = TRUE
  /\ UNCHANGED <<lifecycleVars, seatVars, override, queue, lockVars, pointerVars, keyVars, at,
                 phaseVars, stopRequested, stopSent, failure, callbackFailed, wmVars>>

-----------------------------------------------------------------------------
(* The policy's side of a call: frozen after a contained exception         *)

\* Any event may end an operation: the policy validates it after each one.
MayEndOperation ==
  wmOperation' \in IF callbackFailed THEN {wmOperation} ELSE {wmOperation, NoOperation}

\* Event 24, or 23 for a release, from one of the seats S.
EndOperationOf(S) ==
  wmOperation' = IF ~callbackFailed /\ wmOperation.seat \in S THEN NoOperation ELSE wmOperation

\* xw_event's handler: containFailure logs, remembers and asks to stop.
CallbackFails ==
  /\ at # "idle" /\ ~callbackFailed
  /\ callbackFailed' = TRUE
  /\ stopRequested' = TRUE
  /\ UNCHANGED <<lifecycleVars, seatVars, override, queue, lockVars, pointerVars, keyVars, at,
                 phaseVars, stopSent, finished, failure, wmVars>>

-----------------------------------------------------------------------------
(* The manage sequence *)

ManageStart ==
  /\ Idle /\ ~awaitingRender
  /\ at' = "lock"
  /\ UNCHANGED <<lifecycleVars, seatVars, override, queue, lockVars, pointerVars, keyVars,
                 phaseVars, stopVars, wmVars>>

\* Events 9 and 10; a lock ends the operation and the mode.
PublishLock ==
  /\ at = "lock" /\ at' = "closed"
  /\ lockChanged' = FALSE
  /\ IF lockChanged /\ ~callbackFailed
     THEN /\ wmLocked' = locked
          /\ wmMode' = IF locked THEN "normal" ELSE wmMode
          /\ wmOperation' = IF locked THEN NoOperation ELSE wmOperation
     ELSE UNCHANGED <<wmLocked, wmMode, wmOperation>>
  /\ UNCHANGED <<lifecycleVars, seatVars, override, queue, locked, pointerVars, keyVars,
                 phaseVars, stopVars, wmWindows, effects>>

\* A variant for mutation: the record is freed and the policy not told.
RemoveClosedSilently ==
  /\ at = "closed" /\ at' = "announce"
  /\ windows' = Live
  /\ announced' = announced \ closed
  /\ parentDirty' = parentDirty \ closed
  /\ closed' = {}
  /\ UNCHANGED <<nextId, parent, seatVars, override, queue, lockVars, pointerVars, keyVars,
                 phaseVars, stopVars, wmVars>>

\* Event 4 for every closed window the policy was told of.
RemoveClosed ==
  /\ at = "closed" /\ at' = "announce"
  /\ windows' = Live
  /\ announced' = announced \ closed
  /\ parentDirty' = parentDirty \ closed
  /\ closed' = {}
  /\ wmWindows' = IF callbackFailed THEN wmWindows ELSE wmWindows \ (closed \cap announced)
  /\ MayEndOperation
  /\ wmOperation'.window \notin closed \/ callbackFailed
  /\ UNCHANGED <<nextId, parent, seatVars, override, queue, lockVars, pointerVars, keyVars,
                 phaseVars, stopVars, wmLocked, wmMode, effects>>

\* A variant for mutation: one window is announced before its parent is published.
AnnounceOne ==
  /\ at = "announce" /\ at' = "parents"
  /\ \E w \in windows : /\ announced' = announced \cup {w}
                        /\ wmWindows' = IF callbackFailed THEN wmWindows ELSE wmWindows \cup {w}
  /\ UNCHANGED <<nextId, windows, closed, parent, parentDirty, seatVars, override, queue,
                 lockVars, pointerVars, keyVars, phaseVars, stopVars, wmLocked, wmMode,
                 wmOperation, effects>>

\* Event 3 for every new window.
Announce ==
  /\ at = "announce" /\ at' = "parents"
  /\ announced' = windows
  /\ wmWindows' = IF callbackFailed THEN wmWindows ELSE wmWindows \cup (windows \ announced)
  /\ IF windows \subseteq announced THEN UNCHANGED wmOperation ELSE MayEndOperation
  /\ UNCHANGED <<nextId, windows, closed, parent, parentDirty, seatVars, override, queue,
                 lockVars, pointerVars, keyVars, phaseVars, stopVars, wmLocked, wmMode, effects>>

\* Events 11, 12, 13, 26 and 27 of one window: what clients said of it.
PublishParent(w) ==
  /\ at = "parents" /\ w \in parentDirty
  /\ parentDirty' = parentDirty \ {w}
  /\ MayEndOperation
  /\ UNCHANGED <<nextId, windows, closed, announced, parent, seatVars, override, queue,
                 lockVars, pointerVars, keyVars, at, phaseVars, stopVars, wmWindows, wmLocked,
                 wmMode, effects>>

ParentsPublished ==
  /\ at = "parents" /\ parentDirty = {} /\ at' = "seats"
  /\ UNCHANGED <<lifecycleVars, seatVars, override, queue, lockVars, pointerVars, keyVars,
                 phaseVars, stopVars, wmVars>>

\* The head of the list of seats, which grows at its end: the oldest, or null.
HeadOf(S) == IF S = {} THEN {0} ELSE {s \in S : \A t \in S : s <= t}

\* A variant for mutation: the lock is left to the policy's mode.
SetBindingModeAlways(mode) ==
  /\ bindingMode' = mode
  /\ armed' = IF primary' \in configured' THEN mode ELSE "none"

\* xw_set_binding_mode: keys of the mode on the primary seat, none when locked.
SetBindingMode(mode) ==
  /\ bindingMode' = mode
  /\ armed' = IF primary' \in configured' /\ ~locked THEN mode ELSE "none"

\* configure_seat: the policy creates the key bindings of s, all disabled.
ConfigureSeat(s) ==
  configured' = (configured \ removedSeats) \cup (IF callbackFailed THEN {} ELSE {s} \ {0})

\* xw_reset_bindings and the arming that follows it in the reload.
ReloadBindings ==
  UNCHANGED <<primary, configured>> /\ SetBindingMode(wmMode)

\* Event 24 for every removed seat; the oldest seat left becomes primary and
\* is configured.
UpdateSeats ==
  /\ at = "seats" /\ at' = "cancel"
  /\ seats' = seats \ removedSeats
  /\ removedSeats' = {}
  /\ exclusive' = exclusive \ removedSeats
  /\ onDemand' = onDemand \ removedSeats
  /\ primary' \in IF primary \in seats' THEN {primary} ELSE HeadOf(seats')
  /\ ConfigureSeat(primary')
  /\ override' = (override /\ primary' = primary)
  /\ focus' = IF primary' = primary THEN focus ELSE 0
  /\ SetBindingMode(bindingMode)
  /\ EndOperationOf(removedSeats)
  /\ UNCHANGED <<lifecycleVars, queue, lockVars, pointerVars, phaseVars, stopVars, wmWindows,
                 wmLocked, wmMode, effects>>

\* The test before the input is drained.
CancelPointer ==
  /\ at = "cancel" /\ at' = "inputs"
  /\ IF /\ pointer # NoOperation
        /\ \/ cancelBatch
           \/ locked
           \/ primary # pointer.seat
           \/ primary \in exclusive
     THEN EndOperationOf({pointer.seat})
     ELSE UNCHANGED wmOperation
  /\ override' = FALSE
  /\ UNCHANGED <<lifecycleVars, seatVars, queue, lockVars, pointerVars, keyVars, phaseVars,
                 stopVars, wmWindows, wmLocked, wmMode, effects>>

\* What the policy makes of an input. A key counts in the mode of its
\* binding only; a press cancels an open picker before it can drag anything.
PolicyTakes(input) ==
  CASE input.kind = "click" -> MayEndOperation /\ UNCHANGED <<wmMode, effects>>
    [] input.kind = "press" ->
         /\ UNCHANGED effects
         /\ IF wmMode = "picker"
            THEN wmMode' = "normal" /\ UNCHANGED wmOperation
            ELSE /\ UNCHANGED wmMode
                 /\ \/ UNCHANGED wmOperation
                    \/ /\ wmOperation = NoOperation /\ ~wmLocked /\ input.window \in wmWindows
                       /\ wmOperation' = [seat |-> input.seat, window |-> input.window]
    [] input.kind = "key" ->
         IF input.mode # wmMode \/ wmLocked THEN UNCHANGED <<wmMode, wmOperation, effects>>
         ELSE /\ MayEndOperation
              /\ wmMode' \in Modes
              /\ \/ UNCHANGED effects
                 \/ wmMode' = wmMode /\ \E e \in Effects : effects' = effects \cup {e}

\* Variants for mutation: a press is dragged in a cancelled batch, or input of
\* a seat that is gone is taken for that of the primary one.
DeliveredInBatch(input) ==
  ~locked /\ primary # 0 /\ input.seat = primary /\ (input.kind = "key" \/ input.window \in Live)

DeliveredFromAnySeat(input) ==
  /\ ~locked /\ primary # 0
  /\ input.kind = "key" \/ input.window \in Live
  /\ input.kind = "press" => ~cancelBatch /\ primary \notin exclusive

\* An input is delivered when its seat is still the one that counts, its
\* window lives and nothing in the batch cancels pointer operations.
Delivered(input) ==
  /\ ~locked
  /\ primary # 0 /\ input.seat = primary
  /\ input.kind = "key" \/ input.window \in Live
  /\ input.kind = "press" => ~cancelBatch /\ primary \notin exclusive

DrainInput ==
  /\ at = "inputs" /\ queue # <<>>
  /\ queue' = Tail(queue)
  /\ IF Delivered(Head(queue))
     THEN /\ override' = (override \/ primary \in onDemand)
          /\ IF callbackFailed THEN UNCHANGED <<wmMode, wmOperation, effects>>
                               ELSE PolicyTakes(Head(queue))
     ELSE UNCHANGED <<override, wmMode, wmOperation, effects>>
  /\ UNCHANGED <<lifecycleVars, seatVars, lockVars, pointerVars, keyVars, at, phaseVars,
                 stopVars, wmWindows, wmLocked>>

InputDrained ==
  /\ at = "inputs" /\ queue = <<>> /\ at' = "deltas"
  /\ UNCHANGED <<lifecycleVars, seatVars, override, queue, lockVars, pointerVars, keyVars,
                 phaseVars, stopVars, wmVars>>

\* Events 22 and 23 of the primary seat, the newest movement before a release.
PublishDeltas ==
  /\ at = "deltas" /\ at' = "apply"
  /\ cancelBatch' = FALSE
  /\ IF primary # 0 /\ pointer.seat = primary
     THEN /\ deltaPending' = FALSE /\ releasePending' = FALSE
          /\ IF releasePending THEN EndOperationOf({primary})
             ELSE IF deltaPending THEN MayEndOperation
             ELSE UNCHANGED wmOperation
     ELSE UNCHANGED <<deltaPending, releasePending, wmOperation>>
  /\ UNCHANGED <<lifecycleVars, seatVars, override, queue, lockVars, pointer, disturbed, keyVars,
                 phaseVars, stopVars, wmWindows, wmLocked, wmMode, effects>>

\* xw_set_pointer_operation: an operation is started or ended, never replaced
\* in one sequence; a start that cannot be is dropped without a word.
SetPointerOperation(op) ==
  IF op = pointer THEN UNCHANGED <<pointer, deltaPending, releasePending, failure>>
  ELSE IF pointer # NoOperation
  THEN /\ pointer' = NoOperation
       /\ IF pointer.seat \in seats
          THEN deltaPending' = FALSE /\ releasePending' = FALSE
          ELSE UNCHANGED <<deltaPending, releasePending>>
       /\ failure' = IF op = NoOperation THEN failure ELSE "replace"
  ELSE IF op.seat # primary \/ op.window \notin Live \/ locked \/ primary \in exclusive
  THEN UNCHANGED <<pointer, deltaPending, releasePending, failure>>
  ELSE /\ pointer' = op
       /\ deltaPending' = FALSE /\ releasePending' = FALSE
       /\ UNCHANGED failure

LayerHasFocus == primary \in exclusive \cup onDemand /\ ~override

\* A variant for mutation: a layer's focus counts in a locked session too.
SetFocusUnderLayer(w) ==
  focus' = IF primary = 0 \/ LayerHasFocus THEN focus
           ELSE IF w \in Live /\ ~locked THEN w
           ELSE 0

\* xw_focus; the policy has no focused window while it believes in a lock.
SetFocus(w) ==
  focus' = IF primary = 0 \/ (~locked /\ LayerHasFocus) THEN focus
           ELSE IF w \in Live /\ ~locked THEN w
           ELSE 0

\* Event 7, first part: applyPolicy.
ApplyPolicy ==
  /\ at = "apply" /\ at' = "effects"
  /\ IF callbackFailed
     THEN UNCHANGED <<keyVars, pointer, deltaPending, releasePending, failure>>
     ELSE /\ SetPointerOperation(wmOperation)
          /\ \E w \in (IF wmLocked THEN {} ELSE wmWindows) \cup {0} : SetFocus(w)
          /\ UNCHANGED <<primary, configured>>
          /\ SetBindingMode(wmMode)
  /\ UNCHANGED <<lifecycleVars, seatVars, override, queue, lockVars, cancelBatch, disturbed,
                 phaseVars, stopRequested, stopSent, finished, callbackFailed, wmVars>>

\* Event 7, second part: the effects. A reload destroys and creates the key
\* bindings of the primary seat and arms the policy's mode again.
ExecuteEffects ==
  /\ at = "effects" /\ at' = "finish"
  /\ IF callbackFailed THEN UNCHANGED <<effects, stopRequested, bindingMode, armed>>
     ELSE /\ effects' = {}
          /\ stopRequested' = (stopRequested \/ "stop" \in effects)
          /\ IF "reload" \in effects THEN ReloadBindings
                                     ELSE UNCHANGED <<seatVars, bindingMode, armed>>
  /\ UNCHANGED <<lifecycleVars, seatVars, override, queue, lockVars, pointerVars, focus,
                 phaseVars, stopSent, finished, failure, callbackFailed, wmWindows, wmLocked,
                 wmMode, wmOperation>>

\* A variant for mutation: the stop waits for a render sequence.
SendStopAfterRender ==
  stopSent' = (stopSent \/ (stopRequested /\ awaitingRender /\ ~finished /\ failure = "none"))

\* send_stop: never inside a sequence, once, and not to a manager that is gone.
SendStop ==
  stopSent' = (stopSent \/ (stopRequested /\ ~finished /\ failure = "none"))

ManageFinish ==
  /\ at = "finish" /\ at' = "idle"
  /\ managed' = (managed \/ failure = "none")
  /\ awaitingRender' = (awaitingRender \/ failure = "none")
  /\ disturbed' = FALSE
  /\ SendStop
  /\ UNCHANGED <<lifecycleVars, seatVars, override, queue, lockVars, pointer, deltaPending,
                 releasePending, cancelBatch, keyVars, stopRequested, finished, failure,
                 callbackFailed, wmVars>>

-----------------------------------------------------------------------------
(* The render sequence: sizes are published and positions corrected        *)

RenderStart ==
  /\ Idle /\ managed
  /\ at' = "render"
  /\ UNCHANGED <<lifecycleVars, seatVars, override, queue, lockVars, pointerVars, keyVars,
                 phaseVars, stopVars, wmVars>>

RenderFinish ==
  /\ at = "render" /\ at' = "idle"
  /\ awaitingRender' = FALSE
  /\ SendStop
  /\ UNCHANGED <<lifecycleVars, seatVars, override, queue, lockVars, pointerVars, keyVars,
                 managed, stopRequested, finished, failure, callbackFailed, wmVars>>

-----------------------------------------------------------------------------

\* What the compositor may send, by kind.
Lifecycle ==
  \/ IdsExhausted \/ WindowCreated \/ SeatCreated \/ ManagerFinished
  \/ \E w \in Ids : WindowClosed(w)

SetParent == \E w \in Ids, p \in Ids \cup {0} : ParentSet(w, p)

RemoveSeat == \E s \in Ids : SeatRemoved(s)

ChangeLayer ==
  \E s \in Ids : LayerExclusive(s) \/ \E some \in BOOLEAN : LayerShared(s, some)

LockSession == SessionLocked \/ SessionUnlocked

PressKey == \E s \in Ids, mode \in Modes : KeyPressed(s, mode)

Click == \E s \in Ids, w \in Ids : Clicked(s, w)

UsePointer ==
  \E s \in Ids : \/ \E w \in Ids : ButtonPressed(s, w)
                \/ PointerMoved(s) \/ ButtonsReleased(s)

Compositor ==
  \/ Lifecycle \/ ManageStart \/ RenderStart
  \/ "parents" \in Kinds /\ SetParent
  \/ "seats" \in Kinds /\ RemoveSeat
  \/ "layers" \in Kinds /\ ChangeLayer
  \/ "outputs" \in Kinds /\ TopologyChanged
  \/ "lock" \in Kinds /\ LockSession
  \/ "keys" \in Kinds /\ PressKey
  \/ "clicks" \in Kinds /\ Click
  \/ "pointer" \in Kinds /\ UsePointer

\* One step of the handler that runs.
Handler ==
  \/ PublishLock \/ RemoveClosed \/ Announce
  \/ \E w \in Ids : PublishParent(w)
  \/ ParentsPublished \/ UpdateSeats \/ CancelPointer \/ DrainInput \/ InputDrained
  \/ PublishDeltas \/ ApplyPolicy \/ ExecuteEffects \/ ManageFinish \/ RenderFinish

Next == Compositor \/ Handler \/ ("failures" \in Kinds /\ CallbackFails)

Spec == Init /\ [][Next]_vars

\* A C handler that has begun runs to its end.
FairSpec == Spec /\ WF_vars(Handler)

-----------------------------------------------------------------------------
(* Invariants *)

\* Records refer to records that exist and are of their types.
RecordsOK ==
  /\ nextId \in 0 .. MaxId
  /\ windows \subseteq Ids /\ closed \subseteq windows /\ announced \subseteq windows
  /\ parent \in [Ids -> Ids \cup {0}] /\ parentDirty \subseteq windows
  /\ seats \subseteq Ids /\ removedSeats \subseteq seats /\ configured \subseteq seats
  /\ primary \in seats \cup {0}
  /\ exclusive \subseteq seats /\ onDemand \subseteq seats
  /\ queue \in Seq(Inputs)
  /\ pointer \in Operations /\ wmOperation \in Operations
  /\ bindingMode \in Modes /\ armed \in Modes \cup {"none"}
  /\ focus \in Ids \cup {0}
  /\ at \in Steps /\ failure \in Failures
  /\ wmWindows \subseteq Ids /\ wmMode \in Modes
  /\ effects \subseteq Effects

FlagsOK ==
  /\ override \in BOOLEAN /\ locked \in BOOLEAN /\ lockChanged \in BOOLEAN
  /\ deltaPending \in BOOLEAN /\ releasePending \in BOOLEAN
  /\ cancelBatch \in BOOLEAN /\ disturbed \in BOOLEAN
  /\ managed \in BOOLEAN /\ awaitingRender \in BOOLEAN
  /\ stopRequested \in BOOLEAN /\ stopSent \in BOOLEAN /\ finished \in BOOLEAN
  /\ callbackFailed \in BOOLEAN /\ wmLocked \in BOOLEAN

\* Every variable has its type.
TypeOK == RecordsOK /\ FlagsOK

\* Between sequences the compositor drags exactly what the policy believes is
\* dragged: no operation is left running that nobody will end, and none the
\* policy began is dropped by the silent return of xw_set_pointer_operation.
PointerAgrees ==
  at = "idle" /\ ~callbackFailed => pointer = wmOperation

\* The operation the compositor drags is of the primary seat and of a window, and
\* the records of both exist: movements of the pointer find their seat, and the
\* end of the operation finds what it has to be told to.
OperationOnRecords ==
  at = "idle" /\ ~callbackFailed /\ pointer # NoOperation =>
    /\ pointer.seat = primary /\ pointer.seat \in seats
    /\ pointer.window \in windows

\* With a compositor that keeps to the protocol the bridge fails for want of
\* identifiers only: the policy never replaces one pointer operation by
\* another within a sequence, which xw_set_pointer_operation cannot express.
OnlyIdsRunOut == failure \in {"none", "ids"}

\* An operation that was on when the session was locked, an output or a panel
\* changed or a layer took the keyboard is over once the input is drained,
\* even if the session is unlocked again in the same batch, and no press of
\* that batch starts another.
DisturbanceEndsOperation ==
  disturbed /\ at \in {"deltas", "apply", "effects", "finish"} /\ ~callbackFailed =>
    wmOperation = NoOperation

\* Between sequences the enabled keys are those of the policy's mode on a seat
\* that exists, and none while the policy is locked, whatever seats came and
\* went and whichever action changed the mode or reloaded the bindings.
ArmedKeysFollowMode ==
  at = "idle" /\ ~callbackFailed =>
    armed = IF primary \in configured /\ ~wmLocked THEN wmMode ELSE "none"

\* The policy knows the windows published to it and not yet taken back; it is
\* asked to arrange every window that was there when the sequence began.
PolicyKnowsWindows ==
  ~callbackFailed =>
    /\ wmWindows = announced
    /\ at \in ManageSteps \ {"lock", "closed", "announce"} => wmWindows = windows

\* A parent is published after the window it names, or when that window is
\* already gone: the policy never drops a live parent it will hear of next.
ParentsAnnouncedFirst ==
  at = "parents" /\ ~callbackFailed =>
    \A w \in parentDirty : /\ w \in wmWindows
                           /\ parent[w] \in windows => parent[w] \in wmWindows

\* The lock a client could act against is never one the policy has not heard
\* of: after the first step of a sequence the two agree, and a locked session
\* has no focused window from the end of event 7 on, layer surface or not.
LockReachesPolicy ==
  ~callbackFailed =>
    /\ ~lockChanged => wmLocked = locked
    /\ at = "idle" /\ wmLocked /\ primary # 0 => focus = 0

-----------------------------------------------------------------------------
(* Action and liveness properties *)

\* What reaches the policy comes from the seat that is primary now, in an
\* unlocked session, and is about a window the policy knows: input of a seat
\* or a window that went away in the same batch is lost on the way.
OnlyLiveInput ==
  [][at = "inputs" /\ <<wmMode, wmOperation, effects>>' # <<wmMode, wmOperation, effects>> =>
       LET input == Head(queue)
       IN  /\ input.seat \in seats /\ input.seat = primary /\ ~wmLocked
           /\ input.kind # "key" => input.window \in wmWindows]_vars

\* A stop the policy asks for, or that a contained exception asks for, in the
\* middle of a sequence is sent when that sequence is over.
StopIsSent == stopRequested ~> (stopSent \/ failure # "none")

-----------------------------------------------------------------------------
(* The inductive invariant: why the invariants hold                        *)

\* Steps after event 7 has been answered, up to the next sequence.
Settled == {"effects", "finish", "idle", "render"}
\* Steps of a sequence with every window announced, and with all input drained.
AllAnnounced == {"parents", "seats", "cancel", "inputs", "deltas", "apply", "effects", "finish"}
AllDrained == {"deltas", "apply", "effects", "finish"}

\* Identifiers are given in order, so a new record has none of the old ones.
FreshIds == windows \cup seats \subseteq 1 .. nextId

WindowsKnown ==
  /\ ~callbackFailed => wmWindows = announced
  /\ at \in AllAnnounced => announced = windows

LockKnown ==
  /\ at \in ManageSteps \ {"lock"} => ~lockChanged
  /\ ~callbackFailed /\ ~lockChanged => wmLocked = locked

FocusKnown ==
  /\ primary = 0 => focus = 0
  /\ ~callbackFailed /\ at \in Settled /\ wmLocked => focus = 0

KeysKnown ==
  ~callbackFailed /\ at \in Settled =>
    armed = IF primary \in configured /\ ~wmLocked THEN wmMode ELSE "none"

\* No press waits while an operation is on, so none can start a second one.
PressesWait ==
  /\ \A i \in DOMAIN queue : queue[i].kind = "press" => pointer = NoOperation
  /\ at \in AllDrained => queue = <<>>

\* The compositor will accept the start of op.
Startable(op) ==
  op.seat = primary /\ op.window \in Live /\ ~locked /\ primary \notin exclusive

\* Up to the input the policy can only have ended the operation; the input may
\* have begun one where there was none; event 7 makes the two sides equal.
OperationKnown ==
  ~callbackFailed =>
    /\ at \in Settled => wmOperation = pointer
    /\ at \notin Settled =>
         \/ wmOperation \in {pointer, NoOperation}
         \/ /\ at \in {"inputs", "deltas", "apply"}
            /\ pointer = NoOperation /\ Startable(wmOperation)

\* The policy's operation never outlives its window or its seat.
OperationLive ==
  ~callbackFailed /\ wmOperation # NoOperation =>
    wmOperation.seat = primary /\ wmOperation.window \in windows

\* pointer_cancel_batch remembers every disturbance until the input is drained.
DisturbanceKnown ==
  /\ disturbed /\ at \notin {"apply", "effects", "finish"} => cancelBatch
  /\ ~callbackFailed /\ cancelBatch /\ at \in {"inputs", "deltas"} => wmOperation = NoOperation
  /\ DisturbanceEndsOperation

BridgeInv ==
  /\ TypeOK /\ FreshIds /\ WindowsKnown /\ LockKnown /\ FocusKnown /\ KeysKnown
  /\ PressesWait /\ OperationKnown /\ OperationLive /\ DisturbanceKnown /\ OnlyIdsRunOut

=============================================================================
