# A verification of xmonad-wayland

xmonad-wayland is a window manager: a process that the compositor River asks, again and
again, how the windows on the screen are to be arranged. This directory holds TLA+ models of
it, the TLC runs that check them on small instances and TLAPS proofs for every value of the
constants. Paths below are relative to the repository root (`src/` in `PROJECT.json`).

- [The system](#the-system) - [Modules](#modules-and-the-code-they-model) - [Runs](#runs)
- [Fairness](#fairness) - [Proofs](#proofs) - [Findings](#where-the-code-and-its-documents-disagree)
- [Not modelled](#not-modelled) - [Plan](#plan) - [Running it](#running-it)

## The system

| Component | State it keeps | Operations | Interacts with |
|---|---|---|---|
| **Stack set** (`vendor/XMonad/StackSet.hs`) | workspaces as zippers, which of them each screen shows | `view`, `insertUp`, `delete`, `shiftWin`, `focusUp`, `swapMaster`, ... | called by the policy only |
| **Policy** (`src/XMonad/Wayland/Policy.hs`) | stack set, layouts, outputs, work areas, lock, metadata, binding mode, pointer operation, anchors | `handleEvent` for 18 events and 35 user actions; `renderPolicy` | pure; returns effects to the runtime |
| **Runtime** (`Runtime.hs`, `Protocol.hs`) | the policy, pending effects, the first contained exception, the confirmation lock and thread | `xw_event`, `manage`, `applyPolicy`, `execute`, `containFailure`, `runWithReload` | called from C inside sequences; calls back into C |
| **Bridge** (`cbits/bridge.c`) | records of windows, seats and outputs, queued input, lock, keys, pointer operation, phase | listeners, `manager_manage_start`, `manager_render_start`, the `xw_*` requests | River by Wayland, the runtime by calls |
| **Event loop** (`bridge.c`, `xw_run`) | running, failed, interrupted, the atomic exit flag | `dispatch_once`, `cleanup`, signal handlers | signals, the confirmation thread, the socket |
| **Confirmation** (`Runtime.hs`, `execute`) | a thread, a child process and its pipes | start, read the answer, stop and reap the child | the exit flag, `killThread` at shutdown |
| **Picker** (policy and `bridge.c`) | picker mode; pending effects; an overlay surface with its buffer, mapping and descriptor | show, pick, cancel; configure, draw, hide | key bindings of the mode, a layer-shell surface |
| **Presentation** (`bridge.c`) | what was last asked of River for each window: fullscreen output, position owed after it, visible, focused, floating | `xw_set_mode`, `xw_set_window`, `xw_focus`, drawing in `render_start` | River, which ends fullscreen by itself |
| **Configuration** (`Keymap.hs`, `Config.hs`, `XConfig.hs`, `app/`) | key bindings, layouts | validation, reload | the runtime |

Two rules of the protocol shape everything. Between two *sequences* the bridge only records
what River tells it (a *batch*). A *manage sequence* publishes the batch to the policy and
then asks it for an arrangement; a *render sequence* follows with the sizes the clients
accepted. Every event is about objects that another event of the same batch may have
destroyed, and every answer concerns a state some of which the compositor has already
changed. That is where most of what is hard to test lies:

- **Stale batches.** A seat is removed, a window closes, the session locks *and unlocks*, a
  panel takes the keyboard, all before the input queued earlier in the batch is delivered.
- **Two opinions of one thing.** Pointer operation, binding mode, lock and focus are each kept
  by both the bridge and the policy, and must agree when a sequence is over.
- **Sequences of legal calls.** Outputs and windows come and go in any order; stack set,
  metadata, anchors, float and fullscreen state are separate and must fit together.
- **Contained exceptions.** A Haskell exception in the middle of a sequence freezes the policy;
  C goes on, and the stop must be sent once the sequence is over.
- **Effects after the fact.** The policy changes its mode at once; the letters follow by effects that are
  executed at the end of the sequence, which a failure or an exception may cut short.
- **Requests by difference.** Fullscreen and positions are asked for only when the record says they
  changed, while River changes them by itself when an output goes.
- **Threads and children.** The confirmation runs beside the event loop; signals, a lost
  connection, an answer and the shutdown race with each other.

`PROJECT.json` lists these, each at its line, under `hazards`.

What makes each component correct: the *policy* must neither lose nor duplicate a workspace or
a window, must keep families of dialogs trees, must show the focused window, and under a lock
must take no input; the *bridge* must agree with the policy between sequences, must drag only what it has
records of, and must send each stop it is asked for; the *overlay* must be up exactly while its
keys are armed and drawn for the output they are for; the *presentation* must not let its records drift from
what River did, nor raise another window than the one with the keyboard; the *loop and the confirmation* must end
in bounded time whatever the child does, leave neither a thread nor an unreaped child
behind, and end the session exactly when a confirmation succeeded.

## Modules and the code they model

| Module | Models | Extends |
|---|---|---|
| `Lists` | ascending order and filters, for the Haskell lists and the linked lists of `bridge.c` | `SequencesExt` |
| `StackSet` | `vendor/XMonad/StackSet.hs`, the operations the policy calls | `Lists` |
| `Policy` | `handleEvent` and what decides where a window is shown | `StackSet`, `Functions` |
| `MCPolicy` | workspaces, layouts and areas for TLC | `Policy` |
| `ListProofs` | induction on numbers, lemmas on `Lists` and concatenation | `Lists`, `TLAPS` |
| `StackSetProofs` | lemmas on each change of a stack set | `StackSet`, `ListProofs` |
| `PolicyFitness` | lemmas about the helpers of `Policy` its actions share | `Policy`, `StackSetProofs` |
| `PolicyProofs` | each action of `Policy`, and the theorems | `PolicyFitness` |
| `Bridge` | the records and sequences of `bridge.c`, with `xw_event`, `applyPolicy`, `execute` and `containFailure` of the runtime | standard modules |
| `MCBridge` | bounds on windows and seats for TLC | `Bridge` |
| `BridgeProofs` | theorems about `Bridge` | `Bridge`, `TLAPS` |
| `Overlay` | the overlay of the picker in `bridge.c`, the output records it is placed by, picker mode and its effects | `Integers`, `Sequences` |
| `MCOverlay` | sizes of outputs for TLC | `Overlay` |
| `OverlayProofs` | theorems about `Overlay` | `Overlay`, `TLAPS` |
| `Presentation` | `xw_set_mode`, `xw_set_window`, `xw_focus`, `manager_render_start` | `Lists` |
| `PresentationProofs` | theorems about `Presentation` | `Presentation`, `ListProofs` |
| `Session` | nothing: the abstract promise of the end of a session | - |
| `Shutdown` | `xw_run`, signals, the exit flag, the confirmation thread and its child, the release of the runtime, restart; implements `Session` | - |
| `ShutdownProofs` | theorems about `Shutdown`, with the refinement | `Shutdown`, `TLAPS` |

**`StackSet` and `Policy`.** The Haskell zipper `Stack focus up down` becomes a list with the
position of the focus; the screens (current first, then visible) become the sequence `outs`, and the
workspaces in the order current, visible, hidden become `order`, as `view` and `reconcile` depend
on that order. `policy` is the `Policy` record. There is one action per event (`OutputUpsert`,
`WindowAdded`, ...) and per user action (`FocusNext`, `ToggleFloat`, `Pick`, ...); each makes the
changes of `preparePointerEvent`, of its line in `handleOrdinaryEvent` and of `validatePointerState`
(`Settle`), as `handleEvent` composes them. `Kept(s, K)` are the members of a list that are in a set, in their
order, and `Ascending` the order of a set of numbers: Haskell's `filter`, written so that the provers can reason about it. `effects` holds what the event returned and `overlay`
the letters the executed effects leave on the screen.

Abstracted: rectangles within an output. Outputs and work areas are spans of one axis (the code
treats both alike), `clipArea` is exact on it; layout ratios, weights and float rectangles do not
appear. A test that depends on them - does a displayed float rectangle fit its area, which tile
lies to the left - is an input of its action, so the model allows at least what the code
does. `PointerMoved` changes nothing but a float rectangle and has no action. Titles and
app ids are left out: no decision reads them.

**`Bridge`.** A compositor event is one action (River's events are dispatched one at a time).
`manager_manage_start` calls the policy many times, and what it publishes matters to what comes
next, so it is one action per call or group of calls, in the order of the code: `PublishLock`,
`RemoveClosed`, `Announce`, `PublishParent`, `UpdateSeats`, `CancelPointer`, `DrainInput`,
`PublishDeltas`, `ApplyPolicy`, `ExecuteEffects`, `ManageFinish`; `at` is the place. The policy is
reduced to `wmWindows`, `wmLocked`, `wmMode`, `wmOperation` and `effects`, and where module `Policy`
decides by focus or geometry any outcome may happen (`MayEndOperation`, `PolicyTakes`): what holds here holds
for every policy that answers so. `CallbackFails` is a contained exception at any
point of a sequence. `armed` is the mode whose key bindings are enabled on the primary seat. `MaxId`
stands for `UINT32_MAX`, and reaching it is a failure as in `new_id`. `disturbed` is a history
variable.

**`Overlay`.** `overlay` is `struct picker_overlay` with `picker_active`; `outputs` are the output records and
`wmOutputs` what the policy was told of them. `PublishLock`, `UpdateOutputs`, `DrainInput`, `SetOutput`,
`ExecuteEffect`, `EffectsExecuted` and `ManageFinish` are a manage sequence in the order of the code; a failure
(`BridgeFails`) or a contained exception (`CallbackFails`) may come between any two of them, and what C still does
afterwards is modelled. An input is chosen when it is drained, so every queue is covered. `Redrawn` keeps the
buffer when the width is the same, as `picker_redraw` compares strides. Abstracted: labels and pixels; an
output's position and size are one value. The compositor configures the surface with any size and as often as it
likes, a size without width or height included (`Suggested`, `LayerConfigured`), but not after it closed it. It also decides where the surface
appears, as `xw_picker_show` names no output: `default` is River's default output for layer surfaces and `marked` the one it is to be when the sequence is
finished, set by `MarkDefault` only with the layer object of `river_layer_shell_v1` (`LayerShell`); `Places` are the outputs it may choose from. `overlay.output`
is what `picker_output` chose to measure and draw for, no more. Windows do not appear: whether
there is one to pick is a choice of `StartPicker`.

**`Presentation`.** A manage sequence is one action: `Answers` are the arrangements `renderPolicy` can give, and for each
the record changes of `xw_set_mode` and `xw_set_window` and the requests they make (`Fullscreens`, `Exits`, `Proposes`,
`Restores`) are applied. The other side has state of its own: `fullscreen`, `undefined` (windows without
position and size), `focus` and `stacked`, changed by requests and, when an output or a seat goes, by River alone. `seat` says whether
there is a live primary seat: without one `xw_focus` makes no request (`SetFocus`) while `xw_set_window` records the focus all the same. `raised` is
the window the last render sequence raised as the focused one; its border has no width (`bridge.c:1556`) and is left out. The
render sequence rebuilds `stacked` with `place_top` requests in the order of the code (`Placed`), `StackingDepth` included; a later request for a node
supersedes an earlier one (`PlaceTop`).
A lock or a layer surface may come between the two. Positions and sizes are only defined or not.

**`Session`.** Four variables: the manager works, ends, has returned or was replaced; a confirmation is open; the user
has confirmed; the compositor was told. `Shutdown!Promise` maps them: the confirmation is open while its lock
is empty, the manager ends from `cleanup` on. The mapping is what a user may rely on and hides poll, threads,
gate and child.

**`Shutdown`.** Four parties interleave: the main thread (`pc`: `dispatch_once` split at the points
where another party can be noticed, then `cleanup`, `killThread`, `readMVar`), the confirmation
thread (`worker`), its child, and the world (signals, a lost connection). An asynchronous exception is a
pending flag that the thread receives only where the code is unmasked or blocks (`Interruptible`); after the child
was started `bracket` stops it before the lock is given back. `stopConfirmation` is SIGTERM,
SIGKILL and a bounded poll, none of which the child need obey: if it is not gone a detached thread
reaps it (`waiter`). A connection that is gone may be noticed by the flush or by the read; it is
no failure once `exit_session` was sent. `confirmed` is a history variable. One
confirmation at a time is no bound of the model: the lock allows no other.

## Runs

Each run asks a question of its own. Every property has a plausible bug in the code (`mutants`)
that TLC finds by it.

| Run | Question | Properties | Distinct states |
|---|---|---|---|
| `policy_screens` | Do outputs that come and go in any order lose, duplicate or move a workspace or a window, do families stay trees, does a shift move a family and nothing else, and does a dialog that follows its parent leave every screen as it was? | `PolicyInv`, `EachWindowOnce`, `FamiliesAreTrees`, `ScreensFollowOutputs`, `HotplugKeepsScreens`, `ShiftMovesFamilyOnly`, `ClientsNeverSwitchWorkspaces` | 41,888 |
| `policy_pointer` | With floats, fullscreen, size hints, a panel and two seats: can a pointer operation outlive what it began with, and can a click, a fullscreen request or a hint switch the workspace? | `OperationOnFocusedFloat`, `ClientsNeverSwitchWorkspaces` | 68,008 |
| `policy_picker` | With the keyboard actions on tiled windows: is the focused window shown, the overlay up exactly in picker mode, and does a lock stop all input? | `FocusedIsVisible`, `OverlayOnlyWhilePicking`, `LockedTakesNoInput` | 55,424 |
| `bridge_pointer` | Do bridge and policy agree on the pointer operation, whatever a batch holds, and do its window and seat exist? | `BridgeInv`, `PointerAgrees`, `OperationOnRecords`, `OnlyIdsRunOut`, `DisturbanceEndsOperation` | 1,142,972 |
| `bridge_keys` | Are the enabled keys those of the mode, does the lock reach the policy first, is only live input delivered? | `ArmedKeysFollowMode`, `LockReachesPolicy`, `OnlyLiveInput` | 1,815,602 |
| `bridge_stop` | Does the policy know the windows that exist, are parents published in order, and is a stop sent after an exception inside a sequence? | `PolicyKnowsWindows`, `ParentsAnnouncedFirst`, `StopIsSent` | 1,025,946 |
| `overlay` | Are the letters up exactly in picker mode, drawn for the focused output along the rows of their buffer, and gone after a lock, a failure or the end? | `OverlayInv`, `OverlayFollowsMode`, `NothingLeft`, `RowsFitBuffer`, `DrawnForFocusedOutput`, `LockHidesOverlay` | 1,237,846 |
| `presentation` | Can the bridge's records drift from River, a window be shown without position and size, another window be raised than the one with the keyboard, a dialog fall below its parent? | `PresentationInv`, `FullscreenAsAnswered`, `RestoredWhenShown`, `RaisedHasKeyboard`, `StacksInOrder` | 639,226 |
| `shutdown` | Does the manager always end, cleanly, and the session only when confirmed? Does it implement `Session`? | `ShutdownInv`, `NoConfirmationSurvives`, `ExitIsNoFailure`, `KeepsPromise`, `ManagerReturns`, `ConfirmedExitIsSent` | 157,122 |
| `picker_swap`, `picker_letter`, `overlay_stdin` | The [findings](#where-the-code-and-its-documents-disagree) | one each | counterexamples |

`PolicyInv`, `BridgeInv`, `OverlayInv`, `PresentationInv` and `ShutdownInv` are inductive invariants: the runs check them because a
strengthening that TLC refutes need not be tried by the prover.

### Bounds and why they are enough

- `policy_screens`: 3 outputs, 2 workspaces, 3 windows. Three outputs are one more than there are workspaces, so
  an output without a workspace, its later promotion, and the loss of all outputs all occur. Three windows make a
  chain of parent, child and grandchild, the shortest cycle that needs more than one look, and a family
  split over screens.
- `policy_pointer`: 2 windows, an output that comes and goes, 2 seats and 2 workspaces; a panel
  leaves one work area or the whole output, a client sends no size hints or fixed ones, and
  the one layout shows a single tile, so that a tile behind the focused one is hidden.
  Two seats let one end, or fail to end, what the other began.
- `policy_picker`: 2 windows, 1 output, 2 workspaces; a layout cycle of one that shows a single
  tile and one that shows all, `SetLayout` to a third, and the splits that reach further ones. Two windows are
  enough for one shown and one hidden. Floating windows are in `policy_pointer`, parents in
  `policy_screens`. The two findings take three windows: one before, one between,
  one picked.
- `bridge_*`: `MaxId` 3 identifiers for windows and seats together, so that running out is
  reached; `FewRecords` bounds how many of each exist at a time, `MaxQueue` (1 or 2) the
  inputs of one batch, which the code does not bound. Two inputs suffice for a press before and one
  after the event that cancels it. A cfg feeds some kinds of event (`Kinds`) and leaves
  others out; the kinds of one run are those whose interplay its properties are about, and
  `BridgeProofs` needs none of these bounds.
- `overlay`: two outputs, one of which changes its size to that of the other, and a compositor that suggests the size asked for, another
  width or no height, so that a buffer is kept, replaced, left while nothing is drawn, and would be of the wrong width if a hide forgot it. A change from one
  height to another alone is not among the sizes, and `RowsFitBuffer` says nothing of heights; 3 pending effects, so that a batch can open, close and open
  again. `overlay_stdin` needs one output and no global.
- `presentation`: 2 windows and 2 outputs are parent and child, a circle of two, and a fullscreen window
  that changes its output, is hidden on the way or loses it; a primary seat that comes, goes and is replaced; a third window would add a third level of
  dialogs, which `StackingDepth` treats like the second.
- `shutdown` has no bound: the module is finite.
- `CHECK_DEADLOCK FALSE` is set since the system may stop: `shutdown` ends in `returned`, the
  bridge after a failure or after `finished`, and a policy with no input enabled merely waits.

## Fairness

- `Bridge!FairSpec`, `WF_vars(Handler)`: a C handler that has begun runs to its end. Nothing
  is assumed of the compositor: it may never start a sequence.
- `Shutdown!FairSpec`, weak fairness of the main thread and of the confirmation thread: both are
  threads of one runtime that are scheduled, `poll` waits at most a tenth of a second,
  `stopConfirmation` is bounded by its delays, and a dispatch ends because what was read
  in one go is finite. Nothing is assumed of the child (it may never answer and ignore every
  signal) nor of the compositor. `ManagerReturns` fails if the release only waited for
  the confirmation instead of killing its thread.
- `Overlay!FairSpec`: a handler that has begun runs to its end (`WF` of `Handler`). River starts a manage sequence after
  the lock changed (`WF`), since the protocol says that a sequence follows `session_locked`; it answers a
  stop request with `finished` in the end, though failures of its own may delay it (`SF`). `LockHidesOverlay` fails
  if `finished` only ended the loop.
- `presentation` and the policy runs state safety only.

## Proofs

`tlapm` checks every leaf; no step is taken on trust. The theorems need `BridgeAssumption`
(identifiers and the queue bound are natural numbers, the modes include `normal` and `picker`
and not `none`), `OverlayAssumption` (the sizes of outputs are positive; those the compositor suggests are any natural numbers), `PresentationAssumption` (bounds are natural numbers) and
`PolicyAssumption` (finitely many positive identifiers, as the bridge gives them; outputs of positive size, which the event
requires; tags and layouts as `validateConfig` accepts them: at least one of each and none twice; any first layout) and no other assumption; `Shutdown` has no constants.

**`ListProofs`, `StackSetProofs`, `PolicyFitness` and `PolicyProofs`**, for any `Windows`, `Outputs`, `Seats`, `TagList`, `LayoutCycle`, `InitialLayout`, spans,
hints and `Inputs`. Of the 13 properties the policy runs check 11 hold, and each has its theorem:

| Theorem | Property |
|---|---|
| `PolicyInvariant` | `PolicyInv`, of which `PolicyTypes` (`TypeOK`), `PolicyFamilies`, `PolicyScreens`, `PolicyOverlay` and `PolicyOperations` are parts |
| `PolicyWindows`, `PolicyFocus` | `EachWindowOnce`, `FocusedIsVisible`: consequences of it |
| `PolicyHotplug`, `PolicyClients`, `PolicyLocked`, `PolicyShift` | `HotplugKeepsScreens`, `ClientsNeverSwitchWorkspaces`, `LockedTakesNoInput`, `ShiftMovesFamilyOnly`: what no step does |
| `ClipAreaInside` | the part of a work area the policy uses lies in its output and is not empty |

`PolicyInv` is inductive because its parts need each other. *One place for each window* (`Arranged`: no window twice in
a stack or in two of them, the focus in its list, no tag and no output twice) is what makes `findTag`, `delete` and
`shiftWin` agree on a window, and survives a hotplug only since *screens follow outputs*. That the
*metadata are those of the placed windows* makes a parent found in the metadata a window that can be shifted and
a shown window one whose float state can be read. *Families are trees* is stated by sets (every set of
windows has one whose parent is outside), which needs no walk: a new parent keeps it because `windowParent` refuses one among
the descendants, and `FamilyClosed` says that `Descendants` finds them all: each of its steps adds a window until a step adds none,
and there are not more steps to take than windows. The *operation* needs all of these to remain on
the focused float, plus the output of its *anchor* and the size hints it began with; *overlay and mode* are an equivalence each event keeps.

Every action is proved along the same path. `Sound` and `Ready` (together `Fit`) are the parts that a policy must have *before*
`validatePointerState`; an event first makes a fit policy, then `RespondKeeps` says that what `Settle` makes
of a fit policy satisfies the whole invariant: it drops an operation whose window is no longer the focused, shown
float, and that is what lets `Ready` be so weak. `PolicyStaysFit` does the first half at once for the events that keep
windows and outputs; the stack set of the others comes from `StackSetProofs`, where `Rearranged` (same windows, same tags, same
outputs, still arranged) has a lemma for each operation. Hotplug has its own section: `Staying` and `Leaving` name the
screens `reconcile` keeps and gives up. `ShiftMovesFamilyOnly` compares lists with the family left out:
`KeptOfLeft` and `KeptOfInserted` say that deleting or inserting a member of the family does not show in what is kept,
and an induction over the family carries that through `ShiftFamily`. `ClientsNeverSwitchWorkspaces` has the first of these inductions too: a dialog
that follows its parent is a shift of its family, and what else clients do leaves order and outputs alone (`SameIsShown`).

*Induction without operators.* The provers cannot instantiate an induction theorem, whose parameter is an operator. The
inductions here are over sets of numbers: `UpTo` (a set with 0 that is closed under successor up to N
contains 0 .. N) follows from the well-foundedness of `<` on `Nat` as a relation, a theorem about sets. `RecursionExists`
gives the recursive functions of `Descendants`, `ShiftFamily`, `Ancestors` and `Placed` their solutions in the same way. Two choices of the models serve
this: recursion is by functions, and lists are made by `Ascending` and `Kept`, not by `SelectSeq` or a fold, of which the provers see nothing. All of it is in `ListProofs`.

**`BridgeProofs`**, for any `MaxId`, `Modes`, `MaxQueue` and `Kinds`:
`BridgeInvariant`, `PointerAgreement`, `OperationHasRecords`, `NeverReplaced`, `DisturbanceEnds`,
`KeysFollowMode`, `WindowsAgree`, `ParentsInOrder`, `LockKnownToPolicy`, `InputIsLive`.

None of the properties is inductive: each speaks of the end of a sequence, and a sequence passes through
states in which the two sides differ. `BridgeInv` says how far they may differ at each place.
The core is `OperationKnown`: up to the queued input the policy can only have *ended* the
operation the bridge has; the input can have begun one only where the bridge has none, and then one that the bridge
can start (`Startable`) until `applyPolicy` makes the two equal. That needs `PressesWait` (no press
is queued while an operation is on), which `queue_pointer` secures at the time of the event, and `DisturbanceKnown`:
`pointer_cancel_batch` remembers a lock, output change or exclusive layer of the batch until the input is
drained. `WindowsKnown`, `LockKnown`, `FocusKnown` and `KeysKnown` do the same for windows, lock,
focus and keys; `FreshIds` says that a new record has no old identifier; `OperationLive` that a running operation whose window or seat goes
is ended in the sequence that frees the record. Each conjunct has
a lemma (`...Step`) with one case per action, on top of `TypeOK`, which is split into records and flags
and is a part of the invariant, not a result. The safety theorems follow from the invariant, and `InputIsLive`, an action property,
from the invariant and the step that drains input.

**`ShutdownProofs`**: `ShutdownInvariant`, `ReleaseIsComplete`, `ExitNeedsConfirmation`,
`ExitSucceeds`, `ManagerKeepsPromise`. `GateKnown` (the lock is empty exactly while a thread has it) carries the release:
`readMVar` returns only when there is no thread between its start and its end. `ChildKnown` says that a thread past its child has
reaped it or handed it on, and that `decide` is reached only with the child dead and reaped. `ExitKnown` ties the
atomic flag to a confirmation and a lost connection to its failure.

`ManagerKeepsPromise` is the refinement: `PromiseStep` goes through every action and names the step of `Session` it is, or
that it is none; `GateKnown` gives the return, `ExitKnown` the exit.

**`OverlayProofs`**, for any `SizesOf`, `Suggested`, `MaxEffects`, `Globals` and `LayerShell` that `OverlayAssumption` admits: `OverlayInvariant`, `LettersAreArmed`,
`OverlayIsReleased`, `RowsFit`, `DrawnForFocus`. `OverlayFollowsMode` speaks of the end of a sequence, while mode and overlay differ within one:
`ModeKnown` says that the *last* pending effect brings the overlay to the mode, whatever the others do.
That the last show succeeds needs an output to show it on: `OutputsKnown` says what the policy knows of an output is what the
bridge has of it unless an event has marked it dirty, and nothing is dirty while input is drained and effects are executed;
`EffectsKnown` that a show is pending only with an output focused, to which `picker_output_id` was set before. So the fallback of
`picker_output` is never taken, and the type of the overlay is proved *with* the invariant: that a fallback exists would need
an induction. `EffectsKnown` also has the focused output marked as the default one before anything is shown, so that the letters
appear there once it counts. `RowsFitBuffer` is carried by `ConfigureStep`, for a configure of any size.

**`PresentationProofs`**, for any `MaxWindows` and `MaxOutputs`: `PresentationInvariant`, `FullscreenFollows`, `ShownIsRestored`,
`RaisedFollowsKeyboard`, `StackOrder`. `FullscreenKnown` compares the record with River (equal until the output goes) and with the answer; `OwedKnown` says that
what River has undefined is owed by the record (`exited_fullscreen`), or still recorded as fullscreen and will be
owed when it leaves; `FocusKnown` that no other window than the one with the keyboard is recorded as focused, and that none has it without a seat. `Managed` collects what a manage
sequence makes of each window, from `ModeRecorded` and `WindowRecorded` about the two requests.

`StackOrder` speaks of one render sequence with whatever records the history has left. `Stacked` reduces the stack to its
requests: each node is in it once, and v is under w if the last request for w is `Over` all for v. A
node has a `Rank`, 0 for a tile and its depth for a float; `PlacedInOrder` is the induction over ranks: what is placed later is over
what was placed before, and of one rank only the focused node is asked for twice. That a float is deeper than its parent
(`DeeperThanParent`) is false for windows whose parents go round, where the climb is cut off at the number of windows; without circles
`ClimbRunsOut` says that the bound is never what ends it: a climb as long as there are windows would meet one
twice (the pigeonhole theorem), and what lies between would be a circle. Windows with one parent have one depth (`SiblingsLevel`), with circles too.

Only model-checked: all liveness (`StopIsSent`, `LockHidesOverlay`,
`ManagerReturns`, `ConfirmedExitIsSent`), which is beyond the prover.

## Where the code and its documents disagree

| Run | The code | The document |
|---|---|---|
| `picker_swap` | `swapToWindow` (`Policy.hs:466`) takes the first window of the workspace for the focused one and reverses the windows above the picked one | its comment and `README.md:100`: the chosen letter swaps that window with the focused one, everything else keeps its place |
| `picker_letter` | letters number all windows of the workspace, keys only the visible ones (`Policy.hs:440,455`): past a hidden window, each key picks the next one's neighbour | `README.md:98-100`: the chosen letter swaps *that* window |
| `overlay_stdin` | the descriptor of the overlay is 0 until the first show, and hiding closes every descriptor that is not negative (`bridge.c:1203,1284`): a lock before the first pick closes the standard input | `bridge.c:1182`: missing globals *simply disable the visual overlay* |

Read in the code and not run: a click changes the focus and leaves picker mode on (`Policy.hs:134`), where `README.md:100` and
`app/Main.hs:26` say that Escape or a click cancels the picker; a restart replaces the process (`Runtime.hs:226`) without the release
that stops and reaps an open confirmation, where `docs/SECURITY.md:18` says that child processes are reaped; a configure
of the overlay after its output was removed reads a freed record (`bridge.c:1294`); `picker_layer_closed` forgets
the proxy of the surface without destroying it (`bridge.c:1386`); the surface is made for no output in particular (`bridge.c:1428`) and the default
output is set only where there is a layer object (`bridge.c:1587`), and counts when the sequence is finished, so that the letters may appear elsewhere than on the focused output, where
`bridge.c:1181` puts them; the buffer is kept when only the height of the surface changes (`bridge.c:1344`).

## Not modelled

- *Labels and pixels* of the overlay, *positions and sizes* of windows, and the metadata and hints published with them: data
  the properties do not tell apart.
- *Pixel arithmetic* (`weightedRects`, `tall`, `floatingRect`, `movePointer`, `directionTarget`): data, with no
  control; planned as lemmas.
- *Configuration* (`validateConfig`, the `Read` syntax, `XConfig`, command line, recompilation): run once, on
  data. `PolicyAssumption` states what validation guarantees.
- *Startup commands and spawned programs*: a process and a thread that waits for it, on which no
  state of the manager depends.
- *Launchers, packaging, tests*: not part of the manager.
- *River and libwayland* are external: `Bridge` assumes that a render sequence answers each manage
  sequence and that a proxy is not named after its destruction, as
  `protocols/river-window-management-v1.xml` promises.
- *Allocation failure and refused proxies* in the bridge end in `fail`; of these `Bridge` has the identifiers
  and the replaced operation, `Shutdown` any failure (`BridgeFails`).

## Plan

Done: `StackSet` and `Policy` (what the user sees), `Bridge` (agreement of the two sides), `Overlay`, `Presentation`, the
refinement of `Session` by `Shutdown`, and a proof of every safety property the runs confirm. Next, in this order:

1. **Geometry**: `clipArea`, `weightedRects`, `confineRect` and `movePointer`'s axis as operators, with lemmas:
   tiles lie inside the area and do not overlap, results are representable.
2. **An abstract pointer operation** (none, on) that `Bridge` implements.

## Running it

    tlc -workers 2 -config policy_picker.cfg MCPolicy.tla
    tlapm PolicyProofs.tla

`policy_*` and `picker_*` run with `MCPolicy`, `bridge_*` with `MCBridge`, `overlay*` with `MCOverlay`, `shutdown` and
`presentation` with the module of their name.
