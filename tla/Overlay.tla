------------------------------- MODULE Overlay -------------------------------
(***************************************************************************)
(* The letters of the window picker on the screen: the overlay surface of  *)
(* bridge.c (xw_picker_show, xw_picker_hide and the layer surface events), *)
(* the output records it is placed by, and the picker mode of the policy   *)
(* that asks for it through effects executed at the end of event 7.        *)
(*                                                                         *)
(* As in module Bridge a compositor event is one action and manage_start   *)
(* is one action per call or group of calls. One seat; windows, other      *)
(* modes and render sequences do not bear on the overlay and are left out. *)
(* An output's position and size are one value, its size. What is drawn    *)
(* is abstracted to the buffer it is drawn in.                             *)
(*                                                                         *)
(* The surface names no output: River puts it on the default output of     *)
(* river-layer-shell-v1, if one is set, and suggests it any size at any    *)
(* time. Of the compositor this is assumed: a surface is not configured    *)
(* after it was closed, a change of the lock is followed by a manage       *)
(* sequence, and a stop request by finished.                               *)
(***************************************************************************)
EXTENDS Integers, Sequences

CONSTANTS
  Globals,      \* wl_compositor, wl_shm and zwlr_layer_shell_v1 were found
  LayerShell,   \* river_layer_shell_v1 was found: each output has its layer object
  SizesOf,      \* sizes of each output ever created, <<width, height>>
  Suggested,    \* sizes the compositor may configure besides the one asked for
  MaxEffects    \* bound on the pending effects; the code has none

ASSUME OverlayAssumption ==
  /\ Globals \in BOOLEAN /\ LayerShell \in BOOLEAN /\ MaxEffects \in Nat
  /\ Suggested \subseteq Nat \X Nat
  /\ SizesOf \in Seq(SUBSET ((Nat \ {0}) \X (Nat \ {0})))

VARIABLES
  nextId,          \* the last identifier given to an output
  outputs,         \* output records, by identifier in list order
  locked, lockChanged,
  pickerOutput,    \* picker_output_id, the output the policy focuses
  default,         \* River: the default output of layer surfaces, 0 if undefined
  marked,          \* River: the one it will be when the manage sequence is finished
  overlay,         \* the struct picker with picker_active
  stdin,           \* descriptor 0 is still open
  at,              \* the place in the handler that runs, or "idle"
  failed, finished,
  stopSent,
  callbackFailed,  \* an exception was contained: the policy is frozen
                   \* and the compositor is to be asked to stop
  wmOutputs,       \* the outputs the policy knows and their sizes
  wmFocus,         \* focusedOutput of the policy, 0 if none
  wmMode,
  effects          \* effects to execute, in order

outputVars == <<nextId, outputs>>
lockVars == <<locked, lockChanged>>
placeVars == <<pickerOutput, default, marked>>
overlayVars == <<overlay, stdin>>
endVars == <<failed, finished, stopSent, callbackFailed>>
wmVars == <<wmOutputs, wmFocus, wmMode, effects>>

vars == <<outputVars, lockVars, placeVars, overlayVars, at, endVars, wmVars>>

-----------------------------------------------------------------------------

Ids == 1 .. Len(SizesOf)
Sizes == UNION {SizesOf[o] : o \in Ids}
NoSize == <<0, 0>>
Configurable == Sizes \cup Suggested \cup {NoSize}
Effects == {"show", "hide"}
Steps == {"idle", "lock", "outputs", "inputs", "effects", "finish"}

\* "close" is a letter, Escape or a press that starts a pointer operation, which
\* all close the picker; "click" is an event that may focus another output.
Keys == {"pick", "close", "click"}

\* An output record: its size once known, whether the policy has it, and
\* whether it is to be published.
OutputRecords == [size : Sizes \cup {NoSize}, announced : BOOLEAN, removed : BOOLEAN,
                  dirty : BOOLEAN]

\* The overlay after xw_picker_hide. "output" is the one it is measured and drawn
\* for, "asked" its size, given to set_size, "buffer" the size of the mapped
\* buffer, "size" that of the last configure.
NoOverlay == [active |-> FALSE, layer |-> FALSE, output |-> 0, asked |-> NoSize,
              fd |-> "none", buffer |-> NoSize, size |-> NoSize]

\* A static struct is all zero: its descriptor is that of the standard input.
Init ==
  /\ nextId = 0 /\ outputs = [o \in {} |-> NoSize]
  /\ locked = FALSE /\ lockChanged = FALSE
  /\ pickerOutput = 0 /\ default = 0 /\ marked = 0
  /\ overlay = [NoOverlay EXCEPT !.fd = "stdin"] /\ stdin = TRUE
  /\ at = "idle" /\ failed = FALSE /\ finished = FALSE
  /\ stopSent = FALSE /\ callbackFailed = FALSE
  /\ wmOutputs = [o \in {} |-> NoSize] /\ wmFocus = 0
  /\ wmMode = "normal" /\ effects = <<>>

-----------------------------------------------------------------------------
(* The overlay *)

\* A variant for mutation: the surface goes and its buffer stays.
HideSurface ==
  /\ overlay' = [overlay EXCEPT !.active = FALSE, !.layer = FALSE, !.output = 0,
                                !.asked = NoSize]
  /\ UNCHANGED stdin

\* xw_picker_hide: everything goes, and whatever the descriptor is, it is closed.
Hide ==
  /\ overlay' = NoOverlay
  /\ stdin' = (stdin /\ overlay.fd # "stdin")

HideIfActive == IF overlay.active THEN Hide ELSE UNCHANGED overlayVars

\* fail(), from any request or listener.
Fail ==
  /\ failed' = TRUE
  /\ HideIfActive

\* picker_output: the focused output, else the first; 0 if there is none.
Placeable == {o \in DOMAIN outputs : ~outputs[o].removed /\ outputs[o].announced}

OutputForPicker ==
  IF pickerOutput \in Placeable THEN pickerOutput
  ELSE IF Placeable = {} THEN 0
  ELSE CHOOSE o \in Placeable : \A other \in Placeable : o <= other

Remaining == {o \in DOMAIN outputs : ~outputs[o].removed}

\* The outputs River may put a surface on that names none: the default output,
\* where one set in this sequence may count already or not yet; any without one.
Places == IF 0 \in {default, marked} THEN Remaining ELSE {default, marked}

\* The surface, with the size of the output it is measured for.
Shown(output) ==
  overlay' = [overlay EXCEPT !.active = TRUE, !.layer = TRUE, !.fd = "none",
                             !.output = output, !.asked = outputs[output].size]

\* A variant for mutation: a failure does not keep a surface from being made.
ShowDespiteFailure ==
  /\ UNCHANGED stdin
  /\ IF overlay.active \/ ~Globals \/ OutputForPicker = 0
     THEN UNCHANGED overlay
     ELSE Shown(OutputForPicker)

\* xw_picker_show: refused without a word when one is up already or when
\* something it needs is missing.
Show ==
  /\ UNCHANGED stdin
  /\ IF overlay.active \/ ~Globals \/ failed \/ OutputForPicker = 0
     THEN UNCHANGED overlay
     ELSE Shown(OutputForPicker)

\* picker_release_buffer: the buffer, the mapping and the descriptor go.
Released(shown) == [shown EXCEPT !.fd = "none", !.buffer = NoSize]

\* picker_shm_fd: memory for a buffer, or none.
Allocated(shown) == {[shown EXCEPT !.fd = "own", !.buffer = shown.size], shown}

\* picker_redraw: nothing is drawn without a width or a height; a buffer of the
\* right width is kept, whatever its height, another is replaced.
Drawable(size) == size[1] # 0 /\ size[2] # 0

Redrawn(shown) ==
  IF ~Drawable(shown.size) \/ (shown.buffer # NoSize /\ shown.buffer[1] = shown.size[1])
  THEN {shown}
  ELSE Allocated(Released(shown))

-----------------------------------------------------------------------------
(* Events of the compositor. The loop takes none after a failure or after  *)
(* finished.                                                               *)

Idle == at = "idle" /\ ~failed /\ ~finished

OutputCreated ==
  /\ Idle /\ nextId < Len(SizesOf)
  /\ nextId' = nextId + 1
  /\ outputs' = [o \in DOMAIN outputs \cup {nextId'} |->
                   IF o = nextId'
                   THEN [size |-> NoSize, announced |-> FALSE, removed |-> FALSE, dirty |-> FALSE]
                   ELSE outputs[o]]
  /\ UNCHANGED <<lockVars, placeVars, overlayVars, at, endVars, wmVars>>

\* output_position and output_dimensions.
OutputSized(o, size) ==
  /\ Idle /\ o \in DOMAIN outputs /\ ~outputs[o].removed
  /\ outputs' = [outputs EXCEPT ![o].size = size, ![o].dirty = TRUE]
  /\ UNCHANGED <<nextId, lockVars, placeVars, overlayVars, at, endVars, wmVars>>

OutputRemoved(o) ==
  /\ Idle /\ o \in DOMAIN outputs /\ ~outputs[o].removed
  /\ outputs' = [outputs EXCEPT ![o].removed = TRUE]
  /\ default' = IF default = o THEN 0 ELSE default
  /\ marked' = IF marked = o THEN 0 ELSE marked
  /\ UNCHANGED <<nextId, lockVars, pickerOutput, overlayVars, at, endVars, wmVars>>

SessionLocked ==
  /\ Idle
  /\ locked' = TRUE /\ lockChanged' = TRUE
  /\ UNCHANGED <<outputVars, placeVars, overlayVars, at, endVars, wmVars>>

SessionUnlocked ==
  /\ Idle
  /\ locked' = FALSE /\ lockChanged' = TRUE
  /\ UNCHANGED <<outputVars, placeVars, overlayVars, at, endVars, wmVars>>

\* picker_layer_configure, with any size and as often as the compositor likes.
LayerConfigured(size) ==
  /\ Idle /\ overlay.layer
  /\ overlay' \in Redrawn([overlay EXCEPT !.size = size])
  /\ UNCHANGED <<outputVars, lockVars, placeVars, stdin, at, endVars, wmVars>>

\* picker_layer_closed: the surface is forgotten, the overlay stays active.
LayerClosed ==
  /\ Idle /\ overlay.layer
  /\ overlay' = [overlay EXCEPT !.layer = FALSE]
  /\ UNCHANGED <<outputVars, lockVars, placeVars, stdin, at, endVars, wmVars>>

\* A variant for mutation: the end of the manager object only ends the loop.
FinishedOnly ==
  /\ Idle /\ stopSent
  /\ finished' = TRUE
  /\ UNCHANGED <<outputVars, lockVars, placeVars, overlayVars, at, failed, stopSent,
                 callbackFailed, wmVars>>

\* The compositor answers a stop request.
ManagerFinished ==
  /\ Idle /\ stopSent
  /\ finished' = TRUE
  /\ HideIfActive
  /\ UNCHANGED <<outputVars, lockVars, placeVars, at, failed, stopSent, callbackFailed,
                 wmVars>>

\* Another request or listener fails, inside a sequence or not.
BridgeFails ==
  /\ ~failed /\ ~finished
  /\ Fail
  /\ UNCHANGED <<outputVars, lockVars, placeVars, at, finished, stopSent, callbackFailed,
                 wmVars>>

\* containFailure, wherever the policy or an effect throws.
CallbackFails ==
  /\ at # "idle" /\ ~callbackFailed
  /\ callbackFailed' = TRUE
  /\ UNCHANGED <<outputVars, lockVars, placeVars, overlayVars, at, failed, finished,
                 stopSent, wmVars>>

-----------------------------------------------------------------------------
(* The manage sequence *)

ManageStart ==
  /\ Idle
  /\ at' = "lock"
  /\ UNCHANGED <<outputVars, lockVars, placeVars, overlayVars, endVars, wmVars>>

\* Events 9 and 10. A lock always asks for the overlay to be hidden.
PublishLock ==
  /\ at = "lock" /\ at' = "outputs"
  /\ lockChanged' = FALSE
  /\ IF lockChanged /\ ~callbackFailed
     THEN /\ wmMode' = IF locked THEN "normal" ELSE wmMode
          /\ effects' = IF locked THEN Append(effects, "hide") ELSE effects
     ELSE UNCHANGED <<wmMode, effects>>
  /\ UNCHANGED <<outputVars, locked, placeVars, overlayVars, endVars, wmOutputs, wmFocus>>

\* A variant for mutation: the focus outlives its output.
PolicyKeepsFocusAlways(known) ==
  wmFocus' \in IF wmFocus # 0 THEN {wmFocus} ELSE known \cup {0}

\* What the policy makes of its outputs: the focused one stays if it can.
PolicyKeepsFocus(known) ==
  wmFocus' \in IF wmFocus \in known THEN {wmFocus} ELSE IF known = {} THEN {0} ELSE known

\* The outputs published with event 1: new ones and changed ones.
Published == {o \in Remaining : outputs[o].dirty}

\* update_lifecycle: a removed output goes, with event 2 if the policy knows
\* it; a sequence that starts before an output has its geometry is fatal.
UpdateOutputs ==
  /\ at = "outputs" /\ at' = "inputs"
  /\ IF \E o \in Remaining : outputs[o].size = NoSize
     THEN /\ Fail
          /\ outputs' = [o \in Remaining |-> outputs[o]]
          /\ UNCHANGED <<wmOutputs, wmFocus>>
     ELSE /\ outputs' = [o \in Remaining |->
                           IF o \in Published
                           THEN [outputs[o] EXCEPT !.announced = TRUE, !.dirty = FALSE]
                           ELSE outputs[o]]
          /\ IF callbackFailed THEN UNCHANGED <<wmOutputs, wmFocus>>
             ELSE LET known == Published \cup (DOMAIN wmOutputs \cap Remaining)
                  IN  /\ wmOutputs' = [o \in known |-> IF o \in Published THEN outputs[o].size
                                                                         ELSE wmOutputs[o]]
                      /\ PolicyKeepsFocus(known)
          /\ UNCHANGED <<failed, overlayVars>>
  /\ UNCHANGED <<nextId, lockVars, placeVars, finished, stopSent, callbackFailed, wmMode,
                 effects>>

\* What the policy makes of an input. Letters are drawn over windows, so there
\* are none without an output; a click or a key may focus another output.
StartPicker ==
  \/ /\ wmFocus # 0
     /\ wmMode' = "picker" /\ effects' = Append(effects, "show")
  \/ UNCHANGED <<wmMode, effects>>

ClosePicker == wmMode' = "normal" /\ effects' = Append(effects, "hide")

\* bindingAt looks a key up in the mode the policy is in now; a key that means
\* nothing in it changes nothing.
PolicyTakes(key) ==
  \/ key = "pick" /\ wmMode = "normal" /\ StartPicker /\ UNCHANGED wmFocus
  \/ key = "close" /\ wmMode = "picker" /\ ClosePicker /\ UNCHANGED wmFocus
  \/ /\ key = "click"
     /\ wmFocus' \in DOMAIN wmOutputs \cup {wmFocus}
     /\ UNCHANGED <<wmMode, effects>>

\* drain_inputs: an input of the batch. Any may have been queued, in any order
\* and number, so the queue itself is left out; a locked session takes none.
DrainInput(key) ==
  /\ at = "inputs" /\ Len(effects) < MaxEffects
  /\ ~failed /\ ~locked /\ ~callbackFailed
  /\ PolicyTakes(key)
  /\ UNCHANGED <<outputVars, lockVars, placeVars, overlayVars, at, endVars, wmOutputs>>

\* set_default is sent for an output that has its layer object.
MarkDefault(o) ==
  /\ marked' = IF failed \/ callbackFailed \/ ~LayerShell \/ o \notin Remaining THEN marked ELSE o
  /\ UNCHANGED default

\* A variant for mutation: the picker keeps the output it was given first.
SetOutputOnce ==
  /\ at = "inputs"
  /\ at' = IF failed THEN "finish" ELSE "effects"
  /\ pickerOutput' = IF pickerOutput # 0 \/ failed \/ callbackFailed THEN pickerOutput ELSE wmFocus
  /\ MarkDefault(pickerOutput')
  /\ UNCHANGED <<outputVars, lockVars, overlayVars, endVars, wmVars>>

\* Event 7, first part: applyPolicy sets the output before any effect.
SetOutput ==
  /\ at = "inputs"
  /\ at' = IF failed THEN "finish" ELSE "effects"
  /\ pickerOutput' = IF failed \/ callbackFailed THEN pickerOutput ELSE wmFocus
  /\ MarkDefault(wmFocus)
  /\ UNCHANGED <<outputVars, lockVars, overlayVars, endVars, wmVars>>

\* A variant for mutation: the effects as they are pending, newest first.
NextEffect == effects[Len(effects)]
ExecuteNewestFirst ==
  /\ at = "effects" /\ effects # <<>> /\ ~callbackFailed
  /\ effects' = SubSeq(effects, 1, Len(effects) - 1)
  /\ IF NextEffect = "show" THEN Show ELSE Hide
  /\ UNCHANGED <<outputVars, lockVars, placeVars, at, endVars, wmOutputs, wmFocus, wmMode>>

\* Event 7, second part: the effects, oldest first. ShowPicker also sets the
\* labels of what is shown.
ExecuteEffect ==
  /\ at = "effects" /\ effects # <<>> /\ ~callbackFailed
  /\ effects' = Tail(effects)
  /\ IF Head(effects) = "show" THEN Show ELSE Hide
  /\ UNCHANGED <<outputVars, lockVars, placeVars, at, endVars, wmOutputs, wmFocus, wmMode>>

\* An exception loses the effects that were not executed yet.
EffectsExecuted ==
  /\ at = "effects" /\ (effects = <<>> \/ callbackFailed)
  /\ at' = "finish"
  /\ effects' = <<>>
  /\ UNCHANGED <<outputVars, lockVars, placeVars, overlayVars, endVars, wmOutputs,
                 wmFocus, wmMode>>

\* manage_finish, which applies what the sequence has set, and send_stop.
ManageFinish ==
  /\ at = "finish" /\ at' = "idle"
  /\ default' = IF failed THEN default ELSE marked
  /\ stopSent' = (stopSent \/ (callbackFailed /\ ~failed))
  /\ UNCHANGED <<outputVars, lockVars, pickerOutput, marked, overlayVars, failed, finished,
                 callbackFailed, wmVars>>

-----------------------------------------------------------------------------

ChangeOutputs ==
  \/ OutputCreated
  \/ \E o \in Ids : OutputRemoved(o) \/ \E size \in SizesOf[o] : OutputSized(o, size)

Compositor ==
  \/ ChangeOutputs \/ SessionLocked \/ SessionUnlocked
  \/ LayerClosed \/ \E size \in Suggested \cup {overlay.asked} : LayerConfigured(size)
  \/ ManageStart \/ ManagerFinished

\* One step of the handler that runs.
Handler ==
  \/ PublishLock \/ UpdateOutputs \/ SetOutput
  \/ \E key \in Keys : DrainInput(key)
  \/ ExecuteEffect \/ EffectsExecuted \/ ManageFinish

Next == Compositor \/ Handler \/ BridgeFails \/ CallbackFails

Spec == Init /\ [][Next]_vars

\* A handler that has begun runs to its end; the compositor starts a sequence
\* after a change of the lock and answers a stop, if not at once.
FairSpec ==
  /\ Spec
  /\ WF_vars(Handler)
  /\ WF_vars(ManageStart /\ lockChanged)
  /\ SF_vars(ManagerFinished)

-----------------------------------------------------------------------------
(* Properties *)

OutputsOK ==
  /\ nextId \in 0 .. Len(SizesOf) /\ pickerOutput \in 0 .. nextId
  /\ default \in 0 .. nextId /\ marked \in 0 .. nextId
  /\ DOMAIN outputs \subseteq 1 .. nextId
  /\ \A o \in DOMAIN outputs : outputs[o] \in OutputRecords
  /\ DOMAIN wmOutputs \subseteq 1 .. nextId
  /\ \A o \in DOMAIN wmOutputs : wmOutputs[o] \in Sizes
  /\ wmFocus \in DOMAIN wmOutputs \cup {0}

OverlayOK ==
  /\ overlay \in [active : BOOLEAN, layer : BOOLEAN, output : 0 .. nextId,
                  asked : Sizes \cup {NoSize}, fd : {"none", "own", "stdin"},
                  buffer : Configurable, size : Configurable]
  /\ stdin \in BOOLEAN

FlagsOK ==
  /\ locked \in BOOLEAN /\ lockChanged \in BOOLEAN
  /\ at \in Steps /\ failed \in BOOLEAN /\ finished \in BOOLEAN
  /\ stopSent \in BOOLEAN /\ callbackFailed \in BOOLEAN
  /\ wmMode \in {"normal", "picker"} /\ effects \in Seq(Effects)

\* Every variable has its type, and the policy focuses an output it knows.
TypeOK == OutputsOK /\ OverlayOK /\ FlagsOK

Working == ~failed /\ ~finished /\ ~callbackFailed

\* The inductive invariant. What the policy knows of an output is what the
\* bridge has of it until an event changes it; nothing does in a sequence,
OutputsKnown ==
  Working =>
    \A o \in DOMAIN wmOutputs :
      /\ o \in DOMAIN outputs /\ outputs[o].announced
      /\ outputs[o].dirty \/ outputs[o].size = wmOutputs[o]
      /\ at \in {"inputs", "effects"} => ~outputs[o].removed /\ ~outputs[o].dirty

\* so that what is to be shown has an output to be shown on;
EffectsKnown ==
  Working =>
    /\ at \in {"idle", "lock", "finish"} => effects = <<>>
    /\ "show" \in {effects[i] : i \in DOMAIN effects} => at \in {"inputs", "effects"} /\ wmFocus # 0
    /\ at = "effects" => /\ pickerOutput = wmFocus
                         /\ LayerShell /\ wmFocus # 0 => marked = wmFocus

\* the last effect brings the overlay to the mode, whatever came before it.
ModeKnown ==
  Working =>
    /\ effects # <<>> => (effects[Len(effects)] = "show" <=> wmMode = "picker")
    /\ effects = <<>> => (overlay.active <=> Globals /\ wmMode = "picker")

\* Between sequences the letters are up exactly while their keys are armed,
\* however often the picker was opened, used, cancelled or locked away within
\* one batch, unless the compositor took the surface away; without the globals
\* they are never up.
OverlayFollowsMode ==
  at = "idle" /\ Working => (overlay.active <=> Globals /\ wmMode = "picker")

\* Nothing of the overlay outlives it: after it is hidden, after a failure and
\* after the manager finished, also when the failure came in the middle of a
\* sequence whose remaining effects are still executed.
NothingLeft ==
  /\ failed \/ finished \/ ~Globals => ~overlay.active
  /\ ~overlay.active => overlay.buffer = NoSize /\ overlay.fd # "own" /\ ~overlay.layer

\* The manager object ends between sequences only.
EndsAtRest == finished => at = "idle"

\* What is drawn runs along the rows of the buffer that is mapped, through every
\* change of size and every hide, show and failed allocation between: a buffer of
\* another width is never drawn in, and none without a descriptor of its own.
\* Nothing is said of the height, which picker_redraw does not compare.
RowsFitBuffer ==
  overlay.buffer # NoSize =>
    /\ overlay.fd = "own"
    /\ Drawable(overlay.size) => overlay.buffer[1] = overlay.size[1]

OverlayInv ==
  TypeOK /\ EndsAtRest /\ OutputsKnown /\ EffectsKnown /\ ModeKnown /\ NothingLeft
    /\ RowsFitBuffer

\* bridge.c:1181, "One overlay surface on the focused output": the letters are
\* measured and drawn for the output the policy focuses, with the size by which
\* it placed the windows they are for, and never for the fallback or for an
\* output that was removed. Where they appear is River's choice: on that output
\* if it is the default one, which a focus made in the same sequence is only
\* when that is finished.
DrawnForFocusedOutput ==
  [][overlay'.active /\ ~overlay.active =>
       /\ wmFocus \in DOMAIN wmOutputs /\ overlay'.output = wmFocus
       /\ overlay'.asked = wmOutputs[wmFocus]
       /\ LayerShell /\ default = wmFocus => Places = {wmFocus}]_vars

\* A locked session shows no letters: when the lock comes while the overlay is
\* up it goes, though the policy be frozen by an exception.
LockHidesOverlay == locked /\ overlay.active ~> ~overlay.active \/ ~locked

\* bridge.c:1182, "Missing globals simply disable the visual overlay": then
\* hiding what was never shown changes nothing else of the process.
MissingGlobalsOnlyDisable == ~Globals => stdin

=============================================================================
