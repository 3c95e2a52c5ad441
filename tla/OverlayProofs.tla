---------------------------- MODULE OverlayProofs ----------------------------
(***************************************************************************)
(* Proofs about module Overlay, for any outputs and sizes, any number of   *)
(* pending effects, and with or without the globals.                       *)
(***************************************************************************)
EXTENDS Overlay, TLAPS

\* A size of an output is one of the sizes there are.
LEMMA SizesAreSizes ==
  ASSUME NEW o \in Ids
  PROVE  SizesOf[o] \subseteq Sizes
BY DEF Sizes

\* What adding an effect does to the sequence.
LEMMA EffectAdded ==
  ASSUME NEW q \in Seq(Effects), NEW e \in Effects
  PROVE  /\ Append(q, e) \in Seq(Effects) /\ Append(q, e) # <<>>
         /\ Append(q, e)[Len(Append(q, e))] = e
         /\ {Append(q, e)[i] : i \in DOMAIN Append(q, e)} = {q[i] : i \in DOMAIN q} \cup {e}
<1> DEFINE longer == Append(q, e)
<1>1. longer \in Seq(Effects) /\ Len(longer) = Len(q) + 1 /\ Len(q) \in Nat
  OBVIOUS
<1>a. longer # <<>>
  <2> HIDE DEF longer
  <2> QED BY <1>1
<1>2. longer[Len(longer)] = e /\ \A i \in 1 .. Len(q) : longer[i] = q[i]
  OBVIOUS
<1>3. DOMAIN longer = DOMAIN q \cup {Len(q) + 1} /\ DOMAIN q = 1 .. Len(q)
  OBVIOUS
<1>4. {longer[i] : i \in DOMAIN longer} = {q[i] : i \in DOMAIN q} \cup {e}
  <2> HIDE DEF longer
  <2>1. longer[Len(q) + 1] = e
    BY <1>1, <1>2
  <2> QED BY <2>1, <1>2, <1>3
<1> QED BY <1>1, <1>a, <1>2, <1>4

\* What executing the first effect does to the sequence.
LEMMA EffectTaken ==
  ASSUME NEW q \in Seq(Effects), q # <<>>
  PROVE  /\ Head(q) \in Effects /\ Tail(q) \in Seq(Effects)
         /\ Head(q) \in {q[i] : i \in DOMAIN q}
         /\ Tail(q) = <<>> => Head(q) = q[Len(q)]
         /\ Tail(q) # <<>> => Tail(q)[Len(Tail(q))] = q[Len(q)]
         /\ {Tail(q)[i] : i \in DOMAIN Tail(q)} \subseteq {q[i] : i \in DOMAIN q}
<1> DEFINE rest == Tail(q)
<1>1. Head(q) \in Effects /\ rest \in Seq(Effects) /\ Len(rest) = Len(q) - 1
  OBVIOUS
<1>2. 1 \in DOMAIN q /\ Head(q) = q[1]
  OBVIOUS
<1>3. rest = <<>> => Len(q) = 1
  BY <1>1
<1>4. \A i \in DOMAIN rest : i + 1 \in DOMAIN q /\ rest[i] = q[i + 1]
  OBVIOUS
<1>5. rest # <<>> => Len(rest) \in DOMAIN rest
  BY <1>1
<1> QED
  <2> HIDE DEF rest
  <2>1. rest # <<>> => rest[Len(rest)] = q[Len(q)]
    BY <1>1, <1>4, <1>5
  <2>2. {rest[i] : i \in DOMAIN rest} \subseteq {q[i] : i \in DOMAIN q}
    BY <1>4
  <2> QED BY <1>1, <1>2, <1>3, <2>1, <2>2 DEF rest

-----------------------------------------------------------------------------
(* Types *)

\* Flags, places and effects keep their types.
LEMMA FlagsStep == FlagsOK /\ [Next]_vars => FlagsOK'
<1> SUFFICES ASSUME FlagsOK, [Next]_vars PROVE FlagsOK'
  OBVIOUS
<1> USE DEF FlagsOK, Idle, Steps, outputVars, lockVars, placeVars, overlayVars, endVars, wmVars
<1>1. CASE OutputCreated
  BY <1>1 DEF OutputCreated
<1>2. ASSUME NEW o \in Ids, OutputRemoved(o) PROVE FlagsOK'
  BY <1>2 DEF OutputRemoved
<1>3. ASSUME NEW o \in Ids, NEW size \in SizesOf[o], OutputSized(o, size) PROVE FlagsOK'
  BY <1>3 DEF OutputSized
<1>4. CASE SessionLocked
  BY <1>4 DEF SessionLocked
<1>5. CASE SessionUnlocked
  BY <1>5 DEF SessionUnlocked
<1>6. ASSUME NEW size \in Suggested \cup {overlay.asked}, LayerConfigured(size) PROVE FlagsOK'
  BY <1>6 DEF LayerConfigured
<1>7. CASE LayerClosed
  BY <1>7 DEF LayerClosed
<1>8. CASE ManageStart
  BY <1>8 DEF ManageStart
<1>9. CASE ManagerFinished
  BY <1>9 DEF ManagerFinished
<1>10. CASE PublishLock
  BY <1>10, EffectAdded DEF PublishLock, Effects
<1>11. CASE UpdateOutputs
  BY <1>11 DEF UpdateOutputs, Fail
<1>12. ASSUME NEW key \in Keys, DrainInput(key) PROVE FlagsOK'
  BY <1>12, EffectAdded DEF DrainInput, PolicyTakes, StartPicker, ClosePicker, Effects
<1>13. CASE SetOutput
  BY <1>13 DEF SetOutput
<1>14. CASE ExecuteEffect
  BY <1>14, EffectTaken DEF ExecuteEffect
<1>15. CASE EffectsExecuted
  BY <1>15 DEF EffectsExecuted
<1>16. CASE ManageFinish
  BY <1>16 DEF ManageFinish
<1>17. CASE BridgeFails
  BY <1>17 DEF BridgeFails, Fail
<1>18. CASE CallbackFails
  BY <1>18 DEF CallbackFails
<1>19. CASE UNCHANGED vars
  BY <1>19 DEF vars
<1> QED
  BY <1>1, <1>2, <1>3, <1>4, <1>5, <1>6, <1>7, <1>8, <1>9, <1>10, <1>11, <1>12, <1>13, <1>14,
     <1>15, <1>16, <1>17, <1>18, <1>19
  DEF Next, Compositor, ChangeOutputs, Handler

\* Output records, and what the policy knows of them, keep their types.
LEMMA OutputsStep == OutputsOK /\ [Next]_vars => OutputsOK'
<1> SUFFICES ASSUME OutputsOK, [Next]_vars PROVE OutputsOK'
  OBVIOUS
<1> USE OverlayAssumption DEF OutputsOK, Idle, outputVars, lockVars, placeVars, overlayVars, endVars, wmVars
<1>1. CASE OutputCreated
  <2>1. /\ nextId' \in 0 .. Len(SizesOf) /\ nextId' = nextId + 1
        /\ DOMAIN outputs' = DOMAIN outputs \cup {nextId'}
    BY <1>1 DEF OutputCreated
  <2>2. \A o \in DOMAIN outputs' : outputs'[o] \in OutputRecords
    BY <1>1 DEF OutputCreated, OutputRecords
  <2>3. 0 .. nextId \subseteq 0 .. nextId' /\ 1 .. nextId \subseteq 1 .. nextId' /\ nextId' \in 1 .. nextId'
    BY <2>1
  <2>4. UNCHANGED <<pickerOutput, default, marked, wmOutputs, wmFocus>>
    BY <1>1 DEF OutputCreated
  <2> QED BY <2>1, <2>2, <2>3, <2>4
<1>2. ASSUME NEW o \in Ids, OutputRemoved(o) PROVE OutputsOK'
  <2>1. [outputs[o] EXCEPT !.removed = TRUE] \in OutputRecords
    BY <1>2 DEF OutputRemoved, OutputRecords
  <2> QED BY <1>2, <2>1 DEF OutputRemoved
<1>3. ASSUME NEW o \in Ids, NEW size \in SizesOf[o], OutputSized(o, size) PROVE OutputsOK'
  <2>1. [outputs[o] EXCEPT !.size = size, !.dirty = TRUE] \in OutputRecords
    BY <1>3, SizesAreSizes DEF OutputSized, OutputRecords
  <2>2. outputs' = [outputs EXCEPT ![o] = [outputs[o] EXCEPT !.size = size, !.dirty = TRUE]]
    BY <1>3 DEF OutputSized
  <2> QED BY <1>3, <2>1, <2>2 DEF OutputSized
<1>4. CASE SessionLocked
  BY <1>4 DEF SessionLocked
<1>5. CASE SessionUnlocked
  BY <1>5 DEF SessionUnlocked
<1>6. ASSUME NEW size \in Suggested \cup {overlay.asked}, LayerConfigured(size) PROVE OutputsOK'
  BY <1>6 DEF LayerConfigured
<1>7. CASE LayerClosed
  BY <1>7 DEF LayerClosed
<1>8. CASE ManageStart
  BY <1>8 DEF ManageStart
<1>9. CASE ManagerFinished
  BY <1>9 DEF ManagerFinished
<1>10. CASE PublishLock
  BY <1>10 DEF PublishLock
<1>11. CASE UpdateOutputs
  <2>1. Published \subseteq Remaining /\ Remaining \subseteq DOMAIN outputs
    BY DEF Published, Remaining
  <2>2. /\ DOMAIN outputs' \subseteq 1 .. nextId
        /\ \A o \in DOMAIN outputs' : outputs'[o] \in OutputRecords
    <3>1. \A o \in Remaining : [outputs[o] EXCEPT !.announced = TRUE, !.dirty = FALSE] \in OutputRecords
      BY <2>1 DEF OutputRecords
    <3> QED BY <1>11, <2>1, <3>1 DEF UpdateOutputs
  <2>3. /\ DOMAIN wmOutputs' \subseteq 1 .. nextId /\ wmFocus' \in DOMAIN wmOutputs' \cup {0}
        /\ \A o \in DOMAIN wmOutputs' : wmOutputs'[o] \in Sizes
    <3>1. CASE UNCHANGED <<wmOutputs, wmFocus>>
      BY <3>1
    <3>2. CASE ~UNCHANGED <<wmOutputs, wmFocus>>
      <4> DEFINE known == Published \cup (DOMAIN wmOutputs \cap Remaining)
      <4>1. /\ \A o \in Remaining : outputs[o].size # NoSize
            /\ wmOutputs' = [o \in known |-> IF o \in Published THEN outputs[o].size ELSE wmOutputs[o]]
            /\ PolicyKeepsFocus(known)
        BY <1>11, <3>2 DEF UpdateOutputs
      <4>2. \A o \in Published : outputs[o].size \in Sizes
        BY <4>1, <2>1 DEF OutputRecords
      <4>3. known \subseteq 1 .. nextId /\ DOMAIN wmOutputs' = known
        BY <4>1, <2>1
      <4>4. wmFocus' \in known \cup {0}
        BY <4>1 DEF PolicyKeepsFocus
      <4>5. \A o \in known : wmOutputs'[o] \in Sizes
        BY <4>1, <4>2
      <4> HIDE DEF known
      <4> QED BY <4>3, <4>4, <4>5
    <3> QED BY <3>1, <3>2
  <2> QED BY <1>11, <2>2, <2>3 DEF UpdateOutputs
<1>12. ASSUME NEW key \in Keys, DrainInput(key) PROVE OutputsOK'
  BY <1>12 DEF DrainInput, PolicyTakes, StartPicker, ClosePicker
<1>13. CASE SetOutput
  BY <1>13 DEF SetOutput, MarkDefault
<1>14. CASE ExecuteEffect
  BY <1>14 DEF ExecuteEffect
<1>15. CASE EffectsExecuted
  BY <1>15 DEF EffectsExecuted
<1>16. CASE ManageFinish
  BY <1>16 DEF ManageFinish
<1>17. CASE BridgeFails
  BY <1>17 DEF BridgeFails
<1>18. CASE CallbackFails
  BY <1>18 DEF CallbackFails
<1>19. CASE UNCHANGED vars
  BY <1>19 DEF vars
<1> QED
  BY <1>1, <1>2, <1>3, <1>4, <1>5, <1>6, <1>7, <1>8, <1>9, <1>10, <1>11, <1>12, <1>13, <1>14,
     <1>15, <1>16, <1>17, <1>18, <1>19
  DEF Next, Compositor, ChangeOutputs, Handler

\* In a sequence that was not disturbed an effect that shows finds the focused
\* output: the fallback of picker_output is never taken.
LEMMA ShowOnFocus ==
  ASSUME TypeOK, OutputsKnown, EffectsKnown, Working, at = "effects",
         effects # <<>>, Head(effects) = "show"
  PROVE  /\ wmFocus \in Placeable /\ OutputForPicker = wmFocus
         /\ wmFocus \in DOMAIN wmOutputs /\ wmFocus \in DOMAIN outputs
         /\ outputs[wmFocus].size = wmOutputs[wmFocus]
<1>1. Head(effects) \in {effects[i] : i \in DOMAIN effects}
  BY EffectTaken DEF TypeOK, FlagsOK
<1>2. wmFocus # 0 /\ pickerOutput = wmFocus
  BY <1>1 DEF EffectsKnown
<1>3. wmFocus \in DOMAIN wmOutputs
  BY <1>2 DEF TypeOK, OutputsOK
<1>4. /\ wmFocus \in DOMAIN outputs /\ outputs[wmFocus].announced
      /\ ~outputs[wmFocus].removed /\ outputs[wmFocus].size = wmOutputs[wmFocus]
  BY <1>3 DEF OutputsKnown
<1> QED BY <1>2, <1>3, <1>4 DEF Placeable, OutputForPicker

\* The value of the overlay after a show that the code does not refuse.
LEMMA ShowStep ==
  ASSUME OverlayInv, at = "effects", ~callbackFailed, effects # <<>>, Head(effects) = "show", Show
  PROVE  \/ UNCHANGED overlay
         \/ /\ Working /\ Globals /\ ~overlay.active
            /\ wmFocus \in DOMAIN outputs /\ wmFocus \in DOMAIN wmOutputs
            /\ outputs[wmFocus].size = wmOutputs[wmFocus]
            /\ overlay' = [overlay EXCEPT !.active = TRUE, !.layer = TRUE, !.fd = "none",
                                          !.output = wmFocus, !.asked = wmOutputs[wmFocus]]
<1> SUFFICES ASSUME ~UNCHANGED overlay
             PROVE  /\ Working /\ Globals /\ ~overlay.active
                    /\ wmFocus \in DOMAIN outputs /\ wmFocus \in DOMAIN wmOutputs
                    /\ outputs[wmFocus].size = wmOutputs[wmFocus]
                    /\ overlay' = [overlay EXCEPT !.active = TRUE, !.layer = TRUE, !.fd = "none",
                                                  !.output = wmFocus, !.asked = wmOutputs[wmFocus]]
  OBVIOUS
<1>1. /\ ~overlay.active /\ Globals /\ ~failed
      /\ overlay' = [overlay EXCEPT !.active = TRUE, !.layer = TRUE, !.fd = "none",
                                    !.output = OutputForPicker,
                                    !.asked = outputs[OutputForPicker].size]
  BY DEF Show, Shown
<1>2. Working
  BY <1>1 DEF Working, OverlayInv, EndsAtRest, TypeOK, FlagsOK
<1>3. /\ OutputForPicker = wmFocus /\ wmFocus \in DOMAIN wmOutputs /\ wmFocus \in DOMAIN outputs
      /\ outputs[wmFocus].size = wmOutputs[wmFocus]
  BY <1>2, ShowOnFocus DEF OverlayInv
<1> QED BY <1>1, <1>2, <1>3

OverlayRecord ==
  [active : BOOLEAN, layer : BOOLEAN, output : 0 .. nextId, asked : Sizes \cup {NoSize},
   fd : {"none", "own", "stdin"}, buffer : Configurable, size : Configurable]

\* Hiding, if at all, leaves no overlay.
LEMMA HideStep ==
  ASSUME OverlayOK, OutputsOK, UNCHANGED nextId, Hide \/ HideIfActive
  PROVE  /\ OverlayOK'
         /\ overlay' = NoOverlay \/ (UNCHANGED overlay /\ ~overlay.active)
<1>1. NoOverlay \in OverlayRecord'
  BY DEF NoOverlay, OverlayRecord, OutputsOK, Configurable
<1>2. overlay \in OverlayRecord'
  BY DEF OverlayRecord, OverlayOK
<1>3. stdin \in BOOLEAN
  BY DEF OverlayOK
<1>4. \/ overlay' = NoOverlay /\ stdin' \in BOOLEAN
      \/ UNCHANGED overlay /\ ~overlay.active /\ stdin' \in BOOLEAN
  BY <1>3 DEF Hide, HideIfActive, overlayVars
<1> QED BY <1>1, <1>2, <1>4 DEF OverlayOK, OverlayRecord

\* A configured overlay keeps its buffer where there is nothing to draw or the
\* width is the same, has a new one of the configured size, or has none.
LEMMA ConfigureStep ==
  ASSUME OverlayOK, OutputsOK, NEW size \in Suggested \cup {overlay.asked},
         UNCHANGED <<nextId, stdin>>, overlay' \in Redrawn([overlay EXCEPT !.size = size])
  PROVE  /\ OverlayOK'
         /\ overlay'.active = overlay.active /\ overlay'.layer = overlay.layer
         /\ overlay'.size = size
         /\ \/ /\ overlay'.buffer = overlay.buffer /\ overlay'.fd = overlay.fd
               /\ overlay.buffer = NoSize \/ ~Drawable(size) \/ overlay.buffer[1] = size[1]
            \/ overlay'.buffer = size /\ overlay'.fd = "own"
            \/ overlay'.buffer = NoSize /\ overlay'.fd = "none"
<1> DEFINE shown == [overlay EXCEPT !.size = size]
           freed == [shown EXCEPT !.fd = "none", !.buffer = NoSize]
           made == [freed EXCEPT !.fd = "own", !.buffer = freed.size]
<1>1. overlay \in OverlayRecord' /\ size \in Configurable /\ NoSize \in Configurable
  BY DEF OverlayOK, OverlayRecord, Configurable
<1>2. shown \in OverlayRecord' /\ shown.size = size
      /\ shown.active = overlay.active /\ shown.layer = overlay.layer
      /\ shown.buffer = overlay.buffer /\ shown.fd = overlay.fd
  BY <1>1 DEF OverlayRecord
<1>3. freed \in OverlayRecord' /\ freed.size = size
      /\ freed.active = overlay.active /\ freed.layer = overlay.layer
      /\ freed.buffer = NoSize /\ freed.fd = "none"
  <2> HIDE DEF shown
  <2> QED BY <1>1, <1>2 DEF OverlayRecord
<1>4. made \in OverlayRecord' /\ made.size = size
      /\ made.active = overlay.active /\ made.layer = overlay.layer
      /\ made.buffer = size /\ made.fd = "own"
  <2> HIDE DEF freed
  <2> QED BY <1>1, <1>3 DEF OverlayRecord
<1>5. overlay' \in IF ~Drawable(shown.size) \/ (shown.buffer # NoSize /\ shown.buffer[1] = shown.size[1])
                   THEN {shown} ELSE {freed, made}
  BY DEF Redrawn, Allocated, Released
<1> HIDE DEF shown, freed, made
<1>6. stdin' \in BOOLEAN
  BY DEF OverlayOK
<1>7. overlay' \in OverlayRecord'
  BY <1>2, <1>3, <1>4, <1>5
<1> QED BY <1>2, <1>3, <1>4, <1>5, <1>6, <1>7 DEF OverlayOK, OverlayRecord

LEMMA OverlaySame ==
  ASSUME OverlayInv, UNCHANGED <<nextId, overlay, stdin>>
  PROVE  OverlayOK'
BY DEF OverlayInv, TypeOK, OverlayOK

\* The overlay keeps its type; it needs the invariant, or the fallback output
\* would have to be shown to exist.
LEMMA OverlayStep == OverlayInv /\ [Next]_vars => OverlayOK'
<1> SUFFICES ASSUME OverlayInv, [Next]_vars PROVE OverlayOK'
  OBVIOUS
<1> USE DEF Idle, outputVars, lockVars, placeVars, overlayVars, endVars, wmVars
<1>1. CASE OutputCreated
  <2>1. 0 .. nextId \subseteq 0 .. nextId'
    BY <1>1 DEF OutputCreated, OverlayInv, TypeOK, OutputsOK
  <2> QED BY <1>1, <2>1 DEF OutputCreated, OverlayOK, OverlayInv, TypeOK
<1>2. ASSUME NEW o \in Ids, OutputRemoved(o) PROVE OverlayOK'
  BY <1>2, OverlaySame DEF OutputRemoved
<1>3. ASSUME NEW o \in Ids, NEW size \in SizesOf[o], OutputSized(o, size) PROVE OverlayOK'
  BY <1>3, OverlaySame DEF OutputSized
<1>4. CASE SessionLocked
  BY <1>4, OverlaySame DEF SessionLocked
<1>5. CASE SessionUnlocked
  BY <1>5, OverlaySame DEF SessionUnlocked
<1>6. ASSUME NEW size \in Suggested \cup {overlay.asked}, LayerConfigured(size) PROVE OverlayOK'
  BY <1>6, ConfigureStep DEF LayerConfigured, OverlayInv, TypeOK
<1>7. CASE LayerClosed
  BY <1>7 DEF LayerClosed, OverlayInv, TypeOK, OverlayOK
<1>8. CASE ManageStart
  BY <1>8, OverlaySame DEF ManageStart
<1>9. CASE ManagerFinished
  BY <1>9, HideStep DEF ManagerFinished, OverlayInv, TypeOK
<1>10. CASE PublishLock
  BY <1>10, OverlaySame DEF PublishLock
<1>11. CASE UpdateOutputs
  <2>1. CASE Fail
    BY <1>11, <2>1, HideStep DEF UpdateOutputs, Fail, OverlayInv, TypeOK
  <2>2. CASE UNCHANGED overlayVars
    BY <1>11, <2>2, OverlaySame DEF UpdateOutputs
  <2> QED BY <1>11, <2>1, <2>2 DEF UpdateOutputs
<1>12. ASSUME NEW key \in Keys, DrainInput(key) PROVE OverlayOK'
  BY <1>12, OverlaySame DEF DrainInput
<1>13. CASE SetOutput
  BY <1>13, OverlaySame DEF SetOutput
<1>14. CASE ExecuteEffect
  <2>1. CASE Head(effects) = "show"
    <3>1. Show /\ UNCHANGED <<nextId, stdin>>
      BY <1>14, <2>1 DEF ExecuteEffect, Show
    <3>2. CASE UNCHANGED overlay
      BY <3>1, <3>2, OverlaySame
    <3>3. CASE /\ wmFocus \in DOMAIN wmOutputs
               /\ overlay' = [overlay EXCEPT !.active = TRUE, !.layer = TRUE, !.fd = "none",
                                             !.output = wmFocus, !.asked = wmOutputs[wmFocus]]
      <4>1. wmFocus \in 0 .. nextId /\ wmOutputs[wmFocus] \in Sizes
        BY <3>3 DEF OverlayInv, TypeOK, OutputsOK
      <4> QED BY <3>1, <3>3, <4>1 DEF OverlayInv, TypeOK, OverlayOK
    <3> QED BY <1>14, <2>1, <3>1, <3>2, <3>3, ShowStep DEF ExecuteEffect
  <2>2. CASE Head(effects) # "show"
    BY <1>14, <2>2, HideStep DEF ExecuteEffect, OverlayInv, TypeOK
  <2> QED BY <2>1, <2>2
<1>15. CASE EffectsExecuted
  BY <1>15, OverlaySame DEF EffectsExecuted
<1>16. CASE ManageFinish
  BY <1>16, OverlaySame DEF ManageFinish
<1>17. CASE BridgeFails
  BY <1>17, HideStep DEF BridgeFails, Fail, OverlayInv, TypeOK
<1>18. CASE CallbackFails
  BY <1>18, OverlaySame DEF CallbackFails
<1>19. CASE UNCHANGED vars
  BY <1>19, OverlaySame DEF vars
<1> QED
  BY <1>1, <1>2, <1>3, <1>4, <1>5, <1>6, <1>7, <1>8, <1>9, <1>10, <1>11, <1>12, <1>13, <1>14,
     <1>15, <1>16, <1>17, <1>18, <1>19
  DEF Next, Compositor, ChangeOutputs, Handler

-----------------------------------------------------------------------------
(* The invariant *)

\* The manager object ends between sequences.
LEMMA EndsStep == EndsAtRest /\ [Next]_vars => EndsAtRest'
<1> SUFFICES ASSUME EndsAtRest, [Next]_vars PROVE EndsAtRest'
  OBVIOUS
<1> USE DEF EndsAtRest, Idle, outputVars, lockVars, placeVars, overlayVars, endVars, wmVars
<1>1. CASE OutputCreated
  BY <1>1 DEF OutputCreated
<1>2. ASSUME NEW o \in Ids, OutputRemoved(o) PROVE EndsAtRest'
  BY <1>2 DEF OutputRemoved
<1>3. ASSUME NEW o \in Ids, NEW size \in SizesOf[o], OutputSized(o, size) PROVE EndsAtRest'
  BY <1>3 DEF OutputSized
<1>4. CASE SessionLocked
  BY <1>4 DEF SessionLocked
<1>5. CASE SessionUnlocked
  BY <1>5 DEF SessionUnlocked
<1>6. ASSUME NEW size \in Suggested \cup {overlay.asked}, LayerConfigured(size) PROVE EndsAtRest'
  BY <1>6 DEF LayerConfigured
<1>7. CASE LayerClosed
  BY <1>7 DEF LayerClosed
<1>8. CASE ManageStart
  BY <1>8 DEF ManageStart
<1>9. CASE ManagerFinished
  BY <1>9 DEF ManagerFinished
<1>10. CASE PublishLock
  BY <1>10 DEF PublishLock
<1>11. CASE UpdateOutputs
  BY <1>11 DEF UpdateOutputs, Fail
<1>12. ASSUME NEW key \in Keys, DrainInput(key) PROVE EndsAtRest'
  BY <1>12 DEF DrainInput
<1>13. CASE SetOutput
  BY <1>13 DEF SetOutput
<1>14. CASE ExecuteEffect
  BY <1>14 DEF ExecuteEffect
<1>15. CASE EffectsExecuted
  BY <1>15 DEF EffectsExecuted
<1>16. CASE ManageFinish
  BY <1>16 DEF ManageFinish
<1>17. CASE BridgeFails
  BY <1>17 DEF BridgeFails, Fail
<1>18. CASE CallbackFails
  BY <1>18 DEF CallbackFails
<1>19. CASE UNCHANGED vars
  BY <1>19 DEF vars
<1> QED
  BY <1>1, <1>2, <1>3, <1>4, <1>5, <1>6, <1>7, <1>8, <1>9, <1>10, <1>11, <1>12, <1>13, <1>14,
     <1>15, <1>16, <1>17, <1>18, <1>19
  DEF Next, Compositor, ChangeOutputs, Handler

\* Events change what the bridge has of an output and mark it; a sequence that
\* begins to take input has published it.
LEMMA OutputsKnownStep == OverlayInv /\ [Next]_vars => OutputsKnown'
<1> SUFFICES ASSUME OverlayInv, [Next]_vars PROVE OutputsKnown'
  OBVIOUS
<1> USE DEF OutputsKnown, Working, Idle, outputVars, lockVars, placeVars, overlayVars, endVars, wmVars
<1>1. CASE OutputCreated
  <2>1. \A o \in DOMAIN outputs : outputs'[o] = outputs[o] /\ o \in DOMAIN outputs'
    BY <1>1 DEF OutputCreated, OverlayInv, TypeOK, OutputsOK
  <2> QED BY <1>1, <2>1 DEF OutputCreated, OverlayInv
<1>2. ASSUME NEW o \in Ids, OutputRemoved(o) PROVE OutputsKnown'
  <2>1. /\ DOMAIN outputs' = DOMAIN outputs /\ at' = "idle"
        /\ \A u \in DOMAIN outputs : /\ outputs'[u].announced = outputs[u].announced
                                     /\ outputs'[u].dirty = outputs[u].dirty
                                     /\ outputs'[u].size = outputs[u].size
    BY <1>2 DEF OutputRemoved, OverlayInv, TypeOK, OutputsOK, OutputRecords
  <2> QED BY <1>2, <2>1 DEF OutputRemoved, OverlayInv
<1>3. ASSUME NEW o \in Ids, NEW size \in SizesOf[o], OutputSized(o, size) PROVE OutputsKnown'
  <2>1. /\ DOMAIN outputs' = DOMAIN outputs /\ at' = "idle"
        /\ \A u \in DOMAIN outputs : /\ outputs'[u].announced = outputs[u].announced
                                     /\ outputs'[u].dirty \/ outputs'[u] = outputs[u]
    BY <1>3 DEF OutputSized, OverlayInv, TypeOK, OutputsOK, OutputRecords
  <2> QED BY <1>3, <2>1 DEF OutputSized, OverlayInv
<1>4. CASE SessionLocked
  BY <1>4 DEF SessionLocked, OverlayInv
<1>5. CASE SessionUnlocked
  BY <1>5 DEF SessionUnlocked, OverlayInv
<1>6. ASSUME NEW size \in Suggested \cup {overlay.asked}, LayerConfigured(size) PROVE OutputsKnown'
  BY <1>6 DEF LayerConfigured, OverlayInv
<1>7. CASE LayerClosed
  BY <1>7 DEF LayerClosed, OverlayInv
<1>8. CASE ManageStart
  BY <1>8 DEF ManageStart, OverlayInv
<1>9. CASE ManagerFinished
  BY <1>9 DEF ManagerFinished
<1>10. CASE PublishLock
  BY <1>10 DEF PublishLock, OverlayInv
<1>11. CASE UpdateOutputs
  <2>1. CASE Fail
    BY <2>1 DEF Fail
  <2>2. CASE callbackFailed
    BY <1>11, <2>2 DEF UpdateOutputs
  <2>3. CASE ~Fail /\ ~callbackFailed
    <3> DEFINE known == Published \cup (DOMAIN wmOutputs \cap Remaining)
    <3>1. /\ outputs' = [o \in Remaining |->
                           IF o \in Published
                           THEN [outputs[o] EXCEPT !.announced = TRUE, !.dirty = FALSE]
                           ELSE outputs[o]]
          /\ wmOutputs' = [o \in known |-> IF o \in Published THEN outputs[o].size ELSE wmOutputs[o]]
      BY <1>11, <2>3 DEF UpdateOutputs
    <3>2. ASSUME Working', NEW o \in DOMAIN wmOutputs'
          PROVE  /\ o \in DOMAIN outputs' /\ outputs'[o].announced /\ ~outputs'[o].removed
                 /\ ~outputs'[o].dirty /\ outputs'[o].size = wmOutputs'[o]
      <4>1. Working
        BY <1>11, <2>3, <3>2 DEF UpdateOutputs
      <4>2. o \in known /\ o \in Remaining /\ o \in DOMAIN outputs /\ ~outputs[o].removed
        BY <3>1, <3>2 DEF Published, Remaining
      <4>3. CASE o \in Published
        <5>1. outputs[o] \in OutputRecords
          BY <4>2 DEF OverlayInv, TypeOK, OutputsOK
        <5> QED BY <3>1, <4>2, <4>3, <5>1 DEF OutputRecords
      <4>4. CASE o \notin Published
        <5>1. o \in DOMAIN wmOutputs /\ ~outputs[o].dirty
          BY <4>2, <4>4 DEF Published
        <5>2. outputs[o].announced /\ outputs[o].size = wmOutputs[o]
          BY <4>1, <5>1 DEF OverlayInv
        <5> QED BY <3>1, <4>2, <4>4, <5>1, <5>2
      <4> QED BY <4>3, <4>4
    <3> QED BY <3>2
  <2> QED BY <2>1, <2>2, <2>3
<1>12. ASSUME NEW key \in Keys, DrainInput(key) PROVE OutputsKnown'
  BY <1>12 DEF DrainInput, OverlayInv
<1>13. CASE SetOutput
  BY <1>13 DEF SetOutput, OverlayInv
<1>14. CASE ExecuteEffect
  BY <1>14 DEF ExecuteEffect, OverlayInv
<1>15. CASE EffectsExecuted
  BY <1>15 DEF EffectsExecuted, OverlayInv
<1>16. CASE ManageFinish
  BY <1>16 DEF ManageFinish, OverlayInv
<1>17. CASE BridgeFails
  BY <1>17 DEF BridgeFails, Fail
<1>18. CASE CallbackFails
  BY <1>18 DEF CallbackFails, OverlayInv
<1>19. CASE UNCHANGED vars
  BY <1>19 DEF vars, OverlayInv
<1> QED
  BY <1>1, <1>2, <1>3, <1>4, <1>5, <1>6, <1>7, <1>8, <1>9, <1>10, <1>11, <1>12, <1>13, <1>14,
     <1>15, <1>16, <1>17, <1>18, <1>19
  DEF Next, Compositor, ChangeOutputs, Handler

\* An effect that shows is only added where there is an output to show it on.
LEMMA EffectsKnownStep == OverlayInv /\ [Next]_vars => EffectsKnown'
<1> SUFFICES ASSUME OverlayInv, [Next]_vars PROVE EffectsKnown'
  OBVIOUS
<1> USE DEF EffectsKnown, Working, Idle, outputVars, lockVars, placeVars, overlayVars, endVars, wmVars
<1>0. EffectsKnown
  BY DEF OverlayInv
<1>1. CASE OutputCreated
  BY <1>0, <1>1 DEF OutputCreated
<1>2. ASSUME NEW o \in Ids, OutputRemoved(o) PROVE EffectsKnown'
  BY <1>0, <1>2 DEF OutputRemoved
<1>3. ASSUME NEW o \in Ids, NEW size \in SizesOf[o], OutputSized(o, size) PROVE EffectsKnown'
  BY <1>0, <1>3 DEF OutputSized
<1>4. CASE SessionLocked
  BY <1>0, <1>4 DEF SessionLocked
<1>5. CASE SessionUnlocked
  BY <1>0, <1>5 DEF SessionUnlocked
<1>6. ASSUME NEW size \in Suggested \cup {overlay.asked}, LayerConfigured(size) PROVE EffectsKnown'
  BY <1>0, <1>6 DEF LayerConfigured
<1>7. CASE LayerClosed
  BY <1>0, <1>7 DEF LayerClosed
<1>8. CASE ManageStart
  BY <1>0, <1>8 DEF ManageStart
<1>9. CASE ManagerFinished
  BY <1>0, <1>9 DEF ManagerFinished
<1>10. CASE PublishLock
  <2>1. effects = <<>> \/ ~Working
    BY <1>0, <1>10 DEF PublishLock
  <2>2. effects \in Seq(Effects)
    BY DEF OverlayInv, TypeOK, FlagsOK
  <2>3. Working => {effects'[i] : i \in DOMAIN effects'} \subseteq {"hide"}
    <3>1. effects = <<>> => {effects[i] : i \in DOMAIN effects} = {}
      OBVIOUS
    <3>2. {Append(effects, "hide")[i] : i \in DOMAIN Append(effects, "hide")}
            = {effects[i] : i \in DOMAIN effects} \cup {"hide"}
      BY <2>2, EffectAdded DEF Effects
    <3> QED BY <1>10, <2>1, <3>1, <3>2 DEF PublishLock
  <2> QED BY <1>0, <1>10, <2>3 DEF PublishLock
<1>11. CASE UpdateOutputs
  BY <1>0, <1>11 DEF UpdateOutputs, Fail
<1>12. ASSUME NEW key \in Keys, DrainInput(key) PROVE EffectsKnown'
  <2>1. effects \in Seq(Effects)
    BY DEF OverlayInv, TypeOK, FlagsOK
  <2>2. \A e \in Effects : {Append(effects, e)[i] : i \in DOMAIN Append(effects, e)}
                             = {effects[i] : i \in DOMAIN effects} \cup {e}
    BY <2>1, EffectAdded
  <2>3. wmFocus # 0 => wmFocus' # 0
    BY <1>12 DEF DrainInput, PolicyTakes, OverlayInv, TypeOK, OutputsOK
  <2>4. \/ "show" \in {effects'[i] : i \in DOMAIN effects'} => "show" \in {effects[i] : i \in DOMAIN effects}
        \/ wmFocus # 0
    BY <1>12, <2>2 DEF DrainInput, PolicyTakes, StartPicker, ClosePicker, Effects
  <2> QED BY <1>0, <1>12, <2>3, <2>4 DEF DrainInput
<1>13. CASE SetOutput
  <2>1. ASSUME Working, wmFocus # 0 PROVE wmFocus \in Remaining
    BY <1>13, <2>1 DEF SetOutput, Remaining, OverlayInv, OutputsKnown, TypeOK, OutputsOK
  <2>2. Working /\ LayerShell /\ wmFocus # 0 => marked' = wmFocus
    BY <1>13, <2>1 DEF SetOutput, MarkDefault
  <2> QED BY <1>0, <1>13, <2>2 DEF SetOutput
<1>14. CASE ExecuteEffect
  <2>1. {Tail(effects)[i] : i \in DOMAIN Tail(effects)} \subseteq {effects[i] : i \in DOMAIN effects}
    BY <1>14, EffectTaken DEF ExecuteEffect, OverlayInv, TypeOK, FlagsOK
  <2> QED BY <1>0, <1>14, <2>1 DEF ExecuteEffect
<1>15. CASE EffectsExecuted
  <2>1. effects' = <<>> /\ {<<>>[i] : i \in DOMAIN <<>>} = {}
    BY <1>15 DEF EffectsExecuted
  <2>2. {effects'[i] : i \in DOMAIN effects'} = {}
    BY <2>1
  <2> QED BY <1>0, <1>15, <2>1, <2>2 DEF EffectsExecuted
<1>16. CASE ManageFinish
  BY <1>0, <1>16 DEF ManageFinish
<1>17. CASE BridgeFails
  BY <1>0, <1>17 DEF BridgeFails, Fail
<1>18. CASE CallbackFails
  BY <1>0, <1>18 DEF CallbackFails
<1>19. CASE UNCHANGED vars
  BY <1>0, <1>19 DEF vars
<1> QED
  BY <1>1, <1>2, <1>3, <1>4, <1>5, <1>6, <1>7, <1>8, <1>9, <1>10, <1>11, <1>12, <1>13, <1>14,
     <1>15, <1>16, <1>17, <1>18, <1>19
  DEF Next, Compositor, ChangeOutputs, Handler

\* Mode, pending effects and overlay go together.
LEMMA ModeStep == OverlayInv /\ [Next]_vars => ModeKnown'
<1> SUFFICES ASSUME OverlayInv, [Next]_vars PROVE ModeKnown'
  OBVIOUS
<1> USE DEF ModeKnown, Working, Idle, outputVars, lockVars, placeVars, overlayVars, endVars, wmVars
<1>0. ModeKnown
  BY DEF OverlayInv
<1>1. CASE OutputCreated
  BY <1>0, <1>1 DEF OutputCreated
<1>2. ASSUME NEW o \in Ids, OutputRemoved(o) PROVE ModeKnown'
  BY <1>0, <1>2 DEF OutputRemoved
<1>3. ASSUME NEW o \in Ids, NEW size \in SizesOf[o], OutputSized(o, size) PROVE ModeKnown'
  BY <1>0, <1>3 DEF OutputSized
<1>4. CASE SessionLocked
  BY <1>0, <1>4 DEF SessionLocked
<1>5. CASE SessionUnlocked
  BY <1>0, <1>5 DEF SessionUnlocked
<1>6. ASSUME NEW size \in Suggested \cup {overlay.asked}, LayerConfigured(size) PROVE ModeKnown'
  BY <1>0, <1>6, ConfigureStep DEF LayerConfigured, OverlayInv, TypeOK
<1>7. CASE LayerClosed
  <2>1. overlay'.active = overlay.active
    BY <1>7 DEF LayerClosed, OverlayInv, TypeOK, OverlayOK
  <2> QED BY <1>0, <1>7, <2>1 DEF LayerClosed
<1>8. CASE ManageStart
  BY <1>0, <1>8 DEF ManageStart
<1>9. CASE ManagerFinished
  BY <1>9 DEF ManagerFinished
<1>10. CASE PublishLock
  <2>1. effects = <<>> \/ ~Working
    BY <1>10 DEF PublishLock, OverlayInv, EffectsKnown
  <2>2. LET hidden == Append(effects, "hide") IN hidden # <<>> /\ hidden[Len(hidden)] = "hide"
    BY EffectAdded DEF OverlayInv, TypeOK, FlagsOK, Effects
  <2> QED BY <1>0, <1>10, <2>1, <2>2 DEF PublishLock
<1>11. CASE UpdateOutputs
  BY <1>0, <1>11 DEF UpdateOutputs, Fail
<1>12. ASSUME NEW key \in Keys, DrainInput(key) PROVE ModeKnown'
  <2>1. \A e \in Effects : Append(effects, e) # <<>> /\ Append(effects, e)[Len(Append(effects, e))] = e
    BY EffectAdded DEF OverlayInv, TypeOK, FlagsOK
  <2> QED BY <1>0, <1>12, <2>1 DEF DrainInput, PolicyTakes, StartPicker, ClosePicker, Effects
<1>13. CASE SetOutput
  BY <1>0, <1>13 DEF SetOutput
<1>14. CASE ExecuteEffect
  <2>1. /\ Tail(effects) = <<>> => Head(effects) = effects[Len(effects)]
        /\ Tail(effects) # <<>> => Tail(effects)[Len(Tail(effects))] = effects[Len(effects)]
        /\ Head(effects) \in Effects
    BY <1>14, EffectTaken DEF ExecuteEffect, OverlayInv, TypeOK, FlagsOK
  <2>2. ASSUME Working' PROVE ModeKnown'
    <3>1. Working /\ effects' = Tail(effects) /\ effects # <<>> /\ UNCHANGED wmMode
      BY <1>14, <2>2 DEF ExecuteEffect
    <3>2. effects' # <<>> => (effects'[Len(effects')] = "show" <=> wmMode' = "picker")
      BY <1>0, <2>1, <3>1
    <3>3. ASSUME effects' = <<>> PROVE overlay'.active <=> Globals /\ wmMode' = "picker"
      <4>1. Head(effects) = "show" <=> wmMode = "picker"
        BY <1>0, <2>1, <3>1, <3>3
      <4>2. CASE Head(effects) = "show"
        <5>1. OutputForPicker = wmFocus /\ wmFocus # 0
          BY <1>14, <3>1, <4>2, ShowOnFocus DEF ExecuteEffect, OverlayInv, Placeable, TypeOK, OutputsOK
        <5>2. Show
          BY <1>14, <4>2 DEF ExecuteEffect
        <5>3. overlay.active => Globals
          BY DEF OverlayInv, NothingLeft
        <5>4. overlay'.active <=> Globals
          BY <3>1, <5>1, <5>2, <5>3 DEF Show, Shown, OverlayInv, TypeOK, OverlayOK
        <5> QED BY <3>1, <4>1, <4>2, <5>4
      <4>3. CASE Head(effects) # "show"
        <5>1. ~overlay'.active
          BY <1>14, <4>3 DEF ExecuteEffect, Hide, NoOverlay
        <5> QED BY <3>1, <4>1, <4>3, <5>1
      <4> QED BY <4>2, <4>3
    <3> QED BY <3>2, <3>3
  <2> QED BY <2>2
<1>15. CASE EffectsExecuted
  <2>1. ASSUME Working' PROVE effects = <<>> /\ UNCHANGED <<effects, overlay, wmMode>>
    BY <1>15, <2>1 DEF EffectsExecuted
  <2> QED BY <1>0, <1>15, <2>1 DEF EffectsExecuted
<1>16. CASE ManageFinish
  BY <1>0, <1>16 DEF ManageFinish
<1>17. CASE BridgeFails
  BY <1>17 DEF BridgeFails, Fail
<1>18. CASE CallbackFails
  BY <1>0, <1>18 DEF CallbackFails
<1>19. CASE UNCHANGED vars
  BY <1>0, <1>19 DEF vars
<1> QED
  BY <1>1, <1>2, <1>3, <1>4, <1>5, <1>6, <1>7, <1>8, <1>9, <1>10, <1>11, <1>12, <1>13, <1>14,
     <1>15, <1>16, <1>17, <1>18, <1>19
  DEF Next, Compositor, ChangeOutputs, Handler

LEMMA NoneLeft ==
  /\ ~NoOverlay.active /\ ~NoOverlay.layer
  /\ NoOverlay.buffer = NoSize /\ NoOverlay.fd = "none"
BY DEF NoOverlay

\* What hides the overlay takes its buffer, its descriptor and its surface.
LEMMA NothingLeftStep == OverlayInv /\ [Next]_vars => NothingLeft'
<1> SUFFICES ASSUME OverlayInv, [Next]_vars PROVE NothingLeft'
  OBVIOUS
<1> USE DEF NothingLeft, Idle, outputVars, lockVars, placeVars, overlayVars, endVars, wmVars
<1>0. NothingLeft
  BY DEF OverlayInv
<1>1. CASE OutputCreated
  BY <1>0, <1>1 DEF OutputCreated
<1>2. ASSUME NEW o \in Ids, OutputRemoved(o) PROVE NothingLeft'
  BY <1>0, <1>2 DEF OutputRemoved
<1>3. ASSUME NEW o \in Ids, NEW size \in SizesOf[o], OutputSized(o, size) PROVE NothingLeft'
  BY <1>0, <1>3 DEF OutputSized
<1>4. CASE SessionLocked
  BY <1>0, <1>4 DEF SessionLocked
<1>5. CASE SessionUnlocked
  BY <1>0, <1>5 DEF SessionUnlocked
<1>6. ASSUME NEW size \in Suggested \cup {overlay.asked}, LayerConfigured(size) PROVE NothingLeft'
  BY <1>0, <1>6, ConfigureStep DEF LayerConfigured, OverlayInv, TypeOK
<1>7. CASE LayerClosed
  <2>1. /\ overlay'.active = overlay.active /\ overlay'.buffer = overlay.buffer
        /\ overlay'.fd = overlay.fd /\ ~overlay'.layer
    BY <1>7 DEF LayerClosed, OverlayInv, TypeOK, OverlayOK
  <2> QED BY <1>0, <1>7, <2>1 DEF LayerClosed
<1>8. CASE ManageStart
  BY <1>0, <1>8 DEF ManageStart
<1>9. CASE ManagerFinished
  BY <1>0, <1>9, HideStep, NoneLeft DEF ManagerFinished, OverlayInv, TypeOK
<1>10. CASE PublishLock
  BY <1>0, <1>10 DEF PublishLock
<1>11. CASE UpdateOutputs
  <2>1. CASE Fail
    BY <1>0, <1>11, <2>1, HideStep, NoneLeft DEF UpdateOutputs, Fail, OverlayInv, TypeOK
  <2>2. CASE UNCHANGED <<failed, overlayVars>>
    BY <1>0, <1>11, <2>2 DEF UpdateOutputs
  <2> QED BY <1>11, <2>1, <2>2 DEF UpdateOutputs
<1>12. ASSUME NEW key \in Keys, DrainInput(key) PROVE NothingLeft'
  BY <1>0, <1>12 DEF DrainInput
<1>13. CASE SetOutput
  BY <1>0, <1>13 DEF SetOutput
<1>14. CASE ExecuteEffect
  <2>1. CASE Head(effects) = "show"
    <3>1. ~finished
      BY <1>14 DEF ExecuteEffect, OverlayInv, EndsAtRest
    <3>2. \/ UNCHANGED overlay
          \/ ~failed /\ Globals /\ overlay'.active
      BY <1>14, <2>1 DEF ExecuteEffect, Show, Shown, OverlayInv, TypeOK, OverlayOK
    <3> QED BY <1>0, <1>14, <3>1, <3>2 DEF ExecuteEffect
  <2>2. CASE Head(effects) # "show"
    BY <1>14, <2>2, NoneLeft DEF ExecuteEffect, Hide
  <2> QED BY <2>1, <2>2
<1>15. CASE EffectsExecuted
  BY <1>0, <1>15 DEF EffectsExecuted
<1>16. CASE ManageFinish
  BY <1>0, <1>16 DEF ManageFinish
<1>17. CASE BridgeFails
  BY <1>0, <1>17, HideStep, NoneLeft DEF BridgeFails, Fail, OverlayInv, TypeOK
<1>18. CASE CallbackFails
  BY <1>0, <1>18 DEF CallbackFails
<1>19. CASE UNCHANGED vars
  BY <1>0, <1>19 DEF vars
<1> QED
  BY <1>1, <1>2, <1>3, <1>4, <1>5, <1>6, <1>7, <1>8, <1>9, <1>10, <1>11, <1>12, <1>13, <1>14,
     <1>15, <1>16, <1>17, <1>18, <1>19
  DEF Next, Compositor, ChangeOutputs, Handler

\* A buffer is kept for its own width only, and hidden before another surface is made.
LEMMA RowsStep == OverlayInv /\ [Next]_vars => RowsFitBuffer'
<1> SUFFICES ASSUME OverlayInv, [Next]_vars PROVE RowsFitBuffer'
  OBVIOUS
<1> USE DEF RowsFitBuffer, Idle, outputVars, lockVars, placeVars, overlayVars, endVars, wmVars
<1>0. RowsFitBuffer
  BY DEF OverlayInv
<1>1. CASE OutputCreated
  BY <1>0, <1>1 DEF OutputCreated
<1>2. ASSUME NEW o \in Ids, OutputRemoved(o) PROVE RowsFitBuffer'
  BY <1>0, <1>2 DEF OutputRemoved
<1>3. ASSUME NEW o \in Ids, NEW size \in SizesOf[o], OutputSized(o, size) PROVE RowsFitBuffer'
  BY <1>0, <1>3 DEF OutputSized
<1>4. CASE SessionLocked
  BY <1>0, <1>4 DEF SessionLocked
<1>5. CASE SessionUnlocked
  BY <1>0, <1>5 DEF SessionUnlocked
<1>6. ASSUME NEW size \in Suggested \cup {overlay.asked}, LayerConfigured(size) PROVE RowsFitBuffer'
  BY <1>0, <1>6, ConfigureStep DEF LayerConfigured, OverlayInv, TypeOK
<1>7. CASE LayerClosed
  <2>1. /\ overlay'.buffer = overlay.buffer /\ overlay'.size = overlay.size
        /\ overlay'.fd = overlay.fd /\ overlay'.asked = overlay.asked
    BY <1>7 DEF LayerClosed, OverlayInv, TypeOK, OverlayOK
  <2> QED BY <1>0, <2>1
<1>8. CASE ManageStart
  BY <1>0, <1>8 DEF ManageStart
<1>9. CASE ManagerFinished
  BY <1>0, <1>9, HideStep, NoneLeft DEF ManagerFinished, OverlayInv, TypeOK
<1>10. CASE PublishLock
  BY <1>0, <1>10 DEF PublishLock
<1>11. CASE UpdateOutputs
  <2>1. CASE Fail
    BY <1>0, <1>11, <2>1, HideStep, NoneLeft DEF UpdateOutputs, Fail, OverlayInv, TypeOK
  <2>2. CASE UNCHANGED overlayVars
    BY <1>0, <2>2
  <2> QED BY <1>11, <2>1, <2>2 DEF UpdateOutputs
<1>12. ASSUME NEW key \in Keys, DrainInput(key) PROVE RowsFitBuffer'
  BY <1>0, <1>12 DEF DrainInput
<1>13. CASE SetOutput
  BY <1>0, <1>13 DEF SetOutput
<1>14. CASE ExecuteEffect
  <2>1. CASE Head(effects) = "show"
    <3>1. \/ UNCHANGED overlay
          \/ ~overlay.active /\ overlay'.buffer = overlay.buffer
      BY <1>14, <2>1 DEF ExecuteEffect, Show, Shown, OverlayInv, TypeOK, OverlayOK
    <3> QED BY <1>0, <3>1 DEF OverlayInv, NothingLeft
  <2>2. CASE Head(effects) # "show"
    BY <1>14, <2>2, NoneLeft DEF ExecuteEffect, Hide
  <2> QED BY <2>1, <2>2
<1>15. CASE EffectsExecuted
  BY <1>0, <1>15 DEF EffectsExecuted
<1>16. CASE ManageFinish
  BY <1>0, <1>16 DEF ManageFinish
<1>17. CASE BridgeFails
  BY <1>0, <1>17, HideStep, NoneLeft DEF BridgeFails, Fail, OverlayInv, TypeOK
<1>18. CASE CallbackFails
  BY <1>0, <1>18 DEF CallbackFails
<1>19. CASE UNCHANGED vars
  BY <1>0, <1>19 DEF vars
<1> QED
  BY <1>1, <1>2, <1>3, <1>4, <1>5, <1>6, <1>7, <1>8, <1>9, <1>10, <1>11, <1>12, <1>13, <1>14,
     <1>15, <1>16, <1>17, <1>18, <1>19
  DEF Next, Compositor, ChangeOutputs, Handler

-----------------------------------------------------------------------------
(* The theorems *)

\* The inductive invariant holds in every reachable state: outputs, effects,
\* mode and overlay go together, wherever a failure or an exception comes.
THEOREM OverlayInvariant == Spec => []OverlayInv
<1>1. Init => OverlayInv
  <2> SUFFICES ASSUME Init PROVE OverlayInv
    OBVIOUS
  <2>1. DOMAIN outputs = {} /\ DOMAIN wmOutputs = {} /\ effects = <<>>
        /\ failed = FALSE /\ finished = FALSE /\ callbackFailed = FALSE /\ at = "idle"
    BY DEF Init
  <2>2. /\ overlay.active = FALSE /\ overlay.layer = FALSE /\ overlay.fd = "stdin"
        /\ overlay.buffer = NoSize
    BY DEF Init, NoOverlay
  <2>3. OutputsOK
    BY <2>1, OverlayAssumption DEF Init, OutputsOK
  <2>4. OverlayOK
    <3>1. nextId = 0 /\ stdin = TRUE /\ overlay = [NoOverlay EXCEPT !.fd = "stdin"]
      BY DEF Init
    <3>2. 0 \in 0 .. nextId
      BY <3>1
    <3> QED BY <3>1, <3>2 DEF OverlayOK, NoOverlay, Configurable
  <2>5. FlagsOK
    <3>1. effects \in Seq(Effects)
      BY <2>1
    <3> QED BY <2>1, <3>1 DEF Init, FlagsOK, Steps
  <2>6. EffectsKnown
    <3>1. {<<>>[i] : i \in DOMAIN <<>>} = {}
      OBVIOUS
    <3>2. {effects[i] : i \in DOMAIN effects} = {}
      BY <2>1, <3>1
    <3> QED BY <2>1, <3>2 DEF EffectsKnown
  <2>7. ModeKnown
    BY <2>1, <2>2 DEF Init, ModeKnown
  <2> QED
    BY <2>1, <2>2, <2>3, <2>4, <2>5, <2>6, <2>7
    DEF OverlayInv, TypeOK, EndsAtRest, OutputsKnown, NothingLeft, RowsFitBuffer
<1>2. OverlayInv /\ [Next]_vars => OverlayInv'
  BY FlagsStep, OutputsStep, OverlayStep, EndsStep, OutputsKnownStep, EffectsKnownStep, ModeStep,
     NothingLeftStep, RowsStep
  DEF OverlayInv, TypeOK
<1> QED BY <1>1, <1>2, PTL DEF Spec

\* Letters shown are keys armed (xw_picker_show and xw_picker_hide against the
\* mode of the policy), for any number of pending effects.
THEOREM LettersAreArmed == Spec => []OverlayFollowsMode
<1>1. OverlayInv => OverlayFollowsMode
  BY DEF OverlayInv, EffectsKnown, ModeKnown, OverlayFollowsMode
<1> QED BY <1>1, OverlayInvariant, PTL

\* xw_picker_hide, fail and manager_finished leave nothing of the overlay.
THEOREM OverlayIsReleased == Spec => []NothingLeft
<1>1. OverlayInv => NothingLeft
  BY DEF OverlayInv
<1> QED BY <1>1, OverlayInvariant, PTL

\* picker_redraw draws along the rows of the mapped buffer, although it compares
\* strides only, for any outputs and any sizes the compositor configures.
THEOREM RowsFit == Spec => []RowsFitBuffer
<1>1. OverlayInv => RowsFitBuffer
  BY DEF OverlayInv
<1> QED BY <1>1, OverlayInvariant, PTL

\* The letters are drawn for the focused output, with the size the policy knows;
\* the fallback of picker_output is never taken, and where that output is the
\* default one of River the surface can appear on no other.
THEOREM DrawnForFocus == Spec => DrawnForFocusedOutput
<1> DEFINE Placed == overlay'.active /\ ~overlay.active =>
                       /\ wmFocus \in DOMAIN wmOutputs /\ overlay'.output = wmFocus
                       /\ overlay'.asked = wmOutputs[wmFocus]
                       /\ LayerShell /\ default = wmFocus => Places = {wmFocus}
<1>1. OverlayInv /\ [Next]_vars => [Placed]_vars
  <2> SUFFICES ASSUME OverlayInv, Next, overlay'.active, ~overlay.active
               PROVE  /\ wmFocus \in DOMAIN wmOutputs /\ overlay'.output = wmFocus
                      /\ overlay'.asked = wmOutputs[wmFocus]
                      /\ LayerShell /\ default = wmFocus => Places = {wmFocus}
    OBVIOUS
  <2> USE DEF outputVars, lockVars, placeVars, overlayVars, endVars, wmVars
  <2>1. OverlayOK /\ OutputsOK /\ ~NoOverlay.active
    BY NoneLeft DEF OverlayInv, TypeOK
  <2>2. overlay' # NoOverlay /\ ~UNCHANGED overlay
    BY <2>1
  <2>3. CASE ExecuteEffect
    <3>1. CASE Head(effects) = "show"
      <4>1. overlay' = [overlay EXCEPT !.active = TRUE, !.layer = TRUE, !.fd = "none",
                                       !.output = wmFocus, !.asked = wmOutputs[wmFocus]]
            /\ wmFocus \in DOMAIN wmOutputs
        BY <2>2, <2>3, <3>1, ShowStep DEF ExecuteEffect
      <4>2. Working
        BY <2>2, <2>3, <3>1, ShowStep DEF ExecuteEffect
      <4>3. LayerShell => marked = wmFocus /\ wmFocus # 0
        BY <2>1, <2>3, <4>1, <4>2 DEF ExecuteEffect, OverlayInv, EffectsKnown, OutputsOK
      <4>4. LayerShell /\ default = wmFocus => Places = {wmFocus}
        BY <4>3 DEF Places
      <4> QED BY <2>1, <4>1, <4>4 DEF OverlayOK
    <3>2. CASE Head(effects) # "show"
      BY <2>2, <2>3, <3>2 DEF ExecuteEffect, Hide
    <3> QED BY <3>1, <3>2
  <2>4. ASSUME NEW size \in Suggested \cup {overlay.asked}, LayerConfigured(size) PROVE FALSE
    BY <2>1, <2>4, ConfigureStep DEF LayerConfigured
  <2>5. CASE LayerClosed
    BY <2>1, <2>5 DEF LayerClosed, OverlayOK
  <2>6. CASE ManagerFinished
    BY <2>2, <2>6 DEF ManagerFinished, HideIfActive, Hide
  <2>7. CASE UpdateOutputs
    BY <2>2, <2>7 DEF UpdateOutputs, Fail, HideIfActive, Hide
  <2>8. CASE BridgeFails
    BY <2>2, <2>8 DEF BridgeFails, Fail, HideIfActive, Hide
  <2>9. CASE ChangeOutputs \/ SessionLocked \/ SessionUnlocked
    BY <2>2, <2>9 DEF ChangeOutputs, OutputCreated, OutputRemoved, OutputSized, SessionLocked,
                      SessionUnlocked
  <2>10. CASE ManageStart \/ PublishLock \/ SetOutput
    BY <2>2, <2>10 DEF ManageStart, PublishLock, SetOutput
  <2>11. CASE \E key \in Keys : DrainInput(key)
    BY <2>2, <2>11 DEF DrainInput
  <2>12. CASE EffectsExecuted \/ ManageFinish \/ CallbackFails
    BY <2>2, <2>12 DEF EffectsExecuted, ManageFinish, CallbackFails
  <2> QED
    BY <2>3, <2>4, <2>5, <2>6, <2>7, <2>8, <2>9, <2>10, <2>11, <2>12 DEF Next, Compositor, Handler
<1> QED BY <1>1, OverlayInvariant, PTL DEF Spec, DrawnForFocusedOutput

=============================================================================
