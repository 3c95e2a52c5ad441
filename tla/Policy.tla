------------------------------- MODULE Policy -------------------------------
(***************************************************************************)
(* The window-management policy of src/XMonad/Wayland/Policy.hs: what      *)
(* handleEvent does with every event of the bridge and every user action.  *)
(*                                                                         *)
(* Kept: the stack set, the metadata that decides where a window may be,   *)
(* outputs and work areas, the session lock, binding modes, the picker and *)
(* the validity of a pointer operation and its anchors. Abstracted: the    *)
(* rectangles inside an output (layout ratios, weights, float rectangles); *)
(* a test of the code that depends on them is an input of its action.      *)
(* Outputs and work areas are spans of one axis, both axes being treated   *)
(* alike by the code.                                                      *)
(***************************************************************************)
EXTENDS StackSet, Functions

CONSTANTS
  Windows,        \* identifiers the bridge may announce
  Outputs,        \* identifiers of outputs that may be plugged in
  Seats,          \* pointer seats
  TagList,        \* Config.workspaceIds
  LayoutCycle,    \* Config.layoutCycle
  InitialLayout,  \* Config.initialLayout, not always one of the cycle
  Layouts,        \* layouts bound with SetLayout
  OutputSpans,    \* the spans an output may have, after "positive"
  WorkSpans,      \* the work areas a panel may leave
  Hints,          \* size hints a client may send
  FixedHints,     \* those with equal, nonzero minimum and maximum
  MaxLetters,     \* labels the picker has: 35 in the code
  Inputs          \* the kinds of event this instance feeds

NoHints == "none"
LayoutKinds == {"Tall", "Mirror", "Full", "Tabbed", "Stacking", "Rows", "Columns"}
Modes == {"normal", "resize", "picker"}
Tags == ToSet(TagList)

\* What validateConfig accepts, and identifiers as the bridge numbers them.
ASSUME PolicyAssumption ==
  /\ Windows \subseteq Nat \ {0} /\ IsFiniteSet(Windows)
  /\ Outputs \subseteq Nat \ {0} /\ IsFiniteSet(Outputs)
  /\ TagList \in Seq(Tags) /\ TagList # <<>> /\ IsInjective(TagList)
  /\ LayoutCycle \in Seq(LayoutKinds) /\ LayoutCycle # <<>> /\ IsInjective(LayoutCycle)
  /\ Layouts \subseteq LayoutKinds /\ InitialLayout \in LayoutKinds
  /\ OutputSpans \subseteq [at : Int, size : Nat \ {0}]
  /\ WorkSpans \subseteq [at : Int, size : Int]
  /\ NoHints \in Hints /\ FixedHints \subseteq Hints \ {NoHints}
  /\ MaxLetters \in Nat

VARIABLES
  policy,    \* the Policy record
  effects,   \* the effects handleEvent returned for the last event
  overlay    \* the labels the picker overlay shows, none when it is hidden

vars == <<policy, effects, overlay>>

-----------------------------------------------------------------------------
(* The policy record *)

NoOperation == [seat |-> 0, window |-> NoWindow, output |-> NoOutput, hints |-> NoHints]

DefaultMetadata ==
  [parent |-> NoWindow, hints |-> NoHints, floating |-> FALSE, fullscreen |-> FALSE]

InitialPolicy ==
  [ws        |-> [order |-> TagList, outs |-> <<NoOutput>>, stack |-> [t \in Tags |-> NoStack]],
   layout    |-> [t \in Tags |-> InitialLayout],
   outputs   |-> <<>>,
   workAreas |-> <<>>,
   locked    |-> FALSE,
   meta      |-> <<>>,
   mode      |-> "normal",
   operation |-> NoOperation,
   sized     |-> {},
   anchors   |-> <<>>]

MetadataFor(p, w) == IF w \in DOMAIN p.meta THEN p.meta[w] ELSE DefaultMetadata

\* f with x mapped to v.
Put(f, x, v) == [y \in DOMAIN f \cup {x} |-> IF y = x THEN v ELSE f[y]]
\* f without the keys in S.
Without(f, S) == Restrict(f, DOMAIN f \ S)

\* p with the metadata of w replaced, when it has any.
AlterMetadata(w, m, p) ==
  IF w \in DOMAIN p.meta THEN [p EXCEPT !.meta[w] = m] ELSE p

-----------------------------------------------------------------------------
(* What is shown *)

\* A stale or oversized panel hint never leaves the output; one pixel stays.
ClipArea(out, want) ==
  LET upper == out.at + out.size
      first == IF want.at < out.at THEN out.at ELSE AtMost(want.at, upper - 1)
      wished == want.at + want.size
      last == AtMost(upper, IF wished > first THEN wished ELSE first + 1)
  IN  [at |-> first, size |-> last - first]

AreaFor(o, p) ==
  IF o \in DOMAIN p.workAreas THEN ClipArea(p.outputs[o], p.workAreas[o])
                              ELSE p.outputs[o]

SingleTile(kind) == kind \in {"Full", "Tabbed", "Stacking"}

\* The stack of screen i, empty when its output is not connected.
ScreenStack(i, p) ==
  IF p.ws.outs[i] \in DOMAIN p.outputs THEN p.ws.stack[p.ws.order[i]] ELSE NoStack

\* The focused window of screen i covers the whole output.
FullscreenScreen(i, p) ==
  LET st == ScreenStack(i, p)
  IN  st # NoStack /\ MetadataFor(p, st.list[st.pos]).fullscreen

\* A variant for mutation: the tiles are rebuilt with the first one in focus.
TiledFromTop(p, st) ==
  LET tiles == FilterStack({w \in ToSet(st.list) : ~MetadataFor(p, w).floating}, st)
  IN  [tiles EXCEPT !.pos = AtMost(1, @)]

Tiled(p, st) == FilterStack({w \in ToSet(st.list) : ~MetadataFor(p, w).floating}, st)

\* The windows the layout, the floats or a fullscreen window put on screen i.
ShownOn(i, p) ==
  LET st == ScreenStack(i, p)
      tiles == Tiled(p, st)
      floats == {w \in ToSet(st.list) : MetadataFor(p, w).floating}
  IN  IF FullscreenScreen(i, p) THEN {st.list[st.pos]}
      ELSE floats \cup
           (IF tiles # NoStack /\ SingleTile(p.layout[p.ws.order[i]])
            THEN {tiles.list[tiles.pos]} ELSE ToSet(tiles.list))

VisibleWindows(p) == UNION {ShownOn(i, p) : i \in DOMAIN p.ws.outs}

\* The screen a visible window is on.
ScreenOf(w, p) == CHOOSE i \in DOMAIN p.ws.outs : w \in ShownOn(i, p)

\* w is placed as a float, not as a fullscreen window.
PlacedFloating(w, p) ==
  /\ w \in VisibleWindows(p)
  /\ MetadataFor(p, w).floating
  /\ ~FullscreenScreen(ScreenOf(w, p), p)

FocusedWindow(p) ==
  IF p.locked \/ DOMAIN p.outputs = {} THEN NoWindow ELSE Peek(p.ws)

FocusedOutput(p) == p.ws.outs[1]

-----------------------------------------------------------------------------
(* Families of transient windows *)

\* A variant for mutation: one generation.
DirectChildren(p, root) == Ascending({w \in DOMAIN p.meta : p.meta[w].parent = root})

\* The descendants of root, generation by generation, each in id order.
Descendants(p, root) ==
  LET Children(seen) ==
        {w \in DOMAIN p.meta : p.meta[w].parent \in ToSet(seen) /\ w \notin ToSet(seen)}
      generations == Cardinality(DOMAIN p.meta)
      grow[n \in 0 .. generations] ==
        IF n = 0 THEN <<root>> ELSE grow[n - 1] \o Ascending(Children(grow[n - 1]))
  IN  Tail(grow[generations])

\* w and its descendants move to workspace t, w last and so in focus there.
ShiftFamily(w, t, p) ==
  LET family == Reverse(<<w>> \o Descendants(p, w))
      moved[n \in 0 .. Len(family)] ==
        IF n = 0 THEN p.ws ELSE ShiftWin(t, family[n], moved[n - 1])
  IN  [p EXCEPT !.ws = moved[Len(family)]]

-----------------------------------------------------------------------------
(* Pointer operations and anchors *)

CancelPointer(p) == [p EXCEPT !.operation = NoOperation]

\* Dropping an anchor keeps the rectangle last shown, which is not modelled.
MaterializeAnchors(S, p) == [p EXCEPT !.anchors = Without(@, S)]

CancelWindow(w, p) ==
  MaterializeAnchors({w}, IF p.operation.window = w THEN CancelPointer(p) ELSE p)

CancelOutput(o, p) ==
  MaterializeAnchors({w \in DOMAIN p.anchors : p.anchors[w].output = o},
                     IF p.operation.output = o THEN CancelPointer(p) ELSE p)

\* Before an action that changes the geometry of the focused window.
FocusedGeometry(p) == MaterializeAnchors({FocusedWindow(p)}, CancelPointer(p))

AnchorNow(w, p) ==
  LET i == ScreenOf(w, p)
      o == p.ws.outs[i]
  IN  [output |-> o, span |-> p.outputs[o], area |-> AreaFor(o, p), tag |-> p.ws.order[i]]

AnchorValid(w, p) ==
  /\ w \in DOMAIN p.anchors
  /\ PlacedFloating(w, p)
  /\ ~MetadataFor(p, w).fullscreen
  /\ p.anchors[w] = AnchorNow(w, p)

OperationValid(op, p) ==
  /\ op # NoOperation
  /\ ~p.locked
  /\ FocusedWindow(p) = op.window
  /\ AnchorValid(op.window, p)
  /\ MetadataFor(p, op.window).hints = op.hints

\* A variant for mutation: the pointer state is taken as it comes.
SettleNothing(p) == p

\* validatePointerState: what is left of the pointer state after an event.
Settle(p) ==
  [p EXCEPT !.operation = IF OperationValid(@, p) THEN @ ELSE NoOperation,
            !.anchors = Restrict(@, {w \in DOMAIN @ : AnchorValid(w, p)})]

\* fits: the displayed rectangle is inside the work area and the edges are
\* ones the protocol has.
StartPointer(seat, w, fits, p) ==
  IF \/ p.locked
     \/ p.operation # NoOperation
     \/ ~PlacedFloating(w, p)
     \/ w \notin p.sized
     \/ MetadataFor(p, w).fullscreen
     \/ ~fits
  THEN p
  ELSE LET anchor == AnchorNow(w, p)
       IN  [p EXCEPT !.operation = [seat |-> seat, window |-> w, output |-> anchor.output,
                                    hints |-> MetadataFor(p, w).hints],
                     !.anchors = Put(@, w, anchor),
                     !.ws = FocusWindow(w, @)]

-----------------------------------------------------------------------------
(* The picker *)

\* Letter i of the overlay belongs to window i of the workspace; windows that
\* are not shown get no label.
PickerChoices(p) ==
  LET windows == Index(p.ws)
      all == [i \in 1 .. AtMost(Len(windows), MaxLetters) |->
                [letter |-> i, window |-> windows[i]]]
  IN  Kept(all, {c \in ToSet(all) : c.window \in VisibleWindows(p)})

\* swapToWindow: w comes into focus and the first window of the workspace
\* goes to its place; the windows that were above w are put back reversed.
SwapToWindow(w, s) ==
  LET l == Index(s)
      i == IndexOf(w, l)
  IN  IF w \notin ToSet(l) \/ w = l[1] THEN s
      ELSE [s EXCEPT !.stack[CurrentTag(s)] =
              [list |-> Reverse(SubSeq(l, 2, i - 1)) \o <<w, l[1]>> \o SubSeq(l, i + 1, Len(l)),
               pos  |-> i - 1]]

HidePicker == [kind |-> "HidePicker"]
ShowPicker(choices) == [kind |-> "ShowPicker", labels |-> choices]

-----------------------------------------------------------------------------
(* Outputs *)

\* A variant for mutation: the screens are assigned afresh in id order.
ReconcileAfresh(connected, p) ==
  LET ids == Ascending(DOMAIN connected)
  IN  [p EXCEPT !.outputs = connected,
                !.ws.outs = IF ids = <<>> THEN <<NoOutput>>
                            ELSE SubSeq(ids, 1, AtMost(Len(ids), Len(p.ws.order)))]

\* Screens of connected outputs keep their workspaces; the hidden workspaces
\* and then those of removed screens fill the new outputs in id order.
Reconcile(connected, p) ==
  LET s == p.ws
      n == Len(s.outs)
      alive == {i \in 1 .. n : s.outs[i] \in DOMAIN connected}
      kept == Ascending(alive)
      tagsOf(ids) == [j \in DOMAIN ids |-> s.order[ids[j]]]
      keptOuts == [j \in DOMAIN kept |-> s.outs[kept[j]]]
      free == Ascending(DOMAIN connected \ ToSet(keptOuts))
      pool == Len(s.order) - Len(kept)
      added == SubSeq(free, 1, AtMost(Len(free), pool))
  IN  [p EXCEPT !.outputs = connected,
                !.ws.outs = IF DOMAIN connected = {} THEN <<NoOutput>> ELSE keptOuts \o added,
                !.ws.order = IF kept = <<>> THEN @
                             ELSE tagsOf(kept) \o SubSeq(@, n + 1, Len(@))
                                  \o tagsOf(Ascending((1 .. n) \ alive))]

-----------------------------------------------------------------------------
(* One event: prepared state in, settled state and effects out. The picker *)
(* effects are carried out when the manage sequence that follows executes  *)
(* them, before any further key press of the picker is delivered.          *)

Respond(next, result) ==
  /\ policy' = Settle(next)
  /\ effects' = result
  /\ overlay' = IF result = <<>> THEN overlay
                ELSE CASE result[1].kind = "ShowPicker" -> result[1].labels
                       [] result[1].kind = "HidePicker" -> <<>>
                       [] OTHER -> overlay

\* A variant for mutation: the mode ends but the overlay is not hidden.
CancelPickerQuietly(p) == Respond([p EXCEPT !.mode = "normal"], <<>>)

CancelPicker(p) == Respond([p EXCEPT !.mode = "normal"], <<HidePicker>>)

Init ==
  /\ policy = InitialPolicy
  /\ effects = <<>>
  /\ overlay = <<>>

-----------------------------------------------------------------------------
(* Outputs and windows come and go *)

OutputUpsert(o, span) ==
  LET changed == o \notin DOMAIN policy.outputs \/ policy.outputs[o] # span
      p == IF changed THEN CancelOutput(o, policy) ELSE policy
  IN  Respond(Reconcile(Put(p.outputs, o, span), p), <<>>)

\* A variant for mutation: the screen of the output is kept.
OutputForgotten(o) ==
  LET p == CancelOutput(o, policy)
  IN  Respond([p EXCEPT !.outputs = Without(@, {o}), !.workAreas = Without(@, {o})], <<>>)

OutputRemoved(o) ==
  LET p == CancelOutput(o, policy)
  IN  Respond(Reconcile(Without(p.outputs, {o}),
                        [p EXCEPT !.workAreas = Without(@, {o})]), <<>>)

OutputWorkArea(o, span) ==
  LET changed == o \notin DOMAIN policy.workAreas \/ policy.workAreas[o] # span
      p == IF changed THEN CancelOutput(o, policy) ELSE policy
  IN  Respond([p EXCEPT !.workAreas = Put(@, o, span)], <<>>)

WindowAdded(w) ==
  IF Member(w, policy.ws) THEN Respond(policy, <<>>)
  ELSE LET p == CancelPointer(policy)
       IN  Respond([p EXCEPT !.ws = InsertUp(w, @),
                             !.meta = Put(@, w, DefaultMetadata)], <<>>)

\* A variant for mutation: the children keep the parent that is gone.
WindowRemovedOnly(w) ==
  Respond([policy EXCEPT !.ws = Delete(w, @), !.sized = @ \ {w}, !.meta = Without(@, {w})], <<>>)

WindowRemoved(w) ==
  LET orphan(m) == IF m.parent = w THEN [m EXCEPT !.parent = NoWindow] ELSE m
  IN  Respond([policy EXCEPT
                 !.ws = Delete(w, @),
                 !.sized = @ \ {w},
                 !.meta = [x \in DOMAIN @ \ {w} |-> orphan(@[x])]], <<>>)

WindowActualSize(w) ==
  Respond(IF Member(w, policy.ws) THEN [policy EXCEPT !.sized = @ \cup {w}] ELSE policy, <<>>)

-----------------------------------------------------------------------------
(* What clients say about their windows *)

\* A window with a live parent floats on its parent's workspace; without one
\* it is tiled. A parent that is a descendant would close a cycle.
WindowParent(w, parent) ==
  LET changed == MetadataFor(policy, w).parent # parent
      p == IF changed
           THEN MaterializeAnchors(DOMAIN policy.anchors, CancelPointer(policy)) ELSE policy
      live == IF Member(parent, p.ws) THEN parent ELSE NoWindow
      next == AlterMetadata(w, [MetadataFor(p, w) EXCEPT !.parent = live,
                                                         !.floating = live # NoWindow], p)
      cyclic == parent = w \/ parent \in ToSet(Descendants(p, w))
  IN  Respond(IF ~Member(w, p.ws) \/ cyclic THEN p
              ELSE IF live = NoWindow THEN next
              ELSE ShiftFamily(w, FindTag(live, p.ws), next), <<>>)

\* A window whose size becomes fixed starts to float.
WindowSizeHints(w, hints) ==
  LET m == MetadataFor(policy, w)
      p == IF m.hints # hints THEN CancelWindow(w, policy) ELSE policy
  IN  Respond(AlterMetadata(w, [m EXCEPT
                !.hints = hints,
                !.floating = @ \/ (hints \in FixedHints /\ m.hints \notin FixedHints)], p), <<>>)

WindowFullscreen(w, enabled) ==
  LET m == MetadataFor(policy, w)
      p == IF m.fullscreen # enabled THEN CancelWindow(w, policy) ELSE policy
      next == AlterMetadata(w, [m EXCEPT !.fullscreen = enabled], p)
  IN  Respond(IF enabled /\ ~p.locked /\ w \in VisibleWindows(p)
              THEN [next EXCEPT !.ws = FocusWindow(w, @)] ELSE next, <<>>)

-----------------------------------------------------------------------------
(* Clicks, the pointer and the session lock *)

\* A variant for mutation: a click is taken for any window.
FocusRequestedAnywhere(w) ==
  Respond(IF policy.locked THEN policy ELSE [policy EXCEPT !.ws = FocusWindow(w, @)], <<>>)

FocusRequested(w) ==
  LET visible == w \in VisibleWindows(policy)
      p == IF visible /\ w # FocusedWindow(policy) THEN CancelPointer(policy) ELSE policy
  IN  Respond(IF visible /\ ~p.locked THEN [p EXCEPT !.ws = FocusWindow(w, @)] ELSE p, <<>>)

PointerStarted(seat, w, fits) ==
  IF policy.mode = "picker" THEN CancelPicker(policy)
  ELSE Respond(StartPointer(seat, w, fits, policy), <<>>)

\* Released and cancelled operations end alike.
PointerEnded(seat) ==
  Respond(IF policy.operation.seat = seat THEN CancelPointer(policy) ELSE policy, <<>>)

Locked ==
  Respond([CancelPointer(policy) EXCEPT !.locked = TRUE, !.mode = "normal"], <<HidePicker>>)

Unlocked == Respond([policy EXCEPT !.locked = FALSE], <<>>)

-----------------------------------------------------------------------------
(* User actions: a locked session and an open picker swallow them, but the *)
(* pointer operation they would disturb has been cancelled by then.        *)

\* A variant for mutation: only the picker swallows actions.
PerformLocked(p, next, result) ==
  IF p.mode = "picker" THEN Respond(p, <<>>) ELSE Respond(next, result)

Perform(p, next, result) ==
  IF p.locked \/ p.mode = "picker" THEN Respond(p, <<>>) ELSE Respond(next, result)

ChangeStackSet(F(_)) ==
  LET p == CancelPointer(policy) IN Perform(p, [p EXCEPT !.ws = F(@)], <<>>)

FocusNext == LET F(s) == Modify(FocusDownIn, s) IN ChangeStackSet(F)
FocusPrevious == LET F(s) == Modify(FocusUpIn, s) IN ChangeStackSet(F)
SwapMaster == LET F(s) == Modify(SwapMasterIn, s) IN ChangeStackSet(F)
SwapNext == LET F(s) == Modify(SwapDownIn, s) IN ChangeStackSet(F)
SwapPrevious == LET F(s) == Modify(SwapUpIn, s) IN ChangeStackSet(F)
ViewTag(t) == LET F(s) == View(t, s) IN ChangeStackSet(F)
SwapTo(w) == LET F(s) == SwapToWindow(w, s) IN ChangeStackSet(F)

\* The focused window and its descendants leave for workspace t.
ShiftTo(t) ==
  LET p == CancelPointer(policy)
      w == Peek(p.ws)
  IN  Perform(p, IF w = NoWindow THEN p ELSE ShiftFamily(w, t, p), <<>>)

\* The screen after (step 1) or before (step -1) the current one, by output.
FocusOutput(step) ==
  LET F(s) ==
        LET ids == Ascending(ToSet(s.outs) \ {NoOutput})
            here == IndexOf(s.outs[1], ids)
            there == ids[((here - 1 + step) % Len(ids)) + 1]
        IN  IF ids = <<>> THEN s ELSE View(s.order[IndexOf(there, s.outs)], s)
  IN  ChangeStackSet(F)

\* The first window above, then below the focus that floats if the focus does
\* not and the other way round; "up" runs away from the focus.
FocusModeToggle ==
  LET F(s) ==
        LET st == Current(s)
            floating(w) == MetadataFor(policy, w).floating
            others == Kept(Reverse(SubSeq(st.list, 1, st.pos - 1))
                             \o SubSeq(st.list, st.pos + 1, Len(st.list)),
                           {w \in ToSet(st.list) : floating(w) # floating(Peek(s))})
        IN  IF st = NoStack \/ others = <<>> THEN s ELSE FocusWindow(others[1], s)
  IN  ChangeStackSet(F)

-----------------------------------------------------------------------------
(* Directional navigation *)

NoTarget == [kind |-> "none"]
ToWindow(w) == [kind |-> "window", window |-> w]
ToWorkspace(t) == [kind |-> "workspace", tag |-> t]

\* Where a direction may lead. In a layout that shows one tile the next tile
\* of the stack (step 1 for right and down) comes first; otherwise geometry
\* decides among the visible windows of the focus's mode and the empty
\* workspaces on other outputs, or finds nothing on that side.
DirectionTargets(step, p) ==
  LET s == p.ws
      focused == Peek(s)
      floating(w) == MetadataFor(p, w).floating
      SameMode(w) == focused = NoWindow \/ floating(w) = floating(focused)
      members == Kept(Index(s), {w \in ToSet(Index(s)) : SameMode(w)})
      next == IndexOf(focused, members) + step
      one == SingleTile(p.layout[CurrentTag(s)]) \/ MetadataFor(p, focused).fullscreen
  IN  IF focused # NoWindow /\ one /\ ~floating(focused) /\ next \in DOMAIN members
      THEN {ToWindow(members[next])}
      ELSE {NoTarget}
           \cup {ToWindow(w) : w \in {v \in VisibleWindows(p) \ {focused} : SameMode(v)}}
           \cup {ToWorkspace(s.order[i]) : i \in
                   {j \in DOMAIN s.outs : /\ s.outs[j] \in DOMAIN p.outputs \ {s.outs[1]}
                                          /\ s.stack[s.order[j]] = NoStack}}

FocusDirection(step) ==
  LET p == CancelPointer(policy)
  IN  \E target \in DirectionTargets(step, p) :
        Perform(p, CASE target.kind = "window" -> [p EXCEPT !.ws = FocusWindow(target.window, @)]
                     [] target.kind = "workspace" -> [p EXCEPT !.ws = View(target.tag, @)]
                     [] OTHER -> p, <<>>)

\* The focused window and its family go to workspace t, which is viewed.
Transfer(w, t, p) ==
  LET moved == ShiftFamily(w, t, p)
  IN  [moved EXCEPT !.ws = FocusWindow(w, View(t, @))]

\* w and other change places on the current workspace; w stays focused.
SwapWith(w, other, s) ==
  LET l == Index(s)
      j == IndexOf(other, l)
  IN  [s EXCEPT !.stack[CurrentTag(s)] = [list |-> Exchange(l, IndexOf(w, l), j), pos |-> j]]

MoveTo(w, target, p) ==
  CASE target.kind = "workspace" -> Transfer(w, target.tag, p)
    [] target.kind = "window" ->
         IF FindTag(target.window, p.ws) = CurrentTag(p.ws)
         THEN [p EXCEPT !.ws = SwapWith(w, target.window, @)]
         ELSE Transfer(w, FindTag(target.window, p.ws), p)
    [] OTHER -> p

\* A floating window moves inside its output, which is not modelled.
MoveDirection(step) ==
  LET p == FocusedGeometry(policy)
      w == Peek(p.ws)
      m == MetadataFor(p, w)
  IN  IF w = NoWindow \/ m.fullscreen \/ m.floating THEN Perform(p, p, <<>>)
      ELSE \E target \in DirectionTargets(step, p) : Perform(p, MoveTo(w, target, p), <<>>)

-----------------------------------------------------------------------------
(* Layouts, floating and fullscreen *)

ModifyFocused(F(_)) ==
  LET p == FocusedGeometry(policy)
      w == Peek(p.ws)
  IN  Perform(p, AlterMetadata(w, F(MetadataFor(p, w)), p), <<>>)

ToggleFloat == LET F(m) == [m EXCEPT !.floating = ~@] IN ModifyFocused(F)
Sink == LET F(m) == [m EXCEPT !.floating = FALSE] IN ModifyFocused(F)
ToggleFullscreen == LET F(m) == [m EXCEPT !.fullscreen = ~@] IN ModifyFocused(F)

ChangeLayout(F(_)) ==
  LET p == CancelPointer(policy)
  IN  Perform(p, [p EXCEPT !.layout[CurrentTag(p.ws)] = F(@)], <<>>)

SetLayout(kind) == LET F(k) == kind IN ChangeLayout(F)
ToggleSplit == LET F(k) == IF k = "Columns" THEN "Rows" ELSE "Columns" IN ChangeLayout(F)
CycleSwayLayout ==
  LET F(k) == IF k = "Tabbed" THEN "Stacking" ELSE IF k = "Stacking" THEN "Columns" ELSE "Tabbed"
  IN  ChangeLayout(F)
NextLayout ==
  LET F(k) == IF k \notin ToSet(LayoutCycle) THEN k
              ELSE LayoutCycle[(IndexOf(k, LayoutCycle) % Len(LayoutCycle)) + 1]
  IN  ChangeLayout(F)

\* Weights, ratios and float rectangles change, which are not modelled.
Resize == LET p == FocusedGeometry(policy) IN Perform(p, p, <<>>)
ResizeMaster == LET F(k) == k IN ChangeLayout(F)

-----------------------------------------------------------------------------
(* Modes, the picker and commands *)

EnterMode(mode) ==
  LET p == CancelPointer(policy) IN Perform(p, [p EXCEPT !.mode = mode], <<>>)

\* Show the letters and arm their keys, when there is a window to label.
Pick ==
  LET p == CancelPointer(policy)
      choices == PickerChoices(p)
  IN  IF p.locked THEN Respond(p, <<>>)
      ELSE IF choices = <<>> THEN Respond(p, <<>>)
      ELSE Respond([p EXCEPT !.mode = "picker"], <<ShowPicker(choices)>>)

\* The key of letter i; its binding is live in the picker's mode only. The
\* index counts the windows that have a label now.
PickCandidate(i) ==
  LET p == CancelPointer(policy)
      choices == PickerChoices(p)
  IN  /\ policy.mode = "picker"
      /\ IF i \in DOMAIN choices
         THEN Respond([p EXCEPT !.mode = "normal",
                                !.ws = SwapToWindow(choices[i].window, @)], <<HidePicker>>)
         ELSE CancelPicker(p)

PickCancel ==
  /\ policy.mode = "picker"
  /\ CancelPicker(CancelPointer(policy))

\* Spawn, ReloadConfig and ConfirmSessionExit leave the pointer alone.
RunCommand(kind) == Perform(policy, policy, <<[kind |-> kind]>>)

Close ==
  LET p == CancelPointer(policy)
      w == FocusedWindow(p)
  IN  Perform(p, p, IF w = NoWindow THEN <<>> ELSE <<[kind |-> "CloseWindow", window |-> w]>>)

\* StopRuntime and RestartRuntime.
Leave(kind) == LET p == CancelPointer(policy) IN Perform(p, p, <<[kind |-> kind]>>)

-----------------------------------------------------------------------------
(* The next-state relation, by kind of input *)

PlugOutputs ==
  \E o \in Outputs :
    \/ \E span \in OutputSpans : OutputUpsert(o, span)
    \/ OutputRemoved(o)

MoveWorkAreas == \E o \in Outputs, span \in WorkSpans : OutputWorkArea(o, span)

MapWindows == \E w \in Windows : WindowAdded(w) \/ WindowRemoved(w)

SetParents == \E w \in Windows, parent \in Windows \cup {NoWindow} : WindowParent(w, parent)

SetHints == \E w \in Windows, hints \in Hints : WindowSizeHints(w, hints)

RequestFullscreen == \E w \in Windows, enabled \in BOOLEAN : WindowFullscreen(w, enabled)

Click == \E w \in Windows : FocusRequested(w)

UsePointer ==
  \/ \E w \in Windows : WindowActualSize(w)
  \/ \E seat \in Seats, w \in Windows, fits \in BOOLEAN : PointerStarted(seat, w, fits)
  \/ \E seat \in Seats : PointerEnded(seat)

LockSession == Locked \/ Unlocked

MoveFocus == FocusNext \/ FocusPrevious \/ SwapMaster \/ SwapNext \/ SwapPrevious

SwitchWorkspace == \E t \in Tags : ViewTag(t) \/ ShiftTo(t)

Navigate ==
  \/ \E step \in {1, -1} : FocusOutput(step) \/ FocusDirection(step) \/ MoveDirection(step)
  \/ FocusModeToggle

ChangeFloating == ToggleFloat \/ Sink

ChooseLayout ==
  \/ \E kind \in Layouts : SetLayout(kind)
  \/ NextLayout

ChooseSplit == ToggleSplit \/ CycleSwayLayout \/ Resize \/ ResizeMaster

UsePicker ==
  \/ Pick
  \/ \E i \in 1 .. MaxLetters : PickCandidate(i)
  \/ PickCancel

Command ==
  \/ \E mode \in {"normal", "resize"} : EnterMode(mode)
  \/ \E kind \in {"Spawn", "ReloadConfig", "ConfirmSessionExit"} : RunCommand(kind)
  \/ \E kind \in {"StopRuntime", "RestartRuntime"} : Leave(kind)
  \/ Close
  \/ \E w \in Windows : SwapTo(w)

Next ==
  \/ "outputs" \in Inputs /\ PlugOutputs
  \/ "areas" \in Inputs /\ MoveWorkAreas
  \/ "windows" \in Inputs /\ MapWindows
  \/ "parents" \in Inputs /\ SetParents
  \/ "hints" \in Inputs /\ SetHints
  \/ "fullscreen" \in Inputs /\ (RequestFullscreen \/ ToggleFullscreen)
  \/ "clicks" \in Inputs /\ Click
  \/ "pointer" \in Inputs /\ UsePointer
  \/ "lock" \in Inputs /\ LockSession
  \/ "focus" \in Inputs /\ MoveFocus
  \/ "workspaces" \in Inputs /\ SwitchWorkspace
  \/ "navigation" \in Inputs /\ Navigate
  \/ "floating" \in Inputs /\ ChangeFloating
  \/ "layouts" \in Inputs /\ ChooseLayout
  \/ "splits" \in Inputs /\ ChooseSplit
  \/ "picker" \in Inputs /\ UsePicker
  \/ "commands" \in Inputs /\ Command

Spec == Init /\ [][Next]_vars

-----------------------------------------------------------------------------
(* Invariants *)

Metadata == [parent : Windows \cup {NoWindow}, hints : Hints,
             floating : BOOLEAN, fullscreen : BOOLEAN]
Anchors == [output : Outputs, span : OutputSpans, area : [at : Int, size : Int], tag : Tags]
Labels == [letter : Nat, window : Windows]

IsPolicy(p) ==
  /\ p \in [ws        : StackSets(Tags, Outputs \cup {NoOutput}, Windows),
            layout    : [Tags -> LayoutKinds],
            outputs   : [DOMAIN p.outputs -> OutputSpans],
            workAreas : [DOMAIN p.workAreas -> WorkSpans],
            locked    : BOOLEAN,
            meta      : [DOMAIN p.meta -> Metadata],
            mode      : Modes,
            operation : {NoOperation} \cup
                        [seat : Seats, window : Windows, output : Outputs, hints : Hints],
            sized     : SUBSET Windows,
            anchors   : [DOMAIN p.anchors -> Anchors]]
  /\ DOMAIN p.outputs \subseteq Outputs /\ DOMAIN p.workAreas \subseteq Outputs
  /\ DOMAIN p.meta \subseteq Windows /\ DOMAIN p.anchors \subseteq Windows

\* Every part of the policy has its type.
TypeOK == IsPolicy(policy) /\ overlay \in Seq(Labels)

\* A window the bridge announced is on exactly one workspace, once, and no
\* other window is on any; its metadata exists exactly as long.
EachWindowOnce ==
  \A w \in Windows :
    LET At(t, i) == LET l == policy.ws.stack[t].list IN i \in DOMAIN l /\ l[i] = w
        places == {at \in Tags \X (1 .. Cardinality(Windows)) : At(at[1], at[2])}
    IN  Cardinality(places) = IF w \in DOMAIN policy.meta THEN 1 ELSE 0

\* Whatever is plugged, viewed or shifted, the configured workspaces are all
\* there, each in one place: current, visible on one output or hidden. Every
\* connected output shows one of its own unless there are more outputs than
\* workspaces; with none connected one virtual screen is left.
ScreensFollowOutputs ==
  LET connected == DOMAIN policy.outputs
      outs == policy.ws.outs
  IN  /\ Len(policy.ws.order) = Len(TagList) /\ ToSet(policy.ws.order) = Tags
      /\ IF connected = {} THEN outs = <<NoOutput>>
         ELSE /\ IsInjective(outs)
              /\ ToSet(outs) \subseteq connected
              /\ Len(outs) = AtMost(Cardinality(connected), Len(TagList))

\* Parents are live windows and following them never comes back: a window
\* cannot be made the child of its own descendant.
FamiliesAreTrees ==
  /\ \A w \in DOMAIN policy.meta : policy.meta[w].parent \in DOMAIN policy.meta \cup {NoWindow}
  /\ \A S \in SUBSET DOMAIN policy.meta :
       S # {} => \E w \in S : policy.meta[w].parent \notin S

\* While an output is connected the focused window is on the screen: on the
\* focused output, whatever the layout shows and whichever windows float or
\* are fullscreen. Keys never go to a window the user cannot see.
FocusedIsVisible ==
  DOMAIN policy.outputs # {} /\ Peek(policy.ws) # NoWindow =>
    /\ Peek(policy.ws) \in ShownOn(1, policy)
    /\ FocusedOutput(policy) \in DOMAIN policy.outputs

\* The letters are on the screen exactly while their keys are armed, and a
\* locked session has neither them, nor a pointer operation, nor a mode.
OverlayOnlyWhilePicking ==
  /\ policy.mode = "picker" <=> overlay # <<>>
  /\ policy.locked => policy.mode = "normal" /\ policy.operation = NoOperation

\* A pointer operation belongs to a visible focused float that is not
\* fullscreen, on the output where it began, which is also its anchor's, and
\* with the size hints of then: whatever else happens between two movements
\* ends it.
OperationOnFocusedFloat ==
  policy.operation # NoOperation =>
    LET w == policy.operation.window
    IN  /\ w = FocusedWindow(policy)
        /\ w \in ShownOn(1, policy) \cap policy.sized
        /\ policy.meta[w].floating /\ ~policy.meta[w].fullscreen
        /\ policy.operation.output = FocusedOutput(policy)
        /\ w \in DOMAIN policy.anchors /\ policy.anchors[w].output = policy.operation.output
        /\ policy.operation.hints = policy.meta[w].hints

\* The inductive invariant: the stack set is arranged, the policy has metadata
\* of the windows on it and of no others, and families, screens, overlay and
\* pointer operation are as above. The other two invariants follow from it.
PolicyInv ==
  /\ TypeOK
  /\ Arranged(policy.ws)
  /\ DOMAIN policy.meta = Placed(policy.ws)
  /\ FamiliesAreTrees
  /\ ScreensFollowOutputs
  /\ OverlayOnlyWhilePicking
  /\ OperationOnFocusedFloat

-----------------------------------------------------------------------------
(* Action properties *)

\* Plugging or unplugging outputs never changes what a remaining output
\* shows, and the current one stays current; the content of every workspace
\* survives.
HotplugKeepsScreens ==
  [][policy'.outputs # policy.outputs =>
       LET old == policy.ws
           new == policy'.ws
           stay == ToSet(old.outs) \cap DOMAIN policy'.outputs
       IN  /\ \A o \in stay : o \in ToSet(new.outs) /\ TagOn(o, new) = TagOn(o, old)
           /\ old.outs[1] \in stay => new.outs[1] = old.outs[1]
           /\ new.stack = old.stack]_vars

\* Shifting moves the focused window with its whole family to the workspace
\* asked for and changes nothing the user looks at: every output keeps its
\* workspace, the current one stays current, and other windows stay put. The
\* conditions before ShiftTo only spare its evaluation at other steps.
ShiftMovesFamilyOnly ==
  [][\A t \in Tags :
       /\ policy'.outputs = policy.outputs /\ policy'.meta = policy.meta
       /\ ~policy.locked /\ policy.mode # "picker"
       /\ ShiftTo(t)
       => LET old == policy.ws
              new == policy'.ws
              w == Peek(old)
              family == IF w = NoWindow THEN {} ELSE {w} \cup ToSet(Descendants(policy, w))
              others == Windows \ family
          IN  /\ \A x \in family : FindTag(x, new) = t
              /\ SameScreens(old, new) /\ CurrentTag(new) = CurrentTag(old)
              /\ \A u \in Tags :
                  Kept(new.stack[u].list, others) = Kept(old.stack[u].list, others)]_vars

\* Nothing a client does brings up a workspace that is not shown: neither a
\* click nor a fullscreen request for a window of a hidden one, nor a window
\* that opens or closes, a dialog that follows its parent to a hidden
\* workspace with its whole family, or new size hints. The last four do not
\* even move the focus to the workspace of another output. (No client changes
\* the outputs; that condition only spares TLC the steps that do.)
ClientsNeverSwitchWorkspaces ==
  [][LET silent == MapWindows \/ SetParents \/ SetHints
     IN  policy'.outputs = policy.outputs =>
           /\ ~SameScreens(policy.ws, policy'.ws) => ~(Click \/ RequestFullscreen \/ silent)
           /\ CurrentTag(policy'.ws) # CurrentTag(policy.ws) => ~silent]_vars

\* A locked session takes no user input: no action or click changes a stack,
\* a screen, a layout or metadata, and none has an effect.
LockedTakesNoInput ==
  [][policy.locked =>
       \/ /\ policy'.ws = policy.ws /\ policy'.layout = policy.layout
          /\ policy'.meta = policy.meta /\ policy'.mode = policy.mode
          /\ effects' = <<>>
       \/ ~(MoveFocus \/ SwitchWorkspace \/ Navigate \/ Click \/ ChangeFloating \/ ChooseLayout
            \/ ChooseSplit \/ UsePicker \/ Command \/ ToggleFullscreen)]_vars

-----------------------------------------------------------------------------
(* What the documentation says of the picker; see the findings in README *)

\* README.md: "the chosen letter swaps that window with the focused one", and
\* swapToWindow's comment: the old focused window takes the selected window's
\* place and everything else keeps its place. Letters are those on the screen.
PickSwapsWithFocused ==
  [][\A i \in 1 .. MaxLetters : PickCandidate(i) /\ i \in DOMAIN PickerChoices(policy) =>
       LET l == Index(policy.ws)
           w == PickerChoices(policy)[i].window
       IN  Index(policy'.ws) = Exchange(l, IndexOf(w, l), IndexOf(Peek(policy.ws), l))]_vars

\* README.md: the chosen letter selects the window it is drawn on. Stated for
\* an overlay that is still current, and not for the first window, which
\* swapToWindow takes for the focused one.
LetterPicksItsWindow ==
  [][\A label \in ToSet(overlay) :
       /\ PickCandidate(label.letter)
       /\ overlay = PickerChoices(policy)
       /\ label.window # Index(policy.ws)[1]
       => Peek(policy'.ws) = label.window]_vars

=============================================================================
