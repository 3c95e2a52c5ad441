---------------------------- MODULE PolicyProofs ----------------------------
(***************************************************************************)
(* The invariants of Policy and the action properties its runs check hold  *)
(* for every set of windows, outputs, seats and tags, under every mix of   *)
(* inputs.                                                                 *)
(*                                                                         *)
(* Each action is shown to prepare a fit policy; PolicyFitness turns that  *)
(* into PolicyInv after the step. NextKeeps puts the actions together,     *)
(* and the theorems read their properties off the invariant.               *)
(***************************************************************************)
EXTENDS PolicyFitness

-----------------------------------------------------------------------------
(* User actions *)

Keeps == PolicyInv' /\ policy'.outputs = policy.outputs

\* What an event leaves is what it prepared, less pointer state.
LEMMA RespondShows ==
  ASSUME NEW next, NEW result, Respond(next, result), Fit(next)
  PROVE  /\ policy'.ws = next.ws /\ policy'.layout = next.layout
         /\ policy'.outputs = next.outputs /\ policy'.meta = next.meta
         /\ policy'.mode = next.mode /\ policy'.locked = next.locked
         /\ effects' = result
  BY SettleFit DEF Respond, Aside

\* An event that prepares a fit policy with the same outputs.
LEMMA RespondKeepsAll ==
  ASSUME PolicyInv, NEW next, NEW result, Respond(next, result), Fit(next),
         next.locked => next.mode = "normal", Announced(next, result),
         next.outputs = policy.outputs
  PROVE  Keeps
  BY RespondKeeps, RespondShows DEF Keeps

\* An event without effects that leaves lock and mode alone.
LEMMA QuietKeeps ==
  ASSUME PolicyInv, NEW next, Respond(next, <<>>), Fit(next),
         next.locked = policy.locked, next.mode = policy.mode
  PROVE  PolicyInv' /\ policy'.outputs = next.outputs /\ policy'.ws = next.ws
<1>1. next.locked => next.mode = "normal"
  BY InvFit
<1>2. Announced(next, <<>>)
  BY DEF Announced, Plain
<1>3. QED
  BY <1>1, <1>2, RespondKeeps, RespondShows

\* A user action: what it prepares counts only when it is not swallowed.
LEMMA ActionKeeps ==
  ASSUME PolicyInv, NEW p, Fit(p), Aside(policy, p),
         NEW next, NEW result, Perform(p, next, result),
         ~p.locked /\ p.mode # "picker" =>
           /\ Fit(next) /\ next.locked = p.locked /\ next.mode # "picker"
           /\ next.outputs = p.outputs /\ Plain(result)
  PROVE  Keeps
<1>1. p.locked = policy.locked /\ p.mode = policy.mode /\ p.outputs = policy.outputs
  BY DEF Aside
<1>2. PolicyInv'
  BY <1>1, PerformKeeps
<1>3. policy'.outputs = policy.outputs
  <2>1. CASE p.locked \/ p.mode = "picker"
    <3>1. Respond(p, <<>>)
      BY <2>1 DEF Perform
    <3>2. QED
      BY <1>1, <3>1, RespondShows
  <2>2. CASE ~(p.locked \/ p.mode = "picker")
    <3>1. Respond(next, result)
      BY <2>2 DEF Perform
    <3>2. QED
      BY <1>1, <2>2, <3>1, RespondShows
  <2>3. QED
    BY <2>1, <2>2
<1>4. QED
  BY <1>2, <1>3 DEF Keeps

\* An action that only changes the stack set.
LEMMA SpaceKeeps ==
  ASSUME PolicyInv, NEW p, Fit(p), Aside(policy, p), NEW s,
         ~p.locked /\ p.mode # "picker" => Changed(p.ws, s),
         Perform(p, WithSpace(s, p), <<>>)
  PROVE  Keeps
<1> DEFINE next == WithSpace(s, p)
<1>1. ~p.locked /\ p.mode # "picker" =>
        /\ Fit(next) /\ next.locked = p.locked /\ next.mode # "picker"
        /\ next.outputs = p.outputs
  BY WithSpaceFit
<1>2. Plain(<<>>)
  BY DEF Plain
<1>3. Perform(p, next, <<>>)
  OBVIOUS
<1> HIDE DEF next
<1>4. QED
  BY <1>1, <1>2, <1>3, ActionKeeps

\* An action that changes nothing but pointer state.
LEMMA IdleKeeps ==
  ASSUME PolicyInv, NEW p, Fit(p), Aside(policy, p), NEW result, Plain(result),
         Perform(p, p, result)
  PROVE  Keeps
  BY ActionKeeps

\* What actions prepare before they act.
LEMMA Cancelled ==
  ASSUME PolicyInv
  PROVE  /\ Fit(policy) /\ Aside(policy, policy) /\ policy.ws \in Spaces
         /\ Fit(CancelPointer(policy)) /\ Aside(policy, CancelPointer(policy))
         /\ CancelPointer(policy).ws = policy.ws
         /\ Fit(FocusedGeometry(policy)) /\ Aside(policy, FocusedGeometry(policy))
         /\ FocusedGeometry(policy).ws = policy.ws
<1>1. Fit(policy)
  BY InvFit
<1>2. QED
  BY <1>1, Unchanged, AsideReflexive, CancelPointerFit, FocusedGeometryFit DEF Aside

\* An action that rearranges the stack set.
LEMMA ChangeStackSetKeeps ==
  ASSUME PolicyInv, NEW s, Changed(policy.ws, s),
         Perform(CancelPointer(policy), WithSpace(s, CancelPointer(policy)), <<>>)
  PROVE  Keeps
  BY Cancelled, SpaceKeeps

\* Focus and swap actions.
LEMMA MoveFocusKeeps == PolicyInv /\ MoveFocus => Keeps
<1> DEFINE p == CancelPointer(policy)
           Does(s) == Perform(p, WithSpace(s, p), <<>>)
<1> SUFFICES ASSUME PolicyInv, MoveFocus PROVE Keeps
  OBVIOUS
<1>1. p.ws = policy.ws /\ policy.ws \in Spaces
  BY Cancelled
<1>2. \A s : Changed(policy.ws, s) /\ Does(s) => Keeps
  BY ChangeStackSetKeeps
<1>3. /\ FocusNext => Does(Modify(FocusDownIn, p.ws))
      /\ FocusPrevious => Does(Modify(FocusUpIn, p.ws))
      /\ SwapMaster => Does(Modify(SwapMasterIn, p.ws))
      /\ SwapNext => Does(Modify(SwapDownIn, p.ws))
      /\ SwapPrevious => Does(Modify(SwapUpIn, p.ws))
  BY DEF FocusNext, FocusPrevious, SwapMaster, SwapNext, SwapPrevious, ChangeStackSet, WithSpace
<1> HIDE DEF Does
<1>4. QED
  BY <1>1, <1>2, <1>3, ModifyChanges DEF MoveFocus

\* Viewing a workspace.
LEMMA ViewTagKeeps ==
  ASSUME PolicyInv, NEW t, ViewTag(t)
  PROVE  Keeps
<1> DEFINE p == CancelPointer(policy)
<1>1. p.ws = policy.ws /\ policy.ws \in Spaces
  BY Cancelled
<1>2. Perform(p, WithSpace(View(t, p.ws), p), <<>>)
  BY DEF ViewTag, ChangeStackSet, WithSpace
<1>3. Changed(policy.ws, View(t, policy.ws))
  BY <1>1, ViewChanges
<1> HIDE DEF p
<1>4. Perform(p, WithSpace(View(t, policy.ws), p), <<>>)
  BY <1>1, <1>2
<1>5. QED
  BY <1>3, <1>4, ChangeStackSetKeeps DEF p

\* Swapping with a named window.
LEMMA SwapToKeeps ==
  ASSUME PolicyInv, NEW w, SwapTo(w)
  PROVE  Keeps
<1> DEFINE p == CancelPointer(policy)
<1>1. p.ws = policy.ws /\ policy.ws \in Spaces
  BY Cancelled
<1>2. Perform(p, WithSpace(SwapToWindow(w, p.ws), p), <<>>)
  BY DEF SwapTo, ChangeStackSet, WithSpace
<1>3. Changed(policy.ws, SwapToWindow(w, policy.ws))
  BY <1>1, SwapChanges
<1> HIDE DEF p
<1>4. Perform(p, WithSpace(SwapToWindow(w, policy.ws), p), <<>>)
  BY <1>1, <1>2
<1>5. QED
  BY <1>3, <1>4, ChangeStackSetKeeps DEF p

\* Shifting the focused family.
LEMMA ShiftToKeeps ==
  ASSUME PolicyInv, NEW t, ShiftTo(t)
  PROVE  Keeps
<1> DEFINE p == CancelPointer(policy)
           w == Peek(p.ws)
<1>1. Fit(p) /\ Aside(policy, p)
  BY Cancelled
<1>2. CASE w = NoWindow
  <2>1. Perform(p, p, <<>>)
    BY <1>2 DEF ShiftTo
  <2>2. QED
    BY <1>1, <2>1, IdleKeeps DEF Plain
<1>3. CASE w # NoWindow
  <2>1. Perform(p, ShiftFamily(w, t, p), <<>>)
    BY <1>3 DEF ShiftTo
  <2> HIDE DEF p, w
  <2>2. PICK s : ShiftFamily(w, t, p) = WithSpace(s, p) /\ Shifted(p.ws, s)
    BY <1>1, ShiftFamilyFit
  <2>3. Perform(p, WithSpace(s, p), <<>>) /\ Changed(p.ws, s)
    BY <2>1, <2>2 DEF Shifted
  <2>4. QED
    BY <1>1, <2>3, SpaceKeeps
<1>4. QED
  BY <1>2, <1>3

\* Focusing the next output.
LEMMA FocusOutputKeeps ==
  ASSUME PolicyInv, NEW step, FocusOutput(step)
  PROVE  Keeps
<1> DEFINE p == CancelPointer(policy)
           s == p.ws
           ids == Ascending(ToSet(s.outs) \ {NoOutput})
           here == IndexOf(s.outs[1], ids)
           there == ids[((here - 1 + step) % Len(ids)) + 1]
           new == IF ids = <<>> THEN s ELSE View(s.order[IndexOf(there, s.outs)], s)
<1>1. p.ws = policy.ws /\ policy.ws \in Spaces
  BY Cancelled
<1>2. Perform(p, WithSpace(new, p), <<>>)
  BY DEF FocusOutput, ChangeStackSet, WithSpace
<1>3. Changed(s, s)
  BY <1>1, ShiftWinShifts DEF Shifted
<1> HIDE DEF there, ids, p
<1>4. Changed(s, View(s.order[IndexOf(there, s.outs)], s))
  BY <1>1, ViewChanges
<1>5. Changed(policy.ws, new)
  BY <1>1, <1>3, <1>4
<1> HIDE DEF new
<1>6. QED
  BY <1>2, <1>5, ChangeStackSetKeeps, Zenon DEF p

\* Moving the focus between tiles and floats.
LEMMA FocusModeToggleKeeps ==
  ASSUME PolicyInv, FocusModeToggle
  PROVE  Keeps
<1> DEFINE p == CancelPointer(policy)
           s == p.ws
           st == Current(s)
           floating(w) == MetadataFor(policy, w).floating
           others == Kept(Reverse(SubSeq(st.list, 1, st.pos - 1))
                            \o SubSeq(st.list, st.pos + 1, Len(st.list)),
                          {w \in ToSet(st.list) : floating(w) # floating(Peek(s))})
           new == IF st = NoStack \/ others = <<>> THEN s ELSE FocusWindow(others[1], s)
<1>1. p.ws = policy.ws /\ policy.ws \in Spaces
  BY Cancelled
<1>2. Perform(p, WithSpace(new, p), <<>>)
  BY DEF FocusModeToggle, ChangeStackSet, WithSpace
<1>3. Changed(s, s)
  BY <1>1, ShiftWinShifts DEF Shifted
<1> HIDE DEF others, st, p
<1>4. Changed(s, FocusWindow(others[1], s))
  BY <1>1, FocusWindowChanges
<1>5. Changed(policy.ws, new)
  BY <1>1, <1>3, <1>4
<1> HIDE DEF new
<1>6. QED
  BY <1>2, <1>5, ChangeStackSetKeeps DEF p

-----------------------------------------------------------------------------
(* Directions *)

\* Focusing in a direction.
LEMMA FocusDirectionKeeps ==
  ASSUME PolicyInv, NEW step, FocusDirection(step)
  PROVE  Keeps
<1> DEFINE p == CancelPointer(policy)
           Next1(target) ==
             CASE target.kind = "window" -> [p EXCEPT !.ws = FocusWindow(target.window, @)]
               [] target.kind = "workspace" -> [p EXCEPT !.ws = View(target.tag, @)]
               [] OTHER -> p
<1>1. Fit(p) /\ Aside(policy, p) /\ p.ws \in Spaces
  BY Cancelled
<1>2. PICK target : Perform(p, Next1(target), <<>>)
  BY DEF FocusDirection
<1>3. \/ Next1(target) = WithSpace(FocusWindow(target.window, p.ws), p)
      \/ Next1(target) = WithSpace(View(target.tag, p.ws), p)
      \/ Next1(target) = p
  BY DEF WithSpace
<1> HIDE DEF Next1
<1> HIDE DEF p
<1>4. Changed(p.ws, FocusWindow(target.window, p.ws)) /\ Changed(p.ws, View(target.tag, p.ws))
  BY <1>1, FocusWindowChanges, ViewChanges
<1>5. CASE Next1(target) = p
  BY <1>1, <1>2, <1>5, IdleKeeps DEF Plain
<1>6. CASE Next1(target) = WithSpace(FocusWindow(target.window, p.ws), p)
  <2>1. Perform(p, WithSpace(FocusWindow(target.window, p.ws), p), <<>>)
    BY <1>2, <1>6
  <2>2. QED
    BY <1>1, <1>4, <2>1, SpaceKeeps
<1>7. CASE Next1(target) = WithSpace(View(target.tag, p.ws), p)
  <2>1. Perform(p, WithSpace(View(target.tag, p.ws), p), <<>>)
    BY <1>2, <1>7
  <2>2. QED
    BY <1>1, <1>4, <2>1, SpaceKeeps
<1>8. QED
  BY <1>3, <1>5, <1>6, <1>7

\* A direction leads to a window that is on a workspace.
LEMMA TargetsPlaced ==
  ASSUME NEW p, Fit(p), NEW step, NEW target \in DirectionTargets(step, p),
         target.kind = "window"
  PROVE  target.window \in Placed(p.ws)
<1> DEFINE s == p.ws
           focused == Peek(s)
           floating(w) == MetadataFor(p, w).floating
           SameMode(w) == focused = NoWindow \/ floating(w) = floating(focused)
           K == {w \in ToSet(Index(s)) : SameMode(w)}
           members == Kept(Index(s), K)
           next == IndexOf(focused, members) + step
           V == {v \in VisibleWindows(p) \ {focused} : SameMode(v)}
           E == {j \in DOMAIN s.outs : /\ s.outs[j] \in DOMAIN p.outputs \ {s.outs[1]}
                                       /\ s.stack[s.order[j]] = NoStack}
<1>1. \/ next \in DOMAIN members /\ target = ToWindow(members[next])
      \/ target = NoTarget
      \/ \E w \in V : target = ToWindow(w)
      \/ \E i \in E : target = ToWorkspace(s.order[i])
  BY DEF DirectionTargets
<1> HIDE DEF next, V, E
<1>2. CASE next \in DOMAIN members /\ target = ToWindow(members[next])
  <2>1. s \in Spaces
    BY Unchanged
  <2>2. CurrentTag(s) \in Tags /\ s.stack[CurrentTag(s)].list \in Seq(Windows)
    BY <2>1, WellParts DEF Spaces, Stacks
  <2>3. Index(s) \in Seq(Windows)
    BY <2>2 DEF Index, Current
  <2> HIDE DEF K
  <2>4. ToSet(members) \subseteq ToSet(Index(s))
    BY <2>3, KeptLists
  <2> HIDE DEF members
  <2>5. members[next] \in ToSet(Index(s))
    BY <1>2, <2>4 DEF ToSet
  <2>6. target.window = members[next]
    BY <1>2 DEF ToWindow
  <2>7. QED
    BY <2>1, <2>2, <2>5, <2>6, PlacedWindows DEF Spaces, Index, Current
<1>3. CASE \E w \in V : target = ToWindow(w)
  <2>1. PICK w \in V : target = ToWindow(w)
    BY <1>3
  <2>2. w \in VisibleWindows(p) /\ target.window = w
    BY <2>1 DEF ToWindow, V
  <2>3. QED
    BY <2>2, VisibleOnScreen
<1>4. CASE target = NoTarget \/ \E i \in E : target = ToWorkspace(s.order[i])
  BY <1>4 DEF NoTarget, ToWorkspace
<1>5. QED
  BY <1>1, <1>2, <1>3, <1>4

\* The stack set after Transfer and MoveTo.
LEMMA TransferFit ==
  ASSUME NEW p, Fit(p), NEW w, NEW t
  PROVE  \E s : Transfer(w, t, p) = WithSpace(s, p) /\ Changed(p.ws, s)
<1> DEFINE moved == ShiftFamily(w, t, p)
<1>1. PICK s : moved = WithSpace(s, p) /\ Shifted(p.ws, s)
  BY ShiftFamilyFit
<1>2. Changed(p.ws, s) /\ s \in Spaces
  BY <1>1 DEF Shifted, Changed, Rearranged, Spaces
<1> DEFINE v == View(t, s)
           f == FocusWindow(w, v)
<1>3. Changed(s, v) /\ v \in Spaces
  <2>1. Changed(s, v)
    BY <1>2, ViewChanges
  <2> HIDE DEF v
  <2>2. QED
    BY <2>1 DEF Changed, Rearranged, Spaces
<1>4. Changed(v, f)
  <2> HIDE DEF v
  <2>1. QED
    BY <1>3, FocusWindowChanges
<1>5. moved.ws = s /\ HasFields(p)
  BY <1>1, <1>2, WithSpaceFit, FitFields
<1>6. Transfer(w, t, p) = [moved EXCEPT !.ws = FocusWindow(w, View(t, moved.ws))]
  BY DEF Transfer
<1> HIDE DEF moved
<1>7. Transfer(w, t, p) = [moved EXCEPT !.ws = f]
  BY <1>5, <1>6
<1> HIDE DEF v, f
<1>8. Transfer(w, t, p) = WithSpace(f, p)
  BY <1>1, <1>5, <1>7 DEF WithSpace, HasFields, FieldNames
<1>9. Changed(p.ws, f)
  BY <1>2, <1>3, <1>4, ChangedTransitive
<1>10. QED
  BY <1>8, <1>9

\* Moving the focused window to a target rearranges at most.
LEMMA MoveToFit ==
  ASSUME NEW p, Fit(p), NEW step, NEW target \in DirectionTargets(step, p),
         Peek(p.ws) # NoWindow
  PROVE  \/ MoveTo(Peek(p.ws), target, p) = p
         \/ \E s : MoveTo(Peek(p.ws), target, p) = WithSpace(s, p) /\ Changed(p.ws, s)
<1> DEFINE w == Peek(p.ws)
           x == target.window
<1>1. p.ws \in Spaces
  BY Unchanged
<1>2. w \in ToSet(Index(p.ws))
  <2>1. /\ CurrentTag(p.ws) \in Tags
        /\ p.ws.stack[CurrentTag(p.ws)] \in Stacks(Windows)
        /\ StackArranged(p.ws.stack[CurrentTag(p.ws)])
    BY <1>1, WellParts DEF Spaces
  <2>2. Current(p.ws) # NoStack /\ w = Current(p.ws).list[Current(p.ws).pos]
    BY DEF Peek, NoWindow
  <2>3. QED
    BY <2>1, <2>2, EmptyStack DEF Current, Index
<1> HIDE DEF w
<1>3. CASE target.kind = "workspace"
  <2>1. MoveTo(w, target, p) = Transfer(w, target.tag, p)
    BY <1>3 DEF MoveTo
  <2>2. QED
    BY <2>1, TransferFit DEF w
<1>4. CASE target.kind = "window" /\ FindTag(x, p.ws) = CurrentTag(p.ws)
  <2> DEFINE s == SwapWith(w, x, p.ws)
  <2>1. MoveTo(w, target, p) = WithSpace(s, p)
    BY <1>4 DEF MoveTo, WithSpace
  <2>2. x \in Placed(p.ws)
    BY <1>4, TargetsPlaced
  <2>3. x \in ToSet(Index(p.ws))
    BY <1>1, <1>4, <2>2, PlacedWindows DEF Spaces, Index, Current
  <2>4. Changed(p.ws, s)
    BY <1>1, <1>2, <2>3, SwapChanges
  <2> HIDE DEF s
  <2>5. QED
    BY <2>1, <2>4 DEF w
<1>5. CASE target.kind = "window" /\ FindTag(x, p.ws) # CurrentTag(p.ws)
  <2>1. MoveTo(w, target, p) = Transfer(w, FindTag(x, p.ws), p)
    BY <1>5 DEF MoveTo
  <2>2. QED
    BY <2>1, TransferFit DEF w
<1>6. CASE target.kind \notin {"window", "workspace"}
  BY <1>6 DEF MoveTo, w
<1>7. QED
  BY <1>3, <1>4, <1>5, <1>6

\* Moving a window in a direction.
LEMMA MoveDirectionKeeps ==
  ASSUME PolicyInv, NEW step, MoveDirection(step)
  PROVE  Keeps
<1> DEFINE p == FocusedGeometry(policy)
           w == Peek(p.ws)
           m == MetadataFor(p, w)
<1>1. Fit(p) /\ Aside(policy, p)
  BY Cancelled
<1>2. CASE w = NoWindow \/ m.fullscreen \/ m.floating
  <2>1. Perform(p, p, <<>>)
    BY <1>2 DEF MoveDirection
  <2>2. QED
    BY <1>1, <2>1, IdleKeeps DEF Plain
<1>3. CASE ~(w = NoWindow \/ m.fullscreen \/ m.floating)
  <2>1. PICK target \in DirectionTargets(step, p) : Perform(p, MoveTo(w, target, p), <<>>)
    BY <1>3 DEF MoveDirection
  <2>2. w # NoWindow
    BY <1>3
  <2> HIDE DEF p
  <2>3. \/ MoveTo(w, target, p) = p
        \/ \E s : MoveTo(w, target, p) = WithSpace(s, p) /\ Changed(p.ws, s)
    BY <1>1, <2>2, MoveToFit
  <2> HIDE DEF w
  <2>4. CASE MoveTo(w, target, p) = p
    BY <1>1, <2>1, <2>4, IdleKeeps DEF Plain
  <2>5. CASE \E s : MoveTo(w, target, p) = WithSpace(s, p) /\ Changed(p.ws, s)
    <3>1. PICK s : MoveTo(w, target, p) = WithSpace(s, p) /\ Changed(p.ws, s)
      BY <2>5
    <3>2. Perform(p, WithSpace(s, p), <<>>)
      BY <2>1, <3>1
    <3>3. QED
      BY <1>1, <3>1, <3>2, SpaceKeeps
  <2>6. QED
    BY <2>3, <2>4, <2>5
<1>4. QED
  BY <1>2, <1>3

-----------------------------------------------------------------------------
(* Metadata, layouts, modes and commands *)

\* The metadata a window has, or the default.
LEMMA MetadataType ==
  ASSUME NEW p, Fit(p), NEW w
  PROVE  /\ MetadataFor(p, w) \in Metadata
         /\ MetadataFor(p, w).parent \in Windows \cup {NoWindow}
<1>1. DefaultMetadata \in Metadata
  BY PolicyAssumption DEF DefaultMetadata, Metadata
<1>2. p.meta \in [DOMAIN p.meta -> Metadata]
  BY FitFields
<1>3. MetadataFor(p, w) \in Metadata
  BY <1>1, <1>2 DEF MetadataFor
<1>4. QED
  BY <1>3 DEF Metadata

\* Changing the focused window's metadata, but not its parent.
LEMMA ModifyFocusedKeeps ==
  ASSUME PolicyInv,
         NEW m, LET p == FocusedGeometry(policy)
                    w == Peek(p.ws)
                IN  /\ m \in Metadata /\ m.parent = MetadataFor(p, w).parent
                    /\ Perform(p, AlterMetadata(w, m, p), <<>>)
  PROVE  Keeps
<1> DEFINE p == FocusedGeometry(policy)
           w == Peek(p.ws)
           next == AlterMetadata(w, m, p)
<1>1. Fit(p) /\ Aside(policy, p)
  BY Cancelled
<1>2. m \in Metadata /\ m.parent = MetadataFor(p, w).parent
  OBVIOUS
<1>3. Perform(p, next, <<>>)
  OBVIOUS
<1> HIDE DEF p, w
<1>4. Fit(next) /\ next.locked = p.locked /\ next.mode = p.mode /\ next.outputs = p.outputs
  BY <1>1, <1>2, AlterMetadataFit
<1> HIDE DEF next
<1>5. QED
  BY <1>1, <1>3, <1>4, ActionKeeps DEF Plain

\* Floating, sinking and fullscreen.
LEMMA ChangeFloatingKeeps == PolicyInv /\ (ChangeFloating \/ ToggleFullscreen) => Keeps
<1> SUFFICES ASSUME PolicyInv, ChangeFloating \/ ToggleFullscreen PROVE Keeps
  OBVIOUS
<1> DEFINE p == FocusedGeometry(policy)
           w == Peek(p.ws)
           m == MetadataFor(p, w)
           a == [m EXCEPT !.floating = ~@]
           b == [m EXCEPT !.floating = FALSE]
           c == [m EXCEPT !.fullscreen = ~@]
           Does(n) == Perform(p, AlterMetadata(w, n, p), <<>>)
<1>1. m \in Metadata
  BY Cancelled, MetadataType
<1>2. \/ Does(a) \/ Does(b) \/ Does(c)
  BY DEF ChangeFloating, ToggleFloat, Sink, ToggleFullscreen, ModifyFocused
<1>3. /\ a \in Metadata /\ a.parent = m.parent
      /\ b \in Metadata /\ b.parent = m.parent
      /\ c \in Metadata /\ c.parent = m.parent
  <2> HIDE DEF m
  <2>1. QED
    BY <1>1 DEF Metadata
<1> HIDE DEF a, b, c
<1>4. \A n : n \in Metadata /\ n.parent = m.parent /\ Does(n) => Keeps
  BY ModifyFocusedKeeps
<1> HIDE DEF Does
<1>5. QED
  BY <1>2, <1>3, <1>4

\* Changing the current workspace's layout.
LEMMA ChangeLayoutKeeps ==
  ASSUME PolicyInv,
         NEW k \in LayoutKinds,
         LET p == CancelPointer(policy)
         IN  Perform(p, [p EXCEPT !.layout[CurrentTag(p.ws)] = k], <<>>)
  PROVE  Keeps
<1> DEFINE p == CancelPointer(policy)
           next == [p EXCEPT !.layout[CurrentTag(p.ws)] = k]
<1>1. Fit(p) /\ Aside(policy, p)
  BY Cancelled
<1>2. Perform(p, next, <<>>)
  OBVIOUS
<1> HIDE DEF p
<1>3. Fit(next) /\ next.locked = p.locked /\ next.mode = p.mode /\ next.outputs = p.outputs
  BY <1>1, WithLayoutFit
<1> HIDE DEF next
<1>4. QED
  BY <1>1, <1>2, <1>3, ActionKeeps DEF Plain

\* NextLayout stays in the configured cycle.
LEMMA CycleKinds ==
  ASSUME NEW k \in ToSet(LayoutCycle)
  PROVE  LayoutCycle[(IndexOf(k, LayoutCycle) % Len(LayoutCycle)) + 1] \in LayoutKinds
<1>1. LayoutCycle \in Seq(LayoutKinds) /\ LayoutCycle # <<>>
  BY PolicyAssumption
<1>2. Len(LayoutCycle) \in Nat \ {0} /\ DOMAIN LayoutCycle = 1 .. Len(LayoutCycle)
  BY <1>1
<1>3. IndexOf(k, LayoutCycle) \in 1 .. Len(LayoutCycle)
  BY <1>1, <1>2, IndexOfMember
<1> DEFINE i == IndexOf(k, LayoutCycle)
           n == Len(LayoutCycle)
<1> HIDE DEF i, n
<1>4. i \in Nat /\ n \in Nat \ {0}
  BY <1>2, <1>3 DEF i, n
<1>5. i % n \in 0 .. n - 1
  BY <1>4
<1>6. (i % n) + 1 \in 1 .. n
  BY <1>4, <1>5
<1>7. QED
  BY <1>1, <1>2, <1>6 DEF i, n

\* Every layout action.
LEMMA LayoutsKeep == PolicyInv /\ (ChooseLayout \/ ChooseSplit) => Keeps
<1> SUFFICES ASSUME PolicyInv, ChooseLayout \/ ChooseSplit PROVE Keeps
  OBVIOUS
<1> DEFINE p == CancelPointer(policy)
           t == CurrentTag(p.ws)
           old == p.layout[t]
           Does(k) == Perform(p, [p EXCEPT !.layout[t] = k], <<>>)
<1>1. p.layout \in [Tags -> LayoutKinds] /\ t \in Tags
  <2>1. Fit(p) /\ p.ws \in Spaces
    BY Cancelled
  <2> HIDE DEF p
  <2>2. QED
    BY <2>1, FitFields, WellParts DEF Spaces
<1>2. old \in LayoutKinds
  BY <1>1
<1>3. \A k \in LayoutKinds : Does(k) => Keeps
  BY ChangeLayoutKeeps
<1>4. ASSUME NEW kind \in Layouts, SetLayout(kind) PROVE Keeps
  <2>1. kind \in LayoutKinds
    BY PolicyAssumption
  <2>2. Does(kind)
    BY <1>4 DEF SetLayout, ChangeLayout
  <2> HIDE DEF Does
  <2>3. QED
    BY <1>3, <2>1, <2>2
<1>5. ASSUME NextLayout PROVE Keeps
  <2> DEFINE new == IF old \notin ToSet(LayoutCycle) THEN old
                    ELSE LayoutCycle[(IndexOf(old, LayoutCycle) % Len(LayoutCycle)) + 1]
  <2>1. Does(new)
    BY <1>5 DEF NextLayout, ChangeLayout
  <2>2. new \in LayoutKinds
    BY <1>2, CycleKinds
  <2> HIDE DEF new, Does
  <2>3. QED
    BY <1>3, <2>1, <2>2
<1>6. ASSUME ToggleSplit PROVE Keeps
  <2> DEFINE new == IF old = "Columns" THEN "Rows" ELSE "Columns"
  <2>1. Does(new)
    BY <1>6 DEF ToggleSplit, ChangeLayout
  <2>2. new \in LayoutKinds
    BY DEF LayoutKinds
  <2> HIDE DEF new, Does
  <2>3. QED
    BY <1>3, <2>1, <2>2
<1>7. ASSUME CycleSwayLayout PROVE Keeps
  <2> DEFINE new == IF old = "Tabbed" THEN "Stacking"
                    ELSE IF old = "Stacking" THEN "Columns" ELSE "Tabbed"
  <2>1. Does(new)
    BY <1>7 DEF CycleSwayLayout, ChangeLayout
  <2>2. new \in LayoutKinds
    BY DEF LayoutKinds
  <2> HIDE DEF new, Does
  <2>3. QED
    BY <1>3, <2>1, <2>2
<1>8. ASSUME ResizeMaster PROVE Keeps
  <2>1. Does(old)
    BY <1>8 DEF ResizeMaster, ChangeLayout
  <2> HIDE DEF old, Does
  <2>2. QED
    BY <1>2, <1>3, <2>1
<1>9. ASSUME Resize PROVE Keeps
  <2> DEFINE q == FocusedGeometry(policy)
  <2>1. Fit(q) /\ Aside(policy, q)
    BY Cancelled
  <2>2. Perform(q, q, <<>>)
    BY <1>9 DEF Resize
  <2> HIDE DEF q
  <2>3. QED
    BY <2>1, <2>2, IdleKeeps DEF Plain
<1>10. QED
  BY <1>4, <1>5, <1>6, <1>7, <1>8, <1>9 DEF ChooseLayout, ChooseSplit

\* Entering a binding mode.
LEMMA EnterModeKeeps ==
  ASSUME PolicyInv, NEW mode \in {"normal", "resize"}, EnterMode(mode)
  PROVE  Keeps
<1> DEFINE p == CancelPointer(policy)
           next == [p EXCEPT !.mode = mode]
<1>1. Fit(p) /\ Aside(policy, p)
  BY Cancelled
<1>2. Perform(p, next, <<>>)
  BY DEF EnterMode
<1>3. mode \in Modes /\ mode # "picker"
  BY DEF Modes
<1> HIDE DEF p
<1>4. Fit(next) /\ next.locked = p.locked /\ next.mode = mode /\ next.outputs = p.outputs
  BY <1>1, <1>3, WithModeFit
<1> HIDE DEF next
<1>5. QED
  BY <1>1, <1>2, <1>3, <1>4, ActionKeeps DEF Plain

\* Modes, commands, closing and leaving.
LEMMA CommandKeeps == PolicyInv /\ Command => Keeps
<1> SUFFICES ASSUME PolicyInv, Command PROVE Keeps
  OBVIOUS
<1> DEFINE p == CancelPointer(policy)
<1>1. Fit(p) /\ Aside(policy, p) /\ Fit(policy) /\ Aside(policy, policy)
  BY Cancelled
<1>2. ASSUME NEW kind \in {"Spawn", "ReloadConfig", "ConfirmSessionExit"}, RunCommand(kind)
      PROVE  Keeps
  <2> DEFINE result == <<[kind |-> kind]>>
  <2>1. Perform(policy, policy, result)
    BY <1>2 DEF RunCommand
  <2>2. Plain(result)
    BY DEF Plain
  <2> HIDE DEF result
  <2>3. QED
    BY <1>1, <2>1, <2>2, IdleKeeps
<1>3. ASSUME NEW kind \in {"StopRuntime", "RestartRuntime"}, Leave(kind)
      PROVE  Keeps
  <2> DEFINE result == <<[kind |-> kind]>>
  <2>1. Perform(p, p, result)
    BY <1>3 DEF Leave
  <2>2. Plain(result)
    BY DEF Plain
  <2> HIDE DEF result, p
  <2>3. QED
    BY <1>1, <2>1, <2>2, IdleKeeps
<1>4. ASSUME Close PROVE Keeps
  <2> DEFINE w == FocusedWindow(p)
             result == IF w = NoWindow THEN <<>> ELSE <<[kind |-> "CloseWindow", window |-> w]>>
  <2>1. Perform(p, p, result)
    BY <1>4 DEF Close
  <2>2. Plain(result)
    BY DEF Plain
  <2> HIDE DEF result, p
  <2>3. QED
    BY <1>1, <2>1, <2>2, IdleKeeps
<1>5. QED
  BY <1>2, <1>3, <1>4, EnterModeKeeps, SwapToKeeps DEF Command

-----------------------------------------------------------------------------
(* The picker *)

\* The labels name windows of the current workspace.
LEMMA ChoicesType ==
  ASSUME NEW p, Fit(p)
  PROVE  PickerChoices(p) \in Seq(Labels)
<1> DEFINE windows == Index(p.ws)
           n == AtMost(Len(windows), MaxLetters)
           all == [i \in 1 .. n |-> [letter |-> i, window |-> windows[i]]]
           K == {c \in ToSet(all) : c.window \in VisibleWindows(p)}
<1>1. p.ws \in Spaces
  BY Unchanged
<1>2. windows \in Seq(Windows)
  BY <1>1, WellParts DEF Spaces, Index, Current, Stacks
<1> HIDE DEF windows
<1>3. n \in Nat /\ n <= Len(windows)
  BY <1>2, PolicyAssumption DEF AtMost
<1>4. \A i \in 1 .. n : [letter |-> i, window |-> windows[i]] \in Labels
  BY <1>2, <1>3 DEF Labels
<1> HIDE DEF n
<1>5. all \in Seq(Labels)
  BY <1>3, <1>4
<1>6. PickerChoices(p) = Kept(all, K)
  BY DEF PickerChoices, windows, n
<1> HIDE DEF all, K
<1>7. QED
  BY <1>5, <1>6, KeptLists

\* Opening the picker shows the overlay together with the mode.
LEMMA PickKeeps == PolicyInv /\ Pick => Keeps
<1> SUFFICES ASSUME PolicyInv, Pick PROVE Keeps
  OBVIOUS
<1> DEFINE p == CancelPointer(policy)
           choices == PickerChoices(p)
           next == [p EXCEPT !.mode = "picker"]
<1>1. Fit(p) /\ Aside(policy, p)
  BY Cancelled
<1>2. p.locked = policy.locked /\ p.mode = policy.mode /\ p.outputs = policy.outputs
  BY <1>1 DEF Aside
<1>3. p.locked \/ choices = <<>> => Respond(p, <<>>)
  BY DEF Pick
<1>4. ~p.locked /\ choices # <<>> => Respond(next, <<ShowPicker(choices)>>)
  BY DEF Pick
<1> HIDE DEF p
<1>5. CASE p.locked \/ choices = <<>>
  BY <1>1, <1>2, <1>3, <1>5, QuietKeeps DEF Keeps
<1>6. CASE ~p.locked /\ choices # <<>>
  <2>1. "picker" \in Modes
    BY DEF Modes
  <2>2. Fit(next) /\ next.locked = p.locked /\ next.mode = "picker" /\ next.outputs = p.outputs
    BY <1>1, <2>1, WithModeFit
  <2>3. choices \in Seq(Labels)
    BY <1>1, ChoicesType
  <2> DEFINE result == <<ShowPicker(choices)>>
  <2>4. Respond(next, result)
    BY <1>4, <1>6
  <2> HIDE DEF next, choices
  <2>5. Announced(next, result)
    BY <1>6, <2>2, <2>3 DEF Announced
  <2> HIDE DEF result
  <2>6. QED
    BY <1>2, <1>6, <2>2, <2>4, <2>5, RespondKeepsAll
<1>7. QED
  BY <1>5, <1>6

\* The picker closes over a fit policy.
LEMMA HideKeeps ==
  ASSUME PolicyInv, NEW next, Fit(next), next.mode = "normal",
         next.outputs = policy.outputs, Respond(next, <<HidePicker>>)
  PROVE  Keeps
<1> DEFINE result == <<HidePicker>>
<1>1. Announced(next, result)
  BY DEF Announced
<1>2. Respond(next, result)
  OBVIOUS
<1> HIDE DEF result
<1>3. QED
  BY <1>1, <1>2, RespondKeepsAll

\* Cancelling the picker hides the overlay together with the mode.
LEMMA CancelPickerKeeps ==
  ASSUME PolicyInv, NEW p, Fit(p), p.outputs = policy.outputs, CancelPicker(p)
  PROVE  Keeps
<1> DEFINE next == [p EXCEPT !.mode = "normal"]
<1>1. "normal" \in Modes
  BY DEF Modes
<1>2. Fit(next) /\ next.mode = "normal" /\ next.outputs = p.outputs
  BY <1>1, WithModeFit
<1>3. Respond(next, <<HidePicker>>)
  BY DEF CancelPicker
<1> HIDE DEF next
<1>4. QED
  BY <1>2, <1>3, HideKeeps

\* A letter ends the picker, whether or not a window has it now.
LEMMA PickCandidateKeeps ==
  ASSUME PolicyInv, NEW i, PickCandidate(i)
  PROVE  Keeps
<1> DEFINE p == CancelPointer(policy)
           choices == PickerChoices(p)
           q == [p EXCEPT !.mode = "normal"]
           s == SwapToWindow(choices[i].window, p.ws)
           next == [p EXCEPT !.mode = "normal", !.ws = s]
<1>1. Fit(p) /\ p.ws \in Spaces /\ HasFields(p) /\ p.outputs = policy.outputs
  BY Cancelled, FitFields DEF Aside
<1>2. CASE i \in DOMAIN choices
  <2>1. Respond(next, <<HidePicker>>)
    BY <1>2 DEF PickCandidate
  <2> HIDE DEF choices, p
  <2>2. "normal" \in Modes
    BY DEF Modes
  <2>3. Fit(q) /\ q.mode = "normal" /\ q.outputs = p.outputs /\ q.ws = p.ws
    BY <1>1, <2>2, WithModeFit
  <2>4. Changed(p.ws, s)
    BY <1>1, SwapChanges
  <2> HIDE DEF s
  <2>5. next = WithSpace(s, q)
    BY <1>1 DEF WithSpace, HasFields, FieldNames
  <2> HIDE DEF next, q
  <2>6. Fit(next) /\ next.mode = "normal" /\ next.outputs = policy.outputs
    BY <1>1, <2>3, <2>4, <2>5, WithSpaceFit
  <2>7. QED
    BY <2>1, <2>6, HideKeeps
<1>3. CASE i \notin DOMAIN choices
  <2>1. CancelPicker(p)
    BY <1>3 DEF PickCandidate
  <2> HIDE DEF p
  <2>2. QED
    BY <1>1, <2>1, CancelPickerKeeps
<1>4. QED
  BY <1>2, <1>3

\* Every use of the picker.
LEMMA UsePickerKeeps == PolicyInv /\ UsePicker => Keeps
<1> SUFFICES ASSUME PolicyInv, UsePicker PROVE Keeps
  OBVIOUS
<1>1. ASSUME PickCancel PROVE Keeps
  <2> DEFINE p == CancelPointer(policy)
  <2>1. Fit(p) /\ p.outputs = policy.outputs
    BY Cancelled DEF Aside
  <2>2. CancelPicker(p)
    BY <1>1 DEF PickCancel
  <2> HIDE DEF p
  <2>3. QED
    BY <2>1, <2>2, CancelPickerKeeps
<1>2. QED
  BY <1>1, PickKeeps, PickCandidateKeeps DEF UsePicker

-----------------------------------------------------------------------------
(* Clicks, the pointer and the session lock *)

\* A fit policy whose stack set is p's, or p's with a window focused.
LEMMA FocusWindowFit ==
  ASSUME NEW p, Fit(p), NEW w
  PROVE  LET q == [p EXCEPT !.ws = FocusWindow(w, @)]
         IN  /\ Fit(q) /\ q.ws = FocusWindow(w, p.ws)
             /\ q.locked = p.locked /\ q.mode = p.mode
             /\ q.outputs = p.outputs /\ q.meta = p.meta
<1> DEFINE s == FocusWindow(w, p.ws)
<1>1. p.ws \in Spaces
  BY Unchanged
<1>2. Changed(p.ws, s)
  BY <1>1, FocusWindowChanges
<1>3. [p EXCEPT !.ws = FocusWindow(w, @)] = WithSpace(s, p)
  BY DEF WithSpace
<1> HIDE DEF s
<1>4. Fit(WithSpace(s, p)) /\ WithSpace(s, p).ws = s
      /\ WithSpace(s, p).locked = p.locked /\ WithSpace(s, p).mode = p.mode
      /\ WithSpace(s, p).outputs = p.outputs /\ WithSpace(s, p).meta = p.meta
  BY <1>2, WithSpaceFit
<1>5. QED
  BY <1>3, <1>4 DEF s

\* A click: also that no output changes its workspace.
LEMMA ClickKeeps ==
  ASSUME PolicyInv, NEW w, FocusRequested(w)
  PROVE  Keeps /\ SameScreens(policy.ws, policy'.ws)
<1> DEFINE visible == w \in VisibleWindows(policy)
           p == IF visible /\ w # FocusedWindow(policy) THEN CancelPointer(policy) ELSE policy
           q == [p EXCEPT !.ws = FocusWindow(w, @)]
           next == IF visible /\ ~p.locked THEN q ELSE p
<1>1. Fit(p) /\ Aside(policy, p)
  BY Cancelled
<1>2. Respond(next, <<>>)
  BY DEF FocusRequested
<1> HIDE DEF p
<1>3. Fit(q) /\ q.ws = FocusWindow(w, p.ws)
      /\ q.locked = p.locked /\ q.mode = p.mode /\ q.outputs = p.outputs
  BY <1>1, FocusWindowFit
<1> HIDE DEF q
<1>4. Fit(next) /\ next.locked = p.locked /\ next.mode = p.mode /\ next.outputs = p.outputs
  BY <1>1, <1>3
<1>5. SameScreens(policy.ws, next.ws)
  <2>1. Fit(policy) /\ policy.ws \in Spaces /\ p.ws = policy.ws
    BY <1>1, Cancelled DEF Aside
  <2>2. SameScreens(policy.ws, policy.ws)
    BY DEF SameScreens
  <2>3. ASSUME visible PROVE SameScreens(policy.ws, FocusWindow(w, policy.ws))
    <3> DEFINE i == ScreenOf(w, policy)
    <3>1. i \in DOMAIN policy.ws.outs /\ w \in ToSet(policy.ws.stack[policy.ws.order[i]].list)
      BY <2>1, <2>3, VisibleOnScreen, ShownBelong
    <3> HIDE DEF i
    <3>2. QED
      BY <2>1, <3>1, FocusWindowArranges DEF Spaces
  <2>4. QED
    BY <1>3, <2>1, <2>2, <2>3
<1> HIDE DEF next
<1>6. PolicyInv' /\ policy'.outputs = next.outputs /\ policy'.ws = next.ws
  BY <1>1, <1>2, <1>4, QuietKeeps DEF Aside
<1>7. QED
  BY <1>1, <1>4, <1>5, <1>6 DEF Keeps, Aside

\* A policy by its parts.
LEMMA FitFromParts ==
  ASSUME NEW q, HasFields(q), q.ws \in Spaces,
         q.layout \in [Tags -> LayoutKinds],
         q.outputs \in [DOMAIN q.outputs -> OutputSpans], DOMAIN q.outputs \subseteq Outputs,
         q.workAreas \in [DOMAIN q.workAreas -> WorkSpans], DOMAIN q.workAreas \subseteq Outputs,
         q.locked \in BOOLEAN, q.mode \in Modes,
         q.meta \in [DOMAIN q.meta -> Metadata], DOMAIN q.meta = Placed(q.ws),
         q.operation \in Operations, q.sized \subseteq Windows,
         q.anchors \in [DOMAIN q.anchors -> Anchors], DOMAIN q.anchors \subseteq Windows,
         Trees(q), Screens(q), Ready(q)
  PROVE  Fit(q)
<1>1. q.ws \in StackSets(Tags, AllOutputs, Windows) /\ Arranged(q.ws)
  BY DEF Spaces, Well
<1>2. DOMAIN q.meta \subseteq Windows
  BY PlacedWindows DEF Spaces
<1>3. IsPolicy(q)
  BY <1>1, <1>2, PolicyFromFields
<1>4. QED
  BY <1>1, <1>3 DEF Fit, Sound

\* The pointer takes hold of a visible floating window.
LEMMA StartPointerFit ==
  ASSUME NEW p, Fit(p), NEW seat \in Seats, NEW w \in Windows, NEW fits
  PROVE  LET q == StartPointer(seat, w, fits, p)
         IN  Fit(q) /\ q.locked = p.locked /\ q.mode = p.mode /\ q.outputs = p.outputs
<1> DEFINE anchor == AnchorNow(w, p)
           op == [seat |-> seat, window |-> w, output |-> anchor.output,
                  hints |-> MetadataFor(p, w).hints]
           an == Put(p.anchors, w, anchor)
           s == FocusWindow(w, p.ws)
           q == [p EXCEPT !.operation = op, !.anchors = an, !.ws = s]
           Refused == \/ p.locked \/ p.operation # NoOperation \/ ~PlacedFloating(w, p)
                      \/ w \notin p.sized \/ MetadataFor(p, w).fullscreen \/ ~fits
<1>1. CASE Refused
  BY <1>1 DEF StartPointer
<1>2. CASE ~Refused
  <2>1. StartPointer(seat, w, fits, p) = q
    BY <1>2 DEF StartPointer
  <2>2. w \in VisibleWindows(p) /\ w \in p.sized
    BY <1>2 DEF PlacedFloating
  <2>3. anchor \in Anchors
    BY <2>2, AnchorNowType
  <2>4. MetadataFor(p, w).hints \in Hints
    BY MetadataType DEF Metadata
  <2>5. op \in Operations /\ op.window = w /\ op.output = anchor.output
    BY <2>3, <2>4 DEF Operations, Anchors
  <2>6. p.ws \in Spaces /\ p.anchors \in [DOMAIN p.anchors -> Anchors]
        /\ DOMAIN p.anchors \subseteq Windows
    BY FitFields
  <2>7. /\ an \in [DOMAIN an -> Anchors] /\ DOMAIN an \subseteq Windows
        /\ an[w] = anchor
    <3> HIDE DEF anchor
    <3>1. QED
      BY <2>3, <2>6 DEF Put
  <2>8. Changed(p.ws, s)
    BY <2>6, FocusWindowChanges
  <2>9. s \in Spaces /\ Placed(s) = Placed(p.ws) /\ ToSet(s.outs) = ToSet(p.ws.outs)
        /\ Len(s.outs) = Len(p.ws.outs)
    BY <2>8 DEF Changed, Rearranged, Spaces
  <2> HIDE DEF op, an, s
  <2>10. /\ HasFields(q)
         /\ q.ws = s /\ q.layout = p.layout /\ q.outputs = p.outputs
         /\ q.workAreas = p.workAreas /\ q.locked = p.locked /\ q.meta = p.meta
         /\ q.mode = p.mode /\ q.operation = op /\ q.sized = p.sized
         /\ q.anchors = an
    <3>1. HasFields(p)
      BY FitFields
    <3>2. QED
      BY <3>1 DEF HasFields, FieldNames
  <2> HIDE DEF q
  <2>11. Ready(q)
    BY <2>2, <2>5, <2>7, <2>10 DEF Ready
  <2> DEFINE r == WithSpace(s, p)
  <2>12. Fit(r) /\ HasFields(r) /\ r.ws = s /\ r.outputs = p.outputs /\ r.meta = p.meta
    BY <2>8, WithSpaceFit, FitFields
  <2> HIDE DEF r
  <2>13. /\ Trees(q) /\ Screens(q) /\ DOMAIN q.meta = Placed(q.ws)
    BY <2>10, <2>12 DEF Fit, Sound, Trees, Screens
  <2>14. Fit(q)
    BY <2>5, <2>7, <2>9, <2>10, <2>11, <2>13, FitFields, FitFromParts
  <2>15. QED
    BY <2>1, <2>10, <2>14
<1>3. QED
  BY <1>1, <1>2

\* A pointer operation begins, or ends the picker.
LEMMA PointerStartedKeeps ==
  ASSUME PolicyInv, NEW seat \in Seats, NEW w \in Windows, NEW fits, PointerStarted(seat, w, fits)
  PROVE  Keeps
<1>1. Fit(policy)
  BY InvFit
<1>2. CASE policy.mode = "picker"
  <2>1. CancelPicker(policy)
    BY <1>2 DEF PointerStarted
  <2>2. QED
    BY <1>1, <2>1, CancelPickerKeeps
<1>3. CASE policy.mode # "picker"
  <2> DEFINE q == StartPointer(seat, w, fits, policy)
  <2>1. Respond(q, <<>>)
    BY <1>3 DEF PointerStarted
  <2>2. Fit(q) /\ q.locked = policy.locked /\ q.mode = policy.mode /\ q.outputs = policy.outputs
    BY <1>1, StartPointerFit
  <2> HIDE DEF q
  <2>3. QED
    BY <2>1, <2>2, QuietKeeps DEF Keeps
<1>4. QED
  BY <1>2, <1>3

\* A pointer operation ends.
LEMMA PointerEndedKeeps ==
  ASSUME PolicyInv, NEW seat, PointerEnded(seat)
  PROVE  Keeps
<1> DEFINE q == IF policy.operation.seat = seat THEN CancelPointer(policy) ELSE policy
<1>1. Respond(q, <<>>)
  BY DEF PointerEnded
<1>2. Fit(q) /\ Aside(policy, q)
  BY Cancelled
<1> HIDE DEF q
<1>3. QED
  BY <1>1, <1>2, QuietKeeps DEF Keeps, Aside

\* A window says its size.
LEMMA SizeKeeps ==
  ASSUME PolicyInv, NEW w \in Windows, WindowActualSize(w)
  PROVE  Keeps
<1> DEFINE q == [policy EXCEPT !.sized = @ \cup {w}]
           next == IF Member(w, policy.ws) THEN q ELSE policy
<1>1. Respond(next, <<>>)
  BY DEF WindowActualSize
<1>2. Fit(policy)
  BY InvFit
<1>3. Fit(q) /\ q.mode = policy.mode /\ q.locked = policy.locked /\ q.outputs = policy.outputs
  BY <1>2, WithSizeFit
<1> HIDE DEF q
<1>4. Fit(next) /\ next.mode = policy.mode /\ next.locked = policy.locked
      /\ next.outputs = policy.outputs
  BY <1>2, <1>3
<1> HIDE DEF next
<1>5. QED
  BY <1>1, <1>4, QuietKeeps DEF Keeps

\* Locking hides the picker whether it is open or not.
LEMMA LockKeeps == PolicyInv /\ LockSession => Keeps
<1> SUFFICES ASSUME PolicyInv, LockSession PROVE Keeps
  OBVIOUS
<1>1. CASE Locked
  <2> DEFINE p == CancelPointer(policy)
             q == [p EXCEPT !.mode = "normal"]
             r == [q EXCEPT !.locked = TRUE]
             next == [p EXCEPT !.locked = TRUE, !.mode = "normal"]
  <2>1. Fit(p) /\ HasFields(p) /\ p.outputs = policy.outputs
    BY Cancelled, FitFields DEF Aside
  <2>2. Respond(next, <<HidePicker>>)
    BY <1>1 DEF Locked
  <2> HIDE DEF p
  <2>3. "normal" \in Modes /\ TRUE \in BOOLEAN
    BY DEF Modes
  <2>4. next = r
    BY <2>1 DEF HasFields, FieldNames
  <2>5. Fit(q) /\ q.mode = "normal" /\ q.outputs = p.outputs
    BY <2>1, <2>3, WithModeFit
  <2> HIDE DEF q
  <2>6. Fit(r) /\ r.mode = q.mode /\ r.outputs = q.outputs
    BY <2>5, <2>3, WithLockFit
  <2> HIDE DEF r, next
  <2>7. QED
    BY <2>1, <2>2, <2>4, <2>5, <2>6, HideKeeps
<1>2. CASE Unlocked
  <2> DEFINE next == [policy EXCEPT !.locked = FALSE]
  <2>1. Respond(next, <<>>)
    BY <1>2 DEF Unlocked
  <2>2. Fit(policy) /\ FALSE \in BOOLEAN
    BY InvFit
  <2>3. Fit(next) /\ next.mode = policy.mode /\ ~next.locked /\ next.outputs = policy.outputs
    BY <2>2, WithLockFit
  <2> HIDE DEF next
  <2>4. Announced(next, <<>>)
    BY <2>3 DEF Announced, Plain
  <2>5. QED
    BY <2>1, <2>3, <2>4, RespondKeepsAll
<1>3. QED
  BY <1>1, <1>2 DEF LockSession

-----------------------------------------------------------------------------
(* What clients say about their windows *)

\* Every output shows the same workspace, and the focus is on the same one.
ShowsSame ==
  SameScreens(policy.ws, policy'.ws) /\ CurrentTag(policy'.ws) = CurrentTag(policy.ws)

\* So it is when order and outputs stay.
LEMMA SameIsShown ==
  policy'.ws.order = policy.ws.order /\ policy'.ws.outs = policy.ws.outs => ShowsSame
  BY DEF ShowsSame, SameScreens, TagOn, CurrentTag

\* A window says its size hints.
LEMMA SizeHintsKeep ==
  ASSUME PolicyInv, NEW w, NEW hints \in Hints, WindowSizeHints(w, hints)
  PROVE  Keeps /\ ShowsSame
<1> DEFINE m == MetadataFor(policy, w)
           p == IF m.hints # hints THEN CancelWindow(w, policy) ELSE policy
           n == [m EXCEPT !.hints = hints,
                          !.floating = @ \/ (hints \in FixedHints /\ m.hints \notin FixedHints)]
           next == AlterMetadata(w, n, p)
<1>1. Respond(next, <<>>)
  BY DEF WindowSizeHints
<1>2. Fit(policy) /\ m \in Metadata
  BY InvFit, MetadataType
<1>3. n \in Metadata /\ n.parent = m.parent
  <2> DEFINE b == m.floating \/ (hints \in FixedHints /\ m.hints \notin FixedHints)
  <2>1. n = [m EXCEPT !.hints = hints, !.floating = b] /\ b \in BOOLEAN
    BY <1>2 DEF Metadata
  <2> HIDE DEF m, b, n
  <2>2. QED
    BY <1>2, <2>1 DEF Metadata
<1>4. Fit(p) /\ Aside(policy, p)
  BY <1>2, CancelWindowFit, AsideReflexive
<1> HIDE DEF p, n
<1>5. n.parent = MetadataFor(p, w).parent
  BY <1>3, <1>4 DEF MetadataFor, Aside
<1>6. /\ Fit(next) /\ next.ws = p.ws
      /\ next.locked = p.locked /\ next.mode = p.mode /\ next.outputs = p.outputs
  BY <1>3, <1>4, <1>5, AlterMetadataFit
<1> HIDE DEF next
<1>7. policy'.ws = policy.ws /\ Keeps
  BY <1>1, <1>4, <1>6, QuietKeeps DEF Keeps, Aside
<1>8. QED
  BY <1>7, SameIsShown

\* A client's fullscreen request: also that no output changes its workspace.
LEMMA FullscreenKeeps ==
  ASSUME PolicyInv, NEW w, NEW enabled \in BOOLEAN, WindowFullscreen(w, enabled)
  PROVE  Keeps /\ SameScreens(policy.ws, policy'.ws)
<1> DEFINE m == MetadataFor(policy, w)
           p == IF m.fullscreen # enabled THEN CancelWindow(w, policy) ELSE policy
           n == [m EXCEPT !.fullscreen = enabled]
           a == AlterMetadata(w, n, p)
           q == [a EXCEPT !.ws = FocusWindow(w, @)]
           shows == enabled /\ ~p.locked /\ w \in VisibleWindows(p)
           next == IF shows THEN q ELSE a
<1>1. Respond(next, <<>>)
  BY DEF WindowFullscreen
<1>2. Fit(policy) /\ m \in Metadata /\ policy.ws \in Spaces
  BY InvFit, MetadataType, Unchanged
<1>3. n \in Metadata /\ n.parent = m.parent
  <2> HIDE DEF m
  <2>1. QED
    BY <1>2 DEF Metadata
<1>4. Fit(p) /\ Aside(policy, p)
  BY <1>2, CancelWindowFit, AsideReflexive
<1> HIDE DEF p, n
<1>5. n.parent = MetadataFor(p, w).parent
  BY <1>3, <1>4 DEF MetadataFor, Aside
<1>6. Fit(a) /\ a.ws = p.ws /\ a.locked = p.locked /\ a.mode = p.mode /\ a.outputs = p.outputs
  BY <1>3, <1>4, <1>5, AlterMetadataFit
<1> HIDE DEF a
<1>7. Fit(q) /\ q.ws = FocusWindow(w, a.ws)
      /\ q.locked = a.locked /\ q.mode = a.mode /\ q.outputs = a.outputs
  BY <1>6, FocusWindowFit
<1> HIDE DEF q
<1>8. Fit(next) /\ next.locked = p.locked /\ next.mode = p.mode /\ next.outputs = p.outputs
  BY <1>6, <1>7
<1>9. p.ws = policy.ws /\ p.outputs = policy.outputs /\ p.locked = policy.locked
      /\ p.mode = policy.mode /\ VisibleWindows(p) = VisibleWindows(policy)
  BY <1>4, AsideShows DEF Aside
<1>10. SameScreens(policy.ws, next.ws)
  <2>1. SameScreens(policy.ws, policy.ws)
    BY DEF SameScreens
  <2>2. ASSUME shows PROVE SameScreens(policy.ws, FocusWindow(w, policy.ws))
    <3>1. w \in VisibleWindows(policy)
      BY <1>9, <2>2
    <3> DEFINE i == ScreenOf(w, policy)
    <3>2. i \in DOMAIN policy.ws.outs /\ w \in ToSet(policy.ws.stack[policy.ws.order[i]].list)
      BY <1>2, <3>1, VisibleOnScreen, ShownBelong
    <3> HIDE DEF i
    <3>3. QED
      BY <1>2, <3>2, FocusWindowArranges DEF Spaces
  <2> HIDE DEF shows
  <2>3. QED
    BY <1>6, <1>7, <1>9, <2>1, <2>2
<1> HIDE DEF next
<1>11. PolicyInv' /\ policy'.outputs = next.outputs /\ policy'.ws = next.ws
  BY <1>1, <1>8, <1>9, QuietKeeps
<1>12. QED
  BY <1>8, <1>9, <1>10, <1>11 DEF Keeps

\* A window gets a parent outside its family, which leaves trees.
LEMMA ParentFit ==
  ASSUME NEW p, Fit(p), NEW w \in DOMAIN p.meta, NEW m \in Metadata,
         m.parent \in DOMAIN p.meta \cup {NoWindow},
         m.parent \notin {w} \cup ToSet(Descendants(p, w))
  PROVE  LET q == AlterMetadata(w, m, p)
         IN  /\ Fit(q) /\ q.ws = p.ws
             /\ q.locked = p.locked /\ q.mode = p.mode /\ q.outputs = p.outputs
<1> DEFINE D == DOMAIN p.meta
           F == {w} \cup ToSet(Descendants(p, w))
           f == [p.meta EXCEPT ![w] = m]
           q == AlterMetadata(w, m, p)
<1>1. p.meta \in [D -> Metadata] /\ D \subseteq Windows /\ D = Placed(p.ws) /\ Trees(p)
      /\ HasFields(p)
  BY FitFields, SoundSpace DEF Fit, Sound
<1>2. f \in [D -> Metadata] /\ DOMAIN f = D /\ f[w] = m
      /\ \A x \in D : x # w => f[x] = p.meta[x]
  BY <1>1
<1>3. q = [p EXCEPT !.meta = f]
  BY DEF AlterMetadata
<1> HIDE DEF f, q
<1>4. /\ HasFields(q)
      /\ q.ws = p.ws /\ q.layout = p.layout /\ q.outputs = p.outputs
      /\ q.workAreas = p.workAreas /\ q.locked = p.locked /\ q.meta = f
      /\ q.mode = p.mode /\ q.operation = p.operation /\ q.sized = p.sized
      /\ q.anchors = p.anchors
  BY <1>1, <1>3 DEF HasFields, FieldNames
<1>5. \A x \in D : p.meta[x].parent \in F => x \in F
  <2>1. IsFiniteSet(D) /\ D \subseteq Nat
    BY <1>1, PolicyAssumption, FS_Subset
  <2>2. QED
    BY <2>1, FamilyClosed
<1>6. w \in F /\ m.parent \notin F
  OBVIOUS
<1> HIDE DEF F
<1>7. \A x \in D : f[x].parent \in D \cup {NoWindow}
  BY <1>1, <1>2 DEF Trees
<1>8. ASSUME NEW S \in SUBSET D, S # {}, \A x \in S : f[x].parent \in S
      PROVE  FALSE
  <2>1. w \in S
    <3>1. SUFFICES ASSUME w \notin S PROVE FALSE
      OBVIOUS
    <3>2. \A x \in S : p.meta[x].parent \in S
      BY <1>2, <1>8, <3>1
    <3>3. QED
      BY <1>1, <1>8, <3>2 DEF Trees
  <2>2. m.parent \in S \ F
    BY <1>2, <1>6, <1>8, <2>1
  <2>3. PICK x \in S \ F : p.meta[x].parent \notin S \ F
    <3>1. S \ F \in SUBSET D /\ S \ F # {}
      BY <2>2
    <3>2. QED
      BY <1>1, <3>1 DEF Trees
  <2>4. x # w /\ x \in D
    BY <1>6, <2>3
  <2>5. p.meta[x].parent \in S
    BY <1>2, <1>8, <2>3, <2>4
  <2>6. QED
    BY <1>5, <2>3, <2>4, <2>5
<1>9. Trees(q)
  BY <1>2, <1>4, <1>7, <1>8 DEF Trees
<1>10. Screens(q) /\ Ready(q)
  BY <1>4 DEF Fit, Sound, Screens, Ready
<1>11. /\ q.ws \in Spaces /\ q.meta \in [DOMAIN q.meta -> Metadata]
       /\ DOMAIN q.meta = Placed(q.ws)
  BY <1>1, <1>2, <1>4, FitFields
<1>12. Fit(q)
  BY <1>4, <1>9, <1>10, <1>11, FitFields, FitFromParts
<1>13. QED
  BY <1>4, <1>12 DEF q

\* A window says its parent.
LEMMA SetParentKeeps ==
  ASSUME PolicyInv, NEW w \in Windows, NEW parent \in Windows \cup {NoWindow},
         WindowParent(w, parent)
  PROVE  Keeps /\ ShowsSame
<1> DEFINE changed == MetadataFor(policy, w).parent # parent
           p == IF changed THEN MaterializeAnchors(DOMAIN policy.anchors, CancelPointer(policy))
                ELSE policy
           live == IF Member(parent, p.ws) THEN parent ELSE NoWindow
           n == [MetadataFor(p, w) EXCEPT !.parent = live, !.floating = live # NoWindow]
           q == AlterMetadata(w, n, p)
           cyclic == parent = w \/ parent \in ToSet(Descendants(p, w))
           t == FindTag(live, p.ws)
           next == IF ~Member(w, p.ws) \/ cyclic THEN p
                   ELSE IF live = NoWindow THEN q ELSE ShiftFamily(w, t, q)
<1>1. Respond(next, <<>>)
  BY DEF WindowParent
<1>2. Fit(p) /\ Aside(policy, p)
  BY Cancelled, MaterializeAnchorsFit, AsideTransitive
<1> HIDE DEF p
<1>3. p.ws \in Spaces /\ DOMAIN p.meta = Placed(p.ws) /\ DOMAIN p.meta \subseteq Windows
      /\ \A x : Member(x, p.ws) <=> x \in Placed(p.ws)
  <2>1. p.ws \in Spaces /\ DOMAIN p.meta = Placed(p.ws) /\ Placed(p.ws) \subseteq Windows
    BY <1>2, SoundSpace DEF Fit
  <2>2. QED
    BY <2>1, PlacedWindows DEF Spaces
<1>4. CASE ~Member(w, p.ws) \/ cyclic
  <2>1. next = p
    BY <1>4
  <2>2. Keeps /\ policy'.ws = policy.ws
    BY <1>1, <1>2, <2>1, QuietKeeps DEF Keeps, Aside
  <2>3. QED
    BY <2>2, SameIsShown
<1>5. CASE ~(~Member(w, p.ws) \/ cyclic)
  <2>1. w \in DOMAIN p.meta
    BY <1>3, <1>5
  <2>2. live \in DOMAIN p.meta \cup {NoWindow}
    BY <1>3
  <2>3. n \in Metadata /\ n.parent = live
    <3>1. MetadataFor(p, w) \in Metadata
      BY <1>2, MetadataType
    <3>2. live \in Windows \cup {NoWindow} /\ (live # NoWindow) \in BOOLEAN
      BY <1>3
    <3> HIDE DEF live
    <3>3. QED
      BY <3>1, <3>2 DEF Metadata
  <2>4. live \notin {w} \cup ToSet(Descendants(p, w))
    <3>1. NoWindow \notin {w} \cup ToSet(Descendants(p, w))
      <4>1. {w} \cup ToSet(Descendants(p, w)) \subseteq {w} \cup DOMAIN p.meta
        <5>1. IsFiniteSet(DOMAIN p.meta) /\ DOMAIN p.meta \subseteq Nat
          BY <1>3, PolicyAssumption, FS_Subset
        <5>2. QED
          BY <5>1, FamilyClosed
      <4>2. NoWindow \notin Windows
        BY PolicyAssumption DEF NoWindow
      <4>3. QED
        BY <1>3, <4>1, <4>2
    <3>2. QED
      BY <1>5, <3>1
  <2> HIDE DEF n, live
  <2>5. Fit(q) /\ q.ws = p.ws /\ q.locked = p.locked /\ q.mode = p.mode
        /\ q.outputs = p.outputs
    BY <1>2, <2>1, <2>2, <2>3, <2>4, ParentFit
  <2> HIDE DEF q
  <2>6. CASE live = NoWindow
    <3>1. next = q
      BY <1>5, <2>6
    <3>2. Keeps /\ policy'.ws = policy.ws
      BY <1>1, <1>2, <2>5, <3>1, QuietKeeps DEF Keeps, Aside
    <3>3. QED
      BY <3>2, SameIsShown
  <2>7. CASE live # NoWindow
    <3>1. next = ShiftFamily(w, t, q)
      BY <1>5, <2>7
    <3>2. PICK s : ShiftFamily(w, t, q) = WithSpace(s, q) /\ Shifted(q.ws, s)
      BY <2>5, ShiftFamilyFit
    <3> HIDE DEF next
    <3>3. /\ Fit(next) /\ next.ws = s
          /\ next.locked = q.locked /\ next.mode = q.mode /\ next.outputs = q.outputs
      BY <2>5, <3>1, <3>2, WithSpaceFit DEF Shifted
    <3>4. Keeps /\ policy'.ws = s /\ q.ws = policy.ws
      BY <1>1, <1>2, <2>5, <3>3, QuietKeeps DEF Keeps, Aside
    <3>5. QED
      BY <3>2, <3>4 DEF Shifted, ShowsSame
  <2>8. QED
    BY <2>6, <2>7
<1>6. QED
  BY <1>4, <1>5

-----------------------------------------------------------------------------
(* Windows come and go *)

\* A window opens.
LEMMA WindowAddedKeeps ==
  ASSUME PolicyInv, NEW w \in Windows, WindowAdded(w)
  PROVE  Keeps /\ ShowsSame
<1> DEFINE p == CancelPointer(policy)
           s == InsertUp(w, p.ws)
           f == Put(p.meta, w, DefaultMetadata)
           q == [p EXCEPT !.ws = s, !.meta = f]
<1>1. Fit(policy) /\ policy.ws \in Spaces /\ Fit(p) /\ Aside(policy, p) /\ p.ws = policy.ws
  BY Cancelled
<1>2. CASE Member(w, policy.ws)
  <2>1. Respond(policy, <<>>)
    BY <1>2 DEF WindowAdded
  <2>2. Keeps /\ policy'.ws = policy.ws
    BY <1>1, <2>1, QuietKeeps DEF Keeps
  <2>3. QED
    BY <2>2, SameIsShown
<1>3. CASE ~Member(w, policy.ws)
  <2>1. Respond(q, <<>>)
    BY <1>3 DEF WindowAdded
  <2>2. p.operation = NoOperation
    BY <1>1, CancelPointerFit
  <2> HIDE DEF p
  <2>3. p.ws \in Spaces /\ DOMAIN p.meta = Placed(p.ws) /\ HasFields(p) /\ Trees(p) /\ Screens(p)
        /\ p.meta \in [DOMAIN p.meta -> Metadata] /\ DOMAIN p.meta \subseteq Windows
    BY <1>1, FitFields, SoundSpace DEF Fit, Sound
  <2>4. /\ s \in Spaces /\ s.order = p.ws.order /\ s.outs = p.ws.outs
        /\ Placed(s) = Placed(p.ws) \cup {w}
    BY <2>3, InsertUpArranges DEF Spaces
  <2>5. w \notin DOMAIN p.meta
    BY <1>1, <1>3, <2>3, PlacedWindows DEF Spaces
  <2>6. DefaultMetadata \in Metadata /\ DefaultMetadata.parent = NoWindow
    BY PolicyAssumption DEF DefaultMetadata, Metadata
  <2>7. NoWindow \notin Windows
    BY PolicyAssumption DEF NoWindow
  <2>8. DOMAIN f = DOMAIN p.meta \cup {w} /\ f[w] = DefaultMetadata
        /\ f \in [DOMAIN f -> Metadata] /\ \A x \in DOMAIN p.meta : f[x] = p.meta[x]
    <3> HIDE DEF s
    <3>1. QED
      BY <2>3, <2>5, <2>6 DEF Put
  <2> HIDE DEF s, f
  <2>9. /\ HasFields(q)
        /\ q.ws = s /\ q.layout = p.layout /\ q.outputs = p.outputs
        /\ q.workAreas = p.workAreas /\ q.locked = p.locked /\ q.meta = f
        /\ q.mode = p.mode /\ q.operation = p.operation /\ q.sized = p.sized
        /\ q.anchors = p.anchors
    BY <2>3 DEF HasFields, FieldNames
  <2> HIDE DEF q
  <2>10. Trees(q)
    <3>1. \A x \in DOMAIN f : f[x].parent \in DOMAIN f \cup {NoWindow}
      BY <2>3, <2>6, <2>8 DEF Trees
    <3>2. ASSUME NEW S \in SUBSET DOMAIN f, S # {} PROVE \E x \in S : f[x].parent \notin S
      <4>1. CASE w \in S
        <5>1. NoWindow \notin S
          BY <2>3, <2>7, <2>8, <3>2
        <5>2. QED
          BY <2>6, <2>8, <4>1, <5>1
      <4>2. CASE w \notin S
        <5>1. S \in SUBSET DOMAIN p.meta
          BY <2>8, <4>2
        <5>2. PICK x \in S : p.meta[x].parent \notin S
          BY <2>3, <3>2, <5>1 DEF Trees
        <5>3. QED
          BY <2>8, <5>1, <5>2
      <4>3. QED
        BY <4>1, <4>2
    <3>3. QED
      BY <2>9, <3>1, <3>2 DEF Trees
  <2>11. Screens(q)
    BY <2>3, <2>4, <2>9 DEF Screens
  <2>12. Ready(q)
    BY <2>2, <2>9 DEF Ready
  <2>13. q.ws \in Spaces /\ q.meta \in [DOMAIN q.meta -> Metadata] /\ DOMAIN q.meta = Placed(q.ws)
    BY <2>3, <2>4, <2>8, <2>9
  <2>14. Fit(q)
    BY <1>1, <2>9, <2>10, <2>11, <2>12, <2>13, FitFields, FitFromParts
  <2>15. Keeps /\ policy'.ws = s
    BY <1>1, <2>1, <2>9, <2>14, QuietKeeps DEF Keeps, Aside
  <2>16. QED
    BY <1>1, <2>4, <2>15, SameIsShown
<1>4. QED
  BY <1>2, <1>3

\* A window closes; its children have no parent then.
LEMMA WindowRemovedKeeps ==
  ASSUME PolicyInv, NEW w, WindowRemoved(w)
  PROVE  Keeps /\ ShowsSame
<1> DEFINE p == policy
           orphan(m) == IF m.parent = w THEN [m EXCEPT !.parent = NoWindow] ELSE m
           s == Delete(w, p.ws)
           f == [x \in DOMAIN p.meta \ {w} |-> orphan(p.meta[x])]
           q == [p EXCEPT !.ws = s, !.sized = @ \ {w}, !.meta = f]
<1>1. Respond(q, <<>>)
  BY DEF WindowRemoved
<1>2. Fit(p)
  BY InvFit
<1>3. p.ws \in Spaces /\ DOMAIN p.meta = Placed(p.ws) /\ HasFields(p) /\ Trees(p) /\ Screens(p)
      /\ p.meta \in [DOMAIN p.meta -> Metadata] /\ DOMAIN p.meta \subseteq Windows
      /\ p.sized \subseteq Windows /\ Ready(p)
  BY <1>2, FitFields, SoundSpace DEF Fit, Sound
<1>4. s \in Spaces /\ s.order = p.ws.order /\ s.outs = p.ws.outs /\ Placed(s) = Placed(p.ws) \ {w}
  BY <1>3, DeleteArranges DEF Spaces
<1>5. NoWindow \notin Windows
  BY PolicyAssumption DEF NoWindow
<1>6. DOMAIN f = DOMAIN p.meta \ {w}
      /\ \A x \in DOMAIN f : /\ f[x] \in Metadata
                             /\ f[x].parent = IF p.meta[x].parent = w THEN NoWindow
                                              ELSE p.meta[x].parent
  <2>1. DOMAIN f = DOMAIN p.meta \ {w} /\ \A x \in DOMAIN f : f[x] = orphan(p.meta[x])
    OBVIOUS
  <2>2. ASSUME NEW m \in Metadata
        PROVE  /\ orphan(m) \in Metadata
               /\ orphan(m).parent = IF m.parent = w THEN NoWindow ELSE m.parent
    BY DEF Metadata
  <2> HIDE DEF f, orphan
  <2>3. QED
    BY <1>3, <2>1, <2>2
<1> HIDE DEF s
<1>7. f \in [DOMAIN f -> Metadata]
  <2>1. f = [x \in DOMAIN f |-> f[x]]
    OBVIOUS
  <2> HIDE DEF f
  <2>2. QED
    BY <1>6, <2>1
<1> HIDE DEF f
<1>8. /\ HasFields(q)
      /\ q.ws = s /\ q.layout = p.layout /\ q.outputs = p.outputs
      /\ q.workAreas = p.workAreas /\ q.locked = p.locked /\ q.meta = f
      /\ q.mode = p.mode /\ q.operation = p.operation /\ q.sized = p.sized \ {w}
      /\ q.anchors = p.anchors
  BY <1>3 DEF HasFields, FieldNames
<1> HIDE DEF q
<1>9. Trees(q)
  <2>1. \A x \in DOMAIN f : f[x].parent \in DOMAIN f \cup {NoWindow}
    BY <1>3, <1>6 DEF Trees
  <2>2. ASSUME NEW S \in SUBSET DOMAIN f, S # {} PROVE \E x \in S : f[x].parent \notin S
    <3>1. S \in SUBSET DOMAIN p.meta /\ NoWindow \notin S
      BY <1>3, <1>5, <1>6
    <3>2. PICK x \in S : p.meta[x].parent \notin S
      BY <1>3, <2>2, <3>1 DEF Trees
    <3>3. QED
      BY <1>6, <3>1, <3>2
  <2>3. QED
    BY <1>8, <2>1, <2>2 DEF Trees
<1>10. Screens(q)
  BY <1>3, <1>4, <1>8 DEF Screens
<1>11. Ready(q)
  BY <1>3, <1>4, <1>8 DEF Ready
<1>12. q.ws \in Spaces /\ q.meta \in [DOMAIN q.meta -> Metadata] /\ DOMAIN q.meta = Placed(q.ws)
       /\ q.sized \subseteq Windows
  BY <1>3, <1>4, <1>6, <1>7, <1>8
<1>13. Fit(q)
  BY <1>2, <1>8, <1>9, <1>10, <1>11, <1>12, FitFields, FitFromParts
<1>14. Keeps /\ policy'.ws = s
  BY <1>1, <1>8, <1>13, QuietKeeps DEF Keeps
<1>15. QED
  BY <1>4, <1>14, SameIsShown

\* A panel changes the work area of an output.
LEMMA WorkAreaKeeps ==
  ASSUME PolicyInv, NEW o \in Outputs, NEW span \in WorkSpans, OutputWorkArea(o, span)
  PROVE  Keeps
<1> DEFINE changed == o \notin DOMAIN policy.workAreas \/ policy.workAreas[o] # span
           p == IF changed THEN CancelOutput(o, policy) ELSE policy
           f == Put(p.workAreas, o, span)
           q == [p EXCEPT !.workAreas = f]
<1>1. Respond(q, <<>>)
  BY DEF OutputWorkArea
<1>2. Fit(p) /\ Aside(policy, p)
  BY Cancelled, CancelOutputFit
<1> HIDE DEF p
<1>3. p.workAreas \in [DOMAIN p.workAreas -> WorkSpans] /\ DOMAIN p.workAreas \subseteq Outputs
  BY <1>2, FitFields
<1>4. f \in [DOMAIN f -> WorkSpans] /\ DOMAIN f \subseteq Outputs
  BY <1>3 DEF Put
<1> HIDE DEF f
<1>5. Fit(q) /\ q.mode = p.mode /\ q.locked = p.locked /\ q.outputs = p.outputs
  BY <1>2, <1>4, WithAreasFit
<1> HIDE DEF q
<1>6. QED
  BY <1>1, <1>2, <1>5, QuietKeeps DEF Keeps, Aside

-----------------------------------------------------------------------------
(* Outputs come and go *)

\* The screens whose outputs stay, what they show, and the new screens.
Alive(s, C) == {i \in 1 .. Len(s.outs) : s.outs[i] \in C}
Staying(s, C) == Ascending(Alive(s, C))
Leaving(s, C) == Ascending((1 .. Len(s.outs)) \ Alive(s, C))
Free(s, C) == Ascending(C \ ToSet(Picked(s.outs, Staying(s, C))))
Added(s, C) ==
  SubSeq(Free(s, C), 1, AtMost(Len(Free(s, C)), Len(s.order) - Len(Staying(s, C))))
NewOuts(s, C) ==
  IF C = {} THEN <<NoOutput>> ELSE Picked(s.outs, Staying(s, C)) \o Added(s, C)
NewOrder(s, C) ==
  IF Staying(s, C) = <<>> THEN s.order
  ELSE Picked(s.order, Staying(s, C)) \o SubSeq(s.order, Len(s.outs) + 1, Len(s.order))
       \o Picked(s.order, Leaving(s, C))

\* The screens that stay and those that go make up the screens.
LEMMA ScreensPicked ==
  ASSUME NEW s \in Spaces, NEW C
  PROVE  LET n == Len(s.outs)
         IN  /\ Staying(s, C) \in Seq(1 .. n) /\ Leaving(s, C) \in Seq(1 .. n)
             /\ IsInjective(Staying(s, C)) /\ IsInjective(Leaving(s, C))
             /\ ToSet(Staying(s, C)) = Alive(s, C)
             /\ ToSet(Leaving(s, C)) = (1 .. n) \ Alive(s, C)
             /\ Len(Staying(s, C)) \in 0 .. n
             /\ Len(Staying(s, C)) + Len(Leaving(s, C)) = n
             /\ n \in Nat /\ DOMAIN s.outs = 1 .. n
             /\ n <= Len(s.order) /\ DOMAIN s.order = 1 .. Len(s.order) /\ Len(s.order) \in Nat
<1> DEFINE n == Len(s.outs)
           A == Alive(s, C)
           B == (1 .. n) \ A
<1>1. /\ n \in Nat /\ DOMAIN s.outs = 1 .. n
      /\ n <= Len(s.order) /\ DOMAIN s.order = 1 .. Len(s.order) /\ Len(s.order) \in Nat
  BY WellParts DEF Spaces
<1>2. A \subseteq 1 .. n /\ B \subseteq 1 .. n
  BY DEF Alive
<1>3. IsFiniteSet(1 .. n) /\ Cardinality(1 .. n) = n
  <2>1. n \in Int /\ 1 \in Int
    BY <1>1
  <2> HIDE DEF n
  <2>2. IsFiniteSet(1 .. n) /\ Cardinality(1 .. n) = IF 1 > n THEN 0 ELSE n - 1 + 1
    BY <2>1, FS_Interval
  <2>3. QED
    BY <1>1, <2>2
<1> HIDE DEF A, n
<1>4. IsFiniteSet(A) /\ IsFiniteSet(B) /\ A \subseteq Nat /\ B \subseteq Nat
  <2>1. 1 .. n \subseteq Nat
    BY <1>1
  <2>2. QED
    BY <1>2, <1>3, <2>1, FS_Subset
<1>5. Cardinality(B) = n - Cardinality(A) /\ Cardinality(A) <= n
  <2> DEFINE I == 1 .. n
  <2>1. I \cap A = A /\ A \in SUBSET I /\ IsFiniteSet(I) /\ Cardinality(I) = n /\ B = I \ A
    BY <1>2, <1>3
  <2> HIDE DEF I, B
  <2>2. Cardinality(I \ A) = Cardinality(I) - Cardinality(I \cap A)
    BY <2>1, FS_Difference
  <2>3. Cardinality(A) <= Cardinality(I)
    BY <2>1, FS_Subset
  <2>4. QED
    BY <2>1, <2>2, <2>3
<1> HIDE DEF B
<1>6. /\ Ascending(A) \in Seq(A) /\ Len(Ascending(A)) = Cardinality(A) /\ Cardinality(A) \in Nat
      /\ ToSet(Ascending(A)) = A /\ IsInjective(Ascending(A))
      /\ Ascending(B) \in Seq(B) /\ Len(Ascending(B)) = Cardinality(B)
      /\ ToSet(Ascending(B)) = B /\ IsInjective(Ascending(B))
  BY <1>4, AscendingIsList
<1>7. Ascending(A) \in Seq(1 .. n) /\ Ascending(B) \in Seq(1 .. n)
  <2> DEFINE I == 1 .. n
             p == Ascending(A)
             q == Ascending(B)
  <2>1. A \subseteq I /\ B \subseteq I /\ p \in Seq(A) /\ q \in Seq(B)
    BY <1>2, <1>6 DEF B
  <2> HIDE DEF I, p, q
  <2>2. p \in Seq(I) /\ q \in Seq(I)
    BY <2>1
  <2>3. QED
    BY <2>2 DEF I, p, q
<1>8. /\ Cardinality(A) \in 0 .. n /\ Cardinality(A) + Cardinality(B) = n
  BY <1>1, <1>5, <1>6
<1>9. Staying(s, C) = Ascending(A) /\ Leaving(s, C) = Ascending(B)
  BY DEF Staying, Leaving, A, B, n
<1>10. QED
  BY <1>1, <1>6, <1>7, <1>8, <1>9 DEF A, B, n

\* The workspaces are all there, those of staying screens first.
LEMMA OrderReconciled ==
  ASSUME NEW s \in Spaces, NEW C
  PROVE  /\ NewOrder(s, C) \in Seq(Tags) /\ IsInjective(NewOrder(s, C))
         /\ ToSet(NewOrder(s, C)) = Tags /\ Len(NewOrder(s, C)) = Len(s.order)
         /\ \A j \in DOMAIN Staying(s, C) : NewOrder(s, C)[j] = s.order[Staying(s, C)[j]]
<1> DEFINE o == s.order
           n == Len(s.outs)
           m == Len(o)
           stay == Staying(s, C)
           go == Leaving(s, C)
           a == Picked(o, stay)
           b == SubSeq(o, n + 1, m)
           c == Picked(o, go)
           x == a \o b
           new == x \o c
<1>1. o \in Seq(Tags) /\ IsInjective(o) /\ ToSet(o) = Tags
  BY WellParts DEF Spaces
<1>2. /\ stay \in Seq(1 .. n) /\ go \in Seq(1 .. n) /\ IsInjective(stay) /\ IsInjective(go)
      /\ ToSet(stay) = Alive(s, C) /\ ToSet(go) = (1 .. n) \ Alive(s, C)
      /\ Len(stay) \in 0 .. n /\ Len(stay) + Len(go) = n
      /\ n \in Nat /\ n <= m /\ DOMAIN o = 1 .. m /\ m \in Nat
  BY ScreensPicked
<1>3. CASE stay = <<>>
  BY <1>1, <1>3 DEF NewOrder
<1>4. CASE stay # <<>>
  <2> HIDE DEF n, m, stay, go
  <2>1. NewOrder(s, C) = new
    BY <1>4 DEF NewOrder, n, m, stay, go
  <2> HIDE DEF o
  <2>2. stay \in Seq(DOMAIN o) /\ go \in Seq(DOMAIN o)
    <3>1. 1 .. n \subseteq DOMAIN o
      BY <1>2
    <3>2. QED
      BY <1>2, <3>1
  <2>3. /\ a \in Seq(Tags) /\ Len(a) = Len(stay) /\ DOMAIN a = DOMAIN stay /\ IsInjective(a)
        /\ \A j \in DOMAIN stay : a[j] = o[stay[j]]
        /\ ToSet(a) = MembersAt(o, ToSet(stay))
    <3>1. o \in Seq(Tags) /\ stay \in Seq(DOMAIN o) /\ IsInjective(o) /\ IsInjective(stay)
      BY <1>1, <1>2, <2>2
    <3>2. QED
      BY <3>1, PickedMembers
  <2>4. /\ c \in Seq(Tags) /\ Len(c) = Len(go) /\ IsInjective(c)
        /\ ToSet(c) = MembersAt(o, ToSet(go))
    <3>1. o \in Seq(Tags) /\ go \in Seq(DOMAIN o) /\ IsInjective(o) /\ IsInjective(go)
      BY <1>1, <1>2, <2>2
    <3>2. QED
      BY <3>1, PickedMembers
  <2> HIDE DEF a, c
  <2>5. b \in Seq(Tags) /\ Len(b) = m - n /\ \A i \in 1 .. m - n : b[i] = o[n + i]
    <3>1. /\ m \in Int /\ n + 1 \in Int /\ \A k \in n + 1 .. m : o[k] \in Tags
      BY <1>1, <1>2
    <3>2. /\ b \in Seq(Tags) /\ Len(b) = IF n + 1 <= m THEN m - (n + 1) + 1 ELSE 0
          /\ \A k \in 1 .. m - (n + 1) + 1 : b[k] = o[(n + 1) + k - 1]
      BY <3>1, SubSeqProperties
    <3> HIDE DEF b
    <3>3. m - (n + 1) + 1 = m - n /\ (n + 1 <= m <=> n # m) /\ (n = m => m - n = 0)
      BY <1>2
    <3>4. \A k \in 1 .. m - n : (n + 1) + k - 1 = n + k
      BY <1>2
    <3>5. QED
      BY <1>2, <3>2, <3>3, <3>4
  <2> HIDE DEF b
  <2>6. DOMAIN b = 1 .. m - n /\ m - n \in Nat
    BY <1>2, <2>5
  <2>7. IsInjective(b) /\ ToSet(b) = {o[i] : i \in n + 1 .. m}
    <3>1. \A i \in 1 .. m - n : n + i \in n + 1 .. m /\ n + i \in DOMAIN o
      BY <1>2
    <3>2. \A i, j \in 1 .. m - n : n + i = n + j => i = j
      BY <1>2
    <3>3. IsInjective(b)
      BY <1>1, <2>5, <2>6, <3>1, <3>2 DEF IsInjective
    <3>4. \A i \in n + 1 .. m : i - n \in 1 .. m - n /\ n + (i - n) = i
      BY <1>2
    <3>5. \A i \in n + 1 .. m : b[i - n] = o[i] /\ i - n \in DOMAIN b
      BY <2>5, <2>6, <3>4
    <3>6. QED
      BY <2>5, <2>6, <3>1, <3>3, <3>5 DEF ToSet
  <2>8. \A i, j \in 1 .. m : o[i] = o[j] => i = j
    BY <1>1, <1>2 DEF IsInjective
  <2>9. \A i \in 1 .. n : i \in 1 .. m /\ i \notin n + 1 .. m
    BY <1>2
  <2>10. \A i \in n + 1 .. m : i \in 1 .. m
    BY <1>2
  <2>11. /\ x \in Seq(Tags) /\ Len(x) = Len(a) + Len(b)
         /\ \A i \in 1 .. Len(a) : x[i] = a[i]
         /\ IsInjective(x) /\ ToSet(x) = ToSet(a) \cup ToSet(b)
    <3>1. ToSet(a) \cap ToSet(b) = {}
      <4>1. SUFFICES ASSUME NEW i \in ToSet(stay), NEW j \in n + 1 .. m, o[i] = o[j] PROVE FALSE
        BY <2>3, <2>7 DEF MembersAt
      <4>2. i \in 1 .. n
        BY <1>2, <4>1 DEF Alive, n
      <4>3. QED
        BY <2>8, <2>9, <2>10, <4>1, <4>2
    <3>2. a \in Seq(Tags) /\ b \in Seq(Tags) /\ IsInjective(a) /\ IsInjective(b)
      BY <2>3, <2>5, <2>7
    <3>3. ToSet(x) = ToSet(a) \cup ToSet(b) /\ IsInjective(x)
      BY <3>1, <3>2, ConcatenatedMembers
    <3>4. /\ x \in Seq(Tags) /\ Len(x) = Len(a) + Len(b)
          /\ \A i \in 1 .. Len(a) : x[i] = a[i]
      BY <3>2, Concatenated
    <3>5. QED
      BY <3>3, <3>4
  <2> HIDE DEF x
  <2>12. /\ new \in Seq(Tags) /\ Len(new) = Len(x) + Len(c)
         /\ \A i \in 1 .. Len(x) : new[i] = x[i]
         /\ IsInjective(new)
    <3>1. ToSet(x) \cap ToSet(c) = {}
      <4>1. SUFFICES ASSUME NEW i \in ToSet(go), NEW j \in ToSet(stay) \cup (n + 1 .. m),
                            o[i] = o[j]
                     PROVE  FALSE
        BY <2>3, <2>4, <2>7, <2>11 DEF MembersAt
      <4>2. i \in 1 .. n /\ i \notin ToSet(stay) /\ (j \in 1 .. n \/ j \in n + 1 .. m)
        BY <1>2, <4>1 DEF Alive, n
      <4>3. QED
        BY <2>8, <2>9, <2>10, <4>1, <4>2
    <3>2. x \in Seq(Tags) /\ c \in Seq(Tags) /\ IsInjective(x) /\ IsInjective(c)
      BY <2>4, <2>11
    <3>3. IsInjective(new)
      BY <3>1, <3>2, ConcatenatedMembers
    <3>4. /\ new \in Seq(Tags) /\ Len(new) = Len(x) + Len(c)
          /\ \A i \in 1 .. Len(x) : new[i] = x[i]
      BY <3>2, Concatenated
    <3>5. QED
      BY <3>3, <3>4
  <2> HIDE DEF new
  <2>13. Len(new) = m /\ \A j \in DOMAIN stay : j \in 1 .. Len(a) /\ j \in 1 .. Len(x)
    <3>1. Len(new) = m
      <4>1. Len(new) = Len(stay) + (m - n) + Len(go) /\ Len(stay) \in Nat /\ Len(go) \in Nat
        BY <1>2, <2>3, <2>4, <2>5, <2>11, <2>12
      <4>2. Len(stay) + Len(go) = n /\ n \in Nat /\ m \in Nat
        BY <1>2
      <4> DEFINE i == Len(stay)
                 j == Len(go)
      <4> HIDE DEF i, j
      <4>3. Len(new) = i + (m - n) + j /\ i + j = n /\ i \in Nat /\ j \in Nat
        BY <4>1, <4>2 DEF i, j
      <4>4. QED
        BY <4>2, <4>3
    <3>2. DOMAIN stay = 1 .. Len(stay)
      BY <1>2
    <3>3. Len(a) = Len(stay) /\ Len(x) = Len(stay) + (m - n) /\ Len(stay) \in Nat
      BY <1>2, <2>3, <2>5, <2>11
    <3>4. QED
      BY <2>6, <3>1, <3>2, <3>3
  <2>14. ToSet(new) = Tags
    <3>1. ToSet(new) \subseteq ToSet(o)
      BY <1>1, <2>12 DEF ToSet
    <3>2. Len(new) = Len(o)
      BY <2>13 DEF m
    <3>3. QED
      BY <1>1, <2>12, <3>1, <3>2, SameMembers
  <2>15. QED
    BY <2>1, <2>3, <2>11, <2>12, <2>13, <2>14 DEF o, m, stay
<1>5. QED
  BY <1>3, <1>4

\* Every connected output has a screen while there are workspaces, those that
\* stay first.
LEMMA OutsReconciled ==
  ASSUME NEW s \in Spaces, NEW C, C \subseteq Outputs
  PROVE  /\ NewOuts(s, C) \in Seq(AllOutputs) /\ IsInjective(NewOuts(s, C))
         /\ C # {} => /\ ToSet(NewOuts(s, C)) \subseteq C
                      /\ Len(NewOuts(s, C)) = AtMost(Cardinality(C), Len(s.order))
         /\ Len(NewOuts(s, C)) \in 1 .. Len(s.order)
         /\ \A j \in DOMAIN Staying(s, C) : NewOuts(s, C)[j] = s.outs[Staying(s, C)[j]]
         /\ \A j \in DOMAIN Staying(s, C) : j \in DOMAIN NewOuts(s, C)
<1> DEFINE n == Len(s.outs)
           m == Len(s.order)
           stay == Staying(s, C)
           k == Len(stay)
           a == Picked(s.outs, stay)
           F == C \ ToSet(a)
           free == Ascending(F)
           r == AtMost(Len(free), m - k)
           b == SubSeq(free, 1, r)
           new == a \o b
<1>1. /\ stay \in Seq(1 .. n) /\ IsInjective(stay) /\ ToSet(stay) = Alive(s, C)
      /\ k \in 0 .. n /\ DOMAIN stay = 1 .. k
      /\ n \in Nat /\ n <= m /\ DOMAIN s.outs = 1 .. n /\ m \in Nat
  <2>1. /\ stay \in Seq(1 .. n) /\ IsInjective(stay) /\ ToSet(stay) = Alive(s, C)
        /\ k \in 0 .. n
        /\ n \in Nat /\ n <= m /\ DOMAIN s.outs = 1 .. n /\ m \in Nat
    BY ScreensPicked
  <2>2. QED
    BY <2>1
<1>2. s.outs \in Seq(AllOutputs) /\ IsInjective(s.outs) /\ n >= 1
  BY WellParts DEF Spaces
<1>3. IsFiniteSet(C) /\ C \subseteq Nat /\ C \subseteq AllOutputs
  BY PolicyAssumption, FS_Subset DEF AllOutputs
<1> HIDE DEF stay, k
<1>4. CASE C = {}
  <2>1. Alive(s, C) = {}
    BY <1>4 DEF Alive
  <2>2. stay = <<>>
    <3>1. DOMAIN stay = {}
      BY <1>1, <2>1 DEF ToSet
    <3>2. QED
      BY <1>1, <3>1
  <2>3. DOMAIN stay = {}
    BY <2>2
  <2>4. NewOuts(s, C) = <<NoOutput>>
    BY <1>4 DEF NewOuts
  <2>5. <<NoOutput>> \in Seq(AllOutputs) /\ IsInjective(<<NoOutput>>) /\ Len(<<NoOutput>>) = 1
    BY DEF AllOutputs, IsInjective
  <2>6. 1 \in 1 .. m
    BY <1>1, <1>2
  <2>7. QED
    BY <1>4, <2>3, <2>4, <2>5, <2>6 DEF stay
<1>5. CASE C # {}
  <2>1. NewOuts(s, C) = new
    BY <1>5 DEF NewOuts, Added, Free, stay, k
  <2>2. /\ a \in Seq(AllOutputs) /\ Len(a) = k /\ DOMAIN a = DOMAIN stay /\ IsInjective(a)
        /\ \A j \in DOMAIN stay : a[j] = s.outs[stay[j]]
        /\ ToSet(a) = MembersAt(s.outs, ToSet(stay))
    <3> DEFINE q == s.outs
    <3>1. q \in Seq(AllOutputs) /\ IsInjective(q) /\ stay \in Seq(DOMAIN q) /\ IsInjective(stay)
      BY <1>1, <1>2
    <3> HIDE DEF q
    <3>2. /\ Picked(q, stay) \in Seq(AllOutputs) /\ Len(Picked(q, stay)) = Len(stay)
          /\ DOMAIN Picked(q, stay) = DOMAIN stay /\ IsInjective(Picked(q, stay))
          /\ \A j \in DOMAIN stay : Picked(q, stay)[j] = q[stay[j]]
          /\ ToSet(Picked(q, stay)) = MembersAt(q, ToSet(stay))
      BY <3>1, PickedMembers
    <3>3. QED
      BY <3>2 DEF k, q
  <2>3. ToSet(a) \subseteq C
    BY <1>1, <2>2 DEF Alive, MembersAt
  <2> HIDE DEF a, n, m
  <2>4. Cardinality(ToSet(a)) = k
    BY <2>2, InjectiveLength
  <2>5. /\ IsFiniteSet(F) /\ F \subseteq Nat /\ F \subseteq C
        /\ Cardinality(F) = Cardinality(C) - k /\ Cardinality(C) \in Nat /\ Cardinality(F) \in Nat
    <3>1. C \cap ToSet(a) = ToSet(a)
      BY <2>3
    <3>2. IsFiniteSet(F) /\ Cardinality(F) = Cardinality(C) - Cardinality(C \cap ToSet(a))
      BY <1>3, FS_Difference
    <3>3. F \subseteq C /\ F \subseteq Nat
      BY <1>3
    <3> HIDE DEF F
    <3>4. Cardinality(C) \in Nat /\ Cardinality(F) \in Nat
      BY <1>3, <3>2, FS_CardinalityType
    <3>5. QED
      BY <2>4, <3>1, <3>2, <3>3, <3>4
  <2>6. \A y \in F : y \notin ToSet(a)
    OBVIOUS
  <2> HIDE DEF F
  <2>7. /\ free \in Seq(F) /\ Len(free) = Cardinality(F) /\ IsInjective(free)
        /\ DOMAIN free = 1 .. Len(free)
    BY <2>5, AscendingIsList
  <2> HIDE DEF free
  <2>8. r \in Nat /\ r <= Len(free) /\ k + r = AtMost(Cardinality(C), m)
    BY <1>1, <2>5, <2>7 DEF AtMost
  <2> HIDE DEF r
  <2>9. b \in Seq(F) /\ Len(b) = r /\ \A i \in 1 .. r : b[i] = free[i]
    BY <2>7, <2>8
  <2> HIDE DEF b
  <2>10. IsInjective(b) /\ ToSet(b) \subseteq F
    <3>1. DOMAIN b = 1 .. r /\ \A i \in 1 .. r : i \in DOMAIN free
      BY <2>7, <2>8, <2>9
    <3>2. IsInjective(b)
      BY <2>7, <2>9, <3>1 DEF IsInjective
    <3>3. ToSet(b) \subseteq F
      BY <2>9 DEF ToSet
    <3>4. QED
      BY <3>2, <3>3
  <2>11. b \in Seq(AllOutputs)
    <3>1. F \subseteq AllOutputs
      BY <1>3, <2>5
    <3>2. QED
      BY <2>9, <3>1
  <2>12. ToSet(a) \cap ToSet(b) = {}
    BY <2>6, <2>10
  <2>13. /\ new \in Seq(AllOutputs) /\ IsInjective(new) /\ Len(new) = k + r
         /\ ToSet(new) = ToSet(a) \cup ToSet(b)
         /\ \A i \in 1 .. Len(a) : new[i] = a[i]
    <3>1. IsInjective(new) /\ ToSet(new) = ToSet(a) \cup ToSet(b)
      BY <2>2, <2>10, <2>11, <2>12, ConcatenatedMembers
    <3>2. /\ new \in Seq(AllOutputs) /\ Len(new) = Len(a) + Len(b)
          /\ \A i \in 1 .. Len(a) : new[i] = a[i]
      BY <2>2, <2>11, Concatenated
    <3>3. QED
      BY <2>2, <2>9, <3>1, <3>2
  <2> HIDE DEF new
  <2>14. ToSet(new) \subseteq C
    BY <2>3, <2>5, <2>10, <2>13
  <2>15. \A j \in DOMAIN stay : new[j] = s.outs[stay[j]] /\ j \in DOMAIN new
    <3>1. DOMAIN new = 1 .. Len(new)
      BY <2>13
    <3>2. \A j \in DOMAIN stay : j \in 1 .. Len(a) /\ j \in DOMAIN new
      BY <1>1, <2>2, <2>8, <2>13, <3>1
    <3>3. QED
      BY <2>2, <2>13, <3>2
  <2>16. AtMost(Cardinality(C), m) \in 1 .. m
    <3>1. Cardinality(C) # 0
      BY <1>3, <1>5, FS_EmptySet
    <3>2. m \in Nat /\ m >= 1
      BY <1>1, <1>2 DEF n, m
    <3>3. QED
      BY <2>5, <3>1, <3>2 DEF AtMost
  <2>17. QED
    BY <2>1, <2>8, <2>13, <2>14, <2>15, <2>16 DEF stay, m
<1>6. QED
  BY <1>4, <1>5

\* Reconcile replaces the outputs and the screens, and nothing else.
LEMMA Reconciled ==
  ASSUME NEW p, Fit(p), NEW connected
  PROVE  LET q == Reconcile(connected, p)
             C == DOMAIN connected
         IN  /\ HasFields(q)
             /\ q.ws = [order |-> NewOrder(p.ws, C), outs |-> NewOuts(p.ws, C),
                        stack |-> p.ws.stack]
             /\ q.outputs = connected /\ q.layout = p.layout /\ q.workAreas = p.workAreas
             /\ q.locked = p.locked /\ q.meta = p.meta /\ q.mode = p.mode
             /\ q.operation = p.operation /\ q.sized = p.sized /\ q.anchors = p.anchors
<1> DEFINE C == DOMAIN connected
           order == NewOrder(p.ws, C)
           outs == NewOuts(p.ws, C)
           q == [p EXCEPT !.outputs = connected, !.ws.outs = outs, !.ws.order = order]
<1>1. Reconcile(connected, p) = q
  BY DEF Reconcile, NewOrder, NewOuts, Added, Free, Staying, Leaving, Alive, Picked
<1>2. HasFields(p) /\ p.ws = [order |-> p.ws.order, outs |-> p.ws.outs, stack |-> p.ws.stack]
  BY FitFields, WellParts DEF Spaces
<1> HIDE DEF order, outs
<1>3. /\ HasFields(q)
      /\ q.outputs = connected /\ q.layout = p.layout /\ q.workAreas = p.workAreas
      /\ q.locked = p.locked /\ q.meta = p.meta /\ q.mode = p.mode
      /\ q.operation = p.operation /\ q.sized = p.sized /\ q.anchors = p.anchors
      /\ q.ws = [p.ws EXCEPT !.outs = outs, !.order = order]
  BY <1>2 DEF HasFields, FieldNames
<1>4. q.ws = [order |-> order, outs |-> outs, stack |-> p.ws.stack]
  <2> DEFINE s == p.ws
             a == s.order
             b == s.outs
             f == s.stack
  <2>1. /\ s = [order |-> a, outs |-> b, stack |-> f]
        /\ q.ws = [s EXCEPT !.outs = outs, !.order = order]
    BY <1>2, <1>3
  <2> HIDE DEF q, a, b, f, s
  <2>2. q.ws = [order |-> order, outs |-> outs, stack |-> f]
    BY <2>1
  <2>3. QED
    BY <2>2 DEF f, s
<1>5. QED
  BY <1>1, <1>3, <1>4 DEF order, outs

\* The screens after a plug or an unplug make a stack set.
LEMMA ReconciledSpace ==
  ASSUME NEW s \in Spaces, NEW C, C \subseteq Outputs
  PROVE  LET new == [order |-> NewOrder(s, C), outs |-> NewOuts(s, C), stack |-> s.stack]
         IN  new \in Spaces /\ Placed(new) = Placed(s)
<1> DEFINE order == NewOrder(s, C)
           outs == NewOuts(s, C)
           new == [order |-> order, outs |-> outs, stack |-> s.stack]
<1>1. /\ order \in Seq(Tags) /\ IsInjective(order) /\ ToSet(order) = Tags
      /\ Len(order) = Len(s.order)
  BY OrderReconciled
<1>2. outs \in Seq(AllOutputs) /\ IsInjective(outs) /\ Len(outs) \in 1 .. Len(s.order)
  BY OutsReconciled
<1>3. /\ s.stack \in [Tags -> Stacks(Windows)]
      /\ \A t \in Tags : StackArranged(s.stack[t])
      /\ \A t, u \in Tags : t # u => ToSet(s.stack[t].list) \cap ToSet(s.stack[u].list) = {}
  BY WellParts DEF Spaces
<1> HIDE DEF order, outs
<1>4. new \in Spaces
  BY <1>1, <1>2, <1>3, WellFromParts DEF Spaces
<1>5. Placed(new) = Placed(s)
  BY DEF Placed
<1>6. QED
  BY <1>4, <1>5 DEF order, outs

\* Other outputs keep a policy fit.
LEMMA ReconcileFit ==
  ASSUME NEW p, Fit(p), NEW connected, connected \in [DOMAIN connected -> OutputSpans],
         DOMAIN connected \subseteq Outputs
  PROVE  LET q == Reconcile(connected, p)
         IN  /\ Fit(q) /\ q.outputs = connected
             /\ q.locked = p.locked /\ q.mode = p.mode
             /\ q.ws.order = NewOrder(p.ws, DOMAIN connected)
             /\ q.ws.outs = NewOuts(p.ws, DOMAIN connected)
             /\ q.ws.stack = p.ws.stack
<1> DEFINE C == DOMAIN connected
           q == Reconcile(connected, p)
           new == [order |-> NewOrder(p.ws, C), outs |-> NewOuts(p.ws, C), stack |-> p.ws.stack]
<1>1. /\ HasFields(q) /\ q.ws = new
      /\ q.outputs = connected /\ q.layout = p.layout /\ q.workAreas = p.workAreas
      /\ q.locked = p.locked /\ q.meta = p.meta /\ q.mode = p.mode
      /\ q.operation = p.operation /\ q.sized = p.sized /\ q.anchors = p.anchors
  BY Reconciled
<1>2. p.ws \in Spaces
  BY FitFields
<1>3. new \in Spaces /\ Placed(new) = Placed(p.ws)
  BY <1>2, ReconciledSpace
<1>4. Sound(p) /\ Ready(p) /\ DOMAIN p.meta = Placed(p.ws) /\ Trees(p)
  BY DEF Fit, Sound
<1> HIDE DEF q
<1>5. Trees(q) /\ Ready(q)
  BY <1>1, <1>3, <1>4 DEF Trees, Ready
<1>6. Screens(q)
  <2>1. Len(new.order) = Len(TagList) /\ ToSet(new.order) = Tags
    BY <1>3, OrderLength
  <2>2. Len(p.ws.order) = Len(TagList)
    BY <1>2, OrderLength
  <2>3. CASE C = {}
    <3>1. new.outs = <<NoOutput>>
      BY <2>3 DEF NewOuts
    <3>2. QED
      BY <1>1, <2>1, <2>3, <3>1 DEF Screens
  <2>4. CASE C # {}
    <3>1. /\ IsInjective(new.outs) /\ ToSet(new.outs) \subseteq C
          /\ Len(new.outs) = AtMost(Cardinality(C), Len(TagList))
      BY <1>2, <2>2, <2>4, OutsReconciled
    <3>2. QED
      BY <1>1, <2>1, <2>4, <3>1 DEF Screens
  <2>5. QED
    BY <2>3, <2>4
<1> HIDE DEF new
<1>7. Fit(q)
  BY <1>1, <1>3, <1>4, <1>5, <1>6, FitFields, FitFromParts
<1>8. QED
  BY <1>1, <1>7 DEF q, new

\* What an output shows when the outputs in C are the connected ones: those of
\* before that are still there show what they showed, and the first stays first.
HotplugKeeps(old, new, C) ==
  LET stay == ToSet(old.outs) \cap C
  IN  /\ \A o \in stay : o \in ToSet(new.outs) /\ TagOn(o, new) = TagOn(o, old)
      /\ old.outs[1] \in stay => new.outs[1] = old.outs[1]
      /\ new.stack = old.stack

\* A screen that stays shows what it showed.
LEMMA ReconcileKeepsScreens ==
  ASSUME NEW s \in Spaces, NEW C, C \subseteq Outputs, NEW new \in Spaces,
         new.order = NewOrder(s, C), new.outs = NewOuts(s, C), new.stack = s.stack
  PROVE  HotplugKeeps(s, new, C)
<1> DEFINE n == Len(s.outs)
           A == Alive(s, C)
           stay == Staying(s, C)
<1>1. /\ stay \in Seq(1 .. n) /\ ToSet(stay) = A /\ DOMAIN s.outs = 1 .. n /\ n \in Nat
      /\ A \subseteq 1 .. n
  BY ScreensPicked DEF Alive
<1>2. s.outs \in Seq(AllOutputs) /\ IsInjective(s.outs) /\ n >= 1
  BY WellParts DEF Spaces
<1>3. \A j \in DOMAIN stay : /\ new.order[j] = s.order[stay[j]]
                             /\ new.outs[j] = s.outs[stay[j]] /\ j \in DOMAIN new.outs
  BY OrderReconciled, OutsReconciled
<1>4. ASSUME NEW o \in ToSet(s.outs) \cap C
      PROVE  o \in ToSet(new.outs) /\ TagOn(o, new) = TagOn(o, s)
  <2>1. PICK i \in DOMAIN s.outs : s.outs[i] = o
    BY DEF ToSet
  <2>2. i \in A
    BY <1>1, <2>1 DEF Alive
  <2>3. PICK j \in DOMAIN stay : stay[j] = i
    BY <1>1, <2>2 DEF ToSet
  <2>4. j \in DOMAIN new.outs /\ new.outs[j] = o /\ new.order[j] = s.order[i]
    BY <1>3, <2>1, <2>3
  <2>5. TagOn(s.outs[i], s) = s.order[i]
    BY TagOnScreen DEF Spaces
  <2>6. TagOn(new.outs[j], new) = new.order[j]
    BY <2>4, TagOnScreen DEF Spaces
  <2>7. QED
    BY <2>1, <2>4, <2>5, <2>6 DEF ToSet
<1>5. ASSUME s.outs[1] \in C
      PROVE  new.outs[1] = s.outs[1]
  <2>1. 1 \in A
    BY <1>2, <1>5 DEF Alive
  <2>2. A \subseteq Nat /\ IsFiniteSet(A)
    <3>1. 1 \in Int /\ n \in Int /\ 1 .. n \subseteq Nat
      BY <1>1
    <3>2. IsFiniteSet(1 .. n)
      BY <3>1, FS_Interval
    <3>3. QED
      BY <1>1, <3>1, <3>2, FS_Subset
  <2>3. /\ stay = Ascending(A) /\ Cardinality(A) \in Nat /\ DOMAIN stay = 1 .. Cardinality(A)
        /\ stay \in [1 .. Cardinality(A) -> A]
        /\ \A i, j \in 1 .. Cardinality(A) : i < j => stay[i] < stay[j]
    BY <2>2, AscendingLists DEF Staying
  <2>4. PICK j \in 1 .. Cardinality(A) : stay[j] = 1
    BY <1>1, <2>1, <2>3 DEF ToSet
  <2>5. 1 \in 1 .. Cardinality(A) /\ stay[1] \in A
    BY <2>3, <2>4
  <2>6. stay[1] \in Nat /\ stay[1] >= 1
    BY <1>1, <2>5
  <2>7. stay[1] = 1
    BY <2>3, <2>4, <2>5, <2>6
  <2>8. QED
    BY <1>3, <2>3, <2>5, <2>7
<1>6. QED
  BY <1>4, <1>5 DEF HotplugKeeps

\* What a plugged output leaves of the policy: the invariant, and what the
\* other outputs showed.
LEMMA OutputUpsertKeeps ==
  ASSUME PolicyInv, NEW o \in Outputs, NEW span \in OutputSpans, OutputUpsert(o, span)
  PROVE  PolicyInv' /\ HotplugKeeps(policy.ws, policy'.ws, DOMAIN policy'.outputs)
<1> DEFINE changed == o \notin DOMAIN policy.outputs \/ policy.outputs[o] # span
           p == IF changed THEN CancelOutput(o, policy) ELSE policy
           connected == Put(p.outputs, o, span)
           q == Reconcile(connected, p)
<1>1. Respond(q, <<>>)
  BY DEF OutputUpsert
<1>2. Fit(p) /\ Aside(policy, p) /\ policy.ws \in Spaces
  BY Cancelled, CancelOutputFit
<1> HIDE DEF p
<1>3. p.outputs \in [DOMAIN p.outputs -> OutputSpans] /\ DOMAIN p.outputs \subseteq Outputs
  BY <1>2, FitFields
<1>4. connected \in [DOMAIN connected -> OutputSpans] /\ DOMAIN connected \subseteq Outputs
  BY <1>3 DEF Put
<1> HIDE DEF connected
<1>5. /\ Fit(q) /\ q.outputs = connected /\ q.locked = p.locked /\ q.mode = p.mode
      /\ q.ws.order = NewOrder(p.ws, DOMAIN connected)
      /\ q.ws.outs = NewOuts(p.ws, DOMAIN connected)
      /\ q.ws.stack = p.ws.stack
  BY <1>2, <1>4, ReconcileFit
<1> HIDE DEF q
<1>6. PolicyInv' /\ policy'.outputs = connected /\ policy'.ws = q.ws
  BY <1>1, <1>2, <1>5, QuietKeeps DEF Aside
<1>7. q.ws \in Spaces /\ p.ws = policy.ws
  BY <1>2, <1>5, FitFields DEF Aside
<1>8. HotplugKeeps(policy.ws, q.ws, DOMAIN connected)
  BY <1>2, <1>4, <1>5, <1>7, ReconcileKeepsScreens
<1>9. QED
  BY <1>6, <1>8

\* The same of an unplugged output.
LEMMA OutputRemovedKeeps ==
  ASSUME PolicyInv, NEW o \in Outputs, OutputRemoved(o)
  PROVE  PolicyInv' /\ HotplugKeeps(policy.ws, policy'.ws, DOMAIN policy'.outputs)
<1> DEFINE p == CancelOutput(o, policy)
           connected == Without(p.outputs, {o})
           f == Without(p.workAreas, {o})
           r == [p EXCEPT !.workAreas = f]
           q == Reconcile(connected, r)
<1>1. Respond(q, <<>>)
  BY DEF OutputRemoved
<1>2. Fit(p) /\ Aside(policy, p) /\ policy.ws \in Spaces
  BY Cancelled, CancelOutputFit
<1> HIDE DEF p
<1>3. /\ p.outputs \in [DOMAIN p.outputs -> OutputSpans] /\ DOMAIN p.outputs \subseteq Outputs
      /\ p.workAreas \in [DOMAIN p.workAreas -> WorkSpans] /\ DOMAIN p.workAreas \subseteq Outputs
  BY <1>2, FitFields
<1>4. /\ connected \in [DOMAIN connected -> OutputSpans] /\ DOMAIN connected \subseteq Outputs
      /\ f \in [DOMAIN f -> WorkSpans] /\ DOMAIN f \subseteq Outputs
  BY <1>3 DEF Without, Restrict
<1> HIDE DEF connected, f
<1>5. Fit(r) /\ r.locked = p.locked /\ r.mode = p.mode /\ r.ws = p.ws
  BY <1>2, <1>4, WithAreasFit
<1> HIDE DEF r
<1>6. /\ Fit(q) /\ q.outputs = connected /\ q.locked = r.locked /\ q.mode = r.mode
      /\ q.ws.order = NewOrder(r.ws, DOMAIN connected)
      /\ q.ws.outs = NewOuts(r.ws, DOMAIN connected)
      /\ q.ws.stack = r.ws.stack
  BY <1>4, <1>5, ReconcileFit
<1> HIDE DEF q
<1>7. PolicyInv' /\ policy'.outputs = connected /\ policy'.ws = q.ws
  BY <1>1, <1>2, <1>5, <1>6, QuietKeeps DEF Aside
<1>8. q.ws \in Spaces /\ r.ws = policy.ws
  BY <1>2, <1>5, <1>6, FitFields DEF Aside
<1>9. HotplugKeeps(policy.ws, q.ws, DOMAIN connected)
  BY <1>2, <1>4, <1>6, <1>8, ReconcileKeepsScreens
<1>10. QED
  BY <1>7, <1>9

-----------------------------------------------------------------------------
(* The invariant *)

\* The policy the program starts with is fit.
LEMMA InitialFit == Fit(InitialPolicy)
<1> DEFINE p == InitialPolicy
           f == [t \in Tags |-> NoStack]
<1>1. /\ HasFields(p)
      /\ p.ws = [order |-> TagList, outs |-> <<NoOutput>>, stack |-> f]
      /\ p.layout = [t \in Tags |-> InitialLayout]
      /\ p.outputs = <<>> /\ p.workAreas = <<>> /\ p.locked = FALSE /\ p.meta = <<>>
      /\ p.mode = "normal" /\ p.operation = NoOperation /\ p.sized = {} /\ p.anchors = <<>>
  BY DEF InitialPolicy, HasFields, FieldNames
<1> HIDE DEF p
<1>2. TagList \in Seq(Tags) /\ IsInjective(TagList) /\ ToSet(TagList) = Tags /\ TagList # <<>>
  BY PolicyAssumption DEF Tags
<1>3. InitialLayout \in LayoutKinds
  BY PolicyAssumption
<1>4. /\ f \in [Tags -> Stacks(Windows)]
      /\ \A t \in Tags : StackArranged(f[t]) /\ ToSet(f[t].list) = {}
  BY DEF Stacks, NoStack, StackArranged, IsInjective, ToSet
<1>5. /\ <<NoOutput>> \in Seq(AllOutputs) /\ IsInjective(<<NoOutput>>)
      /\ Len(<<NoOutput>>) \in 1 .. Len(TagList)
  <2>1. Len(TagList) \in Nat /\ Len(TagList) >= 1
    BY <1>2
  <2>2. QED
    BY <2>1 DEF AllOutputs, IsInjective
<1>6. p.ws \in Spaces
  <2>1. \A t, u \in Tags : t # u => ToSet(f[t].list) \cap ToSet(f[u].list) = {}
    BY <1>4
  <2>2. \A t \in Tags : StackArranged(f[t])
    BY <1>4
  <2> HIDE DEF f
  <2>3. [order |-> TagList, outs |-> <<NoOutput>>, stack |-> f] \in Spaces
    BY <1>2, <1>4, <1>5, <2>1, <2>2, WellFromParts DEF Spaces
  <2>4. QED
    BY <1>1, <2>3
<1>7. Placed(p.ws) = {}
  <2>1. \A t \in Tags : ToSet(p.ws.stack[t].list) = {}
    BY <1>1, <1>4
  <2>2. QED
    BY <1>6, <2>1, PlacedWindows DEF Spaces
<1>8. DOMAIN <<>> = {} /\ \A S : <<>> \in [{} -> S]
  OBVIOUS
<1>9. Trees(p) /\ Ready(p)
  BY <1>1, <1>8 DEF Trees, Ready
<1>10. Screens(p)
  <2>1. Len(p.ws.order) = Len(TagList) /\ ToSet(p.ws.order) = Tags
    BY <1>6, OrderLength
  <2>2. QED
    BY <1>1, <1>8, <2>1 DEF Screens
<1>11. QED
  <2>1. p.layout \in [Tags -> LayoutKinds]
    BY <1>1, <1>3
  <2>2. NoOperation \in Operations /\ "normal" \in Modes /\ FALSE \in BOOLEAN
    BY DEF Operations, Modes
  <2>3. QED
    BY <1>1, <1>6, <1>7, <1>8, <1>9, <1>10, <2>1, <2>2, FitFromParts DEF p

\* Every input keeps the invariant; one that changes the outputs keeps what
\* the others show.
KeepsOrHotplugs == PolicyInv' /\ (policy'.outputs = policy.outputs \/
                       HotplugKeeps(policy.ws, policy'.ws, DOMAIN policy'.outputs))

\* Navigation.
LEMMA NavigateKeeps == PolicyInv /\ Navigate => Keeps
  BY FocusOutputKeeps, FocusDirectionKeeps, MoveDirectionKeeps, FocusModeToggleKeeps DEF Navigate

\* Viewing and shifting.
LEMMA SwitchKeeps == PolicyInv /\ SwitchWorkspace => Keeps
  BY ViewTagKeeps, ShiftToKeeps DEF SwitchWorkspace

\* Every input.
LEMMA NextKeeps == PolicyInv /\ Next => KeepsOrHotplugs
<1> SUFFICES ASSUME PolicyInv, Next PROVE KeepsOrHotplugs
  OBVIOUS
<1>1. Keeps => KeepsOrHotplugs
  BY DEF Keeps, KeepsOrHotplugs
<1>2. CASE PlugOutputs
  BY <1>2, OutputUpsertKeeps, OutputRemovedKeeps DEF PlugOutputs, KeepsOrHotplugs
<1>3. CASE MoveWorkAreas
  BY <1>1, <1>3, WorkAreaKeeps DEF MoveWorkAreas
<1>4. CASE MapWindows
  BY <1>1, <1>4, WindowAddedKeeps, WindowRemovedKeeps DEF MapWindows
<1>5. CASE SetParents
  BY <1>1, <1>5, SetParentKeeps DEF SetParents
<1>6. CASE SetHints
  BY <1>1, <1>6, SizeHintsKeep DEF SetHints
<1>7. CASE RequestFullscreen
  BY <1>1, <1>7, FullscreenKeeps DEF RequestFullscreen
<1>8. CASE ToggleFullscreen \/ ChangeFloating
  BY <1>1, <1>8, ChangeFloatingKeeps
<1>9. CASE Click
  BY <1>1, <1>9, ClickKeeps DEF Click
<1>10. CASE UsePointer
  BY <1>1, <1>10, SizeKeeps, PointerStartedKeeps, PointerEndedKeeps DEF UsePointer
<1>11. CASE LockSession
  BY <1>1, <1>11, LockKeeps
<1>12. CASE MoveFocus
  BY <1>1, <1>12, MoveFocusKeeps
<1>13. CASE SwitchWorkspace
  BY <1>1, <1>13, SwitchKeeps
<1>14. CASE Navigate
  BY <1>1, <1>14, NavigateKeeps
<1>15. CASE ChooseLayout \/ ChooseSplit
  BY <1>1, <1>15, LayoutsKeep
<1>16. CASE UsePicker
  BY <1>1, <1>16, UsePickerKeeps
<1>17. CASE Command
  BY <1>1, <1>17, CommandKeeps
<1>18. QED
  BY <1>2, <1>3, <1>4, <1>5, <1>6, <1>7, <1>8, <1>9, <1>10, <1>11, <1>12, <1>13, <1>14, <1>15,
     <1>16, <1>17 DEF Next

\* The first policy.
LEMMA InitInv == Init => PolicyInv
<1> SUFFICES ASSUME Init PROVE PolicyInv
  OBVIOUS
<1>1. policy = InitialPolicy /\ overlay = <<>>
  BY DEF Init
<1>2. Fit(policy)
  BY <1>1, InitialFit
<1>3. policy.mode = "normal" /\ policy.locked = FALSE /\ policy.operation = NoOperation
  BY <1>1 DEF InitialPolicy
<1>4. <<>> \in Seq(Labels)
  OBVIOUS
<1>5. TypeOK /\ OverlayOnlyWhilePicking /\ OperationOnFocusedFloat
  BY <1>1, <1>2, <1>3, <1>4 DEF Fit, Sound, TypeOK, OverlayOnlyWhilePicking,
                                OperationOnFocusedFloat
<1>6. FamiliesAreTrees /\ ScreensFollowOutputs
  BY <1>2 DEF Fit, Sound, Trees, Screens, FamiliesAreTrees, ScreensFollowOutputs
<1>7. QED
  BY <1>2, <1>5, <1>6 DEF PolicyInv, Fit, Sound

\* A step that changes nothing.
LEMMA NothingHappens == PolicyInv /\ UNCHANGED vars => PolicyInv'
  BY DEF PolicyInv, TypeOK, FamiliesAreTrees, ScreensFollowOutputs, OverlayOnlyWhilePicking,
         OperationOnFocusedFloat, FocusedWindow, FocusedOutput, ShownOn, vars

\* The policy of src/XMonad/Wayland/Policy.hs keeps its inductive invariant
\* under every mix of inputs: what handleEvent does with an event never leaves
\* a stack set that is not one, metadata of a window that is on no workspace,
\* a family with a cycle, a screen without its output or the other way round,
\* an overlay without its mode, or a pointer operation on anything but the
\* focused float.
THEOREM PolicyInvariant == Spec => []PolicyInv
<1>1. Init => PolicyInv
  BY InitInv
<1>2. PolicyInv /\ [Next]_vars => PolicyInv'
  BY NextKeeps, NothingHappens DEF KeepsOrHotplugs
<1>3. QED
  BY <1>1, <1>2, PTL DEF Spec

\* Every part of the policy and of the overlay has its type.
THEOREM PolicyTypes == Spec => []TypeOK
<1>1. PolicyInv => TypeOK
  BY DEF PolicyInv
<1>2. QED
  BY <1>1, PolicyInvariant, PTL

\* handleParent and windowRemoved: parents are live windows and no sequence of
\* parent events, in whatever order, makes a window its own ancestor.
THEOREM PolicyFamilies == Spec => []FamiliesAreTrees
<1>1. PolicyInv => FamiliesAreTrees
  BY DEF PolicyInv
<1>2. QED
  BY <1>1, PolicyInvariant, PTL

\* reconcileOutputs and view: every workspace is in one place, and every
\* connected output has its own while there are workspaces.
THEOREM PolicyScreens == Spec => []ScreensFollowOutputs
<1>1. PolicyInv => ScreensFollowOutputs
  BY DEF PolicyInv
<1>2. QED
  BY <1>1, PolicyInvariant, PTL

\* The overlay is shown exactly in the picker's mode, and a locked session has
\* no mode and no pointer operation.
THEOREM PolicyOverlay == Spec => []OverlayOnlyWhilePicking
<1>1. PolicyInv => OverlayOnlyWhilePicking
  BY DEF PolicyInv
<1>2. QED
  BY <1>1, PolicyInvariant, PTL

\* validatePointerState leaves an operation only on the focused, visible,
\* floating window it began on.
THEOREM PolicyOperations == Spec => []OperationOnFocusedFloat
<1>1. PolicyInv => OperationOnFocusedFloat
  BY DEF PolicyInv
<1>2. QED
  BY <1>1, PolicyInvariant, PTL

\* Whatever opens, closes, floats, is fullscreen or hidden: while an output is
\* connected, the window keys go to is on the focused output's screen.
THEOREM PolicyFocus == Spec => []FocusedIsVisible
<1>1. PolicyInv => FocusedIsVisible
  BY InvFit, FocusShown DEF FocusedIsVisible
<1>2. QED
  BY <1>1, PolicyInvariant, PTL

\* A window is on as many workspaces, in as many places, as it has metadata.
LEMMA OnePlace == PolicyInv => EachWindowOnce
<1> SUFFICES ASSUME PolicyInv, NEW w \in Windows
             PROVE  LET At(t, i) == LET l == policy.ws.stack[t].list
                                    IN  i \in DOMAIN l /\ l[i] = w
                        places == {at \in Tags \X (1 .. Cardinality(Windows)) : At(at[1], at[2])}
                    IN  Cardinality(places) = IF w \in DOMAIN policy.meta THEN 1 ELSE 0
  BY DEF EachWindowOnce
<1> DEFINE s == policy.ws
           l(t) == s.stack[t].list
           n == Cardinality(Windows)
           At(t, i) == i \in DOMAIN l(t) /\ l(t)[i] = w
           places == {at \in Tags \X (1 .. n) : At(at[1], at[2])}
<1>1. s \in Spaces /\ DOMAIN policy.meta = Placed(s)
  BY InvFit, FitFields DEF Fit, Sound
<1>2. /\ \A t \in Tags : l(t) \in Seq(Windows) /\ IsInjective(l(t))
      /\ \A t, u \in Tags : t # u => ToSet(l(t)) \cap ToSet(l(u)) = {}
      /\ w \in Placed(s) <=> \E t \in Tags : w \in ToSet(l(t))
  <2>1. \A t \in Tags : s.stack[t] \in Stacks(Windows) /\ StackArranged(s.stack[t])
    BY <1>1, WellParts DEF Spaces
  <2>2. \A t, u \in Tags : t # u => ToSet(l(t)) \cap ToSet(l(u)) = {}
    BY <1>1, WellParts DEF Spaces
  <2>3. w \in Placed(s) <=> \E t \in Tags : w \in ToSet(l(t))
    BY <1>1, PlacedWindows DEF Spaces
  <2>4. \A t \in Tags : l(t) \in Seq(Windows) /\ IsInjective(l(t))
    BY <2>1 DEF Stacks, StackArranged
  <2>5. QED
    BY <2>2, <2>3, <2>4
<1>3. IsFiniteSet(Windows) /\ n \in Nat
  BY PolicyAssumption, FS_CardinalityType
<1> HIDE DEF s, l, n
<1>4. ASSUME NEW t \in Tags, NEW i, At(t, i)
      PROVE  i \in 1 .. n /\ w \in ToSet(l(t))
  <2>1. l(t) \in Seq(Windows) /\ IsInjective(l(t)) /\ i \in DOMAIN l(t) /\ l(t)[i] = w
    BY <1>2, <1>4
  <2>2. w \in ToSet(l(t))
    BY <2>1 DEF ToSet
  <2>3. Cardinality(ToSet(l(t))) = Len(l(t)) /\ ToSet(l(t)) \in SUBSET Windows
    <3> DEFINE q == l(t)
    <3>1. q \in Seq(Windows) /\ IsInjective(q)
      BY <2>1
    <3> HIDE DEF q
    <3>2. Cardinality(ToSet(q)) = Len(q)
      BY <3>1, InjectiveLength
    <3>3. ToSet(q) \in SUBSET Windows
      BY <3>1 DEF ToSet
    <3>4. QED
      BY <3>2, <3>3 DEF q
  <2>4. Len(l(t)) <= n /\ Len(l(t)) \in Nat /\ DOMAIN l(t) = 1 .. Len(l(t))
    BY <1>3, <2>1, <2>3, FS_Subset DEF n
  <2>5. QED
    BY <1>3, <2>1, <2>2, <2>4
<1>5. CASE w \in Placed(s)
  <2>1. PICK t \in Tags : w \in ToSet(l(t))
    BY <1>2, <1>5
  <2>2. PICK i \in DOMAIN l(t) : l(t)[i] = w
    BY <2>1 DEF ToSet
  <2>3. At(t, i) /\ i \in 1 .. n
    BY <1>4, <2>2
  <2>4. ASSUME NEW u \in Tags, NEW j, At(u, j)
        PROVE  u = t /\ j = i
    <3>1. u = t
      BY <1>2, <1>4, <2>1, <2>4
    <3>2. QED
      BY <1>2, <2>2, <2>4, <3>1 DEF IsInjective
  <2> HIDE DEF At
  <2>5. places = {<<t, i>>}
    BY <2>3, <2>4
  <2>6. Cardinality(places) = 1
    BY <2>5, FS_Singleton
  <2>7. QED
    BY <1>1, <1>5, <2>6 DEF At, l, s, n
<1>6. CASE w \notin Placed(s)
  <2>1. places = {}
    BY <1>2, <1>4, <1>6
  <2>2. Cardinality(places) = 0
    BY <2>1, FS_EmptySet
  <2>3. QED
    BY <1>1, <1>6, <2>2 DEF l, s, n
<1>7. QED
  BY <1>5, <1>6

\* windowAdded, windowRemoved and every action that moves windows: a window the
\* bridge announced is on one workspace, in one place, until it is removed.
THEOREM PolicyWindows == Spec => []EachWindowOnce
  BY OnePlace, PolicyInvariant, PTL

\* reconcileOutputs: plugging or unplugging leaves what other outputs show.
THEOREM PolicyHotplug == Spec => HotplugKeepsScreens
<1>1. PolicyInv /\ [Next]_vars =>
        [policy'.outputs # policy.outputs =>
           HotplugKeeps(policy.ws, policy'.ws, DOMAIN policy'.outputs)]_vars
  BY NextKeeps DEF KeepsOrHotplugs
<1>2. QED
  BY <1>1, PolicyInvariant, PTL DEF Spec, HotplugKeepsScreens, HotplugKeeps

\* focusRequested, handleFullscreen, windowAdded, windowRemoved, windowParent
\* and windowSizeHints: nothing a client does changes the workspace an output
\* shows, and only a click or a fullscreen request the one with the focus.
THEOREM PolicyClients == Spec => ClientsNeverSwitchWorkspaces
<1> DEFINE Silent == MapWindows \/ SetParents \/ SetHints
           Same == SameScreens(policy.ws, policy'.ws)
           Leaves == CurrentTag(policy'.ws) # CurrentTag(policy.ws)
<1>1. PolicyInv /\ (Click \/ RequestFullscreen) => Same
  BY ClickKeeps, FullscreenKeeps DEF Click, RequestFullscreen
<1>2. PolicyInv /\ Silent => Same /\ ~Leaves
  BY WindowAddedKeeps, WindowRemovedKeeps, SetParentKeeps, SizeHintsKeep
     DEF MapWindows, SetParents, SetHints, ShowsSame
<1>3. PolicyInv => /\ ~Same => ~(Click \/ RequestFullscreen \/ Silent)
                   /\ Leaves => ~Silent
  BY <1>1, <1>2
<1>4. PolicyInv /\ [Next]_vars =>
        [policy'.outputs = policy.outputs =>
           /\ ~Same => ~(Click \/ RequestFullscreen \/ Silent)
           /\ Leaves => ~Silent]_vars
  BY <1>3
<1>5. QED
  BY <1>4, PolicyInvariant, PTL DEF Spec, ClientsNeverSwitchWorkspaces

-----------------------------------------------------------------------------
(* A locked session *)

\* Nothing a user could see of an action.
Swallowed ==
  /\ policy'.ws = policy.ws /\ policy'.layout = policy.layout
  /\ policy'.meta = policy.meta /\ policy'.mode = policy.mode
  /\ effects' = <<>>

\* The user action that prepares p.
Performed(p) == \E next, result : Perform(p, next, result)

\* A locked session swallows what is performed, whatever it is.
LEMMA LockedSwallows ==
  ASSUME PolicyInv, policy.locked, NEW p, Fit(p), Aside(policy, p),
         Performed(p) \/ Respond(p, <<>>)
  PROVE  Swallowed
<1>1. p.locked
  BY DEF Aside
<1>2. Respond(p, <<>>)
  BY <1>1 DEF Performed, Perform
<1>3. QED
  BY <1>2, RespondShows DEF Swallowed, Aside

\* Every user action is performed on the policy less pointer state.
Acts ==
  \/ Performed(CancelPointer(policy)) \/ Performed(FocusedGeometry(policy))
  \/ Performed(policy) \/ Respond(CancelPointer(policy), <<>>)

\* Focus and swap actions,
LEMMA FocusActs == MoveFocus => Acts
<1>1. FocusNext \/ FocusPrevious => Performed(CancelPointer(policy))
  BY DEF FocusNext, FocusPrevious, ChangeStackSet, Performed
<1>2. SwapMaster \/ SwapNext \/ SwapPrevious => Performed(CancelPointer(policy))
  BY DEF SwapMaster, SwapNext, SwapPrevious, ChangeStackSet, Performed
<1>3. QED
  BY <1>1, <1>2 DEF MoveFocus, Acts

\* viewing and shifting,
LEMMA WorkspacesAct == SwitchWorkspace => Acts
<1>1. ASSUME NEW t, ViewTag(t) \/ ShiftTo(t) PROVE Performed(CancelPointer(policy))
  BY <1>1 DEF ViewTag, ShiftTo, ChangeStackSet, Performed
<1>2. QED
  BY <1>1 DEF SwitchWorkspace, Acts

\* navigation,
LEMMA NavigationActs == Navigate => Acts
<1>1. ASSUME NEW step, FocusOutput(step) PROVE Performed(CancelPointer(policy))
  BY <1>1 DEF FocusOutput, ChangeStackSet, Performed
<1>2. FocusModeToggle => Performed(CancelPointer(policy))
  BY DEF FocusModeToggle, ChangeStackSet, Performed
<1>3. ASSUME NEW step, FocusDirection(step) PROVE Performed(CancelPointer(policy))
  BY <1>3 DEF FocusDirection, Performed
<1>4. ASSUME NEW step, MoveDirection(step) PROVE Performed(FocusedGeometry(policy))
  BY <1>4 DEF MoveDirection, Performed
<1>5. QED
  BY <1>1, <1>2, <1>3, <1>4 DEF Navigate, Acts

\* floating and fullscreen,
LEMMA FloatingActs == ChangeFloating \/ ToggleFullscreen => Acts
  BY DEF ChangeFloating, ToggleFloat, Sink, ToggleFullscreen, ModifyFocused, Performed, Acts

\* layouts,
LEMMA LayoutsAct == ChooseLayout \/ ChooseSplit => Acts
<1>1. ASSUME NEW kind, SetLayout(kind) PROVE Performed(CancelPointer(policy))
  BY <1>1 DEF SetLayout, ChangeLayout, Performed
<1>2. NextLayout \/ ToggleSplit \/ CycleSwayLayout \/ ResizeMaster =>
        Performed(CancelPointer(policy))
  BY DEF NextLayout, ToggleSplit, CycleSwayLayout, ResizeMaster, ChangeLayout, Performed
<1>3. Resize => Performed(FocusedGeometry(policy))
  BY DEF Resize, Performed
<1>4. QED
  BY <1>1, <1>2, <1>3 DEF ChooseLayout, ChooseSplit, Acts

\* and the rest.
LEMMA CommandsAct == Command => Acts
<1>1. ASSUME NEW mode, EnterMode(mode) PROVE Performed(CancelPointer(policy))
  BY <1>1 DEF EnterMode, Performed
<1>2. ASSUME NEW kind, RunCommand(kind) PROVE Performed(policy)
  BY <1>2 DEF RunCommand, Performed
<1>3. ASSUME NEW kind, Leave(kind) PROVE Performed(CancelPointer(policy))
  BY <1>3 DEF Leave, Performed
<1>4. Close => Performed(CancelPointer(policy))
  BY DEF Close, Performed
<1>5. ASSUME NEW w, SwapTo(w) PROVE Performed(CancelPointer(policy))
  BY <1>5 DEF SwapTo, ChangeStackSet, Performed
<1>6. QED
  BY <1>1, <1>2, <1>3, <1>4, <1>5 DEF Command, Acts

\* The keys of the picker are not armed in a locked session.
LEMMA PickerActs == PolicyInv /\ policy.locked /\ UsePicker => Acts
<1> SUFFICES ASSUME PolicyInv, policy.locked, UsePicker PROVE Acts
  OBVIOUS
<1>1. policy.mode # "picker"
  BY InvFit
<1>2. Pick
  BY <1>1 DEF UsePicker, PickCandidate, PickCancel
<1>3. CancelPointer(policy).locked
  BY Cancelled DEF Aside
<1>4. QED
  BY <1>2, <1>3 DEF Pick, Acts

\* A click moves the focus of an unlocked session only.
LEMMA ClickActs ==
  ASSUME PolicyInv, policy.locked, NEW w, FocusRequested(w)
  PROVE  Respond(policy, <<>>) \/ Respond(CancelPointer(policy), <<>>)
<1>1. CancelPointer(policy).locked
  BY Cancelled DEF Aside
<1>2. QED
  BY <1>1 DEF FocusRequested

\* handleAction and focusRequested: a locked session takes no user input.
THEOREM PolicyLocked == Spec => LockedTakesNoInput
<1> DEFINE Input == MoveFocus \/ SwitchWorkspace \/ Navigate \/ Click \/ ChangeFloating
                    \/ ChooseLayout \/ ChooseSplit \/ UsePicker \/ Command \/ ToggleFullscreen
<1>1. ASSUME PolicyInv, policy.locked, Input
      PROVE  Swallowed
  <2>1. ASSUME Acts PROVE Swallowed
    BY <1>1, <2>1, Cancelled, LockedSwallows DEF Acts
  <2>2. ASSUME Click PROVE Swallowed
    BY <1>1, <2>2, Cancelled, ClickActs, LockedSwallows DEF Click
  <2>3. QED
    BY <1>1, <2>1, <2>2, FocusActs, WorkspacesAct, NavigationActs, FloatingActs, LayoutsAct,
       CommandsAct, PickerActs
<1> HIDE DEF Input
<1>2. PolicyInv /\ [Next]_vars => [policy.locked => Swallowed \/ ~Input]_vars
  BY <1>1
<1>3. QED
  BY <1>2, PolicyInvariant, PTL DEF Spec, LockedTakesNoInput, Swallowed, Input

-----------------------------------------------------------------------------
(* Families move together *)

\* new has what s has, its order of the windows in K, and the windows of
\* family on workspace t.
Delivered(s, new, family, t, K) ==
  /\ Shifted(s, new)
  /\ \A x \in family : x \in Placed(new) /\ FindTag(x, new) = t
  /\ \A u \in Tags : Kept(new.stack[u].list, K) = Kept(s.stack[u].list, K)

\* The windows of a family arrive one after the other; those that arrived stay.
LEMMA FamilyDelivered ==
  ASSUME NEW p, Fit(p), NEW w \in Placed(p.ws), NEW t \in Tags,
         NEW K, K \cap ToSet(Family(p, w)) = {}
  PROVE  \E s : /\ ShiftFamily(w, t, p) = WithSpace(s, p)
                /\ Delivered(p.ws, s, ToSet(Family(p, w)), t, K)
<1> DEFINE f == Family(p, w)
           N == Len(f)
           Some(n) == {f[i] : i \in 1 .. n}
           o == p.ws
<1>1. N \in Nat /\ DOMAIN f = 1 .. N /\ \A i \in DOMAIN f : f[i] \in Placed(o)
  <2>1. f \in Seq({w} \cup DOMAIN p.meta) /\ DOMAIN p.meta = Placed(o)
    BY FamilyList, SoundSpace DEF Fit
  <2> HIDE DEF f
  <2>2. QED
    BY <2>1
<1>2. PICK g : /\ g[0] = o /\ \A n \in 1 .. N : g[n] = ShiftWin(t, f[n], g[n - 1])
               /\ ShiftFamily(w, t, p) = WithSpace(g[N], p)
  BY FamilyMoves
<1>3. \A i \in 1 .. N : f[i] \notin K
  <2> HIDE DEF f
  <2>1. QED
    BY <1>1 DEF f, ToSet
<1>4. ToSet(f) = Some(N)
  <2> HIDE DEF f
  <2>1. QED
    BY <1>1 DEF ToSet
<1>5. o \in Spaces
  BY Unchanged
<1> HIDE DEF f, N, o
<1> DEFINE T == {n \in 0 .. N : Delivered(o, g[n], Some(n), t, K)}
<1>6. 0 \in T
  <2>1. Shifted(o, g[0])
    BY <1>2, <1>5, ShiftWinShifts
  <2>2. Some(0) = {} /\ 0 \in 0 .. N
    BY <1>1
  <2>3. QED
    BY <1>2, <2>1, <2>2 DEF Delivered
<1>7. ASSUME NEW n \in 1 .. N, n - 1 \in T PROVE n \in T
  <2> DEFINE s == g[n - 1]
             new == g[n]
             x == f[n]
  <2>1. /\ Shifted(o, s)
        /\ \A y \in Some(n - 1) : y \in Placed(s) /\ FindTag(y, s) = t
        /\ \A u \in Tags : Kept(s.stack[u].list, K) = Kept(o.stack[u].list, K)
    BY <1>7 DEF Delivered
  <2>2. s \in Spaces /\ Placed(s) = Placed(o) /\ new = ShiftWin(t, x, s)
    BY <1>2, <2>1 DEF Shifted, Changed, Rearranged, Spaces
  <2>3. x \in Placed(s) /\ x \notin K
    BY <1>1, <1>3, <2>2
  <2> HIDE DEF s, new, x
  <2>4. Shifted(s, new)
    BY <2>2, ShiftWinShifts
  <2>5. new \in Spaces /\ Placed(new) = Placed(s)
    BY <2>4 DEF Shifted, Changed, Rearranged, Spaces
  <2>6. /\ x \in ToSet(new.stack[t].list)
        /\ \A y, u : /\ y # x /\ u \in Tags
                     => (y \in ToSet(new.stack[u].list) <=> y \in ToSet(s.stack[u].list))
    BY <2>2, <2>3, ShiftWinArranges DEF Spaces
  <2>7. ASSUME NEW y \in Some(n)
        PROVE  y \in Placed(new) /\ FindTag(y, new) = t
    <3>1. y = x \/ y \in Some(n - 1)
      <4>1. PICK i \in 1 .. n : y = f[i]
        OBVIOUS
      <4>2. i = n \/ i \in 1 .. n - 1
        OBVIOUS
      <4>3. QED
        BY <4>1, <4>2 DEF x
    <3> HIDE DEF Some
    <3>2. y \in ToSet(new.stack[t].list)
      <4>1. CASE y = x
        BY <2>6, <4>1
      <4>2. CASE y # x
        <5>1. y \in Placed(s) /\ FindTag(y, s) = t
          BY <2>1, <3>1, <4>2 DEF s
        <5>2. y \in ToSet(s.stack[t].list)
          BY <2>2, <5>1, PlacedWindows DEF Spaces
        <5>3. QED
          BY <2>6, <4>2, <5>2
      <4>3. QED
        BY <4>1, <4>2
    <3>3. y \in Placed(new)
      BY <2>5, <3>2, PlacedWindows DEF Spaces
    <3>4. FindTag(y, new) = t
      BY <2>5, <3>2, <3>3, PlacedWindows DEF Spaces
    <3>5. QED
      BY <3>3, <3>4
  <2>8. \A u \in Tags : Kept(new.stack[u].list, K) = Kept(s.stack[u].list, K)
    BY <2>2, <2>3, KeptOfShifted DEF Spaces
  <2>9. Shifted(o, new)
    BY <2>1, <2>4, ShiftedTransitive DEF s
  <2>10. \A u \in Tags : Kept(new.stack[u].list, K) = Kept(o.stack[u].list, K)
    BY <2>1, <2>8 DEF s
  <2> HIDE DEF Some
  <2>11. Delivered(o, new, Some(n), t, K)
    BY <2>7, <2>9, <2>10 DEF Delivered
  <2>12. n \in 0 .. N
    BY <1>1
  <2>13. QED
    BY <2>11, <2>12 DEF new
<1>8. N \in 0 .. N
  BY <1>1
<1>9. N \in T
  <2> HIDE DEF T
  <2>1. QED
    BY <1>1, <1>6, <1>7, <1>8, UpTo
<1>10. QED
  BY <1>2, <1>4, <1>9 DEF f, o

\* Families are read from the metadata, which pointer state is no part of.
LEMMA SameDescendants ==
  ASSUME NEW p, NEW q, q.meta = p.meta, NEW w
  PROVE  Descendants(q, w) = Descendants(p, w)
  BY DEF Descendants

\* The focused window is on a workspace.
LEMMA PeekPlaced ==
  ASSUME NEW s \in Spaces, Peek(s) # NoWindow
  PROVE  Peek(s) \in Placed(s)
<1> DEFINE st == s.stack[CurrentTag(s)]
<1>1. CurrentTag(s) \in Tags /\ st \in Stacks(Windows) /\ StackArranged(st)
  BY WellParts DEF Spaces
<1>2. Peek(s) = st.list[st.pos] /\ st # NoStack
  BY DEF Peek, Current
<1> HIDE DEF st
<1>3. st.list # <<>> /\ Peek(s) \in ToSet(st.list)
  BY <1>1, <1>2, EmptyStack
<1>4. QED
  BY <1>1, <1>3, PlacedWindows DEF Spaces, st

\* What a shift brings about.
LEMMA ShiftDelivers ==
  ASSUME PolicyInv, NEW t \in Tags, ~policy.locked, policy.mode # "picker", ShiftTo(t)
  PROVE  LET w == Peek(policy.ws)
             family == IF w = NoWindow THEN {} ELSE {w} \cup ToSet(Descendants(policy, w))
         IN  Delivered(policy.ws, policy'.ws, family, t, Windows \ family)
<1> DEFINE p == CancelPointer(policy)
           w == Peek(policy.ws)
           f == ToSet(Family(p, w))
           K == Windows \ f
<1>1. Fit(p) /\ Aside(policy, p) /\ p.ws = policy.ws /\ policy.ws \in Spaces
  BY Cancelled
<1>2. Respond(IF w = NoWindow THEN p ELSE ShiftFamily(w, t, p), <<>>)
  BY <1>1 DEF ShiftTo, Perform, Aside
<1> HIDE DEF p, w
<1>3. CASE w = NoWindow
  <2>1. policy'.ws = policy.ws
    BY <1>1, <1>2, <1>3, RespondShows
  <2>2. Shifted(policy.ws, policy.ws)
    BY <1>1, ShiftWinShifts
  <2>3. QED
    BY <1>3, <2>1, <2>2 DEF Delivered, w
<1>4. CASE w # NoWindow
  <2>1. w \in Placed(p.ws)
    BY <1>1, <1>4, PeekPlaced DEF w
  <2>2. K \cap ToSet(Family(p, w)) = {}
    OBVIOUS
  <2>3. PICK s : ShiftFamily(w, t, p) = WithSpace(s, p) /\ Delivered(p.ws, s, f, t, K)
    <3> HIDE DEF K
    <3>1. QED
      BY <1>1, <2>1, <2>2, FamilyDelivered
  <2>4. Fit(WithSpace(s, p)) /\ WithSpace(s, p).ws = s
    BY <1>1, <2>3, WithSpaceFit DEF Delivered, Shifted
  <2>5. policy'.ws = s
    BY <1>2, <1>4, <2>3, <2>4, RespondShows
  <2>6. f = {w} \cup ToSet(Descendants(policy, w))
    <3>1. f = {w} \cup ToSet(Descendants(p, w))
      BY <1>1, FamilyList
    <3>2. Descendants(p, w) = Descendants(policy, w)
      BY <1>1, SameDescendants DEF Aside
    <3>3. QED
      BY <3>1, <3>2
  <2> HIDE DEF f
  <2>7. Delivered(policy.ws, policy'.ws, f, t, Windows \ f)
    BY <1>1, <2>3, <2>5
  <2>8. QED
    BY <1>4, <2>6, <2>7 DEF w
<1>5. QED
  BY <1>3, <1>4

\* shiftTo and shiftFamily: a focused window leaves with its whole family, and
\* nothing else the user looks at changes.
THEOREM PolicyShift == Spec => ShiftMovesFamilyOnly
<1> DEFINE Moved(t) ==
             LET old == policy.ws
                 new == policy'.ws
                 w == Peek(old)
                 family == IF w = NoWindow THEN {} ELSE {w} \cup ToSet(Descendants(policy, w))
                 others == Windows \ family
             IN  /\ \A x \in family : FindTag(x, new) = t
                 /\ SameScreens(old, new) /\ CurrentTag(new) = CurrentTag(old)
                 /\ \A u \in Tags :
                      Kept(new.stack[u].list, others) = Kept(old.stack[u].list, others)
           Asked(t) == /\ policy'.outputs = policy.outputs /\ policy'.meta = policy.meta
                       /\ ~policy.locked /\ policy.mode # "picker"
                       /\ ShiftTo(t)
<1>1. ASSUME PolicyInv, NEW t \in Tags, Asked(t) PROVE Moved(t)
  BY <1>1, ShiftDelivers DEF Delivered, Shifted
<1> HIDE DEF Moved, Asked
<1>2. PolicyInv /\ [Next]_vars => [\A t \in Tags : Asked(t) => Moved(t)]_vars
  BY <1>1
<1>3. QED
  BY <1>2, PolicyInvariant, PTL DEF Spec, ShiftMovesFamilyOnly, Moved, Asked
=============================================================================
