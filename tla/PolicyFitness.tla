--------------------------- MODULE PolicyFitness ----------------------------
(***************************************************************************)
(* What a fit policy is, and what keeps one fit: lemmas about the helpers  *)
(* of Policy that its actions share.                                       *)
(*                                                                         *)
(* A policy is fit when it has its type, its stack set is arranged, the    *)
(* metadata are those of the placed windows, parents make trees, screens   *)
(* follow outputs and a pointer operation has the anchor it began with.    *)
(* Most inputs keep a policy fit for one reason, PolicyStaysFit: windows   *)
(* and outputs are those of before and pointer state only goes away. What  *)
(* Settle leaves of a fit policy satisfies the rest of the invariant.      *)
(***************************************************************************)
EXTENDS Policy, StackSetProofs

AllOutputs == Outputs \cup {NoOutput}
Spaces == Well(Tags, AllOutputs, Windows)
Changed(s, new) == Rearranged(Tags, AllOutputs, Windows, s, new)

\* The invariants of Policy, of any policy.
Trees(p) ==
  /\ \A w \in DOMAIN p.meta : p.meta[w].parent \in DOMAIN p.meta \cup {NoWindow}
  /\ \A S \in SUBSET DOMAIN p.meta : S # {} => \E w \in S : p.meta[w].parent \notin S

Screens(p) ==
  LET connected == DOMAIN p.outputs
      outs == p.ws.outs
  IN  /\ Len(p.ws.order) = Len(TagList) /\ ToSet(p.ws.order) = Tags
      /\ IF connected = {} THEN outs = <<NoOutput>>
         ELSE /\ IsInjective(outs)
              /\ ToSet(outs) \subseteq connected
              /\ Len(outs) = AtMost(Cardinality(connected), Len(TagList))

Sound(p) ==
  /\ IsPolicy(p)
  /\ Arranged(p.ws)
  /\ DOMAIN p.meta = Placed(p.ws)
  /\ Trees(p)
  /\ Screens(p)

\* The window of a pointer operation, while it is on a workspace and has an
\* anchor, has a size too, and the anchor is on the operation's output.
Ready(p) ==
  LET w == p.operation.window
  IN  p.operation # NoOperation /\ w \in Placed(p.ws) /\ w \in DOMAIN p.anchors =>
        w \in p.sized /\ p.anchors[w].output = p.operation.output

Fit(p) == Sound(p) /\ Ready(p)

Operations ==
  {NoOperation} \cup [seat : Seats, window : Windows, output : Outputs, hints : Hints]

-----------------------------------------------------------------------------
(* Policies by their fields *)

FieldNames == {"ws", "layout", "outputs", "workAreas", "locked", "meta", "mode",
               "operation", "sized", "anchors"}

HasFields(p) == p = [f \in FieldNames |-> p[f]]

\* A policy is made of its fields, each of its type.
LEMMA PolicyFields ==
  ASSUME NEW p, IsPolicy(p)
  PROVE  /\ HasFields(p)
         /\ p.ws \in StackSets(Tags, AllOutputs, Windows)
         /\ p.layout \in [Tags -> LayoutKinds]
         /\ p.outputs \in [DOMAIN p.outputs -> OutputSpans] /\ DOMAIN p.outputs \subseteq Outputs
         /\ p.workAreas \in [DOMAIN p.workAreas -> WorkSpans]
         /\ DOMAIN p.workAreas \subseteq Outputs
         /\ p.locked \in BOOLEAN /\ p.mode \in Modes
         /\ p.meta \in [DOMAIN p.meta -> Metadata] /\ DOMAIN p.meta \subseteq Windows
         /\ p.operation \in Operations
         /\ p.sized \subseteq Windows
         /\ p.anchors \in [DOMAIN p.anchors -> Anchors] /\ DOMAIN p.anchors \subseteq Windows
<1>1. HasFields(p)
  BY DEF IsPolicy, HasFields, FieldNames
<1>2. QED
  BY <1>1 DEF IsPolicy, AllOutputs, Operations

\* The converse.
LEMMA PolicyFromFields ==
  ASSUME NEW p, HasFields(p),
         p.ws \in StackSets(Tags, AllOutputs, Windows), p.layout \in [Tags -> LayoutKinds],
         p.outputs \in [DOMAIN p.outputs -> OutputSpans], DOMAIN p.outputs \subseteq Outputs,
         p.workAreas \in [DOMAIN p.workAreas -> WorkSpans],
         DOMAIN p.workAreas \subseteq Outputs,
         p.locked \in BOOLEAN, p.mode \in Modes,
         p.meta \in [DOMAIN p.meta -> Metadata], DOMAIN p.meta \subseteq Windows,
         p.operation \in Operations, p.sized \subseteq Windows,
         p.anchors \in [DOMAIN p.anchors -> Anchors], DOMAIN p.anchors \subseteq Windows
  PROVE  IsPolicy(p)
<1> DEFINE r == [ws |-> p.ws, layout |-> p.layout, outputs |-> p.outputs,
                 workAreas |-> p.workAreas, locked |-> p.locked, meta |-> p.meta,
                 mode |-> p.mode, operation |-> p.operation, sized |-> p.sized,
                 anchors |-> p.anchors]
<1>1. p = r
  <2>1. r = [f \in FieldNames |-> r[f]] /\ \A f \in FieldNames : r[f] = p[f]
    BY DEF FieldNames
  <2> HIDE DEF r
  <2>2. QED
    BY <2>1 DEF HasFields
<1>2. IsPolicy(r)
  BY DEF IsPolicy, AllOutputs, Operations
<1>3. QED
  BY <1>1, <1>2

\* The stack set of a sound policy.
LEMMA SoundSpace ==
  ASSUME NEW p, Sound(p)
  PROVE  /\ p.ws \in Spaces /\ p.ws.stack \in [Tags -> Stacks(Windows)]
         /\ Placed(p.ws) = DOMAIN p.meta /\ Placed(p.ws) \subseteq Windows
<1>1. p.ws \in Spaces
  BY PolicyFields DEF Sound, Spaces, Well
<1>2. QED
  BY <1>1, PlacedWindows, WellParts DEF Sound, Spaces

\* Tags: as many as the configuration lists.
LEMMA OrderLength ==
  ASSUME NEW s \in Spaces
  PROVE  Len(s.order) = Len(TagList) /\ ToSet(s.order) = Tags
<1>1. s.order \in Seq(Tags) /\ ToSet(s.order) = Tags /\ IsInjective(s.order)
  BY WellParts DEF Spaces
<1>2. TagList \in Seq(Tags) /\ IsInjective(TagList) /\ ToSet(TagList) = Tags
  BY PolicyAssumption DEF Tags
<1>3. Cardinality(Tags) = Len(s.order)
  BY <1>1, InjectiveLength
<1>4. Cardinality(Tags) = Len(TagList)
  BY <1>2, InjectiveLength
<1>5. QED
  BY <1>1, <1>3, <1>4

\* An input that moves windows among the workspaces, keeps parents and
\* outputs, and at most ends pointer state, keeps the policy fit.
LEMMA PolicyStaysFit ==
  ASSUME NEW p, Fit(p), NEW q, IsPolicy(q),
         Changed(p.ws, q.ws), q.outputs = p.outputs,
         DOMAIN q.meta = DOMAIN p.meta,
         \A w \in DOMAIN p.meta : q.meta[w].parent = p.meta[w].parent,
         q.operation \in {NoOperation, p.operation},
         \A w \in DOMAIN q.anchors : w \in DOMAIN p.anchors /\ q.anchors[w] = p.anchors[w],
         p.sized \subseteq q.sized
  PROVE  Fit(q)
<1>1. Sound(p) /\ p.ws \in Spaces /\ Placed(p.ws) = DOMAIN p.meta
  BY SoundSpace DEF Fit
<1>2. /\ q.ws \in Spaces /\ Placed(q.ws) = Placed(p.ws)
      /\ ToSet(q.ws.outs) = ToSet(p.ws.outs) /\ Len(q.ws.outs) = Len(p.ws.outs)
  BY DEF Changed, Rearranged, Spaces
<1>3. Arranged(q.ws)
  BY <1>2 DEF Spaces, Well
<1>4. DOMAIN q.meta = Placed(q.ws)
  BY <1>1, <1>2
<1>5. Trees(q)
  BY <1>1 DEF Sound, Trees
<1>6. Screens(q)
  <2>1. Len(q.ws.order) = Len(TagList) /\ ToSet(q.ws.order) = Tags
    BY <1>2, OrderLength
  <2>2. q.ws.outs \in Seq(AllOutputs) /\ IsInjective(q.ws.outs)
    BY <1>2, WellParts DEF Spaces
  <2>3. CASE DOMAIN p.outputs = {}
    <3>1. p.ws.outs = <<NoOutput>>
      BY <1>1, <2>3 DEF Sound, Screens
    <3>2. Len(q.ws.outs) = 1 /\ ToSet(q.ws.outs) = {NoOutput}
      BY <1>2, <3>1 DEF ToSet
    <3>3. q.ws.outs = <<NoOutput>>
      <4>1. 1 \in DOMAIN q.ws.outs
        BY <2>2, <3>2
      <4>2. q.ws.outs[1] = NoOutput
        BY <3>2, <4>1 DEF ToSet
      <4>3. QED
        BY <2>2, <3>2, <4>2
    <3>4. QED
      BY <2>1, <2>3, <3>3 DEF Screens
  <2>4. CASE DOMAIN p.outputs # {}
    <3>1. /\ ToSet(p.ws.outs) \subseteq DOMAIN p.outputs
          /\ Len(p.ws.outs) = AtMost(Cardinality(DOMAIN p.outputs), Len(TagList))
      BY <1>1, <2>4 DEF Sound, Screens
    <3>2. QED
      BY <1>2, <2>1, <2>2, <2>4, <3>1 DEF Screens
  <2>5. QED
    BY <2>3, <2>4
<1>7. Sound(q)
  BY <1>3, <1>4, <1>5, <1>6 DEF Sound
<1>8. Ready(q)
  <2>1. Ready(p)
    BY DEF Fit
  <2>2. QED
    BY <1>2, <2>1 DEF Ready
<1>9. QED
  BY <1>7, <1>8 DEF Fit

-----------------------------------------------------------------------------
(* Pointer state that goes away *)

\* q is p with less pointer state.
Aside(p, q) ==
  /\ q.ws = p.ws /\ q.layout = p.layout /\ q.outputs = p.outputs
  /\ q.workAreas = p.workAreas /\ q.locked = p.locked /\ q.meta = p.meta
  /\ q.mode = p.mode /\ q.sized = p.sized
  /\ q.operation \in {NoOperation, p.operation}
  /\ DOMAIN q.anchors \subseteq DOMAIN p.anchors
  /\ \A w \in DOMAIN q.anchors : q.anchors[w] = p.anchors[w]

\* p with other pointer state.
Pointing(op, an, p) == [p EXCEPT !.operation = op, !.anchors = an]

\* Forgetting pointer state keeps a policy fit.
LEMMA PointerForgotten ==
  ASSUME NEW p, Fit(p), NEW op \in {NoOperation, p.operation},
         NEW an, an = [w \in DOMAIN an |-> p.anchors[w]], DOMAIN an \subseteq DOMAIN p.anchors
  PROVE  Fit(Pointing(op, an, p)) /\ Aside(p, Pointing(op, an, p))
<1> DEFINE q == Pointing(op, an, p)
<1>1. IsPolicy(p)
  BY DEF Fit, Sound
<1>2. HasFields(p)
  BY <1>1, PolicyFields
<1>3. /\ HasFields(q)
      /\ q.ws = p.ws /\ q.layout = p.layout /\ q.outputs = p.outputs
      /\ q.workAreas = p.workAreas /\ q.locked = p.locked /\ q.meta = p.meta
      /\ q.mode = p.mode /\ q.operation = op /\ q.sized = p.sized /\ q.anchors = an
  BY <1>2 DEF Pointing, HasFields, FieldNames
<1>4. op \in Operations /\ an \in [DOMAIN an -> Anchors] /\ DOMAIN an \subseteq Windows
  <2>1. /\ p.operation \in Operations
        /\ p.anchors \in [DOMAIN p.anchors -> Anchors] /\ DOMAIN p.anchors \subseteq Windows
    BY <1>1, PolicyFields
  <2>2. \A w \in DOMAIN an : p.anchors[w] \in Anchors
    BY <2>1
  <2>3. QED
    BY <2>1, <2>2 DEF Operations
<1> HIDE DEF q
<1>5. IsPolicy(q)
  <2>1. /\ p.ws \in StackSets(Tags, AllOutputs, Windows)
        /\ p.layout \in [Tags -> LayoutKinds]
        /\ p.outputs \in [DOMAIN p.outputs -> OutputSpans] /\ DOMAIN p.outputs \subseteq Outputs
        /\ p.workAreas \in [DOMAIN p.workAreas -> WorkSpans]
        /\ DOMAIN p.workAreas \subseteq Outputs
        /\ p.locked \in BOOLEAN /\ p.mode \in Modes
        /\ p.meta \in [DOMAIN p.meta -> Metadata] /\ DOMAIN p.meta \subseteq Windows
        /\ p.sized \subseteq Windows
    BY <1>1, PolicyFields
  <2>2. QED
    BY <1>3, <1>4, <2>1, PolicyFromFields
<1>6. Aside(p, q)
  BY <1>3 DEF Aside
<1>7. Changed(p.ws, q.ws)
  <2>1. p.ws \in Spaces
    BY SoundSpace DEF Fit
  <2>2. QED
    BY <1>6, <2>1 DEF Aside, Changed, Rearranged, Spaces
<1>8. Fit(q)
  BY <1>5, <1>6, <1>7, PolicyStaysFit DEF Aside
<1>9. QED
  BY <1>6, <1>8 DEF q

\* Every way in which the code drops pointer state.
LEMMA CancelPointerFit ==
  ASSUME NEW p, Fit(p)
  PROVE  /\ Fit(CancelPointer(p)) /\ Aside(p, CancelPointer(p))
         /\ CancelPointer(p).operation = NoOperation
<1>1. IsPolicy(p)
  BY DEF Fit, Sound
<1>2. HasFields(p)
  BY <1>1, PolicyFields
<1>3. CancelPointer(p) = Pointing(NoOperation, p.anchors, p)
  BY <1>2 DEF CancelPointer, Pointing, HasFields, FieldNames
<1>4. CancelPointer(p).operation = NoOperation
  BY <1>2 DEF CancelPointer, HasFields, FieldNames
<1>5. p.anchors = [w \in DOMAIN p.anchors |-> p.anchors[w]]
  BY <1>1, PolicyFields
<1>6. QED
  BY <1>3, <1>4, <1>5, PointerForgotten

\* Dropping anchors is one of these ways.
LEMMA MaterializeAnchorsFit ==
  ASSUME NEW p, Fit(p), NEW S
  PROVE  /\ Fit(MaterializeAnchors(S, p)) /\ Aside(p, MaterializeAnchors(S, p))
         /\ MaterializeAnchors(S, p).operation = p.operation
         /\ DOMAIN MaterializeAnchors(S, p).anchors = DOMAIN p.anchors \ S
<1> DEFINE an == Without(p.anchors, S)
<1>1. IsPolicy(p)
  BY DEF Fit, Sound
<1>2. HasFields(p)
  BY <1>1, PolicyFields
<1>3. an = [w \in DOMAIN p.anchors \ S |-> p.anchors[w]]
  BY DEF Without, Restrict
<1>4. an = [w \in DOMAIN an |-> p.anchors[w]] /\ DOMAIN an = DOMAIN p.anchors \ S
  BY <1>3
<1>5. MaterializeAnchors(S, p) = [p EXCEPT !.anchors = an]
  BY DEF MaterializeAnchors
<1> HIDE DEF an
<1>6. /\ MaterializeAnchors(S, p) = Pointing(p.operation, an, p)
      /\ MaterializeAnchors(S, p).operation = p.operation
      /\ MaterializeAnchors(S, p).anchors = an
  BY <1>2, <1>5 DEF Pointing, HasFields, FieldNames
<1>7. QED
  BY <1>4, <1>6, PointerForgotten

\* Less of less is less.
LEMMA AsideTransitive ==
  ASSUME NEW p, NEW q, NEW r, Aside(p, q), Aside(q, r)
  PROVE  Aside(p, r)
  BY DEF Aside

\* Nothing less is less.
LEMMA AsideReflexive == ASSUME NEW p PROVE Aside(p, p)
  BY DEF Aside

\* A change of window w ends the operation on it.
LEMMA CancelWindowFit ==
  ASSUME NEW p, Fit(p), NEW w
  PROVE  /\ Fit(CancelWindow(w, p)) /\ Aside(p, CancelWindow(w, p))
         /\ CancelWindow(w, p).operation # NoOperation =>
              p.operation.window # w /\ CancelWindow(w, p).operation = p.operation
<1> DEFINE q == IF p.operation.window = w THEN CancelPointer(p) ELSE p
<1>1. /\ Fit(q) /\ Aside(p, q)
      /\ q.operation # NoOperation => p.operation.window # w /\ q.operation = p.operation
  BY CancelPointerFit, AsideReflexive
<1>2. CancelWindow(w, p) = MaterializeAnchors({w}, q)
  BY DEF CancelWindow
<1> HIDE DEF q
<1>3. QED
  BY <1>1, <1>2, MaterializeAnchorsFit, AsideTransitive

\* A change of output o ends the operation on it.
LEMMA CancelOutputFit ==
  ASSUME NEW p, Fit(p), NEW o
  PROVE  /\ Fit(CancelOutput(o, p)) /\ Aside(p, CancelOutput(o, p))
         /\ CancelOutput(o, p).operation.output # o \/ CancelOutput(o, p).operation = NoOperation
<1> DEFINE q == IF p.operation.output = o THEN CancelPointer(p) ELSE p
           S == {w \in DOMAIN p.anchors : p.anchors[w].output = o}
<1>1. Fit(q) /\ Aside(p, q) /\ (q.operation.output # o \/ q.operation = NoOperation)
  BY CancelPointerFit, AsideReflexive
<1>2. CancelOutput(o, p) = MaterializeAnchors(S, q)
  BY DEF CancelOutput
<1> HIDE DEF q, S
<1>3. QED
  BY <1>1, <1>2, MaterializeAnchorsFit, AsideTransitive

\* A change of the focused geometry ends every operation.
LEMMA FocusedGeometryFit ==
  ASSUME NEW p, Fit(p)
  PROVE  /\ Fit(FocusedGeometry(p)) /\ Aside(p, FocusedGeometry(p))
         /\ FocusedGeometry(p).operation = NoOperation
<1> DEFINE q == CancelPointer(p)
<1>1. Fit(q) /\ Aside(p, q) /\ q.operation = NoOperation
  BY CancelPointerFit
<1>2. FocusedGeometry(p) = MaterializeAnchors({FocusedWindow(p)}, q)
  BY DEF FocusedGeometry
<1> HIDE DEF q
<1>3. QED
  BY <1>1, <1>2, MaterializeAnchorsFit, AsideTransitive

\* Settle only takes pointer state away, and keeps an operation only while it
\* is valid and an anchor only while it is.
LEMMA SettleFit ==
  ASSUME NEW p, Fit(p)
  PROVE  /\ Fit(Settle(p)) /\ Aside(p, Settle(p))
         /\ Settle(p).operation # NoOperation =>
              Settle(p).operation = p.operation /\ OperationValid(p.operation, p)
         /\ DOMAIN Settle(p).anchors = {w \in DOMAIN p.anchors : AnchorValid(w, p)}
<1> DEFINE op == IF OperationValid(p.operation, p) THEN p.operation ELSE NoOperation
           an == Restrict(p.anchors, {w \in DOMAIN p.anchors : AnchorValid(w, p)})
<1>1. IsPolicy(p)
  BY DEF Fit, Sound
<1>2. HasFields(p)
  BY <1>1, PolicyFields
<1>3. /\ an = [w \in DOMAIN an |-> p.anchors[w]]
      /\ DOMAIN an = {w \in DOMAIN p.anchors : AnchorValid(w, p)}
      /\ DOMAIN an \subseteq DOMAIN p.anchors
  BY DEF Restrict
<1>4. Settle(p) = [p EXCEPT !.operation = op, !.anchors = an]
  BY DEF Settle
<1>5. /\ op \in {NoOperation, p.operation}
      /\ op # NoOperation => op = p.operation /\ OperationValid(p.operation, p)
  OBVIOUS
<1> HIDE DEF op, an
<1>6. /\ Settle(p) = Pointing(op, an, p)
      /\ Settle(p).operation = op /\ Settle(p).anchors = an
  BY <1>2, <1>4 DEF Pointing, HasFields, FieldNames
<1>7. QED
  BY <1>3, <1>5, <1>6, PointerForgotten

-----------------------------------------------------------------------------
(* Changes that keep windows and outputs *)

\* PolicyStaysFit for a policy given by its fields.
LEMMA FieldsStayFit ==
  ASSUME NEW p, Fit(p), NEW q, HasFields(q),
         Changed(p.ws, q.ws), q.outputs = p.outputs,
         q.layout \in [Tags -> LayoutKinds],
         q.workAreas \in [DOMAIN q.workAreas -> WorkSpans], DOMAIN q.workAreas \subseteq Outputs,
         q.locked \in BOOLEAN, q.mode \in Modes,
         q.meta \in [DOMAIN p.meta -> Metadata],
         \A w \in DOMAIN p.meta : q.meta[w].parent = p.meta[w].parent,
         q.operation = p.operation, q.anchors = p.anchors,
         q.sized \subseteq Windows, p.sized \subseteq q.sized
  PROVE  Fit(q)
<1>1. IsPolicy(p)
  BY DEF Fit, Sound
<1>2. /\ p.outputs \in [DOMAIN p.outputs -> OutputSpans] /\ DOMAIN p.outputs \subseteq Outputs
      /\ p.operation \in Operations
      /\ p.anchors \in [DOMAIN p.anchors -> Anchors] /\ DOMAIN p.anchors \subseteq Windows
      /\ DOMAIN p.meta \subseteq Windows
  BY <1>1, PolicyFields
<1>3. q.ws \in StackSets(Tags, AllOutputs, Windows)
  BY DEF Changed, Rearranged, Well
<1>4. IsPolicy(q)
  BY <1>2, <1>3, PolicyFromFields
<1>5. QED
  BY <1>4, PolicyStaysFit

\* A stack set is rearranged when nothing is done to it.
LEMMA Unchanged ==
  ASSUME NEW p, Fit(p)
  PROVE  p.ws \in Spaces /\ Changed(p.ws, p.ws)
<1>1. p.ws \in Spaces
  BY SoundSpace DEF Fit
<1>2. QED
  BY <1>1 DEF Changed, Rearranged, Spaces

\* p with another stack set.
WithSpace(s, p) == [p EXCEPT !.ws = s]

\* A rearranged stack set keeps a policy fit.
LEMMA WithSpaceFit ==
  ASSUME NEW p, Fit(p), NEW s, Changed(p.ws, s)
  PROVE  /\ Fit(WithSpace(s, p))
         /\ WithSpace(s, p).ws = s
         /\ WithSpace(s, p).locked = p.locked /\ WithSpace(s, p).mode = p.mode
         /\ WithSpace(s, p).outputs = p.outputs /\ WithSpace(s, p).meta = p.meta
<1> DEFINE q == WithSpace(s, p)
<1>1. IsPolicy(p)
  BY DEF Fit, Sound
<1>2. /\ HasFields(p)
      /\ p.layout \in [Tags -> LayoutKinds]
      /\ p.workAreas \in [DOMAIN p.workAreas -> WorkSpans]
      /\ DOMAIN p.workAreas \subseteq Outputs
      /\ p.locked \in BOOLEAN /\ p.mode \in Modes
      /\ p.meta \in [DOMAIN p.meta -> Metadata]
      /\ p.sized \subseteq Windows
  BY <1>1, PolicyFields
<1>3. /\ HasFields(q)
      /\ q.ws = s /\ q.layout = p.layout /\ q.outputs = p.outputs
      /\ q.workAreas = p.workAreas /\ q.locked = p.locked /\ q.meta = p.meta
      /\ q.mode = p.mode /\ q.operation = p.operation /\ q.sized = p.sized
      /\ q.anchors = p.anchors
  BY <1>2 DEF WithSpace, HasFields, FieldNames
<1> HIDE DEF q
<1>4. Fit(q)
  BY <1>2, <1>3, FieldsStayFit
<1>5. QED
  BY <1>3, <1>4 DEF q

\* Metadata that keep their window's parent.
LEMMA AlterMetadataFit ==
  ASSUME NEW p, Fit(p), NEW w, NEW m,
         m \in Metadata /\ m.parent = MetadataFor(p, w).parent
  PROVE  /\ Fit(AlterMetadata(w, m, p))
         /\ AlterMetadata(w, m, p).ws = p.ws
         /\ AlterMetadata(w, m, p).locked = p.locked /\ AlterMetadata(w, m, p).mode = p.mode
         /\ AlterMetadata(w, m, p).outputs = p.outputs
<1>1. CASE w \notin DOMAIN p.meta
  BY <1>1 DEF AlterMetadata
<1>2. CASE w \in DOMAIN p.meta
  <2> DEFINE q == AlterMetadata(w, m, p)
             f == [p.meta EXCEPT ![w] = m]
  <2>1. IsPolicy(p)
    BY DEF Fit, Sound
  <2>2. /\ HasFields(p)
        /\ p.layout \in [Tags -> LayoutKinds]
        /\ p.workAreas \in [DOMAIN p.workAreas -> WorkSpans]
        /\ DOMAIN p.workAreas \subseteq Outputs
        /\ p.locked \in BOOLEAN /\ p.mode \in Modes
        /\ p.sized \subseteq Windows
    BY <2>1, PolicyFields
  <2>3. p.meta \in [DOMAIN p.meta -> Metadata]
    BY <2>1, PolicyFields
  <2>4. /\ f \in [DOMAIN p.meta -> Metadata]
        /\ \A x \in DOMAIN p.meta : f[x].parent = p.meta[x].parent
    BY <1>2, <2>3 DEF MetadataFor
  <2>5. q = [p EXCEPT !.meta = f]
    BY <1>2 DEF AlterMetadata
  <2> HIDE DEF f, q
  <2>6. /\ HasFields(q)
        /\ q.ws = p.ws /\ q.layout = p.layout /\ q.outputs = p.outputs
        /\ q.workAreas = p.workAreas /\ q.locked = p.locked /\ q.meta = f
        /\ q.mode = p.mode /\ q.operation = p.operation /\ q.sized = p.sized
        /\ q.anchors = p.anchors
    BY <2>2, <2>5 DEF HasFields, FieldNames
  <2>7. Fit(q)
    BY <2>2, <2>4, <2>6, FieldsStayFit, Unchanged
  <2>8. QED
    BY <2>6, <2>7 DEF q
<1>3. QED
  BY <1>1, <1>2

\* A lock and a mode; a work area, a size and a layout.
LEMMA ModesFit ==
  ASSUME NEW p, Fit(p), NEW q, HasFields(q),
         q.ws = p.ws, q.outputs = p.outputs, q.meta = p.meta, q.operation = p.operation,
         q.anchors = p.anchors,
         q.layout \in [Tags -> LayoutKinds],
         q.workAreas \in [DOMAIN q.workAreas -> WorkSpans], DOMAIN q.workAreas \subseteq Outputs,
         q.locked \in BOOLEAN, q.mode \in Modes,
         q.sized \subseteq Windows, p.sized \subseteq q.sized
  PROVE  Fit(q)
<1>1. IsPolicy(p)
  BY DEF Fit, Sound
<1>2. p.meta \in [DOMAIN p.meta -> Metadata]
  BY <1>1, PolicyFields
<1>3. QED
  BY <1>2, FieldsStayFit, Unchanged

\* What every policy has.
LEMMA FitFields ==
  ASSUME NEW p, Fit(p)
  PROVE  /\ HasFields(p)
         /\ p.ws \in Spaces
         /\ p.layout \in [Tags -> LayoutKinds]
         /\ p.outputs \in [DOMAIN p.outputs -> OutputSpans] /\ DOMAIN p.outputs \subseteq Outputs
         /\ p.workAreas \in [DOMAIN p.workAreas -> WorkSpans]
         /\ DOMAIN p.workAreas \subseteq Outputs
         /\ p.locked \in BOOLEAN /\ p.mode \in Modes
         /\ p.meta \in [DOMAIN p.meta -> Metadata] /\ DOMAIN p.meta \subseteq Windows
         /\ p.operation \in Operations
         /\ p.sized \subseteq Windows
         /\ p.anchors \in [DOMAIN p.anchors -> Anchors] /\ DOMAIN p.anchors \subseteq Windows
<1>1. IsPolicy(p)
  BY DEF Fit, Sound
<1>2. p.ws \in Spaces
  BY Unchanged
<1>3. QED
  BY <1>1, <1>2, PolicyFields

\* So does another mode,
LEMMA WithModeFit ==
  ASSUME NEW p, Fit(p), NEW mode \in Modes
  PROVE  LET q == [p EXCEPT !.mode = mode]
         IN  /\ Fit(q) /\ q.mode = mode /\ q.locked = p.locked /\ q.ws = p.ws
             /\ q.outputs = p.outputs /\ q.meta = p.meta
<1> DEFINE q == [p EXCEPT !.mode = mode]
<1>1. /\ HasFields(q)
      /\ q.ws = p.ws /\ q.layout = p.layout /\ q.outputs = p.outputs
      /\ q.workAreas = p.workAreas /\ q.locked = p.locked /\ q.meta = p.meta
      /\ q.mode = mode /\ q.operation = p.operation /\ q.sized = p.sized
      /\ q.anchors = p.anchors
  <2>1. HasFields(p)
    BY FitFields
  <2>2. QED
    BY <2>1 DEF HasFields, FieldNames
<1> HIDE DEF q
<1>2. Fit(q)
  BY <1>1, FitFields, ModesFit
<1>3. QED
  BY <1>1, <1>2 DEF q

\* the session lock,
LEMMA WithLockFit ==
  ASSUME NEW p, Fit(p), NEW locked \in BOOLEAN
  PROVE  LET q == [p EXCEPT !.locked = locked]
         IN  /\ Fit(q) /\ q.mode = p.mode /\ q.locked = locked /\ q.ws = p.ws
             /\ q.outputs = p.outputs /\ q.meta = p.meta
<1> DEFINE q == [p EXCEPT !.locked = locked]
<1>1. /\ HasFields(q)
      /\ q.ws = p.ws /\ q.layout = p.layout /\ q.outputs = p.outputs
      /\ q.workAreas = p.workAreas /\ q.locked = locked /\ q.meta = p.meta
      /\ q.mode = p.mode /\ q.operation = p.operation /\ q.sized = p.sized
      /\ q.anchors = p.anchors
  <2>1. HasFields(p)
    BY FitFields
  <2>2. QED
    BY <2>1 DEF HasFields, FieldNames
<1> HIDE DEF q
<1>2. Fit(q)
  BY <1>1, FitFields, ModesFit
<1>3. QED
  BY <1>1, <1>2 DEF q

\* another workspace's layout,
LEMMA WithLayoutFit ==
  ASSUME NEW p, Fit(p), NEW k \in LayoutKinds, NEW t
  PROVE  LET q == [p EXCEPT !.layout[t] = k]
         IN  Fit(q) /\ q.mode = p.mode /\ q.locked = p.locked /\ q.ws = p.ws
             /\ q.outputs = p.outputs /\ q.meta = p.meta
<1> DEFINE f == [p.layout EXCEPT ![t] = k]
           q == [p EXCEPT !.layout[t] = k]
<1>1. q = [p EXCEPT !.layout = f]
  OBVIOUS
<1>2. f \in [Tags -> LayoutKinds]
  BY FitFields
<1> HIDE DEF f, q
<1>3. /\ HasFields(q)
      /\ q.ws = p.ws /\ q.layout = f /\ q.outputs = p.outputs
      /\ q.workAreas = p.workAreas /\ q.locked = p.locked /\ q.meta = p.meta
      /\ q.mode = p.mode /\ q.operation = p.operation /\ q.sized = p.sized
      /\ q.anchors = p.anchors
  <2>1. HasFields(p)
    BY FitFields
  <2>2. QED
    BY <1>1, <2>1 DEF HasFields, FieldNames
<1>4. Fit(q)
  BY <1>2, <1>3, FitFields, ModesFit
<1>5. QED
  BY <1>3, <1>4 DEF q

\* other work areas,
LEMMA WithAreasFit ==
  ASSUME NEW p, Fit(p), NEW f, f \in [DOMAIN f -> WorkSpans], DOMAIN f \subseteq Outputs
  PROVE  LET q == [p EXCEPT !.workAreas = f]
         IN  /\ Fit(q) /\ q.mode = p.mode /\ q.locked = p.locked /\ q.ws = p.ws
             /\ q.outputs = p.outputs /\ q.meta = p.meta
             /\ q.operation = p.operation /\ q.anchors = p.anchors
<1> DEFINE q == [p EXCEPT !.workAreas = f]
<1>1. /\ HasFields(q)
      /\ q.ws = p.ws /\ q.layout = p.layout /\ q.outputs = p.outputs
      /\ q.workAreas = f /\ q.locked = p.locked /\ q.meta = p.meta
      /\ q.mode = p.mode /\ q.operation = p.operation /\ q.sized = p.sized
      /\ q.anchors = p.anchors
  <2>1. HasFields(p)
    BY FitFields
  <2>2. QED
    BY <2>1 DEF HasFields, FieldNames
<1> HIDE DEF q
<1>2. Fit(q)
  BY <1>1, FitFields, ModesFit
<1>3. QED
  BY <1>1, <1>2 DEF q

\* and the size of one more window.
LEMMA WithSizeFit ==
  ASSUME NEW p, Fit(p), NEW w \in Windows
  PROVE  LET q == [p EXCEPT !.sized = @ \cup {w}]
         IN  /\ Fit(q) /\ q.mode = p.mode /\ q.locked = p.locked /\ q.ws = p.ws
             /\ q.outputs = p.outputs /\ q.meta = p.meta
<1> DEFINE q == [p EXCEPT !.sized = @ \cup {w}]
<1>1. /\ HasFields(q)
      /\ q.ws = p.ws /\ q.layout = p.layout /\ q.outputs = p.outputs
      /\ q.workAreas = p.workAreas /\ q.locked = p.locked /\ q.meta = p.meta
      /\ q.mode = p.mode /\ q.operation = p.operation /\ q.sized = p.sized \cup {w}
      /\ q.anchors = p.anchors
  <2>1. HasFields(p)
    BY FitFields
  <2>2. QED
    BY <2>1 DEF HasFields, FieldNames
<1> HIDE DEF q
<1>2. q.sized \subseteq Windows /\ p.sized \subseteq q.sized
  BY <1>1, FitFields
<1>3. Fit(q)
  BY <1>1, <1>2, FitFields, ModesFit
<1>4. QED
  BY <1>1, <1>3 DEF q

-----------------------------------------------------------------------------
(* What is shown *)

\* What is shown does not depend on pointer state.
LEMMA AsideShows ==
  ASSUME NEW p, NEW q, Aside(p, q)
  PROVE  /\ \A i : ShownOn(i, q) = ShownOn(i, p)
         /\ VisibleWindows(q) = VisibleWindows(p)
         /\ FocusedWindow(q) = FocusedWindow(p) /\ FocusedOutput(q) = FocusedOutput(p)
<1>1. q.ws = p.ws /\ q.layout = p.layout /\ q.outputs = p.outputs
      /\ q.meta = p.meta /\ q.locked = p.locked
  BY DEF Aside
<1>2. \A w : MetadataFor(q, w) = MetadataFor(p, w)
  BY <1>1 DEF MetadataFor
<1>3. \A i : ScreenStack(i, q) = ScreenStack(i, p)
  BY <1>1 DEF ScreenStack
<1>4. \A i : FullscreenScreen(i, q) = FullscreenScreen(i, p)
  BY <1>2, <1>3 DEF FullscreenScreen
<1>5. \A st : Tiled(q, st) = Tiled(p, st)
  BY <1>2 DEF Tiled
<1>6. ASSUME NEW i PROVE ShownOn(i, q) = ShownOn(i, p)
  <2> DEFINE st == ScreenStack(i, p)
             tiles == Tiled(p, st)
             floats == {w \in ToSet(st.list) : MetadataFor(p, w).floating}
  <2>1. {w \in ToSet(st.list) : MetadataFor(q, w).floating} = floats
    BY <1>2
  <2>2. ScreenStack(i, q) = st /\ Tiled(q, st) = tiles
        /\ FullscreenScreen(i, q) = FullscreenScreen(i, p)
    BY <1>3, <1>4, <1>5
  <2>3. ShownOn(i, p) = IF FullscreenScreen(i, p) THEN {st.list[st.pos]}
                        ELSE floats \cup
                             (IF tiles # NoStack /\ SingleTile(p.layout[p.ws.order[i]])
                              THEN {tiles.list[tiles.pos]} ELSE ToSet(tiles.list))
    BY DEF ShownOn
  <2> HIDE DEF floats, tiles, st
  <2>4. ShownOn(i, q) = IF FullscreenScreen(i, p) THEN {st.list[st.pos]}
                        ELSE floats \cup
                             (IF tiles # NoStack /\ SingleTile(p.layout[p.ws.order[i]])
                              THEN {tiles.list[tiles.pos]} ELSE ToSet(tiles.list))
    BY <1>1, <2>1, <2>2 DEF ShownOn
  <2>5. QED
    BY <2>3, <2>4
<1>7. QED
  BY <1>1, <1>6 DEF VisibleWindows, FocusedWindow, FocusedOutput

\* Screen i has a workspace of its own.
LEMMA ScreenSpace ==
  ASSUME NEW p, Fit(p), NEW i \in DOMAIN p.ws.outs
  PROVE  /\ p.ws.order[i] \in Tags
         /\ p.ws.stack[p.ws.order[i]] \in Stacks(Windows)
         /\ StackArranged(p.ws.stack[p.ws.order[i]])
         /\ p.ws.outs[i] \in AllOutputs
<1>1. p.ws \in Spaces
  BY Unchanged
<1>2. /\ p.ws.order \in Seq(Tags) /\ p.ws.outs \in Seq(AllOutputs)
      /\ DOMAIN p.ws.order = 1 .. Len(p.ws.order)
      /\ DOMAIN p.ws.outs = 1 .. Len(p.ws.outs)
      /\ Len(p.ws.outs) \in 1 .. Len(p.ws.order) /\ Len(p.ws.order) \in Nat
  BY <1>1, WellParts DEF Spaces
<1>3. p.ws.order[i] \in Tags /\ p.ws.outs[i] \in AllOutputs
  BY <1>2
<1>4. QED
  BY <1>1, <1>3, WellParts DEF Spaces

\* A screen shows windows of its workspace, and only of a connected output.
LEMMA ShownBelong ==
  ASSUME NEW p, Fit(p), NEW i \in DOMAIN p.ws.outs, NEW w \in ShownOn(i, p)
  PROVE  /\ p.ws.outs[i] \in DOMAIN p.outputs
         /\ w \in ToSet(p.ws.stack[p.ws.order[i]].list)
<1> DEFINE st == ScreenStack(i, p)
           tiles == Tiled(p, st)
           K == {x \in ToSet(st.list) : ~MetadataFor(p, x).floating}
<1>1. NoStack \in Stacks(Windows) /\ StackArranged(NoStack)
  BY DEF NoStack, Stacks, StackArranged, IsInjective
<1>2. st \in Stacks(Windows) /\ StackArranged(st)
  BY <1>1, ScreenSpace DEF ScreenStack
<1>3. tiles = FilterStack(K, st)
  BY DEF Tiled
<1> HIDE DEF st
<1>4. /\ tiles \in Stacks(Windows) /\ StackArranged(tiles)
      /\ ToSet(tiles.list) = ToSet(st.list) \cap K
  <2> HIDE DEF K, tiles
  <2>1. QED
    BY <1>2, <1>3, FilterArranges
<1>5. tiles # NoStack => tiles.list[tiles.pos] \in ToSet(tiles.list)
  <2> HIDE DEF tiles
  <2>1. QED
    BY <1>4, EmptyStack
<1>6. FullscreenScreen(i, p) => st.list[st.pos] \in ToSet(st.list)
  <2>1. FullscreenScreen(i, p) => st # NoStack
    BY DEF FullscreenScreen, st
  <2>2. QED
    BY <1>2, <2>1, EmptyStack
<1>7. ShownOn(i, p) = IF FullscreenScreen(i, p) THEN {st.list[st.pos]}
                      ELSE {x \in ToSet(st.list) : MetadataFor(p, x).floating} \cup
                           (IF tiles # NoStack /\ SingleTile(p.layout[p.ws.order[i]])
                            THEN {tiles.list[tiles.pos]} ELSE ToSet(tiles.list))
  BY DEF ShownOn, st
<1> HIDE DEF tiles
<1>8. w \in ToSet(st.list)
  BY <1>4, <1>5, <1>6, <1>7
<1>9. ToSet(NoStack.list) = {}
  BY DEF NoStack, ToSet
<1>10. QED
  BY <1>8, <1>9 DEF st, ScreenStack

\* A visible window is on one screen.
LEMMA VisibleOnScreen ==
  ASSUME NEW p, Fit(p), NEW w \in VisibleWindows(p)
  PROVE  /\ ScreenOf(w, p) \in DOMAIN p.ws.outs
         /\ w \in ShownOn(ScreenOf(w, p), p)
         /\ \A i \in DOMAIN p.ws.outs : w \in ShownOn(i, p) => i = ScreenOf(w, p)
         /\ w \in Placed(p.ws)
<1>1. \E i \in DOMAIN p.ws.outs : w \in ShownOn(i, p)
  BY DEF VisibleWindows
<1>2. ScreenOf(w, p) \in DOMAIN p.ws.outs /\ w \in ShownOn(ScreenOf(w, p), p)
  BY <1>1 DEF ScreenOf
<1>3. p.ws \in Spaces
  BY Unchanged
<1>4. \A i, j \in DOMAIN p.ws.outs : w \in ShownOn(i, p) /\ w \in ShownOn(j, p) => i = j
  <2>1. SUFFICES ASSUME NEW i \in DOMAIN p.ws.outs, NEW j \in DOMAIN p.ws.outs,
                        w \in ShownOn(i, p), w \in ShownOn(j, p)
                 PROVE  i = j
    OBVIOUS
  <2>2. /\ w \in ToSet(p.ws.stack[p.ws.order[i]].list)
        /\ w \in ToSet(p.ws.stack[p.ws.order[j]].list)
        /\ p.ws.order[i] \in Tags /\ p.ws.order[j] \in Tags
    BY <2>1, ShownBelong, ScreenSpace
  <2>3. \A t, u \in Tags : t # u =>
          ToSet(p.ws.stack[t].list) \cap ToSet(p.ws.stack[u].list) = {}
    BY <1>3, WellParts DEF Spaces
  <2>4. p.ws.order[i] = p.ws.order[j]
    BY <2>2, <2>3
  <2>5. i \in DOMAIN p.ws.order /\ j \in DOMAIN p.ws.order /\ IsInjective(p.ws.order)
    <3>1. /\ DOMAIN p.ws.order = 1 .. Len(p.ws.order)
          /\ DOMAIN p.ws.outs = 1 .. Len(p.ws.outs)
          /\ Len(p.ws.outs) \in 1 .. Len(p.ws.order) /\ Len(p.ws.order) \in Nat
          /\ IsInjective(p.ws.order)
      BY <1>3, WellParts DEF Spaces
    <3>2. QED
      BY <3>1
  <2>6. QED
    BY <2>4, <2>5 DEF IsInjective
<1>5. w \in Placed(p.ws)
  <2>1. /\ w \in ToSet(p.ws.stack[p.ws.order[ScreenOf(w, p)]].list)
        /\ p.ws.order[ScreenOf(w, p)] \in Tags
    BY <1>2, ShownBelong, ScreenSpace
  <2>2. QED
    BY <1>3, <2>1, PlacedWindows DEF Spaces
<1>6. QED
  BY <1>2, <1>4, <1>5

\* The first screen shows the focused window, on a connected output.
LEMMA FocusShown ==
  ASSUME NEW p, Fit(p), DOMAIN p.outputs # {}, Peek(p.ws) # NoWindow
  PROVE  /\ Peek(p.ws) \in ShownOn(1, p)
         /\ FocusedOutput(p) \in DOMAIN p.outputs
         /\ 1 \in DOMAIN p.ws.outs
<1> DEFINE st == Current(p.ws)
           w == Peek(p.ws)
           K == {x \in ToSet(st.list) : ~MetadataFor(p, x).floating}
           tiles == FilterStack(K, st)
<1>1. p.ws \in Spaces
  BY Unchanged
<1>2. 1 \in DOMAIN p.ws.outs
  <2>1. DOMAIN p.ws.outs = 1 .. Len(p.ws.outs) /\ Len(p.ws.outs) \in 1 .. Len(p.ws.order)
    BY <1>1, WellParts DEF Spaces
  <2>2. QED
    BY <2>1
<1>3. FocusedOutput(p) \in DOMAIN p.outputs
  <2>1. ToSet(p.ws.outs) \subseteq DOMAIN p.outputs
    BY DEF Fit, Sound, Screens
  <2>2. QED
    BY <1>2, <2>1 DEF FocusedOutput, ToSet
<1>4. ScreenStack(1, p) = st
  BY <1>3 DEF ScreenStack, FocusedOutput, Current, CurrentTag
<1>5. st \in Stacks(Windows) /\ StackArranged(st)
  BY <1>2, ScreenSpace DEF Current, CurrentTag
<1>6. st # NoStack /\ w = st.list[st.pos]
  BY DEF Peek, NoWindow
<1> HIDE DEF st, w
<1>7. w \in ToSet(st.list)
  BY <1>5, <1>6, EmptyStack
<1>8. ShownOn(1, p) = IF FullscreenScreen(1, p) THEN {st.list[st.pos]}
                      ELSE {x \in ToSet(st.list) : MetadataFor(p, x).floating} \cup
                           (IF tiles # NoStack /\ SingleTile(p.layout[p.ws.order[1]])
                            THEN {tiles.list[tiles.pos]} ELSE ToSet(tiles.list))
  BY <1>4 DEF ShownOn, Tiled
<1>9. w \in K => tiles # NoStack /\ tiles.list[tiles.pos] = w
  <2> HIDE DEF K
  <2>1. st.list[st.pos] \in K => tiles # NoStack /\ tiles.list[tiles.pos] = st.list[st.pos]
    BY <1>5, <1>6, FilterArranges
  <2>2. QED
    BY <1>6, <2>1
<1>10. w \in K => tiles.list[tiles.pos] \in ToSet(tiles.list)
  <2> HIDE DEF K
  <2>1. tiles \in Stacks(Windows) /\ StackArranged(tiles)
    BY <1>5, FilterArranges
  <2> HIDE DEF tiles
  <2>2. QED
    BY <1>9, <2>1, EmptyStack
<1> HIDE DEF tiles
<1>11. w \in ShownOn(1, p)
  BY <1>6, <1>7, <1>8, <1>9, <1>10
<1>12. QED
  BY <1>2, <1>3, <1>11 DEF w

\* A work area is cut to its output, whatever the panel asked for, and is
\* never empty.
THEOREM ClipAreaInside ==
  ASSUME NEW out \in [at : Int, size : Nat \ {0}], NEW want \in [at : Int, size : Int]
  PROVE  LET area == ClipArea(out, want)
         IN  /\ area \in [at : Int, size : Nat \ {0}]
             /\ out.at <= area.at
             /\ area.at + area.size <= out.at + out.size
<1>1. out.at \in Int /\ out.size \in Nat \ {0} /\ want.at \in Int /\ want.size \in Int
  OBVIOUS
<1>2. QED
  BY <1>1 DEF ClipArea, AtMost

\* The anchor of a visible window has its type.
LEMMA AnchorNowType ==
  ASSUME NEW p, Fit(p), NEW w \in VisibleWindows(p)
  PROVE  AnchorNow(w, p) \in Anchors
<1> DEFINE i == ScreenOf(w, p)
           o == p.ws.outs[i]
<1>1. i \in DOMAIN p.ws.outs /\ w \in ShownOn(i, p)
  BY VisibleOnScreen
<1>2. o \in DOMAIN p.outputs /\ p.ws.order[i] \in Tags
  BY <1>1, ShownBelong, ScreenSpace
<1>3. /\ p.outputs \in [DOMAIN p.outputs -> OutputSpans] /\ DOMAIN p.outputs \subseteq Outputs
      /\ p.workAreas \in [DOMAIN p.workAreas -> WorkSpans]
  BY FitFields
<1> HIDE DEF i, o
<1>4. p.outputs[o] \in OutputSpans /\ o \in Outputs
  BY <1>2, <1>3
<1>5. p.outputs[o] \in [at : Int, size : Nat \ {0}]
  BY <1>4, PolicyAssumption
<1>6. AreaFor(o, p) \in [at : Int, size : Int]
  <2>1. CASE o \in DOMAIN p.workAreas
    <3>1. p.workAreas[o] \in [at : Int, size : Int]
      BY <1>3, <2>1, PolicyAssumption
    <3>2. ClipArea(p.outputs[o], p.workAreas[o]) \in [at : Int, size : Nat \ {0}]
      BY <1>5, <3>1, ClipAreaInside
    <3>3. AreaFor(o, p) = ClipArea(p.outputs[o], p.workAreas[o])
      BY <2>1 DEF AreaFor
    <3> HIDE DEF o
    <3>4. QED
      BY <3>2, <3>3
  <2>2. CASE o \notin DOMAIN p.workAreas
    BY <1>5, <2>2 DEF AreaFor
  <2>3. QED
    BY <2>1, <2>2
<1>7. AnchorNow(w, p) = [output |-> o, span |-> p.outputs[o], area |-> AreaFor(o, p),
                         tag |-> p.ws.order[i]]
  BY DEF AnchorNow, i, o
<1>8. QED
  BY <1>2, <1>4, <1>6, <1>7 DEF Anchors

-----------------------------------------------------------------------------
(* One event *)

\* The invariant makes the policy fit.
LEMMA InvFit ==
  ASSUME PolicyInv
  PROVE  /\ Fit(policy)
         /\ overlay \in Seq(Labels)
         /\ policy.mode = "picker" <=> overlay # <<>>
         /\ policy.locked => policy.mode = "normal"
<1>1. Sound(policy)
  BY DEF PolicyInv, TypeOK, Sound, Trees, Screens, FamiliesAreTrees, ScreensFollowOutputs
<1>2. Ready(policy)
  BY DEF PolicyInv, OperationOnFocusedFloat, Ready
<1>3. QED
  BY <1>1, <1>2 DEF Fit, PolicyInv, TypeOK, OverlayOnlyWhilePicking

\* Settle leaves an operation only on the focused window, floating and shown.
LEMMA SettledOperation ==
  ASSUME NEW p, Fit(p), Settle(p).operation # NoOperation
  PROVE  LET q == Settle(p)
             w == q.operation.window
         IN  /\ w = FocusedWindow(q)
             /\ w \in ShownOn(1, q) \cap q.sized
             /\ q.meta[w].floating /\ ~q.meta[w].fullscreen
             /\ q.operation.output = FocusedOutput(q)
             /\ w \in DOMAIN q.anchors /\ q.anchors[w].output = q.operation.output
             /\ q.operation.hints = q.meta[w].hints
             /\ ~q.locked
<1> DEFINE q == Settle(p)
           op == p.operation
           w == op.window
<1>1. /\ Fit(q) /\ Aside(p, q) /\ q.operation = op /\ OperationValid(op, p)
      /\ DOMAIN q.anchors = {x \in DOMAIN p.anchors : AnchorValid(x, p)}
  BY SettleFit
<1> HIDE DEF q
<1>2. /\ op # NoOperation /\ ~p.locked /\ FocusedWindow(p) = w /\ AnchorValid(w, p)
      /\ MetadataFor(p, w).hints = op.hints
  BY <1>1 DEF OperationValid
<1>3. /\ w \in DOMAIN p.anchors /\ w \in VisibleWindows(p)
      /\ MetadataFor(p, w).floating /\ ~MetadataFor(p, w).fullscreen
      /\ p.anchors[w] = AnchorNow(w, p)
  BY <1>2 DEF AnchorValid, PlacedFloating
<1>4. w \in Windows
  BY <1>2, FitFields DEF Operations
<1>5. w # NoWindow
  BY <1>4, PolicyAssumption DEF NoWindow
<1>6. DOMAIN p.outputs # {} /\ Peek(p.ws) = w
  BY <1>2, <1>5 DEF FocusedWindow
<1>7. w \in ShownOn(1, p) /\ 1 \in DOMAIN p.ws.outs
  BY <1>5, <1>6, FocusShown
<1>8. ScreenOf(w, p) = 1 /\ w \in Placed(p.ws)
  BY <1>3, <1>7, VisibleOnScreen
<1>9. p.anchors[w].output = FocusedOutput(p)
  BY <1>3, <1>8 DEF AnchorNow, FocusedOutput
<1>10. w \in DOMAIN p.meta
  BY <1>8 DEF Fit, Sound
<1>11. w \in DOMAIN q.anchors /\ q.anchors[w] = p.anchors[w]
  BY <1>1, <1>2, <1>3 DEF Aside
<1>12. w \in q.sized /\ q.anchors[w].output = op.output
  <2>1. w \in Placed(q.ws)
    BY <1>1, <1>8 DEF Aside
  <2>2. QED
    BY <1>1, <1>2, <1>11, <2>1 DEF Fit, Ready
<1>13. /\ ShownOn(1, q) = ShownOn(1, p) /\ FocusedWindow(q) = FocusedWindow(p)
       /\ FocusedOutput(q) = FocusedOutput(p) /\ q.meta = p.meta /\ q.locked = p.locked
  BY <1>1, AsideShows DEF Aside
<1>14. MetadataFor(p, w) = q.meta[w]
  BY <1>10, <1>13 DEF MetadataFor
<1>15. /\ q.operation = op
       /\ w = FocusedWindow(q)
       /\ w \in ShownOn(1, q) \cap q.sized
       /\ q.meta[w].floating /\ ~q.meta[w].fullscreen
       /\ op.output = FocusedOutput(q)
       /\ w \in DOMAIN q.anchors /\ q.anchors[w].output = op.output
       /\ op.hints = q.meta[w].hints
       /\ ~q.locked
  BY <1>1, <1>2, <1>3, <1>7, <1>9, <1>11, <1>12, <1>13, <1>14
<1> HIDE DEF op
<1>16. QED
  BY <1>15 DEF q

\* An effect that is not about the picker.
Plain(result) == result = <<>> \/ result[1].kind \notin {"ShowPicker", "HidePicker"}

\* The picker's overlay comes with its mode and goes with it.
Announced(next, result) ==
  \/ Plain(result) /\ (next.mode = "picker" <=> policy.mode = "picker")
  \/ result = <<HidePicker>> /\ next.mode # "picker"
  \/ /\ next.mode = "picker"
     /\ \E choices \in Seq(Labels) : choices # <<>> /\ result = <<ShowPicker(choices)>>

\* An event that prepares a fit policy keeps the invariant.
LEMMA RespondKeeps ==
  ASSUME PolicyInv, NEW next, NEW result, Respond(next, result), Fit(next),
         next.locked => next.mode = "normal", Announced(next, result)
  PROVE  PolicyInv'
<1>1. policy' = Settle(next)
  BY DEF Respond
<1>2. Fit(policy') /\ Aside(next, policy')
  BY <1>1, SettleFit
<1>3. policy'.mode = next.mode /\ policy'.locked = next.locked
  BY <1>2 DEF Aside
<1>4. /\ overlay' \in Seq(Labels)
      /\ policy'.mode = "picker" <=> overlay' # <<>>
  <2>1. overlay \in Seq(Labels) /\ (policy.mode = "picker" <=> overlay # <<>>)
    BY InvFit
  <2>2. overlay' = IF result = <<>> THEN overlay
                   ELSE CASE result[1].kind = "ShowPicker" -> result[1].labels
                          [] result[1].kind = "HidePicker" -> <<>>
                          [] OTHER -> overlay
    BY DEF Respond
  <2>3. CASE Plain(result) /\ (next.mode = "picker" <=> policy.mode = "picker")
    <3>1. overlay' = overlay
      BY <2>2, <2>3 DEF Plain
    <3>2. QED
      BY <1>3, <2>1, <2>3, <3>1
  <2>4. CASE result = <<HidePicker>> /\ next.mode # "picker"
    <3>1. overlay' = <<>>
      BY <2>2, <2>4 DEF HidePicker
    <3>2. QED
      BY <1>3, <2>4, <3>1
  <2>5. CASE /\ next.mode = "picker"
             /\ \E choices \in Seq(Labels) : choices # <<>> /\ result = <<ShowPicker(choices)>>
    <3>1. PICK choices \in Seq(Labels) : choices # <<>> /\ result = <<ShowPicker(choices)>>
      BY <2>5
    <3>2. overlay' = choices
      BY <2>2, <3>1 DEF ShowPicker
    <3>3. QED
      BY <1>3, <2>5, <3>1, <3>2
  <2>6. QED
    BY <2>3, <2>4, <2>5 DEF Announced
<1>5. TypeOK'
  BY <1>2, <1>4 DEF TypeOK, Fit, Sound
<1>6. /\ Arranged(policy'.ws) /\ DOMAIN policy'.meta = Placed(policy'.ws)
      /\ FamiliesAreTrees' /\ ScreensFollowOutputs'
  BY <1>2 DEF Fit, Sound, Trees, Screens, FamiliesAreTrees, ScreensFollowOutputs
<1>7. policy'.operation # NoOperation =>
        LET w == policy'.operation.window
        IN  /\ w = FocusedWindow(policy')
            /\ w \in ShownOn(1, policy') \cap policy'.sized
            /\ policy'.meta[w].floating /\ ~policy'.meta[w].fullscreen
            /\ policy'.operation.output = FocusedOutput(policy')
            /\ w \in DOMAIN policy'.anchors
            /\ policy'.anchors[w].output = policy'.operation.output
            /\ policy'.operation.hints = policy'.meta[w].hints
            /\ ~policy'.locked
  BY <1>1, SettledOperation
<1>8. OperationOnFocusedFloat'
  BY <1>7 DEF OperationOnFocusedFloat
<1>9. OverlayOnlyWhilePicking'
  BY <1>3, <1>4, <1>7 DEF OverlayOnlyWhilePicking
<1>10. QED
  BY <1>5, <1>6, <1>8, <1>9 DEF PolicyInv

\* A user action, which a locked session or an open picker swallows.
LEMMA PerformKeeps ==
  ASSUME PolicyInv, NEW p, NEW next, NEW result, Perform(p, next, result),
         Fit(p), p.locked = policy.locked, p.mode = policy.mode,
         ~p.locked /\ p.mode # "picker" =>
           Fit(next) /\ ~next.locked /\ next.mode # "picker" /\ Plain(result)
  PROVE  PolicyInv'
<1>1. CASE p.locked \/ p.mode = "picker"
  <2>1. Respond(p, <<>>)
    BY <1>1 DEF Perform
  <2>2. Announced(p, <<>>)
    BY DEF Announced, Plain
  <2>3. p.locked => p.mode = "normal"
    BY InvFit
  <2>4. QED
    BY <2>1, <2>2, <2>3, RespondKeeps
<1>2. CASE ~(p.locked \/ p.mode = "picker")
  <2>1. Respond(next, result) /\ Fit(next) /\ ~next.locked /\ Announced(next, result)
    BY <1>2 DEF Perform, Announced
  <2>2. QED
    BY <2>1, RespondKeeps
<1>3. QED
  BY <1>1, <1>2

-----------------------------------------------------------------------------
(* The stack set under the actions that only rearrange it *)

\* Rearranging twice is rearranging.
LEMMA ChangedTransitive ==
  ASSUME NEW s, NEW r, NEW new, Changed(s, r), Changed(r, new)
  PROVE  Changed(s, new)
  BY DEF Changed, Rearranged

\* Viewing rearranges, a tag that is not configured changes nothing.
LEMMA ViewChanges ==
  ASSUME NEW s \in Spaces, NEW t
  PROVE  Changed(s, View(t, s))
<1>1. CASE t \in Tags
  <2> DEFINE v == View(t, s)
  <2>1. /\ v \in Spaces /\ v.stack = s.stack
        /\ ToSet(v.outs) = ToSet(s.outs) /\ Len(v.outs) = Len(s.outs)
    BY <1>1, ViewShows DEF Spaces
  <2> HIDE DEF v
  <2>2. QED
    BY <2>1 DEF Changed, Rearranged, Placed, Spaces, v
<1>2. CASE t \notin Tags
  <2>1. ToSet(s.order) = Tags
    BY WellParts DEF Spaces
  <2>2. View(t, s) = s
    BY <1>2, <2>1 DEF View
  <2>3. QED
    BY <2>2 DEF Changed, Rearranged, Spaces
<1>3. QED
  BY <1>1, <1>2

\* Focusing a window rearranges.
LEMMA FocusWindowChanges ==
  ASSUME NEW s \in Spaces, NEW w
  PROVE  Changed(s, FocusWindow(w, s))
  BY FocusWindowArranges DEF Changed, Spaces

\* Shifting a window rearranges.
LEMMA ShiftWinChanges ==
  ASSUME NEW s \in Spaces, NEW w, NEW t
  PROVE  Changed(s, ShiftWin(t, w, s))
<1>1. CASE t \in Tags
  BY <1>1, ShiftWinArranges DEF Changed, Spaces
<1>2. CASE t \notin Tags
  <2>1. ToSet(s.order) = Tags
    BY WellParts DEF Spaces
  <2>2. ShiftWin(t, w, s) = s
    BY <1>2, <2>1 DEF ShiftWin
  <2>3. QED
    BY <2>2 DEF Changed, Rearranged, Spaces
<1>3. QED
  BY <1>1, <1>2

\* The focus moves or the current stack is reordered.
LEMMA ModifyChanges ==
  ASSUME NEW s \in Spaces
  PROVE  /\ Changed(s, Modify(FocusDownIn, s)) /\ Changed(s, Modify(FocusUpIn, s))
         /\ Changed(s, Modify(SwapMasterIn, s)) /\ Changed(s, Modify(SwapDownIn, s))
         /\ Changed(s, Modify(SwapUpIn, s))
<1> DEFINE st == Current(s)
           c == CurrentTag(s)
<1>1. CASE st = NoStack
  BY <1>1 DEF Modify, Changed, Rearranged, Spaces
<1>2. CASE st # NoStack
  <2>1. st \in Stacks(Windows) /\ StackArranged(st)
    BY WellParts DEF Spaces, Current
  <2>2. /\ Modify(FocusDownIn, s) = Restacked(c, FocusDownIn(st), s)
        /\ Modify(FocusUpIn, s) = Restacked(c, FocusUpIn(st), s)
        /\ Modify(SwapMasterIn, s) = Restacked(c, SwapMasterIn(st), s)
        /\ Modify(SwapDownIn, s) = Restacked(c, SwapDownIn(st), s)
        /\ Modify(SwapUpIn, s) = Restacked(c, SwapUpIn(st), s)
    BY <1>2 DEF Modify, Restacked, Current
  <2> HIDE DEF st, c
  <2>3. /\ Reordered(Windows, st, FocusDownIn(st)) /\ Reordered(Windows, st, FocusUpIn(st))
        /\ Reordered(Windows, st, SwapMasterIn(st)) /\ Reordered(Windows, st, SwapDownIn(st))
        /\ Reordered(Windows, st, SwapUpIn(st))
    BY <1>2, <2>1, FocusMoves, SwapMasterReorders, SwapDownReorders, SwapUpReorders
  <2>4. \A new : Reordered(Windows, st, new) => Changed(s, Restacked(c, new, s))
    BY ModifyArranges DEF Changed, Spaces, st, c
  <2>5. QED
    BY <2>2, <2>3, <2>4
<1>3. QED
  BY <1>1, <1>2

\* What SwapToWindow makes of a list: the windows above place i backwards,
\* then the one at i, then the first.
SwappedTo(l, i) == Reverse(SubSeq(l, 2, i - 1)) \o <<l[i], l[1]>> \o SubSeq(l, i + 1, Len(l))

\* It is a permutation of the list.
LEMMA SwappedToPermutes ==
  ASSUME NEW W, NEW l \in Seq(W), IsInjective(l), NEW i \in 2 .. Len(l)
  PROVE  /\ SwappedTo(l, i) \in Seq(W) /\ Len(SwappedTo(l, i)) = Len(l)
         /\ IsInjective(SwappedTo(l, i)) /\ ToSet(SwappedTo(l, i)) = ToSet(l)
<1> DEFINE n == Len(l)
           above == SubSeq(l, 2, i - 1)
           a == Reverse(above)
           b == <<l[i], l[1]>>
           c == SubSeq(l, i + 1, n)
           x == a \o b
           new == x \o c
           h == [k \in 1 .. n |-> IF k <= i - 2 THEN i - k
                                  ELSE IF k = i - 1 THEN i ELSE IF k = i THEN 1 ELSE k]
<1>1. DOMAIN l = 1 .. n /\ n \in Nat /\ i \in 2 .. n /\ i \in Nat
  OBVIOUS
<1>2. above \in Seq(W) /\ Len(above) = i - 2 /\ \A k \in 1 .. i - 2 : above[k] = l[k + 1]
  BY <1>1
<1>3. c \in Seq(W) /\ Len(c) = n - i /\ \A k \in 1 .. n - i : c[k] = l[k + i]
  <2>1. /\ n \in Int /\ i + 1 \in Int /\ \A k \in i + 1 .. n : l[k] \in W
    BY <1>1
  <2>2. /\ c \in Seq(W) /\ Len(c) = IF i + 1 <= n THEN n - (i + 1) + 1 ELSE 0
        /\ \A k \in 1 .. n - (i + 1) + 1 : c[k] = l[(i + 1) + k - 1]
    <3> HIDE DEF n
    <3>1. QED
      BY <2>1, SubSeqProperties
  <2>3. /\ n - (i + 1) + 1 = n - i /\ (IF i + 1 <= n THEN n - (i + 1) + 1 ELSE 0) = n - i
        /\ \A k \in 1 .. n - i : (i + 1) + k - 1 = k + i
    <3>1. n \in Nat /\ i \in Nat /\ i <= n
      BY <1>1
    <3> HIDE DEF n, c
    <3>2. n - (i + 1) + 1 = n - i /\ (i + 1 <= n <=> i # n) /\ (i = n => n - i = 0)
      BY <3>1
    <3>3. \A k \in 1 .. n - i : (i + 1) + k - 1 = k + i
      BY <3>1
    <3>4. QED
      BY <3>1, <3>2, <3>3
  <2> HIDE DEF c, n
  <2>4. QED
    BY <2>2, <2>3
<1>4. b \in Seq(W) /\ Len(b) = 2 /\ b[1] = l[i] /\ b[2] = l[1]
  BY <1>1
<1> HIDE DEF above, c, b
<1>5. a \in Seq(W) /\ Len(a) = i - 2 /\ \A k \in 1 .. i - 2 : a[k] = l[i - k]
  <2>1. a = [k \in 1 .. i - 2 |-> above[(i - 2) - k + 1]]
    BY <1>2 DEF Reverse
  <2>2. ASSUME NEW k \in 1 .. i - 2 PROVE above[(i - 2) - k + 1] = l[i - k] /\ l[i - k] \in W
    <3>1. (i - 2) - k + 1 \in 1 .. i - 2 /\ ((i - 2) - k + 1) + 1 = i - k /\ i - k \in 1 .. n
      BY <1>1
    <3>2. QED
      BY <1>1, <1>2, <3>1
  <2>3. i - 2 \in Nat
    BY <1>1
  <2> DEFINE e(k) == above[(i - 2) - k + 1]
  <2>4. a = [k \in 1 .. i - 2 |-> e(k)] /\ \A k \in 1 .. i - 2 : e(k) = l[i - k] /\ e(k) \in W
    BY <2>1, <2>2
  <2> HIDE DEF a, e
  <2>5. QED
    BY <2>3, <2>4
<1> HIDE DEF a
<1>6. /\ x \in Seq(W) /\ Len(x) = i
      /\ \A k \in 1 .. i - 2 : x[k] = a[k]
      /\ \A k \in i - 1 .. i : k - (i - 2) \in 1 .. 2 /\ x[k] = b[k - (i - 2)]
  <2>1. /\ x \in Seq(W) /\ Len(x) = Len(a) + Len(b)
        /\ \A k \in 1 .. Len(a) : x[k] = a[k]
        /\ \A k \in Len(a) + 1 .. Len(a) + Len(b) :
             k - Len(a) \in 1 .. Len(b) /\ x[k] = b[k - Len(a)]
    <3>1. a \in Seq(W) /\ b \in Seq(W)
      BY <1>4, <1>5
    <3>2. QED
      BY <3>1, Concatenated
  <2>2. Len(a) + 1 = i - 1 /\ Len(a) + Len(b) = i
    BY <1>1, <1>4, <1>5
  <2> HIDE DEF x
  <2>3. QED
    BY <1>4, <1>5, <2>1, <2>2
<1> HIDE DEF x
<1>7. x[i - 1] = l[i] /\ x[i] = l[1]
  <2>1. i - 1 \in i - 1 .. i /\ i \in i - 1 .. i /\ (i - 1) - (i - 2) = 1 /\ i - (i - 2) = 2
    BY <1>1
  <2>2. QED
    BY <1>4, <1>6, <2>1
<1>8. /\ new \in Seq(W) /\ Len(new) = n
      /\ \A k \in 1 .. i : new[k] = x[k]
      /\ \A k \in i + 1 .. n : k - i \in 1 .. n - i /\ new[k] = c[k - i]
  <2>1. /\ new \in Seq(W) /\ Len(new) = Len(x) + Len(c)
        /\ \A k \in 1 .. Len(x) : new[k] = x[k]
        /\ \A k \in Len(x) + 1 .. Len(x) + Len(c) :
             k - Len(x) \in 1 .. Len(c) /\ new[k] = c[k - Len(x)]
    <3>1. x \in Seq(W) /\ c \in Seq(W)
      BY <1>3, <1>6
    <3>2. QED
      BY <3>1, Concatenated
  <2>2. Len(x) + Len(c) = n
    BY <1>1, <1>3, <1>6
  <2> HIDE DEF new
  <2>3. QED
    BY <1>3, <1>6, <2>1, <2>2
<1>9. SwappedTo(l, i) = new
  BY DEF SwappedTo, x, a, b, c, above
<1> HIDE DEF new
<1>10. \A k \in 1 .. n : new[k] = l[h[k]]
  <2>1. ASSUME NEW k \in 1 .. n, k <= i - 2 PROVE new[k] = l[i - k]
    <3>1. k \in 1 .. i - 2 /\ k \in 1 .. i
      BY <1>1, <2>1
    <3>2. QED
      BY <1>5, <1>6, <1>8, <3>1
  <2>2. new[i - 1] = l[i] /\ new[i] = l[1]
    <3>1. i - 1 \in 1 .. i /\ i \in 1 .. i
      BY <1>1
    <3>2. QED
      BY <1>7, <1>8, <3>1
  <2>3. ASSUME NEW k \in 1 .. n, k > i PROVE new[k] = l[k]
    <3>1. k \in i + 1 .. n /\ (k - i) + i = k
      BY <1>1, <2>3
    <3>2. QED
      BY <1>3, <1>8, <3>1
  <2>4. QED
    BY <1>1, <2>1, <2>2, <2>3
<1>11. h \in [1 .. n -> 1 .. n] /\ \A j, k \in 1 .. n : h[j] = h[k] => j = k
  BY <1>1
<1>12. new \in Seq(W) /\ Len(new) = Len(l)
  BY <1>8
<1> HIDE DEF h
<1>13. IsInjective(new) /\ ToSet(new) = ToSet(l)
  BY <1>10, <1>11, <1>12, Permuted
<1>14. QED
  BY <1>9, <1>12, <1>13

\* Two windows of a workspace change places, as the picker and as a move do.
LEMMA SwapChanges ==
  ASSUME NEW s \in Spaces, NEW w, NEW other
  PROVE  /\ Changed(s, SwapToWindow(w, s))
         /\ w \in ToSet(Index(s)) /\ other \in ToSet(Index(s)) =>
              Changed(s, SwapWith(w, other, s))
<1> DEFINE st == Current(s)
           l == Index(s)
           c == CurrentTag(s)
           i == IndexOf(w, l)
           j == IndexOf(other, l)
<1>1. st \in Stacks(Windows) /\ StackArranged(st) /\ l = st.list
  BY WellParts DEF Spaces, Current, Index
<1>2. l \in Seq(Windows) /\ IsInjective(l) /\ DOMAIN l = 1 .. Len(l) /\ Len(l) \in Nat
  BY <1>1 DEF Stacks, StackArranged
<1>3. \A new : Reordered(Windows, st, new) => Changed(s, Restacked(c, new, s))
  BY ModifyArranges DEF Changed, Spaces
<1>4. ASSUME NEW q \in Seq(Windows), Len(q) = Len(l), IsInjective(q), ToSet(q) = ToSet(l),
             NEW pos \in 1 .. Len(l)
      PROVE  Reordered(Windows, st, [list |-> q, pos |-> pos])
  <2> DEFINE new == [list |-> q, pos |-> pos]
  <2>1. new \in Stacks(Windows) /\ new.list = q /\ new.pos = pos
    BY <1>2 DEF Stacks
  <2>2. q # <<>> /\ pos \in DOMAIN q
    BY <1>2, <1>4
  <2> HIDE DEF new
  <2>3. QED
    BY <1>1, <1>4, <2>1, <2>2 DEF Reordered, StackArranged, new
<1>5. Changed(s, SwapToWindow(w, s))
  <2>1. CASE w \notin ToSet(l) \/ w = l[1]
    <3>1. SwapToWindow(w, s) = s
      BY <2>1 DEF SwapToWindow
    <3>2. QED
      BY <3>1 DEF Changed, Rearranged, Spaces
  <2>2. CASE ~(w \notin ToSet(l) \/ w = l[1])
    <3>1. i \in DOMAIN l /\ l[i] = w
      <4> HIDE DEF l
      <4>1. QED
        BY <1>2, <2>2, IndexOfMember
    <3>2. i \in 2 .. Len(l)
      <4>1. i # 1
        BY <2>2, <3>1
      <4>2. QED
        BY <1>2, <3>1, <4>1
    <3>3. SwapToWindow(w, s) = Restacked(c, [list |-> SwappedTo(l, i), pos |-> i - 1], s)
      BY <2>2, <3>1 DEF SwapToWindow, Restacked, SwappedTo
    <3> HIDE DEF l, i, c, st
    <3>4. /\ SwappedTo(l, i) \in Seq(Windows) /\ Len(SwappedTo(l, i)) = Len(l)
          /\ IsInjective(SwappedTo(l, i)) /\ ToSet(SwappedTo(l, i)) = ToSet(l)
      BY <1>2, <3>2, SwappedToPermutes
    <3>5. i - 1 \in 1 .. Len(l)
      BY <1>2, <3>2
    <3>6. QED
      BY <1>3, <1>4, <3>3, <3>4, <3>5
  <2>3. QED
    BY <2>1, <2>2
<1>6. ASSUME w \in ToSet(l), other \in ToSet(l) PROVE Changed(s, SwapWith(w, other, s))
  <2>1. SwapWith(w, other, s) = Restacked(c, [list |-> Exchange(l, i, j), pos |-> j], s)
    BY DEF SwapWith, Restacked
  <2>2. i \in DOMAIN l /\ j \in DOMAIN l
    <3> HIDE DEF l
    <3>1. QED
      BY <1>2, <1>6, IndexOfMember
  <2> HIDE DEF l, i, j, c, st
  <2>3. /\ Exchange(l, i, j) \in Seq(Windows) /\ Len(Exchange(l, i, j)) = Len(l)
        /\ IsInjective(Exchange(l, i, j)) /\ ToSet(Exchange(l, i, j)) = ToSet(l)
    BY <1>2, <2>2, Exchanged
  <2>4. QED
    BY <1>2, <1>3, <1>4, <2>1, <2>2, <2>3
<1>7. QED
  BY <1>5, <1>6

-----------------------------------------------------------------------------
(* Families *)

\* The windows a generation adds to those seen, and what Descendants grows.
Young(p, seen) ==
  {w \in DOMAIN p.meta : p.meta[w].parent \in ToSet(seen) /\ w \notin ToSet(seen)}

Grows(p, root, g) ==
  g = [n \in 0 .. Cardinality(DOMAIN p.meta) |->
         IF n = 0 THEN <<root>> ELSE g[n - 1] \o Ascending(Young(p, g[n - 1]))]

\* The recursion of Descendants has a solution, of lists of windows.
LEMMA FamilyGrows ==
  ASSUME NEW p, IsFiniteSet(DOMAIN p.meta), DOMAIN p.meta \subseteq Nat, NEW root
  PROVE  \E g : /\ Grows(p, root, g)
                /\ Descendants(p, root) = Tail(g[Cardinality(DOMAIN p.meta)])
                /\ g \in [0 .. Cardinality(DOMAIN p.meta) -> Seq({root} \cup DOMAIN p.meta)]
<1> DEFINE N == Cardinality(DOMAIN p.meta)
           W == {root} \cup DOMAIN p.meta
           S == Seq(W)
           step == [n \in 1 .. N |-> [q \in S |-> q \o Ascending(Young(p, q))]]
<1>1. N \in Nat
  BY FS_CardinalityType
<1>2. ASSUME NEW q \in S PROVE q \o Ascending(Young(p, q)) \in S
  <2>1. Young(p, q) \subseteq DOMAIN p.meta
    BY DEF Young
  <2>2. IsFiniteSet(Young(p, q)) /\ Young(p, q) \subseteq Nat
    BY <2>1, FS_Subset
  <2>3. Ascending(Young(p, q)) \in Seq(Young(p, q))
    BY <2>2, AscendingIsList
  <2>4. Ascending(Young(p, q)) \in Seq(W)
    BY <2>1, <2>3
  <2> HIDE DEF W
  <2>5. QED
    BY <2>4
<1>3. <<root>> \in S
  OBVIOUS
<1>4. \A n \in 1 .. N : \A q \in S : step[n][q] = q \o Ascending(Young(p, q))
  OBVIOUS
<1>5. step \in Steps(N, S)
  <2> HIDE DEF S, N
  <2>1. QED
    BY <1>2 DEF Steps
<1> HIDE DEF step, S, N
<1>6. PICK g : /\ g \in [0 .. N -> S] /\ g[0] = <<root>>
               /\ \A n \in 1 .. N : g[n] = step[n][g[n - 1]]
  <2> DEFINE base == <<root>>
  <2>1. base \in S
    BY <1>3
  <2> HIDE DEF base
  <2>2. \E g : Solves(g, N, S, base, step)
    BY <1>1, <1>5, <2>1, RecursionExists
  <2>3. QED
    BY <2>2 DEF base, Solves
<1>7. g = [n \in 0 .. N |-> IF n = 0 THEN <<root>> ELSE g[n - 1] \o Ascending(Young(p, g[n - 1]))]
  <2>1. ASSUME NEW n \in 0 .. N, n # 0
        PROVE  step[n][g[n - 1]] = g[n - 1] \o Ascending(Young(p, g[n - 1]))
    <3>1. n \in 1 .. N /\ n - 1 \in 0 .. N
      BY <1>1, <2>1
    <3>2. g[n - 1] \in S
      BY <1>6, <3>1
    <3>3. QED
      BY <1>4, <3>1, <3>2
  <2>2. \A n \in 0 .. N : n # 0 => n \in 1 .. N
    BY <1>1
  <2>3. \A n \in 0 .. N : g[n] = IF n = 0 THEN <<root>>
                                ELSE g[n - 1] \o Ascending(Young(p, g[n - 1]))
    BY <1>6, <2>1, <2>2
  <2>4. QED
    BY <1>6, <2>3
<1>8. \E h : Grows(p, root, h)
  BY <1>7 DEF Grows, N
<1> DEFINE grow == CHOOSE h : Grows(p, root, h)
<1>9. Grows(p, root, grow)
  BY <1>8
<1>10. Descendants(p, root) = Tail(grow[N])
  BY DEF Descendants, Grows, Young, N
<1> HIDE DEF grow
<1>11. grow \in [0 .. N -> S]
  <2> DEFINE T == {n \in 0 .. N : grow[n] \in S}
  <2>1. /\ grow[0] = <<root>>
        /\ \A n \in 1 .. N : grow[n] = grow[n - 1] \o Ascending(Young(p, grow[n - 1]))
    <3>1. \A n \in 0 .. N : grow[n] = IF n = 0 THEN <<root>>
                                     ELSE grow[n - 1] \o Ascending(Young(p, grow[n - 1]))
      BY <1>9 DEF Grows, N
    <3>2. 0 \in 0 .. N /\ \A n \in 1 .. N : n \in 0 .. N /\ n # 0
      BY <1>1
    <3>3. QED
      BY <3>1, <3>2
  <2>2. 0 \in T
    BY <1>1, <1>3, <2>1
  <2>3. ASSUME NEW n \in 1 .. N, n - 1 \in T PROVE n \in T
    <3>1. n \in 0 .. N
      BY <1>1
    <3>2. grow[n - 1] \in S
      BY <2>3
    <3>3. grow[n] \in S
      BY <1>2, <2>1, <3>2
    <3>4. QED
      BY <3>1, <3>3
  <2> HIDE DEF T
  <2>4. \A n \in 0 .. N : n \in T
    BY <1>1, <2>2, <2>3, UpTo
  <2>5. \A n \in 0 .. N : grow[n] \in S
    BY <2>4 DEF T
  <2>6. grow = [n \in 0 .. N |-> grow[n]]
    BY <1>9 DEF Grows, N
  <2>7. QED
    BY <2>5, <2>6
<1>12. QED
  BY <1>9, <1>10, <1>11 DEF S, N

\* A window and its descendants are a family: they have all their children.
LEMMA FamilyClosed ==
  ASSUME NEW p, IsFiniteSet(DOMAIN p.meta), DOMAIN p.meta \subseteq Nat, NEW root
  PROVE  LET F == {root} \cup ToSet(Descendants(p, root))
         IN  /\ Descendants(p, root) \in Seq({root} \cup DOMAIN p.meta)
             /\ F \subseteq {root} \cup DOMAIN p.meta
             /\ \A x \in DOMAIN p.meta : p.meta[x].parent \in F => x \in F
<1> DEFINE D == DOMAIN p.meta
           N == Cardinality(D)
           W == {root} \cup D
<1>1. N \in Nat
  BY FS_CardinalityType
<1>2. PICK g : /\ Grows(p, root, g) /\ Descendants(p, root) = Tail(g[N])
               /\ g \in [0 .. N -> Seq(W)]
  BY FamilyGrows
<1>3. /\ g[0] = <<root>>
      /\ \A n \in 1 .. N : g[n] = g[n - 1] \o Ascending(Young(p, g[n - 1]))
  BY <1>1, <1>2 DEF Grows
<1>4. \A n \in 0 .. N : g[n] \in Seq(W)
  BY <1>2
<1> HIDE DEF N, W
<1>5. ASSUME NEW n \in 1 .. N
      PROVE  /\ ToSet(g[n]) = ToSet(g[n - 1]) \cup Young(p, g[n - 1])
             /\ Young(p, g[n - 1]) = {} => g[n] = g[n - 1]
             /\ Len(g[n - 1]) >= 1 => Len(g[n]) >= 1 /\ g[n][1] = g[n - 1][1]
  <2> DEFINE q == g[n - 1]
             y == Ascending(Young(p, q))
  <2>1. n - 1 \in 0 .. N
    BY <1>1
  <2>2. q \in Seq(W) /\ g[n] = q \o y
    BY <1>3, <1>4, <2>1
  <2>3. Young(p, q) \subseteq D
    BY DEF Young
  <2>4. IsFiniteSet(Young(p, q)) /\ Young(p, q) \subseteq Nat
    BY <2>3, FS_Subset
  <2>5. y \in Seq(Young(p, q)) /\ ToSet(y) = Young(p, q) /\ Len(y) = Cardinality(Young(p, q))
    BY <2>4, AscendingIsList
  <2>6. y \in Seq(W)
    BY <2>3, <2>5 DEF W
  <2> HIDE DEF y, q
  <2>7. /\ Len(q \o y) = Len(q) + Len(y)
        /\ \A i \in 1 .. Len(q) : (q \o y)[i] = q[i]
        /\ \A i \in Len(q) + 1 .. Len(q) + Len(y) :
             i - Len(q) \in 1 .. Len(y) /\ (q \o y)[i] = y[i - Len(q)]
        /\ q \o y \in Seq(W)
    BY <2>2, <2>6, Concatenated
  <2>8. Len(q) \in Nat /\ Len(y) \in Nat /\ DOMAIN q = 1 .. Len(q) /\ DOMAIN y = 1 .. Len(y)
        /\ DOMAIN (q \o y) = 1 .. Len(q) + Len(y)
    BY <2>2, <2>6, <2>7
  <2>9. ToSet(q \o y) = ToSet(q) \cup ToSet(y)
    <3> DEFINE c == q \o y
    <3>1. \A i \in DOMAIN c : c[i] \in ToSet(q) \cup ToSet(y)
      <4>1. SUFFICES ASSUME NEW i \in 1 .. Len(q) + Len(y) PROVE c[i] \in ToSet(q) \cup ToSet(y)
        BY <2>8
      <4>2. CASE i \in 1 .. Len(q)
        BY <2>7, <2>8, <4>2 DEF ToSet
      <4>3. CASE i \in Len(q) + 1 .. Len(q) + Len(y)
        BY <2>7, <2>8, <4>3 DEF ToSet
      <4>4. QED
        BY <2>8, <4>2, <4>3
    <3>2. \A i \in DOMAIN q : i \in DOMAIN c /\ c[i] = q[i]
      BY <2>7, <2>8
    <3>3. \A i \in DOMAIN y : i + Len(q) \in DOMAIN c /\ c[i + Len(q)] = y[i]
      <4>1. SUFFICES ASSUME NEW i \in 1 .. Len(y)
                     PROVE  i + Len(q) \in DOMAIN c /\ c[i + Len(q)] = y[i]
        BY <2>8
      <4>2. i + Len(q) \in Len(q) + 1 .. Len(q) + Len(y) /\ (i + Len(q)) - Len(q) = i
            /\ i + Len(q) \in 1 .. Len(q) + Len(y)
        BY <2>8
      <4>3. QED
        BY <2>7, <2>8, <4>2
    <3> HIDE DEF c
    <3>4. QED
      BY <3>1, <3>2, <3>3 DEF ToSet, c
  <2>10. Young(p, q) = {} => q \o y = q
    <3>1. Young(p, q) = {} => Len(y) = 0
      BY <2>5, FS_EmptySet
    <3>2. Len(y) = 0 => y = <<>>
      BY <2>6
    <3>3. q \o <<>> = q
      BY <2>2
    <3>4. QED
      BY <3>1, <3>2, <3>3
  <2>11. Len(q) >= 1 => Len(q \o y) >= 1 /\ (q \o y)[1] = q[1]
    BY <2>7, <2>8
  <2>12. QED
    BY <2>2, <2>5, <2>9, <2>10, <2>11 DEF q
<1>6. g[N] \in Seq(W) /\ Len(g[N]) >= 1 /\ g[N][1] = root
  <2> DEFINE T == {n \in 0 .. N : Len(g[n]) >= 1 /\ g[n][1] = root}
  <2>1. 0 \in T
    BY <1>1, <1>3
  <2>2. \A n \in 1 .. N : n - 1 \in T => n \in T
    BY <1>1, <1>5
  <2>3. N \in 0 .. N
    BY <1>1
  <2> HIDE DEF T
  <2>4. N \in T
    BY <1>1, <2>1, <2>2, <2>3, UpTo
  <2>5. QED
    BY <1>4, <2>3, <2>4 DEF T
<1>7. Young(p, g[N]) = {}
  <2> DEFINE Seen(n) == ToSet(g[n]) \cap D
             T == {n \in 0 .. N : Young(p, g[n]) = {} \/ Cardinality(Seen(n)) >= n}
  <2>1. \A n \in 0 .. N : /\ IsFiniteSet(Seen(n)) /\ Seen(n) \subseteq D
                         /\ Cardinality(Seen(n)) \in Nat
    <3>1. \A n : Seen(n) \subseteq D
      OBVIOUS
    <3> HIDE DEF Seen
    <3>2. QED
      BY <3>1, FS_Subset, FS_CardinalityType
  <2>2. 0 \in T
    BY <1>1, <2>1
  <2>3. ASSUME NEW n \in 1 .. N, n - 1 \in T PROVE n \in T
    <3>1. CASE Young(p, g[n - 1]) = {}
      BY <1>1, <1>5, <3>1
    <3>2. CASE Young(p, g[n - 1]) # {}
      <4>1. PICK x \in Young(p, g[n - 1]) : TRUE
        BY <3>2
      <4>2. x \in Seen(n) /\ x \notin Seen(n - 1) /\ Seen(n - 1) \subseteq Seen(n)
        BY <1>5, <4>1 DEF Young
      <4>3. n - 1 \in 0 .. N /\ n \in 0 .. N
        BY <1>1
      <4>4. Cardinality(Seen(n - 1)) >= n - 1
        BY <2>3, <3>2
      <4> HIDE DEF Seen
      <4>5. Cardinality(Seen(n - 1)) < Cardinality(Seen(n))
        <5>1. Seen(n - 1) \in SUBSET Seen(n) /\ Seen(n - 1) # Seen(n) /\ IsFiniteSet(Seen(n))
          BY <2>1, <4>2, <4>3
        <5>2. QED
          BY <5>1, FS_Subset, FS_CardinalityType
      <4>6. Cardinality(Seen(n)) >= n
        BY <1>1, <2>1, <4>3, <4>4, <4>5
      <4>7. QED
        BY <4>3, <4>6
    <3>3. QED
      BY <3>1, <3>2
  <2>4. N \in 0 .. N
    BY <1>1
  <2>5. N \in T
    <3> HIDE DEF T
    <3>1. QED
      BY <1>1, <2>2, <2>3, <2>4, UpTo
  <2>6. CASE Cardinality(Seen(N)) >= N
    <3>1. Seen(N) \subseteq D /\ Cardinality(Seen(N)) \in Nat
      BY <2>1, <2>4
    <3>2. Seen(N) = D
      <4>1. Seen(N) # D => Cardinality(Seen(N)) < Cardinality(D)
        <5> HIDE DEF Seen
        <5>1. Cardinality(Seen(N)) <= Cardinality(D) /\ Cardinality(D) \in Nat
          BY <3>1, FS_Subset, FS_CardinalityType
        <5>2. Cardinality(D) = Cardinality(Seen(N)) => D = Seen(N)
          BY <3>1, FS_Subset
        <5>3. QED
          BY <3>1, <5>1, <5>2
      <4>2. QED
        BY <1>1, <2>6, <3>1, <4>1 DEF N
    <3>3. QED
      BY <3>2 DEF Young
  <2>7. QED
    BY <2>5, <2>6
<1> DEFINE q == g[N]
           d == Tail(q)
<1>8. d \in Seq(W) /\ ToSet(q) = {root} \cup ToSet(d) /\ ToSet(q) \subseteq W
  <2>1. q \in Seq(W) /\ Len(q) >= 1 /\ q[1] = root
    BY <1>6
  <2> HIDE DEF q
  <2>2. /\ d \in Seq(W) /\ Len(d) = Len(q) - 1 /\ \A i \in 1 .. Len(q) - 1 : d[i] = q[i + 1]
    BY <2>1
  <2>3. DOMAIN q = 1 .. Len(q) /\ Len(q) \in Nat /\ DOMAIN d = 1 .. Len(q) - 1
    BY <2>1, <2>2
  <2> HIDE DEF d
  <2>4. \A i \in DOMAIN q : i = 1 \/ (i - 1 \in DOMAIN d /\ d[i - 1] = q[i])
    BY <2>2, <2>3
  <2>5. \A i \in DOMAIN d : i + 1 \in DOMAIN q /\ d[i] = q[i + 1]
    BY <2>2, <2>3
  <2>6. 1 \in DOMAIN q /\ \A i \in DOMAIN q : q[i] \in W
    BY <2>1, <2>3
  <2>7. QED
    BY <2>1, <2>2, <2>4, <2>5, <2>6 DEF ToSet
<1>9. QED
  BY <1>2, <1>7, <1>8 DEF W, Young

\* The windows ShiftFamily moves, one after the other.
Family(p, w) == Reverse(<<w>> \o Descendants(p, w))

\* They are the window and its descendants, and closed under children.
LEMMA FamilyList ==
  ASSUME NEW p, Fit(p), NEW w
  PROVE  /\ Family(p, w) \in Seq({w} \cup DOMAIN p.meta)
         /\ Len(Family(p, w)) \in Nat
         /\ ToSet(Family(p, w)) = {w} \cup ToSet(Descendants(p, w))
         /\ \A x \in DOMAIN p.meta :
              p.meta[x].parent \in ToSet(Family(p, w)) => x \in ToSet(Family(p, w))
<1> DEFINE d == Descendants(p, w)
           W == {w} \cup DOMAIN p.meta
           first == <<w>>
           q == first \o d
           n == Len(q)
           r == [i \in 1 .. n |-> q[n - i + 1]]
<1>1. DOMAIN p.meta \subseteq Nat /\ IsFiniteSet(DOMAIN p.meta)
  <2>1. DOMAIN p.meta \subseteq Windows
    BY FitFields
  <2>2. QED
    BY <2>1, PolicyAssumption, FS_Subset
<1>2. d \in Seq(W) /\ \A x \in DOMAIN p.meta : p.meta[x].parent \in {w} \cup ToSet(d)
                                                  => x \in {w} \cup ToSet(d)
  BY <1>1, FamilyClosed
<1>3. first \in Seq(W) /\ Len(first) = 1 /\ first[1] = w
  OBVIOUS
<1>4. Family(p, w) = r
  BY DEF Family, Reverse
<1> HIDE DEF d, W, first
<1>5. /\ q \in Seq(W) /\ Len(q) = Len(first) + Len(d)
      /\ \A i \in 1 .. Len(first) : q[i] = first[i]
      /\ \A i \in Len(first) + 1 .. Len(first) + Len(d) :
           i - Len(first) \in 1 .. Len(d) /\ q[i] = d[i - Len(first)]
  BY <1>2, <1>3, Concatenated
<1> HIDE DEF q
<1>6. n \in Nat /\ Len(d) \in Nat /\ n = Len(d) + 1 /\ DOMAIN q = 1 .. n /\ DOMAIN d = 1 .. Len(d)
      /\ q[1] = w /\ \A i \in DOMAIN q : q[i] \in W
  BY <1>2, <1>3, <1>5
<1>7. \A i \in 1 .. n : i = 1 \/ (i - 1 \in DOMAIN d /\ q[i] = d[i - 1])
  <2>1. \A i \in 1 .. n : i # 1 => i \in Len(first) + 1 .. Len(first) + Len(d)
    BY <1>3, <1>6
  <2>2. QED
    BY <1>3, <1>5, <1>6, <2>1
<1>8. \A i \in DOMAIN d : i + 1 \in 1 .. n /\ q[i + 1] = d[i]
  <2>1. \A i \in DOMAIN d : i + 1 \in 1 .. n /\ i + 1 # 1 /\ (i + 1) - 1 = i
    BY <1>6
  <2>2. QED
    BY <1>7, <2>1
<1>9. ToSet(q) = {w} \cup ToSet(d)
  <2>1. 1 \in DOMAIN q /\ q[1] = w
    BY <1>6
  <2>2. \A i \in DOMAIN q : i = 1 \/ (i - 1 \in DOMAIN d /\ q[i] = d[i - 1])
    BY <1>6, <1>7
  <2>3. \A i \in DOMAIN d : i + 1 \in DOMAIN q /\ q[i + 1] = d[i]
    BY <1>6, <1>8
  <2> HIDE DEF n
  <2>4. QED
    BY <2>1, <2>2, <2>3 DEF ToSet
<1> HIDE DEF n
<1>10. \A i \in 1 .. n : n - i + 1 \in 1 .. n /\ n - (n - i + 1) + 1 = i
  BY <1>6
<1>11. r \in [1 .. n -> W] /\ DOMAIN r = 1 .. n
  BY <1>6, <1>10
<1>12. r \in Seq(W) /\ Len(r) = n
  <2> HIDE DEF r
  <2>1. QED
    BY <1>6, <1>11
<1>13. ToSet(r) = ToSet(q)
  <2>1. \A i \in DOMAIN r : r[i] = q[n - i + 1] /\ n - i + 1 \in DOMAIN q
    BY <1>6, <1>10
  <2>2. \A i \in DOMAIN q : r[n - i + 1] = q[i] /\ n - i + 1 \in DOMAIN r
    BY <1>6, <1>10, <1>11
  <2> HIDE DEF r
  <2>3. QED
    BY <2>1, <2>2 DEF ToSet
<1> HIDE DEF r
<1>14. QED
  BY <1>2, <1>4, <1>6, <1>9, <1>12, <1>13 DEF d, W

\* The stack sets on the way, the n-th after n windows.
Moves(g, p, w, t) ==
  g = [n \in 0 .. Len(Family(p, w)) |->
         IF n = 0 THEN p.ws ELSE ShiftWin(t, Family(p, w)[n], g[n - 1])]

\* The recursion of ShiftFamily has a solution, of stack sets.
LEMMA FamilyMoves ==
  ASSUME NEW p, Fit(p), NEW w, NEW t
  PROVE  \E g : /\ g[0] = p.ws
                /\ \A n \in 1 .. Len(Family(p, w)) :
                     g[n] = ShiftWin(t, Family(p, w)[n], g[n - 1])
                /\ ShiftFamily(w, t, p) = WithSpace(g[Len(Family(p, w))], p)
<1> DEFINE f == Family(p, w)
           N == Len(f)
           step == [n \in 1 .. N |-> [s \in Spaces |-> ShiftWin(t, f[n], s)]]
<1>1. N \in Nat
  BY FamilyList
<1> HIDE DEF f, N
<1>2. \A s \in Spaces : \A x : ShiftWin(t, x, s) \in Spaces
  BY ShiftWinChanges DEF Changed, Rearranged, Spaces
<1>3. step \in Steps(N, Spaces)
  BY <1>2 DEF Steps
<1>4. \A n \in 1 .. N : \A s \in Spaces : step[n][s] = ShiftWin(t, f[n], s)
  OBVIOUS
<1>5. p.ws \in Spaces
  BY Unchanged
<1> HIDE DEF step
<1>6. PICK g : Solves(g, N, Spaces, p.ws, step)
  BY <1>1, <1>3, <1>5, RecursionExists
<1>7. /\ g \in [0 .. N -> Spaces] /\ g[0] = p.ws
      /\ \A n \in 1 .. N : g[n] = step[n][g[n - 1]]
  BY <1>6 DEF Solves
<1>8. g = [n \in 0 .. N |-> IF n = 0 THEN p.ws ELSE ShiftWin(t, f[n], g[n - 1])]
  <2>1. ASSUME NEW n \in 0 .. N, n # 0 PROVE g[n] = ShiftWin(t, f[n], g[n - 1])
    <3>1. n \in 1 .. N /\ n - 1 \in 0 .. N
      BY <1>1, <2>1
    <3>2. g[n - 1] \in Spaces
      BY <1>7, <3>1
    <3>3. QED
      BY <1>4, <1>7, <3>1, <3>2
  <2>2. \A n \in 0 .. N : g[n] = IF n = 0 THEN p.ws ELSE ShiftWin(t, f[n], g[n - 1])
    BY <1>7, <2>1
  <2>3. QED
    BY <1>7, <2>2
<1>9. \E h : Moves(h, p, w, t)
  BY <1>8 DEF Moves, f, N
<1> DEFINE moved == CHOOSE h : Moves(h, p, w, t)
<1>10. Moves(moved, p, w, t)
  BY <1>9
<1>11. ShiftFamily(w, t, p) = [p EXCEPT !.ws = moved[N]]
  BY DEF ShiftFamily, Moves, Family, f, N
<1> HIDE DEF moved
<1>12. /\ moved[0] = p.ws
       /\ \A n \in 1 .. N : moved[n] = ShiftWin(t, f[n], moved[n - 1])
  <2>1. \A n \in 0 .. N : moved[n] = IF n = 0 THEN p.ws ELSE ShiftWin(t, f[n], moved[n - 1])
    BY <1>10 DEF Moves, f, N
  <2>2. 0 \in 0 .. N /\ \A n \in 1 .. N : n \in 0 .. N /\ n # 0
    BY <1>1
  <2>3. QED
    BY <2>1, <2>2
<1>13. QED
  BY <1>11, <1>12 DEF WithSpace, f, N

\* new has the windows of s and shows the workspaces s shows.
Shifted(s, new) ==
  Changed(s, new) /\ SameScreens(s, new) /\ CurrentTag(new) = CurrentTag(s)

\* Shifting twice is shifting.
LEMMA ShiftedTransitive ==
  ASSUME NEW s, NEW r, NEW new, Shifted(s, r), Shifted(r, new)
  PROVE  Shifted(s, new)
  BY ChangedTransitive DEF Shifted, SameScreens

\* Shifting a window shows the workspaces shown before.
LEMMA ShiftWinShifts ==
  ASSUME NEW s \in Spaces, NEW w, NEW t
  PROVE  Shifted(s, s) /\ Shifted(s, ShiftWin(t, w, s))
<1>1. Shifted(s, s)
  BY DEF Shifted, Changed, Rearranged, Spaces, SameScreens
<1>2. CASE t \in Tags
  <2>1. SameScreens(s, ShiftWin(t, w, s)) /\ CurrentTag(ShiftWin(t, w, s)) = CurrentTag(s)
    BY <1>2, ShiftWinArranges DEF Spaces
  <2>2. QED
    BY <1>1, <2>1, ShiftWinChanges DEF Shifted
<1>3. CASE t \notin Tags
  <2>1. ToSet(s.order) = Tags
    BY WellParts DEF Spaces
  <2>2. ShiftWin(t, w, s) = s
    BY <1>3, <2>1 DEF ShiftWin
  <2>3. QED
    BY <1>1, <2>2
<1>4. QED
  BY <1>2, <1>3

\* Shifting a family changes the stack set only.
LEMMA ShiftFamilyFit ==
  ASSUME NEW p, Fit(p), NEW w, NEW t
  PROVE  \E s : ShiftFamily(w, t, p) = WithSpace(s, p) /\ Shifted(p.ws, s)
<1> DEFINE f == Family(p, w)
           N == Len(f)
<1>1. N \in Nat
  BY FamilyList
<1>2. PICK g : /\ g[0] = p.ws /\ \A n \in 1 .. N : g[n] = ShiftWin(t, f[n], g[n - 1])
               /\ ShiftFamily(w, t, p) = WithSpace(g[N], p)
  BY FamilyMoves
<1> HIDE DEF f, N
<1> DEFINE T == {n \in 0 .. N : Shifted(p.ws, g[n])}
<1>3. 0 \in T
  <2>1. p.ws \in Spaces
    BY Unchanged
  <2>2. QED
    BY <1>1, <1>2, <2>1, ShiftWinShifts
<1>4. ASSUME NEW n \in 1 .. N, n - 1 \in T PROVE n \in T
  <2>1. Shifted(p.ws, g[n - 1])
    BY <1>4
  <2>2. g[n - 1] \in Spaces
    BY <2>1 DEF Shifted, Changed, Rearranged, Spaces
  <2>3. Shifted(g[n - 1], g[n])
    BY <1>2, <2>2, ShiftWinShifts
  <2>4. Shifted(p.ws, g[n])
    BY <2>1, <2>3, ShiftedTransitive
  <2>5. n \in 0 .. N
    BY <1>1
  <2>6. QED
    BY <2>4, <2>5
<1>5. N \in 0 .. N
  BY <1>1
<1>6. N \in T
  <2> HIDE DEF T
  <2>1. QED
    BY <1>1, <1>3, <1>4, <1>5, UpTo
<1>7. QED
  BY <1>2, <1>6

=============================================================================
