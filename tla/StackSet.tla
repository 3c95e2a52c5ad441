------------------------------ MODULE StackSet ------------------------------
(***************************************************************************)
(* The window-manager data structure of vendor/XMonad/StackSet.hs: a set   *)
(* of workspaces, each with a zipper of windows, some of them on screens.  *)
(*                                                                         *)
(* A stack set is a record                                                 *)
(*   order  the tags of current : visible ++ hidden, in that order         *)
(*   outs   the outputs of the screens, current first: workspace order[i]  *)
(*          is on outs[i] for i <= Len(outs), the others are hidden        *)
(*   stack  each tag's stack of windows                                    *)
(*                                                                         *)
(* A zipper (focus, up, down) is kept as the list it integrates to and the *)
(* position of the focus: up is the reversed prefix before the focus, down *)
(* the suffix after it. The empty list with position 0 is a workspace with *)
(* no stack. Layouts and screen rectangles are not part of this module.    *)
(***************************************************************************)
EXTENDS Lists

\* Window and output identifiers are positive; the bridge's null is 0.
NoWindow == 0
NoOutput == 0

NoStack == [list |-> <<>>, pos |-> 0]

\* The place of x in the sequence s, which holds it.
IndexOf(x, s) == CHOOSE i \in DOMAIN s : s[i] = x

\* s with the elements at i and j exchanged.
Exchange(s, i, j) == [s EXCEPT ![i] = s[j], ![j] = s[i]]

\* The smaller of two numbers.
AtMost(a, b) == IF a <= b THEN a ELSE b

-----------------------------------------------------------------------------
(* What a stack set is *)

\* The records with tags in T, outputs in O and windows in W.
StackSets(T, O, W) ==
  [order : Seq(T), outs : Seq(O), stack : [T -> [list : Seq(W), pos : Nat]]]

\* The windows of a stack set.
Placed(s) == UNION {ToSet(s.stack[t].list) : t \in DOMAIN s.stack}

\* No window is in a stack twice and the focus is one of them.
StackArranged(st) ==
  /\ IsInjective(st.list)
  /\ IF st.list = <<>> THEN st.pos = 0 ELSE st.pos \in DOMAIN st.list

\* Every tag is in the order once, at least one workspace is on a screen and
\* no two are on one; no window is on two workspaces.
Arranged(s) ==
  /\ ToSet(s.order) = DOMAIN s.stack /\ IsInjective(s.order)
  /\ Len(s.outs) \in 1 .. Len(s.order) /\ IsInjective(s.outs)
  /\ \A t \in DOMAIN s.stack : StackArranged(s.stack[t])
  /\ \A t, u \in DOMAIN s.stack :
       t # u => ToSet(s.stack[t].list) \cap ToSet(s.stack[u].list) = {}

\* The workspace an output shows, and that every output shows the same one.
TagOn(o, s) == s.order[IndexOf(o, s.outs)]
SameScreens(s, new) ==
  /\ ToSet(new.outs) = ToSet(s.outs)
  /\ \A o \in ToSet(s.outs) : TagOn(o, new) = TagOn(o, s)

-----------------------------------------------------------------------------
(* One stack *)

\* The focus and the order of the windows in K; the focus moves down to the
\* next kept window, or up to the last one when none is below it.
FilterStack(K, st) ==
  LET kept == Kept(st.list, K)
      before == {i \in 1 .. st.pos - 1 : st.list[i] \in K}
  IN  [list |-> kept, pos |-> AtMost(Cardinality(before) + 1, Len(kept))]

\* w above the focus of st, and focused.
InsertAbove(w, st) ==
  IF st = NoStack THEN [list |-> <<w>>, pos |-> 1]
                  ELSE [st EXCEPT !.list = InsertAt(@, st.pos, w)]

FocusUpIn(st) == [st EXCEPT !.pos = IF @ > 1 THEN @ - 1 ELSE Len(st.list)]

FocusDownIn(st) == [st EXCEPT !.pos = IF @ < Len(st.list) THEN @ + 1 ELSE 1]

\* The focus and its upper neighbour change places; a focused first window
\* wraps round to the end and the others move up.
SwapUpIn(st) ==
  IF st.pos > 1
  THEN [list |-> Exchange(st.list, st.pos - 1, st.pos), pos |-> st.pos - 1]
  ELSE [list |-> Append(Tail(st.list), Head(st.list)), pos |-> Len(st.list)]

SwapDownIn(st) ==
  IF st.pos < Len(st.list)
  THEN [list |-> Exchange(st.list, st.pos, st.pos + 1), pos |-> st.pos + 1]
  ELSE [list |-> <<Last(st.list)>> \o Front(st.list), pos |-> 1]

\* The focus becomes the master, the old master takes its place.
SwapMasterIn(st) == [list |-> Exchange(st.list, 1, st.pos), pos |-> 1]

-----------------------------------------------------------------------------
(* Queries *)

CurrentTag(s) == s.order[1]
Current(s) == s.stack[CurrentTag(s)]

\* The focused window of the current workspace.
Peek(s) == IF Current(s) = NoStack THEN NoWindow
                                   ELSE Current(s).list[Current(s).pos]

\* The windows of the current workspace, in order.
Index(s) == Current(s).list

Holds(s, t, w) == w \in ToSet(s.stack[t].list)
Member(w, s) == \E t \in ToSet(s.order) : Holds(s, t, w)

\* The tag of the first workspace that holds w, which is in s.
FindTag(w, s) ==
  s.order[CHOOSE i \in DOMAIN s.order :
            /\ Holds(s, s.order[i], w)
            /\ \A j \in 1 .. i - 1 : ~Holds(s, s.order[j], w)]

-----------------------------------------------------------------------------
(* Changes of the whole structure *)

\* Screen k becomes current and the current screen the first visible one.
RaiseScreen(k, s) ==
  [s EXCEPT !.order = <<@[k]>> \o RemoveAt(@, k),
            !.outs  = <<@[k]>> \o RemoveAt(@, k)]

\* Hidden workspace k is shown on the current screen; the one it replaces
\* becomes the first hidden workspace.
RaiseHidden(k, s) ==
  LET o == s.order
      n == Len(s.outs)
  IN  [s EXCEPT !.order = <<o[k]>> \o SubSeq(o, 2, n) \o <<o[1]>>
                          \o SubSeq(o, n + 1, k - 1) \o SubSeq(o, k + 1, Len(o))]

View(t, s) ==
  IF t \notin ToSet(s.order) THEN s
  ELSE LET k == IndexOf(t, s.order)
       IN  IF k = 1 THEN s
           ELSE IF k <= Len(s.outs) THEN RaiseScreen(k, s)
           ELSE RaiseHidden(k, s)

\* F applied to the current stack when it has a window.
Modify(F(_), s) ==
  IF Current(s) = NoStack THEN s
  ELSE [s EXCEPT !.stack[CurrentTag(s)] = F(@)]

InsertUp(w, s) ==
  IF Member(w, s) THEN s
  ELSE [s EXCEPT !.stack[CurrentTag(s)] = InsertAbove(w, @)]

\* A variant for mutation: only the current workspace is searched.
DeleteHere(w, s) ==
  [s EXCEPT !.stack[CurrentTag(s)] = FilterStack(ToSet(@.list) \ {w}, @)]

Delete(w, s) ==
  [s EXCEPT !.stack = [t \in DOMAIN @ |-> FilterStack(ToSet(@[t].list) \ {w}, @[t])]]

\* The workspace of w is viewed and the focus rotated up until it is on w.
FocusWindow(w, s) ==
  IF Peek(s) = w \/ ~Member(w, s) THEN s
  ELSE LET viewed == View(FindTag(w, s), s)
       IN  [viewed EXCEPT !.stack[CurrentTag(viewed)].pos =
                            IndexOf(w, Index(viewed))]

\* F with t as the current workspace; the current one is viewed again after.
OnWorkspace(t, F(_), s) == View(CurrentTag(s), F(View(t, s)))

\* A variant for mutation: workspace t stays viewed.
ShiftWinFollowing(t, w, s) ==
  IF ~Member(w, s) \/ t \notin ToSet(s.order) \/ FindTag(w, s) = t THEN s
  ELSE InsertUp(w, View(t, Delete(w, s)))

\* w moves to workspace t, above and instead of the focus there.
ShiftWin(t, w, s) ==
  IF ~Member(w, s) \/ t \notin ToSet(s.order) \/ FindTag(w, s) = t THEN s
  ELSE LET Take(x) == Delete(w, x)
           Put(x) == InsertUp(w, x)
       IN  OnWorkspace(t, Put, OnWorkspace(FindTag(w, s), Take, s))

=============================================================================
