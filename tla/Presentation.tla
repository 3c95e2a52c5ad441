----------------------------- MODULE Presentation -----------------------------
(***************************************************************************)
(* How bridge.c presents the windows as the policy asks: the fullscreen    *)
(* state and the obligation to restore a window after it (xw_set_mode,     *)
(* xw_set_window), the keyboard focus of the primary seat (xw_focus), and  *)
(* what is shown and in which order by a render sequence.                  *)
(*                                                                         *)
(* A manage sequence is one action: it takes the policy's answer, one      *)
(* place per window, from all that renderPolicy can give. Whether the      *)
(* session is locked or a layer surface has the keyboard while a sequence  *)
(* runs is a choice of that sequence; modules Bridge and Policy model how  *)
(* it comes about. River's side of the protocol is state of its own. Other *)
(* seats than the primary one are there to take its place only.            *)
(* Positions and sizes are left out: whether they are defined is kept. An  *)
(* exception or a failure, after which nothing is presented anew, is the   *)
(* subject of Bridge and Shutdown.                                         *)
(***************************************************************************)
EXTENDS Lists

CONSTANTS
  MaxWindows,   \* bound on the windows ever created
  MaxOutputs    \* bound on the outputs ever created

ASSUME PresentationAssumption == MaxWindows \in Nat /\ MaxOutputs \in Nat

VARIABLES
  nextWindow, nextOutput,   \* the last identifiers given
  windows,        \* window records, by identifier in list order
  outputs,        \* outputs that exist, and of these
  gone,           \* those that were removed since the last manage sequence
  seat,           \* the next manage sequence will have a primary seat
  phase,          \* "new" before any manage sequence, "managed", "rendered"
  answer,         \* the places of the policy's last answer
  fullscreen,     \* River: the output each window is fullscreen on, 0 if none
  undefined,      \* River: windows without position and dimensions
  focus,          \* River: the window the primary seat was told to focus, 0 if none
  raised,         \* the window the last render sequence raised as the focused one
  stacked         \* River: the nodes shown, bottom first, since the last render

lifecycleVars == <<nextWindow, nextOutput, outputs, gone>>
riverVars == <<fullscreen, undefined, focus, raised, stacked>>
vars == <<lifecycleVars, seat, windows, phase, answer, riverVars>>

-----------------------------------------------------------------------------

WindowIds == 1 .. MaxWindows
OutputIds == 1 .. MaxOutputs

Place == [kind : {"hidden", "tile", "float"}, output : {0}]
           \cup [kind : {"fullscreen"}, output : OutputIds]

WindowRecord ==
  [parent : 0 .. MaxWindows, closed : BOOLEAN, configured : BOOLEAN, floating : BOOLEAN,
   visible : BOOLEAN, focused : BOOLEAN, fullscreenOutput : 0 .. MaxOutputs,
   exitedFullscreen : BOOLEAN]

NewWindow ==
  [parent |-> 0, closed |-> FALSE, configured |-> FALSE, floating |-> FALSE,
   visible |-> FALSE, focused |-> FALSE, fullscreenOutput |-> 0, exitedFullscreen |-> FALSE]

\* find_window
Live == {w \in DOMAIN windows : ~windows[w].closed}

Init ==
  /\ nextWindow = 0 /\ nextOutput = 0
  /\ windows = [w \in {} |-> NewWindow]
  /\ outputs = {} /\ gone = {} /\ seat = FALSE
  /\ phase = "new" /\ answer = [w \in {} |-> 0]
  /\ fullscreen = [w \in {} |-> 0] /\ undefined = {}
  /\ focus = 0 /\ raised = 0 /\ stacked = <<>>

-----------------------------------------------------------------------------
(* Events of the compositor *)

WindowCreated ==
  /\ nextWindow < MaxWindows
  /\ nextWindow' = nextWindow + 1
  /\ windows' = [w \in DOMAIN windows \cup {nextWindow'} |->
                   IF w = nextWindow' THEN NewWindow ELSE windows[w]]
  /\ fullscreen' = [w \in DOMAIN windows' |-> IF w = nextWindow' THEN 0 ELSE fullscreen[w]]
  /\ UNCHANGED <<nextOutput, outputs, gone, seat, phase, answer, undefined, focus, raised, stacked>>

WindowClosed(w) ==
  /\ w \in Live
  /\ windows' = [windows EXCEPT ![w].closed = TRUE]
  /\ UNCHANGED <<lifecycleVars, seat, phase, answer, riverVars>>

\* The protocol promises a tree, the code does not count on it.
WindowParent(w, parent) ==
  /\ w \in Live /\ parent \in Live \cup {0}
  /\ windows' = [windows EXCEPT ![w].parent = parent]
  /\ UNCHANGED <<lifecycleVars, seat, phase, answer, riverVars>>

OutputCreated ==
  /\ nextOutput < MaxOutputs
  /\ nextOutput' = nextOutput + 1
  /\ outputs' = outputs \cup {nextOutput'}
  /\ UNCHANGED <<nextWindow, windows, gone, seat, phase, answer, riverVars>>

\* A window that is fullscreen there is so no longer, as if it had been asked.
OutputRemoved(o) ==
  /\ o \in outputs \ gone
  /\ gone' = gone \cup {o}
  /\ fullscreen' = [w \in DOMAIN fullscreen |-> IF fullscreen[w] = o THEN 0 ELSE fullscreen[w]]
  /\ undefined' = undefined \cup {w \in DOMAIN fullscreen : fullscreen[w] = o}
  /\ UNCHANGED <<nextWindow, nextOutput, outputs, seat, windows, phase, answer, focus, raised,
                 stacked>>

\* The first seat becomes the primary one; more of them change nothing here.
SeatCreated ==
  /\ ~seat /\ seat' = TRUE
  /\ UNCHANGED <<lifecycleVars, windows, phase, answer, riverVars>>

\* The primary seat goes, and its focus with it. Another seat takes its place
\* in the next manage sequence, if there is one: it was never told to focus.
SeatRemoved ==
  /\ seat /\ seat' \in BOOLEAN
  /\ focus' = 0
  /\ UNCHANGED <<lifecycleVars, windows, phase, answer, fullscreen, undefined, raised, stacked>>

-----------------------------------------------------------------------------
(* The manage sequence *)

\* What renderPolicy can answer: places on the outputs there are, and nothing
\* besides a fullscreen window on its output.
Answers ==
  LET places == {p \in Place : p.output \in {0} \cup (outputs \ gone)}
  IN  {a \in [Live -> places] :
         LET full == {w \in Live : a[w].kind = "fullscreen"}
             taken == {a[w].output : w \in full}
         IN  /\ \A v, w \in full : a[v].output = a[w].output => v = w
             /\ taken = outputs \ gone => \A w \in Live \ full : a[w].kind = "hidden"}

\* focusedWindow: none while the session is locked.
FocusOf(a, session) ==
  {0} \cup IF session = "locked" THEN {} ELSE {w \in Live : a[w].kind # "hidden"}

\* A variant for mutation: what a window loses by leaving fullscreen is not noted.
SetModeOnly(r, place) ==
  [r EXCEPT !.floating = (place.kind = "float"), !.fullscreenOutput = place.output]

\* xw_set_mode, on a window record.
SetMode(r, place) ==
  IF place.output = 0 /\ r.fullscreenOutput # 0
  THEN [r EXCEPT !.floating = (place.kind = "float"), !.fullscreenOutput = 0,
                 !.exitedFullscreen = TRUE]
  ELSE [r EXCEPT !.floating = (place.kind = "float"), !.fullscreenOutput = place.output]

\* A variant for mutation: a fullscreen window is left where it is.
FullscreensOnce(r, place) == place.output # 0 /\ r.fullscreenOutput = 0

\* The requests xw_set_mode makes: fullscreen on another output than before, or exit.
Fullscreens(r, place) == place.output # 0 /\ r.fullscreenOutput # place.output

Exits(r, place) == place.output = 0 /\ r.fullscreenOutput # 0

\* xw_set_window proposes dimensions to what is shown,
Proposes(r) == r.visible /\ r.fullscreenOutput = 0

\* A variant for mutation: a hidden window forgets what it is owed.
RestoresEarly(r) == r.fullscreenOutput = 0 /\ r.exitedFullscreen

\* and sets the position it is owed since it left fullscreen.
Restores(r) == r.visible /\ r.fullscreenOutput = 0 /\ r.exitedFullscreen

\* A variant for mutation: a layer surface with the keyboard is not asked.
SetWindowUnderLayer(r, visible, focused, session) ==
  LET shown == [r EXCEPT !.visible = visible, !.focused = focused]
  IN  [shown EXCEPT !.exitedFullscreen = @ /\ ~Restores(shown)]

SetWindow(r, visible, focused, session) ==
  LET shown == [r EXCEPT !.visible = visible, !.focused = focused /\ session # "layer"]
  IN  [shown EXCEPT !.exitedFullscreen = @ /\ ~Restores(shown)]

\* The session is locked, a layer surface has the keyboard of the primary seat,
\* or neither.
Sessions == {"open", "locked"} \cup IF seat THEN {"layer"} ELSE {}

\* xw_focus makes no request without a primary seat, nor against a layer
\* surface; the window is one the policy shows.
SetFocus(w, session) == focus' = IF ~seat \/ session = "layer" THEN focus ELSE w

\* update_lifecycle and event 7. Closed windows and removed outputs are gone
\* from both sides; every other window has a node and gets a place.
ManageStart ==
  /\ phase # "managed"
  /\ \E session \in Sessions :
       \E a \in Answers : \E f \in FocusOf(a, session) :
         LET mode == [w \in Live |-> SetMode([windows[w] EXCEPT !.configured = TRUE], a[w])]
             shown == [w \in Live |-> [mode[w] EXCEPT !.visible = a[w].kind # "hidden"]]
             record == [w \in Live |-> SetWindow(mode[w], a[w].kind # "hidden", w = f, session)]
             owed == (undefined \cap Live) \cup {w \in Live : Exits(windows[w], a[w])}
         IN  /\ windows' = record
             /\ fullscreen' = [w \in Live |->
                                 IF Fullscreens(windows[w], a[w]) THEN mode[w].fullscreenOutput
                                 ELSE IF Exits(windows[w], a[w]) THEN 0
                                 ELSE fullscreen[w]]
             /\ undefined' = owed \ {w \in Live : Proposes(shown[w]) /\ Restores(shown[w])}
             /\ answer' = a
             /\ SetFocus(f, session)
  /\ outputs' = outputs \ gone /\ gone' = {}
  /\ phase' = "managed"
  /\ stacked' = <<>>
  /\ UNCHANGED <<nextWindow, nextOutput, seat, raised>>

-----------------------------------------------------------------------------
(* The render sequence *)

\* Nodes that are placed: of live windows that are visible.
Shown == {w \in Live : windows[w].configured /\ windows[w].visible}

FloatingParent(w) ==
  LET parent == windows[w].parent
  IN  IF parent \in Live /\ windows[parent].floating THEN parent ELSE 0

\* The windows a climb from w to floating parents meets, 0 after the last.
Ancestors(w) ==
  LET climb[n \in 0 .. Cardinality(DOMAIN windows)] ==
        IF n = 0 THEN w
        ELSE IF climb[n - 1] = 0 THEN 0 ELSE FloatingParent(climb[n - 1])
  IN  climb

\* The length of the climb, bounded by the number of windows: a circle of
\* parents ends it there.
StackingDepth(w) ==
  LET count == Cardinality(DOMAIN windows)
  IN  CHOOSE depth \in 1 .. count :
        /\ depth = count \/ Ancestors(w)[depth] = 0
        /\ \A n \in 1 .. depth - 1 : Ancestors(w)[n] # 0

\* A request for w, which may be none.
Only(w) == IF w = 0 THEN <<>> ELSE <<w>>

Floats == {w \in Shown : windows[w].floating}
FloatsAt(depth) == {w \in Floats : StackingDepth(w) = depth}

\* A variant for mutation: floats are placed in list order, whatever they are of.
PlacedInListOrder(f) ==
  Ascending(Shown \ Floats) \o Only(IF f \in Floats THEN 0 ELSE f)
    \o Ascending(Floats) \o Only(IF f \in Floats THEN f ELSE 0)

\* The order of the place_top requests: tiles, the focused tile, and floats
\* depth by depth, in each the focused one last.
Placed(f) ==
  LET count == Cardinality(DOMAIN windows)
      placed[depth \in 0 .. count] ==
        IF depth = 0 THEN Ascending(Shown \ Floats) \o Only(IF f \in Floats THEN 0 ELSE f)
        ELSE placed[depth - 1] \o (Ascending(FloatsAt(depth))
                                     \o Only(IF f \in FloatsAt(depth) THEN f ELSE 0))
  IN  placed[count]

\* Each request puts a node above all others, so the last one for it decides.
PlaceTop(requests) ==
  LET last == {i \in DOMAIN requests :
                 \A j \in i + 1 .. Len(requests) : requests[j] # requests[i]}
      at == Ascending(last)
  IN  [j \in DOMAIN at |-> requests[at[j]]]

FocusedRecord == {w \in Shown : windows[w].focused}

\* manager_render_start
RenderStart ==
  /\ phase # "new"
  /\ \E locked \in BOOLEAN :
       LET f == IF locked \/ FocusedRecord = {} THEN 0 ELSE CHOOSE w \in FocusedRecord : TRUE
       IN  /\ raised' = f
           /\ stacked' = PlaceTop(Placed(f))
  /\ phase' = "rendered"
  /\ UNCHANGED <<lifecycleVars, seat, windows, answer, fullscreen, undefined, focus>>

Next ==
  \/ WindowCreated \/ OutputCreated
  \/ \E w \in WindowIds : WindowClosed(w) \/ \E p \in 0 .. MaxWindows : WindowParent(w, p)
  \/ \E o \in OutputIds : OutputRemoved(o)
  \/ SeatCreated \/ SeatRemoved
  \/ ManageStart \/ RenderStart

Spec == Init /\ [][Next]_vars

-----------------------------------------------------------------------------
(* Properties *)

\* Every variable has its type, and no node is in the stack twice. River and
\* the bridge know the same windows.
TypeOK ==
  /\ nextWindow \in 0 .. MaxWindows /\ nextOutput \in 0 .. MaxOutputs
  /\ DOMAIN windows \subseteq 1 .. nextWindow
  /\ \A w \in DOMAIN windows : windows[w] \in WindowRecord
  /\ outputs \subseteq 1 .. nextOutput /\ gone \subseteq outputs
  /\ seat \in BOOLEAN /\ phase \in {"new", "managed", "rendered"}
  /\ DOMAIN answer \subseteq DOMAIN windows
  /\ \A w \in DOMAIN answer : answer[w] \in Place
  /\ DOMAIN fullscreen = DOMAIN windows
  /\ \A w \in DOMAIN windows : fullscreen[w] \in 0 .. nextOutput
  /\ undefined \subseteq DOMAIN windows
  /\ focus \in 0 .. nextWindow /\ raised \in 0 .. nextWindow
  /\ stacked \in Seq(1 .. nextWindow) /\ IsInjective(stacked)

\* The inductive invariant. The record says where the policy last put the
\* window and where River has it, until its output goes;
FullscreenKnown ==
  /\ \A w \in DOMAIN windows :
       fullscreen[w] = IF windows[w].fullscreenOutput \in gone THEN 0
                                                               ELSE windows[w].fullscreenOutput
  /\ \A w \in DOMAIN answer : windows[w].fullscreenOutput = answer[w].output

\* a window without position is owed one or has yet to leave fullscreen, and
\* is not shown as a tile or a float;
OwedKnown ==
  /\ \A w \in undefined : windows[w].exitedFullscreen \/ windows[w].fullscreenOutput # 0
  /\ \A w \in DOMAIN answer \cap undefined : answer[w].kind \notin {"tile", "float"}

\* no window but the one with the keyboard is recorded as focused, unless no
\* window has it: without a seat the record is made and the request is not.
FocusKnown ==
  /\ \A w \in DOMAIN windows : windows[w].focused => focus \in {0, w}
  /\ ~seat => focus = 0
  /\ phase = "rendered" /\ raised # 0 => focus \in {0, raised}

PresentationInv == TypeOK /\ FullscreenKnown /\ OwedKnown /\ FocusKnown

\* After any history of places, a window is fullscreen in River exactly where
\* the policy last put it, unless that output has gone since: requests are
\* made only on a difference, and the record they are compared with must not
\* drift from River, which ends fullscreen by itself when an output goes.
FullscreenAsAnswered ==
  \A w \in DOMAIN answer :
    answer[w].output \notin gone => fullscreen[w] = answer[w].output

\* bridge.c:1570, "Restore both in a manage transaction, retaining the
\* obligation while hidden": a window the policy shows as a tile or a float
\* has a position and dimensions in River, however often it was fullscreen,
\* hidden or left by its output in between.
RestoredWhenShown ==
  \A w \in DOMAIN answer : answer[w].kind \in {"tile", "float"} => w \notin undefined

\* A render sequence raises no window as the focused one while another has the
\* keyboard: the record that decides the stacking (xw_set_window) and the focus
\* request (xw_focus) have each conditions of their own, and between the manage
\* and the render sequence the session may be locked or the seat may go.
RaisedHasKeyboard == phase = "rendered" /\ raised # 0 => focus \in {0, raised}

\* Parents do not go round in a circle.
FloatsAreTrees ==
  \A S \in SUBSET DOMAIN windows : S # {} => \E w \in S : FloatingParent(w) \notin S

Under(v, w) == \E i, j \in DOMAIN stacked' : i < j /\ stacked'[i] = v /\ stacked'[j] = w

\* bridge.c:1051, "Floating dialogs must remain above tiles and their own
\* parents, including a focused floating parent". Every window shown is placed
\* once, circles of parents or not; the focused one is above other tiles, or
\* above other floats with its parent.
StacksInOrder ==
  [][phase = "managed" /\ phase' = "rendered" =>
       /\ ToSet(stacked') = Shown /\ IsInjective(stacked')
       /\ \A v, w \in Shown :
            \/ v = w
            \/ /\ windows[w].floating /\ ~windows[v].floating => Under(v, w)
               /\ windows[w].floating /\ FloatingParent(w) = v /\ FloatsAreTrees => Under(v, w)
               /\ /\ w = raised' /\ windows[v].floating = windows[w].floating
                  /\ windows[w].floating => FloatingParent(v) = FloatingParent(w)
                  => Under(v, w)]_vars

=============================================================================
