-------------------------- MODULE PresentationProofs --------------------------
(***************************************************************************)
(* Proofs about module Presentation, for any number of windows and of      *)
(* outputs: the record of the bridge against River's state, and the order  *)
(* of the stack that a render sequence leaves.                             *)
(***************************************************************************)
EXTENDS Presentation, ListProofs

\* A place is on an output exactly if it is fullscreen.
LEMMA PlaceOutput ==
  ASSUME NEW p \in Place
  PROVE  /\ p.output \in 0 .. MaxOutputs
         /\ p.output # 0 <=> p.kind = "fullscreen"
         /\ p.kind \in {"tile", "float"} => p.output = 0 /\ p.kind # "hidden"
BY PresentationAssumption DEF Place, OutputIds

\* What xw_set_mode records for a place.
LEMMA ModeRecorded ==
  ASSUME NEW r \in WindowRecord, NEW p \in Place
  PROVE  /\ SetMode(r, p) \in WindowRecord
         /\ SetMode(r, p).fullscreenOutput = p.output
         /\ SetMode(r, p).exitedFullscreen <=> r.exitedFullscreen \/ Exits(r, p)
<1>1. p.output \in 0 .. MaxOutputs /\ (p.kind = "float") \in BOOLEAN
  BY PlaceOutput
<1>2. CASE Exits(r, p)
  <2>1. SetMode(r, p) = [r EXCEPT !.floating = (p.kind = "float"), !.fullscreenOutput = 0,
                                  !.exitedFullscreen = TRUE]
    BY <1>2 DEF SetMode, Exits
  <2> DEFINE float == p.kind = "float"
  <2>2. float \in BOOLEAN /\ p.output = 0
    BY <1>2 DEF Exits
  <2> HIDE DEF float
  <2>3. [r EXCEPT !.floating = float, !.fullscreenOutput = 0, !.exitedFullscreen = TRUE] \in WindowRecord
    BY <1>1, <2>2 DEF WindowRecord
  <2>4. [r EXCEPT !.floating = float, !.fullscreenOutput = 0, !.exitedFullscreen = TRUE].fullscreenOutput = 0
    BY DEF WindowRecord
  <2>5. [r EXCEPT !.floating = float, !.fullscreenOutput = 0, !.exitedFullscreen = TRUE].exitedFullscreen
    BY DEF WindowRecord
  <2> QED BY <1>2, <2>1, <2>2, <2>3, <2>4, <2>5 DEF float
<1>3. CASE ~Exits(r, p)
  <2>1. SetMode(r, p) = [r EXCEPT !.floating = (p.kind = "float"), !.fullscreenOutput = p.output]
    BY <1>3 DEF SetMode, Exits
  <2> DEFINE float == p.kind = "float"
             out == p.output
  <2>2. float \in BOOLEAN /\ out \in 0 .. MaxOutputs
    BY <1>1
  <2> HIDE DEF float, out
  <2>3. [r EXCEPT !.floating = float, !.fullscreenOutput = out] \in WindowRecord
    BY <2>2 DEF WindowRecord
  <2>4. [r EXCEPT !.floating = float, !.fullscreenOutput = out].fullscreenOutput = out
    BY DEF WindowRecord
  <2>5. [r EXCEPT !.floating = float, !.fullscreenOutput = out].exitedFullscreen = r.exitedFullscreen
    BY DEF WindowRecord
  <2> QED BY <1>3, <2>1, <2>3, <2>4, <2>5 DEF float, out
<1> QED BY <1>2, <1>3

\* A window record that was not configured before differs in nothing else.
LEMMA Configured ==
  ASSUME NEW r \in WindowRecord
  PROVE  LET asked == [r EXCEPT !.configured = TRUE]
         IN  /\ asked \in WindowRecord /\ asked.fullscreenOutput = r.fullscreenOutput
             /\ asked.exitedFullscreen = r.exitedFullscreen
BY DEF WindowRecord

\* What xw_set_window records: the position owed is given to a window shown
\* outside fullscreen, and kept by any other.
LEMMA WindowRecorded ==
  ASSUME NEW r \in WindowRecord, NEW visible \in BOOLEAN, NEW focused \in BOOLEAN, NEW session
  PROVE  LET record == SetWindow(r, visible, focused, session)
         IN  /\ record \in WindowRecord
             /\ record.fullscreenOutput = r.fullscreenOutput
             /\ record.focused => focused /\ session # "layer"
             /\ r.exitedFullscreen /\ ~visible => record.exitedFullscreen
<1> DEFINE bit == focused /\ session # "layer"
           shown == [r EXCEPT !.visible = visible, !.focused = bit]
           owed == shown.exitedFullscreen /\ ~Restores(shown)
           record == [shown EXCEPT !.exitedFullscreen = owed]
<1>1. bit \in BOOLEAN /\ owed \in BOOLEAN
  BY DEF WindowRecord
<1>2. shown \in WindowRecord /\ shown.fullscreenOutput = r.fullscreenOutput
  <2> HIDE DEF bit
  <2> QED BY <1>1 DEF WindowRecord
<1>3. shown.visible = visible /\ shown.exitedFullscreen = r.exitedFullscreen /\ shown.focused = bit
  <2> HIDE DEF bit
  <2> QED BY DEF WindowRecord
<1>4. r.exitedFullscreen /\ ~visible => owed
  <2> HIDE DEF shown
  <2> QED BY <1>3 DEF Restores
<1>5. /\ record \in WindowRecord /\ record.fullscreenOutput = shown.fullscreenOutput
      /\ record.focused = shown.focused /\ record.exitedFullscreen = owed
  <2> HIDE DEF shown, owed
  <2> QED BY <1>1, <1>2 DEF WindowRecord
<1>6. SetWindow(r, visible, focused, session) = record
  BY DEF SetWindow
<1> HIDE DEF record, shown, owed
<1> QED BY <1>2, <1>3, <1>4, <1>5, <1>6

\* What a manage sequence makes of the windows that are left: the record and
\* River follow the answer, what is owed stays owed or is given.
LEMMA Managed ==
  ASSUME PresentationInv, ManageStart
  PROVE  /\ DOMAIN windows' = Live /\ DOMAIN fullscreen' = Live /\ DOMAIN answer' = Live
         /\ undefined' \subseteq Live /\ focus' \in 0 .. nextWindow
         /\ \A w \in Live :
              /\ windows'[w] \in WindowRecord /\ answer'[w] \in Place
              /\ answer'[w].output \in {0} \cup (outputs \ gone)
              /\ windows'[w].fullscreenOutput = answer'[w].output
              /\ fullscreen'[w] = answer'[w].output
              /\ w \in undefined' => /\ windows'[w].exitedFullscreen \/ answer'[w].output # 0
                                     /\ answer'[w].kind \notin {"tile", "float"}
              /\ windows'[w].focused => focus' \in {0, w}
         /\ ~seat => focus' = 0
<1> DEFINE asked(w) == [windows[w] EXCEPT !.configured = TRUE]
<1>a. PICK session \in Sessions, a \in Answers :
        \E f \in FocusOf(a, session) :
          LET mode == [w \in Live |-> SetMode(asked(w), a[w])]
              shown == [w \in Live |-> [mode[w] EXCEPT !.visible = a[w].kind # "hidden"]]
              record == [w \in Live |-> SetWindow(mode[w], a[w].kind # "hidden", w = f, session)]
              owed == (undefined \cap Live) \cup {w \in Live : Exits(windows[w], a[w])}
          IN  /\ windows' = record
              /\ fullscreen' = [w \in Live |->
                                  IF Fullscreens(windows[w], a[w]) THEN mode[w].fullscreenOutput
                                  ELSE IF Exits(windows[w], a[w]) THEN 0
                                  ELSE fullscreen[w]]
              /\ undefined' = owed \ {w \in Live : Proposes(shown[w]) /\ Restores(shown[w])}
              /\ answer' = a
              /\ SetFocus(f, session)
  BY Zenon DEF ManageStart
<1> DEFINE mode == [w \in Live |-> SetMode(asked(w), a[w])]
           shown == [w \in Live |-> [mode[w] EXCEPT !.visible = a[w].kind # "hidden"]]
           owed == (undefined \cap Live) \cup {w \in Live : Exits(windows[w], a[w])}
<1>1. PICK f \in FocusOf(a, session) :
        /\ windows' = [w \in Live |-> SetWindow(mode[w], a[w].kind # "hidden", w = f, session)]
        /\ fullscreen' = [w \in Live |->
                            IF Fullscreens(windows[w], a[w]) THEN mode[w].fullscreenOutput
                            ELSE IF Exits(windows[w], a[w]) THEN 0
                            ELSE fullscreen[w]]
        /\ undefined' = owed \ {w \in Live : Proposes(shown[w]) /\ Restores(shown[w])}
        /\ answer' = a
        /\ SetFocus(f, session)
  BY <1>a
<1> DEFINE record == [w \in Live |-> SetWindow(mode[w], a[w].kind # "hidden", w = f, session)]
<1>2. /\ windows' = record /\ answer' = a /\ SetFocus(f, session)
      /\ fullscreen' = [w \in Live |->
                          IF Fullscreens(windows[w], a[w]) THEN mode[w].fullscreenOutput
                          ELSE IF Exits(windows[w], a[w]) THEN 0
                          ELSE fullscreen[w]]
      /\ undefined' = owed \ {w \in Live : Proposes(shown[w]) /\ Restores(shown[w])}
  BY <1>1
<1>3. Live \subseteq DOMAIN windows /\ Live \subseteq 1 .. nextWindow /\ nextWindow \in Nat
  BY PresentationAssumption DEF Live, PresentationInv, TypeOK
<1>4. DOMAIN a = Live /\ \A w \in Live : a[w] \in Place /\ a[w].output \in {0} \cup (outputs \ gone)
  BY DEF Answers
<1>5. f \in {0} \cup Live
  BY DEF FocusOf
<1>6. /\ ~seat => focus' = 0
      /\ seat => focus' = f \/ (session = "layer" /\ focus' = focus)
  BY <1>2 DEF SetFocus, PresentationInv, FocusKnown
<1>7. ASSUME NEW w \in Live
      PROVE  /\ windows'[w] \in WindowRecord
             /\ windows'[w].fullscreenOutput = a[w].output
             /\ fullscreen'[w] = a[w].output
             /\ w \in undefined' => /\ windows'[w].exitedFullscreen \/ a[w].output # 0
                                    /\ a[w].kind \notin {"tile", "float"}
             /\ windows'[w].focused => focus' \in {0, w}
  <2>1. windows[w] \in WindowRecord /\ a[w] \in Place
    BY <1>3, <1>4 DEF PresentationInv, TypeOK
  <2>2. /\ asked(w) \in WindowRecord /\ asked(w).fullscreenOutput = windows[w].fullscreenOutput
        /\ asked(w).exitedFullscreen = windows[w].exitedFullscreen
    BY <2>1, Configured
  <2>3. /\ mode[w] \in WindowRecord /\ mode[w].fullscreenOutput = a[w].output
        /\ mode[w].exitedFullscreen <=> windows[w].exitedFullscreen \/ Exits(windows[w], a[w])
    <3>1. mode[w] = SetMode(asked(w), a[w])
      OBVIOUS
    <3> HIDE DEF mode, asked
    <3> QED BY <2>1, <2>2, <3>1, ModeRecorded DEF Exits
  <2> DEFINE visible == a[w].kind # "hidden"
             focused == w = f
  <2>4. visible \in BOOLEAN /\ focused \in BOOLEAN
    OBVIOUS
  <2>5. /\ windows'[w] \in WindowRecord /\ windows'[w].fullscreenOutput = mode[w].fullscreenOutput
        /\ windows'[w].focused => focused /\ session # "layer"
        /\ mode[w].exitedFullscreen /\ ~visible => windows'[w].exitedFullscreen
    <3>1. windows'[w] = SetWindow(mode[w], visible, focused, session)
      BY <1>2
    <3> HIDE DEF mode, visible, focused
    <3> QED BY <2>3, <2>4, <3>1, WindowRecorded
  <2>6. windows'[w].focused => focus' \in {0, w}
    BY <1>6, <2>5
  <2>7. fullscreen'[w] = a[w].output
    <3>1. fullscreen'[w] = IF Fullscreens(windows[w], a[w]) THEN mode[w].fullscreenOutput
                           ELSE IF Exits(windows[w], a[w]) THEN 0
                           ELSE fullscreen[w]
      BY <1>2
    <3>2. fullscreen[w] = IF windows[w].fullscreenOutput \in gone THEN 0
                                                                  ELSE windows[w].fullscreenOutput
      BY <1>3 DEF PresentationInv, FullscreenKnown
    <3>3. 0 \notin gone /\ a[w].output \notin gone
      BY <1>4 DEF PresentationInv, TypeOK
    <3> HIDE DEF mode
    <3> QED BY <2>3, <3>1, <3>2, <3>3 DEF Fullscreens, Exits
  <2>8. ASSUME w \in undefined'
        PROVE  /\ windows'[w].exitedFullscreen \/ a[w].output # 0
               /\ a[w].kind \notin {"tile", "float"}
    <3>1. w \in owed /\ ~(Proposes(shown[w]) /\ Restores(shown[w]))
      BY <1>2, <2>8
    <3>2. mode[w].exitedFullscreen \/ a[w].output # 0
      <4>1. CASE w \in undefined
        BY <2>1, <2>3, <4>1 DEF PresentationInv, OwedKnown, Exits
      <4>2. CASE Exits(windows[w], a[w])
        BY <2>3, <4>2
      <4> QED BY <3>1, <4>1, <4>2
    <3>3. /\ shown[w].visible = visible /\ shown[w].fullscreenOutput = a[w].output
          /\ shown[w].exitedFullscreen = mode[w].exitedFullscreen
      <4>1. shown[w] = [mode[w] EXCEPT !.visible = visible]
        OBVIOUS
      <4> HIDE DEF mode, shown, visible
      <4> QED BY <2>3, <4>1 DEF WindowRecord
    <3>4. ~visible \/ a[w].output # 0
      <4> HIDE DEF shown, mode, visible
      <4> QED BY <3>1, <3>2, <3>3 DEF Proposes, Restores
    <3>5. a[w].kind \notin {"tile", "float"}
      BY <2>1, <3>4, PlaceOutput
    <3> HIDE DEF mode, visible
    <3> QED BY <2>5, <3>2, <3>4, <3>5
  <2> HIDE DEF mode
  <2> QED BY <2>3, <2>5, <2>6, <2>7, <2>8
<1>8. DOMAIN windows' = Live /\ DOMAIN fullscreen' = Live /\ undefined' \subseteq Live
  BY <1>2
<1>9. focus' \in 0 .. nextWindow
  BY <1>3, <1>5, <1>6 DEF PresentationInv, TypeOK
<1> HIDE DEF record, mode, shown, owed, asked
<1> QED BY <1>2, <1>4, <1>6, <1>7, <1>8, <1>9

\* A render sequence raises a focused record, if any.
LEMMA RaisedRecorded ==
  ASSUME RenderStart
  PROVE  raised' \in {0} \cup FocusedRecord
<1>1. PICK locked \in BOOLEAN :
        raised' = IF locked \/ FocusedRecord = {} THEN 0 ELSE CHOOSE w \in FocusedRecord : TRUE
  BY DEF RenderStart
<1>2. FocusedRecord # {} => (CHOOSE w \in FocusedRecord : TRUE) \in FocusedRecord
  OBVIOUS
<1> QED BY <1>1, <1>2

-----------------------------------------------------------------------------
(* The stack that requests leave *)

\* A request for w comes after all for v.
Over(r, v, w) == \E j \in DOMAIN r : r[j] = w /\ \A i \in DOMAIN r : r[i] = v => i < j

\* The requests after which none is for the same node.
Decisive(r) == {i \in DOMAIN r : \A j \in i + 1 .. Len(r) : r[j] # r[i]}

\* There is one for every node.
LEMMA LastRequest ==
  ASSUME NEW W, NEW r \in Seq(W), NEW x \in ToSet(r)
  PROVE  \E i \in Decisive(r) : r[i] = x
<1>1. Len(r) \in Nat /\ DOMAIN r = 1 .. Len(r)
  OBVIOUS
<1> DEFINE n == Len(r)
           S == {k \in 0 .. n - 1 : r[n - k] = x}
<1> HIDE DEF n
<1>2. PICK i \in DOMAIN r : r[i] = x
  BY DEF ToSet
<1>3. n - i \in S
  <2>1. n - i \in 0 .. n - 1 /\ n - (n - i) = i
    BY <1>1, <1>2 DEF n
  <2>2. QED
    BY <1>2, <2>1
<1>4. S \subseteq Nat
  OBVIOUS
<1>5. PICK k \in S : \A l \in S : k <= l
  BY <1>3, <1>4, LeastNumber
<1>6. k \in Nat /\ n \in Nat /\ n - k \in 1 .. n /\ r[n - k] = x
  BY <1>1, <1>5 DEF n
<1>7. ASSUME NEW j \in n - k + 1 .. n, r[j] = x PROVE FALSE
  <2>1. n - j \in 0 .. n - 1 /\ n - (n - j) = j /\ ~(k <= n - j)
    BY <1>6
  <2>2. n - j \in S
    BY <1>7, <2>1
  <2>3. QED
    BY <1>5, <2>1, <2>2
<1>8. n - k \in Decisive(r)
  <2>1. n - k \in DOMAIN r /\ \A j \in n - k + 1 .. Len(r) : r[j] # r[n - k]
    BY <1>1, <1>6, <1>7 DEF n
  <2>2. QED
    BY <2>1 DEF Decisive
<1>9. QED
  BY <1>6, <1>8

\* The stack holds each node requested once, in the order of the last requests.
LEMMA Stacked ==
  ASSUME NEW W, NEW r \in Seq(W)
  PROVE  LET s == PlaceTop(r)
         IN  /\ s \in Seq(W) /\ IsInjective(s) /\ ToSet(s) = ToSet(r)
             /\ \A v \in ToSet(r) : \A w : Over(r, v, w) =>
                  \E i, j \in DOMAIN s : i < j /\ s[i] = v /\ s[j] = w
<1> DEFINE I == Decisive(r)
           at == Ascending(I)
           s == PlaceTop(r)
<1>1. Len(r) \in Nat /\ DOMAIN r = 1 .. Len(r) /\ I \subseteq DOMAIN r
  BY DEF Decisive
<1>2. I \subseteq Nat /\ IsFiniteSet(I)
  <2>1. IsFiniteSet(1 .. Len(r))
    BY <1>1, FS_Interval
  <2>2. QED
    BY <1>1, <2>1, FS_Subset
<1>3. /\ at \in Seq(I) /\ DOMAIN at = 1 .. Cardinality(I) /\ Cardinality(I) \in Nat
      /\ ToSet(at) = I /\ IsInjective(at)
  BY <1>2, AscendingIsList
<1>4. \A i, j \in 1 .. Cardinality(I) : i < j => at[i] < at[j]
  BY <1>2, AscendingLists
<1>5. s = Picked(r, at)
  BY DEF PlaceTop, Picked, Decisive
<1> HIDE DEF at, s
<1>6. at \in Seq(DOMAIN r)
  BY <1>1, <1>3
<1>7. /\ s \in Seq(W) /\ DOMAIN s = DOMAIN at
      /\ \A j \in DOMAIN at : s[j] = r[at[j]]
      /\ ToSet(s) = MembersAt(r, I)
  BY <1>3, <1>5, <1>6, PickedMembers
<1>8. \A i \in DOMAIN at : at[i] \in I
  BY <1>3
<1>9. ToSet(s) = ToSet(r)
  <2>1. \A x \in ToSet(r) : \E i \in I : r[i] = x
    BY LastRequest
  <2> HIDE DEF I
  <2>2. \A i \in I : r[i] \in ToSet(r)
    BY <1>1 DEF ToSet
  <2>3. QED
    BY <1>7, <2>1, <2>2 DEF MembersAt
<1>10. ASSUME NEW a \in I, NEW b \in I, r[a] = r[b] PROVE ~(a < b)
  <2>1. a \in Nat /\ b \in Nat /\ b <= Len(r)
    BY <1>1
  <2>2. a < b => b \in a + 1 .. Len(r)
    BY <1>1, <2>1
  <2>3. QED
    BY <1>10, <2>2 DEF Decisive
<1>11. IsInjective(s)
  <2>1. SUFFICES ASSUME NEW i \in DOMAIN s, NEW j \in DOMAIN s, s[i] = s[j] PROVE i = j
    BY DEF IsInjective
  <2>2. at[i] \in I /\ at[j] \in I /\ r[at[i]] = r[at[j]]
    BY <1>7, <1>8, <2>1
  <2>3. ~(at[i] < at[j]) /\ ~(at[j] < at[i])
    BY <1>10, <2>2
  <2>4. at[i] \in Nat /\ at[j] \in Nat
    BY <1>2, <2>2
  <2>5. at[i] = at[j]
    BY <2>3, <2>4
  <2>6. QED
    BY <1>3, <1>7, <2>5 DEF IsInjective
<1>12. ASSUME NEW v \in ToSet(r), NEW w, Over(r, v, w)
       PROVE  \E i, j \in DOMAIN s : i < j /\ s[i] = v /\ s[j] = w
  <2>1. PICK k \in DOMAIN r : r[k] = w /\ \A i \in DOMAIN r : r[i] = v => i < k
    BY <1>12 DEF Over
  <2>2. w \in ToSet(r)
    BY <2>1 DEF ToSet
  <2>3. PICK a \in I : r[a] = v
    BY LastRequest
  <2>4. PICK b \in I : r[b] = w
    BY <2>2, LastRequest
  <2>5. a \in Nat /\ b \in Nat /\ k \in Nat /\ k <= Len(r) /\ a < k
    BY <1>1, <2>1, <2>3
  <2>6. ~(b < k)
    <3>1. b < k => k \in b + 1 .. Len(r)
      BY <1>1, <2>5
    <3>2. QED
      BY <2>1, <2>4, <3>1 DEF Decisive
  <2>7. a < b
    BY <2>5, <2>6
  <2>8. PICK i \in DOMAIN at : at[i] = a
    BY <1>3, <2>3 DEF ToSet
  <2>9. PICK j \in DOMAIN at : at[j] = b
    BY <1>3, <2>4 DEF ToSet
  <2>10. i \in Nat /\ j \in Nat /\ i # j /\ ~(j < i)
    <3>1. ~(b < a) /\ a # b
      BY <2>5, <2>7
    <3>2. i \in 1 .. Cardinality(I) /\ j \in 1 .. Cardinality(I)
      BY <1>3, <2>8, <2>9
    <3> HIDE DEF I
    <3>3. QED
      BY <1>3, <1>4, <2>8, <2>9, <3>1, <3>2
  <2>11. i < j
    BY <2>10
  <2>12. s[i] = v /\ s[j] = w
    BY <1>7, <2>3, <2>4, <2>8, <2>9
  <2>13. QED
    BY <1>7, <2>11, <2>12
<1>13. QED
  BY <1>7, <1>9, <1>11, <1>12 DEF s

\* Which request is the last, when others follow.
LEMMA OverConcatenated ==
  ASSUME NEW W, NEW a \in Seq(W), NEW b \in Seq(W), NEW v, NEW w
  PROVE  /\ w \in ToSet(b) /\ v \notin ToSet(b) => Over(a \o b, v, w)
         /\ Over(b, v, w) => Over(a \o b, v, w)
         /\ v \notin ToSet(b) /\ Over(a, v, w) => Over(a \o b, v, w)
<1> DEFINE c == a \o b
           n == Len(a)
<1>1. /\ n \in Nat /\ Len(b) \in Nat /\ DOMAIN a = 1 .. n /\ DOMAIN b = 1 .. Len(b)
      /\ DOMAIN c = 1 .. n + Len(b)
  BY Concatenated
<1>2. /\ \A i \in 1 .. n : c[i] = a[i]
      /\ \A i \in n + 1 .. n + Len(b) : i - n \in 1 .. Len(b) /\ c[i] = b[i - n]
  BY Concatenated
<1> HIDE DEF c, n
<1>3. \A i \in DOMAIN b : i + n \in DOMAIN c /\ i + n \in n + 1 .. n + Len(b) /\ (i + n) - n = i
  BY <1>1
<1>4. \A i \in DOMAIN c : \/ i \in DOMAIN a /\ c[i] = a[i]
                          \/ i > n /\ i - n \in DOMAIN b /\ c[i] = b[i - n]
  <2>1. \A i \in DOMAIN c : i \in 1 .. n \/ (i \in n + 1 .. n + Len(b) /\ i > n)
    BY <1>1
  <2>2. QED
    BY <1>1, <1>2, <2>1
<1>5. ASSUME w \in ToSet(b), v \notin ToSet(b) PROVE Over(c, v, w)
  <2>1. PICK j \in DOMAIN b : b[j] = w
    BY <1>5 DEF ToSet
  <2>2. j + n \in DOMAIN c /\ c[j + n] = w
    BY <1>2, <1>3, <2>1
  <2>3. ASSUME NEW i \in DOMAIN c, c[i] = v PROVE i < j + n
    <3>1. \A k \in DOMAIN b : b[k] # v
      BY <1>5 DEF ToSet
    <3>2. i \in DOMAIN a
      BY <1>4, <2>3, <3>1
    <3>3. QED
      BY <1>1, <2>1, <3>2
  <2>4. QED
    BY <2>2, <2>3 DEF Over
<1>6. ASSUME Over(b, v, w) PROVE Over(c, v, w)
  <2>1. PICK j \in DOMAIN b : b[j] = w /\ \A i \in DOMAIN b : b[i] = v => i < j
    BY <1>6 DEF Over
  <2>2. j + n \in DOMAIN c /\ c[j + n] = w
    BY <1>2, <1>3, <2>1
  <2>3. ASSUME NEW i \in DOMAIN c, c[i] = v PROVE i < j + n
    <3>1. CASE i \in DOMAIN a
      BY <1>1, <2>1, <3>1
    <3>2. CASE i - n \in DOMAIN b /\ c[i] = b[i - n]
      <4>1. i - n < j
        BY <2>1, <2>3, <3>2
      <4>2. i \in Nat /\ j \in Nat
        BY <1>1, <2>1
      <4>3. QED
        BY <1>1, <4>1, <4>2
    <3>3. QED
      BY <1>4, <3>1, <3>2
  <2>4. QED
    BY <2>2, <2>3 DEF Over
<1>7. ASSUME v \notin ToSet(b), Over(a, v, w) PROVE Over(c, v, w)
  <2>1. PICK j \in DOMAIN a : a[j] = w /\ \A i \in DOMAIN a : a[i] = v => i < j
    BY <1>7 DEF Over
  <2>2. j \in DOMAIN c /\ c[j] = w
    BY <1>1, <1>2, <2>1
  <2>3. \A i \in DOMAIN c : c[i] = v => i \in DOMAIN a /\ a[i] = v
    <3>1. \A k \in DOMAIN b : b[k] # v
      BY <1>7 DEF ToSet
    <3>2. QED
      BY <1>4, <3>1
  <2>4. QED
    BY <2>1, <2>2, <2>3 DEF Over
<1>8. QED
  BY <1>5, <1>6, <1>7 DEF c

\* A group of nodes in list order and the focused one of them again.
LEMMA FocusedLast ==
  ASSUME NEW S, S \subseteq Nat \ {0}, IsFiniteSet(S), NEW f
  PROVE  LET r == Ascending(S) \o Only(IF f \in S THEN f ELSE 0)
         IN  /\ r \in Seq(S) /\ ToSet(r) = S
             /\ f \in S => \A v : v # f => Over(r, v, f)
<1> DEFINE a == Ascending(S)
           b == Only(IF f \in S THEN f ELSE 0)
<1>1. a \in Seq(S) /\ ToSet(a) = S
  BY AscendingIsList
<1>2. b \in Seq(S) /\ ToSet(b) = {f} \cap S
  <2>1. CASE f \in S
    <3>1. f # 0
      BY <2>1
    <3>2. b = <<f>>
      BY <2>1, <3>1 DEF Only
    <3> HIDE DEF b
    <3>3. b \in Seq(S) /\ DOMAIN b = {1} /\ b[1] = f
      BY <2>1, <3>2
    <3>4. QED
      BY <2>1, <3>3 DEF ToSet
  <2>2. CASE f \notin S
    <3>1. b = <<>>
      BY <2>2 DEF Only
    <3> HIDE DEF b
    <3>2. b \in Seq(S) /\ DOMAIN b = {}
      BY <3>1
    <3>3. QED
      BY <2>2, <3>2 DEF ToSet
  <2>3. QED
    BY <2>1, <2>2
<1> HIDE DEF a, b
<1>3. a \o b \in Seq(S) /\ ToSet(a \o b) = S
  <2>1. ToSet(a \o b) = ToSet(a) \cup ToSet(b)
    BY <1>1, <1>2, ConcatenatedMembers
  <2>2. a \o b \in Seq(S)
    BY <1>1, <1>2, Concatenated
  <2>3. QED
    BY <1>1, <1>2, <2>1, <2>2
<1>4. ASSUME f \in S, NEW v, v # f PROVE Over(a \o b, v, f)
  <2>1. f \in ToSet(b) /\ v \notin ToSet(b)
    BY <1>2, <1>4
  <2>2. QED
    BY <1>1, <1>2, <2>1, OverConcatenated
<1>5. QED
  BY <1>3, <1>4 DEF a, b

-----------------------------------------------------------------------------
(* The depth of a window *)

\* Windows are finitely many positive numbers, among them those shown.
LEMMA WindowsFinite ==
  ASSUME TypeOK
  PROVE  /\ IsFiniteSet(DOMAIN windows) /\ DOMAIN windows \subseteq Nat \ {0}
         /\ Cardinality(DOMAIN windows) \in Nat
         /\ Shown \subseteq DOMAIN windows /\ Floats \subseteq Shown
         /\ \A w : FloatingParent(w) \in DOMAIN windows \cup {0}
<1>1. nextWindow \in Nat /\ DOMAIN windows \subseteq 1 .. nextWindow
  BY PresentationAssumption DEF TypeOK
<1>2. IsFiniteSet(1 .. nextWindow) /\ 1 .. nextWindow \subseteq Nat \ {0}
  BY <1>1, FS_Interval
<1>3. IsFiniteSet(DOMAIN windows) /\ Cardinality(DOMAIN windows) \in Nat
  BY <1>1, <1>2, FS_Subset, FS_CardinalityType
<1>4. Shown \subseteq DOMAIN windows /\ Floats \subseteq Shown
  BY DEF Shown, Live, Floats
<1>5. \A w : FloatingParent(w) \in DOMAIN windows \cup {0}
  BY DEF FloatingParent, Live
<1>6. QED
  BY <1>1, <1>2, <1>3, <1>4, <1>5

Count == Cardinality(DOMAIN windows)

\* The climb to the ancestors exists and goes from parent to parent.
LEMMA Climb ==
  ASSUME TypeOK, NEW w \in DOMAIN windows
  PROVE  LET up == Ancestors(w)
         IN  /\ up \in [0 .. Count -> DOMAIN windows \cup {0}]
             /\ up[0] = w
             /\ \A n \in 1 .. Count :
                  up[n] = IF up[n - 1] = 0 THEN 0 ELSE FloatingParent(up[n - 1])
<1> DEFINE S == DOMAIN windows \cup {0}
           N == Count
           Parent(v) == IF v = 0 THEN 0 ELSE FloatingParent(v)
           step == [n \in 1 .. N |-> [v \in S |-> Parent(v)]]
           Climbs(g) == g = [n \in 0 .. N |-> IF n = 0 THEN w ELSE Parent(g[n - 1])]
           up == CHOOSE g : Climbs(g)
<1>1. N \in Nat
  BY WindowsFinite DEF Count
<1>2. \A v \in S : Parent(v) \in S
  BY WindowsFinite
<1>3. w \in S
  OBVIOUS
<1>4. Ancestors(w) = up
  BY DEF Ancestors, Count
<1> HIDE DEF N, S, Parent
<1>5. step \in Steps(N, S)
  BY <1>2 DEF Steps
<1>6. \A n \in 1 .. N : \A v \in S : step[n][v] = Parent(v)
  OBVIOUS
<1> HIDE DEF step
<1>7. PICK g : Solves(g, N, S, w, step)
  BY <1>1, <1>3, <1>5, RecursionExists
<1>8. /\ g \in [0 .. N -> S] /\ g[0] = w
      /\ \A n \in 1 .. N : g[n] = step[n][g[n - 1]]
  BY <1>7 DEF Solves
<1>9. Climbs(g)
  <2>1. ASSUME NEW n \in 0 .. N, n # 0 PROVE g[n] = Parent(g[n - 1])
    <3>1. n \in 1 .. N /\ n - 1 \in 0 .. N
      BY <1>1, <2>1
    <3>2. g[n - 1] \in S
      BY <1>8, <3>1
    <3>3. QED
      BY <1>6, <1>8, <3>1, <3>2
  <2>2. QED
    BY <1>8, <2>1
<1>10. Climbs(up)
  BY <1>9
<1> HIDE DEF up
<1>11. /\ DOMAIN up = 0 .. N /\ up[0] = w
       /\ \A n \in 1 .. N : up[n] = Parent(up[n - 1]) /\ n - 1 \in 0 .. N /\ n \in 0 .. N
  <2>1. \A n \in 0 .. N : up[n] = IF n = 0 THEN w ELSE Parent(up[n - 1])
    BY <1>10
  <2>2. 0 \in 0 .. N /\ \A n \in 1 .. N : n \in 0 .. N /\ n # 0 /\ n - 1 \in 0 .. N
    BY <1>1
  <2>3. DOMAIN up = 0 .. N
    BY <1>10
  <2>4. QED
    BY <2>1, <2>2, <2>3
<1>12. \A n \in 0 .. N : up[n] \in S
  <2> DEFINE T == {n \in 0 .. N : up[n] \in S}
  <2>1. 0 \in T
    BY <1>1, <1>3, <1>11
  <2>2. \A n \in 1 .. N : n - 1 \in T => n \in T
    BY <1>2, <1>11
  <2> HIDE DEF T
  <2>3. \A n \in 0 .. N : n \in T
    BY <1>1, <2>1, <2>2, UpTo
  <2>4. QED
    BY <2>3 DEF T
<1>13. up \in [0 .. N -> S]
  <2>1. up = [n \in 0 .. N |-> up[n]]
    BY <1>10
  <2>2. QED
    BY <1>12, <2>1
<1>14. QED
  BY <1>4, <1>11, <1>13 DEF N, S, Parent

\* The climb ends at depth d: the loop of manager_render_start stops there.
Ends(w, d) ==
  /\ d \in 1 .. Count
  /\ d = Count \/ Ancestors(w)[d] = 0
  /\ \A n \in 1 .. d - 1 : Ancestors(w)[n] # 0

\* It ends at one depth, which is the depth of the window.
LEMMA DepthFound ==
  ASSUME TypeOK, NEW w \in DOMAIN windows
  PROVE  /\ Ends(w, StackingDepth(w))
         /\ \A d : Ends(w, d) => StackingDepth(w) = d
<1> DEFINE D == {d \in 1 .. Count : d = Count \/ Ancestors(w)[d] = 0}
<1>1. Count \in Nat /\ Count # 0
  BY WindowsFinite, FS_EmptySet DEF Count
<1>2. Count \in D /\ D \subseteq Nat
  BY <1>1
<1>3. PICK d \in D : \A e \in D : d <= e
  BY <1>2, LeastNumber
<1>4. Ends(w, d)
  <2>1. d \in 1 .. Count /\ (d = Count \/ Ancestors(w)[d] = 0)
    BY <1>3
  <2>2. ASSUME NEW n \in 1 .. d - 1 PROVE Ancestors(w)[n] # 0
    <3>1. n \in 1 .. Count /\ ~(d <= n)
      BY <1>1, <2>1
    <3>2. n \notin D
      BY <1>3, <3>1
    <3>3. QED
      BY <3>1, <3>2
  <2>3. QED
    BY <2>1, <2>2 DEF Ends
<1>5. StackingDepth(w) = CHOOSE e : e \in 1 .. Count /\ Ends(w, e)
  <2>1. StackingDepth(w) = CHOOSE e \in 1 .. Count :
                             /\ e = Count \/ Ancestors(w)[e] = 0
                             /\ \A n \in 1 .. e - 1 : Ancestors(w)[n] # 0
    BY DEF StackingDepth, Count
  <2>2. QED
    BY <2>1 DEF Ends
<1>6. Ends(w, StackingDepth(w))
  BY <1>4, <1>5 DEF Ends
<1>7. ASSUME NEW e, Ends(w, e), NEW c, Ends(w, c) PROVE ~(e < c)
  <2>1. e \in 1 .. Count /\ c \in 1 .. Count
    BY <1>7 DEF Ends
  <2>2. e < c => e \in 1 .. c - 1 /\ e # Count
    BY <1>1, <2>1
  <2>3. QED
    BY <1>7, <2>2 DEF Ends
<1>8. ASSUME NEW e, Ends(w, e) PROVE StackingDepth(w) = e
  <2>1. ~(e < StackingDepth(w)) /\ ~(StackingDepth(w) < e)
    BY <1>6, <1>7, <1>8
  <2>2. e \in 1 .. Count /\ StackingDepth(w) \in 1 .. Count
    BY <1>6, <1>8 DEF Ends
  <2>3. QED
    BY <1>1, <2>1, <2>2
<1>9. QED
  BY <1>6, <1>8

\* Windows with one parent are at one depth.
LEMMA SiblingsLevel ==
  ASSUME TypeOK, NEW v \in DOMAIN windows, NEW w \in DOMAIN windows,
         FloatingParent(v) = FloatingParent(w)
  PROVE  StackingDepth(v) = StackingDepth(w)
<1> DEFINE T == {n \in 0 .. Count : n = 0 \/ Ancestors(v)[n] = Ancestors(w)[n]}
<1>1. Count \in Nat /\ v # 0 /\ w # 0
  BY WindowsFinite DEF Count
<1>2. 0 \in T
  BY <1>1
<1>3. ASSUME NEW n \in 1 .. Count, n - 1 \in T PROVE n \in T
  <2>1. /\ Ancestors(v)[n] = IF Ancestors(v)[n - 1] = 0 THEN 0
                             ELSE FloatingParent(Ancestors(v)[n - 1])
        /\ Ancestors(w)[n] = IF Ancestors(w)[n - 1] = 0 THEN 0
                             ELSE FloatingParent(Ancestors(w)[n - 1])
    BY Climb
  <2>2. CASE n - 1 = 0
    <3>1. Ancestors(v)[n - 1] = v /\ Ancestors(w)[n - 1] = w
      BY <2>2, Climb
    <3>2. QED
      BY <1>1, <2>1, <3>1
  <2>3. CASE n - 1 # 0
    <3>1. Ancestors(v)[n - 1] = Ancestors(w)[n - 1]
      BY <1>3, <2>3
    <3>2. QED
      BY <1>1, <2>1, <3>1
  <2>4. QED
    BY <2>2, <2>3
<1> HIDE DEF T
<1>4. \A n \in 0 .. Count : n \in T
  BY <1>1, <1>2, <1>3, UpTo
<1>5. \A n \in 1 .. Count : Ancestors(v)[n] = Ancestors(w)[n]
  <2>1. \A n \in 1 .. Count : n \in 0 .. Count /\ n # 0
    BY <1>1
  <2>2. QED
    BY <1>4, <2>1 DEF T
<1>6. ASSUME NEW d, Ends(v, d) PROVE Ends(w, d)
  <2>1. d \in 1 .. Count
    BY <1>6 DEF Ends
  <2>2. \A n \in 1 .. d - 1 : n \in 1 .. Count
    BY <1>1, <2>1
  <2>3. QED
    BY <1>5, <1>6, <2>1, <2>2 DEF Ends
<1>7. QED
  BY <1>6, DepthFound

\* Where parents do not go round in a circle a climb runs out of them.
LEMMA ClimbRunsOut ==
  ASSUME TypeOK, FloatsAreTrees, NEW w \in DOMAIN windows
  PROVE  Ancestors(w)[Count] = 0
<1> DEFINE up == Ancestors(w)
           W == DOMAIN windows
<1>1. Count \in Nat
  BY WindowsFinite DEF Count
<1>2. /\ up \in [0 .. Count -> W \cup {0}]
      /\ \A n \in 1 .. Count : up[n] = IF up[n - 1] = 0 THEN 0 ELSE FloatingParent(up[n - 1])
  BY Climb
<1> HIDE DEF up
<1>3. SUFFICES ASSUME up[Count] # 0 PROVE FALSE
  BY DEF up
<1>4. ASSUME NEW n \in 0 .. Count PROVE up[n] # 0
  <2> DEFINE T == {k \in 0 .. Count : up[Count - k] # 0}
  <2>1. 0 \in T
    <3>1. Count - 0 = Count /\ 0 \in 0 .. Count
      BY <1>1
    <3>2. QED
      BY <1>3, <3>1
  <2>2. ASSUME NEW k \in 1 .. Count, k - 1 \in T PROVE k \in T
    <3>1. /\ Count - (k - 1) \in 1 .. Count /\ (Count - (k - 1)) - 1 = Count - k
          /\ k \in 0 .. Count
      BY <1>1
    <3>2. up[Count - (k - 1)] # 0
      BY <2>2
    <3>3. up[Count - k] # 0
      BY <1>2, <3>1, <3>2
    <3>4. QED
      BY <3>1, <3>3
  <2> HIDE DEF T
  <2>3. \A k \in 0 .. Count : k \in T
    BY <1>1, <2>1, <2>2, UpTo
  <2>4. Count - n \in 0 .. Count /\ Count - (Count - n) = n
    BY <1>1
  <2>5. Count - n \in T
    BY <2>3, <2>4
  <2>6. QED
    BY <2>4, <2>5 DEF T
<1>5. up \in [0 .. Count -> W]
  BY <1>2, <1>4
<1>6. PICK i \in 0 .. Count, j \in 0 .. Count : i # j /\ up[i] = up[j]
  <2>1. IsFiniteSet(W) /\ Cardinality(W) = Count
    BY WindowsFinite DEF Count
  <2>2. IsFiniteSet(0 .. Count) /\ Cardinality(0 .. Count) = Count + 1
    <3>1. 0 \in Int /\ Count \in Int /\ ~(0 > Count) /\ Count - 0 + 1 = Count + 1
      BY <1>1
    <3>2. QED
      BY <3>1, FS_Interval
  <2> DEFINE I == 0 .. Count
  <2>3. Cardinality(W) < Cardinality(I)
    BY <1>1, <2>1, <2>2
  <2> HIDE DEF W, I
  <2>4. IsFiniteSet(I) /\ up \in [I -> W]
    BY <1>5, <2>2 DEF I
  <2>5. \E i, j \in I : i # j /\ up[i] = up[j]
    BY <2>1, <2>3, <2>4, FS_PigeonHole
  <2>6. QED
    BY <2>5 DEF I
<1>7. PICK a \in 0 .. Count, b \in 0 .. Count : a < b /\ up[a] = up[b]
  <2>1. i < j \/ j < i
    BY <1>1, <1>6
  <2>2. QED
    BY <1>6, <2>1
<1> DEFINE C == {up[n] : n \in a .. b}
<1>8. a \in Nat /\ b \in Nat /\ b <= Count
  BY <1>1
<1>9. \A n \in a .. b : n \in 0 .. Count
  BY <1>1, <1>8
<1>10. C \in SUBSET W /\ C # {}
  <2>1. a \in a .. b
    BY <1>7, <1>8
  <2>2. QED
    BY <1>5, <1>9, <2>1
<1>11. ASSUME NEW n \in 0 .. Count, n # Count PROVE up[n + 1] = FloatingParent(up[n])
  <2>1. n + 1 \in 1 .. Count /\ (n + 1) - 1 = n
    BY <1>1, <1>11
  <2>2. QED
    BY <1>2, <1>4, <2>1
<1>12. ASSUME NEW x \in C PROVE FloatingParent(x) \in C
  <2>1. PICK n \in a .. b : x = up[n]
    OBVIOUS
  <2>2. CASE n = b
    <3>1. a # Count /\ a + 1 \in a .. b /\ x = up[a]
      BY <1>7, <1>8, <2>1, <2>2
    <3>2. FloatingParent(x) = up[a + 1]
      BY <1>11, <3>1
    <3>3. QED
      BY <3>1, <3>2
  <2>3. CASE n # b
    <3>1. n # Count /\ n + 1 \in a .. b /\ n \in 0 .. Count
      BY <1>1, <1>8, <1>9, <2>1, <2>3
    <3>2. FloatingParent(x) = up[n + 1]
      BY <1>11, <2>1, <3>1
    <3>3. QED
      BY <3>1, <3>2
  <2>4. QED
    BY <2>2, <2>3
<1> HIDE DEF C
<1>13. QED
  BY <1>10, <1>12 DEF FloatsAreTrees

\* There a window is one deeper than its parent.
LEMMA DeeperThanParent ==
  ASSUME TypeOK, FloatsAreTrees, NEW w \in DOMAIN windows, FloatingParent(w) # 0
  PROVE  StackingDepth(FloatingParent(w)) < StackingDepth(w)
<1> DEFINE v == FloatingParent(w)
           d == StackingDepth(w)
<1>1. Count \in Nat /\ v \in DOMAIN windows /\ w # 0
  BY WindowsFinite DEF Count
<1>2. /\ Ancestors(w)[0] = w /\ Ancestors(v)[0] = v
      /\ \A n \in 1 .. Count :
           /\ Ancestors(w)[n] = IF Ancestors(w)[n - 1] = 0 THEN 0
                                ELSE FloatingParent(Ancestors(w)[n - 1])
           /\ Ancestors(v)[n] = IF Ancestors(v)[n - 1] = 0 THEN 0
                                ELSE FloatingParent(Ancestors(v)[n - 1])
  BY <1>1, Climb
<1> HIDE DEF v
<1>3. \A n \in 0 .. Count : n = Count \/ Ancestors(v)[n] = Ancestors(w)[n + 1]
  <2> DEFINE T == {n \in 0 .. Count : n = Count \/ Ancestors(v)[n] = Ancestors(w)[n + 1]}
  <2>1. 0 \in T
    <3>1. 0 \in 0 .. Count /\ (0 # Count => 0 + 1 \in 1 .. Count /\ (0 + 1) - 1 = 0)
      BY <1>1
    <3>2. 0 # Count => Ancestors(w)[0 + 1] = v
      BY <1>1, <1>2, <3>1 DEF v
    <3>3. QED
      BY <1>2, <3>1, <3>2
  <2>2. ASSUME NEW n \in 1 .. Count, n - 1 \in T PROVE n \in T
    <3>1. /\ n \in 0 .. Count /\ n - 1 # Count /\ (n - 1) + 1 = n
          /\ (n # Count => n + 1 \in 1 .. Count /\ (n + 1) - 1 = n)
      BY <1>1
    <3>2. Ancestors(v)[n - 1] = Ancestors(w)[n]
      BY <2>2, <3>1
    <3>3. n # Count => Ancestors(v)[n] = Ancestors(w)[n + 1]
      BY <1>2, <3>1, <3>2
    <3>4. QED
      BY <3>1, <3>3
  <2> HIDE DEF T
  <2>3. \A n \in 0 .. Count : n \in T
    BY <1>1, <2>1, <2>2, UpTo
  <2>4. QED
    BY <2>3 DEF T
<1>4. Ends(w, d)
  BY DepthFound
<1> HIDE DEF d
<1>5. d \in 1 .. Count /\ Ancestors(w)[d] = 0
  BY <1>4, ClimbRunsOut DEF Ends
<1>6. d # 1
  <2>1. 1 \in 1 .. Count /\ 1 - 1 = 0
    BY <1>1, <1>5
  <2>2. Ancestors(w)[1] = v
    BY <1>1, <1>2, <2>1 DEF v
  <2>3. QED
    BY <1>1, <1>5, <2>2 DEF v
<1>7. /\ d - 1 \in 1 .. Count /\ d - 1 \in 0 .. Count /\ d - 1 # Count /\ (d - 1) + 1 = d
  BY <1>1, <1>5, <1>6
<1>8. Ancestors(v)[d - 1] = 0
  BY <1>3, <1>5, <1>7
<1>9. ASSUME NEW n \in 1 .. (d - 1) - 1 PROVE Ancestors(v)[n] # 0
  <2>1. n \in 0 .. Count /\ n # Count /\ n + 1 \in 1 .. d - 1
    BY <1>1, <1>7
  <2>2. Ancestors(w)[n + 1] # 0
    BY <1>4, <2>1 DEF Ends
  <2>3. QED
    BY <1>3, <2>1, <2>2
<1>10. StackingDepth(v) = d - 1
  <2>1. Ends(v, d - 1)
    BY <1>7, <1>8, <1>9 DEF Ends
  <2>2. QED
    BY <1>1, <2>1, DepthFound
<1>11. QED
  BY <1>5, <1>10 DEF v, d

-----------------------------------------------------------------------------
(* The requests of a render sequence *)

\* What is placed together: tiles, or the floats of one depth.
Rank(w) == IF w \in Floats THEN StackingDepth(w) ELSE 0
Lower(v, w) == Rank(v) < Rank(w)
Ranked(d) == {w \in Shown : Rank(w) = d}
Requests(f, d) == Ascending(Ranked(d)) \o Only(IF f \in Ranked(d) THEN f ELSE 0)

\* Tiles have rank 0, floats their depth.
LEMMA Ranks ==
  ASSUME TypeOK
  PROVE  /\ \A w \in Shown : Rank(w) \in 0 .. Count
         /\ Ranked(0) = Shown \ Floats
         /\ \A d \in 1 .. Count : Ranked(d) = FloatsAt(d)
<1>1. Count \in Nat /\ Floats \subseteq Shown /\ Shown \subseteq DOMAIN windows
  BY WindowsFinite DEF Count
<1>2. \A w \in Floats : StackingDepth(w) \in 1 .. Count
  BY <1>1, DepthFound DEF Ends
<1>3. \A w \in Shown : Rank(w) \in 0 .. Count
  BY <1>1, <1>2 DEF Rank
<1>4. Ranked(0) = Shown \ Floats
  BY <1>1, <1>2 DEF Ranked, Rank
<1>5. \A d \in 1 .. Count : Ranked(d) = FloatsAt(d)
  BY <1>1, <1>2 DEF Ranked, Rank, FloatsAt
<1>6. QED
  BY <1>3, <1>4, <1>5

\* The requests of one rank are for its nodes, the focused one last.
LEMMA RankPlaced ==
  ASSUME TypeOK, NEW f, NEW d
  PROVE  /\ Requests(f, d) \in Seq(Shown) /\ ToSet(Requests(f, d)) = Ranked(d)
         /\ f \in Ranked(d) => \A v : v # f => Over(Requests(f, d), v, f)
<1> DEFINE S == Ranked(d)
<1>1. S \subseteq Shown /\ S \subseteq DOMAIN windows
  BY WindowsFinite DEF Ranked
<1>2. S \subseteq Nat \ {0} /\ IsFiniteSet(S)
  BY <1>1, WindowsFinite, FS_Subset
<1> HIDE DEF S
<1>3. LET r == Ascending(S) \o Only(IF f \in S THEN f ELSE 0)
      IN  /\ r \in Seq(S) /\ ToSet(r) = S
          /\ f \in S => \A v : v # f => Over(r, v, f)
  BY <1>2, FocusedLast
<1>4. Seq(S) \subseteq Seq(Shown)
  BY <1>1
<1>5. QED
  BY <1>3, <1>4 DEF Requests, S

\* The recursion of Placed has a solution, which takes rank after rank.
LEMMA PlacedGrows ==
  ASSUME TypeOK, NEW f \in Shown \cup {0}
  PROVE  \E g \in [0 .. Count -> Seq(Shown)] :
           /\ g[0] = Requests(f, 0)
           /\ \A d \in 1 .. Count : g[d] = g[d - 1] \o Requests(f, d)
           /\ Placed(f) = g[Count]
<1> DEFINE N == Count
           S == Seq(Shown)
           base == Ascending(Shown \ Floats) \o Only(IF f \in Floats THEN 0 ELSE f)
           level(d) == Ascending(FloatsAt(d)) \o Only(IF f \in FloatsAt(d) THEN f ELSE 0)
           Grows(g) == g = [d \in 0 .. N |-> IF d = 0 THEN base ELSE g[d - 1] \o level(d)]
           placed == CHOOSE g : Grows(g)
           step == [d \in 1 .. N |-> [s \in S |-> s \o Requests(f, d)]]
<1>1. N \in Nat
  BY WindowsFinite DEF Count
<1>2. Placed(f) = placed[N]
  BY DEF Placed, Count
<1>3. base = Requests(f, 0)
  <2>1. 0 \notin Shown /\ Ranked(0) = Shown \ Floats
    BY WindowsFinite, Ranks
  <2>2. (IF f \in Floats THEN 0 ELSE f) = IF f \in Shown \ Floats THEN f ELSE 0
    BY <2>1
  <2>3. QED
    BY <2>1, <2>2 DEF Requests
<1>4. \A d \in 1 .. N : level(d) = Requests(f, d)
  BY Ranks DEF Requests
<1> HIDE DEF N, base, level
<1>5. \A d : Requests(f, d) \in S
  BY RankPlaced
<1> HIDE DEF S
<1>6. \A s \in S : \A d : s \o Requests(f, d) \in S
  BY <1>5, Concatenated DEF S
<1>7. step \in Steps(N, S)
  BY <1>6 DEF Steps
<1>8. \A d \in 1 .. N : \A s \in S : step[d][s] = s \o Requests(f, d)
  OBVIOUS
<1> HIDE DEF step
<1>9. PICK g : Solves(g, N, S, Requests(f, 0), step)
  BY <1>1, <1>5, <1>7, RecursionExists
<1>10. /\ g \in [0 .. N -> S] /\ g[0] = Requests(f, 0)
       /\ \A d \in 1 .. N : g[d] = g[d - 1] \o Requests(f, d)
  <2>1. \A d \in 1 .. N : d - 1 \in 0 .. N
    BY <1>1
  <2>2. QED
    BY <1>8, <1>9, <2>1 DEF Solves
<1>11. Grows(g)
  <2>1. \A d \in 0 .. N : d # 0 => d \in 1 .. N
    BY <1>1
  <2>2. \A d \in 0 .. N : g[d] = IF d = 0 THEN base ELSE g[d - 1] \o level(d)
    BY <1>3, <1>4, <1>10, <2>1
  <2>3. QED
    BY <1>10, <2>2
<1>12. Grows(placed)
  BY <1>11
<1> HIDE DEF placed
<1>13. /\ DOMAIN placed = 0 .. N /\ placed[0] = Requests(f, 0)
       /\ \A d \in 1 .. N : placed[d] = placed[d - 1] \o Requests(f, d)
  <2>1. \A d \in 0 .. N : placed[d] = IF d = 0 THEN base ELSE placed[d - 1] \o level(d)
    BY <1>12
  <2>2. 0 \in 0 .. N /\ \A d \in 1 .. N : d \in 0 .. N /\ d # 0
    BY <1>1
  <2>3. DOMAIN placed = 0 .. N
    BY <1>12
  <2>4. QED
    BY <1>3, <1>4, <2>1, <2>2, <2>3
<1>14. \A d \in 0 .. N : placed[d] \in S
  <2> DEFINE T == {d \in 0 .. N : placed[d] \in S}
  <2>1. 0 \in T
    BY <1>1, <1>5, <1>13
  <2>2. ASSUME NEW d \in 1 .. N, d - 1 \in T PROVE d \in T
    <3>1. d \in 0 .. N /\ placed[d - 1] \in S
      BY <1>1, <2>2
    <3>2. QED
      BY <1>6, <1>13, <3>1
  <2> HIDE DEF T
  <2>3. \A d \in 0 .. N : d \in T
    BY <1>1, <2>1, <2>2, UpTo
  <2>4. QED
    BY <2>3 DEF T
<1>15. placed \in [0 .. N -> S]
  <2>1. placed = [d \in 0 .. N |-> placed[d]]
    BY <1>12
  <2>2. QED
    BY <1>14, <2>1
<1>16. QED
  BY <1>2, <1>13, <1>15 DEF N, S

\* The last request for a node follows all for nodes of lower rank, and that
\* for the focused one all for nodes of its rank.
LEMMA PlacedInOrder ==
  ASSUME TypeOK, NEW f \in Shown \cup {0}
  PROVE  /\ Placed(f) \in Seq(Shown) /\ ToSet(Placed(f)) = Shown
         /\ \A v, w \in Shown :
              Lower(v, w) \/ (Rank(v) = Rank(w) /\ w = f /\ v # w) => Over(Placed(f), v, w)
<1> DEFINE Before(v, w) == Lower(v, w) \/ (Rank(v) = Rank(w) /\ w = f /\ v # w)
           Upto(d) == {w \in Shown : Rank(w) <= d}
<1>1. Count \in Nat /\ \A w \in Shown : Rank(w) \in 0 .. Count
  BY WindowsFinite, Ranks DEF Count
<1>2. PICK g \in [0 .. Count -> Seq(Shown)] :
        /\ g[0] = Requests(f, 0)
        /\ \A d \in 1 .. Count : g[d] = g[d - 1] \o Requests(f, d)
        /\ Placed(f) = g[Count]
  BY PlacedGrows
<1> DEFINE Ordered(d) == /\ ToSet(g[d]) = Upto(d)
                         /\ \A v \in Shown : \A w \in Upto(d) : Before(v, w) => Over(g[d], v, w)
           T == {d \in 0 .. Count : Ordered(d)}
<1>3. 0 \in T
  <2>1. Upto(0) = Ranked(0) /\ 0 \in 0 .. Count
    BY <1>1 DEF Ranked
  <2>2. ASSUME NEW v \in Shown, NEW w \in Upto(0), Before(v, w)
        PROVE  Over(g[0], v, w)
    <3>1. w = f /\ v # w
      BY <1>1, <2>2 DEF Lower
    <3>2. QED
      BY <1>2, <2>1, <3>1, RankPlaced
  <2>3. ToSet(g[0]) = Upto(0)
    BY <1>2, <2>1, RankPlaced
  <2>4. QED
    BY <2>1, <2>2, <2>3
<1>4. ASSUME NEW d \in 1 .. Count, d - 1 \in T PROVE d \in T
  <2> DEFINE a == g[d - 1]
             b == Requests(f, d)
  <2>1. d \in 0 .. Count /\ d - 1 \in 0 .. Count
    BY <1>1
  <2>2. g[d] = a \o b /\ a \in Seq(Shown) /\ b \in Seq(Shown) /\ ToSet(b) = Ranked(d)
    BY <1>2, <2>1, RankPlaced
  <2>3. ToSet(a) = Upto(d - 1)
    BY <1>4
  <2>4. ASSUME NEW v \in Shown, NEW w \in Upto(d - 1), Before(v, w) PROVE Over(a, v, w)
    BY <1>4, <2>4
  <2> HIDE DEF a, b
  <2>5. Upto(d) = Upto(d - 1) \cup Ranked(d) /\ Ranked(d) \subseteq Shown
    BY <1>1 DEF Ranked
  <2>6. ToSet(g[d]) = Upto(d)
    <3>1. ToSet(a \o b) = ToSet(a) \cup ToSet(b)
      BY <2>2, ConcatenatedMembers
    <3>2. QED
      BY <2>2, <2>3, <2>5, <3>1
  <2>7. ASSUME NEW v \in Shown, NEW w \in Upto(d), Before(v, w) PROVE Over(g[d], v, w)
    <3>1. CASE w \in Upto(d - 1)
      <4>1. v \notin ToSet(b)
        BY <1>1, <2>1, <2>2, <2>7, <3>1 DEF Ranked, Lower
      <4>2. QED
        BY <2>2, <2>4, <2>7, <3>1, <4>1, OverConcatenated
    <3>2. CASE w \notin Upto(d - 1)
      <4>1. w \in Ranked(d) /\ Rank(w) = d
        BY <2>5, <3>2 DEF Ranked
      <4>2. CASE Lower(v, w)
        <5>1. w \in ToSet(b) /\ v \notin ToSet(b)
          BY <1>1, <2>2, <4>1, <4>2 DEF Ranked, Lower
        <5>2. QED
          BY <2>2, <5>1, OverConcatenated
      <4>3. CASE w = f /\ v # w
        <5>1. Over(b, v, w)
          BY <4>1, <4>3, RankPlaced DEF b
        <5>2. QED
          BY <2>2, <5>1, OverConcatenated
      <4>4. QED
        BY <2>7, <4>2, <4>3
    <3>3. QED
      BY <3>1, <3>2
  <2>8. QED
    BY <2>1, <2>6, <2>7
<1> HIDE DEF T
<1>5. Count \in T
  <2>1. \A d \in 0 .. Count : d \in T
    BY <1>1, <1>3, <1>4, UpTo
  <2>2. QED
    BY <1>1, <2>1
<1>6. Ordered(Count) /\ Upto(Count) = Shown
  BY <1>1, <1>5 DEF T
<1>7. g[Count] \in Seq(Shown)
  BY <1>1, <1>2
<1> HIDE DEF Upto
<1>8. QED
  BY <1>2, <1>6, <1>7

\* What a render sequence leaves: every node shown once, lower ranks below.
LEMMA Rendered ==
  ASSUME TypeOK, RenderStart
  PROVE  /\ stacked' \in Seq(Shown) /\ IsInjective(stacked') /\ ToSet(stacked') = Shown
         /\ \A v, w \in Shown : Lower(v, w) => Under(v, w)
         /\ \A v, w \in Shown : Rank(v) = Rank(w) /\ w = raised' /\ v # w => Under(v, w)
<1>1. raised' \in Shown \cup {0} /\ stacked' = PlaceTop(Placed(raised'))
  BY DEF RenderStart, FocusedRecord
<1> DEFINE r == Placed(raised')
<1>2. /\ r \in Seq(Shown) /\ ToSet(r) = Shown
      /\ \A v, w \in Shown :
           Lower(v, w) \/ (Rank(v) = Rank(w) /\ w = raised' /\ v # w) => Over(r, v, w)
  BY <1>1, PlacedInOrder
<1> HIDE DEF r
<1>3. /\ stacked' \in Seq(Shown) /\ IsInjective(stacked') /\ ToSet(stacked') = ToSet(r)
      /\ \A v \in ToSet(r) : \A w : Over(r, v, w) =>
           \E i, j \in DOMAIN stacked' : i < j /\ stacked'[i] = v /\ stacked'[j] = w
  <2>1. stacked' = PlaceTop(r)
    BY <1>1 DEF r
  <2>2. QED
    BY <1>2, <2>1, Stacked
<1>4. QED
  BY <1>2, <1>3 DEF Under

-----------------------------------------------------------------------------
(* The invariant *)

\* The empty stack.
LEMMA NothingStacked == ASSUME NEW S PROVE <<>> \in Seq(S) /\ IsInjective(<<>>)
BY DEF IsInjective

\* Every action keeps the types of what it changes.
LEMMA TypeStep == PresentationInv /\ [Next]_vars => TypeOK'
<1> SUFFICES ASSUME PresentationInv, [Next]_vars PROVE TypeOK'
  OBVIOUS
<1> USE PresentationAssumption DEF lifecycleVars, riverVars
<1>0. TypeOK
  BY DEF PresentationInv
<1>1. CASE WindowCreated
  <2>1. /\ nextWindow' = nextWindow + 1 /\ nextWindow' \in 0 .. MaxWindows
        /\ DOMAIN windows' = DOMAIN windows \cup {nextWindow'} /\ DOMAIN fullscreen' = DOMAIN windows'
    BY <1>0, <1>1 DEF WindowCreated, TypeOK
  <2>2. \A w \in DOMAIN windows' : windows'[w] \in WindowRecord
    BY <1>0, <1>1 DEF WindowCreated, TypeOK, WindowRecord, NewWindow
  <2>3. \A w \in DOMAIN windows' : fullscreen'[w] \in 0 .. nextOutput
    BY <1>0, <1>1 DEF WindowCreated, TypeOK
  <2>4. UNCHANGED <<nextOutput, outputs, gone, seat, phase, answer, undefined, focus, raised, stacked>>
    BY <1>1 DEF WindowCreated
  <2>5. /\ 0 .. nextWindow \subseteq 0 .. nextWindow' /\ 1 .. nextWindow \subseteq 1 .. nextWindow'
        /\ nextWindow' \in 1 .. nextWindow'
    BY <1>0, <2>1 DEF TypeOK
  <2>6. stacked' \in Seq(1 .. nextWindow') /\ IsInjective(stacked')
    <3> DEFINE S == 1 .. nextWindow
               R == 1 .. nextWindow'
    <3>1. stacked \in Seq(S) /\ S \subseteq R /\ IsInjective(stacked)
      BY <1>0, <2>5 DEF TypeOK
    <3> HIDE DEF S, R
    <3>2. stacked \in Seq(R)
      BY <3>1
    <3> QED BY <2>4, <3>1, <3>2 DEF R
  <2> QED BY <1>0, <2>1, <2>2, <2>3, <2>4, <2>5, <2>6 DEF TypeOK
<1>2. CASE OutputCreated
  <2>1. /\ nextOutput' = nextOutput + 1 /\ nextOutput' \in 0 .. MaxOutputs
        /\ outputs' = outputs \cup {nextOutput'}
    BY <1>0, <1>2 DEF OutputCreated, TypeOK
  <2>2. UNCHANGED <<nextWindow, windows, gone, seat, phase, answer, fullscreen, undefined, focus, raised, stacked>>
    BY <1>2 DEF OutputCreated
  <2>3. /\ 0 .. nextOutput \subseteq 0 .. nextOutput' /\ 1 .. nextOutput \subseteq 1 .. nextOutput'
        /\ nextOutput' \in 1 .. nextOutput'
    BY <1>0, <2>1 DEF TypeOK
  <2> QED BY <1>0, <2>1, <2>2, <2>3 DEF TypeOK
<1>3. ASSUME NEW w \in WindowIds, WindowClosed(w) PROVE TypeOK'
  <2>1. [windows[w] EXCEPT !.closed = TRUE] \in WindowRecord
    BY <1>0, <1>3 DEF WindowClosed, Live, TypeOK, WindowRecord
  <2> QED BY <1>0, <1>3, <2>1 DEF WindowClosed, TypeOK
<1>4. ASSUME NEW w \in WindowIds, NEW parent \in 0 .. MaxWindows, WindowParent(w, parent) PROVE TypeOK'
  <2>1. [windows[w] EXCEPT !.parent = parent] \in WindowRecord
    BY <1>0, <1>4 DEF WindowParent, Live, TypeOK, WindowRecord
  <2> QED BY <1>0, <1>4, <2>1 DEF WindowParent, TypeOK
<1>5. ASSUME NEW o \in OutputIds, OutputRemoved(o) PROVE TypeOK'
  BY <1>0, <1>5 DEF OutputRemoved, TypeOK
<1>6. CASE ManageStart
  <2>1. /\ outputs' = outputs \ gone /\ gone' = {} /\ phase' = "managed"
        /\ UNCHANGED <<nextWindow, nextOutput, seat, raised>>
        /\ stacked' = <<>>
    BY <1>6 DEF ManageStart
  <2>2. Live \subseteq 1 .. nextWindow /\ outputs \subseteq 1 .. nextOutput
    BY <1>0 DEF TypeOK, Live
  <2>3. \A w \in Live : /\ windows'[w] \in WindowRecord /\ answer'[w] \in Place
                        /\ fullscreen'[w] \in {0} \cup (outputs \ gone)
    BY <1>6, Managed
  <2>4. /\ DOMAIN windows' = Live /\ DOMAIN fullscreen' = Live /\ DOMAIN answer' = Live
        /\ undefined' \subseteq Live /\ focus' \in 0 .. nextWindow
    BY <1>6, Managed
  <2>5. {0} \cup (outputs \ gone) \subseteq 0 .. nextOutput
    BY <1>0, <2>2 DEF TypeOK
  <2>6. stacked' \in Seq(1 .. nextWindow') /\ IsInjective(stacked')
    BY <2>1, NothingStacked
  <2> QED BY <1>0, <2>1, <2>2, <2>3, <2>4, <2>5, <2>6 DEF TypeOK
<1>7. CASE RenderStart
  <2>1. raised' \in 0 .. nextWindow
    <3>1. FocusedRecord \subseteq 0 .. nextWindow
      BY <1>0 DEF FocusedRecord, Shown, Live, TypeOK
    <3>2. raised' \in {0} \cup FocusedRecord
      BY <1>7, RaisedRecorded
    <3> QED BY <1>0, <3>1, <3>2 DEF TypeOK
  <2>2. stacked' \in Seq(1 .. nextWindow) /\ IsInjective(stacked')
    <3> DEFINE S == 1 .. nextWindow
    <3>1. Shown \subseteq S
      BY <1>0 DEF Shown, Live, TypeOK
    <3> HIDE DEF S
    <3>2. stacked' \in Seq(S) /\ IsInjective(stacked')
      BY <1>0, <1>7, <3>1, Rendered
    <3> QED BY <3>2 DEF S
  <2> QED BY <1>0, <1>7, <2>1, <2>2 DEF RenderStart, TypeOK
<1>8. CASE UNCHANGED vars
  BY <1>0, <1>8 DEF vars, TypeOK
<1>9. CASE SeatCreated
  BY <1>0, <1>9 DEF SeatCreated, TypeOK
<1>10. CASE SeatRemoved
  BY <1>0, <1>10 DEF SeatRemoved, TypeOK
<1> QED BY <1>1, <1>2, <1>3, <1>4, <1>5, <1>6, <1>7, <1>8, <1>9, <1>10 DEF Next

\* Record and River agree on fullscreen until an output goes.
LEMMA FullscreenStep == PresentationInv /\ [Next]_vars => FullscreenKnown'
<1> SUFFICES ASSUME PresentationInv, [Next]_vars PROVE FullscreenKnown'
  OBVIOUS
<1> USE DEF lifecycleVars, riverVars
<1>0. TypeOK /\ FullscreenKnown
  BY DEF PresentationInv
<1>1. CASE WindowCreated
  <2>1. /\ DOMAIN windows' = DOMAIN windows \cup {nextWindow'} /\ nextWindow' \notin DOMAIN windows
        /\ \A w \in DOMAIN windows : windows'[w] = windows[w] /\ fullscreen'[w] = fullscreen[w]
        /\ windows'[nextWindow'] = NewWindow /\ fullscreen'[nextWindow'] = 0
    BY <1>0, <1>1 DEF WindowCreated, TypeOK
  <2>2. NewWindow.fullscreenOutput = 0 /\ NewWindow.focused = FALSE
    BY DEF NewWindow
  <2> QED BY <1>0, <1>1, <2>1, <2>2 DEF WindowCreated, TypeOK, FullscreenKnown
<1>2. CASE OutputCreated
  BY <1>0, <1>2 DEF OutputCreated, FullscreenKnown
<1>3. ASSUME NEW w \in WindowIds, WindowClosed(w) PROVE FullscreenKnown'
  <2>1. /\ DOMAIN windows' = DOMAIN windows
        /\ \A v \in DOMAIN windows : /\ windows'[v].fullscreenOutput = windows[v].fullscreenOutput
                                     /\ windows'[v].exitedFullscreen = windows[v].exitedFullscreen
                                     /\ windows'[v].focused = windows[v].focused
    BY <1>0, <1>3 DEF WindowClosed, Live, TypeOK, WindowRecord
  <2> QED BY <1>0, <1>3, <2>1 DEF WindowClosed, TypeOK, FullscreenKnown
<1>4. ASSUME NEW w \in WindowIds, NEW parent \in 0 .. MaxWindows, WindowParent(w, parent) PROVE FullscreenKnown'
  <2>1. /\ DOMAIN windows' = DOMAIN windows
        /\ \A v \in DOMAIN windows : /\ windows'[v].fullscreenOutput = windows[v].fullscreenOutput
                                     /\ windows'[v].exitedFullscreen = windows[v].exitedFullscreen
                                     /\ windows'[v].focused = windows[v].focused
    BY <1>0, <1>4 DEF WindowParent, Live, TypeOK, WindowRecord
  <2> QED BY <1>0, <1>4, <2>1 DEF WindowParent, TypeOK, FullscreenKnown
<1>5. ASSUME NEW o \in OutputIds, OutputRemoved(o) PROVE FullscreenKnown'
  <2>1. o # 0 /\ o \notin gone
    BY <1>5 DEF OutputRemoved, OutputIds
  <2>2. \A w \in DOMAIN windows : fullscreen'[w] = IF fullscreen[w] = o THEN 0 ELSE fullscreen[w]
    BY <1>0, <1>5 DEF OutputRemoved, TypeOK
  <2> QED BY <1>0, <1>5, <2>1, <2>2 DEF OutputRemoved, FullscreenKnown
<1>6. CASE ManageStart
  <2>1. gone' = {}
    BY <1>6 DEF ManageStart
  <2>2. /\ DOMAIN windows' = Live /\ DOMAIN answer' = Live
        /\ \A w \in Live : /\ windows'[w].fullscreenOutput = answer'[w].output
                           /\ fullscreen'[w] = answer'[w].output
    BY <1>6, Managed
  <2> QED BY <2>1, <2>2 DEF FullscreenKnown
<1>7. CASE RenderStart
  BY <1>0, <1>7 DEF RenderStart, FullscreenKnown
<1>8. CASE UNCHANGED vars
  BY <1>0, <1>8 DEF vars, FullscreenKnown
<1>9. CASE SeatCreated
  BY <1>0, <1>9 DEF SeatCreated, FullscreenKnown
<1>10. CASE SeatRemoved
  BY <1>0, <1>10 DEF SeatRemoved, FullscreenKnown
<1> QED BY <1>1, <1>2, <1>3, <1>4, <1>5, <1>6, <1>7, <1>8, <1>9, <1>10 DEF Next

\* What River has undefined is owed, and not shown until it is given.
LEMMA OwedStep == PresentationInv /\ [Next]_vars => OwedKnown'
<1> SUFFICES ASSUME PresentationInv, [Next]_vars PROVE OwedKnown'
  OBVIOUS
<1> USE DEF lifecycleVars, riverVars
<1>0. TypeOK /\ OwedKnown
  BY DEF PresentationInv
<1>1. CASE WindowCreated
  <2>1. /\ DOMAIN windows' = DOMAIN windows \cup {nextWindow'} /\ nextWindow' \notin DOMAIN windows
        /\ \A w \in DOMAIN windows : windows'[w] = windows[w] /\ fullscreen'[w] = fullscreen[w]
        /\ windows'[nextWindow'] = NewWindow /\ fullscreen'[nextWindow'] = 0
    BY <1>0, <1>1 DEF WindowCreated, TypeOK
  <2>2. NewWindow.fullscreenOutput = 0 /\ NewWindow.focused = FALSE
    BY DEF NewWindow
  <2> QED BY <1>0, <1>1, <2>1, <2>2 DEF WindowCreated, TypeOK, OwedKnown
<1>2. CASE OutputCreated
  BY <1>0, <1>2 DEF OutputCreated, OwedKnown
<1>3. ASSUME NEW w \in WindowIds, WindowClosed(w) PROVE OwedKnown'
  <2>1. /\ DOMAIN windows' = DOMAIN windows
        /\ \A v \in DOMAIN windows : /\ windows'[v].fullscreenOutput = windows[v].fullscreenOutput
                                     /\ windows'[v].exitedFullscreen = windows[v].exitedFullscreen
                                     /\ windows'[v].focused = windows[v].focused
    BY <1>0, <1>3 DEF WindowClosed, Live, TypeOK, WindowRecord
  <2> QED BY <1>0, <1>3, <2>1 DEF WindowClosed, TypeOK, OwedKnown
<1>4. ASSUME NEW w \in WindowIds, NEW parent \in 0 .. MaxWindows, WindowParent(w, parent) PROVE OwedKnown'
  <2>1. /\ DOMAIN windows' = DOMAIN windows
        /\ \A v \in DOMAIN windows : /\ windows'[v].fullscreenOutput = windows[v].fullscreenOutput
                                     /\ windows'[v].exitedFullscreen = windows[v].exitedFullscreen
                                     /\ windows'[v].focused = windows[v].focused
    BY <1>0, <1>4 DEF WindowParent, Live, TypeOK, WindowRecord
  <2> QED BY <1>0, <1>4, <2>1 DEF WindowParent, TypeOK, OwedKnown
<1>5. ASSUME NEW o \in OutputIds, OutputRemoved(o) PROVE OwedKnown'
  <2>1. FullscreenKnown /\ o # 0 /\ o \notin gone
    BY <1>5 DEF OutputRemoved, OutputIds, PresentationInv
  <2>2. \A w \in DOMAIN windows : fullscreen[w] = o => windows[w].fullscreenOutput = o
    BY <2>1 DEF FullscreenKnown
  <2>3. \A w \in DOMAIN answer : fullscreen[w] = o => answer[w].kind \notin {"tile", "float"}
    <3> SUFFICES ASSUME NEW w \in DOMAIN answer, fullscreen[w] = o
                 PROVE  answer[w].kind \notin {"tile", "float"}
      OBVIOUS
    <3>1. w \in DOMAIN windows /\ answer[w] \in Place
      BY <1>0 DEF TypeOK
    <3>2. answer[w].output = o
      BY <2>1, <2>2, <3>1 DEF FullscreenKnown
    <3> QED BY <2>1, <3>1, <3>2, PlaceOutput
  <2>4. /\ undefined' = undefined \cup {w \in DOMAIN windows : fullscreen[w] = o}
        /\ UNCHANGED <<windows, answer>>
    BY <1>0, <1>5 DEF OutputRemoved, TypeOK
  <2> QED BY <1>0, <2>1, <2>2, <2>3, <2>4 DEF OwedKnown
<1>6. CASE ManageStart
  <2>1. /\ undefined' \subseteq Live
        /\ \A w \in Live : /\ windows'[w].fullscreenOutput = answer'[w].output
                           /\ w \in undefined' => /\ windows'[w].exitedFullscreen \/ answer'[w].output # 0
                                                  /\ answer'[w].kind \notin {"tile", "float"}
    BY <1>6, Managed
  <2> QED BY <2>1 DEF OwedKnown
<1>7. CASE RenderStart
  BY <1>0, <1>7 DEF RenderStart, OwedKnown
<1>8. CASE UNCHANGED vars
  BY <1>0, <1>8 DEF vars, OwedKnown
<1>9. CASE SeatCreated
  BY <1>0, <1>9 DEF SeatCreated, OwedKnown
<1>10. CASE SeatRemoved
  BY <1>0, <1>10 DEF SeatRemoved, OwedKnown
<1> QED BY <1>1, <1>2, <1>3, <1>4, <1>5, <1>6, <1>7, <1>8, <1>9, <1>10 DEF Next

\* The record that is raised is that of the window with the keyboard, if one has it.
LEMMA FocusStep == PresentationInv /\ [Next]_vars => FocusKnown'
<1> SUFFICES ASSUME PresentationInv, [Next]_vars PROVE FocusKnown'
  OBVIOUS
<1> USE DEF lifecycleVars, riverVars
<1>0. TypeOK /\ FocusKnown
  BY DEF PresentationInv
<1>1. CASE WindowCreated
  <2>1. /\ DOMAIN windows' = DOMAIN windows \cup {nextWindow'} /\ nextWindow' \notin DOMAIN windows
        /\ \A w \in DOMAIN windows : windows'[w] = windows[w] /\ fullscreen'[w] = fullscreen[w]
        /\ windows'[nextWindow'] = NewWindow /\ fullscreen'[nextWindow'] = 0
    BY <1>0, <1>1 DEF WindowCreated, TypeOK
  <2>2. NewWindow.fullscreenOutput = 0 /\ NewWindow.focused = FALSE
    BY DEF NewWindow
  <2> QED BY <1>0, <1>1, <2>1, <2>2 DEF WindowCreated, TypeOK, FocusKnown
<1>2. CASE OutputCreated
  BY <1>0, <1>2 DEF OutputCreated, FocusKnown
<1>3. ASSUME NEW w \in WindowIds, WindowClosed(w) PROVE FocusKnown'
  <2>1. /\ DOMAIN windows' = DOMAIN windows
        /\ \A v \in DOMAIN windows : /\ windows'[v].fullscreenOutput = windows[v].fullscreenOutput
                                     /\ windows'[v].exitedFullscreen = windows[v].exitedFullscreen
                                     /\ windows'[v].focused = windows[v].focused
    BY <1>0, <1>3 DEF WindowClosed, Live, TypeOK, WindowRecord
  <2> QED BY <1>0, <1>3, <2>1 DEF WindowClosed, TypeOK, FocusKnown
<1>4. ASSUME NEW w \in WindowIds, NEW parent \in 0 .. MaxWindows, WindowParent(w, parent) PROVE FocusKnown'
  <2>1. /\ DOMAIN windows' = DOMAIN windows
        /\ \A v \in DOMAIN windows : /\ windows'[v].fullscreenOutput = windows[v].fullscreenOutput
                                     /\ windows'[v].exitedFullscreen = windows[v].exitedFullscreen
                                     /\ windows'[v].focused = windows[v].focused
    BY <1>0, <1>4 DEF WindowParent, Live, TypeOK, WindowRecord
  <2> QED BY <1>0, <1>4, <2>1 DEF WindowParent, TypeOK, FocusKnown
<1>5. ASSUME NEW o \in OutputIds, OutputRemoved(o) PROVE FocusKnown'
  BY <1>0, <1>5 DEF OutputRemoved, FocusKnown
<1>6. CASE ManageStart
  <2>1. phase' = "managed"
    BY <1>6 DEF ManageStart
  <2>2. /\ DOMAIN windows' = Live /\ \A w \in Live : windows'[w].focused => focus' \in {0, w}
        /\ ~seat => focus' = 0
    BY <1>6, Managed
  <2>3. seat' = seat
    BY <1>6 DEF ManageStart
  <2> QED BY <2>1, <2>2, <2>3 DEF FocusKnown
<1>7. CASE RenderStart
  <2>1. raised' \in {0} \cup FocusedRecord
    BY <1>7, RaisedRecorded
  <2>2. \A w \in FocusedRecord : w \in DOMAIN windows /\ windows[w].focused
    BY DEF FocusedRecord, Shown, Live
  <2>3. UNCHANGED <<windows, focus, seat>>
    BY <1>7 DEF RenderStart
  <2> QED BY <1>0, <2>1, <2>2, <2>3 DEF FocusKnown
<1>8. CASE UNCHANGED vars
  BY <1>0, <1>8 DEF vars, FocusKnown
<1>9. CASE SeatCreated
  BY <1>0, <1>9 DEF SeatCreated, FocusKnown
<1>10. CASE SeatRemoved
  BY <1>0, <1>10 DEF SeatRemoved, FocusKnown
<1> QED BY <1>1, <1>2, <1>3, <1>4, <1>5, <1>6, <1>7, <1>8, <1>9, <1>10 DEF Next

-----------------------------------------------------------------------------
(* The theorems *)

\* The inductive invariant holds in every reachable state: the records of the
\* bridge, the answer of the policy and River go together.
THEOREM PresentationInvariant == Spec => []PresentationInv
<1>1. Init => PresentationInv
  <2> SUFFICES ASSUME Init PROVE PresentationInv
    OBVIOUS
  <2>1. /\ DOMAIN windows = {} /\ DOMAIN answer = {} /\ DOMAIN fullscreen = {}
        /\ undefined = {} /\ outputs = {} /\ gone = {} /\ phase = "new"
        /\ nextWindow = 0 /\ nextOutput = 0 /\ focus = 0 /\ raised = 0
    BY DEF Init
  <2>2. stacked \in Seq(1 .. nextWindow) /\ IsInjective(stacked)
    <3>1. stacked = <<>>
      BY DEF Init
    <3> QED BY <3>1, NothingStacked
  <2>3. TypeOK
    <3>1. seat \in BOOLEAN
      BY Zenon DEF Init
    <3> QED BY <2>1, <2>2, <3>1, PresentationAssumption DEF TypeOK
  <2>4. FullscreenKnown /\ OwedKnown /\ FocusKnown
    BY <2>1 DEF FullscreenKnown, OwedKnown, FocusKnown
  <2> QED BY <2>3, <2>4 DEF PresentationInv
<1>2. PresentationInv /\ [Next]_vars => PresentationInv'
  BY TypeStep, FullscreenStep, OwedStep, FocusStep DEF PresentationInv
<1> QED BY <1>1, <1>2, PTL DEF Spec

\* Requests by difference suffice (xw_set_mode): the record never drifts from
\* River, for any number of windows and outputs and any history of places.
THEOREM FullscreenFollows == Spec => []FullscreenAsAnswered
<1>1. PresentationInv => FullscreenAsAnswered
  BY DEF PresentationInv, TypeOK, FullscreenKnown, FullscreenAsAnswered
<1> QED BY <1>1, PresentationInvariant, PTL

\* xw_set_window restores what exit_fullscreen, or the end of an output, took.
THEOREM ShownIsRestored == Spec => []RestoredWhenShown
<1>1. PresentationInv => RestoredWhenShown
  BY DEF PresentationInv, OwedKnown, RestoredWhenShown
<1> QED BY <1>1, PresentationInvariant, PTL

\* The window raised and the window with the keyboard are never two, whatever a
\* lock, a layer surface or the end of a seat keeps from xw_set_window, xw_focus or
\* manager_render_start.
THEOREM RaisedFollowsKeyboard == Spec => []RaisedHasKeyboard
<1>1. PresentationInv => RaisedHasKeyboard
  BY DEF PresentationInv, FocusKnown, RaisedHasKeyboard
<1> QED BY <1>1, PresentationInvariant, PTL

\* Under no history of parents, places and focus does a render sequence put a
\* dialog under its parent or a float under a tile, leave out a window or hide
\* the focused one behind its siblings (manager_render_start).
THEOREM StackOrder == Spec => StacksInOrder
<1> DEFINE Ordered ==
      phase = "managed" /\ phase' = "rendered" =>
        /\ ToSet(stacked') = Shown /\ IsInjective(stacked')
        /\ \A v, w \in Shown :
             \/ v = w
             \/ /\ windows[w].floating /\ ~windows[v].floating => Under(v, w)
                /\ windows[w].floating /\ FloatingParent(w) = v /\ FloatsAreTrees => Under(v, w)
                /\ /\ w = raised' /\ windows[v].floating = windows[w].floating
                   /\ windows[w].floating => FloatingParent(v) = FloatingParent(w)
                   => Under(v, w)
<1>1. PresentationInv /\ [Next]_vars => Ordered
  <2>1. SUFFICES ASSUME PresentationInv, [Next]_vars, phase = "managed", phase' = "rendered"
                 PROVE  Ordered
    OBVIOUS
  <2>2. TypeOK /\ RenderStart
    <3>1. ~ManageStart
      BY <2>1 DEF ManageStart
    <3>2. phase' # phase
      BY <2>1
    <3>3. QED
      BY <2>1, <3>1, <3>2 DEF Next, vars, PresentationInv, WindowCreated, OutputCreated,
        WindowClosed, WindowParent, OutputRemoved, SeatCreated, SeatRemoved, ManageStart
  <2>3. /\ ToSet(stacked') = Shown /\ IsInjective(stacked')
        /\ \A v, w \in Shown : Lower(v, w) => Under(v, w)
        /\ \A v, w \in Shown : Rank(v) = Rank(w) /\ w = raised' /\ v # w => Under(v, w)
    BY <2>2, Rendered
  <2>4. /\ \A w \in Shown : /\ w \in DOMAIN windows /\ w # 0
                            /\ w \in Floats <=> windows[w].floating
        /\ Floats \subseteq Shown
    BY <2>2, WindowsFinite DEF Floats
  <2>5. ASSUME NEW v \in Shown, NEW w \in Shown, windows[w].floating, ~windows[v].floating
        PROVE  Under(v, w)
    <3>1. Rank(v) = 0 /\ Rank(w) = StackingDepth(w) /\ StackingDepth(w) \in 1 .. Count
      BY <2>2, <2>4, <2>5, DepthFound DEF Rank, Ends
    <3>2. Lower(v, w)
      BY <2>2, <3>1, WindowsFinite DEF Lower, Count
    <3>3. QED
      BY <2>3, <3>2
  <2>6. ASSUME NEW v \in Shown, NEW w \in Shown, windows[w].floating, FloatingParent(w) = v,
               FloatsAreTrees
        PROVE  Under(v, w)
    <3>1. StackingDepth(v) < StackingDepth(w)
      BY <2>2, <2>4, <2>6, DeeperThanParent
    <3>2. windows[v].floating
      BY <2>4, <2>6 DEF FloatingParent
    <3>3. Lower(v, w)
      BY <2>4, <2>6, <3>1, <3>2 DEF Lower, Rank
    <3>4. QED
      BY <2>3, <3>3
  <2>7. ASSUME NEW v \in Shown, NEW w \in Shown, v # w, w = raised',
               windows[v].floating = windows[w].floating,
               windows[w].floating => FloatingParent(v) = FloatingParent(w)
        PROVE  Under(v, w)
    <3>1. CASE windows[w].floating
      <4>1. StackingDepth(v) = StackingDepth(w)
        BY <2>2, <2>4, <2>7, <3>1, SiblingsLevel
      <4>2. Rank(v) = Rank(w)
        BY <2>4, <2>7, <3>1, <4>1 DEF Rank
      <4>3. QED
        BY <2>3, <2>7, <4>2
    <3>2. CASE ~windows[w].floating
      <4>1. v \notin Floats /\ w \notin Floats
        BY <2>4, <2>7, <3>2
      <4>2. Rank(v) = Rank(w)
        BY <4>1 DEF Rank
      <4>3. QED
        BY <2>3, <2>7, <4>2
    <3>3. QED
      BY <3>1, <3>2
  <2>8. QED
    BY <2>3, <2>5, <2>6, <2>7
<1> QED BY <1>1, PresentationInvariant, PTL DEF Spec, StacksInOrder

=============================================================================
