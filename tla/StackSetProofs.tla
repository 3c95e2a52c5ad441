--------------------------- MODULE StackSetProofs ---------------------------
(***************************************************************************)
(* Lemmas about the operators of StackSet, and that every change of the    *)
(* window-manager data structure keeps it arranged.                        *)
(***************************************************************************)
EXTENDS StackSet, ListProofs

-----------------------------------------------------------------------------
(* Sequences without repetition *)

\* A sequence that holds nothing twice is as long as it has members.
LEMMA InjectiveLength ==
  ASSUME NEW W, NEW s \in Seq(W), IsInjective(s)
  PROVE  IsFiniteSet(ToSet(s)) /\ Cardinality(ToSet(s)) = Len(s)
<1>1. Len(s) \in Nat /\ DOMAIN s = 1 .. Len(s)
  OBVIOUS
<1>2. s \in Injection(1 .. Len(s), ToSet(s)) \cap Surjection(1 .. Len(s), ToSet(s))
  BY <1>1 DEF Injection, Surjection, ToSet, IsInjective
<1>3. IsFiniteSet(1 .. Len(s)) /\ Cardinality(1 .. Len(s)) = Len(s)
  <2>1. 1 \in Int /\ Len(s) \in Int /\ (1 > Len(s) <=> Len(s) = 0)
    BY <1>1
  <2>2. QED
    BY <1>1, <2>1, FS_Interval
<1>4. ExistsBijection(1 .. Len(s), ToSet(s))
  BY <1>2 DEF ExistsBijection, Bijection
<1>5. QED
  BY <1>3, <1>4, FS_Bijection

\* Of two sequences without repetition that are equally long, one cannot have
\* only a part of the members of the other.
LEMMA SameMembers ==
  ASSUME NEW W, NEW s \in Seq(W), NEW q \in Seq(W), IsInjective(s), IsInjective(q),
         Len(q) = Len(s), ToSet(q) \subseteq ToSet(s)
  PROVE  ToSet(q) = ToSet(s)
<1>1. /\ IsFiniteSet(ToSet(s)) /\ Cardinality(ToSet(s)) = Len(s)
      /\ Cardinality(ToSet(q)) = Len(q)
  BY InjectiveLength
<1>2. ToSet(q) \in SUBSET ToSet(s)
  OBVIOUS
<1>3. QED
  BY <1>1, <1>2, FS_Subset

\* A permutation of the places permutes the members.
LEMMA Permuted ==
  ASSUME NEW W, NEW s \in Seq(W), NEW q \in Seq(W), IsInjective(s), Len(q) = Len(s),
         NEW h \in [1 .. Len(s) -> 1 .. Len(s)],
         \A i, j \in 1 .. Len(s) : h[i] = h[j] => i = j,
         \A i \in 1 .. Len(s) : q[i] = s[h[i]]
  PROVE  IsInjective(q) /\ ToSet(q) = ToSet(s)
<1>1. Len(s) \in Nat /\ DOMAIN s = 1 .. Len(s) /\ DOMAIN q = 1 .. Len(s)
  OBVIOUS
<1>2. IsInjective(q)
  <2>1. ASSUME NEW i \in 1 .. Len(s), NEW j \in 1 .. Len(s), q[i] = q[j] PROVE i = j
    <3>1. s[h[i]] = s[h[j]] /\ h[i] \in DOMAIN s /\ h[j] \in DOMAIN s
      BY <1>1, <2>1
    <3>2. h[i] = h[j]
      BY <3>1 DEF IsInjective
    <3>3. QED
      BY <3>2
  <2>2. QED
    BY <1>1, <2>1 DEF IsInjective
<1>3. ToSet(q) \subseteq ToSet(s)
  BY <1>1 DEF ToSet
<1>4. QED
  BY <1>2, <1>3, SameMembers

\* What Exchange does with two places of s.
LEMMA Exchanged ==
  ASSUME NEW W, NEW s \in Seq(W), IsInjective(s), NEW i \in DOMAIN s, NEW j \in DOMAIN s
  PROVE  /\ Exchange(s, i, j) \in Seq(W)
         /\ Len(Exchange(s, i, j)) = Len(s)
         /\ IsInjective(Exchange(s, i, j))
         /\ ToSet(Exchange(s, i, j)) = ToSet(s)
         /\ Exchange(s, i, j)[j] = s[i]
<1> DEFINE q == Exchange(s, i, j)
           h == [k \in 1 .. Len(s) |-> IF k = j THEN i ELSE IF k = i THEN j ELSE k]
<1>1. DOMAIN s = 1 .. Len(s) /\ Len(s) \in Nat
  OBVIOUS
<1>2. q \in Seq(W) /\ Len(q) = Len(s)
  BY <1>1 DEF Exchange
<1>3. \A k \in 1 .. Len(s) : q[k] = s[h[k]]
  BY <1>1 DEF Exchange
<1>4. h \in [1 .. Len(s) -> 1 .. Len(s)] /\ \A k, l \in 1 .. Len(s) : h[k] = h[l] => k = l
  BY <1>1
<1>5. q[j] = s[i]
  BY <1>1 DEF Exchange
<1> HIDE DEF h, q
<1>6. IsInjective(q) /\ ToSet(q) = ToSet(s)
  BY <1>2, <1>3, <1>4, Permuted
<1>7. QED
  BY <1>2, <1>5, <1>6 DEF q

\* s with x inserted at place i.
LEMMA Inserted ==
  ASSUME NEW W, NEW s \in Seq(W), IsInjective(s), NEW i \in DOMAIN s,
         NEW x \in W, x \notin ToSet(s)
  PROVE  /\ InsertAt(s, i, x) \in Seq(W)
         /\ Len(InsertAt(s, i, x)) = Len(s) + 1
         /\ \A k \in 1 .. Len(s) + 1 :
              InsertAt(s, i, x)[k] = IF k < i THEN s[k] ELSE IF k = i THEN x ELSE s[k - 1]
         /\ IsInjective(InsertAt(s, i, x))
         /\ ToSet(InsertAt(s, i, x)) = ToSet(s) \cup {x}
<1> DEFINE q == InsertAt(s, i, x)
           a == SubSeq(s, 1, i - 1)
           b == SubSeq(s, i, Len(s))
<1>1. DOMAIN s = 1 .. Len(s) /\ Len(s) \in Nat /\ i \in 1 .. Len(s)
  OBVIOUS
<1>2. /\ a \in Seq(W) /\ Len(a) = i - 1
      /\ \A k \in 1 .. i - 1 : a[k] = s[k]
  BY <1>1
<1>3. /\ b \in Seq(W) /\ Len(b) = Len(s) - i + 1
      /\ \A k \in 1 .. Len(s) - i + 1 : b[k] = s[k + i - 1]
  BY <1>1
<1>4. <<x>> \in Seq(W) /\ Len(<<x>>) = 1 /\ <<x>>[1] = x
  OBVIOUS
<1> DEFINE c == a \o <<x>>
<1>5. q = c \o b
  BY DEF InsertAt
<1> HIDE DEF a, b, q
<1>6. /\ c \in Seq(W) /\ Len(c) = i
      /\ \A k \in 1 .. i : c[k] = IF k < i THEN s[k] ELSE x
  BY <1>1, <1>2, <1>4, ConcatProperties
<1> HIDE DEF c
<1>7. q \in Seq(W) /\ Len(q) = Len(s) + 1
  <2>1. Len(c) + Len(b) = Len(s) + 1
    BY <1>1, <1>3, <1>6
  <2>2. QED
    BY <1>3, <1>5, <1>6, <2>1, ConcatProperties
<1>8. \A k \in 1 .. Len(s) + 1 : q[k] = IF k < i THEN s[k] ELSE IF k = i THEN x ELSE s[k - 1]
  <2>1. \A k \in 1 .. Len(s) + 1 : q[k] = IF k <= i THEN c[k] ELSE b[k - i]
    BY <1>1, <1>3, <1>5, <1>6, ConcatProperties
  <2>2. ASSUME NEW k \in 1 .. Len(s) + 1, k > i PROVE b[k - i] = s[k - 1]
    <3>1. k - i \in 1 .. Len(s) - i + 1 /\ (k - i) + i - 1 = k - 1
      BY <1>1, <2>2
    <3>2. QED
      BY <1>3, <3>1
  <2>3. QED
    BY <1>1, <1>6, <2>1, <2>2
<1>9. \A k \in 1 .. Len(s) : s[k] # x
  BY <1>1 DEF ToSet
<1>10. IsInjective(q)
  <2>1. ASSUME NEW k \in 1 .. Len(s) + 1, NEW l \in 1 .. Len(s) + 1, q[k] = q[l], k < l PROVE FALSE
    <3>1. CASE k = i
      BY <1>1, <1>8, <1>9, <2>1, <3>1
    <3>2. CASE l = i
      BY <1>1, <1>8, <1>9, <2>1, <3>2
    <3>3. CASE k # i /\ l # i
      <4>1. PICK m \in 1 .. Len(s), n \in 1 .. Len(s) : m # n /\ q[k] = s[m] /\ q[l] = s[n]
        <5>1. CASE k < i /\ l < i
          BY <1>1, <1>8, <2>1, <5>1
        <5>2. CASE k < i /\ l > i
          BY <1>1, <1>8, <2>1, <5>2
        <5>3. CASE k > i
          BY <1>1, <1>8, <2>1, <5>3
        <5>4. QED
          BY <1>1, <2>1, <3>3, <5>1, <5>2, <5>3
      <4>2. QED
        BY <1>1, <2>1, <4>1 DEF IsInjective
    <3>4. QED
      BY <3>1, <3>2, <3>3
  <2>2. ASSUME NEW k \in DOMAIN q, NEW l \in DOMAIN q, q[k] = q[l] PROVE k = l
    <3>1. k \in 1 .. Len(s) + 1 /\ l \in 1 .. Len(s) + 1
      BY <1>7
    <3>2. ~(k < l) /\ ~(l < k)
      BY <2>1, <2>2, <3>1
    <3>3. QED
      BY <1>1, <3>1, <3>2
  <2>3. QED
    BY <2>2 DEF IsInjective
<1>11. ToSet(q) = ToSet(s) \cup {x}
  <2>1. ASSUME NEW y \in ToSet(q) PROVE y \in ToSet(s) \cup {x}
    <3>1. PICK k \in 1 .. Len(s) + 1 : y = q[k]
      BY <1>7 DEF ToSet
    <3>2. y = x \/ \E j \in 1 .. Len(s) : y = s[j]
      BY <1>1, <1>8, <3>1
    <3>3. QED
      BY <1>1, <3>2 DEF ToSet
  <2>2. ASSUME NEW y \in ToSet(s) PROVE y \in ToSet(q)
    <3>1. PICK k \in 1 .. Len(s) : y = s[k]
      BY <1>1 DEF ToSet
    <3>2. CASE k < i
      <4>1. k \in DOMAIN q /\ q[k] = y
        BY <1>1, <1>7, <1>8, <3>1, <3>2
      <4>2. QED
        BY <4>1 DEF ToSet
    <3>3. CASE k >= i
      <4>1. k + 1 \in DOMAIN q /\ q[k + 1] = y
        BY <1>1, <1>7, <1>8, <3>1, <3>3
      <4>2. QED
        BY <4>1 DEF ToSet
    <3>4. QED
      BY <1>1, <3>2, <3>3
  <2>3. x \in ToSet(q)
    <3>1. i \in DOMAIN q /\ q[i] = x
      BY <1>1, <1>7, <1>8
    <3>2. QED
      BY <3>1 DEF ToSet
  <2>4. QED
    BY <2>1, <2>2, <2>3
<1>12. QED
  BY <1>7, <1>8, <1>10, <1>11 DEF q

-----------------------------------------------------------------------------
(* One stack *)

Stacks(W) == [list : Seq(W), pos : Nat]

\* new is a stack with the windows of st, in any order and with any focus.
Reordered(W, st, new) ==
  new \in Stacks(W) /\ StackArranged(new) /\ ToSet(new.list) = ToSet(st.list)

\* A stack is empty exactly when it is the one without windows.
LEMMA EmptyStack ==
  ASSUME NEW W, NEW st \in Stacks(W), StackArranged(st)
  PROVE  /\ st = NoStack <=> st.list = <<>>
         /\ st.list # <<>> => st.pos \in 1 .. Len(st.list) /\ st.list[st.pos] \in ToSet(st.list)
<1>1. st.list = <<>> => st.pos = 0
  BY DEF StackArranged
<1>2. st = [list |-> st.list, pos |-> st.pos]
  BY DEF Stacks
<1>3. st = NoStack <=> st.list = <<>>
  BY <1>1, <1>2 DEF NoStack
<1>4. DOMAIN st.list = 1 .. Len(st.list)
  BY DEF Stacks
<1>5. QED
  BY <1>3, <1>4 DEF StackArranged, ToSet

\* The focus moves round the stack and the windows stay.
LEMMA FocusMoves ==
  ASSUME NEW W, NEW st \in Stacks(W), StackArranged(st), st # NoStack
  PROVE  Reordered(W, st, FocusUpIn(st)) /\ Reordered(W, st, FocusDownIn(st))
<1>1. st.list # <<>> /\ st.pos \in 1 .. Len(st.list) /\ st.list \in Seq(W)
  BY EmptyStack DEF Stacks
<1>2. Len(st.list) \in Nat \ {0} /\ DOMAIN st.list = 1 .. Len(st.list)
  BY <1>1
<1>3. /\ FocusUpIn(st) \in Stacks(W) /\ FocusUpIn(st).list = st.list
      /\ FocusUpIn(st).pos \in 1 .. Len(st.list)
  BY <1>1, <1>2 DEF FocusUpIn, Stacks
<1>4. /\ FocusDownIn(st) \in Stacks(W) /\ FocusDownIn(st).list = st.list
      /\ FocusDownIn(st).pos \in 1 .. Len(st.list)
  BY <1>1, <1>2 DEF FocusDownIn, Stacks
<1>5. QED
  BY <1>1, <1>2, <1>3, <1>4 DEF Reordered, StackArranged

\* The focused window changes places with a neighbour, round the end too.
LEMMA SwapUpReorders ==
  ASSUME NEW W, NEW st \in Stacks(W), StackArranged(st), st # NoStack
  PROVE  Reordered(W, st, SwapUpIn(st))
<1> DEFINE l == st.list
           new == SwapUpIn(st)
<1>1. l # <<>> /\ st.pos \in 1 .. Len(l) /\ l \in Seq(W) /\ IsInjective(l)
  BY EmptyStack DEF Stacks, StackArranged
<1>2. Len(l) \in Nat \ {0} /\ DOMAIN l = 1 .. Len(l)
  BY <1>1
<1>3. CASE st.pos > 1
  <2> DEFINE q == Exchange(l, st.pos - 1, st.pos)
  <2>1. st.pos - 1 \in DOMAIN l /\ st.pos \in DOMAIN l
    BY <1>1, <1>2, <1>3
  <2>2. q \in Seq(W) /\ Len(q) = Len(l) /\ IsInjective(q) /\ ToSet(q) = ToSet(l)
    BY <1>1, <2>1, Exchanged
  <2>3. new.list = q /\ new.pos = st.pos - 1 /\ new = [list |-> q, pos |-> st.pos - 1]
    BY <1>3 DEF SwapUpIn
  <2> HIDE DEF q, new
  <2>4. new.pos \in 1 .. Len(q) /\ new \in Stacks(W)
    BY <1>1, <1>2, <1>3, <2>2, <2>3 DEF Stacks
  <2>5. QED
    BY <1>2, <2>2, <2>3, <2>4 DEF Reordered, StackArranged, new
<1>4. CASE ~(st.pos > 1)
  <2> DEFINE q == Append(Tail(l), Head(l))
             n == Len(l)
             h == [k \in 1 .. n |-> IF k = n THEN 1 ELSE k + 1]
  <2>1. q \in Seq(W) /\ Len(q) = n
    BY <1>1, <1>2
  <2>2. \A k \in 1 .. n : q[k] = l[h[k]]
    BY <1>1, <1>2
  <2>3. h \in [1 .. n -> 1 .. n] /\ \A k, m \in 1 .. n : h[k] = h[m] => k = m
    BY <1>2
  <2>4. new = [list |-> q, pos |-> n]
    BY <1>4 DEF SwapUpIn
  <2> HIDE DEF q, h
  <2>5. IsInjective(q) /\ ToSet(q) = ToSet(l)
    BY <1>1, <2>1, <2>2, <2>3, Permuted
  <2>6. new.list = q /\ new.pos = n /\ new \in Stacks(W)
    BY <1>2, <2>1, <2>4 DEF Stacks
  <2> HIDE DEF new
  <2>7. QED
    BY <1>2, <2>1, <2>5, <2>6 DEF Reordered, StackArranged, new
<1>5. QED
  BY <1>3, <1>4

\* The same of the neighbour below, or of the last window wrapping round.
LEMMA SwapDownReorders ==
  ASSUME NEW W, NEW st \in Stacks(W), StackArranged(st), st # NoStack
  PROVE  Reordered(W, st, SwapDownIn(st))
<1> DEFINE l == st.list
           new == SwapDownIn(st)
<1>1. l # <<>> /\ st.pos \in 1 .. Len(l) /\ l \in Seq(W) /\ IsInjective(l)
  BY EmptyStack DEF Stacks, StackArranged
<1>2. Len(l) \in Nat \ {0} /\ DOMAIN l = 1 .. Len(l)
  BY <1>1
<1>3. CASE st.pos < Len(l)
  <2> DEFINE q == Exchange(l, st.pos, st.pos + 1)
  <2>1. st.pos + 1 \in DOMAIN l /\ st.pos \in DOMAIN l
    BY <1>1, <1>2, <1>3
  <2>2. q \in Seq(W) /\ Len(q) = Len(l) /\ IsInjective(q) /\ ToSet(q) = ToSet(l)
    BY <1>1, <2>1, Exchanged
  <2>3. new.list = q /\ new.pos = st.pos + 1 /\ new = [list |-> q, pos |-> st.pos + 1]
    BY <1>3 DEF SwapDownIn
  <2> HIDE DEF q, new
  <2>4. new.pos \in 1 .. Len(q) /\ new \in Stacks(W)
    BY <1>1, <1>2, <1>3, <2>2, <2>3 DEF Stacks
  <2>5. QED
    BY <1>2, <2>2, <2>3, <2>4 DEF Reordered, StackArranged, new
<1>4. CASE ~(st.pos < Len(l))
  <2> DEFINE n == Len(l)
             front == SubSeq(l, 1, n - 1)
             q == <<l[n]>> \o front
             h == [k \in 1 .. n |-> IF k = 1 THEN n ELSE k - 1]
  <2>1. /\ front \in Seq(W) /\ Len(front) = n - 1
        /\ \A k \in 1 .. n - 1 : front[k] = l[k]
    BY <1>1, <1>2
  <2>2. l[n] \in W /\ <<l[n]>> \in Seq(W) /\ Len(<<l[n]>>) = 1 /\ <<l[n]>>[1] = l[n]
    BY <1>1, <1>2
  <2>3. new = [list |-> q, pos |-> 1]
    BY <1>4 DEF SwapDownIn, Last, Front
  <2> HIDE DEF front
  <2>4. /\ q \in Seq(W) /\ Len(q) = n
        /\ \A k \in 1 .. n : q[k] = IF k <= 1 THEN <<l[n]>>[k] ELSE front[k - 1]
    BY <1>2, <2>1, <2>2, ConcatProperties
  <2>5. q \in Seq(W) /\ Len(q) = Len(l)
    BY <2>4
  <2>6. \A k \in 1 .. n : q[k] = l[h[k]]
    BY <1>2, <2>1, <2>2, <2>4
  <2>7. h \in [1 .. n -> 1 .. n] /\ \A k, m \in 1 .. n : h[k] = h[m] => k = m
    BY <1>2
  <2> HIDE DEF q, h
  <2>8. IsInjective(q) /\ ToSet(q) = ToSet(l)
    BY <1>1, <2>5, <2>6, <2>7, Permuted
  <2>9. new.list = q /\ new.pos = 1 /\ new \in Stacks(W)
    BY <1>2, <2>3, <2>4 DEF Stacks
  <2> HIDE DEF new
  <2>10. QED
    BY <1>2, <2>4, <2>8, <2>9 DEF Reordered, StackArranged, new
<1>5. QED
  BY <1>3, <1>4

\* The focus and the master change places.
LEMMA SwapMasterReorders ==
  ASSUME NEW W, NEW st \in Stacks(W), StackArranged(st), st # NoStack
  PROVE  Reordered(W, st, SwapMasterIn(st))
<1> DEFINE l == st.list
           new == SwapMasterIn(st)
           q == Exchange(l, 1, st.pos)
<1>1. l # <<>> /\ st.pos \in 1 .. Len(l) /\ l \in Seq(W) /\ IsInjective(l)
  BY EmptyStack DEF Stacks, StackArranged
<1>2. Len(l) \in Nat \ {0} /\ DOMAIN l = 1 .. Len(l) /\ 1 \in DOMAIN l
  BY <1>1
<1>3. q \in Seq(W) /\ Len(q) = Len(l) /\ IsInjective(q) /\ ToSet(q) = ToSet(l)
  BY <1>1, <1>2, Exchanged
<1>4. new = [list |-> q, pos |-> 1]
  BY DEF SwapMasterIn
<1> HIDE DEF q
<1>5. new.list = q /\ new.pos = 1 /\ new \in Stacks(W)
  BY <1>2, <1>3, <1>4 DEF Stacks
<1> HIDE DEF new
<1>6. QED
  BY <1>2, <1>3, <1>5 DEF Reordered, StackArranged, new

\* A window that is not in the stack goes above the focus, and is focused.
LEMMA InsertAboveArranges ==
  ASSUME NEW W, NEW st \in Stacks(W), StackArranged(st), NEW w \in W, w \notin ToSet(st.list)
  PROVE  /\ InsertAbove(w, st) \in Stacks(W)
         /\ StackArranged(InsertAbove(w, st))
         /\ ToSet(InsertAbove(w, st).list) = ToSet(st.list) \cup {w}
<1> DEFINE l == st.list
           new == InsertAbove(w, st)
<1>1. l \in Seq(W) /\ IsInjective(l) /\ DOMAIN l = 1 .. Len(l) /\ Len(l) \in Nat
  BY DEF Stacks, StackArranged
<1>2. CASE st = NoStack
  <2>1. new = [list |-> <<w>>, pos |-> 1] /\ l = <<>>
    BY <1>2 DEF InsertAbove, NoStack
  <2>2. new \in Stacks(W) /\ StackArranged(new)
    BY <2>1 DEF Stacks, StackArranged, IsInjective
  <2>3. ToSet(new.list) = {w} /\ ToSet(l) = {}
    BY <2>1 DEF ToSet
  <2>4. QED
    BY <2>2, <2>3
<1>3. CASE st # NoStack
  <2> DEFINE q == InsertAt(l, st.pos, w)
  <2>1. l # <<>> /\ st.pos \in DOMAIN l
    BY <1>1, <1>3, EmptyStack
  <2>2. /\ q \in Seq(W) /\ Len(q) = Len(l) + 1
        /\ IsInjective(q) /\ ToSet(q) = ToSet(l) \cup {w}
    <3>1. w \notin ToSet(l)
      OBVIOUS
    <3>2. l \in Seq(W) /\ IsInjective(l) /\ st.pos \in DOMAIN l
      BY <1>1, <2>1
    <3>3. QED
      BY <3>1, <3>2, Inserted
  <2> HIDE DEF q
  <2>3. new.list = q /\ new.pos = st.pos /\ new \in Stacks(W)
    BY <1>3, <2>2 DEF InsertAbove, Stacks, q
  <2> HIDE DEF new
  <2>4. q # <<>> /\ new.pos \in DOMAIN q
    BY <1>1, <2>1, <2>2, <2>3
  <2>5. QED
    BY <2>2, <2>3, <2>4 DEF StackArranged, new
<1>4. QED
  BY <1>2, <1>3

\* What FilterStack keeps, and that a focus that is kept stays the focus.
LEMMA FilterArranges ==
  ASSUME NEW W, NEW st \in Stacks(W), StackArranged(st), NEW K
  PROVE  /\ FilterStack(K, st) \in Stacks(W)
         /\ StackArranged(FilterStack(K, st))
         /\ ToSet(FilterStack(K, st).list) = ToSet(st.list) \cap K
         /\ st # NoStack /\ st.list[st.pos] \in K =>
              LET new == FilterStack(K, st)
              IN  new # NoStack /\ new.list[new.pos] = st.list[st.pos]
<1> DEFINE l == st.list
           q == Kept(l, K)
           n == Cardinality(Places(l, K))
           before == {i \in 1 .. st.pos - 1 : l[i] \in K}
           b == Cardinality(before)
           new == FilterStack(K, st)
<1>1. l \in Seq(W) /\ IsInjective(l) /\ DOMAIN l = 1 .. Len(l) /\ Len(l) \in Nat /\ st.pos \in Nat
  BY DEF Stacks, StackArranged
<1>2. /\ q \in Seq(W) /\ Len(q) = n /\ n \in Nat
      /\ ToSet(q) = ToSet(l) \cap K /\ IsInjective(q)
  <2>1. l \in Seq(W) /\ IsInjective(l)
    BY <1>1
  <2>2. QED
    BY <2>1, KeptLists
<1>3. \A i \in Places(l, K) :
         LET j == Cardinality(Above(Places(l, K), i)) + 1 IN j \in 1 .. n /\ q[j] = l[i]
  <2>1. l \in Seq(W)
    BY <1>1
  <2>2. QED
    BY <2>1, KeptLists
<1>4. b \in Nat
  <2>1. IsFiniteSet(1 .. st.pos - 1)
    <3>1. 1 \in Int /\ st.pos - 1 \in Int
      BY <1>1
    <3>2. QED
      BY <3>1, FS_Interval
  <2>2. IsFiniteSet(before)
    BY <2>1, FS_Subset
  <2>3. QED
    BY <2>2, FS_CardinalityType
<1>5. new = [list |-> q, pos |-> AtMost(b + 1, Len(q))]
  BY DEF FilterStack
<1>6. st # NoStack /\ l[st.pos] \in K => b + 1 \in 1 .. n /\ q[b + 1] = l[st.pos]
  <2>1. SUFFICES ASSUME st # NoStack, l[st.pos] \in K
                 PROVE  b + 1 \in 1 .. n /\ q[b + 1] = l[st.pos]
    OBVIOUS
  <2>2. st.pos \in DOMAIN l
    BY <1>1, <2>1, EmptyStack
  <2>3. st.pos \in Places(l, K)
    BY <2>1, <2>2 DEF Places
  <2>4. Above(Places(l, K), st.pos) = before
    BY <1>1, <2>2 DEF Above, Places
  <2>5. QED
    BY <1>3, <2>3, <2>4
<1> HIDE DEF q, n, b
<1>7. new.list = q /\ new.pos = AtMost(b + 1, n) /\ AtMost(b + 1, n) \in Nat /\ new \in Stacks(W)
  BY <1>2, <1>4, <1>5 DEF Stacks, AtMost
<1> HIDE DEF new
<1>8. StackArranged(new)
  <2>1. q = <<>> => n = 0 /\ AtMost(b + 1, n) = 0
    BY <1>2, <1>4 DEF AtMost
  <2>2. q # <<>> => AtMost(b + 1, n) \in DOMAIN q
    BY <1>2, <1>4 DEF AtMost
  <2>3. QED
    BY <1>2, <1>7, <2>1, <2>2 DEF StackArranged
<1>9. st # NoStack /\ l[st.pos] \in K => new # NoStack /\ new.list[new.pos] = l[st.pos]
  <2>1. SUFFICES ASSUME st # NoStack, l[st.pos] \in K
                 PROVE  new # NoStack /\ new.list[new.pos] = l[st.pos]
    OBVIOUS
  <2>2. AtMost(b + 1, n) = b + 1 /\ q # <<>>
    BY <1>2, <1>4, <1>6, <2>1 DEF AtMost
  <2>3. QED
    BY <1>6, <1>7, <2>1, <2>2 DEF NoStack
<1>10. QED
  BY <1>2, <1>7, <1>8, <1>9 DEF new

-----------------------------------------------------------------------------
(* The whole structure *)

Well(T, O, W) == {s \in StackSets(T, O, W) : Arranged(s)}

\* new has the windows of s, arranged, and screens for the same outputs.
Rearranged(T, O, W, s, new) ==
  /\ new \in Well(T, O, W)
  /\ Placed(new) = Placed(s)
  /\ ToSet(new.outs) = ToSet(s.outs)
  /\ Len(new.outs) = Len(s.outs)

\* The parts of a well-formed stack set.
LEMMA WellParts ==
  ASSUME NEW T, NEW O, NEW W, NEW s \in Well(T, O, W)
  PROVE  /\ s = [order |-> s.order, outs |-> s.outs, stack |-> s.stack]
         /\ s.order \in Seq(T) /\ s.outs \in Seq(O)
         /\ s.stack \in [T -> Stacks(W)] /\ DOMAIN s.stack = T
         /\ ToSet(s.order) = T /\ IsInjective(s.order)
         /\ Len(s.outs) \in 1 .. Len(s.order) /\ IsInjective(s.outs)
         /\ DOMAIN s.order = 1 .. Len(s.order) /\ Len(s.order) \in Nat
         /\ DOMAIN s.outs = 1 .. Len(s.outs) /\ Len(s.outs) \in Nat
         /\ \A t \in T : s.stack[t] \in Stacks(W) /\ StackArranged(s.stack[t])
         /\ \A t, u \in T : t # u => ToSet(s.stack[t].list) \cap ToSet(s.stack[u].list) = {}
         /\ CurrentTag(s) \in T
<1>1. /\ s = [order |-> s.order, outs |-> s.outs, stack |-> s.stack]
      /\ s.order \in Seq(T) /\ s.outs \in Seq(O) /\ s.stack \in [T -> Stacks(W)]
  BY DEF Well, StackSets, Stacks
<1>2. Arranged(s)
  BY DEF Well
<1>3. /\ ToSet(s.order) = T /\ IsInjective(s.order)
      /\ Len(s.outs) \in 1 .. Len(s.order) /\ IsInjective(s.outs)
      /\ \A t \in T : StackArranged(s.stack[t])
      /\ \A t, u \in T : t # u => ToSet(s.stack[t].list) \cap ToSet(s.stack[u].list) = {}
  BY <1>1, <1>2 DEF Arranged
<1>4. /\ DOMAIN s.order = 1 .. Len(s.order) /\ Len(s.order) \in Nat
      /\ DOMAIN s.outs = 1 .. Len(s.outs) /\ Len(s.outs) \in Nat
  BY <1>1
<1>5. CurrentTag(s) \in T
  BY <1>1, <1>3, <1>4 DEF CurrentTag
<1>6. QED
  BY <1>1, <1>3, <1>4, <1>5

\* A place of each member of a sequence, and the only one without repetition.
LEMMA IndexOfMember ==
  ASSUME NEW W, NEW q \in Seq(W), NEW x \in ToSet(q)
  PROVE  /\ IndexOf(x, q) \in DOMAIN q /\ q[IndexOf(x, q)] = x
         /\ IsInjective(q) => \A i \in DOMAIN q : q[i] = x => IndexOf(x, q) = i
<1>1. \E i \in DOMAIN q : q[i] = x
  BY DEF ToSet
<1>2. IndexOf(x, q) \in DOMAIN q /\ q[IndexOf(x, q)] = x
  BY <1>1 DEF IndexOf
<1>3. QED
  BY <1>2 DEF IsInjective

\* A member moved to the front.
LEMMA MovedToFront ==
  ASSUME NEW W, NEW q \in Seq(W), IsInjective(q), NEW k \in DOMAIN q
  PROVE  LET new == <<q[k]>> \o RemoveAt(q, k)
         IN  /\ new \in Seq(W) /\ Len(new) = Len(q)
             /\ IsInjective(new) /\ ToSet(new) = ToSet(q)
             /\ \A i \in 1 .. Len(q) :
                  new[i] = IF i = 1 THEN q[k] ELSE IF i <= k THEN q[i - 1] ELSE q[i]
<1> DEFINE a == SubSeq(q, 1, k - 1)
           b == SubSeq(q, k + 1, Len(q))
           c == a \o b
           head == <<q[k]>>
           new == head \o c
           n == Len(q)
           h == [i \in 1 .. n |-> IF i = 1 THEN k ELSE IF i <= k THEN i - 1 ELSE i]
<1>1. DOMAIN q = 1 .. n /\ n \in Nat /\ k \in 1 .. n
  OBVIOUS
<1>2. a \in Seq(W) /\ Len(a) = k - 1 /\ \A i \in 1 .. k - 1 : a[i] = q[i]
  BY <1>1
<1>3. b \in Seq(W) /\ Len(b) = n - k /\ \A i \in 1 .. n - k : b[i] = q[i + k]
  BY <1>1
<1>4. head \in Seq(W) /\ Len(head) = 1 /\ head[1] = q[k]
  BY <1>1
<1>5. <<q[k]>> \o RemoveAt(q, k) = new
  BY DEF RemoveAt
<1>6. n - 1 \in Nat /\ k - 1 \in Nat /\ (n - 1) - (k - 1) = n - k /\ (k - 1) + 1 = k
  BY <1>1
<1> HIDE DEF a, b, n, head
<1>7. /\ c \in Seq(W) /\ Len(c) = n - 1
      /\ \A i \in 1 .. k - 1 : c[i] = a[i]
      /\ \A i \in k .. n - 1 : i - (k - 1) \in 1 .. n - k /\ c[i] = b[i - (k - 1)]
  <2>1. /\ c \in Seq(W) /\ Len(c) = Len(a) + Len(b)
        /\ \A i \in 1 .. Len(a) : c[i] = a[i]
        /\ \A i \in Len(a) + 1 .. Len(a) + Len(b) :
             i - Len(a) \in 1 .. Len(b) /\ c[i] = b[i - Len(a)]
    BY <1>2, <1>3, Concatenated
  <2>2. Len(a) + 1 = k /\ Len(a) + Len(b) = n - 1
    BY <1>1, <1>2, <1>3 DEF n
  <2> HIDE DEF c
  <2>3. QED
    BY <1>2, <1>3, <2>1, <2>2
<1> HIDE DEF c
<1>8. \A i \in 1 .. n - 1 : c[i] = IF i <= k - 1 THEN q[i] ELSE q[i + 1]
  <2>1. ASSUME NEW i \in 1 .. n - 1, i <= k - 1 PROVE c[i] = q[i]
    <3>1. i \in 1 .. k - 1
      BY <1>1, <2>1
    <3>2. QED
      BY <1>2, <1>7, <3>1
  <2>2. ASSUME NEW i \in 1 .. n - 1, ~(i <= k - 1) PROVE c[i] = q[i + 1]
    <3>1. i \in k .. n - 1 /\ (i - (k - 1)) + k = i + 1
      BY <1>1, <2>2
    <3>2. QED
      BY <1>3, <1>7, <3>1
  <2>3. QED
    BY <2>1, <2>2
<1>9. /\ new \in Seq(W) /\ Len(new) = n
      /\ \A i \in 1 .. 1 : new[i] = head[i]
      /\ \A i \in 1 + 1 .. n : i - 1 \in 1 .. n - 1 /\ new[i] = c[i - 1]
  <2>1. /\ new \in Seq(W) /\ Len(new) = Len(head) + Len(c)
        /\ \A i \in 1 .. Len(head) : new[i] = head[i]
        /\ \A i \in Len(head) + 1 .. Len(head) + Len(c) :
             i - Len(head) \in 1 .. Len(c) /\ new[i] = c[i - Len(head)]
    <3>1. head \in Seq(W) /\ c \in Seq(W)
      BY <1>4, <1>7
    <3>2. QED
      BY <3>1, Concatenated
  <2>2. Len(head) + Len(c) = n
    BY <1>1, <1>4, <1>7 DEF n
  <2> HIDE DEF new
  <2>3. QED
    BY <1>4, <1>7, <2>1, <2>2
<1> HIDE DEF new
<1>10. \A i \in 1 .. n : new[i] = IF i = 1 THEN q[k] ELSE IF i <= k THEN q[i - 1] ELSE q[i]
  <2>1. ASSUME NEW i \in 1 .. n, i # 1
        PROVE  new[i] = IF i <= k THEN q[i - 1] ELSE q[i]
    <3>1. i \in 1 + 1 .. n /\ (i - 1 <= k - 1 <=> i <= k) /\ (i - 1) + 1 = i
      BY <1>1, <2>1
    <3>2. QED
      BY <1>8, <1>9, <3>1
  <2>2. new[1] = q[k]
    BY <1>4, <1>9
  <2>3. QED
    BY <2>1, <2>2
<1>11. \A i \in 1 .. n : new[i] = q[h[i]]
  BY <1>1, <1>10
<1>12. h \in [1 .. n -> 1 .. n] /\ \A i, j \in 1 .. n : h[i] = h[j] => i = j
  BY <1>1
<1>13. new \in Seq(W) /\ Len(new) = Len(q)
  BY <1>9 DEF n
<1> HIDE DEF h
<1>14. IsInjective(new) /\ ToSet(new) = ToSet(q)
  BY <1>11, <1>12, <1>13, Permuted DEF n
<1>15. QED
  BY <1>5, <1>10, <1>13, <1>14 DEF n

\* A hidden workspace in the place of the current one, which becomes the
\* first hidden one.
HiddenFirst(o, n, k) ==
  <<o[k]>> \o SubSeq(o, 2, n) \o <<o[1]>> \o SubSeq(o, n + 1, k - 1) \o SubSeq(o, k + 1, Len(o))

\* RaiseHidden permutes the workspaces.
LEMMA HiddenRaised ==
  ASSUME NEW W, NEW o \in Seq(W), IsInjective(o), NEW n \in Nat, NEW k \in DOMAIN o,
         1 <= n, n < k
  PROVE  LET new == HiddenFirst(o, n, k)
         IN  /\ new \in Seq(W) /\ Len(new) = Len(o)
             /\ IsInjective(new) /\ ToSet(new) = ToSet(o)
             /\ \A i \in 1 .. Len(o) :
                  new[i] = IF i = 1 THEN o[k] ELSE IF i <= n THEN o[i]
                           ELSE IF i = n + 1 THEN o[1] ELSE IF i <= k THEN o[i - 1] ELSE o[i]
<1> DEFINE m == Len(o)
           a == SubSeq(o, 2, n)
           b == SubSeq(o, n + 1, k - 1)
           c == SubSeq(o, k + 1, m)
           first == <<o[k]>>
           old == <<o[1]>>
           x == first \o a
           y == x \o old
           z == y \o b
           new == z \o c
           h == [i \in 1 .. m |-> IF i = 1 THEN k ELSE IF i <= n THEN i
                                  ELSE IF i = n + 1 THEN 1 ELSE IF i <= k THEN i - 1 ELSE i]
<1>1. DOMAIN o = 1 .. m /\ m \in Nat /\ k \in 1 .. m /\ n \in 1 .. m /\ k \in Nat
  OBVIOUS
<1>2. a \in Seq(W) /\ Len(a) = n - 1 /\ \A i \in 1 .. n - 1 : a[i] = o[i + 1]
  BY <1>1
<1>3. b \in Seq(W) /\ Len(b) = k - (n + 1) /\ \A i \in 1 .. k - (n + 1) : b[i] = o[i + n]
  BY <1>1
<1>4. c \in Seq(W) /\ Len(c) = m - k /\ \A i \in 1 .. m - k : c[i] = o[i + k]
  BY <1>1
<1>5. /\ first \in Seq(W) /\ Len(first) = 1 /\ first[1] = o[k]
      /\ old \in Seq(W) /\ Len(old) = 1 /\ old[1] = o[1]
  BY <1>1
<1>6. new = HiddenFirst(o, n, k)
  BY DEF HiddenFirst
<1>7. n + 1 \in Nat /\ (n + 1) - n = 1
  BY <1>1
<1> HIDE DEF a, b, c, m, first, old
<1>8. /\ x \in Seq(W) /\ Len(x) = n
      /\ \A i \in 1 .. 1 : x[i] = first[i]
      /\ \A i \in 1 + 1 .. n : i - 1 \in 1 .. n - 1 /\ x[i] = a[i - 1]
  <2>1. /\ x \in Seq(W) /\ Len(x) = Len(first) + Len(a)
        /\ \A i \in 1 .. Len(first) : x[i] = first[i]
        /\ \A i \in Len(first) + 1 .. Len(first) + Len(a) :
             i - Len(first) \in 1 .. Len(a) /\ x[i] = a[i - Len(first)]
    <3>1. first \in Seq(W) /\ a \in Seq(W)
      BY <1>2, <1>5
    <3>2. QED
      BY <3>1, Concatenated
  <2>2. Len(first) + Len(a) = n
    BY <1>1, <1>2, <1>5
  <2> HIDE DEF x
  <2>3. QED
    BY <1>2, <1>5, <2>1, <2>2
<1> HIDE DEF x
<1>9. \A i \in 1 .. n : x[i] = IF i = 1 THEN o[k] ELSE o[i]
  <2>1. ASSUME NEW i \in 1 .. n, i # 1 PROVE x[i] = o[i]
    <3>1. i \in 1 + 1 .. n /\ (i - 1) + 1 = i
      BY <1>1, <2>1
    <3>2. QED
      BY <1>2, <1>8, <3>1
  <2>2. x[1] = o[k]
    BY <1>5, <1>8
  <2>3. QED
    BY <2>1, <2>2
<1>10. /\ y \in Seq(W) /\ Len(y) = n + 1
       /\ \A i \in 1 .. n : y[i] = x[i]
       /\ \A i \in n + 1 .. n + 1 : i - n \in 1 .. (n + 1) - n /\ y[i] = old[i - n]
  <2>1. /\ y \in Seq(W) /\ Len(y) = Len(x) + Len(old)
        /\ \A i \in 1 .. Len(x) : y[i] = x[i]
        /\ \A i \in Len(x) + 1 .. Len(x) + Len(old) :
             i - Len(x) \in 1 .. Len(old) /\ y[i] = old[i - Len(x)]
    <3>1. x \in Seq(W) /\ old \in Seq(W)
      BY <1>5, <1>8
    <3>2. QED
      BY <3>1, Concatenated
  <2> HIDE DEF y
  <2>2. QED
    BY <1>5, <1>7, <1>8, <2>1
<1> HIDE DEF y
<1>11. y[n + 1] = o[1]
  BY <1>5, <1>7, <1>10
<1>12. /\ z \in Seq(W) /\ Len(z) = k
       /\ \A i \in 1 .. n + 1 : z[i] = y[i]
       /\ \A i \in n + 1 + 1 .. k : i - (n + 1) \in 1 .. k - (n + 1) /\ z[i] = b[i - (n + 1)]
  <2>1. /\ z \in Seq(W) /\ Len(z) = Len(y) + Len(b)
        /\ \A i \in 1 .. Len(y) : z[i] = y[i]
        /\ \A i \in Len(y) + 1 .. Len(y) + Len(b) :
             i - Len(y) \in 1 .. Len(b) /\ z[i] = b[i - Len(y)]
    <3>1. y \in Seq(W) /\ b \in Seq(W)
      BY <1>3, <1>10
    <3>2. QED
      BY <3>1, Concatenated
  <2>2. Len(y) + Len(b) = k
    BY <1>1, <1>3, <1>10
  <2> HIDE DEF z
  <2>3. QED
    BY <1>3, <1>10, <2>1, <2>2
<1> HIDE DEF z
<1>13. /\ new \in Seq(W) /\ Len(new) = m
       /\ \A i \in 1 .. k : new[i] = z[i]
       /\ \A i \in k + 1 .. m : i - k \in 1 .. m - k /\ new[i] = c[i - k]
  <2>1. /\ new \in Seq(W) /\ Len(new) = Len(z) + Len(c)
        /\ \A i \in 1 .. Len(z) : new[i] = z[i]
        /\ \A i \in Len(z) + 1 .. Len(z) + Len(c) :
             i - Len(z) \in 1 .. Len(c) /\ new[i] = c[i - Len(z)]
    <3>1. z \in Seq(W) /\ c \in Seq(W)
      BY <1>4, <1>12
    <3>2. QED
      BY <3>1, Concatenated
  <2>2. Len(z) + Len(c) = m
    BY <1>1, <1>4, <1>12 DEF m
  <2> HIDE DEF new
  <2>3. QED
    BY <1>4, <1>12, <2>1, <2>2
<1>14. \A i \in 1 .. m :
         new[i] = IF i = 1 THEN o[k] ELSE IF i <= n THEN o[i]
                  ELSE IF i = n + 1 THEN o[1] ELSE IF i <= k THEN o[i - 1] ELSE o[i]
  <2> HIDE DEF new
  <2>1. ASSUME NEW i \in 1 .. m, i <= n PROVE new[i] = IF i = 1 THEN o[k] ELSE o[i]
    <3>1. i \in 1 .. n /\ i \in 1 .. n + 1 /\ i \in 1 .. k
      BY <1>1, <2>1
    <3>2. QED
      BY <1>9, <1>10, <1>12, <1>13, <3>1
  <2>2. new[n + 1] = o[1]
    <3>1. n + 1 \in 1 .. n + 1 /\ n + 1 \in 1 .. k
      BY <1>1
    <3>2. QED
      BY <1>11, <1>12, <1>13, <3>1
  <2>3. ASSUME NEW i \in 1 .. m, i > n + 1, i <= k PROVE new[i] = o[i - 1]
    <3>1. i \in 1 .. k /\ i \in n + 1 + 1 .. k /\ (i - (n + 1)) + n = i - 1
      BY <1>1, <2>3
    <3>2. QED
      BY <1>3, <1>12, <1>13, <3>1
  <2>4. ASSUME NEW i \in 1 .. m, i > k PROVE new[i] = o[i]
    <3>1. i \in k + 1 .. m /\ (i - k) + k = i
      BY <1>1, <2>4
    <3>2. QED
      BY <1>4, <1>13, <3>1
  <2>5. QED
    BY <1>1, <2>1, <2>2, <2>3, <2>4
<1> HIDE DEF new
<1>15. \A i \in 1 .. m : new[i] = o[h[i]]
  BY <1>1, <1>14
<1>16. h \in [1 .. m -> 1 .. m] /\ \A i, j \in 1 .. m : h[i] = h[j] => i = j
  BY <1>1
<1> HIDE DEF h
<1>17. IsInjective(new) /\ ToSet(new) = ToSet(o)
  <2>1. /\ new \in Seq(W) /\ Len(new) = Len(o) /\ h \in [1 .. Len(o) -> 1 .. Len(o)]
        /\ \A i, j \in 1 .. Len(o) : h[i] = h[j] => i = j
        /\ \A i \in 1 .. Len(o) : new[i] = o[h[i]]
    BY <1>13, <1>15, <1>16 DEF m
  <2>2. QED
    BY <2>1, Permuted
<1>18. QED
  BY <1>6, <1>13, <1>14, <1>17 DEF m

-----------------------------------------------------------------------------
(* The whole structure, step by step *)

\* A well-formed stack set from its parts.
LEMMA WellFromParts ==
  ASSUME NEW T, NEW O, NEW W, NEW o \in Seq(T), NEW outs \in Seq(O), NEW f \in [T -> Stacks(W)],
         ToSet(o) = T, IsInjective(o), Len(outs) \in 1 .. Len(o), IsInjective(outs),
         \A t \in T : StackArranged(f[t]),
         \A t, u \in T : t # u => ToSet(f[t].list) \cap ToSet(f[u].list) = {}
  PROVE  [order |-> o, outs |-> outs, stack |-> f] \in Well(T, O, W)
<1> DEFINE s == [order |-> o, outs |-> outs, stack |-> f]
<1>1. s \in StackSets(T, O, W)
  BY DEF StackSets, Stacks
<1>2. s.order = o /\ s.outs = outs /\ s.stack = f /\ DOMAIN f = T
  OBVIOUS
<1> HIDE DEF s
<1>3. Arranged(s)
  BY <1>2 DEF Arranged
<1>4. QED
  BY <1>1, <1>3 DEF Well, s

\* Where the windows of a well-formed stack set are.
LEMMA PlacedWindows ==
  ASSUME NEW T, NEW O, NEW W, NEW s \in Well(T, O, W)
  PROVE  /\ Placed(s) \subseteq W
         /\ \A w : w \in Placed(s) <=> \E t \in T : w \in ToSet(s.stack[t].list)
         /\ \A w : Member(w, s) <=> w \in Placed(s)
         /\ \A w \in Placed(s) :
              /\ FindTag(w, s) \in T /\ w \in ToSet(s.stack[FindTag(w, s)].list)
              /\ \A t \in T : w \in ToSet(s.stack[t].list) => t = FindTag(w, s)
<1>1. DOMAIN s.stack = T /\ ToSet(s.order) = T /\ IsInjective(s.order)
  BY WellParts
<1>2. \A w : w \in Placed(s) <=> \E t \in T : w \in ToSet(s.stack[t].list)
  BY <1>1 DEF Placed
<1>3. Placed(s) \subseteq W
  <2>1. ASSUME NEW t \in T PROVE ToSet(s.stack[t].list) \subseteq W
    <3>1. s.stack[t].list \in Seq(W)
      BY WellParts DEF Stacks
    <3>2. QED
      BY <3>1 DEF ToSet
  <2>2. QED
    BY <1>2, <2>1
<1>4. \A w : Member(w, s) <=> w \in Placed(s)
  BY <1>1, <1>2 DEF Member, Holds
<1>5. ASSUME NEW w \in Placed(s)
      PROVE  /\ FindTag(w, s) \in T /\ w \in ToSet(s.stack[FindTag(w, s)].list)
             /\ \A t \in T : w \in ToSet(s.stack[t].list) => t = FindTag(w, s)
  <2>1. PICK t \in T : w \in ToSet(s.stack[t].list)
    BY <1>2, <1>5
  <2>2. \A u \in T : w \in ToSet(s.stack[u].list) => u = t
    BY <2>1, WellParts
  <2>3. PICK i \in DOMAIN s.order : s.order[i] = t
    BY <1>1 DEF ToSet
  <2>4. DOMAIN s.order = 1 .. Len(s.order) /\ Len(s.order) \in Nat
    BY WellParts
  <2>5. \A j \in 1 .. i - 1 : j \in DOMAIN s.order /\ s.order[j] \in T /\ s.order[j] # t
    <3>1. ASSUME NEW j \in 1 .. i - 1 PROVE j \in DOMAIN s.order /\ j # i
      BY <2>4
    <3>2. QED
      BY <1>1, <2>3, <3>1 DEF ToSet, IsInjective
  <2> DEFINE First(j) == /\ Holds(s, s.order[j], w)
                         /\ \A k \in 1 .. j - 1 : ~Holds(s, s.order[k], w)
  <2>6. First(i)
    BY <2>1, <2>2, <2>3, <2>5 DEF Holds
  <2>7. FindTag(w, s) = s.order[CHOOSE j \in DOMAIN s.order : First(j)]
    BY DEF FindTag
  <2> HIDE DEF First
  <2>8. PICK j \in DOMAIN s.order : First(j) /\ FindTag(w, s) = s.order[j]
    BY <2>6, <2>7
  <2>9. s.order[j] \in T /\ w \in ToSet(s.stack[s.order[j]].list)
    BY <1>1, <2>8 DEF First, Holds, ToSet
  <2>10. QED
    BY <2>1, <2>2, <2>8, <2>9
<1>6. QED
  BY <1>2, <1>3, <1>4, <1>5

\* One workspace's stack replaced.
Restacked(t, st, s) == [s EXCEPT !.stack[t] = st]

\* It may have other windows than before, those of no other workspace.
LEMMA StackReplaced ==
  ASSUME NEW T, NEW O, NEW W, NEW s \in Well(T, O, W), NEW t \in T,
         NEW st \in Stacks(W), StackArranged(st),
         \A u \in T \ {t} : ToSet(st.list) \cap ToSet(s.stack[u].list) = {}
  PROVE  LET new == Restacked(t, st, s)
         IN  /\ new \in Well(T, O, W)
             /\ new.order = s.order /\ new.outs = s.outs
             /\ new.stack[t] = st
             /\ \A u \in T \ {t} : new.stack[u] = s.stack[u]
<1> DEFINE f == [s.stack EXCEPT ![t] = st]
           new == Restacked(t, st, s)
<1>1. /\ s = [order |-> s.order, outs |-> s.outs, stack |-> s.stack]
      /\ s.order \in Seq(T) /\ s.outs \in Seq(O)
      /\ s.stack \in [T -> Stacks(W)] /\ DOMAIN s.stack = T
      /\ ToSet(s.order) = T /\ IsInjective(s.order)
      /\ Len(s.outs) \in 1 .. Len(s.order) /\ IsInjective(s.outs)
  BY WellParts
<1>7. /\ \A u \in T : StackArranged(s.stack[u])
      /\ \A u, v \in T : u # v => ToSet(s.stack[u].list) \cap ToSet(s.stack[v].list) = {}
  BY WellParts
<1>2. f \in [T -> Stacks(W)] /\ f[t] = st /\ \A u \in T \ {t} : f[u] = s.stack[u]
  BY <1>1
<1>3. new = [order |-> s.order, outs |-> s.outs, stack |-> f]
  <2>1. s = [order |-> s.order, outs |-> s.outs, stack |-> s.stack]
    BY <1>1
  <2>2. QED
    BY <2>1 DEF Restacked
<1> HIDE DEF f, new
<1>4. \A u \in T : StackArranged(f[u])
  BY <1>7, <1>2
<1>5. \A u, v \in T : u # v => ToSet(f[u].list) \cap ToSet(f[v].list) = {}
  BY <1>7, <1>2
<1>6. new \in Well(T, O, W)
  <2>1. f \in [T -> Stacks(W)]
    BY <1>2
  <2>2. [order |-> s.order, outs |-> s.outs, stack |-> f] \in Well(T, O, W)
    BY <1>1, <1>4, <1>5, <2>1, WellFromParts
  <2>3. QED
    BY <1>3, <2>2
<1>8. QED
  BY <1>2, <1>3, <1>6 DEF new

\* One workspace's stack reordered or focused elsewhere.
LEMMA StackReordered ==
  ASSUME NEW T, NEW O, NEW W, NEW s \in Well(T, O, W), NEW t \in T, NEW st,
         Reordered(W, s.stack[t], st)
  PROVE  LET new == Restacked(t, st, s)
         IN  /\ Rearranged(T, O, W, s, new)
             /\ new.order = s.order /\ new.outs = s.outs
             /\ \A u \in T : ToSet(new.stack[u].list) = ToSet(s.stack[u].list)
<1> DEFINE new == Restacked(t, st, s)
<1>1. st \in Stacks(W) /\ StackArranged(st) /\ ToSet(st.list) = ToSet(s.stack[t].list)
  BY DEF Reordered
<1>2. \A u \in T \ {t} : ToSet(st.list) \cap ToSet(s.stack[u].list) = {}
  <2>1. \A u, v \in T : u # v => ToSet(s.stack[u].list) \cap ToSet(s.stack[v].list) = {}
    BY WellParts
  <2>2. QED
    BY <1>1, <2>1
<1>3. /\ new \in Well(T, O, W)
      /\ new.order = s.order /\ new.outs = s.outs
      /\ new.stack[t] = st
      /\ \A u \in T \ {t} : new.stack[u] = s.stack[u]
  BY <1>1, <1>2, StackReplaced
<1> HIDE DEF new
<1>4. \A u \in T : ToSet(new.stack[u].list) = ToSet(s.stack[u].list)
  BY <1>1, <1>3
<1>5. Placed(new) = Placed(s)
  <2>1. \A w : w \in Placed(new) <=> \E u \in T : w \in ToSet(new.stack[u].list)
    BY <1>3, PlacedWindows
  <2>2. \A w : w \in Placed(s) <=> \E u \in T : w \in ToSet(s.stack[u].list)
    BY PlacedWindows
  <2>3. QED
    BY <1>4, <2>1, <2>2
<1>6. QED
  BY <1>3, <1>4, <1>5 DEF Rearranged, new

-----------------------------------------------------------------------------
(* Viewing a workspace *)

\* The workspace on screen i is the one its output shows.
LEMMA TagOnScreen ==
  ASSUME NEW T, NEW O, NEW W, NEW s \in Well(T, O, W), NEW i \in DOMAIN s.outs
  PROVE  TagOn(s.outs[i], s) = s.order[i]
<1>1. s.outs \in Seq(O) /\ IsInjective(s.outs)
  BY WellParts
<1>2. s.outs[i] \in ToSet(s.outs)
  BY DEF ToSet
<1>3. IndexOf(s.outs[i], s.outs) = i
  BY <1>1, <1>2, IndexOfMember
<1>4. QED
  BY <1>3 DEF TagOn

\* The outputs show the same workspaces when each screen is still there.
LEMMA ScreensStay ==
  ASSUME NEW T, NEW O, NEW W, NEW s \in Well(T, O, W), NEW new \in Well(T, O, W),
         ToSet(new.outs) = ToSet(s.outs),
         \A j \in DOMAIN s.outs : \E i \in DOMAIN new.outs :
           new.outs[i] = s.outs[j] /\ new.order[i] = s.order[j]
  PROVE  SameScreens(s, new)
<1>1. ASSUME NEW o \in ToSet(s.outs) PROVE TagOn(o, new) = TagOn(o, s)
  <2>1. PICK j \in DOMAIN s.outs : s.outs[j] = o
    BY DEF ToSet
  <2>2. PICK i \in DOMAIN new.outs : new.outs[i] = s.outs[j] /\ new.order[i] = s.order[j]
    OBVIOUS
  <2>3. TagOn(s.outs[j], s) = s.order[j]
    BY TagOnScreen
  <2>4. TagOn(new.outs[i], new) = new.order[i]
    BY TagOnScreen
  <2>5. QED
    BY <2>1, <2>2, <2>3, <2>4
<1>2. QED
  BY <1>1 DEF SameScreens

\* A screen that becomes current keeps what every output shows.
LEMMA ScreenRaised ==
  ASSUME NEW T, NEW O, NEW W, NEW s \in Well(T, O, W), NEW k \in DOMAIN s.outs, k > 1
  PROVE  LET new == RaiseScreen(k, s)
         IN  /\ new \in Well(T, O, W) /\ new.stack = s.stack
             /\ ToSet(new.outs) = ToSet(s.outs) /\ Len(new.outs) = Len(s.outs)
             /\ CurrentTag(new) = s.order[k]
             /\ new.order[2] = s.order[1]
             /\ SameScreens(s, new)
<1> DEFINE n == Len(s.outs)
           m == Len(s.order)
           o == <<s.order[k]>> \o RemoveAt(s.order, k)
           q == <<s.outs[k]>> \o RemoveAt(s.outs, k)
           new == RaiseScreen(k, s)
<1>1. /\ s = [order |-> s.order, outs |-> s.outs, stack |-> s.stack]
      /\ s.order \in Seq(T) /\ s.outs \in Seq(O)
      /\ s.stack \in [T -> Stacks(W)]
      /\ ToSet(s.order) = T /\ IsInjective(s.order)
      /\ n \in 1 .. m /\ IsInjective(s.outs)
      /\ DOMAIN s.order = 1 .. m /\ m \in Nat
      /\ DOMAIN s.outs = 1 .. n /\ n \in Nat
  BY WellParts
<1>2. /\ \A t \in T : StackArranged(s.stack[t])
      /\ \A t, u \in T : t # u => ToSet(s.stack[t].list) \cap ToSet(s.stack[u].list) = {}
  BY WellParts
<1>3. k \in 2 .. n /\ k \in DOMAIN s.order
  BY <1>1
<1>4. /\ o \in Seq(T) /\ Len(o) = m /\ IsInjective(o) /\ ToSet(o) = T
      /\ \A i \in 1 .. m :
           o[i] = IF i = 1 THEN s.order[k] ELSE IF i <= k THEN s.order[i - 1] ELSE s.order[i]
  <2> DEFINE order == s.order
  <2>1. /\ order \in Seq(T) /\ IsInjective(order) /\ k \in DOMAIN order /\ ToSet(order) = T
        /\ Len(order) = m
    BY <1>1, <1>3
  <2>2. o = <<order[k]>> \o RemoveAt(order, k)
    OBVIOUS
  <2> HIDE DEF order, o, m
  <2>3. /\ o \in Seq(T) /\ Len(o) = m /\ IsInjective(o) /\ ToSet(o) = T
        /\ \A i \in 1 .. m :
             o[i] = IF i = 1 THEN order[k] ELSE IF i <= k THEN order[i - 1] ELSE order[i]
    BY <2>1, <2>2, MovedToFront
  <2>4. QED
    BY <2>3 DEF order
<1>5. /\ q \in Seq(O) /\ Len(q) = n /\ IsInjective(q) /\ ToSet(q) = ToSet(s.outs)
      /\ \A i \in 1 .. n :
           q[i] = IF i = 1 THEN s.outs[k] ELSE IF i <= k THEN s.outs[i - 1] ELSE s.outs[i]
  <2> DEFINE outs == s.outs
  <2>1. outs \in Seq(O) /\ IsInjective(outs) /\ k \in DOMAIN outs /\ Len(outs) = n
    BY <1>1
  <2>2. q = <<outs[k]>> \o RemoveAt(outs, k)
    OBVIOUS
  <2> HIDE DEF outs, q, n
  <2>3. /\ q \in Seq(O) /\ Len(q) = n /\ IsInjective(q) /\ ToSet(q) = ToSet(outs)
        /\ \A i \in 1 .. n :
             q[i] = IF i = 1 THEN outs[k] ELSE IF i <= k THEN outs[i - 1] ELSE outs[i]
    BY <2>1, <2>2, MovedToFront
  <2>4. QED
    BY <2>3 DEF outs
<1>6. new = [order |-> o, outs |-> q, stack |-> s.stack]
  <2>1. s = [order |-> s.order, outs |-> s.outs, stack |-> s.stack]
    BY <1>1
  <2>2. new = [s EXCEPT !.order = o, !.outs = q]
    BY DEF RaiseScreen
  <2> HIDE DEF new, o, q
  <2>3. QED
    BY <2>1, <2>2
<1> HIDE DEF o, q, new, n, m
<1>7. new.order = o /\ new.outs = q /\ new.stack = s.stack
  BY <1>6
<1>8. new \in Well(T, O, W)
  <2>1. s.stack \in [T -> Stacks(W)] /\ Len(q) \in 1 .. Len(o)
    BY <1>1, <1>4, <1>5
  <2>2. o \in Seq(T) /\ q \in Seq(O) /\ ToSet(o) = T /\ IsInjective(o) /\ IsInjective(q)
    BY <1>4, <1>5
  <2>3. QED
    BY <1>2, <1>6, <2>1, <2>2, WellFromParts
<1>9. CurrentTag(new) = s.order[k] /\ new.order[2] = s.order[1]
  <2>1. 1 \in 1 .. m /\ 2 \in 1 .. m /\ 2 # 1 /\ 2 <= k /\ 2 - 1 = 1
    BY <1>1, <1>3
  <2>2. o[1] = s.order[k] /\ o[2] = s.order[1]
    BY <1>4, <2>1
  <2>3. QED
    BY <1>7, <2>2 DEF CurrentTag
<1>10. SameScreens(s, new)
  <2>1. ASSUME NEW j \in DOMAIN s.outs
        PROVE  \E i \in DOMAIN new.outs : new.outs[i] = s.outs[j] /\ new.order[i] = s.order[j]
    <3> DEFINE i == IF j = k THEN 1 ELSE IF j < k THEN j + 1 ELSE j
    <3>1. i \in 1 .. n /\ i \in 1 .. m /\ i \in DOMAIN q
      BY <1>1, <1>3, <1>5
    <3>2. q[i] = s.outs[j]
      <4>1. q[i] = IF i = 1 THEN s.outs[k] ELSE IF i <= k THEN s.outs[i - 1] ELSE s.outs[i]
        BY <1>5, <3>1
      <4>2. QED
        BY <1>1, <1>3, <4>1
    <3>3. o[i] = s.order[j]
      <4>1. o[i] = IF i = 1 THEN s.order[k]
                   ELSE IF i <= k THEN s.order[i - 1] ELSE s.order[i]
        BY <1>4, <3>1
      <4>2. QED
        BY <1>1, <1>3, <4>1
    <3>4. QED
      BY <1>7, <3>1, <3>2, <3>3
  <2>2. QED
    BY <1>5, <1>7, <1>8, <2>1, ScreensStay
<1>11. QED
  BY <1>5, <1>7, <1>8, <1>9, <1>10 DEF new, n

\* A hidden workspace that is shown replaces the current one and no other.
LEMMA HiddenShown ==
  ASSUME NEW T, NEW O, NEW W, NEW s \in Well(T, O, W), NEW k \in DOMAIN s.order,
         k > Len(s.outs)
  PROVE  LET new == RaiseHidden(k, s)
         IN  /\ new \in Well(T, O, W) /\ new.stack = s.stack
             /\ new.outs = s.outs
             /\ CurrentTag(new) = s.order[k]
             /\ \A i \in 2 .. Len(s.outs) : new.order[i] = s.order[i]
             /\ new.order[Len(s.outs) + 1] = s.order[1]
<1> DEFINE n == Len(s.outs)
           m == Len(s.order)
           o == HiddenFirst(s.order, n, k)
           new == RaiseHidden(k, s)
<1>1. /\ s = [order |-> s.order, outs |-> s.outs, stack |-> s.stack]
      /\ s.order \in Seq(T) /\ s.outs \in Seq(O)
      /\ s.stack \in [T -> Stacks(W)]
      /\ ToSet(s.order) = T /\ IsInjective(s.order)
      /\ n \in 1 .. m /\ IsInjective(s.outs)
      /\ DOMAIN s.order = 1 .. m /\ m \in Nat
  BY WellParts
<1>2. /\ \A t \in T : StackArranged(s.stack[t])
      /\ \A t, u \in T : t # u => ToSet(s.stack[t].list) \cap ToSet(s.stack[u].list) = {}
  BY WellParts
<1>3. k \in n + 1 .. m /\ n \in Nat /\ 1 <= n /\ n < k
  BY <1>1
<1>4. /\ o \in Seq(T) /\ Len(o) = m /\ IsInjective(o) /\ ToSet(o) = T
      /\ \A i \in 1 .. m :
           o[i] = IF i = 1 THEN s.order[k] ELSE IF i <= n THEN s.order[i]
                  ELSE IF i = n + 1 THEN s.order[1] ELSE IF i <= k THEN s.order[i - 1]
                  ELSE s.order[i]
  <2> HIDE DEF n
  <2>1. s.order \in Seq(T) /\ IsInjective(s.order) /\ ToSet(s.order) = T
    BY <1>1
  <2>2. QED
    <3>1. k \in DOMAIN s.order /\ n \in Nat /\ 1 <= n /\ n < k
      BY <1>3
    <3>2. s.order \in Seq(T) /\ IsInjective(s.order)
      BY <2>1
    <3>3. /\ o \in Seq(T) /\ Len(o) = Len(s.order)
          /\ IsInjective(o) /\ ToSet(o) = ToSet(s.order)
          /\ \A i \in 1 .. Len(s.order) :
               o[i] = IF i = 1 THEN s.order[k] ELSE IF i <= n THEN s.order[i]
                      ELSE IF i = n + 1 THEN s.order[1] ELSE IF i <= k THEN s.order[i - 1]
                      ELSE s.order[i]
      BY <3>1, <3>2, HiddenRaised
    <3> HIDE DEF o
    <3>4. QED
      BY <2>1, <3>3
<1>5. new = [order |-> o, outs |-> s.outs, stack |-> s.stack]
  <2>1. s = [order |-> s.order, outs |-> s.outs, stack |-> s.stack]
    BY <1>1
  <2>2. new = [s EXCEPT !.order = o]
    BY DEF RaiseHidden, HiddenFirst
  <2> HIDE DEF new, o
  <2>3. QED
    BY <2>1, <2>2
<1> HIDE DEF o, new, n, m
<1>6. new.order = o /\ new.outs = s.outs /\ new.stack = s.stack
  BY <1>5
<1>7. new \in Well(T, O, W)
  <2>1. s.stack \in [T -> Stacks(W)] /\ Len(s.outs) \in 1 .. Len(o)
    BY <1>1, <1>4 DEF n
  <2>2. /\ o \in Seq(T) /\ ToSet(o) = T /\ IsInjective(o)
        /\ s.outs \in Seq(O) /\ IsInjective(s.outs)
    BY <1>1, <1>4
  <2>3. QED
    BY <1>2, <1>5, <2>1, <2>2, WellFromParts
<1>8. CurrentTag(new) = s.order[k] /\ new.order[n + 1] = s.order[1]
  BY <1>1, <1>3, <1>4, <1>6 DEF CurrentTag
<1>9. \A i \in 2 .. n : new.order[i] = s.order[i]
  BY <1>1, <1>3, <1>4, <1>6
<1>10. QED
  BY <1>6, <1>7, <1>8, <1>9 DEF new, n

\* View shows the workspace it is asked for; screens that were showing one
\* before keep it when the workspace is on a screen.
LEMMA ViewShows ==
  ASSUME NEW T, NEW O, NEW W, NEW s \in Well(T, O, W), NEW t \in T
  PROVE  LET new == View(t, s)
         IN  /\ new \in Well(T, O, W) /\ new.stack = s.stack
             /\ ToSet(new.outs) = ToSet(s.outs) /\ Len(new.outs) = Len(s.outs)
             /\ CurrentTag(new) = t
             /\ (\E i \in DOMAIN s.outs : s.order[i] = t) => SameScreens(s, new)
<1> DEFINE k == IndexOf(t, s.order)
<1>1. /\ s.order \in Seq(T) /\ ToSet(s.order) = T /\ IsInjective(s.order)
      /\ DOMAIN s.order = 1 .. Len(s.order) /\ Len(s.order) \in Nat
      /\ DOMAIN s.outs = 1 .. Len(s.outs) /\ Len(s.outs) \in 1 .. Len(s.order)
  BY WellParts
<1>2. k \in DOMAIN s.order /\ s.order[k] = t /\ \A i \in DOMAIN s.order : s.order[i] = t => k = i
  <2>1. t \in ToSet(s.order) /\ s.order \in Seq(T) /\ IsInjective(s.order)
    BY <1>1
  <2>2. QED
    BY <2>1, IndexOfMember
<1>3. View(t, s) = IF k = 1 THEN s
                   ELSE IF k <= Len(s.outs) THEN RaiseScreen(k, s) ELSE RaiseHidden(k, s)
  BY <1>1 DEF View
<1> HIDE DEF k
<1>4. CASE k = 1
  <2>1. View(t, s) = s /\ CurrentTag(s) = t /\ SameScreens(s, s)
    BY <1>2, <1>3, <1>4 DEF CurrentTag, SameScreens
  <2>2. QED
    BY <2>1
<1>5. CASE k # 1 /\ k <= Len(s.outs)
  <2>1. k \in DOMAIN s.outs /\ k > 1
    BY <1>1, <1>2, <1>5
  <2>2. View(t, s) = RaiseScreen(k, s)
    BY <1>3, <1>5
  <2>3. QED
    BY <1>2, <2>1, <2>2, ScreenRaised
<1>6. CASE ~(k <= Len(s.outs))
  <2>1. k > Len(s.outs) /\ ~(k = 1)
    BY <1>1, <1>2, <1>6
  <2>2. View(t, s) = RaiseHidden(k, s)
    BY <1>3, <1>6, <2>1
  <2>3. ~(\E i \in DOMAIN s.outs : s.order[i] = t)
    <3>1. \A i \in DOMAIN s.outs : i \in DOMAIN s.order /\ i # k
      BY <1>1, <1>6
    <3>2. QED
      BY <1>2, <3>1
  <2>4. QED
    BY <1>2, <2>1, <2>2, <2>3, HiddenShown
<1>7. QED
  BY <1>1, <1>2, <1>4, <1>5, <1>6

\* Viewing another workspace and then the old one again, whatever happened to
\* the stacks meanwhile, leaves every output with its workspace.
LEMMA ViewedBack ==
  ASSUME NEW T, NEW O, NEW W, NEW s \in Well(T, O, W), NEW t \in T,
         NEW s2 \in Well(T, O, W), s2.order = View(t, s).order, s2.outs = View(t, s).outs
  PROVE  LET new == View(CurrentTag(s), s2)
         IN  /\ new \in Well(T, O, W) /\ new.stack = s2.stack
             /\ Len(new.outs) = Len(s.outs)
             /\ CurrentTag(new) = CurrentTag(s) /\ SameScreens(s, new)
<1> DEFINE c == CurrentTag(s)
           k == IndexOf(t, s.order)
           n == Len(s.outs)
           v == View(t, s)
           new == View(c, s2)
<1>1. /\ s.order \in Seq(T) /\ ToSet(s.order) = T /\ IsInjective(s.order)
      /\ DOMAIN s.order = 1 .. Len(s.order) /\ Len(s.order) \in Nat
      /\ DOMAIN s.outs = 1 .. n /\ n \in 1 .. Len(s.order)
      /\ c = s.order[1] /\ c \in T
  BY WellParts DEF CurrentTag
<1>2. k \in DOMAIN s.order /\ s.order[k] = t /\ \A i \in DOMAIN s.order : s.order[i] = t => k = i
  <2>1. t \in ToSet(s.order) /\ s.order \in Seq(T) /\ IsInjective(s.order)
    BY <1>1
  <2>2. QED
    BY <2>1, IndexOfMember
<1>3. v = IF k = 1 THEN s ELSE IF k <= n THEN RaiseScreen(k, s) ELSE RaiseHidden(k, s)
  BY <1>1 DEF View
<1>4. /\ v \in Well(T, O, W) /\ ToSet(v.outs) = ToSet(s.outs) /\ Len(v.outs) = n
  BY ViewShows
<1>5. /\ new \in Well(T, O, W) /\ new.stack = s2.stack /\ CurrentTag(new) = c
      /\ ToSet(new.outs) = ToSet(s2.outs) /\ Len(new.outs) = Len(s2.outs)
      /\ (\E i \in DOMAIN s2.outs : s2.order[i] = c) => SameScreens(s2, new)
  <2>1. c \in T
    BY <1>1
  <2> HIDE DEF c
  <2>2. QED
    BY <2>1, ViewShows
<1>6. /\ s2.order \in Seq(T) /\ IsInjective(s2.order)
      /\ DOMAIN s2.order = 1 .. Len(s2.order) /\ Len(s2.order) \in Nat
      /\ DOMAIN s2.outs = 1 .. Len(s2.outs) /\ Len(s2.outs) \in 1 .. Len(s2.order)
      /\ ToSet(s2.order) = T
  BY WellParts
<1>7. Len(s2.outs) = n /\ DOMAIN s2.outs = 1 .. n
  BY <1>4, <1>6
<1> HIDE DEF c, k, n, v, new
<1>8. SameScreens(s, s2) /\ (\E i \in DOMAIN s2.outs : s2.order[i] = c) => SameScreens(s, new)
  <2>1. SUFFICES ASSUME SameScreens(s, s2), \E i \in DOMAIN s2.outs : s2.order[i] = c
                 PROVE  SameScreens(s, new)
    OBVIOUS
  <2>2. SameScreens(s2, new)
    BY <1>5, <2>1
  <2>3. QED
    BY <2>1, <2>2 DEF SameScreens
<1>9. SameScreens(s, v) => SameScreens(s, s2)
  BY DEF SameScreens, TagOn, v
<1>10. CASE k = 1
  <2>1. v = s /\ 1 \in DOMAIN s2.outs
    BY <1>1, <1>3, <1>7, <1>10
  <2>2. SameScreens(s, v) /\ s2.order[1] = c
    BY <1>1, <2>1 DEF SameScreens, v
  <2>3. QED
    BY <1>5, <1>7, <1>8, <1>9, <2>1, <2>2 DEF c, n, new
<1>11. CASE k # 1 /\ k <= n
  <2>1. k \in DOMAIN s.outs /\ k > 1 /\ 2 \in DOMAIN s2.outs
    BY <1>1, <1>2, <1>7, <1>11
  <2>2. v = RaiseScreen(k, s)
    BY <1>3, <1>11
  <2>3. v.order[2] = s.order[1] /\ SameScreens(s, v)
    BY <2>1, <2>2, ScreenRaised
  <2>4. s2.order[2] = c
    BY <1>1, <2>3 DEF v
  <2>5. QED
    BY <1>5, <1>7, <1>8, <1>9, <2>1, <2>3, <2>4 DEF c, n, new
<1>12. CASE ~(k <= n)
  <2>1. k > Len(s.outs) /\ ~(k = 1)
    BY <1>1, <1>2, <1>12 DEF n
  <2>2. v = RaiseHidden(k, s)
    BY <1>3, <1>12, <2>1
  <2>3. /\ v.outs = s.outs
        /\ \A i \in 2 .. n : v.order[i] = s.order[i]
        /\ v.order[n + 1] = s.order[1]
    BY <1>2, <2>1, <2>2, HiddenShown DEF n
  <2>4. /\ s2.outs = s.outs
        /\ \A i \in 2 .. n : s2.order[i] = s.order[i]
        /\ s2.order[n + 1] = c
    BY <1>1, <2>3 DEF v
  <2>5. n + 1 \in DOMAIN s2.order
    <3>1. Len(s2.order) = Len(s.order)
      BY <1>1, <1>6, InjectiveLength
    <3>2. QED
      BY <1>1, <1>2, <1>6, <1>12, <3>1
  <2>6. IndexOf(c, s2.order) = n + 1
    <3>1. c \in ToSet(s2.order)
      BY <1>1, <1>6
    <3>2. s2.order \in Seq(T) /\ IsInjective(s2.order)
      BY <1>6
    <3>3. QED
      BY <2>4, <2>5, <3>1, <3>2, IndexOfMember
  <2>7. new = RaiseHidden(n + 1, s2)
    <3>1. c \in ToSet(s2.order) /\ ~(n + 1 = 1) /\ ~(n + 1 <= Len(s2.outs))
      BY <1>1, <1>6, <1>7
    <3>2. QED
      BY <2>6, <3>1 DEF View, new
  <2>8. /\ new.outs = s2.outs
        /\ CurrentTag(new) = s2.order[n + 1]
        /\ \A i \in 2 .. n : new.order[i] = s2.order[i]
    <3>1. n + 1 > Len(s2.outs)
      BY <1>1, <1>7
    <3>2. QED
      BY <1>7, <2>5, <2>7, <3>1, HiddenShown
  <2>9. \A i \in 1 .. n : new.order[i] = s.order[i]
    <3>1. \A i \in 1 .. n : i = 1 \/ i \in 2 .. n
      BY <1>1
    <3>2. new.order[1] = s.order[1]
      BY <1>1, <2>4, <2>8 DEF CurrentTag
    <3>3. QED
      BY <2>4, <2>8, <3>1, <3>2
  <2>10. SameScreens(s, new)
    <3>1. new.outs = s.outs
      BY <2>4, <2>8
    <3>2. \A j \in DOMAIN s.outs : j \in DOMAIN new.outs
                                   /\ new.outs[j] = s.outs[j] /\ new.order[j] = s.order[j]
      BY <1>1, <2>9, <3>1
    <3>3. QED
      BY <1>5, <3>1, <3>2, ScreensStay
  <2>11. QED
    BY <1>5, <1>7, <2>10 DEF c, n, new
<1>13. QED
  BY <1>1, <1>2, <1>10, <1>11, <1>12

-----------------------------------------------------------------------------
(* Changes of the whole structure *)

\* A stack set stays as it is or has its current stack reordered.
LEMMA ModifyArranges ==
  ASSUME NEW T, NEW O, NEW W, NEW s \in Well(T, O, W), NEW st,
         Reordered(W, Current(s), st)
  PROVE  LET new == Restacked(CurrentTag(s), st, s)
         IN  /\ Rearranged(T, O, W, s, new)
             /\ new.order = s.order /\ new.outs = s.outs
<1> DEFINE c == CurrentTag(s)
<1>1. c \in T /\ Reordered(W, s.stack[c], st)
  BY WellParts DEF Current
<1> HIDE DEF c
<1>2. LET new == Restacked(c, st, s)
      IN  /\ Rearranged(T, O, W, s, new)
          /\ new.order = s.order /\ new.outs = s.outs
  BY <1>1, StackReordered
<1>3. QED
  BY <1>2 DEF c

\* A stack is a reordering of itself, and so is one with another focus.
LEMMA FocusReorders ==
  ASSUME NEW W, NEW st \in Stacks(W), StackArranged(st), NEW i \in DOMAIN st.list
  PROVE  Reordered(W, st, [st EXCEPT !.pos = i])
<1>1. st = [list |-> st.list, pos |-> st.pos] /\ st.list \in Seq(W) /\ i \in Nat
  BY DEF Stacks
<1>2. [st EXCEPT !.pos = i] = [list |-> st.list, pos |-> i]
  BY <1>1
<1>3. st.list # <<>>
  OBVIOUS
<1>4. QED
  BY <1>1, <1>2, <1>3 DEF Reordered, StackArranged, Stacks

\* Focusing a window views its workspace and moves the focus there.
LEMMA FocusWindowArranges ==
  ASSUME NEW T, NEW O, NEW W, NEW s \in Well(T, O, W), NEW w
  PROVE  LET new == FocusWindow(w, s)
         IN  /\ Rearranged(T, O, W, s, new)
             /\ \A t \in T : new.stack[t].list = s.stack[t].list
             /\ (\E i \in DOMAIN s.outs : w \in ToSet(s.stack[s.order[i]].list)) =>
                  SameScreens(s, new)
<1>1. CASE Peek(s) = w \/ ~Member(w, s)
  BY <1>1 DEF FocusWindow, Rearranged, SameScreens
<1>2. CASE ~(Peek(s) = w \/ ~Member(w, s))
  <2> DEFINE a == FindTag(w, s)
             v == View(a, s)
             l == v.stack[a].list
             i == IndexOf(w, l)
             st == [v.stack[a] EXCEPT !.pos = i]
             new == Restacked(a, st, v)
  <2>1. w \in Placed(s)
    BY <1>2, PlacedWindows
  <2>2. /\ a \in T /\ w \in ToSet(s.stack[a].list)
        /\ \A t \in T : w \in ToSet(s.stack[t].list) => t = a
    BY <2>1, PlacedWindows
  <2>3. FocusWindow(w, s) = [v EXCEPT !.stack[CurrentTag(v)].pos = IndexOf(w, Index(v))]
    BY <1>2 DEF FocusWindow
  <2> HIDE DEF a
  <2>4. /\ v \in Well(T, O, W) /\ v.stack = s.stack
        /\ ToSet(v.outs) = ToSet(s.outs) /\ Len(v.outs) = Len(s.outs)
        /\ CurrentTag(v) = a
        /\ (\E j \in DOMAIN s.outs : s.order[j] = a) => SameScreens(s, v)
    BY <2>2, ViewShows
  <2> HIDE DEF v
  <2>5. FocusWindow(w, s) = new
    BY <2>3, <2>4 DEF Index, Current, Restacked
  <2>6. v.stack[a] \in Stacks(W) /\ StackArranged(v.stack[a])
    BY <2>2, <2>4, WellParts
  <2>7. l \in Seq(W) /\ w \in ToSet(l)
    BY <2>2, <2>4, <2>6 DEF Stacks
  <2>8. i \in DOMAIN l
    BY <2>7, IndexOfMember
  <2>9. Reordered(W, v.stack[a], st) /\ st.list = l
    <3> HIDE DEF i
    <3>1. Reordered(W, v.stack[a], st)
      BY <2>6, <2>8, FocusReorders
    <3>2. QED
      BY <2>6, <3>1 DEF Stacks
  <2> HIDE DEF st, l
  <2>10. /\ Rearranged(T, O, W, v, new)
         /\ new.order = v.order /\ new.outs = v.outs
    <3>1. v \in Well(T, O, W) /\ a \in T /\ Reordered(W, v.stack[a], st)
      BY <2>2, <2>4, <2>9
    <3>2. QED
      BY <3>1, StackReordered
  <2>11. new.stack = [v.stack EXCEPT ![a] = st]
    BY <2>4, WellParts DEF Restacked
  <2> HIDE DEF new
  <2>12. \A t \in T : new.stack[t].list = s.stack[t].list
    <3>1. v.stack \in [T -> Stacks(W)]
      BY <2>4, WellParts
    <3>2. QED
      BY <2>4, <2>9, <2>11, <3>1 DEF l
  <2>13. Placed(v) = Placed(s)
    BY <2>4 DEF Placed
  <2>14. Rearranged(T, O, W, s, new)
    BY <2>4, <2>10, <2>13 DEF Rearranged
  <2>15. ASSUME NEW j \in DOMAIN s.outs, w \in ToSet(s.stack[s.order[j]].list)
         PROVE  SameScreens(s, new)
    <3>1. s.order[j] \in T
      <4>1. /\ DOMAIN s.outs = 1 .. Len(s.outs) /\ Len(s.outs) \in 1 .. Len(s.order)
            /\ DOMAIN s.order = 1 .. Len(s.order) /\ s.order \in Seq(T)
        BY WellParts
      <4>2. QED
        BY <4>1
    <3>2. SameScreens(s, v)
      BY <2>2, <2>4, <2>15, <3>1
    <3>3. QED
      BY <2>10, <3>2 DEF SameScreens, TagOn
  <2>16. QED
    BY <2>5, <2>12, <2>14, <2>15
<1>3. QED
  BY <1>1, <1>2

\* A window that is inserted comes onto the current workspace and no other.
LEMMA InsertUpArranges ==
  ASSUME NEW T, NEW O, NEW W, NEW s \in Well(T, O, W), NEW w \in W
  PROVE  LET new == InsertUp(w, s)
             c == CurrentTag(s)
         IN  /\ new \in Well(T, O, W)
             /\ new.order = s.order /\ new.outs = s.outs
             /\ Placed(new) = Placed(s) \cup {w}
             /\ w \notin Placed(s) =>
                  /\ new.stack[c] = InsertAbove(w, s.stack[c])
                  /\ \A u \in T \ {c} : new.stack[u] = s.stack[u]
<1> DEFINE c == CurrentTag(s)
           st == InsertAbove(w, s.stack[c])
           new == Restacked(c, st, s)
<1>1. c \in T
  BY WellParts
<1>2. Member(w, s) <=> w \in Placed(s)
  BY PlacedWindows
<1>3. InsertUp(w, s) = IF w \in Placed(s) THEN s ELSE new
  BY <1>2 DEF InsertUp, Restacked
<1> HIDE DEF c
<1>4. CASE w \in Placed(s)
  <2>1. InsertUp(w, s) = s
    BY <1>3, <1>4
  <2>2. QED
    BY <1>4, <2>1
<1>5. CASE w \notin Placed(s)
  <2>1. \A t \in T : w \notin ToSet(s.stack[t].list)
    BY <1>5, PlacedWindows
  <2>2. s.stack[c] \in Stacks(W) /\ StackArranged(s.stack[c])
    BY <1>1, WellParts
  <2>3. st \in Stacks(W) /\ StackArranged(st) /\ ToSet(st.list) = ToSet(s.stack[c].list) \cup {w}
    <3> DEFINE old == s.stack[c]
    <3>1. old \in Stacks(W) /\ StackArranged(old) /\ w \notin ToSet(old.list)
      BY <1>1, <2>1, <2>2
    <3> HIDE DEF old
    <3>2. /\ InsertAbove(w, old) \in Stacks(W) /\ StackArranged(InsertAbove(w, old))
          /\ ToSet(InsertAbove(w, old).list) = ToSet(old.list) \cup {w}
      BY <3>1, InsertAboveArranges
    <3>3. QED
      BY <3>2 DEF old
  <2> HIDE DEF st
  <2>4. \A u \in T \ {c} : ToSet(st.list) \cap ToSet(s.stack[u].list) = {}
    <3>1. \A t, u \in T : t # u => ToSet(s.stack[t].list) \cap ToSet(s.stack[u].list) = {}
      BY WellParts
    <3>2. QED
      BY <1>1, <2>1, <2>3, <3>1
  <2>5. /\ new \in Well(T, O, W)
        /\ new.order = s.order /\ new.outs = s.outs
        /\ new.stack[c] = st
        /\ \A u \in T \ {c} : new.stack[u] = s.stack[u]
    BY <1>1, <2>3, <2>4, StackReplaced
  <2>6. InsertUp(w, s) = new
    BY <1>3, <1>5
  <2> HIDE DEF new
  <2>7. Placed(new) = Placed(s) \cup {w}
    <3>1. \A x : x \in Placed(new) <=> \E u \in T : x \in ToSet(new.stack[u].list)
      BY <2>5, PlacedWindows
    <3>2. \A x : x \in Placed(s) <=> \E u \in T : x \in ToSet(s.stack[u].list)
      BY PlacedWindows
    <3>3. \A u \in T : ToSet(new.stack[u].list) =
                         ToSet(s.stack[u].list) \cup (IF u = c THEN {w} ELSE {})
      BY <2>3, <2>5
    <3>4. QED
      BY <1>1, <3>1, <3>2, <3>3
  <2>8. QED
    BY <2>5, <2>6, <2>7 DEF st, c
<1>6. QED
  BY <1>4, <1>5

\* Stack st without w.
Left(w, st) == FilterStack(ToSet(st.list) \ {w}, st)

\* A window that is deleted leaves the workspace it is on.
LEMMA DeleteArranges ==
  ASSUME NEW T, NEW O, NEW W, NEW s \in Well(T, O, W), NEW w
  PROVE  LET new == Delete(w, s)
         IN  /\ new \in Well(T, O, W)
             /\ new.order = s.order /\ new.outs = s.outs
             /\ Placed(new) = Placed(s) \ {w}
             /\ \A t \in T :
                  /\ new.stack[t] = Left(w, s.stack[t])
                  /\ ToSet(new.stack[t].list) = ToSet(s.stack[t].list) \ {w}
<1> DEFINE f == [t \in T |-> Left(w, s.stack[t])]
           new == Delete(w, s)
<1>1. /\ s = [order |-> s.order, outs |-> s.outs, stack |-> s.stack]
      /\ s.order \in Seq(T) /\ s.outs \in Seq(O) /\ DOMAIN s.stack = T
      /\ ToSet(s.order) = T /\ IsInjective(s.order)
      /\ Len(s.outs) \in 1 .. Len(s.order) /\ IsInjective(s.outs)
  BY WellParts
<1>2. new = [s EXCEPT !.stack = f]
  BY <1>1 DEF Delete, Left
<1>3. ASSUME NEW t \in T
      PROVE  /\ f[t] \in Stacks(W) /\ StackArranged(f[t])
             /\ ToSet(f[t].list) = ToSet(s.stack[t].list) \ {w}
  <2>1. s.stack[t] \in Stacks(W) /\ StackArranged(s.stack[t])
    BY WellParts
  <2> DEFINE K == ToSet(s.stack[t].list) \ {w}
  <2>2. f[t] = FilterStack(K, s.stack[t])
    BY DEF Left
  <2>3. ToSet(s.stack[t].list) \cap K = K
    OBVIOUS
  <2> HIDE DEF K, f
  <2>4. /\ f[t] \in Stacks(W) /\ StackArranged(f[t])
        /\ ToSet(f[t].list) = K
    <3>1. /\ FilterStack(K, s.stack[t]) \in Stacks(W)
          /\ StackArranged(FilterStack(K, s.stack[t]))
          /\ ToSet(FilterStack(K, s.stack[t]).list) = ToSet(s.stack[t].list) \cap K
      BY <2>1, FilterArranges
    <3>2. QED
      BY <2>2, <2>3, <3>1
  <2>5. QED
    BY <2>4 DEF K
<1>4. \A t, u \in T : t # u => ToSet(f[t].list) \cap ToSet(f[u].list) = {}
  <2>1. \A t, u \in T : t # u => ToSet(s.stack[t].list) \cap ToSet(s.stack[u].list) = {}
    BY WellParts
  <2> HIDE DEF f
  <2>2. QED
    BY <1>3, <2>1
<1>5. \A t \in T : f[t] = Left(w, s.stack[t])
  OBVIOUS
<1>6. f = [t \in T |-> f[t]]
  OBVIOUS
<1> HIDE DEF f, new
<1>7. f \in [T -> Stacks(W)]
  BY <1>3, <1>6
<1>8. new = [order |-> s.order, outs |-> s.outs, stack |-> f]
  <2>1. s = [order |-> s.order, outs |-> s.outs, stack |-> s.stack]
    BY <1>1
  <2>2. QED
    BY <1>2, <2>1
<1>9. new.order = s.order /\ new.outs = s.outs /\ new.stack = f
  BY <1>8
<1>10. new \in Well(T, O, W)
  <2>1. \A t \in T : StackArranged(f[t])
    BY <1>3
  <2>2. [order |-> s.order, outs |-> s.outs, stack |-> f] \in Well(T, O, W)
    BY <1>1, <1>4, <1>7, <2>1, WellFromParts
  <2>3. QED
    BY <1>8, <2>2
<1>11. Placed(new) = Placed(s) \ {w}
  <2>1. \A x : x \in Placed(new) <=> \E u \in T : x \in ToSet(new.stack[u].list)
    BY <1>10, PlacedWindows
  <2>2. \A x : x \in Placed(s) <=> \E u \in T : x \in ToSet(s.stack[u].list)
    BY PlacedWindows
  <2>3. \A u \in T : ToSet(new.stack[u].list) = ToSet(s.stack[u].list) \ {w}
    BY <1>3, <1>9
  <2>4. QED
    BY <2>1, <2>2, <2>3
<1>12. QED
  BY <1>3, <1>5, <1>9, <1>10, <1>11 DEF new

\* A window that is sent to workspace t leaves its own, and the screens and
\* the current workspace are as before.
LEMMA ShiftWinArranges ==
  ASSUME NEW T, NEW O, NEW W, NEW s \in Well(T, O, W), NEW w, NEW t \in T
  PROVE  LET new == ShiftWin(t, w, s)
         IN  /\ Rearranged(T, O, W, s, new)
             /\ SameScreens(s, new) /\ CurrentTag(new) = CurrentTag(s)
             /\ \/ new = s
                \/ /\ w \in W /\ w \in Placed(s) /\ w \notin ToSet(s.stack[t].list)
                   /\ new.stack[t] = InsertAbove(w, Left(w, s.stack[t]))
                   /\ \A u \in T \ {t} : new.stack[u] = Left(w, s.stack[u])
             /\ w \in Placed(s) => w \in ToSet(new.stack[t].list)
             /\ \A x, u : /\ x # w /\ u \in T
                          => (x \in ToSet(new.stack[u].list) <=> x \in ToSet(s.stack[u].list))
<1> DEFINE new == ShiftWin(t, w, s)
           a == FindTag(w, s)
           c == CurrentTag(s)
           v == View(a, s)
           d == Delete(w, v)
           s1 == View(c, d)
           r == View(t, s1)
           i == InsertUp(w, r)
<1>1. CASE ~Member(w, s) \/ t \notin ToSet(s.order) \/ a = t
  <2>1. new = s /\ Rearranged(T, O, W, s, s) /\ SameScreens(s, s)
    BY <1>1 DEF ShiftWin, Rearranged, SameScreens
  <2>2. w \in Placed(s) => w \in ToSet(s.stack[t].list)
    <3>1. SUFFICES ASSUME w \in Placed(s) PROVE w \in ToSet(s.stack[t].list)
      OBVIOUS
    <3>2. Member(w, s) /\ ToSet(s.order) = T
      BY <3>1, PlacedWindows, WellParts
    <3>3. a = t
      BY <1>1, <3>2
    <3>4. w \in ToSet(s.stack[a].list)
      BY <3>1, PlacedWindows
    <3>5. QED
      BY <3>3, <3>4
  <2> HIDE DEF new
  <2>3. QED
    BY <2>1, <2>2 DEF new
<1>2. CASE ~(~Member(w, s) \/ t \notin ToSet(s.order) \/ a = t)
  <2>1. w \in Placed(s) /\ w \in W /\ a # t
    BY <1>2, PlacedWindows
  <2>2. /\ a \in T /\ w \in ToSet(s.stack[a].list)
        /\ \A u \in T : w \in ToSet(s.stack[u].list) => u = a
    BY <2>1, PlacedWindows
  <2>3. new = View(CurrentTag(s1), i)
    BY <1>2 DEF ShiftWin, OnWorkspace
  <2> HIDE DEF new, a
  <2>4. v \in Well(T, O, W) /\ v.stack = s.stack
    BY <2>2, ViewShows
  <2>5. /\ d \in Well(T, O, W) /\ d.order = v.order /\ d.outs = v.outs
        /\ Placed(d) = Placed(v) \ {w}
        /\ \A u \in T : d.stack[u] = Left(w, v.stack[u])
                        /\ ToSet(d.stack[u].list) = ToSet(v.stack[u].list) \ {w}
    <3>1. v \in Well(T, O, W)
      BY <2>4
    <3> HIDE DEF v
    <3>2. /\ d \in Well(T, O, W) /\ d.order = v.order /\ d.outs = v.outs
          /\ Placed(d) = Placed(v) \ {w}
      BY <3>1, DeleteArranges
    <3>3. ASSUME NEW u \in T
          PROVE  /\ d.stack[u] = Left(w, v.stack[u])
                 /\ ToSet(d.stack[u].list) = ToSet(v.stack[u].list) \ {w}
      BY <3>1, DeleteArranges
    <3>4. QED
      BY <3>2, <3>3
  <2> HIDE DEF d
  <2>6. /\ s1 \in Well(T, O, W) /\ s1.stack = d.stack
        /\ Len(s1.outs) = Len(s.outs)
        /\ CurrentTag(s1) = c /\ SameScreens(s, s1)
    BY <2>2, <2>5, ViewedBack
  <2> HIDE DEF s1, v
  <2>7. /\ r \in Well(T, O, W) /\ r.stack = s1.stack /\ CurrentTag(r) = t
    BY <2>6, ViewShows
  <2>8. Placed(r) = Placed(s) \ {w}
    <3>1. Placed(r) = Placed(d) /\ Placed(v) = Placed(s)
      BY <2>4, <2>6, <2>7 DEF Placed
    <3>2. QED
      BY <2>5, <3>1
  <2>9. /\ i \in Well(T, O, W)
        /\ i.order = r.order /\ i.outs = r.outs
        /\ Placed(i) = Placed(r) \cup {w}
        /\ i.stack[t] = InsertAbove(w, r.stack[t])
        /\ \A u \in T \ {t} : i.stack[u] = r.stack[u]
    <3>1. w \notin Placed(r) /\ w \in W
      BY <2>1, <2>8
    <3> HIDE DEF r
    <3>2. QED
      BY <2>7, <3>1, InsertUpArranges
  <2> HIDE DEF i
  <2>10. /\ new \in Well(T, O, W) /\ new.stack = i.stack
         /\ Len(new.outs) = Len(s1.outs)
         /\ CurrentTag(new) = CurrentTag(s1) /\ SameScreens(s1, new)
    BY <2>3, <2>6, <2>9, ViewedBack
  <2> HIDE DEF r, c
  <2>11. /\ new.stack[t] = InsertAbove(w, Left(w, s.stack[t]))
         /\ \A u \in T \ {t} : new.stack[u] = Left(w, s.stack[u])
    BY <2>4, <2>5, <2>6, <2>7, <2>9, <2>10
  <2>12. Placed(new) = Placed(s)
    <3>1. Placed(new) = Placed(i)
      BY <2>10 DEF Placed
    <3>2. QED
      BY <2>1, <2>8, <2>9, <3>1
  <2>13. SameScreens(s, new) /\ ToSet(new.outs) = ToSet(s.outs)
    BY <2>6, <2>10 DEF SameScreens
  <2>14. Rearranged(T, O, W, s, new) /\ CurrentTag(new) = CurrentTag(s)
    BY <2>6, <2>10, <2>12, <2>13 DEF Rearranged, c
  <2>15. w \notin ToSet(s.stack[t].list)
    BY <2>1, <2>2
  <2>16. ToSet(new.stack[t].list) = ToSet(s.stack[t].list) \cup {w}
    <3>1. r.stack[t] \in Stacks(W) /\ StackArranged(r.stack[t])
      BY <2>7, WellParts
    <3>2. ToSet(r.stack[t].list) = ToSet(s.stack[t].list) \ {w}
      BY <2>4, <2>5, <2>6, <2>7
    <3>3. w \notin ToSet(r.stack[t].list)
      BY <3>2
    <3>4. ToSet(InsertAbove(w, r.stack[t]).list) = ToSet(r.stack[t].list) \cup {w}
      <4> DEFINE st == r.stack[t]
      <4>1. st \in Stacks(W) /\ StackArranged(st) /\ w \notin ToSet(st.list) /\ w \in W
        BY <2>1, <3>1, <3>3
      <4> HIDE DEF st
      <4>2. ToSet(InsertAbove(w, st).list) = ToSet(st.list) \cup {w}
        BY <4>1, InsertAboveArranges
      <4>3. QED
        BY <4>2 DEF st
    <3>5. QED
      BY <2>9, <2>10, <3>2, <3>4
  <2>17. \A u \in T \ {t} : ToSet(new.stack[u].list) = ToSet(s.stack[u].list) \ {w}
    BY <2>4, <2>5, <2>6, <2>7, <2>9, <2>10
  <2>18. QED
    BY <2>1, <2>11, <2>13, <2>14, <2>15, <2>16, <2>17 DEF new
<1>3. QED
  BY <1>1, <1>2

-----------------------------------------------------------------------------
(* The order of the windows that stay *)

\* T has as many members as S when a numbers the ones by the others.
LEMMA Renumbered ==
  ASSUME NEW S, NEW T, IsFiniteSet(S), NEW a, S \subseteq DOMAIN a,
         \A i \in S : a[i] \in T, \A x \in T : \E i \in S : a[i] = x,
         \A i, j \in S : a[i] = a[j] => i = j
  PROVE  Cardinality(T) = Cardinality(S)
<1> DEFINE b == [i \in S |-> a[i]]
<1>1. b \in [S -> T] /\ \A i \in S : b[i] = a[i]
  OBVIOUS
<1> HIDE DEF b
<1>2. b \in Injection(S, T)
  BY <1>1 DEF Injection, IsInjective
<1>3. b \in Surjection(S, T)
  BY <1>1 DEF Surjection
<1>4. b \in Bijection(S, T)
  BY <1>2, <1>3 DEF Bijection
<1>5. QED
  BY <1>4, FS_Bijection DEF ExistsBijection

\* q is what is left of s at the places a gives, in order.
PartOf(a, q, s) ==
  /\ a \in [DOMAIN q -> DOMAIN s]
  /\ \A i, j \in DOMAIN q : i < j => a[i] < a[j]
  /\ \A i \in DOMAIN q : q[i] = s[a[i]]

\* A part of a list that still has the windows in K has them in their order.
LEMMA KeptOfPart ==
  ASSUME NEW W, NEW s \in Seq(W), IsInjective(s), NEW q \in Seq(W), NEW a, PartOf(a, q, s),
         NEW K, ToSet(s) \cap K \subseteq ToSet(q)
  PROVE  Kept(q, K) = Kept(s, K)
<1> DEFINE P == Places(q, K)
           R == Places(s, K)
           kq == Kept(q, K)
           ks == Kept(s, K)
<1>1. /\ DOMAIN q = 1 .. Len(q) /\ Len(q) \in Nat
      /\ DOMAIN s = 1 .. Len(s) /\ Len(s) \in Nat
  OBVIOUS
<1>2. /\ \A i \in DOMAIN q : i \in Nat /\ a[i] \in DOMAIN s /\ a[i] \in Nat /\ q[i] = s[a[i]]
      /\ \A i, j \in DOMAIN q : i < j => a[i] < a[j]
      /\ DOMAIN a = DOMAIN q
  BY <1>1 DEF PartOf
<1>3. \A i, j \in DOMAIN q : (a[i] = a[j] => i = j) /\ (a[i] < a[j] => i < j)
  BY <1>2
<1>4. IsInjective(q)
  BY <1>2, <1>3 DEF IsInjective
<1>5. P \subseteq DOMAIN q /\ \A i \in P : a[i] \in R
  BY <1>2 DEF Places
<1>6. ASSUME NEW x \in R PROVE \E i \in P : a[i] = x
  <2>1. x \in DOMAIN s /\ s[x] \in ToSet(s) \cap K
    BY DEF Places, ToSet
  <2>2. PICK i \in DOMAIN q : q[i] = s[x]
    BY <2>1 DEF ToSet
  <2>3. a[i] = x
    BY <1>2, <2>1, <2>2 DEF IsInjective
  <2>4. QED
    BY <2>1, <2>2, <2>3 DEF Places
<1>7. IsFiniteSet(P)
  <2>1. P \in SUBSET (1 .. Len(q)) /\ 1 \in Int /\ Len(q) \in Int
    BY <1>1, <1>5
  <2>2. IsFiniteSet(1 .. Len(q))
    BY <2>1, FS_Interval
  <2>3. QED
    BY <2>1, <2>2, FS_Subset
<1>8. /\ kq \in Seq(W) /\ Len(kq) = Cardinality(P) /\ IsInjective(kq)
      /\ ToSet(kq) = ToSet(q) \cap K
      /\ ks \in Seq(W) /\ Len(ks) = Cardinality(R)
  BY <1>4, KeptLists
<1>9. /\ \A i \in P : LET j == Cardinality(Above(P, i)) + 1
                     IN  j \in 1 .. Cardinality(P) /\ kq[j] = q[i]
      /\ \A i \in R : LET j == Cardinality(Above(R, i)) + 1
                     IN  j \in 1 .. Cardinality(R) /\ ks[j] = s[i]
  BY KeptLists
<1> HIDE DEF P, R, kq, ks
<1>10. Cardinality(R) = Cardinality(P)
  BY <1>2, <1>3, <1>5, <1>6, <1>7, Renumbered
<1>11. ASSUME NEW i \in P
       PROVE  Cardinality(Above(R, a[i])) = Cardinality(Above(P, i))
  <2> DEFINE S == Above(P, i)
             T == Above(R, a[i])
  <2>1. i \in DOMAIN q /\ S \subseteq P
    BY <1>5 DEF Above
  <2>2. IsFiniteSet(S)
    BY <1>7, <2>1, FS_Subset
  <2>3. \A k \in S : a[k] \in T
    BY <1>2, <1>5, <2>1 DEF Above
  <2>4. \A x \in T : \E k \in S : a[k] = x
    BY <1>3, <1>5, <1>6, <2>1 DEF Above
  <2>5. S \subseteq DOMAIN a /\ \A k, m \in S : a[k] = a[m] => k = m
    BY <1>2, <1>3, <1>5, <2>1
  <2> HIDE DEF S, T
  <2>6. Cardinality(T) = Cardinality(S)
    BY <2>2, <2>3, <2>4, <2>5, Renumbered
  <2>7. QED
    BY <2>6 DEF S, T
<1>12. ASSUME NEW j \in 1 .. Len(kq) PROVE kq[j] = ks[j]
  <2>1. j \in DOMAIN kq /\ DOMAIN kq = 1 .. Cardinality(P)
    BY <1>8
  <2>2. kq[j] \in ToSet(q) \cap K
    BY <1>8, <2>1 DEF ToSet
  <2>3. PICK i \in DOMAIN q : q[i] = kq[j] /\ i \in P
    BY <2>2 DEF ToSet, P, Places
  <2>4. j = Cardinality(Above(P, i)) + 1
    BY <1>8, <1>9, <2>1, <2>3 DEF IsInjective
  <2>5. ks[Cardinality(Above(R, a[i])) + 1] = s[a[i]]
    BY <1>5, <1>9, <2>3
  <2>6. QED
    BY <1>2, <1>11, <2>3, <2>4, <2>5
<1>13. Len(kq) = Len(ks) /\ Len(kq) \in Nat
  BY <1>8, <1>10
<1>14. kq = ks
  <2> HIDE DEF PartOf
  <2>1. QED
    BY <1>8, <1>12, <1>13
<1>15. QED
  BY <1>14 DEF kq, ks

\* Taking w away leaves the order of the others.
LEMMA KeptOfLeft ==
  ASSUME NEW W, NEW s \in Seq(W), IsInjective(s), NEW w, NEW K, w \notin K
  PROVE  Kept(Kept(s, ToSet(s) \ {w}), K) = Kept(s, K)
<1> DEFINE L == ToSet(s) \ {w}
           I == Places(s, L)
           a == Ascending(I)
           q == Kept(s, L)
<1>1. DOMAIN s = 1 .. Len(s) /\ Len(s) \in Nat
  OBVIOUS
<1>2. I \subseteq Nat /\ IsFiniteSet(I) /\ I \subseteq DOMAIN s
  <2>1. I \in SUBSET (1 .. Len(s)) /\ 1 \in Int /\ Len(s) \in Int /\ 1 .. Len(s) \subseteq Nat
    BY <1>1 DEF Places
  <2>2. IsFiniteSet(1 .. Len(s))
    BY <2>1, FS_Interval
  <2>3. QED
    BY <1>1, <2>1, <2>2, FS_Subset
<1>3. /\ DOMAIN a = 1 .. Cardinality(I) /\ a \in [1 .. Cardinality(I) -> I]
      /\ \A i, j \in 1 .. Cardinality(I) : i < j => a[i] < a[j]
  BY <1>2, AscendingLists
<1>4. q = [j \in DOMAIN a |-> s[a[j]]]
  BY DEF Kept, Places
<1>5. q \in Seq(W) /\ ToSet(q) = ToSet(s) \cap L
  BY KeptLists
<1> HIDE DEF a, q, I
<1>6. PartOf(a, q, s)
  BY <1>2, <1>3, <1>4 DEF PartOf
<1>7. ToSet(s) \cap K \subseteq ToSet(q)
  BY <1>5
<1> HIDE DEF L
<1>8. Kept(q, K) = Kept(s, K)
  BY <1>5, <1>6, <1>7, KeptOfPart
<1>9. QED
  BY <1>8 DEF q, L

\* Putting w among the others leaves their order.
LEMMA KeptOfInserted ==
  ASSUME NEW W, NEW s \in Seq(W), IsInjective(s), NEW i \in DOMAIN s,
         NEW w \in W, w \notin ToSet(s), NEW K, w \notin K
  PROVE  Kept(InsertAt(s, i, w), K) = Kept(s, K)
<1> DEFINE n == Len(s)
           new == InsertAt(s, i, w)
           a == [k \in 1 .. n |-> IF k < i THEN k ELSE k + 1]
<1>1. DOMAIN s = 1 .. n /\ n \in Nat /\ i \in 1 .. n
  OBVIOUS
<1>2. /\ new \in Seq(W) /\ Len(new) = n + 1 /\ IsInjective(new)
      /\ ToSet(new) = ToSet(s) \cup {w}
      /\ \A k \in 1 .. n + 1 : new[k] = IF k < i THEN s[k] ELSE IF k = i THEN w ELSE s[k - 1]
  BY Inserted
<1> HIDE DEF new, n
<1>3. DOMAIN new = 1 .. n + 1
  BY <1>1, <1>2
<1>4. ASSUME NEW k \in 1 .. n PROVE a[k] \in 1 .. n + 1 /\ s[k] = new[a[k]]
  <2>1. CASE k < i
    BY <1>1, <1>2, <2>1
  <2>2. CASE ~(k < i)
    <3>1. k + 1 \in 1 .. n + 1 /\ ~(k + 1 < i) /\ k + 1 # i /\ (k + 1) - 1 = k
      BY <1>1, <2>2
    <3>2. new[k + 1] = s[k]
      BY <1>2, <3>1
    <3>3. QED
      BY <2>2, <3>1, <3>2
  <2>3. QED
    BY <2>1, <2>2
<1>5. \A j, k \in 1 .. n : j < k => a[j] < a[k]
  BY <1>1
<1>6. a \in [1 .. n -> 1 .. n + 1]
  BY <1>4
<1> HIDE DEF a
<1>7. PartOf(a, s, new)
  BY <1>1, <1>3, <1>4, <1>5, <1>6 DEF PartOf
<1>8. ToSet(new) \cap K \subseteq ToSet(s)
  BY <1>2
<1>9. Kept(s, K) = Kept(new, K)
  BY <1>2, <1>7, <1>8, KeptOfPart
<1>10. QED
  BY <1>9 DEF new

\* Moving w to another workspace leaves the order of the others everywhere.
LEMMA KeptOfShifted ==
  ASSUME NEW T, NEW O, NEW W, NEW s \in Well(T, O, W), NEW w, NEW t \in T,
         NEW K, w \notin K, NEW u \in T
  PROVE  Kept(ShiftWin(t, w, s).stack[u].list, K) = Kept(s.stack[u].list, K)
<1> DEFINE new == ShiftWin(t, w, s)
           st == s.stack[u]
           l == st.list
           left == Left(w, st)
<1>1. st \in Stacks(W) /\ StackArranged(st) /\ l \in Seq(W) /\ IsInjective(l)
  BY WellParts DEF Stacks, StackArranged
<1>2. left.list = Kept(l, ToSet(l) \ {w})
  BY DEF Left, FilterStack
<1>3. Kept(left.list, K) = Kept(l, K)
  BY <1>1, <1>2, KeptOfLeft
<1>4. left \in Stacks(W) /\ StackArranged(left) /\ ToSet(left.list) = ToSet(l) \cap (ToSet(l) \ {w})
  <2> DEFINE L == ToSet(l) \ {w}
  <2>1. left = FilterStack(L, st)
    BY DEF Left
  <2> HIDE DEF L
  <2>2. /\ FilterStack(L, st) \in Stacks(W) /\ StackArranged(FilterStack(L, st))
        /\ ToSet(FilterStack(L, st).list) = ToSet(st.list) \cap L
    BY <1>1, FilterArranges
  <2>3. QED
    BY <2>1, <2>2 DEF L
<1>5. \/ new = s
      \/ u = t /\ w \in W /\ new.stack[u] = InsertAbove(w, left)
      \/ u # t /\ new.stack[u] = left
  BY ShiftWinArranges
<1> HIDE DEF new, left
<1>6. CASE u = t /\ w \in W /\ new.stack[u] = InsertAbove(w, left)
  <2>1. CASE left = NoStack
    <3>1. new.stack[u].list = <<w>> /\ left.list = <<>>
      BY <1>6, <2>1 DEF InsertAbove, NoStack
    <3>2. <<>> \in Seq(W) /\ <<w>> \in Seq(W) /\ IsInjective(<<w>>) /\ ToSet(<<w>>) = {w}
      BY <1>6 DEF IsInjective, ToSet
    <3>3. PartOf(<<>>, <<>>, <<w>>)
      BY DEF PartOf
    <3>4. Kept(<<>>, K) = Kept(<<w>>, K)
      <4>1. ToSet(<<w>>) \cap K \subseteq ToSet(<<>>)
        BY <3>2
      <4>2. QED
        BY <3>2, <3>3, <4>1, KeptOfPart
    <3>5. QED
      BY <1>3, <3>1, <3>4 DEF new
  <2>2. CASE left # NoStack
    <3>1. new.stack[u].list = InsertAt(left.list, left.pos, w)
      BY <1>4, <1>6, <2>2 DEF InsertAbove, Stacks
    <3>2. left.list \in Seq(W) /\ IsInjective(left.list) /\ w \notin ToSet(left.list)
      BY <1>4 DEF Stacks, StackArranged
    <3>3. left.pos \in DOMAIN left.list
      BY <1>4, <2>2, EmptyStack DEF StackArranged
    <3>4. Kept(new.stack[u].list, K) = Kept(left.list, K)
      BY <1>6, <3>1, <3>2, <3>3, KeptOfInserted
    <3>5. QED
      BY <1>3, <3>4 DEF new
  <2>3. QED
    BY <2>1, <2>2
<1>7. QED
  BY <1>3, <1>5, <1>6 DEF new
=============================================================================
