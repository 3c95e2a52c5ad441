----------------------------- MODULE ListProofs -----------------------------
(***************************************************************************)
(* Lemmas about lists: induction and recursion on their places, the order  *)
(* of a set of numbers, what is kept of a list, and concatenation.         *)
(*                                                                         *)
(* The provers cannot instantiate an induction theorem whose parameter is  *)
(* an operator, so induction is on sets: a set of numbers with no least    *)
(* member is empty, which is the library's theorem on well-founded         *)
(* relations for the relation Below.                                       *)
(***************************************************************************)
EXTENDS Lists, FiniteSetTheorems, SequenceTheorems, WellFoundedInduction, TLAPS

-----------------------------------------------------------------------------
(* Induction and recursion on a segment of the numbers *)

Below == {p \in Nat \X Nat : p[1] < p[2]}

\* Nothing descends forever in Below, which is < on Nat as a relation.
LEMMA BelowIsWellFounded == IsWellFoundedOn(Below, Nat)
<1>1. IsWellFoundedOn(OpToRel(<, Nat), Nat)
  BY NatLessThanWellFounded
<1>2. QED
  BY <1>1 DEF OpToRel, Below

\* A set of numbers that is not empty has a least member.
LEMMA LeastNumber ==
  ASSUME NEW S, S \subseteq Nat, S # {}
  PROVE  \E x \in S : \A y \in S : x <= y
<1>1. PICK x \in S : \A y \in S : ~(<<y, x>> \in Below)
  BY BelowIsWellFounded, WFMin
<1>2. \A y \in Nat : y < x => <<y, x>> \in Below
  BY <1>1 DEF Below
<1>3. ASSUME NEW y \in S PROVE x <= y
  <2>1. x \in Nat /\ y \in Nat /\ ~(<<y, x>> \in Below)
    BY <1>1
  <2>2. ~(y < x)
    BY <2>1, <1>2
  <2>3. QED
    BY <2>1, <2>2
<1>4. QED
  BY <1>3

\* Induction up to N: a set with 0 and every successor has all of 0 .. N.
LEMMA UpTo ==
  ASSUME NEW N \in Nat, NEW T, 0 \in T,
         \A i \in 1 .. N : i - 1 \in T => i \in T
  PROVE  \A i \in 0 .. N : i \in T
<1> DEFINE Missing == {i \in 0 .. N : i \notin T}
<1>1. SUFFICES Missing = {}
  OBVIOUS
<1>2. SUFFICES ASSUME Missing # {} PROVE FALSE
  OBVIOUS
<1>3. PICK x \in Missing : \A y \in Missing : x <= y
  <2>1. Missing \subseteq Nat
    OBVIOUS
  <2>2. QED
    BY <1>2, <2>1, LeastNumber
<1>4. x \in 1 .. N /\ x \notin T
  OBVIOUS
<1>5. x - 1 \notin T
  BY <1>4
<1>6. x - 1 \in Missing /\ ~(x <= x - 1)
  BY <1>4, <1>5
<1>7. QED
  BY <1>3, <1>6

\* The steps of a recursion on 0 .. N that stay in S, and its solutions.
Steps(N, S) == [1 .. N -> [S -> S]]
Solves(g, N, S, base, step) ==
  g \in [0 .. N -> S] /\ g[0] = base /\ \A i \in 1 .. N : g[i] = step[i][g[i - 1]]

\* A recursion whose steps stay in S has a solution.
LEMMA RecursionExists ==
  ASSUME NEW N \in Nat, NEW S, NEW base \in S, NEW step \in Steps(N, S)
  PROVE  \E g : Solves(g, N, S, base, step)
<1> DEFINE SolvesTo(g, n) == /\ g \in [0 .. n -> S]
                             /\ g[0] = base
                             /\ \A i \in 1 .. n : g[i] = step[i][g[i - 1]]
           T == {n \in 0 .. N : \E g : SolvesTo(g, n)}
<1>1. 0 \in T
  <2> DEFINE g == [i \in 0 .. 0 |-> base]
  <2>1. SolvesTo(g, 0)
    OBVIOUS
  <2> HIDE DEF g
  <2>2. QED
    BY <2>1
<1>2. ASSUME NEW n \in 1 .. N, n - 1 \in T PROVE n \in T
  <2>1. PICK g : SolvesTo(g, n - 1)
    BY <1>2
  <2> DEFINE h == [i \in 0 .. n |-> IF i = n THEN step[n][g[n - 1]] ELSE g[i]]
  <2>2. step[n] \in [S -> S] /\ g[n - 1] \in S
    BY <2>1 DEF Steps
  <2>3. h \in [0 .. n -> S]
    BY <2>1, <2>2
  <2>4. h[0] = base
    BY <2>1
  <2>5. \A i \in 1 .. n : h[i] = step[i][h[i - 1]]
    BY <2>1
  <2>6. SolvesTo(h, n)
    BY <2>3, <2>4, <2>5
  <2> HIDE DEF h
  <2>7. QED
    BY <2>6
<1>3. N \in T
  <2>1. N \in 0 .. N
    OBVIOUS
  <2> HIDE DEF T
  <2>2. QED
    BY <1>1, <1>2, <2>1, UpTo
<1>4. QED
  BY <1>3 DEF Solves

-----------------------------------------------------------------------------
(* Ascending and Kept *)

\* Ascending lists a finite set of numbers once each, in order, and puts each
\* behind as many as are below it.
LEMMA AscendingLists ==
  ASSUME NEW S, S \subseteq Nat, IsFiniteSet(S)
  PROVE  /\ Cardinality(S) \in Nat
         /\ Ascending(S) \in [1 .. Cardinality(S) -> S]
         /\ \A x \in S : LET j == Cardinality({y \in S : y < x}) + 1
                        IN  j \in 1 .. Cardinality(S) /\ Ascending(S)[j] = x
         /\ \A i, j \in 1 .. Cardinality(S) : i < j => Ascending(S)[i] < Ascending(S)[j]
<1> DEFINE n == Cardinality(S)
           Under(x) == {y \in S : y < x}
           rank(x) == Cardinality(Under(x))
           a == Ascending(S)
<1>1. n \in Nat
  BY FS_CardinalityType
<1>2. ASSUME NEW x \in S PROVE rank(x) \in 0 .. n - 1
  <2>1. Under(x) \in SUBSET S /\ Under(x) # S
    OBVIOUS
  <2>2. IsFiniteSet(Under(x)) /\ rank(x) <= n /\ rank(x) # n
    BY <2>1, FS_Subset
  <2>3. rank(x) \in Nat
    BY <2>2, FS_CardinalityType
  <2>4. QED
    BY <1>1, <2>2, <2>3
<1>3. ASSUME NEW x \in S, NEW y \in S, x < y PROVE rank(x) < rank(y)
  <2>1. Under(x) \in SUBSET Under(y)
    <3>1. \A z \in S : z < x => z < y
      BY <1>3
    <3>2. QED
      BY <3>1
  <2>2. x \in Under(y) /\ x \notin Under(x)
    BY <1>3
  <2>3. Under(y) \in SUBSET S
    OBVIOUS
  <2>4. IsFiniteSet(Under(y))
    BY <2>3, FS_Subset
  <2>5. rank(x) <= rank(y) /\ rank(x) # rank(y)
    BY <2>1, <2>2, <2>4, FS_Subset
  <2>6. QED
    BY <1>2, <2>5
<1>4. ASSUME NEW x \in S, NEW y \in S, rank(x) = rank(y) PROVE x = y
  <2>1. ~(x < y) /\ ~(y < x)
    BY <1>2, <1>3, <1>4
  <2>2. QED
    BY <2>1
<1>5. ASSUME NEW j \in 1 .. n PROVE \E x \in S : rank(x) = j - 1
  <2> DEFINE f == [x \in S |-> rank(x)]
  <2>1. f \in Injection(S, 0 .. n - 1)
    BY <1>2, <1>4 DEF Injection, IsInjective
  <2>2. IsFiniteSet(0 .. n - 1) /\ Cardinality(0 .. n - 1) = n
    <3>1. 0 \in Int /\ n - 1 \in Int /\ (0 > n - 1 <=> n = 0)
      BY <1>1
    <3> HIDE DEF n
    <3>2. QED
      BY <1>1, <3>1, FS_Interval
  <2>3. f \in Surjection(S, 0 .. n - 1)
    BY <2>1, <2>2, FS_Injection
  <2>4. j - 1 \in 0 .. n - 1
    BY <1>1
  <2>5. QED
    BY <2>3, <2>4 DEF Surjection
<1>6. ASSUME NEW j \in 1 .. n PROVE a[j] \in S /\ rank(a[j]) = j - 1
  <2>1. a[j] = CHOOSE x \in S : rank(x) = j - 1
    BY DEF Ascending
  <2>2. QED
    BY <1>5, <2>1
<1>7. a \in [1 .. n -> S]
  BY <1>6 DEF Ascending
<1>8. ASSUME NEW x \in S PROVE rank(x) + 1 \in 1 .. n /\ a[rank(x) + 1] = x
  <2>1. rank(x) + 1 \in 1 .. n /\ (rank(x) + 1) - 1 = rank(x)
    BY <1>1, <1>2
  <2>2. a[rank(x) + 1] \in S /\ rank(a[rank(x) + 1]) = rank(x)
    BY <1>6, <2>1
  <2>3. QED
    BY <2>1, <2>2, <1>4
<1>9. ASSUME NEW i \in 1 .. n, NEW j \in 1 .. n, i < j PROVE a[i] < a[j]
  <2>1. /\ a[i] \in S /\ rank(a[i]) = i - 1
        /\ a[j] \in S /\ rank(a[j]) = j - 1
    BY <1>6
  <2>2. a[i] \in Nat /\ a[j] \in Nat /\ i \in Int /\ j \in Int
    <3>1. i \in Int /\ j \in Int
      BY <1>1
    <3> HIDE DEF a, n
    <3>2. QED
      BY <2>1, <3>1
  <2>3. a[i] # a[j]
    BY <1>9, <2>1, <2>2
  <2>4. ~(a[j] < a[i])
    <3>1. SUFFICES ASSUME a[j] < a[i] PROVE FALSE
      OBVIOUS
    <3>2. rank(a[j]) < rank(a[i])
      BY <1>3, <2>1, <3>1
    <3>3. QED
      BY <1>9, <2>1, <2>2, <3>2
  <2>5. QED
    BY <2>2, <2>3, <2>4
<1>10. QED
  BY <1>1, <1>7, <1>8, <1>9

\* The same as facts about the list: no member twice, every member somewhere.
LEMMA AscendingIsList ==
  ASSUME NEW S, S \subseteq Nat, IsFiniteSet(S)
  PROVE  /\ Ascending(S) \in Seq(S)
         /\ Len(Ascending(S)) = Cardinality(S)
         /\ DOMAIN Ascending(S) = 1 .. Cardinality(S)
         /\ Cardinality(S) \in Nat
         /\ ToSet(Ascending(S)) = S
         /\ IsInjective(Ascending(S))
<1> DEFINE a == Ascending(S)
           n == Cardinality(S)
<1>1. n \in Nat /\ a \in [1 .. n -> S]
  BY AscendingLists
<1>2. a \in Seq(S) /\ Len(a) = n /\ DOMAIN a = 1 .. n
  BY <1>1
<1>3. ToSet(a) = S
  <2>1. \A x \in S : \E j \in 1 .. n : a[j] = x
    BY AscendingLists
  <2>2. QED
    BY <1>1, <2>1 DEF ToSet
<1>4. IsInjective(a)
  <2>1. \A i, j \in 1 .. n : i < j => a[i] < a[j]
    BY AscendingLists
  <2>2. ASSUME NEW i \in 1 .. n, NEW j \in 1 .. n, a[i] = a[j] PROVE i = j
    <3>1. i \in Int /\ j \in Int
      BY <1>1
    <3>2. a[i] \in S
      BY <1>1
    <3>3. \A x \in S : ~(x < x)
      OBVIOUS
    <3>4. ~(i < j) /\ ~(j < i)
      BY <2>1, <2>2, <3>2, <3>3
    <3>5. QED
      BY <3>1, <3>4
  <2>3. QED
    BY <1>2, <2>2 DEF IsInjective
<1>5. QED
  BY <1>1, <1>2, <1>3, <1>4

\* The places of s whose member is in K.
Places(s, K) == {i \in DOMAIN s : s[i] \in K}
Above(I, i) == {k \in I : k < i}

\* Kept is the list of the members of s in K, in the order of s: the member
\* at a kept place comes behind as many as are kept above it.
LEMMA KeptLists ==
  ASSUME NEW W, NEW s \in Seq(W), NEW K
  PROVE  /\ Kept(s, K) \in Seq(W)
         /\ Len(Kept(s, K)) = Cardinality(Places(s, K))
         /\ Cardinality(Places(s, K)) \in Nat
         /\ ToSet(Kept(s, K)) = ToSet(s) \cap K
         /\ IsInjective(s) => IsInjective(Kept(s, K))
         /\ \A i \in Places(s, K) :
              LET j == Cardinality(Above(Places(s, K), i)) + 1
              IN  j \in 1 .. Cardinality(Places(s, K)) /\ Kept(s, K)[j] = s[i]
<1> DEFINE I == Places(s, K)
           n == Cardinality(I)
           at == Ascending(I)
           q == Kept(s, K)
<1>1. Len(s) \in Nat /\ DOMAIN s = 1 .. Len(s) /\ \A i \in DOMAIN s : s[i] \in W
  OBVIOUS
<1>2. I \subseteq Nat /\ IsFiniteSet(I)
  <2>1. I \in SUBSET (1 .. Len(s))
    BY <1>1 DEF Places
  <2>2. IsFiniteSet(1 .. Len(s))
    BY <1>1, FS_Interval
  <2>3. QED
    BY <1>1, <2>1, <2>2, FS_Subset
<1>3. /\ n \in Nat
      /\ at \in [1 .. n -> I]
      /\ \A x \in I : LET j == Cardinality({y \in I : y < x}) + 1
                     IN  j \in 1 .. n /\ at[j] = x
  BY <1>2, AscendingLists
<1>4. DOMAIN at = 1 .. n /\ ToSet(at) = I /\ IsInjective(at)
  BY <1>2, AscendingIsList
<1> HIDE DEF at, n
<1>5. q = [j \in 1 .. n |-> s[at[j]]]
  BY <1>4 DEF at, Kept, Places
<1>6. \A j \in 1 .. n : at[j] \in DOMAIN s /\ s[at[j]] \in K /\ s[at[j]] \in W
  BY <1>1, <1>3 DEF Places
<1>7. q \in Seq(W) /\ Len(q) = n /\ DOMAIN q = 1 .. n
  BY <1>3, <1>5, <1>6
<1>8. ToSet(q) = ToSet(s) \cap K
  <2>1. ASSUME NEW x \in ToSet(q) PROVE x \in ToSet(s) \cap K
    BY <1>5, <1>6, <1>7 DEF ToSet
  <2>2. ASSUME NEW x \in ToSet(s) \cap K PROVE x \in ToSet(q)
    <3>1. PICK i \in DOMAIN s : s[i] = x
      BY DEF ToSet
    <3>2. i \in I
      BY <3>1 DEF Places
    <3>3. PICK j \in 1 .. n : at[j] = i
      BY <1>4, <3>2 DEF ToSet
    <3>4. q[j] = x
      BY <1>5, <3>1, <3>3
    <3>5. QED
      BY <1>7, <3>4 DEF ToSet
  <2>3. QED
    BY <2>1, <2>2
<1>9. ASSUME IsInjective(s) PROVE IsInjective(q)
  <2>1. ASSUME NEW j \in 1 .. n, NEW k \in 1 .. n, q[j] = q[k] PROVE j = k
    <3>1. s[at[j]] = s[at[k]]
      BY <1>5, <2>1
    <3>2. at[j] = at[k]
      BY <1>6, <1>9, <3>1 DEF IsInjective
    <3>3. QED
      BY <1>4, <3>2 DEF IsInjective
  <2>2. QED
    BY <1>7, <2>1 DEF IsInjective
<1>10. \A i \in I : LET j == Cardinality(Above(I, i)) + 1
                   IN  j \in 1 .. n /\ q[j] = s[i]
  BY <1>3, <1>5 DEF Above
<1>11. QED
  BY <1>3, <1>7, <1>8, <1>9, <1>10 DEF n

-----------------------------------------------------------------------------
(* Concatenation and choice of places *)

\* The two parts of a concatenation.
LEMMA Concatenated ==
  ASSUME NEW W, NEW a \in Seq(W), NEW b \in Seq(W)
  PROVE  /\ a \o b \in Seq(W) /\ Len(a \o b) = Len(a) + Len(b)
         /\ \A i \in 1 .. Len(a) : (a \o b)[i] = a[i]
         /\ \A i \in Len(a) + 1 .. Len(a) + Len(b) :
              i - Len(a) \in 1 .. Len(b) /\ (a \o b)[i] = b[i - Len(a)]
<1>1. Len(a) \in Nat /\ Len(b) \in Nat
  OBVIOUS
<1>2. /\ a \o b \in Seq(W) /\ Len(a \o b) = Len(a) + Len(b)
      /\ \A i \in 1 .. Len(a) + Len(b) :
           (a \o b)[i] = IF i <= Len(a) THEN a[i] ELSE b[i - Len(a)]
  BY ConcatProperties
<1>3. ASSUME NEW i \in 1 .. Len(a) PROVE (a \o b)[i] = a[i]
  <2>1. i \in 1 .. Len(a) + Len(b) /\ i <= Len(a)
    BY <1>1
  <2>2. QED
    BY <1>2, <2>1
<1>4. ASSUME NEW i \in Len(a) + 1 .. Len(a) + Len(b)
      PROVE  i - Len(a) \in 1 .. Len(b) /\ (a \o b)[i] = b[i - Len(a)]
  <2>1. i \in 1 .. Len(a) + Len(b) /\ ~(i <= Len(a)) /\ i - Len(a) \in 1 .. Len(b)
    BY <1>1
  <2>2. QED
    BY <1>2, <2>1
<1>5. QED
  BY <1>2, <1>3, <1>4

\* Their members together; no member twice when the parts share none.
LEMMA ConcatenatedMembers ==
  ASSUME NEW W, NEW a \in Seq(W), NEW b \in Seq(W)
  PROVE  /\ ToSet(a \o b) = ToSet(a) \cup ToSet(b)
         /\ IsInjective(a) /\ IsInjective(b) /\ ToSet(a) \cap ToSet(b) = {} =>
              IsInjective(a \o b)
<1> DEFINE c == a \o b
<1>1. /\ Len(a) \in Nat /\ Len(b) \in Nat /\ DOMAIN a = 1 .. Len(a) /\ DOMAIN b = 1 .. Len(b)
      /\ DOMAIN c = 1 .. Len(a) + Len(b)
  BY Concatenated
<1>2. /\ \A i \in 1 .. Len(a) : c[i] = a[i]
      /\ \A i \in Len(a) + 1 .. Len(a) + Len(b) :
           i - Len(a) \in 1 .. Len(b) /\ c[i] = b[i - Len(a)]
  BY Concatenated
<1> HIDE DEF c
<1>3. \A i \in DOMAIN c : \/ i \in DOMAIN a /\ c[i] = a[i]
                          \/ i - Len(a) \in DOMAIN b /\ c[i] = b[i - Len(a)]
  <2>1. SUFFICES ASSUME NEW i \in DOMAIN c
                 PROVE  \/ i \in DOMAIN a /\ c[i] = a[i]
                        \/ i - Len(a) \in DOMAIN b /\ c[i] = b[i - Len(a)]
    OBVIOUS
  <2>2. i \in 1 .. Len(a) \/ i \in Len(a) + 1 .. Len(a) + Len(b)
    BY <1>1
  <2>3. CASE i \in 1 .. Len(a)
    BY <1>1, <1>2, <2>3
  <2>4. CASE i \in Len(a) + 1 .. Len(a) + Len(b)
    BY <1>1, <1>2, <2>4
  <2>5. QED
    BY <2>2, <2>3, <2>4
<1>4. \A i \in DOMAIN a : i \in DOMAIN c /\ c[i] = a[i]
  BY <1>1, <1>2
<1>5. \A i \in DOMAIN b : i + Len(a) \in DOMAIN c /\ c[i + Len(a)] = b[i]
  <2>1. \A i \in DOMAIN b : /\ i + Len(a) \in Len(a) + 1 .. Len(a) + Len(b)
                            /\ (i + Len(a)) - Len(a) = i /\ i + Len(a) \in DOMAIN c
    BY <1>1
  <2>2. QED
    BY <1>2, <2>1
<1>6. ToSet(c) = ToSet(a) \cup ToSet(b)
  BY <1>3, <1>4, <1>5 DEF ToSet
<1>7. ASSUME IsInjective(a), IsInjective(b), ToSet(a) \cap ToSet(b) = {} PROVE IsInjective(c)
  <2>1. SUFFICES ASSUME NEW i \in DOMAIN c, NEW j \in DOMAIN c, c[i] = c[j] PROVE i = j
    BY DEF IsInjective
  <2>2. \A k \in DOMAIN a, l \in DOMAIN b : a[k] # b[l]
    BY <1>7 DEF ToSet
  <2>3. \/ i \in DOMAIN a /\ j \in DOMAIN a /\ a[i] = a[j]
        \/ i - Len(a) \in DOMAIN b /\ j - Len(a) \in DOMAIN b /\ b[i - Len(a)] = b[j - Len(a)]
    BY <1>3, <2>1, <2>2
  <2>4. i \in Nat /\ j \in Nat
    BY <1>1
  <2>5. i = j \/ i - Len(a) = j - Len(a)
    BY <1>7, <2>3 DEF IsInjective
  <2>6. QED
    BY <1>1, <2>4, <2>5
<1>8. QED
  BY <1>6, <1>7 DEF c

\* The members of q at the places in ids, in the order of ids.
Picked(q, ids) == [j \in DOMAIN ids |-> q[ids[j]]]
MembersAt(q, I) == {q[i] : i \in I}

\* Picking places picks their members, none of them twice.
LEMMA PickedMembers ==
  ASSUME NEW W, NEW q \in Seq(W), NEW ids \in Seq(DOMAIN q)
  PROVE  /\ Picked(q, ids) \in Seq(W) /\ Len(Picked(q, ids)) = Len(ids)
         /\ DOMAIN Picked(q, ids) = DOMAIN ids
         /\ \A j \in DOMAIN ids : Picked(q, ids)[j] = q[ids[j]]
         /\ ToSet(Picked(q, ids)) = MembersAt(q, ToSet(ids))
         /\ IsInjective(q) /\ IsInjective(ids) => IsInjective(Picked(q, ids))
<1> DEFINE r == Picked(q, ids)
<1>1. DOMAIN ids = 1 .. Len(ids) /\ Len(ids) \in Nat /\ \A j \in DOMAIN ids : ids[j] \in DOMAIN q
  OBVIOUS
<1>2. r = [j \in 1 .. Len(ids) |-> q[ids[j]]] /\ \A j \in 1 .. Len(ids) : q[ids[j]] \in W
  BY <1>1 DEF Picked
<1>3. r \in Seq(W) /\ Len(r) = Len(ids)
  BY <1>1, <1>2
<1>4. DOMAIN r = DOMAIN ids /\ \A j \in DOMAIN ids : r[j] = q[ids[j]]
  BY <1>1, <1>2
<1> HIDE DEF r
<1>5. ToSet(r) = MembersAt(q, ToSet(ids))
  BY <1>4 DEF ToSet, MembersAt
<1>6. IsInjective(q) /\ IsInjective(ids) => IsInjective(r)
  BY <1>1, <1>4 DEF IsInjective
<1>7. QED
  BY <1>3, <1>4, <1>5, <1>6 DEF r

=============================================================================
