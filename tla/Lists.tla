------------------------------- MODULE Lists --------------------------------
(***************************************************************************)
(* The order of a set of numbers and what is kept of a list: the filters   *)
(* of the Haskell code, the walks over linked lists of the C code. The     *)
(* provers know nothing of SetToSortSeq and SelectSeq, which are the same. *)
(***************************************************************************)
EXTENDS Integers, Sequences, FiniteSets, SequencesExt

\* The members of a finite set of numbers in ascending order: the j-th has
\* j - 1 below it.
Ascending(S) == [j \in 1 .. Cardinality(S) |->
                   CHOOSE x \in S : Cardinality({y \in S : y < x}) = j - 1]

\* The members of s that are in K, in the order of s.
Kept(s, K) ==
  LET at == Ascending({i \in DOMAIN s : s[i] \in K}) IN [j \in DOMAIN at |-> s[at[j]]]

=============================================================================
