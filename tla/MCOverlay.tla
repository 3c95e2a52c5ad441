------------------------------ MODULE MCOverlay ------------------------------
(* Instances of module Overlay for TLC. *)
EXTENDS Overlay

\* An output that changes its size, and a second one.
TwoOutputs == <<{<<1, 1>>, <<2, 2>>}, {<<2, 2>>}>>
OneOutput == <<{<<1, 1>>}>>

\* Another width than the one asked for, and no height at all.
AnySize == {<<2, 2>>, <<2, 0>>}

=============================================================================
