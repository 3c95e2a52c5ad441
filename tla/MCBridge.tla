------------------------------ MODULE MCBridge ------------------------------
(* Bounds for TLC on what the compositor may send.                         *)
EXTENDS Bridge

CONSTANTS MaxWindows, MaxSeats

\* How many windows and seats share the identifiers of an instance.
FewRecords == Cardinality(windows) <= MaxWindows /\ Cardinality(seats) <= MaxSeats
=============================================================================
