------------------------------ MODULE Session ------------------------------
(***************************************************************************)
(* What the end of the manager promises, whatever its threads, its loop    *)
(* and its child do: the session is ended only on the user's word and only *)
(* while the manager works; the manager returns only when no confirmation  *)
(* is open. Module Shutdown implements it.                                 *)
(***************************************************************************)

VARIABLES
  manager,        \* "working", "ending", "returned", or "replaced" by a restart
  confirmation,   \* a confirmation is open
  granted,        \* the user has confirmed the end of the session
  ended           \* the compositor was told to end the session

vars == <<manager, confirmation, granted, ended>>

Init ==
  /\ manager = "working" /\ confirmation = FALSE
  /\ granted = FALSE /\ ended = FALSE

\* One confirmation at a time, asked for while the manager works.
Open ==
  /\ manager = "working" /\ ~confirmation
  /\ confirmation' = TRUE
  /\ UNCHANGED <<manager, granted, ended>>

\* The user confirms, or the confirmation ends, also while the manager ends.
Grant ==
  /\ confirmation /\ manager # "returned" /\ manager # "replaced"
  /\ granted' = TRUE
  /\ UNCHANGED <<manager, confirmation, ended>>

Close ==
  /\ confirmation /\ manager # "returned" /\ manager # "replaced"
  /\ confirmation' = FALSE
  /\ UNCHANGED <<manager, granted, ended>>

EndSession ==
  /\ manager = "working" /\ granted
  /\ ended' = TRUE
  /\ UNCHANGED <<manager, confirmation, granted>>

Leave ==
  /\ manager = "working"
  /\ manager' \in {"ending", "replaced"}
  /\ UNCHANGED <<confirmation, granted, ended>>

Return ==
  /\ manager = "ending" /\ ~confirmation
  /\ manager' = "returned"
  /\ UNCHANGED <<confirmation, granted, ended>>

Next == Open \/ Grant \/ Close \/ EndSession \/ Leave \/ Return

Spec == Init /\ [][Next]_vars

=============================================================================
