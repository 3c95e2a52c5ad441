------------------------------ MODULE MCPolicy ------------------------------
(* Values of Policy's constants for TLC that a cfg cannot write down.      *)
EXTENDS Policy

OneTag == <<1>>
TwoTags == <<1, 2>>
ThreeTags == <<1, 2, 3>>
OneLayout == <<"Tall">>
OnlyFull == <<"Full">>
TallAndFull == <<"Tall", "Full">>
\* One tile and many; Rows and Stacking are reached by the split actions.
TabbedAndColumns == <<"Tabbed", "Columns">>
\* Every output has one mode.
OneSpan == {[at |-> 0, size |-> 4]}
\* What a panel at the start leaves.
OnePanel == {[at |-> 1, size |-> 3]}
=============================================================================
