-------------------------- MODULE MCGraphLifecycle --------------------------
(* Small graphs for the runs of GraphLifecycle.                            *)
EXTENDS GraphLifecycle

CONSTANTS g1, g2

OneGroup == {g1}
TwoGroups == {g1, g2}

\* The number of extensions in each group.
OneExtension == [g \in Group |-> 1]
TwoAndOne == [g \in Group |-> IF g = g1 THEN 2 ELSE 1]

NoExtension == {}
FirstOfG1 == {<<g1, 1>>}
=============================================================================
