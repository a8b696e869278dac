------------------------- MODULE MCTreeItemActions -------------------------
(* Instances of TreeItemActions for TLC. *)
EXTENDS TreeItemActions

CONSTANTS x, y, z

\* Two of the items have the same text.
TwinLabels == [i \in Items |-> IF i = z THEN "other" ELSE "twin"]
=============================================================================
