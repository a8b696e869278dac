---------------------------- MODULE MCTreeRename ----------------------------
(* Instances of TreeRename for TLC. *)
EXTENDS TreeRename, TLC

CONSTANTS x, y, a, b, c

\* Items and texts are interchangeable.
TreeSymmetry == Permutations(Items) \cup Permutations(Names)
=============================================================================
