--------------------------- MODULE MCTreeInventory ---------------------------
(* Instances of TreeInventory for TLC. *)
EXTENDS TreeInventory

CONSTANTS p, a, b, x, y

\* One root with two folders, each with one entry.
FolderChildren ==
  [n \in {Tree, p, a, b, x, y} |->
     CASE n = Tree -> <<p>> [] n = p -> <<a, b>> [] n = a -> <<x>> [] n = b -> <<y>>
       [] OTHER -> << >>]

\* Siblings have different texts, cousins need not.
FolderLabels == [n \in {p, a, b, x, y} |-> CASE n = p -> 1 [] n \in {a, x, y} -> 2 [] n = b -> 3]

\* No limit is reached; items and expansions run out; the depth does.
FolderLimits ==
  {[items |-> 5, expansions |-> 3, depth |-> 2], [items |-> 3, expansions |-> 2, depth |-> 2],
   [items |-> 5, expansions |-> 1, depth |-> 1]}
=============================================================================
