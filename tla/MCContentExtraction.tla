------------------------ MODULE MCContentExtraction ------------------------
(* Instances of ContentExtraction for TLC. *)
EXTENDS ContentExtraction

CONSTANTS p, q

MCPrograms == <<p, q>>
Edition(e, c, m, k) == [ends |-> e, copies |-> c, mode |-> m, known |-> k]

\* Each value of each field, in the combinations that take different branches.
MCEditions ==
  {Edition("stays", "text", "list", TRUE), Edition("blank", "short", "plain", FALSE),
   Edition("endh", "binary", "snapshot", FALSE), Edition("stays", "text", "snapshot", TRUE)}
=============================================================================
