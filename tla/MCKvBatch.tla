------------------------------ MODULE MCKvBatch ------------------------------
(* Instances of KvBatch for TLC. *)
EXTENDS KvBatch

CONSTANTS j1, j2
MCJobs == <<j1, j2>>
=============================================================================
