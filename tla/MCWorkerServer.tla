--------------------------- MODULE MCWorkerServer ---------------------------
(* Instances of WorkerServer for TLC. *)
EXTENDS WorkerServer

CONSTANTS r1, r2

\* GET /v1/status, a read-only POST, and apply requests of one and two
\* operations, the shorter one with a checkpoint name that is not safe.
StatusMessage == [audited |-> FALSE, apply |-> FALSE, named |-> FALSE, ops |-> 1]
ReadMessage == [audited |-> TRUE, apply |-> FALSE, named |-> FALSE, ops |-> 1]
UnnamedMessage == [audited |-> TRUE, apply |-> TRUE, named |-> FALSE, ops |-> 1]
SequenceMessage == [audited |-> TRUE, apply |-> TRUE, named |-> TRUE, ops |-> 2]

AllMessages == {StatusMessage, ReadMessage, UnnamedMessage, SequenceMessage}
=============================================================================
