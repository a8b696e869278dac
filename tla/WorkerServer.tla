---------------------------- MODULE WorkerServer ----------------------------
(***************************************************************************)
(* The HTTP worker: WorkerHttpServer (src/autocomp/worker/http.py) with     *)
(* the policy layer it calls (DesktopWorker.execute, worker/service.py).    *)
(*                                                                         *)
(* ThreadingHTTPServer handles every request in a thread of its own.  A     *)
(* request is one process here: pc[r] is the place of its handler.  The     *)
(* handlers share worker_lock (taken without blocking: the loser answers    *)
(* 409), audit_lock (taken with blocking) and the audit file.  The file is  *)
(* a sequence of chunks because os.write may write a part of a record: a    *)
(* record is a "head" chunk and a "tail" chunk, and the tail ends with the  *)
(* newline.  The first `synced` chunks survive a loss of power.             *)
(***************************************************************************)
EXTENDS Integers, Sequences, FiniteSets

CONSTANTS
  Requests,         \* the requests that ever reach the server, a set
  NULL,             \* no holder of a lock
  Messages,         \* the parsed requests a client sends, a set of records
  MaxOps,           \* bound: longest input sequence (the code allows 8)
  MaxBoots,         \* bound: how often the worker process is restarted
  ApplyEnabled,     \* DesktopWorker(apply_enabled=...)
  AuditedBoots      \* the boots whose command line names an audit log

\* What execute and the audit see of a request: whether _execute_worker was
\* called with audit=True, whether it asks for apply, whether the checkpoint is
\* a safe name, and how many input operations it holds.
MessageType ==
  [audited: BOOLEAN, apply: BOOLEAN, named: BOOLEAN, ops: 1..MaxOps]

ASSUME NullAssumption == NULL \notin Requests
ASSUME BoundsAssumption == MaxOps \in Nat \ {0} /\ MaxBoots \in Nat
ASSUME SwitchAssumption == ApplyEnabled \in BOOLEAN /\ AuditedBoots \subseteq Nat
\* GET /v1/status is the one unaudited request, and it never asks for apply.
ASSUME MessagesAssumption ==
  /\ Messages \subseteq MessageType
  /\ \A m \in Messages : m.apply => m.audited

VARIABLES
  pc,         \* place of each request's handler
  msg,        \* the parsed request
  io,         \* place inside append_audit
  completed,  \* completed_count of the input sequence
  result,     \* how worker.execute ended
  reply,      \* the answer the handler decided on
  delivered,  \* whether the client got it
  lock,       \* worker_lock
  auditLock,  \* audit_lock
  file,       \* the audit file, a sequence of chunks
  synced,     \* how many chunks of it an fsync has covered
  ui,         \* history: whose input the desktop took, in order
  boots       \* history: restarts so far

local == <<pc, msg, io, completed, result, reply, delivered>>
audit == <<auditLock, file, synced>>
vars == <<local, lock, audit, ui, boots>>

-----------------------------------------------------------------------------
(* State predicates and the audit file. *)

Phases == {"rejected", "intent", "outcome"}
Results == {"none", "performed", "unperformed", "invalid", "failed"}
Errors == {"invalid", "failed"}
Replies == {"none", "refused", "busy", "not_configured", "audit_unavailable",
            "invalid", "failed", "ok"}

Chunks == [req: Requests, phase: Phases, part: {"head", "tail"}, performed: BOOLEAN]

\* Between _execute_worker's acquire and its finally.
Holding == {"intent", "execute", "performing", "outcome", "answering", "release"}
\* Inside worker.execute.
Executing == {"execute", "performing"}
Appending == {"rejected", "intent", "outcome"}
Finished == {"done", "dead"}
Places == {"new", "ready", "rejected", "reply"} \cup Holding \cup Finished

\* audit_log_path is not None: a worker may be restarted with another command line.
AuditConfigured == boots \in AuditedBoots

\* The last byte of r's record of that phase is in the first n chunks.
RecordedIn(r, phase, n) ==
  \E i \in 1..n : file[i].req = r /\ file[i].phase = phase /\ file[i].part = "tail"

Effects(r) == Cardinality({i \in 1..Len(ui) : ui[i] = r})

-----------------------------------------------------------------------------
Init ==
  /\ pc = [r \in Requests |-> "new"]
  /\ msg \in [Requests -> Messages]
  /\ io = [r \in Requests |-> "idle"]
  /\ completed = [r \in Requests |-> 0]
  /\ result = [r \in Requests |-> "none"]
  /\ reply = [r \in Requests |-> "none"]
  /\ delivered = [r \in Requests |-> FALSE]
  /\ lock = NULL
  /\ auditLock = NULL
  /\ file = << >>
  /\ synced = 0
  /\ ui = << >>
  /\ boots = 0

\* do_GET / do_POST turn a request away before it reaches _execute_worker:
\* authentication, route, method, body and parse errors.  No state is touched.
Refuse(r) ==
  /\ pc[r] = "new"
  /\ reply' = [reply EXCEPT ![r] = "refused"]
  /\ pc' = [pc EXCEPT ![r] = "reply"]
  /\ UNCHANGED <<msg, io, completed, result, delivered, lock, audit, ui, boots>>

\* The request is authenticated and parsed into an ActionRequest.
Parse(r) ==
  /\ pc[r] = "new"
  /\ pc' = [pc EXCEPT ![r] = "ready"]
  /\ UNCHANGED <<msg, io, completed, result, reply, delivered, lock, audit, ui, boots>>

\* worker_lock.acquire(blocking=False) succeeds.
Acquire(r) ==
  /\ pc[r] = "ready"
  /\ lock = NULL
  /\ lock' = r
  /\ \/ /\ ~msg[r].audited
        /\ pc' = [pc EXCEPT ![r] = "execute"]
        /\ UNCHANGED reply
     \/ /\ msg[r].audited /\ AuditConfigured
        /\ pc' = [pc EXCEPT ![r] = "intent"]
        /\ UNCHANGED reply
     \/ /\ msg[r].audited /\ ~AuditConfigured
        /\ pc' = [pc EXCEPT ![r] = "answering"]
        /\ reply' = [reply EXCEPT ![r] = "not_configured"]
  /\ UNCHANGED <<msg, io, completed, result, delivered, audit, ui, boots>>

\* It fails: the handler records the rejection, if it can, and answers 409.
Busy(r) ==
  /\ pc[r] = "ready"
  /\ lock # NULL
  /\ reply' = [reply EXCEPT ![r] = "busy"]
  /\ pc' = [pc EXCEPT ![r] =
       IF msg[r].audited /\ AuditConfigured THEN "rejected" ELSE "reply"]
  /\ UNCHANGED <<msg, io, completed, result, delivered, lock, audit, ui, boots>>

-----------------------------------------------------------------------------
(* append_audit: called at pc "rejected", "intent" and "outcome". *)

\* Mutant of PlaceAfter: a lost intent is not an error.
PlaceAfterAnyIntent(r, ok) ==
  IF pc[r] = "rejected" THEN "reply"
  ELSE IF pc[r] = "intent" THEN "execute"
  ELSE IF ok /\ result[r] \notin Errors THEN "release" ELSE "answering"

\* Where the handler goes when append_audit returned (ok) or raised (~ok), and
\* what it will answer: a lost rejection record changes nothing, a lost intent
\* keeps the request from the desktop, a lost outcome hides the result.
PlaceAfter(r, ok) ==
  IF pc[r] = "rejected" THEN "reply"
  ELSE IF pc[r] = "intent" /\ ok THEN "execute"
  ELSE IF ok /\ result[r] \notin Errors THEN "release" ELSE "answering"

ReplyAfter(r, ok) ==
  IF pc[r] = "rejected" \/ (pc[r] = "intent" /\ ok) THEN reply[r]
  ELSE IF result[r] \in Errors THEN result[r]
  ELSE IF ok THEN "ok" ELSE "audit_unavailable"

\* Mutant of LeaveAppend: an exception leaves audit_lock held.
LeaveAppendHolding(r, ok) ==
  /\ pc' = [pc EXCEPT ![r] = PlaceAfter(r, ok)]
  /\ reply' = [reply EXCEPT ![r] = ReplyAfter(r, ok)]
  /\ io' = [io EXCEPT ![r] = "idle"]
  /\ auditLock' = IF ok /\ auditLock = r THEN NULL ELSE auditLock

LeaveAppend(r, ok) ==
  /\ pc' = [pc EXCEPT ![r] = PlaceAfter(r, ok)]
  /\ reply' = [reply EXCEPT ![r] = ReplyAfter(r, ok)]
  /\ io' = [io EXCEPT ![r] = "idle"]
  /\ auditLock' = IF auditLock = r THEN NULL ELSE auditLock

\* The record fits, audit_lock is free, the file opens for append.
AuditOpen(r) ==
  /\ pc[r] \in Appending
  /\ io[r] = "idle"
  /\ auditLock = NULL
  /\ auditLock' = r
  /\ io' = [io EXCEPT ![r] = "head"]
  /\ UNCHANGED <<pc, msg, completed, result, reply, delivered, lock, file, synced, ui, boots>>

\* The chunk r writes: which request, which phase, and the performed flag the
\* outcome of a returned result carries.
Chunk(r) ==
  [req |-> r, phase |-> pc[r], part |-> io[r],
   performed |-> pc[r] = "outcome" /\ result[r] = "performed"]

\* One pass of the write loop; O_APPEND puts the chunk at the end of the file.
AuditWrite(r) ==
  /\ io[r] \in {"head", "tail"}
  /\ file' = Append(file, Chunk(r))
  /\ io' = [io EXCEPT ![r] = IF io[r] = "head" THEN "tail" ELSE "sync"]
  /\ UNCHANGED <<pc, msg, completed, result, reply, delivered, lock, auditLock, synced, ui, boots>>

\* fsync, close, release audit_lock: the record is durable.
AuditSync(r) ==
  /\ io[r] = "sync"
  /\ synced' = Len(file)
  /\ LeaveAppend(r, TRUE)
  /\ UNCHANGED <<msg, completed, result, delivered, lock, file, ui, boots>>

\* The record is longer than max_body_bytes: ValueError before audit_lock.
AuditTooLong(r) ==
  /\ pc[r] \in Appending
  /\ io[r] = "idle"
  /\ LeaveAppend(r, FALSE)
  /\ UNCHANGED <<msg, completed, result, delivered, lock, file, synced, ui, boots>>

\* open, write or fsync raised OSError.  What was already written stays.
AuditFail(r) ==
  /\ io[r] # "idle"
  /\ LeaveAppend(r, FALSE)
  /\ UNCHANGED <<msg, completed, result, delivered, lock, file, synced, ui, boots>>

-----------------------------------------------------------------------------
(* worker.execute and its outcome. *)

\* execute returned or raised: an audited request records the outcome, an
\* unaudited one goes on to its answer.
Executed(r, how) ==
  /\ result' = [result EXCEPT ![r] = how]
  /\ pc' = [pc EXCEPT ![r] = IF msg[r].audited THEN "outcome"
                             ELSE IF how \in Errors THEN "answering" ELSE "release"]
  /\ reply' = [reply EXCEPT ![r] = IF msg[r].audited THEN reply[r]
                                   ELSE IF how \in Errors THEN how ELSE "ok"]

\* Read-only actions and dry runs: performed=False, or an exception.
Inspect(r) ==
  /\ pc[r] = "execute"
  /\ ~msg[r].apply
  /\ \E how \in {"unperformed", "invalid", "failed"} : Executed(r, how)
  /\ UNCHANGED <<msg, io, completed, delivered, lock, audit, ui, boots>>

\* _require_apply lets the request through.
RequireApply(r) == ApplyEnabled /\ msg[r].apply /\ msg[r].named

\* _require_apply, or the validation of the request, raises ValueError.
Deny(r) ==
  /\ pc[r] = "execute"
  /\ msg[r].apply
  /\ Executed(r, "invalid")
  /\ UNCHANGED <<msg, io, completed, delivered, lock, audit, ui, boots>>

Begin(r) ==
  /\ pc[r] = "execute"
  /\ RequireApply(r)
  /\ pc' = [pc EXCEPT ![r] = "performing"]
  /\ UNCHANGED <<msg, io, completed, result, reply, delivered, lock, audit, ui, boots>>

\* Mutant of Perform: the first operation is taken for the whole sequence.
PerformFirstOnly(r) ==
  /\ pc[r] = "performing"
  /\ ui' = Append(ui, r)
  /\ completed' = [completed EXCEPT ![r] = @ + 1]
  /\ Executed(r, "performed")
  /\ UNCHANGED <<msg, io, delivered, lock, audit, boots>>

\* Mutant of Perform: worker_lock is given back before the outcome is recorded.
PerformThenUnlock(r) ==
  /\ pc[r] = "performing"
  /\ ui' = Append(ui, r)
  /\ completed' = [completed EXCEPT ![r] = @ + 1]
  /\ IF completed[r] + 1 = msg[r].ops
       THEN Executed(r, "performed") /\ lock' = NULL
       ELSE UNCHANGED <<pc, result, reply, lock>>
  /\ UNCHANGED <<msg, io, delivered, audit, boots>>

\* One operation of the sequence reaches the desktop and is confirmed.
Perform(r) ==
  /\ pc[r] = "performing"
  /\ ui' = Append(ui, r)
  /\ completed' = [completed EXCEPT ![r] = @ + 1]
  /\ IF completed[r] + 1 = msg[r].ops
       THEN Executed(r, "performed")
       ELSE UNCHANGED <<pc, result, reply>>
  /\ UNCHANGED <<msg, io, delivered, lock, audit, boots>>

\* The operation returns False, or raises, before it reached the desktop.
Stop(r) ==
  /\ pc[r] = "performing"
  /\ \E how \in {"unperformed", "invalid", "failed"} : Executed(r, how)
  /\ UNCHANGED <<msg, io, completed, delivered, lock, audit, ui, boots>>

\* The operation reached the desktop and then raised: the window is gone or was
\* renamed by the input itself, or the clipboard could not be restored.
PerformThenFail(r) ==
  /\ pc[r] = "performing"
  /\ ui' = Append(ui, r)
  /\ Executed(r, "failed")
  /\ UNCHANGED <<msg, io, completed, delivered, lock, audit, boots>>

-----------------------------------------------------------------------------
(* Answers.  An error is written before the finally clause releases the lock,  *)
(* a result after it; either write may find the connection gone.              *)

AnswerError(r) ==
  /\ pc[r] = "answering"
  /\ pc' = [pc EXCEPT ![r] = "release"]
  /\ \E got \in BOOLEAN : delivered' = [delivered EXCEPT ![r] = got]
  /\ UNCHANGED <<msg, io, completed, result, reply, lock, audit, ui, boots>>

Release(r) ==
  /\ pc[r] = "release"
  /\ lock' = NULL
  /\ pc' = [pc EXCEPT ![r] = IF reply[r] = "ok" THEN "reply" ELSE "done"]
  /\ UNCHANGED <<msg, io, completed, result, reply, delivered, audit, ui, boots>>

Reply(r) ==
  /\ pc[r] = "reply"
  /\ pc' = [pc EXCEPT ![r] = "done"]
  /\ \E got \in BOOLEAN : delivered' = [delivered EXCEPT ![r] = got]
  /\ UNCHANGED <<msg, io, completed, result, reply, lock, audit, ui, boots>>

\* The process dies (handlers are daemon threads) or the machine loses power,
\* and the worker is started again: locks are new, chunks no fsync covered may
\* be gone.
Restart ==
  /\ boots < MaxBoots
  /\ boots' = boots + 1
  /\ pc' = [r \in Requests |-> IF pc[r] \in {"new"} \cup Finished THEN pc[r] ELSE "dead"]
  /\ io' = [r \in Requests |-> "idle"]
  /\ lock' = NULL
  /\ auditLock' = NULL
  /\ \E n \in synced..Len(file) : file' = SubSeq(file, 1, n) /\ synced' = n
  /\ UNCHANGED <<msg, completed, result, reply, delivered, ui>>

\* Every request of the bounded set has been handled.
Quiet ==
  /\ \A r \in Requests : pc[r] \in Finished
  /\ UNCHANGED vars

AppendAudit(r) == AuditOpen(r) \/ AuditWrite(r) \/ AuditSync(r) \/ AuditFail(r)
Execute(r) ==
  Inspect(r) \/ Deny(r) \/ Begin(r) \/ Perform(r) \/ Stop(r) \/ PerformThenFail(r)
Answer(r) == AnswerError(r) \/ Release(r) \/ Reply(r)
Proceed(r) == Acquire(r) \/ Busy(r) \/ AppendAudit(r) \/ Execute(r) \/ Answer(r)
Handle(r) == Refuse(r) \/ Parse(r) \/ AuditTooLong(r) \/ Proceed(r)

Next == (\E r \in Requests : Handle(r)) \/ Restart \/ Quiet

Spec == Init /\ [][Next]_vars

\* The operating system keeps scheduling every handler thread, and a desktop
\* call returns or raises.  Nobody has to send a request, and no record has to
\* be too long.
FairSpec == Spec /\ \A r \in Requests : WF_vars(Proceed(r))

-----------------------------------------------------------------------------
(* The worker seen as a gate: what the gate of applying lets through, the      *)
(* durable intents, and the request performing.                                *)

Authorised == {r \in Requests : RequireApply(r)}
DurableIntents == {r \in Requests : RecordedIn(r, "intent", synced)}
ActiveRequest == IF lock # NULL /\ pc[lock] = "performing" THEN lock ELSE NULL

Gate == INSTANCE ActionGate WITH
  authorised <- Authorised, intents <- DurableIntents, active <- ActiveRequest, inputs <- ui

-----------------------------------------------------------------------------
(* Properties. *)

\* Every behaviour of the worker, with its failures and restarts, is one the
\* gate allows (http.py:419-473 with service.py:194-317).
GateRefinement == Gate!GateSpec

\* Every variable keeps its type (http.py's per-request and shared state).
TypeOK ==
  /\ pc \in [Requests -> Places]
  /\ msg \in [Requests -> Messages]
  /\ io \in [Requests -> {"idle", "head", "tail", "sync"}]
  /\ completed \in [Requests -> 0..MaxOps]
  /\ result \in [Requests -> Results]
  /\ reply \in [Requests -> Replies]
  /\ delivered \in [Requests -> BOOLEAN]
  /\ lock \in Requests \cup {NULL}
  /\ auditLock \in Requests \cup {NULL}
  /\ file \in Seq(Chunks)
  /\ synced \in 0..Len(file)
  /\ ui \in Seq(Requests)
  /\ boots \in 0..MaxBoots

\* worker_lock is held exactly while its handler is between acquire and the
\* finally clause: never by two handlers, never leaked by one that has gone.
LockExact == \A r \in Requests : lock = r <=> pc[r] \in Holding

\* "An apply request cannot reach the UI unless its durable intent has already
\* been recorded": whoever's input the desktop took has its whole intent record
\* in the part of the file an fsync covered, whatever failed or restarted since.
IntentBeforeInput == \A i \in 1..Len(ui) : RecordedIn(ui[i], "intent", synced)

\* Inputs of two requests never alternate in the editor.
InputUnmixed ==
  \A i, j, k \in 1..Len(ui) : i < j /\ j < k /\ ui[i] = ui[k] => ui[j] = ui[i]

\* The trail reads as a serial history: when an outcome is in the file, its
\* intent comes before it, and between the two stand only rejections.
SerialTrail ==
  \A j \in 1..Len(file) : file[j].phase = "outcome" =>
    \E i \in 1..(j-1) :
      /\ file[i].req = file[j].req /\ file[i].phase = "intent" /\ file[i].part = "tail"
      /\ \A k \in (i+1)..(j-1) : file[k].phase # "rejected" => file[k].req = file[j].req

\* An outcome recorded as performed stands for a sequence whose every operation
\* reached the desktop, and an answered result is the recorded one, durably.
OutcomeTruthful ==
  /\ \A i \in 1..Len(file) :
       file[i].performed => Effects(file[i].req) = msg[file[i].req].ops
  /\ \A r \in Requests : reply[r] = "ok" /\ msg[r].audited =>
       \E i \in 1..synced :
         /\ file[i].req = r /\ file[i].phase = "outcome" /\ file[i].part = "tail"
         /\ file[i].performed <=> result[r] = "performed"

\* Every request that reached _execute_worker comes to an end.
EveryRequestEnds == \A r \in Requests : pc[r] = "ready" ~> pc[r] \in Finished

=============================================================================
