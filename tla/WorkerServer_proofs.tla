------------------------ MODULE WorkerServer_proofs ------------------------
(***************************************************************************)
(* Proofs about WorkerServer for any set of requests, any messages, any     *)
(* length of input sequences and any number of restarts.                    *)
(***************************************************************************)
EXTENDS WorkerServer, FiniteSetTheorems, TLAPS

USE NullAssumption, BoundsAssumption, SwitchAssumption, MessagesAssumption

\* The counter of an input sequence stays below its length while the sequence
\* runs and is zero before.
Counting ==
  \A r \in Requests :
    /\ pc[r] \in {"new", "ready", "intent", "execute"} => completed[r] = 0
    /\ pc[r] = "performing" => completed[r] < msg[r].ops

\* A handler inside append_audit holds audit_lock and is at one of its three calls.
Appenders ==
  \A r \in Requests : io[r] # "idle" => auditLock = r /\ pc[r] \in Appending

TypeInv == TypeOK /\ Counting /\ Appenders

(***************************************************************************)
(* Where a handler goes after append_audit.                                 *)
(***************************************************************************)
LEMMA AfterAppendType ==
  ASSUME TypeOK, NEW r \in Requests, NEW ok \in BOOLEAN, pc[r] \in Appending
  PROVE  /\ PlaceAfter(r, ok) \in {"reply", "execute", "answering", "release"}
         /\ ReplyAfter(r, ok) \in Replies
         /\ PlaceAfter(r, ok) = "execute" => pc[r] = "intent"
  BY DEF PlaceAfter, ReplyAfter, TypeOK, Appending, Errors, Replies

(***************************************************************************)
(* What append_audit writes is a chunk.                                     *)
(***************************************************************************)
LEMMA ChunkType ==
  ASSUME NEW r \in Requests, pc[r] \in Phases, io[r] \in {"head", "tail"}
  PROVE  Chunk(r) \in Chunks
<1>1. (pc[r] = "outcome" /\ result[r] = "performed") \in BOOLEAN
  BY Zenon
<1> QED
  BY <1>1 DEF Chunk, Chunks

(***************************************************************************)
(* The ways out of worker.execute.                                          *)
(***************************************************************************)
LEMMA ExecutedType ==
  ASSUME TypeOK, NEW r \in Requests, NEW how \in Results, Executed(r, how)
  PROVE  /\ pc' \in [Requests -> Places]
         /\ result' \in [Requests -> Results]
         /\ reply' \in [Requests -> Replies]
         /\ pc'[r] \in {"outcome", "answering", "release"}
         /\ \A s \in Requests \ {r} : pc'[s] = pc[s]
  BY DEF Executed, TypeOK, Places, Holding, Finished, Errors, Replies, Results

(***************************************************************************)
(* A request stays what it was when it was parsed.                          *)
(***************************************************************************)
LEMMA NextMsg == [Next]_vars => UNCHANGED msg
  BY DEF Next, Handle, Proceed, AppendAudit, Quiet, vars, local, Refuse, Parse, Acquire, Busy,
    AuditOpen, AuditWrite, AuditSync, AuditFail, AuditTooLong, Execute, Inspect, Deny, Begin, Perform, Stop,
    PerformThenFail, Answer, AnswerError, Release, Reply, Restart

(***************************************************************************)
(* The initial states have the right type.                                  *)
(***************************************************************************)
LEMMA InitType == Init => TypeInv
  BY DEF Init, TypeInv, TypeOK, Counting, Appenders, Places, Replies, Results

(***************************************************************************)
(* Every step keeps the type.                                               *)
(***************************************************************************)
LEMMA NextType == TypeInv /\ [Next]_vars => TypeInv'
<1> SUFFICES ASSUME TypeInv, [Next]_vars PROVE TypeInv'
  OBVIOUS
<1> USE DEF TypeInv, TypeOK, Counting, Appenders, audit
<1>m. \A r \in Requests : msg[r].ops \in 1..MaxOps /\ msg[r].audited \in BOOLEAN
  BY DEF MessageType
<1>1. ASSUME NEW r \in Requests, Refuse(r) PROVE TypeInv'
  BY <1>1 DEF Refuse, Replies, Places, Appending
<1>2. ASSUME NEW r \in Requests, Parse(r) PROVE TypeInv'
  BY <1>2 DEF Parse, Places, Appending
<1>3. ASSUME NEW r \in Requests, Acquire(r) PROVE TypeInv'
  BY <1>3 DEF Acquire, Replies, Places, Holding, Appending
<1>4. ASSUME NEW r \in Requests, Busy(r) PROVE TypeInv'
  BY <1>4 DEF Busy, Replies, Places, Appending
<1>5. ASSUME NEW r \in Requests, AuditOpen(r) PROVE TypeInv'
  BY <1>5 DEF AuditOpen
<1>6. ASSUME NEW r \in Requests, AuditWrite(r) PROVE TypeInv'
  <2>1. pc[r] \in Phases /\ io[r] \in {"head", "tail"}
    BY <1>6 DEF AuditWrite, Phases, Appending
  <2>2. Chunk(r) \in Chunks
    BY <2>1, ChunkType
  <2>3. file' \in Seq(Chunks) /\ Len(file') = Len(file) + 1
    BY <1>6, <2>2 DEF AuditWrite
  <2> QED
    BY <1>6, <2>3 DEF AuditWrite
<1>7. ASSUME NEW r \in Requests, AuditSync(r) PROVE TypeInv'
  <2>1. pc[r] \in Appending
    BY <1>7 DEF AuditSync
  <2>2. /\ PlaceAfter(r, TRUE) \in {"reply", "execute", "answering", "release"}
        /\ ReplyAfter(r, TRUE) \in Replies
        /\ PlaceAfter(r, TRUE) = "execute" => pc[r] = "intent"
    BY <2>1, AfterAppendType
  <2>3. synced' \in 0..Len(file')
    BY <1>7 DEF AuditSync
  <2> QED
    BY <1>7, <2>1, <2>2, <2>3 DEF AuditSync, LeaveAppend, Places, Holding, Appending
<1>8. ASSUME NEW r \in Requests, AuditFail(r) \/ AuditTooLong(r) PROVE TypeInv'
  <2>1. pc[r] \in Appending /\ LeaveAppend(r, FALSE)
        /\ UNCHANGED <<msg, completed, result, delivered, lock, file, synced, ui, boots>>
    BY <1>8 DEF AuditFail, AuditTooLong
  <2>2. /\ PlaceAfter(r, FALSE) \in {"reply", "execute", "answering", "release"}
        /\ ReplyAfter(r, FALSE) \in Replies
        /\ PlaceAfter(r, FALSE) = "execute" => pc[r] = "intent"
    BY <2>1, AfterAppendType
  <2> QED
    BY <2>1, <2>2 DEF LeaveAppend, Places, Holding, Appending
<1>9. ASSUME NEW r \in Requests, Inspect(r) \/ Deny(r) \/ Stop(r) \/ PerformThenFail(r)
      PROVE TypeInv'
  <2>1. PICK how \in Results : Executed(r, how)
    BY <1>9 DEF Inspect, Deny, Stop, PerformThenFail, Results
  <2>2. pc[r] \in {"execute", "performing"}
    BY <1>9 DEF Inspect, Deny, Stop, PerformThenFail
  <2>3. ui' = ui \/ ui' = Append(ui, r)
    BY <1>9 DEF Inspect, Deny, Stop, PerformThenFail
  <2>4. UNCHANGED <<msg, io, completed, delivered, lock, audit, boots>>
    BY <1>9 DEF Inspect, Deny, Stop, PerformThenFail
  <2>5. /\ pc' \in [Requests -> Places]
        /\ result' \in [Requests -> Results]
        /\ reply' \in [Requests -> Replies]
        /\ pc'[r] \in {"outcome", "answering", "release"}
        /\ \A s \in Requests \ {r} : pc'[s] = pc[s]
    BY <2>1, ExecutedType
  <2>u. ui' \in Seq(Requests)
    <3>1. CASE ui' = ui
      BY <3>1
    <3>2. CASE ui' = Append(ui, r)
      BY <3>2
    <3> QED
      BY <2>3, <3>1, <3>2
  <2>6. TypeOK'
    BY <2>u, <2>4, <2>5
  <2>7. Counting' /\ Appenders'
    BY <2>2, <2>4, <2>5 DEF Appending
  <2> QED
    BY <2>6, <2>7
<1>10. ASSUME NEW r \in Requests, Begin(r) PROVE TypeInv'
  BY <1>10, <1>m DEF Begin, Places, Holding, Appending
<1>11. ASSUME NEW r \in Requests, Perform(r) PROVE TypeInv'
  <2>1. ui' \in Seq(Requests)
    BY <1>11 DEF Perform
  <2>2. completed' \in [Requests -> 0..MaxOps]
    BY <1>11, <1>m DEF Perform
  <2>3. CASE completed[r] + 1 = msg[r].ops
    <3>1. Executed(r, "performed") /\ pc[r] = "performing"
      BY <1>11, <2>3 DEF Perform
    <3>2. UNCHANGED <<msg, io, delivered, lock, audit, boots>>
      BY <1>11 DEF Perform
    <3>3. /\ pc' \in [Requests -> Places]
          /\ result' \in [Requests -> Results]
          /\ reply' \in [Requests -> Replies]
          /\ pc'[r] \in {"outcome", "answering", "release"}
          /\ \A s \in Requests \ {r} : pc'[s] = pc[s]
      BY <3>1, ExecutedType DEF Results
    <3>4. TypeOK'
      BY <2>1, <2>2, <3>2, <3>3
    <3>5. \A s \in Requests \ {r} : completed'[s] = completed[s]
      BY <1>11 DEF Perform
    <3>6. Counting' /\ Appenders'
      BY <3>1, <3>2, <3>3, <3>5 DEF Appending
    <3> QED
      BY <3>4, <3>6
  <2>4. CASE completed[r] + 1 # msg[r].ops
    BY <1>11, <1>m, <2>1, <2>2, <2>4 DEF Perform
  <2> QED
    BY <2>3, <2>4
<1>12. ASSUME NEW r \in Requests, Answer(r) PROVE TypeInv'
  <2>1. CASE AnswerError(r)
    BY <2>1 DEF AnswerError, Places, Holding, Appending
  <2>2. CASE Release(r)
    BY <2>2 DEF Release, Places, Holding, Finished, Appending
  <2>3. CASE Reply(r)
    BY <2>3 DEF Reply, Places, Holding, Finished, Appending
  <2> QED
    BY <1>12, <2>1, <2>2, <2>3 DEF Answer
<1>13. CASE Restart
  <2>1. PICK n \in synced..Len(file) : file' = SubSeq(file, 1, n) /\ synced' = n
    BY <1>13 DEF Restart
  <2>2. file' \in Seq(Chunks) /\ Len(file') = n
    BY <2>1
  <2>3. pc' \in [Requests -> {"new", "done", "dead"}]
    BY <1>13 DEF Restart, Finished
  <2> QED
    BY <1>13, <2>1, <2>2, <2>3 DEF Restart, Places, Finished
<1>14. CASE UNCHANGED vars
  BY <1>14 DEF vars, local
<1> QED
  BY <1>1, <1>2, <1>3, <1>4, <1>5, <1>6, <1>7, <1>8, <1>9, <1>10, <1>11, <1>12, <1>13, <1>14
  DEF Next, Handle, Proceed, AppendAudit, Execute, Quiet

(***************************************************************************)
(* Type correctness.                                                        *)
(***************************************************************************)
THEOREM TypeCorrect == Spec => []TypeOK
<1>1. TypeInv => TypeOK
  BY DEF TypeInv
<1> QED
  BY <1>1, InitType, NextType, PTL DEF Spec

(***************************************************************************)
(* The lock and the place of its holder go together.                        *)
(***************************************************************************)
LEMMA InitLock == Init => LockExact
  BY DEF Init, LockExact, Holding

LEMMA NextLock == TypeInv /\ LockExact /\ [Next]_vars => LockExact'
<1> SUFFICES ASSUME TypeInv, LockExact, [Next]_vars PROVE LockExact'
  OBVIOUS
<1> USE DEF TypeInv, TypeOK, LockExact, Holding
<1>1. ASSUME NEW r \in Requests, Refuse(r) \/ Parse(r) \/ Acquire(r) \/ Busy(r)
      PROVE LockExact'
  BY <1>1 DEF Refuse, Parse, Acquire, Busy
<1>2. ASSUME NEW r \in Requests, AuditOpen(r) \/ AuditWrite(r) PROVE LockExact'
  BY <1>2 DEF AuditOpen, AuditWrite
<1>3. ASSUME NEW r \in Requests, NEW ok \in BOOLEAN, pc[r] \in Appending,
             LeaveAppend(r, ok), UNCHANGED lock
      PROVE LockExact'
  BY <1>3 DEF LeaveAppend, PlaceAfter, Appending
<1>4. ASSUME NEW r \in Requests, AuditSync(r) \/ AuditFail(r) \/ AuditTooLong(r) PROVE LockExact'
  BY <1>3, <1>4 DEF AuditSync, AuditFail, AuditTooLong, Appenders
<1>5. ASSUME NEW r \in Requests, NEW how \in Results, pc[r] \in Executing,
             Executed(r, how), UNCHANGED lock
      PROVE LockExact'
  BY <1>5 DEF Executed, Executing, Errors
<1>6. ASSUME NEW r \in Requests, Execute(r) PROVE LockExact'
  BY <1>5, <1>6 DEF Execute, Inspect, Deny, Begin, Perform, Stop, PerformThenFail, Executing, Results
<1>7. ASSUME NEW r \in Requests, Answer(r) PROVE LockExact'
  BY <1>7 DEF Answer, AnswerError, Release, Reply
<1>8. CASE Restart
  BY <1>8 DEF Restart, Finished
<1>9. CASE UNCHANGED vars
  BY <1>9 DEF vars, local
<1> QED
  BY <1>1, <1>2, <1>4, <1>6, <1>7, <1>8, <1>9
  DEF Next, Handle, Proceed, AppendAudit, Quiet

\* worker_lock is held exactly between acquire and the finally clause.
THEOREM LockHeldExactly == Spec => []LockExact
<1> QED
  BY InitType, NextType, InitLock, NextLock, PTL DEF Spec

(***************************************************************************)
(* The durable part of the audit file only grows.                           *)
(***************************************************************************)
LEMMA DurablePrefix ==
  ASSUME TypeInv, [Next]_vars
  PROVE  /\ synced \in Nat /\ synced' \in Nat /\ synced <= synced'
         /\ \A i \in 1..synced : file'[i] = file[i]
<1> USE DEF TypeInv, TypeOK
<1>0. CASE UNCHANGED <<file, synced>>
  BY <1>0
<1>1. ASSUME NEW r \in Requests, AuditWrite(r)
      PROVE UNCHANGED synced /\ \A i \in 1..synced : file'[i] = file[i]
  <2>1. Chunk(r) \in Chunks
    BY <1>1, ChunkType DEF AuditWrite, Appenders, Appending, Phases
  <2> QED
    BY <1>1, <2>1 DEF AuditWrite
<1>2. ASSUME NEW r \in Requests, AuditSync(r)
      PROVE synced' = Len(file) /\ UNCHANGED file
  BY <1>2 DEF AuditSync
<1>3. ASSUME Restart
      PROVE  /\ synced' \in synced..Len(file)
             /\ \A i \in 1..synced : file'[i] = file[i]
  <2>1. PICK n \in synced..Len(file) : file' = SubSeq(file, 1, n) /\ synced' = n
    BY <1>3 DEF Restart
  <2> QED
    BY <2>1
<1>4. ASSUME NEW r \in Requests,
             \/ Refuse(r) \/ Parse(r) \/ Acquire(r) \/ Busy(r) \/ AuditOpen(r)
             \/ AuditFail(r) \/ AuditTooLong(r) \/ Execute(r) \/ Answer(r)
      PROVE UNCHANGED <<file, synced>>
  BY <1>4 DEF Refuse, Parse, Acquire, Busy, AuditOpen, AuditFail, AuditTooLong, Execute, Inspect, Deny,
    Begin, Perform, Stop, PerformThenFail, Answer, AnswerError, Release, Reply, audit
<1>5. CASE UNCHANGED vars
  BY <1>0, <1>5 DEF vars, audit
<1> QED
  BY <1>0, <1>1, <1>2, <1>3, <1>4, <1>5 DEF Next, Handle, Proceed, AppendAudit, Quiet, vars, audit

\* A durable record stays durable.
LEMMA RecordedStays ==
  ASSUME TypeInv, [Next]_vars, NEW r \in Requests, NEW phase \in Phases,
         RecordedIn(r, phase, synced)
  PROVE  RecordedIn(r, phase, synced)'
  BY DurablePrefix DEF RecordedIn

(***************************************************************************)
(* A handler about to fsync has its whole record in the file, and a handler *)
(* inside worker.execute has its intent in the durable part.                *)
(***************************************************************************)
Writers ==
  \A r \in Requests : io[r] = "sync" => RecordedIn(r, pc[r], Len(file))

Executors ==
  \A r \in Requests :
    /\ pc[r] \in Executing /\ msg[r].audited => RecordedIn(r, "intent", synced)
    /\ pc[r] = "performing" => msg[r].audited

IntentInv == TypeInv /\ Writers /\ Executors /\ IntentBeforeInput

LEMMA InitIntent == Init => IntentInv
  BY InitType DEF Init, IntentInv, Writers, Executors, Executing, IntentBeforeInput

LEMMA NextWriters == IntentInv /\ [Next]_vars => Writers'
<1> SUFFICES ASSUME IntentInv, [Next]_vars, NEW s \in Requests, io'[s] = "sync"
             PROVE RecordedIn(s, pc[s], Len(file))'
  BY DEF Writers
<1> USE DEF IntentInv, TypeInv, TypeOK, Writers
<1>0. ASSUME UNCHANGED <<io, file>>, pc'[s] = pc[s]
      PROVE RecordedIn(s, pc[s], Len(file))'
  <2>1. RecordedIn(s, pc[s], Len(file))
    BY <1>0
  <2> QED
    BY <1>0, <2>1 DEF RecordedIn
<1>1. ASSUME NEW r \in Requests, AuditWrite(r)
      PROVE RecordedIn(s, pc[s], Len(file))'
  <2>1. Chunk(r) \in Chunks /\ file' = Append(file, Chunk(r)) /\ UNCHANGED pc
    BY <1>1, ChunkType DEF AuditWrite, Appenders, Appending, Phases
  <2>2. CASE r = s
    <3>1. io[r] = "tail"
      BY <1>1, <2>2 DEF AuditWrite
    <3>2. file'[Len(file')].req = s /\ file'[Len(file')].phase = pc'[s]
          /\ file'[Len(file')].part = "tail" /\ Len(file') \in 1..Len(file')
      BY <2>1, <2>2, <3>1 DEF Chunk
    <3> QED
      BY <3>2 DEF RecordedIn
  <2>3. CASE r # s
    BY <1>1, <2>1, <2>3 DEF AuditWrite, Appenders
  <2> QED
    BY <2>2, <2>3
<1>2. ASSUME NEW r \in Requests, NEW ok \in BOOLEAN, LeaveAppend(r, ok), UNCHANGED file
      PROVE RecordedIn(s, pc[s], Len(file))'
  BY <1>2 DEF LeaveAppend, RecordedIn
<1>3. ASSUME NEW r \in Requests, AuditSync(r) \/ AuditFail(r) \/ AuditTooLong(r)
      PROVE RecordedIn(s, pc[s], Len(file))'
  BY <1>2, <1>3 DEF AuditSync, AuditFail, AuditTooLong
<1>4. ASSUME NEW r \in Requests, AuditOpen(r)
      PROVE RecordedIn(s, pc[s], Len(file))'
  BY <1>4 DEF AuditOpen, RecordedIn
<1>5. ASSUME NEW r \in Requests, Refuse(r) \/ Parse(r) \/ Acquire(r) \/ Busy(r) \/ Execute(r) \/ Answer(r)
      PROVE UNCHANGED <<io, file>> /\ pc'[s] = pc[s]
  <2>1. pc[r] \notin Appending /\ UNCHANGED <<io, file>>
    BY <1>5 DEF Refuse, Parse, Acquire, Busy, Execute, Inspect, Deny, Begin, Perform, Stop,
      PerformThenFail, Answer, AnswerError, Release, Reply, Appending, audit
  <2>2. s # r
    BY <2>1 DEF Appenders
  <2> QED
    BY <1>5, <2>1, <2>2 DEF Refuse, Parse, Acquire, Busy, Execute, Executed, Inspect, Deny, Begin,
      Perform, Stop, PerformThenFail, Answer, AnswerError, Release, Reply
<1>6. CASE Restart
  BY <1>6 DEF Restart
<1>7. CASE UNCHANGED vars
  BY <1>0, <1>7 DEF vars, local, audit
<1> QED
  BY <1>0, <1>1, <1>3, <1>4, <1>5, <1>6, <1>7 DEF Next, Handle, Proceed, AppendAudit, Quiet, vars

LEMMA NextExecutors == IntentInv /\ [Next]_vars => Executors'
<1> SUFFICES ASSUME IntentInv, [Next]_vars, NEW s \in Requests
             PROVE /\ pc'[s] \in Executing /\ msg'[s].audited => RecordedIn(s, "intent", synced)'
                   /\ pc'[s] = "performing" => msg'[s].audited
  BY DEF Executors
<1> USE DEF IntentInv, TypeInv, TypeOK, Executing
<1>m. UNCHANGED msg
  BY NextMsg
<1>1. CASE pc'[s] = pc[s]
  BY <1>1, <1>m, RecordedStays DEF Executors, Phases
<1>2. ASSUME NEW r \in Requests, AuditSync(r)
      PROVE pc'[s] = pc[s] \/ pc'[s] \notin Executing
            \/ (pc'[s] = "execute" /\ RecordedIn(s, "intent", synced)')
  <2>1. CASE s = r /\ pc[r] = "intent"
    <3>1. RecordedIn(s, "intent", Len(file)) /\ synced' = Len(file) /\ UNCHANGED file
      BY <1>2, <2>1 DEF AuditSync, Writers
    <3> QED
      BY <1>2, <2>1, <3>1 DEF AuditSync, LeaveAppend, PlaceAfter, RecordedIn
  <2>2. CASE ~(s = r /\ pc[r] = "intent")
    BY <1>2, <2>2 DEF AuditSync, LeaveAppend, PlaceAfter
  <2> QED
    BY <2>1, <2>2
<1>3. ASSUME NEW r \in Requests, AuditFail(r) \/ AuditTooLong(r)
      PROVE pc'[s] = pc[s] \/ pc'[s] \notin Executing
  BY <1>3 DEF AuditFail, AuditTooLong, LeaveAppend, PlaceAfter
<1>4. ASSUME NEW r \in Requests, Acquire(r)
      PROVE pc'[s] = pc[s] \/ pc'[s] \notin Executing \/ (pc'[s] = "execute" /\ ~msg[s].audited)
  BY <1>4 DEF Acquire
<1>5. ASSUME NEW r \in Requests, Begin(r)
      PROVE pc'[s] = pc[s] \/ (pc[s] = "execute" /\ pc'[s] = "performing" /\ msg[s].audited)
  BY <1>5 DEF Begin, RequireApply
<1>6. ASSUME NEW r \in Requests,
             \/ Refuse(r) \/ Parse(r) \/ Busy(r) \/ AuditOpen(r) \/ AuditWrite(r)
             \/ Inspect(r) \/ Deny(r) \/ Perform(r) \/ Stop(r) \/ PerformThenFail(r) \/ Answer(r)
      PROVE pc'[s] = pc[s] \/ pc'[s] \notin Executing
  BY <1>6 DEF Refuse, Parse, Busy, AuditOpen, AuditWrite, Inspect, Deny, Perform, Stop,
    PerformThenFail, Executed, Answer, AnswerError, Release, Reply, Errors
<1>7. CASE Restart
  BY <1>7 DEF Restart, Finished
<1>8. CASE UNCHANGED vars
  BY <1>1, <1>8 DEF vars, local
<1> QED
  BY <1>1, <1>2, <1>3, <1>4, <1>5, <1>6, <1>7, <1>8, <1>m, RecordedStays
  DEF Next, Handle, Proceed, AppendAudit, Execute, Quiet, vars, Executors, Phases

\* Only a performing handler touches the desktop, one input at a time.
LEMMA InputStep ==
  ASSUME TypeInv, [Next]_vars
  PROVE  \/ UNCHANGED ui
         \/ \E r \in Requests : pc[r] = "performing" /\ ui' = Append(ui, r)
  BY DEF Next, Handle, Proceed, AppendAudit, Quiet, vars, Refuse, Parse, Acquire, Busy,
    AuditOpen, AuditWrite, AuditSync, AuditFail, AuditTooLong, Execute, Inspect, Deny, Begin, Perform, Stop,
    PerformThenFail, Answer, AnswerError, Release, Reply, Restart

LEMMA NextIntentBeforeInput == IntentInv /\ [Next]_vars => IntentBeforeInput'
<1> SUFFICES ASSUME IntentInv, [Next]_vars, NEW i \in 1..Len(ui')
             PROVE RecordedIn(ui[i], "intent", synced)'
  BY DEF IntentBeforeInput
<1> USE DEF IntentInv, TypeInv, TypeOK, Phases
<1>1. CASE UNCHANGED ui
  BY <1>1, RecordedStays DEF IntentBeforeInput
<1>2. ASSUME NEW r \in Requests, pc[r] = "performing", ui' = Append(ui, r)
      PROVE RecordedIn(ui[i], "intent", synced)'
  <2>1. RecordedIn(r, "intent", synced)
    BY <1>2 DEF Executors, Executing
  <2>2. ui'[i] = r \/ (i \in 1..Len(ui) /\ ui'[i] = ui[i])
    BY <1>2
  <2> QED
    BY <2>1, <2>2, RecordedStays DEF IntentBeforeInput
<1> QED
  BY <1>1, <1>2, InputStep

\* An apply request cannot reach the UI unless its durable intent is recorded.
THEOREM IntentFirst == Spec => []IntentBeforeInput
<1>1. IntentInv /\ [Next]_vars => IntentInv'
  BY NextType, NextWriters, NextExecutors, NextIntentBeforeInput DEF IntentInv
<1>2. IntentInv => IntentBeforeInput
  BY DEF IntentInv
<1> QED
  BY InitIntent, <1>1, <1>2, PTL DEF Spec

(***************************************************************************)
(* The desktop sees each request once and in one go.                        *)
(***************************************************************************)
\* A request that has not begun has no input, one that is performing has the last.
InputOrder ==
  \A r \in Requests, i \in 1..Len(ui) : ui[i] = r =>
    /\ pc[r] \notin {"new", "ready", "rejected", "intent", "execute"}
    /\ pc[r] = "performing" => ui[Len(ui)] = r

OrderInv == TypeInv /\ LockExact /\ InputOrder

LEMMA NextOrder == OrderInv /\ [Next]_vars => InputOrder'
<1> SUFFICES ASSUME OrderInv, [Next]_vars, NEW s \in Requests, NEW i \in 1..Len(ui'), ui'[i] = s
             PROVE /\ pc'[s] \notin {"new", "ready", "rejected", "intent", "execute"}
                   /\ pc'[s] = "performing" => ui'[Len(ui')] = s
  BY DEF InputOrder
<1> USE DEF OrderInv, TypeInv, TypeOK, InputOrder
<1>1. CASE UNCHANGED ui /\ pc'[s] = pc[s]
  BY <1>1
<1>2. ASSUME NEW r \in Requests, NEW ok \in BOOLEAN, LeaveAppend(r, ok), pc[r] \in Appending,
             UNCHANGED ui
      PROVE pc'[s] = pc[s] \/ pc'[s] \in {"reply", "answering", "release"}
  BY <1>2 DEF LeaveAppend, PlaceAfter, Appending
<1>3. ASSUME NEW r \in Requests, AuditSync(r) \/ AuditFail(r) \/ AuditTooLong(r)
      PROVE UNCHANGED ui /\ (pc'[s] = pc[s] \/ pc'[s] \in {"reply", "answering", "release"})
  BY <1>2, <1>3 DEF AuditSync, AuditFail, AuditTooLong, Appenders
<1>4. ASSUME NEW r \in Requests, Refuse(r) \/ Parse(r) \/ Acquire(r) \/ Busy(r)
      PROVE UNCHANGED ui /\ pc'[s] = pc[s]
  BY <1>4 DEF Refuse, Parse, Acquire, Busy
<1>5. ASSUME NEW r \in Requests, AuditOpen(r) \/ AuditWrite(r)
      PROVE UNCHANGED ui /\ pc'[s] = pc[s]
  BY <1>5 DEF AuditOpen, AuditWrite
<1>6. ASSUME NEW r \in Requests, Inspect(r) \/ Deny(r) \/ Begin(r) \/ Stop(r) \/ Answer(r)
      PROVE UNCHANGED ui /\ (pc'[s] = pc[s] \/ pc'[s] \in {"outcome", "answering", "release", "reply", "done"})
  BY <1>6 DEF Inspect, Deny, Begin, Stop, Executed, Answer, AnswerError, Release, Reply
<1>7. ASSUME NEW r \in Requests, Perform(r) \/ PerformThenFail(r)
      PROVE /\ pc'[s] \notin {"new", "ready", "rejected", "intent", "execute"}
            /\ pc'[s] = "performing" => ui'[Len(ui')] = s
  <2>1. ui' = Append(ui, r) /\ pc[r] = "performing"
    BY <1>7 DEF Perform, PerformThenFail
  <2>2. pc'[s] = pc[s] \/ (s = r /\ pc'[s] \in {"outcome", "answering", "release"})
    BY <1>7 DEF Perform, PerformThenFail, Executed
  <2>3. pc[s] = "performing" => s = r
    BY <2>1 DEF LockExact, Holding
  <2>4. pc[s] \notin {"new", "ready", "rejected", "intent", "execute"}
    BY <2>1
  <2> QED
    BY <2>1, <2>2, <2>3, <2>4
<1>8. CASE Restart
  BY <1>8 DEF Restart, Finished
<1>9. CASE UNCHANGED vars
  BY <1>1, <1>9 DEF vars, local
<1> QED
  BY <1>1, <1>3, <1>4, <1>5, <1>6, <1>7, <1>8, <1>9
  DEF Next, Handle, Proceed, AppendAudit, Execute, Quiet, vars

LEMMA NextUnmixed == OrderInv /\ InputUnmixed /\ [Next]_vars => InputUnmixed'
<1> SUFFICES ASSUME OrderInv, InputUnmixed, [Next]_vars,
                    NEW i \in 1..Len(ui'), NEW j \in 1..Len(ui'), NEW k \in 1..Len(ui'),
                    i < j, j < k, ui'[i] = ui'[k]
             PROVE ui'[j] = ui'[i]
  BY DEF InputUnmixed
<1> USE DEF OrderInv, TypeInv, TypeOK
<1>1. CASE UNCHANGED ui
  BY <1>1 DEF InputUnmixed
<1>2. ASSUME NEW r \in Requests, pc[r] = "performing", ui' = Append(ui, r)
      PROVE ui'[j] = ui'[i]
  <2>0. Len(ui) \in Nat /\ Len(ui') = Len(ui) + 1
    BY <1>2
  <2>r. i \in 1..(Len(ui) + 1) /\ j \in 1..(Len(ui) + 1) /\ k \in 1..(Len(ui) + 1)
    BY <2>0
  <2>o. i < j /\ j < k
    OBVIOUS
  <2>s. i \in 1..Len(ui) /\ j \in 1..Len(ui) /\ (k \in 1..Len(ui) \/ k = Len(ui) + 1)
    <3> HIDE DEF TypeInv, TypeOK
    <3> QED
      BY <2>0, <2>r, <2>o
  <2>1. i \in 1..Len(ui) /\ j \in 1..Len(ui) /\ ui'[i] = ui[i] /\ ui'[j] = ui[j]
    BY <1>2, <2>s
  <2>2. CASE k \in 1..Len(ui)
    <3>1. ui'[k] = ui[k]
      BY <1>2, <2>0, <2>2
    <3> QED
      BY <2>1, <2>2, <3>1 DEF InputUnmixed
  <2>3. CASE k = Len(ui) + 1
    <3>1. ui[i] = r
      BY <1>2, <2>1, <2>3
    <3>2. ui[Len(ui)] = r
      BY <1>2, <2>1, <3>1 DEF InputOrder
    <3>3. CASE j = Len(ui)
      BY <2>1, <3>1, <3>2, <3>3
    <3>4. CASE j < Len(ui)
      <4>1. Len(ui) \in 1..Len(ui) /\ ui[i] = ui[Len(ui)]
        BY <2>0, <2>1, <3>1, <3>2
      <4> QED
        BY <2>1, <3>4, <4>1 DEF InputUnmixed
    <3> QED
      BY <2>0, <2>1, <3>3, <3>4
  <2> QED
    BY <2>s, <2>2, <2>3
<1> QED
  BY <1>1, <1>2, InputStep

\* Inputs of two requests never alternate in the editor.
THEOREM OneRequestAtATime == Spec => []InputUnmixed
<1>1. Init => OrderInv /\ InputUnmixed
  BY InitType, InitLock DEF Init, OrderInv, InputOrder, InputUnmixed
<1>2. OrderInv /\ InputUnmixed /\ [Next]_vars => (OrderInv /\ InputUnmixed)'
  BY NextType, NextLock, NextOrder, NextUnmixed DEF OrderInv
<1> QED
  BY <1>1, <1>2, PTL DEF Spec

(***************************************************************************)
(* The worker implements the gate.                                          *)
(***************************************************************************)
RefineInv == IntentInv /\ LockExact /\ InputOrder

LEMMA ActiveWhenPerforming ==
  ASSUME LockExact, NEW r \in Requests, pc[r] = "performing"
  PROVE  ActiveRequest = r
  BY DEF LockExact, Holding, ActiveRequest

\* The intents only grow, whatever the step.
LEMMA IntentsGrow ==
  ASSUME TypeInv, [Next]_vars
  PROVE  DurableIntents \subseteq DurableIntents' /\ DurableIntents' \subseteq Requests
  BY RecordedStays DEF DurableIntents, Phases

\* Nobody is authorised, or stops being so, while the worker runs.
LEMMA AuthorisedFixed ==
  ASSUME [Next]_vars
  PROVE  Authorised' = Authorised
<1>1. ASSUME NEW r \in Requests, Handle(r) PROVE msg' = msg
  BY <1>1 DEF Handle, Refuse, Parse, AuditTooLong, Proceed, Acquire, Busy, AppendAudit, AuditOpen,
     AuditWrite, AuditSync, AuditFail, Execute, Inspect, Deny, Begin, Perform, Stop,
     PerformThenFail, Answer, AnswerError, Release, Reply
<1>2. msg' = msg
  BY <1>1 DEF Next, Restart, Quiet, vars, local
<1> QED
  BY <1>2 DEF Authorised, RequireApply

\* A step that leaves the desktop and the place of the lock's holder alone.
LEMMA QuietStep ==
  ASSUME TypeInv, [Next]_vars, UNCHANGED ui, ActiveRequest' = ActiveRequest
  PROVE  [Gate!GateNext]_Gate!gateVars
  BY IntentsGrow, AuthorisedFixed DEF Gate!GateNext, Gate!Record, Gate!gateVars

\* A step after which nobody performs, and the desktop is left alone.
LEMMA LeavingStep ==
  ASSUME TypeInv, [Next]_vars, UNCHANGED ui, ActiveRequest' = NULL
  PROVE  [Gate!GateNext]_Gate!gateVars
  BY IntentsGrow, AuthorisedFixed DEF Gate!GateNext, Gate!Record, Gate!Leave, Gate!gateVars

LEMMA InitGate == Init => Gate!GateInit
  BY DEF Init, Gate!GateInit, Authorised, DurableIntents, ActiveRequest, RecordedIn

LEMMA NextGate == RefineInv /\ LockExact' /\ [Next]_vars => [Gate!GateNext]_Gate!gateVars
<1> SUFFICES ASSUME RefineInv, LockExact', [Next]_vars
             PROVE [Gate!GateNext]_Gate!gateVars
  OBVIOUS
<1> USE DEF RefineInv, IntentInv, TypeInv, TypeOK
<1>1. ASSUME NEW r \in Requests, Refuse(r) \/ Parse(r) \/ Acquire(r) \/ Busy(r)
      PROVE UNCHANGED ui /\ ActiveRequest' = ActiveRequest
  BY <1>1 DEF Refuse, Parse, Acquire, Busy, ActiveRequest
<1>2. ASSUME NEW r \in Requests, NEW ok \in BOOLEAN, pc[r] \in Appending,
             LeaveAppend(r, ok), UNCHANGED <<ui, lock>>
      PROVE ActiveRequest' = ActiveRequest
  BY <1>2 DEF LeaveAppend, PlaceAfter, Appending, ActiveRequest
<1>3. ASSUME NEW r \in Requests, AppendAudit(r) \/ AuditTooLong(r)
      PROVE UNCHANGED ui /\ ActiveRequest' = ActiveRequest
  <2>1. CASE AuditOpen(r) \/ AuditWrite(r)
    BY <2>1 DEF AuditOpen, AuditWrite, ActiveRequest
  <2>2. CASE AuditSync(r) \/ AuditFail(r) \/ AuditTooLong(r)
    BY <1>2, <2>2 DEF AuditSync, AuditFail, AuditTooLong, Appenders
  <2> QED
    BY <1>3, <2>1, <2>2 DEF AppendAudit
<1>4. ASSUME NEW r \in Requests, Inspect(r) \/ Deny(r) \/ Stop(r)
      PROVE UNCHANGED ui /\ ActiveRequest' = NULL
  <2>1. lock = r /\ UNCHANGED <<ui, lock>>
    BY <1>4 DEF Inspect, Deny, Stop, LockExact, Holding
  <2>2. pc'[r] # "performing"
    BY <1>4 DEF Inspect, Deny, Stop, Executed
  <2> QED
    BY <2>1, <2>2 DEF ActiveRequest
<1>5. ASSUME NEW r \in Requests, Begin(r)
      PROVE [Gate!GateNext]_Gate!gateVars
  <2>1. lock = r /\ pc[r] = "execute" /\ pc'[r] = "performing" /\ UNCHANGED <<ui, lock, file, synced>>
    BY <1>5 DEF Begin, LockExact, Holding, audit
  <2>2. ActiveRequest = NULL /\ ActiveRequest' = r
    BY <2>1 DEF ActiveRequest
  <2>3. r \in DurableIntents
    <3>1. msg[r].audited
      BY <1>5 DEF Begin, RequireApply
    <3> QED
      BY <2>1, <3>1 DEF Executors, Executing, DurableIntents
  <2>4. \A i \in 1..Len(ui) : ui[i] # r
    BY <2>1 DEF InputOrder
  <2>5. UNCHANGED DurableIntents
    BY <2>1 DEF DurableIntents, RecordedIn
  <2>6. r \in Authorised
    BY <1>5 DEF Begin, Authorised
  <2>7. Gate!Enter(r)
    BY <2>1, <2>2, <2>3, <2>4, <2>5, <2>6, AuthorisedFixed DEF Gate!Enter
  <2> QED
    BY <2>7 DEF Gate!GateNext
<1>6. ASSUME NEW r \in Requests, Perform(r) \/ PerformThenFail(r)
      PROVE [Gate!GateNext]_Gate!gateVars
  <2>1. /\ pc[r] = "performing" /\ ui' = Append(ui, r)
        /\ UNCHANGED <<lock, file, synced>>
    BY <1>6 DEF Perform, PerformThenFail, audit
  <2>2. ActiveRequest = r
    BY <2>1, ActiveWhenPerforming
  <2>3. lock' = r
    BY <2>1 DEF LockExact, Holding
  <2>4. ActiveRequest' \in {r, NULL}
    BY <2>3 DEF ActiveRequest
  <2>5. UNCHANGED DurableIntents
    BY <2>1 DEF DurableIntents, RecordedIn
  <2>6. Gate!Input(r)
    BY <2>1, <2>2, <2>4, <2>5, AuthorisedFixed DEF Gate!Input
  <2> QED
    BY <2>6 DEF Gate!GateNext
<1>7. ASSUME NEW r \in Requests, Answer(r)
      PROVE UNCHANGED ui /\ ActiveRequest' = ActiveRequest
  BY <1>7 DEF Answer, AnswerError, Release, Reply, ActiveRequest, LockExact, Holding
<1>8. CASE Restart
  BY <1>8, LeavingStep DEF Restart, ActiveRequest
<1>9. CASE UNCHANGED vars
  BY <1>9, QuietStep DEF vars, local, ActiveRequest
<1> QED
  BY <1>1, <1>3, <1>4, <1>5, <1>6, <1>7, <1>8, <1>9, QuietStep, LeavingStep
  DEF Next, Handle, Proceed, Execute, Quiet

\* Every behaviour of the worker is one the abstract gate allows.
THEOREM WorkerImplementsGate == Spec => GateRefinement
<1>1. Init => RefineInv /\ LockExact
  BY InitIntent, InitLock DEF Init, RefineInv, InputOrder
<1>2. RefineInv /\ [Next]_vars => RefineInv'
  BY NextType, NextLock, NextWriters, NextExecutors, NextIntentBeforeInput, NextOrder
  DEF RefineInv, IntentInv, OrderInv
<1>3. RefineInv => LockExact
  BY DEF RefineInv
<1> QED
  BY <1>1, <1>2, <1>3, InitGate, NextGate, PTL DEF Spec, GateRefinement, Gate!GateSpec

(***************************************************************************)
(* The audit trail is serial.  A request that has its intent in the file    *)
(* and has not answered yet holds worker_lock, so until it answers nothing  *)
(* but its own records and rejections is appended.                          *)
(***************************************************************************)
\* The intent of r is in the first n chunks of f, and behind it only r's own
\* records and rejections.
OpenIn(f, r, n) ==
  \E i \in 1..n :
    /\ f[i].req = r /\ f[i].phase = "intent" /\ f[i].part = "tail"
    /\ \A k \in (i+1)..n : f[k].phase # "rejected" => f[k].req = r

\* r has written its whole intent and may still write its outcome.
Opened(r) ==
  \/ pc[r] = "intent" /\ io[r] = "sync"
  \/ pc[r] \in Executing /\ msg[r].audited
  \/ pc[r] = "outcome"

TrailInv ==
  /\ \A r \in Requests : Opened(r) => OpenIn(file, r, Len(file))
  /\ \A j \in 1..Len(file) : file[j].phase = "outcome" => OpenIn(file, file[j].req, j - 1)

\* Who writes to the file, and what.
LEMMA FileStep ==
  ASSUME TypeInv, [Next]_vars
  PROVE  \/ UNCHANGED file
         \/ \E n \in 0..Len(file) : file' = SubSeq(file, 1, n) /\ \A r \in Requests : ~Opened(r)'
         \/ \E r \in Requests : AuditWrite(r) /\ Chunk(r) \in Chunks
<1> USE DEF TypeInv, TypeOK
<1>1. ASSUME NEW r \in Requests, AuditWrite(r) PROVE Chunk(r) \in Chunks
  BY <1>1, ChunkType DEF AuditWrite, Appenders, Appending, Phases
<1>2. ASSUME NEW r \in Requests, AuditSync(r) \/ AuditFail(r) \/ AuditTooLong(r) \/ AuditOpen(r)
      PROVE UNCHANGED file
  BY <1>2 DEF AuditSync, AuditFail, AuditTooLong, AuditOpen
<1>3. ASSUME NEW r \in Requests,
             Refuse(r) \/ Parse(r) \/ Acquire(r) \/ Busy(r) \/ Execute(r) \/ Answer(r)
      PROVE UNCHANGED file
  BY <1>3 DEF Refuse, Parse, Acquire, Busy, Execute, Inspect, Deny, Begin, Perform, Stop,
    PerformThenFail, Answer, AnswerError, Release, Reply, audit
<1>4. CASE Restart
  <2>1. PICK n \in synced..Len(file) : file' = SubSeq(file, 1, n)
    BY <1>4 DEF Restart
  <2>2. \A r \in Requests : ~Opened(r)'
    BY <1>4 DEF Restart, Opened, Executing, Finished
  <2> QED
    BY <2>1, <2>2
<1> QED
  BY <1>1, <1>2, <1>3, <1>4 DEF Next, Handle, Proceed, AppendAudit, Quiet, vars, audit

\* A handler becomes open by writing the end of its intent, or goes on being so.
LEMMA OpenStep ==
  ASSUME TypeInv, LockExact, [Next]_vars, NEW s \in Requests, Opened(s)'
  PROVE  Opened(s) \/ (AuditWrite(s) /\ pc[s] = "intent" /\ io[s] = "tail")
<1> USE DEF TypeInv, TypeOK, Opened, Executing
<1>m. UNCHANGED msg
  BY NextMsg
<1>1. ASSUME NEW r \in Requests, Refuse(r) \/ Parse(r) \/ Busy(r)
      PROVE  Opened(s)
  BY <1>1, <1>m DEF Refuse, Parse, Busy
<1>2. ASSUME NEW r \in Requests, Acquire(r) PROVE Opened(s)
  BY <1>2, <1>m DEF Acquire, Appenders, Appending
<1>3. ASSUME NEW r \in Requests, AuditOpen(r) PROVE Opened(s)
  BY <1>3, <1>m DEF AuditOpen
<1>4. ASSUME NEW r \in Requests, AuditWrite(r)
      PROVE  Opened(s) \/ (AuditWrite(s) /\ pc[s] = "intent" /\ io[s] = "tail")
  BY <1>4, <1>m DEF AuditWrite
<1>5. ASSUME NEW r \in Requests, AuditSync(r) PROVE Opened(s)
  BY <1>5, <1>m DEF AuditSync, LeaveAppend, PlaceAfter, Appenders, Appending
<1>6. ASSUME NEW r \in Requests, AuditFail(r) \/ AuditTooLong(r) PROVE Opened(s)
  <2>1. LeaveAppend(r, FALSE) /\ pc[r] \in Appending
    BY <1>6 DEF AuditFail, AuditTooLong, Appenders
  <2>2. pc'[r] \in {"reply", "answering"} /\ (s # r => pc'[s] = pc[s] /\ io'[s] = io[s])
    BY <2>1 DEF LeaveAppend, PlaceAfter
  <2> QED
    BY <1>m, <2>2
<1>7. ASSUME NEW r \in Requests, NEW how \in Results, Executed(r, how), pc[r] \in Executing, UNCHANGED io
      PROVE  Opened(s)
  BY <1>7, <1>m DEF Executed
<1>8. ASSUME NEW r \in Requests, Inspect(r) \/ Deny(r) \/ Stop(r) \/ PerformThenFail(r) PROVE Opened(s)
  BY <1>7, <1>8 DEF Inspect, Deny, Stop, PerformThenFail, Results
<1>9. ASSUME NEW r \in Requests, Begin(r) \/ Answer(r) PROVE Opened(s)
  BY <1>9, <1>m DEF Begin, RequireApply, Answer, AnswerError, Release, Reply
<1>10. ASSUME NEW r \in Requests, Perform(r) PROVE Opened(s)
  BY <1>7, <1>10, <1>m DEF Perform, Results
<1>11. CASE Restart
  BY <1>11 DEF Restart, Finished
<1>12. CASE UNCHANGED vars
  BY <1>12 DEF vars, local
<1> QED
  BY <1>1, <1>2, <1>3, <1>4, <1>5, <1>6, <1>8, <1>9, <1>10, <1>11, <1>12
  DEF Next, Handle, Proceed, AppendAudit, Execute, Quiet

\* What is open after n chunks is open after one more of its own or a rejection.
LEMMA OpenStays ==
  ASSUME NEW f, NEW g, NEW n \in Nat, NEW r, OpenIn(f, r, n),
         g[n+1].phase = "rejected" \/ g[n+1].req = r,
         \A i \in 1..n : g[i] = f[i]
  PROVE  OpenIn(g, r, n + 1)
<1>1. PICK i \in 1..n :
        /\ f[i].req = r /\ f[i].phase = "intent" /\ f[i].part = "tail"
        /\ \A k \in (i+1)..n : f[k].phase # "rejected" => f[k].req = r
  BY DEF OpenIn
<1>2. i \in 1..(n+1) /\ g[i] = f[i]
  BY <1>1
<1>3. \A k \in (i+1)..(n+1) : g[k].phase # "rejected" => g[k].req = r
  <2> SUFFICES ASSUME NEW k \in (i+1)..(n+1), g[k].phase # "rejected" PROVE g[k].req = r
    OBVIOUS
  <2>1. CASE k = n + 1
    BY <2>1
  <2>2. CASE k # n + 1
    <3>1. k \in (i+1)..n /\ k \in 1..n
      BY <2>2
    <3> QED
      BY <1>1, <3>1
  <2> QED
    BY <2>1, <2>2
<1> QED
  BY <1>1, <1>2, <1>3 DEF OpenIn

\* What is open in a part of the file both files share is open in both.
LEMMA OpenKept ==
  ASSUME NEW f, NEW g, NEW n \in Nat, NEW r, OpenIn(f, r, n), \A i \in 1..n : g[i] = f[i]
  PROVE  OpenIn(g, r, n)
<1>1. PICK i \in 1..n :
        /\ f[i].req = r /\ f[i].phase = "intent" /\ f[i].part = "tail"
        /\ \A k \in (i+1)..n : f[k].phase # "rejected" => f[k].req = r
  BY DEF OpenIn
<1>2. g[i] = f[i] /\ \A k \in (i+1)..n : g[k] = f[k]
  BY <1>1
<1> QED
  BY <1>1, <1>2 DEF OpenIn

LEMMA NextTrail == TypeInv /\ LockExact /\ TrailInv /\ [Next]_vars => TrailInv'
<1> SUFFICES ASSUME TypeInv, LockExact, TrailInv, [Next]_vars PROVE TrailInv'
  OBVIOUS
<1> USE DEF TypeInv, TypeOK
<1>0. Len(file) \in Nat /\ \A j \in 1..Len(file) : j - 1 \in Nat
  OBVIOUS
<1>1. CASE UNCHANGED file
  <2>1. ASSUME NEW s \in Requests, Opened(s)' PROVE OpenIn(file', s, Len(file'))
    <3>1. ~AuditWrite(s)
      BY <1>1 DEF AuditWrite
    <3>2. Opened(s)
      BY <2>1, <3>1, OpenStep
    <3>3. OpenIn(file, s, Len(file))
      BY <3>2 DEF TrailInv
    <3> QED
      BY <1>1, <3>3 DEF OpenIn
  <2>2. ASSUME NEW j \in 1..Len(file'), file'[j].phase = "outcome"
        PROVE  OpenIn(file', file'[j].req, j - 1)
    BY <1>0, <1>1, <2>2 DEF TrailInv, OpenIn
  <2> QED
    BY <2>1, <2>2 DEF TrailInv
<1>2. ASSUME NEW n \in 0..Len(file), file' = SubSeq(file, 1, n), \A r \in Requests : ~Opened(r)'
      PROVE  TrailInv'
  <2>1. Len(file') = n /\ \A i \in 1..n : file'[i] = file[i]
    BY <1>2
  <2>2. ASSUME NEW j \in 1..Len(file'), file'[j].phase = "outcome"
        PROVE  OpenIn(file', file'[j].req, j - 1)
    <3>1. j \in 1..Len(file) /\ j - 1 \in Nat /\ file'[j] = file[j]
      BY <2>1
    <3>2. OpenIn(file, file[j].req, j - 1)
      BY <2>2, <3>1 DEF TrailInv
    <3>3. \A i \in 1..(j-1) : file'[i] = file[i]
      BY <2>1
    <3> QED
      BY <3>1, <3>2, <3>3, OpenKept
  <2> QED
    BY <1>2, <2>2 DEF TrailInv
<1>3. ASSUME NEW r \in Requests, AuditWrite(r), Chunk(r) \in Chunks
      PROVE  TrailInv'
  <2> DEFINE n == Len(file)
  <2>1. /\ file' = Append(file, Chunk(r)) /\ UNCHANGED <<pc, msg, lock>>
        /\ io[r] \in {"head", "tail"} /\ pc[r] \in Appending
    BY <1>3 DEF AuditWrite, Appenders
  <2>2. /\ n \in Nat /\ Len(file') = n + 1 /\ file'[n+1] = Chunk(r)
        /\ \A i \in 1..n : file'[i] = file[i]
    BY <1>3, <2>1
  <2>3. Chunk(r).req = r /\ Chunk(r).phase = pc[r] /\ Chunk(r).part = io[r]
    BY DEF Chunk
  <2>4. ASSUME NEW s \in Requests, Opened(s)' PROVE OpenIn(file', s, Len(file'))
    <3>1. CASE Opened(s)
      <4>1. OpenIn(file, s, n)
        BY <3>1 DEF TrailInv
      <4>2. pc[r] = "rejected" \/ r = s
        BY <2>1, <3>1 DEF Opened, LockExact, Holding, Executing, Appending
      <4>3. OpenIn(file', s, n + 1)
        BY <2>2, <2>3, <4>1, <4>2, OpenStays
      <4> QED
        BY <2>2, <4>3
    <3>2. CASE AuditWrite(s) /\ pc[s] = "intent" /\ io[s] = "tail"
      <4>1. s = r
        BY <1>3, <3>2 DEF AuditWrite, Appenders
      <4>2. /\ n + 1 \in 1..Len(file') /\ file'[n+1].req = s /\ file'[n+1].phase = "intent"
            /\ file'[n+1].part = "tail" /\ (n+1+1)..Len(file') = {}
        BY <2>2, <2>3, <3>2, <4>1
      <4> QED
        BY <4>2 DEF OpenIn
    <3> QED
      BY <2>4, <3>1, <3>2, OpenStep
  <2>5. ASSUME NEW j \in 1..Len(file'), file'[j].phase = "outcome"
        PROVE  OpenIn(file', file'[j].req, j - 1)
    <3>1. CASE j \in 1..n
      <4>1. OpenIn(file, file[j].req, j - 1) /\ file'[j] = file[j]
        BY <2>2, <2>5, <3>1 DEF TrailInv
      <4>2. j - 1 \in Nat /\ \A i \in 1..(j-1) : file'[i] = file[i]
        BY <2>2, <3>1
      <4> QED
        BY <4>1, <4>2, OpenKept
    <3>2. CASE j = n + 1
      <4>1. pc[r] = "outcome" /\ file'[j].req = r /\ j - 1 = n
        BY <2>2, <2>3, <2>5, <3>2
      <4>2. OpenIn(file, r, n)
        BY <4>1 DEF Opened, TrailInv
      <4> QED
        BY <2>2, <4>1, <4>2, OpenKept
    <3>3. j \in 1..n \/ j = n + 1
      <4> HIDE DEF n, TypeInv, TypeOK
      <4>1. n \in Nat /\ j \in 1..(n+1)
        BY <2>2, <2>5
      <4> QED
        BY <4>1
    <3> QED
      BY <3>1, <3>2, <3>3
  <2> QED
    BY <2>4, <2>5 DEF TrailInv
<1> QED
  BY <1>1, <1>2, <1>3, FileStep

\* Whoever wrote an outcome wrote its intent before it, and nothing but
\* rejections stands between the two (append_audit under worker_lock).
THEOREM TrailIsSerial == Spec => []SerialTrail
<1>1. Init => TypeInv /\ LockExact /\ TrailInv
  BY InitType, InitLock DEF Init, TrailInv, Opened, Executing
<1>2. TypeInv /\ LockExact /\ TrailInv /\ [Next]_vars => (TypeInv /\ LockExact /\ TrailInv)'
  BY NextType, NextLock, NextTrail
<1>3. TrailInv => SerialTrail
  BY DEF TrailInv, SerialTrail, OpenIn
<1> QED
  BY <1>1, <1>2, <1>3, PTL DEF Spec

(***************************************************************************)
(* What the trail says was done was done.  The counter of a sequence counts *)
(* the inputs the desktop took of it, so "performed" means all of them; the *)
(* result is set once, and what is appended of it and answered agrees.      *)
(***************************************************************************)
LEMMA EffectsStep ==
  ASSUME TypeInv, NEW r \in Requests, ui' = Append(ui, r), NEW s \in Requests
  PROVE  /\ Effects(s) \in Nat
         /\ Effects(s)' = IF s = r THEN Effects(s) + 1 ELSE Effects(s)
<1> DEFINE n == Len(ui)
           I == {i \in 1..n : ui[i] = s}
           J == {i \in 1..(n+1) : ui'[i] = s}
<1>1. n \in Nat /\ Len(ui') = n + 1 /\ ui'[n+1] = r /\ \A i \in 1..n : ui'[i] = ui[i]
  BY DEF TypeInv, TypeOK
<1>2. IsFiniteSet(I) /\ Cardinality(I) \in Nat
  <2>1. IsFiniteSet(1..n)
    BY <1>1, FS_Interval
  <2>2. I \subseteq 1..n
    OBVIOUS
  <2>3. IsFiniteSet(I)
    BY <2>1, <2>2, FS_Subset
  <2> QED
    BY <2>3, FS_CardinalityType
<1>3. Effects(s) = Cardinality(I) /\ Effects(s)' = Cardinality(J)
  BY <1>1 DEF Effects
<1> HIDE DEF n
<1>4. CASE s = r
  <2>1. J = I \cup {n + 1} /\ n + 1 \notin I
    BY <1>1, <1>4
  <2>2. Cardinality(J) = Cardinality(I) + 1
    BY <1>2, <2>1, FS_AddElement
  <2> QED
    BY <1>2, <1>3, <1>4, <2>2
<1>5. CASE s # r
  <2>1. J = I
    BY <1>1, <1>5
  <2> QED
    BY <1>2, <1>3, <1>5, <2>1
<1> QED
  BY <1>4, <1>5

\* A handler that has not executed has no result, one that has not left
\* append_audit for good has no answer, the counter counts what the desktop took,
\* and a performed sequence is complete.
Truth(r) ==
  /\ pc[r] \in {"new", "ready", "rejected", "intent", "execute", "performing"} => result[r] = "none"
  /\ pc[r] \in {"new", "ready", "intent", "execute", "performing", "outcome"} => reply[r] = "none"
  /\ pc[r] = "performing" => Effects(r) = completed[r]
  /\ result[r] = "performed" => Effects(r) = msg[r].ops

TruthInv == \A r \in Requests : Truth(r)

LEMMA InitTruth == Init => TruthInv
  BY DEF Init, TruthInv, Truth

\* A step that leaves the desktop alone and gives s no result.
LEMMA TruthStays ==
  ASSUME TruthInv, NEW s \in Requests, UNCHANGED <<ui, msg, completed>>,
         result'[s] = result[s],
         pc'[s] = pc[s] \/ pc'[s] \in {"ready", "rejected", "intent", "execute", "answering", "release", "reply", "done", "dead"},
         pc'[s] \in {"ready", "rejected", "intent", "execute"} =>
           pc[s] \in {"new", "ready", "rejected", "intent", "execute"},
         pc'[s] \in {"new", "ready", "intent", "execute", "performing", "outcome"} =>
           /\ pc[s] \in {"new", "ready", "intent", "execute", "performing", "outcome"}
           /\ reply'[s] = reply[s]
  PROVE  Truth(s)'
<1>1. Effects(s)' = Effects(s)
  BY DEF Effects
<1>2. Truth(s)
  BY DEF TruthInv
<1> QED
  BY <1>1, <1>2 DEF Truth

LEMMA NextTruth == OrderInv /\ TruthInv /\ [Next]_vars => TruthInv'
<1> SUFFICES ASSUME OrderInv, TruthInv, [Next]_vars, NEW s \in Requests PROVE Truth(s)'
  BY DEF TruthInv
<1> USE DEF OrderInv, TypeInv, TypeOK
<1>m. msg[s].ops \in Nat \ {0} /\ UNCHANGED msg
  <2>1. msg[s].ops \in Nat \ {0}
    BY DEF MessageType
  <2>2. UNCHANGED msg
    BY NextMsg
  <2> QED
    BY <2>1, <2>2
<1>t. Truth(s)
  BY DEF TruthInv
<1>1. ASSUME NEW r \in Requests, Refuse(r) \/ Parse(r) \/ Busy(r) PROVE Truth(s)'
  BY <1>1, TruthStays DEF Refuse, Parse, Busy
<1>2. ASSUME NEW r \in Requests, Acquire(r) PROVE Truth(s)'
  BY <1>2, TruthStays DEF Acquire
<1>3. ASSUME NEW r \in Requests, AuditOpen(r) \/ AuditWrite(r) PROVE Truth(s)'
  BY <1>3, TruthStays DEF AuditOpen, AuditWrite
<1>4. ASSUME NEW r \in Requests, NEW ok \in BOOLEAN, LeaveAppend(r, ok), pc[r] \in Appending,
             UNCHANGED <<ui, msg, completed, result>>
      PROVE  Truth(s)'
  <2>1. s # r => pc'[s] = pc[s] /\ reply'[s] = reply[s]
    BY <1>4 DEF LeaveAppend
  <2>2. s = r => pc'[s] \in {"reply", "answering", "release"}
                 \/ (pc[s] = "intent" /\ pc'[s] = "execute" /\ reply'[s] = reply[s])
    BY <1>4 DEF LeaveAppend, PlaceAfter, ReplyAfter, Appending
  <2> QED
    BY <1>4, <2>1, <2>2, TruthStays
<1>5. ASSUME NEW r \in Requests, AuditSync(r) \/ AuditFail(r) \/ AuditTooLong(r) PROVE Truth(s)'
  <2>1. pc[r] \in Appending /\ UNCHANGED <<ui, msg, completed, result>>
    BY <1>5 DEF AuditSync, AuditFail, AuditTooLong, Appenders
  <2> QED
    BY <1>4, <1>5, <2>1 DEF AuditSync, AuditFail, AuditTooLong
<1>6. ASSUME NEW r \in Requests, NEW how \in Results, Executed(r, how), pc[r] \in Executing,
             s = r => (how = "performed" => Effects(s)' = msg[s].ops), s # r => Effects(s)' = Effects(s),
             s # r => completed'[s] = completed[s]
      PROVE  Truth(s)'
  <2>1. CASE s # r
    BY <1>6, <1>m, <1>t, <2>1 DEF Executed, Truth
  <2>2. CASE s = r
    <3>1. /\ result'[s] = how /\ pc'[s] \in {"outcome", "answering", "release"}
          /\ pc'[s] = "outcome" => reply'[s] = reply[s]
      BY <1>6, <2>2 DEF Executed
    <3> QED
      BY <1>6, <1>m, <1>t, <2>2, <3>1 DEF Truth, Executing
  <2> QED
    BY <2>1, <2>2
<1>7. ASSUME NEW r \in Requests, Inspect(r) \/ Deny(r) \/ Stop(r) PROVE Truth(s)'
  <2>1. PICK how \in Results : Executed(r, how) /\ how # "performed"
    BY <1>7 DEF Inspect, Deny, Stop, Results
  <2>2. UNCHANGED <<ui, completed>> /\ pc[r] \in Executing
    BY <1>7 DEF Inspect, Deny, Stop, Executing
  <2>3. Effects(s)' = Effects(s)
    BY <2>2 DEF Effects
  <2> QED
    BY <1>6, <2>1, <2>2, <2>3
<1>8. ASSUME NEW r \in Requests, Begin(r) PROVE Truth(s)'
  <2>1. /\ pc[r] = "execute" /\ pc' = [pc EXCEPT ![r] = "performing"]
        /\ UNCHANGED <<ui, completed, result, reply>>
    BY <1>8 DEF Begin
  <2>2. Effects(s)' = Effects(s)
    BY <2>1 DEF Effects
  <2>3. s = r => Effects(s) = 0 /\ completed[s] = 0
    <3> SUFFICES ASSUME s = r PROVE Effects(s) = 0 /\ completed[s] = 0
      OBVIOUS
    <3>1. {i \in 1..Len(ui) : ui[i] = s} = {}
      BY <2>1 DEF InputOrder
    <3>2. Effects(s) = 0
      BY <3>1, FS_EmptySet DEF Effects
    <3> QED
      BY <2>1, <3>2 DEF Counting
  <2> QED
    BY <1>m, <1>t, <2>1, <2>2, <2>3 DEF Truth
<1>9. ASSUME NEW r \in Requests, Perform(r) PROVE Truth(s)'
  <2>1. /\ pc[r] = "performing" /\ ui' = Append(ui, r)
        /\ completed' = [completed EXCEPT ![r] = @ + 1]
    BY <1>9 DEF Perform
  <2>2. /\ Effects(s) \in Nat
        /\ Effects(s)' = IF s = r THEN Effects(s) + 1 ELSE Effects(s)
    BY <2>1, EffectsStep
  <2>3. s = r => Effects(s) = completed[s]
    BY <1>t, <2>1 DEF Truth
  <2>4. CASE completed[r] + 1 = msg[r].ops
    <3>1. Executed(r, "performed") /\ pc[r] \in Executing
      BY <1>9, <2>1, <2>4 DEF Perform, Executing
    <3> QED
      BY <1>6, <2>1, <2>2, <2>3, <2>4, <3>1 DEF Results
  <2>5. CASE completed[r] + 1 # msg[r].ops
    <3>1. UNCHANGED <<pc, result, reply>>
      BY <1>9, <2>5 DEF Perform
    <3>2. CASE s = r
      <4>1. pc'[s] = "performing" /\ result'[s] = "none" /\ reply'[s] = "none"
        BY <1>t, <2>1, <3>1, <3>2 DEF Truth
      <4>2. completed'[s] = completed[s] + 1
        BY <2>1, <3>2
      <4> QED
        BY <2>2, <2>3, <3>2, <4>1, <4>2 DEF Truth
    <3>3. CASE s # r
      BY <1>m, <1>t, <2>1, <2>2, <3>1, <3>3 DEF Truth
    <3> QED
      BY <3>2, <3>3
  <2> QED
    BY <2>4, <2>5
<1>10. ASSUME NEW r \in Requests, PerformThenFail(r) PROVE Truth(s)'
  <2>1. /\ pc[r] = "performing" /\ ui' = Append(ui, r) /\ Executed(r, "failed")
        /\ UNCHANGED completed
    BY <1>10 DEF PerformThenFail
  <2>2. Effects(s)' = IF s = r THEN Effects(s) + 1 ELSE Effects(s)
    BY <2>1, EffectsStep
  <2> QED
    BY <1>6, <2>1, <2>2 DEF Executing, Results
<1>11. ASSUME NEW r \in Requests, Answer(r) PROVE Truth(s)'
  BY <1>11, TruthStays DEF Answer, AnswerError, Release, Reply
<1>12. CASE Restart
  BY <1>12, TruthStays DEF Restart, Finished
<1>13. CASE UNCHANGED vars
  BY <1>13, TruthStays DEF vars, local
<1> QED
  BY <1>1, <1>2, <1>3, <1>5, <1>7, <1>8, <1>9, <1>10, <1>11, <1>12, <1>13
  DEF Next, Handle, Proceed, AppendAudit, Execute, Quiet

\* What the trail and the answers say of the results.
Recorded(r, f, n) ==
  \E i \in 1..n :
    /\ f[i].req = r /\ f[i].phase = "outcome" /\ f[i].part = "tail"
    /\ f[i].performed <=> result[r] = "performed"

ReportInv ==
  /\ \A i \in 1..Len(file) : file[i].performed => result[file[i].req] = "performed"
  /\ \A r \in Requests : pc[r] = "outcome" /\ io[r] = "sync" => Recorded(r, file, Len(file))
  /\ \A r \in Requests : reply[r] = "ok" /\ msg[r].audited => Recorded(r, file, synced)

\* A result is set once; nobody who is answered or waits for append_audit gets one.
LEMMA ResultOnce ==
  ASSUME TypeInv, TruthInv, [Next]_vars, NEW s \in Requests
  PROVE  /\ result[s] = "performed" => result'[s] = "performed"
         /\ pc[s] = "outcome" \/ reply[s] = "ok" => result'[s] = result[s]
<1> USE DEF TypeInv, TypeOK
<1>1. ASSUME NEW r \in Requests, NEW how \in Results, Executed(r, how), pc[r] \in Executing
      PROVE  /\ result[s] = "performed" => result'[s] = "performed"
             /\ pc[s] = "outcome" \/ reply[s] = "ok" => result'[s] = result[s]
  <2>1. s # r => result'[s] = result[s]
    BY <1>1 DEF Executed
  <2>2. s = r => result[s] = "none" /\ reply[s] = "none" /\ pc[s] # "outcome"
    BY <1>1 DEF TruthInv, Truth, Executing
  <2> QED
    BY <2>1, <2>2
<1>2. ASSUME NEW r \in Requests, Execute(r)
      PROVE  \/ UNCHANGED result
             \/ \E how \in Results : Executed(r, how) /\ pc[r] \in Executing
  BY <1>2 DEF Execute, Inspect, Deny, Begin, Perform, Stop, PerformThenFail, Executing, Results
<1>3. ASSUME NEW r \in Requests,
             \/ Refuse(r) \/ Parse(r) \/ Acquire(r) \/ Busy(r) \/ AuditOpen(r) \/ AuditWrite(r)
             \/ AuditSync(r) \/ AuditFail(r) \/ AuditTooLong(r) \/ Answer(r)
      PROVE  UNCHANGED result
  BY <1>3 DEF Refuse, Parse, Acquire, Busy, AuditOpen, AuditWrite, AuditSync, AuditFail, AuditTooLong,
    Answer, AnswerError, Release, Reply
<1>4. CASE Restart \/ UNCHANGED vars
  BY <1>4 DEF Restart, vars, local
<1> QED
  BY <1>1, <1>2, <1>3, <1>4 DEF Next, Handle, Proceed, AppendAudit, Quiet

\* A chunk is performed exactly if it belongs to the outcome of a performed request.
LEMMA ChunkPerformed ==
  ASSUME NEW r \in Requests
  PROVE  Chunk(r).performed <=> (pc[r] = "outcome" /\ result[r] = "performed")
  BY DEF Chunk

\* Every chunk of the file after a step was there before or has just been written.
LEMMA ChunkOrigin ==
  ASSUME TypeInv, [Next]_vars, NEW i \in 1..Len(file')
  PROVE  \/ i \in 1..Len(file) /\ file'[i] = file[i]
         \/ \E r \in Requests : AuditWrite(r) /\ file'[i] = Chunk(r)
<1> USE DEF TypeInv, TypeOK
<1>1. CASE UNCHANGED file
  BY <1>1
<1>2. ASSUME NEW n \in 0..Len(file), file' = SubSeq(file, 1, n)
      PROVE  i \in 1..Len(file) /\ file'[i] = file[i]
  <2>1. Len(file') = n /\ \A j \in 1..n : j \in 1..Len(file) /\ file'[j] = file[j]
    BY <1>2
  <2> QED
    BY <2>1
<1>3. ASSUME NEW r \in Requests, AuditWrite(r), Chunk(r) \in Chunks
      PROVE  (i \in 1..Len(file) /\ file'[i] = file[i]) \/ file'[i] = Chunk(r)
  <2>1. /\ Len(file) \in Nat /\ Len(file') = Len(file) + 1 /\ file'[Len(file)+1] = Chunk(r)
        /\ \A j \in 1..Len(file) : file'[j] = file[j]
    BY <1>3 DEF AuditWrite
  <2>2. i \in 1..Len(file) \/ i = Len(file) + 1
    <3> HIDE DEF TypeInv, TypeOK
    <3> QED
      BY <2>1
  <2> QED
    BY <2>1, <2>2
<1> QED
  BY <1>1, <1>2, <1>3, FileStep

\* How a request comes to be answered "ok", and to the fsync of its outcome.
LEMMA OkStep ==
  ASSUME TypeInv, TruthInv, [Next]_vars, NEW s \in Requests
  PROVE  /\ msg[s].audited /\ reply'[s] = "ok" /\ reply[s] # "ok" => AuditSync(s) /\ pc[s] = "outcome"
         /\ pc'[s] = "outcome" /\ io'[s] = "sync" =>
              \/ pc[s] = "outcome" /\ io[s] = "sync" /\ UNCHANGED file
              \/ pc[s] = "outcome" /\ io[s] = "tail" /\ AuditWrite(s)
<1> USE DEF TypeInv, TypeOK
<1>t. Truth(s)
  BY DEF TruthInv
<1> DEFINE Goal ==
      /\ msg[s].audited /\ reply'[s] = "ok" /\ reply[s] # "ok" => AuditSync(s) /\ pc[s] = "outcome"
      /\ pc'[s] = "outcome" /\ io'[s] = "sync" =>
           \/ pc[s] = "outcome" /\ io[s] = "sync" /\ UNCHANGED file
           \/ pc[s] = "outcome" /\ io[s] = "tail" /\ AuditWrite(s)
<1>1. ASSUME NEW r \in Requests, Refuse(r) \/ Parse(r) \/ Busy(r) PROVE Goal
  BY <1>1 DEF Refuse, Parse, Busy, audit
<1>2. ASSUME NEW r \in Requests, Acquire(r) PROVE Goal
  BY <1>2 DEF Acquire, audit
<1>3. ASSUME NEW r \in Requests, AuditOpen(r) \/ AuditWrite(r) PROVE Goal
  BY <1>3 DEF AuditOpen, AuditWrite, Appenders, Appending
<1>4. ASSUME NEW r \in Requests, AuditSync(r) PROVE Goal
  BY <1>4, <1>t DEF AuditSync, LeaveAppend, PlaceAfter, ReplyAfter, Appenders, Appending, Errors, Truth
<1>5. ASSUME NEW r \in Requests, AuditFail(r) \/ AuditTooLong(r) PROVE Goal
  <2>1. LeaveAppend(r, FALSE) /\ pc[r] \in Appending /\ UNCHANGED file
    BY <1>5 DEF AuditFail, AuditTooLong, Appenders
  <2>2. /\ pc'[r] \in {"reply", "answering"} /\ (s # r => pc'[s] = pc[s] /\ io'[s] = io[s] /\ reply'[s] = reply[s])
        /\ reply'[r] = reply[r] \/ reply'[r] # "ok"
    BY <2>1 DEF LeaveAppend, PlaceAfter, ReplyAfter, Errors
  <2> QED
    BY <2>1, <2>2
<1>6. ASSUME NEW r \in Requests, NEW how \in Results, Executed(r, how), pc[r] \in Executing,
             UNCHANGED <<io, file>>
      PROVE  Goal
  <2>1. io[r] = "idle"
    BY <1>6 DEF Appenders, Appending, Executing
  <2>2. s = r => (msg[s].audited => reply'[s] = reply[s]) /\ io'[s] # "sync"
    BY <1>6, <2>1 DEF Executed
  <2>3. s # r => reply'[s] = reply[s] /\ pc'[s] = pc[s] /\ io'[s] = io[s]
    BY <1>6 DEF Executed
  <2> QED
    BY <1>6, <2>2, <2>3
<1>7. ASSUME NEW r \in Requests, Execute(r) PROVE Goal
  <2>1. \/ \E how \in Results : Executed(r, how) /\ pc[r] \in Executing /\ UNCHANGED <<io, file>>
        \/ UNCHANGED <<io, file, reply>> /\ (pc' = pc \/ pc' = [pc EXCEPT ![r] = "performing"])
    BY <1>7 DEF Execute, Inspect, Deny, Begin, Perform, Stop, PerformThenFail, Executing, Results, audit
  <2> QED
    BY <1>6, <2>1
<1>8. ASSUME NEW r \in Requests, Answer(r) PROVE Goal
  BY <1>8 DEF Answer, AnswerError, Release, Reply, audit
<1>9. CASE Restart
  BY <1>9 DEF Restart
<1>10. CASE UNCHANGED vars
  BY <1>10 DEF vars, local, audit
<1> QED
  BY <1>1, <1>2, <1>3, <1>4, <1>5, <1>7, <1>8, <1>9, <1>10
  DEF Next, Handle, Proceed, AppendAudit, Quiet

\* Every chunk is a record of one of the requests.
LEMMA ChunkOwner ==
  ASSUME TypeInv, NEW i \in 1..Len(file)
  PROVE  file[i].req \in Requests
<1>1. file[i] \in Chunks
  BY DEF TypeInv, TypeOK
<1> QED
  BY <1>1 DEF Chunks

LEMMA NextReport == TypeInv /\ TruthInv /\ ReportInv /\ [Next]_vars => ReportInv'
<1> SUFFICES ASSUME TypeInv, TruthInv, ReportInv, [Next]_vars PROVE ReportInv'
  OBVIOUS
<1>1. ASSUME NEW i \in 1..Len(file'), file'[i].performed
      PROVE  result'[file'[i].req] = "performed"
  <2>1. CASE i \in 1..Len(file) /\ file'[i] = file[i]
    <3>1. file[i].performed
      BY <1>1, <2>1, Zenon
    <3>2. result[file[i].req] = "performed"
      BY <2>1, <3>1 DEF ReportInv
    <3>3. file[i].req \in Requests
      BY <2>1, ChunkOwner
    <3> QED
      BY <2>1, <3>2, <3>3, ResultOnce
  <2>2. ASSUME NEW r \in Requests, AuditWrite(r), file'[i] = Chunk(r)
        PROVE  result'[file'[i].req] = "performed"
    <3>1. Chunk(r).performed
      BY <1>1, <2>2, Zenon
    <3>2. result[r] = "performed" /\ Chunk(r).req = r
      BY <3>1, ChunkPerformed DEF Chunk
    <3> QED
      BY <2>2, <3>2, ResultOnce
  <2> QED
    BY <2>1, <2>2, ChunkOrigin
<1>2. ASSUME NEW s \in Requests, pc'[s] = "outcome", io'[s] = "sync"
      PROVE  Recorded(s, file, Len(file))'
  <2>1. result'[s] = result[s] \/ pc[s] # "outcome"
    BY ResultOnce
  <2>2. CASE pc[s] = "outcome" /\ io[s] = "sync" /\ UNCHANGED file
    BY <2>1, <2>2 DEF ReportInv, Recorded
  <2>3. CASE pc[s] = "outcome" /\ io[s] = "tail" /\ AuditWrite(s)
    <3>1. Chunk(s) \in Chunks /\ file' = Append(file, Chunk(s))
      BY <2>3, ChunkType DEF AuditWrite, Phases
    <3>2. Len(file') \in 1..Len(file') /\ file'[Len(file')] = Chunk(s)
      BY <3>1 DEF TypeInv, TypeOK
    <3>3. Chunk(s).req = s /\ Chunk(s).phase = "outcome" /\ Chunk(s).part = "tail"
      BY <2>3 DEF Chunk
    <3>4. Chunk(s).performed <=> result'[s] = "performed"
      BY <2>1, <2>3, ChunkPerformed
    <3> QED
      BY <3>2, <3>3, <3>4, Zenon DEF Recorded
  <2>4. \/ pc[s] = "outcome" /\ io[s] = "sync" /\ UNCHANGED file
        \/ pc[s] = "outcome" /\ io[s] = "tail" /\ AuditWrite(s)
    BY <1>2, OkStep
  <2> QED
    BY <2>2, <2>3, <2>4
<1>3. ASSUME NEW s \in Requests, reply'[s] = "ok", msg'[s].audited
      PROVE  Recorded(s, file, synced)'
  <2>1. msg[s].audited
    BY <1>3, NextMsg
  <2>2. ASSUME NEW n \in 0..Len(file), n <= synced', Recorded(s, file, n), result'[s] = result[s],
               \A i \in 1..n : file'[i] = file[i]
        PROVE  Recorded(s, file, synced)'
    <3>1. PICK i \in 1..n :
            /\ file[i].req = s /\ file[i].phase = "outcome" /\ file[i].part = "tail"
            /\ file[i].performed <=> result[s] = "performed"
      BY <2>2, Zenon DEF Recorded
    <3>2. synced' \in Nat /\ i \in 1..synced' /\ file'[i] = file[i]
      BY <2>2, <3>1, DurablePrefix DEF TypeInv, TypeOK
    <3>3. /\ file'[i].req = s /\ file'[i].phase = "outcome" /\ file'[i].part = "tail"
          /\ file'[i].performed <=> result'[s] = "performed"
      BY <2>2, <3>1, <3>2, Zenon
    <3> QED
      BY <3>2, <3>3, Zenon DEF Recorded
  <2>3. CASE reply[s] = "ok"
    <3>1. Recorded(s, file, synced) /\ result'[s] = result[s]
      BY <2>1, <2>3, ResultOnce DEF ReportInv
    <3>2. synced \in 0..Len(file) /\ synced <= synced' /\ \A i \in 1..synced : file'[i] = file[i]
      BY DurablePrefix DEF TypeInv, TypeOK
    <3> QED
      BY <2>2, <3>1, <3>2
  <2>4. CASE reply[s] # "ok"
    <3>1. AuditSync(s) /\ pc[s] = "outcome"
      BY <1>3, <2>1, <2>4, OkStep
    <3>2. io[s] = "sync" /\ synced' = Len(file) /\ file' = file /\ result' = result
      BY <3>1 DEF AuditSync
    <3>3. Recorded(s, file, Len(file))
      BY <3>1, <3>2 DEF ReportInv
    <3> QED
      BY <3>2, <3>3, Zenon DEF Recorded
  <2> QED
    BY <2>3, <2>4
<1> QED
  BY <1>1, <1>2, <1>3 DEF ReportInv

\* An outcome recorded as performed stands for a sequence every operation of
\* which reached the desktop, and what is answered is what is durably recorded
\* (append_audit before the answer, in _execute_worker).
THEOREM OutcomesTrue == Spec => []OutcomeTruthful
<1>1. Init => OrderInv /\ TruthInv /\ ReportInv
  BY InitType, InitLock, InitTruth DEF Init, OrderInv, InputOrder, ReportInv
<1>2. OrderInv /\ TruthInv /\ ReportInv /\ [Next]_vars => (OrderInv /\ TruthInv /\ ReportInv)'
  BY NextType, NextLock, NextOrder, NextTruth, NextReport DEF OrderInv
<1>3. OrderInv /\ TruthInv /\ ReportInv => OutcomeTruthful
  <2> SUFFICES ASSUME OrderInv, TruthInv, ReportInv PROVE OutcomeTruthful
    OBVIOUS
  <2>1. ASSUME NEW i \in 1..Len(file), file[i].performed
        PROVE  Effects(file[i].req) = msg[file[i].req].ops
    <3>1. file[i].req \in Requests
      BY ChunkOwner DEF OrderInv
    <3>2. result[file[i].req] = "performed"
      BY <2>1 DEF ReportInv
    <3> QED
      BY <3>1, <3>2 DEF TruthInv, Truth
  <2> QED
    BY <2>1, Zenon DEF OutcomeTruthful, ReportInv, Recorded
<1> QED
  BY <1>1, <1>2, <1>3, PTL DEF Spec
=============================================================================
