----------------------- MODULE TranslationStack_proofs -----------------------
(***************************************************************************)
(* Proofs about the model client, the translation service, the resumable     *)
(* scripts and the restoration of tokens put together, for any texts,         *)
(* glossaries, batches and group size, any lists of models the endpoint gives, *)
(* any answers and any number of calls, edits, failed writes and kills.       *)
(***************************************************************************)
EXTENDS TranslationStack, FiniteSetTheorems, SequenceTheorems, TLAPS

-----------------------------------------------------------------------------
(* Facts about natural numbers the model's operators rest on. *)

(***************************************************************************)
(* Induction over the natural numbers, with a set in place of a predicate:   *)
(* a set that 0 is in and that is closed under successor leaves no n out, or  *)
(* i |-> i + 1 would map its part up to n into that part without 0.           *)
(***************************************************************************)
LEMMA Induction ==
  ASSUME NEW S, 0 \in S, \A n \in Nat : n \in S => n + 1 \in S
  PROVE  \A n \in Nat : n \in S
<1> SUFFICES ASSUME NEW n \in Nat, n \notin S PROVE FALSE
  OBVIOUS
<1> DEFINE T == {i \in 0..n : i \in S}
           U == T \ {0}
           f == [i \in T |-> i + 1]
<1>1. IsFiniteSet(T)
  <2>1. T \in SUBSET (0..n)
    OBVIOUS
  <2>2. IsFiniteSet(0..n)
    BY FS_Interval
  <2> QED
    BY <2>1, <2>2, FS_Subset
<1>2. 0 \in T /\ IsFiniteSet(U) /\ Cardinality(U) = Cardinality(T) - 1 /\ Cardinality(T) \in Nat
  <2>1. 0 \in T
    OBVIOUS
  <2>2. IsFiniteSet(U) /\ Cardinality(U) = IF 0 \in T THEN Cardinality(T) - 1 ELSE Cardinality(T)
    BY <1>1, FS_RemoveElement
  <2>3. Cardinality(T) \in Nat
    BY <1>1, FS_CardinalityType
  <2> HIDE DEF T, U
  <2> QED
    BY <2>1, <2>2, <2>3
<1>3. f \in [T -> U]
  <2> SUFFICES ASSUME NEW i \in T PROVE i + 1 \in U
    OBVIOUS
  <2>1. i \in Nat /\ i # n /\ i <= n /\ i + 1 \in S
    OBVIOUS
  <2> QED
    BY <2>1
<1>4. \A i, j \in T : f[i] = f[j] => i = j
  OBVIOUS
<1> HIDE DEF T, U, f
<1>5. Cardinality(U) < Cardinality(T)
  BY <1>2
<1>6. \E i, j \in T : i # j /\ f[i] = f[j]
  BY <1>1, <1>2, <1>3, <1>5, FS_PigeonHole
<1> QED
  BY <1>4, <1>6

(***************************************************************************)
(* A set of natural numbers has a least element.                            *)
(***************************************************************************)
LEMMA Least ==
  ASSUME NEW T \in SUBSET Nat, T # {}
  PROVE  \E m \in T : \A k \in T : m <= k
<1> SUFFICES ASSUME \A m \in T : \E k \in T : k < m
             PROVE  FALSE
  OBVIOUS
<1> DEFINE S == {n \in Nat : \A k \in T : n <= k}
<1>1. 0 \in S
  OBVIOUS
<1>2. ASSUME NEW n \in Nat, n \in S
      PROVE  n + 1 \in S
  <2>1. n \notin T
    BY <1>2
  <2> QED
    BY <1>2, <2>1
<1>3. \A n \in Nat : n \in S
  <2> HIDE DEF S
  <2> QED
    BY <1>1, <1>2, Induction
<1>4. PICK t \in T : TRUE
  OBVIOUS
<1>5. t + 1 \in S
  BY <1>3
<1> QED
  BY <1>5

\* f begins with s and takes n steps of next in S.
Stepwise(f, S, s, n, next) ==
  f \in [0..n -> S] /\ f[0] = s /\ \A i \in 1..n : f[i] = next[<<i, f[i-1]>>]

(***************************************************************************)
(* A function of 0..n that is given step by step exists.                    *)
(***************************************************************************)
LEMMA StepwiseFunction ==
  ASSUME NEW S, NEW s \in S, NEW n \in Nat, NEW next \in [(1..n) \X S -> S]
  PROVE  \E f : Stepwise(f, S, s, n, next)
<1> DEFINE Good(k, f) == f[0] = s /\ \A i \in 1..k : f[i] = next[<<i, f[i-1]>>]
           K == {k \in Nat : k <= n => \E f \in [0..k -> S] : Good(k, f)}
<1>1. 0 \in K
  <2>1. [i \in 0..0 |-> s] \in [0..0 -> S] /\ Good(0, [i \in 0..0 |-> s])
    OBVIOUS
  <2> QED
    BY <2>1
<1>2. ASSUME NEW k \in Nat, k \in K
      PROVE  k + 1 \in K
  <2> SUFFICES ASSUME k + 1 <= n
               PROVE  \E f \in [0..(k + 1) -> S] : Good(k + 1, f)
    OBVIOUS
  <2>1. PICK f \in [0..k -> S] : Good(k, f)
    BY <1>2
  <2> DEFINE g == [i \in 0..(k + 1) |-> IF i = k + 1 THEN next[<<k + 1, f[k]>>] ELSE f[i]]
  <2>2. f[k] \in S /\ k + 1 \in 1..n
    OBVIOUS
  <2>3. next[<<k + 1, f[k]>>] \in S
    BY <2>2
  <2>4. g \in [0..(k + 1) -> S]
    BY <2>3
  <2>5. g[k + 1] = next[<<k + 1, f[k]>>] /\ \A i \in 0..k : g[i] = f[i]
    OBVIOUS
  <2> HIDE DEF g
  <2>6. Good(k + 1, g)
    <3>1. g[0] = s
      BY <2>1, <2>5
    <3>2. ASSUME NEW i \in 1..(k + 1)
          PROVE  g[i] = next[<<i, g[i-1]>>]
      <4>1. CASE i = k + 1
        <5>1. i - 1 = k /\ g[k] = f[k]
          BY <2>5, <4>1
        <5> QED
          BY <2>5, <4>1, <5>1
      <4>2. CASE i \in 1..k
        <5>1. g[i-1] = f[i-1] /\ g[i] = f[i]
          BY <2>5, <4>2
        <5> QED
          BY <2>1, <4>2, <5>1
      <4> QED
        BY <4>1, <4>2
    <3> QED
      BY <3>1, <3>2
  <2> QED
    BY <2>4, <2>6
<1>3. n \in K
  <2> HIDE DEF K
  <2> QED
    BY <1>1, <1>2, Induction
<1> QED
  BY <1>3 DEF Stepwise

-----------------------------------------------------------------------------
(* What a step of the stack is for each part. *)

(***************************************************************************)
(* Every step of the stack is a step of the scripts or leaves them alone:    *)
(* the exchange of the client in between is invisible to them.              *)
(***************************************************************************)
LEMMA ScriptStep == [StackNext]_allVars => [Next]_vars
<1> SUFFICES ASSUME [StackNext]_allVars
             PROVE  Next \/ UNCHANGED vars
  OBVIOUS
<1>1. CASE Exchange
  BY <1>1, Zenon DEF Exchange
<1>2. CASE ServiceSteps
  BY <1>2, Zenon DEF ServiceSteps
<1>3. CASE ScriptSteps
  BY <1>3, Zenon DEF ScriptSteps, ScriptAnswered, ScriptFailed, Next
<1>4. CASE UNCHANGED allVars
  BY <1>4, Zenon DEF allVars
<1> QED
  BY <1>1, <1>2, <1>3, <1>4, Zenon DEF StackNext

ServiceActions == Calls \/ Take \/ Collect \/ ProviderAnswers \/ ProviderRaises

LEMMA ServiceStep == [StackNext]_allVars => ServiceActions \/ UNCHANGED service
<1> SUFFICES ASSUME [StackNext]_allVars
             PROVE  ServiceActions \/ UNCHANGED service
  OBVIOUS
<1>1. CASE Exchange
  BY <1>1, Zenon DEF Exchange
<1>2. CASE ServiceSteps
  BY <1>2, Zenon DEF ServiceSteps, ServiceActions
<1>3. CASE ScriptSteps
  BY <1>3, Zenon DEF ScriptSteps
<1>4. CASE UNCHANGED allVars
  BY <1>4, Zenon DEF allVars
<1> QED
  BY <1>1, <1>2, <1>3, <1>4, Zenon DEF StackNext

ClientActions == Request \/ ClientNext \/ Taken \/ NewClient

LEMMA ClientStep == [StackNext]_allVars => ClientActions \/ UNCHANGED client
<1> SUFFICES ASSUME [StackNext]_allVars
             PROVE  ClientActions \/ UNCHANGED client
  OBVIOUS
<1>1. CASE Exchange
  BY <1>1, Zenon DEF Exchange, ClientActions
<1>2. CASE ServiceSteps
  BY <1>2, Zenon DEF ServiceSteps, ClientActions
<1>3. CASE ScriptSteps
  BY <1>3, Zenon DEF ScriptSteps, ScriptAnswered, ScriptFailed, ClientActions
<1>4. CASE UNCHANGED allVars
  BY <1>4, Zenon DEF allVars
<1> QED
  BY <1>1, <1>2, <1>3, <1>4, Zenon DEF StackNext

-----------------------------------------------------------------------------
(* The model client. *)

\* What was tried was refused, but for the model that is being asked; between
\* two requests there is no outcome but the last one's.
ClientInv ==
  /\ outcome # "none" => at = "idle"
  /\ at \in {"next", "list"} => tried \subseteq refusals
  /\ at = "post" => tried \subseteq refusals \cup {model}
  /\ NoModelIsTruthful

LEMMA ClientInvStep ==
  ASSUME ClientInv, [StackNext]_allVars
  PROVE  ClientInv'
<1> USE DEF ClientInv, NoModelIsTruthful
<1>1. CASE Request
  BY <1>1 DEF Request
<1>2. CASE List
  BY <1>2 DEF List, Ends
<1>3. CASE TryNext
  BY <1>3 DEF TryNext
<1>4. CASE Exhausted
  <2>1. \A i \in DOMAIN candidates : candidates[i] \in refusals
    BY <1>4 DEF Exhausted, Untried
  <2> QED
    BY <1>4, <2>1 DEF Exhausted, Ends
<1>5. CASE Posted
  BY <1>5 DEF Posted, Ends
<1>6. CASE PostBare
  BY <1>6 DEF PostBare
<1>7. CASE Unsuited
  BY <1>7 DEF Unsuited, Ends
<1>8. CASE PostFails
  BY <1>8 DEF PostFails, Ends
<1>9. CASE Taken
  BY <1>9 DEF Taken
<1>10. CASE NewClient
  BY <1>10 DEF NewClient
<1>11. CASE UNCHANGED client
  BY <1>11 DEF client
<1> QED
  BY <1>1, <1>2, <1>3, <1>4, <1>5, <1>6, <1>7, <1>8, <1>9, <1>10, <1>11, ClientStep, Zenon
     DEF ClientActions, ClientNext

(***************************************************************************)
(* A request is given up for want of a model only after every model of a     *)
(* list taken during it refused it (_models and _post).                      *)
(***************************************************************************)
THEOREM NoModelSaidTruthfully == StackSpec => []NoModelIsTruthful
<1>1. StackInit => ClientInv
  BY DEF StackInit, ClientInit, ClientInv, NoModelIsTruthful
<1>2. ClientInv /\ [StackNext]_allVars => ClientInv'
  BY ClientInvStep
<1>3. ClientInv => NoModelIsTruthful
  BY DEF ClientInv
<1> QED
  BY <1>1, <1>2, <1>3, PTL DEF StackSpec

-----------------------------------------------------------------------------
(* The translation service. *)

Listed(t, s) == \E i \in DOMAIN s : s[i] = t
NoRepeats(s) == \A i, j \in DOMAIN s : i # j => s[i] # s[j]
Apart(s, r) == \A i \in DOMAIN s : \A j \in DOMAIN r : s[i] # r[j]

ServiceType ==
  /\ memory \in [Texts -> {"ok", "joined", Unknown}]
  /\ records \in Seq([id : Nat, text : Texts]) /\ queue \in Seq(Texts) /\ group \in Seq(Texts)

GroupPhases == {"take", "retry", "segment"}
BatchPhases == GroupPhases \cup {"batch", "collect"}

\* The record propose asks for has CJK text and no known target.
SingleInv ==
  phase = "single" => records[1].text \in (Texts \ Plain) \cap singles /\ Lookup(records[1].text) = Unknown

\* What was accepted is remembered, whatever raised since.
AnsweredInv == answered \subseteq {t \in Texts : memory[t] # Unknown}

\* The texts that wait and those of the open group are different texts, of none
\* of which a target is known.
WaitingInv ==
  /\ NoRepeats(queue)
  /\ phase \in GroupPhases \cup {"batch"} => \A i \in DOMAIN queue : Lookup(queue[i]) = Unknown
  /\ phase \in GroupPhases =>
       /\ NoRepeats(group) /\ Apart(group, queue)
       /\ \A i \in DOMAIN group : Lookup(group[i]) = Unknown
  /\ phase \in {"retry", "segment"} => group # << >>
  /\ phase = "collect" => queue = << >>

\* Every record of a batch is skipped, has a target that fits, or still waits.
CoveredInv ==
  phase \in BatchPhases =>
    \A i \in DOMAIN records :
      \/ records[i].text \in Plain
      \/ Lookup(records[i].text) = "ok"
      \/ Listed(records[i].text, queue)
      \/ phase \in GroupPhases /\ Listed(records[i].text, group)

ServiceInv ==
  /\ ServiceType /\ SingleInv /\ AnsweredInv
  /\ WaitingInv /\ CoveredInv /\ OnlyProposePoisons /\ DecisionsFit

(***************************************************************************)
(* The first record of a text stands for all of its records.                *)
(***************************************************************************)
LEMMA OpenStands ==
  ASSUME NEW b \in Seq([id : Nat, text : Texts]), NEW i \in DOMAIN b,
         b[i].text \notin Plain, Lookup(b[i].text) = Unknown
  PROVE  \E k \in Open(b) : b[k].text = b[i].text
<1> DEFINE T == {k \in DOMAIN b : b[k].text = b[i].text}
<1>1. DOMAIN b = 1..Len(b) /\ Len(b) \in Nat
  BY LenProperties
<1>2. T \in SUBSET Nat /\ T # {}
  BY <1>1
<1>3. PICK m \in T : \A k \in T : m <= k
  <2> HIDE DEF T
  <2> QED
    BY <1>2, Least
<1>4. \A j \in 1..(m - 1) : b[j].text # b[m].text
  <2> SUFFICES ASSUME NEW j \in 1..(m - 1), b[j].text = b[m].text
               PROVE  FALSE
    OBVIOUS
  <2>1. j \in T
    BY <1>1, <1>3
  <2> QED
    BY <1>1, <1>3, <2>1
<1> QED
  BY <1>3, <1>4 DEF Open

(***************************************************************************)
(* The queue holds the text of every open record once.                      *)
(***************************************************************************)
LEMMA EnqueuedHolds ==
  ASSUME NEW b \in Seq([id : Nat, text : Texts]), Enqueued(b)
  PROVE  /\ queue' \in Seq(Texts)
         /\ NoRepeats(queue')
         /\ \A i \in DOMAIN queue' : queue'[i] \notin Plain /\ Lookup(queue'[i]) = Unknown
         /\ \A k \in Open(b) : Listed(b[k].text, queue')
         /\ Open(b) = {} => queue' = << >>
<1>1. DOMAIN b = 1..Len(b) /\ Len(b) \in Nat /\ \A i \in DOMAIN b : b[i].text \in Texts
  <2>1. \A i \in DOMAIN b : b[i] \in [id : Nat, text : Texts]
    BY LenProperties
  <2> QED
    BY <2>1, LenProperties
<1>2. Open(b) \in SUBSET (1..Len(b)) /\ IsFiniteSet(Open(b)) /\ Cardinality(Open(b)) \in Nat
  <2>1. Open(b) \in SUBSET (1..Len(b))
    BY <1>1 DEF Open
  <2>2. IsFiniteSet(1..Len(b))
    BY <1>1, FS_Interval
  <2>3. IsFiniteSet(Open(b))
    BY <2>1, <2>2, FS_Subset
  <2> QED
    BY <2>1, <2>3, FS_CardinalityType
<1> DEFINE n == Cardinality(Open(b))
<1>3. PICK order \in [1..n -> Open(b)] :
        /\ \A i, j \in DOMAIN order : i < j => order[i] < order[j]
        /\ queue' = [i \in DOMAIN order |-> b[order[i]].text]
  BY DEF Enqueued
<1>4. n \in Nat /\ DOMAIN order = 1..n /\ DOMAIN queue' = 1..n
  BY <1>2, <1>3
<1>5. \A i \in 1..n : order[i] \in Open(b) /\ queue'[i] = b[order[i]].text
  BY <1>3, <1>4
<1>6. \A i, j \in 1..n : i # j => order[i] # order[j]
  <2>1. \A i \in 1..n : order[i] \in Int
    BY <1>2, <1>5
  <2> HIDE DEF n
  <2> QED
    BY <1>3, <1>4, <2>1
<1>7. \A k \in Open(b) : \E i \in 1..n : order[i] = k
  <2>1. order \in Injection(1..n, Open(b))
    BY <1>3, <1>6 DEF Injection, IsInjective
  <2>2. Cardinality(1..n) = n
    BY <1>4, FS_Interval
  <2>3. order \in Surjection(1..n, Open(b))
    BY <1>2, <2>1, <2>2, FS_Injection
  <2> QED
    BY <2>3 DEF Surjection
<1>8. \A k \in Open(b) : b[k].text \in Texts \ Plain /\ Lookup(b[k].text) = Unknown
  BY <1>1 DEF Open
<1>9. \A k, l \in Open(b) : k # l => b[k].text # b[l].text
  <2> SUFFICES ASSUME NEW k \in Open(b), NEW l \in Open(b), k < l
               PROVE  b[k].text # b[l].text
    <3>1. \A k, l \in Open(b) : k \in Int /\ l \in Int
      BY <1>2
    <3> QED
      BY <3>1
  <2>1. k \in 1..(l - 1)
    BY <1>2
  <2> QED
    BY <2>1 DEF Open
<1> HIDE DEF n
<1>10. queue' \in Seq(Texts)
  <2>1. queue' \in [1..n -> Texts]
    BY <1>3, <1>4, <1>5, <1>8
  <2> QED
    BY <1>4, <2>1
<1>11. NoRepeats(queue')
  BY <1>4, <1>5, <1>6, <1>9 DEF NoRepeats
<1>12. \A i \in DOMAIN queue' : queue'[i] \notin Plain /\ Lookup(queue'[i]) = Unknown
  BY <1>4, <1>5, <1>8
<1>13. \A k \in Open(b) : Listed(b[k].text, queue')
  <2> SUFFICES ASSUME NEW k \in Open(b)
               PROVE  \E i \in DOMAIN queue' : queue'[i] = b[k].text
    BY DEF Listed
  <2>1. PICK i \in 1..n : order[i] = k
    BY <1>7
  <2> QED
    BY <1>4, <1>5, <2>1
<1>14. Open(b) = {} => queue' = << >>
  BY <1>4, <1>5, <1>10
<1> QED
  BY <1>10, <1>11, <1>12, <1>13, <1>14

(***************************************************************************)
(* A group and what stays of the queue are its two parts.                   *)
(***************************************************************************)
LEMMA GroupSplits ==
  ASSUME NEW q \in Seq(Texts), NEW n \in Nat \ {0}
  PROVE  LET rest == SubSeq(q, n + 1, Len(q))
         IN /\ First(n, q) \in Seq(Texts) /\ rest \in Seq(Texts)
            /\ \A i \in DOMAIN First(n, q) : i \in DOMAIN q /\ i <= n /\ First(n, q)[i] = q[i]
            /\ \A i \in DOMAIN rest : i + n \in DOMAIN q /\ rest[i] = q[i + n]
            /\ \A t : Listed(t, q) => Listed(t, First(n, q)) \/ Listed(t, rest)
<1> DEFINE m == IF n < Len(q) THEN n ELSE Len(q)
           rest == SubSeq(q, n + 1, Len(q))
<1>1. Len(q) \in Nat /\ DOMAIN q = 1..Len(q) /\ \A i \in 1..Len(q) : q[i] \in Texts
  BY LenProperties
<1>0. n \in Nat /\ Len(q) \in Nat /\ n > 0
  BY <1>1
<1>2. m \in Nat /\ m <= n /\ m <= Len(q) /\ (m = n \/ m = Len(q))
  BY <1>1
<1>3. First(n, q) = SubSeq(q, 1, m)
  BY DEF First
<1>4. /\ First(n, q) \in Seq(Texts) /\ Len(First(n, q)) = m
      /\ \A i \in 1..m : First(n, q)[i] = q[i]
  <2>1. \A i \in 1..m : q[i] \in Texts
    BY <1>1, <1>2
  <2>2. /\ SubSeq(q, 1, m) \in Seq(Texts) /\ Len(SubSeq(q, 1, m)) = IF 1 <= m THEN m - 1 + 1 ELSE 0
        /\ \A i \in 1..(m - 1 + 1) : SubSeq(q, 1, m)[i] = q[1 + i - 1]
    <3> HIDE DEF m
    <3> QED
      BY <1>2, <2>1, SubSeqProperties
  <2> HIDE DEF m
  <2> QED
    BY <1>2, <1>3, <2>2
<1>5. /\ rest \in Seq(Texts)
      /\ Len(rest) = IF n + 1 <= Len(q) THEN Len(q) - n ELSE 0
      /\ \A i \in 1..(Len(q) - n) : rest[i] = q[i + n]
  <2>1. \A i \in (n + 1)..Len(q) : q[i] \in Texts
    BY <1>1
  <2>2. /\ SubSeq(q, n + 1, Len(q)) \in Seq(Texts)
        /\ Len(SubSeq(q, n + 1, Len(q))) = IF n + 1 <= Len(q) THEN Len(q) - (n + 1) + 1 ELSE 0
        /\ \A i \in 1..(Len(q) - (n + 1) + 1) : SubSeq(q, n + 1, Len(q))[i] = q[n + 1 + i - 1]
    BY <1>1, <2>1, SubSeqProperties
  <2> QED
    BY <1>1, <2>2
<1>6. DOMAIN First(n, q) = 1..m /\ DOMAIN rest = 1..Len(rest)
  BY <1>4, <1>5, LenProperties
<1> HIDE DEF m, rest
<1>7. \A i \in DOMAIN rest : i + n \in DOMAIN q /\ rest[i] = q[i + n]
  <2> SUFFICES ASSUME NEW i \in 1..Len(rest)
               PROVE  i + n \in 1..Len(q) /\ rest[i] = q[i + n]
    BY <1>1, <1>6
  <2>1. n + 1 <= Len(q) /\ i \in 1..(Len(q) - n)
    BY <1>0, <1>5
  <2> QED
    BY <1>1, <1>5, <2>1
<1>8. ASSUME NEW t, Listed(t, q)
      PROVE  Listed(t, First(n, q)) \/ Listed(t, rest)
  <2>1. PICK i \in 1..Len(q) : q[i] = t
    BY <1>1, <1>8 DEF Listed
  <2>2. CASE i <= m
    <3>1. i \in 1..m /\ First(n, q)[i] = t
      BY <1>2, <1>4, <2>1, <2>2
    <3> QED
      BY <1>6, <3>1 DEF Listed
  <2>3. CASE i > m
    <3>1. m = n
      BY <1>0, <1>2, <2>1, <2>3
    <3>2. i - n \in 1..(Len(q) - n) /\ n + 1 <= Len(q)
      BY <1>1, <2>1, <2>3, <3>1
    <3>3. rest[i - n] = t /\ i - n \in DOMAIN rest
      BY <1>5, <1>6, <2>1, <3>2
    <3> QED
      BY <3>3 DEF Listed
  <2> QED
    BY <1>2, <2>2, <2>3
<1>9. \A i \in DOMAIN First(n, q) : i \in DOMAIN q /\ i <= n /\ First(n, q)[i] = q[i]
  <2> SUFFICES ASSUME NEW i \in 1..m
               PROVE  i \in 1..Len(q) /\ i <= n /\ First(n, q)[i] = q[i]
    BY <1>1, <1>6
  <2> QED
    BY <1>0, <1>2, <1>4
<1> QED
  BY <1>4, <1>5, <1>7, <1>8, <1>9 DEF rest

(***************************************************************************)
(* Every step of the service keeps the invariant.                           *)
(***************************************************************************)
LEMMA ProposeInv ==
  ASSUME ServiceInv, NEW t \in Texts, Propose(t)
  PROVE  ServiceInv'
<1>1. phase' \in {"idle", "single"} /\ records' = <<[id |-> 1, text |-> t]>>
  BY DEF Propose, Called, Returned, Raised
<1>2. UNCHANGED <<terms, memory, queue, group, answered>> /\ singles \subseteq singles'
  BY DEF Propose
<1>3. ServiceType'
  <2>1. [id |-> 1, text |-> t] \in [id : Nat, text : Texts]
    OBVIOUS
  <2>2. records' \in Seq([id : Nat, text : Texts])
    BY <1>1, <2>1
  <2> QED
    BY <1>2, <2>2 DEF ServiceInv, ServiceType
<1>4. SingleInv'
  <2>1. records'[1].text = t
    BY <1>1
  <2>2. phase' = "single" => t \notin Plain /\ t \in singles' /\ Lookup(t) = Unknown
    BY DEF Propose, Returned, Raised
  <2>3. Lookup(t)' = Lookup(t)
    BY <1>2 DEF Lookup
  <2> QED
    BY <2>1, <2>2, <2>3 DEF SingleInv
<1>5. WaitingInv'
  BY <1>1, <1>2 DEF ServiceInv, WaitingInv, GroupPhases
<1>6. CoveredInv'
  BY <1>1 DEF CoveredInv, BatchPhases, GroupPhases
<1>7. OnlyProposePoisons'
  BY <1>2 DEF ServiceInv, OnlyProposePoisons
<1>8. DecisionsFit'
  <2>1. decisions' \in {decisions, << >>} \/ (decisions' = <<Decision(t)>> /\ (t \in Plain \/ Lookup(t) = "ok"))
    BY DEF Propose, Returned, Raised
  <2> QED
    BY <2>1 DEF ServiceInv, DecisionsFit, Decision
<1>9. AnsweredInv'
  BY <1>2 DEF ServiceInv, AnsweredInv
<1> QED
  BY <1>3, <1>4, <1>5, <1>6, <1>7, <1>8, <1>9 DEF ServiceInv

LEMMA SingleAnsweredInv ==
  ASSUME ServiceInv, NEW a, SingleAnswered(a)
  PROVE  ServiceInv'
<1> DEFINE t == records[1].text
<1>1. phase = "single" /\ t \in Texts \ Plain /\ t \in singles
  BY DEF SingleAnswered, ServiceInv, SingleInv
<1>2. phase' = "idle" /\ UNCHANGED <<terms, records, queue, group, singles>>
  BY DEF SingleAnswered, Returned, Raised
<1>3. /\ \/ memory' = memory
         \/ a \in {"ok", "joined"} /\ memory' = [memory EXCEPT ![t] = a]
      /\ answered' = answered \/ (a = "ok" /\ answered' = answered \cup {t})
      /\ a = "ok" => memory' = [memory EXCEPT ![t] = a]
  BY DEF SingleAnswered, Remember
<1>4. decisions' = << >> \/ decisions' = <<[text |-> t, target |-> "ok"]>>
  BY DEF SingleAnswered, Returned, Raised
<1> HIDE DEF t
<1>5. ServiceType'
  BY <1>1, <1>2, <1>3 DEF ServiceInv, ServiceType
<1>6. SingleInv' /\ CoveredInv'
  BY <1>2 DEF SingleInv, CoveredInv, BatchPhases, GroupPhases
<1>7. WaitingInv'
  BY <1>2 DEF ServiceInv, WaitingInv, GroupPhases
<1>8. OnlyProposePoisons'
  BY <1>1, <1>2, <1>3 DEF ServiceInv, ServiceType, OnlyProposePoisons
<1>9. DecisionsFit'
  BY <1>1, <1>4 DEF DecisionsFit
<1>10. AnsweredInv'
  BY <1>1, <1>3, ServiceAssumption DEF ServiceInv, ServiceType, AnsweredInv
<1> QED
  BY <1>5, <1>6, <1>7, <1>8, <1>9, <1>10 DEF ServiceInv

LEMMA ProposeBatchInv ==
  ASSUME ServiceInv, NEW b \in Batches, ProposeBatch(b)
  PROVE  ServiceInv'
<1>1. b \in Seq([id : Nat, text : Texts]) /\ records' = b
  BY ServiceAssumption DEF ProposeBatch
<1>2. UNCHANGED <<terms, memory, group, singles, answered>> /\ \A t : Lookup(t)' = Lookup(t)
  BY DEF ProposeBatch, Lookup
<1>0. AnsweredInv'
  BY <1>2 DEF ServiceInv, AnsweredInv
<1>3. CASE Inadmissible(b)
  <2>1. phase' = "idle" /\ decisions' = << >> /\ queue' = queue
    BY <1>3 DEF ProposeBatch, Raised, Returned
  <2>2. ServiceType'
    BY <1>1, <1>2, <2>1 DEF ServiceInv, ServiceType
  <2>3. SingleInv' /\ CoveredInv' /\ DecisionsFit'
    BY <2>1 DEF SingleInv, CoveredInv, BatchPhases, GroupPhases, DecisionsFit
  <2>4. WaitingInv'
    BY <2>1 DEF ServiceInv, WaitingInv, GroupPhases
  <2>5. OnlyProposePoisons'
    BY <1>2 DEF ServiceInv, OnlyProposePoisons
  <2> QED
    BY <1>0, <2>2, <2>3, <2>4, <2>5 DEF ServiceInv
<1>4. CASE ~Inadmissible(b)
  <2>1. Enqueued(b) /\ phase' = (IF Open(b) = {} THEN "collect" ELSE "batch") /\ UNCHANGED decisions
    BY <1>4, Zenon DEF ProposeBatch
  <2>2. /\ queue' \in Seq(Texts)
        /\ NoRepeats(queue')
        /\ \A i \in DOMAIN queue' : queue'[i] \notin Plain /\ Lookup(queue'[i]) = Unknown
        /\ \A k \in Open(b) : Listed(b[k].text, queue')
        /\ Open(b) = {} => queue' = << >>
    BY <1>1, <2>1, EnqueuedHolds
  <2>3. ServiceType'
    BY <1>1, <1>2, <2>2 DEF ServiceInv, ServiceType
  <2>4. SingleInv'
    BY <2>1 DEF SingleInv
  <2>5. WaitingInv'
    <3>1. (\A i \in DOMAIN queue : Lookup(queue[i]) = Unknown)'
      BY <1>2, <2>2 DEF Lookup
    <3>2. phase' \in {"collect", "batch"} /\ (phase' = "collect" => queue' = << >>)
      BY <2>1, <2>2
    <3> QED
      BY <2>2, <3>1, <3>2 DEF WaitingInv, GroupPhases
  <2>6. CoveredInv'
    <3> SUFFICES ASSUME NEW i \in DOMAIN b,
                        b[i].text \notin Plain, Lookup(b[i].text) # "ok"
                 PROVE  Listed(b[i].text, queue')
      BY <1>1, <1>2 DEF CoveredInv
    <3>1. Lookup(b[i].text) = Unknown
      BY <1>4 DEF Inadmissible
    <3>2. PICK k \in Open(b) : b[k].text = b[i].text
      BY <1>1, <3>1, OpenStands
    <3> QED
      BY <2>2, <3>2
  <2>7. OnlyProposePoisons' /\ DecisionsFit'
    BY <1>2, <2>1 DEF ServiceInv, OnlyProposePoisons, DecisionsFit
  <2> QED
    BY <1>0, <2>3, <2>4, <2>5, <2>6, <2>7 DEF ServiceInv
<1> QED
  BY <1>3, <1>4

LEMMA BatchAnsweredInv ==
  ASSUME ServiceInv, NEW answers, BatchAnswered(answers)
  PROVE  ServiceInv'
<1> DEFINE rest == SubSeq(queue, GroupSize + 1, Len(queue))
<1>1. /\ phase = "batch" /\ phase' = "take"
      /\ group' = First(GroupSize, queue) /\ queue' = rest
  BY DEF BatchAnswered
<1>2. UNCHANGED <<terms, memory, records, decisions, singles, answered>> /\ \A t : Lookup(t)' = Lookup(t)
  BY DEF BatchAnswered, Lookup
<1>3. queue \in Seq(Texts) /\ GroupSize \in Nat \ {0}
  BY ServiceAssumption DEF ServiceInv, ServiceType
<1>4. /\ group' \in Seq(Texts) /\ queue' \in Seq(Texts)
      /\ \A i \in DOMAIN group' : i \in DOMAIN queue /\ i <= GroupSize /\ group'[i] = queue[i]
      /\ \A i \in DOMAIN queue' : i + GroupSize \in DOMAIN queue /\ queue'[i] = queue[i + GroupSize]
      /\ \A t : Listed(t, queue) => Listed(t, group') \/ Listed(t, queue')
  BY <1>1, <1>3, GroupSplits
<1> HIDE DEF rest
<1>5. /\ NoRepeats(queue)
      /\ \A i \in DOMAIN queue : Lookup(queue[i]) = Unknown
  BY <1>1 DEF ServiceInv, WaitingInv
<1>6. ServiceType'
  BY <1>2, <1>4 DEF ServiceInv, ServiceType
<1>7. SingleInv' /\ AnsweredInv' /\ OnlyProposePoisons' /\ DecisionsFit'
  BY <1>1, <1>2 DEF ServiceInv, SingleInv, AnsweredInv, OnlyProposePoisons, DecisionsFit
<1>8. WaitingInv'
  <2>1. DOMAIN group' \subseteq Nat \ {0} /\ DOMAIN queue' \subseteq Nat \ {0}
    BY <1>4, LenProperties
  <2>2. NoRepeats(group')
    BY <1>4, <1>5 DEF NoRepeats
  <2>3. NoRepeats(queue')
    <3> SUFFICES ASSUME NEW i \in DOMAIN queue', NEW j \in DOMAIN queue', i # j
                 PROVE  queue'[i] # queue'[j]
      BY DEF NoRepeats
    <3>1. i + GroupSize # j + GroupSize
      BY <1>3, <2>1
    <3> QED
      BY <1>4, <1>5, <3>1 DEF NoRepeats
  <2>4. Apart(group', queue')
    <3> SUFFICES ASSUME NEW i \in DOMAIN group', NEW j \in DOMAIN queue'
                 PROVE  group'[i] # queue'[j]
      BY DEF Apart
    <3>1. i # j + GroupSize
      BY <1>3, <1>4, <2>1
    <3> QED
      BY <1>4, <1>5, <3>1 DEF NoRepeats
  <2>5. (\A i \in DOMAIN queue : Lookup(queue[i]) = Unknown)'
    BY <1>2, <1>4, <1>5
  <2>6. (\A i \in DOMAIN group : Lookup(group[i]) = Unknown)'
    BY <1>2, <1>4, <1>5
  <2> QED
    BY <1>1, <2>2, <2>3, <2>4, <2>5, <2>6 DEF WaitingInv
<1>9. CoveredInv'
  <2> SUFFICES ASSUME NEW i \in DOMAIN records,
                      records[i].text \notin Plain, Lookup(records[i].text) # "ok"
               PROVE  Listed(records[i].text, queue') \/ Listed(records[i].text, group')
    BY <1>1, <1>2 DEF CoveredInv, GroupPhases
  <2>1. Listed(records[i].text, queue)
    BY <1>1 DEF ServiceInv, CoveredInv, BatchPhases, GroupPhases
  <2> QED
    BY <1>4, <2>1
<1> QED
  BY <1>6, <1>7, <1>8, <1>9 DEF ServiceInv

\* An answer for the first text of the group is taken, or the call raises.
LEMMA AcceptInv ==
  ASSUME ServiceInv, phase \in GroupPhases, group # << >>, NEW a, Accept(a),
         UNCHANGED <<terms, records, queue, singles>>
  PROVE  ServiceInv'
<1>0. PICK t : t = Head(group)
  OBVIOUS
<1>1. group \in Seq(Texts) /\ memory \in [Texts -> {"ok", "joined", Unknown}]
  BY DEF ServiceInv, ServiceType
<1>2. /\ t \in Texts /\ Tail(group) \in Seq(Texts) /\ Len(Tail(group)) = Len(group) - 1
      /\ \A i \in 1..Len(Tail(group)) : Tail(group)[i] = group[i + 1]
  BY <1>0, <1>1, HeadTailProperties
<1>3. /\ Len(group) \in Nat \ {0} /\ DOMAIN group = 1..Len(group)
      /\ DOMAIN Tail(group) = 1..Len(Tail(group)) /\ t = group[1]
  BY <1>0, <1>1, <1>2, LenProperties, EmptySeq
<1>4. CASE a # "ok"
  <2>1. phase' = "idle" /\ decisions' = << >> /\ UNCHANGED <<memory, group, answered>>
    BY <1>4 DEF Accept, Raised, Returned
  <2>2. ServiceType' /\ AnsweredInv' /\ OnlyProposePoisons'
    BY <2>1 DEF ServiceInv, ServiceType, AnsweredInv, OnlyProposePoisons
  <2>3. SingleInv' /\ CoveredInv' /\ DecisionsFit'
    BY <2>1 DEF SingleInv, CoveredInv, BatchPhases, GroupPhases, DecisionsFit
  <2>4. WaitingInv'
    BY <2>1 DEF ServiceInv, WaitingInv, GroupPhases
  <2> QED
    BY <2>2, <2>3, <2>4 DEF ServiceInv
<1>5. CASE a = "ok"
  <2>1. /\ memory' = [memory EXCEPT ![t] = "ok"] /\ group' = Tail(group)
        /\ phase' = "take" /\ decisions' = decisions /\ answered' = answered \cup {t}
    BY <1>0, <1>5 DEF Accept, Remember
  <2>2. /\ NoRepeats(group) /\ NoRepeats(queue) /\ Apart(group, queue)
        /\ \A i \in DOMAIN group : Lookup(group[i]) = Unknown
        /\ \A i \in DOMAIN queue : Lookup(queue[i]) = Unknown
    BY DEF ServiceInv, WaitingInv, GroupPhases
  <2>3. 1 \in DOMAIN group /\ Lookup(t) = Unknown
    BY <1>3, <2>2
  <2>4. Lookup(t)' = "ok"
    BY <1>1, <1>2, <2>1, <2>3 DEF Lookup
  <2>5. \A u \in Texts : u # t => Lookup(u)' = Lookup(u)
    BY <1>1, <2>1 DEF Lookup
  <2>6. /\ \A i \in DOMAIN queue : queue[i] \in Texts
        /\ \A i \in DOMAIN records : records[i].text \in Texts
    <3>1. queue \in Seq(Texts) /\ records \in Seq([id : Nat, text : Texts])
      BY DEF ServiceInv, ServiceType
    <3>2. \A i \in DOMAIN records : records[i] \in [id : Nat, text : Texts]
      BY <3>1, LenProperties
    <3>3. \A i \in DOMAIN queue : queue[i] \in Texts
      BY <3>1, LenProperties
    <3> QED
      BY <3>2, <3>3
  <2>7. \A i \in DOMAIN queue : queue[i] # t
    BY <1>3, <2>2, <2>3 DEF Apart
  <2>8. \A i \in DOMAIN group' : i + 1 \in DOMAIN group /\ i + 1 # 1 /\ group'[i] = group[i + 1]
    <3> SUFFICES ASSUME NEW i \in 1..Len(Tail(group))
                 PROVE  i + 1 \in 1..Len(group) /\ i + 1 # 1 /\ group'[i] = group[i + 1]
      BY <1>3, <2>1
    <3> QED
      BY <1>2, <1>3, <2>1
  <2>9. \A i \in DOMAIN group' : group'[i] \in Texts /\ group'[i] # t
    <3>1. \A i \in DOMAIN group : group[i] \in Texts
      BY <1>1, LenProperties
    <3> QED
      BY <1>3, <2>2, <2>3, <2>8, <3>1 DEF NoRepeats
  <2>10. ServiceType'
    BY <1>1, <1>2, <2>1 DEF ServiceInv, ServiceType
  <2>11. SingleInv' /\ DecisionsFit'
    BY <2>1 DEF ServiceInv, SingleInv, DecisionsFit
  <2>12. OnlyProposePoisons'
    BY <1>1, <1>2, <2>1 DEF ServiceInv, OnlyProposePoisons
  <2>15. AnsweredInv'
    BY <1>1, <1>2, <2>1, ServiceAssumption DEF ServiceInv, AnsweredInv
  <2>13. WaitingInv'
    <3>1. NoRepeats(group')
      <4> SUFFICES ASSUME NEW i \in DOMAIN group', NEW j \in DOMAIN group', i # j
                   PROVE  group'[i] # group'[j]
        BY DEF NoRepeats
      <4>1. i \in Nat /\ j \in Nat
        BY <1>2, <2>1, LenProperties
      <4>2. i + 1 # j + 1
        BY <4>1
      <4> QED
        BY <2>2, <2>8, <4>2 DEF NoRepeats
    <3>2. Apart(group', queue)
      BY <2>2, <2>8 DEF Apart
    <3>3. (\A i \in DOMAIN queue : Lookup(queue[i]) = Unknown)'
      BY <2>2, <2>5, <2>6, <2>7
    <3>4. (\A i \in DOMAIN group : Lookup(group[i]) = Unknown)'
      BY <2>2, <2>5, <2>8, <2>9
    <3> QED
      BY <2>1, <2>2, <3>1, <3>2, <3>3, <3>4 DEF WaitingInv
  <2>14. CoveredInv'
    <3> SUFFICES ASSUME NEW i \in DOMAIN records,
                        records[i].text \notin Plain, ~(Lookup(records[i].text) = "ok")'
                 PROVE  Listed(records[i].text, queue) \/ Listed(records[i].text, group')
      BY <2>1 DEF CoveredInv, GroupPhases
    <3>1. records[i].text # t /\ Lookup(records[i].text) # "ok"
      BY <2>4, <2>5, <2>6
    <3>2. Listed(records[i].text, queue) \/ Listed(records[i].text, group)
      BY <3>1 DEF ServiceInv, CoveredInv, BatchPhases
    <3>3. ASSUME Listed(records[i].text, group)
          PROVE  Listed(records[i].text, group')
      <4>1. PICK j \in 1..Len(group) : group[j] = records[i].text
        BY <1>3, <3>3 DEF Listed
      <4>2. j # 1
        BY <1>3, <3>1, <4>1
      <4>3. j - 1 \in 1..Len(Tail(group)) /\ Tail(group)[j - 1] = group[j]
        BY <1>2, <1>3, <4>2
      <4> QED
        BY <1>3, <2>1, <4>1, <4>3 DEF Listed
    <3> QED
      BY <3>2, <3>3
  <2> QED
    BY <2>10, <2>11, <2>12, <2>13, <2>14, <2>15 DEF ServiceInv
<1> QED
  BY <1>4, <1>5

\* A step between the phases of a group that touches neither a text nor a target.
LEMMA GroupPhaseInv ==
  ASSUME ServiceInv, phase \in GroupPhases, phase' \in GroupPhases, group # << >>,
         UNCHANGED <<terms, memory, records, queue, group, decisions, singles, answered>>
  PROVE  ServiceInv'
<1>1. \A t : Lookup(t)' = Lookup(t)
  BY DEF Lookup
<1>2. ServiceType' /\ SingleInv' /\ AnsweredInv' /\ OnlyProposePoisons' /\ DecisionsFit'
  BY DEF ServiceInv, ServiceType, SingleInv, AnsweredInv, OnlyProposePoisons, DecisionsFit, GroupPhases
<1>3. WaitingInv'
  BY <1>1 DEF ServiceInv, WaitingInv, GroupPhases
<1>4. CoveredInv'
  BY <1>1 DEF ServiceInv, CoveredInv, GroupPhases, BatchPhases
<1> QED
  BY <1>2, <1>3, <1>4 DEF ServiceInv

\* A call that raises leaves what it remembers and what is stale.
LEMMA RaisedInv ==
  ASSUME ServiceInv, Raised, UNCHANGED <<terms, memory, records, queue, group, singles, answered>>
  PROVE  ServiceInv'
<1>1. phase' = "idle" /\ decisions' = << >>
  BY DEF Raised, Returned
<1> QED
  BY <1>1 DEF ServiceInv, ServiceType, SingleInv, AnsweredInv, WaitingInv, CoveredInv, OnlyProposePoisons,
              DecisionsFit, GroupPhases, BatchPhases

LEMMA TakeInv ==
  ASSUME ServiceInv, Take
  PROVE  ServiceInv'
<1>1. phase = "take" /\ UNCHANGED <<terms, records, queue, singles>>
  BY DEF Take
<1>2. CASE group = << >>
  <2>1. phase' = (IF queue = << >> THEN "collect" ELSE "batch") /\ UNCHANGED <<memory, group, decisions, answered>>
    BY <1>2 DEF Take
  <2>2. \A t : Lookup(t)' = Lookup(t)
    BY <1>1, <2>1 DEF Lookup
  <2>3. ServiceType' /\ SingleInv' /\ AnsweredInv' /\ OnlyProposePoisons' /\ DecisionsFit'
    BY <1>1, <2>1 DEF ServiceInv, ServiceType, SingleInv, AnsweredInv, OnlyProposePoisons, DecisionsFit
  <2>4. WaitingInv'
    BY <1>1, <2>1, <2>2 DEF ServiceInv, WaitingInv, GroupPhases
  <2>5. CoveredInv'
    BY <1>1, <1>2, <2>1, <2>2 DEF ServiceInv, CoveredInv, GroupPhases, BatchPhases, Listed
  <2> QED
    BY <2>3, <2>4, <2>5 DEF ServiceInv
<1>3. CASE group # << >> /\ reply[Head(group)] = "markers"
  BY <1>1, <1>3, GroupPhaseInv DEF Take, GroupPhases
<1>4. CASE group # << >> /\ reply[Head(group)] # "markers"
  BY <1>1, <1>4, AcceptInv DEF Take, GroupPhases
<1> QED
  BY <1>2, <1>3, <1>4

LEMMA RetryAnsweredInv ==
  ASSUME ServiceInv, NEW a, RetryAnswered(a)
  PROVE  ServiceInv'
<1>1. phase = "retry" /\ group # << >> /\ UNCHANGED <<terms, records, queue, singles>>
  BY DEF RetryAnswered, ServiceInv, WaitingInv
<1>2. CASE a = "markers"
  BY <1>1, <1>2, GroupPhaseInv DEF RetryAnswered, GroupPhases
<1>3. CASE a # "markers"
  BY <1>1, <1>3, AcceptInv DEF RetryAnswered, GroupPhases
<1> QED
  BY <1>2, <1>3

LEMMA SegmentAnsweredInv ==
  ASSUME ServiceInv, NEW a, SegmentAnswered(a)
  PROVE  ServiceInv'
<1>1. phase = "segment" /\ group # << >> /\ UNCHANGED <<terms, records, queue, singles>>
  BY DEF SegmentAnswered, ServiceInv, WaitingInv
<1>2. CASE a \in {"cjk", "markers"}
  BY <1>1, <1>2, RaisedInv DEF SegmentAnswered
<1>3. CASE a \notin {"cjk", "markers"} /\ segments > 1
  BY <1>1, <1>3, GroupPhaseInv DEF SegmentAnswered, GroupPhases
<1>4. CASE a \notin {"cjk", "markers"} /\ ~(segments > 1)
  BY <1>1, <1>4, AcceptInv DEF SegmentAnswered, GroupPhases
<1> QED
  BY <1>2, <1>3, <1>4

LEMMA CollectInv ==
  ASSUME ServiceInv, Collect
  PROVE  ServiceInv'
<1>1. /\ phase = "collect" /\ phase' = "idle"
      /\ decisions' = [i \in DOMAIN records |-> Decision(records[i].text)]
      /\ UNCHANGED <<terms, memory, records, queue, group, singles, answered>>
  BY DEF Collect, Returned
<1>2. \A i \in DOMAIN records : records[i].text \in Plain \/ Lookup(records[i].text) = "ok"
  <2>1. queue = << >> /\ phase \notin GroupPhases /\ phase \in BatchPhases
    BY <1>1 DEF ServiceInv, WaitingInv, GroupPhases, BatchPhases
  <2> QED
    BY <2>1 DEF ServiceInv, CoveredInv, Listed
<1>3. DecisionsFit'
  BY <1>1, <1>2 DEF DecisionsFit, Decision
<1>4. ServiceType' /\ SingleInv' /\ AnsweredInv' /\ WaitingInv' /\ CoveredInv' /\ OnlyProposePoisons'
  BY <1>1 DEF ServiceInv, ServiceType, SingleInv, AnsweredInv, WaitingInv, CoveredInv,
              OnlyProposePoisons, GroupPhases, BatchPhases
<1> QED
  BY <1>3, <1>4 DEF ServiceInv

LEMMA InitService == StackInit => ServiceInv
<1> SUFFICES ASSUME StackInit
             PROVE  ServiceInv
  OBVIOUS
<1>1. /\ memory = [t \in Texts |-> Unknown] /\ phase = "idle" /\ records = << >>
      /\ queue = << >> /\ group = << >> /\ decisions = << >> /\ singles = {} /\ answered = {}
  BY DEF StackInit, ServiceInit
<1> QED
  BY <1>1 DEF ServiceInv, ServiceType, SingleInv, AnsweredInv, WaitingInv, CoveredInv, OnlyProposePoisons,
              DecisionsFit, GroupPhases, BatchPhases, NoRepeats

LEMMA ServiceInvStep ==
  ASSUME ServiceInv, [StackNext]_allVars
  PROVE  ServiceInv'
<1>1. CASE Calls
  BY <1>1, ProposeInv, ProposeBatchInv DEF Calls
<1>2. CASE Take
  BY <1>2, TakeInv
<1>3. CASE Collect
  BY <1>3, CollectInv
<1>4. CASE ProviderAnswers
  BY <1>4, SingleAnsweredInv, RetryAnsweredInv, SegmentAnsweredInv, BatchAnsweredInv, Zenon
     DEF ProviderAnswers
<1>5. CASE ProviderRaises
  BY <1>5, RaisedInv DEF ProviderRaises
<1>6. CASE UNCHANGED service
  <2>1. UNCHANGED <<terms, memory, phase, records, queue, group, decisions, singles, answered>>
    BY <1>6, Zenon DEF service
  <2> QED
    BY <2>1 DEF ServiceInv, ServiceType, SingleInv, AnsweredInv, WaitingInv, CoveredInv, OnlyProposePoisons,
                DecisionsFit, GroupPhases, BatchPhases, Lookup
<1> QED
  BY <1>1, <1>2, <1>3, <1>4, <1>5, <1>6, ServiceStep, Zenon DEF ServiceActions

LEMMA ServiceInductive == StackSpec => []ServiceInv
<1>1. ServiceInv /\ [StackNext]_allVars => ServiceInv'
  BY ServiceInvStep
<1> QED
  BY <1>1, InitService, PTL DEF StackSpec

(***************************************************************************)
(* Whatever the glossary, the memory and the provider say, propose and      *)
(* propose_batch return only targets that fit their texts.                  *)
(***************************************************************************)
THEOREM ReturnedTargetsFit == StackSpec => []DecisionsFit
<1>1. ServiceInv => DecisionsFit
  BY DEF ServiceInv
<1> QED
  BY <1>1, ServiceInductive, PTL

(***************************************************************************)
(* Only propose leaves a target in the memory that does not fit its text;   *)
(* propose_batch, whose every answer is validated first, never does.        *)
(***************************************************************************)
THEOREM BatchNeverPoisons == StackSpec => []OnlyProposePoisons
<1>1. ServiceInv => OnlyProposePoisons
  BY DEF ServiceInv
<1> QED
  BY <1>1, ServiceInductive, PTL

(***************************************************************************)
(* A text of which an answer was accepted is never asked for again, by       *)
(* propose or propose_batch, whatever failed since; a batch holds no text      *)
(* twice, however often it occurs among the records.                          *)
(***************************************************************************)
THEOREM EachTextAskedOnce == StackSpec => []NothingAskedTwice
<1>1. ASSUME ServiceInv
      PROVE  NothingAskedTwice
  <2>1. \A i, j \in DOMAIN queue : i # j => queue[i] # queue[j]
    BY <1>1 DEF ServiceInv, WaitingInv, NoRepeats
  <2>2. SUFFICES ASSUME NEW t \in AskedFor
                 PROVE  t \notin answered
    BY <2>1 DEF NothingAskedTwice
  <2>3. Lookup(t) = Unknown
    <3>1. CASE phase = "single"
      BY <1>1, <3>1 DEF AskedFor, ServiceInv, SingleInv
    <3>2. CASE phase = "batch"
      <4>1. First(GroupSize, queue) \in Seq(Texts) /\ Contains(First(GroupSize, queue), t)
        BY <1>1, <2>2, <3>2, GroupSplits, ServiceAssumption DEF AskedFor, ServiceInv, ServiceType
      <4>2. PICK i \in DOMAIN First(GroupSize, queue) : First(GroupSize, queue)[i] = t
        BY <4>1, LenProperties DEF Contains
      <4>3. i \in DOMAIN queue /\ queue[i] = t
        BY <1>1, <4>2, GroupSplits, ServiceAssumption DEF ServiceInv, ServiceType
      <4> QED
        BY <1>1, <3>2, <4>3 DEF ServiceInv, WaitingInv
    <3>3. CASE phase \in {"retry", "segment"}
      <4>1. group \in Seq(Texts) /\ group # << >> /\ t = Head(group)
        BY <1>1, <2>2, <3>3 DEF AskedFor, ServiceInv, ServiceType, WaitingInv
      <4>2. 1 \in DOMAIN group /\ t = group[1]
        BY <4>1, HeadTailProperties, LenProperties, EmptySeq
      <4> QED
        BY <1>1, <3>3, <4>2 DEF ServiceInv, WaitingInv, GroupPhases
    <3> QED
      BY <2>2, <3>1, <3>2, <3>3 DEF AskedFor
  <2> QED
    BY <1>1, <2>3 DEF ServiceInv, AnsweredInv, Lookup
<1> QED
  BY <1>1, ServiceInductive, PTL

-----------------------------------------------------------------------------
(* The resumable scripts, by themselves and in the stack. *)

USE SizeAssumption, TargetAssumption, KindAssumption, BatchAssumption, BoundAssumption,
  NullAssumption

Running == {"write", "replace", "batch", "ask", "merge"}

\* Counters stay within what the next comparison stops.
Counting ==
  /\ attempt <= Attempts
  /\ pc \in {"ask", "merge"} => runBatches < MaxBatches
  /\ kind = "local" /\ pc \in Running => enriched # NULL

\* What a run knows holds all the file holds; what is written is what it knows.
Grown == pc \in Running => \A s \in Sources : Stored[s] # NULL => trans[s] = Stored[s]
Written ==
  /\ pc = "replace" => temp # NULL /\ temp.trans = trans
  /\ pc \in {"batch", "ask", "merge"} => file # NULL /\ file.trans = trans

\* Only untranslated sources are open, and only of open ones there are results.
OnlyOpen ==
  /\ pc \in Running => \A s \in todo : trans[s] = NULL
  /\ pc \in {"ask", "merge"} =>
       batch \subseteq todo /\ \A s \in Sources : results[s] # NULL => s \in batch
  /\ pc = "ask" => retry \subseteq batch /\ \A s \in retry : results[s] = NULL

TypeInv == TypeOK /\ Counting
IInv == TypeInv /\ Grown /\ Written /\ OnlyOpen

(***************************************************************************)
(* Only fit terms are taken from the glossary and the seed maps.            *)
(***************************************************************************)
LEMMA FitTermsType ==
  ASSUME TypeOK
  PROVE  /\ FitTerms \in [Sources -> Valid \cup {NULL}]
         /\ \A s \in Sources : Term(s) \in Valid \cup {NULL}
  BY DEF FitTerms, Term, Fit

(***************************************************************************)
(* What an accepted run starts from is fit, and holds what the file holds.   *)
(***************************************************************************)
LEMMA KnownType ==
  ASSUME TypeOK, ~Refusable
  PROVE  /\ Known \in [Sources -> Valid \cup {NULL}]
         /\ \A s \in Sources : Stored[s] # NULL => Known[s] = Stored[s]
         /\ kind = "local" => enriched # NULL
<1>1. kind = "local" => enriched # NULL
  BY DEF Refusable, Unreadable, Inventory
<1>2. ASSUME NEW s \in Sources
      PROVE  Seeds(s) \subseteq Valid
  <2>1. Term(s) \in Valid \cup {NULL}
    BY FitTermsType
  <2>2. CASE kind = "local"
    BY <1>1, <2>2 DEF TypeOK, Seeds
  <2>3. CASE kind # "local"
    <3>1. reuse[s] # NULL => reuse[s] \in Valid
      BY <2>3 DEF Refusable, Unreadable, Fit
    <3> QED
      BY <2>1, <2>3, <3>1 DEF Seeds
  <2> QED
    BY <2>2, <2>3
<1>3. ASSUME NEW s \in Sources
      PROVE  Stored[s] \in Valid \cup {NULL}
  BY DEF TypeOK, Stored, FileType, Nothing
<1>4. ASSUME NEW s \in Sources, Stored[s] # NULL, Seeds(s) # {}
      PROVE  (CHOOSE t \in Seeds(s) : TRUE) = Stored[s]
  BY <1>4 DEF Refusable, Superseded
<1> QED
  BY <1>1, <1>2, <1>3, <1>4 DEF Known

(***************************************************************************)
(* What is written has the type of the file.                                *)
(***************************************************************************)
LEMMA PayloadType ==
  ASSUME TypeInv, pc = "write"
  PROVE  Payload \in FileType /\ Payload.trans = trans
<1>1. Inventory \in TargetMaps
  BY DEF TypeInv, TypeOK, Counting, Running, Inventory, TargetMaps
<1> QED
  BY <1>1 DEF TypeInv, TypeOK, Payload, FileType

LEMMA InitType == Init => TypeInv
<1>1. Nothing \in [Sources -> Valid \cup {NULL}]
  BY DEF Nothing
<1>2. ASSUME Init
      PROVE  TypeOK
  <2>1. kind \in Kinds /\ reuse \in TargetMaps /\ glossary \in TargetMaps
    BY <1>2 DEF Init
  <2>2. trans \in [Sources -> Valid \cup {NULL}] /\ results \in [Sources -> Valid \cup {NULL}]
    BY <1>1, <1>2 DEF Init
  <2>3. enriched = NULL /\ file = NULL /\ temp = NULL /\ pc = "idle" /\ total = 0 /\ todo = {}
          /\ batch = {} /\ retry = {} /\ attempt = 1 /\ runBatches = 0 /\ edits = 0 /\ faults = 0
          /\ refused = FALSE /\ edited = TRUE
    BY <1>2 DEF Init
  <2>4. enriched \in [Sources -> Valid \cup {NULL}] \cup {NULL} /\ file \in FileType \cup {NULL}
          /\ temp \in FileType \cup {NULL}
    BY <2>3, Zenon
  <2>5. total \in Nat /\ attempt \in 1..3 /\ runBatches \in 0..MaxBatches
          /\ edits \in 0..MaxEdits /\ faults \in 0..MaxFaults
    BY <2>3
  <2>6. todo \subseteq Sources /\ batch \subseteq Sources /\ retry \subseteq Sources
    BY <2>3
  <2>7. refused \in BOOLEAN /\ edited \in BOOLEAN
    BY <2>3
  <2> QED
    BY <2>1, <2>2, <2>3, <2>4, <2>5, <2>6, <2>7, Zenon DEF TypeOK
<1>3. Init => Counting
  BY DEF Init, Counting, Attempts, Running
<1> QED
  BY <1>2, <1>3 DEF TypeInv

(***************************************************************************)
(* Every step keeps the type.                                               *)
(***************************************************************************)
LEMMA AnsweredType ==
  ASSUME TypeInv, NEW answers \in [retry -> Targets], Answered(answers)
  PROVE  TypeInv'
<1> DEFINE unfit == {s \in retry : ~Fit(Clean(answers[s]))}
<1>1. results' \in [Sources -> Valid \cup {NULL}]
  BY DEF Answered, TypeInv, TypeOK, Fit
<1>2. retry' \subseteq Sources /\ pc' \in {"merge", "idle", "ask"}
  BY DEF Answered, TypeInv, TypeOK
<1>3. Attempts' = Attempts /\ Attempts \in 1..3
  BY DEF Answered, inputs, Attempts
<1>4. attempt' \in 1..3 /\ attempt' <= Attempts
  BY <1>3 DEF Answered, TypeInv, TypeOK, Counting, Attempts
<1>5. faults' \in 0..MaxFaults
  BY DEF Answered, TypeInv, TypeOK, Spend
<1> QED
  BY <1>1, <1>2, <1>3, <1>4, <1>5
     DEF Answered, TypeInv, TypeOK, Counting, Running, inputs, files, FileType

LEMMA StepType ==
  ASSUME TypeInv, [Next]_vars
  PROVE  TypeInv'
<1>1. CASE Start
  BY <1>1 DEF Start, TypeInv, TypeOK, Counting, Attempts, Running, FileType, inputs, files, progress
<1>2. CASE Enrich
  BY <1>2, FitTermsType
     DEF Enrich, TypeInv, TypeOK, Counting, Attempts, Running, FileType, inputs, progress
<1>3. CASE LoadRefused
  BY <1>3 DEF LoadRefused, TypeInv, TypeOK, Counting, Attempts, Running, FileType, inputs, files, progress
<1>4. CASE Load
  <2>1. total' \in Nat
    BY <1>4 DEF Load, TypeInv, TypeOK, FileType
  <2>2. trans' \in [Sources -> Valid \cup {NULL}] /\ (kind = "local" => enriched # NULL)
    BY <1>4, KnownType DEF Load, TypeInv
  <2>5. edited' \in BOOLEAN /\ refused' \in BOOLEAN
    BY <1>4, Zenon DEF Load
  <2>3. TypeOK'
    BY <1>4, <2>1, <2>2, <2>5 DEF Load, TypeInv, TypeOK, FileType, inputs, files
  <2>4. Counting'
    BY <1>4, <2>2 DEF Load, TypeInv, Counting, Attempts, Running, inputs, files
  <2> QED
    BY <2>3, <2>4 DEF TypeInv
<1>5. CASE WriteTemp
  BY <1>5, PayloadType
     DEF WriteTemp, TypeInv, TypeOK, Counting, Attempts, Running, inputs, progress, FileType
<1>6. CASE Replace
  BY <1>6 DEF Replace, TypeInv, TypeOK, Counting, Attempts, Running, inputs, progress, FileType
<1>7. CASE NextBatch
  BY <1>7 DEF NextBatch, FirstBatch, TypeInv, TypeOK, Counting, Attempts, Running, Nothing, inputs, files, FileType
<1>8. CASE Finish
  BY <1>8 DEF Finish, TypeInv, TypeOK, Counting, Attempts, Running, FileType, inputs, files, progress
<1>9. CASE Merge
  BY <1>9 DEF Merge, TypeInv, TypeOK, Counting, Attempts, Running, FileType, inputs, files, progress
<1>10. CASE Ask
  BY <1>10, AnsweredType DEF Ask
<1>11. CASE ProviderFails
  BY <1>11 DEF ProviderFails, TypeInv, TypeOK, Counting, Attempts, Running, FileType, inputs, files, progress
<1>12. CASE WriteFails
  BY <1>12 DEF WriteFails, Spend, TypeInv, TypeOK, Counting, Attempts, Running, FileType, inputs, progress
<1>13. CASE Kill
  BY <1>13 DEF Kill, Spend, TypeInv, TypeOK, Counting, Attempts, Running, FileType, inputs, progress
<1>14. CASE Edit
  BY <1>14 DEF Edit, TypeInv, TypeOK, Counting, Attempts, Running, FileType, files, progress
<1>15. CASE UNCHANGED vars
  BY <1>15 DEF vars, TypeInv, TypeOK, Counting, Attempts, Running, FileType, inputs, files, progress
<1> QED
  BY <1>1, <1>2, <1>3, <1>4, <1>5, <1>6, <1>7, <1>8, <1>9, <1>10, <1>11, <1>12, <1>13, <1>14,
     <1>15 DEF Next, Steps

(***************************************************************************)
(* Every variable has its type, and memory and disk hold only fit targets.   *)
(***************************************************************************)
THEOREM TypeCorrect == Spec => []TypeOK
<1>1. TypeInv => TypeOK
  BY DEF TypeInv
<1> QED
  BY <1>1, InitType, StepType, PTL DEF Spec

(***************************************************************************)
(* A run holds all the file holds, writes what it holds, and asks only for     *)
(* what is missing.                                                         *)
(***************************************************************************)
LEMMA InitInv == Init => IInv
<1>1. Init => Grown /\ Written /\ OnlyOpen
  BY DEF Init, Grown, Written, OnlyOpen, Running
<1> QED
  BY <1>1, InitType DEF IInv

LEMMA StepInv ==
  ASSUME IInv, [Next]_vars
  PROVE  IInv'
<1> USE DEF IInv
<1>0. TypeInv'
  BY StepType
<1>a. ASSUME pc' = "idle" \/ pc' = "enrich" \/ pc' = "load"
      PROVE  Grown' /\ Written' /\ OnlyOpen'
  BY <1>a DEF Grown, Written, OnlyOpen, Running
<1>1. CASE Start
  BY <1>1, <1>0, <1>a DEF Start
<1>2. CASE Enrich
  BY <1>2, <1>0, <1>a DEF Enrich
<1>3. CASE LoadRefused
  BY <1>3, <1>0, <1>a DEF LoadRefused
<1>4. CASE Load
  <2>1. Grown'
    BY <1>4, KnownType DEF Load, Grown, TypeInv, Stored, files, Nothing
  <2>2. Written' /\ OnlyOpen'
    BY <1>4 DEF Load, Written, OnlyOpen, Running
  <2> QED
    BY <1>0, <2>1, <2>2
<1>5. CASE WriteTemp
  <2>1. Payload \in FileType /\ Payload.trans = trans
    BY <1>5, PayloadType DEF WriteTemp
  <2>2. Payload # NULL
    BY <2>1
  <2> QED
    BY <1>0, <1>5, <2>1, <2>2 DEF WriteTemp, Grown, Written, OnlyOpen, Running, Stored, progress
<1>6. CASE Replace
  BY <1>0, <1>6 DEF Replace, Grown, Written, OnlyOpen, Running, Stored, progress
<1>7. CASE NextBatch
  <2>1. OnlyOpen'
    <3>1. FirstBatch \subseteq todo
      BY Zenon DEF FirstBatch
    <3>2. todo' = todo /\ trans' = trans /\ pc = "batch"
      BY <1>7 DEF NextBatch
    <3>3. batch' \subseteq todo' /\ retry' \subseteq batch'
      BY <1>7, <3>1, <3>2 DEF NextBatch
    <3>4. \A s \in todo' : trans'[s] = NULL
      BY <3>2 DEF OnlyOpen, Running
    <3>5. retry' \subseteq Sources
      BY <1>0 DEF TypeInv, TypeOK
    <3>6. \A s \in Sources : results'[s] = NULL
      BY <1>7 DEF NextBatch, Nothing
    <3> QED
      BY <3>3, <3>4, <3>5, <3>6 DEF OnlyOpen
  <2>2. Grown' /\ Written'
    BY <1>7 DEF NextBatch, Grown, Written, Running, Stored, files
  <2> QED
    BY <1>0, <2>1, <2>2
<1>8. CASE Finish
  BY <1>8, <1>0, <1>a DEF Finish
<1>9. CASE Merge
  <2>1. CASE pc' = "idle"
    BY <1>0, <2>1, <1>a
  <2>2. CASE pc' # "idle"
    <3>1. /\ pc = "merge" /\ pc' = "write" /\ todo' = todo \ batch /\ file' = file
          /\ trans' = [q \in Sources |-> IF results[q] # NULL THEN results[q] ELSE trans[q]]
      BY <1>9, <2>2 DEF Merge, files
    <3>2. ASSUME NEW s \in Sources, Stored[s] # NULL
          PROVE  trans'[s] = Stored[s]
      <4>1. trans[s] = Stored[s] /\ trans[s] \in Valid
        BY <3>1, <3>2 DEF Grown, Running, TypeInv, TypeOK
      <4>2. s \notin todo
        BY <4>1, <3>1, <3>2 DEF OnlyOpen, Running
      <4>3. results[s] = NULL
        BY <4>2, <3>1 DEF OnlyOpen
      <4> QED
        BY <4>1, <4>3, <3>1
    <3>3. ASSUME NEW s \in todo'
          PROVE  trans'[s] = NULL
      <4>1. s \in todo /\ s \notin batch /\ s \in Sources
        BY <3>1 DEF TypeInv, TypeOK
      <4> QED
        BY <4>1, <3>1 DEF OnlyOpen, Running
    <3> QED
      BY <1>0, <3>1, <3>2, <3>3 DEF Grown, Written, OnlyOpen, Running, Stored
  <2> QED
    BY <2>1, <2>2
<1>10. CASE Ask
  <2>1. PICK answers \in [retry -> Targets] : Answered(answers)
    BY <1>10 DEF Ask
  <2>2. CASE pc' = "idle"
    BY <1>0, <2>2, <1>a
  <2>3. CASE pc' # "idle"
    <3>1. /\ pc = "ask" /\ pc' \in {"ask", "merge"} /\ UNCHANGED <<file, temp, trans, todo, batch>>
          /\ results' = [q \in Sources |->
                           IF q \in retry \ {r \in retry : ~Fit(Clean(answers[r]))}
                           THEN Clean(answers[q]) ELSE results[q]]
          /\ pc' = "ask" => retry' = {r \in retry : ~Fit(Clean(answers[r]))}
      BY <2>1, <2>3 DEF Answered, files
    <3>2. OnlyOpen'
      BY <3>1 DEF OnlyOpen, Running, TypeInv, TypeOK
    <3> QED
      BY <1>0, <3>1, <3>2 DEF Grown, Written, Running, Stored
  <2> QED
    BY <2>2, <2>3
<1>11. CASE ProviderFails
  BY <1>11, <1>0, <1>a DEF ProviderFails
<1>12. CASE WriteFails
  BY <1>12, <1>0, <1>a DEF WriteFails
<1>13. CASE Kill
  BY <1>13, <1>0, <1>a DEF Kill
<1>14. CASE Edit
  BY <1>14, <1>0 DEF Edit, Grown, Written, OnlyOpen, Stored, files, progress
<1>15. CASE UNCHANGED vars
  BY <1>15, <1>0 DEF vars, Grown, Written, OnlyOpen, Stored, files, progress
<1> QED
  BY <1>1, <1>2, <1>3, <1>4, <1>5, <1>6, <1>7, <1>8, <1>9, <1>10, <1>11, <1>12, <1>13, <1>14,
     <1>15 DEF Next, Steps

LEMMA Inductive == Spec => []IInv
  BY InitInv, StepInv, PTL DEF Spec

(***************************************************************************)
(* The model is asked only for sources the file has no translation of.       *)
(***************************************************************************)
THEOREM OnlyMissingAsked == Spec => []AskedOnlyMissing
<1>1. IInv => AskedOnlyMissing
  <2> SUFFICES ASSUME IInv, pc = "ask", NEW s \in retry
               PROVE  Stored[s] = NULL /\ results[s] = NULL
    BY DEF AskedOnlyMissing
  <2>1. s \in todo /\ s \in Sources
    BY DEF IInv, OnlyOpen, TypeInv, TypeOK
  <2> QED
    BY <2>1 DEF IInv, OnlyOpen, Written, Running, Stored
<1> QED
  BY <1>1, Inductive, PTL

(***************************************************************************)
(* Before the model is asked again, what it answered is on the disk.          *)
(***************************************************************************)
THEOREM SavedFirst == Spec => []SavedBeforeAsking
<1>1. IInv => SavedBeforeAsking
  BY DEF IInv, Written, SavedBeforeAsking
<1> QED
  BY <1>1, Inductive, PTL

(***************************************************************************)
(* The file is a ledger: whatever fails, is killed or edited, it only gains    *)
(* fit translations and never changes one.                                   *)
(***************************************************************************)
THEOREM ImplementsLedger == Spec => LedgerRefinement
<1>1. Init => Ledger!LedgerInit
  BY DEF Init, Ledger!LedgerInit, Stored, Nothing
<1>2. ASSUME IInv, IInv', [Next]_vars
      PROVE  [Ledger!LedgerNext]_Stored
  <2>1. Stored' \in [Sources -> Valid \cup {NULL}]
    BY <1>2 DEF IInv, TypeInv, TypeOK, FileType, Stored, Nothing
  <2>2. CASE file' = file
    BY <2>2 DEF Stored
  <2>3. CASE file' # file
    <3>1. Replace
      BY <1>2, <2>3 DEF Next, Steps, Start, Enrich, LoadRefused, Load, WriteTemp, NextBatch, Finish,
           Merge, Ask, Answered, ProviderFails, WriteFails, Kill, Edit, vars, files
    <3>2. \A s \in Sources : Stored[s] # NULL => Stored'[s] = Stored[s]
      BY <1>2, <3>1 DEF Replace, IInv, Grown, Written, Running, Stored
    <3> QED
      BY <2>1, <3>2 DEF Ledger!LedgerNext
  <2> QED
    BY <2>2, <2>3
<1> QED
  BY <1>1, <1>2, Inductive, PTL DEF Spec, LedgerRefinement, Ledger!LedgerSpec

(***************************************************************************)
(* Why nothing but an edit makes a restart fail: as long as no input was       *)
(* edited since a run accepted them, file, temporary file and memory agree     *)
(* with what a run makes of the inputs.                                      *)
(***************************************************************************)
Current == IF kind = "local" THEN FitTerms ELSE reuse
CurrentSeeds(s) == IF kind = "local" THEN {Term(s)} \ {NULL} ELSE {reuse[s], Term(s)} \ {NULL}

Accepted ==
  /\ kind # "local" => \A s \in Sources : reuse[s] # NULL => Fit(reuse[s])
  /\ kind = "spans" => \A s \in Sources : glossary[s] # NULL => Fit(glossary[s])
  /\ \A s \in Sources : \A t, u \in CurrentSeeds(s) : t = u
Compatible(f) == \A s \in Sources : f[s] # NULL => \A t \in CurrentSeeds(s) : t = f[s]
Agreed ==
  /\ Accepted
  /\ file # NULL => file.hash = Current /\ Compatible(file.trans)
  /\ pc = "replace" => temp.hash = Current
  /\ pc \in Running => Compatible(trans) /\ \A s \in todo : CurrentSeeds(s) = {}
  /\ kind = "local" /\ pc \in Running \cup {"load"} => enriched = FitTerms

RInv == (~edited => Agreed) /\ RefusedOnlyIfEdited

\* A run refuses nothing it can agree with.
LEMMA AgreedNotRefused ==
  ASSUME TypeOK, Agreed, pc = "load"
  PROVE  ~Refusable
<1>1. Inventory = Current
  BY DEF Agreed, Running, Inventory, Current
<1>2. ASSUME NEW s \in Sources
      PROVE  Seeds(s) = CurrentSeeds(s)
  BY DEF Agreed, Running, Seeds, CurrentSeeds, FitTerms
<1>3. ~Unreadable
  <2>1. FitTerms \in TargetMaps /\ reuse \in TargetMaps
    BY FitTermsType DEF TargetMaps, TypeOK
  <2>2. Inventory # NULL
    BY <1>1, <2>1 DEF Current
  <2> QED
    BY <2>2 DEF Unreadable, Agreed, Accepted
<1>4. ~Conflicting
  BY <1>2 DEF Conflicting, Agreed, Accepted
<1>5. ~Foreign
  <2>1. file # NULL => file \in FileType
    BY DEF TypeOK
  <2> QED
    BY <1>1, <2>1 DEF Foreign, Agreed, Stored, FileType, Fit
<1>6. ~Superseded
  BY <1>2 DEF Superseded, Agreed, Compatible, Stored, Nothing
<1> QED
  BY <1>3, <1>4, <1>5, <1>6 DEF Refusable

\* What a run accepts agrees from then on.
LEMMA LoadAgrees ==
  ASSUME TypeOK, Load, ~edited'
  PROVE  Agreed'
<1>1. /\ ~Refusable /\ trans' = Known /\ todo' = {s \in Sources : Known[s] = NULL} /\ pc' = "write"
      /\ UNCHANGED <<kind, reuse, glossary, enriched, file>>
  BY DEF Load, inputs, files
<1>2. kind = "local" => enriched = FitTerms
  BY DEF Load
<1>3. Inventory = Current
  BY <1>2 DEF Inventory, Current
<1>4. ASSUME NEW s \in Sources
      PROVE  Seeds(s) = CurrentSeeds(s) /\ CurrentSeeds(s)' = CurrentSeeds(s)
  BY <1>1, <1>2 DEF Seeds, CurrentSeeds, FitTerms, Term
<1>5. Accepted /\ Accepted'
  BY <1>1, <1>4 DEF Accepted, Refusable, Unreadable, Conflicting
<1>6. file # NULL => file.hash = Current /\ Compatible(file.trans)
  BY <1>1, <1>3, <1>4 DEF Refusable, Foreign, Superseded, Compatible, Stored
<1>7. Current' = Current /\ (kind = "local" => enriched' = FitTerms')
  BY <1>1, <1>2 DEF Current, FitTerms, Term
<1>8. Compatible(Known)
  <2> SUFFICES ASSUME NEW s \in Sources, Known[s] # NULL, NEW t \in CurrentSeeds(s)
               PROVE  t = Known[s]
    BY DEF Compatible
  <2>1. t \in Seeds(s) /\ Known[s] = CHOOSE u \in Seeds(s) : TRUE
    BY <1>4 DEF Known
  <2>2. Known[s] \in Seeds(s)
    BY <2>1
  <2> QED
    BY <1>1, <2>1, <2>2 DEF Refusable, Conflicting
<1>9. ASSUME NEW s \in Sources, Known[s] = NULL
      PROVE  CurrentSeeds(s) = {}
  <2> SUFFICES ASSUME CurrentSeeds(s) # {}
               PROVE  FALSE
    OBVIOUS
  <2>1. Seeds(s) # {} /\ NULL \notin Seeds(s)
    BY <1>4 DEF Seeds
  <2>2. Known[s] \in Seeds(s)
    BY <2>1 DEF Known
  <2> QED
    BY <1>9, <2>1, <2>2
<1>10. Compatible(trans)' /\ (file' # NULL => Compatible(file.trans)')
  <2>1. ASSUME NEW s \in Sources, trans'[s] # NULL, NEW t \in CurrentSeeds(s)'
        PROVE  t = trans'[s]
    BY <1>1, <1>4, <1>8, <2>1 DEF Compatible
  <2>2. ASSUME file' # NULL, NEW s \in Sources, file.trans'[s] # NULL, NEW t \in CurrentSeeds(s)'
        PROVE  t = file.trans'[s]
    BY <1>1, <1>4, <1>6, <2>2 DEF Compatible
  <2> QED
    BY <2>1, <2>2 DEF Compatible
<1>11. \A s \in todo' : CurrentSeeds(s)' = {}
  BY <1>1, <1>4, <1>9
<1>12. file' # NULL => file'.hash = Current'
  BY <1>1, <1>6, <1>7
<1> QED
  BY <1>1, <1>5, <1>7, <1>10, <1>11, <1>12 DEF Agreed, Running

(***************************************************************************)
(* A step that leaves the inputs alone changes nothing a run makes of them.  *)
(***************************************************************************)
LEMMA SameInputs ==
  ASSUME UNCHANGED <<kind, reuse, glossary>>
  PROVE  /\ Accepted' = Accepted /\ Current' = Current /\ FitTerms' = FitTerms
         /\ \A s \in Sources : CurrentSeeds(s)' = CurrentSeeds(s)
  BY DEF Accepted, Current, FitTerms, CurrentSeeds, Term

LEMMA SameCompatible ==
  ASSUME UNCHANGED <<kind, reuse, glossary>>
  PROVE  /\ trans' = trans /\ Compatible(trans) => Compatible(trans)'
         /\ file' = file /\ Compatible(file.trans) => Compatible(file.trans)'
         /\ file'.trans = trans /\ Compatible(trans) => Compatible(file.trans)'
         /\ todo' = todo /\ todo \subseteq Sources /\ (\A s \in todo : CurrentSeeds(s) = {})
              => \A s \in todo' : CurrentSeeds(s)' = {}
  BY SameInputs DEF Compatible

LEMMA MergeAgrees ==
  ASSUME IInv, Agreed, Merge
  PROVE  Agreed'
<1>1. UNCHANGED <<kind, reuse, glossary, enriched, file>> /\ pc = "merge" /\ pc' \in {"idle", "write"}
  BY DEF Merge, inputs, files
<1>2. CASE pc' = "idle"
  BY <1>1, <1>2, SameInputs DEF Agreed, Compatible, Running
<1>3. CASE pc' = "write"
  <2>1. /\ todo' = todo \ batch
        /\ trans' = [q \in Sources |-> IF results[q] # NULL THEN results[q] ELSE trans[q]]
    BY <1>3 DEF Merge
  <2>2. ASSUME NEW s \in Sources, trans'[s] # NULL, NEW t \in CurrentSeeds(s)
        PROVE  t = trans'[s]
    <3>1. CASE results[s] # NULL
      BY <1>1, <3>1 DEF IInv, OnlyOpen, Agreed, Running
    <3>2. CASE results[s] = NULL
      BY <1>1, <2>1, <2>2, <3>2 DEF Agreed, Compatible, Running
    <3> QED
      BY <3>1, <3>2
  <2>3. Compatible(trans)'
    BY <1>1, <2>2, SameInputs DEF Compatible
  <2>4. \A s \in todo' : CurrentSeeds(s)' = {}
    BY <1>1, <2>1, SameInputs DEF Agreed, Running, IInv, TypeInv, TypeOK
  <2> QED
    BY <1>1, <1>3, <2>3, <2>4, SameInputs DEF Agreed, Compatible, Running
<1> QED
  BY <1>1, <1>2, <1>3

LEMMA StepAgrees ==
  ASSUME IInv, IInv', RInv, [Next]_vars
  PROVE  RInv'
<1> USE DEF RInv, RefusedOnlyIfEdited
<1>0. todo \subseteq Sources
  BY DEF IInv, TypeInv, TypeOK
<1>a. ASSUME UNCHANGED <<kind, reuse, glossary, file, refused, edited, enriched>>,
             pc' \in {"idle", "load"} \/ (pc' \in Running /\ pc \in Running /\ trans' = trans /\ todo' = todo),
             pc' = "load" => kind # "local",
             pc' = "replace" => pc = "replace" /\ temp' = temp
      PROVE  RInv'
  BY <1>a, <1>0, SameInputs, SameCompatible DEF Agreed, Running
<1>1. CASE Start
  BY <1>1, SameInputs DEF Start, Agreed, Compatible, Running, inputs, files
<1>2. CASE Enrich
  BY <1>2, SameInputs DEF Enrich, Agreed, Compatible, Running, inputs
<1>3. CASE LoadRefused
  <2>1. edited /\ edited' /\ refused'
    BY <1>3, AgreedNotRefused DEF LoadRefused, IInv, TypeInv, TypeOK
  <2> QED
    BY <2>1
<1>4. CASE Load
  <2>1. refused' = FALSE /\ (~edited' => Agreed')
    BY <1>4, LoadAgrees DEF Load, IInv, TypeInv
  <2> QED
    BY <2>1
<1>5. CASE WriteTemp
  <2>1. /\ UNCHANGED <<kind, reuse, glossary, enriched, file, trans, todo, refused, edited>>
        /\ temp' = Payload /\ pc = "write" /\ pc' = "replace"
    BY <1>5 DEF WriteTemp, inputs, progress
  <2>2. Agreed => temp'.hash = Current
    BY <2>1 DEF Agreed, Running, Payload, Inventory, Current
  <2> QED
    BY <1>0, <2>1, <2>2, SameInputs, SameCompatible DEF Agreed, Running
<1>6. CASE Replace
  <2>1. /\ UNCHANGED <<kind, reuse, glossary, enriched, trans, todo, refused, edited>>
        /\ file' = temp /\ pc = "replace" /\ pc' = "batch" /\ temp.trans = trans
    BY <1>6 DEF Replace, inputs, progress, IInv, Written
  <2> QED
    BY <1>0, <2>1, SameInputs, SameCompatible DEF Agreed, Running
<1>7. CASE NextBatch
  BY <1>7, <1>a DEF NextBatch, inputs, files, Running
<1>8. CASE Finish
  BY <1>8, <1>a DEF Finish, inputs, files, Running
<1>9. CASE Merge
  BY <1>9, MergeAgrees DEF Merge
<1>10. CASE Ask
  BY <1>10, <1>a DEF Ask, Answered, inputs, files, Running
<1>11. CASE ProviderFails
  BY <1>11, <1>a DEF ProviderFails, inputs, files, Running
<1>12. CASE WriteFails
  BY <1>12, <1>a DEF WriteFails, inputs, Running
<1>13. CASE Kill
  BY <1>13, SameInputs DEF Kill, Agreed, Compatible, Running, inputs
<1>14. CASE Edit
  BY <1>14 DEF Edit
<1>15. CASE UNCHANGED vars
  BY <1>0, <1>15, SameInputs, SameCompatible DEF vars, Agreed, Running, inputs, files, progress
<1> QED
  BY <1>1, <1>2, <1>3, <1>4, <1>5, <1>6, <1>7, <1>8, <1>9, <1>10, <1>11, <1>12, <1>13, <1>14,
     <1>15 DEF Next, Steps

(***************************************************************************)
(* A run is refused only if an input was edited since a run accepted them.    *)
(***************************************************************************)
THEOREM RestartAccepted == Spec => []RefusedOnlyIfEdited
<1>1. Init => RInv
  BY DEF Init, RInv, RefusedOnlyIfEdited
<1>2. RInv => RefusedOnlyIfEdited
  BY DEF RInv
<1> QED
  BY <1>1, <1>2, Inductive, StepAgrees, PTL DEF Spec

(***************************************************************************)
(* A script that is answered through the model client behaves as the        *)
(* scripts' own specification says: what holds of every behaviour of that    *)
(* holds in the stack.                                                      *)
(***************************************************************************)
THEOREM ScriptsInStack == StackSpec => Spec
<1>1. StackInit => Init
  BY DEF StackInit
<1> QED
  BY <1>1, ScriptStep, PTL DEF StackSpec, Spec

-----------------------------------------------------------------------------
(* Sets of numbers in ascending order. *)

Increasing(f) == \A m, n \in DOMAIN f : m < n => f[m] < f[n]

(***************************************************************************)
(* Numbers that ascend and are all those of a set are the set in ascending    *)
(* order.                                                                   *)
(***************************************************************************)
LEMMA AscendingUnique ==
  ASSUME NEW k \in Nat, NEW T \in SUBSET (1..k), NEW c \in Nat, NEW f \in [1..c -> T],
         Increasing(f), \A x \in T : \E n \in 1..c : f[n] = x
  PROVE  Cardinality(T) = c /\ Ascending(T) = f
<1> DEFINE upto(n) == {x \in T : x <= f[n]}
<1>1. \A n \in 1..c : f[n] \in T /\ f[n] \in Int
  <2>1. \A x \in T : x \in Int
    OBVIOUS
  <2> QED
    BY <2>1
<1>2. \A m, n \in 1..c : m < n => f[m] < f[n]
  BY DEF Increasing
<1>3. \A m, n \in 1..c : f[m] = f[n] => m = n
  <2>1. \A m, n \in 1..c : m < n => f[m] # f[n]
    BY <1>1, <1>2
  <2> QED
    BY <2>1
<1>4. Cardinality(T) = c
  <2>1. f \in Bijection(1..c, T)
    BY <1>3 DEF Bijection, Injection, Surjection, IsInjective
  <2>2. IsFiniteSet(1..c) /\ Cardinality(1..c) = c
    BY FS_Interval
  <2> QED
    BY <2>1, <2>2, FS_Bijection DEF ExistsBijection
<1>5. ASSUME NEW n \in 1..c
      PROVE  Cardinality(upto(n)) = n
  <2> DEFINE g == [m \in 1..n |-> f[m]]
  <2>1. n \in Nat /\ 1..n \subseteq 1..c
    OBVIOUS
  <2>2. g \in [1..n -> upto(n)]
    <3> SUFFICES ASSUME NEW m \in 1..n
                 PROVE  f[m] \in T /\ f[m] <= f[n]
      OBVIOUS
    <3>1. m \in 1..c /\ (m < n \/ m = n)
      BY <2>1
    <3> QED
      BY <1>1, <1>2, <3>1
  <2>3. \A x \in upto(n) : \E m \in 1..n : g[m] = x
    <3> SUFFICES ASSUME NEW x \in T, x <= f[n]
                 PROVE  \E m \in 1..n : f[m] = x
      OBVIOUS
    <3>1. PICK m \in 1..c : f[m] = x
      OBVIOUS
    <3>2. ~(n < m)
      BY <1>1, <1>2, <3>1
    <3> QED
      BY <3>1, <3>2
  <2>4. \A m, j \in 1..n : g[m] = g[j] => m = j
    BY <1>3, <2>1
  <2> HIDE DEF g, upto
  <2>5. g \in Bijection(1..n, upto(n))
    BY <2>2, <2>3, <2>4 DEF Bijection, Injection, Surjection, IsInjective
  <2>6. IsFiniteSet(1..n) /\ Cardinality(1..n) = n
    BY <2>1, FS_Interval
  <2> QED
    BY <2>5, <2>6, FS_Bijection DEF ExistsBijection
<1>6. ASSUME NEW n \in 1..c
      PROVE  (CHOOSE i \in T : Cardinality({j \in T : j <= i}) = n) = f[n]
  <2>1. f[n] \in T /\ Cardinality({j \in T : j <= f[n]}) = n
    BY <1>1, <1>5
  <2>2. ASSUME NEW i \in T, Cardinality({j \in T : j <= i}) = n
        PROVE  i = f[n]
    <3>1. PICK m \in 1..c : f[m] = i
      OBVIOUS
    <3>2. Cardinality({j \in T : j <= f[m]}) = m
      BY <1>5
    <3> QED
      BY <2>2, <3>1, <3>2
  <2> QED
    BY <2>1, <2>2
<1>7. Ascending(T) = [n \in 1..c |-> f[n]]
  BY <1>4, <1>6 DEF Ascending
<1> QED
  BY <1>4, <1>7

(***************************************************************************)
(* A set of numbers has an ascending order.                                  *)
(***************************************************************************)
LEMMA AscendingFacts ==
  ASSUME NEW k \in Nat, NEW S \in SUBSET (1..k)
  PROVE  /\ Cardinality(S) \in Nat /\ Len(Ascending(S)) = Cardinality(S)
         /\ Ascending(S) \in [1..Cardinality(S) -> S] /\ Increasing(Ascending(S))
         /\ \A x \in S : \E n \in 1..Cardinality(S) : Ascending(S)[n] = x
<1> DEFINE c == Cardinality(S)
           a == Ascending(S)
           upto(j) == {i \in S : i <= j}
           rank(j) == Cardinality(upto(j))
<1>1. IsFiniteSet(S) /\ c \in Nat
  <2>1. IsFiniteSet(1..k)
    BY FS_Interval
  <2>2. IsFiniteSet(S)
    BY <2>1, FS_Subset
  <2> QED
    BY <2>2, FS_CardinalityType
<1>2. ASSUME NEW j \in S
      PROVE  upto(j) \in SUBSET S /\ IsFiniteSet(upto(j)) /\ rank(j) \in 1..c
  <2>1. upto(j) \in SUBSET S /\ j \in upto(j) /\ upto(j) # {}
    OBVIOUS
  <2>2. IsFiniteSet(upto(j)) /\ rank(j) <= c
    BY <1>1, <2>1, FS_Subset
  <2>3. rank(j) \in Nat /\ rank(j) # 0
    BY <2>1, <2>2, FS_CardinalityType, FS_EmptySet
  <2> QED
    BY <1>1, <2>1, <2>2, <2>3
<1>3. ASSUME NEW i \in S, NEW j \in S, i < j
      PROVE  rank(i) < rank(j)
  <2>1. upto(i) \in SUBSET upto(j) /\ j \in upto(j) /\ j \notin upto(i)
    <3>1. \A x \in S : x \in Int
      OBVIOUS
    <3>2. i \in Int /\ j \in Int
      BY <3>1
    <3>3. \A x \in S : x <= i => x <= j
      BY <1>3, <3>1, <3>2
    <3>4. j <= j /\ ~(j <= i)
      BY <1>3, <3>2
    <3> QED
      BY <3>3, <3>4
  <2>2. rank(i) <= rank(j) /\ (rank(i) = rank(j) => upto(i) = upto(j))
    BY <1>2, <2>1, FS_Subset
  <2>3. rank(i) \in Nat /\ rank(j) \in Nat
    BY <1>1, <1>2
  <2> QED
    BY <2>1, <2>2, <2>3
<1>4. \A i, j \in S : i # j => rank(i) # rank(j)
  <2> SUFFICES ASSUME NEW i \in S, NEW j \in S, i < j
               PROVE  rank(i) # rank(j)
    <3>1. \A i \in S : i \in Int
      OBVIOUS
    <3> QED
      BY <3>1
  <2>1. rank(i) \in Int /\ rank(j) \in Int /\ rank(i) < rank(j)
    BY <1>1, <1>2, <1>3
  <2> HIDE DEF upto, rank
  <2> QED
    BY <2>1
<1>5. \A n \in 1..c : \E j \in S : rank(j) = n
  <2> DEFINE f == [j \in S |-> rank(j)]
  <2>1. f \in [S -> 1..c]
    BY <1>2
  <2>2. \A i, j \in S : i # j => f[i] # f[j]
    BY <1>4
  <2> HIDE DEF f
  <2>3. f \in Injection(S, 1..c)
    BY <2>1, <2>2 DEF Injection, IsInjective
  <2>4. IsFiniteSet(1..c) /\ Cardinality(1..c) = c
    BY <1>1, FS_Interval
  <2>5. f \in Surjection(S, 1..c)
    BY <2>3, <2>4, FS_Injection
  <2> QED
    BY <2>5 DEF Surjection, f
<1>6. a = [n \in 1..c |-> CHOOSE i \in S : rank(i) = n]
  BY DEF Ascending
<1>7. \A n \in 1..c : a[n] \in S /\ rank(a[n]) = n
  <2> HIDE DEF rank, a
  <2> QED
    BY <1>5, <1>6
<1> HIDE DEF a, c
<1>8. a \in [1..c -> S] /\ Len(a) = c
  <2>1. DOMAIN a = 1..c /\ a = [n \in 1..c |-> a[n]]
    <3> HIDE DEF rank, upto
    <3> QED
      BY <1>6
  <2>2. a \in [1..c -> S]
    BY <1>7, <2>1
  <2>3. a \in Seq(S)
    BY <1>1, <2>2, SeqDef
  <2> QED
    BY <1>1, <2>1, <2>2, <2>3, LenProperties
<1>9. Increasing(a)
  <2> SUFFICES ASSUME NEW m \in 1..c, NEW n \in 1..c, m < n
               PROVE  a[m] < a[n]
    BY <1>6 DEF Increasing
  <2>1. a[m] \in S /\ a[n] \in S /\ rank(a[m]) = m /\ rank(a[n]) = n /\ a[m] \in Int /\ a[n] \in Int
    <3>1. \A x \in S : x \in Int
      OBVIOUS
    <3> HIDE DEF rank
    <3> QED
      BY <1>7, <3>1
  <2>2. ~(a[n] < a[m])
    BY <1>3, <2>1
  <2>3. a[m] # a[n]
    BY <2>1
  <2> QED
    BY <2>1, <2>2, <2>3
<1>10. ASSUME NEW x \in S PROVE \E n \in 1..c : a[n] = x
  <2>1. rank(x) \in 1..c
    BY <1>2
  <2>2. a[rank(x)] \in S /\ rank(a[rank(x)]) = rank(x)
    BY <1>7, <2>1
  <2> HIDE DEF rank
  <2> QED
    BY <1>4, <2>1, <2>2
<1> QED
  BY <1>1, <1>8, <1>9, <1>10 DEF a, c

\* pos takes S to T in order.
Moves(S, T, pos) ==
  /\ \A p \in S : pos[p] \in T
  /\ \A p, q \in S : p < q => pos[p] < pos[q]
  /\ \A i \in T : \E p \in S : pos[p] = i

\* The ascending order of T is where pos takes that of S.
Moved(S, T, pos) ==
  /\ Cardinality(T) = Cardinality(S)
  /\ Ascending(S) \in [1..Cardinality(S) -> S]
  /\ Ascending(T) = [n \in 1..Cardinality(S) |-> pos[Ascending(S)[n]]]

(***************************************************************************)
(* What takes a set to another one in order takes its ascending order along. *)
(***************************************************************************)
LEMMA OrderMoves ==
  ASSUME NEW k \in Nat, NEW l \in Nat, NEW S \in SUBSET (1..k), NEW T \in SUBSET (1..l), NEW pos,
         Moves(S, T, pos)
  PROVE  Moved(S, T, pos)
<1> DEFINE c == Cardinality(S)
           a == Ascending(S)
           f == [n \in 1..c |-> pos[a[n]]]
<1>1. c \in Nat /\ a \in [1..c -> S] /\ Increasing(a) /\ \A x \in S : \E n \in 1..c : a[n] = x
  BY AscendingFacts
<1> HIDE DEF c, a
<1>2. \A n \in 1..c : a[n] \in S
  BY <1>1
<1>3. f \in [1..c -> T]
  BY <1>2 DEF Moves
<1>4. Increasing(f)
  <2> SUFFICES ASSUME NEW m \in 1..c, NEW n \in 1..c, m < n
               PROVE  pos[a[m]] < pos[a[n]]
    BY DEF Increasing
  <2>1. a[m] \in S /\ a[n] \in S /\ a[m] < a[n]
    BY <1>1, <1>2 DEF Increasing
  <2> QED
    BY <2>1 DEF Moves
<1>5. \A y \in T : \E n \in 1..c : f[n] = y
  <2> SUFFICES ASSUME NEW y \in T PROVE \E n \in 1..c : pos[a[n]] = y
    OBVIOUS
  <2>1. PICK x \in S : pos[x] = y
    BY DEF Moves
  <2>2. PICK n \in 1..c : a[n] = x
    BY <1>1
  <2> QED
    BY <2>1, <2>2
<1> HIDE DEF f
<1>6. Cardinality(T) = c /\ Ascending(T) = f
  BY <1>1, <1>3, <1>4, <1>5, AscendingUnique
<1> QED
  BY <1>1, <1>6, Zenon DEF f, c, a, Moved

-----------------------------------------------------------------------------
(* Where tokens are found. *)

(***************************************************************************)
(* The places of a source's tokens.                                          *)
(***************************************************************************)
LEMMA PlacesFacts ==
  ASSUME NEW s \in Seq(Symbols)
  PROVE  /\ Len(Places(s)) \in Nat /\ DOMAIN Places(s) = 1..Len(Places(s)) /\ Increasing(Places(s))
         /\ \A n \in 1..Len(Places(s)) : Places(s)[n] \in 1..Len(s) /\ IsToken(s, Places(s)[n])
         /\ \A i \in 1..Len(s) : IsToken(s, i) => \E n \in 1..Len(Places(s)) : Places(s)[n] = i
<1> DEFINE S == {i \in DOMAIN s : IsToken(s, i)}
<1>1. Len(s) \in Nat /\ DOMAIN s = 1..Len(s) /\ S \in SUBSET (1..Len(s))
  OBVIOUS
<1>2. Places(s) = Ascending(S)
  BY DEF Places
<1>3. /\ Cardinality(S) \in Nat /\ Len(Ascending(S)) = Cardinality(S)
      /\ Ascending(S) \in [1..Cardinality(S) -> S] /\ Increasing(Ascending(S))
      /\ \A x \in S : \E n \in 1..Cardinality(S) : Ascending(S)[n] = x
  BY <1>1, AscendingFacts
<1>4. \A i : i \in S <=> i \in 1..Len(s) /\ IsToken(s, i)
  BY <1>1
<1> HIDE DEF S
<1> QED
  BY <1>2, <1>3, <1>4

(***************************************************************************)
(* A token that is there is found where it is first there.                   *)
(***************************************************************************)
LEMMA FindFacts ==
  ASSUME NEW t, Len(t) \in Nat, NEW x, NEW place \in Nat
  PROVE  /\ Find(t, x, place) \in Nat
         /\ \A p \in (place + 1)..Len(t) :
              t[p] = x /\ (\A q \in (place + 1)..Len(t) : t[q] = x => p <= q) => Find(t, x, place) = p
<1> DEFINE hits == {p \in (place + 1)..Len(t) : t[p] = x}
<1>1. hits \in SUBSET Nat
  OBVIOUS
<1>2. Find(t, x, place) = IF hits = {} THEN Len(t) + 1 ELSE CHOOSE p \in hits : \A q \in hits : p <= q
  BY DEF Find, Min
<1>3. ASSUME hits # {}
      PROVE  \E p \in hits : \A q \in hits : p <= q
  <2> HIDE DEF hits
  <2> QED
    BY <1>1, <1>3, Least
<1>4. Find(t, x, place) \in Nat
  <2>1. CASE hits = {}
    BY <1>2, <2>1
  <2>2. CASE hits # {}
    <3> HIDE DEF hits
    <3>1. PICK m \in hits : m = Find(t, x, place)
      BY <1>2, <1>3, <2>2
    <3> QED
      BY <1>1, <3>1
  <2> HIDE DEF hits
  <2> QED
    BY <2>1, <2>2
<1>5. ASSUME NEW p \in (place + 1)..Len(t), t[p] = x, \A q \in (place + 1)..Len(t) : t[q] = x => p <= q
      PROVE  Find(t, x, place) = p
  <2>1. p \in hits /\ \A q \in hits : p <= q
    BY <1>5
  <2>2. hits # {}
    BY <2>1
  <2> HIDE DEF hits
  <2>3. PICK m \in hits : m = Find(t, x, place) /\ \A q \in hits : m <= q
    BY <1>2, <1>3, <2>2
  <2>4. m <= p /\ p <= m /\ m \in Nat /\ p \in Nat
    BY <1>1, <2>1, <2>3
  <2> QED
    BY <2>3, <2>4
<1> QED
  BY <1>4, <1>5

(***************************************************************************)
(* Spans goes from one token to the next.                                    *)
(***************************************************************************)
LEMMA SpansSteps ==
  ASSUME NEW s \in Seq(Symbols), NEW t, Len(t) \in Nat
  PROVE  /\ Spans(s, t)[0] = 0
         /\ \A n \in 1..Len(Places(s)) :
              /\ Spans(s, t)[n-1] \in Nat
              /\ Spans(s, t)[n] = Find(t, s[Places(s)[n]], Spans(s, t)[n-1])
<1> DEFINE N == Len(Places(s))
           next == [q \in (1..N) \X Nat |-> Find(t, s[Places(s)[q[1]]], q[2])]
           found == CHOOSE found :
             found = [n \in 0..N |-> IF n = 0 THEN 0 ELSE Find(t, s[Places(s)[n]], found[n-1])]
<1>1. N \in Nat
  BY PlacesFacts
<1>2. Spans(s, t) = found
  BY DEF Spans
<1> HIDE DEF N
<1>3. next \in [(1..N) \X Nat -> Nat]
  <2>1. ASSUME NEW q \in (1..N) \X Nat
        PROVE  Find(t, s[Places(s)[q[1]]], q[2]) \in Nat
    <3>1. q[2] \in Nat
      OBVIOUS
    <3> QED
      BY <3>1, FindFacts
  <2> QED
    BY <2>1
<1>4. PICK f \in [0..N -> Nat] : f[0] = 0 /\ \A n \in 1..N : f[n] = next[<<n, f[n-1]>>]
  <2> HIDE DEF next
  <2>1. \E f : Stepwise(f, Nat, 0, N, next)
    BY <1>1, <1>3, StepwiseFunction
  <2> QED
    BY <2>1 DEF Stepwise
<1>5. ASSUME NEW n \in 1..N
      PROVE  f[n] = Find(t, s[Places(s)[n]], f[n-1])
  <2>1. n - 1 \in 0..N
    BY <1>1
  <2>2. f[n-1] \in Nat
    BY <2>1
  <2> QED
    BY <1>4, <2>2
<1> HIDE DEF next
<1>6. f = [n \in 0..N |-> IF n = 0 THEN 0 ELSE Find(t, s[Places(s)[n]], f[n-1])]
  <2>1. \A n \in 0..N : f[n] = IF n = 0 THEN 0 ELSE Find(t, s[Places(s)[n]], f[n-1])
    <3>1. \A n \in 0..N : n = 0 \/ n \in 1..N
      BY <1>1
    <3> QED
      BY <1>4, <1>5, <3>1, Zenon
  <2>2. f = [n \in 0..N |-> f[n]]
    BY <1>4
  <2> QED
    BY <2>1, <2>2, Zenon
<1>7. found = [n \in 0..N |-> IF n = 0 THEN 0 ELSE Find(t, s[Places(s)[n]], found[n-1])]
  BY <1>6
<1> HIDE DEF found
<1>8. found[0] = 0 /\ \A n \in 1..N : found[n] = Find(t, s[Places(s)[n]], found[n-1])
  <2>1. 0 \in 0..N /\ \A n \in 1..N : n \in 0..N /\ n # 0
    BY <1>1
  <2> QED
    BY <1>7, <2>1
<1> DEFINE K == {n \in Nat : n <= N => found[n] \in Nat}
<1>9. \A n \in Nat : n \in K
  <2>1. 0 \in K
    BY <1>8
  <2>2. ASSUME NEW n \in Nat, n \in K PROVE n + 1 \in K
    <3> SUFFICES ASSUME n + 1 <= N PROVE found[n+1] \in Nat
      OBVIOUS
    <3>1. found[n] \in Nat /\ n + 1 \in 1..N /\ (n + 1) - 1 = n
      BY <1>1, <2>2
    <3> QED
      BY <1>8, <3>1, FindFacts
  <2> HIDE DEF K
  <2> QED
    BY <2>1, <2>2, Induction
<1>10. ASSUME NEW n \in 1..N
       PROVE  found[n-1] \in Nat
  <2>1. n - 1 \in Nat /\ n - 1 <= N
    BY <1>1
  <2> QED
    BY <1>9, <2>1
<1> QED
  BY <1>2, <1>8, <1>10 DEF N

TokensOf(t) == {p \in 1..Len(t) : t[p] \in Tokens}

\* t has the tokens of s in their order, and no more.
Carries(s, t) ==
  /\ t \in Seq(Symbols) /\ Cardinality(TokensOf(t)) = Len(Places(s))
  /\ \A n \in 1..Len(Places(s)) : t[Ascending(TokensOf(t))[n]] = s[Places(s)[n]]

(***************************************************************************)
(* Then the tokens are found where they are.                                 *)
(***************************************************************************)
LEMMA SpansAreTokens ==
  ASSUME NEW s \in Seq(Symbols), NEW t, Carries(s, t)
  PROVE  /\ \A n \in 1..Len(Places(s)) :
              Spans(s, t)[n] = Ascending(TokensOf(t))[n] /\ Spans(s, t)[n] \in TokensOf(t)
         /\ \A m, n \in 1..Len(Places(s)) : m < n => Spans(s, t)[m] < Spans(s, t)[n]
         /\ ~Missing(s, t)
<1> DEFINE N == Len(Places(s))
           S == TokensOf(t)
           a == Ascending(S)
           f == Spans(s, t)
<1>1. /\ t \in Seq(Symbols) /\ Len(t) \in Nat /\ N \in Nat /\ Cardinality(S) = N
      /\ S \in SUBSET (1..Len(t)) /\ DOMAIN Places(s) = 1..N
      /\ \A n \in 1..N : t[a[n]] = s[Places(s)[n]]
  BY PlacesFacts DEF Carries, TokensOf
<1>2. a \in [1..N -> S] /\ Increasing(a) /\ \A x \in S : \E n \in 1..N : a[n] = x
  <2>1. /\ a \in [1..Cardinality(S) -> S] /\ Increasing(a)
        /\ \A x \in S : \E n \in 1..Cardinality(S) : a[n] = x
    <3> HIDE DEF S
    <3> QED
      BY <1>1, AscendingFacts
  <2> QED
    BY <1>1, <2>1
<1>3. f[0] = 0 /\ \A n \in 1..N : f[n] = Find(t, s[Places(s)[n]], f[n-1])
  BY <1>1, SpansSteps
<1>4. \A p \in 1..Len(t) : t[p] \in Tokens => p \in S
  BY DEF TokensOf
<1>5. \A n \in 1..N : s[Places(s)[n]] \in Tokens
  BY PlacesFacts DEF IsToken
<1> HIDE DEF N, S, a, f
<1>6. \A n \in 1..N : a[n] \in S /\ a[n] \in 1..Len(t) /\ a[n] \in Nat
  <2>1. \A x \in S : x \in 1..Len(t) /\ x \in Nat
    BY <1>1
  <2> QED
    BY <1>2, <2>1
<1>7. \A m, n \in 1..N : m < n => a[m] < a[n]
  BY <1>2 DEF Increasing
<1> DEFINE before(n) == IF n = 0 THEN 0 ELSE a[n]
           K == {n \in Nat : n <= N => f[n] = before(n)}
<1>8. \A n \in Nat : n \in K
  <2>1. 0 \in K
    BY <1>3
  <2>2. ASSUME NEW n \in Nat, n \in K PROVE n + 1 \in K
    <3> SUFFICES ASSUME n + 1 <= N PROVE f[n+1] = a[n+1]
      OBVIOUS
    <3>1. f[n] = before(n) /\ n + 1 \in 1..N /\ (n + 1) - 1 = n /\ before(n) \in Nat
      <4>1. n = 0 \/ n \in 1..N
        BY <1>1
      <4> QED
        BY <1>1, <1>6, <2>2, <4>1
    <3>2. before(n) < a[n+1]
      <4>1. n = 0 \/ n \in 1..N
        BY <1>1
      <4> QED
        BY <1>6, <1>7, <3>1, <4>1
    <3>3. a[n+1] \in (before(n) + 1)..Len(t) /\ t[a[n+1]] = s[Places(s)[n+1]]
      BY <1>1, <1>6, <3>1, <3>2
    <3>4. ASSUME NEW q \in (before(n) + 1)..Len(t), t[q] = s[Places(s)[n+1]]
          PROVE  a[n+1] <= q
      <4>1. q \in S /\ q \in Nat /\ q > before(n)
        BY <1>1, <1>4, <1>5, <3>1, <3>4
      <4>2. PICK m \in 1..N : a[m] = q
        BY <1>2, <4>1
      <4>3. ~(m <= n)
        <5> SUFFICES ASSUME m <= n PROVE FALSE
          OBVIOUS
        <5>1. n \in 1..N /\ before(n) = a[n]
          BY <1>1
        <5>2. a[m] <= a[n]
          BY <1>6, <1>7, <5>1
        <5> QED
          BY <1>6, <4>1, <4>2, <5>1, <5>2
      <4>4. m = n + 1 \/ n + 1 < m
        BY <4>3
      <4> QED
        BY <1>6, <1>7, <3>1, <4>2, <4>4
    <3> HIDE DEF before
    <3>5. Find(t, s[Places(s)[n+1]], before(n)) = a[n+1]
      BY <1>1, <3>1, <3>3, <3>4, FindFacts
    <3> QED
      BY <1>3, <3>1, <3>5
  <2> HIDE DEF K
  <2> QED
    BY <2>1, <2>2, Induction
<1>9. ASSUME NEW n \in 1..N
      PROVE  f[n] = a[n]
  <2>1. n \in Nat /\ n <= N /\ n # 0
    BY <1>1
  <2> QED
    BY <1>8, <2>1
<1>10. ~Missing(s, t)
  <2>1. \A n \in DOMAIN Places(s) : ~(f[n] > Len(t))
    BY <1>1, <1>6, <1>9
  <2> QED
    BY <2>1 DEF Missing, f
<1>11. \A m, n \in 1..N : m < n => f[m] < f[n]
  BY <1>7, <1>9
<1> QED
  BY <1>6, <1>9, <1>10, <1>11 DEF N, S, a, f

-----------------------------------------------------------------------------
(* What the separation does to a target. *)

Puts(s, t, p) == Insertion(s, t, p) # << >>

PutPlaces(s, t) == {p \in 1..Len(t) : Puts(s, t, p)}

\* Numbers that go up by two at the places P and by one at the others.
Widening(L, P, pos) ==
  /\ pos \in [0..L -> Nat] /\ pos[0] = 0
  /\ \A p \in 1..L : pos[p] = (IF p \in P THEN pos[p-1] + 2 ELSE pos[p-1] + 1)

\* r is t with a delimiter in front of some places; pos says where t's symbols are in r.
Widened(s, t, r, pos) ==
  /\ r \in Seq(Symbols) /\ Widening(Len(t), PutPlaces(s, t), pos) /\ Len(r) = pos[Len(t)]
  /\ \A p \in 1..Len(t) : r[pos[p]] = t[p] /\ (Puts(s, t, p) => r[pos[p] - 1] \in Delimiters)

(***************************************************************************)
(* At most one delimiter is inserted in front of a place.                    *)
(***************************************************************************)
LEMMA InsertionShape ==
  ASSUME NEW s, NEW t, NEW p
  PROVE  Insertion(s, t, p) = << >> \/ \E d \in Delimiters : Insertion(s, t, p) = <<d>>
<1>1. \A gap : Delimiter(gap) \in Delimiters
  BY DEF Delimiter, Delimiters
<1>2. "space" \in Delimiters
  BY DEF Delimiters
<1> QED
  BY <1>1, <1>2 DEF Insertion

(***************************************************************************)
(* The separation goes from one place to the next.                           *)
(***************************************************************************)
LEMMA SeparatedSteps ==
  ASSUME NEW s \in Seq(Symbols), NEW t \in Seq(Symbols), ~Missing(s, t)
  PROVE  \E u \in [0..Len(t) -> Seq(Symbols)] :
           /\ u[0] = << >> /\ u[Len(t)] = Separated(s, t)
           /\ \A p \in 1..Len(t) : u[p] = u[p-1] \o Append(Insertion(s, t, p), t[p])
<1> DEFINE L == Len(t)
           step(r, p) == r \o Append(Insertion(s, t, p), t[p])
           next == [q \in (1..L) \X Seq(Symbols) |-> step(q[2], q[1])]
           upto == CHOOSE upto : upto = [p \in 0..L |-> IF p = 0 THEN << >> ELSE step(upto[p-1], p)]
<1>1. L \in Nat /\ \A p \in 1..L : t[p] \in Symbols
  OBVIOUS
<1>2. Separated(s, t) = upto[L]
  BY DEF Separated
<1>3. \A p \in 1..L : Append(Insertion(s, t, p), t[p]) \in Seq(Symbols)
  <2> SUFFICES ASSUME NEW p \in 1..L PROVE Append(Insertion(s, t, p), t[p]) \in Seq(Symbols)
    OBVIOUS
  <2>1. Insertion(s, t, p) \in Seq(Symbols)
    <3>1. CASE Insertion(s, t, p) = << >>
      BY <3>1
    <3>2. CASE \E d \in Delimiters : Insertion(s, t, p) = <<d>>
      <4>1. PICK d \in Symbols : Insertion(s, t, p) = <<d>>
        BY <3>2 DEF Symbols
      <4> QED
        BY <4>1
    <3> QED
      BY <3>1, <3>2, InsertionShape
  <2> QED
    BY <1>1, <2>1
<1>4. \A p \in 1..L : \A r \in Seq(Symbols) : step(r, p) \in Seq(Symbols)
  BY <1>3
<1>5. next \in [(1..L) \X Seq(Symbols) -> Seq(Symbols)]
  <2> HIDE DEF L, step
  <2>1. ASSUME NEW q \in (1..L) \X Seq(Symbols) PROVE step(q[2], q[1]) \in Seq(Symbols)
    BY <1>4
  <2> QED
    BY <2>1
<1>6. PICK f \in [0..L -> Seq(Symbols)] : f[0] = << >> /\ \A p \in 1..L : f[p] = next[<<p, f[p-1]>>]
  <2>1. << >> \in Seq(Symbols)
    OBVIOUS
  <2> HIDE DEF next, L
  <2>2. \E f : Stepwise(f, Seq(Symbols), << >>, L, next)
    BY <1>1, <1>5, <2>1, StepwiseFunction
  <2> QED
    BY <2>2 DEF Stepwise
<1> HIDE DEF step
<1>7. ASSUME NEW p \in 1..L
      PROVE  f[p] = step(f[p-1], p)
  <2>1. f[p-1] \in Seq(Symbols)
    <3>1. p - 1 \in 0..L
      BY <1>1
    <3> HIDE DEF L
    <3> QED
      BY <3>1
  <2> HIDE DEF L
  <2> QED
    BY <1>6, <2>1
<1> HIDE DEF next, L
<1>8. f = [p \in 0..L |-> IF p = 0 THEN << >> ELSE step(f[p-1], p)]
  BY <1>1, <1>6, <1>7
<1>9. upto = [p \in 0..L |-> IF p = 0 THEN << >> ELSE step(upto[p-1], p)]
  BY <1>8
<1> HIDE DEF upto
<1>10. upto[0] = << >> /\ \A p \in 1..L : upto[p] = step(upto[p-1], p)
  <2>1. 0 \in 0..L /\ \A p \in 1..L : p \in 0..L /\ p # 0
    BY <1>1
  <2> QED
    BY <1>9, <2>1
<1> DEFINE K == {p \in Nat : p <= L => upto[p] = f[p]}
<1>11. L \in K
  <2>1. 0 \in K
    BY <1>6, <1>10
  <2>2. ASSUME NEW p \in Nat, p \in K PROVE p + 1 \in K
    <3> SUFFICES ASSUME p + 1 <= L PROVE upto[p+1] = f[p+1]
      OBVIOUS
    <3>1. upto[p] = f[p] /\ p + 1 \in 1..L /\ (p + 1) - 1 = p
      BY <1>1, <2>2
    <3> QED
      BY <1>7, <1>10, <3>1
  <2> HIDE DEF K
  <2> QED
    BY <1>1, <2>1, <2>2, Induction
<1>12. f[L] = Separated(s, t)
  BY <1>1, <1>2, <1>11
<1> QED
  BY <1>6, <1>7, <1>12 DEF L, step

(***************************************************************************)
(* Numbers that go up by two at the places P and by one at the others.       *)
(***************************************************************************)
LEMMA WideningFacts ==
  ASSUME NEW L \in Nat, NEW pos, NEW P, Widening(L, P, pos)
  PROVE  /\ \A p, q \in 0..L : p < q => pos[p] < pos[q]
         /\ \A p \in 1..L : pos[p] \in 1..pos[L]
         /\ \A i \in 1..pos[L] : \E p \in 1..L : i = pos[p] \/ (p \in P /\ i = pos[p] - 1)
<1>1. /\ pos \in [0..L -> Nat] /\ pos[0] = 0
      /\ \A p \in 1..L : pos[p] = (IF p \in P THEN pos[p-1] + 2 ELSE pos[p-1] + 1)
  BY DEF Widening
<1>2. \A p \in 0..L : pos[p] \in Nat
  BY <1>1
<1>3. \A p \in 1..L : pos[p-1] < pos[p]
  <2> SUFFICES ASSUME NEW p \in 1..L PROVE pos[p-1] < pos[p]
    OBVIOUS
  <2>1. pos[p-1] \in Nat
    BY <1>1, <1>2
  <2> QED
    BY <1>1, <2>1
<1> DEFINE K == {q \in Nat : q <= L => \A p \in 0..L : p < q => pos[p] < pos[q]}
           M == {q \in Nat : q <= L => \A i \in 1..pos[q] :
                               \E p \in 1..q : i = pos[p] \/ (p \in P /\ i = pos[p] - 1)}
<1>4. \A q \in Nat : q \in K
  <2>1. 0 \in K
    OBVIOUS
  <2>2. ASSUME NEW q \in Nat, q \in K PROVE q + 1 \in K
    <3> SUFFICES ASSUME q + 1 <= L, NEW p \in 0..L, p < q + 1 PROVE pos[p] < pos[q+1]
      OBVIOUS
    <3>1. q \in 0..L /\ q + 1 \in 1..L /\ (q + 1) - 1 = q /\ q + 1 \in 0..L
      OBVIOUS
    <3>2. pos[q] < pos[q+1]
      BY <1>3, <3>1
    <3>3. p = q \/ pos[p] < pos[q]
      BY <2>2, <3>1
    <3> QED
      BY <1>2, <3>1, <3>2, <3>3
  <2> HIDE DEF K
  <2> QED
    BY <2>1, <2>2, Induction
<1>5. \A q \in Nat : q \in M
  <2>1. 0 \in M
    BY <1>1
  <2>2. ASSUME NEW q \in Nat, q \in M PROVE q + 1 \in M
    <3> SUFFICES ASSUME q + 1 <= L, NEW i \in 1..pos[q+1]
                 PROVE  \E p \in 1..(q + 1) : i = pos[p] \/ (p \in P /\ i = pos[p] - 1)
      OBVIOUS
    <3>1. q \in 0..L /\ q + 1 \in 1..L /\ (q + 1) - 1 = q
      OBVIOUS
    <3>2. pos[q] \in Nat /\ pos[q+1] = (IF q + 1 \in P THEN pos[q] + 2 ELSE pos[q] + 1)
      BY <1>1, <1>2, <3>1
    <3>3. CASE i \in 1..pos[q]
      <4>1. PICK p \in 1..q : i = pos[p] \/ (p \in P /\ i = pos[p] - 1)
        BY <2>2, <3>1, <3>3
      <4>2. p \in 1..(q + 1)
        OBVIOUS
      <4> QED
        BY <4>1, <4>2
    <3>4. CASE i \notin 1..pos[q]
      <4>1. i = pos[q+1] \/ (q + 1 \in P /\ i = pos[q+1] - 1)
        BY <3>2, <3>4
      <4>2. q + 1 \in 1..(q + 1)
        OBVIOUS
      <4> QED
        BY <4>1, <4>2
    <3> QED
      BY <3>3, <3>4
  <2> HIDE DEF M
  <2> QED
    BY <2>1, <2>2, Induction
<1>6. \A p, q \in 0..L : p < q => pos[p] < pos[q]
  BY <1>4
<1>7. ASSUME NEW p \in 1..L
      PROVE  pos[p] \in 1..pos[L]
  <2>1. p \in 0..L /\ 0 \in 0..L /\ L \in 0..L /\ 0 < p /\ (p = L \/ p < L)
    OBVIOUS
  <2>2. pos[0] < pos[p] /\ (p = L \/ pos[p] < pos[L])
    BY <1>6, <2>1
  <2> QED
    BY <1>1, <1>2, <2>1, <2>2
<1>8. \A i \in 1..pos[L] : \E p \in 1..L : i = pos[p] \/ (p \in P /\ i = pos[p] - 1)
  BY <1>5
<1> QED
  BY <1>6, <1>7, <1>8

(***************************************************************************)
(* A sequence of two.                                                       *)
(***************************************************************************)
LEMMA OneAndOne ==
  ASSUME NEW S, NEW d \in S, NEW x \in S
  PROVE  /\ Append(<<d>>, x) \in Seq(S) /\ Len(Append(<<d>>, x)) = 2
         /\ Append(<<d>>, x)[1] = d /\ Append(<<d>>, x)[2] = x
<1>1. <<d>> \in Seq(S) /\ Len(<<d>>) = 1 /\ <<d>>[1] = d
  OBVIOUS
<1> QED
  BY <1>1, AppendProperties

(***************************************************************************)
(* What a step of the separation appends.                                    *)
(***************************************************************************)
LEMMA Appended ==
  ASSUME NEW v \in Seq(Symbols), NEW x \in Symbols, NEW d \in Symbols, NEW u
  PROVE  /\ u = v \o Append(<< >>, x) =>
              Len(u) = Len(v) + 1 /\ (\A i \in 1..Len(v) : u[i] = v[i]) /\ u[Len(v) + 1] = x
         /\ u = v \o Append(<<d>>, x) =>
              /\ Len(u) = Len(v) + 2 /\ (\A i \in 1..Len(v) : u[i] = v[i])
              /\ u[Len(v) + 1] = d /\ u[Len(v) + 2] = x
<1> DEFINE w == Append(<<d>>, x)
<1>1. Append(<< >>, x) = <<x>>
  OBVIOUS
<1>2. ASSUME u = v \o <<x>>
      PROVE  Len(u) = Len(v) + 1 /\ (\A i \in 1..Len(v) : u[i] = v[i]) /\ u[Len(v) + 1] = x
  BY <1>2
<1>3. w \in Seq(Symbols) /\ Len(w) = 2 /\ w[1] = d /\ w[2] = x
  BY OneAndOne
<1> HIDE DEF w
<1>4. ASSUME u = v \o w
      PROVE  /\ Len(u) = Len(v) + 2 /\ (\A i \in 1..Len(v) : u[i] = v[i])
             /\ u[Len(v) + 1] = d /\ u[Len(v) + 2] = x
  <2>1. /\ Len(v \o w) = Len(v) + Len(w)
        /\ \A i \in 1..(Len(v) + Len(w)) : (v \o w)[i] = IF i <= Len(v) THEN v[i] ELSE w[i - Len(v)]
    <3>1. w \in Seq(Symbols)
      BY <1>3
    <3> QED
      BY <3>1, ConcatProperties
  <2>2. Len(v) \in Nat
    OBVIOUS
  <2> QED
    BY <1>3, <1>4, <2>1, <2>2
<1> QED
  BY <1>1, <1>2, <1>4, Zenon DEF w

\* u[p] is u[p-1] with t[p] behind it, and one of D between them at the places P.
WrittenBehind(L, P, pos, t, u, D) ==
  \A p \in 1..L : /\ \A i \in 1..pos[p-1] : u[p][i] = u[p-1][i]
                  /\ u[p][pos[p]] = t[p] /\ (p \in P => u[p][pos[p] - 1] \in D)

(***************************************************************************)
(* What is written at a place stays there to the end.                        *)
(***************************************************************************)
LEMMA WrittenStays ==
  ASSUME NEW L \in Nat, NEW P, NEW pos, Widening(L, P, pos), NEW t, NEW u, NEW D,
         WrittenBehind(L, P, pos, t, u, D)
  PROVE  \A p \in 1..L : u[L][pos[p]] = t[p] /\ (p \in P => u[L][pos[p] - 1] \in D)
<1>1. /\ \A p, q \in 0..L : p < q => pos[p] < pos[q]
      /\ \A p \in 0..L : pos[p] \in Nat
      /\ \A p \in 1..L : p \in P => pos[p-1] + 2 = pos[p]
  BY WideningFacts DEF Widening
<1>0. \A p \in 1..L : /\ \A i \in 1..pos[p-1] : u[p][i] = u[p-1][i]
                      /\ u[p][pos[p]] = t[p] /\ (p \in P => u[p][pos[p] - 1] \in D)
  BY DEF WrittenBehind
<1> SUFFICES ASSUME NEW p \in 1..L
             PROVE  u[L][pos[p]] = t[p] /\ (p \in P => u[L][pos[p] - 1] \in D)
  OBVIOUS
<1> DEFINE Good(q) == u[q][pos[p]] = t[p] /\ (p \in P => u[q][pos[p] - 1] \in D)
           K == {q \in Nat : q <= L - p => Good(p + q)}
<1>2. 0 \in K
  BY <1>0
<1>3. ASSUME NEW q \in Nat, q \in K PROVE q + 1 \in K
  <2> SUFFICES ASSUME q + 1 <= L - p PROVE Good(p + (q + 1))
    OBVIOUS
  <2> DEFINE n == p + (q + 1)
  <2>1. n \in 1..L /\ n - 1 = p + q /\ p \in 0..L /\ p - 1 \in 0..L /\ n - 1 \in 0..L /\ p <= n - 1
    OBVIOUS
  <2>2. Good(n - 1)
    BY <1>3, <2>1
  <2>3. pos[p] <= pos[n-1] /\ 0 <= pos[p-1] /\ pos[p-1] < pos[p] /\ pos[p] \in Nat /\ pos[n-1] \in Nat
        /\ pos[p-1] \in Nat
    <3>1. p = n - 1 \/ p < n - 1
      BY <2>1
    <3>2. pos[p] \in Nat /\ pos[n-1] \in Nat /\ pos[p-1] \in Nat
      BY <1>1, <2>1
    <3>3. p = n - 1 \/ pos[p] < pos[n-1]
      BY <1>1, <2>1, <3>1
    <3>4. pos[p-1] < pos[p]
      BY <1>1, <2>1
    <3> QED
      BY <3>2, <3>3, <3>4
  <2> HIDE DEF n
  <2>4. pos[p] \in 1..pos[n-1] /\ (p \in P => pos[p] - 1 \in 1..pos[n-1])
    BY <1>1, <2>3
  <2>5. \A i \in 1..pos[n-1] : u[n][i] = u[n-1][i]
    BY <1>0, <2>1
  <2>6. Good(n)
    BY <2>2, <2>4, <2>5
  <2> QED
    BY <2>6 DEF n
<1>4. L - p \in K
  <2>1. L - p \in Nat
    OBVIOUS
  <2> HIDE DEF K
  <2> QED
    BY <1>2, <1>3, <2>1, Induction
<1>5. p + (L - p) = L
  OBVIOUS
<1> HIDE DEF Good
<1>6. Good(p + (L - p))
  BY <1>4
<1> QED
  BY <1>5, <1>6 DEF Good

(***************************************************************************)
(* It inserts delimiters and changes nothing else.                           *)
(***************************************************************************)
LEMMA SeparatedWidens ==
  ASSUME NEW s \in Seq(Symbols), NEW t \in Seq(Symbols), ~Missing(s, t)
  PROVE  \E pos : Widened(s, t, Separated(s, t), pos)
<1> DEFINE L == Len(t)
           P == PutPlaces(s, t)
<1>1. L \in Nat /\ \A p \in 1..L : t[p] \in Symbols
  OBVIOUS
<1>2. PICK u : /\ u \in [0..L -> Seq(Symbols)] /\ u[0] = << >> /\ u[L] = Separated(s, t)
               /\ \A p \in 1..L : u[p] = u[p-1] \o Append(Insertion(s, t, p), t[p])
  <2>1. \E u \in [0..L -> Seq(Symbols)] :
          /\ u[0] = << >> /\ u[L] = Separated(s, t)
          /\ \A p \in 1..L : u[p] = u[p-1] \o Append(Insertion(s, t, p), t[p])
    BY SeparatedSteps
  <2> QED
    BY <2>1, Zenon
<1>3. \A p : p \in P <=> p \in 1..L /\ Puts(s, t, p)
  BY DEF PutPlaces
<1> HIDE DEF L, P
<1> DEFINE pos == [p \in 0..L |-> Len(u[p])]
<1>4. \A p \in 0..L : u[p] \in Seq(Symbols) /\ pos[p] = Len(u[p])
  BY <1>2
<1> HIDE DEF pos
<1>5. ASSUME NEW p \in 1..L
      PROVE  /\ pos[p] = (IF p \in P THEN pos[p-1] + 2 ELSE pos[p-1] + 1)
             /\ \A i \in 1..pos[p-1] : u[p][i] = u[p-1][i]
             /\ u[p][pos[p]] = t[p] /\ (p \in P => u[p][pos[p] - 1] \in Delimiters)
  <2>1. p - 1 \in 0..L /\ p \in 0..L
    BY <1>1
  <2>2. u[p] = u[p-1] \o Append(Insertion(s, t, p), t[p]) /\ u[p-1] \in Seq(Symbols) /\ t[p] \in Symbols
    BY <1>1, <1>2, <1>4, <2>1
  <2>3. pos[p] = Len(u[p]) /\ pos[p-1] = Len(u[p-1])
    BY <1>4, <2>1
  <2>4. PICK d \in Delimiters : Insertion(s, t, p) = << >> \/ Insertion(s, t, p) = <<d>>
    BY InsertionShape DEF Delimiters
  <2>5. d \in Symbols
    BY DEF Symbols
  <2>6. CASE Insertion(s, t, p) = << >>
    <3>1. p \notin P
      BY <1>3, <2>6 DEF Puts
    <3>2. u[p] = u[p-1] \o Append(<< >>, t[p])
      BY <2>2, <2>6, Zenon
    <3>3. /\ Len(u[p]) = Len(u[p-1]) + 1 /\ (\A i \in 1..Len(u[p-1]) : u[p][i] = u[p-1][i])
          /\ u[p][Len(u[p-1]) + 1] = t[p]
      BY <2>2, <2>5, <3>2, Appended
    <3> QED
      BY <2>3, <3>1, <3>3, Zenon
  <2>7. CASE Insertion(s, t, p) = <<d>>
    <3>1. p \in P
      <4>1. <<d>> # << >>
        OBVIOUS
      <4> QED
        BY <1>3, <2>7, <4>1, Zenon DEF Puts
    <3>2. u[p] = u[p-1] \o Append(<<d>>, t[p])
      BY <2>2, <2>7, Zenon
    <3>3. /\ Len(u[p]) = Len(u[p-1]) + 2 /\ (\A i \in 1..Len(u[p-1]) : u[p][i] = u[p-1][i])
          /\ u[p][Len(u[p-1]) + 1] = d /\ u[p][Len(u[p-1]) + 2] = t[p]
      BY <2>2, <2>5, <3>2, Appended
    <3>4. (Len(u[p-1]) + 2) - 1 = Len(u[p-1]) + 1
      BY <2>2
    <3> QED
      BY <2>3, <3>1, <3>3, <3>4, Zenon
  <2> QED
    BY <2>4, <2>6, <2>7
<1>6. Widening(L, P, pos)
  <2>1. \A p \in 0..L : pos[p] \in Nat
    BY <1>4
  <2>2. 0 \in 0..L /\ Len(u[0]) = 0
    BY <1>1, <1>2
  <2>3. pos[0] = 0
    BY <1>4, <2>2
  <2>4. pos \in [0..L -> Nat]
    BY <2>1 DEF pos
  <2> QED
    BY <1>5, <2>3, <2>4 DEF Widening
<1>7. \A p \in 1..L : u[L][pos[p]] = t[p] /\ (p \in P => u[L][pos[p] - 1] \in Delimiters)
  <2>1. WrittenBehind(L, P, pos, t, u, Delimiters)
    BY <1>5, Zenon DEF WrittenBehind
  <2> QED
    BY <1>1, <1>6, <2>1, WrittenStays
<1>8. Separated(s, t) \in Seq(Symbols) /\ Len(Separated(s, t)) = pos[L]
  <2>1. L \in 0..L
    BY <1>1
  <2> QED
    BY <1>2, <1>4, <2>1
<1>9. Widened(s, t, Separated(s, t), pos)
  BY <1>2, <1>3, <1>6, <1>7, <1>8 DEF Widened, L, P
<1> QED
  BY <1>9

\* Every place of r is one of t's or one of an inserted delimiter.
Covers(s, t, r, pos) ==
  /\ \A p, q \in 0..Len(t) : p < q => pos[p] < pos[q]
  /\ \A p \in 1..Len(t) : pos[p] \in 1..Len(r)
  /\ \A i \in 1..Len(r) : \E p \in 1..Len(t) : i = pos[p] \/ (Puts(s, t, p) /\ i = pos[p] - 1)

(***************************************************************************)
(* The places of a widened target.                                          *)
(***************************************************************************)
LEMMA WidenedFacts ==
  ASSUME NEW s, NEW t, Len(t) \in Nat, NEW r, NEW pos, Widened(s, t, r, pos)
  PROVE  Covers(s, t, r, pos)
<1>1. Widening(Len(t), PutPlaces(s, t), pos) /\ Len(r) = pos[Len(t)]
  BY DEF Widened
<1>2. \A p \in PutPlaces(s, t) : Puts(s, t, p)
  BY DEF PutPlaces
<1>3. /\ \A p, q \in 0..Len(t) : p < q => pos[p] < pos[q]
      /\ \A p \in 1..Len(t) : pos[p] \in 1..pos[Len(t)]
      /\ \A i \in 1..pos[Len(t)] :
           \E p \in 1..Len(t) : i = pos[p] \/ (p \in PutPlaces(s, t) /\ i = pos[p] - 1)
  BY <1>1, WideningFacts
<1> QED
  BY <1>1, <1>2, <1>3, Zenon DEF Covers

PlacesOf(t, X) == {p \in 1..Len(t) : t[p] \in X}

(***************************************************************************)
(* Everything but the delimiters moves along with the places.                *)
(***************************************************************************)
LEMMA WidenedMoves ==
  ASSUME NEW s, NEW t, Len(t) \in Nat, NEW r, NEW pos, Widened(s, t, r, pos),
         NEW X, X \cap Delimiters = {}
  PROVE  Moves(PlacesOf(t, X), PlacesOf(r, X), pos)
<1> DEFINE S == PlacesOf(t, X)
           T == PlacesOf(r, X)
<1>1. /\ \A p, q \in 0..Len(t) : p < q => pos[p] < pos[q]
      /\ \A p \in 1..Len(t) : pos[p] \in 1..Len(r)
      /\ \A i \in 1..Len(r) : \E p \in 1..Len(t) : i = pos[p] \/ (Puts(s, t, p) /\ i = pos[p] - 1)
  <2>1. Covers(s, t, r, pos)
    BY WidenedFacts
  <2> QED
    BY <2>1, Zenon DEF Covers
<1>2. \A p \in 1..Len(t) : r[pos[p]] = t[p] /\ (Puts(s, t, p) => r[pos[p] - 1] \in Delimiters)
  BY DEF Widened
<1>3. /\ \A p : p \in S <=> p \in 1..Len(t) /\ t[p] \in X
      /\ \A i : i \in T <=> i \in 1..Len(r) /\ r[i] \in X
  BY DEF PlacesOf
<1> HIDE DEF S, T
<1>4. \A p \in S : pos[p] \in T
  BY <1>1, <1>2, <1>3
<1>5. \A p, q \in S : p < q => pos[p] < pos[q]
  <2>1. \A p \in S : p \in 0..Len(t)
    BY <1>3
  <2> QED
    BY <1>1, <2>1
<1>6. ASSUME NEW i \in T
      PROVE  \E p \in S : pos[p] = i
  <2>1. PICK p \in 1..Len(t) : i = pos[p] \/ (Puts(s, t, p) /\ i = pos[p] - 1)
    BY <1>1, <1>3
  <2>2. i = pos[p]
    BY <1>2, <1>3, <2>1
  <2> QED
    BY <1>2, <1>3, <2>2
<1> QED
  BY <1>4, <1>5, <1>6 DEF Moves, S, T

(***************************************************************************)
(* The tokens move along with the places.                                    *)
(***************************************************************************)
LEMMA WidenedCarries ==
  ASSUME NEW s \in Seq(Symbols), NEW t, Carries(s, t), NEW r, NEW pos, Widened(s, t, r, pos)
  PROVE  /\ Carries(s, r)
         /\ \A n \in 1..Len(Places(s)) : Spans(s, r)[n] = pos[Spans(s, t)[n]]
<1> DEFINE N == Len(Places(s))
           S == TokensOf(t)
           T == TokensOf(r)
<1>1. t \in Seq(Symbols) /\ Cardinality(S) = N /\ \A n \in 1..N : t[Ascending(S)[n]] = s[Places(s)[n]]
  BY DEF Carries
<1>2. r \in Seq(Symbols) /\ \A p \in 1..Len(t) : r[pos[p]] = t[p]
  BY DEF Widened
<1>3. S \in SUBSET (1..Len(t)) /\ T \in SUBSET (1..Len(r))
  BY DEF TokensOf
<1>4. Len(t) \in Nat /\ Len(r) \in Nat
  BY <1>1, <1>2
<1>5. Tokens \cap Delimiters = {}
  BY SymbolAssumption
<1>6. Moves(S, T, pos)
  <2>1. Moves(PlacesOf(t, Tokens), PlacesOf(r, Tokens), pos)
    BY <1>4, <1>5, WidenedMoves
  <2> QED
    BY <2>1 DEF PlacesOf, TokensOf
<1> HIDE DEF S, T, N
<1>7. /\ Cardinality(T) = Cardinality(S) /\ Ascending(S) \in [1..Cardinality(S) -> S]
      /\ \A n \in 1..Cardinality(S) : Ascending(T)[n] = pos[Ascending(S)[n]]
  <2>1. Moved(S, T, pos)
    BY <1>3, <1>4, <1>6, OrderMoves
  <2> QED
    BY <2>1 DEF Moved
<1>8. \A n \in 1..N : r[Ascending(T)[n]] = s[Places(s)[n]]
  <2> SUFFICES ASSUME NEW n \in 1..N PROVE r[Ascending(T)[n]] = s[Places(s)[n]]
    OBVIOUS
  <2>1. n \in 1..Cardinality(S)
    BY <1>1
  <2>2. Ascending(S)[n] \in 1..Len(t)
    BY <1>3, <1>7, <2>1
  <2> QED
    BY <1>1, <1>2, <1>7, <2>1, <2>2
<1>9. Carries(s, r)
  BY <1>1, <1>2, <1>7, <1>8 DEF Carries, T, N
<1>10. \A n \in 1..N : Spans(s, r)[n] = Ascending(T)[n]
  BY <1>9, SpansAreTokens DEF T, N
<1>11. \A n \in 1..N : Spans(s, t)[n] = Ascending(S)[n]
  BY SpansAreTokens DEF S, N
<1>12. \A n \in 1..N : Spans(s, r)[n] = pos[Spans(s, t)[n]]
  BY <1>1, <1>7, <1>10, <1>11
<1> QED
  BY <1>9, <1>12 DEF N

\* Next to the place p of t, i in r, stands what stood there or a delimiter.
Edges(s, t, r, i, p) ==
  /\ IF Puts(s, t, p) THEN At(r, i - 1) \in Delimiters ELSE At(r, i - 1) = At(t, p - 1)
  /\ IF p < Len(t) /\ Puts(s, t, p + 1) THEN At(r, i + 1) \in Delimiters
     ELSE At(r, i + 1) = At(t, p + 1)

(***************************************************************************)
(* What stands at the edges of a place after the separation.                 *)
(***************************************************************************)
LEMMA WidenedEdges ==
  ASSUME NEW s, NEW t, NEW L \in Nat, DOMAIN t = 1..L, Len(t) = L,
         NEW r, NEW M \in Nat, DOMAIN r = 1..M, Len(r) = M,
         NEW pos, Widened(s, t, r, pos), NEW p \in 1..L
  PROVE  Edges(s, t, r, pos[p], p)
<1>1. /\ M = pos[L] /\ pos[0] = 0 /\ p \in Nat /\ p - 1 \in Nat /\ p <= L /\ p \in 0..L /\ p - 1 \in 0..L
  BY DEF Widened, Widening
<1>2. /\ \A q \in 0..L : pos[q] \in Nat
      /\ \A q \in 1..L : /\ pos[q] = (IF Puts(s, t, q) THEN pos[q-1] + 2 ELSE pos[q-1] + 1)
                         /\ r[pos[q]] = t[q]
                         /\ Puts(s, t, q) => r[pos[q] - 1] \in Delimiters
  <2>1. Widening(L, PutPlaces(s, t), pos)
    BY DEF Widened
  <2>2. \A q \in 1..L : q \in PutPlaces(s, t) <=> Puts(s, t, q)
    BY DEF PutPlaces
  <2>3. \A q \in 1..L : r[pos[q]] = t[q] /\ (Puts(s, t, q) => r[pos[q] - 1] \in Delimiters)
    BY DEF Widened
  <2>4. \A q \in 0..L : pos[q] \in Nat
    BY <2>1 DEF Widening
  <2>5. \A q \in 1..L : pos[q] = (IF q \in PutPlaces(s, t) THEN pos[q-1] + 2 ELSE pos[q-1] + 1)
    BY <2>1, Zenon DEF Widening
  <2> QED
    BY <2>2, <2>3, <2>4, <2>5
<1>3. \A q \in 1..L : pos[q] \in 1..M
  <2>1. Covers(s, t, r, pos)
    BY WidenedFacts
  <2> QED
    BY <2>1, Zenon DEF Covers
<1>4. /\ pos[p-1] \in Nat /\ pos[p] \in 1..M
      /\ pos[p] = (IF Puts(s, t, p) THEN pos[p-1] + 2 ELSE pos[p-1] + 1)
  BY <1>1, <1>2, <1>3
<1>5. IF Puts(s, t, p) THEN At(r, pos[p] - 1) \in Delimiters ELSE At(r, pos[p] - 1) = At(t, p - 1)
  <2>1. CASE Puts(s, t, p)
    <3>1. pos[p] - 1 \in DOMAIN r /\ r[pos[p] - 1] \in Delimiters
      BY <1>1, <1>2, <1>4, <2>1
    <3> QED
      BY <2>1, <3>1 DEF At
  <2>2. CASE ~Puts(s, t, p) /\ p = 1
    <3>1. pos[p] - 1 = 0 /\ p - 1 = 0 /\ 0 \notin DOMAIN r /\ 0 \notin DOMAIN t
      BY <1>1, <1>4, <2>2
    <3> QED
      BY <2>2, <3>1 DEF At
  <2>3. CASE ~Puts(s, t, p) /\ p # 1
    <3>1. p - 1 \in 1..L
      BY <1>1, <2>3
    <3>2. pos[p] - 1 = pos[p-1] /\ pos[p-1] \in DOMAIN r /\ p - 1 \in DOMAIN t /\ r[pos[p-1]] = t[p-1]
      BY <1>1, <1>2, <1>3, <1>4, <2>3, <3>1
    <3> QED
      BY <2>3, <3>2 DEF At
  <2> QED
    BY <2>1, <2>2, <2>3
<1>6. IF p < Len(t) /\ Puts(s, t, p + 1) THEN At(r, pos[p] + 1) \in Delimiters
      ELSE At(r, pos[p] + 1) = At(t, p + 1)
  <2>1. CASE p = L
    <3>1. pos[p] + 1 \notin DOMAIN r /\ p + 1 \notin DOMAIN t /\ ~(p < L)
      BY <1>1, <1>4, <2>1
    <3> QED
      BY <3>1 DEF At
  <2>2. CASE p < L
    <3>1. p + 1 \in 1..L /\ (p + 1) - 1 = p
      BY <1>1, <2>2
    <3>2. /\ pos[p+1] = (IF Puts(s, t, p + 1) THEN pos[p] + 2 ELSE pos[p] + 1) /\ r[pos[p+1]] = t[p+1]
          /\ Puts(s, t, p + 1) => r[pos[p+1] - 1] \in Delimiters
          /\ pos[p+1] \in 1..Len(r) /\ pos[p] \in Nat
      BY <1>1, <1>2, <1>3, <3>1
    <3>3. pos[p] + 1 \in 1..M /\ p + 1 \in DOMAIN t
      BY <3>1, <3>2
    <3>4. CASE Puts(s, t, p + 1)
      <4>1. pos[p+1] - 1 = pos[p] + 1
        BY <3>2, <3>4
      <4> QED
        BY <2>2, <3>2, <3>3, <3>4, <4>1 DEF At
    <3>5. CASE ~Puts(s, t, p + 1)
      <4>1. pos[p+1] = pos[p] + 1
        BY <3>2, <3>5
      <4> QED
        BY <2>2, <3>2, <3>3, <3>5, <4>1 DEF At
    <3> QED
      BY <3>4, <3>5
  <2> QED
    BY <1>1, <2>1, <2>2
<1> QED
  BY <1>5, <1>6, Zenon DEF Edges

(***************************************************************************)
(* The separation leaves prose and tokens as they were.                      *)
(***************************************************************************)
LEMMA ProseStays ==
  ASSUME NEW s, NEW t \in Seq(Symbols), NEW r, NEW pos, Widened(s, t, r, pos)
  PROVE  Undelimited(r) = Undelimited(t)
<1> DEFINE X == Symbols \ Delimiters
           S == PlacesOf(t, X)
           T == PlacesOf(r, X)
<1>1. r \in Seq(Symbols) /\ \A p \in 1..Len(t) : r[pos[p]] = t[p]
  BY DEF Widened
<1>2. S \in SUBSET (1..Len(t)) /\ T \in SUBSET (1..Len(r))
  BY DEF PlacesOf
<1>3. Len(t) \in Nat /\ Len(r) \in Nat
  BY <1>1
<1>4. Moves(S, T, pos)
  BY <1>3, WidenedMoves
<1>5. S = {p \in DOMAIN t : t[p] \notin Delimiters} /\ T = {p \in DOMAIN r : r[p] \notin Delimiters}
  <2>1. \A q \in Seq(Symbols) : PlacesOf(q, X) = {p \in DOMAIN q : q[p] \notin Delimiters}
    BY DEF PlacesOf
  <2> QED
    BY <1>1, <2>1
<1>6. Undelimited(t) = [n \in DOMAIN Ascending(S) |-> t[Ascending(S)[n]]]
  BY <1>5, Zenon DEF Undelimited
<1>7. Undelimited(r) = [n \in DOMAIN Ascending(T) |-> r[Ascending(T)[n]]]
  BY <1>5, Zenon DEF Undelimited
<1> HIDE DEF S, T
<1>8. /\ Ascending(S) \in [1..Cardinality(S) -> S]
      /\ Ascending(T) = [n \in 1..Cardinality(S) |-> pos[Ascending(S)[n]]]
  <2>1. Moved(S, T, pos)
    BY <1>2, <1>3, <1>4, OrderMoves
  <2> QED
    BY <2>1, Zenon DEF Moved
<1>9. /\ DOMAIN Ascending(S) = 1..Cardinality(S) /\ DOMAIN Ascending(T) = 1..Cardinality(S)
      /\ \A n \in 1..Cardinality(S) : Ascending(T)[n] = pos[Ascending(S)[n]]
  BY <1>8
<1>10. ASSUME NEW n \in 1..Cardinality(S)
       PROVE  r[Ascending(T)[n]] = t[Ascending(S)[n]]
  <2>1. Ascending(S)[n] \in 1..Len(t)
    BY <1>2, <1>8
  <2> QED
    BY <1>1, <1>9, <2>1
<1> QED
  BY <1>6, <1>7, <1>9, <1>10

(***************************************************************************)
(* Where something is put in.                                               *)
(***************************************************************************)
LEMMA InsertionPlaces ==
  ASSUME NEW s, NEW t, NEW p
  PROVE  /\ p \in Blocked(s, t) => ~Puts(s, t, p)
         /\ p \in Spaced(s, t) => Puts(s, t, p)
         /\ p \notin Blocked(s, t) /\ (\E n \in Gaps(s) : Joined(s, t, n) /\ Spans(s, t)[n + 1] = p)
              => Puts(s, t, p)
<1> DEFINE here == {n \in Gaps(s) : Joined(s, t, n) /\ Spans(s, t)[n + 1] = p}
           put == <<Delimiter(GapText(s, CHOOSE n \in here : TRUE))>>
<1>1. put # << >> /\ <<"space">> # << >>
  OBVIOUS
<1>2. Insertion(s, t, p) = IF here # {} /\ p \notin Blocked(s, t) THEN put
                           ELSE IF p \in Spaced(s, t) THEN <<"space">> ELSE << >>
  BY DEF Insertion
<1>3. p \in Blocked(s, t) => p \notin Spaced(s, t)
  BY DEF Spaced
<1>4. (\E n \in Gaps(s) : Joined(s, t, n) /\ Spans(s, t)[n + 1] = p) => here # {}
  OBVIOUS
<1> HIDE DEF here, put
<1> QED
  BY <1>1, <1>2, <1>3, <1>4 DEF Puts

(***************************************************************************)
(* A separated target is valid exactly if no text between tokens was left    *)
(* out.                                                                     *)
(***************************************************************************)
LEMMA ValidatedSeparated ==
  ASSUME NEW s \in Seq(Symbols), NEW t, Carries(s, t)
  PROVE  Blocked(s, t) = {} <=> Validated(s, Separated(s, t))
<1> DEFINE r == Separated(s, t)
           N == Len(Places(s))
           f == Spans(s, t)
           h == Spans(s, r)
<1>1. /\ t \in Seq(Symbols) /\ Len(t) \in Nat /\ N \in Nat /\ DOMAIN Places(s) = 1..N
      /\ \A n \in 1..N : f[n] \in 1..Len(t)
      /\ \A m, n \in 1..N : m < n => f[m] < f[n]
      /\ ~Missing(s, t)
  <2>1. t \in Seq(Symbols)
    BY DEF Carries
  <2>2. N \in Nat /\ DOMAIN Places(s) = 1..N
    BY PlacesFacts
  <2>3. /\ \A n \in 1..N : f[n] \in TokensOf(t)
        /\ \A m, n \in 1..N : m < n => f[m] < f[n]
        /\ ~Missing(s, t)
    BY SpansAreTokens
  <2>4. TokensOf(t) \subseteq 1..Len(t)
    BY DEF TokensOf
  <2> QED
    BY <2>1, <2>2, <2>3, <2>4
<1>2. PICK pos : Widened(s, t, r, pos)
  BY <1>1, SeparatedWidens
<1> HIDE DEF r
<1>3. Carries(s, r) /\ \A n \in 1..N : h[n] = pos[f[n]]
  BY <1>2, WidenedCarries
<1>4. ~Missing(s, r)
  BY <1>3, SpansAreTokens
<1>5. /\ \A p \in 0..Len(t) : pos[p] \in Nat
      /\ \A p \in 1..Len(t) : pos[p] = (IF Puts(s, t, p) THEN pos[p-1] + 2 ELSE pos[p-1] + 1)
      /\ \A p, q \in 0..Len(t) : p < q => pos[p] < pos[q]
  <2>1. Widening(Len(t), PutPlaces(s, t), pos)
    BY <1>2 DEF Widened
  <2>2. Covers(s, t, r, pos)
    BY <1>1, <1>2, WidenedFacts
  <2>3. \A p \in 1..Len(t) : p \in PutPlaces(s, t) <=> Puts(s, t, p)
    BY DEF PutPlaces
  <2>4. \A p \in 0..Len(t) : pos[p] \in Nat
    BY <2>1 DEF Widening
  <2>5. \A p \in 1..Len(t) : pos[p] = (IF p \in PutPlaces(s, t) THEN pos[p-1] + 2 ELSE pos[p-1] + 1)
    BY <2>1, Zenon DEF Widening
  <2>6. \A p, q \in 0..Len(t) : p < q => pos[p] < pos[q]
    BY <2>2, Zenon DEF Covers
  <2> QED
    BY <2>3, <2>4, <2>5, <2>6
<1>6. \A n \in Gaps(s) : n \in 1..N /\ n + 1 \in 1..N
  BY <1>1 DEF Gaps
<1>7. ~IsIdentifier("end") /\ \A d \in Delimiters : ~IsIdentifier(d)
  BY SymbolAssumption DEF IsIdentifier, Tokens
<1>8. ASSUME NEW n \in 1..N
      PROVE  Edges(s, t, r, pos[f[n]], f[n])
  <2>1. DOMAIN t = 1..Len(t) /\ f[n] \in 1..Len(t) /\ Len(t) \in Nat
    BY <1>1
  <2>2. DOMAIN r = 1..Len(r) /\ Len(r) \in Nat
    BY <1>2 DEF Widened
  <2> QED
    BY <1>2, <2>1, <2>2, WidenedEdges
<1>9. ASSUME NEW n \in Gaps(s)
      PROVE  Joined(s, r, n) <=> Joined(s, t, n) /\ ~Puts(s, t, f[n + 1])
  <2> DEFINE p == f[n]
             q == f[n + 1]
  <2>1. h[n] = pos[p] /\ h[n + 1] = pos[q] /\ p \in 1..Len(t) /\ q \in 1..Len(t) /\ p < q
    BY <1>1, <1>3, <1>6
  <2>2. (Joined(s, r, n) <=> pos[p] + 1 = pos[q]) /\ (Joined(s, t, n) <=> p + 1 = q)
    BY <2>1 DEF Joined
  <2> HIDE DEF p, q
  <2>3. pos[p] \in Nat /\ pos[q] \in Nat /\ pos[q-1] \in Nat /\ p \in 0..Len(t) /\ q - 1 \in 0..Len(t)
    BY <1>1, <1>5, <2>1
  <2>4. CASE p + 1 = q
    <3>1. q - 1 = p
      BY <2>1, <2>4
    <3> QED
      BY <1>5, <2>1, <2>2, <2>3, <2>4, <3>1 DEF q
  <2>5. CASE p + 1 # q
    <3>1. p < q - 1
      BY <2>1, <2>5
    <3>2. pos[p] < pos[q-1] /\ pos[q-1] < pos[q]
      BY <1>5, <2>1, <2>3, <3>1
    <3> QED
      BY <2>2, <2>3, <2>5, <3>2
  <2> QED
    BY <2>4, <2>5
<1>10. ASSUME Blocked(s, t) # {}
      PROVE  ~Validated(s, r)
  <2>1. PICK n \in Gaps(s) : Joined(s, t, n) /\ f[n + 1] \in Blocked(s, t)
    BY <1>10 DEF Blocked
  <2>2. ~Puts(s, t, f[n + 1])
    BY <2>1, InsertionPlaces
  <2>3. Joined(s, r, n)
    BY <1>9, <2>1, <2>2
  <2> QED
    BY <2>3 DEF Validated
<1>11. ASSUME Blocked(s, t) = {}
       PROVE  Validated(s, r)
  <2>1. ASSUME NEW n \in Gaps(s), Joined(s, t, n)
        PROVE  Puts(s, t, f[n + 1])
    BY <1>11, <2>1, InsertionPlaces
  <2>2. \A n \in Gaps(s) : ~Joined(s, r, n)
    BY <1>9, <2>1
  <2>3. ASSUME NEW n \in 1..N
        PROVE  ~GluedLeft(s, r, n)
    <3> SUFFICES ASSUME GluedLeft(s, r, n) PROVE FALSE
      OBVIOUS
    <3>1. IsIdentifier(At(r, pos[f[n]] - 1))
      BY <1>3 DEF GluedLeft
    <3>2. ~Puts(s, t, f[n]) /\ At(r, pos[f[n]] - 1) = At(t, f[n] - 1)
      BY <1>7, <1>8, <3>1 DEF Edges
    <3>3. GluedLeft(s, t, n)
      BY <3>1, <3>2 DEF GluedLeft
    <3>4. f[n] \in Spaced(s, t)
      BY <1>1, <1>11, <3>3 DEF Spaced
    <3> QED
      BY <3>2, <3>4, InsertionPlaces
  <2>4. ASSUME NEW n \in 1..N
        PROVE  ~GluedRight(s, r, n)
    <3> SUFFICES ASSUME GluedRight(s, r, n) PROVE FALSE
      OBVIOUS
    <3>1. IsIdentifier(At(r, pos[f[n]] + 1))
      BY <1>3 DEF GluedRight
    <3>2. /\ ~(f[n] < Len(t) /\ Puts(s, t, f[n] + 1))
          /\ At(r, pos[f[n]] + 1) = At(t, f[n] + 1)
      BY <1>7, <1>8, <3>1 DEF Edges
    <3>3. GluedRight(s, t, n)
      BY <3>1, <3>2 DEF GluedRight
    <3>4. f[n] + 1 \in Spaced(s, t)
      BY <1>1, <1>11, <3>3 DEF Spaced
    <3>5. f[n] + 1 \in DOMAIN t
      BY <1>7, <3>1, <3>2 DEF At
    <3>6. f[n] < Len(t)
      BY <1>1, <3>5
    <3> QED
      BY <3>2, <3>4, <3>6, InsertionPlaces
  <2> QED
    BY <1>1, <1>4, <2>2, <2>3, <2>4 DEF Validated
<1> QED
  BY <1>10, <1>11 DEF r

-----------------------------------------------------------------------------
(* The restoration of an answer. *)

(***************************************************************************)
(* A marker is found again.                                                  *)
(***************************************************************************)
LEMMA MarkerFound ==
  ASSUME NEW n \in 1..Len(Markers)
  PROVE  (CHOOSE m \in DOMAIN Markers : Markers[m] = Markers[n]) = n /\ IsMarker(Markers[n])
<1>1. n \in DOMAIN Markers /\ \A m \in DOMAIN Markers : Markers[m] = Markers[n] => m = n
  BY SymbolAssumption
<1> QED
  BY <1>1, Zenon DEF IsMarker

(***************************************************************************)
(* An answer with the right markers and no token in its prose has the tokens  *)
(* of the source once restored.                                              *)
(***************************************************************************)
LEMMA RestoredCarries ==
  ASSUME NEW s \in Seq(Symbols), Len(Places(s)) <= Len(Markers),
         NEW w, w \in Seq(AnswerSymbols), Restorable(s, w), Distinct(w)
  PROVE  Carries(s, Restored(s, w))
<1> DEFINE N == Len(Places(s))
           S == {i \in DOMAIN w : IsMarker(w[i])}
           t == Restored(s, w)
           token(i) == s[Places(s)[CHOOSE n \in DOMAIN Markers : Markers[n] = w[i]]]
<1>1. /\ N \in Nat /\ Len(Markers) \in Nat /\ DOMAIN Places(s) = 1..N
      /\ \A n \in 1..N : s[Places(s)[n]] \in Tokens
  BY PlacesFacts, SymbolAssumption DEF IsToken
<1>2. Len(w) \in Nat /\ DOMAIN w = 1..Len(w) /\ S \in SUBSET (1..Len(w))
  OBVIOUS
<1>3. \A i \in 1..Len(w) : ~IsMarker(w[i]) => w[i] \in Symbols /\ w[i] \notin Tokens
  BY <1>2 DEF AnswerSymbols, IsMarker, Distinct
<1>4. \A i : i \in S <=> i \in 1..Len(w) /\ IsMarker(w[i])
  BY <1>2
<1>5. t = [i \in 1..Len(w) |-> IF IsMarker(w[i]) THEN token(i) ELSE w[i]]
  BY <1>2, Zenon DEF Restored
<1>6. Len(Ascending(S)) = N /\ \A n \in DOMAIN Ascending(S) : w[Ascending(S)[n]] = Markers[n]
  BY Zenon DEF Restorable
<1> HIDE DEF N, S, t
<1>7. /\ Cardinality(S) = N /\ Ascending(S) \in [1..N -> S]
      /\ \A i \in S : \E n \in 1..N : Ascending(S)[n] = i
  <2>1. /\ Len(Ascending(S)) = Cardinality(S) /\ Ascending(S) \in [1..Cardinality(S) -> S]
        /\ \A i \in S : \E n \in 1..Cardinality(S) : Ascending(S)[n] = i
    BY <1>2, AscendingFacts
  <2> QED
    BY <1>6, <2>1
<1>8. ASSUME NEW n \in 1..N
      PROVE  Ascending(S)[n] \in S /\ token(Ascending(S)[n]) = s[Places(s)[n]]
  <2>1. Ascending(S)[n] \in S
    BY <1>7
  <2>2. w[Ascending(S)[n]] = Markers[n]
    BY <1>6, <1>7
  <2>3. n \in 1..Len(Markers)
    BY <1>1 DEF N
  <2>4. (CHOOSE m \in DOMAIN Markers : Markers[m] = Markers[n]) = n
    BY <2>3, MarkerFound
  <2> QED
    BY <2>1, <2>2, <2>4, Zenon
<1> HIDE DEF token
<1>9. \A i \in S : token(i) \in Tokens
  <2> SUFFICES ASSUME NEW i \in S PROVE token(i) \in Tokens
    OBVIOUS
  <2>1. PICK n \in 1..N : Ascending(S)[n] = i
    BY <1>7
  <2>2. token(Ascending(S)[n]) = s[Places(s)[n]]
    BY <1>8
  <2> QED
    BY <1>1, <2>1, <2>2, Zenon DEF N
<1>10. t \in Seq(Symbols) /\ Len(t) = Len(w)
  <2>1. \A i \in 1..Len(w) : (IF IsMarker(w[i]) THEN token(i) ELSE w[i]) \in Symbols
    BY <1>3, <1>4, <1>9 DEF Symbols
  <2>2. t \in [1..Len(w) -> Symbols]
    BY <1>5, <2>1
  <2>3. t \in Seq(Symbols) /\ DOMAIN t = 1..Len(w)
    BY <1>2, <2>2, SeqDef
  <2> QED
    BY <1>2, <2>3, LenProperties
<1>11. \A i \in 1..Len(w) : t[i] = IF IsMarker(w[i]) THEN token(i) ELSE w[i]
  BY <1>5
<1>12. TokensOf(t) = S
  <2>1. \A i \in 1..Len(w) : t[i] \in Tokens <=> IsMarker(w[i])
    BY <1>3, <1>4, <1>9, <1>11
  <2>2. \A i : i \in TokensOf(t) <=> i \in 1..Len(w) /\ t[i] \in Tokens
    BY <1>10 DEF TokensOf
  <2> QED
    BY <1>4, <2>1, <2>2, Zenon
<1>13. \A n \in 1..N : t[Ascending(S)[n]] = s[Places(s)[n]]
  BY <1>4, <1>8, <1>11
<1> QED
  BY <1>7, <1>10, <1>12, <1>13, Zenon DEF Carries, N, t

(***************************************************************************)
(* A source that comes back as it was sent is restored to itself.            *)
(***************************************************************************)
LEMMA Lossless ==
  ASSUME NEW s \in Seq(Symbols), Len(Places(s)) <= Len(Markers)
  PROVE  ProtectionLossless(s)
<1> DEFINE N == Len(Places(s))
           w == Protected(s)
           number(i) == CHOOSE n \in DOMAIN Places(s) : Places(s)[n] = i
<1>1. /\ N \in Nat /\ Len(Markers) \in Nat /\ DOMAIN Places(s) = 1..N /\ N <= Len(Markers)
      /\ \A n \in 1..N : Places(s)[n] \in 1..Len(s) /\ IsToken(s, Places(s)[n])
      /\ \A i \in 1..Len(s) : IsToken(s, i) => \E n \in 1..N : Places(s)[n] = i
  BY PlacesFacts, SymbolAssumption
<1>2. \A m, n \in 1..N : m < n => Places(s)[m] < Places(s)[n]
  BY PlacesFacts DEF Increasing
<1>3. DOMAIN s = 1..Len(s) /\ \A i \in 1..Len(s) : s[i] \in Symbols
  OBVIOUS
<1>4. w = [i \in 1..Len(s) |-> IF IsToken(s, i) THEN Markers[number(i)] ELSE s[i]]
  BY <1>3, Zenon DEF Protected
<1>5. ASSUME NEW i \in 1..Len(s), IsToken(s, i)
      PROVE  number(i) \in 1..N /\ Places(s)[number(i)] = i
  BY <1>1, <1>5
<1> HIDE DEF N, w, number
<1>6. \A m, n \in 1..N : Places(s)[m] = Places(s)[n] => m = n
  <2> SUFFICES ASSUME NEW m \in 1..N, NEW n \in 1..N, m < n PROVE Places(s)[m] # Places(s)[n]
    OBVIOUS
  <2>1. Places(s)[m] < Places(s)[n] /\ Places(s)[m] \in Int /\ Places(s)[n] \in Int
    BY <1>1, <1>2
  <2> QED
    BY <2>1
<1>7. \A n \in 1..N : number(Places(s)[n]) = n
  BY <1>1, <1>5, <1>6
<1>8. \A i \in 1..Len(s) : IsMarker(s[i]) => FALSE
  BY <1>3, SymbolAssumption DEF IsMarker
<1>9. \A i \in 1..Len(s) : w[i] = IF IsToken(s, i) THEN Markers[number(i)] ELSE s[i]
  BY <1>4
<1>10. ASSUME NEW i \in 1..Len(s)
       PROVE  IsMarker(w[i]) <=> IsToken(s, i)
  <2>1. CASE IsToken(s, i)
    <3>1. number(i) \in 1..Len(Markers)
      BY <1>1, <1>5, <2>1
    <3> QED
      BY <1>9, <2>1, <3>1, MarkerFound
  <2>2. CASE ~IsToken(s, i)
    BY <1>8, <1>9, <2>2
  <2> QED
    BY <2>1, <2>2
<1>11. DOMAIN w = 1..Len(s)
  BY <1>4
<1>12. Ascending({i \in DOMAIN w : IsMarker(w[i])}) = Places(s)
  <2>1. {i \in DOMAIN w : IsMarker(w[i])} = {i \in DOMAIN s : IsToken(s, i)}
    BY <1>3, <1>10, <1>11
  <2> QED
    BY <2>1, Zenon DEF Places
<1>13. \A n \in 1..N : w[Places(s)[n]] = Markers[n]
  BY <1>1, <1>7, <1>9
<1>14. Restorable(s, w)
  BY <1>1, <1>12, <1>13, Zenon DEF Restorable
<1>15. Restored(s, w) = s
  <2> DEFINE back(i) == IF IsMarker(w[i])
                        THEN s[Places(s)[CHOOSE n \in DOMAIN Markers : Markers[n] = w[i]]] ELSE w[i]
  <2>1. Restored(s, w) = [i \in 1..Len(s) |-> back(i)]
    BY <1>11, Zenon DEF Restored
  <2>2. ASSUME NEW i \in 1..Len(s)
        PROVE  back(i) = s[i]
    <3>1. CASE IsToken(s, i)
      <4>1. number(i) \in 1..Len(Markers) /\ Places(s)[number(i)] = i
        BY <1>1, <1>5, <3>1
      <4>2. (CHOOSE n \in DOMAIN Markers : Markers[n] = Markers[number(i)]) = number(i)
        BY <4>1, MarkerFound
      <4>3. w[i] = Markers[number(i)] /\ IsMarker(w[i])
        BY <1>9, <1>10, <3>1
      <4> QED
        BY <4>1, <4>2, <4>3, Zenon
    <3>2. CASE ~IsToken(s, i)
      <4>1. w[i] = s[i] /\ ~IsMarker(w[i])
        BY <1>9, <1>10, <3>2
      <4> QED
        BY <4>1, Zenon
    <3> QED
      BY <3>1, <3>2
  <2>3. s = [i \in 1..Len(s) |-> s[i]]
    BY <1>3
  <2> HIDE DEF back
  <2> QED
    BY <2>1, <2>2, <2>3, Zenon
<1> QED
  BY <1>14, <1>15, Zenon DEF ProtectionLossless, w

(***************************************************************************)
(* The answers to a source are sequences of symbols and markers.             *)
(***************************************************************************)
LEMMA AnswersAreSequences ==
  ASSUME NEW s \in SourceTexts, NEW w \in AnswersTo(s)
  PROVE  w \in Seq(AnswerSymbols)
<1> DEFINE N == Len(Places(s))
           Q == Seq(AnswerSymbols)
<1>1. N \in Nat /\ \A n \in 1..N : Markers[n] \in AnswerSymbols
  <2>1. s \in Seq(Symbols) /\ N <= Len(Markers)
    BY TextAssumption
  <2>2. N \in Nat /\ Len(Markers) \in Nat /\ DOMAIN Markers = 1..Len(Markers)
    BY <2>1, PlacesFacts, SymbolAssumption
  <2>3. \A n \in 1..N : n \in DOMAIN Markers
    BY <2>1, <2>2
  <2> QED
    BY <2>2, <2>3 DEF AnswerSymbols
<1> DEFINE woven(proses) ==
             LET upto[n \in 0..N] ==
                   IF n = 0 THEN proses[0] ELSE Append(upto[n-1], Markers[n]) \o proses[n]
             IN upto[N]
<1>2. PICK proses : proses \in [0..N -> Proses] /\ w = woven(proses)
  <2>1. w \in {woven(proses) : proses \in [0..N -> Proses]}
    BY Zenon DEF AnswersTo
  <2> HIDE DEF woven
  <2> QED
    BY <2>1
<1>3. \A n \in 0..N : proses[n] \in Q
  BY <1>2, TextAssumption
<1> DEFINE step(r, n) == Append(r, Markers[n]) \o proses[n]
           next == [q \in (1..N) \X Q |-> step(q[2], q[1])]
           upto == CHOOSE upto : upto = [n \in 0..N |-> IF n = 0 THEN proses[0] ELSE step(upto[n-1], n)]
<1>4. w = upto[N]
  BY <1>2, Zenon
<1> HIDE DEF N
<1>5. \A n \in 1..N : \A r \in Q : step(r, n) \in Q
  <2> SUFFICES ASSUME NEW n \in 1..N, NEW r, r \in Q PROVE step(r, n) \in Q
    OBVIOUS
  <2>1. Markers[n] \in AnswerSymbols /\ proses[n] \in Seq(AnswerSymbols)
    BY <1>1, <1>3
  <2>2. Append(r, Markers[n]) \in Seq(AnswerSymbols)
    BY <2>1, AppendProperties
  <2> QED
    BY <2>1, <2>2, ConcatProperties
<1> HIDE DEF Q, step
<1>6. next \in [(1..N) \X Q -> Q]
  <2>1. ASSUME NEW q \in (1..N) \X Q PROVE step(q[2], q[1]) \in Q
    BY <1>5
  <2> QED
    BY <2>1
<1>7. proses[0] \in Q
  BY <1>1, <1>3
<1>8. PICK f : f \in [0..N -> Q] /\ f[0] = proses[0] /\ \A n \in 1..N : f[n] = next[<<n, f[n-1]>>]
  <2> HIDE DEF next
  <2>1. \E f : Stepwise(f, Q, proses[0], N, next)
    BY <1>1, <1>6, <1>7, StepwiseFunction
  <2> QED
    BY <2>1, Zenon DEF Stepwise
<1>9. ASSUME NEW n \in 1..N
      PROVE  f[n] = step(f[n-1], n)
  <2>1. n - 1 \in 0..N
    BY <1>1
  <2>2. f[n-1] \in Q
    BY <1>8, <2>1
  <2> QED
    BY <1>8, <2>2
<1> HIDE DEF next
<1>10. f = [n \in 0..N |-> IF n = 0 THEN proses[0] ELSE step(f[n-1], n)]
  BY <1>1, <1>8, <1>9
<1>11. upto = [n \in 0..N |-> IF n = 0 THEN proses[0] ELSE step(upto[n-1], n)]
  BY <1>10
<1> HIDE DEF upto
<1>12. upto[0] = proses[0] /\ \A n \in 1..N : upto[n] = step(upto[n-1], n)
  <2>1. 0 \in 0..N /\ \A n \in 1..N : n \in 0..N /\ n # 0
    BY <1>1
  <2> QED
    BY <1>11, <2>1
<1> DEFINE K == {n \in Nat : n <= N => upto[n] \in Q}
<1>13. N \in K
  <2>1. 0 \in K
    BY <1>7, <1>12
  <2>2. ASSUME NEW n \in Nat, n \in K PROVE n + 1 \in K
    <3> SUFFICES ASSUME n + 1 <= N PROVE upto[n+1] \in Q
      OBVIOUS
    <3>1. upto[n] \in Q /\ n + 1 \in 1..N /\ (n + 1) - 1 = n
      BY <1>1, <2>2
    <3> QED
      BY <1>5, <1>12, <3>1
  <2> HIDE DEF K
  <2> QED
    BY <1>1, <2>1, <2>2, Induction
<1> QED
  BY <1>1, <1>4, <1>13 DEF Q

(***************************************************************************)
(* Every source comes back as it was from an answer that changes nothing, and *)
(* every answer with the right markers is repaired.                          *)
(***************************************************************************)
LEMMA SourceRepaired ==
  ASSUME NEW s \in SourceTexts, NEW w \in AnswersTo(s)
  PROVE  ProtectionLossless(s) /\ SeparationRepairs(s, w)
<1>1. s \in Seq(Symbols) /\ Len(Places(s)) <= Len(Markers)
  BY TextAssumption
<1>2. ProtectionLossless(s)
  BY <1>1, Lossless
<1>3. ASSUME Restorable(s, w), Distinct(w)
      PROVE  /\ NothingLeftOut(s, w) <=> Validated(s, Separated(s, Restored(s, w)))
             /\ Undelimited(Separated(s, Restored(s, w))) = Undelimited(Restored(s, w))
  <2>1. PICK t : t = Restored(s, w)
    OBVIOUS
  <2>2. Carries(s, t)
    BY <1>1, <1>3, <2>1, AnswersAreSequences, RestoredCarries
  <2>3. Blocked(s, t) = {} <=> Validated(s, Separated(s, t))
    BY <1>1, <2>2, ValidatedSeparated
  <2>4. t \in Seq(Symbols)
    BY <2>2 DEF Carries
  <2>5. ~Missing(s, t)
    BY <1>1, <2>2, SpansAreTokens
  <2>6. PICK pos : Widened(s, t, Separated(s, t), pos)
    BY <1>1, <2>4, <2>5, SeparatedWidens
  <2>7. Undelimited(Separated(s, t)) = Undelimited(t)
    BY <2>4, <2>6, ProseStays
  <2> QED
    BY <2>1, <2>3, <2>7, Zenon DEF NothingLeftOut
<1> QED
  BY <1>2, <1>3, Zenon DEF SeparationRepairs

\* The source and the answer that are restored.
TokensInv == user = "tokens" => text \in SourceTexts /\ answer \in AnswersTo(text)

(***************************************************************************)
(* For every source and every answer to it, protecting loses nothing and an   *)
(* answer with the right markers is repaired unless a text between two tokens *)
(* was left out (protect_tokens, restore_tokens, separate_protected_tokens,   *)
(* validate_protected_tokens).                                               *)
(***************************************************************************)
THEOREM TokensKept == StackSpec => []TokensRepaired
<1>1. StackInit => TokensInv
  BY DEF StackInit, TokensInv
<1>2. TokensInv /\ [StackNext]_allVars => TokensInv'
  <2> SUFFICES ASSUME TokensInv, [StackNext]_allVars PROVE TokensInv'
    OBVIOUS
  <2>1. UNCHANGED stack
    BY DEF StackNext, Exchange, ScriptSteps, ServiceSteps, allVars
  <2> QED
    BY <2>1 DEF stack, TokensInv
<1>3. TokensInv => TokensRepaired
  BY SourceRepaired DEF TokensInv, TokensRepaired
<1> QED
  BY <1>1, <1>2, <1>3, PTL DEF StackSpec
=============================================================================
