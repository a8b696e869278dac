--------------------------- MODULE KvBatch_proofs ---------------------------
(***************************************************************************)
(* Proofs about the batch scripts, for any jobs, any number of runs and any  *)
(* number of failed calls, late inputs, wrong results and kills.            *)
(***************************************************************************)
EXTENDS KvBatch, FiniteSetTheorems, SequenceTheorems, TLAPS

-----------------------------------------------------------------------------
(* The inductive invariant. *)

Windows ==
  {"any", "main", "menu", "submenu", "open", "duplicate", "name", "type", "result", "property", "search"}

JobSet == DOMAIN Jobs
InputType == [name : Names, job : JobSet, result : BOOLEAN, late : BOOLEAN]
EditorType ==
  [top : Windows, field : JobSet \cup {0}, shown : BOOLEAN, clip : BOOLEAN, applied : [JobSet -> Nat]]

\* The steps that fill in the fields of a job and that change the project.
FillStep ==
  CASE kind = "import" -> 8 [] kind = "comments" -> 3 [] kind = "properties" -> 4 [] OTHER -> 1
ChangeStep ==
  CASE kind = "import" -> 10 [] kind \in {"comments", "properties"} -> 4 [] OTHER -> 1

InJob == pc \in {"input", "check"}

\* Every variable has its type.
TypeInv ==
  /\ kind \in Kinds /\ Editor \in EditorType
  /\ pending \in Seq(InputType) /\ \A i \in 1..Len(pending) : pending[i].late
  /\ file # << >> => file = <<file[1]>> /\ file[1] \in SUBSET JobSet
  /\ step \in Nat \ {0} /\ job \in Nat /\ done \in SUBSET JobSet
  /\ late \in SUBSET JobSet /\ cut \in [JobSet -> Nat]

\* Where the script is, and what the state file then holds.
PlaceInv ==
  /\ pc \in {"idle", "next", "input", "check", "write"}
  /\ InJob \/ pc = "write" => job \in JobSet
  /\ InJob => job \notin done
  /\ pc = "check" => kind = "comments" /\ step = 6
  /\ pc # "idle" => file # << >> /\ (HasState => done = file[1] \cup (IF pc = "write" THEN {job} ELSE {}))
  /\ ~HasState => file = <<{}>>

\* Inputs the editor has not processed change the project only for jobs that are
\* in late.
Fills(i) == pending[i].name = "fill"
PendingInv ==
  \A i \in 1..Len(pending) : pending[i].name \in Changing =>
    field \in late \cup {0} \/ \E k \in 1..(i-1) : Fills(k)

\* Between the two steps the fields hold the data of the job, or will hold none.
FieldInv ==
  pc = "input" /\ FillStep < step /\ step <= ChangeStep =>
    /\ job \notin late => field = job
    /\ field \in {0, job} \/ \E k \in 1..Len(pending) : Fills(k)

\* The job is yet to be carried out since the last run ended inside it.
Fresh(j) ==
  /\ file # << >> /\ j \notin file[1]
  /\ ~(InJob /\ job = j /\ step > ChangeStep)
  /\ ~(pc = "write" /\ job = j)

RepeatedInv ==
  HasState => \A j \in JobSet \ late :
    /\ applied[j] <= 1 + cut[j]
    /\ Fresh(j) => applied[j] <= cut[j]

\* A job whose changing step is behind the script was carried out, or its window is
\* still open and the next wait fails.
DoneInv ==
  kind \notin {"spans", "residuals"} =>
    /\ DoneIsApplied
    /\ pc = "write" /\ job \notin late => applied[job] > 0
    /\ InJob /\ step > ChangeStep /\ job \notin late =>
         \/ applied[job] > 0
         \/ step = ChangeStep + 1 /\ top = Steps[ChangeStep].window

\* The result that was copied is the one that is shown.
AckInv ==
  late = {} =>
    /\ ~wrongAck /\ pending = << >>
    /\ pc = "check" => clip = shown
    /\ kind = "comments" /\ pc = "input" /\ step = 6 => shown

Inv == TypeInv /\ PlaceInv /\ PendingInv /\ FieldInv /\ RepeatedInv /\ DoneInv /\ AckInv

-----------------------------------------------------------------------------
(* Sequences of inputs. *)

(***************************************************************************)
(* Induction over the natural numbers, with a set in place of a predicate:   *)
(* a set that 0 is in and that is closed under successor leaves no n out, or  *)
(* i |-> i + 1 would map its part up to n into that part without 0.           *)
(***************************************************************************)
LEMMA Induction ==
  ASSUME NEW S, 0 \in S, \A n \in Nat : n \in S => n + 1 \in S
  PROVE  \A n \in Nat : n \in S
<1> SUFFICES ASSUME NEW n \in Nat, n \notin S PROVE FALSE
  OBVIOUS
<1> DEFINE T == {i \in 0..n : i \in S}
           U == T \ {0}
           f == [i \in T |-> i + 1]
<1>1. IsFiniteSet(T)
  <2>1. T \in SUBSET (0..n)
    OBVIOUS
  <2>2. IsFiniteSet(0..n)
    BY FS_Interval
  <2> QED
    BY <2>1, <2>2, FS_Subset
<1>2. 0 \in T /\ IsFiniteSet(U) /\ Cardinality(U) = Cardinality(T) - 1 /\ Cardinality(T) \in Nat
  <2>1. 0 \in T
    OBVIOUS
  <2>2. IsFiniteSet(U) /\ Cardinality(U) = IF 0 \in T THEN Cardinality(T) - 1 ELSE Cardinality(T)
    BY <1>1, FS_RemoveElement
  <2>3. Cardinality(T) \in Nat
    BY <1>1, FS_CardinalityType
  <2> HIDE DEF T, U
  <2> QED
    BY <2>1, <2>2, <2>3
<1>3. f \in [T -> U]
  <2> SUFFICES ASSUME NEW i \in T PROVE i + 1 \in U
    OBVIOUS
  <2>1. i \in Nat /\ i # n /\ i <= n /\ i + 1 \in S
    OBVIOUS
  <2> QED
    BY <2>1
<1>4. \A i, j \in T : f[i] = f[j] => i = j
  OBVIOUS
<1> HIDE DEF T, U, f
<1>5. Cardinality(U) < Cardinality(T)
  BY <1>2
<1>6. \E i, j \in T : i # j /\ f[i] = f[j]
  BY <1>1, <1>2, <1>3, <1>5, FS_PigeonHole
<1> QED
  BY <1>4, <1>6

\* f begins with s and takes n steps of next in S.
Stepwise(f, S, s, n, next) ==
  f \in [0..n -> S] /\ f[0] = s /\ \A i \in 1..n : f[i] = next[<<i, f[i-1]>>]

(***************************************************************************)
(* A function of 0..n that is given step by step exists.                    *)
(***************************************************************************)
LEMMA StepwiseFunction ==
  ASSUME NEW S, NEW s \in S, NEW n \in Nat, NEW next \in [(1..n) \X S -> S]
  PROVE  \E f : Stepwise(f, S, s, n, next)
<1> DEFINE Good(k, f) == f[0] = s /\ \A i \in 1..k : f[i] = next[<<i, f[i-1]>>]
           K == {k \in Nat : k <= n => \E f \in [0..k -> S] : Good(k, f)}
<1>1. 0 \in K
  <2>1. [i \in 0..0 |-> s] \in [0..0 -> S] /\ Good(0, [i \in 0..0 |-> s])
    OBVIOUS
  <2> QED
    BY <2>1
<1>2. ASSUME NEW k \in Nat, k \in K
      PROVE  k + 1 \in K
  <2> SUFFICES ASSUME k + 1 <= n
               PROVE  \E f \in [0..(k + 1) -> S] : Good(k + 1, f)
    OBVIOUS
  <2>1. PICK f \in [0..k -> S] : Good(k, f)
    BY <1>2
  <2> DEFINE g == [i \in 0..(k + 1) |-> IF i = k + 1 THEN next[<<k + 1, f[k]>>] ELSE f[i]]
  <2>2. f[k] \in S /\ k + 1 \in 1..n
    OBVIOUS
  <2>3. next[<<k + 1, f[k]>>] \in S
    BY <2>2
  <2>4. g \in [0..(k + 1) -> S]
    BY <2>3
  <2>5. g[k + 1] = next[<<k + 1, f[k]>>] /\ \A i \in 0..k : g[i] = f[i]
    OBVIOUS
  <2> HIDE DEF g
  <2>6. Good(k + 1, g)
    <3>1. g[0] = s
      BY <2>1, <2>5
    <3>2. ASSUME NEW i \in 1..(k + 1)
          PROVE  g[i] = next[<<i, g[i-1]>>]
      <4>1. CASE i = k + 1
        <5>1. i - 1 = k /\ g[k] = f[k]
          BY <2>5, <4>1
        <5> QED
          BY <2>5, <4>1, <5>1
      <4>2. CASE i \in 1..k
        <5>1. g[i-1] = f[i-1] /\ g[i] = f[i]
          BY <2>5, <4>2
        <5> QED
          BY <2>1, <4>2, <5>1
      <4> QED
        BY <4>1, <4>2
    <3> QED
      BY <3>1, <3>2
  <2> QED
    BY <2>4, <2>6
<1>3. n \in K
  <2> HIDE DEF K
  <2> QED
    BY <1>1, <1>2, Induction
<1> QED
  BY <1>3 DEF Stepwise

\* f is the editor before the first input and after each input of s.
Runs(f, e, s) == f[0] = e /\ \A i \in 1..Len(s) : f[i] = Effect(f[i-1], s[i])

(***************************************************************************)
(* What an input does to the editor.                                        *)
(***************************************************************************)
LEMMA InputFacts ==
  ASSUME NEW x \in Names
  PROVE  Inputs[x][1] \in Windows /\ Inputs[x][2] \in Windows
<1>1. Inputs["close result"] = <<"result", Base>> /\ Base \in Windows /\ "result" \in Windows
  BY DEF Inputs, Names, Base, Windows
<1>2. x # "close result" => Inputs[x][1] \in Windows /\ Inputs[x][2] \in Windows
  BY DEF Inputs, Names, Changing, Windows
<1>3. x = "close result" => Inputs[x][1] \in Windows /\ Inputs[x][2] \in Windows
  <2>1. <<"result", Base>>[1] \in Windows /\ <<"result", Base>>[2] \in Windows
    BY <1>1
  <2> QED
    BY <1>1, <2>1
<1> QED
  BY <1>2, <1>3

EffectOf(e, input, r) ==
  /\ r \in EditorType
  /\ input.name = "fill" =>
       /\ input.late => r.field = 0
       /\ ~input.late => r.field = input.job
       /\ r.top = e.top /\ r.applied = e.applied
  /\ input.name # "fill" => r.field = e.field
  /\ input.name \notin Changing => r.applied = e.applied
  /\ \A j \in JobSet :
       /\ r.applied[j] \in {e.applied[j], e.applied[j] + 1}
       /\ j # e.field => r.applied[j] = e.applied[j]
  /\ input.name \in Changing /\ e.top = Inputs[input.name][1] /\ e.field \in JobSet =>
       r.applied[e.field] > 0
  /\ input.name = "copy result" /\ e.top = "result" => r.clip = e.shown /\ r.shown = e.shown

\* What one input does to the editor.
LEMMA EffectFacts ==
  ASSUME NEW e \in EditorType, NEW input \in InputType
  PROVE  EffectOf(e, input, Effect(e, input))
<1>0. PICK r : r = Effect(e, input)
  OBVIOUS
<1> DEFINE name == input.name
           opens == Inputs[name]
           changes == opens[1] = e.top /\ name \in Changing
<1>1. opens[1] \in Windows /\ opens[2] \in Windows
  BY InputFacts DEF InputType
<1>2. input.job \in JobSet /\ input.result \in BOOLEAN /\ name \in Names /\ 0 \notin JobSet
  BY JobsAssumption DEF InputType, JobSet
<1>3. Inputs["copy result"][1] = "result" /\ Inputs["fill"][1] = "any" /\ Inputs["fill"][2] = "any"
  BY DEF Inputs, Names
<1>4. "fill" \notin Changing /\ "copy result" \notin Changing
  BY DEF Changing
<1>5. /\ r.top = (IF opens[1] = e.top THEN opens[2] ELSE e.top)
      /\ r.field = (IF name # "fill" THEN e.field ELSE IF input.late THEN 0 ELSE input.job)
      /\ r.shown = (IF changes THEN input.result ELSE e.shown)
      /\ r.clip = (IF opens[1] = e.top /\ name = "copy result" THEN e.shown ELSE e.clip)
      /\ r.applied = [j \in JobSet |-> e.applied[j] + IF changes /\ e.field = j THEN 1 ELSE 0]
      /\ r = [top |-> r.top, field |-> r.field, shown |-> r.shown, clip |-> r.clip, applied |-> r.applied]
  BY <1>0 DEF Effect, JobSet
<1>6. /\ e.top \in Windows /\ e.field \in JobSet \cup {0} /\ e.shown \in BOOLEAN /\ e.clip \in BOOLEAN
      /\ e.applied \in [JobSet -> Nat]
  BY DEF EditorType
<1> HIDE DEF opens
<1>7. /\ r.applied \in [JobSet -> Nat]
      /\ \A j \in JobSet : r.applied[j] = e.applied[j] + IF changes /\ e.field = j THEN 1 ELSE 0
  <2> DEFINE add(j) == IF opens[1] = e.top /\ name \in Changing /\ e.field = j THEN 1 ELSE 0
  <2>1. \A j \in JobSet : add(j) \in Nat /\ e.applied[j] \in Nat
    BY <1>6
  <2>2. r.applied = [j \in JobSet |-> e.applied[j] + add(j)]
    BY <1>5
  <2>3. \A j \in JobSet : add(j) = IF changes /\ e.field = j THEN 1 ELSE 0
    OBVIOUS
  <2> HIDE DEF add
  <2> QED
    BY <2>1, <2>2, <2>3
<1>8. r \in EditorType
  <2>1. r.top \in Windows /\ r.field \in JobSet \cup {0}
    BY <1>1, <1>2, <1>5, <1>6
  <2>2. r.shown \in BOOLEAN /\ r.clip \in BOOLEAN
    BY <1>2, <1>5, <1>6
  <2> QED
    BY <1>5, <1>7, <2>1, <2>2 DEF EditorType
<1>9. ~changes => r.applied = e.applied
  <2> SUFFICES ASSUME ~changes PROVE r.applied = e.applied
    OBVIOUS
  <2>1. \A j \in JobSet : r.applied[j] = e.applied[j] + 0
    BY <1>7
  <2>2. \A j \in JobSet : r.applied[j] = e.applied[j]
    BY <1>6, <2>1
  <2> QED
    BY <1>6, <1>7, <2>2
<1>10. name \notin Changing => ~changes
  BY DEF changes
<1>11. name = "fill" => r.top = e.top
  BY <1>3, <1>5 DEF opens
<1>12. \A j \in JobSet : r.applied[j] \in {e.applied[j], e.applied[j] + 1} /\ (j # e.field => r.applied[j] = e.applied[j])
  BY <1>6, <1>7
<1>13. name \in Changing /\ e.top = opens[1] /\ e.field \in JobSet => r.applied[e.field] > 0
  BY <1>6, <1>7 DEF changes
<1>14. name = "copy result" /\ e.top = "result" => r.clip = e.shown /\ r.shown = e.shown
  BY <1>3, <1>4, <1>5, <1>10 DEF opens
<1>15. EffectOf(e, input, r)
  BY <1>4, <1>5, <1>8, <1>9, <1>10, <1>11, <1>12, <1>13, <1>14 DEF opens, EffectOf
<1> QED
  BY <1>0, <1>15

(***************************************************************************)
(* After is reached by taking the inputs in turn, whichever way they are      *)
(* counted.                                                                 *)
(***************************************************************************)
LEMMA AfterRuns ==
  ASSUME NEW e \in EditorType, NEW s \in Seq(InputType)
  PROVE  \E f \in [0..Len(s) -> EditorType] : Runs(f, e, s) /\ f[Len(s)] = After(e, s)
<1> DEFINE L == Len(s)
           next == [q \in (1..L) \X EditorType |-> Effect(q[2], s[q[1]])]
           after == CHOOSE after : after = [n \in 0..L |-> IF n = 0 THEN e ELSE Effect(after[n-1], s[n])]
<1>1. L \in Nat /\ \A i \in 1..L : s[i] \in InputType
  OBVIOUS
<1>2. next \in [(1..L) \X EditorType -> EditorType]
  <2>1. ASSUME NEW q \in (1..L) \X EditorType
        PROVE  Effect(q[2], s[q[1]]) \in EditorType
    <3>1. q[1] \in 1..L /\ q[2] \in EditorType
      OBVIOUS
    <3>2. s[q[1]] \in InputType
      BY <1>1, <3>1
    <3> QED
      BY <3>1, <3>2, EffectFacts DEF EffectOf
  <2> QED
    BY <2>1
<1>3. After(e, s) = after[L]
  BY DEF After
<1>4. PICK f \in [0..L -> EditorType] : f[0] = e /\ \A i \in 1..L : f[i] = next[<<i, f[i-1]>>]
  <2> HIDE DEF next, L
  <2>1. \E f : Stepwise(f, EditorType, e, L, next)
    BY <1>1, <1>2, StepwiseFunction
  <2> QED
    BY <2>1 DEF Stepwise
<1>5. ASSUME NEW i \in 1..L
      PROVE  f[i] = Effect(f[i-1], s[i])
  <2>1. f[i-1] \in EditorType
    <3>1. i - 1 \in 0..L
      BY <1>1
    <3> HIDE DEF L
    <3> QED
      BY <3>1
  <2> QED
    BY <1>4, <2>1
<1> HIDE DEF next
<1>6. f = [n \in 0..L |-> IF n = 0 THEN e ELSE Effect(f[n-1], s[n])]
  BY <1>1, <1>4, <1>5
<1>7. after = [n \in 0..L |-> IF n = 0 THEN e ELSE Effect(after[n-1], s[n])]
  BY <1>6
<1> HIDE DEF after
<1>8. after[0] = e /\ \A i \in 1..L : after[i] = Effect(after[i-1], s[i])
  <2>1. 0 \in 0..L /\ \A i \in 1..L : i \in 0..L /\ i # 0
    BY <1>1
  <2> HIDE DEF L
  <2> QED
    BY <1>7, <2>1
<1> DEFINE K == {n \in Nat : n <= L => after[n] = f[n]}
<1>9. 0 \in K
  BY <1>4, <1>8
<1>10. ASSUME NEW n \in Nat, n \in K PROVE n + 1 \in K
  <2> SUFFICES ASSUME n + 1 <= L PROVE after[n+1] = f[n+1]
    OBVIOUS
  <2>1. after[n] = f[n] /\ n + 1 \in 1..L /\ (n + 1) - 1 = n
    BY <1>1, <1>10
  <2> QED
    BY <1>5, <1>8, <2>1
<1>11. L \in K
  <2> HIDE DEF K
  <2> QED
    BY <1>1, <1>9, <1>10, Induction
<1> QED
  BY <1>3, <1>4, <1>5, <1>11 DEF Runs

\* A run of the editor over the inputs ends where After says.
LEMMA RunsUnique ==
  ASSUME NEW e \in EditorType, NEW s \in Seq(InputType),
         NEW f \in [0..Len(s) -> EditorType], Runs(f, e, s)
  PROVE  f[Len(s)] = After(e, s)
<1>1. PICK g \in [0..Len(s) -> EditorType] : Runs(g, e, s) /\ g[Len(s)] = After(e, s)
  BY AfterRuns
<1> DEFINE L == Len(s)
           K == {n \in Nat : n <= L => f[n] = g[n]}
<1>2. 0 \in K
  BY <1>1 DEF Runs
<1>3. ASSUME NEW n \in Nat, n \in K PROVE n + 1 \in K
  <2> SUFFICES ASSUME n + 1 <= L PROVE f[n+1] = g[n+1]
    OBVIOUS
  <2>1. f[n] = g[n] /\ n + 1 \in 1..L /\ (n + 1) - 1 = n
    BY <1>3
  <2>2. f[n+1] = Effect(f[n], s[n+1]) /\ g[n+1] = Effect(g[n], s[n+1])
    BY <1>1, <2>1 DEF Runs
  <2> QED
    BY <2>1, <2>2
<1>4. L \in K
  <2> HIDE DEF K
  <2> QED
    BY <1>2, <1>3, Induction
<1> QED
  BY <1>1, <1>4

\* The editor stays an editor.
LEMMA AfterType ==
  ASSUME NEW e \in EditorType, NEW s \in Seq(InputType)
  PROVE  After(e, s) \in EditorType
<1>1. PICK f \in [0..Len(s) -> EditorType] : Runs(f, e, s) /\ f[Len(s)] = After(e, s)
  BY AfterRuns
<1> QED
  BY <1>1

\* Inputs in two parts are taken part by part.
LEMMA AfterConcat ==
  ASSUME NEW e \in EditorType, NEW s \in Seq(InputType), NEW t \in Seq(InputType)
  PROVE  After(e, s \o t) = After(After(e, s), t)
<1> DEFINE L == Len(s)
           M == Len(t)
           u == s \o t
<1>1. /\ L \in Nat /\ M \in Nat /\ u \in Seq(InputType) /\ Len(u) = L + M
      /\ \A i \in 1..L : u[i] = s[i]
      /\ \A i \in 1..M : u[L + i] = t[i]
  OBVIOUS
<1>2. PICK f \in [0..(L + M) -> EditorType] : Runs(f, e, u) /\ f[L + M] = After(e, u)
  BY <1>1, AfterRuns
<1> HIDE DEF u
<1>3. f[0] = e /\ \A i \in 1..(L + M) : f[i] = Effect(f[i-1], u[i])
  BY <1>1, <1>2 DEF Runs
<1> DEFINE g == [i \in 0..L |-> f[i]]
           h == [i \in 0..M |-> f[L + i]]
<1>4. g \in [0..L -> EditorType] /\ h \in [0..M -> EditorType]
  BY <1>1
<1>5. Runs(g, e, s)
  <2>1. g[0] = e
    BY <1>3
  <2>2. ASSUME NEW i \in 1..L
        PROVE  g[i] = Effect(g[i-1], s[i])
    <3>1. i \in 1..(L + M) /\ i \in 0..L /\ i - 1 \in 0..L
      BY <1>1
    <3>2. f[i] = Effect(f[i-1], u[i]) /\ u[i] = s[i]
      BY <1>1, <1>3, <3>1
    <3> QED
      BY <3>1, <3>2
  <2> QED
    BY <2>1, <2>2 DEF Runs
<1>6. g[L] = After(e, s) /\ g[L] = f[L]
  <2>1. g[L] = After(e, s)
    <3> HIDE DEF g
    <3> QED
      BY <1>4, <1>5, RunsUnique
  <2> QED
    BY <1>1, <2>1
<1>7. Runs(h, f[L], t)
  <2>1. h[0] = f[L]
    BY <1>1
  <2>2. ASSUME NEW i \in 1..M
        PROVE  h[i] = Effect(h[i-1], t[i])
    <3>1. L + i \in 1..(L + M) /\ i \in 0..M /\ i - 1 \in 0..M /\ L + (i - 1) = (L + i) - 1
      BY <1>1
    <3>2. f[L + i] = Effect(f[(L + i) - 1], u[L + i]) /\ u[L + i] = t[i]
      BY <1>1, <1>3, <3>1
    <3> QED
      BY <3>1, <3>2
  <2> QED
    BY <2>1, <2>2 DEF Runs
<1>8. h[M] = After(f[L], t) /\ h[M] = f[L + M]
  <2>1. f[L] \in EditorType
    BY <1>1
  <2>2. h[M] = After(f[L], t)
    <3> HIDE DEF h
    <3> QED
      BY <1>4, <1>7, <2>1, RunsUnique
  <2> QED
    BY <1>1, <2>2
<1> QED
  BY <1>2, <1>6, <1>8 DEF u

\* What none, one and two inputs do.
LEMMA AfterFew ==
  ASSUME NEW e \in EditorType
  PROVE  /\ After(e, << >>) = e
         /\ \A x \in InputType : After(e, <<x>>) = Effect(e, x)
         /\ \A x, y \in InputType : After(e, <<x, y>>) = Effect(Effect(e, x), y)
<1>1. After(e, << >>) = e
  <2>1. << >> \in Seq(InputType)
    OBVIOUS
  <2>2. PICK f \in [0..Len(<< >>) -> EditorType] : Runs(f, e, << >>) /\ f[Len(<< >>)] = After(e, << >>)
    BY <2>1, AfterRuns
  <2> QED
    BY <2>2 DEF Runs
<1>2. ASSUME NEW a \in EditorType, NEW x \in InputType
      PROVE  After(a, <<x>>) = Effect(a, x)
  <2>1. <<x>> \in Seq(InputType) /\ Len(<<x>>) = 1 /\ <<x>>[1] = x
    OBVIOUS
  <2> HIDE DEF Effect
  <2>2. PICK f \in [0..1 -> EditorType] : Runs(f, a, <<x>>) /\ f[1] = After(a, <<x>>)
    BY <2>1, AfterRuns
  <2>3. f[0] = a /\ f[1] = Effect(f[0], x)
    <3>1. 1 \in 1..Len(<<x>>) /\ 1 - 1 = 0
      BY <2>1
    <3> QED
      BY <2>1, <2>2, <3>1 DEF Runs
  <2> QED
    BY <2>2, <2>3
<1>3. ASSUME NEW x \in InputType, NEW y \in InputType
      PROVE  After(e, <<x, y>>) = Effect(Effect(e, x), y)
  <2>1. <<x, y>> \in Seq(InputType) /\ Len(<<x, y>>) = 2 /\ <<x, y>>[1] = x /\ <<x, y>>[2] = y
    OBVIOUS
  <2> HIDE DEF Effect
  <2>2. PICK f \in [0..2 -> EditorType] : Runs(f, e, <<x, y>>) /\ f[2] = After(e, <<x, y>>)
    BY <2>1, AfterRuns
  <2>3. f[0] = e /\ f[1] = Effect(f[0], x) /\ f[2] = Effect(f[1], y)
    <3>1. 1 \in 1..Len(<<x, y>>) /\ 1 - 1 = 0 /\ 2 \in 1..Len(<<x, y>>) /\ 2 - 1 = 1
      BY <2>1
    <3> QED
      BY <2>1, <2>2, <3>1 DEF Runs
  <2> QED
    BY <2>2, <2>3
<1> QED
  BY <1>1, <1>2, <1>3

-----------------------------------------------------------------------------
(* The scripts. *)

Changes(s) ==
  \E x \in Changing :
    /\ Inputs[x][1] = Steps[s].window
    /\ Steps[s].inputs = IF s = FillStep THEN <<"fill", x>> ELSE <<x>>

StepShape(s) ==
  /\ s \notin {FillStep, ChangeStep} =>
       \E x \in Names \ Changing : Steps[s].inputs = <<x>> /\ (x = "fill" => s < FillStep)
  /\ s = FillStep /\ s # ChangeStep => Steps[s].inputs = <<"fill">> /\ ~Steps[s].tolerant
  /\ s = ChangeStep => Changes(s)
  /\ kind \notin {"spans", "residuals"} => Steps[s].waits
  /\ s = ChangeStep + 1 => Steps[s].window # Steps[ChangeStep].window
  /\ Steps[s].inputs = <<"copy result">> <=> kind = "comments" /\ s = 5
  /\ kind = "comments" /\ s = 5 => ~Steps[s].tolerant /\ Steps[s].window = "result"
  /\ kind = "comments" /\ Steps[s].inputs = <<"close result">> => s = 6

ScriptShape ==
  /\ Len(Steps) \in Nat /\ DOMAIN Steps = 1..Len(Steps)
  /\ FillStep \in 1..ChangeStep /\ ChangeStep \in 1..Len(Steps)
  /\ \A s \in 1..Len(Steps) : StepShape(s)
  /\ kind \notin {"spans", "residuals"} /\ ChangeStep + 1 > Len(Steps) =>
       WaitsAtEnd /\ Base # Steps[ChangeStep].window

IsPlain(s, x) ==
  /\ Steps[s].inputs = <<x>> /\ Steps[s].waits
  /\ x \in {"activate", "file menu", "mnemonics", "read", "open file", "acknowledge duplicate",
            "confirm name", "read comments", "property", "copy result", "close result", "fill"}
  /\ x = "fill" => s < FillStep
  /\ s \notin {FillStep, ChangeStep}
  /\ s = ChangeStep + 1 => Steps[s].window # Steps[ChangeStep].window
  /\ x = "copy result" <=> kind = "comments" /\ s = 5
  /\ x = "copy result" => ~Steps[s].tolerant /\ Steps[s].window = "result"
  /\ kind = "comments" /\ x = "close result" => s = 6

IsChange(s, x) ==
  /\ x \in Changing /\ Steps[s].window = Inputs[x][1]
  /\ Steps[s].inputs = IF s = FillStep THEN <<"fill", x>> ELSE <<x>>
  /\ s = ChangeStep /\ s # ChangeStep + 1 /\ ~(kind = "comments" /\ s = 5)
  /\ Steps[s].waits \/ kind \in {"spans", "residuals"}

\* A step with one input that changes nothing.
LEMMA PlainShape ==
  ASSUME NEW s, NEW x, IsPlain(s, x)
  PROVE  StepShape(s)
<1>1. x \in Names \ Changing
  BY DEF IsPlain, Names, Changing
<1>2. ASSUME NEW y, Steps[s].inputs = <<y>>
      PROVE  x = y
  <2>1. <<x>> = <<y>>
    BY <1>2 DEF IsPlain
  <2> QED
    BY <2>1
<1> QED
  BY <1>1, <1>2 DEF StepShape, IsPlain

\* The step that fills in the fields and does nothing else.
LEMMA FillShape ==
  ASSUME NEW s \in Nat, Steps[s].inputs = <<"fill">>, Steps[s].waits, ~Steps[s].tolerant,
         s = FillStep, s # ChangeStep, s # ChangeStep + 1, ~(kind = "comments" /\ s = 5)
  PROVE  StepShape(s)
<1>1. \A y : Steps[s].inputs = <<y>> => y = "fill"
  OBVIOUS
<1> QED
  BY <1>1 DEF StepShape

\* The step that changes the project.
LEMMA ChangeShape ==
  ASSUME NEW s, NEW x, IsChange(s, x)
  PROVE  StepShape(s)
<1>1. x # "copy result" /\ x # "close result"
  BY DEF Changing, IsChange
<1>2. ASSUME NEW y, Steps[s].inputs = <<y>>
      PROVE  x = y
  <2>1. CASE s = FillStep
    <3>1. <<"fill", x>> = <<y>>
      BY <1>2, <2>1 DEF IsChange
    <3> QED
      BY <3>1
  <2>2. CASE s # FillStep
    <3>1. <<x>> = <<y>>
      BY <1>2, <2>2 DEF IsChange
    <3> QED
      BY <3>1
  <2> QED
    BY <2>1, <2>2
<1>3. Changes(s)
  BY DEF Changes, IsChange
<1>4. Steps[s].inputs # <<"copy result">> /\ Steps[s].inputs # <<"close result">>
  BY <1>1, <1>2
<1> QED
  BY <1>3, <1>4 DEF StepShape, IsChange

\* The steps of each script have the shape the proof rests on.
LEMMA ImportShape ==
  ASSUME kind = "import"
  PROVE  ScriptShape
<1>1. Steps = Import /\ FillStep = 8 /\ ChangeStep = 10
  BY DEF Steps, FillStep, ChangeStep
<1>2. Len(Import) = 10 /\ DOMAIN Import = 1..10
  BY DEF Import
<1>3. Steps[10].window = "type"
  BY <1>1 DEF Import, Intolerant, Tolerant, In
<1>4. StepShape(1)
  <2>1. Steps[1].inputs = <<"activate">> /\ Steps[1].window = "main" /\ Steps[1].waits /\ ~Steps[1].tolerant
    BY <1>1 DEF Import, Intolerant, Tolerant, In
  <2>2. 1 \notin {FillStep, ChangeStep} /\ 1 # ChangeStep + 1
    BY <1>1
  <2>3. IsPlain(1, "activate")
    BY <2>1, <2>2 DEF IsPlain
  <2> QED
    BY <2>3, PlainShape
<1>5. StepShape(2)
  <2>1. Steps[2].inputs = <<"file menu">> /\ Steps[2].window = "main" /\ Steps[2].waits /\ ~Steps[2].tolerant
    BY <1>1 DEF Import, Intolerant, Tolerant, In
  <2>2. 2 \notin {FillStep, ChangeStep} /\ 2 # ChangeStep + 1
    BY <1>1
  <2>3. IsPlain(2, "file menu")
    BY <2>1, <2>2 DEF IsPlain
  <2> QED
    BY <2>3, PlainShape
<1>6. StepShape(3)
  <2>1. Steps[3].inputs = <<"mnemonics">> /\ Steps[3].window = "menu" /\ Steps[3].waits /\ ~Steps[3].tolerant
    BY <1>1 DEF Import, Intolerant, Tolerant, In
  <2>2. 3 \notin {FillStep, ChangeStep} /\ 3 # ChangeStep + 1
    BY <1>1
  <2>3. IsPlain(3, "mnemonics")
    BY <2>1, <2>2 DEF IsPlain
  <2> QED
    BY <2>3, PlainShape
<1>7. StepShape(4)
  <2>1. Steps[4].inputs = <<"read">> /\ Steps[4].window = "submenu" /\ Steps[4].waits
    BY <1>1 DEF Import, Intolerant, Tolerant, In
  <2>2. 4 \notin {FillStep, ChangeStep} /\ 4 # ChangeStep + 1
    BY <1>1
  <2>3. IsPlain(4, "read")
    BY <2>1, <2>2 DEF IsPlain
  <2> QED
    BY <2>3, PlainShape
<1>8. StepShape(5)
  <2>1. Steps[5].inputs = <<"fill">> /\ Steps[5].window = "open" /\ Steps[5].waits /\ ~Steps[5].tolerant
    BY <1>1 DEF Import, Intolerant, Tolerant, In
  <2>2. 5 \notin {FillStep, ChangeStep} /\ 5 # ChangeStep + 1 /\ 5 < FillStep
    BY <1>1
  <2>3. IsPlain(5, "fill")
    BY <2>1, <2>2 DEF IsPlain
  <2> QED
    BY <2>3, PlainShape
<1>9. StepShape(6)
  <2>1. Steps[6].inputs = <<"open file">> /\ Steps[6].window = "open" /\ Steps[6].waits
    BY <1>1 DEF Import, Intolerant, Tolerant, In
  <2>2. 6 \notin {FillStep, ChangeStep} /\ 6 # ChangeStep + 1
    BY <1>1
  <2>3. IsPlain(6, "open file")
    BY <2>1, <2>2 DEF IsPlain
  <2> QED
    BY <2>3, PlainShape
<1>10. StepShape(7)
  <2>1. Steps[7].inputs = <<"acknowledge duplicate">> /\ Steps[7].window = "duplicate" /\ Steps[7].waits
    BY <1>1 DEF Import, Intolerant, Tolerant, In
  <2>2. 7 \notin {FillStep, ChangeStep} /\ 7 # ChangeStep + 1
    BY <1>1
  <2>3. IsPlain(7, "acknowledge duplicate")
    BY <2>1, <2>2 DEF IsPlain
  <2> QED
    BY <2>3, PlainShape
<1>11. StepShape(8)
  <2>1. Steps[8].inputs = <<"fill">> /\ Steps[8].window = "name" /\ Steps[8].waits /\ ~Steps[8].tolerant
    BY <1>1 DEF Import, Intolerant, In
  <2> QED
    BY <1>1, <2>1, FillShape
<1>12. StepShape(9)
  <2>1. Steps[9].inputs = <<"confirm name">> /\ Steps[9].window = "name" /\ Steps[9].waits
    BY <1>1 DEF Import, Intolerant, Tolerant, In
  <2>2. 9 \notin {FillStep, ChangeStep} /\ 9 # ChangeStep + 1
    BY <1>1
  <2>3. IsPlain(9, "confirm name")
    BY <2>1, <2>2 DEF IsPlain
  <2> QED
    BY <2>3, PlainShape
<1>13. StepShape(10)
  <2>1. Steps[10].inputs = <<"import">> /\ Steps[10].window = "type" /\ Steps[10].waits
        /\ Inputs["import"][1] = "type" /\ "import" \in Changing
    BY <1>1 DEF Import, Intolerant, Tolerant, In, Inputs, Names, Changing
  <2>2. 10 # FillStep /\ 10 = ChangeStep /\ 10 # ChangeStep + 1
    BY <1>1
  <2>3. IsChange(10, "import")
    BY <2>1, <2>2 DEF IsChange
  <2> QED
    BY <2>3, ChangeShape
<1>14. \A s \in 1..10 : StepShape(s)
  BY <1>4, <1>5, <1>6, <1>7, <1>8, <1>9, <1>10, <1>11, <1>12, <1>13
<1>15. WaitsAtEnd /\ Base = "main"
  BY DEF WaitsAtEnd, Base
<1> QED
  BY <1>1, <1>2, <1>3, <1>14, <1>15 DEF ScriptShape

LEMMA CommentsShape ==
  ASSUME kind = "comments"
  PROVE  ScriptShape
<1>1. Steps = Comments /\ FillStep = 3 /\ ChangeStep = 4
  BY DEF Steps, FillStep, ChangeStep
<1>2. Len(Comments) = 6 /\ DOMAIN Comments = 1..6
  BY DEF Comments
<1>3. Steps[4].window = "open"
  BY <1>1 DEF Comments, Intolerant, Tolerant, In
<1>4. StepShape(1)
  <2>1. Steps[1].inputs = <<"file menu">> /\ Steps[1].window = "main" /\ Steps[1].waits /\ ~Steps[1].tolerant
    BY <1>1 DEF Comments, Intolerant, Tolerant, In
  <2>2. 1 \notin {FillStep, ChangeStep} /\ 1 # ChangeStep + 1 /\ 1 # 5
    BY <1>1
  <2>3. IsPlain(1, "file menu")
    BY <2>1, <2>2 DEF IsPlain
  <2> QED
    BY <2>3, PlainShape
<1>5. StepShape(2)
  <2>1. Steps[2].inputs = <<"read comments">> /\ Steps[2].window = "menu" /\ Steps[2].waits
    BY <1>1 DEF Comments, Intolerant, Tolerant, In
  <2>2. 2 \notin {FillStep, ChangeStep} /\ 2 # ChangeStep + 1 /\ 2 # 5
    BY <1>1
  <2>3. IsPlain(2, "read comments")
    BY <2>1, <2>2 DEF IsPlain
  <2> QED
    BY <2>3, PlainShape
<1>6. StepShape(3)
  <2>1. Steps[3].inputs = <<"fill">> /\ Steps[3].window = "open" /\ Steps[3].waits /\ ~Steps[3].tolerant
    BY <1>1 DEF Comments, Intolerant, In
  <2> QED
    BY <1>1, <2>1, FillShape
<1>7. StepShape(4)
  <2>1. Steps[4].inputs = <<"read file">> /\ Steps[4].window = "open" /\ Steps[4].waits
        /\ Inputs["read file"][1] = "open" /\ "read file" \in Changing
    BY <1>1 DEF Comments, Intolerant, Tolerant, In, Inputs, Names, Changing
  <2>2. 4 # FillStep /\ 4 = ChangeStep /\ 4 # ChangeStep + 1 /\ 4 # 5
    BY <1>1
  <2>3. IsChange(4, "read file")
    BY <2>1, <2>2 DEF IsChange
  <2> QED
    BY <2>3, ChangeShape
<1>8. StepShape(5)
  <2>1. Steps[5].inputs = <<"copy result">> /\ Steps[5].window = "result" /\ Steps[5].waits /\ ~Steps[5].tolerant
    BY <1>1 DEF Comments, Intolerant, Tolerant, In
  <2>2. 5 \notin {FillStep, ChangeStep} /\ 5 = ChangeStep + 1
    BY <1>1
  <2>3. IsPlain(5, "copy result")
    BY <1>1, <1>3, <2>1, <2>2 DEF IsPlain
  <2> QED
    BY <2>3, PlainShape
<1>9. StepShape(6)
  <2>1. Steps[6].inputs = <<"close result">> /\ Steps[6].window = "result" /\ Steps[6].waits
    BY <1>1 DEF Comments, Intolerant, Tolerant, In
  <2>2. 6 \notin {FillStep, ChangeStep} /\ 6 # ChangeStep + 1 /\ 6 # 5
    BY <1>1
  <2>3. IsPlain(6, "close result")
    BY <2>1, <2>2 DEF IsPlain
  <2> QED
    BY <2>3, PlainShape
<1>10. \A s \in 1..6 : StepShape(s)
  BY <1>4, <1>5, <1>6, <1>7, <1>8, <1>9
<1> QED
  BY <1>1, <1>2, <1>10 DEF ScriptShape

LEMMA ProgramPropertiesShape ==
  ASSUME kind = "properties"
  PROVE  ScriptShape
<1>1. Steps = ProgramProperties /\ FillStep = 4 /\ ChangeStep = 4
  BY DEF Steps, FillStep, ChangeStep
<1>2. Len(ProgramProperties) = 4 /\ DOMAIN ProgramProperties = 1..4
  BY DEF ProgramProperties
<1>3. Steps[4].window = "property"
  BY <1>1 DEF ProgramProperties, Intolerant, Tolerant, In
<1>4. StepShape(1)
  <2>1. Steps[1].inputs = <<"activate">> /\ Steps[1].window = "main" /\ Steps[1].waits /\ ~Steps[1].tolerant
    BY <1>1 DEF ProgramProperties, Intolerant, Tolerant, In
  <2>2. 1 \notin {FillStep, ChangeStep} /\ 1 # ChangeStep + 1
    BY <1>1
  <2>3. IsPlain(1, "activate")
    BY <2>1, <2>2 DEF IsPlain
  <2> QED
    BY <2>3, PlainShape
<1>5. StepShape(2)
  <2>1. Steps[2].inputs = <<"file menu">> /\ Steps[2].window = "main" /\ Steps[2].waits /\ ~Steps[2].tolerant
    BY <1>1 DEF ProgramProperties, Intolerant, Tolerant, In
  <2>2. 2 \notin {FillStep, ChangeStep} /\ 2 # ChangeStep + 1
    BY <1>1
  <2>3. IsPlain(2, "file menu")
    BY <2>1, <2>2 DEF IsPlain
  <2> QED
    BY <2>3, PlainShape
<1>6. StepShape(3)
  <2>1. Steps[3].inputs = <<"property">> /\ Steps[3].window = "menu" /\ Steps[3].waits
    BY <1>1 DEF ProgramProperties, Intolerant, Tolerant, In
  <2>2. 3 \notin {FillStep, ChangeStep} /\ 3 # ChangeStep + 1
    BY <1>1
  <2>3. IsPlain(3, "property")
    BY <2>1, <2>2 DEF IsPlain
  <2> QED
    BY <2>3, PlainShape
<1>7. StepShape(4)
  <2>1. Steps[4].inputs = <<"fill", "set property">> /\ Steps[4].window = "property" /\ Steps[4].waits
        /\ Inputs["set property"][1] = "property" /\ "set property" \in Changing
    BY <1>1 DEF ProgramProperties, Intolerant, Tolerant, In, Inputs, Names, Changing
  <2>2. 4 = FillStep /\ 4 = ChangeStep /\ 4 # ChangeStep + 1
    BY <1>1
  <2>3. IsChange(4, "set property")
    BY <2>1, <2>2 DEF IsChange
  <2> QED
    BY <2>3, ChangeShape
<1>8. \A s \in 1..4 : StepShape(s)
  BY <1>4, <1>5, <1>6, <1>7
<1>9. WaitsAtEnd /\ Base = "main"
  BY DEF WaitsAtEnd, Base
<1> QED
  BY <1>1, <1>2, <1>3, <1>8, <1>9 DEF ScriptShape

LEMMA SearchShape ==
  ASSUME kind \in Kinds, kind \notin {"import", "comments", "properties"}
  PROVE  ScriptShape
<1>1. FillStep = 1 /\ ChangeStep = 1
  BY DEF FillStep, ChangeStep
<1>2. Steps \in {Rung, Spans} /\ (kind \notin {"spans", "residuals"} => Steps = Rung)
  BY KindsAssumption DEF Steps, Rung, Voice, Communication, Hmi, Spans, Residuals
<1>3. /\ Len(Rung) = 2 /\ DOMAIN Rung = 1..2 /\ Rung[1].inputs = <<"fill", "replace">>
      /\ Rung[1].window = "search" /\ Rung[1].waits
      /\ Rung[2].inputs = <<"close result">> /\ Rung[2].window = "result" /\ Rung[2].waits
  <2>1. Len(Rung) = 2 /\ DOMAIN Rung = 1..2
    BY DEF Rung
  <2>2. Rung[1].inputs = <<"fill", "replace">> /\ Rung[1].window = "search" /\ Rung[1].waits
    BY DEF Rung, Intolerant, Tolerant, In, ReplaceInputs
  <2>3. Rung[2].inputs = <<"close result">> /\ Rung[2].window = "result" /\ Rung[2].waits
    BY DEF Rung, Intolerant, Tolerant, In, ReplaceInputs
  <2> QED
    BY <2>1, <2>2, <2>3
<1>4. /\ Len(Spans) = 2 /\ DOMAIN Spans = 1..2 /\ Spans[1].inputs = <<"fill", "replace">>
      /\ Spans[1].window = "search"
      /\ Spans[2].inputs = <<"close result">> /\ Spans[2].window = "result" /\ Spans[2].waits
  <2>1. Len(Spans) = 2 /\ DOMAIN Spans = 1..2
    BY DEF Spans
  <2>2. Spans[1].inputs = <<"fill", "replace">> /\ Spans[1].window = "search"
    BY DEF Spans, Tolerant, In, ReplaceInputs
  <2>3. Spans[2].inputs = <<"close result">> /\ Spans[2].window = "result" /\ Spans[2].waits
    BY DEF Spans, Tolerant, In, ReplaceInputs
  <2> QED
    BY <2>1, <2>2, <2>3
<1>5. /\ Len(Steps) = 2 /\ DOMAIN Steps = 1..2 /\ Steps[1].inputs = <<"fill", "replace">>
      /\ Steps[1].window = "search" /\ (Steps[1].waits \/ kind \in {"spans", "residuals"})
      /\ Steps[2].inputs = <<"close result">> /\ Steps[2].window = "result" /\ Steps[2].waits
  BY <1>2, <1>3, <1>4
<1>6. StepShape(1)
  <2>1. Inputs["replace"][1] = "search" /\ "replace" \in Changing
    BY DEF Inputs, Names, Changing
  <2>2. 1 = FillStep /\ 1 = ChangeStep /\ 1 # ChangeStep + 1 /\ 1 # 5
    BY <1>1
  <2>3. IsChange(1, "replace")
    BY <1>5, <2>1, <2>2 DEF IsChange
  <2> QED
    BY <2>3, ChangeShape
<1>7. StepShape(2)
  <2>1. IsPlain(2, "close result")
    BY <1>1, <1>5 DEF IsPlain
  <2> QED
    BY <2>1, PlainShape
<1>8. \A s \in 1..2 : StepShape(s)
  BY <1>6, <1>7
<1>9. FillStep \in 1..ChangeStep /\ ChangeStep \in 1..2 /\ ~(ChangeStep + 1 > 2)
  BY <1>1
<1>10. Len(Steps) = 2 /\ DOMAIN Steps = 1..2
  BY <1>5
<1> QED
  BY <1>8, <1>9, <1>10 DEF ScriptShape

(***************************************************************************)
(* Every script fills in the fields in one step and changes the project in   *)
(* the same or a later one; its other steps have one input each that changes  *)
(* nothing, and does not fill in fields between the two.                     *)
(***************************************************************************)
LEMMA Scripts ==
  ASSUME kind \in Kinds
  PROVE  ScriptShape
<1>1. CASE kind = "import"
  BY <1>1, ImportShape
<1>2. CASE kind = "comments"
  BY <1>2, CommentsShape
<1>3. CASE kind = "properties"
  BY <1>3, ProgramPropertiesShape
<1>4. CASE kind \notin {"import", "comments", "properties"}
  BY <1>4, SearchShape
<1> QED
  BY <1>1, <1>2, <1>3, <1>4

-----------------------------------------------------------------------------
(* What a step does to the editor. *)

Call(x, result, isLate) == [name |-> x, job |-> job, result |-> result, late |-> isLate]

(***************************************************************************)
(* The inputs of a step, and the beginnings of them that a failed call may   *)
(* perform.                                                                 *)
(***************************************************************************)
LEMMA SentInputs ==
  ASSUME TypeInv, job \in JobSet, step \in DOMAIN Steps,
         NEW result \in BOOLEAN, NEW isLate \in BOOLEAN
  PROVE  /\ Len(Step.inputs) \in {1, 2}
         /\ Sent(result, isLate) \in Seq(InputType) /\ Len(Sent(result, isLate)) = Len(Step.inputs)
         /\ \A i \in 1..Len(Step.inputs) : Sent(result, isLate)[i] = Call(Step.inputs[i], result, isLate)
         /\ \A x \in Names : Call(x, result, isLate) \in InputType
         /\ SubSeq(Sent(result, isLate), 1, 0) = << >>
         /\ SubSeq(Sent(result, isLate), 1, Len(Step.inputs)) = Sent(result, isLate)
         /\ \A x : Step.inputs = <<x>> =>
              x \in Names /\ Sent(result, isLate) = <<Call(x, result, isLate)>>
         /\ \A x : Step.inputs = <<"fill", x>> =>
              /\ "fill" \in Names /\ x \in Names
              /\ Sent(result, isLate) = <<Call("fill", result, isLate), Call(x, result, isLate)>>
              /\ SubSeq(Sent(result, isLate), 1, 1) = <<Call("fill", result, isLate)>>
<1> DEFINE sent == Sent(result, isLate)
<1>1. ScriptShape /\ StepShape(step) /\ Step = Steps[step]
  BY Scripts DEF TypeInv, ScriptShape, Step
<1>2. \A x \in Changing : x \in Names
  BY DEF Names
<1>3. "fill" \in Names
  BY DEF Names
<1>4. \/ \E x \in Names : Step.inputs = <<x>>
      \/ \E x \in Names : Step.inputs = <<"fill", x>>
  BY <1>1, <1>2, <1>3 DEF StepShape, Changes
<1>5. \A x \in Names : Call(x, result, isLate) \in InputType
  BY DEF Call, InputType, TypeInv
<1>6. sent = [i \in DOMAIN Step.inputs |-> Call(Step.inputs[i], result, isLate)]
  BY DEF Sent, Call
<1> HIDE DEF sent
<1>7. CASE \E x \in Names : Step.inputs = <<x>>
  <2>1. PICK x \in Names : Step.inputs = <<x>>
    BY <1>7
  <2> DEFINE c == Call(x, result, isLate)
  <2>2. Len(Step.inputs) = 1 /\ DOMAIN Step.inputs = 1..1 /\ Step.inputs[1] = x
    BY <2>1
  <2>3. sent = <<c>>
    <3>1. sent = [i \in 1..1 |-> Call(Step.inputs[i], result, isLate)]
      BY <1>6, <2>2
    <3>2. sent = [i \in 1..1 |-> c]
      BY <2>2, <3>1
    <3> HIDE DEF c
    <3> QED
      BY <3>2
  <2>4. c \in InputType
    BY <1>5
  <2> HIDE DEF c
  <2>5. sent \in Seq(InputType) /\ Len(sent) = 1 /\ sent[1] = c
    BY <2>3, <2>4
  <2>6. SubSeq(sent, 1, 0) = << >> /\ SubSeq(sent, 1, 1) = sent
    BY <2>5, SubSeqProperties
  <2>7. \A y : Step.inputs = <<y>> => y = x
    BY <2>2
  <2>8. \A y : Step.inputs # <<"fill", y>>
    BY <2>2
  <2> QED
    BY <1>5, <2>2, <2>3, <2>5, <2>6, <2>7, <2>8 DEF sent, c
<1>8. CASE \E x \in Names : Step.inputs = <<"fill", x>>
  <2>1. PICK x \in Names : Step.inputs = <<"fill", x>>
    BY <1>8
  <2> DEFINE b == Call("fill", result, isLate)
             c == Call(x, result, isLate)
  <2>2. Len(Step.inputs) = 2 /\ DOMAIN Step.inputs = 1..2 /\ Step.inputs[1] = "fill" /\ Step.inputs[2] = x
    BY <2>1
  <2>3. sent = <<b, c>>
    <3>1. sent = [i \in 1..2 |-> Call(Step.inputs[i], result, isLate)]
      BY <1>6, <2>2
    <3>2. sent = [i \in 1..2 |-> IF i = 1 THEN b ELSE c]
      BY <2>2, <3>1
    <3> HIDE DEF b, c
    <3> QED
      BY <3>2
  <2>4. b \in InputType /\ c \in InputType
    BY <1>3, <1>5
  <2> HIDE DEF b, c
  <2>5. sent \in Seq(InputType) /\ Len(sent) = 2 /\ sent[1] = b /\ sent[2] = c
    BY <2>3, <2>4
  <2>6. SubSeq(sent, 1, 0) = << >> /\ SubSeq(sent, 1, 2) = sent /\ SubSeq(sent, 1, 1) = <<b>>
    <3>1. SubSeq(sent, 1, 0) = << >>
      BY SubSeqEmpty
    <3>2. SubSeq(sent, 1, 2) = sent
      BY <2>5, SubSeqFull
    <3>3. SubSeq(sent, 1, 1) = [i \in 1..1 |-> sent[i]]
      OBVIOUS
    <3>4. SubSeq(sent, 1, 1) = [i \in 1..1 |-> b]
      BY <2>5, <3>3
    <3>5. [i \in 1..1 |-> b] = <<b>>
      OBVIOUS
    <3> QED
      BY <3>1, <3>2, <3>4, <3>5
  <2>7. \A y : Step.inputs # <<y>>
    BY <2>2
  <2>8. \A y : Step.inputs = <<"fill", y>> => y = x
    BY <2>2
  <2> QED
    BY <1>3, <1>5, <2>2, <2>3, <2>5, <2>6, <2>7, <2>8 DEF sent, b, c
<1> QED
  BY <1>4, <1>7, <1>8

(***************************************************************************)
(* The first n inputs of a step, carried out by the editor.                  *)
(***************************************************************************)
StepResult(e, r, n) ==
  /\ r \in EditorType
  /\ \A j \in JobSet : r.applied[j] \in {e.applied[j], e.applied[j] + 1}
  /\ step # ChangeStep => r.applied = e.applied
  /\ step > FillStep => r.field = e.field
  /\ step = FillStep /\ step # ChangeStep /\ n = Len(Step.inputs) => r.field = job
  /\ step = ChangeStep /\ n < Len(Step.inputs) => r.applied = e.applied /\ r.top = e.top
  /\ step = ChangeStep /\ (step = FillStep \/ e.field \in {0, job}) =>
       \A j \in JobSet \ {job} : r.applied[j] = e.applied[j]
  /\ step = ChangeStep /\ n = Len(Step.inputs) /\ (step = FillStep \/ e.field = job) /\ e.top = Step.window =>
       r.applied[job] > 0
  /\ Step.inputs = <<"copy result">> /\ n = Len(Step.inputs) /\ e.top = Step.window =>
       r.clip = e.shown /\ r.shown = e.shown

\* What the first n inputs of a step do when they are taken at once.
LEMMA StepEffect ==
  ASSUME TypeInv, job \in JobSet, step \in DOMAIN Steps, NEW result \in BOOLEAN,
         NEW e \in EditorType, NEW n \in 0..Len(Step.inputs), NEW r,
         r = After(e, SubSeq(Sent(result, FALSE), 1, n))
  PROVE  StepResult(e, r, n)
<1> DEFINE sent == Sent(result, FALSE)
<1>0. PICK L : L = Len(Step.inputs)
  OBVIOUS
<1>1. /\ StepShape(step) /\ Step = Steps[step] /\ 0 \notin JobSet /\ e.field \in JobSet \cup {0}
      /\ step \in Int /\ FillStep \in Int /\ ChangeStep \in Int /\ FillStep <= ChangeStep
  BY Scripts, JobsAssumption DEF TypeInv, ScriptShape, Step, JobSet, EditorType
<1>2. L \in {1, 2} /\ SubSeq(sent, 1, 0) = << >> /\ SubSeq(sent, 1, L) = sent /\ n \in 0..L
  BY <1>0, SentInputs
<1>3. e.applied \in [JobSet -> Nat]
  BY DEF EditorType
<1>4. r = After(e, SubSeq(sent, 1, n))
  OBVIOUS
<1> HIDE DEF sent
<1>5. CASE n = 0
  <2>1. r = e
    BY <1>2, <1>4, <1>5, AfterFew
  <2>2. n < L /\ n # L
    BY <1>2, <1>5
  <2>3. \A j \in JobSet : r.applied[j] = e.applied[j]
    BY <2>1
  <2> QED
    BY <1>0, <1>1, <2>1, <2>2, <2>3 DEF StepResult
<1>6. CASE n > 0 /\ step = FillStep /\ step = ChangeStep
  <2>1. PICK x \in Changing : Step.inputs = <<"fill", x>> /\ Inputs[x][1] = Step.window
    BY <1>1, <1>6 DEF StepShape, Changes
  <2> DEFINE b == Call("fill", result, FALSE)
             c == Call(x, result, FALSE)
  <2>2. /\ sent = <<b, c>> /\ SubSeq(sent, 1, 1) = <<b>>
        /\ b \in InputType /\ c \in InputType
    BY <2>1, SentInputs DEF sent
  <2>3. /\ b.name = "fill" /\ ~b.late /\ b.job = job
        /\ c.name = x /\ ~c.late /\ c.job = job
    BY DEF Call
  <2> HIDE DEF b, c
  <2> DEFINE f == Effect(e, b)
  <2>4. f \in EditorType /\ f.field = job /\ f.top = e.top /\ f.applied = e.applied
    BY <2>2, <2>3, EffectFacts DEF EffectOf
  <2>5. Step.inputs # <<"copy result">>
    BY <2>1
  <2>9. L = 2
    BY <1>0, <2>1
  <2>6. CASE n = 1
    <3>1. r = f
      BY <1>4, <2>2, <2>6, AfterFew
    <3> HIDE DEF f
    <3>2. \A j \in JobSet : r.applied[j] = e.applied[j]
      BY <2>4, <3>1
    <3> QED
      <4>1. n # L /\ n < L /\ ~(step > FillStep)
        BY <1>1, <1>6, <2>6, <2>9
      <4>2. r \in EditorType /\ r.applied = e.applied /\ r.top = e.top
        BY <2>4, <3>1
      <4> QED
        BY <1>0, <1>6, <2>5, <3>2, <4>1, <4>2 DEF StepResult
  <2>7. CASE n = 2
    <3>1. r = Effect(f, c)
      <4>1. SubSeq(sent, 1, n) = <<b, c>>
        BY <1>2, <2>2, <2>7, <2>9
      <4>2. After(e, <<b, c>>) = Effect(f, c)
        BY <2>2, AfterFew
      <4> HIDE DEF f
      <4> QED
        BY <1>4, <4>1, <4>2
    <3>2. EffectOf(f, c, r)
      BY <2>2, <2>4, <3>1, EffectFacts
    <3> HIDE DEF f
    <3>3. x # "fill"
      BY DEF Changing
    <3>4. /\ r \in EditorType /\ r.field = job
          /\ \A j \in JobSet :
               /\ r.applied[j] \in {f.applied[j], f.applied[j] + 1}
               /\ j # job => r.applied[j] = f.applied[j]
          /\ f.top = Inputs[x][1] => r.applied[job] > 0
      BY <2>1, <2>3, <2>4, <3>2, <3>3 DEF EffectOf
    <3> QED
      <4>1. n = L /\ ~(n < L) /\ ~(step > FillStep)
        BY <1>1, <1>6, <2>7, <2>9
      <4>2. \A j \in JobSet : r.applied[j] \in {e.applied[j], e.applied[j] + 1} /\ (j # job => r.applied[j] = e.applied[j])
        BY <2>4, <3>4
      <4>3. e.top = Step.window => r.applied[job] > 0
        BY <2>1, <2>4, <3>4
      <4> QED
        BY <1>0, <1>6, <2>5, <3>4, <4>1, <4>2, <4>3 DEF StepResult
  <2>8. n \in {1, 2}
    BY <1>2, <1>6, <2>9
  <2> QED
    BY <2>6, <2>7, <2>8
<1>7. CASE n > 0 /\ ~(step = FillStep /\ step = ChangeStep)
  <2>1. PICK x \in Names :
          /\ Step.inputs = <<x>>
          /\ x = "fill" => step <= FillStep
          /\ step = FillStep => x = "fill"
          /\ step = ChangeStep => x \in Changing /\ Inputs[x][1] = Step.window
          /\ step # ChangeStep => x \notin Changing
    <3>1. "fill" \notin Changing /\ "fill" \in Names /\ \A y \in Changing : y \in Names /\ y # "fill"
      BY DEF Changing, Names
    <3>2. CASE step \notin {FillStep, ChangeStep}
      <4>1. PICK y \in Names \ Changing : Steps[step].inputs = <<y>> /\ (y = "fill" => step < FillStep)
        BY <1>1, <3>2 DEF StepShape
      <4>2. step < FillStep => step <= FillStep
        BY <1>1
      <4> QED
        BY <1>1, <3>2, <4>1, <4>2
    <3>3. CASE step = FillStep
      <4>1. step # ChangeStep /\ step <= FillStep
        BY <1>1, <1>7, <3>3
      <4>2. Step.inputs = <<"fill">>
        BY <1>1, <3>3, <4>1 DEF StepShape
      <4> QED
        BY <3>1, <3>3, <4>1, <4>2
    <3>4. CASE step = ChangeStep
      <4>1. PICK y \in Changing : Inputs[y][1] = Step.window /\ Step.inputs = <<y>>
        BY <1>1, <1>7, <3>4 DEF StepShape, Changes
      <4> QED
        BY <1>7, <3>1, <3>4, <4>1
    <3> QED
      BY <3>2, <3>3, <3>4
  <2> DEFINE c == Call(x, result, FALSE)
  <2>2. sent = <<c>> /\ c \in InputType
    BY <2>1, SentInputs DEF sent
  <2>3. c.name = x /\ ~c.late /\ c.job = job
    BY DEF Call
  <2> HIDE DEF c
  <2>4. L = 1 /\ n = 1
    <3>1. L = 1
      BY <1>0, <2>1
    <3> QED
      BY <1>2, <1>7, <3>1
  <2>5. r = Effect(e, c)
    <3>1. SubSeq(sent, 1, n) = <<c>>
      BY <1>2, <2>2, <2>4
    <3> QED
      BY <1>4, <2>2, <3>1, AfterFew
  <2>6. EffectOf(e, c, r)
    BY <2>2, <2>5, EffectFacts
  <2>7. Step.inputs = <<"copy result">> => x = "copy result" /\ Step.window = "result"
    <3>1. \A y : <<x>> = <<y>> => x = y
      OBVIOUS
    <3>2. Step.inputs = <<"copy result">> => x = "copy result"
      BY <2>1, <3>1
    <3> QED
      BY <1>1, <3>2 DEF StepShape
  <2>8. \A j \in JobSet : r.applied[j] \in {e.applied[j], e.applied[j] + 1}
    BY <2>6 DEF EffectOf
  <2>9. r \in EditorType /\ (step # ChangeStep => r.applied = e.applied)
    BY <2>1, <2>3, <2>6 DEF EffectOf
  <2>10. (step > FillStep => r.field = e.field) /\ (step = FillStep => r.field = job)
    <3>1. (x # "fill" => r.field = e.field) /\ (x = "fill" => r.field = job)
      BY <2>3, <2>6 DEF EffectOf
    <3>2. step > FillStep => ~(step <= FillStep)
      BY <1>1
    <3> QED
      BY <2>1, <3>1, <3>2
  <2>11. step = ChangeStep /\ e.field \in {0, job} => \A j \in JobSet \ {job} : r.applied[j] = e.applied[j]
    BY <1>1, <2>6 DEF EffectOf
  <2>12. step = ChangeStep /\ e.field = job /\ e.top = Step.window => r.applied[job] > 0
    BY <2>1, <2>3, <2>6 DEF EffectOf
  <2>13. x = "copy result" /\ e.top = "result" => r.clip = e.shown /\ r.shown = e.shown
    BY <2>3, <2>6 DEF EffectOf
  <2>14. n = L /\ ~(n < L)
    BY <2>4
  <2> QED
    BY <1>0, <1>7, <2>14, <2>7, <2>8, <2>9, <2>10, <2>11, <2>12, <2>13 DEF StepResult
<1>8. n = 0 \/ n > 0
  BY <1>2
<1> QED
  BY <1>5, <1>6, <1>7, <1>8

(***************************************************************************)
(* The inputs that were not processed in time: they empty the fields or leave *)
(* them alone, and change the project for jobs in late only.                 *)
(***************************************************************************)
LateResult(e) ==
  /\ e \in EditorType
  /\ e.field \in {field, 0}
  /\ (\E k \in 1..Len(pending) : Fills(k)) => e.field = 0
  /\ \A j \in JobSet \ late : e.applied[j] = applied[j]
  /\ pending = << >> => e = Editor

\* What the inputs do that the editor had not processed.
LEMMA PendingLands ==
  ASSUME TypeInv, PendingInv
  PROVE  LateResult(After(Editor, pending))
<1> DEFINE L == Len(pending)
           Filled(n) == \E k \in 1..n : Fills(k)
<1>1. /\ Editor \in EditorType /\ pending \in Seq(InputType) /\ L \in Nat
      /\ \A i \in 1..L : pending[i] \in InputType /\ pending[i].late
      /\ field \in JobSet \cup {0} /\ 0 \notin JobSet /\ Editor.field = field /\ Editor.applied = applied
  BY JobsAssumption DEF TypeInv, Editor, EditorType, JobSet
<1>2. PICK f \in [0..L -> EditorType] : Runs(f, Editor, pending) /\ f[L] = After(Editor, pending)
  BY <1>1, AfterRuns
<1> DEFINE Good(n) ==
             /\ f[n].field \in {field, 0}
             /\ Filled(n) => f[n].field = 0
             /\ \A j \in JobSet \ late : f[n].applied[j] = applied[j]
           K == {n \in Nat : n <= L => Good(n)}
<1>3. 0 \in K
  <2>1. f[0] = Editor /\ ~Filled(0)
    BY <1>2 DEF Runs
  <2> QED
    BY <1>1, <2>1
<1>4. ASSUME NEW n \in Nat, n \in K
      PROVE  n + 1 \in K
  <2> SUFFICES ASSUME n + 1 <= L
               PROVE  Good(n + 1)
    OBVIOUS
  <2>1. Good(n) /\ n + 1 \in 1..L /\ n \in 0..L /\ n + 1 \in 0..L /\ (n + 1) - 1 = n
    BY <1>1, <1>4
  <2> DEFINE e == f[n]
             r == f[n+1]
             x == pending[n+1]
  <2>2. r = Effect(e, x) /\ e \in EditorType /\ r \in EditorType /\ x \in InputType /\ x.late
    BY <1>1, <1>2, <2>1 DEF Runs
  <2>3. EffectOf(e, x, r)
    BY <2>2, EffectFacts
  <2>4. Filled(n + 1) <=> Filled(n) \/ Fills(n + 1)
    OBVIOUS
  <2>5. Fills(n + 1) <=> x.name = "fill"
    BY DEF Fills
  <2>6. x.name \in Changing /\ ~Filled(n) => field \in late \cup {0}
    BY <2>1 DEF PendingInv
  <2>7. e.field \in {field, 0} /\ (Filled(n) => e.field = 0) /\ \A j \in JobSet \ late : e.applied[j] = applied[j]
    BY <2>1
  <2> HIDE DEF e, r, x, Filled
  <2>8. r.field \in {field, 0} /\ (Filled(n + 1) => r.field = 0)
    BY <2>2, <2>3, <2>4, <2>5, <2>7 DEF EffectOf
  <2>9. ASSUME NEW j \in JobSet \ late
        PROVE  r.applied[j] = applied[j]
    <3>1. CASE x.name \in Changing
      <4>1. e.field \in late \cup {0}
        BY <2>6, <2>7, <3>1
      <4>2. j # e.field
        BY <1>1, <4>1
      <4> QED
        BY <2>3, <2>7, <4>2 DEF EffectOf
    <3>2. CASE x.name \notin Changing
      BY <2>3, <2>7, <3>2 DEF EffectOf
    <3> QED
      BY <3>1, <3>2
  <2> QED
    BY <2>8, <2>9 DEF r
<1>5. L \in K
  <2> HIDE DEF K
  <2> QED
    BY <1>1, <1>3, <1>4, Induction
<1>6. After(Editor, pending) \in EditorType
  BY <1>1, AfterType
<1>7. pending = << >> => After(Editor, pending) = Editor
  BY <1>1, AfterFew
<1> QED
  BY <1>1, <1>2, <1>5, <1>6, <1>7 DEF LateResult

(***************************************************************************)
(* The editor takes the inputs it has not processed, and then those of a step. *)
(***************************************************************************)
LEMMA Landing ==
  ASSUME TypeInv, PendingInv, NEW inputs \in Seq(InputType), Land(inputs)
  PROVE  \E e : /\ LateResult(e) /\ Editor' = After(e, inputs) /\ pending' = << >>
                /\ pending = << >> => late' = late
                /\ pending # << >> => late' = IF job \in JobSet THEN late \cup {job} ELSE late
<1> DEFINE e == After(Editor, pending)
<1>1. LateResult(e)
  BY PendingLands
<1>2. Editor \in EditorType /\ pending \in Seq(InputType)
  BY DEF TypeInv
<1> DEFINE r == After(Editor, pending \o inputs)
<1>3. r = After(e, inputs)
  BY <1>2, AfterConcat
<1>4. r \in EditorType
  BY <1>1, <1>3, AfterType DEF LateResult
<1>5. top' = r.top /\ field' = r.field /\ shown' = r.shown /\ clip' = r.clip /\ applied' = r.applied
  BY DEF Land, Process
<1>6. Editor' = r
  <2>1. Editor' = [top |-> r.top, field |-> r.field, shown |-> r.shown, clip |-> r.clip, applied |-> r.applied]
    BY <1>5 DEF Editor
  <2> HIDE DEF r
  <2> QED
    BY <1>4, <2>1 DEF EditorType
<1>7. /\ pending' = << >>
      /\ pending = << >> => late' = late
      /\ pending # << >> => late' = IF job \in JobSet THEN late \cup {job} ELSE late
  BY DEF Land, Flag, JobSet
<1> HIDE DEF e, r
<1> QED
  BY <1>1, <1>3, <1>6, <1>7

(***************************************************************************)
(* One call of a step, whatever becomes of it.                               *)
(***************************************************************************)
Filled == \E k \in 1..Len(pending) : Fills(k)

CallResult ==
  /\ Editor' \in EditorType
  /\ pending' \in Seq(InputType) /\ \A i \in 1..Len(pending') : pending'[i].late
  /\ late \subseteq late' /\ late' \in SUBSET JobSet
  /\ PendingInv'
  /\ pending # << >> \/ pending' = << >> \/ late' # {}
  /\ \A j \in JobSet \ late' :
       /\ applied'[j] \in {applied[j], applied[j] + 1}
       /\ j # job \/ step # ChangeStep => applied'[j] = applied[j]
  /\ step > FillStep =>
       /\ job \notin late' => field' = field
       /\ field \in {0, job} \/ Filled => field' \in {0, job} \/ Filled'

\* What a call that the script takes for a success has achieved.
Achieved ==
  /\ step = FillStep /\ step # ChangeStep =>
       /\ job \notin late' => field' = job
       /\ field' \in {0, job} \/ Filled'
  /\ kind \notin {"spans", "residuals"} /\ step = ChangeStep /\ job \notin late' =>
       applied'[job] > 0 \/ top' = Step.window
  /\ Step.inputs = <<"copy result">> /\ late' = {} => clip' = shown'

\* A call whose inputs, or the first of them, the editor takes.
LEMMA CallLands ==
  ASSUME TypeInv, PendingInv, FieldInv, pc = "input", job \in JobSet, step \in DOMAIN Steps,
         top = Step.window, NEW result \in BOOLEAN, NEW n \in 0..Len(Step.inputs),
         Land(SubSeq(Sent(result, FALSE), 1, n))
  PROVE  /\ CallResult
         /\ n = Len(Step.inputs) \/ Step.tolerant => Achieved
<1> DEFINE inputs == SubSeq(Sent(result, FALSE), 1, n)
           r == Editor'
<1>1. /\ ScriptShape /\ StepShape(step) /\ Step = Steps[step]
      /\ step \in Int /\ FillStep \in Int /\ ChangeStep \in Int /\ FillStep <= ChangeStep
  BY Scripts DEF TypeInv, ScriptShape, Step
<1>2. inputs \in Seq(InputType)
  <2>1. Sent(result, FALSE) \in Seq(InputType) /\ Len(Sent(result, FALSE)) = Len(Step.inputs)
    BY SentInputs
  <2>2. PICK s : s = Sent(result, FALSE)
    OBVIOUS
  <2>3. s \in Seq(InputType) /\ Len(s) \in Nat /\ n \in 0..Len(s) /\ \A i \in 1..Len(s) : s[i] \in InputType
    <3>1. s \in Seq(InputType) /\ n \in 0..Len(s)
      BY <2>1, <2>2
    <3>2. Len(s) \in Nat /\ \A i \in 1..Len(s) : s[i] \in InputType
      BY <3>1, LenProperties, ElementOfSeq
    <3> QED
      BY <3>1, <3>2
  <2>4. n \in Int /\ \A i \in 1..n : s[i] \in InputType
    BY <2>3
  <2>5. SubSeq(s, 1, n) \in Seq(InputType)
    BY <2>4, SubSeqProperties
  <2> QED
    BY <2>2, <2>5
<1> HIDE DEF inputs
<1>3. PICK e : /\ LateResult(e) /\ Editor' = After(e, inputs) /\ pending' = << >>
               /\ pending = << >> => late' = late
               /\ pending # << >> => late' = IF job \in JobSet THEN late \cup {job} ELSE late
  BY <1>2, Landing DEF inputs
<1>4. late \subseteq late' /\ late' \in SUBSET JobSet /\ (job \notin late' => pending = << >>)
  BY <1>3 DEF TypeInv
<1>5. StepResult(e, r, n)
  BY <1>3, StepEffect DEF LateResult, inputs
<1>6. /\ r.top = top' /\ r.field = field' /\ r.shown = shown' /\ r.clip = clip' /\ r.applied = applied'
  BY DEF Editor
<1> HIDE DEF r
<1>7. step = ChangeStep => step = FillStep \/ e.field \in {0, job}
  BY <1>1, <1>3 DEF FieldInv, LateResult, Filled
<1>8. ASSUME NEW j \in JobSet \ late'
      PROVE  /\ applied'[j] \in {applied[j], applied[j] + 1}
             /\ j # job \/ step # ChangeStep => applied'[j] = applied[j]
  <2>1. e.applied[j] = applied[j]
    BY <1>3, <1>4 DEF LateResult
  <2> QED
    BY <1>5, <1>6, <1>7, <2>1 DEF StepResult
<1>9. ASSUME step > FillStep
      PROVE  /\ job \notin late' => field' = field
             /\ field \in {0, job} \/ Filled => field' \in {0, job}
  <2>1. field' = e.field /\ e.field \in {field, 0} /\ (Filled => e.field = 0)
    BY <1>3, <1>5, <1>6, <1>9 DEF StepResult, LateResult, Filled
  <2>2. pending = << >> => e.field = field
    BY <1>3 DEF LateResult, Editor
  <2> QED
    BY <1>4, <2>1, <2>2
<1>10. PendingInv'
  <2>1. 1..Len(pending') = {}
    BY <1>3
  <2> QED
    BY <2>1 DEF PendingInv
<1>11. CallResult
  <2>1. Editor' \in EditorType
    BY <1>5 DEF StepResult, r
  <2>2. pending' \in Seq(InputType) /\ \A i \in 1..Len(pending') : pending'[i].late
    BY <1>3
  <2> QED
    BY <1>3, <1>4, <1>8, <1>9, <1>10, <2>1, <2>2 DEF CallResult
<1>12. ASSUME n = Len(Step.inputs) \/ Step.tolerant
       PROVE  Achieved
  <2>1. ASSUME step = FillStep, step # ChangeStep
        PROVE  field' = job
    <3>1. n = Len(Step.inputs)
      BY <1>1, <1>12, <2>1 DEF StepShape
    <3> QED
      BY <1>5, <1>6, <2>1, <3>1 DEF StepResult
  <2>2. job \notin late' => e = Editor
    BY <1>3, <1>4 DEF LateResult
  <2>3. Editor.top = top /\ Editor.field = field /\ Editor.shown = shown
    BY DEF Editor
  <2>4. ASSUME step = ChangeStep, job \notin late'
        PROVE  applied'[job] > 0 \/ top' = Step.window
    <3>1. e.top = Step.window
      BY <2>2, <2>3, <2>4
    <3>2. step = FillStep \/ e.field = job
      BY <1>1, <1>4, <2>2, <2>3, <2>4 DEF FieldInv
    <3>3. n = Len(Step.inputs) \/ n < Len(Step.inputs)
      <4>1. Len(Step.inputs) \in {1, 2}
        BY SentInputs
      <4> QED
        BY <4>1
    <3> QED
      BY <1>5, <1>6, <2>4, <3>1, <3>2, <3>3 DEF StepResult
  <2>5. ASSUME Step.inputs = <<"copy result">>, late' = {}
        PROVE  clip' = shown'
    <3>1. n = Len(Step.inputs)
      BY <1>1, <1>12, <2>5 DEF StepShape
    <3>2. e.top = Step.window
      BY <2>2, <2>3, <2>5
    <3> QED
      BY <1>5, <1>6, <2>5, <3>1, <3>2 DEF StepResult
  <2> QED
    BY <2>1, <2>4, <2>5 DEF Achieved
<1> QED
  BY <1>11, <1>12

\* A call whose inputs the editor will take later.
LEMMA CallQueued ==
  ASSUME TypeInv, PendingInv, FieldInv, pc = "input", job \in JobSet, step \in DOMAIN Steps,
         Flag, pending' = pending \o Sent(TRUE, TRUE), UNCHANGED <<top, field, shown, clip, applied>>
  PROVE  CallResult /\ Achieved
<1> DEFINE L == Len(pending)
           M == Len(Step.inputs)
<1>1. /\ ScriptShape /\ StepShape(step) /\ Step = Steps[step]
      /\ step \in Int /\ FillStep \in Int /\ ChangeStep \in Int /\ FillStep <= ChangeStep
  BY Scripts DEF TypeInv, ScriptShape, Step
<1>2. pending \in Seq(InputType) /\ L \in Nat /\ \A i \in 1..L : pending[i].late
  BY DEF TypeInv
<1>3. PICK s : s = Sent(TRUE, TRUE)
  OBVIOUS
<1>4. /\ s \in Seq(InputType) /\ Len(s) = M /\ M \in {1, 2}
      /\ \A i \in 1..M : s[i] = Call(Step.inputs[i], TRUE, TRUE)
  BY <1>3, SentInputs
<1>5. \A i \in 1..M : s[i].name = Step.inputs[i] /\ s[i].late
  <2>1. \A x : Call(x, TRUE, TRUE).name = x /\ Call(x, TRUE, TRUE).late
    BY DEF Call
  <2> QED
    BY <1>4, <2>1
<1>6. late' = late \cup {job} /\ late' \in SUBSET JobSet
  BY DEF Flag, JobSet, TypeInv
<1> HIDE DEF L, M
<1>7. /\ pending' \in Seq(InputType) /\ Len(pending') = L + M
      /\ \A i \in 1..L : pending'[i] = pending[i]
      /\ \A i \in 1..M : pending'[L + i] = s[i]
  <2>1. pending' = pending \o s
    BY <1>3
  <2>2. /\ pending \o s \in Seq(InputType) /\ Len(pending \o s) = Len(pending) + Len(s)
        /\ \A i \in 1..(Len(pending) + Len(s)) :
             (pending \o s)[i] = IF i <= Len(pending) THEN pending[i] ELSE s[i - Len(pending)]
    BY <1>2, <1>4, ConcatProperties
  <2>3. \A i \in 1..L : i \in 1..(L + M) /\ i <= L
    BY <1>2, <1>4
  <2>4. \A i \in 1..M : L + i \in 1..(L + M) /\ ~(L + i <= L) /\ (L + i) - L = i
    BY <1>2, <1>4
  <2>5. /\ pending' \in Seq(InputType) /\ Len(pending') = L + M
        /\ \A i \in 1..(L + M) : pending'[i] = IF i <= L THEN pending[i] ELSE s[i - L]
    BY <1>4, <2>1, <2>2 DEF L
  <2> QED
    BY <2>3, <2>4, <2>5
<1>8. \A i \in 1..(L + M) : i \in 1..L \/ (i - L \in 1..M /\ i = L + (i - L))
  BY <1>2, <1>4
<1>9. \A i \in 1..(L + M) : pending'[i].late
  BY <1>2, <1>5, <1>7, <1>8
<1>10. Filled => Filled'
  <2>1. \A k \in 1..L : k \in 1..(L + M)
    BY <1>2, <1>4
  <2> QED
    BY <1>7, <2>1 DEF Filled, Fills, L
<1>11. step = FillStep => Step.inputs[1] = "fill" /\ Filled'
  <2>1. ASSUME step = FillStep
        PROVE  Step.inputs[1] = "fill"
    <3>1. CASE step = ChangeStep
      <4>1. PICK x : Step.inputs = <<"fill", x>>
        BY <1>1, <2>1, <3>1 DEF StepShape, Changes
      <4> QED
        BY <4>1
    <3>2. CASE step # ChangeStep
      <4>1. Step.inputs = <<"fill">>
        BY <1>1, <2>1, <3>2 DEF StepShape
      <4> QED
        BY <4>1
    <3> QED
      BY <3>1, <3>2
  <2>2. 1 \in 1..M /\ L + 1 \in 1..(L + M)
    BY <1>2, <1>4
  <2>3. step = FillStep => pending'[L + 1].name = "fill"
    BY <1>5, <1>7, <2>1, <2>2
  <2> QED
    BY <1>7, <2>1, <2>2, <2>3 DEF Filled, Fills
<1>12. ASSUME NEW i \in 1..(L + M), pending'[i].name \in Changing
       PROVE  field \in late' \cup {0} \/ \E k \in 1..(i-1) : pending'[k].name = "fill"
  <2>1. CASE i \in 1..L
    <3>1. pending[i].name \in Changing
      BY <1>7, <1>12, <2>1
    <3>2. field \in late \cup {0} \/ \E k \in 1..(i-1) : pending[k].name = "fill"
      BY <2>1, <3>1 DEF PendingInv, Fills, L
    <3>3. \A k \in 1..(i-1) : k \in 1..L
      BY <1>2, <2>1
    <3> QED
      BY <1>6, <1>7, <3>2, <3>3
  <2>2. CASE i - L \in 1..M /\ i = L + (i - L)
    <3>1. s[i-L].name \in Changing
      BY <1>7, <1>12, <2>2
    <3>2. Step.inputs[i-L] \in Changing
      BY <1>5, <2>2, <3>1
    <3>3. step = ChangeStep
      <4> SUFFICES ASSUME step # ChangeStep PROVE FALSE
        OBVIOUS
      <4>1. PICK x : x \notin Changing /\ Step.inputs = <<x>>
        <5>1. "fill" \notin Changing
          BY DEF Changing
        <5> QED
          BY <1>1, <5>1 DEF StepShape
      <4>2. M = 1
        BY <4>1 DEF M
      <4>3. i - L = 1
        BY <2>2, <4>2
      <4> QED
        BY <3>2, <4>1, <4>3
    <3>4. CASE step = FillStep
      <4>1. Step.inputs[1] = "fill" /\ "fill" \notin Changing
        BY <1>11, <3>4 DEF Changing
      <4>2. i - L # 1
        BY <3>2, <4>1
      <4>3. L + 1 \in 1..(i-1) /\ 1 \in 1..M
        BY <1>2, <1>4, <2>2, <4>2
      <4>4. pending'[L + 1].name = "fill"
        BY <1>5, <1>7, <4>1, <4>3
      <4> QED
        BY <4>3, <4>4
    <3>5. CASE step # FillStep
      <4>1. field \in {0, job} \/ Filled
        BY <1>1, <3>3, <3>5 DEF FieldInv, Filled
      <4>2. CASE Filled
        <5>1. PICK k \in 1..L : pending[k].name = "fill"
          BY <4>2 DEF Filled, Fills, L
        <5>2. k \in 1..(i-1)
          BY <1>2, <1>4, <2>2
        <5> QED
          BY <1>7, <5>1, <5>2
      <4>3. CASE field \in {0, job}
        BY <1>6, <4>3
      <4> QED
        BY <4>1, <4>2, <4>3
    <3> QED
      BY <3>4, <3>5
  <2> QED
    BY <1>8, <2>1, <2>2
<1>13. PendingInv'
  BY <1>7, <1>12 DEF PendingInv, Fills
<1>14. Editor' \in EditorType
  BY DEF TypeInv, Editor
<1>15. \A j \in JobSet : applied'[j] \in {applied[j], applied[j] + 1} /\ applied'[j] = applied[j]
  OBVIOUS
<1>16. CallResult
  BY <1>6, <1>7, <1>9, <1>10, <1>13, <1>14, <1>15 DEF CallResult
<1> QED
  BY <1>6, <1>11, <1>16 DEF Achieved

\* A call that has no effect.
LEMMA CallIgnored ==
  ASSUME TypeInv, PendingInv, UNCHANGED <<editor, late>>
  PROVE  CallResult
<1>1. UNCHANGED <<top, field, shown, clip, pending, applied, late>>
  BY DEF editor
<1>2. Editor' = Editor /\ (PendingInv' <=> PendingInv) /\ (Filled' <=> Filled)
  BY <1>1 DEF Editor, PendingInv, Fills, Filled
<1>3. \A j \in JobSet : applied'[j] \in {applied[j], applied[j] + 1} /\ applied'[j] = applied[j]
  BY <1>1
<1> QED
  BY <1>1, <1>2, <1>3 DEF CallResult, TypeInv

\* A call the worker reports as performed.
LEMMA PerformedResult ==
  ASSUME TypeInv, PendingInv, FieldInv, pc = "input", job \in JobSet, step \in DOMAIN Steps, Performed
  PROVE  CallResult /\ Achieved
<1>1. ASSUME NEW result \in BOOLEAN, Land(Sent(result, FALSE)), top = Step.window
      PROVE  CallResult /\ Achieved
  <2>1. PICK n : n = Len(Step.inputs)
    OBVIOUS
  <2>2. n \in 0..Len(Step.inputs)
    <3>1. n \in {1, 2}
      BY <2>1, SentInputs
    <3> QED
      BY <2>1, <3>1
  <2>3. Land(SubSeq(Sent(result, FALSE), 1, n))
    BY <1>1, <2>1, SentInputs
  <2> QED
    BY <1>1, <2>1, <2>2, <2>3, CallLands
<1>2. ASSUME Flag, pending' = pending \o Sent(TRUE, TRUE), UNCHANGED <<top, field, shown, clip, applied>>
      PROVE  CallResult /\ Achieved
  BY <1>2, CallQueued
<1> QED
  BY <1>1, <1>2 DEF Performed

\* A call answered 503.
LEMMA RefusedResult ==
  ASSUME TypeInv, PendingInv, FieldInv, pc = "input", job \in JobSet, step \in DOMAIN Steps, Refused
  PROVE  CallResult /\ (top = Step.window /\ Step.tolerant => Achieved)
<1>1. ASSUME top = Step.window, NEW n \in 0..Len(Step.inputs), Land(SubSeq(Sent(TRUE, FALSE), 1, n))
      PROVE  CallResult /\ (Step.tolerant => Achieved)
  BY <1>1, CallLands
<1>2. ASSUME UNCHANGED <<editor, late>>
      PROVE  CallResult
  BY <1>2, CallIgnored
<1> QED
  BY <1>1, <1>2 DEF Refused

-----------------------------------------------------------------------------
(* Every action keeps the invariant. *)

\* The shape of the step the script is at.
LEMMA ShapeHere ==
  ASSUME TypeInv, step \in DOMAIN Steps
  PROVE  /\ ScriptShape /\ StepShape(step) /\ Step = Steps[step]
         /\ step \in Nat /\ FillStep \in Nat /\ ChangeStep \in Nat /\ FillStep <= ChangeStep
<1>1. ScriptShape
  BY Scripts DEF TypeInv
<1>2. StepShape(step) /\ Step = Steps[step]
  BY <1>1 DEF ScriptShape, Step
<1>3. FillStep \in 1..ChangeStep /\ ChangeStep \in 1..Len(Steps) /\ Len(Steps) \in Nat
  BY <1>1 DEF ScriptShape
<1>4. step \in Nat
  BY DEF TypeInv
<1>5. FillStep \in Nat /\ ChangeStep \in Nat /\ FillStep <= ChangeStep
  BY <1>3
<1> QED
  BY <1>1, <1>2, <1>4, <1>5

\* The call succeeds, or its failure is tolerated.
LEMMA DoStepKeeps ==
  ASSUME Inv, DoStep
  PROVE  Inv'
<1>1. /\ TypeInv /\ PlaceInv /\ PendingInv /\ FieldInv /\ RepeatedInv /\ DoneInv /\ AckInv
  BY DEF Inv
<1>2. /\ pc = "input" /\ step \in DOMAIN Steps /\ (Step.waits => top = Step.window)
      /\ Performed \/ (Step.tolerant /\ Refused)
      /\ wrongAck' = (wrongAck \/ (Step.inputs = <<"close result">> /\ kind = "comments" /\ ~shown))
      /\ step' = step + 1
      /\ pc' = IF Step.inputs = <<"copy result">> THEN "check" ELSE "input"
      /\ kind' = kind /\ file' = file /\ job' = job /\ done' = done /\ runs' = runs /\ cut' = cut
  BY DEF DoStep
<1>3. job \in JobSet /\ job \notin done /\ file # << >> /\ (HasState => job \notin file[1])
  BY <1>1, <1>2 DEF PlaceInv, InJob
<1>4. CallResult
  BY <1>1, <1>2, <1>3, PerformedResult, RefusedResult
<1>5. ~Step.tolerant \/ Step.waits => Achieved
  BY <1>1, <1>2, <1>3, PerformedResult, RefusedResult
<1>6. /\ ScriptShape /\ StepShape(step) /\ Step = Steps[step]
      /\ step \in Nat /\ FillStep \in Nat /\ ChangeStep \in Nat /\ FillStep <= ChangeStep
  BY <1>1, <1>2, ShapeHere
<1>17. kind' = kind /\ file' = file /\ job' = job /\ done' = done /\ cut' = cut /\ step' = step + 1
  BY <1>2
<1>7. FillStep' = FillStep /\ ChangeStep' = ChangeStep /\ HasState' = HasState /\ Steps' = Steps
  BY <1>2 DEF FillStep, ChangeStep, HasState, Steps
<1>8. late \subseteq late' /\ late' \in SUBSET JobSet
  BY <1>4 DEF CallResult
<1>9. applied \in [JobSet -> Nat] /\ cut \in [JobSet -> Nat]
  BY <1>1 DEF TypeInv, Editor, EditorType
<1>10. TypeInv'
  <2>1. step' \in Nat \ {0}
    <3>1. step \in Nat
      BY <1>6
    <3> QED
      BY <1>17, <3>1
  <2>2. Editor' \in EditorType /\ late' \in SUBSET JobSet
    BY <1>4 DEF CallResult
  <2>3. pending' \in Seq(InputType) /\ \A i \in 1..Len(pending') : pending'[i].late
    BY <1>4 DEF CallResult
  <2>4. file' # << >> => file' = <<file'[1]>> /\ file'[1] \in SUBSET JobSet
    BY <1>1, <1>17 DEF TypeInv
  <2>5. kind' \in Kinds /\ job' \in Nat /\ done' \in SUBSET JobSet /\ cut' \in [JobSet -> Nat]
    BY <1>1, <1>17 DEF TypeInv
  <2> QED
    BY <2>1, <2>2, <2>3, <2>4, <2>5 DEF TypeInv
<1>11. PlaceInv'
  <2>1. pc' = "check" => kind' = "comments" /\ step' = 6
    <3>1. pc' = "check" => Step.inputs = <<"copy result">>
      BY <1>2
    <3>2. Step.inputs = <<"copy result">> => kind = "comments" /\ step = 5
      BY <1>6 DEF StepShape
    <3>3. step = 5 => step' = 6
      BY <1>17
    <3> QED
      BY <1>17, <3>1, <3>2, <3>3
  <2>2. pc' \in {"input", "check"}
    BY <1>2
  <2> QED
    BY <1>1, <1>2, <1>3, <1>7, <2>1, <2>2 DEF PlaceInv, InJob
<1>12. PendingInv'
  BY <1>4 DEF CallResult
<1>13. FieldInv'
  <2> SUFFICES ASSUME FillStep < step + 1, step + 1 <= ChangeStep
               PROVE  (job \notin late' => field' = job) /\ (field' \in {0, job} \/ Filled')
    BY <1>2, <1>7 DEF FieldInv, Filled
  <2>1. CASE step = FillStep
    <3>1. step # ChangeStep
      BY <1>6
    <3>2. Achieved
      BY <1>5, <1>6, <2>1, <3>1 DEF StepShape
    <3> QED
      BY <2>1, <3>1, <3>2 DEF Achieved
  <2>2. CASE step > FillStep
    <3>1. step <= ChangeStep /\ FillStep < step
      BY <1>6, <2>2
    <3>2. (job \notin late => field = job) /\ (field \in {0, job} \/ Filled)
      BY <1>1, <1>2, <3>1 DEF FieldInv, Filled
    <3> QED
      BY <1>4, <1>8, <2>2, <3>2 DEF CallResult
  <2>3. step = FillStep \/ step > FillStep
    BY <1>6
  <2> QED
    BY <2>1, <2>2, <2>3
<1>14. RepeatedInv'
  <2> SUFFICES ASSUME HasState, NEW j \in JobSet \ late'
               PROVE  applied'[j] <= 1 + cut[j] /\ (Fresh(j)' => applied'[j] <= cut[j])
    BY <1>2, <1>7 DEF RepeatedInv
  <2>1. applied[j] <= 1 + cut[j] /\ (Fresh(j) => applied[j] <= cut[j])
    BY <1>1, <1>8 DEF RepeatedInv
  <2>2. applied[j] \in Nat /\ cut[j] \in Nat
    BY <1>9
  <2>3. applied'[j] \in {applied[j], applied[j] + 1} /\ (j # job \/ step # ChangeStep => applied'[j] = applied[j])
    BY <1>4 DEF CallResult
  <2>4. InJob' /\ InJob /\ pc # "write"
    BY <1>2 DEF InJob
  <2>5. CASE j # job
    <3>1. Fresh(j)' => Fresh(j)
      BY <1>2, <2>4, <2>5 DEF Fresh
    <3> QED
      BY <2>1, <2>3, <2>5, <3>1
  <2>6. CASE j = job /\ step # ChangeStep
    <3>1. Fresh(j)' => ~(step + 1 > ChangeStep)
      BY <1>2, <1>7, <2>4, <2>6 DEF Fresh
    <3>2. ~(step + 1 > ChangeStep) => ~(step > ChangeStep)
      BY <1>6
    <3>3. Fresh(j)' => Fresh(j)
      BY <1>2, <2>4, <3>1, <3>2 DEF Fresh
    <3> QED
      BY <2>1, <2>3, <2>6, <3>3
  <2>7. CASE j = job /\ step = ChangeStep
    <3>1. ~(step > ChangeStep) /\ step + 1 > ChangeStep
      BY <1>6, <2>7
    <3>2. Fresh(j)
      BY <1>3, <2>4, <2>7, <3>1 DEF Fresh
    <3>3. ~Fresh(j)'
      BY <1>2, <1>7, <2>4, <2>7, <3>1 DEF Fresh
    <3> QED
      BY <2>1, <2>2, <2>3, <3>2, <3>3
  <2> QED
    BY <2>5, <2>6, <2>7
<1>15. DoneInv'
  <2> SUFFICES ASSUME kind \notin {"spans", "residuals"}
               PROVE  /\ DoneIsApplied'
                      /\ step + 1 > ChangeStep /\ job \notin late' =>
                           \/ applied'[job] > 0
                           \/ step = ChangeStep /\ top' = Steps[ChangeStep].window
    <3>1. pc' # "write"
      BY <1>2
    <3>2. step + 1 = ChangeStep + 1 <=> step = ChangeStep
      BY <1>6
    <3> QED
      BY <1>2, <1>7, <3>1, <3>2 DEF DoneInv
  <2>1. Step.waits /\ top = Step.window /\ Achieved
    BY <1>2, <1>5, <1>6 DEF StepShape
  <2>2. \A j \in JobSet \ late' : applied[j] > 0 => applied'[j] > 0
    <3>1. \A j \in JobSet \ late' : applied'[j] \in {applied[j], applied[j] + 1} /\ applied[j] \in Nat
      BY <1>4, <1>9 DEF CallResult
    <3> QED
      BY <3>1
  <2>3. DoneIsApplied'
    <3>1. \A j \in file[1] \ late : applied[j] > 0
      BY <1>1, <1>3 DEF DoneInv, DoneIsApplied
    <3>2. file[1] \subseteq JobSet
      BY <1>1, <1>3 DEF TypeInv
    <3> QED
      BY <1>2, <1>8, <2>2, <3>1, <3>2 DEF DoneIsApplied
  <2>4. ASSUME step + 1 > ChangeStep, job \notin late'
        PROVE  applied'[job] > 0 \/ (step = ChangeStep /\ top' = Steps[ChangeStep].window)
    <3>1. CASE step = ChangeStep
      BY <1>6, <2>1, <2>4, <3>1 DEF Achieved
    <3>2. CASE step > ChangeStep
      <4>1. applied[job] > 0 \/ (step = ChangeStep + 1 /\ top = Steps[ChangeStep].window)
        BY <1>1, <1>2, <1>8, <2>4, <3>2 DEF DoneInv, InJob
      <4>2. ~(step = ChangeStep + 1 /\ top = Steps[ChangeStep].window)
        BY <1>6, <2>1 DEF StepShape
      <4> QED
        BY <1>3, <2>2, <2>4, <4>1, <4>2
    <3>3. step = ChangeStep \/ step > ChangeStep
      BY <1>6, <2>4
    <3> QED
      BY <3>1, <3>2, <3>3
  <2> QED
    BY <2>3, <2>4
<1>16. AckInv'
  <2> SUFFICES ASSUME late' = {}
               PROVE  /\ ~wrongAck' /\ pending' = << >>
                      /\ pc' = "check" => clip' = shown'
                      /\ kind = "comments" /\ pc' = "input" /\ step + 1 = 6 => shown'
    BY <1>2 DEF AckInv
  <2>1. /\ ~wrongAck /\ pending = << >>
        /\ kind = "comments" /\ step = 6 => shown
    BY <1>1, <1>2, <1>8 DEF AckInv
  <2>2. pending' = << >>
    BY <1>4, <2>1 DEF CallResult
  <2>3. ~wrongAck'
    <3>1. kind = "comments" /\ Step.inputs = <<"close result">> => step = 6
      BY <1>6 DEF StepShape
    <3> QED
      BY <1>2, <2>1, <3>1
  <2>4. pc' = "check" => clip' = shown'
    <3> SUFFICES ASSUME Step.inputs = <<"copy result">>
                 PROVE  clip' = shown'
      BY <1>2
    <3>1. Achieved
      BY <1>5, <1>6 DEF StepShape
    <3> QED
      BY <3>1 DEF Achieved
  <2>5. ~(kind = "comments" /\ pc' = "input" /\ step + 1 = 6)
    <3>1. kind = "comments" /\ step = 5 => Step.inputs = <<"copy result">>
      BY <1>6 DEF StepShape
    <3>2. step + 1 = 6 => step = 5
      BY <1>6
    <3> QED
      BY <1>2, <3>1, <3>2
  <2> QED
    BY <2>2, <2>3, <2>4, <2>5
<1> QED
  BY <1>10, <1>11, <1>12, <1>13, <1>14, <1>15, <1>16 DEF Inv

(***************************************************************************)
(* A run that ends inside a job is counted for it.                           *)
(***************************************************************************)
LEMMA FailsKeeps ==
  ASSUME Inv, StepFails
  PROVE  Inv'
<1>1. TypeInv /\ PlaceInv /\ PendingInv /\ FieldInv /\ RepeatedInv /\ DoneInv /\ AckInv
  BY DEF Inv
<1>2. /\ pc \in {"input", "check"} /\ kind' = kind /\ file' = file /\ wrongAck' = wrongAck
      /\ cut' = [cut EXCEPT ![job] = @ + 1] /\ pc' = "idle" /\ step' = 1 /\ job' = 0 /\ done' = {}
  BY DEF StepFails, Abandon
<1>3. job \in JobSet /\ job \notin done /\ file # << >> /\ (HasState => job \notin file[1])
  BY <1>1, <1>2 DEF PlaceInv, InJob
<1>4. CallResult
  <2>1. ASSUME UNCHANGED <<editor, late>>
        PROVE  CallResult
    BY <1>1, <2>1, CallIgnored
  <2>2. ASSUME pc = "input", step \in DOMAIN Steps, Refused
        PROVE  CallResult
    BY <1>1, <1>3, <2>2, RefusedResult
  <2> QED
    BY <2>1, <2>2 DEF StepFails
<1>5. HasState' = HasState /\ ~InJob' /\ pc' # "write" /\ pc' # "check" /\ pc' # "input"
  BY <1>2 DEF HasState, InJob
<1>6. late \subseteq late' /\ late' \in SUBSET JobSet
  BY <1>4 DEF CallResult
<1>7. applied \in [JobSet -> Nat] /\ cut \in [JobSet -> Nat]
  BY <1>1 DEF TypeInv, Editor, EditorType
<1>8. cut' \in [JobSet -> Nat] /\ cut'[job] = cut[job] + 1 /\ \A j \in JobSet \ {job} : cut'[j] = cut[j]
  BY <1>2, <1>3, <1>7
<1>9. TypeInv'
  <2>1. Editor' \in EditorType
    BY <1>4 DEF CallResult
  <2>2. pending' \in Seq(InputType) /\ \A i \in 1..Len(pending') : pending'[i].late
    BY <1>4 DEF CallResult
  <2>3. file' # << >> => file' = <<file'[1]>> /\ file'[1] \in SUBSET JobSet
    BY <1>1, <1>2 DEF TypeInv
  <2>4. kind' \in Kinds
    BY <1>1, <1>2 DEF TypeInv
  <2>5. step' \in Nat \ {0} /\ job' \in Nat /\ done' \in SUBSET JobSet
    BY <1>2
  <2> QED
    BY <1>6, <1>8, <2>1, <2>2, <2>3, <2>4, <2>5 DEF TypeInv
<1>10. PlaceInv'
  BY <1>1, <1>2, <1>5 DEF PlaceInv
<1>11. PendingInv'
  BY <1>4 DEF CallResult
<1>12. FieldInv'
  BY <1>5 DEF FieldInv
<1>13. RepeatedInv'
  <2> SUFFICES ASSUME HasState, NEW j \in JobSet \ late'
               PROVE  applied'[j] <= 1 + cut'[j] /\ (Fresh(j)' => applied'[j] <= cut'[j])
    BY <1>5 DEF RepeatedInv
  <2>1. applied[j] <= 1 + cut[j] /\ (Fresh(j) => applied[j] <= cut[j])
    BY <1>1, <1>6 DEF RepeatedInv
  <2>2. applied[j] \in Nat /\ cut[j] \in Nat
    BY <1>7
  <2>3. applied'[j] \in {applied[j], applied[j] + 1} /\ (j # job \/ step # ChangeStep => applied'[j] = applied[j])
    BY <1>4 DEF CallResult
  <2>4. CASE j # job
    <3>1. Fresh(j)' => Fresh(j)
      BY <1>2, <2>4 DEF Fresh
    <3>2. cut'[j] = cut[j]
      BY <1>8, <2>4
    <3> QED
      BY <2>1, <2>3, <2>4, <3>1, <3>2
  <2>5. CASE j = job /\ step # ChangeStep
    BY <1>8, <2>1, <2>2, <2>3, <2>5
  <2>6. CASE j = job /\ step = ChangeStep
    <3>1. step \in Nat
      BY <1>1 DEF TypeInv
    <3>2. ~(step > ChangeStep) /\ pc # "write"
      BY <1>2, <2>6, <3>1
    <3>3. Fresh(j)
      BY <1>3, <2>6, <3>2 DEF Fresh
    <3> QED
      BY <1>8, <2>1, <2>2, <2>3, <2>6, <3>3
  <2> QED
    BY <2>4, <2>5, <2>6
<1>14. DoneInv'
  <2>1. kind \notin {"spans", "residuals"} => DoneIsApplied'
    <3> SUFFICES ASSUME kind \notin {"spans", "residuals"}, NEW j \in file[1] \ late'
                 PROVE  applied'[j] > 0
      BY <1>2 DEF DoneIsApplied
    <3>1. j \in JobSet \ late'
      BY <1>1, <1>3 DEF TypeInv
    <3>2. applied[j] > 0
      BY <1>1, <1>3, <1>6 DEF DoneInv, DoneIsApplied
    <3>3. applied'[j] \in {applied[j], applied[j] + 1} /\ applied[j] \in Nat
      BY <1>4, <1>7, <3>1 DEF CallResult
    <3> QED
      BY <3>2, <3>3
  <2> QED
    BY <1>2, <1>5, <2>1 DEF DoneInv
<1>15. AckInv'
  BY <1>1, <1>2, <1>4, <1>5, <1>6 DEF AckInv, CallResult
<1> QED
  BY <1>9, <1>10, <1>11, <1>12, <1>13, <1>14, <1>15 DEF Inv

(***************************************************************************)
(* The actions that leave the editor alone.                                  *)
(***************************************************************************)
LEMMA Untouched ==
  ASSUME TypeInv, PendingInv, UNCHANGED <<editor, late>>
  PROVE  /\ PendingInv' /\ Editor' \in EditorType
         /\ UNCHANGED <<top, field, shown, clip, pending, applied, late>>
         /\ pending' \in Seq(InputType) /\ \A i \in 1..Len(pending') : pending'[i].late
<1>1. CallResult
  BY CallIgnored
<1>2. UNCHANGED <<top, field, shown, clip, pending, applied, late>>
  BY DEF editor
<1> QED
  BY <1>1, <1>2 DEF CallResult

\* The remaining actions keep the invariant, one lemma for each.
LEMMA KillKeeps ==
  ASSUME Inv, Kill
  PROVE  Inv'
<1>1. TypeInv /\ PlaceInv /\ PendingInv /\ FieldInv /\ RepeatedInv /\ DoneInv /\ AckInv
  BY DEF Inv
<1>2. /\ pc # "idle" /\ job \in JobSet /\ kind' = kind /\ wrongAck' = wrongAck
      /\ cut' = [cut EXCEPT ![job] = @ + 1] /\ pc' = "idle" /\ step' = 1 /\ job' = 0 /\ done' = {}
      /\ file' = file \/ (HasState /\ file' = << >>)
  BY DEF Kill, Abandon, JobSet
<1>3. UNCHANGED <<editor, late>>
  BY DEF Kill
<1>4. /\ PendingInv' /\ Editor' \in EditorType
      /\ pending' \in Seq(InputType) /\ \A i \in 1..Len(pending') : pending'[i].late
  BY <1>1, <1>3, Untouched
<1>5. top' = top /\ shown' = shown /\ clip' = clip /\ pending' = pending /\ applied' = applied /\ late' = late
  BY <1>1, <1>3, Untouched
<1>6. HasState' = HasState /\ ~InJob' /\ pc' # "write" /\ pc' # "check" /\ pc' # "input"
  BY <1>2 DEF HasState, InJob
<1>7. applied \in [JobSet -> Nat] /\ cut \in [JobSet -> Nat]
  BY <1>1 DEF TypeInv, Editor, EditorType
<1>8. cut' \in [JobSet -> Nat] /\ cut'[job] = cut[job] + 1 /\ \A j \in JobSet \ {job} : cut'[j] = cut[j]
  BY <1>2, <1>7
<1>9. TypeInv'
  <2>1. file' # << >> => file' = <<file'[1]>> /\ file'[1] \in SUBSET JobSet
    BY <1>1, <1>2 DEF TypeInv
  <2>2. kind' \in Kinds /\ late' \in SUBSET JobSet
    BY <1>1, <1>2, <1>5 DEF TypeInv
  <2>3. step' \in Nat \ {0} /\ job' \in Nat /\ done' \in SUBSET JobSet
    BY <1>2
  <2> QED
    BY <1>4, <1>8, <2>1, <2>2, <2>3 DEF TypeInv
<1>10. PlaceInv'
  BY <1>1, <1>2, <1>6 DEF PlaceInv
<1>11. FieldInv'
  BY <1>6 DEF FieldInv
<1>12. RepeatedInv'
  <2> SUFFICES ASSUME HasState, NEW j \in JobSet \ late
               PROVE  applied[j] <= 1 + cut'[j] /\ (Fresh(j)' => applied[j] <= cut'[j])
    BY <1>5, <1>6 DEF RepeatedInv
  <2>1. applied[j] <= 1 + cut[j] /\ (Fresh(j) => applied[j] <= cut[j])
    BY <1>1 DEF RepeatedInv
  <2>2. applied[j] \in Nat /\ cut[j] \in Nat
    BY <1>7
  <2>3. CASE j # job
    <3>1. Fresh(j)' => Fresh(j)
      BY <1>2, <2>3 DEF Fresh
    <3>2. cut'[j] = cut[j]
      BY <1>8, <2>3
    <3> QED
      BY <2>1, <3>1, <3>2
  <2>4. CASE j = job
    BY <1>8, <2>1, <2>2, <2>4
  <2> QED
    BY <2>3, <2>4
<1>13. DoneInv'
  <2>1. kind \notin {"spans", "residuals"} => DoneIsApplied'
    BY <1>1, <1>2, <1>5 DEF DoneInv, DoneIsApplied
  <2> QED
    BY <1>2, <1>6, <2>1 DEF DoneInv
<1>14. AckInv'
  BY <1>1, <1>2, <1>5, <1>6 DEF AckInv
<1> QED
  BY <1>4, <1>9, <1>10, <1>11, <1>12, <1>13, <1>14 DEF Inv

LEMMA StartRunKeeps ==
  ASSUME Inv, StartRun
  PROVE  Inv'
<1>1. TypeInv /\ PlaceInv /\ PendingInv /\ FieldInv /\ RepeatedInv /\ DoneInv /\ AckInv
  BY DEF Inv
<1>2. /\ pc = "idle" /\ pc' = "next" /\ file # << >> /\ file' = file /\ done' = file[1] /\ job' = 1 /\ step' = 1
      /\ kind' = kind /\ cut' = cut /\ wrongAck' = wrongAck
  BY DEF StartRun
<1>3. UNCHANGED <<editor, late>>
  BY DEF StartRun
<1>4. /\ PendingInv' /\ Editor' \in EditorType
      /\ pending' \in Seq(InputType) /\ \A i \in 1..Len(pending') : pending'[i].late
  BY <1>1, <1>3, Untouched
<1>5. /\ top' = top /\ field' = field /\ shown' = shown /\ clip' = clip
      /\ pending' = pending /\ applied' = applied /\ late' = late
  BY <1>1, <1>3, Untouched
<1>6. FillStep' = FillStep /\ ChangeStep' = ChangeStep /\ HasState' = HasState /\ Steps' = Steps
  BY <1>2 DEF FillStep, ChangeStep, HasState, Steps
<1>7. TypeInv'
  <2>1. kind' \in Kinds /\ late' \in SUBSET JobSet /\ cut' \in [JobSet -> Nat]
    BY <1>1, <1>2, <1>5 DEF TypeInv
  <2>2. file' # << >> => file' = <<file'[1]>> /\ file'[1] \in SUBSET JobSet
    BY <1>1, <1>2 DEF TypeInv
  <2>3. step' \in Nat \ {0} /\ job' \in Nat
    BY <1>1, <1>2 DEF TypeInv
  <2>4. done' \in SUBSET JobSet
    BY <1>1, <1>2 DEF TypeInv
  <2> QED
    BY <1>4, <2>1, <2>2, <2>3, <2>4 DEF TypeInv
<1>8. PlaceInv'
  BY <1>1, <1>2, <1>6 DEF PlaceInv, InJob
<1>9. FieldInv'
  BY <1>2 DEF FieldInv
<1>10. RepeatedInv'
  <2> SUFFICES ASSUME HasState, NEW j \in JobSet \ late
               PROVE  applied[j] <= 1 + cut[j] /\ (Fresh(j)' => applied[j] <= cut[j])
    BY <1>2, <1>5, <1>6 DEF RepeatedInv
  <2>1. Fresh(j)' => Fresh(j)
    BY <1>1, <1>2, <1>6 DEF Fresh, InJob, PlaceInv
  <2> QED
    BY <1>1, <2>1 DEF RepeatedInv
<1>11. DoneInv'
  <2>1. kind \notin {"spans", "residuals"} => DoneIsApplied'
    BY <1>1, <1>2, <1>5 DEF DoneInv, DoneIsApplied
  <2> QED
    BY <1>2, <2>1 DEF DoneInv, InJob
<1>12. AckInv'
  BY <1>1, <1>2, <1>5 DEF AckInv
<1> QED
  BY <1>4, <1>7, <1>8, <1>9, <1>10, <1>11, <1>12 DEF Inv

LEMMA SkipDoneKeeps ==
  ASSUME Inv, SkipDone
  PROVE  Inv'
<1>1. TypeInv /\ PlaceInv /\ PendingInv /\ FieldInv /\ RepeatedInv /\ DoneInv /\ AckInv
  BY DEF Inv
<1>2. /\ pc = "next" /\ pc' = pc /\ file' = file /\ done' = done /\ job' = job + 1 /\ step' = step
      /\ kind' = kind /\ cut' = cut /\ wrongAck' = wrongAck
  BY DEF SkipDone
<1>3. UNCHANGED <<editor, late>>
  BY DEF SkipDone
<1>4. /\ PendingInv' /\ Editor' \in EditorType
      /\ pending' \in Seq(InputType) /\ \A i \in 1..Len(pending') : pending'[i].late
  BY <1>1, <1>3, Untouched
<1>5. /\ top' = top /\ field' = field /\ shown' = shown /\ clip' = clip
      /\ pending' = pending /\ applied' = applied /\ late' = late
  BY <1>1, <1>3, Untouched
<1>6. FillStep' = FillStep /\ ChangeStep' = ChangeStep /\ HasState' = HasState /\ Steps' = Steps
  BY <1>2 DEF FillStep, ChangeStep, HasState, Steps
<1>7. TypeInv'
  <2>1. kind' \in Kinds /\ late' \in SUBSET JobSet /\ cut' \in [JobSet -> Nat]
    BY <1>1, <1>2, <1>5 DEF TypeInv
  <2>2. file' # << >> => file' = <<file'[1]>> /\ file'[1] \in SUBSET JobSet
    BY <1>1, <1>2 DEF TypeInv
  <2>3. step' \in Nat \ {0} /\ job' \in Nat
    BY <1>1, <1>2 DEF TypeInv
  <2>4. done' \in SUBSET JobSet
    BY <1>1, <1>2 DEF TypeInv
  <2> QED
    BY <1>4, <2>1, <2>2, <2>3, <2>4 DEF TypeInv
<1>8. PlaceInv'
  BY <1>1, <1>2, <1>6 DEF PlaceInv, InJob
<1>9. FieldInv'
  BY <1>2 DEF FieldInv
<1>10. RepeatedInv'
  <2> SUFFICES ASSUME HasState, NEW j \in JobSet \ late
               PROVE  applied[j] <= 1 + cut[j] /\ (Fresh(j)' => applied[j] <= cut[j])
    BY <1>2, <1>5, <1>6 DEF RepeatedInv
  <2>1. Fresh(j)' => Fresh(j)
    BY <1>1, <1>2, <1>6 DEF Fresh, InJob, PlaceInv
  <2> QED
    BY <1>1, <2>1 DEF RepeatedInv
<1>11. DoneInv'
  <2>1. kind \notin {"spans", "residuals"} => DoneIsApplied'
    BY <1>1, <1>2, <1>5 DEF DoneInv, DoneIsApplied
  <2> QED
    BY <1>2, <2>1 DEF DoneInv, InJob
<1>12. AckInv'
  BY <1>1, <1>2, <1>5 DEF AckInv
<1> QED
  BY <1>4, <1>7, <1>8, <1>9, <1>10, <1>11, <1>12 DEF Inv

LEMMA BeginJobKeeps ==
  ASSUME Inv, BeginJob
  PROVE  Inv'
<1>1. TypeInv /\ PlaceInv /\ PendingInv /\ FieldInv /\ RepeatedInv /\ DoneInv /\ AckInv
  BY DEF Inv
<1>2. /\ pc = "next" /\ pc' = "input" /\ job \in JobSet /\ job \notin done /\ file' = file /\ done' = done
      /\ job' = job /\ step' = 1 /\ kind' = kind /\ cut' = cut /\ wrongAck' = wrongAck
  BY DEF BeginJob, JobSet
<1>3. UNCHANGED <<editor, late>>
  BY DEF BeginJob, JobSet
<1>4. /\ PendingInv' /\ Editor' \in EditorType
      /\ pending' \in Seq(InputType) /\ \A i \in 1..Len(pending') : pending'[i].late
  BY <1>1, <1>3, Untouched
<1>5. /\ top' = top /\ field' = field /\ shown' = shown /\ clip' = clip
      /\ pending' = pending /\ applied' = applied /\ late' = late
  BY <1>1, <1>3, Untouched
<1>6. FillStep' = FillStep /\ ChangeStep' = ChangeStep /\ HasState' = HasState /\ Steps' = Steps
  BY <1>2 DEF FillStep, ChangeStep, HasState, Steps
<1>7. TypeInv'
  <2>1. kind' \in Kinds /\ late' \in SUBSET JobSet /\ cut' \in [JobSet -> Nat]
    BY <1>1, <1>2, <1>5 DEF TypeInv
  <2>2. file' # << >> => file' = <<file'[1]>> /\ file'[1] \in SUBSET JobSet
    BY <1>1, <1>2 DEF TypeInv
  <2>3. step' \in Nat \ {0} /\ job' \in Nat
    BY <1>1, <1>2 DEF TypeInv
  <2>4. done' \in SUBSET JobSet
    BY <1>1, <1>2 DEF TypeInv
  <2> QED
    BY <1>4, <2>1, <2>2, <2>3, <2>4 DEF TypeInv
<1>13. ~(FillStep < 1) /\ ~(1 > ChangeStep)
  <2>1. FillStep \in 1..ChangeStep /\ ChangeStep \in 1..Len(Steps)
    BY <1>1, Scripts DEF TypeInv, ScriptShape
  <2> QED
    BY <2>1
<1>8. PlaceInv'
  BY <1>1, <1>2, <1>6 DEF PlaceInv, InJob
<1>9. FieldInv'
  BY <1>2, <1>6, <1>13 DEF FieldInv
<1>10. RepeatedInv'
  <2> SUFFICES ASSUME HasState, NEW j \in JobSet \ late
               PROVE  applied[j] <= 1 + cut[j] /\ (Fresh(j)' => applied[j] <= cut[j])
    BY <1>2, <1>5, <1>6 DEF RepeatedInv
  <2>1. Fresh(j)' => Fresh(j)
    BY <1>1, <1>2, <1>6 DEF Fresh, InJob, PlaceInv
  <2> QED
    BY <1>1, <2>1 DEF RepeatedInv
<1>11. DoneInv'
  <2>1. kind \notin {"spans", "residuals"} => DoneIsApplied'
    BY <1>1, <1>2, <1>5 DEF DoneInv, DoneIsApplied
  <2> QED
    BY <1>2, <1>6, <1>13, <2>1 DEF DoneInv, InJob
<1>12. AckInv'
  BY <1>1, <1>2, <1>5 DEF AckInv
<1> QED
  BY <1>4, <1>7, <1>8, <1>9, <1>10, <1>11, <1>12 DEF Inv

LEMMA CheckResultKeeps ==
  ASSUME Inv, CheckResult
  PROVE  Inv'
<1>1. TypeInv /\ PlaceInv /\ PendingInv /\ FieldInv /\ RepeatedInv /\ DoneInv /\ AckInv
  BY DEF Inv
<1>2. /\ pc = "check" /\ pc' = "input" /\ clip /\ file' = file /\ done' = done
      /\ job' = job /\ step' = step /\ kind' = kind /\ cut' = cut /\ wrongAck' = wrongAck
  BY DEF CheckResult
<1>3. UNCHANGED <<editor, late>>
  BY DEF CheckResult
<1>4. /\ PendingInv' /\ Editor' \in EditorType
      /\ pending' \in Seq(InputType) /\ \A i \in 1..Len(pending') : pending'[i].late
  BY <1>1, <1>3, Untouched
<1>5. /\ top' = top /\ field' = field /\ shown' = shown /\ clip' = clip
      /\ pending' = pending /\ applied' = applied /\ late' = late
  BY <1>1, <1>3, Untouched
<1>6. FillStep' = FillStep /\ ChangeStep' = ChangeStep /\ HasState' = HasState /\ Steps' = Steps
  BY <1>2 DEF FillStep, ChangeStep, HasState, Steps
<1>7. TypeInv'
  <2>1. kind' \in Kinds /\ late' \in SUBSET JobSet /\ cut' \in [JobSet -> Nat]
    BY <1>1, <1>2, <1>5 DEF TypeInv
  <2>2. file' # << >> => file' = <<file'[1]>> /\ file'[1] \in SUBSET JobSet
    BY <1>1, <1>2 DEF TypeInv
  <2>3. step' \in Nat \ {0} /\ job' \in Nat
    BY <1>1, <1>2 DEF TypeInv
  <2>4. done' \in SUBSET JobSet
    BY <1>1, <1>2 DEF TypeInv
  <2> QED
    BY <1>4, <2>1, <2>2, <2>3, <2>4 DEF TypeInv
<1>13. ~(step <= ChangeStep)
  <2>1. step = 6 /\ kind = "comments"
    BY <1>1, <1>2 DEF PlaceInv
  <2>2. ChangeStep = 4
    BY <2>1 DEF ChangeStep
  <2> QED
    BY <2>1, <2>2
<1>8. PlaceInv'
  BY <1>1, <1>2, <1>6 DEF PlaceInv, InJob
<1>9. FieldInv'
  BY <1>2, <1>6, <1>13 DEF FieldInv
<1>10. RepeatedInv'
  <2> SUFFICES ASSUME HasState, NEW j \in JobSet \ late
               PROVE  applied[j] <= 1 + cut[j] /\ (Fresh(j)' => applied[j] <= cut[j])
    BY <1>2, <1>5, <1>6 DEF RepeatedInv
  <2>1. Fresh(j)' => Fresh(j)
    BY <1>1, <1>2, <1>6 DEF Fresh, InJob, PlaceInv
  <2> QED
    BY <1>1, <2>1 DEF RepeatedInv
<1>11. DoneInv'
  <2>1. kind \notin {"spans", "residuals"} => DoneIsApplied'
    BY <1>1, <1>2, <1>5 DEF DoneInv, DoneIsApplied
  <2> QED
    BY <1>1, <1>2, <1>5, <1>6, <2>1 DEF DoneInv, InJob
<1>12. AckInv'
  BY <1>1, <1>2, <1>5 DEF AckInv
<1> QED
  BY <1>4, <1>7, <1>8, <1>9, <1>10, <1>11, <1>12 DEF Inv

LEMMA JobEndsKeeps ==
  ASSUME Inv, JobEnds
  PROVE  Inv'
<1>1. TypeInv /\ PlaceInv /\ PendingInv /\ FieldInv /\ RepeatedInv /\ DoneInv /\ AckInv
  BY DEF Inv
<1>2. /\ pc = "input" /\ pc' = "write" /\ step \notin DOMAIN Steps /\ (WaitsAtEnd => top = Base) /\ file' = file
      /\ done' = done \cup {job} /\ job' = job /\ step' = step /\ kind' = kind /\ cut' = cut /\ wrongAck' = wrongAck
  BY DEF JobEnds
<1>3. UNCHANGED <<editor, late>>
  BY DEF JobEnds
<1>4. /\ PendingInv' /\ Editor' \in EditorType
      /\ pending' \in Seq(InputType) /\ \A i \in 1..Len(pending') : pending'[i].late
  BY <1>1, <1>3, Untouched
<1>5. /\ top' = top /\ field' = field /\ shown' = shown /\ clip' = clip
      /\ pending' = pending /\ applied' = applied /\ late' = late
  BY <1>1, <1>3, Untouched
<1>6. FillStep' = FillStep /\ ChangeStep' = ChangeStep /\ HasState' = HasState /\ Steps' = Steps
  BY <1>2 DEF FillStep, ChangeStep, HasState, Steps
<1>7. TypeInv'
  <2>1. kind' \in Kinds /\ late' \in SUBSET JobSet /\ cut' \in [JobSet -> Nat]
    BY <1>1, <1>2, <1>5 DEF TypeInv
  <2>2. file' # << >> => file' = <<file'[1]>> /\ file'[1] \in SUBSET JobSet
    BY <1>1, <1>2 DEF TypeInv
  <2>3. step' \in Nat \ {0} /\ job' \in Nat
    BY <1>1, <1>2 DEF TypeInv
  <2>4. done' \in SUBSET JobSet
    BY <1>1, <1>2 DEF TypeInv, PlaceInv, InJob
  <2> QED
    BY <1>4, <2>1, <2>2, <2>3, <2>4 DEF TypeInv
<1>13. step > ChangeStep /\ (step = ChangeStep + 1 => ChangeStep + 1 > Len(Steps))
  <2>1. /\ FillStep \in 1..ChangeStep /\ ChangeStep \in 1..Len(Steps) /\ Len(Steps) \in Nat
        /\ DOMAIN Steps = 1..Len(Steps)
    BY <1>1, Scripts DEF TypeInv, ScriptShape
  <2>2. step \in Nat \ {0} /\ step \notin 1..Len(Steps)
    BY <1>1, <1>2, <2>1 DEF TypeInv
  <2> QED
    BY <2>1, <2>2
<1>8. PlaceInv'
  BY <1>1, <1>2, <1>6 DEF PlaceInv, InJob
<1>9. FieldInv'
  BY <1>2 DEF FieldInv
<1>10. RepeatedInv'
  <2> SUFFICES ASSUME HasState, NEW j \in JobSet \ late
               PROVE  applied[j] <= 1 + cut[j] /\ (Fresh(j)' => applied[j] <= cut[j])
    BY <1>2, <1>5, <1>6 DEF RepeatedInv
  <2>1. Fresh(j)' => Fresh(j)
    BY <1>1, <1>2, <1>6 DEF Fresh, InJob, PlaceInv
  <2> QED
    BY <1>1, <2>1 DEF RepeatedInv
<1>11. DoneInv'
  <2> SUFFICES ASSUME kind \notin {"spans", "residuals"}
               PROVE  DoneIsApplied' /\ (job \notin late => applied[job] > 0)
    BY <1>2, <1>5 DEF DoneInv, InJob
  <2>1. DoneIsApplied'
    BY <1>1, <1>2, <1>5 DEF DoneInv, DoneIsApplied
  <2>2. ~(step = ChangeStep + 1 /\ top = Steps[ChangeStep].window)
    <3>1. ScriptShape
      BY <1>1, Scripts DEF TypeInv
    <3> QED
      BY <1>2, <1>13, <3>1 DEF ScriptShape
  <2>3. job \notin late => applied[job] > 0
    BY <1>1, <1>2, <1>13, <2>2 DEF DoneInv, InJob
  <2> QED
    BY <2>1, <2>3
<1>12. AckInv'
  BY <1>1, <1>2, <1>5 DEF AckInv
<1> QED
  BY <1>4, <1>7, <1>8, <1>9, <1>10, <1>11, <1>12 DEF Inv

LEMMA WriteStateKeeps ==
  ASSUME Inv, WriteState
  PROVE  Inv'
<1>1. TypeInv /\ PlaceInv /\ PendingInv /\ FieldInv /\ RepeatedInv /\ DoneInv /\ AckInv
  BY DEF Inv
<1>2. /\ pc = "write" /\ pc' = "next" /\ file' = (IF HasState THEN <<done>> ELSE file)
      /\ done' = done /\ job' = job + 1 /\ step' = step /\ kind' = kind /\ cut' = cut /\ wrongAck' = wrongAck
  BY DEF WriteState
<1>3. UNCHANGED <<editor, late>>
  BY DEF WriteState
<1>4. /\ PendingInv' /\ Editor' \in EditorType
      /\ pending' \in Seq(InputType) /\ \A i \in 1..Len(pending') : pending'[i].late
  BY <1>1, <1>3, Untouched
<1>5. /\ top' = top /\ field' = field /\ shown' = shown /\ clip' = clip
      /\ pending' = pending /\ applied' = applied /\ late' = late
  BY <1>1, <1>3, Untouched
<1>6. FillStep' = FillStep /\ ChangeStep' = ChangeStep /\ HasState' = HasState /\ Steps' = Steps
  BY <1>2 DEF FillStep, ChangeStep, HasState, Steps
<1>7. TypeInv'
  <2>1. kind' \in Kinds /\ late' \in SUBSET JobSet /\ cut' \in [JobSet -> Nat]
    BY <1>1, <1>2, <1>5 DEF TypeInv
  <2>2. file' # << >> => file' = <<file'[1]>> /\ file'[1] \in SUBSET JobSet
    BY <1>1, <1>2 DEF TypeInv
  <2>3. step' \in Nat \ {0} /\ job' \in Nat
    BY <1>1, <1>2 DEF TypeInv
  <2>4. done' \in SUBSET JobSet
    BY <1>1, <1>2 DEF TypeInv
  <2> QED
    BY <1>4, <2>1, <2>2, <2>3, <2>4 DEF TypeInv
<1>13. file # << >> /\ job \in JobSet /\ (HasState => done = file[1] \cup {job}) /\ file' # << >>
  BY <1>1, <1>2 DEF PlaceInv
<1>14. HasState => file'[1] = file[1] \cup {job}
  BY <1>2, <1>13
<1>8. PlaceInv'
  BY <1>1, <1>2, <1>6 DEF PlaceInv, InJob
<1>9. FieldInv'
  BY <1>2 DEF FieldInv
<1>10. RepeatedInv'
  <2> SUFFICES ASSUME HasState, NEW j \in JobSet \ late
               PROVE  applied[j] <= 1 + cut[j] /\ (Fresh(j)' => applied[j] <= cut[j])
    BY <1>2, <1>5, <1>6 DEF RepeatedInv
  <2>1. Fresh(j)' => Fresh(j)
    BY <1>2, <1>13, <1>14 DEF Fresh, InJob
  <2> QED
    BY <1>1, <2>1 DEF RepeatedInv
<1>11. DoneInv'
  <2>1. kind \notin {"spans", "residuals"} => DoneIsApplied'
    <3> SUFFICES ASSUME kind \notin {"spans", "residuals"}, NEW j \in file'[1] \ late
                 PROVE  applied[j] > 0
      BY <1>5 DEF DoneIsApplied
    <3>1. \A k \in file[1] \ late : applied[k] > 0
      BY <1>1, <1>13 DEF DoneInv, DoneIsApplied
    <3>2. job \notin late => applied[job] > 0
      BY <1>1, <1>2 DEF DoneInv
    <3> QED
      BY <1>2, <1>14, <3>1, <3>2
  <2> QED
    BY <1>2, <2>1 DEF DoneInv, InJob
<1>12. AckInv'
  BY <1>1, <1>2, <1>5 DEF AckInv
<1> QED
  BY <1>4, <1>7, <1>8, <1>9, <1>10, <1>11, <1>12 DEF Inv

LEMMA FinishKeeps ==
  ASSUME Inv, Finish
  PROVE  Inv'
<1>1. TypeInv /\ PlaceInv /\ PendingInv /\ FieldInv /\ RepeatedInv /\ DoneInv /\ AckInv
  BY DEF Inv
<1>2. /\ pc = "next" /\ pc' = "idle" /\ file' = file /\ done' = {} /\ job' = 0 /\ step' = 1
      /\ kind' = kind /\ cut' = cut /\ wrongAck' = wrongAck
  BY DEF Finish
<1>3. UNCHANGED <<editor, late>>
  BY DEF Finish
<1>4. /\ PendingInv' /\ Editor' \in EditorType
      /\ pending' \in Seq(InputType) /\ \A i \in 1..Len(pending') : pending'[i].late
  BY <1>1, <1>3, Untouched
<1>5. /\ top' = top /\ field' = field /\ shown' = shown /\ clip' = clip
      /\ pending' = pending /\ applied' = applied /\ late' = late
  BY <1>1, <1>3, Untouched
<1>6. FillStep' = FillStep /\ ChangeStep' = ChangeStep /\ HasState' = HasState /\ Steps' = Steps
  BY <1>2 DEF FillStep, ChangeStep, HasState, Steps
<1>7. TypeInv'
  <2>1. kind' \in Kinds /\ late' \in SUBSET JobSet /\ cut' \in [JobSet -> Nat]
    BY <1>1, <1>2, <1>5 DEF TypeInv
  <2>2. file' # << >> => file' = <<file'[1]>> /\ file'[1] \in SUBSET JobSet
    BY <1>1, <1>2 DEF TypeInv
  <2>3. step' \in Nat \ {0} /\ job' \in Nat
    BY <1>1, <1>2 DEF TypeInv
  <2>4. done' \in SUBSET JobSet
    BY <1>2
  <2> QED
    BY <1>4, <2>1, <2>2, <2>3, <2>4 DEF TypeInv
<1>8. PlaceInv'
  BY <1>1, <1>2, <1>6 DEF PlaceInv, InJob
<1>9. FieldInv'
  BY <1>2 DEF FieldInv
<1>10. RepeatedInv'
  <2> SUFFICES ASSUME HasState, NEW j \in JobSet \ late
               PROVE  applied[j] <= 1 + cut[j] /\ (Fresh(j)' => applied[j] <= cut[j])
    BY <1>2, <1>5, <1>6 DEF RepeatedInv
  <2>1. Fresh(j)' => Fresh(j)
    BY <1>1, <1>2, <1>6 DEF Fresh, InJob, PlaceInv
  <2> QED
    BY <1>1, <2>1 DEF RepeatedInv
<1>11. DoneInv'
  <2>1. kind \notin {"spans", "residuals"} => DoneIsApplied'
    BY <1>1, <1>2, <1>5 DEF DoneInv, DoneIsApplied
  <2> QED
    BY <1>2, <2>1 DEF DoneInv, InJob
<1>12. AckInv'
  BY <1>1, <1>2, <1>5 DEF AckInv
<1> QED
  BY <1>4, <1>7, <1>8, <1>9, <1>10, <1>11, <1>12 DEF Inv

LEMMA CatchUpKeeps ==
  ASSUME Inv, CatchUp
  PROVE  Inv'
<1>1. TypeInv /\ PlaceInv /\ PendingInv /\ FieldInv /\ RepeatedInv /\ DoneInv /\ AckInv
  BY DEF Inv
<1>2. /\ pending # << >> /\ Land(<< >>) /\ kind' = kind /\ file' = file /\ pc' = pc /\ step' = step
      /\ job' = job /\ done' = done /\ cut' = cut /\ wrongAck' = wrongAck
  BY DEF CatchUp, script
<1>3. PICK e : /\ LateResult(e) /\ Editor' = After(e, << >>) /\ pending' = << >>
               /\ late' = IF job \in JobSet THEN late \cup {job} ELSE late
  <2>1. << >> \in Seq(InputType)
    OBVIOUS
  <2> QED
    BY <1>1, <1>2, <2>1, Landing
<1>4. Editor' = e /\ e \in EditorType
  BY <1>3, AfterFew DEF LateResult
<1>5. field' = e.field /\ applied' = e.applied
  BY <1>4 DEF Editor
<1>6. /\ late \subseteq late' /\ late' \in SUBSET JobSet /\ late' # {}
      /\ job \in JobSet => job \in late'
  BY <1>1, <1>2, <1>3 DEF TypeInv, AckInv
<1>7. \A j \in JobSet \ late' : applied'[j] = applied[j]
  BY <1>3, <1>5, <1>6 DEF LateResult
<1>8. FillStep' = FillStep /\ ChangeStep' = ChangeStep /\ HasState' = HasState /\ InJob' = InJob
  BY <1>2 DEF FillStep, ChangeStep, HasState, InJob
<1>9. TypeInv'
  <2>1. kind' \in Kinds /\ cut' \in [JobSet -> Nat]
    BY <1>1, <1>2 DEF TypeInv
  <2>2. file' # << >> => file' = <<file'[1]>> /\ file'[1] \in SUBSET JobSet
    BY <1>1, <1>2 DEF TypeInv
  <2>3. step' \in Nat \ {0} /\ job' \in Nat /\ done' \in SUBSET JobSet
    BY <1>1, <1>2 DEF TypeInv
  <2>4. pending' \in Seq(InputType) /\ \A i \in 1..Len(pending') : pending'[i].late
    BY <1>3
  <2> QED
    BY <1>4, <1>6, <2>1, <2>2, <2>3, <2>4 DEF TypeInv
<1>10. PlaceInv'
  BY <1>1, <1>2, <1>8 DEF PlaceInv, InJob
<1>11. PendingInv'
  <2>1. 1..Len(pending') = {}
    BY <1>3
  <2> QED
    BY <2>1 DEF PendingInv
<1>12. FieldInv'
  <2> SUFFICES ASSUME pc = "input", FillStep < step, step <= ChangeStep
               PROVE  (job \notin late' => field' = job) /\ field' \in {0, job}
    BY <1>2, <1>8 DEF FieldInv
  <2>1. job \in JobSet
    BY <1>1 DEF PlaceInv, InJob
  <2>2. field \in {0, job} \/ \E k \in 1..Len(pending) : Fills(k)
    BY <1>1 DEF FieldInv
  <2> QED
    BY <1>3, <1>5, <1>6, <2>1, <2>2 DEF LateResult
<1>13. RepeatedInv'
  <2> SUFFICES ASSUME HasState, NEW j \in JobSet \ late'
               PROVE  applied'[j] <= 1 + cut[j] /\ (Fresh(j)' => applied'[j] <= cut[j])
    BY <1>2, <1>8 DEF RepeatedInv
  <2>1. Fresh(j)' => Fresh(j)
    BY <1>2, <1>8 DEF Fresh
  <2>2. applied'[j] = applied[j] /\ j \in JobSet \ late
    BY <1>6, <1>7
  <2> QED
    BY <1>1, <2>1, <2>2 DEF RepeatedInv
<1>14. DoneInv'
  <2>1. kind \notin {"spans", "residuals"} => DoneIsApplied'
    <3> SUFFICES ASSUME kind \notin {"spans", "residuals"}, file # << >>, NEW j \in file[1] \ late'
                 PROVE  applied'[j] > 0
      BY <1>2 DEF DoneIsApplied
    <3>1. j \in JobSet \ late' /\ j \in file[1] \ late
      BY <1>1, <1>6 DEF TypeInv
    <3>2. applied[j] > 0
      BY <1>1, <3>1 DEF DoneInv, DoneIsApplied
    <3> QED
      BY <1>7, <3>1, <3>2
  <2>2. InJob \/ pc = "write" => job \in late'
    BY <1>1, <1>6 DEF PlaceInv
  <2> QED
    BY <1>2, <1>8, <2>1, <2>2 DEF DoneInv
<1>15. AckInv'
  BY <1>6 DEF AckInv
<1> QED
  BY <1>9, <1>10, <1>11, <1>12, <1>13, <1>14, <1>15 DEF Inv

LEMMA ClosesKeeps ==
  ASSUME Inv, OperatorCloses
  PROVE  Inv'
<1>1. TypeInv /\ PlaceInv /\ PendingInv /\ FieldInv /\ RepeatedInv /\ DoneInv /\ AckInv
  BY DEF Inv
<1>2. /\ pc = "idle" /\ top' = Base /\ kind' = kind /\ file' = file /\ pc' = pc /\ step' = step
      /\ job' = job /\ done' = done /\ cut' = cut /\ wrongAck' = wrongAck
      /\ field' = field /\ shown' = shown /\ clip' = clip /\ pending' = pending
      /\ applied' = applied /\ late' = late
  BY DEF OperatorCloses, script
<1>3. HasState' = HasState /\ ~InJob' /\ ~InJob
  BY <1>2 DEF HasState, InJob
<1>4. TypeInv'
  <2>1. Base \in Windows
    BY DEF Base, Windows
  <2>2. Editor' = [top |-> Base, field |-> field, shown |-> shown, clip |-> clip, applied |-> applied]
    BY <1>2 DEF Editor
  <2>3. Editor' \in EditorType
    BY <1>1, <2>1, <2>2 DEF TypeInv, Editor, EditorType
  <2>4. kind' \in Kinds /\ cut' \in [JobSet -> Nat] /\ late' \in SUBSET JobSet
    BY <1>1, <1>2 DEF TypeInv
  <2>5. file' # << >> => file' = <<file'[1]>> /\ file'[1] \in SUBSET JobSet
    BY <1>1, <1>2 DEF TypeInv
  <2>6. step' \in Nat \ {0} /\ job' \in Nat /\ done' \in SUBSET JobSet
    BY <1>1, <1>2 DEF TypeInv
  <2>7. pending' \in Seq(InputType) /\ \A i \in 1..Len(pending') : pending'[i].late
    BY <1>1, <1>2 DEF TypeInv
  <2> QED
    BY <2>3, <2>4, <2>5, <2>6, <2>7 DEF TypeInv
<1>5. PlaceInv'
  BY <1>1, <1>2, <1>3 DEF PlaceInv
<1>6. PendingInv'
  BY <1>1, <1>2 DEF PendingInv, Fills
<1>7. FieldInv'
  BY <1>2 DEF FieldInv
<1>8. RepeatedInv'
  <2>1. \A j \in JobSet : Fresh(j)' => Fresh(j)
    BY <1>2, <1>3 DEF Fresh
  <2> QED
    BY <1>1, <1>2, <1>3, <2>1 DEF RepeatedInv
<1>9. DoneInv'
  BY <1>1, <1>2, <1>3 DEF DoneInv, DoneIsApplied
<1>10. AckInv'
  BY <1>1, <1>2 DEF AckInv
<1> QED
  BY <1>4, <1>5, <1>6, <1>7, <1>8, <1>9, <1>10 DEF Inv

\* A step in which nothing changes keeps the invariant.
LEMMA StutterKeeps ==
  ASSUME Inv, UNCHANGED vars
  PROVE  Inv'
<1>1. UNCHANGED <<kind, file, pc, step, job, done, cut, wrongAck>> /\ UNCHANGED <<editor, late>>
  BY DEF vars, script
<1>2. UNCHANGED <<top, field, shown, clip, pending, applied, late>>
  BY <1>1 DEF editor
<1>3. /\ kind' = kind /\ file' = file /\ pc' = pc /\ step' = step /\ job' = job /\ done' = done
      /\ cut' = cut /\ wrongAck' = wrongAck /\ top' = top /\ field' = field /\ shown' = shown
      /\ clip' = clip /\ pending' = pending /\ applied' = applied /\ late' = late
  BY <1>1, <1>2
<1>4. TypeInv' <=> TypeInv
  BY <1>3 DEF TypeInv, Editor
<1>5. PlaceInv' <=> PlaceInv
  BY <1>3 DEF PlaceInv, InJob, HasState
<1>6. PendingInv' <=> PendingInv
  BY <1>3 DEF PendingInv, Fills
<1>7. FieldInv' <=> FieldInv
  BY <1>3 DEF FieldInv, FillStep, ChangeStep, Fills
<1>8. RepeatedInv' <=> RepeatedInv
  BY <1>3 DEF RepeatedInv, Fresh, InJob, HasState, ChangeStep
<1>9. DoneInv' <=> DoneInv
  <2>1. ChangeStep' = ChangeStep /\ Steps' = Steps
    BY <1>3 DEF ChangeStep, Steps
  <2> QED
    BY <1>3, <2>1 DEF DoneInv, DoneIsApplied, InJob
<1>10. AckInv' <=> AckInv
  BY <1>3 DEF AckInv
<1> QED
  BY <1>4, <1>5, <1>6, <1>7, <1>8, <1>9, <1>10 DEF Inv

\* The invariant holds at the beginning.
LEMMA Initially ==
  ASSUME Init
  PROVE  Inv
<1>1. /\ kind \in Kinds /\ top = Base /\ field = 0 /\ shown = TRUE /\ clip = FALSE /\ pending = << >>
      /\ applied = [j \in JobSet |-> 0] /\ file = <<{}>> /\ pc = "idle" /\ step = 1 /\ job = 0
      /\ done = {} /\ late = {} /\ cut = [j \in JobSet |-> 0] /\ wrongAck = FALSE
  BY DEF Init, JobSet
<1>2. TypeInv
  <2>1. Editor \in EditorType
    BY <1>1 DEF Editor, EditorType, Base, Windows
  <2>2. file = <<file[1]>> /\ file[1] \in SUBSET JobSet
    BY <1>1
  <2> QED
    BY <1>1, <2>1, <2>2 DEF TypeInv
<1>3. PlaceInv
  BY <1>1 DEF PlaceInv, InJob
<1>4. PendingInv
  BY <1>1 DEF PendingInv
<1>5. FieldInv
  BY <1>1 DEF FieldInv
<1>6. RepeatedInv
  <2>1. \A j \in JobSet : applied[j] = 0 /\ cut[j] = 0
    BY <1>1
  <2> QED
    BY <2>1 DEF RepeatedInv
<1>7. DoneInv
  BY <1>1 DEF DoneInv, DoneIsApplied, InJob
<1>8. AckInv
  BY <1>1 DEF AckInv
<1> QED
  BY <1>2, <1>3, <1>4, <1>5, <1>6, <1>7, <1>8 DEF Inv

-----------------------------------------------------------------------------
(* The theorems. *)

\* The invariant holds.
LEMMA Always == Spec => []Inv
<1>1. Init => Inv
  BY Initially
<1>2. Inv /\ [Next]_vars => Inv'
  <2> SUFFICES ASSUME Inv, [Next]_vars
               PROVE  Inv'
    OBVIOUS
  <2>1. CASE StartRun
    BY <2>1, StartRunKeeps
  <2>2. CASE SkipDone
    BY <2>2, SkipDoneKeeps
  <2>3. CASE BeginJob
    BY <2>3, BeginJobKeeps
  <2>4. CASE DoStep
    BY <2>4, DoStepKeeps
  <2>5. CASE CheckResult
    BY <2>5, CheckResultKeeps
  <2>6. CASE StepFails
    BY <2>6, FailsKeeps
  <2>7. CASE JobEnds
    BY <2>7, JobEndsKeeps
  <2>8. CASE WriteState
    BY <2>8, WriteStateKeeps
  <2>9. CASE Finish
    BY <2>9, FinishKeeps
  <2>10. CASE CatchUp
    BY <2>10, CatchUpKeeps
  <2>11. CASE Kill
    BY <2>11, KillKeeps
  <2>12. CASE OperatorCloses
    BY <2>12, ClosesKeeps
  <2>13. CASE UNCHANGED vars
    BY <2>13, StutterKeeps
  <2> QED
    BY <2>1, <2>2, <2>3, <2>4, <2>5, <2>6, <2>7, <2>8, <2>9, <2>10, <2>11, <2>12, <2>13 DEF Next, Script
<1> QED
  BY <1>1, <1>2, PTL DEF Spec

(***************************************************************************)
(* What the state file of a script that looks for its windows calls done was  *)
(* carried out by the editor, however calls failed, unless one of the job's   *)
(* inputs was processed late (import_module, rename_program, replace_one and  *)
(* their state files).  A script that looks for the Search window only once   *)
(* violates it: batch_stale_result.                                         *)
(***************************************************************************)
THEOREM DoneTrue == "spans" \notin Kinds => (Spec => []DoneIsApplied)
<1> SUFFICES ASSUME "spans" \notin Kinds
             PROVE  Spec => []DoneIsApplied
  OBVIOUS
<1>1. Inv => DoneIsApplied
  <2> SUFFICES ASSUME Inv
               PROVE  DoneIsApplied
    OBVIOUS
  <2>1. kind \in Kinds /\ kind # "spans"
    BY DEF Inv, TypeInv
  <2>2. CASE kind = "residuals"
    BY <2>2 DEF Inv, PlaceInv, HasState, DoneIsApplied
  <2>3. CASE kind # "residuals"
    BY <2>1, <2>3 DEF Inv, DoneInv
  <2> QED
    BY <2>2, <2>3
<1> QED
  BY <1>1, Always, PTL

(***************************************************************************)
(* A job is carried out once more than runs ended in the middle of it, at the *)
(* most: "never repeat the mutation" (the state files, and the jobs they make *)
(* the scripts skip).                                                       *)
(***************************************************************************)
THEOREM SeldomRepeated == Spec => []RepeatedOnlyIfCut
<1>1. Inv => RepeatedOnlyIfCut
  BY DEF Inv, RepeatedInv, RepeatedOnlyIfCut, JobSet
<1> QED
  BY <1>1, Always, PTL

(***************************************************************************)
(* A result that does not name the job's number of rows is never              *)
(* acknowledged (import_module of import-kvstudio-local-comments.py), unless   *)
(* an input was processed late.                                             *)
(***************************************************************************)
THEOREM AcknowledgedExactly == Spec => []AckIsExact
<1>1. Inv => AckIsExact
  BY DEF Inv, AckInv, AckIsExact
<1> QED
  BY <1>1, Always, PTL
=============================================================================
